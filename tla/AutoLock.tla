------------------------------ MODULE AutoLock ------------------------------
(***************************************************************************)
(* Passage mode and the prediction of auto-locking (coordinator.py) over   *)
(* time.  A webhook about an unlock starts a timer, unless the schedule of *)
(* passage mode had the lock stay open at the moment of the unlock; when   *)
(* the timer ends the lock is shown as locked, without asking it.          *)
(*                                                                         *)
(* The lock itself is external: it reports unlocks late, out of order and  *)
(* stamped by a clock of its own.  There are no polls here: a lock with a  *)
(* confirmed webhook may have none.                                        *)
(***************************************************************************)
EXTENDS Integers, FiniteSets

CONSTANTS
    DayLength,  \* minutes of a day; the code has 1440
    WeekLength, \* days of a week; the code has 7
    Delay,      \* auto_lock_seconds while auto-lock is on, in minutes
    Configs,    \* passage mode configurations: some of PassageModeConfig
    Skews,      \* by how much the lock's clock may be ahead
    MaxTime,    \* bound: the last moment
    MaxUnlocks, \* bound: unlocks
    MaxChanges  \* bound: changes of the settings

ASSUME TimeAssumption == {DayLength, WeekLength, Delay} \subseteq Nat \ {0}
ASSUME SkewAssumption == Skews \subseteq Int
ASSUME BoundAssumption == {MaxTime, MaxUnlocks, MaxChanges} \subseteq Nat

VARIABLES
    now,       \* the time, as Home Assistant and the server know it
    config,    \* data.passage_mode_config, and the lock's own
    delay,     \* data.auto_lock_seconds, and the lock's own
    bolt,      \* external: the lock
    opened,    \* external: when it was last unlocked
    records,   \* external: unlocks that the lock has not reported yet
    mail,      \* external: webhooks about unlocks on their way
    timers,    \* when the _auto_locked tasks asleep wake up
    shown,     \* data.locked
    unlocks, changes, \* what is used of the bounds
    disturbed  \* history: has something come between an unlock and its end

settings == <<config, delay>>
lockVars == <<bolt, opened, records>>
bounds == <<unlocks, changes>>
vars == <<now, settings, lockVars, mail, timers, shown, bounds, disturbed>>

-----------------------------------------------------------------------------
(* Passage mode *)

Time == 0..MaxTime
Minute == 0..(DayLength - 1)
WeekDay == 1..WeekLength

\* `enabled` and `allDay` are OnOff, which is true for "on" alone.
PassageModeConfig == [enabled : BOOLEAN, allDay : BOOLEAN,
                      start : Minute, end : Minute, days : SUBSET WeekDay]

ASSUME ConfigAssumption == Configs \subseteq PassageModeConfig

MinuteOf(t) == t % DayLength
DayOf(t) == ((t \div DayLength) % WeekLength) + 1

\* passage_mode_active.  A period that ends before it starts is empty.
PassageModeActive(c, t) ==
    /\ c.enabled
    /\ DayOf(t) \in c.days
    /\ c.allDay \/ (c.start <= MinuteOf(t) /\ MinuteOf(t) < c.end)

\* auto_lock_delay is not None.
AutoLocks(t) == delay > 0 /\ ~PassageModeActive(config, t)

\* External: the minutes of the week in which the lock stays open - each day's
\* period as a set of minutes, behind those of the days before it.
OpenMinutes(c) ==
    {(d - 1) * DayLength + m : d \in c.days,
                               m \in IF c.allDay THEN Minute ELSE c.start..(c.end - 1)}
StaysOpen(t) == config.enabled /\ t % (DayLength * WeekLength) \in OpenMinutes(config)

-----------------------------------------------------------------------------

\* A webhook has the time of the lock and that of the server.
Event == [lock : Int, server : Time]

Init ==
    /\ now = 0
    /\ config \in Configs /\ delay \in {0, Delay}
    /\ bolt = "locked" /\ opened = 0 /\ records = {}
    /\ mail = {} /\ timers = {}
    /\ shown = "locked"
    /\ unlocks = 0 /\ changes = 0
    /\ disturbed = FALSE

\* The lock is open and may lock itself later, if auto-lock is on.
Waits == bolt = "unlocked" /\ now < opened + Delay
Pending == records # {} \/ mail # {} \/ timers # {}

-----------------------------------------------------------------------------
(* The lock *)

\* Somebody unlocks it, at a time that the lock's clock may get wrong.
Unlock ==
    /\ unlocks < MaxUnlocks /\ unlocks' = unlocks + 1
    /\ bolt' = "unlocked" /\ opened' = now
    /\ \E skew \in Skews :
          /\ now + skew >= 0
          /\ records' = records \cup {now + skew}
          /\ disturbed' = (disturbed \/ Waits \/ Pending \/ skew < 0
                                     \/ StaysOpen(now) # StaysOpen(now + skew))
    /\ UNCHANGED <<now, settings, mail, timers, shown, changes>>

\* It reports an unlock to the server, at once or much later.
Report ==
    /\ \E t \in records :
          /\ records' = records \ {t}
          /\ mail' = mail \cup {[lock |-> t, server |-> now]}
    /\ UNCHANGED <<now, settings, bolt, opened, timers, shown, bounds, disturbed>>

-----------------------------------------------------------------------------
(* LockUpdateCoordinator *)

Longer(a, b) == IF a < b THEN b ELSE a

\* Mutant: a report that seems to precede its unlock counts as late.
MessageAge(e) == Longer(e.server - e.lock, e.lock - e.server)

\* computed_msg_delay
MessageDelay(e) == Longer(0, e.server - e.lock)

\* Mutant: the schedule is asked for the time of the report.
HandleAutoLockReported(e) ==
    timers' = timers \cup {now + Longer(0, delay - MessageDelay(e)) :
                              t \in {t \in {e.server} : AutoLocks(t)}}

\* _handle_auto_lock: a task that sleeps for what is left of the delay.
HandleAutoLock(e) ==
    timers' = timers \cup {now + Longer(0, delay - MessageDelay(e)) :
                              t \in {t \in {e.lock} : AutoLocks(t)}}

\* _process_webhook_data
ProcessWebhook ==
    /\ \E e \in mail :
          /\ mail' = mail \ {e}
          /\ HandleAutoLock(e)
    /\ shown' = "unlocked"
    /\ UNCHANGED <<now, settings, lockVars, bounds, disturbed>>

\* _auto_locked, when its sleep has ended.
AutoLocked ==
    /\ \E t \in timers : t <= now /\ timers' = timers \ {t}
    /\ shown' = "locked"
    /\ UNCHANGED <<now, settings, lockVars, mail, bounds, disturbed>>

Change ==
    /\ changes < MaxChanges /\ changes' = changes + 1
    /\ disturbed' = (disturbed \/ Waits \/ Pending)
    /\ UNCHANGED <<now, lockVars, mail, timers, shown, unlocks>>

\* handle_configure_passage_mode: the lock, then the data.
ConfigurePassageMode ==
    /\ Change
    /\ config' \in Configs
    /\ UNCHANGED delay

\* set_auto_lock
SetAutoLock ==
    /\ Change
    /\ delay' \in {0, Delay}
    /\ UNCHANGED config

-----------------------------------------------------------------------------
(* Time passes.  Timers are not late, and the lock locks itself when its   *)
(* delay is over, unless its schedule has it stay open.                    *)

Tick ==
    /\ now < MaxTime /\ \A t \in timers : t > now
    /\ now' = now + 1
    /\ bolt' = IF delay > 0 /\ now' = opened + delay /\ ~StaysOpen(now')
               THEN "locked" ELSE bolt
    /\ disturbed' = (disturbed \/ (Waits /\ StaysOpen(now) # StaysOpen(now')))
    /\ UNCHANGED <<settings, opened, records, mail, timers, shown, bounds>>

Next ==
    \/ Unlock \/ Report \/ ProcessWebhook \/ AutoLocked
    \/ ConfigurePassageMode \/ SetAutoLock
    \/ Tick

Spec == Init /\ [][Next]_vars

-----------------------------------------------------------------------------
(* Correctness *)

TypeOK ==
    /\ now \in Time /\ opened \in 0..now
    /\ config \in PassageModeConfig /\ delay \in {0, Delay}
    /\ {bolt, shown} \subseteq {"locked", "unlocked"}
    /\ records \subseteq Int /\ mail \subseteq Event
    /\ timers \subseteq Nat /\ \A t \in timers : t <= now + Delay
    /\ bounds \in Nat \X Nat
    /\ disturbed \in BOOLEAN

\* The lock is not shown as locked before it has locked itself, however late its
\* report was and however far its clock is ahead - as long as it is not behind,
\* and no other unlock, change of settings or beginning or end of passage mode
\* came between the unlock and the lock's locking itself or its report.
SerialPredictionIsNotEarly ==
    [][~disturbed' /\ shown = "unlocked" /\ shown' = "locked" => bolt' = "locked"]_vars

\* Under the same condition the prediction is right in the end: once all is
\* reported and handled, the lock is shown as it is - whether it locked itself
\* or passage mode kept it open, and whether passage mode is over by the time
\* the report arrives.
SerialPredictionIsRight ==
    ~disturbed /\ ~Waits /\ ~Pending => shown = bolt

=============================================================================
