-------------------------- MODULE LockFeatures_proofs ------------------------
(***************************************************************************)
(* Theorems about two features that every lock has: AutoLock, for days and *)
(* weeks of any length, any delay, any configurations of passage mode and  *)
(* any skew of the lock's clock; DoorSensorProbe, for any number of polls, *)
(* of failures that make the verdict, of restarts and faults.              *)
(***************************************************************************)
EXTENDS AutoLock, DoorSensorProbe, TLAPS

-----------------------------------------------------------------------------
(* Passage mode: the code's test of the day and the minute, against the    *)
(* minutes of the week in which the lock stays open.                       *)

LEMMA DivMod ==
    ASSUME NEW a \in Nat, NEW b \in Nat \ {0}
    PROVE  a \div b \in Nat /\ a % b \in 0..(b - 1) /\ a = (a \div b) * b + (a % b)
  <1>1. a \div b \in Nat
    OBVIOUS
  <1>2. a % b \in 0..(b - 1)
    OBVIOUS
  <1>3. a = b * (a \div b) + (a % b)
    OBVIOUS
  <1> QED BY <1>1, <1>2, <1>3

LEMMA ModIsUnique ==
    ASSUME NEW a \in Nat, NEW b \in Nat \ {0}, NEW p \in Nat, NEW x \in 0..(b - 1),
           a = p * b + x
    PROVE  a % b = x
  <1>1. PICK q \in Nat, y \in 0..(b - 1) : y = a % b /\ a = q * b + y
    BY DivMod
  <1>2. CASE p < q
    <2>1. q * b >= p * b + b
      BY <1>2
    <2> QED BY <1>1, <2>1
  <1>3. CASE q < p
    <2>1. p * b >= q * b + b
      BY <1>3
    <2> QED BY <1>1, <2>1
  <1> QED BY <1>1, <1>2, <1>3

\* The minutes of a week, by day and minute of the day.
LEMMA MinutesOfWeek ==
    ASSUME NEW t \in Nat, NEW d \in WeekDay, NEW m \in Minute
    PROVE  t % (DayLength * WeekLength) = (d - 1) * DayLength + m
             <=> d = DayOf(t) /\ m = MinuteOf(t)
  <1> DEFINE q == t \div DayLength
             r == t % DayLength
             p == q \div WeekLength
             s == q % WeekLength
  <1>1. /\ q \in Nat /\ r \in 0..(DayLength - 1) /\ t = q * DayLength + r
    BY TimeAssumption, DivMod
  <1> HIDE DEF q, r
  <1>2. /\ p \in Nat /\ s \in 0..(WeekLength - 1) /\ q = p * WeekLength + s
    BY TimeAssumption, DivMod, <1>1
  <1> HIDE DEF p, s
  <1>3. t = p * (DayLength * WeekLength) + (s * DayLength + r)
    BY TimeAssumption, <1>1, <1>2
  <1>4. /\ s * DayLength + r \in 0..(DayLength * WeekLength - 1)
    BY TimeAssumption, <1>1, <1>2
  <1>5. t % (DayLength * WeekLength) = s * DayLength + r
    <2>1. DayLength * WeekLength \in Nat \ {0}
      BY TimeAssumption
    <2> QED BY <1>2, <1>3, <1>4, <2>1, ModIsUnique
  <1>6. s * DayLength + r = (d - 1) * DayLength + m <=> s = d - 1 /\ r = m
    BY TimeAssumption, <1>1, <1>2 DEF WeekDay, Minute
  <1> QED BY <1>2, <1>5, <1>6 DEF q, r, s, DayOf, MinuteOf, WeekDay

\* The code's test is right at every moment, for every configuration.
LEMMA StaysOpenWhenActive ==
    ASSUME config \in PassageModeConfig, NEW t \in Nat
    PROVE  PassageModeActive(config, t) <=> StaysOpen(t)
  <1> DEFINE Period(d) == IF config.allDay THEN Minute ELSE config.start..(config.end - 1)
  <1>1. /\ config.days \subseteq WeekDay /\ config.start \in Minute /\ config.end \in Minute
        /\ config.enabled \in BOOLEAN /\ config.allDay \in BOOLEAN
    BY DEF PassageModeConfig
  <1>2. \A d \in config.days : Period(d) \subseteq Minute
    BY <1>1, TimeAssumption DEF Minute
  <1>3. /\ DayOf(t) \in WeekDay /\ MinuteOf(t) \in Minute
    <2>1. t \div DayLength \in Nat /\ t % DayLength \in 0..(DayLength - 1)
      BY TimeAssumption, DivMod
    <2>2. (t \div DayLength) % WeekLength \in 0..(WeekLength - 1)
      BY <2>1, TimeAssumption, DivMod
    <2> QED BY <2>1, <2>2, TimeAssumption DEF DayOf, WeekDay, MinuteOf, Minute
  <1>4. StaysOpen(t) <=> /\ config.enabled
                         /\ \E d \in config.days : \E m \in Period(d) :
                              t % (DayLength * WeekLength) = (d - 1) * DayLength + m
    BY DEF StaysOpen, OpenMinutes
  <1>5. \A d \in config.days, m \in Minute :
          t % (DayLength * WeekLength) = (d - 1) * DayLength + m
            <=> d = DayOf(t) /\ m = MinuteOf(t)
    BY <1>1, MinutesOfWeek
  <1>6. StaysOpen(t) <=> /\ config.enabled /\ DayOf(t) \in config.days
                         /\ MinuteOf(t) \in Period(DayOf(t))
    <2> HIDE DEF Period
    <2> QED BY <1>2, <1>4, <1>5
  <1>7. MinuteOf(t) \in Period(DayOf(t))
          <=> config.allDay \/ (config.start <= MinuteOf(t) /\ MinuteOf(t) < config.end)
    BY <1>1, <1>3, TimeAssumption DEF Minute
  <1> QED BY <1>6, <1>7 DEF PassageModeActive

-----------------------------------------------------------------------------
(* The inductive invariant *)

\* The lock reports an unlock with a time at which passage mode was as it was then.
Fits(t) == t \in Nat /\ opened <= t /\ (StaysOpen(t) <=> StaysOpen(opened))

\* While the one unlock is being reported, every report fits it, a timer runs only
\* if the lock locks itself, and not for less than that takes.
PendingInv ==
    ~disturbed =>
        /\ \A t \in records : Fits(t)
        /\ \A e \in mail : Fits(e.lock) /\ e.server <= now
        /\ \A t \in timers : opened + Delay <= t /\ delay = Delay /\ ~StaysOpen(opened)
        /\ Pending =>
             /\ now < opened + Delay => bolt = "unlocked" /\ (StaysOpen(now) <=> StaysOpen(opened))
             /\ now >= opened + Delay => (bolt = "locked" <=> delay = Delay /\ ~StaysOpen(opened))

\* Once it has been, the lock is shown as it is, and will not lock itself any more.
SettledInv ==
    ~disturbed /\ ~Pending =>
        /\ shown = bolt
        /\ Waits => delay = 0 \/ StaysOpen(now)

AutoLockInv == TypeOK /\ PendingInv /\ SettledInv

-----------------------------------------------------------------------------
LEMMA LongerType ==
    ASSUME NEW a \in Int, NEW b \in Int
    PROVE  Longer(a, b) \in {a, b} /\ Longer(a, b) >= a /\ Longer(a, b) >= b
  BY DEF Longer

\* The timer for a report that has come by now ends within the delay, and not
\* before the delay after the unlock is over.
LEMMA TimerFits ==
    ASSUME TypeOK, NEW e \in Event
    PROVE  /\ now + Longer(0, delay - MessageDelay(e)) \in now..(now + Delay)
           /\ delay = Delay /\ opened <= e.lock /\ e.server <= now
                => opened + Delay <= now + Longer(0, delay - MessageDelay(e))
  <1>1. /\ now \in Nat /\ opened \in Nat /\ opened <= now /\ Delay \in Nat /\ delay \in {0, Delay}
        /\ e.lock \in Int /\ e.server \in Nat
    BY TimeAssumption, BoundAssumption DEF TypeOK, Event, Time
  <1>2. MessageDelay(e) \in Nat
        /\ (opened <= e.lock /\ e.server <= now => MessageDelay(e) <= now - opened)
    BY <1>1 DEF MessageDelay, Longer
  <1> QED BY <1>1, <1>2 DEF Longer

LEMMA InitInv == Init => AutoLockInv
  <1> SUFFICES ASSUME Init PROVE AutoLockInv
    OBVIOUS
  <1>1. TypeOK
    <2>1. now \in Time /\ opened \in 0..now /\ bounds \in Nat \X Nat
      BY BoundAssumption DEF Init, Time, bounds
    <2>2. config \in PassageModeConfig /\ delay \in {0, Delay}
      BY ConfigAssumption DEF Init
    <2> QED BY <2>1, <2>2 DEF Init, TypeOK
  <1>2. PendingInv /\ SettledInv
    BY DEF Init, PendingInv, SettledInv, Pending, Waits
  <1> QED BY <1>1, <1>2 DEF AutoLockInv

LEMMA UnlockInv == ASSUME AutoLockInv, Unlock PROVE AutoLockInv'
  <1> USE DEF AutoLockInv
  <1>1. PICK skew \in Skews :
          /\ now + skew >= 0
          /\ records' = records \cup {now + skew}
          /\ disturbed' = (disturbed \/ Waits \/ Pending \/ skew < 0
                                     \/ StaysOpen(now) # StaysOpen(now + skew))
    BY DEF Unlock
  <1>2. /\ bolt' = "unlocked" /\ opened' = now /\ unlocks' = unlocks + 1
        /\ UNCHANGED <<now, config, delay, mail, timers, shown, changes>>
        /\ now \in Nat /\ skew \in Int /\ now + skew \in Nat
    BY <1>1, SkewAssumption, BoundAssumption DEF Unlock, settings, TypeOK, Time
  <1>3. /\ disturbed' \in BOOLEAN
        /\ ~disturbed' => ~Pending /\ skew >= 0 /\ (StaysOpen(now) <=> StaysOpen(now + skew))
    <2>1. disturbed \in BOOLEAN
      BY DEF TypeOK
    <2>2. StaysOpen(now) \in BOOLEAN /\ StaysOpen(now + skew) \in BOOLEAN
      BY DEF StaysOpen
    <2>3. ~disturbed' => ~Pending /\ ~(skew < 0) /\ ~(StaysOpen(now) # StaysOpen(now + skew))
      BY <1>1
    <2>4. disturbed' \in BOOLEAN
      BY <1>1, <2>1
    <2> QED BY <1>2, <2>2, <2>3, <2>4
  <1>4. TypeOK'
    BY <1>1, <1>2, <1>3 DEF TypeOK, bounds, Time
  <1>5. \A t : StaysOpen(t)' <=> StaysOpen(t)
    BY <1>2 DEF StaysOpen
  <1>6. Pending'
    BY <1>1 DEF Pending
  <1>7. PendingInv'
    <2> SUFFICES ASSUME ~disturbed' PROVE PendingInv'
      BY DEF PendingInv
    <2>1. records' = {now + skew} /\ mail' = {} /\ timers' = {}
      BY <1>1, <1>2, <1>3 DEF Pending
    <2>2. Fits(now + skew)'
      BY <1>2, <1>3, <1>5 DEF Fits
    <2>3. now' < opened' + Delay
      BY <1>2, TimeAssumption
    <2> QED BY <1>2, <2>1, <2>2, <2>3, TimeAssumption DEF PendingInv
  <1> QED BY <1>4, <1>6, <1>7 DEF SettledInv

LEMMA ReportInv == ASSUME AutoLockInv, Report PROVE AutoLockInv'
  <1> USE DEF AutoLockInv
  <1>1. PICK t \in records :
          /\ records' = records \ {t}
          /\ mail' = mail \cup {[lock |-> t, server |-> now]}
    BY DEF Report
  <1>2. UNCHANGED <<now, config, delay, bolt, opened, timers, shown, unlocks, changes, disturbed>>
    BY DEF Report, settings, bounds
  <1>3. [lock |-> t, server |-> now] \in Event
    BY DEF TypeOK, Event
  <1>4. TypeOK'
    BY <1>1, <1>2, <1>3 DEF TypeOK, bounds
  <1>5. \A u : (StaysOpen(u)' <=> StaysOpen(u)) /\ (Fits(u)' <=> Fits(u))
    BY <1>2 DEF StaysOpen, Fits
  <1>6. Pending /\ Pending'
    BY <1>1 DEF Pending
  <1>7. PendingInv'
    BY <1>1, <1>2, <1>5, <1>6, BoundAssumption DEF PendingInv, TypeOK, Time
  <1> QED BY <1>4, <1>6, <1>7 DEF SettledInv

LEMMA ProcessWebhookInv == ASSUME AutoLockInv, ProcessWebhook PROVE AutoLockInv'
  <1> USE DEF AutoLockInv
  <1>1. PICK e \in mail : mail' = mail \ {e} /\ HandleAutoLock(e)
    BY DEF ProcessWebhook
  <1> DEFINE end == now + Longer(0, delay - MessageDelay(e))
  <1>2. /\ UNCHANGED <<now, config, delay, bolt, opened, records, unlocks, changes, disturbed>>
        /\ shown' = "unlocked"
    BY DEF ProcessWebhook, settings, lockVars, bounds
  <1>3. e \in Event /\ now \in Nat /\ opened \in Nat /\ Delay \in Nat \ {0} /\ delay \in {0, Delay}
    BY TimeAssumption, BoundAssumption DEF TypeOK, Time
  <1>4. end \in now..(now + Delay)
    BY <1>3, TimerFits
  <1>5. \/ AutoLocks(e.lock) /\ timers' = timers \cup {end}
        \/ ~AutoLocks(e.lock) /\ timers' = timers
    BY <1>1 DEF HandleAutoLock
  <1> HIDE DEF end
  <1>6. TypeOK'
    <2>1. timers' \subseteq Nat /\ \A t \in timers' : t <= now + Delay
      <3>1. end \in Nat /\ end <= now + Delay
        BY <1>3, <1>4
      <3>2. timers' \subseteq timers \cup {end}
        BY <1>5
      <3>3. timers \subseteq Nat /\ \A t \in timers : t <= now + Delay
        BY DEF TypeOK
      <3> QED BY <3>1, <3>2, <3>3
    <2> QED BY <1>1, <1>2, <2>1 DEF TypeOK, bounds
  <1>7. \A u : (StaysOpen(u)' <=> StaysOpen(u)) /\ (Fits(u)' <=> Fits(u))
    BY <1>2 DEF StaysOpen, Fits
  <1>8. Pending
    BY <1>1 DEF Pending
  <1>9. ~disturbed => (AutoLocks(e.lock) <=> delay = Delay /\ ~StaysOpen(opened))
    <2> SUFFICES ASSUME ~disturbed PROVE AutoLocks(e.lock) <=> delay = Delay /\ ~StaysOpen(opened)
      OBVIOUS
    <2>1. Fits(e.lock)
      BY <1>1 DEF PendingInv
    <2>2. PassageModeActive(config, e.lock) <=> StaysOpen(e.lock)
      BY <2>1, StaysOpenWhenActive DEF Fits, TypeOK
    <2> QED BY <1>3, <2>1, <2>2 DEF AutoLocks, Fits
  <1>10. PendingInv'
    <2> SUFFICES ASSUME ~disturbed PROVE PendingInv'
      BY <1>2 DEF PendingInv
    <2>1. ASSUME AutoLocks(e.lock) PROVE opened + Delay <= end
      BY <1>1, <1>3, <1>9, <2>1, TimerFits DEF PendingInv, Fits, end
    <2>2. \A t \in timers' : opened + Delay <= t /\ delay = Delay /\ ~StaysOpen(opened)
      BY <1>5, <1>9, <2>1 DEF PendingInv
    <2> QED BY <1>1, <1>2, <1>7, <1>8, <2>2 DEF PendingInv
  <1>11. SettledInv'
    <2> SUFFICES ASSUME ~disturbed, ~Pending' PROVE SettledInv'
      BY <1>2 DEF SettledInv
    <2>1. ~(delay = Delay /\ ~StaysOpen(opened))
      BY <1>5, <1>9 DEF Pending
    <2>2. /\ now < opened + Delay => bolt = "unlocked" /\ (StaysOpen(now) <=> StaysOpen(opened))
          /\ now >= opened + Delay => (bolt = "locked" <=> delay = Delay /\ ~StaysOpen(opened))
      BY <1>8 DEF PendingInv
    <2>3. bolt = "unlocked"
      BY <1>3, <2>1, <2>2 DEF TypeOK
    <2> QED BY <1>2, <1>3, <1>7, <2>1, <2>2, <2>3 DEF SettledInv, Waits
  <1> QED BY <1>6, <1>10, <1>11

\* The lock has locked itself when a timer ends.
LEMMA LockedByThen ==
    ASSUME AutoLockInv, ~disturbed, NEW t \in timers, t <= now
    PROVE  bolt = "locked"
  <1>1. /\ Pending /\ opened + Delay <= t /\ delay = Delay /\ ~StaysOpen(opened)
    BY DEF AutoLockInv, PendingInv, Pending
  <1>2. now >= opened + Delay
    BY <1>1, TimeAssumption, BoundAssumption DEF AutoLockInv, TypeOK, Time
  <1> QED BY <1>1, <1>2 DEF AutoLockInv, PendingInv

LEMMA AutoLockedInv == ASSUME AutoLockInv, AutoLocked PROVE AutoLockInv'
  <1> USE DEF AutoLockInv
  <1>1. PICK t \in timers : t <= now /\ timers' = timers \ {t}
    BY DEF AutoLocked
  <1>2. /\ UNCHANGED <<now, config, delay, bolt, opened, records, mail, unlocks, changes, disturbed>>
        /\ shown' = "locked"
    BY DEF AutoLocked, settings, lockVars, bounds
  <1>3. TypeOK'
    BY <1>1, <1>2 DEF TypeOK, bounds
  <1>4. \A u : (StaysOpen(u)' <=> StaysOpen(u)) /\ (Fits(u)' <=> Fits(u))
    BY <1>2 DEF StaysOpen, Fits
  <1>5. PendingInv'
    BY <1>1, <1>2, <1>4 DEF PendingInv, Pending
  <1>6. ~disturbed => bolt = "locked"
    BY <1>1, LockedByThen
  <1> QED BY <1>2, <1>3, <1>5, <1>6 DEF SettledInv, Waits

LEMMA ChangeInv ==
    ASSUME AutoLockInv, ConfigurePassageMode \/ SetAutoLock
    PROVE  AutoLockInv'
  <1> USE DEF AutoLockInv
  <1>1. /\ UNCHANGED <<now, bolt, opened, records, mail, timers, shown, unlocks>>
        /\ disturbed' = (disturbed \/ Waits \/ Pending)
        /\ changes' = changes + 1
        /\ config' \in PassageModeConfig /\ delay' \in {0, Delay}
    BY ConfigAssumption DEF ConfigurePassageMode, SetAutoLock, Change, lockVars, TypeOK
  <1>2. TypeOK'
    BY <1>1 DEF TypeOK, bounds
  <1>3. (Pending' <=> Pending) /\ (Waits' <=> Waits)
    BY <1>1 DEF Pending, Waits
  <1>4. PendingInv'
    BY <1>1, <1>3 DEF PendingInv, Pending
  <1> QED BY <1>1, <1>2, <1>3, <1>4 DEF SettledInv

LEMMA TickInv == ASSUME AutoLockInv, Tick PROVE AutoLockInv'
  <1> USE DEF AutoLockInv
  <1>1. /\ now < MaxTime /\ now' = now + 1 /\ \A t \in timers : t > now
        /\ bolt' = IF delay > 0 /\ now' = opened + delay /\ ~StaysOpen(now')
                   THEN "locked" ELSE bolt
        /\ disturbed' = (disturbed \/ (Waits /\ StaysOpen(now) # StaysOpen(now')))
        /\ UNCHANGED <<config, delay, opened, records, mail, timers, shown, unlocks, changes>>
    BY DEF Tick, settings, bounds
  <1>2. /\ now \in Nat /\ now' \in Nat /\ opened \in Nat /\ opened <= now
        /\ Delay \in Nat \ {0} /\ delay \in {0, Delay} /\ now' \in Time
        /\ bolt \in {"locked", "unlocked"}
    BY <1>1, TimeAssumption, BoundAssumption DEF TypeOK, Time
  <1>3. TypeOK'
    <2>1. timers \subseteq Nat /\ \A t \in timers : t <= now' + Delay
      BY <1>1, <1>2 DEF TypeOK
    <2>2. disturbed' \in BOOLEAN
      BY <1>1 DEF TypeOK
    <2>3. {bolt', shown'} \subseteq {"locked", "unlocked"}
      BY <1>1 DEF TypeOK
    <2> QED BY <1>1, <1>2, <2>1, <2>2, <2>3 DEF TypeOK, bounds
  <1>4. \A u : (StaysOpen(u)' <=> StaysOpen(u)) /\ (Fits(u)' <=> Fits(u))
    BY <1>1 DEF StaysOpen, Fits
  <1>5. Pending' <=> Pending
    BY <1>1 DEF Pending
  <1>6. ~disturbed' => ~disturbed /\ (Waits => (StaysOpen(now) <=> StaysOpen(now')))
    BY <1>1 DEF StaysOpen
  \* When the delay ends, the schedule says what it said when the lock was opened.
  <1>7. PendingInv'
    <2> SUFFICES ASSUME ~disturbed' PROVE PendingInv'
      BY DEF PendingInv
    <2>1. ASSUME Pending
          PROVE  /\ now' < opened + Delay => bolt' = "unlocked"
                                             /\ (StaysOpen(now') <=> StaysOpen(opened))
                 /\ now' >= opened + Delay =>
                      (bolt' = "locked" <=> delay = Delay /\ ~StaysOpen(opened))
      <3>1. /\ now < opened + Delay => bolt = "unlocked" /\ (StaysOpen(now) <=> StaysOpen(opened))
            /\ now >= opened + Delay => (bolt = "locked" <=> delay = Delay /\ ~StaysOpen(opened))
        BY <1>6, <2>1 DEF PendingInv
      <3>2. CASE now < opened + Delay
        <4>1. Waits /\ bolt = "unlocked" /\ (StaysOpen(now') <=> StaysOpen(opened))
          BY <1>6, <3>1, <3>2 DEF Waits
        <4> QED BY <1>1, <1>2, <3>2, <4>1
      <3>3. CASE now >= opened + Delay
        BY <1>1, <1>2, <3>1, <3>3
      <3> QED BY <1>2, <3>2, <3>3
    <2>2. \A e \in mail : e.server <= now => e.server <= now'
      BY <1>1, <1>2 DEF TypeOK, Event, Time
    <2> QED BY <1>1, <1>4, <1>5, <1>6, <2>1, <2>2 DEF PendingInv
  <1>8. SettledInv'
    <2> SUFFICES ASSUME ~disturbed', ~Pending PROVE SettledInv'
      BY <1>5 DEF SettledInv
    <2>1. shown = bolt /\ (Waits => delay = 0 \/ StaysOpen(now))
      BY <1>6 DEF SettledInv
    <2>2. CASE Waits
      BY <1>1, <1>2, <1>4, <1>6, <2>1, <2>2 DEF SettledInv, Waits
    <2>3. CASE ~Waits
      BY <1>1, <1>2, <2>1, <2>3 DEF SettledInv, Waits
    <2> QED BY <2>2, <2>3
  <1> QED BY <1>3, <1>7, <1>8

-----------------------------------------------------------------------------
(* The theorems *)

LEMMA StepInv == ASSUME AutoLockInv, [Next]_vars PROVE AutoLockInv'
  <1>1. CASE Next
    BY <1>1, UnlockInv, ReportInv, ProcessWebhookInv, AutoLockedInv, ChangeInv, TickInv DEF Next
  <1>2. CASE UNCHANGED vars
    BY <1>2 DEF vars, settings, lockVars, bounds, AutoLockInv, TypeOK, PendingInv, SettledInv,
                Pending, Waits, Fits, StaysOpen
  <1> QED BY <1>1, <1>2

LEMMA Invariance == Spec => []AutoLockInv
  BY InitInv, StepInv, PTL DEF Spec

\* Every value stays in the set it is declared for; no timer ends later than a
\* whole delay from now.
THEOREM TypeCorrect == Spec => []TypeOK
  BY Invariance, PTL DEF AutoLockInv

\* Of an undisturbed unlock the lock is not shown as locked before it is, whenever
\* the report comes.
THEOREM PredictionIsNotEarly == Spec => SerialPredictionIsNotEarly
  <1>1. ASSUME AutoLockInv, [Next]_vars, ~disturbed', shown = "unlocked", shown' = "locked"
        PROVE  bolt' = "locked"
    <2>1. AutoLocked
      BY <1>1 DEF Next, Unlock, Report, ProcessWebhook, ConfigurePassageMode, SetAutoLock,
                  Change, Tick, vars
    <2> QED BY <1>1, <2>1, LockedByThen DEF AutoLocked, lockVars
  <1>2. AutoLockInv /\ [Next]_vars =>
          [~disturbed' /\ shown = "unlocked" /\ shown' = "locked" => bolt' = "locked"]_vars
    BY <1>1
  <1> QED BY <1>2, Invariance, PTL DEF Spec, SerialPredictionIsNotEarly

\* Once an undisturbed unlock has been reported and handled, the lock is shown as
\* it is.
THEOREM PredictionIsRight == Spec => []SerialPredictionIsRight
  <1>1. AutoLockInv => SerialPredictionIsRight
    BY DEF AutoLockInv, SettledInv, SerialPredictionIsRight
  <1> QED BY <1>1, Invariance, PTL

-----------------------------------------------------------------------------
(* DoorSensorProbe: types and counts *)

\* The verdict and the count that made it go together, wherever they are kept.
Counted(s) == s.absent <=> s.count = AbsentAfter

CountInv == Counted(mem) /\ Counted(disk) /\ \A p \in Polls : Counted(polls[p].stored)

TypeInv == ProbeTypeOK /\ CountInv

USE AbsentAssumption

LEMMA NothingType ==
    /\ NothingStored \in Stored /\ Counted(NothingStored)
    /\ NoSensor \in Sensor
    /\ IdlePoll \in Poll /\ IdlePoll.stored = NothingStored /\ IdlePoll.stage = "idle"
  BY DEF NothingStored, Stored, Counted, NoSensor, Sensor, IdlePoll, Poll, Age

LEMMA FoundType ==
    ASSUME NEW s \in Stored
    PROVE  Found(s) \in Stored /\ Counted(Found(s)) /\ Found(s).count = 0
  <1>1. 0 \in 0..AbsentAfter /\ 0 # AbsentAfter
    OBVIOUS
  <1> DEFINE counts == 0..AbsentAfter
             half == [s EXCEPT !.absent = FALSE]
  <1>2. s \in [absent : BOOLEAN, count : counts, failed : Age] /\ 0 \in counts
    BY <1>1 DEF Stored
  <1> HIDE DEF counts
  <1>3. Found(s) \in [absent : BOOLEAN, count : counts, failed : Age]
    BY <1>2 DEF Found
  <1>4. Found(s).count = 0 /\ Found(s).absent = FALSE
    BY <1>2 DEF Found
  <1> QED BY <1>1, <1>3, <1>4 DEF Stored, Counted, counts

\* A poll that is given another record keeps the types and the counts.
LEMMA PollsUpdate ==
    ASSUME TypeInv, NEW p \in Polls, NEW poll \in Poll, Counted(poll.stored),
           polls' = [polls EXCEPT ![p] = poll]
    PROVE  /\ polls' \in [Polls -> Poll]
           /\ \A q \in Polls : Counted(polls'[q].stored)
  BY DEF TypeInv, ProbeTypeOK, CountInv

LEMMA InitType == ProbeInit => TypeInv
  <1> SUFFICES ASSUME ProbeInit PROVE TypeInv
    OBVIOUS
  <1>1. polls \in [Polls -> Poll] /\ \A p \in Polls : Counted(polls[p].stored)
    BY NothingType DEF ProbeInit
  <1>2. mem \in Stored /\ disk \in Stored /\ Counted(mem) /\ Counted(disk)
    BY NothingType DEF ProbeInit
  <1>3. streak \in 0..AbsentAfter
    BY DEF ProbeInit
  <1> QED BY <1>1, <1>2, <1>3, NothingType DEF ProbeInit, TypeInv, ProbeTypeOK, CountInv

\* Stamp gives the poll a fresh sensor and the next stage.
LEMMA StampType ==
    ASSUME TypeInv, NEW p \in Polls, NEW present \in BOOLEAN,
           NEW stage \in {"save", "rest"}, Stamp(p, present, stage)
    PROVE  /\ polls' \in [Polls -> Poll]
           /\ \A q \in Polls : Counted(polls'[q].stored)
  <1> DEFINE new == [present |-> present, fetched |-> "fresh"]
             poll == [polls[p] EXCEPT !.new = new, !.stage = stage]
  <1>1. polls[p] \in Poll /\ Counted(polls[p].stored) /\ new \in Sensor
    BY DEF TypeInv, ProbeTypeOK, CountInv, Sensor, Age
  <1>2. poll \in Poll /\ poll.stored = polls[p].stored
    BY <1>1 DEF Poll
  <1>3. polls' = [polls EXCEPT ![p] = poll]
    BY DEF Stamp, TypeInv, ProbeTypeOK, Poll
  <1> QED BY <1>1, <1>2, <1>3, PollsUpdate

\* Each step of a poll keeps types and counts.
LEMMA PollTypeInv ==
    ASSUME TypeInv, NEW p \in Polls, BeginPoll(p) \/ PollProgress(p)
    PROVE  TypeInv'
  <1> USE NothingType
  <1>0. /\ polls[p] \in Poll /\ polls[p].new \in Sensor /\ polls[p].stored \in Stored
        /\ Counted(polls[p].stored) /\ mem \in Stored /\ Counted(mem)
        /\ disk \in Stored /\ Counted(disk) /\ sensor \in Sensor
    BY DEF TypeInv, ProbeTypeOK, CountInv, Poll
  <1>1. CASE BeginPoll(p)
    <2> DEFINE poll == [IdlePoll EXCEPT !.stage = "copied", !.new = sensor]
    <2>1. poll \in Poll /\ poll.stored = NothingStored
      BY <1>0 DEF IdlePoll, Poll
    <2>2. polls' = [polls EXCEPT ![p] = poll]
      BY <1>1 DEF BeginPoll
    <2> QED
      BY <1>1, <2>1, <2>2, PollsUpdate
      DEF BeginPoll, TypeInv, ProbeTypeOK, CountInv, boundVars, historyVars
  <1>2. CASE CheckSensor(p)
    <2> DEFINE stage == IF Queries(polls[p].new, mem) THEN "query" ELSE "rest"
               poll == [polls[p] EXCEPT !.stage = stage, !.stored = mem]
    <2>1. poll \in Poll /\ poll.stored = mem
      BY <1>0 DEF Poll
    <2>2. polls' = [polls EXCEPT ![p] = poll]
      BY <1>0, <1>2 DEF CheckSensor, TypeInv, ProbeTypeOK
    <2>3. rechecked' \in BOOLEAN /\ asked' \in Nat
      BY <1>0, <1>2 DEF CheckSensor, TypeInv, ProbeTypeOK
    <2> QED
      BY <1>0, <1>2, <2>1, <2>2, <2>3, PollsUpdate
      DEF CheckSensor, TypeInv, ProbeTypeOK, CountInv, boundVars
  <1>3. CASE CloudAnswers(p)
    <2>1. PICK reply \in {"sensor", "blank", "failed", "error"} :
            polls' = [polls EXCEPT ![p].reply = reply] /\ faults' \in {faults, faults + 1}
      BY <1>3 DEF CloudAnswers, Fault
    <2> DEFINE poll == [polls[p] EXCEPT !.reply = reply]
    <2>2. poll \in Poll /\ poll.stored = polls[p].stored
      BY <1>0 DEF Poll
    <2>3. polls' = [polls EXCEPT ![p] = poll] /\ faults' \in Nat
      BY <2>1 DEF TypeInv, ProbeTypeOK
    <2> QED
      BY <1>0, <1>3, <2>2, <2>3, PollsUpdate
      DEF CloudAnswers, TypeInv, ProbeTypeOK, CountInv, historyVars
  <1>4. CASE BatteryRead(p)
    BY <1>4, StampType DEF BatteryRead, TypeInv, ProbeTypeOK, CountInv, boundVars, historyVars
  <1>5. CASE SensorFound(p)
    <2>1. mem' \in Stored /\ Counted(mem')
      BY <1>0, <1>5, FoundType DEF SensorFound
    <2>2. streak' \in 0..AbsentAfter /\ lost' \in BOOLEAN /\ asked' \in Nat
      <3>1. 0 \in 0..AbsentAfter
        BY AbsentAssumption
      <3> QED BY <1>5, <3>1 DEF SensorFound, TypeInv, ProbeTypeOK
    <2>3. polls' \in [Polls -> Poll] /\ \A q \in Polls : Counted(polls'[q].stored)
      BY <1>5, StampType DEF SensorFound, TypeInv, ProbeTypeOK, CountInv
    <2> QED
      BY <1>5, <2>1, <2>2, <2>3
      DEF SensorFound, TypeInv, ProbeTypeOK, CountInv, boundVars
  <1>6. CASE RecheckFailed(p)
    BY <1>6, StampType DEF RecheckFailed, TypeInv, ProbeTypeOK, CountInv, boundVars, historyVars
  <1>7. CASE ProbeFailed(p)
    <2> DEFINE count == polls[p].stored.count + 1
    <2>1. count \in 0..AbsentAfter
      BY <1>0, <1>7 DEF ProbeFailed, Stored, Counted
    <2>2. mem' \in Stored /\ Counted(mem')
      <3>1. mem' = [absent |-> Verdict(count), count |-> count, failed |-> "fresh"]
        BY <1>7 DEF ProbeFailed
      <3>2. Verdict(count) \in BOOLEAN /\ (Verdict(count) <=> count = AbsentAfter)
        BY <2>1 DEF Verdict
      <3> QED BY <2>1, <3>1, <3>2 DEF Stored, Counted, Age
    <2>3. rechecked' \in BOOLEAN /\ asked' \in Nat /\ streak' \in 0..AbsentAfter
      BY <1>7, <2>1 DEF ProbeFailed, RecheckedAfter, Verdict, TypeInv, ProbeTypeOK
    <2> QED
      BY <1>7, <2>2, <2>3, StampType
      DEF ProbeFailed, TypeInv, ProbeTypeOK, CountInv, boundVars
  <1>8. CASE Save(p)
    <2> DEFINE poll == [polls[p] EXCEPT !.stage = "rest"]
    <2>1. poll \in Poll /\ poll.stored = polls[p].stored
      BY <1>0 DEF Poll
    <2>2. polls' = [polls EXCEPT ![p] = poll] /\ streak' \in 0..AbsentAfter
      BY <1>8 DEF Save, TypeInv, ProbeTypeOK
    <2> QED
      BY <1>0, <1>8, <2>1, <2>2, PollsUpdate DEF Save, TypeInv, ProbeTypeOK, CountInv, boundVars
  <1>9. CASE EndPoll(p)
    BY <1>0, <1>9, PollsUpdate
    DEF EndPoll, TypeInv, ProbeTypeOK, CountInv, boundVars, historyVars
  <1>10. CASE FailPoll(p)
    <2>1. faults' \in Nat
      BY <1>10 DEF FailPoll, Fault, TypeInv, ProbeTypeOK
    <2> QED
      BY <1>0, <1>10, <2>1, PollsUpdate DEF FailPoll, TypeInv, ProbeTypeOK, CountInv, historyVars
  <1> QED
    BY <1>1, <1>2, <1>3, <1>4, <1>5, <1>6, <1>7, <1>8, <1>9, <1>10 DEF PollProgress

\* So do time, the sensor and Home Assistant.
LEMMA WorldTypeInv ==
    ASSUME TypeInv, FailureAges \/ FetchAges \/ PairOrUnpair \/ Restart
    PROVE  TypeInv'
  <1> USE NothingType
  <1>0. mem \in Stored /\ disk \in Stored /\ sensor \in Sensor /\ polls \in [Polls -> Poll]
    BY DEF TypeInv, ProbeTypeOK
  <1>1. CASE FailureAges
    <2>1. /\ mem' \in Stored /\ mem'.absent = mem.absent /\ mem'.count = mem.count
          /\ disk' \in Stored /\ disk'.absent = disk.absent /\ disk'.count = disk.count
      BY <1>0, <1>1 DEF FailureAges, Stored, Aged, Age
    <2> QED
      BY <1>1, <2>1
      DEF FailureAges, TypeInv, ProbeTypeOK, CountInv, Counted, boundVars, historyVars
  <1>2. CASE FetchAges
    <2>1. sensor' \in Sensor
      BY <1>0, <1>2 DEF FetchAges, Sensor, Age
    <2>2. ASSUME NEW q \in Polls
          PROVE  polls'[q] \in Poll /\ polls'[q].stored = polls[q].stored
      <3>1. polls[q] \in Poll /\ polls[q].new \in Sensor
        BY <1>0 DEF Poll
      <3>2. Aged(polls[q].new.fetched) \in Age
        BY <3>1 DEF Aged, Age, Sensor
      <3> DEFINE new == [polls[q].new EXCEPT !.fetched = Aged(polls[q].new.fetched)]
      <3>3. new \in Sensor
        BY <3>1, <3>2 DEF Sensor
      <3>4. polls'[q] = [polls[q] EXCEPT !.new = new]
        BY <1>2, <3>1 DEF FetchAges, Poll, Sensor
      <3> QED BY <3>1, <3>3, <3>4 DEF Poll
    <2>3. polls' \in [Polls -> Poll]
      BY <1>2, <2>2 DEF FetchAges
    <2> QED
      BY <1>2, <2>1, <2>2, <2>3
      DEF FetchAges, TypeInv, ProbeTypeOK, CountInv, boundVars, historyVars
  <1>3. CASE PairOrUnpair
    BY <1>3 DEF PairOrUnpair, TypeInv, ProbeTypeOK, CountInv, historyVars
  <1>4. CASE Restart
    <2>1. polls' \in [Polls -> Poll] /\ \A q \in Polls : Counted(polls'[q].stored)
      BY <1>4 DEF Restart
    <2>2. mem' = disk /\ disk' = disk /\ sensor' \in Sensor /\ restarts' \in Nat
      BY <1>4 DEF Restart, TypeInv, ProbeTypeOK
    <2> QED BY <1>0, <1>4, <2>1, <2>2 DEF Restart, TypeInv, ProbeTypeOK, CountInv
  <1> QED BY <1>1, <1>2, <1>3, <1>4

LEMMA StepTypeInv == TypeInv /\ [ProbeNext]_probeVars => TypeInv'
  <1> SUFFICES ASSUME TypeInv, [ProbeNext]_probeVars PROVE TypeInv'
    OBVIOUS
  <1>1. CASE ProbeNext
    BY <1>1, PollTypeInv, WorldTypeInv DEF ProbeNext
  <1>2. CASE UNCHANGED probeVars
    BY <1>2 DEF probeVars, boundVars, historyVars, TypeInv, ProbeTypeOK, CountInv
  <1> QED BY <1>1, <1>2

\* Every reachable state is well typed; in particular the count of failures
\* never passes AbsentAfter, whatever polls overlap.
THEOREM ProbeTypeCorrect == ProbeSpec => []ProbeTypeOK
  <1>1. TypeInv => ProbeTypeOK
    BY DEF TypeInv
  <1> QED BY <1>1, InitType, StepTypeInv, PTL DEF ProbeSpec

LEMMA TypeInvHolds == ProbeSpec => []TypeInv
  BY InitType, StepTypeInv, PTL DEF ProbeSpec

-----------------------------------------------------------------------------
(* QuietAfterVerdict *)

\* Once the sensor is given up, the probe of this restart is the recheck.
QuietInv == mem.absent => asked <= IF rechecked THEN 1 ELSE 0

LEMMA StepQuietInv == TypeInv /\ QuietInv /\ [ProbeNext]_probeVars => QuietInv'
  <1> SUFFICES ASSUME TypeInv, QuietInv, [ProbeNext]_probeVars PROVE QuietInv'
    OBVIOUS
  <1> USE DEF QuietInv
  <1>0. asked \in Nat /\ rechecked \in BOOLEAN /\ mem \in Stored
    BY DEF TypeInv, ProbeTypeOK
  <1>1. ASSUME UNCHANGED <<mem, asked, rechecked>> PROVE QuietInv'
    BY <1>1
  <1>2. CASE \E p \in Polls : CheckSensor(p)
    <2>1. PICK p \in Polls : CheckSensor(p)
      BY <1>2
    <2>2. CASE ~polls[p].new.present /\ mem.absent /\ Queries(polls[p].new, mem)
      <3>1. ~rechecked
        BY <2>2 DEF Queries
      <3>2. rechecked' /\ asked' = asked + 1
        BY <2>1, <2>2 DEF CheckSensor
      <3> QED BY <1>0, <2>2, <3>1, <3>2
    <2>3. CASE ~(~polls[p].new.present /\ mem.absent /\ Queries(polls[p].new, mem))
      <3>1. rechecked' = rechecked /\ asked' = asked /\ mem' = mem
        BY <1>0, <2>1, <2>3 DEF CheckSensor
      <3> QED BY <1>1, <3>1
    <2> QED BY <2>2, <2>3
  <1>3. CASE \E p \in Polls : SensorFound(p)
    <2>1. ~mem'.absent
      BY <1>0, <1>3 DEF SensorFound, Found, Stored
    <2> QED BY <2>1
  <1>4. CASE \E p \in Polls : ProbeFailed(p)
    <2>1. PICK p \in Polls : ProbeFailed(p)
      BY <1>4
    <2> DEFINE verdict == Verdict(polls[p].stored.count + 1)
    <2>2. /\ mem'.absent = verdict
          /\ rechecked' = (rechecked \/ verdict)
          /\ asked' = IF verdict THEN 1 ELSE 0
      BY <2>1 DEF ProbeFailed, RecheckedAfter
    <2>3. CASE verdict
      <3>1. rechecked' /\ asked' = 1
        BY <2>2, <2>3
      <3> QED BY <3>1
    <2>4. CASE ~verdict
      <3>1. ~mem'.absent
        BY <2>2, <2>4
      <3> QED BY <3>1
    <2> QED BY <2>3, <2>4
  <1>5. CASE FailureAges
    <2>1. mem'.absent = mem.absent
      BY <1>0, <1>5 DEF FailureAges, Stored
    <2> QED BY <1>5, <2>1 DEF FailureAges, historyVars
  <1>6. CASE Restart
    BY <1>6 DEF Restart
  <1>7. CASE \E p \in Polls : \/ BeginPoll(p) \/ CloudAnswers(p) \/ BatteryRead(p)
                              \/ RecheckFailed(p) \/ Save(p) \/ EndPoll(p) \/ FailPoll(p)
    BY <1>1, <1>7
    DEF BeginPoll, CloudAnswers, BatteryRead, RecheckFailed, Save, EndPoll, FailPoll,
        historyVars
  <1>8. CASE FetchAges \/ PairOrUnpair
    BY <1>1, <1>8 DEF FetchAges, PairOrUnpair, historyVars
  <1>9. CASE UNCHANGED probeVars
    BY <1>1, <1>9 DEF probeVars, historyVars
  <1> QED
    BY <1>2, <1>3, <1>4, <1>5, <1>6, <1>7, <1>8, <1>9 DEF ProbeNext, PollProgress

\* However many polls overlap, a sensor that is given up is probed at most once
\* in a run of Home Assistant: no storm of calls for a sensor that is not there.
THEOREM VerdictIsQuiet == ProbeSpec => []QuietAfterVerdict
  <1>1. ProbeInit => QuietInv
    BY DEF ProbeInit, QuietInv, NothingStored
  <1>2. TypeInv /\ QuietInv => QuietAfterVerdict
    BY DEF TypeInv, ProbeTypeOK, QuietInv, QuietAfterVerdict
  <1> QED BY <1>1, <1>2, TypeInvHolds, StepQuietInv, PTL DEF ProbeSpec

-----------------------------------------------------------------------------
(* SerialVerdictIsEarned *)

\* With one poll at a time what it read is still what is stored when it counts
\* a failure, and a success that is being saved has reset the count in memory.
\* Unless a crash has undone a success, no count exceeds the streak, but for the
\* count in the file until the success is saved.
Serial ==
    /\ \A p, q \in Polls :
         polls[p].stage # "idle" /\ polls[q].stage # "idle" => p = q
    /\ ~lost => mem.count <= streak /\ (disk.count <= streak \/ FoundUnsaved)
    /\ \A p \in Polls :
         /\ polls[p].stage = "query" => polls[p].stored.count = mem.count
         /\ polls[p].stage = "save" /\ polls[p].reply # "failed" => mem.count = 0

SerialInv == ~overlap => Serial

\* A step of the only poll in progress is judged by that poll and the counts.
LEMMA SerialStep ==
    ASSUME NEW p \in Polls,
           \A q \in Polls \ {p} : polls'[q].stage = "idle",
           ~lost' => /\ mem'.count <= streak'
                     /\ \/ disk'.count <= streak'
                        \/ polls'[p].stage = "save" /\ polls'[p].reply # "failed",
           polls'[p].stage = "query" => polls'[p].stored.count = mem'.count,
           polls'[p].stage = "save" /\ polls'[p].reply # "failed" => mem'.count = 0
    PROVE  Serial'
  BY DEF Serial, FoundUnsaved

LEMMA PollSerialInv ==
    ASSUME TypeInv, Serial, NEW p \in Polls, BeginPoll(p) \/ PollProgress(p), ~overlap'
    PROVE  Serial'
  <1> USE DEF Stamp
  <1>0. /\ streak \in 0..AbsentAfter
        /\ mem \in Stored /\ mem.count \in 0..AbsentAfter /\ disk.count \in 0..AbsentAfter
        /\ polls \in [Polls -> Poll] /\ polls[p] \in Poll /\ polls[p].stored.count \in 0..AbsentAfter
    BY DEF TypeInv, ProbeTypeOK, Poll, Stored
  <1>p. \A q \in Polls \ {p} : polls'[q] = polls[q]
    BY <1>0 DEF PollProgress, BeginPoll, CheckSensor, CloudAnswers, BatteryRead, SensorFound,
                RecheckFailed, ProbeFailed, Save, EndPoll, FailPoll
  <1>i. \A q \in Polls \ {p} : polls[q].stage = "idle"
    <2>1. CASE BeginPoll(p)
      BY <2>1 DEF BeginPoll
    <2>2. CASE PollProgress(p)
      <3>1. polls[p].stage # "idle"
        BY <2>2 DEF PollProgress, CheckSensor, CloudAnswers, BatteryRead, SensorFound,
                    RecheckFailed, ProbeFailed, Save, EndPoll, FailPoll
      <3> QED BY <3>1 DEF Serial
    <2> QED BY <2>1, <2>2
  <1>q. /\ polls[p].stage = "query" => polls[p].stored.count = mem.count
        /\ polls[p].stage = "save" /\ polls[p].reply # "failed" => mem.count = 0
    BY DEF Serial
  <1>c. ~lost => /\ mem.count <= streak
                 /\ \/ disk.count <= streak
                    \/ polls[p].stage = "save" /\ polls[p].reply # "failed"
    BY <1>i DEF Serial, FoundUnsaved
  <1>s. ASSUME ~lost' => /\ mem'.count <= streak'
                         /\ \/ disk'.count <= streak'
                            \/ polls'[p].stage = "save" /\ polls'[p].reply # "failed",
               polls'[p].stage = "query" => polls'[p].stored.count = mem'.count,
               polls'[p].stage = "save" /\ polls'[p].reply # "failed" => mem'.count = 0
        PROVE  Serial'
    BY <1>i, <1>p, <1>s, SerialStep
  \* Steps that leave the store and its history alone, and end in no save.
  <1>u. ASSUME UNCHANGED <<mem, disk, streak, lost>>, polls[p].stage # "save",
               polls'[p].stage # "save",
               polls'[p].stage = "query" => polls'[p].stored.count = mem.count
        PROVE  Serial'
    BY <1>c, <1>s, <1>u
  <1>1. CASE BeginPoll(p)
    <2>1. polls'[p].stage = "copied"
      BY <1>0, <1>1 DEF BeginPoll, IdlePoll
    <2> QED BY <1>1, <1>u, <2>1 DEF BeginPoll
  <1>2. CASE CheckSensor(p)
    <2>1. polls'[p].stage # "save" /\ polls'[p].stored = mem
      BY <1>0, <1>2 DEF CheckSensor, Poll
    <2> QED BY <1>2, <1>u, <2>1 DEF CheckSensor
  <1>3. CASE CloudAnswers(p)
    <2>1. polls'[p].stage = "query" /\ polls'[p].stored = polls[p].stored
      BY <1>0, <1>3 DEF CloudAnswers, Poll
    <2> QED BY <1>3, <1>q, <1>u, <2>1 DEF CloudAnswers, historyVars
  <1>4. CASE BatteryRead(p) \/ RecheckFailed(p)
    <2>1. polls'[p].stage = "rest"
      BY <1>0, <1>4 DEF BatteryRead, RecheckFailed, Poll
    <2> QED BY <1>4, <1>u, <2>1 DEF BatteryRead, RecheckFailed, historyVars
  <1>5. CASE SensorFound(p)
    <2>1. polls'[p].stage = "save" /\ polls'[p].reply # "failed" /\ mem'.count = 0
      BY <1>0, <1>5, FoundType DEF SensorFound, Poll
    <2>2. streak' = 0
      BY <1>5 DEF SensorFound
    <2> QED BY <1>s, <2>1, <2>2
  <1>6. CASE ProbeFailed(p)
    <2>1. polls'[p].stage = "save" /\ polls'[p].reply = "failed" /\ polls[p].stage = "query"
      BY <1>0, <1>6 DEF ProbeFailed, Poll
    <2>2. mem'.count = mem.count + 1 /\ mem'.count \in 0..AbsentAfter
      <3>1. mem'.count = polls[p].stored.count + 1 /\ polls[p].stored.count = mem.count
        BY <1>6, <1>q DEF ProbeFailed
      <3>2. mem' \in Stored
        BY <1>6, PollTypeInv DEF PollProgress, TypeInv, ProbeTypeOK
      <3> QED BY <3>1, <3>2 DEF Stored
    <2>3. /\ streak' = (IF streak < AbsentAfter THEN streak + 1 ELSE streak)
          /\ disk' = disk /\ lost' = lost
      BY <1>6 DEF ProbeFailed
    <2>4. ~lost => mem.count <= streak /\ disk.count <= streak
      BY <1>c, <2>1
    <2> QED BY <1>0, <1>s, <2>1, <2>2, <2>3, <2>4
  <1>7. CASE Save(p)
    <2>1. polls'[p].stage = "rest" /\ mem' = mem /\ disk' = mem /\ streak' = streak
      BY <1>0, <1>7 DEF Save, Poll
    <2>2. ~lost' => mem.count <= streak
      <3>1. CASE polls[p].reply = "failed"
        BY <1>7, <1>c, <3>1 DEF Save
      <3>2. CASE polls[p].reply # "failed"
        <4>1. mem.count = 0
          BY <1>7, <1>q, <3>2 DEF Save
        <4> QED BY <1>0, <4>1
      <3> QED BY <3>1, <3>2
    <2> QED BY <1>s, <2>1, <2>2
  <1>8. CASE EndPoll(p) \/ FailPoll(p)
    <2>1. polls'[p].stage = "idle" /\ polls[p].stage # "save"
      BY <1>0, <1>8 DEF EndPoll, FailPoll, IdlePoll
    <2> QED BY <1>8, <1>u, <2>1 DEF EndPoll, FailPoll, historyVars
  <1> QED BY <1>1, <1>2, <1>3, <1>4, <1>5, <1>6, <1>7, <1>8 DEF PollProgress

LEMMA StepSerialInv == TypeInv /\ SerialInv /\ [ProbeNext]_probeVars => SerialInv'
  <1> SUFFICES ASSUME TypeInv, SerialInv, [ProbeNext]_probeVars, ~overlap' PROVE Serial'
    BY DEF SerialInv
  <1>0. ~overlap /\ Serial
    <2>1. overlap => overlap'
      BY DEF ProbeNext, BeginPoll, PollProgress, CheckSensor, CloudAnswers, BatteryRead,
             SensorFound, RecheckFailed, ProbeFailed, Save, EndPoll, FailPoll, FailureAges,
             FetchAges, PairOrUnpair, Restart, probeVars, historyVars
    <2> QED BY <2>1 DEF SerialInv
  <1>1. CASE \E p \in Polls : BeginPoll(p) \/ PollProgress(p)
    BY <1>0, <1>1, PollSerialInv
  <1>2. CASE FailureAges
    <2>1. /\ mem'.count = mem.count /\ disk'.count = disk.count
          /\ UNCHANGED <<polls, streak, lost>>
      BY <1>2 DEF FailureAges, historyVars, TypeInv, ProbeTypeOK, Stored
    <2> QED BY <1>0, <2>1 DEF Serial, FoundUnsaved
  <1>3. CASE FetchAges
    <2>1. ASSUME NEW q \in Polls
          PROVE  /\ polls'[q].stage = polls[q].stage /\ polls'[q].reply = polls[q].reply
                 /\ polls'[q].stored = polls[q].stored
      BY <1>3 DEF FetchAges, TypeInv, ProbeTypeOK, Poll
    <2>2. UNCHANGED <<mem, disk, streak, lost>>
      BY <1>3 DEF FetchAges, historyVars
    <2> QED BY <1>0, <2>1, <2>2 DEF Serial, FoundUnsaved
  <1>4. CASE PairOrUnpair
    BY <1>0, <1>4 DEF PairOrUnpair, historyVars, Serial, FoundUnsaved
  <1>5. CASE Restart
    <2>1. \A q \in Polls : polls'[q].stage = "idle"
      BY <1>5 DEF Restart, IdlePoll
    <2> QED BY <1>0, <1>5, <2>1 DEF Restart, Serial
  <1>6. CASE UNCHANGED probeVars
    BY <1>0, <1>6 DEF probeVars, historyVars, Serial, FoundUnsaved
  <1> QED BY <1>1, <1>2, <1>3, <1>4, <1>5, <1>6 DEF ProbeNext

\* As long as no two polls have been in progress at once and no crash has undone
\* a success, the sensor is given up only after AbsentAfter failures in a row,
\* over restarts and crashes that lose failures.
THEOREM SerialVerdictEarned == ProbeSpec => []SerialVerdictIsEarned
  <1>1. ProbeInit => SerialInv
    BY DEF ProbeInit, SerialInv, Serial, NothingStored, IdlePoll
  <1>2. ASSUME TypeInv, SerialInv PROVE SerialVerdictIsEarned
    <2> SUFFICES ASSUME ~overlap, ~lost, mem.absent PROVE streak = AbsentAfter
      BY DEF SerialVerdictIsEarned, VerdictIsEarned
    <2>1. mem.count = AbsentAfter
      BY <1>2 DEF TypeInv, CountInv, Counted
    <2> QED BY <1>2, <2>1 DEF SerialInv, Serial, TypeInv, ProbeTypeOK
  <1> QED BY <1>1, <1>2, TypeInvHolds, StepSerialInv, PTL DEF ProbeSpec

=============================================================================
