---------------------------- MODULE PollSchedule ----------------------------
(***************************************************************************)
(* When the coordinators of an entry poll, and how many calls that makes:  *)
(* the schedule of DataUpdateCoordinator, the gates of the slow tier and   *)
(* of the door sensor (coordinator.py), and the estimate that the options  *)
(* form and a sensor show of it (usage_estimate.py).                       *)
(*                                                                         *)
(* Time is discrete, and a poll takes none of it: what happens during a    *)
(* poll is LockCoordinator's.  After how many failures the search for a    *)
(* door sensor is over is DoorSensorProbe's; here it may be over after any.*)
(***************************************************************************)
EXTENDS Integers, FiniteSets

CONSTANTS
    Locks,         \* connectable locks of the entry
    WithGateway,   \* those that a gateway reaches
    WithSensor,    \* those whose features include a door sensor
    Settings,      \* the options that are looked at
    Day,           \* length of a day
    Never,
    Horizon,       \* bound: time
    MaxPushes,     \* bound: pushes of one lock
    MaxExtras,     \* bound: what a user asks for and calls that fail
    MaxBlanks      \* bound: answers of a door sensor without its battery level

\* CONF_POLL_INTERVAL, CONF_SLOW_POLL_INTERVAL, CONF_GATEWAY_POLL_INTERVAL,
\* CONF_MANUAL_SYNC, CONF_WEBHOOK_ONLY, and CONF_WEBHOOK_STATUS at set-up.
Options == [poll : Nat \ {0}, slow : Nat \ {0}, gateway : Nat \ {0},
            manual : BOOLEAN, only : BOOLEAN, status : BOOLEAN]

ASSUME LockAssumption == IsFiniteSet(Locks) /\ WithGateway \cup WithSensor \subseteq Locks
ASSUME OptionAssumption == Settings \subseteq Options
ASSUME TimeAssumption == Day \in Nat \ {0} /\ Never \notin Nat
ASSUME BoundAssumption == {Horizon, MaxPushes, MaxExtras, MaxBlanks} \subseteq Nat

VARIABLES
    now,
    options,
    confirmed,  \* CONF_WEBHOOK_STATUS
    due,        \* when a lock's coordinator polls next
    fetched,    \* _details_last_fetched, ..., of each lock
    sensed,     \* sensor.last_fetched, which is part of the data ...
    present,    \* ... as is whether its battery level is known
    probeFrom,  \* when the door sensor may be looked for: a day after the last
                \* failure that is stored, or never again in this run
    known,      \* is data.locked not None
    gatewayDue, \* when the gateway coordinator polls next
    calls,      \* cloud calls made, by source
    pushes,     \* history, bounded: how often a lock's data were set otherwise
    extras,     \* history, bounded: requests of the user and failures
    blanks      \* history, bounded: answers of a door sensor without its battery

sensorVars == <<sensed, present, probeFrom, blanks>>
lockVars == <<due, fetched, known, sensorVars>>
vars == <<now, options, confirmed, lockVars, gatewayDue, calls, pushes, extras>>

-----------------------------------------------------------------------------
(* The estimate *)

Source == {"lock_state", "lock_detail", "credentials", "gateway_status", "door_sensor"}

\* What the schedule makes of each source, in calls at a time and the time from
\* one to the next; none at all if it is Never.
StateEvery == IF options.manual \/ (options.only /\ options.status) THEN Never
              ELSE options.poll

SlowEvery == IF options.manual THEN Never ELSE options.slow
Every == [lock_state |-> StateEvery, lock_detail |-> SlowEvery, credentials |-> SlowEvery,
          gateway_status |-> IF options.manual THEN Never ELSE options.gateway,
          door_sensor |-> IF options.manual THEN Never ELSE Day]
AtATime == [lock_state |-> Cardinality(Locks),
            lock_detail |-> 2 * Cardinality(Locks) + Cardinality(WithGateway),
            credentials |-> 2 * Cardinality(Locks),
            gateway_status |-> 1,
            door_sensor |-> Cardinality(WithSensor)]

-----------------------------------------------------------------------------
(* Polls *)

\* The calls of a poll, in this order, and the source that each counts for.
Call == 1..7
Details == 1
DoorSensor == 2
State == 3
Passage == 4
Gateways == 5
Passcodes == 6
Ekeys == 7

SourceOf(call) ==
    CASE call \in {Details, Passage, Gateways} -> "lock_detail"
      [] call = DoorSensor -> "door_sensor"
      [] call = State -> "lock_state"
      [] call \in {Passcodes, Ekeys} -> "credentials"

\* What the slow tier stamps: both lists of codes have one stamp.
Part == {Details, Passage, Gateways, Ekeys}

Init ==
    /\ now = 0
    /\ options \in Settings
    /\ confirmed = options.status
    /\ due = [l \in Locks |-> 0]
    /\ fetched = [l \in Locks |-> [p \in Part |-> Never]]
    /\ sensed = [l \in Locks |-> Never]
    /\ present = [l \in Locks |-> FALSE]
    /\ probeFrom \in [Locks -> {0, Day + 1}]
    /\ \A l \in Locks \ WithSensor : probeFrom[l] = 0
    /\ blanks = 0
    /\ known = [l \in Locks |-> FALSE]
    /\ gatewayDue = 0
    /\ calls = [s \in Source |-> 0]
    /\ pushes = [l \in Locks |-> 0]
    /\ extras = 0

\* _schedule_refresh, after a poll or when data are set.
NextPoll == IF options.manual THEN Never ELSE now + options.poll

SlowTierDue(stamp) == stamp = Never \/ stamp + options.slow <= now
SensorDue(stamp) == stamp = Never \/ stamp + Day < now

\* _update_present_sensor refreshes the battery level once a day; without one
\* _check_for_sensor looks for the sensor, as if it had none.
QueriesSensor(l) ==
    IF present[l] THEN SensorDue(sensed[l])
    ELSE probeFrom[l] # Never /\ probeFrom[l] <= now

WebhookOnlyActive == options.only /\ confirmed

\* Mutant: a poll in webhook-only mode has the state re-verified.
ReadsStateAlways(l, ble, blanked) == ~ble

\* A lock in Bluetooth range answers itself; update_state blanks what is known.
ReadsState(l, ble, blanked) ==
    ~ble /\ ~(WebhookOnlyActive /\ known[l] /\ ~blanked)

\* The calls that a poll makes if none fails.
Planned(l, ble, blanked) ==
    {c \in Call :
        CASE c \in {Details, Passage, Ekeys} -> SlowTierDue(fetched[l][c])
          [] c = Passcodes  -> SlowTierDue(fetched[l][Ekeys])
          [] c = Gateways   -> l \in WithGateway /\ SlowTierDue(fetched[l][c])
          [] c = DoorSensor -> l \in WithSensor /\ QueriesSensor(l)
          [] c = State      -> ReadsState(l, ble, blanked)}

Count(made) ==
    calls' = [s \in Source |-> calls[s] + Cardinality({c \in made : SourceOf(c) = s})]

\* Stamps are set one by one, and those of a poll that fails stay.
Stamp(l, made) ==
    fetched' = [fetched EXCEPT ![l] =
                   [p \in Part |-> IF p \in made THEN now ELSE @[p]]]

\* The door sensor's battery level, a sensor without, or an error code.
Answer == {"battery", "blank", "failed"}

\* Mutant: a failed probe is not stored.
StoreNothing(l, made, answer) == UNCHANGED probeFrom

\* What the store keeps of the answer, whatever becomes of the poll.
StoreAnswer(l, made, answer) ==
    IF DoorSensor \in made /\ ~present[l] /\ answer = "failed"
    THEN \E from \in {now + Day + 1, Never} :
            probeFrom' = [probeFrom EXCEPT ![l] = from]
    ELSE UNCHANGED probeFrom

\* What the poll's data keep of it.
KeepAnswer(l, made, answer) ==
    IF DoorSensor \in made
    THEN /\ sensed' = [sensed EXCEPT ![l] = now]
         /\ present' = [present EXCEPT
                          ![l] = answer = "battery" \/ (@ /\ answer = "failed")]
         /\ IF answer = "blank" THEN blanks < MaxBlanks /\ blanks' = blanks + 1
            ELSE UNCHANGED blanks
    ELSE UNCHANGED <<sensed, present, blanks>>

\* The poll makes these calls, and they are answered.
Answered(l, made) ==
    /\ Count(made)
    /\ Stamp(l, made)
    /\ \E answer \in Answer : StoreAnswer(l, made, answer) /\ KeepAnswer(l, made, answer)

\* A poll of which every call is answered.
PollSucceeds(l, ble, blanked) ==
    LET made == Planned(l, ble, blanked)
    IN  /\ Answered(l, made)
        /\ known' = [known EXCEPT ![l] = (@ /\ ~blanked) \/ ble \/ State \in made]

\* Reading the state fails before it was ever read: the poll goes on.
PollWithoutState(l, blanked) ==
    LET made == Planned(l, FALSE, blanked)
    IN  /\ State \in made /\ (blanked \/ ~known[l])
        /\ Answered(l, made)
        /\ known' = [known EXCEPT ![l] = FALSE]

\* Any other call raises: those before it have been made, and the data of this
\* poll are lost.
PollFails(l, ble, blanked) ==
    \E failed \in Planned(l, ble, blanked) :
        LET made == {c \in Planned(l, ble, blanked) : c <= failed}
        IN  /\ failed = State => known[l] /\ ~blanked
            /\ Count(made)
            /\ Stamp(l, made \ {failed})
            /\ \E answer \in Answer : StoreAnswer(l, made \ {failed}, answer)
            /\ known' = [known EXCEPT ![l] = @ /\ ~blanked]
            /\ UNCHANGED <<sensed, present, blanks>>

\* The first refresh comes before entities, buttons and services.
Started(l) == due[l] # 0

Extra == extras < MaxExtras /\ extras' = extras + 1

\* A refresh ends with the next one being scheduled, whatever came of it.
Refresh(l, blanked) ==
    /\ due' = [due EXCEPT ![l] = NextPoll]
    /\ \E ble \in BOOLEAN : PollSucceeds(l, ble, blanked)
    /\ UNCHANGED <<now, options, confirmed, gatewayDue, pushes>>

RefreshFails(l, blanked) ==
    /\ due' = [due EXCEPT ![l] = NextPoll]
    /\ \/ PollWithoutState(l, blanked)
       \/ \E ble \in BOOLEAN : PollFails(l, ble, blanked)
    /\ UNCHANGED <<now, options, confirmed, gatewayDue>>

ScheduledPoll(l) ==
    /\ due[l] = now
    /\ \/ Refresh(l, FALSE) /\ UNCHANGED extras
       \/ Extra /\ RefreshFails(l, FALSE) /\ UNCHANGED pushes

\* The Sync buttons, and the action update_state, which blanks the state.
\* (A refresh that fails here as well is left out.)
Sync(l) ==
    /\ Started(l) /\ Extra
    /\ \E blanked \in BOOLEAN : Refresh(l, blanked)

-----------------------------------------------------------------------------
(* Data that are set without a poll *)

Push(l) == pushes[l] < MaxPushes /\ pushes' = [pushes EXCEPT ![l] = @ + 1]

\* Mutant: the next poll is called off, not put off.
PostponeForGood(l) == due' = [due EXCEPT ![l] = Never]

\* async_set_updated_data puts the next poll off by a whole interval.
Postpone(l) == due' = [due EXCEPT ![l] = NextPoll]

\* A webhook, or the timer of an auto-lock.
DataPushed(l) ==
    /\ Started(l) /\ Push(l)
    /\ Postpone(l)
    /\ \E tells \in BOOLEAN : known' = [known EXCEPT ![l] = @ \/ tells]
    /\ UNCHANGED <<now, options, confirmed, fetched, sensorVars, gatewayDue, calls, extras>>

\* async_refresh_codes after a management action.
CodesRefreshed(l) ==
    /\ Started(l) /\ Push(l) /\ Extra
    /\ Postpone(l)
    /\ Count({Passcodes, Ekeys})
    /\ Stamp(l, {Ekeys})
    /\ UNCHANGED <<now, options, confirmed, sensorVars, known, gatewayDue>>

-----------------------------------------------------------------------------
(* Gateways, webhooks, time *)

\* GatewaysUpdateCoordinator: one call, which may fail.
GatewayRefresh ==
    /\ calls' = [calls EXCEPT !["gateway_status"] = @ + 1]
    /\ gatewayDue' = IF options.manual THEN Never ELSE now + options.gateway
    /\ UNCHANGED <<now, options, confirmed, lockVars, pushes>>

GatewayPoll == gatewayDue = now /\ GatewayRefresh /\ UNCHANGED extras
GatewaySync == gatewayDue # 0 /\ Extra /\ GatewayRefresh

\* Webhooks begin to arrive (WebhookGroup); the estimate that is shown stays.
WebhooksConfirmed ==
    /\ ~confirmed /\ confirmed' = TRUE
    /\ UNCHANGED <<now, options, lockVars, gatewayDue, calls, pushes, extras>>

Tick ==
    /\ now < Horizon /\ now' = now + 1
    /\ gatewayDue # now /\ \A l \in Locks : due[l] # now
    /\ UNCHANGED <<options, confirmed, lockVars, gatewayDue, calls, pushes, extras>>

-----------------------------------------------------------------------------
(* Specification *)

Next ==
    \/ \E l \in Locks :
          ScheduledPoll(l) \/ Sync(l) \/ DataPushed(l) \/ CodesRefreshed(l)
    \/ GatewayPoll \/ GatewaySync \/ WebhooksConfirmed
    \/ Tick

Spec == Init /\ [][Next]_vars

-----------------------------------------------------------------------------
(* Correctness *)

Time == Nat \cup {Never}

TypeOK ==
    /\ now \in 0..Horizon
    /\ options \in Settings
    /\ confirmed \in BOOLEAN
    /\ due \in [Locks -> Time]
    /\ fetched \in [Locks -> [Part -> Time]]
    /\ sensed \in [Locks -> Time]
    /\ present \in [Locks -> BOOLEAN]
    /\ probeFrom \in [Locks -> Time]
    /\ known \in [Locks -> BOOLEAN]
    /\ gatewayDue \in Time
    /\ calls \in [Source -> Nat]
    /\ pushes \in [Locks -> 0..MaxPushes]
    /\ extras \in 0..MaxExtras
    /\ blanks \in 0..MaxBlanks

AtOnce == [lock_state |-> 1, lock_detail |-> 3, credentials |-> 2,
           gateway_status |-> 1, door_sensor |-> 1]

\* A source makes this many calls at most beyond those of its schedule, which
\* is none at all if it has no schedule: all sources in manual mode, and the
\* state with confirmed webhooks only.
WithinEstimate(s, beyond) ==
    IF Every[s] = Never THEN calls[s] <= beyond
    ELSE (calls[s] - beyond) * Every[s] <= AtATime[s] * now

\* The calls of every source stay within the estimate, but for the fill at the
\* start, what a refresh that a user asked for makes or a failed call has
\* repeated and, of the door sensor's, each that was answered without a battery
\* level: as long as it is, every poll looks for the sensor.
CallsWithinEstimate ==
    \A s \in Source :
        WithinEstimate(s, AtATime[s] + extras * AtOnce[s]
                             + (IF s = "door_sensor" THEN blanks ELSE 0))

\* No part of the slow tier grows older than its interval and one poll interval
\* more, plus one for each push or failure that put a poll off or cut it short.
SlowTierIsFresh ==
    ~options.manual =>
        \A l \in Locks, p \in Part :
            p # Gateways \/ l \in WithGateway =>
                now <= (IF fetched[l][p] = Never THEN 0 ELSE fetched[l][p])
                          + options.slow + options.poll * (1 + pushes[l] + extras)

=============================================================================
