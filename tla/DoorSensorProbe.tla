--------------------------- MODULE DoorSensorProbe ---------------------------
(***************************************************************************)
(* How a lock's coordinator finds out whether a door sensor is paired      *)
(* (coordinator.py, _check_for_sensor and _update_present_sensor), with    *)
(* the verdict that LockStateStore keeps over restarts (store.py).  Of a   *)
(* poll only what concerns the sensor is here; LockCoordinator has the     *)
(* rest.                                                                   *)
(***************************************************************************)
EXTENDS Naturals

CONSTANTS
    Polls,       \* slots for concurrent async_refresh calls
    AbsentAfter, \* SENSOR_ABSENT_AFTER_FAILURES
    MaxPairings, \* bound: times a sensor is paired or taken away
    MaxFaults,   \* bound: failed calls
    MaxRestarts  \* bound: restarts of Home Assistant

ASSUME AbsentAssumption == AbsentAfter \in Nat \ {0}
ASSUME ProbeBoundAssumption == {MaxPairings, MaxFaults, MaxRestarts} \subseteq Nat

VARIABLES
    paired,    \* external: is a door sensor paired with the lock
    sensor,    \* self.data.sensor
    rechecked, \* _sensor_recheck_done
    mem,       \* this lock's entry of the store, in memory ...
    disk,      \* ... and in the file
    polls,     \* the _async_update_data calls in progress
    pairings, faults, restarts, \* what is used of the three bounds
    streak,    \* history: failed probes since one last found the sensor
    lost,      \* history: did a crash undo a success, and none was saved since
    asked,     \* history: probes in this run for the verdict that stands
    overlap    \* history: have two polls been in progress at once

boundVars == <<pairings, faults, restarts>>
historyVars == <<streak, lost, asked, overlap>>
probeVars == <<paired, sensor, rechecked, mem, disk, polls, boundVars, historyVars>>

-----------------------------------------------------------------------------
(* Values *)

Age == {"never", "fresh", "old"} \* a time, by whether it is more than a day ago

\* `present`: a battery level is known
Sensor == [present : BOOLEAN, fetched : Age]
NoSensor == [present |-> FALSE, fetched |-> "never"]

Stored == [absent : BOOLEAN, count : 0..AbsentAfter, failed : Age]
NothingStored == [absent |-> FALSE, count |-> 0, failed |-> "never"]

\* `new` is the poll's copy, `stored` what it read before its query.
Poll == [stage : {"idle", "copied", "query", "save", "rest"}, new : Sensor,
         stored : Stored, reply : {"none", "sensor", "blank", "failed", "error"}]
IdlePoll == [stage |-> "idle", new |-> NoSensor, stored |-> NothingStored,
             reply |-> "none"]

Aged(age) == IF age = "fresh" THEN "old" ELSE age

ProbeInit ==
    /\ paired \in BOOLEAN
    /\ sensor = NoSensor
    /\ rechecked = FALSE
    /\ mem = NothingStored
    /\ disk = NothingStored
    /\ polls = [p \in Polls |-> IdlePoll]
    /\ pairings = 0 /\ faults = 0 /\ restarts = 0
    /\ streak = 0
    /\ lost = FALSE
    /\ asked = 0
    /\ overlap = FALSE

-----------------------------------------------------------------------------
(* Polls *)

\* A poll copies the data and awaits lock/detail.
BeginPoll(p) ==
    /\ polls[p].stage = "idle"
    /\ polls' = [polls EXCEPT ![p] = [IdlePoll EXCEPT !.stage = "copied",
                                                      !.new = sensor]]
    /\ overlap' = (overlap \/ \E q \in Polls : polls[q].stage # "idle")
    /\ UNCHANGED <<paired, sensor, rechecked, mem, disk, boundVars, streak, lost, asked>>

\* Mutant: a failure is never a day old.
ProbeOnce(stored) == stored.failed = "never"

ProbeDue(stored) == stored.failed # "fresh"

\* Does the poll, which has read `stored`, query the door sensor?
Queries(new, stored) ==
    IF new.present THEN new.fetched # "fresh"
    ELSE IF stored.absent THEN ~rechecked
    ELSE ProbeDue(stored)

\* The sensor part up to its query, or to its return.
CheckSensor(p) ==
    LET new == polls[p].new
        queries == Queries(new, mem)
        recheck == ~new.present /\ mem.absent /\ queries
    IN /\ polls[p].stage = "copied"
       /\ polls' = [polls EXCEPT
                      ![p].stage = IF queries THEN "query" ELSE "rest",
                      ![p].stored = mem]
       /\ rechecked' = (rechecked \/ recheck)
       /\ asked' = IF recheck THEN asked + 1 ELSE asked
       /\ UNCHANGED <<paired, sensor, mem, disk, boundVars, streak, lost, overlap>>

Fault == faults < MaxFaults /\ faults' = faults + 1

\* The cloud answers: the sensor with or without its battery level, an error
\* code - which is all it says of a lock without a sensor - or nothing.
CloudAnswers(p) ==
    /\ polls[p].stage = "query" /\ polls[p].reply = "none"
    /\ \E reply \in {"sensor", "blank", "failed", "error"} :
         /\ reply \in {"sensor", "blank"} => paired
         /\ polls' = [polls EXCEPT ![p].reply = reply]
         /\ IF reply = (IF paired THEN "sensor" ELSE "failed")
            THEN UNCHANGED faults ELSE Fault
    /\ UNCHANGED <<paired, sensor, rechecked, mem, disk, pairings, restarts,
                   historyVars>>

\* get_sensor returned; _refresh_sensor stamps the poll's copy.
Stamp(p, present, stage) ==
    polls' = [polls EXCEPT ![p].new = [present |-> present, fetched |-> "fresh"],
                           ![p].stage = stage]

\* A sensor known to be present: an answer that lacks the battery level makes
\* it unknown again, an error code changes nothing.
BatteryRead(p) ==
    /\ polls[p].stage = "query" /\ polls[p].reply \in {"sensor", "blank", "failed"}
    /\ polls[p].new.present
    /\ Stamp(p, polls[p].reply # "blank", "rest")
    /\ UNCHANGED <<paired, sensor, rechecked, mem, disk, boundVars, historyVars>>

\* Mutant: a success leaves the count as it is.
FoundKeepsCount(stored) == [stored EXCEPT !.absent = FALSE]

Found(stored) == [stored EXCEPT !.absent = FALSE, !.count = 0]

\* async_update changes the store in memory at once and awaits its file.
SensorFound(p) ==
    /\ polls[p].stage = "query" /\ polls[p].reply \in {"sensor", "blank"}
    /\ ~polls[p].new.present
    /\ Stamp(p, polls[p].reply = "sensor", "save")
    /\ mem' = Found(mem)
    /\ asked' = 0
    /\ streak' = 0
    /\ UNCHANGED <<paired, sensor, rechecked, disk, boundVars, lost, overlap>>

\* This restart's recheck failed too: the verdict stands as it is.
RecheckFailed(p) ==
    /\ polls[p].stage = "query" /\ polls[p].reply = "failed"
    /\ ~polls[p].new.present /\ polls[p].stored.absent
    /\ Stamp(p, FALSE, "rest")
    /\ UNCHANGED <<paired, sensor, rechecked, mem, disk, boundVars, historyVars>>

\* Mutant: the call that makes the verdict is not this restart's recheck.
RecheckedBefore(verdict) == rechecked

RecheckedAfter(verdict) == rechecked \/ verdict

Verdict(count) == count >= AbsentAfter

\* Another failure; the last one makes the verdict.
ProbeFailed(p) ==
    LET count == polls[p].stored.count + 1
    IN /\ polls[p].stage = "query" /\ polls[p].reply = "failed"
       /\ ~polls[p].new.present /\ ~polls[p].stored.absent
       /\ Stamp(p, FALSE, "save")
       /\ mem' = [absent |-> Verdict(count), count |-> count, failed |-> "fresh"]
       /\ rechecked' = RecheckedAfter(Verdict(count))
       /\ asked' = IF Verdict(count) THEN 1 ELSE 0
       /\ streak' = IF streak < AbsentAfter THEN streak + 1 ELSE streak
       /\ UNCHANGED <<paired, sensor, disk, boundVars, lost, overlap>>

\* Store.async_save: what is in memory now is written.
Save(p) ==
    /\ polls[p].stage = "save"
    /\ disk' = mem
    /\ polls' = [polls EXCEPT ![p].stage = "rest"]
    /\ lost' = (lost /\ polls[p].reply = "failed")
    /\ UNCHANGED <<paired, sensor, rechecked, mem, boundVars, streak, asked, overlap>>

\* The rest of the poll: it returns, and its copy replaces the data ...
EndPoll(p) ==
    /\ polls[p].stage = "rest"
    /\ sensor' = polls[p].new
    /\ polls' = [polls EXCEPT ![p] = IdlePoll]
    /\ UNCHANGED <<paired, rechecked, mem, disk, boundVars, historyVars>>

\* ... or a call raises, here or elsewhere, and the copy is dropped.
FailPoll(p) ==
    /\ \/ polls[p].stage = "query" /\ polls[p].reply = "error" /\ UNCHANGED faults
       \/ polls[p].stage \in {"copied", "rest"} /\ Fault
    /\ polls' = [polls EXCEPT ![p] = IdlePoll]
    /\ UNCHANGED <<paired, sensor, rechecked, mem, disk, pairings, restarts,
                   historyVars>>

-----------------------------------------------------------------------------
(* Time, the sensor and Home Assistant *)

\* More than a day has passed since the last failure was stored, ...
FailureAges ==
    /\ mem.failed = "fresh"
    /\ mem' = [mem EXCEPT !.failed = "old"]
    /\ disk' = [disk EXCEPT !.failed = Aged(@)]
    /\ UNCHANGED <<paired, sensor, rechecked, polls, boundVars, historyVars>>

\* ... since the sensor in the data was fetched.
FetchAges ==
    /\ sensor.fetched = "fresh"
    /\ sensor' = [sensor EXCEPT !.fetched = "old"]
    /\ polls' = [p \in Polls |-> [polls[p] EXCEPT !.new.fetched = Aged(@)]]
    /\ UNCHANGED <<paired, rechecked, mem, disk, boundVars, historyVars>>

PairOrUnpair ==
    /\ pairings < MaxPairings /\ pairings' = pairings + 1
    /\ paired' = ~paired
    /\ UNCHANGED <<sensor, rechecked, mem, disk, polls, faults, restarts,
                   historyVars>>

\* A probe found the sensor, and its save is not done.
FoundUnsaved == \E p \in Polls : polls[p].stage = "save" /\ polls[p].reply # "failed"

\* Home Assistant stops, or crashes before a write, and starts again.
Restart ==
    /\ restarts < MaxRestarts /\ restarts' = restarts + 1
    /\ sensor' = NoSensor
    /\ rechecked' = FALSE
    /\ mem' = disk
    /\ polls' = [p \in Polls |-> IdlePoll]
    /\ asked' = 0
    /\ lost' = (lost \/ FoundUnsaved)
    /\ UNCHANGED <<paired, disk, pairings, faults, streak, overlap>>

-----------------------------------------------------------------------------
(* Specification *)

PollProgress(p) ==
    \/ CheckSensor(p) \/ CloudAnswers(p)
    \/ BatteryRead(p) \/ SensorFound(p) \/ RecheckFailed(p) \/ ProbeFailed(p)
    \/ Save(p) \/ EndPoll(p) \/ FailPoll(p)

ProbeNext ==
    \/ \E p \in Polls : BeginPoll(p) \/ PollProgress(p)
    \/ FailureAges \/ FetchAges
    \/ PairOrUnpair
    \/ Restart

ProbeSpec == ProbeInit /\ [][ProbeNext]_probeVars

\* Polls are scheduled for ever, their calls return or raise, days pass.
Fairness ==
    /\ WF_probeVars(\E p \in Polls : BeginPoll(p))
    /\ \A p \in Polls : WF_probeVars(PollProgress(p))
    /\ WF_probeVars(FailureAges)
    /\ WF_probeVars(FetchAges)

FairSpec == ProbeSpec /\ Fairness

-----------------------------------------------------------------------------
(* Correctness *)

\* With the count never above AbsentAfter: a failed recheck does not add to it.
ProbeTypeOK ==
    /\ paired \in BOOLEAN
    /\ sensor \in Sensor
    /\ rechecked \in BOOLEAN
    /\ mem \in Stored
    /\ disk \in Stored
    /\ polls \in [Polls -> Poll]
    /\ pairings \in Nat /\ faults \in Nat /\ restarts \in Nat
    /\ streak \in 0..AbsentAfter
    /\ lost \in BOOLEAN
    /\ asked \in Nat
    /\ overlap \in BOOLEAN

\* The door sensor is given up only after AbsentAfter failures in a row ("only
\* give up after SENSOR_ABSENT_AFTER_FAILURES consecutive failures, persisted").
VerdictIsEarned == mem.absent => streak = AbsentAfter

\* That holds over restarts, and crashes that lose failures, as long as no two
\* polls have been in progress at once - a failure counted from what was read
\* before another poll's success undoes that success - and no crash has come
\* between a success and its save: then the failures before it count again.
SerialVerdictIsEarned == ~overlap /\ ~lost => VerdictIsEarned

\* Once given up, the sensor is probed once per restart: the call that made
\* the verdict, or one recheck - whatever polls overlap.
QuietAfterVerdict == mem.absent => asked <= 1

\* The question does not stay open: in the end a sensor is known to be
\* present, or has been given up.
ProbeSettles == <>[](sensor.present \/ mem.absent)

=============================================================================
