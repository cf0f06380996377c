---------------------------- MODULE ApiCallCounter ----------------------------
(***************************************************************************)
(* The tally of cloud calls (api_stats.py) that the config entries share,  *)
(* through set-ups, failures and unloads (__init__.py) and over days and   *)
(* restarts of Home Assistant.                                             *)
(*                                                                         *)
(* A set-up looks for the shared counter, creates and loads one if there   *)
(* is none, and then makes two calls that may fail: for the locks and for  *)
(* the gateways.  Every call is counted before it is sent.  A counter's    *)
(* pending save outlives the entries that used it.                         *)
(***************************************************************************)
EXTENDS Naturals, FiniteSets, SequencesExt

CONSTANTS
    Entries,     \* config entries
    Counters,    \* bound: slots for ApiCallCounter objects
    None,        \* no counter
    Retention,   \* RETENTION_DAYS
    MonthLength, \* external: days of a month
    MaxDay,      \* bound: the last day
    MaxCalls,    \* bound: calls
    MaxRestarts  \* bound: restarts of Home Assistant

ASSUME NoneAssumption == None \notin Counters
ASSUME MonthAssumption == MonthLength \in Nat \ {0}
\* "Two full months so the current month is always complete"; this would do.
ASSUME RetentionAssumption == Retention \in Nat /\ Retention >= MonthLength - 1
ASSUME CounterBoundAssumption == {MaxDay, MaxCalls, MaxRestarts} \subseteq Nat

VARIABLES
    entry,    \* each entry's set-up, and its record in the domain data
    shared,   \* hass.data[DOMAIN][_COUNTER_KEY]
    counter,  \* the tally in each counter object
    saves,    \* counters with a delayed save, by when it is due
    file,     \* the tally in the file
    today,
    callsMade, restarts, \* what is used of the bounds
    sent,     \* history: the calls sent
    raced,    \* history: has a counter been created while another was loading
    lost      \* history: has a tally been dropped before it was saved

boundVars == <<callsMade, restarts>>
historyVars == <<sent, raced, lost>>
counterVars == <<entry, shared, counter, saves, file, today, boundVars, historyVars>>

-----------------------------------------------------------------------------
(* Values *)

Date == 0..MaxDay
Tally == [Date -> Nat]         \* a day without a record counts as zero
NoCalls == [d \in Date |-> 0]

ThisMonth == {d \in Date : d <= today /\ d \div MonthLength = today \div MonthLength}

\* `data` is hass.data[DOMAIN][entry_id]: absent, with the API alone, with the
\* locks, with locks and gateways.
Entry == [stage : {"unloaded", "loading", "locks", "gateways", "loaded", "failed"},
          counter : Counters \cup {None},
          data : {"none", "api", "locks", "all"}]
NewEntry == [stage |-> "unloaded", counter |-> None, data |-> "none"]

Pending == {saves[i] : i \in 1..Len(saves)}

\* The counters that nothing refers to any more.
Free == Counters \ (Pending \cup {shared} \cup {entry[e].counter : e \in Entries})

CounterInit ==
    /\ entry = [e \in Entries |-> NewEntry]
    /\ shared = None
    /\ counter = [c \in Counters |-> NoCalls]
    /\ saves = <<>>
    /\ file = NoCalls
    /\ today = 0
    /\ callsMade = 0 /\ restarts = 0
    /\ sent = NoCalls
    /\ raced = FALSE
    /\ lost = FALSE

-----------------------------------------------------------------------------
(* ApiCallCounter.record *)

\* Mutant: nothing is pruned.
PruneNothing(days) == days

Prune(days) == [d \in Date |-> IF d + Retention < today THEN 0 ELSE days[d]]

\* Mutant: saved only when a day's record is created.
DelaySaveNewDay(c, days) ==
    saves' = IF days[today] = 0 /\ c \notin Pending THEN Append(saves, c) ELSE saves

\* Mutant: every call schedules a save of its own.
DelaySaveEach(c, days) == saves' = Append(saves, c)

\* async_delay_save puts the save off until the delay has passed since the
\* last call.  The data is taken when it is due.
DelaySave(c, days) ==
    \/ /\ c \notin Pending
       /\ saves' = Append(saves, c)
    \/ \E i \in 1..Len(saves) :
          /\ saves[i] = c
          /\ saves' = Append(RemoveAt(saves, i), c)

\* One call through counter c, which holds `days`.
Record(c, days) ==
    /\ callsMade < MaxCalls /\ callsMade' = callsMade + 1
    /\ sent' = [sent EXCEPT ![today] = @ + 1]
    /\ counter' = [counter EXCEPT ![c] = Prune([days EXCEPT ![today] = @ + 1])]
    /\ DelaySave(c, days)

-----------------------------------------------------------------------------
(* Config entries *)

\* async_setup_entry once it has its counter: the client, the entry's record
\* in the domain data, and get_locks.
Connect(e, c, days) ==
    /\ entry' = [entry EXCEPT ![e] = [stage |-> "locks", counter |-> c,
                                      data |-> "api"]]
    /\ Record(c, days)

\* Set up, also again after a failure.
Setup(e) ==
    /\ entry[e].stage \in {"unloaded", "failed"}
    /\ \/ /\ shared # None
          /\ Connect(e, shared, counter[shared])
          /\ UNCHANGED <<raced, restarts>>
       \/ /\ shared = None
          /\ \E c \in Free :
               entry' = [entry EXCEPT ![e].stage = "loading", ![e].counter = c]
          /\ raced' = (raced \/ \E f \in Entries : entry[f].stage = "loading")
          /\ UNCHANGED <<counter, saves, sent, boundVars>>
    /\ UNCHANGED <<shared, file, today, lost>>

\* async_load returned.  What the file does not have yet is not counted.
CounterLoaded(e) ==
    LET c == entry[e].counter
    IN /\ entry[e].stage = "loading"
       /\ shared' = c
       /\ Connect(e, c, file)
       /\ lost' = (lost \/ saves # <<>>)
       /\ UNCHANGED <<file, today, raced, restarts>>

\* get_locks returned; the gateways' first refresh begins.
LocksListed(e) ==
    LET c == entry[e].counter
    IN /\ entry[e].stage = "locks"
       /\ entry' = [entry EXCEPT ![e].stage = "gateways", ![e].data = "locks"]
       /\ Record(c, counter[c])
       /\ UNCHANGED <<shared, file, today, restarts, raced, lost>>

\* The first refresh returned.  The rest of the set-up makes no call.
GatewaysListed(e) ==
    /\ entry[e].stage = "gateways"
    /\ entry' = [entry EXCEPT ![e].stage = "loaded", ![e].data = "all"]
    /\ UNCHANGED <<shared, counter, saves, file, today, boundVars, historyVars>>

\* Either call raised: the set-up ends, the record in the domain data stays.
SetupFails(e) ==
    /\ entry[e].stage \in {"locks", "gateways"}
    /\ entry' = [entry EXCEPT ![e].stage = "failed"]
    /\ UNCHANGED <<shared, counter, saves, file, today, boundVars, historyVars>>

\* A poll, a command or a service of a loaded entry calls the cloud.
CallCloud(e) ==
    LET c == entry[e].counter
    IN /\ entry[e].stage = "loaded"
       /\ Record(c, counter[c])
       /\ UNCHANGED <<entry, shared, file, today, restarts, raced, lost>>

\* Mutant: the shared counter goes with any entry.
DropWithAny(e) == shared' = None

\* The last entry in the domain data takes the shared counter with it.
DropWithLast(e) ==
    shared' = IF \A f \in Entries \ {e} : entry[f].data = "none" THEN None ELSE shared

Unload(e) ==
    /\ entry[e].stage = "loaded"
    /\ entry' = [entry EXCEPT ![e] = NewEntry]
    /\ DropWithLast(e)
    /\ UNCHANGED <<counter, saves, file, today, boundVars, historyVars>>

-----------------------------------------------------------------------------
(* Time and Home Assistant *)

SaveIsDue ==
    /\ saves # <<>>
    /\ file' = counter[Head(saves)]
    /\ saves' = Tail(saves)
    /\ UNCHANGED <<entry, shared, counter, today, boundVars, historyVars>>

NextDay ==
    /\ today < MaxDay
    /\ today' = today + 1
    /\ UNCHANGED <<entry, shared, counter, saves, file, boundVars, historyVars>>

\* Home Assistant stops, and pending saves are written in some order, or it
\* crashes; and it starts again.
Restart ==
    /\ restarts < MaxRestarts /\ restarts' = restarts + 1
    /\ \/ /\ file' \in IF saves = <<>> THEN {file} ELSE {counter[c] : c \in Pending}
          /\ UNCHANGED lost
       \/ /\ UNCHANGED file
          /\ lost' = (lost \/ saves # <<>>)
    /\ entry' = [e \in Entries |-> NewEntry]
    /\ shared' = None
    /\ counter' = [c \in Counters |-> NoCalls]
    /\ saves' = <<>>
    /\ UNCHANGED <<today, callsMade, sent, raced>>

CounterNext ==
    \/ \E e \in Entries :
         \/ Setup(e) \/ CounterLoaded(e) \/ LocksListed(e) \/ GatewaysListed(e)
         \/ SetupFails(e) \/ CallCloud(e) \/ Unload(e)
    \/ SaveIsDue \/ NextDay \/ Restart

CounterSpec == CounterInit /\ [][CounterNext]_counterVars

-----------------------------------------------------------------------------
(* Correctness *)

CounterTypeOK ==
    /\ entry \in [Entries -> Entry]
    /\ shared \in Counters \cup {None}
    /\ counter \in [Counters -> Tally]
    /\ saves \in Seq(Counters) /\ Len(saves) = Cardinality(Pending)
    /\ file \in Tally
    /\ today \in Date
    /\ callsMade \in Nat /\ restarts \in Nat
    /\ sent \in Tally
    /\ raced \in BOOLEAN /\ lost \in BOOLEAN

\* The month's total is complete - pruned, reloaded and shared as the tally may
\* be - as long as no two counters were created at once and no tally was
\* dropped before it was saved, in a crash or with the last entry.
SerialTallyIsComplete ==
    ~raced /\ ~lost /\ shared # None =>
      \A d \in ThisMonth : counter[shared][d] = sent[d]

\* Under the same condition the file has the whole month once no save is due.
SerialFileCatchesUp ==
    ~raced /\ ~lost /\ saves = <<>> => \A d \in ThisMonth : file[d] = sent[d]

\* No tally, in memory or in the file, ever holds more days than Retention and
\* the day of its last call.
DaysAreBounded ==
    \A days \in {counter[c] : c \in Counters} \cup {file} :
      Cardinality({d \in Date : days[d] > 0}) <= Retention + 1

=============================================================================
