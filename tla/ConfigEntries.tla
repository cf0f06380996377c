--------------------------- MODULE ConfigEntries ---------------------------
(***************************************************************************)
(* The life of the integration's config entries (__init__.py): set up with *)
(* an await after each of its parts, unloaded, reloaded when the options   *)
(* change, disabled - and what services and buttons find of an entry       *)
(* meanwhile (coordinator.py).                                             *)
(*                                                                         *)
(* Home Assistant runs one set-up or unload of an entry at a time          *)
(* (entry.setup_lock); entries do not wait for each other.                 *)
(***************************************************************************)
EXTENDS Integers, FiniteSets

CONSTANTS
    Entries,     \* config entries
    Options,     \* what the polling options may be
    MaxChanges,  \* bound: changes of options
    MaxAsks,     \* bound: reloads, disablings and enablings by the user
    MaxFaults    \* bound: calls that fail, platforms that do not unload

ASSUME OptionsAssumption == Options # {}
ASSUME BoundAssumption == {MaxChanges, MaxAsks, MaxFaults} \subseteq Nat

VARIABLES
    options,    \* entry.options
    disabled,   \* entry.disabled_by
    state,      \* entry.state
    task,       \* the await at which the holder of entry.setup_lock is suspended
    waiting,    \* reloads of each entry that wait for its setup_lock
    listeners,  \* entry.update_listeners: how often _reload_on_options_update
    record,     \* hass.data[DOMAIN][entry_id]
    shown,      \* the coordinators whose entities are in Home Assistant
    built,      \* the last generation of an entry's coordinators
    changes, asks, faults \* what is used of the bounds

bounds == <<changes, asks, faults>>
vars == <<options, disabled, state, task, waiting, listeners, record, shown,
          built, bounds>>

-----------------------------------------------------------------------------
(* Values *)

\* ConfigEntryState, but for the transient states, which `task` gives.
State == {"not_loaded", "loaded", "error", "retry", "failed_unload"}

\* Set-up awaits the OAuth implementation, the counter's file, get_locks, the
\* first refresh of the gateways, the webhook and the platforms; unloading
\* awaits the platforms and, "unloaded", goes on when their entities are gone.
Stage == {"none", "implementation", "counter", "locks", "gateways", "webhook",
          "platforms", "unloading", "unloaded"}

\* The coordinators of an entry, one generation at a time, with the options
\* they were created with.  Generations alternate: no two in a row are equal.
Generation == {1, 2}
Coordinators == [generation : Generation, options : Options]

\* What the keys _OPTIONS_KEY, TT_LOCKS and TT_GATEWAYS hold; a part that is
\* not there yet is the empty set.
Record == [snapshot : Options,
           locks : SUBSET Coordinators,
           gateways : BOOLEAN]

HasLocks(e) == \E r \in record[e] : r.locks # {}
Locks(e) == UNION {r.locks : r \in record[e]}

\* Options are only compared with other options of the same entry: it does not
\* matter which ones an entry begins with.
Init ==
    /\ options = [e \in Entries |-> CHOOSE o \in Options : TRUE]
    /\ disabled \in [Entries -> BOOLEAN]
    /\ state = [e \in Entries |-> "not_loaded"]
    /\ task = [e \in Entries |-> "none"]
    /\ waiting = [e \in Entries |-> IF disabled[e] THEN 0 ELSE 1]
    /\ listeners = [e \in Entries |-> 0]
    /\ record = [e \in Entries |-> {}]
    /\ shown = [e \in Entries |-> 0]
    /\ built = [e \in Entries |-> 2]
    /\ changes = 0 /\ asks = 0 /\ faults = 0

Fault == faults < MaxFaults /\ faults' = faults + 1

At(e, stage) == task[e] = stage
GoTo(e, stage) == task' = [task EXCEPT ![e] = stage]
End(e, s) == GoTo(e, "none") /\ state' = [state EXCEPT ![e] = s]

-----------------------------------------------------------------------------
(* Updates of an entry.  Home Assistant calls the listeners whenever        *)
(* entry.data or entry.options change, each up to its first await.          *)

\* Mutant: an entry is reloaded for changes made after its set-up only.
ReloadsOnceLoaded(e, o) ==
    state[e] = "loaded" /\ \E r \in record[e] : r.snapshot # o

\* Mutant: every update reloads, what set-up writes itself too.
ReloadsAlways(e, o) == record[e] # {}

\* _reload_on_options_update, of an entry whose options are o.
ReloadsOn(e, o) == \E r \in record[e] : r.snapshot # o

Notified(e, o) == IF ReloadsOn(e, o) THEN listeners[e] ELSE 0

\* The options form saves (async_step_cadence).  Saving the options unchanged,
\* as the code panel does when it is closed, is no update.
ChangeOptions(e) ==
    /\ changes < MaxChanges /\ changes' = changes + 1
    /\ \E o \in Options \ {options[e]} :
          /\ options' = [options EXCEPT ![e] = o]
          /\ waiting' = [waiting EXCEPT ![e] = @ + Notified(e, o)]
    /\ UNCHANGED <<disabled, state, task, listeners, record, shown, built, asks,
                   faults>>

\* The user reloads an entry, disables it or enables it: each updates the
\* entry, if at all, and reloads it.
Ask(e) ==
    /\ asks < MaxAsks /\ asks' = asks + 1
    /\ \E d \in BOOLEAN :
          /\ disabled' = [disabled EXCEPT ![e] = d]
          /\ waiting' = [waiting EXCEPT ![e] =
                @ + 1 + IF d = disabled[e] THEN 0 ELSE Notified(e, options[e])]
    /\ UNCHANGED <<options, state, task, listeners, record, shown, built,
                   changes, faults>>

-----------------------------------------------------------------------------
(* Home Assistant's part of a reload *)

\* async_reload has the lock: a loaded entry is unloaded first; one that did
\* not unload stays as it is; of another, nothing is unloaded.
TakeLock(e) ==
    /\ At(e, "none") /\ waiting[e] > 0
    /\ waiting' = [waiting EXCEPT ![e] = @ - 1]
    /\ \/ /\ state[e] = "loaded"
          /\ GoTo(e, "unloading")
          /\ UNCHANGED state
       \/ /\ state[e] \in {"not_loaded", "error", "retry"}
          /\ state' = [state EXCEPT ![e] = "not_loaded"]
          /\ GoTo(e, IF disabled[e] THEN "none" ELSE "implementation")
       \/ /\ state[e] = "failed_unload"
          /\ UNCHANGED <<task, state>>
    /\ UNCHANGED <<options, disabled, listeners, record, shown, built, bounds>>

\* The timer of an entry that was not ready; async_reload cancels it before it
\* waits for the lock.
Retry(e) ==
    /\ At(e, "none") /\ waiting[e] = 0 /\ state[e] = "retry"
    /\ GoTo(e, "implementation")
    /\ UNCHANGED <<options, disabled, state, waiting, listeners, record, shown,
                   built, bounds>>

-----------------------------------------------------------------------------
(* async_setup_entry.  An exception that Home Assistant does not know ends *)
(* it with nothing undone, neither the record nor the listener.            *)

ImplementationFound(e) ==
    /\ At(e, "implementation")
    /\ listeners' = [listeners EXCEPT ![e] = @ + 1]
    /\ GoTo(e, "counter")
    /\ UNCHANGED <<options, disabled, state, waiting, record, shown, built,
                   bounds>>

CounterLoaded(e) ==
    /\ At(e, "counter")
    /\ record' = [record EXCEPT ![e] =
          {[snapshot |-> options[e], locks |-> {}, gateways |-> FALSE]}]
    /\ GoTo(e, "locks")
    /\ UNCHANGED <<options, disabled, state, waiting, listeners, shown, built,
                   bounds>>

\* LockUpdateCoordinator.__init__ reads the options as they are by then.
NewCoordinators(e) == [generation |-> 3 - built[e], options |-> options[e]]

LocksListed(e) ==
    /\ At(e, "locks")
    /\ record' = [record EXCEPT ![e] =
          {[r EXCEPT !.locks = {NewCoordinators(e)}] : r \in @}]
    /\ built' = [built EXCEPT ![e] = 3 - @]
    /\ GoTo(e, "gateways")
    /\ UNCHANGED <<options, disabled, state, waiting, listeners, shown, bounds>>

SetupFails(e) ==
    /\ task[e] \in {"implementation", "locks"}
    /\ Fault
    /\ End(e, "error")
    /\ UNCHANGED <<options, disabled, waiting, listeners, record, shown, built,
                   changes, asks>>

GatewaysListed(e) ==
    /\ At(e, "gateways")
    /\ record' = [record EXCEPT ![e] = {[r EXCEPT !.gateways = TRUE] : r \in @}]
    /\ GoTo(e, "webhook")
    /\ UNCHANGED <<options, disabled, state, waiting, listeners, shown, built,
                   bounds>>

\* async_config_entry_first_refresh raises ConfigEntryNotReady: what
\* async_on_unload registered is undone, and a timer is set.
NotReady(e) ==
    /\ At(e, "gateways")
    /\ Fault
    /\ End(e, "retry")
    /\ listeners' = [listeners EXCEPT ![e] = 0]
    /\ UNCHANGED <<options, disabled, waiting, record, shown, built, changes,
                   asks>>

\* WebhookHandler.setup may write entry.data, which calls the listeners.
WebhookSetUp(e) ==
    /\ At(e, "webhook")
    /\ \E written \in BOOLEAN :
          waiting' = [waiting EXCEPT ![e] =
                @ + IF written THEN Notified(e, options[e]) ELSE 0]
    /\ GoTo(e, "platforms")
    /\ UNCHANGED <<options, disabled, state, listeners, record, shown, built,
                   bounds>>

\* The platforms make their entities from lock_coordinators and
\* gateway_coordinator, and the entry is loaded.
PlatformsSetUp(e) ==
    /\ At(e, "platforms")
    /\ shown' = [shown EXCEPT ![e] = (CHOOSE c \in Locks(e) : TRUE).generation]
    /\ End(e, "loaded")
    /\ UNCHANGED <<options, disabled, waiting, listeners, record, built, bounds>>

Setup(e) ==
    \/ ImplementationFound(e) \/ CounterLoaded(e) \/ LocksListed(e)
    \/ GatewaysListed(e) \/ WebhookSetUp(e) \/ PlatformsSetUp(e)
    \/ SetupFails(e) \/ NotReady(e)

-----------------------------------------------------------------------------
(* async_unload_entry, and what Home Assistant does after it *)

PlatformsUnloaded(e) ==
    /\ At(e, "unloading")
    /\ shown' = [shown EXCEPT ![e] = 0]
    /\ GoTo(e, "unloaded")
    /\ UNCHANGED <<options, disabled, state, waiting, listeners, record, built,
                   bounds>>

\* Mutant: the record is dropped whether or not the platforms unload.
PlatformStaysAlone(e) ==
    /\ At(e, "unloading")
    /\ Fault
    /\ End(e, "failed_unload")
    /\ record' = [record EXCEPT ![e] = {}]
    /\ UNCHANGED <<options, disabled, waiting, listeners, shown, built, changes,
                   asks>>

\* A platform that does not unload keeps its entities, and the entry is stuck.
PlatformStays(e) ==
    /\ At(e, "unloading")
    /\ Fault
    /\ End(e, "failed_unload")
    /\ UNCHANGED <<options, disabled, waiting, listeners, record, shown, built,
                   changes, asks>>

Forget(e) ==
    /\ At(e, "unloaded")
    /\ record' = [record EXCEPT ![e] = {}]
    /\ listeners' = [listeners EXCEPT ![e] = 0]
    /\ state' = [state EXCEPT ![e] = "not_loaded"]
    /\ GoTo(e, IF disabled[e] THEN "none" ELSE "implementation")
    /\ UNCHANGED <<options, disabled, waiting, shown, built, bounds>>

Unload(e) == PlatformsUnloaded(e) \/ PlatformStays(e) \/ Forget(e)

-----------------------------------------------------------------------------
(* What is found of an entry by others *)

\* What coordinator_for looks for an entity of entry e among the coordinators of
\* the entry.  It looks through those of all entries, and raises if it comes to
\* one without a complete record before it has found it.
Finds(e) == \E c \in Locks(e) : c.generation = shown[e]

-----------------------------------------------------------------------------
Next ==
    \E e \in Entries :
        \/ ChangeOptions(e) \/ Ask(e)
        \/ TakeLock(e) \/ Retry(e)
        \/ Setup(e) \/ Unload(e)

Spec == Init /\ [][Next]_vars

\* What has the lock goes on: calls return or raise; who waits for it gets it.
Fairness ==
    \A e \in Entries : WF_vars(TakeLock(e) \/ Retry(e) \/ Setup(e) \/ Unload(e))

FairSpec == Spec /\ Fairness

-----------------------------------------------------------------------------
(* Correctness *)

\* The listener is registered exactly once, but for set-ups that ended in an
\* exception: each leaves one behind.
TypeOK ==
    /\ options \in [Entries -> Options]
    /\ disabled \in [Entries -> BOOLEAN]
    /\ state \in [Entries -> State]
    /\ task \in [Entries -> Stage]
    /\ waiting \in [Entries -> Nat]
    /\ listeners \in [Entries -> 0..(1 + faults)]
    /\ record \in [Entries -> SUBSET Record]
    /\ \A e \in Entries : \A q, r \in record[e] :
          q = r /\ \A c, d \in r.locks : c = d
    /\ shown \in [Entries -> {0} \cup Generation]
    /\ built \in [Entries -> Generation]
    /\ bounds \in Nat \X Nat \X Nat

\* Once nothing is under way, the coordinators of a loaded entry work with the
\* options that the user saved last, at whatever moment of a set-up, a reload
\* or an unload that was.
OptionsTakeEffect ==
    \A e \in Entries :
        state[e] = "loaded" /\ task[e] = "none" /\ waiting[e] = 0
            => \A c \in Locks(e) : c.options = options[e]

\* As long as entities of an entry are in Home Assistant, what their buttons
\* and services look up is there, and it is the coordinators they show: also
\* while the entry is unloaded, and after an unload that failed.
ShownIsKept ==
    \A e \in Entries :
        shown[e] # 0 => Finds(e) /\ \E r \in record[e] : r.gateways

\* Set-ups write entry data, which calls the listener that reloads: this does
\* not go round for ever, whatever set-ups write and however they fail.
SetUpsSettle ==
    <>[](\A e \in Entries :
            task[e] = "none" /\ waiting[e] = 0 /\ state[e] # "retry")
=============================================================================
