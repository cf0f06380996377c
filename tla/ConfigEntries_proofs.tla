------------------------ MODULE ConfigEntries_proofs ------------------------
(***************************************************************************)
(* Theorems about ConfigEntries, for any entries, options and bounds.      *)
(***************************************************************************)
EXTENDS ConfigEntries, TLAPS

-----------------------------------------------------------------------------
(* The inductive invariant, entry by entry *)

\* Awaits of a set-up at which the listener is registered; at which there are
\* coordinators.
Listening == {"counter", "locks", "gateways", "webhook", "platforms"}
Built == {"gateways", "webhook", "platforms"}

\* The listener is there when it is needed, and a set-up begins with no more
\* of them than set-ups have failed.
ListenerInv(e) ==
    /\ task[e] \in Listening \/ state[e] = "loaded" => listeners[e] # 0
    /\ \/ task[e] = "implementation"
       \/ task[e] = "none" /\ state[e] \in {"not_loaded", "error", "retry"}
       => listeners[e] <= faults

\* What the set-up has stored by each of its awaits.
PartsInv(e) ==
    /\ task[e] \in Listening \ {"counter"} => record[e] # {}
    /\ task[e] \in Built => HasLocks(e)
    /\ task[e] \in {"webhook", "platforms"} => \A r \in record[e] : r.gateways

\* Entities are shown while an entry is loaded or stuck, with their coordinators.
ShownInv(e) ==
    shown[e] # 0 =>
        /\ state[e] \in {"loaded", "failed_unload"}
        /\ task[e] \in {"none", "unloading"}
        /\ \E r \in record[e] :
              r.gateways /\ \E c \in r.locks : c.generation = shown[e]

\* Unless a reload is waiting, the snapshot and the coordinators of an entry
\* that is set up, from the snapshot on, have the options as they are.
OptionInv(e) ==
    /\ \/ task[e] \in Listening \ {"counter"}
       \/ task[e] = "none" /\ state[e] = "loaded"
    /\ waiting[e] = 0
    => \A r \in record[e] :
          r.snapshot = options[e] /\ \A c \in r.locks : c.options = options[e]

EntryInv(e) == ListenerInv(e) /\ PartsInv(e) /\ ShownInv(e) /\ OptionInv(e)

EntriesInv == TypeOK /\ \A e \in Entries : EntryInv(e)

-----------------------------------------------------------------------------
LEMMA InitInv == Init => EntriesInv
  <1> SUFFICES ASSUME Init PROVE EntriesInv
    OBVIOUS
  <1>1. (CHOOSE o \in Options : TRUE) \in Options
    BY OptionsAssumption
  <1>2. TypeOK
    BY <1>1 DEF Init, TypeOK, State, Stage, Generation, bounds
  <1>3. ASSUME NEW e \in Entries PROVE EntryInv(e)
    BY <1>3 DEF Init, EntryInv, ListenerInv, PartsInv, ShownInv, OptionInv, Listening, Built
  <1> QED BY <1>2, <1>3 DEF EntriesInv

\* The user and the options form.
LEMMA ChangeOptionsInv ==
    ASSUME EntriesInv, NEW e \in Entries, ChangeOptions(e)
    PROVE  EntriesInv'
  <1>1. PICK o \in Options : /\ options' = [options EXCEPT ![e] = o]
                             /\ waiting' = [waiting EXCEPT ![e] = @ + Notified(e, o)]
    BY DEF ChangeOptions
  <1>2. Notified(e, o) \in Nat /\ (listeners[e] # 0 /\ Notified(e, o) = 0 =>
                                      \A r \in record[e] : r.snapshot = o)
    BY BoundAssumption DEF Notified, ReloadsOn, EntriesInv, TypeOK, bounds
  <1>3. TypeOK'
    BY <1>1, <1>2 DEF ChangeOptions, EntriesInv, TypeOK, bounds
  <1>4. ASSUME NEW f \in Entries PROVE EntryInv(f)'
    <2>1. ListenerInv(f)' /\ PartsInv(f)' /\ ShownInv(f)'
      BY <1>4 DEF ChangeOptions, EntriesInv, EntryInv, ListenerInv, PartsInv, ShownInv, HasLocks
    <2>2. OptionInv(f)'
      <3>1. CASE f # e
        BY <1>1, <3>1 DEF ChangeOptions, EntriesInv, TypeOK, EntryInv, OptionInv
      <3>2. CASE f = e
        BY <1>1, <1>2, <3>2
        DEF ChangeOptions, EntriesInv, TypeOK, EntryInv, OptionInv, ListenerInv
      <3> QED BY <3>1, <3>2
    <2> QED BY <2>1, <2>2 DEF EntryInv
  <1> QED BY <1>3, <1>4 DEF EntriesInv

\* The user asks, or Home Assistant takes the lock or tries again.
LEMMA AskInv ==
    ASSUME EntriesInv, NEW e \in Entries, Ask(e)
    PROVE  EntriesInv'
  <1>1. PICK d \in BOOLEAN :
           /\ disabled' = [disabled EXCEPT ![e] = d]
           /\ waiting' = [waiting EXCEPT ![e] =
                @ + 1 + IF d = disabled[e] THEN 0 ELSE Notified(e, options[e])]
    BY DEF Ask
  <1>2. Notified(e, options[e]) \in Nat
    BY BoundAssumption DEF Notified, EntriesInv, TypeOK, bounds
  <1>3. waiting' \in [Entries -> Nat] /\ waiting'[e] # 0
        /\ \A f \in Entries \ {e} : waiting'[f] = waiting[f]
    BY <1>1, <1>2 DEF EntriesInv, TypeOK
  <1>4. TypeOK'
    BY <1>1, <1>3 DEF Ask, EntriesInv, TypeOK, bounds
  <1>5. ASSUME NEW f \in Entries PROVE EntryInv(f)'
    BY <1>3, <1>5
    DEF Ask, EntriesInv, EntryInv, ListenerInv, PartsInv, ShownInv, OptionInv, HasLocks
  <1> QED BY <1>4, <1>5 DEF EntriesInv

LEMMA TakeLockInv ==
    ASSUME EntriesInv, NEW e \in Entries, TakeLock(e)
    PROVE  EntriesInv'
  <1>1. TypeOK'
    BY DEF TakeLock, EntriesInv, TypeOK, bounds, At, GoTo, Stage, State
  <1>2. ASSUME NEW f \in Entries PROVE EntryInv(f)'
    <2>1. CASE f # e
      BY <2>1 DEF TakeLock, GoTo, bounds, EntriesInv, TypeOK, EntryInv, ListenerInv,
                  PartsInv, ShownInv, OptionInv, HasLocks
    <2>2. CASE f = e
      BY <2>2 DEF TakeLock, At, GoTo, bounds, EntriesInv, TypeOK, EntryInv, ListenerInv,
                  PartsInv, ShownInv, OptionInv, HasLocks, Listening, Built
    <2> QED BY <2>1, <2>2
  <1> QED BY <1>1, <1>2 DEF EntriesInv

LEMMA RetryInv ==
    ASSUME EntriesInv, NEW e \in Entries, Retry(e)
    PROVE  EntriesInv'
  <1>1. TypeOK'
    BY DEF Retry, EntriesInv, TypeOK, bounds, At, GoTo, Stage
  <1>2. ASSUME NEW f \in Entries PROVE EntryInv(f)'
    <2>1. CASE f # e
      BY <2>1 DEF Retry, GoTo, bounds, EntriesInv, TypeOK, EntryInv, ListenerInv,
                  PartsInv, ShownInv, OptionInv, HasLocks
    <2>2. CASE f = e
      BY <2>2 DEF Retry, At, GoTo, bounds, EntriesInv, TypeOK, EntryInv, ListenerInv,
                  PartsInv, ShownInv, OptionInv, HasLocks, Listening, Built
    <2> QED BY <2>1, <2>2
  <1> QED BY <1>1, <1>2 DEF EntriesInv

\* The set-up, await by await.
LEMMA ImplementationFoundInv ==
    ASSUME EntriesInv, NEW e \in Entries, ImplementationFound(e)
    PROVE  EntriesInv'
  <1>t. TypeOK'
    BY DEF ImplementationFound, EntriesInv, TypeOK, bounds, At, GoTo, Stage, EntryInv, ListenerInv
  <1>e. ASSUME NEW f \in Entries PROVE EntryInv(f)'
    <2>1. CASE f # e
      BY <2>1 DEF ImplementationFound, GoTo, End, Fault, bounds, EntriesInv, TypeOK, EntryInv,
                  ListenerInv, PartsInv, ShownInv, OptionInv, HasLocks
    <2>2. CASE f = e
      BY <2>2 DEF ImplementationFound, At, GoTo, End, Fault, bounds, EntriesInv, TypeOK, EntryInv,
                  ListenerInv, PartsInv, ShownInv, OptionInv, HasLocks, Listening, Built
    <2> QED BY <2>1, <2>2
  <1> QED BY <1>t, <1>e DEF EntriesInv

LEMMA CounterLoadedInv ==
    ASSUME EntriesInv, NEW e \in Entries, CounterLoaded(e)
    PROVE  EntriesInv'
  <1> DEFINE new == [snapshot |-> options[e], locks |-> {}, gateways |-> FALSE]
  <1>0. options[e] \in Options
    BY DEF EntriesInv, TypeOK
  <1>1. new \in Record /\ new.snapshot = options[e] /\ new.locks = {}
        /\ \A c, d \in new.locks : c = d
    BY <1>0 DEF Record
  <1>2. /\ record' \in [Entries -> SUBSET Record]
        /\ record'[e] = {new}
        /\ \A f \in Entries \ {e} : record'[f] = record[f]
    BY <1>1 DEF CounterLoaded, EntriesInv, TypeOK
  <1> HIDE DEF new
  <1>3. \A f \in Entries : \A q, r \in record'[f] :
           q = r /\ \A c, d \in r.locks : c = d
    <2>1. \A q, r \in record'[e] : q = r /\ \A c, d \in r.locks : c = d
      BY <1>1, <1>2
    <2>2. \A f \in Entries \ {e} : \A q, r \in record'[f] :
             q = r /\ \A c, d \in r.locks : c = d
      BY <1>2 DEF EntriesInv, TypeOK
    <2> QED BY <2>1, <2>2
  <1>t. TypeOK'
    BY <1>2, <1>3 DEF CounterLoaded, EntriesInv, TypeOK, bounds, GoTo, Stage
  <1>e. ASSUME NEW f \in Entries PROVE EntryInv(f)'
    <2>1. CASE f # e
      BY <1>2, <2>1 DEF CounterLoaded, GoTo, bounds, EntriesInv, TypeOK, EntryInv,
                  ListenerInv, PartsInv, ShownInv, OptionInv, HasLocks
    <2>2. CASE f = e
      <3>1. task'[e] = "locks" /\ task[e] = "counter"
            /\ UNCHANGED <<state, options, waiting, listeners, shown, faults>>
        BY DEF CounterLoaded, At, GoTo, bounds, EntriesInv, TypeOK
      <3>2. ListenerInv(e)' /\ ShownInv(e)'
        BY <3>1 DEF EntriesInv, EntryInv, ListenerInv, ShownInv, Listening
      <3>3. PartsInv(e)'
        BY <1>1, <1>2, <3>1 DEF EntriesInv, EntryInv, PartsInv, HasLocks, Listening, Built
      <3>4. OptionInv(e)'
        BY <1>1, <1>2, <3>1 DEF EntriesInv, EntryInv, OptionInv, Listening
      <3> QED BY <2>2, <3>2, <3>3, <3>4 DEF EntryInv
    <2> QED BY <2>1, <2>2
  <1> QED BY <1>t, <1>e DEF EntriesInv

LEMMA LocksListedInv ==
    ASSUME EntriesInv, NEW e \in Entries, LocksListed(e)
    PROVE  EntriesInv'
  <1>0. PICK old \in Record : record[e] = {old}
    BY DEF LocksListed, At, Listening, EntriesInv, EntryInv, PartsInv, TypeOK
  <1> DEFINE new == [old EXCEPT !.locks = {NewCoordinators(e)}]
  <1>1. /\ new \in Record /\ new.snapshot = old.snapshot /\ new.locks = {NewCoordinators(e)}
        /\ {[r EXCEPT !.locks = {NewCoordinators(e)}] : r \in record[e]} = {new}
        /\ NewCoordinators(e).options = options[e]
        /\ \A c, d \in new.locks : c = d
    BY <1>0 DEF EntriesInv, TypeOK, Record, NewCoordinators, Coordinators, Generation
  <1>2. /\ record' = [record EXCEPT ![e] = {new}]
        /\ record' \in [Entries -> SUBSET Record]
        /\ record'[e] = {new}
        /\ \A f \in Entries \ {e} : record'[f] = record[f]
    <2>1. record' = [record EXCEPT ![e] = {new}]
      BY <1>1 DEF LocksListed
    <2> HIDE DEF new
    <2> QED BY <1>1, <2>1 DEF EntriesInv, TypeOK
  <1> HIDE DEF new
  <1>3. \A f \in Entries : \A q, r \in record'[f] :
           q = r /\ \A c, d \in r.locks : c = d
    <2>1. \A q, r \in record'[e] : q = r /\ \A c, d \in r.locks : c = d
      BY <1>1, <1>2
    <2>2. \A f \in Entries \ {e} : \A q, r \in record'[f] :
             q = r /\ \A c, d \in r.locks : c = d
      BY <1>2 DEF EntriesInv, TypeOK
    <2> QED BY <2>1, <2>2
  <1>t. TypeOK'
    BY <1>2, <1>3 DEF LocksListed, EntriesInv, TypeOK, bounds, GoTo, Stage, Generation
  <1>e. ASSUME NEW f \in Entries PROVE EntryInv(f)'
    <2>1. CASE f # e
      BY <1>2, <2>1 DEF LocksListed, GoTo, bounds, EntriesInv, TypeOK, EntryInv,
                  ListenerInv, PartsInv, ShownInv, OptionInv, HasLocks
    <2>2. CASE f = e
      <3>1. task'[e] = "gateways" /\ task[e] = "locks"
            /\ UNCHANGED <<state, options, waiting, listeners, shown, faults>>
        BY DEF LocksListed, At, GoTo, bounds, EntriesInv, TypeOK
      <3>2. ListenerInv(e)' /\ ShownInv(e)'
        BY <3>1 DEF EntriesInv, EntryInv, ListenerInv, ShownInv, Listening
      <3>3. PartsInv(e)'
        BY <1>0, <1>1, <1>2, <3>1 DEF EntriesInv, EntryInv, PartsInv, HasLocks, Listening, Built
      <3>4. OptionInv(e)'
        BY <1>0, <1>1, <1>2, <3>1 DEF EntriesInv, EntryInv, OptionInv, Listening
      <3> QED BY <2>2, <3>2, <3>3, <3>4 DEF EntryInv
    <2> QED BY <2>1, <2>2
  <1> QED BY <1>t, <1>e DEF EntriesInv

LEMMA GatewaysListedInv ==
    ASSUME EntriesInv, NEW e \in Entries, GatewaysListed(e)
    PROVE  EntriesInv'
  <1>0. PICK old \in Record : record[e] = {old}
    BY DEF GatewaysListed, At, Listening, EntriesInv, EntryInv, PartsInv, TypeOK
  <1>d. \A c, d \in old.locks : c = d
    BY <1>0 DEF EntriesInv, TypeOK
  <1> DEFINE new == [old EXCEPT !.gateways = TRUE]
  <1>1. /\ new \in Record /\ new.snapshot = old.snapshot /\ new.locks = old.locks
        /\ new.gateways
        /\ \A c, d \in new.locks : c = d
        /\ {[r EXCEPT !.gateways = TRUE] : r \in record[e]} = {new}
    BY <1>0, <1>d DEF Record
  <1>2. /\ record' = [record EXCEPT ![e] = {new}]
        /\ record' \in [Entries -> SUBSET Record]
        /\ record'[e] = {new}
        /\ \A f \in Entries \ {e} : record'[f] = record[f]
    <2>1. record' = [record EXCEPT ![e] = {new}]
      BY <1>1 DEF GatewaysListed
    <2> HIDE DEF new
    <2> QED BY <1>1, <2>1 DEF EntriesInv, TypeOK
  <1> HIDE DEF new
  <1>3. \A f \in Entries : \A q, r \in record'[f] :
           q = r /\ \A c, d \in r.locks : c = d
    <2>1. \A q, r \in record'[e] : q = r /\ \A c, d \in r.locks : c = d
      BY <1>1, <1>2
    <2>2. \A f \in Entries \ {e} : \A q, r \in record'[f] :
             q = r /\ \A c, d \in r.locks : c = d
      BY <1>2 DEF EntriesInv, TypeOK
    <2> QED BY <2>1, <2>2
  <1>t. TypeOK'
    BY <1>2, <1>3 DEF GatewaysListed, EntriesInv, TypeOK, bounds, GoTo, Stage
  <1>e. ASSUME NEW f \in Entries PROVE EntryInv(f)'
    <2>1. CASE f # e
      BY <1>2, <2>1 DEF GatewaysListed, GoTo, bounds, EntriesInv, TypeOK, EntryInv,
                  ListenerInv, PartsInv, ShownInv, OptionInv, HasLocks
    <2>2. CASE f = e
      <3>1. task'[e] = "webhook" /\ task[e] = "gateways"
            /\ UNCHANGED <<state, options, waiting, listeners, shown, faults>>
        BY DEF GatewaysListed, At, GoTo, bounds, EntriesInv, TypeOK
      <3>2. ListenerInv(e)' /\ ShownInv(e)'
        BY <3>1 DEF EntriesInv, EntryInv, ListenerInv, ShownInv, Listening
      <3>3. PartsInv(e)'
        BY <1>0, <1>1, <1>2, <3>1 DEF EntriesInv, EntryInv, PartsInv, HasLocks, Listening, Built
      <3>4. OptionInv(e)'
        BY <1>0, <1>1, <1>2, <3>1 DEF EntriesInv, EntryInv, OptionInv, Listening
      <3> QED BY <2>2, <3>2, <3>3, <3>4 DEF EntryInv
    <2> QED BY <2>1, <2>2
  <1> QED BY <1>t, <1>e DEF EntriesInv

LEMMA SetupFailsInv ==
    ASSUME EntriesInv, NEW e \in Entries, SetupFails(e)
    PROVE  EntriesInv'
  <1>t. TypeOK'
    BY DEF SetupFails, EntriesInv, TypeOK, bounds, At, GoTo, Stage, State, End, Fault
  <1>e. ASSUME NEW f \in Entries PROVE EntryInv(f)'
    <2>1. CASE f # e
      BY <2>1 DEF SetupFails, GoTo, End, Fault, bounds, EntriesInv, TypeOK, EntryInv,
                  ListenerInv, PartsInv, ShownInv, OptionInv, HasLocks
    <2>2. CASE f = e
      BY <2>2 DEF SetupFails, At, GoTo, End, Fault, bounds, EntriesInv, TypeOK, EntryInv,
                  ListenerInv, PartsInv, ShownInv, OptionInv, HasLocks, Listening, Built
    <2> QED BY <2>1, <2>2
  <1> QED BY <1>t, <1>e DEF EntriesInv

LEMMA NotReadyInv ==
    ASSUME EntriesInv, NEW e \in Entries, NotReady(e)
    PROVE  EntriesInv'
  <1>t. TypeOK'
    BY DEF NotReady, EntriesInv, TypeOK, bounds, At, GoTo, Stage, State, End, Fault
  <1>e. ASSUME NEW f \in Entries PROVE EntryInv(f)'
    <2>1. CASE f # e
      BY <2>1 DEF NotReady, GoTo, End, Fault, bounds, EntriesInv, TypeOK, EntryInv,
                  ListenerInv, PartsInv, ShownInv, OptionInv, HasLocks
    <2>2. CASE f = e
      BY <2>2 DEF NotReady, At, GoTo, End, Fault, bounds, EntriesInv, TypeOK, EntryInv,
                  ListenerInv, PartsInv, ShownInv, OptionInv, HasLocks, Listening, Built
    <2> QED BY <2>1, <2>2
  <1> QED BY <1>t, <1>e DEF EntriesInv

LEMMA WebhookSetUpInv ==
    ASSUME EntriesInv, NEW e \in Entries, WebhookSetUp(e)
    PROVE  EntriesInv'
  <1>1. PICK more \in Nat : waiting' = [waiting EXCEPT ![e] = @ + more]
    <2>1. Notified(e, options[e]) \in Nat
      BY BoundAssumption DEF Notified, EntriesInv, TypeOK, bounds
    <2> QED BY <2>1 DEF WebhookSetUp
  <1>t. TypeOK'
    BY <1>1 DEF WebhookSetUp, EntriesInv, TypeOK, bounds, GoTo, Stage
  <1>e. ASSUME NEW f \in Entries PROVE EntryInv(f)'
    <2>1. CASE f # e
      BY <1>1, <2>1 DEF WebhookSetUp, GoTo, bounds, EntriesInv, TypeOK, EntryInv,
                  ListenerInv, PartsInv, ShownInv, OptionInv, HasLocks
    <2>2. CASE f = e
      <3>1. task[e] = "webhook" /\ task'[e] = "platforms"
            /\ waiting[e] \in Nat /\ waiting'[e] = waiting[e] + more
            /\ UNCHANGED <<state, options, listeners, shown, record, faults>>
        BY <1>1 DEF WebhookSetUp, At, GoTo, bounds, EntriesInv, TypeOK
      <3>2. ListenerInv(e)' /\ ShownInv(e)' /\ PartsInv(e)'
        BY <3>1 DEF EntriesInv, EntryInv, ListenerInv, ShownInv, PartsInv, HasLocks,
                    Listening, Built
      <3>3. waiting'[e] = 0 => waiting[e] = 0
        BY <3>1
      <3>4. OptionInv(e)
        BY DEF EntriesInv, EntryInv
      <3>5. OptionInv(e)'
        BY <3>1, <3>3, <3>4 DEF OptionInv, Listening
      <3> QED BY <2>2, <3>2, <3>5 DEF EntryInv
    <2> QED BY <2>1, <2>2
  <1> QED BY <1>t, <1>e DEF EntriesInv

LEMMA PlatformsSetUpInv ==
    ASSUME EntriesInv, NEW e \in Entries, PlatformsSetUp(e)
    PROVE  EntriesInv'
  <1>0. Locks(e) # {} /\ \A r \in record[e] : r.gateways
    BY DEF PlatformsSetUp, At, Built, EntriesInv, EntryInv, PartsInv, HasLocks, Locks
  <1>1. PICK c \in Locks(e) : shown' = [shown EXCEPT ![e] = c.generation]
    BY <1>0 DEF PlatformsSetUp
  <1>2. c.generation \in Generation
    BY <1>1 DEF Locks, EntriesInv, TypeOK, Record, Coordinators
  <1>t. TypeOK'
    BY <1>1, <1>2 DEF PlatformsSetUp, EntriesInv, TypeOK, bounds, GoTo, End, Stage, State
  <1>e. ASSUME NEW f \in Entries PROVE EntryInv(f)'
    <2>1. CASE f # e
      BY <1>1, <2>1 DEF PlatformsSetUp, GoTo, End, bounds, EntriesInv, TypeOK, EntryInv,
                  ListenerInv, PartsInv, ShownInv, OptionInv, HasLocks
    <2>2. CASE f = e
      <3>1. task[e] = "platforms" /\ task'[e] = "none" /\ state'[e] = "loaded"
            /\ shown'[e] = c.generation
            /\ UNCHANGED <<options, listeners, waiting, record, faults>>
        BY <1>1 DEF PlatformsSetUp, At, GoTo, End, bounds, EntriesInv, TypeOK
      <3>2. ListenerInv(e)' /\ PartsInv(e)' /\ OptionInv(e)'
        BY <3>1 DEF EntriesInv, EntryInv, ListenerInv, PartsInv, OptionInv, Listening, Built
      <3>3. ShownInv(e)'
        BY <1>0, <1>1, <3>1 DEF ShownInv, Locks
      <3> QED BY <2>2, <3>2, <3>3 DEF EntryInv
    <2> QED BY <2>1, <2>2
  <1> QED BY <1>t, <1>e DEF EntriesInv

\* The unloading.
LEMMA PlatformsUnloadedInv ==
    ASSUME EntriesInv, NEW e \in Entries, PlatformsUnloaded(e)
    PROVE  EntriesInv'
  <1>t. TypeOK'
    BY DEF PlatformsUnloaded, EntriesInv, TypeOK, bounds, At, GoTo, Stage, Generation
  <1>e. ASSUME NEW f \in Entries PROVE EntryInv(f)'
    <2>1. CASE f # e
      BY <2>1 DEF PlatformsUnloaded, GoTo, End, Fault, bounds, EntriesInv, TypeOK, EntryInv,
                  ListenerInv, PartsInv, ShownInv, OptionInv, HasLocks
    <2>2. CASE f = e
      BY <2>2 DEF PlatformsUnloaded, At, GoTo, End, Fault, bounds, EntriesInv, TypeOK, EntryInv,
                  ListenerInv, PartsInv, ShownInv, OptionInv, HasLocks, Listening, Built
    <2> QED BY <2>1, <2>2
  <1> QED BY <1>t, <1>e DEF EntriesInv

LEMMA PlatformStaysInv ==
    ASSUME EntriesInv, NEW e \in Entries, PlatformStays(e)
    PROVE  EntriesInv'
  <1>t. TypeOK'
    BY DEF PlatformStays, EntriesInv, TypeOK, bounds, At, GoTo, Stage, State, End, Fault
  <1>e. ASSUME NEW f \in Entries PROVE EntryInv(f)'
    <2>1. CASE f # e
      BY <2>1 DEF PlatformStays, GoTo, End, Fault, bounds, EntriesInv, TypeOK, EntryInv,
                  ListenerInv, PartsInv, ShownInv, OptionInv, HasLocks
    <2>2. CASE f = e
      BY <2>2 DEF PlatformStays, At, GoTo, End, Fault, bounds, EntriesInv, TypeOK, EntryInv,
                  ListenerInv, PartsInv, ShownInv, OptionInv, HasLocks, Listening, Built
    <2> QED BY <2>1, <2>2
  <1> QED BY <1>t, <1>e DEF EntriesInv

LEMMA ForgetInv ==
    ASSUME EntriesInv, NEW e \in Entries, Forget(e)
    PROVE  EntriesInv'
  <1>t. TypeOK'
    BY DEF Forget, EntriesInv, TypeOK, bounds, At, GoTo, Stage, State
  <1>e. ASSUME NEW f \in Entries PROVE EntryInv(f)'
    <2>1. CASE f # e
      BY <2>1 DEF Forget, GoTo, End, Fault, bounds, EntriesInv, TypeOK, EntryInv,
                  ListenerInv, PartsInv, ShownInv, OptionInv, HasLocks
    <2>2. CASE f = e
      BY <2>2 DEF Forget, At, GoTo, End, Fault, bounds, EntriesInv, TypeOK, EntryInv,
                  ListenerInv, PartsInv, ShownInv, OptionInv, HasLocks, Listening, Built
    <2> QED BY <2>1, <2>2
  <1> QED BY <1>t, <1>e DEF EntriesInv

-----------------------------------------------------------------------------
(* Theorems *)

LEMMA StepInv == EntriesInv /\ [Next]_vars => EntriesInv'
  <1> SUFFICES ASSUME EntriesInv, [Next]_vars PROVE EntriesInv'
    OBVIOUS
  <1>1. ASSUME NEW e \in Entries, ChangeOptions(e) \/ Ask(e) PROVE EntriesInv'
    BY <1>1, ChangeOptionsInv, AskInv
  <1>2. ASSUME NEW e \in Entries, TakeLock(e) \/ Retry(e) PROVE EntriesInv'
    BY <1>2, TakeLockInv, RetryInv
  <1>3. ASSUME NEW e \in Entries, Setup(e) PROVE EntriesInv'
    BY <1>3, ImplementationFoundInv, CounterLoadedInv, LocksListedInv, GatewaysListedInv,
       WebhookSetUpInv, PlatformsSetUpInv, SetupFailsInv, NotReadyInv DEF Setup
  <1>4. ASSUME NEW e \in Entries, Unload(e) PROVE EntriesInv'
    BY <1>4, PlatformsUnloadedInv, PlatformStaysInv, ForgetInv DEF Unload
  <1>5. CASE UNCHANGED vars
    BY <1>5 DEF vars, bounds, EntriesInv, TypeOK, EntryInv, ListenerInv, PartsInv,
                ShownInv, OptionInv, HasLocks
  <1> QED BY <1>1, <1>2, <1>3, <1>4, <1>5 DEF Next

LEMMA Invariance == Spec => []EntriesInv
  <1> QED BY InitInv, StepInv, PTL DEF Spec

\* Every reachable state is well typed; in particular the update listener is
\* registered at most once more than set-ups have failed.
THEOREM TypeCorrect == Spec => []TypeOK
  <1>1. EntriesInv => TypeOK
    BY DEF EntriesInv
  <1> QED BY <1>1, Invariance, PTL

\* Whatever happens to an entry, the entities that are in Home Assistant find the
\* coordinators they show (async_setup_entry, async_unload_entry, coordinator_for).
THEOREM ShownKept == Spec => []ShownIsKept
  <1>1. EntriesInv => ShownIsKept
    BY DEF EntriesInv, EntryInv, ShownInv, ShownIsKept, Finds, Locks
  <1> QED BY <1>1, Invariance, PTL

\* No saved option is missed for good, at whatever await of a set-up or an unload
\* it was saved (_reload_on_options_update, the snapshot of async_setup_entry).
THEOREM SavedOptionsUsed == Spec => []OptionsTakeEffect
  <1>1. EntriesInv => OptionsTakeEffect
    BY DEF EntriesInv, EntryInv, OptionInv, OptionsTakeEffect, Locks
  <1> QED BY <1>1, Invariance, PTL

=============================================================================
