------------------------ MODULE WebhookGroup_proofs ------------------------
(***************************************************************************)
(* Theorems about WebhookGroup, for any finite number of entries with any  *)
(* history, any webhook ids and any bounds.                                *)
(***************************************************************************)
EXTENDS WebhookGroup, FiniteSetTheorems, TLAPS

-----------------------------------------------------------------------------
(* The inductive invariant *)

\* Entries that take part in the group: joined, and not gone from it by an error;
\* still listening for HOMEASSISTANT_STOP.
Joined(e) == task[e] \in {"url", "register", "registered"}
Bound(e) == Joined(e) \/ stops[e] > 0

\* Nothing is there yet when Home Assistant starts, or of a new entry.
FreshInv ==
    /\ core = "starting" =>
         /\ group = NoGroup /\ issues = {} /\ ~handled
         /\ \A e \in Entries : task[e] \in {"none", "started"} /\ stops[e] = 0
         /\ \A i \in Ids : hooks[i] = None
    /\ \A e \in Entries : life[e] = "new" => task[e] = "none" /\ entry[e] = NewEntry

\* One task resolves, while there is no group; whoever takes part has its id.
GroupInv ==
    core = "running" => \A e \in Entries :
        /\ task[e] = "resolve" => lock = e /\ group = NoGroup
        /\ Bound(e) => group # NoGroup /\ entry[e].id = group.id

\* A handler is registered for the group's id, by an entry that has it.
HookInv ==
    \A i \in Ids : hooks[i] # None =>
        /\ group # NoGroup /\ group.id = i
        /\ entry[hooks[i]].id = i
        /\ \A e \in Entries : Bound(e) => entry[e].id = i

DataInv ==
    \A e \in Entries : /\ entry[e].url \in {None, entry[e].id}
                       /\ entry[e].status => entry[e].id # None

\* In a confirmed group everyone is; in another, whoever is not has been told.
IssueInv ==
    /\ core = "running" /\ group = NoGroup => "setup" \notin issues
    /\ group.confirmed => /\ "setup" \notin issues
                          /\ \A e \in Known : Joined(e) => entry[e].status
    /\ group.issueRaised => "setup" \in issues \/ group.confirmed
    /\ \A e \in Known : task[e] \in {"register", "registered"} /\ ~entry[e].status
                            => "setup" \in issues

\* After a consolidation without doubt no one has a status that the group has not.
TrafficInv ==
    "ambiguous" \notin issues =>
        /\ core = "running" /\ group # NoGroup /\ ~group.confirmed =>
             \A e \in Entries : e \in Known \/ task[e] = "register" => ~entry[e].status
        /\ \A i \in Ids : hooks[i] # None /\ entry[hooks[i]].status => group.confirmed
        /\ handled => "setup" \notin issues /\ (core = "running" => group.confirmed)

\* The refcount counts the listeners for HOMEASSISTANT_STOP.
Listeners == {p \in Entries \X Nat : p[2] < stops[p[1]]}
CountInv ==
    /\ IsFiniteSet(Listeners)
    /\ group # NoGroup => group.refcount > 0
    /\ ~orphaned => group.refcount = Cardinality(Listeners)

GroupsInv == /\ TypeOK /\ FreshInv /\ GroupInv /\ HookInv /\ DataInv
             /\ IssueInv /\ TrafficInv /\ CountInv

-----------------------------------------------------------------------------
LEMMA GroupTyping ==
    /\ NoGroup \notin Group
    /\ NoGroup.id = None /\ NoGroup.refcount = 0
    /\ ~NoGroup.confirmed /\ ~NoGroup.issueRaised
    /\ \A g \in Group : g # NoGroup /\ g.id \in Ids
  BY NoneAssumption DEF Group, NoGroup

LEMMA AdoptType ==
    ASSUME NEW d \in Entry, NEW id \in Ids, NEW confirmed \in BOOLEAN
    PROVE  /\ Adopt(d, id, confirmed) \in Entry
           /\ Adopt(d, id, confirmed).id = id
           /\ d.url \in {None, d.id} => Adopt(d, id, confirmed).url \in {None, id}
           /\ Adopt(d, id, confirmed).status = (d.status \/ confirmed)
  BY DEF Adopt, Entry

LEMMA CanonicalType == ASSUME TypeOK PROVE CanonicalIds \subseteq Ids
  <1>1. \A m \in Known : entry[m].id \in Ids \cup {None}
    BY DEF TypeOK, Entry, Known
  <1>2. Existing \subseteq Ids /\ ConfirmedIds \subseteq Ids
    BY <1>1 DEF Existing, ConfirmedIds
  <1>3. {entry[m].id : m \in {k \in Known :
            entry[k].id # None /\ \A j \in Known : j < k => entry[j].id = None}} \subseteq Ids
    BY <1>1
  <1> QED BY <1>2, <1>3 DEF CanonicalIds

\* What an unambiguous consolidation leaves unconfirmed, no entry has confirmed.
LEMMA CanonicalConfirms ==
    ASSUME TypeOK, DataInv, NEW id \in CanonicalIds, ~Ambiguous, id \notin ConfirmedIds
    PROVE  \A m \in Known : ~entry[m].status
  <1> SUFFICES ASSUME NEW m \in Known, entry[m].status PROVE FALSE
    BY DEF TypeOK, Entry
  <1>1. m \in Entries /\ Known \subseteq Entries
    BY DEF Known
  <1>2. entry[m].id \in ConfirmedIds /\ ConfirmedIds \subseteq Existing
    BY <1>1 DEF DataInv, ConfirmedIds, Existing
  <1>3. IsFiniteSet(Existing)
    <2>1. IsFiniteSet(Known)
      BY EntryAssumption, <1>1, FS_Subset
    <2>2. IsFiniteSet({entry[k].id : k \in Known})
      <3>1. [k \in Known |-> entry[k].id] \in Surjection(Known, {entry[k].id : k \in Known})
        BY DEF Surjection
      <3> QED BY <2>1, <3>1, FS_Surjection
    <2> QED BY <2>2, FS_Subset DEF Existing
  <1>4. CASE Cardinality(Existing) = 1
    <2>1. PICK x : Existing = {x}
      BY <1>3, <1>4, FS_Singleton
    <2> QED BY <1>2, <1>4, <2>1 DEF CanonicalIds
  <1>5. CASE Cardinality(Existing) # 1
    <2>1. Cardinality(Existing) \in Nat /\ Cardinality(Existing) # 0
      BY <1>2, <1>3, FS_CardinalityType, FS_EmptySet
    <2>2. Cardinality(ConfirmedIds) = 1
      BY <1>5, <2>1 DEF Ambiguous
    <2> QED BY <1>2, <1>5, <2>2 DEF CanonicalIds
  <1> QED BY <1>4, <1>5

\* What JoinGroup does with a group g and the entries' data, in each of its outcomes.
Joins(e, g, data) ==
    /\ entry' = [data EXCEPT ![e] = Adopt(data[e], g.id, g.confirmed)]
    /\ stops' = [stops EXCEPT ![e] = @ + 1]
    /\ task' = [task EXCEPT ![e] = "url"]
    /\ orphaned' = orphaned
Fails(e, data) ==
    /\ entry' = data
    /\ stops' = stops
    /\ task' = [task EXCEPT ![e] = "none"]
    /\ orphaned' = TRUE

LEMMA JoinGroupActs ==
    ASSUME TypeOK, NEW e \in Entries, NEW g \in Group, NEW data, JoinGroup(e, g, data)
    PROVE  /\ Joins(e, g, data) \/ Fails(e, data)
           /\ group' \in Group
           /\ group'.id = g.id /\ group'.refcount = g.refcount + 1
           /\ group'.confirmed = g.confirmed /\ group'.issueRaised = g.issueRaised
           /\ group'.registered = g.registered
  <1>1. group' = [g EXCEPT !.refcount = @ + 1]
    BY DEF JoinGroup
  <1>2. Joins(e, g, data) \/ Fails(e, data)
    BY DEF JoinGroup, Joins, Fails, Listen, TypeOK
  <1> QED BY <1>1, <1>2 DEF Group

LEMMA InitInv == Init => GroupsInv
  <1> SUFFICES ASSUME Init PROVE GroupsInv
    OBVIOUS
  <1>1. Listeners = {}
    BY DEF Init, Listeners
  <1>2. TypeOK
    BY DEF Init, TypeOK, Entry, Life, Stage, Issue
  <1>3. CountInv
    BY <1>1, FS_EmptySet, GroupTyping DEF Init, CountInv
  <1>4. FreshInv /\ GroupInv /\ HookInv /\ DataInv
    BY DEF Init, FreshInv, GroupInv, HookInv, DataInv, Bound, Joined, Entry
  <1>5. IssueInv /\ TrafficInv
    BY GroupTyping DEF Init, IssueInv, TrafficInv, Known
  <1> QED BY <1>2, <1>3, <1>4, <1>5 DEF GroupsInv

-----------------------------------------------------------------------------
(* The life of entries, before and after they take part *)

\* Steps that leave the group alone and put no one in it.
LEMMA LifeInv ==
    ASSUME GroupsInv, NEW e \in Entries, Add(e) \/ Setup(e) \/ Unload(e) \/ Remove(e)
    PROVE  GroupsInv'
  <1> USE DEF GroupsInv
  <1>1. /\ UNCHANGED <<core, entry, stops, lock, group, hooks, issues, restarts, historyVars>>
        /\ life' \in [Entries -> Life] /\ task' \in [Entries -> Stage]
        /\ \A m \in Entries : m # e => life'[m] = life[m] /\ task'[m] = task[m]
        /\ \/ task'[e] = task[e]
           \/ task'[e] \in {"join", "started"} /\ ~(core = "starting" /\ task'[e] = "join")
        /\ life'[e] # "new"
        /\ e \in Known' => e \in Known \/ life[e] = "new"
    BY DEF Add, Setup, Unload, Remove, TypeOK, Life, Stage, memoryVars, Known
  <1>2. \A m \in Known' : m \in Known \/ (m = e /\ task[e] = "none" /\ ~entry[e].status)
    BY <1>1 DEF Known, FreshInv, NewEntry
  <1>3. TypeOK' /\ FreshInv'
    BY <1>1 DEF TypeOK, FreshInv, historyVars, Group, NoGroup
  <1>4. \A m \in Entries : (Joined(m)' => Joined(m)) /\ (Bound(m)' => Bound(m))
    BY <1>1 DEF Joined, Bound
  <1>5. GroupInv' /\ HookInv' /\ DataInv'
    BY <1>1, <1>4 DEF GroupInv, HookInv, DataInv
  <1>6. IssueInv'
    BY <1>1, <1>2, <1>4 DEF IssueInv, Joined, Known
  <1>7. TrafficInv'
    BY <1>1, <1>2 DEF TrafficInv, historyVars, Known
  <1>8. CountInv'
    BY <1>1 DEF CountInv, Listeners, historyVars
  <1> QED BY <1>3, <1>5, <1>6, <1>7, <1>8

-----------------------------------------------------------------------------
(* Joining *)

\* A group g and entries' data with which an entry may join: they agree with each
\* other and with what there is already, as in the invariant.
Agree(e, g, data) ==
    /\ g \in Group /\ data \in [Entries -> Entry]
    /\ \A m \in Entries :
          /\ data[m].url \in {None, data[m].id}
          /\ data[m].status => data[m].id # None
          /\ life[m] = "new" => data[m] = NewEntry
          /\ task[m] = "resolve" => m = e
          /\ Bound(m) => data[m].id = g.id
    /\ \A i \in Ids : hooks[i] # None =>
          /\ g.id = i /\ data[hooks[i]].id = i
          /\ "ambiguous" \notin issues' /\ data[hooks[i]].status => g.confirmed
    /\ g.confirmed => /\ "setup" \notin issues'
                      /\ \A m \in Known : Joined(m) => data[m].status
    /\ g.issueRaised => "setup" \in issues' \/ g.confirmed
    /\ \A m \in Known : task[m] \in {"register", "registered"} /\ ~data[m].status
                            => "setup" \in issues'
    /\ "ambiguous" \notin issues' =>
          /\ ~g.confirmed => \A m \in Entries : m \in Known \/ task[m] = "register"
                                => ~data[m].status
          /\ handled => "setup" \notin issues' /\ g.confirmed
    /\ ~orphaned => g.refcount = Cardinality(Listeners)

\* One more entry listens: one more element.
LEMMA ListenCounts ==
    ASSUME TypeOK, IsFiniteSet(Listeners), NEW e \in Entries,
           stops' = [stops EXCEPT ![e] = @ + 1]
    PROVE  /\ IsFiniteSet(Listeners')
           /\ Cardinality(Listeners') = Cardinality(Listeners) + 1
  <1>1. <<e, stops[e]>> \notin Listeners
    BY DEF Listeners, TypeOK
  <1>2. Listeners' = Listeners \cup {<<e, stops[e]>>}
    <2>1. ASSUME NEW m \in Entries, NEW k \in Nat
          PROVE  k < stops'[m] <=> k < stops[m] \/ <<m, k>> = <<e, stops[e]>>
      BY DEF TypeOK
    <2> QED BY <2>1 DEF Listeners, TypeOK
  <1> QED BY <1>1, <1>2, FS_AddElement

LEMMA JoinGroupInv ==
    ASSUME GroupsInv, core = "running", NEW e \in Entries, task[e] \in {"join", "resolve"},
           NEW g, NEW data, Agree(e, g, data), JoinGroup(e, g, data),
           UNCHANGED <<core, life, hooks, restarts, heard, handled>>,
           lock' \in Entries \cup {None}, issues' \subseteq Issue
    PROVE  GroupsInv'
  <1> USE DEF GroupsInv
  <1>1. g \in Group /\ data \in [Entries -> Entry] /\ g.id \in Ids /\ g.confirmed \in BOOLEAN
    BY DEF Agree, Group
  <1>2. /\ Joins(e, g, data) \/ Fails(e, data)
        /\ group' \in Group
        /\ group'.id = g.id /\ group'.refcount = g.refcount + 1
        /\ group'.confirmed = g.confirmed /\ group'.issueRaised = g.issueRaised
    BY <1>1, JoinGroupActs
  <1>3. group' # NoGroup /\ g.refcount \in Nat /\ Known' = Known /\ Known \subseteq Entries
    BY <1>1, <1>2, GroupTyping DEF Group, Known
  <1>4. /\ entry' \in [Entries -> Entry]
        /\ \A m \in Entries \ {e} : entry'[m] = data[m] /\ task'[m] = task[m]
                                                         /\ stops'[m] = stops[m]
        /\ \/ entry'[e] = Adopt(data[e], g.id, g.confirmed) /\ task'[e] = "url"
           \/ entry'[e] = data[e] /\ task'[e] = "none" /\ stops'[e] = stops[e]
        /\ entry'[e].url \in {None, entry'[e].id}
        /\ entry'[e].status => entry'[e].id # None
        /\ data[e].id = g.id => entry'[e].id = g.id
        /\ entry'[e].status => data[e].status \/ g.confirmed
        /\ task'[e] = "url" => entry'[e].id = g.id /\ (g.confirmed => entry'[e].status)
    <2>1. /\ Adopt(data[e], g.id, g.confirmed) \in Entry
          /\ Adopt(data[e], g.id, g.confirmed).id = g.id
          /\ Adopt(data[e], g.id, g.confirmed).url \in {None, g.id}
          /\ Adopt(data[e], g.id, g.confirmed).status = (data[e].status \/ g.confirmed)
      BY <1>1, AdoptType DEF Agree
    <2>2. CASE Joins(e, g, data)
      <3>1. /\ task' = [task EXCEPT ![e] = "url"] /\ stops' = [stops EXCEPT ![e] = @ + 1]
            /\ task \in [Entries -> Stage] /\ stops \in [Entries -> Nat]
        BY <2>2 DEF Joins, TypeOK
      <3>2. /\ task'[e] = "url"
            /\ \A m \in Entries \ {e} : task'[m] = task[m] /\ stops'[m] = stops[m]
        BY <3>1
      <3>3. /\ entry' = [data EXCEPT ![e] = Adopt(data[e], g.id, g.confirmed)]
        BY <2>2 DEF Joins
      <3>4. /\ entry' \in [Entries -> Entry]
            /\ \A m \in Entries \ {e} : entry'[m] = data[m]
            /\ entry'[e] = Adopt(data[e], g.id, g.confirmed)
        BY <1>1, <2>1, <3>3
      <3>5. g.id # None
        BY <1>1, NoneAssumption
      <3>6. /\ entry'[e].url \in {None, entry'[e].id} /\ entry'[e].id = g.id
            /\ entry'[e].id # None
        BY <2>1, <3>4, <3>5
      <3>7. entry'[e].status = (data[e].status \/ g.confirmed)
        BY <2>1, <3>4
      <3>8. /\ entry'[e].status => data[e].status \/ g.confirmed
            /\ g.confirmed => entry'[e].status
        BY <3>7
      <3> QED BY <3>2, <3>4, <3>6, <3>8
    <2>3. CASE Fails(e, data)
      BY <1>1, <2>3 DEF Fails, Agree, TypeOK
    <2> QED BY <1>2, <2>2, <2>3
  <1>5. life[e] # "new"
    BY DEF FreshInv
  <1>6. \A m \in Entries \ {e} : (Joined(m)' <=> Joined(m)) /\ (Bound(m)' <=> Bound(m))
    BY <1>4 DEF Joined, Bound
  <1>7. Bound(e)' => entry'[e].id = g.id
    BY <1>4 DEF Agree, Bound, Joined
  <1>8. TypeOK'
    <2>1. /\ stops' \in [Entries -> Nat] /\ task' \in [Entries -> Stage]
          /\ orphaned' \in BOOLEAN
      <3>1. CASE Joins(e, g, data)
        BY <3>1 DEF Joins, TypeOK, Stage
      <3>2. CASE Fails(e, data)
        BY <3>2 DEF Fails, TypeOK, Stage
      <3> QED BY <1>2, <3>1, <3>2
    <2> QED BY <1>2, <1>4, <2>1 DEF TypeOK
  <1>9. FreshInv'
    BY <1>4, <1>5 DEF FreshInv, Agree
  <1>10. GroupInv'
    BY <1>2, <1>3, <1>4, <1>6, <1>7 DEF GroupInv, Agree
  <1>11. \A i \in Ids : hooks[i] # None => hooks[i] \in Entries /\ entry'[hooks[i]].id = i
    BY <1>4 DEF Agree, TypeOK
  <1>12. HookInv'
    BY <1>2, <1>3, <1>4, <1>6, <1>7, <1>11 DEF HookInv, Agree
  <1>13. DataInv'
    BY <1>4 DEF DataInv, Agree
  <1>14. IssueInv'
    BY <1>2, <1>3, <1>4, <1>6 DEF IssueInv, Agree, Joined
  <1>15. TrafficInv'
    <2>1. ASSUME "ambiguous" \notin issues', ~g.confirmed, NEW m \in Entries,
                 m \in Known \/ task'[m] = "register"
          PROVE  ~entry'[m].status
      BY <1>4, <2>1 DEF Agree
    <2>2. ASSUME "ambiguous" \notin issues', NEW i \in Ids, hooks[i] # None,
                 entry'[hooks[i]].status
          PROVE  g.confirmed
      BY <1>4, <1>11, <2>2 DEF Agree
    <2> QED BY <1>2, <1>3, <2>1, <2>2 DEF TrafficInv, Agree
  <1>16. CountInv'
    <2>1. CASE Joins(e, g, data)
      <3>1. stops' = [stops EXCEPT ![e] = @ + 1] /\ orphaned' = orphaned
        BY <2>1 DEF Joins
      <3>2. IsFiniteSet(Listeners)
        BY DEF CountInv
      <3>3. IsFiniteSet(Listeners') /\ Cardinality(Listeners') = Cardinality(Listeners) + 1
        BY <3>1, <3>2, ListenCounts
      <3>4. group'.refcount > 0 /\ (~orphaned => group'.refcount = Cardinality(Listeners) + 1)
        BY <1>2, <1>3 DEF Agree
      <3> QED BY <3>1, <3>3, <3>4 DEF CountInv
    <2>2. CASE Fails(e, data)
      BY <1>2, <1>3, <2>2 DEF Fails, CountInv, Listeners
    <2> QED BY <1>2, <2>1, <2>2
  <1> QED BY <1>8, <1>9, <1>10, <1>12, <1>13, <1>14, <1>15, <1>16

LEMMA JoinInv == ASSUME GroupsInv, NEW e \in Entries, Join(e) PROVE GroupsInv'
  <1> USE DEF GroupsInv
  <1>1. CASE group # NoGroup
    <2>1. JoinGroup(e, group, entry) /\ UNCHANGED <<core, life, hooks, restarts, heard, handled>>
          /\ lock' = lock /\ issues' = issues /\ core = "running" /\ task[e] = "join"
      BY <1>1 DEF Join
    <2>2. Agree(e, group, entry)
      BY <1>1, <2>1 DEF Agree, TypeOK, FreshInv, GroupInv, HookInv, DataInv, IssueInv,
                        TrafficInv, CountInv, Known
    <2>3. lock' \in Entries \cup {None} /\ issues' \subseteq Issue
      BY <2>1 DEF TypeOK
    <2> QED BY <2>1, <2>2, <2>3, JoinGroupInv
  <1>2. CASE group = NoGroup
    <2>1. /\ core = "running" /\ lock' = e /\ task' = [task EXCEPT ![e] = "resolve"]
          /\ UNCHANGED <<core, life, entry, stops, group, hooks, issues, restarts, historyVars>>
          /\ lock = None /\ task[e] = "join"
      BY <1>2 DEF Join, historyVars
    <2>2. \A m \in Entries \ {e} : task'[m] = task[m] /\ task[m] # "resolve"
      BY <2>1, NoneAssumption DEF TypeOK, GroupInv
    <2>3. task'[e] = "resolve" /\ Known' = Known /\ Known \subseteq Entries
      BY <2>1 DEF TypeOK, Known
    <2>4. TypeOK'
      BY <2>1 DEF TypeOK, Stage, historyVars
    <2>5. \A m \in Entries : ~Bound(m)
      BY <1>2, <2>1 DEF GroupInv
    <2>6. \A m \in Entries : ~Joined(m)' /\ ~Bound(m)'
      BY <2>1, <2>2, <2>3, <2>5 DEF Bound, Joined
    <2>7. FreshInv' /\ GroupInv' /\ HookInv' /\ DataInv'
      BY <1>2, <2>1, <2>2, <2>3, <2>6 DEF FreshInv, GroupInv, HookInv, DataInv, historyVars
    <2>8. IssueInv' /\ TrafficInv'
      BY <1>2, <2>1, <2>3, <2>6 DEF IssueInv, TrafficInv, Joined, historyVars
    <2>9. CountInv'
      BY <2>1 DEF CountInv, Listeners, historyVars
    <2> QED BY <2>4, <2>7, <2>8, <2>9
  <1> QED BY <1>1, <1>2

LEMMA ResolveInv == ASSUME GroupsInv, NEW e \in Entries, Resolve(e) PROVE GroupsInv'
  <1> USE DEF GroupsInv
  <1>1. PICK id \in CanonicalIds :
          LET confirmed == ~Ambiguous /\ id \in ConfirmedIds
              data == [m \in Entries |-> IF m \in Known
                                         THEN Adopt(entry[m], id, confirmed)
                                         ELSE entry[m]]
          IN JoinGroup(e, [NoGroup EXCEPT !.id = id, !.confirmed = confirmed], data)
    BY DEF Resolve
  <1> DEFINE confirmed == ~Ambiguous /\ id \in ConfirmedIds
             data == [m \in Entries |-> IF m \in Known THEN Adopt(entry[m], id, confirmed)
                                                       ELSE entry[m]]
             g == [NoGroup EXCEPT !.id = id, !.confirmed = confirmed]
  <1>2. JoinGroup(e, g, data)
    BY <1>1
  <1>3. /\ core = "running" /\ task[e] = "resolve" /\ group = NoGroup /\ lock = e
        /\ UNCHANGED <<core, life, hooks, restarts, heard, handled>> /\ lock' = None
        /\ issues' = issues \cup (IF Ambiguous THEN {"ambiguous"} ELSE {})
    BY DEF Resolve, GroupInv
  <1>4. id \in Ids /\ id # None /\ confirmed \in BOOLEAN /\ entry \in [Entries -> Entry]
    BY CanonicalType, NoneAssumption DEF TypeOK
  <1>5. g \in Group /\ g.id = id /\ g.confirmed = confirmed /\ g.refcount = 0 /\ ~g.issueRaised
    BY <1>4 DEF Group, NoGroup
  <1>6. ASSUME NEW m \in Entries
        PROVE  /\ data[m] \in Entry
               /\ data[m].url \in {None, data[m].id}
               /\ data[m].status => data[m].id # None
               /\ life[m] = "new" => data[m] = NewEntry
               /\ m \in Known => data[m].status = (entry[m].status \/ confirmed)
    <2>1. CASE m \in Known
      <3>1. data[m] = Adopt(entry[m], id, confirmed) /\ life[m] # "new"
        BY <2>1 DEF Known
      <3> HIDE DEF confirmed, data
      <3>2. /\ data[m] \in Entry /\ data[m].id = id
            /\ (entry[m].url \in {None, entry[m].id} => data[m].url \in {None, id})
            /\ data[m].status = (entry[m].status \/ confirmed)
        BY <1>4, <3>1, AdoptType
      <3> QED BY <1>4, <3>1, <3>2 DEF DataInv
    <2>2. CASE m \notin Known
      BY <1>4, <2>2 DEF DataInv, FreshInv
    <2> QED BY <2>1, <2>2
  <1>7. /\ \A m \in Entries : ~Bound(m) /\ ~Joined(m) /\ (task[m] = "resolve" => m = e)
        /\ \A i \in Ids : hooks[i] = None
    BY <1>3 DEF GroupInv, HookInv, Bound
  <1>8. "setup" \notin issues' /\ issues' \subseteq Issue
    BY <1>3 DEF IssueInv, TypeOK, Issue
  <1>9. "ambiguous" \notin issues' => ~handled
    BY <1>3, GroupTyping DEF TrafficInv
  <1>10. ASSUME "ambiguous" \notin issues', ~confirmed, NEW m \in Entries,
                m \in Known \/ task[m] = "register"
         PROVE  ~data[m].status
    <2>1. ~Ambiguous /\ id \notin ConfirmedIds
      BY <1>3, <1>10
    <2>2. m \in Known /\ ~entry[m].status
      BY <1>7, <1>10, <2>1, CanonicalConfirms DEF Joined
    <2> QED BY <1>6, <1>10, <2>2
  <1>11. ~orphaned => Cardinality(Listeners) = 0
    BY <1>3, GroupTyping DEF CountInv
  <1> HIDE DEF confirmed, data, g
  <1>12. data \in [Entries -> Entry]
    BY <1>6 DEF data
  <1>13. Agree(e, g, data)
    BY <1>5, <1>6, <1>7, <1>8, <1>9, <1>10, <1>11, <1>12 DEF Agree, Known, Joined
  <1> QED BY <1>2, <1>3, <1>8, <1>13, JoinGroupInv

-----------------------------------------------------------------------------
(* The URL and the handler *)

LEMMA GetUrlInv == ASSUME GroupsInv, NEW e \in Entries, GetUrl(e) PROVE GroupsInv'
  <1> USE DEF GroupsInv
  <1>1. /\ core = "running" /\ task[e] = "url" /\ Joined(e) /\ Bound(e)
        /\ UNCHANGED <<core, stops, lock, hooks, restarts, historyVars>>
        /\ group # NoGroup /\ group \in Group
    BY DEF GetUrl, Joined, Bound, GroupInv, TypeOK
  <1>2. CASE /\ e \in Known
             /\ entry' = [entry EXCEPT ![e].url = IF @ = None THEN entry[e].id ELSE @]
             /\ LET raise == ~entry[e].status /\ ~group.issueRaised
                IN /\ issues' = (issues \ {"no_url"}) \cup
                                  (IF raise THEN {"setup"} ELSE {})
                   /\ group' = [group EXCEPT !.issueRaised = @ \/ raise]
             /\ task' = [task EXCEPT ![e] = "register"]
             /\ UNCHANGED life
    <2> DEFINE raise == ~entry[e].status /\ ~group.issueRaised
    <2>1. /\ entry' \in [Entries -> Entry]
          /\ \A m \in Entries : /\ entry'[m].id = entry[m].id
                                /\ entry'[m].status = entry[m].status
                                /\ entry'[m].url \in {None, entry'[m].id}
                                /\ m # e => entry'[m] = entry[m]
      BY <1>2 DEF TypeOK, DataInv, Entry
    <2>2. /\ group' \in Group /\ group' # NoGroup
          /\ group'.id = group.id /\ group'.refcount = group.refcount
          /\ group'.confirmed = group.confirmed
          /\ group'.issueRaised = (group.issueRaised \/ raise)
      <3>1. group' \in Group
        BY <1>1, <1>2 DEF Group
      <3> QED BY <1>1, <1>2, <3>1, GroupTyping DEF Group
    <2>3. /\ issues' \subseteq Issue
          /\ "ambiguous" \in issues' <=> "ambiguous" \in issues
          /\ "setup" \in issues' <=> "setup" \in issues \/ raise
      BY <1>2 DEF TypeOK, Issue
    <2>4. /\ task' \in [Entries -> Stage] /\ task'[e] = "register"
          /\ \A m \in Entries \ {e} : task'[m] = task[m]
          /\ \A m \in Entries : (Joined(m)' <=> Joined(m)) /\ (Bound(m)' <=> Bound(m))
          /\ Known' = Known /\ Known \subseteq Entries /\ life' = life
      BY <1>1, <1>2 DEF TypeOK, Stage, Joined, Bound, Known
    <2>5. raise => ~group.confirmed
      BY <1>1, <1>2 DEF IssueInv
    <2> HIDE DEF raise
    <2>6. TypeOK'
      BY <1>1, <2>1, <2>2, <2>3, <2>4 DEF TypeOK, historyVars
    <2>7. FreshInv' /\ GroupInv'
      BY <1>1, <1>2, <2>1, <2>2, <2>4 DEF FreshInv, GroupInv, Known
    <2>8. HookInv' /\ DataInv'
      BY <1>1, <2>1, <2>2, <2>4 DEF HookInv, DataInv, TypeOK
    <2>9. IssueInv'
      <3>1. ~entry[e].status => "setup" \in issues'
        BY <1>1, <1>2, <2>3 DEF IssueInv, raise
      <3>2. group'.confirmed => "setup" \notin issues'
        BY <2>2, <2>3, <2>5 DEF IssueInv
      <3>3. ASSUME group'.confirmed, NEW m \in Known, Joined(m)'
            PROVE  entry'[m].status
        BY <2>1, <2>2, <2>4, <3>3 DEF IssueInv
      <3>4. group'.issueRaised => "setup" \in issues' \/ group'.confirmed
        BY <2>2, <2>3 DEF IssueInv
      <3>5. ASSUME NEW m \in Known, task'[m] \in {"register", "registered"},
                   ~entry'[m].status
            PROVE  "setup" \in issues'
        <4>1. CASE m = e
          BY <2>1, <2>4, <3>1, <3>5, <4>1
        <4>2. CASE m # e
          BY <2>1, <2>3, <2>4, <3>5, <4>2 DEF IssueInv
        <4> QED BY <4>1, <4>2
      <3> QED BY <2>2, <2>4, <3>2, <3>3, <3>4, <3>5 DEF IssueInv
    <2>10. TrafficInv'
      <3>1. \A i \in Ids : hooks[i] # None => hooks[i] \in Entries
        BY DEF TypeOK
      <3> QED BY <1>1, <1>2, <2>1, <2>2, <2>3, <2>4, <2>5, <3>1 DEF TrafficInv, historyVars
    <2>11. CountInv'
      BY <1>1, <2>2 DEF CountInv, Listeners, historyVars
    <2> QED BY <2>6, <2>7, <2>8, <2>9, <2>10, <2>11
  <1>3. CASE /\ UNCHANGED <<entry, group>> /\ EndRegistration(e, "none")
             /\ issues' \in {issues, issues \cup {"no_url"}}
    <2>1. /\ task' \in [Entries -> Stage] /\ task'[e] = "none"
          /\ life' \in [Entries -> Life]
          /\ \A m \in Entries : life'[m] = "new" <=> life[m] = "new"
          /\ \A m \in Entries \ {e} : task'[m] = task[m]
          /\ \A m \in Entries : (Joined(m)' => Joined(m)) /\ (Bound(m)' => Bound(m))
          /\ Known' = Known /\ Known \subseteq Entries
      BY <1>1, <1>3 DEF EndRegistration, TypeOK, Stage, Life, Joined, Bound, Known
    <2>2. /\ issues' \subseteq Issue
          /\ "ambiguous" \in issues' <=> "ambiguous" \in issues
          /\ "setup" \in issues' <=> "setup" \in issues
      BY <1>3 DEF TypeOK, Issue
    <2>3. TypeOK'
      BY <1>1, <1>3, <2>1, <2>2 DEF TypeOK, historyVars
    <2>4. FreshInv' /\ GroupInv' /\ HookInv' /\ DataInv'
      BY <1>1, <1>3, <2>1 DEF FreshInv, GroupInv, HookInv, DataInv
    <2>5. IssueInv'
      BY <1>1, <1>3, <2>1, <2>2 DEF IssueInv
    <2>6. TrafficInv'
      BY <1>1, <1>3, <2>1, <2>2 DEF TrafficInv, historyVars
    <2>7. CountInv'
      BY <1>1, <1>3 DEF CountInv, Listeners, historyVars
    <2> QED BY <2>3, <2>4, <2>5, <2>6, <2>7
  <1> QED BY <1>2, <1>3 DEF GetUrl

LEMMA RegisterInv == ASSUME GroupsInv, NEW e \in Entries, Register(e) PROVE GroupsInv'
  <1> USE DEF GroupsInv
  <1>1. /\ core = "running" /\ task[e] = "register" /\ Bound(e)
        /\ UNCHANGED <<core, entry, stops, lock, issues, restarts, historyVars>>
        /\ group # NoGroup /\ group \in Group /\ entry[e].id = group.id
    BY DEF Register, Joined, Bound, GroupInv, TypeOK
  <1>2. /\ task' \in [Entries -> Stage] /\ task'[e] = "registered"
        /\ life' \in [Entries -> Life]
        /\ \A m \in Entries : life'[m] = "new" <=> life[m] = "new"
        /\ \A m \in Entries \ {e} : task'[m] = task[m]
        /\ \A m \in Entries : (Joined(m)' <=> Joined(m)) /\ (Bound(m)' <=> Bound(m))
        /\ Known' = Known /\ Known \subseteq Entries
    BY <1>1 DEF Register, EndRegistration, TypeOK, Stage, Life, Joined, Bound, Known
  <1>3. /\ group' \in Group /\ group' # NoGroup
        /\ group'.id = group.id /\ group'.refcount = group.refcount
        /\ group'.confirmed = group.confirmed /\ group'.issueRaised = group.issueRaised
    <2>1. group' = [group EXCEPT !.registered = TRUE]
      BY DEF Register
    <2> QED BY <1>1, <2>1, GroupTyping DEF Group
  <1>4. /\ hooks' \in [Ids -> Entries \cup {None}]
        /\ \A i \in Ids : hooks'[i] = hooks[i] \/ (i = group.id /\ hooks'[i] = e)
    BY DEF Register, TypeOK
  <1>5. TypeOK'
    BY <1>1, <1>2, <1>3, <1>4 DEF TypeOK, historyVars
  <1>6. FreshInv' /\ GroupInv' /\ DataInv'
    BY <1>1, <1>2, <1>3 DEF FreshInv, GroupInv, DataInv
  <1>7. HookInv'
    BY <1>1, <1>2, <1>3, <1>4 DEF HookInv, GroupInv
  <1>8. IssueInv'
    BY <1>1, <1>2, <1>3 DEF IssueInv
  <1>9. TrafficInv'
    BY <1>1, <1>2, <1>3, <1>4 DEF TrafficInv, historyVars
  <1>10. CountInv'
    BY <1>1, <1>3 DEF CountInv, Listeners, historyVars
  <1> QED BY <1>5, <1>6, <1>7, <1>8, <1>9, <1>10

-----------------------------------------------------------------------------
(* Webhooks *)

LEMMA HandleWebhookInv == ASSUME GroupsInv, NEW id \in Ids, HandleWebhook(id) PROVE GroupsInv'
  <1> USE DEF GroupsInv
  <1> DEFINE h == hooks[id]
  <1>1. /\ h \in Entries /\ handled' = TRUE /\ heard' = heard \cup {id}
        /\ UNCHANGED <<core, life, task, stops, lock, hooks, restarts, orphaned>>
        /\ group # NoGroup /\ group \in Group /\ group.id = id /\ entry[h].id = id
        /\ core # "starting" /\ hooks[id] # None
        /\ Known' = Known /\ Known \subseteq Entries
        /\ \A m \in Entries : (Joined(m)' <=> Joined(m)) /\ (Bound(m)' <=> Bound(m))
    BY DEF HandleWebhook, TypeOK, HookInv, FreshInv, Known, Joined, Bound
  <1>2. CASE entry[h].status
    <2>1. UNCHANGED <<entry, group, issues>>
      BY <1>2 DEF HandleWebhook
    <2>2. "ambiguous" \notin issues => group.confirmed /\ "setup" \notin issues
      BY <1>1, <1>2 DEF TrafficInv, IssueInv
    <2>3. TypeOK' /\ FreshInv'
      BY <1>1, <2>1 DEF TypeOK, FreshInv
    <2>4. GroupInv' /\ HookInv' /\ DataInv' /\ IssueInv'
      BY <1>1, <2>1 DEF GroupInv, HookInv, DataInv, IssueInv
    <2>5. TrafficInv'
      BY <1>1, <2>1, <2>2 DEF TrafficInv
    <2>6. CountInv'
      BY <1>1, <2>1 DEF CountInv, Listeners
    <2> QED BY <2>3, <2>4, <2>5, <2>6
  <1>3. CASE ~entry[h].status
    <2>1. ResolveSetupIssue(h)
      BY <1>3 DEF HandleWebhook
    <2>2. /\ group' \in Group /\ group' # NoGroup /\ group'.id = id
          /\ group'.refcount = group.refcount /\ group'.confirmed
          /\ issues' = issues \ {"setup"}
      <3>1. group' = [group EXCEPT !.confirmed = TRUE] /\ issues' = issues \ {"setup"}
        BY <1>1, <2>1 DEF ResolveSetupIssue
      <3> QED BY <1>1, <3>1, GroupTyping DEF Group
    <2>3. /\ entry' \in [Entries -> Entry]
          /\ \A m \in Entries :
               /\ entry'[m].id = entry[m].id /\ entry'[m].url = entry[m].url
               /\ m \in Known /\ entry[m].id = id => entry'[m].status
               /\ entry'[m].status => entry[m].status \/ (m \in Known /\ entry[m].id = id)
               /\ entry[m].status => entry'[m].status
               /\ m \notin Known => entry'[m] = entry[m]
      <3>1. entry \in [Entries -> Entry] /\ entry[h].id = id
        BY <1>1 DEF TypeOK
      <3>2. entry' = [m \in Entries |->
                        IF m \in Known /\ entry[m].id = id
                        THEN [entry[m] EXCEPT !.status = TRUE] ELSE entry[m]]
        BY <2>1, <3>1 DEF ResolveSetupIssue
      <3>3. \A d \in Entry : LET u == [d EXCEPT !.status = TRUE]
                            IN  u \in Entry /\ u.id = d.id /\ u.url = d.url /\ u.status
        BY DEF Entry
      <3> QED BY <3>1, <3>2, <3>3
    <2>4. id # None
      BY NoneAssumption
    <2>5. TypeOK'
      BY <1>1, <2>2, <2>3 DEF TypeOK
    <2>6. FreshInv' /\ GroupInv'
      BY <1>1, <2>2, <2>3 DEF FreshInv, GroupInv, Known
    <2>7. HookInv'
      BY <1>1, <2>2, <2>3 DEF HookInv, TypeOK
    <2>8. DataInv'
      BY <1>1, <2>3, <2>4 DEF DataInv
    <2>9. \A m \in Entries : Joined(m) => entry[m].id = id
      BY <1>1 DEF HookInv, Bound
    <2>10. IssueInv'
      BY <1>1, <2>2, <2>3, <2>9 DEF IssueInv, Joined
    <2>11. TrafficInv'
      BY <1>1, <2>2 DEF TrafficInv
    <2>12. CountInv'
      BY <1>1, <2>2 DEF CountInv, Listeners
    <2> QED BY <2>5, <2>6, <2>7, <2>8, <2>10, <2>11, <2>12
  <1> QED BY <1>2, <1>3

-----------------------------------------------------------------------------
(* Home Assistant *)

LEMMA StartedInv == ASSUME GroupsInv, Started PROVE GroupsInv'
  <1> USE DEF GroupsInv
  <1>1. /\ core = "starting" /\ core' = "running" /\ task' \in [Entries -> Stage]
        /\ UNCHANGED <<life, entry, stops, lock, group, hooks, issues, restarts, historyVars>>
        /\ group = NoGroup /\ issues = {} /\ ~handled /\ Known' = Known
        /\ \A m \in Entries : /\ task'[m] \in {"none", "join"} /\ stops[m] = 0
                              /\ life[m] = "new" => task'[m] = "none"
        /\ \A i \in Ids : hooks[i] = None
    BY DEF Started, FreshInv, TypeOK, Stage, Known
  <1>2. \A m \in Entries : ~Joined(m)' /\ ~Bound(m)'
    BY <1>1 DEF Joined, Bound
  <1>3. TypeOK'
    BY <1>1 DEF TypeOK, historyVars
  <1>4. FreshInv' /\ GroupInv' /\ HookInv' /\ DataInv'
    BY <1>1, <1>2 DEF FreshInv, GroupInv, HookInv, DataInv
  <1>5. IssueInv' /\ TrafficInv'
    BY <1>1, GroupTyping DEF IssueInv, TrafficInv, historyVars, Known
  <1>6. CountInv'
    BY <1>1 DEF CountInv, Listeners, historyVars
  <1> QED BY <1>3, <1>4, <1>5, <1>6

LEMMA StopInv == ASSUME GroupsInv, Stop PROVE GroupsInv'
  <1> USE DEF GroupsInv
  <1>1. /\ core' = "stopping"
        /\ UNCHANGED <<life, entry, memoryVars, restarts, historyVars>>
        /\ Known' = Known /\ Known \subseteq Entries
        /\ \A m \in Entries : (Joined(m)' <=> Joined(m)) /\ (Bound(m)' <=> Bound(m))
    BY DEF Stop, memoryVars, Known, Joined, Bound
  <1>2. TypeOK'
    BY <1>1 DEF TypeOK, memoryVars, historyVars
  <1>3. FreshInv' /\ GroupInv' /\ HookInv' /\ DataInv'
    BY <1>1 DEF FreshInv, GroupInv, HookInv, DataInv, memoryVars
  <1>4. /\ UNCHANGED <<entry, task, group, hooks, issues, handled>>
        /\ core' # "running"
    BY <1>1 DEF memoryVars, historyVars
  <1>5. IssueInv'
    BY <1>1, <1>4 DEF IssueInv
  <1>6. TrafficInv'
    BY <1>4 DEF TrafficInv
  <1>7. CountInv'
    BY <1>1 DEF CountInv, Listeners, memoryVars, historyVars
  <1> QED BY <1>2, <1>3, <1>5, <1>6, <1>7

\* One listener less: one element less.
LEMMA UnlistenCounts ==
    ASSUME TypeOK, IsFiniteSet(Listeners), NEW e \in Entries, stops[e] > 0,
           stops' = [stops EXCEPT ![e] = @ - 1]
    PROVE  /\ IsFiniteSet(Listeners')
           /\ Cardinality(Listeners') = Cardinality(Listeners) - 1
           /\ Cardinality(Listeners) \in Nat \ {0}
  <1>1. stops[e] - 1 \in Nat /\ <<e, stops[e] - 1>> \in Listeners
    BY DEF Listeners, TypeOK
  <1>2. Listeners' = Listeners \ {<<e, stops[e] - 1>>}
    <2>1. ASSUME NEW m \in Entries, NEW k \in Nat
          PROVE  k < stops'[m] <=> k < stops[m] /\ <<m, k>> # <<e, stops[e] - 1>>
      BY <1>1 DEF TypeOK
    <2> QED BY <2>1 DEF Listeners, TypeOK
  <1>3. Cardinality(Listeners) \in Nat /\ Cardinality(Listeners) # 0
    BY <1>1, FS_CardinalityType, FS_EmptySet
  <1> QED BY <1>1, <1>2, <1>3, FS_RemoveElement

LEMMA UnregisterInv == ASSUME GroupsInv, NEW e \in Entries, Unregister(e) PROVE GroupsInv'
  <1> USE DEF GroupsInv
  <1>1. /\ core = "stopping" /\ stops[e] > 0 /\ Bound(e)
        /\ stops' = [stops EXCEPT ![e] = @ - 1] /\ stops' \in [Entries -> Nat]
        /\ UNCHANGED <<core, life, entry, task, lock, issues, restarts, historyVars>>
        /\ Known' = Known /\ Known \subseteq Entries
    BY DEF Unregister, Bound, TypeOK, Known
  <1>2. \A m \in Entries : (Joined(m)' <=> Joined(m)) /\ (Bound(m)' => Bound(m))
    BY <1>1 DEF Joined, Bound, TypeOK
  <1>3. /\ IsFiniteSet(Listeners')
        /\ Cardinality(Listeners') = Cardinality(Listeners) - 1
        /\ Cardinality(Listeners) \in Nat \ {0}
    BY <1>1, UnlistenCounts DEF CountInv
  <1>4. CASE group.refcount <= 1
    <2>1. group' = NoGroup /\ hooks' = [hooks EXCEPT ![entry[e].id] = None]
      BY <1>4 DEF Unregister
    <2>2. \A i \in Ids : hooks'[i] = None
      BY <1>1, <2>1 DEF HookInv, TypeOK
    <2>3. TypeOK'
      BY <1>1, <2>1 DEF TypeOK, historyVars
    <2>4. FreshInv' /\ GroupInv' /\ HookInv' /\ DataInv'
      BY <1>1, <2>2 DEF FreshInv, GroupInv, HookInv, DataInv
    <2>5. IssueInv' /\ TrafficInv'
      BY <1>1, <2>1, <2>2, GroupTyping DEF IssueInv, TrafficInv, historyVars
    <2>6. CountInv'
      <3>1. ~orphaned => Cardinality(Listeners) = 1
        BY <1>3, <1>4, GroupTyping DEF CountInv
      <3> QED BY <1>1, <1>3, <2>1, <3>1, GroupTyping DEF CountInv, historyVars
    <2> QED BY <2>3, <2>4, <2>5, <2>6
  <1>5. CASE ~(group.refcount <= 1)
    <2>1. group' = [group EXCEPT !.refcount = @ - 1] /\ hooks' = hooks
      BY <1>5 DEF Unregister
    <2>2. group \in Group /\ group # NoGroup
      BY <1>5, GroupTyping DEF TypeOK
    <2>3. /\ group' \in Group /\ group' # NoGroup /\ group'.id = group.id
          /\ group'.refcount = group.refcount - 1 /\ group'.refcount > 0
          /\ group'.confirmed = group.confirmed /\ group'.issueRaised = group.issueRaised
      BY <1>5, <2>1, <2>2, GroupTyping DEF Group
    <2>4. TypeOK'
      BY <1>1, <2>1, <2>3 DEF TypeOK, historyVars
    <2>5. FreshInv' /\ GroupInv' /\ HookInv' /\ DataInv'
      BY <1>1, <1>2, <2>1, <2>2, <2>3 DEF FreshInv, GroupInv, HookInv, DataInv
    <2>6. IssueInv'
      <3>1. UNCHANGED <<entry, task, issues>> /\ core' # "running"
        BY <1>1
      <3> QED BY <1>1, <1>2, <2>3, <3>1 DEF IssueInv
    <2>7. TrafficInv'
      BY <1>1, <2>1, <2>2, <2>3 DEF TrafficInv, historyVars
    <2>8. CountInv'
      BY <1>1, <1>3, <2>2, <2>3 DEF CountInv, historyVars
    <2> QED BY <2>4, <2>5, <2>6, <2>7, <2>8
  <1> QED BY <1>4, <1>5

LEMMA RestartInv == ASSUME GroupsInv, Restart PROVE GroupsInv'
  <1> USE DEF GroupsInv
  <1>1. TypeOK'
    <2>1. /\ core' = "starting" /\ lock' = None /\ group' = NoGroup /\ issues' = {}
          /\ restarts' \in Nat /\ heard' = heard /\ handled' = FALSE /\ orphaned' = FALSE
          /\ hooks' = [i \in Ids |-> None]
      BY BoundAssumption DEF Restart, TypeOK
    <2>2. /\ life' \in [Entries -> Life] /\ task' \in [Entries -> Stage]
          /\ stops' \in [Entries -> Nat]
      BY DEF Restart, TypeOK, Life, Stage
    <2>3. NewEntry \in Entry
      BY DEF NewEntry, Entry
    <2>4. entry' \in [Entries -> Entry]
      BY <2>3 DEF Restart, TypeOK
    <2> QED BY <2>1, <2>2, <2>4 DEF TypeOK, Issue
  <1>2. /\ core' = "starting" /\ group' = NoGroup /\ issues' = {} /\ ~handled'
        /\ \A m \in Entries : /\ task'[m] = "none" /\ stops'[m] = 0
                              /\ life'[m] = "new" => entry'[m] = NewEntry
                              /\ entry'[m].url \in {None, entry'[m].id}
                              /\ entry'[m].status => entry'[m].id # None
        /\ \A i \in Ids : hooks'[i] = None
    BY DEF Restart, DataInv, NewEntry, Known
  <1>3. FreshInv' /\ GroupInv' /\ HookInv' /\ DataInv'
    BY <1>2 DEF FreshInv, GroupInv, HookInv, DataInv
  <1>4. IssueInv' /\ TrafficInv'
    BY <1>2, GroupTyping DEF IssueInv, TrafficInv, Known
  <1>5. CountInv'
    <2>1. Listeners' = {}
      BY <1>2 DEF Listeners
    <2> QED BY <1>2, <2>1, FS_EmptySet, GroupTyping DEF CountInv
  <1> QED BY <1>1, <1>3, <1>4, <1>5

-----------------------------------------------------------------------------
(* The theorems *)

LEMMA StepInv == ASSUME GroupsInv, [Next]_vars PROVE GroupsInv'
  <1>1. CASE Next
    BY <1>1, LifeInv, JoinInv, ResolveInv, GetUrlInv, RegisterInv, HandleWebhookInv,
       StartedInv, StopInv, RestartInv, UnregisterInv DEF Next
  <1>2. CASE UNCHANGED vars
    BY <1>2 DEF vars, memoryVars, historyVars, GroupsInv, TypeOK, FreshInv, GroupInv, HookInv,
       DataInv, IssueInv, TrafficInv, CountInv, Listeners, Bound, Joined, Known
  <1> QED BY <1>1, <1>2

LEMMA Invariance == Spec => []GroupsInv
  BY InitInv, StepInv, PTL DEF Spec

\* Every value stays in the set it is declared for: the refcount never goes below
\* zero, a group's id is never missing.
THEOREM TypeCorrect == Spec => []TypeOK
  BY Invariance, PTL DEF GroupsInv

\* All members of the group carry its id, and no other id has a handler (ADR 0002).
THEOREM OneWebhookHolds == Spec => []OneWebhook
  <1>1. GroupsInv => OneWebhook
    BY DEF GroupsInv, OneWebhook, Member, GroupInv, HookInv, Bound, Joined
  <1> QED BY <1>1, Invariance, PTL

\* No entry keeps a URL that was made for another webhook id.
THEOREM UrlsFit == Spec => []UrlFitsId
  <1>1. GroupsInv => UrlFitsId
    BY DEF GroupsInv, UrlFitsId, DataInv
  <1> QED BY <1>1, Invariance, PTL

\* A registered member without a confirmed webhook has the open setup issue.
THEOREM UnconfirmedTold == Spec => []UnconfirmedIsTold
  <1>1. GroupsInv => UnconfirmedIsTold
    BY DEF GroupsInv, UnconfirmedIsTold, IssueInv, Known
  <1> QED BY <1>1, Invariance, PTL

\* Without an ambiguous consolidation, traffic settles the setup issue for good.
THEOREM TrafficSettles == Spec => []TrafficSettlesIssue
  <1>1. GroupsInv => TrafficSettlesIssue
    BY DEF GroupsInv, TrafficSettlesIssue, TrafficInv
  <1> QED BY <1>1, Invariance, PTL

\* Once every listener for HOMEASSISTANT_STOP has run, no handler is left.
THEOREM StopUnregistersAll == Spec => []StopUnregisters
  <1>1. ASSUME GroupsInv, ~orphaned, \A e \in Entries : stops[e] = 0, NEW i \in Ids
        PROVE  hooks[i] = None
    <2>1. Listeners = {}
      BY <1>1 DEF Listeners
    <2>2. group = NoGroup
      BY <1>1, <2>1, FS_EmptySet DEF GroupsInv, CountInv
    <2> QED BY <1>1, <2>2 DEF GroupsInv, HookInv
  <1>2. GroupsInv => StopUnregisters
    BY <1>1 DEF StopUnregisters
  <1> QED BY <1>2, Invariance, PTL

=============================================================================
