------------------------ MODULE CloudhookLife_proofs ------------------------
(***************************************************************************)
(* Theorems about CloudhookLife, for any set of entries and any bounds.    *)
(***************************************************************************)
EXTENDS CloudhookLife, TLAPS

-----------------------------------------------------------------------------
(* The inductive invariant *)

\* Entries that have an id have the same, which is the group's.
IdInv ==
    /\ \A e \in Entries : life[e] = "new" => entry[e] = NewEntry
    /\ \A e, f \in Known : entry[e].id # NoId /\ entry[f].id # NoId
                             => entry[e].id = entry[f].id
    /\ group # NoGroup => \A e \in Known : entry[e].id \in {NoId, group.id}

UrlInv == \A e \in Known : entry[e].url # NoUrl => entry[e].url.id = entry[e].id

CreatingInv ==
    \A e \in Entries : life[e] = "creating" =>
        entry[e].id # NoId /\ entry[e].url = NoUrl /\ group # NoGroup /\ subscribed

CloudInv ==
    /\ \A id \in Ids : hooks[id] # NoHook => subscribed
    /\ deleting # {} => subscribed

\* One cloudhook at a time is created, and none that is being deleted is in use.
RaceInv ==
    ~raced =>
        /\ \A e \in Known : entry[e].id \notin deleting
        /\ \A e \in Entries : life[e] = "creating" =>
              /\ hooks[entry[e].id] = NoHook
              /\ \A f \in Entries : life[f] = "creating" => f = e

CloudhooksInv == /\ TypeOK /\ IdInv /\ UrlInv /\ CreatingInv /\ CloudInv
                 /\ RaceInv /\ HookIsUsed /\ SerialUrlAnswers

-----------------------------------------------------------------------------
LEMMA Typing ==
    /\ NoGroup \notin Group /\ NoUrl \notin Url /\ NewEntry \in Entry
    /\ \A u \in Url : u # NoUrl /\ u.id \in Ids
    /\ \A d \in Entry : d.url # NoUrl => d.url \in Url
    /\ \A g \in Group : g # NoGroup /\ g.id \in Ids /\ g.id # NoId
    /\ NewEntry.id = NoId /\ NewEntry.url = NoUrl
    /\ NoId \notin Ids
  BY DEF Group, NoGroup, Url, NoUrl, NewEntry, Entry, Ids, NoId, NoHook

LEMMA InitInv == Init => CloudhooksInv
  <1> SUFFICES ASSUME Init PROVE CloudhooksInv
    OBVIOUS
  <1>1. Known = {} /\ (\A e \in Entries : life[e] = "new" /\ entry[e] = NewEntry)
    BY DEF Init, Known
  <1>2. TypeOK
    <2>1. life \in [Entries -> Life] /\ entry \in [Entries -> Entry]
      BY Typing DEF Init, Life
    <2>2. hooks \in [Ids -> 0..hooksMade] /\ idsMade \in 0..MaxIds /\ hooksMade \in 0..MaxHooks
      BY BoundAssumption DEF Init, NoHook
    <2> QED BY <2>1, <2>2 DEF Init, TypeOK
  <1> QED BY <1>1, <1>2 DEF Init, CloudhooksInv, IdInv, UrlInv, CreatingInv, CloudInv,
            RaceInv, HookIsUsed, SerialUrlAnswers

-----------------------------------------------------------------------------
(* Setting up *)

\* A group g and entries' data es with which entry e may join: those before, with
\* the group's id where there was none.
Agree(e, es, g) ==
    /\ g \in Group /\ es \in [Entries -> Entry]
    /\ es[e].id = g.id
    /\ \A f \in Entries : /\ es[f].url = entry[f].url
                          /\ f \notin Known => es[f] = entry[f]
                          /\ f \in Known => /\ es[f].id \in {NoId, g.id}
                                            /\ es[f].id = entry[f].id \/ entry[f].id = NoId

LEMMA SetupAgrees ==
    ASSUME CloudhooksInv, NEW e \in Entries, Setup(e)
    PROVE  \E g, es : Agree(e, es, g) /\ JoinGroup(e, es, g)
  <1> USE DEF CloudhooksInv
  <1>1. life[e] = "unloaded" /\ e \in Known /\ Known \subseteq Entries
    BY DEF Setup, Known
  <1>2. CASE group # NoGroup
    <2>1. JoinGroup(e, [entry EXCEPT ![e] = Adopt(@, group)], group)
      BY <1>2 DEF Setup
    <2>2. group \in Group /\ entry \in [Entries -> Entry] /\ group.id \in Ids
          /\ group.confirmed \in BOOLEAN
      BY <1>2, Typing DEF TypeOK, Group
    <2>3. /\ Adopt(entry[e], group) \in Entry
          /\ Adopt(entry[e], group).id = group.id
          /\ Adopt(entry[e], group).url = entry[e].url
      BY <2>2 DEF Adopt, Entry
    <2>4. Agree(e, [entry EXCEPT ![e] = Adopt(@, group)], group)
      BY <1>1, <1>2, <2>2, <2>3 DEF Agree, IdInv
    <2> QED BY <2>1, <2>4
  <1>3. CASE group = NoGroup
    <2>1. PICK id \in Ids : Resolve(e, id) /\ (Existing = {} \/ id \in Existing)
      <3>1. Existing \subseteq Ids
        BY <1>1 DEF Existing, TypeOK, Entry
      <3>2. idsMade < MaxIds => idsMade + 1 \in Ids
        BY BoundAssumption DEF TypeOK, Ids
      <3> QED BY <1>3, <3>1, <3>2 DEF Setup
    <2> DEFINE g == [NoGroup EXCEPT !.id = id,
                       !.confirmed = \E f \in Known : entry[f].id = id /\ entry[f].status]
               es == [f \in Entries |-> IF f \in Known THEN Adopt(entry[f], g) ELSE entry[f]]
    <2>2. JoinGroup(e, es, g)
      BY <2>1 DEF Resolve
    <2>3. g \in Group /\ g.id = id /\ g.confirmed \in BOOLEAN
      BY DEF Group, NoGroup
    <2> HIDE DEF g
    <2>4. \A f \in Entries : /\ Adopt(entry[f], g) \in Entry
                             /\ Adopt(entry[f], g).id = id
                             /\ Adopt(entry[f], g).url = entry[f].url
      BY <2>3 DEF TypeOK, Adopt, Entry
    <2>5. \A f \in Known : entry[f].id \in {NoId, id}
      <3>1. CASE Existing = {}
        BY <3>1 DEF Existing
      <3>2. CASE id \in Existing
        BY <3>2 DEF Existing, IdInv
      <3> QED BY <2>1, <3>1, <3>2
    <2>6. es \in [Entries -> Entry]
      BY <2>4 DEF TypeOK
    <2>7. Agree(e, es, g)
      BY <1>1, <2>3, <2>4, <2>5, <2>6 DEF Agree
    <2> QED BY <2>2, <2>7
  <1> QED BY <1>2, <1>3

\* The end of register_webhook for an entry that is set up, with a URL of its id.
LEMMA FinishActs ==
    ASSUME CloudhooksInv, NEW e \in Entries, NEW g, NEW es, Agree(e, es, g),
           NEW url \in Url, Finish(e, es, g, url)
    PROVE  /\ life' \in [Entries -> Life] /\ life'[e] = "loaded"
           /\ \A f \in Entries \ {e} : life'[f] = life[f] /\ entry'[f] = es[f]
           /\ entry' \in [Entries -> Entry]
           /\ entry'[e].id = es[e].id /\ entry'[e].url = url
           /\ group' \in Group /\ group'.id = g.id
           /\ told' \in Url \cup {NoUrl}
  <1> USE DEF CloudhooksInv
  <1>1. g \in Group /\ es \in [Entries -> Entry]
    BY DEF Agree
  <1>2. Raises(es[e], g) \in BOOLEAN
    BY DEF Raises
  <1>3. group' \in Group /\ group'.id = g.id
    BY <1>1, <1>2 DEF Finish, Group
  <1>4. entry' = [es EXCEPT ![e].url = url] /\ life' = [life EXCEPT ![e] = "loaded"]
    BY DEF Finish
  <1>5. entry' \in [Entries -> Entry] /\ entry'[e].id = es[e].id /\ entry'[e].url = url
        /\ \A f \in Entries \ {e} : entry'[f] = es[f]
    BY <1>1, <1>4 DEF Entry
  <1>6. life' \in [Entries -> Life] /\ life'[e] = "loaded"
        /\ \A f \in Entries \ {e} : life'[f] = life[f]
    BY <1>4 DEF TypeOK, Life
  <1>7. told' \in Url \cup {NoUrl}
    BY DEF Finish, TypeOK
  <1> QED BY <1>3, <1>5, <1>6, <1>7

LEMMA SetupInv == ASSUME CloudhooksInv, NEW e \in Entries, Setup(e) PROVE CloudhooksInv'
  <1> USE DEF CloudhooksInv
  <1>1. PICK g, es : Agree(e, es, g) /\ JoinGroup(e, es, g)
    BY SetupAgrees
  <1>2. /\ UNCHANGED <<subscribed, hooks, deleting, portal, hooksMade, boundVars, emptied>>
        /\ life[e] = "unloaded" /\ e \in Known /\ Known \subseteq Entries
        /\ idsMade' \in 0..MaxIds
    BY BoundAssumption DEF Setup, Known, cloudVars, TypeOK
  <1>3. /\ g \in Group /\ es \in [Entries -> Entry] /\ g # NoGroup /\ g.id \in Ids
        /\ es[e] \in Entry /\ es[e].id = g.id /\ g.id # NoId
    BY <1>1, Typing DEF Agree
  <1>4. /\ raced' \in BOOLEAN /\ (raced => raced')
        /\ es[e].url = NoUrl /\ subscribed /\ ~raced'
             => g.id \notin deleting /\ \A f \in Entries : life[f] # "creating"
    BY <1>1 DEF JoinGroup, TypeOK
  <1>5. \A f \in Known : /\ es[f].url = entry[f].url
                         /\ es[f].id \in {NoId, g.id}
                         /\ es[f].id = entry[f].id \/ entry[f].id = NoId
                         /\ es[f].url # NoUrl => es[f].url.id = es[f].id
    BY <1>1, <1>2, Typing DEF Agree, UrlInv, TypeOK
  \* Whatever e ends with: loaded with a URL that answers, or waiting for one.
  <1>6. /\ life' \in [Entries -> Life] /\ life'[e] \in {"loaded", "creating"}
        /\ \A f \in Entries \ {e} : life'[f] = life[f] /\ entry'[f] = es[f]
        /\ entry' \in [Entries -> Entry] /\ entry'[e].id = g.id
        /\ group' \in Group /\ group'.id = g.id /\ told' \in Url \cup {NoUrl}
        /\ entry'[e].url # NoUrl => entry'[e].url.id = g.id
        /\ life'[e] = "creating" => /\ entry'[e].url = NoUrl /\ subscribed
                                    /\ es[e].url = NoUrl /\ hooks[g.id] = NoHook
        /\ ~raced /\ entry'[e].url # NoUrl => Answers(entry'[e].url)
    <2>1. CASE UrlAtHand(es[e]) /\ Finish(e, es, g, GetUrl(es[e]))
      <3> DEFINE url == GetUrl(es[e])
      <3>1. /\ url \in Url /\ url.id = g.id
            /\ ~raced => Answers(url)
        <4>1. CASE es[e].url # NoUrl
          <5>1. url = entry[e].url /\ url \in Url /\ url.id = g.id
            BY <1>2, <1>3, <1>5, <4>1, Typing DEF GetUrl
          <5> QED BY <1>2, <1>5, <4>1, <5>1 DEF SerialUrlAnswers
        <4>2. CASE es[e].url = NoUrl
          <5>1. url = [id |-> g.id, hook |-> IF subscribed THEN hooks[g.id] ELSE NoHook]
            BY <1>3, <4>2 DEF GetUrl
          <5>2. hooks[g.id] \in 0..MaxHooks /\ NoHook \in 0..MaxHooks
            BY <1>3, BoundAssumption DEF TypeOK, NoHook
          <5>3. url \in Url
            BY <1>3, <5>1, <5>2 DEF Url
          <5>4. url # NoUrl
            BY <5>3, Typing
          <5> QED BY <5>1, <5>3, <5>4 DEF Answers
        <4> QED BY <4>1, <4>2
      <3> HIDE DEF url
      <3>2. Finish(e, es, g, url)
        BY <2>1 DEF url
      <3>3. /\ life' \in [Entries -> Life] /\ life'[e] = "loaded"
            /\ \A f \in Entries \ {e} : life'[f] = life[f] /\ entry'[f] = es[f]
            /\ entry' \in [Entries -> Entry]
            /\ entry'[e].id = es[e].id /\ entry'[e].url = url
            /\ group' \in Group /\ group'.id = g.id
            /\ told' \in Url \cup {NoUrl}
        BY <1>1, <3>1, <3>2, FinishActs
      <3> QED BY <1>3, <3>1, <3>3
    <2>2. CASE ~UrlAtHand(es[e]) /\ life' = [life EXCEPT ![e] = "creating"]
               /\ entry' = es /\ group' = g /\ told' = told
      BY <1>3, <2>2 DEF UrlAtHand, TypeOK, Life
    <2> QED BY <1>1, <2>1, <2>2 DEF JoinGroup
  <1>7. Known' = Known
    BY <1>2, <1>6 DEF Known
  <1>8. \A f \in Known : entry'[f].id = es[f].id
    BY <1>2, <1>3, <1>6
  <1>9. TypeOK'
    BY <1>2, <1>4, <1>6 DEF TypeOK, boundVars
  <1>10. IdInv'
    <2>1. \A f \in Entries : life'[f] = "new" => entry'[f] = NewEntry
      BY <1>1, <1>6 DEF IdInv, Agree, Known
    <2> QED BY <1>5, <1>6, <1>7, <1>8, <2>1 DEF IdInv
  <1>11. UrlInv'
    BY <1>2, <1>5, <1>6, <1>7 DEF UrlInv
  <1>12. CreatingInv'
    <2>1. ASSUME NEW f \in Entries \ {e}, life[f] = "creating"
          PROVE  entry'[f].id # NoId /\ entry'[f].url = NoUrl
      <3>1. f \in Known
        BY <2>1 DEF Known
      <3> QED BY <1>5, <1>6, <2>1, <3>1 DEF CreatingInv
    <2> QED BY <1>2, <1>3, <1>6, <2>1, Typing DEF CreatingInv
  <1>13. CloudInv'
    BY <1>2 DEF CloudInv
  <1>14. RaceInv'
    <2> SUFFICES ASSUME ~raced' PROVE /\ \A f \in Known : entry'[f].id \notin deleting
              /\ \A f \in Entries : life'[f] = "creating" =>
                    /\ hooks[entry'[f].id] = NoHook
                    /\ \A h \in Entries : life'[h] = "creating" => h = f
      BY <1>2, <1>7 DEF RaceInv
    <2>1. g.id \notin deleting
      <3>1. CASE es[e].url = NoUrl
        BY <1>4, <3>1 DEF CloudInv
      <3>2. CASE es[e].url # NoUrl
        <4>1. entry[e].id = g.id
          BY <1>2, <1>3, <1>5, <3>2, Typing DEF UrlInv, TypeOK
        <4> QED BY <1>2, <1>4, <4>1 DEF RaceInv
      <3> QED BY <3>1, <3>2
    <2>2. NoId \notin deleting
      BY Typing DEF TypeOK
    <2>3. \A f \in Entries \ {e} : life[f] = "creating" => entry'[f].id = entry[f].id
      <3>1. \A f \in Entries : life[f] = "creating" => f \in Known
        BY DEF Known
      <3> QED BY <1>5, <1>6, <3>1 DEF CreatingInv
    <2>4. life'[e] = "creating" => \A f \in Entries : life[f] # "creating"
      BY <1>4, <1>6
    <2>5. ~raced
      BY <1>4
    <2> QED BY <1>2, <1>5, <1>6, <1>8, <2>1, <2>2, <2>3, <2>4, <2>5 DEF RaceInv
  <1>15. HookIsUsed'
    BY <1>2, <1>5, <1>7, <1>8, Typing DEF HookIsUsed, boundVars
  <1>16. SerialUrlAnswers'
    <2>1. \A url : Answers(url)' <=> Answers(url)
      BY <1>2 DEF Answers
    <2> QED BY <1>2, <1>4, <1>5, <1>6, <1>7, <2>1 DEF SerialUrlAnswers
  <1> QED BY <1>9, <1>10, <1>11, <1>12, <1>13, <1>14, <1>15, <1>16

-----------------------------------------------------------------------------
(* Cloudhooks are created *)

\* Entry e is no longer waiting, and has a URL of its id; nothing else changes but
\* that a cloudhook may be there now.
LEMMA CreatedInv ==
    ASSUME CloudhooksInv, NEW e \in Entries, life[e] = "creating",
           NEW hook \in 0..MaxHooks,
           Finish(e, entry, group, [id |-> entry[e].id, hook |-> hook]),
           hook \in {NoHook, hooks'[entry[e].id]},
           hooks' = hooks \/ hooks' = [hooks EXCEPT ![entry[e].id] = hook],
           hooks' \in [Ids -> 0..hooksMade'], hooksMade' \in 0..MaxHooks,
           UNCHANGED <<subscribed, deleting, portal, idsMade, restarts, historyVars>>,
           failures' \in Nat, failures' = 0 => failures = 0
    PROVE  CloudhooksInv'
  <1> USE DEF CloudhooksInv
  <1> DEFINE url == [id |-> entry[e].id, hook |-> hook]
  <1>1. /\ group # NoGroup /\ group \in Group /\ subscribed /\ entry[e].id \in Ids
        /\ entry[e].id = group.id /\ entry[e].id # NoId /\ e \in Known /\ Known \subseteq Entries
    BY Typing DEF CreatingInv, TypeOK, Entry, IdInv, Known
  <1>2. url \in Url /\ url.id = entry[e].id /\ url.hook = hook /\ url # NoUrl
    BY <1>1, Typing DEF Url
  <1>3. Agree(e, entry, group)
    BY <1>1 DEF Agree, TypeOK, IdInv
  <1> HIDE DEF url
  <1>4. Finish(e, entry, group, url)
    BY DEF url
  <1>5. /\ life' \in [Entries -> Life] /\ life'[e] = "loaded"
        /\ \A f \in Entries \ {e} : life'[f] = life[f] /\ entry'[f] = entry[f]
        /\ entry' \in [Entries -> Entry]
        /\ entry'[e].id = entry[e].id /\ entry'[e].url = url
        /\ group' \in Group /\ group'.id = group.id
        /\ told' \in Url \cup {NoUrl}
    BY <1>2, <1>3, <1>4, FinishActs
  <1>6. Known' = Known /\ \A f \in Entries : entry'[f].id = entry[f].id
    BY <1>1, <1>5 DEF Known
  <1>7. /\ \A id \in Ids : hooks'[id] = hooks[id] \/ id = entry[e].id
    BY DEF TypeOK
  <1>8. TypeOK'
    BY <1>5 DEF TypeOK, historyVars
  <1>9. IdInv'
    BY <1>1, <1>5, <1>6 DEF IdInv
  <1>10. UrlInv' /\ CreatingInv' /\ CloudInv'
    <2>1. \A f \in Known : entry'[f].url # NoUrl => entry'[f].url.id = entry'[f].id
      BY <1>1, <1>2, <1>5 DEF UrlInv
    <2>2. \A f \in Entries : life'[f] = "creating" => f # e /\ life[f] = "creating"
      BY <1>5
    <2>3. group' # NoGroup
      BY <1>5, Typing
    <2> QED BY <1>1, <1>5, <1>6, <1>7, <2>1, <2>2, <2>3 DEF UrlInv, CreatingInv, CloudInv
  <1>11. RaceInv'
    <2>1. ~raced => \A f \in Entries : life'[f] # "creating"
      BY <1>5 DEF RaceInv
    <2> QED BY <1>1, <1>6, <2>1 DEF RaceInv, historyVars
  <1>12. HookIsUsed'
    BY <1>1, <1>6, <1>7 DEF HookIsUsed
  <1>13. SerialUrlAnswers'
    <2> SUFFICES ASSUME ~raced, NEW f \in Known, entry'[f].url # NoUrl
                 PROVE  entry'[f].url.hook = NoHook
                          \/ hooks'[entry'[f].url.id] = entry'[f].url.hook
      BY <1>6 DEF SerialUrlAnswers, Answers, historyVars
    <2>1. CASE f = e
      BY <1>2, <1>5, <2>1
    <2>2. CASE f # e
      <3>1. entry'[f].url = entry[f].url /\ entry[f].url \in Url
        BY <1>1, <1>5, <2>2, Typing DEF TypeOK
      <3>2. entry[f].url.hook = NoHook \/ hooks[entry[f].url.id] = entry[f].url.hook
        BY <3>1 DEF SerialUrlAnswers, Answers
      <3>3. entry[f].url.id = entry[e].id => hooks[entry[f].url.id] = NoHook
        BY DEF RaceInv
      <3> QED BY <1>7, <3>1, <3>2, <3>3, Typing
    <2> QED BY <2>1, <2>2
  <1> QED BY <1>8, <1>9, <1>10, <1>11, <1>12, <1>13

LEMMA CreateInv ==
    ASSUME CloudhooksInv, NEW e \in Entries, HookCreated(e) \/ HookNotCreated(e)
    PROVE  CloudhooksInv'
  <1>1. life[e] = "creating"
    BY DEF HookCreated, HookNotCreated
  <1>2. entry[e].id \in Ids /\ hooks \in [Ids -> 0..hooksMade] /\ hooksMade \in 0..MaxHooks
        /\ failures \in Nat
    BY <1>1 DEF CloudhooksInv, CreatingInv, TypeOK, Entry
  <1>3. CASE HookCreated(e)
    <2>1. /\ hooksMade + 1 \in 0..MaxHooks /\ hooksMade' = hooksMade + 1
          /\ hooks' = [hooks EXCEPT ![entry[e].id] = hooksMade + 1]
          /\ Finish(e, entry, group, [id |-> entry[e].id, hook |-> hooksMade + 1])
          /\ UNCHANGED <<subscribed, deleting, portal, idsMade, failures, restarts, historyVars>>
      BY <1>2, <1>3, BoundAssumption DEF HookCreated, boundVars
    <2>2. hooks' \in [Ids -> 0..hooksMade'] /\ hooks'[entry[e].id] = hooksMade + 1
      BY <1>2, <2>1
    <2> QED BY <1>1, <1>2, <2>1, <2>2, CreatedInv
  <1>4. CASE HookNotCreated(e)
    <2>1. NoHook \in 0..MaxHooks
      BY BoundAssumption DEF NoHook
    <2>2. /\ Finish(e, entry, group, [id |-> entry[e].id, hook |-> NoHook])
          /\ UNCHANGED <<subscribed, hooks, deleting, portal, made, restarts, historyVars>>
          /\ failures' = failures + 1
      BY <1>4 DEF HookNotCreated, cloudVars, Failure
    <2> QED BY <1>1, <1>2, <2>1, <2>2, CreatedInv DEF made
  <1> QED BY <1>3, <1>4

-----------------------------------------------------------------------------
(* The life of entries, and the deletion of cloudhooks *)

LEMMA LifeInv ==
    ASSUME CloudhooksInv, NEW e \in Entries, Add(e) \/ Unload(e)
    PROVE  CloudhooksInv'
  <1> USE DEF CloudhooksInv
  <1>1. /\ UNCHANGED <<entry, group, cloudVars, userVars, made, boundVars, historyVars>>
        /\ life[e] \in {"new", "loaded"} /\ life' = [life EXCEPT ![e] = "unloaded"]
        /\ life[e] = "new" => entry[e] = NewEntry
    BY DEF Add, Unload, IdInv
  <1>2. /\ life' \in [Entries -> Life] /\ life'[e] = "unloaded"
        /\ \A f \in Entries \ {e} : life'[f] = life[f]
        /\ Known' = Known \cup {e} /\ Known \subseteq Entries
        /\ e \notin Known => entry[e].id = NoId /\ entry[e].url = NoUrl
        /\ NoId \notin deleting
    BY <1>1, Typing DEF TypeOK, Life, Known
  <1>3. TypeOK'
    BY <1>1, <1>2 DEF TypeOK, cloudVars, userVars, made, boundVars, historyVars
  <1>4. IdInv' /\ UrlInv' /\ CreatingInv'
    BY <1>1, <1>2 DEF IdInv, UrlInv, CreatingInv, cloudVars
  <1>5. CloudInv' /\ RaceInv'
    BY <1>1, <1>2 DEF CloudInv, RaceInv, cloudVars, historyVars
  <1>6. HookIsUsed'
    BY <1>1, <1>2 DEF HookIsUsed, cloudVars, boundVars
  <1>7. SerialUrlAnswers'
    BY <1>1, <1>2 DEF SerialUrlAnswers, Answers, cloudVars, historyVars
  <1> QED BY <1>3, <1>4, <1>5, <1>6, <1>7

LEMMA RemoveInv == ASSUME CloudhooksInv, NEW e \in Entries, Remove(e) PROVE CloudhooksInv'
  <1> USE DEF CloudhooksInv
  <1>1. /\ UNCHANGED <<entry, group, subscribed, hooks, userVars, made, boundVars>>
        /\ life[e] = "unloaded" /\ e \in Known /\ Known \subseteq Entries
        /\ life' \in [Entries -> Life] /\ life'[e] = "removed"
        /\ \A f \in Entries \ {e} : life'[f] = life[f]
        /\ Known' = Known \ {e}
        /\ raced' \in BOOLEAN /\ emptied' \in BOOLEAN /\ (raced => raced')
    BY DEF Remove, TypeOK, Life, Known
  <1>2. /\ Deletes(e) => /\ entry[e].id \in Ids /\ subscribed
                         /\ deleting' = deleting \cup {entry[e].id}
                         /\ \A f \in Known \ {e} : entry[f].id # entry[e].id
                         /\ ~raced' => \A f \in Entries : life[f] # "creating"
        /\ ~Deletes(e) => deleting' = deleting
    BY <1>1 DEF Remove, Deletes, StillShared, TypeOK, Entry
  <1>3. TypeOK'
    BY <1>1, <1>2 DEF TypeOK, userVars, made, boundVars
  <1>4. IdInv' /\ UrlInv'
    BY <1>1 DEF IdInv, UrlInv
  <1>5. CreatingInv'
    BY <1>1 DEF CreatingInv
  <1>6. CloudInv'
    BY <1>1, <1>2 DEF CloudInv
  <1>7. RaceInv'
    BY <1>1, <1>2 DEF RaceInv
  <1>8. HookIsUsed'
    <2> SUFFICES ASSUME failures = 0, NEW id \in Ids, hooks[id] # NoHook, id \notin deleting'
                 PROVE  \E f \in Known \ {e} : entry[f].id = id
      BY <1>1 DEF HookIsUsed, boundVars
    <2>1. PICK f \in Known : entry[f].id = id
      BY <1>2 DEF HookIsUsed
    <2>2. CASE f = e
      <3>1. subscribed /\ entry[e].id # NoId
        BY <2>1, <2>2, Typing DEF CloudInv
      <3> QED BY <1>2, <2>1, <2>2, <3>1 DEF Deletes, StillShared
    <2> QED BY <2>1, <2>2
  <1>9. SerialUrlAnswers'
    BY <1>1 DEF SerialUrlAnswers, Answers
  <1> QED BY <1>3, <1>4, <1>5, <1>6, <1>7, <1>8, <1>9

LEMMA DeleteInv ==
    ASSUME CloudhooksInv, NEW id \in Ids, HookDeleted(id) \/ HookNotDeleted(id)
    PROVE  CloudhooksInv'
  <1> USE DEF CloudhooksInv
  <1>1. /\ id \in deleting /\ deleting' = deleting \ {id}
        /\ UNCHANGED <<life, entry, group, subscribed, userVars, made, restarts, historyVars>>
        /\ \/ hooks' = [hooks EXCEPT ![id] = NoHook] /\ failures' = failures
           \/ hooks' = hooks /\ failures' = failures + 1
        /\ Known' = Known /\ Known \subseteq Entries
    BY DEF HookDeleted, HookNotDeleted, Failure, boundVars, Known
  <1>2. \A i \in Ids : hooks'[i] \in {NoHook, hooks[i]} /\ (i # id => hooks'[i] = hooks[i])
    BY <1>1 DEF TypeOK
  <1>3. TypeOK'
    <2>1. hooks' \in [Ids -> 0..hooksMade]
      BY <1>1 DEF TypeOK, NoHook
    <2> QED BY <1>1, <2>1 DEF TypeOK, userVars, made, historyVars
  <1>4. IdInv' /\ UrlInv' /\ CreatingInv' /\ CloudInv'
    BY <1>1, <1>2 DEF IdInv, UrlInv, CreatingInv, CloudInv
  <1>5. RaceInv'
    <2>1. \A f \in Entries : life[f] = "creating" => entry[f].id \in Ids
      BY DEF CreatingInv, TypeOK, Entry
    <2> QED BY <1>1, <1>2, <2>1 DEF RaceInv, historyVars
  <1>6. HookIsUsed'
    <2>1. failures' = 0 => failures = 0 /\ hooks' = [hooks EXCEPT ![id] = NoHook]
      BY <1>1 DEF TypeOK
    <2>2. failures' = 0 => hooks'[id] = NoHook
      BY <2>1 DEF TypeOK
    <2> QED BY <1>1, <1>2, <2>1, <2>2 DEF HookIsUsed
  <1>7. SerialUrlAnswers'
    <2> SUFFICES ASSUME ~raced, NEW f \in Known, entry[f].url # NoUrl
                 PROVE  Answers(entry[f].url)'
      BY <1>1 DEF SerialUrlAnswers, historyVars
    <2>1. Answers(entry[f].url) /\ entry[f].url.id = entry[f].id /\ entry[f].id # id
      BY <1>1 DEF SerialUrlAnswers, UrlInv, RaceInv
    <2>2. entry[f].url.id \in Ids
      BY <1>1, Typing DEF TypeOK
    <2> QED BY <1>1, <1>2, <2>1, <2>2 DEF Answers
  <1> QED BY <1>3, <1>4, <1>5, <1>6, <1>7

-----------------------------------------------------------------------------
(* The user, TTLock and Home Assistant *)

LEMMA UserRegistersInv == ASSUME CloudhooksInv, UserRegisters PROVE CloudhooksInv'
  <1> USE DEF CloudhooksInv
  <1>1. /\ UNCHANGED <<life, entry, group, cloudVars, made, boundVars, historyVars>>
        /\ told' = told /\ portal' = told /\ Known' = Known
    BY DEF UserRegisters, Known
  <1>2. TypeOK'
    BY <1>1 DEF TypeOK, cloudVars, made, boundVars, historyVars
  <1>3. IdInv' /\ UrlInv' /\ CreatingInv' /\ CloudInv' /\ RaceInv'
    BY <1>1 DEF IdInv, UrlInv, CreatingInv, CloudInv, RaceInv, cloudVars, historyVars
  <1>4. HookIsUsed' /\ SerialUrlAnswers'
    BY <1>1 DEF HookIsUsed, SerialUrlAnswers, Answers, cloudVars, boundVars, historyVars
  <1> QED BY <1>2, <1>3, <1>4

LEMMA HandleWebhookInv == ASSUME CloudhooksInv, HandleWebhook PROVE CloudhooksInv'
  <1> USE DEF CloudhooksInv
  <1>1. /\ UNCHANGED <<life, cloudVars, portal, made, boundVars, historyVars>>
        /\ told' = NoUrl /\ Known' = Known
        /\ group # NoGroup /\ group \in Group /\ group' = [group EXCEPT !.confirmed = TRUE]
    BY DEF HandleWebhook, ResolveSetupIssue, Reaches, NoGroup, Known, TypeOK
  <1>2. group' \in Group /\ group' # NoGroup /\ group'.id = group.id
    <2>1. group' \in Group /\ group'.id = group.id
      BY <1>1 DEF Group
    <2> QED BY <2>1, Typing
  <1>3. /\ entry' \in [Entries -> Entry]
        /\ \A f \in Entries : /\ entry'[f].id = entry[f].id /\ entry'[f].url = entry[f].url
                              /\ f \notin Known => entry'[f] = entry[f]
    <2> DEFINE Confirmed(f) == [entry[f] EXCEPT !.status = TRUE]
    <2>1. entry \in [Entries -> Entry]
      BY DEF TypeOK
    <2>2. \A f \in Entries : /\ Confirmed(f) \in Entry
                             /\ Confirmed(f).id = entry[f].id /\ Confirmed(f).url = entry[f].url
      BY <2>1 DEF Entry
    <2>3. entry' = [f \in Entries |->
                      IF f \in Known /\ entry[f].id = entry[group.by].id
                      THEN Confirmed(f) ELSE entry[f]]
      BY DEF HandleWebhook, ResolveSetupIssue
    <2> HIDE DEF Confirmed
    <2> QED BY <2>1, <2>2, <2>3
  <1>4. TypeOK'
    BY <1>1, <1>2, <1>3 DEF TypeOK, cloudVars, made, boundVars, historyVars
  <1>5. IdInv' /\ UrlInv'
    BY <1>1, <1>2, <1>3 DEF IdInv, UrlInv, Known
  <1>6. CreatingInv' /\ CloudInv' /\ RaceInv'
    BY <1>1, <1>2, <1>3 DEF CreatingInv, CloudInv, RaceInv, cloudVars, historyVars, Known
  <1>7. HookIsUsed' /\ SerialUrlAnswers'
    BY <1>1, <1>3 DEF HookIsUsed, SerialUrlAnswers, Answers, cloudVars, boundVars,
                      historyVars, Known
  <1> QED BY <1>4, <1>5, <1>6, <1>7

LEMMA RestartInv == ASSUME CloudhooksInv, Restart PROVE CloudhooksInv'
  <1> USE DEF CloudhooksInv
  <1>1. /\ UNCHANGED <<entry, subscribed, hooks, portal, made, historyVars>>
        /\ group' = NoGroup /\ deleting' = {} /\ told' = NoUrl
        /\ deleting = {} \/ failures' = failures + 1
        /\ failures' \in {failures, failures + 1}
        /\ restarts' \in Nat
    BY DEF Restart, Failure, TypeOK
  <1>2. /\ life' \in [Entries -> Life]
        /\ Known' = Known
        /\ \A f \in Entries : life'[f] # "creating" /\ (life'[f] = "new" => life[f] = "new")
    BY DEF Restart, Known, TypeOK, Life
  <1>3. TypeOK'
    BY <1>1, <1>2 DEF TypeOK, made, historyVars
  <1>4. IdInv' /\ UrlInv' /\ CreatingInv' /\ CloudInv' /\ RaceInv'
    BY <1>1, <1>2 DEF IdInv, UrlInv, CreatingInv, CloudInv, RaceInv, historyVars
  <1>5. HookIsUsed'
    BY <1>1, <1>2 DEF HookIsUsed, TypeOK
  <1>6. SerialUrlAnswers'
    BY <1>1, <1>2 DEF SerialUrlAnswers, Answers, historyVars
  <1> QED BY <1>3, <1>4, <1>5, <1>6

-----------------------------------------------------------------------------
(* The theorems *)

LEMMA StepInv == ASSUME CloudhooksInv, [Next]_vars PROVE CloudhooksInv'
  <1>1. CASE Next
    BY <1>1, SetupInv, CreateInv, LifeInv, RemoveInv, DeleteInv, UserRegistersInv,
       HandleWebhookInv, RestartInv DEF Next
  <1>2. CASE UNCHANGED vars
    BY <1>2 DEF vars, cloudVars, userVars, made, boundVars, historyVars, CloudhooksInv, TypeOK,
       IdInv, UrlInv, CreatingInv, CloudInv, RaceInv, HookIsUsed, SerialUrlAnswers, Answers, Known
  <1> QED BY <1>1, <1>2

LEMMA Invariance == Spec => []CloudhooksInv
  BY InitInv, StepInv, PTL DEF Spec

\* Every value stays in the set it is declared for: no URL is for an id that there
\* is not, no cloudhook is numbered beyond those that were made.
THEOREM TypeCorrect == Spec => []TypeOK
  BY Invariance, PTL DEF CloudhooksInv

\* A cloudhook goes with the last entry of its id: removal of siblings, re-added
\* entries and restarts leave none behind while Home Assistant Cloud does not fail.
THEOREM HooksAreUsed == Spec => []HookIsUsed
  BY Invariance, PTL DEF CloudhooksInv

\* No entry keeps the URL of a cloudhook that is gone, unless one was asked for
\* while it was being created or deleted.
THEOREM UrlsAnswer == Spec => []SerialUrlAnswers
  BY Invariance, PTL DEF CloudhooksInv

-----------------------------------------------------------------------------
(* What the user knows.  That the URL in the issue, or the one that TTLock   *)
(* calls, reaches the group needs who is told and who is confirmed ...       *)

MemberInv ==
    /\ group.by # None => entry[group.by].id = group.id
    /\ \A e \in Known : entry[e].status => entry[e].id # NoId
    /\ group # NoGroup => \A e \in Known : entry[e].id = group.id =>
                            (entry[e].status <=> group.confirmed)
    /\ \A e \in Entries : life[e] = "loaded" =>
          /\ group # NoGroup /\ group.by # None
          /\ group.confirmed \/ group.issueRaised

ToldInv ==
    /\ group.issueRaised /\ ~group.confirmed => told # NoUrl
    /\ told # NoUrl => group # NoGroup /\ told.id = group.id

\* ... and that no cloudhook goes which one of them is for: whoever is confirmed
\* is so through the URL that TTLock calls.
AnswerInv ==
    ~raced /\ ~emptied =>
        /\ group # NoGroup => group.id \notin deleting
        /\ told # NoUrl => Answers(told)
        /\ group.confirmed => Answers(portal) /\ portal.id = group.id
        /\ \A e \in Known : entry[e].status => Answers(portal) /\ portal.id = entry[e].id

KnowsInv == MemberInv /\ ToldInv /\ AnswerInv

LEMMA KnowsInit == Init => KnowsInv
  <1> SUFFICES ASSUME Init PROVE KnowsInv
    OBVIOUS
  <1>1. Known = {} /\ \A e \in Entries : life[e] = "new"
    BY DEF Init, Known
  <1>2. group = NoGroup /\ group.by = None /\ ~group.confirmed /\ ~group.issueRaised
          /\ told = NoUrl
    BY DEF Init, NoGroup
  <1> QED BY <1>1, <1>2 DEF KnowsInv, MemberInv, ToldInv, AnswerInv

\* The URL at hand for an entry that joins is of the group's id, and answers.
LEMMA UrlOfJoin ==
    ASSUME CloudhooksInv, NEW e \in Known, NEW g, NEW es, Agree(e, es, g),
           UrlAtHand(es[e])
    PROVE  /\ GetUrl(es[e]) \in Url /\ GetUrl(es[e]).id = g.id
           /\ ~raced => Answers(GetUrl(es[e]))
  <1> USE DEF CloudhooksInv
  <1> DEFINE url == GetUrl(es[e])
  <1>0. Known \subseteq Entries
    BY DEF Known
  <1>1. g \in Group /\ g.id \in Ids /\ es \in [Entries -> Entry] /\ es[e].id = g.id
          /\ es[e].url = entry[e].url /\ g.id # NoId
          /\ (es[e].id = entry[e].id \/ entry[e].id = NoId)
    BY <1>0, Typing DEF Agree
  <1>2. CASE es[e].url # NoUrl
    <2>1. url = entry[e].url /\ url \in Url
      BY <1>0, <1>1, <1>2, Typing DEF GetUrl
    <2>2. url.id = g.id
      BY <1>0, <1>1, <1>2, <2>1, Typing DEF UrlInv
    <2> QED BY <1>0, <1>1, <1>2, <2>1, <2>2 DEF SerialUrlAnswers
  <1>3. CASE es[e].url = NoUrl
    <2>1. url = [id |-> g.id, hook |-> IF subscribed THEN hooks[g.id] ELSE NoHook]
      BY <1>1, <1>3 DEF GetUrl
    <2>2. hooks[g.id] \in 0..MaxHooks /\ NoHook \in 0..MaxHooks
      BY <1>1, BoundAssumption DEF TypeOK, NoHook
    <2>3. url \in Url
      BY <1>1, <2>1, <2>2 DEF Url
    <2>4. url # NoUrl
      BY <2>3, Typing
    <2> QED BY <2>1, <2>3, <2>4 DEF Answers
  <1> QED BY <1>2, <1>3

\* The cloudhook of the group that is joined is not being deleted.
LEMMA JoinedIsKept ==
    ASSUME CloudhooksInv, NEW e \in Known, NEW g, NEW es, Agree(e, es, g),
           JoinGroup(e, es, g), ~raced'
    PROVE  g.id \notin deleting
  <1> USE DEF CloudhooksInv
  <1>0. Known \subseteq Entries /\ g.id # NoId
    BY Typing DEF Known, Agree
  <1>1. /\ ~raced
        /\ es[e].url = NoUrl /\ subscribed => g.id \notin deleting
    BY DEF JoinGroup, TypeOK
  <1>2. es[e].url = entry[e].url /\ es[e].id = g.id
          /\ (es[e].id = entry[e].id \/ entry[e].id = NoId)
    BY <1>0 DEF Agree
  <1>3. CASE es[e].url = NoUrl
    BY <1>1, <1>3 DEF CloudInv
  <1>4. CASE es[e].url # NoUrl
    <2>1. entry[e].id = g.id
      BY <1>0, <1>2, <1>4, Typing DEF UrlInv, TypeOK
    <2> QED BY <1>1, <2>1 DEF RaceInv
  <1> QED BY <1>3, <1>4

\* What KnowsInv says of entries' data es and a group g that are about to be.
Joined(es, g) ==
    /\ \A f \in Known : /\ es[f].status => es[f].id # NoId
                        /\ es[f].id = g.id => (es[f].status <=> g.confirmed)
    /\ g.by # None => es[g.by].id = g.id
    /\ \A f \in Entries : life[f] = "loaded" =>
          g.by # None /\ (g.confirmed \/ g.issueRaised)
    /\ g.issueRaised /\ ~g.confirmed => told # NoUrl
    /\ told # NoUrl => told.id = g.id

\* An entry that is set up knows a URL, or waits for one.
LEMMA JoinKnows ==
    ASSUME CloudhooksInv, NEW e \in Known, NEW g, NEW es, Agree(e, es, g), Joined(es, g),
           NEW url \in Url, url.id = g.id,
           \/ Finish(e, es, g, url)
           \/ /\ life' = [life EXCEPT ![e] = "creating"]
              /\ entry' = es /\ group' = g /\ told' = told,
           UNCHANGED <<portal, deleting>>,
           ~raced' /\ ~emptied' =>
              /\ g.id \notin deleting
              /\ told # NoUrl => Answers(told)'
              /\ told' = url => Answers(url)'
              /\ g.confirmed => Answers(portal)' /\ portal.id = g.id
    PROVE  KnowsInv'
  <1> USE DEF CloudhooksInv
  <1>0. /\ Known \subseteq Entries /\ g \in Group /\ g # NoGroup /\ g.id # NoId
        /\ es \in [Entries -> Entry] /\ es[e].id = g.id /\ url # NoUrl
        /\ \A f \in Known : es[f].id \in {NoId, g.id}
    BY Typing DEF Known, Agree
  <1>1. /\ life' \in [Entries -> Life] /\ life'[e] \in {"loaded", "creating"}
        /\ \A f \in Entries \ {e} : life'[f] = life[f]
        /\ entry' \in [Entries -> Entry]
        /\ \A f \in Entries : entry'[f].id = es[f].id /\ entry'[f].status = es[f].status
    <2>1. CASE Finish(e, es, g, url)
      <3>1. entry' = [es EXCEPT ![e].url = url] /\ life' = [life EXCEPT ![e] = "loaded"]
        BY <2>1 DEF Finish
      <3> QED BY <1>0, <3>1 DEF Entry, TypeOK, Life
    <2>2. CASE life' = [life EXCEPT ![e] = "creating"] /\ entry' = es
      BY <1>0, <2>2 DEF TypeOK, Life
    <2> QED BY <2>1, <2>2
  <1>2. Known' = Known
    BY <1>0, <1>1 DEF Known
  \* The group goes on with its id, and its issue is raised if it has to be.
  <1>3. /\ group' # NoGroup /\ group'.id = g.id /\ group'.confirmed = g.confirmed
        /\ group'.by # None => group'.by = e \/ group'.by = g.by
        /\ g.by # None => group'.by # None
        /\ g.issueRaised => group'.issueRaised
        /\ life'[e] = "loaded" => /\ group'.by # None
                                  /\ group'.issueRaised \/ es[e].status
        /\ group'.issueRaised => told' = url \/ (g.issueRaised /\ told' = told)
        /\ told' \in {told, url}
    <2>1. CASE Finish(e, es, g, url)
      <3>1. /\ group' = [g EXCEPT !.issueRaised = @ \/ Raises(es[e], g),
                                  !.by = IF @ = None THEN e ELSE @]
            /\ told' = IF Raises(es[e], g) THEN url ELSE told
        BY <2>1 DEF Finish
      <3>2. group' \in Group
        <4>1. Raises(es[e], g) \in BOOLEAN
          BY DEF Raises
        <4> QED BY <1>0, <3>1, <4>1 DEF Group
      <3>3. /\ group'.id = g.id /\ group'.confirmed = g.confirmed
            /\ group'.by = (IF g.by = None THEN e ELSE g.by)
            /\ group'.issueRaised = (g.issueRaised \/ Raises(es[e], g))
        BY <1>0, <3>1 DEF Group
      <3>4. e # None /\ group' # NoGroup
        BY <1>0, <3>2, NoneAssumption, Typing
      <3> QED BY <3>1, <3>3, <3>4 DEF Raises
    <2>2. CASE life' = [life EXCEPT ![e] = "creating"] /\ group' = g /\ told' = told
      <3>1. life'[e] = "creating"
        BY <1>0, <2>2 DEF TypeOK
      <3> QED BY <1>0, <2>2, <3>1 DEF Group
    <2> QED BY <2>1, <2>2
  <1>4. MemberInv'
    <2>1. group'.by # None => entry'[group'.by].id = group'.id
      <3>1. g.by # None => g.by \in Entries
        BY <1>0 DEF Group
      <3> QED BY <1>0, <1>1, <1>3, <3>1 DEF Joined
    <2>2. \A f \in Known : /\ entry'[f].status => entry'[f].id # NoId
                           /\ entry'[f].id = group'.id =>
                                 (entry'[f].status <=> group'.confirmed)
      BY <1>0, <1>1, <1>3 DEF Joined
    <2>3. \A f \in Entries : life'[f] = "loaded" =>
            group'.by # None /\ (group'.confirmed \/ group'.issueRaised)
      <3>1. life'[e] = "loaded" => group'.confirmed \/ group'.issueRaised
        BY <1>0, <1>3 DEF Joined
      <3> QED BY <1>1, <1>3, <3>1 DEF Joined
    <2> QED BY <1>2, <1>3, <2>1, <2>2, <2>3 DEF MemberInv
  <1>5. ToldInv'
    BY <1>0, <1>3 DEF ToldInv, Joined
  <1>6. AnswerInv'
    <2> SUFFICES ASSUME ~raced', ~emptied'
                 PROVE  /\ group'.id \notin deleting'
                        /\ told' # NoUrl => Answers(told)'
                        /\ group'.confirmed => Answers(portal)' /\ portal'.id = group'.id
                        /\ \A f \in Known' : entry'[f].status =>
                              Answers(portal)' /\ portal'.id = entry'[f].id
      BY DEF AnswerInv
    <2>1. told' # NoUrl => Answers(told)'
      <3>1. CASE told' = url
        BY <3>1 DEF Answers
      <3>2. CASE told' = told
        BY <3>2 DEF Answers
      <3> QED BY <1>3, <3>1, <3>2
    <2>2. \A f \in Known : es[f].status => g.confirmed /\ es[f].id = g.id
      BY <1>0 DEF Joined
    <2>3. g.confirmed => Answers(portal)' /\ portal'.id = g.id
      OBVIOUS
    <2>4. \A f \in Known' : entry'[f].status => g.confirmed /\ entry'[f].id = g.id
      BY <1>0, <1>1, <1>2, <2>2
    <2> QED BY <1>3, <2>1, <2>3, <2>4
  <1> QED BY <1>4, <1>5, <1>6 DEF KnowsInv

\* What Setup joins: the group that is there, or a new one of the id that its
\* entries have, confirmed if one of them is.
LEMMA SetupJoins ==
    ASSUME CloudhooksInv, KnowsInv, NEW e \in Entries, Setup(e)
    PROVE  \E g, es : /\ Agree(e, es, g) /\ JoinGroup(e, es, g) /\ Joined(es, g)
                      /\ g.confirmed => \/ group.confirmed /\ group.id = g.id
                                        \/ \E f \in Known : entry[f].status /\ entry[f].id = g.id
  <1> USE DEF CloudhooksInv, KnowsInv
  <1>1. life[e] = "unloaded" /\ e \in Known /\ Known \subseteq Entries
    BY DEF Setup, Known
  <1>2. CASE group # NoGroup
    <2> DEFINE es == [entry EXCEPT ![e] = Adopt(@, group)]
    <2>1. JoinGroup(e, es, group)
      BY <1>2 DEF Setup
    <2>2. group \in Group /\ entry \in [Entries -> Entry] /\ group.id \in Ids
          /\ group.confirmed \in BOOLEAN /\ group.id # NoId
      BY <1>2, Typing DEF TypeOK, Group
    <2>3. /\ Adopt(entry[e], group) \in Entry
          /\ Adopt(entry[e], group).id = group.id
          /\ Adopt(entry[e], group).url = entry[e].url
          /\ Adopt(entry[e], group).status = (entry[e].status \/ group.confirmed)
      BY <2>2 DEF Adopt, Entry
    <2>4. /\ es \in [Entries -> Entry] /\ es[e] = Adopt(entry[e], group)
          /\ \A f \in Entries \ {e} : es[f] = entry[f]
      BY <2>2, <2>3
    <2> HIDE DEF es
    <2>5. Agree(e, es, group)
      BY <1>1, <1>2, <2>2, <2>3, <2>4 DEF Agree, IdInv
    <2>6. \A f \in Known : /\ es[f].status => es[f].id # NoId
                           /\ es[f].id = group.id => (es[f].status <=> group.confirmed)
      <3>1. ASSUME NEW f \in Known \ {e}
            PROVE  /\ es[f].status => es[f].id # NoId
                   /\ es[f].id = group.id => (es[f].status <=> group.confirmed)
        BY <1>1, <1>2, <2>4 DEF MemberInv
      <3>2. es[e].status <=> group.confirmed
        BY <1>1, <1>2, <2>3, <2>4 DEF MemberInv, IdInv
      <3> QED BY <1>1, <2>2, <2>3, <2>4, <3>1, <3>2
    <2>7. group.by # None => es[group.by].id = group.id
      <3>1. group.by # None => group.by \in Entries
        BY <2>2 DEF Group
      <3> QED BY <2>3, <2>4, <3>1 DEF MemberInv
    <2>8. Joined(es, group)
      BY <2>6, <2>7 DEF Joined, MemberInv, ToldInv
    <2> QED BY <2>1, <2>5, <2>8
  <1>3. CASE group = NoGroup
    <2>1. PICK id \in Ids : Resolve(e, id) /\ (Existing = {} \/ id \in Existing)
      <3>1. Existing \subseteq Ids
        BY <1>1 DEF Existing, TypeOK, Entry
      <3>2. idsMade < MaxIds => idsMade + 1 \in Ids
        BY BoundAssumption DEF TypeOK, Ids
      <3> QED BY <1>3, <3>1, <3>2 DEF Setup
    <2> DEFINE g == [NoGroup EXCEPT !.id = id,
                       !.confirmed = \E f \in Known : entry[f].id = id /\ entry[f].status]
               es == [f \in Entries |-> IF f \in Known THEN Adopt(entry[f], g) ELSE entry[f]]
    <2>2. JoinGroup(e, es, g)
      BY <2>1 DEF Resolve
    <2>3. /\ g \in Group /\ g.id = id /\ g.confirmed \in BOOLEAN /\ g.by = None
          /\ ~g.issueRaised
          /\ g.confirmed <=> \E f \in Known : entry[f].id = id /\ entry[f].status
      BY DEF Group, NoGroup
    <2> HIDE DEF g
    <2>4. \A f \in Entries : /\ Adopt(entry[f], g) \in Entry
                             /\ Adopt(entry[f], g).id = id
                             /\ Adopt(entry[f], g).url = entry[f].url
                             /\ Adopt(entry[f], g).status = (entry[f].status \/ g.confirmed)
      BY <2>3 DEF TypeOK, Adopt, Entry
    <2>5. \A f \in Known : entry[f].id \in {NoId, id}
      <3>1. CASE Existing = {}
        BY <3>1 DEF Existing
      <3>2. CASE id \in Existing
        BY <3>2 DEF Existing, IdInv
      <3> QED BY <2>1, <3>1, <3>2
    <2>6. es \in [Entries -> Entry]
      BY <2>4 DEF TypeOK
    <2>7. Agree(e, es, g)
      BY <1>1, <2>3, <2>4, <2>5, <2>6 DEF Agree
    <2>8. \A f \in Known : es[f].id = id /\ id # NoId /\ (es[f].status <=> g.confirmed)
      BY <1>1, <2>3, <2>4, <2>5, Typing DEF MemberInv
    <2>9. told = NoUrl /\ \A f \in Entries : life[f] # "loaded"
      BY <1>3 DEF ToldInv, MemberInv
    <2> HIDE DEF es
    <2>10. Joined(es, g)
      BY <2>3, <2>8, <2>9 DEF Joined
    <2> QED BY <2>2, <2>3, <2>7, <2>10
  <1> QED BY <1>2, <1>3

LEMMA SetupKnows ==
    ASSUME CloudhooksInv, KnowsInv, NEW e \in Entries, Setup(e)
    PROVE  KnowsInv'
  <1> USE DEF CloudhooksInv, KnowsInv
  <1>1. PICK g, es : /\ Agree(e, es, g) /\ JoinGroup(e, es, g) /\ Joined(es, g)
                     /\ g.confirmed => \/ group.confirmed /\ group.id = g.id
                                       \/ \E f \in Known : entry[f].status /\ entry[f].id = g.id
    BY SetupJoins
  <1>2. /\ e \in Known /\ UNCHANGED <<portal, deleting, hooks, emptied>>
        /\ ~raced' => ~raced
    BY <1>1 DEF Setup, Known, cloudVars, JoinGroup, TypeOK
  <1>3. \A u : Answers(u) => (u # NoUrl /\ (u.hook = NoHook \/ hooks'[u.id] = u.hook))
    BY <1>2 DEF Answers
  <1>4. ~raced' /\ ~emptied' =>
              /\ g.id \notin deleting
              /\ told # NoUrl => Answers(told)
              /\ g.confirmed => Answers(portal) /\ portal.id = g.id
    BY <1>1, <1>2, JoinedIsKept DEF AnswerInv
  <1>5. ASSUME NEW url \in Url, url.id = g.id, ~raced => Answers(url),
               \/ Finish(e, es, g, url)
               \/ /\ life' = [life EXCEPT ![e] = "creating"]
                  /\ entry' = es /\ group' = g /\ told' = told
        PROVE  KnowsInv'
    <2>1. ~raced' /\ ~emptied' =>
              /\ g.id \notin deleting
              /\ told # NoUrl => Answers(told)'
              /\ told' = url => Answers(url)'
              /\ g.confirmed => Answers(portal)' /\ portal.id = g.id
      <3> SUFFICES ASSUME ~raced', ~emptied'
                   PROVE  /\ g.id \notin deleting
                          /\ told # NoUrl => Answers(told)'
                          /\ told' = url => Answers(url)'
                          /\ g.confirmed => Answers(portal)' /\ portal.id = g.id
        OBVIOUS
      <3>1. told' = url => Answers(url)'
        BY <1>2, <1>3, <1>5 DEF Answers
      <3>2. told # NoUrl => Answers(told)'
        <4>1. CASE told' = told
          BY <1>3, <1>4, <4>1 DEF Answers
        <4>2. CASE told' = url
          BY <3>1, <4>2 DEF Answers
        <4> QED BY <1>5, <4>1, <4>2 DEF Finish
      <3>3. g.confirmed => Answers(portal)' /\ portal.id = g.id
        BY <1>2, <1>3, <1>4 DEF Answers
      <3> QED BY <1>4, <3>1, <3>2, <3>3
    <2> QED BY <1>1, <1>2, <1>5, <2>1, JoinKnows
  <1>6. CASE UrlAtHand(es[e]) /\ Finish(e, es, g, GetUrl(es[e]))
    BY <1>1, <1>2, <1>5, <1>6, UrlOfJoin
  <1>7. CASE life' = [life EXCEPT ![e] = "creating"] /\ entry' = es /\ group' = g
               /\ told' = told
    <2> DEFINE url == [id |-> g.id, hook |-> NoHook]
    <2>1. g.id \in Ids /\ NoHook \in 0..MaxHooks
      BY <1>1, Typing, BoundAssumption DEF Agree, NoHook
    <2>2. url \in Url /\ url.id = g.id /\ url.hook = NoHook /\ url # NoUrl
      BY <2>1, Typing DEF Url
    <2>3. Answers(url)
      BY <2>2 DEF Answers
    <2> HIDE DEF url
    <2> QED BY <1>5, <1>7, <2>2, <2>3
  <1> QED BY <1>1, <1>6, <1>7 DEF JoinGroup

LEMMA CreateKnows ==
    ASSUME CloudhooksInv, KnowsInv, NEW e \in Entries, HookCreated(e) \/ HookNotCreated(e)
    PROVE  KnowsInv'
  <1> USE DEF CloudhooksInv, KnowsInv
  <1>1. life[e] = "creating" /\ e \in Known /\ Known \subseteq Entries
    BY DEF HookCreated, HookNotCreated, Known
  <1>2. /\ group # NoGroup /\ group \in Group /\ entry[e].id = group.id
        /\ group.id \in Ids /\ entry \in [Entries -> Entry]
    BY <1>1, Typing DEF CreatingInv, TypeOK, IdInv
  <1>3. Agree(e, entry, group)
    BY <1>1, <1>2 DEF Agree, TypeOK, IdInv
  <1>4. Joined(entry, group)
    BY <1>2 DEF Joined, MemberInv, ToldInv
  <1>5. PICK hook \in 0..MaxHooks :
          /\ Finish(e, entry, group, [id |-> group.id, hook |-> hook])
          /\ \/ hook = NoHook /\ hooks' = hooks
             \/ hooks' = [hooks EXCEPT ![group.id] = hook]
    <2>1. CASE HookCreated(e)
      <3>1. hooksMade + 1 \in 0..MaxHooks
        BY <2>1, BoundAssumption DEF HookCreated, TypeOK
      <3> QED BY <1>2, <2>1, <3>1 DEF HookCreated
    <2>2. CASE HookNotCreated(e)
      <3>1. NoHook \in 0..MaxHooks
        BY BoundAssumption DEF NoHook
      <3> QED BY <1>2, <2>2, <3>1 DEF HookNotCreated, cloudVars
    <2> QED BY <2>1, <2>2
  <1>6. UNCHANGED <<portal, deleting, raced, emptied>>
    BY DEF HookCreated, HookNotCreated, cloudVars, historyVars
  <1>7. PICK url \in Url : /\ url = [id |-> group.id, hook |-> hook]
                          /\ url.id = group.id /\ url.hook = hook /\ url # NoUrl
    <2>1. [id |-> group.id, hook |-> hook] \in Url
      BY <1>2 DEF Url
    <2> QED BY <2>1, Typing
  <1>8. hooks \in [Ids -> 0..hooksMade]
    BY DEF TypeOK
  \* There was no cloudhook, so that no URL of one is in use.
  <1>9. ASSUME ~raced, NEW u \in Url \cup {NoUrl}, Answers(u), u.id = group.id
        PROVE  u # NoUrl /\ u.hook = NoHook
    <2>1. hooks[group.id] = NoHook
      BY <1>1, <1>2, <1>9 DEF RaceInv
    <2> QED BY <1>9, <2>1 DEF Answers
  <1>10. ~raced' /\ ~emptied' =>
              /\ group.id \notin deleting
              /\ told # NoUrl => Answers(told)'
              /\ told' = url => Answers(url)'
              /\ group.confirmed => Answers(portal)' /\ portal.id = group.id
    <2> SUFFICES ASSUME ~raced', ~emptied'
                 PROVE  /\ group.id \notin deleting
                        /\ told # NoUrl => Answers(told)'
                        /\ told' = url => Answers(url)'
                        /\ group.confirmed => Answers(portal)' /\ portal.id = group.id
      OBVIOUS
    <2>1. told' = url => Answers(url)'
      <3>1. hook = NoHook \/ hooks'[group.id] = hook
        BY <1>2, <1>5, <1>8
      <3>2. \A u : u = url => u # NoUrl /\ (u.hook = NoHook \/ hooks'[u.id] = u.hook)
        BY <1>7, <3>1
      <3> QED BY <3>2 DEF Answers
    <2>2. told # NoUrl => Answers(told)'
      <3>1. CASE told' = told
        <4>1. ASSUME told # NoUrl PROVE told.hook = NoHook
          BY <1>6, <1>9, <4>1 DEF AnswerInv, ToldInv, TypeOK
        <4> QED BY <3>1, <4>1 DEF Answers
      <3>2. CASE told' = url
        BY <2>1, <3>2 DEF Answers
      <3>3. told' = told \/ told' = url
        BY <1>5, <1>7 DEF Finish
      <3> QED BY <3>1, <3>2, <3>3
    <2>3. group.confirmed => Answers(portal)' /\ portal.id = group.id
      <3>1. ASSUME group.confirmed
            PROVE  portal # NoUrl /\ portal.hook = NoHook /\ portal.id = group.id
        BY <1>6, <1>9, <3>1 DEF AnswerInv, TypeOK
      <3> QED BY <1>6, <3>1 DEF Answers
    <2>4. group.id \notin deleting
      BY <1>2, <1>6 DEF AnswerInv
    <2> QED BY <2>1, <2>2, <2>3, <2>4
  <1>11. Finish(e, entry, group, url) /\ UNCHANGED <<portal, deleting>>
    BY <1>5, <1>6, <1>7
  <1> QED BY <1>1, <1>3, <1>4, <1>7, <1>10, <1>11, JoinKnows, Zenon

\* Where group, cloudhooks and what the user has are as before.
LEMMA KnowsKept ==
    ASSUME CloudhooksInv, KnowsInv,
           UNCHANGED <<entry, group, told, portal>>,
           \A e \in Entries : life'[e] = "loaded" => life[e] = "loaded",
           \A e \in Known' : e \in Known \/ entry[e] = NewEntry,
           ~raced' /\ ~emptied' =>
              /\ ~raced /\ ~emptied
              /\ deleting' \subseteq deleting \/ group = NoGroup
              /\ \A id \in Ids : hooks'[id] = hooks[id] \/ id \in deleting
    PROVE  KnowsInv'
  <1> USE DEF CloudhooksInv, KnowsInv
  <1>0. /\ Known \subseteq Entries /\ NewEntry.id = NoId /\ ~NewEntry.status
        /\ entry \in [Entries -> Entry]
        /\ told \in Url \cup {NoUrl} /\ portal \in Url \cup {NoUrl}
        /\ \A u \in Url : u.id \in Ids
        /\ NoGroup.confirmed = FALSE
        /\ group # NoGroup => group.id \in Ids /\ group.id # NoId
    BY Typing DEF NewEntry, Known, TypeOK, NoGroup
  <1>1. MemberInv' /\ ToldInv'
    BY <1>0 DEF MemberInv, ToldInv
  <1>2. AnswerInv'
    <2> SUFFICES ASSUME ~raced', ~emptied'
                 PROVE  /\ group # NoGroup => group.id \notin deleting'
                        /\ told # NoUrl => Answers(told)'
                        /\ group.confirmed => Answers(portal)' /\ portal.id = group.id
                        /\ \A e \in Known' : entry[e].status =>
                              Answers(portal)' /\ portal.id = entry[e].id
      BY DEF AnswerInv
    <2>1. ASSUME NEW u \in Url \cup {NoUrl}, Answers(u), u.id \notin deleting
          PROVE  u # NoUrl /\ (u.hook = NoHook \/ hooks'[u.id] = u.hook)
      BY <1>0, <2>1 DEF Answers
    <2>2. group # NoGroup => group.id \notin deleting /\ group.id \notin deleting'
      BY DEF AnswerInv
    <2>3. told # NoUrl => Answers(told)'
      BY <1>0, <2>1, <2>2 DEF AnswerInv, ToldInv, Answers
    <2>4. group.confirmed => Answers(portal)' /\ portal.id = group.id
      BY <1>0, <2>1, <2>2 DEF AnswerInv, Answers
    <2>5. ASSUME NEW e \in Known', entry[e].status
          PROVE  Answers(portal)' /\ portal.id = entry[e].id
      <3>1. e \in Known /\ entry[e].id \notin deleting
        BY <1>0, <2>5 DEF RaceInv
      <3> QED BY <1>0, <2>1, <2>5, <3>1 DEF AnswerInv, Answers
    <2> QED BY <2>2, <2>3, <2>4, <2>5
  <1> QED BY <1>1, <1>2

LEMMA LifeKnows ==
    ASSUME CloudhooksInv, KnowsInv, NEW e \in Entries, Add(e) \/ Unload(e) \/ Remove(e)
    PROVE  KnowsInv'
  <1> USE DEF CloudhooksInv
  <1>1. /\ UNCHANGED <<entry, group, told, portal, hooks>>
        /\ life' \in [Entries -> Life] /\ life'[e] \in {"unloaded", "removed"}
        /\ \A f \in Entries \ {e} : life'[f] = life[f]
        /\ life[e] = "new" => entry[e] = NewEntry
        /\ life'[e] = "unloaded" => life[e] \in {"new", "loaded"}
    BY DEF Add, Unload, Remove, TypeOK, Life, userVars, cloudVars, IdInv
  <1>2. \A f \in Known' : f \in Known \/ entry[f] = NewEntry
    BY <1>1 DEF Known
  <1>3. ~raced' /\ ~emptied' =>
            ~raced /\ ~emptied /\ (deleting' \subseteq deleting \/ group = NoGroup)
    <2>1. CASE Add(e) \/ Unload(e)
      BY <2>1 DEF Add, Unload, cloudVars, historyVars
    <2>2. CASE Remove(e)
      <3>1. ~Deletes(e) => deleting' = deleting
        BY <2>2 DEF Remove
      <3>2. /\ raced \in BOOLEAN /\ emptied \in BOOLEAN
            /\ emptied' = (emptied \/ (Deletes(e) /\ group # NoGroup)) /\ (raced => raced')
        BY <2>2 DEF Remove, TypeOK
      <3> QED BY <3>1, <3>2
    <2> QED BY <2>1, <2>2
  <1> QED BY <1>1, <1>2, <1>3, KnowsKept

LEMMA DeleteKnows ==
    ASSUME CloudhooksInv, KnowsInv, NEW id \in Ids, HookDeleted(id) \/ HookNotDeleted(id)
    PROVE  KnowsInv'
  <1>1. /\ id \in deleting /\ deleting' = deleting \ {id}
        /\ UNCHANGED <<life, entry, group, told, portal, raced, emptied>>
        /\ hooks' = [hooks EXCEPT ![id] = NoHook] \/ hooks' = hooks
        /\ Known' = Known
    BY DEF HookDeleted, HookNotDeleted, userVars, historyVars, Known
  <1>2. \A i \in Ids : hooks'[i] = hooks[i] \/ i \in deleting
    BY <1>1 DEF CloudhooksInv, TypeOK
  <1> QED BY <1>1, <1>2, KnowsKept

LEMMA RestartKnows == ASSUME CloudhooksInv, KnowsInv, Restart PROVE KnowsInv'
  <1> USE DEF CloudhooksInv, KnowsInv
  <1>1. /\ UNCHANGED <<entry, hooks, portal, raced, emptied>>
        /\ group' = NoGroup /\ deleting' = {} /\ told' = NoUrl
        /\ Known' = Known /\ Known \subseteq Entries
        /\ \A f \in Entries : life'[f] # "loaded"
    BY DEF Restart, Known, TypeOK, Life, historyVars
  <1>2. NoGroup.by = None /\ ~NoGroup.confirmed /\ ~NoGroup.issueRaised
    BY DEF NoGroup
  <1>3. MemberInv' /\ ToldInv'
    BY <1>1, <1>2 DEF MemberInv, ToldInv
  <1>4. AnswerInv'
    BY <1>1, <1>2 DEF AnswerInv, Answers
  <1> QED BY <1>3, <1>4

LEMMA UserKnows == ASSUME CloudhooksInv, KnowsInv, UserRegisters PROVE KnowsInv'
  <1> USE DEF CloudhooksInv, KnowsInv
  <1>1. /\ UNCHANGED <<life, entry, group, hooks, deleting, told, raced, emptied>>
        /\ told # NoUrl /\ portal' = told /\ Known' = Known /\ Known \subseteq Entries
    BY DEF UserRegisters, cloudVars, historyVars, Known
  <1>2. MemberInv' /\ ToldInv'
    BY <1>1 DEF MemberInv, ToldInv
  \* Whoever is confirmed is a member of the group, whose URL was told.
  <1>3. told.id = group.id /\ \A f \in Known : entry[f].status => entry[f].id = group.id
    BY <1>1 DEF ToldInv, MemberInv, IdInv
  <1>4. AnswerInv'
    BY <1>1, <1>3 DEF AnswerInv, Answers
  <1> QED BY <1>2, <1>4

LEMMA HandleKnows == ASSUME CloudhooksInv, KnowsInv, HandleWebhook PROVE KnowsInv'
  <1> USE DEF CloudhooksInv, KnowsInv
  <1>1. /\ UNCHANGED <<life, hooks, deleting, portal, raced, emptied>>
        /\ told' = NoUrl /\ Known' = Known /\ Known \subseteq Entries
        /\ group # NoGroup /\ group \in Group /\ group' = [group EXCEPT !.confirmed = TRUE]
        /\ Answers(portal) /\ portal.id = group.id /\ group.by # None
    BY DEF HandleWebhook, ResolveSetupIssue, Reaches, NoGroup, Known, TypeOK, cloudVars,
           historyVars
  <1>2. /\ group' \in Group /\ group'.id = group.id /\ group'.by = group.by
        /\ group'.confirmed = TRUE /\ group.by \in Entries /\ group.id # NoId
    BY <1>1, Typing DEF Group
  <1>3. entry[group.by].id = group.id
    BY <1>1 DEF MemberInv
  <1>4. \A f \in Entries : /\ entry'[f].id = entry[f].id
                           /\ f \in Known /\ entry[f].id = group.id => entry'[f].status
                           /\ entry'[f].status =>
                                entry[f].status \/ entry[f].id = group.id
    <2> DEFINE Confirmed(f) == [entry[f] EXCEPT !.status = TRUE]
    <2>1. entry \in [Entries -> Entry]
      BY DEF TypeOK
    <2>2. \A f \in Entries : Confirmed(f).id = entry[f].id /\ Confirmed(f).status = TRUE
      BY <2>1 DEF Entry
    <2>3. entry' = [f \in Entries |->
                      IF f \in Known /\ entry[f].id = entry[group.by].id
                      THEN Confirmed(f) ELSE entry[f]]
      BY DEF HandleWebhook, ResolveSetupIssue
    <2> HIDE DEF Confirmed
    <2> QED BY <1>3, <2>1, <2>2, <2>3
  <1>5. \A f \in Known : entry'[f].status => entry'[f].id = group.id
    BY <1>1, <1>4 DEF MemberInv, IdInv
  <1>6. group' # NoGroup
    BY <1>2, Typing
  <1>7. MemberInv'
    <2>1. group'.by # None => entry'[group'.by].id = group'.id
      BY <1>2, <1>3, <1>4
    <2>2. \A f \in Known : /\ entry'[f].status => entry'[f].id # NoId
                           /\ entry'[f].id = group'.id => (entry'[f].status <=> group'.confirmed)
      BY <1>1, <1>2, <1>4, <1>5
    <2>3. \A f \in Entries : life'[f] = "loaded" =>
            group'.by # None /\ (group'.confirmed \/ group'.issueRaised)
      BY <1>1, <1>2
    <2> QED BY <1>1, <1>6, <2>1, <2>2, <2>3 DEF MemberInv
  <1>8. ToldInv'
    BY <1>1, <1>2 DEF ToldInv
  <1>9. AnswerInv'
    <2>1. Answers(portal)'
      BY <1>1 DEF Answers
    <2>2. \A f \in Known : entry'[f].status => portal'.id = entry'[f].id
      BY <1>1, <1>5
    <2>3. ~raced' /\ ~emptied' => group'.id \notin deleting'
      BY <1>1, <1>2 DEF AnswerInv
    <2> QED BY <1>1, <1>2, <2>1, <2>2, <2>3 DEF AnswerInv
  <1> QED BY <1>7, <1>8, <1>9

LEMMA KnowsInvariance == Spec => []KnowsInv
  <1>1. CloudhooksInv /\ KnowsInv /\ [Next]_vars => KnowsInv'
    <2> SUFFICES ASSUME CloudhooksInv, KnowsInv, [Next]_vars PROVE KnowsInv'
      OBVIOUS
    <2>1. CASE Next
      BY <2>1, SetupKnows, CreateKnows, LifeKnows, DeleteKnows, UserKnows, HandleKnows,
         RestartKnows DEF Next
    <2>2. CASE UNCHANGED vars
      <3>1. UNCHANGED <<life, entry, group, told, portal, hooks, deleting, raced, emptied>>
              /\ Known' = Known
        BY <2>2 DEF vars, cloudVars, userVars, historyVars, Known
      <3> QED BY <3>1, KnowsKept
    <2> QED BY <2>1, <2>2
  <1> QED BY <1>1, KnowsInit, Invariance, PTL DEF Spec

\* Whoever is set up gets webhooks, or the user has an issue with a URL that
\* answers - over set-ups, removals, restarts and failures of Home Assistant Cloud,
\* but for a race on a cloudhook and a group that outlives its cloudhook.
THEOREM UserKnowsUrl == Spec => []SerialUserKnowsUrl
  <1>1. CloudhooksInv /\ KnowsInv => SerialUserKnowsUrl
    <2> SUFFICES ASSUME CloudhooksInv, KnowsInv, ~raced, ~emptied,
                        NEW e \in Entries, life[e] = "loaded"
                 PROVE  Reaches(portal) \/ Reaches(told)
      BY DEF SerialUserKnowsUrl
    <2>1. group # NoGroup /\ group.by # None /\ (group.confirmed \/ group.issueRaised)
      BY DEF KnowsInv, MemberInv
    <2>2. CASE group.confirmed
      BY <2>1, <2>2 DEF KnowsInv, AnswerInv, Reaches
    <2>3. CASE ~group.confirmed
      BY <2>1, <2>3 DEF KnowsInv, ToldInv, AnswerInv, Reaches
    <2> QED BY <2>2, <2>3
  <1> QED BY <1>1, Invariance, KnowsInvariance, PTL

=============================================================================
