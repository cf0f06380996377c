--------------------------- MODULE CloudhookLife ---------------------------
(***************************************************************************)
(* The URL under which webhooks come in (webhook.py), when Home Assistant  *)
(* Cloud makes one - a cloudhook - for the webhook id that the config      *)
(* entries share, and deletes it with the last of them (__init__.py).      *)
(*                                                                         *)
(* WebhookGroup has how entries come to share an id, and how they are told *)
(* and confirmed; here they do so from the start, and what matters is      *)
(* whether the URL that each has, that the user was told and that TTLock   *)
(* calls is still one that somebody answers.                               *)
(***************************************************************************)
EXTENDS Naturals, FiniteSets

CONSTANTS
    Entries,     \* config entries
    None,        \* no entry
    MaxIds,      \* bound: webhook ids, in the order in which they are made
    MaxHooks,    \* bound: cloudhooks, likewise
    MaxFailures, \* bound: calls to Home Assistant Cloud that fail
    MaxRestarts  \* bound: restarts of Home Assistant

ASSUME NoneAssumption == None \notin Entries
ASSUME BoundAssumption == {MaxIds, MaxHooks, MaxFailures, MaxRestarts} \subseteq Nat

VARIABLES
    life,       \* what has become of each config entry
    entry,      \* entry.data
    group,      \* the _WebhookGroup, with the entry whose handler is registered
    subscribed, \* external: cloud.async_active_subscription
    hooks,      \* external: the cloudhook of each webhook id, zero if it has none
    deleting,   \* ids whose cloudhook async_remove_entry is having deleted
    told,       \* external: the URL in the open repair issue
    portal,     \* external: the URL that the user has TTLock call
    idsMade, hooksMade, failures, restarts, \* what is used of the bounds
    raced,      \* history: has a cloudhook been asked for while it was being
                \* created or deleted
    emptied     \* history: has a cloudhook been deleted while its group lived on

made == <<idsMade, hooksMade>>
cloudVars == <<subscribed, hooks, deleting>>
userVars == <<told, portal>>
boundVars == <<failures, restarts>>
historyVars == <<raced, emptied>>
vars == <<life, entry, group, cloudVars, userVars, made, boundVars, historyVars>>

-----------------------------------------------------------------------------
(* Values *)

Ids == 1..MaxIds
NoId == 0
NoHook == 0

\* A URL of Home Assistant itself, with NoHook, or of a cloudhook.
Url == [id : Ids, hook : 0..MaxHooks]
NoUrl == [id |-> NoId, hook |-> NoHook]

Entry == [id : Ids \cup {NoId}, url : Url \cup {NoUrl}, status : BOOLEAN]
NewEntry == [id |-> NoId, url |-> NoUrl, status |-> FALSE]

Group == [id : Ids, by : Entries \cup {None}, confirmed : BOOLEAN, issueRaised : BOOLEAN]
NoGroup == [id |-> NoId, by |-> None, confirmed |-> FALSE, issueRaised |-> FALSE]

\* "creating" is register_webhook waiting for a cloudhook.
Life == {"new", "unloaded", "creating", "loaded", "removed"}
Known == {e \in Entries : life[e] \notin {"new", "removed"}}

\* Whoever calls this URL gets through to Home Assistant's handler.
Answers(url) == url # NoUrl /\ (url.hook = NoHook \/ hooks[url.id] = url.hook)
Reaches(url) == Answers(url) /\ group.id = url.id /\ group.by # None

Init ==
    /\ life = [e \in Entries |-> "new"]
    /\ entry = [e \in Entries |-> NewEntry]
    /\ group = NoGroup
    /\ subscribed \in BOOLEAN
    /\ hooks = [i \in Ids |-> NoHook]
    /\ deleting = {}
    /\ told = NoUrl /\ portal = NoUrl
    /\ idsMade = 0 /\ hooksMade = 0
    /\ failures = 0 /\ restarts = 0
    /\ raced = FALSE /\ emptied = FALSE

-----------------------------------------------------------------------------
(* register_webhook *)

\* _sync_entry_to_group; no member has had another id.
Adopt(d, g) == [d EXCEPT !.id = g.id, !.status = @ \/ g.confirmed]

\* Mutant: whoever has a URL has been told.
RaisesUnlessStored(d, g) == ~d.status /\ ~g.issueRaised /\ d.url = NoUrl

\* The repair issue is raised for an entry with data d.
Raises(d, g) == ~d.status /\ ~g.issueRaised

\* The rest of register_webhook, once entry e has a URL; es are the data of the
\* entries, g is the group.
Finish(e, es, g, url) ==
    /\ life' = [life EXCEPT ![e] = "loaded"]
    /\ entry' = [es EXCEPT ![e].url = url]
    /\ group' = [g EXCEPT !.issueRaised = @ \/ Raises(es[e], g),
                          !.by = IF @ = None THEN e ELSE @]
    /\ told' = IF Raises(es[e], g) THEN url ELSE told

\* get_url when nothing has to be waited for: the URL is stored, there is no
\* subscription, or the cloudhook is there already.
UrlAtHand(d) == d.url # NoUrl \/ ~subscribed \/ hooks[d.id] # NoHook
GetUrl(d) == IF d.url # NoUrl THEN d.url
             ELSE [id |-> d.id, hook |-> IF subscribed THEN hooks[d.id] ELSE NoHook]

\* Entry e joins group g and gets its URL, or waits for it.
JoinGroup(e, es, g) ==
    /\ raced' = (raced \/ (es[e].url = NoUrl /\ subscribed /\
                     (g.id \in deleting \/ \E f \in Entries : life[f] = "creating")))
    /\ \/ /\ UrlAtHand(es[e])
          /\ Finish(e, es, g, GetUrl(es[e]))
       \/ /\ ~UrlAtHand(es[e])
          /\ life' = [life EXCEPT ![e] = "creating"]
          /\ entry' = es
          /\ group' = g
          /\ UNCHANGED told

\* _resolve_group_webhook_id, with an id that there is - at most one - or a new one.
Existing == {entry[e].id : e \in Known} \ {NoId}
Resolve(e, id) ==
    LET g == [NoGroup EXCEPT !.id = id,
                !.confirmed = \E f \in Known : entry[f].id = id /\ entry[f].status]
    IN  JoinGroup(e, [f \in Entries |-> IF f \in Known THEN Adopt(entry[f], g) ELSE entry[f]], g)

Setup(e) ==
    /\ life[e] = "unloaded"
    /\ \/ /\ group # NoGroup
          /\ JoinGroup(e, [entry EXCEPT ![e] = Adopt(@, group)], group)
          /\ UNCHANGED idsMade
       \/ /\ group = NoGroup
          /\ \E id \in Existing : Resolve(e, id)
          /\ UNCHANGED idsMade
       \/ /\ group = NoGroup /\ Existing = {}
          /\ idsMade < MaxIds /\ idsMade' = idsMade + 1
          /\ Resolve(e, idsMade + 1)
    /\ UNCHANGED <<cloudVars, portal, hooksMade, boundVars, emptied>>

\* async_get_or_create_cloudhook returns a new one.
HookCreated(e) ==
    /\ life[e] = "creating"
    /\ hooksMade < MaxHooks /\ hooksMade' = hooksMade + 1
    /\ hooks' = [hooks EXCEPT ![entry[e].id] = hooksMade + 1]
    /\ Finish(e, entry, group, [id |-> entry[e].id, hook |-> hooksMade + 1])
    /\ UNCHANGED <<subscribed, deleting, portal, idsMade, boundVars, historyVars>>

Failure == failures < MaxFailures /\ failures' = failures + 1

\* CloudNotAvailable: Home Assistant's own URL has to do.
HookNotCreated(e) ==
    /\ life[e] = "creating"
    /\ Failure
    /\ Finish(e, entry, group, [id |-> entry[e].id, hook |-> NoHook])
    /\ UNCHANGED <<cloudVars, portal, made, restarts, historyVars>>

-----------------------------------------------------------------------------
(* The life of entries *)

Add(e) ==
    /\ life[e] = "new"
    /\ life' = [life EXCEPT ![e] = "unloaded"]
    /\ UNCHANGED <<entry, group, cloudVars, userVars, made, boundVars, historyVars>>

Unload(e) ==
    /\ life[e] = "loaded"
    /\ life' = [life EXCEPT ![e] = "unloaded"]
    /\ UNCHANGED <<entry, group, cloudVars, userVars, made, boundVars, historyVars>>

\* Mutant: an entry that is not loaded does not count.
SharedByLoaded(e) == \E f \in Known \ {e} : life[f] = "loaded" /\ entry[f].id = entry[e].id

\* Mutant: any other entry counts.
SharedByAny(e) == Known \ {e} # {}

StillShared(e) == \E f \in Known \ {e} : entry[f].id = entry[e].id

\* The entry's cloudhook goes with it, unless a sibling has the same id.
Deletes(e) == entry[e].id # NoId /\ ~StillShared(e) /\ subscribed

\* async_remove_entry.  The group stays as it is.
Remove(e) ==
    /\ life[e] = "unloaded"
    /\ life' = [life EXCEPT ![e] = "removed"]
    /\ deleting' = deleting \cup {entry[f].id : f \in {f \in {e} : Deletes(f)}}
    /\ emptied' = (emptied \/ (Deletes(e) /\ group # NoGroup))
    /\ raced' = (raced \/ (Deletes(e) /\ \E f \in Entries : life[f] = "creating"))
    /\ UNCHANGED <<entry, group, subscribed, hooks, userVars, made, boundVars>>

HookDeleted(id) ==
    /\ id \in deleting
    /\ deleting' = deleting \ {id}
    /\ hooks' = [hooks EXCEPT ![id] = NoHook]
    /\ UNCHANGED <<life, entry, group, subscribed, userVars, made, boundVars, historyVars>>

\* CloudNotAvailable, which is suppressed.
HookNotDeleted(id) ==
    /\ id \in deleting
    /\ Failure
    /\ deleting' = deleting \ {id}
    /\ UNCHANGED <<life, entry, group, subscribed, hooks, userVars, made, restarts,
                   historyVars>>

-----------------------------------------------------------------------------
(* The user, TTLock and Home Assistant *)

UserRegisters ==
    /\ told # NoUrl /\ portal # told
    /\ portal' = told
    /\ UNCHANGED <<life, entry, group, cloudVars, told, made, boundVars, historyVars>>

\* async_resolve_setup_issue
ResolveSetupIssue(e) ==
    /\ entry' = [f \in Entries |->
                   IF f \in Known /\ entry[f].id = entry[e].id
                   THEN [entry[f] EXCEPT !.status = TRUE] ELSE entry[f]]
    /\ group' = [group EXCEPT !.confirmed = TRUE]
    /\ told' = NoUrl

\* TTLock calls the URL, and the entry that registered handles it.
HandleWebhook ==
    /\ Reaches(portal)
    /\ ~entry[group.by].status
    /\ ResolveSetupIssue(group.by)
    /\ UNCHANGED <<life, cloudVars, portal, made, boundVars, historyVars>>

\* A stop or a crash, maybe in the middle of a creation or a deletion, which fails.
Restart ==
    /\ restarts < MaxRestarts /\ restarts' = restarts + 1
    /\ life' = [e \in Entries |-> IF e \in Known THEN "unloaded" ELSE life[e]]
    /\ group' = NoGroup
    /\ \/ deleting = {} /\ UNCHANGED failures
       \/ deleting # {} /\ Failure
    /\ deleting' = {}
    /\ told' = NoUrl
    /\ UNCHANGED <<entry, subscribed, hooks, portal, made, historyVars>>

Next ==
    \/ \E e \in Entries : Add(e) \/ Setup(e) \/ HookCreated(e) \/ HookNotCreated(e)
    \/ \E e \in Entries : Unload(e) \/ Remove(e)
    \/ \E id \in Ids : HookDeleted(id) \/ HookNotDeleted(id)
    \/ UserRegisters \/ HandleWebhook \/ Restart

Spec == Init /\ [][Next]_vars

-----------------------------------------------------------------------------
(* Correctness *)

TypeOK ==
    /\ life \in [Entries -> Life]
    /\ entry \in [Entries -> Entry]
    /\ group \in Group \cup {NoGroup}
    /\ subscribed \in BOOLEAN
    /\ hooks \in [Ids -> 0..hooksMade]
    /\ deleting \subseteq Ids
    /\ {told, portal} \subseteq Url \cup {NoUrl}
    /\ idsMade \in 0..MaxIds /\ hooksMade \in 0..MaxHooks
    /\ failures \in Nat /\ restarts \in Nat
    /\ raced \in BOOLEAN /\ emptied \in BOOLEAN

\* No entry, loaded or not, keeps the URL of a cloudhook that was deleted with
\* another entry or replaced - unless one was asked for while it was being
\* created or deleted.
SerialUrlAnswers ==
    ~raced => \A e \in Known : entry[e].url # NoUrl => Answers(entry[e].url)

\* Each entry that is set up either gets its webhooks, or the user has an open
\* issue with a URL that answers - over set-ups, removals and restarts, unless
\* the cloudhook was deleted under a group that lives on.
SerialUserKnowsUrl ==
    ~raced /\ ~emptied =>
        \A e \in Entries : life[e] = "loaded" => Reaches(portal) \/ Reaches(told)

\* A cloudhook goes with the last entry of its id, unless Home Assistant Cloud
\* fails, or a restart comes in between.
HookIsUsed ==
    failures = 0 =>
        \A id \in Ids : hooks[id] # NoHook =>
            id \in deleting \/ \E e \in Known : entry[e].id = id

=============================================================================
