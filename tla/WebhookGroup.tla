---------------------------- MODULE WebhookGroup ----------------------------
(***************************************************************************)
(* The webhook that all config entries of one developer application (one   *)
(* client_id) share (webhook.py), over the life of those entries: set up,  *)
(* unloaded, removed, added (__init__.py), and of Home Assistant.          *)
(*                                                                         *)
(* Entry data is persisted.  The group, the registered handlers and the    *)
(* repair issues live as long as the Home Assistant process.               *)
(***************************************************************************)
EXTENDS Naturals, FiniteSets

CONSTANTS
    Entries,     \* numbered in the order of hass.config_entries.async_entries
    Ids,         \* webhook ids
    None,        \* no webhook id, no entry
    MaxRestarts, \* bound: restarts of Home Assistant
    MaxSetups    \* bound: registrations of one entry in one run of Home Assistant

ASSUME EntryAssumption == Entries \subseteq Nat /\ IsFiniteSet(Entries)
ASSUME NoneAssumption == None \notin Ids \cup Entries
ASSUME BoundAssumption == {MaxRestarts, MaxSetups} \subseteq Nat

VARIABLES
    core,      \* hass.state
    life,      \* what has become of each config entry
    entry,     \* entry.data
    task,      \* the await at which an entry's register_webhook is suspended
    stops,     \* each entry's unregister_webhook listeners for HOMEASSISTANT_STOP
    lock,      \* who holds _GROUPS_LOCK across an await
    group,     \* hass.data[DOMAIN][_GROUPS_KEY][client_id]
    hooks,     \* external: the handler registered for each webhook id, by its entry
    issues,    \* external: the open repair issues
    restarts,  \* what is used of the bound
    heard,     \* history: the ids on which webhooks have ever arrived
    handled,   \* history: has a webhook been handled since Home Assistant started
    orphaned   \* history: did an entry join the group and fail to listen

memoryVars == <<task, stops, lock, group, hooks, issues>>
historyVars == <<heard, handled, orphaned>>
vars == <<core, life, entry, memoryVars, restarts, historyVars>>

-----------------------------------------------------------------------------
(* Values *)

\* `url` is the id CONF_WEBHOOK_URL was generated for, `status` whether
\* CONF_WEBHOOK_STATUS is set: this entry's webhook is known to be live.
Entry == [id : Ids \cup {None}, url : Ids \cup {None}, status : BOOLEAN]
NewEntry == [id |-> None, url |-> None, status |-> FALSE]

Group == [id : Ids, refcount : Nat, registered : BOOLEAN, confirmed : BOOLEAN,
          issueRaised : BOOLEAN]
NoGroup == [id |-> None, refcount |-> 0, registered |-> FALSE,
            confirmed |-> FALSE, issueRaised |-> FALSE]

\* "new" entries have not been added yet; "setup" is async_setup_entry waiting
\* for register_webhook.
Life == {"new", "unloaded", "setup", "loaded", "removed"}
Known == {e \in Entries : life[e] \notin {"new", "removed"}}

\* "started" waits for HOMEASSISTANT_STARTED; "registered" is a
\* register_webhook that came to its end.
Stage == {"none", "started", "join", "resolve", "url", "register", "registered"}
Idle(e) == task[e] \in {"none", "registered"}

Issue == {"setup", "ambiguous", "no_url"}

-----------------------------------------------------------------------------
(* Home Assistant starts with whatever entries there are - those from      *)
(* before webhooks were shared each with an id of their own.               *)

Init ==
    /\ core = "starting"
    /\ life \in [Entries -> {"new", "unloaded"}]
    /\ \A e, f \in Entries : e < f /\ life[e] = "new" => life[f] = "new"
    /\ entry \in [Entries -> Entry]
    /\ \A e \in Entries : /\ entry[e].url \in {None, entry[e].id}
                          /\ entry[e].id = None => ~entry[e].status
                          /\ life[e] = "new" => entry[e] = NewEntry
    /\ task = [e \in Entries |-> "none"]
    /\ stops = [e \in Entries |-> 0]
    /\ lock = None
    /\ group = NoGroup
    /\ hooks = [i \in Ids |-> None]
    /\ issues = {}
    /\ restarts = 0
    /\ heard = {entry[e].id : e \in {f \in Entries : entry[f].status}}
    /\ handled = FALSE
    /\ orphaned = FALSE

-----------------------------------------------------------------------------
(* Config entries *)

Add(e) ==
    /\ core # "stopping"
    /\ life[e] = "new" /\ \A f \in Entries : f < e => life[f] # "new"
    /\ life' = [life EXCEPT ![e] = "unloaded"]
    /\ UNCHANGED <<core, entry, memoryVars, restarts, historyVars>>

\* WebhookHandler.setup: at once when Home Assistant runs, else once it has
\* started - and then nobody waits for it.
Setup(e) ==
    /\ life[e] = "unloaded" /\ Idle(e) /\ stops[e] < MaxSetups
    /\ \/ /\ core = "running"
          /\ life' = [life EXCEPT ![e] = "setup"]
          /\ task' = [task EXCEPT ![e] = "join"]
       \/ /\ core = "starting"
          /\ life' = [life EXCEPT ![e] = "loaded"]
          /\ task' = [task EXCEPT ![e] = "started"]
    /\ UNCHANGED <<core, entry, stops, lock, group, hooks, issues, restarts,
                   historyVars>>

\* async_unload_entry does nothing about the webhook, nor about a listener
\* for HOMEASSISTANT_STARTED.
Unload(e) ==
    /\ life[e] = "loaded" /\ core # "stopping"
    /\ life' = [life EXCEPT ![e] = "unloaded"]
    /\ UNCHANGED <<core, entry, memoryVars, restarts, historyVars>>

\* async_remove_entry deletes the cloudhook, which CloudhookLife has.
Remove(e) ==
    /\ life[e] = "unloaded" /\ core # "stopping"
    /\ life' = [life EXCEPT ![e] = "removed"]
    /\ UNCHANGED <<core, entry, memoryVars, restarts, historyVars>>

-----------------------------------------------------------------------------
(* register_webhook *)

\* Mutant: a URL made for another id is kept.
AdoptKeepingUrl(d, id, confirmed) ==
    [id |-> id, url |-> d.url, status |-> d.status \/ confirmed]

\* Mutant: the id is left as it is.
AdoptStatusOnly(d, id, confirmed) == [d EXCEPT !.status = @ \/ confirmed]

\* Mutant: the status is left as it is.
AdoptIdOnly(d, id, confirmed) ==
    [id |-> id, url |-> IF d.id = id THEN d.url ELSE None, status |-> d.status]

\* Entry data d once it has adopted the group's id: a URL made for another id
\* is dropped, the status is never taken back.
Adopt(d, id, confirmed) ==
    [id |-> id, url |-> IF d.id = id THEN d.url ELSE None,
     status |-> d.status \/ confirmed]

\* Mutant: an entry that is set up again does not listen again.
ListenOnce(e) == stops' = [stops EXCEPT ![e] = 1]

Listen(e) == stops' = [stops EXCEPT ![e] = @ + 1]

\* Join the group, adopt it, listen for HOMEASSISTANT_STOP, and go on to
\* get_url.  `data` are the entries as the resolution left them.  Updating the
\* data of an entry that has been removed raises.
JoinGroup(e, g, data) ==
    LET adopted == Adopt(data[e], g.id, g.confirmed)
        raises == life[e] = "removed" /\ adopted # data[e]
    IN /\ group' = [g EXCEPT !.refcount = @ + 1]
       /\ \/ /\ ~raises
             /\ entry' = [data EXCEPT ![e] = adopted]
             /\ Listen(e)
             /\ task' = [task EXCEPT ![e] = "url"]
          \/ /\ raises
             /\ entry' = data
             /\ task' = [task EXCEPT ![e] = "none"]
             /\ UNCHANGED stops
       /\ orphaned' = (orphaned \/ raises)

\* Take _GROUPS_LOCK; the first member goes on to _group_members, whose
\* awaits keep the lock.
Join(e) ==
    /\ task[e] = "join" /\ core = "running"
    /\ lock = None
    /\ \/ /\ group # NoGroup
          /\ JoinGroup(e, group, entry)
          /\ UNCHANGED lock
       \/ /\ group = NoGroup
          /\ lock' = e
          /\ task' = [task EXCEPT ![e] = "resolve"]
          /\ UNCHANGED <<entry, stops, group, orphaned>>
    /\ UNCHANGED <<core, life, hooks, issues, restarts, heard, handled>>

Existing == {entry[m].id : m \in Known} \ {None}
ConfirmedIds == {entry[m].id : m \in {k \in Known : entry[k].status}} \ {None}
Ambiguous == Cardinality(Existing) > 1 /\ Cardinality(ConfirmedIds) # 1

\* The ids the group may get: a new one if there is none, else the only one,
\* the only confirmed one, or that of the first entry that has one.
CanonicalIds ==
    IF Existing = {}
    THEN {i \in Ids \ heard : \A e \in Entries : entry[e].id # i}
    ELSE IF Cardinality(Existing) = 1 THEN Existing
    ELSE IF Cardinality(ConfirmedIds) = 1 THEN ConfirmedIds
    ELSE {entry[m].id : m \in {k \in Known :
            entry[k].id # None /\ \A j \in Known : j < k => entry[j].id = None}}

\* _resolve_group_webhook_id, after its awaits, and the rest of the section.
Resolve(e) ==
    /\ task[e] = "resolve" /\ core = "running"
    /\ lock' = None
    /\ \E id \in CanonicalIds :
         LET confirmed == ~Ambiguous /\ id \in ConfirmedIds
             data == [m \in Entries |-> IF m \in Known
                                        THEN Adopt(entry[m], id, confirmed)
                                        ELSE entry[m]]
         IN JoinGroup(e, [NoGroup EXCEPT !.id = id, !.confirmed = confirmed], data)
    /\ issues' = issues \cup (IF Ambiguous THEN {"ambiguous"} ELSE {})
    /\ UNCHANGED <<core, life, hooks, restarts, heard, handled>>

\* The end of register_webhook, for async_setup_entry too if it waits.
EndRegistration(e, stage) ==
    /\ task' = [task EXCEPT ![e] = stage]
    /\ life' = [life EXCEPT ![e] = IF @ = "setup" THEN "loaded" ELSE @]

\* get_url returns - the stored URL, a cloudhook, or one generated - or there
\* is no URL, or the entry has been removed and cannot be updated.
GetUrl(e) ==
    /\ task[e] = "url" /\ core = "running"
    /\ \/ /\ e \in Known
          /\ entry' = [entry EXCEPT ![e].url = IF @ = None THEN entry[e].id ELSE @]
          /\ LET raise == ~entry[e].status /\ ~group.issueRaised
             IN /\ issues' = (issues \ {"no_url"}) \cup
                               (IF raise THEN {"setup"} ELSE {})
                /\ group' = [group EXCEPT !.issueRaised = @ \/ raise]
          /\ task' = [task EXCEPT ![e] = "register"]
          /\ UNCHANGED life
       \/ /\ entry[e].url = None
          /\ issues' = issues \cup {"no_url"}
          /\ EndRegistration(e, "none")
          /\ UNCHANGED <<entry, group>>
       \/ /\ e \notin Known
          /\ EndRegistration(e, "none")
          /\ UNCHANGED <<entry, group, issues>>
    /\ UNCHANGED <<core, stops, lock, hooks, restarts, historyVars>>

\* Register the handler, unless another member already did.
Register(e) ==
    /\ task[e] = "register" /\ core = "running"
    /\ lock = None
    /\ hooks' = IF group.registered THEN hooks
                ELSE [hooks EXCEPT ![group.id] = e]
    /\ group' = [group EXCEPT !.registered = TRUE]
    /\ EndRegistration(e, "registered")
    /\ UNCHANGED <<core, entry, stops, lock, issues, restarts, historyVars>>

-----------------------------------------------------------------------------
(* Webhooks *)

\* Mutant: only the entry itself is marked as confirmed, not its siblings.
ResolveSetupIssueAlone(e) ==
    /\ entry' = [m \in Entries |->
                   IF m \in Known /\ m = e
                   THEN [entry[m] EXCEPT !.status = TRUE] ELSE entry[m]]
    /\ group' = IF group = NoGroup THEN group
                ELSE [group EXCEPT !.confirmed = TRUE]
    /\ issues' = issues \ {"setup"}

\* async_resolve_setup_issue
ResolveSetupIssue(e) ==
    /\ entry' = [m \in Entries |->
                   IF m \in Known /\ entry[m].id = entry[e].id
                   THEN [entry[m] EXCEPT !.status = TRUE] ELSE entry[m]]
    /\ group' = IF group = NoGroup THEN group
                ELSE [group EXCEPT !.confirmed = TRUE]
    /\ issues' = issues \ {"setup"}

\* handle_webhook of the entry that registered, with at least one record.
HandleWebhook(id) ==
    /\ hooks[id] # None
    /\ heard' = heard \cup {id}
    /\ handled' = TRUE
    /\ IF entry[hooks[id]].status THEN UNCHANGED <<entry, group, issues>>
                                  ELSE ResolveSetupIssue(hooks[id])
    /\ UNCHANGED <<core, life, task, stops, lock, hooks, restarts, orphaned>>

-----------------------------------------------------------------------------
(* Home Assistant *)

Started ==
    /\ core = "starting"
    /\ core' = "running"
    /\ task' = [e \in Entries |-> IF task[e] = "started" THEN "join" ELSE task[e]]
    /\ UNCHANGED <<life, entry, stops, lock, group, hooks, issues, restarts,
                   historyVars>>

Stop ==
    /\ core = "running"
    /\ core' = "stopping"
    /\ UNCHANGED <<life, entry, memoryVars, restarts, historyVars>>

\* unregister_webhook, one listener after another
Unregister(e) ==
    /\ core = "stopping" /\ stops[e] > 0
    /\ lock = None
    /\ stops' = [stops EXCEPT ![e] = @ - 1]
    /\ LET last == group.refcount <= 1
       IN /\ group' = IF last THEN NoGroup ELSE [group EXCEPT !.refcount = @ - 1]
          /\ hooks' = IF last THEN [hooks EXCEPT ![entry[e].id] = None] ELSE hooks
    /\ UNCHANGED <<core, life, entry, task, lock, issues, restarts, historyVars>>

\* The next process, after a stop or a crash.
Restart ==
    /\ restarts < MaxRestarts /\ restarts' = restarts + 1
    /\ core' = "starting"
    /\ life' = [e \in Entries |-> IF e \in Known THEN "unloaded" ELSE life[e]]
    /\ entry' = [e \in Entries |-> IF e \in Known THEN entry[e] ELSE NewEntry]
    /\ task' = [e \in Entries |-> "none"]
    /\ stops' = [e \in Entries |-> 0]
    /\ lock' = None
    /\ group' = NoGroup
    /\ hooks' = [i \in Ids |-> None]
    /\ issues' = {}
    /\ handled' = FALSE
    /\ orphaned' = FALSE
    /\ UNCHANGED heard

Next ==
    \/ \E e \in Entries : Add(e) \/ Setup(e) \/ Unload(e) \/ Remove(e)
    \/ \E e \in Entries : Join(e) \/ Resolve(e) \/ GetUrl(e) \/ Register(e)
    \/ \E id \in Ids : HandleWebhook(id)
    \/ Started \/ Stop \/ Restart
    \/ \E e \in Entries : Unregister(e)

Spec == Init /\ [][Next]_vars

-----------------------------------------------------------------------------
(* Correctness *)

TypeOK ==
    /\ core \in {"starting", "running", "stopping"}
    /\ life \in [Entries -> Life]
    /\ entry \in [Entries -> Entry]
    /\ task \in [Entries -> Stage]
    /\ stops \in [Entries -> Nat]
    /\ lock \in Entries \cup {None}
    /\ group \in Group \cup {NoGroup}
    /\ hooks \in [Ids -> Entries \cup {None}]
    /\ issues \subseteq Issue
    /\ restarts \in Nat
    /\ heard \subseteq Ids
    /\ handled \in BOOLEAN /\ orphaned \in BOOLEAN

Member(e) == e \in Known /\ task[e] \in {"url", "register", "registered"}

\* One application, one webhook (ADR 0002): whatever ids the entries had, all
\* members carry the group's, and it is the only one with a handler.
OneWebhook ==
    core = "running" =>
      /\ \A e \in Entries : Member(e) => group # NoGroup /\ entry[e].id = group.id
      /\ \A i \in Ids : hooks[i] # None => i = group.id

\* No entry keeps, and shows to the user, a URL that was made for another id.
UrlFitsId == \A e \in Entries : entry[e].url \in {None, entry[e].id}

\* A member whose registration came to its end, and whose webhook is not known
\* to be live, has the open issue that tells the user to register the URL.
UnconfirmedIsTold ==
    \A e \in Entries :
      e \in Known /\ task[e] = "registered" /\ ~entry[e].status => "setup" \in issues

\* That issue is gone once webhooks arrive - unless consolidation was
\* ambiguous: then the handler may be bound to an entry with a status from its
\* former id, which never resolves the issue of its siblings.
TrafficSettlesIssue ==
    "setup" \in issues /\ "ambiguous" \notin issues => ~handled

\* When Home Assistant has stopped, no handler is left, however often entries
\* were set up and unloaded, with or without a URL - unless an entry that had
\* been removed joined the group and failed before it listened.
StopUnregisters ==
    core = "stopping" /\ (\A e \in Entries : Idle(e) /\ stops[e] = 0) /\ ~orphaned
      => \A i \in Ids : hooks[i] = None

=============================================================================
