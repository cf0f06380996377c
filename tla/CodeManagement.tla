--------------------------- MODULE CodeManagement ---------------------------
(***************************************************************************)
(* The management of PIN codes, eKeys and settings: the services           *)
(* (services.py), each of which makes a call to the cloud (api.py) for one *)
(* or more locks and then brings what their coordinators show up to date,  *)
(* and the panel of the options flow (config_flow.py), which does the same *)
(* for the lock that was picked when it was opened.                        *)
(***************************************************************************)
EXTENDS Naturals, Sequences, FiniteSets

CONSTANTS
    Locks,
    Pins, Keys,  \* ids of PIN codes and of eKeys
    Calls,       \* service calls in progress: their slots
    Panels,      \* open options panels: their slots
    None,        \* nobody, nothing
    Selections,  \* which locks, in order, services are called for; a lock is
                 \* there once for each of its entities that was picked
    Clouds,      \* what TTLock has at the start: some of Cloud, see below
    MaxRequests, \* bound: service calls and requests of a panel
    MaxTroubles  \* bound: calls that are refused, get lost or fail, and reloads
                 \* of the entry

Tasks == Calls \cup Panels

ASSUME TaskAssumption == Calls \cap Panels = {} /\ None \notin Tasks
ASSUME IdAssumption == None \notin Pins \cup Keys \cup Locks
ASSUME SelectionAssumption == Selections \subseteq Seq(Locks) \ {<<>>}
ASSUME BoundAssumption == {MaxRequests, MaxTroubles} \subseteq Nat

VARIABLES
    cloud,       \* external: codes, keys and settings as TTLock has them
    data,        \* coordinator.data of each lock, by generation of coordinators
    generation,  \* the coordinators that hass.data has and entities show
    task,        \* the calls and panels in progress
    gw,          \* who is inside `async with GW_LOCK`
    requests, troubles, \* what is used of the bounds
    disturbed    \* history: have two tasks, or one and a reload, been at work at
                 \* once, has a call failed, an eKey been changed through another
                 \* lock than its own, or a panel used after a reload

bounds == <<requests, troubles>>
vars == <<cloud, data, generation, task, gw, bounds, disturbed>>

-----------------------------------------------------------------------------
(* Values *)

\* A PIN code lasts, or its period has passed (Passcode.expired).
Period == {"lasting", "passed"}
\* EkeyStatus, but for keys that are pending or being changed.
KeyStatus == {"normal", "frozen"}
\* Stands for seconds of auto-lock, the passage mode, the sound.
Setting == {"on", "off"}

\* Which lock a code or a key is of, and its period or status.
Cloud == [pins : [Pins -> {None} \cup [lock : Locks, is : Period]],
          keys : [Keys -> {None} \cup [lock : Locks, is : KeyStatus]],
          setting : [Locks -> Setting]]

ASSUME CloudAssumption == Clouds \subseteq Cloud

Of(l, is) == [lock |-> l, is |-> is]
Listed(items, l) ==
    [i \in DOMAIN items |-> IF items[i] # None /\ items[i].lock = l THEN items[i].is
                            ELSE "none"]
PinsOf(l) == Listed(cloud.pins, l)
KeysOf(l) == Listed(cloud.keys, l)

\* LockState: `fetched` is FALSE while passcodes and ekeys are None.
Data == [fetched : BOOLEAN, pins : [Pins -> Period \cup {"none"}],
         keys : [Keys -> KeyStatus \cup {"none"}], setting : Setting]

ASSUME DataAssumption == None \notin Data

\* What a lock's coordinator has after a poll with all its parts.
Filled(l) == [fetched |-> TRUE, pins |-> PinsOf(l), keys |-> KeysOf(l),
              setting |-> cloud.setting[l]]
Unfilled(l) == [fetched |-> FALSE, pins |-> [p \in Pins |-> "none"],
                keys |-> [k \in Keys |-> "none"], setting |-> cloud.setting[l]]

-----------------------------------------------------------------------------
(* The requests to the cloud that change something (api.py), as what may   *)
(* become of the cloud; the empty set if it can only refuse.               *)

AddPin(l) == {[cloud EXCEPT !.pins[p] = Of(l, period)] :
                 p \in {q \in Pins : cloud.pins[q] = None}, period \in Period}
ModifyPin(l, p) == {[cloud EXCEPT !.pins[p] = Of(l, period)] :
                       period \in {x \in Period : PinsOf(l)[p] # "none"}}
DeletePin(l, p) == {[cloud EXCEPT !.pins[q] = None] :
                       q \in {q \in {p} : PinsOf(l)[q] # "none"}}

\* set_passage_mode, set_auto_lock and set_lock_sound.
Configure(l, value) == {[cloud EXCEPT !.setting[l] = value]}

\* Cards and fingerprints are shown nowhere.
Enrolled == {cloud}

SendKey(l) == {[cloud EXCEPT !.keys[k] = Of(l, "normal")] :
                  k \in {j \in Keys : cloud.keys[j] = None}}
HasKey(k) == cloud.keys[k] # None
KeyBecomes(k, status) == {[cloud EXCEPT !.keys[j].is = status] :
                             j \in {j \in {k} : HasKey(j)}}
DeleteKey(k) == {[cloud EXCEPT !.keys[j] = None] : j \in {j \in {k} : HasKey(j)}}
\* set_ekey_period and modify_ekey change what is not told apart here.
EditKey(k) == {c \in {cloud} : HasKey(k)}

Carried(call, l, id) ==
    CASE call = "add_pin"      -> AddPin(l)
      [] call = "modify_pin"   -> ModifyPin(l, id)
      [] call = "delete_pin"   -> DeletePin(l, id)
      [] call = "configure"    -> Configure(l, id)
      [] call \in {"enrolled", "read"} -> Enrolled
      [] call = "send_key"     -> SendKey(l)
      [] call = "delete_key"   -> DeleteKey(id)
      [] call = "freeze_key"   -> KeyBecomes(id, "frozen")
      [] call = "unfreeze_key" -> KeyBecomes(id, "normal")
      [] call = "edit_key"     -> EditKey(id)

\* Requests that a gateway relays to the lock take GW_LOCK.
Relayed == {"add_pin", "modify_pin", "delete_pin", "configure", "enrolled"}

-----------------------------------------------------------------------------
(* The handlers: which call they make, for each of the selected locks or   *)
(* for the first one, and what follows an answer - the lists are fetched   *)
(* again, the value is stored in the data, or nothing.                     *)

Handler == [call : {"add_pin", "modify_pin", "delete_pin", "cleanup", "configure",
                    "enrolled", "read", "send_key", "delete_key",
                    "freeze_key", "unfreeze_key", "edit_key"},
            scope : {"each", "first"},
            after : {"refetch", "store", "nothing"}]
Each(call, after) == [call |-> call, scope |-> "each", after |-> after]
First(call, after) == [call |-> call, scope |-> "first", after |-> after]
NoHandler == Each("read", "nothing")

CreatePasscode == Each("add_pin", "refetch")
ModifyPasscode == Each("modify_pin", "refetch")

\* Mutant: no re-fetch after a deletion.
DeletePasscodeOnly == Each("delete_pin", "nothing")

DeletePasscode == Each("delete_pin", "refetch")

\* One deletion after the other of the codes that have passed; the lists are
\* fetched again if there was one.
CleanupPasscodes == Each("cleanup", "refetch")

ConfigurePassageMode == Each("configure", "store")
\* Enabled with 0 seconds means 10: it is "on".
ConfigureAutolock == Each("configure", "store")
\* The switches of a lock: set_auto_lock and set_lock_sound.
TurnSwitch == Each("configure", "store")

RenameCard == Each("read", "nothing")
DeleteCard == Each("enrolled", "nothing")
RenameFingerprint == Each("read", "nothing")
DeleteFingerprint == Each("enrolled", "nothing")

ListPasscodes == Each("read", "nothing")
ListRecords == Each("read", "nothing")
ListCards == Each("read", "nothing")
ListFingerprints == Each("read", "nothing")
ListEkeys == Each("read", "nothing")

SendEkey == Each("send_key", "refetch")
DeleteEkey == First("delete_key", "refetch")
FreezeEkey == First("freeze_key", "refetch")
UnfreezeEkey == First("unfreeze_key", "refetch")
SetEkeyPeriod == First("edit_key", "refetch")
ModifyEkey == First("edit_key", "refetch")

\* Services.register, by what their schemas take.
PasscodeServices == {CreatePasscode, ModifyPasscode, DeletePasscode,
                     CleanupPasscodes, ListPasscodes, ListRecords}
SettingServices == {ConfigurePassageMode, ConfigureAutolock, TurnSwitch}
EnrolledServices == {ListCards, RenameCard, DeleteCard, ListFingerprints,
                     RenameFingerprint, DeleteFingerprint}
EkeyServices == {ListEkeys, SendEkey, DeleteEkey, FreezeEkey, UnfreezeEkey,
                 SetEkeyPeriod, ModifyEkey}
Services == PasscodeServices \cup SettingServices \cup EnrolledServices
                \cup EkeyServices

\* The ids and values a handler is called with.
Arguments(h) ==
    CASE h.call \in {"modify_pin", "delete_pin"} -> Pins
      [] h.call \in {"delete_key", "freeze_key", "unfreeze_key", "edit_key"} -> Keys
      [] h.call = "configure" -> Setting
      [] OTHER -> {None}

\* What the panel's menu offers for a lock whose data are d, with the choices
\* of each form.
AddPinForm == {<<CreatePasscode, None>>}
DeletePinForm(d) == {<<DeletePasscode, p>> : p \in {q \in Pins : d.pins[q] # "none"}}
SendEkeyForm == {<<SendEkey, None>>}
EkeyForm(d, h, statuses) == {<<h, k>> : k \in {j \in Keys : d.keys[j] \in statuses}}
Menu(d) ==
    AddPinForm \cup DeletePinForm(d) \cup SendEkeyForm
        \cup EkeyForm(d, DeleteEkey, KeyStatus)
        \cup EkeyForm(d, FreezeEkey, {"normal"})
        \cup EkeyForm(d, UnfreezeEkey, {"frozen"})

-----------------------------------------------------------------------------
(* Tasks *)

\* `locks` is what is left of the selection, its head at work; "menu" is a
\* panel that waits for the user, "form" one with a form that shows choices made
\* from the data as they were then; "call" waits to send, "sent" and "answered"
\* for the answer; "list" for the codes to clean up, "pins" and "keys" for the
\* lists that are fetched again.
Task == [stage : {"idle", "menu", "form", "list", "call", "sent", "answered", "pins", "keys"},
         handler : Handler, locks : Seq(Locks), of : Nat,
         id : Pins \cup Keys \cup Setting \cup {None},
         reply : {"none", "ok", "raised"},
         expired : SUBSET Pins, copy : {None} \cup Data]
Idle == [stage |-> "idle", handler |-> NoHandler, locks |-> <<>>, of |-> 0,
         id |-> None, reply |-> "none", expired |-> {}, copy |-> None]

Busy(t) == task[t].stage \notin {"idle", "menu", "form"}
Working == {t \in Tasks : Busy(t)}
Lock(t) == Head(task[t].locks)
DataOf(t) == data[task[t].of][Lock(t)]
Cleans(t) == task[t].handler = CleanupPasscodes

\* The request that a task makes next: a cleanup deletes.
Request(t) == IF Cleans(t) THEN "delete_pin" ELSE task[t].handler.call

Init ==
    /\ cloud \in Clouds
    /\ \E filled \in BOOLEAN :
          data = <<[l \in Locks |-> IF filled THEN Filled(l) ELSE Unfilled(l)]>>
    /\ generation = 1
    /\ task = [t \in Tasks |-> Idle]
    /\ gw = None
    /\ requests = 0 /\ troubles = 0
    /\ disturbed = FALSE

Trouble == troubles < MaxTroubles /\ troubles' = troubles + 1
Set(t, r) == task' = [task EXCEPT ![t] = r]

\* How a handler begins with a lock.
Begun(r) == [r EXCEPT !.stage = IF r.handler = CleanupPasscodes THEN "list" ELSE "call",
                      !.reply = "none"]

\* It is done with a lock: the next one, or the end; a panel shows its menu.
Proceed(t) == IF Len(task[t].locks) > 1
            THEN Begun([task[t] EXCEPT !.locks = Tail(@), !.expired = {}, !.copy = None])
            ELSE IF t \in Panels
            THEN [Idle EXCEPT !.stage = "menu", !.locks = task[t].locks,
                              !.of = task[t].of]
            ELSE Idle

\* A call that raises ends a service, whatever locks are left; a panel keeps
\* its form.
Dropped(t) == IF task[t].handler # NoHandler /\ t \in Panels
              THEN [task[t] EXCEPT !.stage = "form", !.reply = "none",
                                   !.expired = {}, !.copy = None]
              ELSE Idle

\* async_refresh_codes begins with a copy of the data.
Refetch(t) == [task[t] EXCEPT !.stage = "pins", !.copy = DataOf(t)]

-----------------------------------------------------------------------------
(* Requests of the user *)

\* _first_coordinator: an eKey is changed once, through the first of them.
FirstCoordinator(selection) == <<Head(selection)>>

Handled(h, selection) ==
    IF h.scope = "first" THEN FirstCoordinator(selection) ELSE selection

\* A request through lock l of coordinators `of` that these cannot show.
Strays(h, l, of, id) ==
    \/ of # generation
    \/ h.scope = "first" /\ HasKey(id) /\ cloud.keys[id].lock # l

StartRequest(t, r) ==
    /\ requests < MaxRequests /\ requests' = requests + 1
    /\ Set(t, Begun(r))
    /\ disturbed' = (disturbed \/ Working # {}
                                \/ Strays(r.handler, Head(r.locks), r.of, r.id))
    /\ UNCHANGED <<cloud, data, generation, gw, troubles>>

CallService(t) ==
    /\ t \in Calls /\ task[t] = Idle
    /\ \E h \in Services, selection \in Selections :
          \E id \in Arguments(h) :
              StartRequest(t, [Idle EXCEPT !.handler = h, !.of = generation,
                                           !.locks = Handled(h, selection),
                                           !.id = id])

\* The steps `codes` and `lock_menu`: what was never fetched is fetched now.
OpenPanel(t) ==
    /\ t \in Panels /\ task[t] = Idle
    /\ \E l \in Locks :
          LET d == data[generation][l]
              r == [Idle EXCEPT !.locks = <<l>>, !.of = generation]
          IN  /\ Set(t, IF d.fetched THEN [r EXCEPT !.stage = "menu"]
                        ELSE [r EXCEPT !.stage = "pins", !.copy = d])
              /\ disturbed' = (disturbed \/ (~d.fetched /\ Working # {}))
    /\ UNCHANGED <<cloud, data, generation, gw, bounds>>

ShowForm(t) ==
    /\ task[t].stage = "menu"
    /\ \E choice \in Menu(DataOf(t)) :
          Set(t, [task[t] EXCEPT !.stage = "form", !.handler = choice[1],
                                 !.id = choice[2]])
    /\ UNCHANGED <<cloud, data, generation, gw, bounds, disturbed>>

SubmitForm(t) ==
    /\ task[t].stage = "form"
    /\ StartRequest(t, task[t])

\* The step `finish`, or the user closes the window.
ClosePanel(t) ==
    /\ task[t].stage \in {"menu", "form"}
    /\ Set(t, Idle)
    /\ UNCHANGED <<cloud, data, generation, gw, bounds, disturbed>>

-----------------------------------------------------------------------------
(* A request to the cloud (api.py, get and post) *)

Send(t) ==
    /\ task[t].stage = "call"
    /\ IF Request(t) \in Relayed THEN gw = None /\ gw' = t ELSE UNCHANGED gw
    /\ Set(t, [task[t] EXCEPT !.stage = "sent"])
    /\ UNCHANGED <<cloud, data, generation, bounds, disturbed>>

\* The cloud does as it is asked; the answer may get lost.
CloudCarriesOut(t) ==
    /\ task[t].stage = "sent"
    /\ cloud' \in Carried(Request(t), Lock(t), task[t].id)
    /\ \/ /\ Set(t, [task[t] EXCEPT !.stage = "answered", !.reply = "ok"])
          /\ UNCHANGED troubles
       \/ /\ Trouble
          /\ Set(t, [task[t] EXCEPT !.stage = "answered", !.reply = "raised"])
    /\ UNCHANGED <<data, generation, gw, requests, disturbed>>

\* It refuses, or does not get the request: _parse_resp raises for every
\* errcode but 0, so no call returns False.
CloudRefuses(t) ==
    /\ task[t].stage = "sent"
    /\ IF Carried(Request(t), Lock(t), task[t].id) = {} THEN UNCHANGED troubles ELSE Trouble
    /\ Set(t, [task[t] EXCEPT !.stage = "answered", !.reply = "raised"])
    /\ UNCHANGED <<cloud, data, generation, gw, requests, disturbed>>

\* Mutant: an error leaves GW_LOCK locked.
LeaveIfAnswered(t) == gw' = IF gw = t /\ task[t].reply = "ok" THEN None ELSE gw

\* `async with GW_LOCK` is left, with an answer or an exception.
Leave(t) == gw' = IF gw = t THEN None ELSE gw

-----------------------------------------------------------------------------
(* A handler goes on *)

Answered(t) ==
    /\ task[t].stage = "answered" /\ task[t].reply = "ok"
    /\ Leave(t)

FetchAgain(t) ==
    /\ Answered(t)
    /\ task[t].handler.after = "refetch" /\ ~Cleans(t)
    /\ Set(t, Refetch(t))
    /\ UNCHANGED <<cloud, data, generation, bounds, disturbed>>

\* The value is stored in the data as they are by now.
StoreValue(t) ==
    /\ Answered(t)
    /\ task[t].handler.after = "store"
    /\ data' = [data EXCEPT ![task[t].of][Lock(t)].setting = task[t].id]
    /\ Set(t, Proceed(t))
    /\ UNCHANGED <<cloud, generation, bounds, disturbed>>

NothingMore(t) ==
    /\ Answered(t)
    /\ task[t].handler.after = "nothing"
    /\ Set(t, Proceed(t))
    /\ UNCHANGED <<cloud, data, generation, bounds, disturbed>>

\* Mutant: a cleanup does not look at the period.
ExpiredOrNot(l) == {p \in Pins : PinsOf(l)[p] # "none"}

Expired(l) == {p \in Pins : PinsOf(l)[p] = "passed"}

\* A cleanup has the list of codes: it deletes the first that has passed.
FindExpired(t) ==
    /\ task[t].stage = "list"
    /\ IF Expired(Lock(t)) = {} THEN Set(t, Proceed(t))
       ELSE \E p \in Expired(Lock(t)) :
               Set(t, [task[t] EXCEPT !.stage = "call", !.id = p,
                                      !.expired = Expired(Lock(t)) \ {p}])
    /\ UNCHANGED <<cloud, data, generation, gw, bounds, disturbed>>

\* One is deleted: the next one, or the lists are fetched again.
DeletedExpired(t) ==
    /\ Answered(t)
    /\ Cleans(t)
    /\ IF task[t].expired = {} THEN Set(t, Refetch(t))
       ELSE \E p \in task[t].expired :
               Set(t, [task[t] EXCEPT !.stage = "call", !.id = p, !.reply = "none",
                                      !.expired = @ \ {p}])
    /\ UNCHANGED <<cloud, data, generation, bounds, disturbed>>

Raises(t) ==
    /\ task[t].stage = "answered" /\ task[t].reply = "raised"
    /\ Leave(t)
    /\ Set(t, Dropped(t))
    /\ disturbed' = TRUE
    /\ UNCHANGED <<cloud, data, generation, bounds>>

\* async_refresh_codes, and the list of a cleanup.
PinsListed(t) ==
    /\ task[t].stage = "pins"
    /\ Set(t, [task[t] EXCEPT !.stage = "keys", !.copy.pins = PinsOf(Lock(t))])
    /\ UNCHANGED <<cloud, data, generation, gw, bounds, disturbed>>

KeysListed(t) ==
    /\ task[t].stage = "keys"
    /\ data' = [data EXCEPT ![task[t].of][Lock(t)] =
                   [task[t].copy EXCEPT !.keys = KeysOf(Lock(t)), !.fetched = TRUE]]
    /\ Set(t, Proceed(t))
    /\ UNCHANGED <<cloud, generation, gw, bounds, disturbed>>

ListFails(t) ==
    /\ task[t].stage \in {"list", "pins", "keys"}
    /\ Trouble
    /\ Set(t, Dropped(t))
    /\ disturbed' = TRUE
    /\ UNCHANGED <<cloud, data, generation, gw, requests>>

\* The entry is reloaded: coordinators of its locks are created and filled,
\* while tasks go on with those they had.
Reload ==
    /\ Trouble
    /\ data' = Append(data, [l \in Locks |-> Filled(l)])
    /\ generation' = generation + 1
    /\ disturbed' = (disturbed \/ Working # {})
    /\ UNCHANGED <<cloud, task, gw, requests>>

-----------------------------------------------------------------------------
(* Specification *)

Progress(t) ==
    \/ FetchAgain(t) \/ StoreValue(t) \/ NothingMore(t)
    \/ FindExpired(t) \/ DeletedExpired(t)
    \/ PinsListed(t) \/ KeysListed(t)
    \/ Raises(t) \/ ListFails(t)

CloudActs(t) == CloudCarriesOut(t) \/ CloudRefuses(t)

Next ==
    \/ \E t \in Tasks :
          \/ CallService(t) \/ OpenPanel(t)
          \/ ShowForm(t) \/ SubmitForm(t) \/ ClosePanel(t)
          \/ Send(t) \/ CloudActs(t) \/ Progress(t)
    \/ Reload

Spec == Init /\ [][Next]_vars

-----------------------------------------------------------------------------
(* Correctness *)

TypeOK ==
    /\ cloud \in Cloud
    /\ generation \in 1..(1 + troubles)
    /\ data \in [1..generation -> [Locks -> Data]]
    /\ task \in [Tasks -> Task]
    /\ \A t \in Tasks : task[t].stage # "idle" =>
          /\ task[t].locks # <<>> /\ task[t].of \in 1..generation
          /\ task[t].stage \in {"pins", "keys"} => task[t].copy # None
    /\ gw \in Tasks \cup {None}
    /\ bounds \in Nat \X Nat
    /\ disturbed \in BOOLEAN

\* Codes, keys and settings that were changed through Home Assistant are shown
\* when the call is over, for each of its locks and whatever the call - as
\* long as nothing overlapped, no call failed, eKeys were changed through
\* their own lock and no panel was left behind by a reload.
SerialChangeIsShown ==
    ~disturbed /\ Working = {} =>
        \A l \in Locks : data[generation][l] \in {Filled(l), Unfilled(l)}

\* A cleanup deletes no code that lasts, and is not done with a lock before
\* all that have passed are gone: as long as nothing overlaps it and no call
\* of it fails.
SerialCleanupIsExact ==
    [][\A t \in Tasks :
          Cleans(t) /\ ~disturbed' =>
              /\ \A p \in Pins :
                    cloud'.pins[p] # cloud.pins[p] => cloud.pins[p].is = "passed"
              /\ task'[t].locks # task[t].locks => Expired(Lock(t)) = {}]_vars

\* Whoever is inside GW_LOCK has a request at the cloud that a gateway relays,
\* and whoever has one is inside: no error leaves the gateway locked, and of two
\* requests for it one waits.
GatewayIsAtWork ==
    \A t \in Tasks :
        gw = t <=> /\ task[t].stage \in {"sent", "answered"}
                   /\ Request(t) \in Relayed

=============================================================================
