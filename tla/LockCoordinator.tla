--------------------------- MODULE LockCoordinator ---------------------------
(***************************************************************************)
(* One lock's LockUpdateCoordinator (coordinator.py): the LockState the    *)
(* entities read, and everything that writes it - polls, webhooks, lock    *)
(* and unlock commands, re-fetches of the codes, auto-lock timers - on one *)
(* event loop, where a task runs undisturbed from one await to the next.   *)
(*                                                                         *)
(* A task that suspends holds a deep copy of the data (`new`) and, when it *)
(* resumes for the last time, publishes the copy whole.  A stage of a task *)
(* is the await it is suspended at.                                        *)
(***************************************************************************)
EXTENDS Naturals, FiniteSets

CONSTANTS
    Polls,            \* slots for concurrent async_refresh calls
    Commands,         \* slots for concurrent lock() / unlock() calls
    Refreshes,        \* slots for concurrent async_refresh_codes calls
    Tracked,          \* the slow-tier parts this lock has or an instance follows
    HasSensor,        \* the lock's features include door_sensor
    Bluetooth,        \* a Bluetooth stack is set up and hears the lock
    WebhookOnly,      \* option CONF_WEBHOOK_ONLY
    WebhookConfirmed, \* CONF_WEBHOOK_STATUS; FALSE: no webhook ever arrives
    MaxTurns,         \* bound: turns of the bolt, door events and commands
    MaxFaults,        \* bound: failed or unclear answers and lost webhooks
    MaxEdits          \* bound: changes of settings and codes

Tiers == {"details", "passage", "gateways", "codes"}

ASSUME TaskAssumption ==
    /\ Polls \cap Commands = {}
    /\ Polls \cap Refreshes = {}
    /\ Commands \cap Refreshes = {}
ASSUME OptionAssumption ==
    /\ Tracked \subseteq Tiers
    /\ {HasSensor, Bluetooth, WebhookOnly, WebhookConfirmed} \subseteq BOOLEAN
ASSUME BoundAssumption == {MaxTurns, MaxFaults, MaxEdits} \subseteq Nat

VARIABLES
    data,      \* self.data
    ok,        \* last_update_success
    stamp,     \* the _*_last_fetched gates of the slow tier
    polls,     \* the _async_update_data calls in progress
    commands,  \* the lock() and unlock() calls in progress
    refreshes, \* the async_refresh_codes calls in progress
    gw,        \* the tasks inside `async with GW_LOCK`
    timers,    \* the auto-lock tasks that still sleep
    bolt,      \* external: the real position of the lock
    cloud,     \* external: the settings and codes the cloud holds
    mail,      \* external: webhooks on their way
    turns, faults, edits, \* what is used of the three bounds
    seen,      \* history: has the lock been unlocked, has an answer been unclear
    overlap    \* history: have two tasks been in progress at once

taskVars == <<polls, commands, refreshes, gw>>
worldVars == <<bolt, cloud, mail>>
historyVars == <<seen, overlap>>
vars == <<data, ok, stamp, taskVars, timers, worldVars, turns, faults, edits,
          historyVars>>

-----------------------------------------------------------------------------
(* Values *)

Position == {"locked", "unlocked"}
View     == Position \cup {"unknown"}     \* `locked: bool | None`
Kind     == Position \cup {"doorClosed"}  \* what a webhook event reports

\* A slow-tier part as one value: "details" stands for auto_lock_seconds,
\* "passage" for passage mode being active now, "codes" for the PIN and eKey
\* lists.  "none" is a part that has not been fetched yet.
Setting == {"off", "on"}
Data == [locked  : View,
         pending : BOOLEAN,
         sensor  : BOOLEAN,               \* sensor_present(data.sensor)
         config  : [Tiers -> Setting \cup {"none"}]]

\* Mutant: a lock whose state is not known yet counts as unlocked.
NoDataUnlocked ==
    [locked |-> "unlocked", pending |-> FALSE, sensor |-> FALSE,
     config |-> [t \in Tiers |-> "none"]]

NoData == [locked |-> "unknown", pending |-> FALSE, sensor |-> FALSE,
           config |-> [t \in Tiers |-> "none"]]

Age == {"never", "fresh", "old"}  \* a stamp, by whether the interval has elapsed

PollStage == {"idle", "details", "sensor", "ble", "gateway", "state", "passage",
              "gateways", "passcodes", "ekeys"}
Reply == Position \cup {"none", "silent", "unclear", "error"}
Poll == [stage : PollStage, new : Data, reply : Reply]
IdlePoll == [stage |-> "idle", new |-> NoData, reply |-> "none"]

CommandStage == {"idle", "gateway", "sent", "done", "failed"}
Command == [stage : CommandStage, target : Position]
IdleCommand == [stage |-> "idle", target |-> "locked"]

Refresh == [stage : {"idle", "passcodes", "ekeys"}, new : Data]
IdleRefresh == [stage |-> "idle", new |-> NoData]

Flip(s) == IF s = "on" THEN "off" ELSE "on"

InFlight ==
    {p \in Polls : polls[p].stage # "idle"}
      \cup {c \in Commands : commands[c].stage # "idle"}
      \cup {r \in Refreshes : refreshes[r].stage # "idle"}

-----------------------------------------------------------------------------
(* Initially nothing but the lock/list summary is known. *)

Init ==
    /\ data = NoData
    /\ ok = TRUE
    /\ stamp = [t \in Tiers |-> "never"]
    /\ polls = [p \in Polls |-> IdlePoll]
    /\ commands = [c \in Commands |-> IdleCommand]
    /\ refreshes = [r \in Refreshes |-> IdleRefresh]
    /\ gw = {}
    /\ timers = 0
    /\ bolt \in Position
    \* the two values of the other parts are interchangeable
    /\ cloud \in [Tiers -> Setting]
    /\ \A t \in Tiers : t \notin Tracked \cap {"details", "passage"} => cloud[t] = "off"
    /\ mail = [k \in Kind |-> 0]
    /\ turns = 0 /\ faults = 0 /\ edits = 0
    /\ seen = {bolt} \cap {"unlocked"}
    /\ overlap = FALSE

-----------------------------------------------------------------------------
(* The course of a poll: the next await after each one.  `st` are the      *)
(* stamps at that moment, `new` the poll's copy.                           *)

\* Mutant: fetched once, never again.
SlowTierOnce(t, st) == t \in Tracked /\ st[t] = "never"

SlowTierDue(t, st) == t \in Tracked /\ st[t] # "fresh"

\* Mutant: a webhook that works is enough, whether or not the option is set.
WebhookOnlyConfirmed == WebhookConfirmed

WebhookOnlyActive == WebhookOnly /\ WebhookConfirmed

AfterGateways(st) == IF SlowTierDue("codes", st) THEN "passcodes" ELSE "done"
AfterPassage(st) ==
    IF SlowTierDue("gateways", st) THEN "gateways" ELSE AfterGateways(st)
AfterState(st) ==
    IF SlowTierDue("passage", st) THEN "passage" ELSE AfterPassage(st)
WithoutBle(new, st) ==
    IF WebhookOnlyActive /\ new.locked # "unknown"
    THEN AfterState(st) ELSE "gateway"
\* The Bluetooth credentials come with the details and are kept beside them.
AfterSensor(new, st) ==
    IF Bluetooth /\ st.details # "never" THEN "ble" ELSE WithoutBle(new, st)
AfterDetails(new, st) ==
    IF HasSensor THEN "sensor" ELSE AfterSensor(new, st)
AtStart(new, st) ==
    IF SlowTierDue("details", st) THEN "details" ELSE AfterDetails(new, st)

\* async_set_updated_data, and a poll that returns: the copy replaces the data.
Publish(new) == data' = new /\ ok' = TRUE

\* The poll runs on to its next await, or returns.
Continue(p, new, next) ==
    \/ /\ next = "done"
       /\ Publish(new)
       /\ polls' = [polls EXCEPT ![p] = IdlePoll]
    \/ /\ next # "done"
       /\ polls' = [polls EXCEPT ![p] = [stage |-> next, new |-> new,
                                         reply |-> "none"]]
       /\ UNCHANGED <<data, ok>>

\* The call the poll awaits raised: UpdateFailed, and the copy is dropped.
FailPoll(p) ==
    /\ polls' = [polls EXCEPT ![p] = IdlePoll]
    /\ ok' = FALSE
    /\ UNCHANGED data

Fault == faults < MaxFaults /\ faults' = faults + 1

-----------------------------------------------------------------------------
(* Polls *)

Begin == overlap' = (overlap \/ InFlight # {})

\* Mutant: the poll builds its result from nothing instead of from a copy.
BeginPollAfresh(p) ==
    /\ polls[p].stage = "idle"
    /\ Continue(p, NoData, AtStart(NoData, stamp))
    /\ Begin
    /\ UNCHANGED <<stamp, commands, refreshes, gw, timers, worldVars, turns,
                   faults, edits, seen>>

\* The schedule, a Sync button or the initial fill calls async_refresh.
BeginPoll(p) ==
    /\ polls[p].stage = "idle"
    /\ Continue(p, data, AtStart(data, stamp))
    /\ Begin
    /\ UNCHANGED <<stamp, commands, refreshes, gw, timers, worldVars, turns,
                   faults, edits, seen>>

\* The update_state service forgets the state, then calls async_refresh.
UpdateState(p) ==
    LET forgotten == [data EXCEPT !.locked = "unknown"]
    IN /\ polls[p].stage = "idle"
       /\ data' = forgotten
       /\ polls' = [polls EXCEPT
                      ![p] = [stage |-> AtStart(forgotten, stamp),
                              new |-> forgotten, reply |-> "none"]]
       /\ Begin
       /\ UNCHANGED <<ok, stamp, commands, refreshes, gw, timers, worldVars,
                      turns, faults, edits, seen>>

\* get_lock answered.  The stamp is set on the coordinator at once; the
\* values wait in the copy.
PollDetails(p) ==
    LET new == [polls[p].new EXCEPT !.config.details = cloud.details]
    IN /\ polls[p].stage = "details"
       /\ stamp' = [stamp EXCEPT !.details = "fresh"]
       /\ Continue(p, new, AfterDetails(new, stamp'))
       /\ UNCHANGED <<commands, refreshes, gw, timers, worldVars, turns, faults,
                      edits, historyVars>>

\* _check_for_sensor / _update_present_sensor: may find the sensor, may lose
\* its battery level, may leave things as they are (see DoorSensorProbe).
PollSensor(p) ==
    /\ polls[p].stage = "sensor"
    /\ \E present \in BOOLEAN :
         LET new == [polls[p].new EXCEPT !.sensor = present]
         IN Continue(p, new, AfterSensor(new, stamp))
    /\ UNCHANGED <<stamp, commands, refreshes, gw, timers, worldVars, turns,
                   faults, edits, historyVars>>

\* The lock answers over Bluetooth, or does not.
LockAnswersBle(p) ==
    /\ polls[p].stage = "ble" /\ polls[p].reply = "none"
    /\ \E reply \in {bolt, "silent"} :
         polls' = [polls EXCEPT ![p].reply = reply]
    /\ UNCHANGED <<data, ok, stamp, commands, refreshes, gw, timers, worldVars,
                   turns, faults, edits, historyVars>>

PollBle(p) ==
    LET reply == polls[p].reply
        new == IF reply \in Position
               THEN [polls[p].new EXCEPT !.locked = reply] ELSE polls[p].new
    IN /\ polls[p].stage = "ble" /\ reply # "none"
       /\ Continue(p, new, IF reply \in Position THEN AfterState(stamp)
                                                 ELSE WithoutBle(new, stamp))
       /\ UNCHANGED <<stamp, commands, refreshes, gw, timers, worldVars, turns,
                      faults, edits, historyVars>>

\* get_lock_state enters `async with GW_LOCK`.
PollTakesGateway(p) ==
    /\ polls[p].stage = "gateway"
    /\ gw = {}
    /\ gw' = {p}
    /\ polls' = [polls EXCEPT ![p].stage = "state"]
    /\ UNCHANGED <<data, ok, stamp, commands, refreshes, timers, worldVars,
                   turns, faults, edits, historyVars>>

\* The cloud reads the lock through the gateway; the answer is on its way.
CloudAnswersState(p) ==
    /\ polls[p].stage = "state" /\ polls[p].reply = "none"
    /\ \E reply \in {bolt, "unclear", "error"} :
         /\ polls' = [polls EXCEPT ![p].reply = reply]
         /\ IF reply = bolt THEN UNCHANGED faults ELSE Fault
         /\ seen' = seen \cup ({reply} \cap {"unclear"})
    /\ UNCHANGED <<data, ok, stamp, commands, refreshes, gw, timers, worldVars,
                   turns, edits, overlap>>

\* `state.locked == State.locked`: every other answer reads as unlocked.
ReadAsPosition(reply) == IF reply = "locked" THEN "locked" ELSE "unlocked"

\* Mutant: GW_LOCK is released by hand, and not when the call raised.
PollStateKeepsGateway(p) ==
    LET reply == polls[p].reply
        read == [polls[p].new EXCEPT !.locked = ReadAsPosition(reply)]
    IN /\ polls[p].stage = "state" /\ reply # "none"
       /\ IF reply = "error"
          THEN /\ UNCHANGED gw
               /\ IF polls[p].new.locked = "unknown"
                  THEN Continue(p, polls[p].new, AfterState(stamp))
                  ELSE FailPoll(p)
          ELSE gw' = gw \ {p} /\ Continue(p, read, AfterState(stamp))
       /\ UNCHANGED <<stamp, commands, refreshes, timers, worldVars, turns,
                      faults, edits, historyVars>>

PollState(p) ==
    LET reply == polls[p].reply
        read == [polls[p].new EXCEPT !.locked = ReadAsPosition(reply)]
    IN /\ polls[p].stage = "state" /\ reply # "none"
       /\ gw' = gw \ {p}
       /\ \/ /\ reply # "error"
             /\ Continue(p, read, AfterState(stamp))
          \/ /\ reply = "error" /\ polls[p].new.locked = "unknown"
             /\ Continue(p, polls[p].new, AfterState(stamp))
          \/ /\ reply = "error" /\ polls[p].new.locked # "unknown"
             /\ FailPoll(p)
       /\ UNCHANGED <<stamp, commands, refreshes, timers, worldVars, turns,
                      faults, edits, historyVars>>

PollPassage(p) ==
    LET new == [polls[p].new EXCEPT !.config.passage = cloud.passage]
    IN /\ polls[p].stage = "passage"
       /\ stamp' = [stamp EXCEPT !.passage = "fresh"]
       /\ Continue(p, new, AfterPassage(stamp'))
       /\ UNCHANGED <<commands, refreshes, gw, timers, worldVars, turns, faults,
                      edits, historyVars>>

PollGateways(p) ==
    LET new == [polls[p].new EXCEPT !.config.gateways = cloud.gateways]
    IN /\ polls[p].stage = "gateways"
       /\ stamp' = [stamp EXCEPT !.gateways = "fresh"]
       /\ Continue(p, new, AfterGateways(stamp'))
       /\ UNCHANGED <<commands, refreshes, gw, timers, worldVars, turns, faults,
                      edits, historyVars>>

\* list_passcodes answered; list_ekeys is awaited next.
PollPasscodes(p) ==
    /\ polls[p].stage = "passcodes"
    /\ Continue(p, [polls[p].new EXCEPT !.config.codes = cloud.codes], "ekeys")
    /\ UNCHANGED <<stamp, commands, refreshes, gw, timers, worldVars, turns,
                   faults, edits, historyVars>>

PollEkeys(p) ==
    /\ polls[p].stage = "ekeys"
    /\ stamp' = [stamp EXCEPT !.codes = "fresh"]
    /\ Continue(p, polls[p].new, "done")
    /\ UNCHANGED <<commands, refreshes, gw, timers, worldVars, turns, faults,
                   edits, historyVars>>

\* Any other call of the poll may raise (the Bluetooth read never does).
PollFails(p) ==
    /\ polls[p].stage \in PollStage \ {"idle", "ble", "gateway", "state"}
    /\ Fault
    /\ FailPoll(p)
    /\ UNCHANGED <<stamp, commands, refreshes, gw, timers, worldVars, turns,
                   edits, historyVars>>

-----------------------------------------------------------------------------
(* Lock and unlock commands *)

\* lock() or unlock() up to its first await: `with lock_action(self)`.
BeginCommand(c, target) ==
    /\ commands[c].stage = "idle"
    /\ turns < MaxTurns /\ turns' = turns + 1
    /\ commands' = [commands EXCEPT ![c] = [stage |-> "gateway",
                                            target |-> target]]
    /\ data' = [data EXCEPT !.pending = TRUE]
    /\ Begin
    /\ UNCHANGED <<ok, stamp, polls, refreshes, gw, timers, worldVars, faults,
                   edits, seen>>

\* Mutant: lock() sends its command without waiting for GW_LOCK.
CommandIgnoresGateway(c) ==
    /\ commands[c].stage = "gateway"
    /\ gw' = gw \cup {c}
    /\ commands' = [commands EXCEPT ![c].stage = "sent"]
    /\ UNCHANGED <<data, ok, stamp, polls, refreshes, timers, worldVars, turns,
                   faults, edits, historyVars>>

CommandTakesGateway(c) ==
    /\ commands[c].stage = "gateway"
    /\ gw = {}
    /\ gw' = {c}
    /\ commands' = [commands EXCEPT ![c].stage = "sent"]
    /\ UNCHANGED <<data, ok, stamp, polls, refreshes, timers, worldVars, turns,
                   faults, edits, historyVars>>

\* The cloud posts a webhook, if it has been given the URL.
Post(kind) == mail' = [mail EXCEPT ![kind] = IF WebhookConfirmed THEN @ + 1 ELSE @]

\* The lock moves (or already was there) and reports it.
Move(target) ==
    /\ bolt' = target
    /\ Post(target)
    /\ seen' = seen \cup ({target} \cap {"unlocked"})
    /\ UNCHANGED cloud

\* The cloud carries the command out, refuses it, or fails to answer - and
\* then the lock may have moved or not.
CloudAnswersCommand(c) ==
    /\ commands[c].stage = "sent"
    /\ \/ /\ Move(commands[c].target)
          /\ commands' = [commands EXCEPT ![c].stage = "done"]
          /\ UNCHANGED faults
       \/ /\ Move(commands[c].target) \/ UNCHANGED <<worldVars, seen>>
          /\ commands' = [commands EXCEPT ![c].stage = "failed"]
          /\ Fault
    /\ UNCHANGED <<data, ok, stamp, polls, refreshes, gw, timers, turns, edits,
                   overlap>>

\* Mutant: no finally - a command that failed leaves action_pending set.
EndCommandWithoutFinally(c) ==
    /\ commands[c].stage \in {"done", "failed"}
    /\ data' = IF commands[c].stage = "done"
               THEN [data EXCEPT !.pending = FALSE, !.locked = commands[c].target]
               ELSE data
    /\ gw' = gw \ {c}
    /\ commands' = [commands EXCEPT ![c] = IdleCommand]
    /\ UNCHANGED <<ok, stamp, polls, refreshes, timers, worldVars, turns, faults,
                   edits, historyVars>>

\* The rest of lock() / unlock(), with lock_action's finally.
EndCommand(c) ==
    /\ commands[c].stage \in {"done", "failed"}
    /\ data' = [data EXCEPT !.pending = FALSE,
                            !.locked = IF commands[c].stage = "done"
                                       THEN commands[c].target ELSE @]
    /\ gw' = gw \ {c}
    /\ commands' = [commands EXCEPT ![c] = IdleCommand]
    /\ UNCHANGED <<ok, stamp, polls, refreshes, timers, worldVars, turns, faults,
                   edits, historyVars>>

-----------------------------------------------------------------------------
(* Codes and settings *)

\* A management action changed a code and goes on to async_refresh_codes,
\* which copies the data before its first await.
ManageCodes(r) ==
    /\ refreshes[r].stage = "idle"
    /\ edits < MaxEdits /\ edits' = edits + 1
    /\ "codes" \in Tracked
    /\ cloud' = [cloud EXCEPT !.codes = Flip(@)]
    /\ refreshes' = [refreshes EXCEPT ![r] = [stage |-> "passcodes",
                                              new |-> data]]
    /\ Begin
    /\ UNCHANGED <<data, ok, stamp, polls, commands, gw, timers, bolt, mail,
                   turns, faults, seen>>

RefreshPasscodes(r) ==
    /\ refreshes[r].stage = "passcodes"
    /\ refreshes' = [refreshes EXCEPT
                       ![r] = [stage |-> "ekeys",
                               new |-> [@.new EXCEPT !.config.codes = cloud.codes]]]
    /\ UNCHANGED <<data, ok, stamp, polls, commands, gw, timers, worldVars,
                   turns, faults, edits, historyVars>>

RefreshEkeys(r) ==
    /\ refreshes[r].stage = "ekeys"
    /\ stamp' = [stamp EXCEPT !.codes = "fresh"]
    /\ Publish(refreshes[r].new)
    /\ refreshes' = [refreshes EXCEPT ![r] = IdleRefresh]
    /\ UNCHANGED <<polls, commands, gw, timers, worldVars, turns, faults, edits,
                   historyVars>>

\* A list call raised: the exception goes to the caller, nothing is published.
RefreshFails(r) ==
    /\ refreshes[r].stage # "idle"
    /\ Fault
    /\ refreshes' = [refreshes EXCEPT ![r] = IdleRefresh]
    /\ UNCHANGED <<data, ok, stamp, polls, commands, gw, timers, worldVars,
                   turns, edits, historyVars>>

\* set_auto_lock: the cloud has accepted the value, and the current data is
\* changed in place, whether or not a poll has fetched the details before.
SetAutoLock(v) ==
    /\ edits < MaxEdits /\ edits' = edits + 1
    /\ cloud' = [cloud EXCEPT !.details = v]
    /\ data' = [data EXCEPT !.config.details = v]
    /\ UNCHANGED <<ok, stamp, taskVars, timers, bolt, mail, turns, faults,
                   historyVars>>

\* Someone changes a setting or a code from the TTLock app.
EditOutside(t) ==
    /\ t \in Tracked
    /\ edits < MaxEdits /\ edits' = edits + 1
    /\ cloud' = [cloud EXCEPT ![t] = Flip(@)]
    /\ UNCHANGED <<data, ok, stamp, taskVars, timers, bolt, mail, turns, faults,
                   historyVars>>

\* The slow interval has elapsed since part t was stamped.
SlowIntervalElapses(t) ==
    /\ stamp[t] = "fresh"
    /\ stamp' = [stamp EXCEPT ![t] = "old"]
    /\ UNCHANGED <<data, ok, taskVars, timers, worldVars, turns, faults, edits,
                   historyVars>>

-----------------------------------------------------------------------------
(* The lock and its webhooks *)

\* Someone turns the lock, or it locks itself.
Turn(target) ==
    /\ bolt # target
    /\ turns < MaxTurns /\ turns' = turns + 1
    /\ Move(target)
    /\ UNCHANGED <<data, ok, stamp, taskVars, timers, faults, edits, overlap>>

\* The door falls shut; a latching lock locks with it.
DoorCloses ==
    /\ HasSensor
    /\ turns < MaxTurns /\ turns' = turns + 1
    /\ bolt' \in {bolt, "locked"}
    /\ Post("doorClosed")
    /\ UNCHANGED <<data, ok, stamp, taskVars, timers, cloud, faults, edits,
                   historyVars>>

AutoLockEnabled == data.config.details = "on" /\ data.config.passage # "on"

\* _process_webhook_data.  Webhooks may overtake each other.
ProcessWebhook(kind) ==
    /\ mail[kind] > 0
    /\ mail' = [mail EXCEPT ![kind] = @ - 1]
    /\ Publish([data EXCEPT
                 !.locked = IF kind \in Position THEN kind
                            ELSE IF data.sensor THEN "locked" ELSE @])
    /\ timers' = IF kind = "unlocked" /\ AutoLockEnabled
                 THEN timers + 1 ELSE timers
    /\ UNCHANGED <<stamp, taskVars, bolt, cloud, turns, faults, edits,
                   historyVars>>

\* A webhook never reaches Home Assistant.
LoseWebhook(kind) ==
    /\ mail[kind] > 0
    /\ mail' = [mail EXCEPT ![kind] = @ - 1]
    /\ Fault
    /\ UNCHANGED <<data, ok, stamp, taskVars, timers, bolt, cloud, turns, edits,
                   historyVars>>

\* _auto_locked wakes up: the lock is taken to have locked itself.
AutoLocked ==
    /\ timers > 0
    /\ timers' = timers - 1
    /\ Publish([data EXCEPT !.locked = "locked"])
    /\ UNCHANGED <<stamp, taskVars, worldVars, turns, faults, edits, historyVars>>

-----------------------------------------------------------------------------
(* Specification *)

\* What a poll does by itself once it has begun.
PollProgress(p) ==
    \/ PollDetails(p) \/ PollSensor(p)
    \/ LockAnswersBle(p) \/ PollBle(p)
    \/ PollTakesGateway(p) \/ CloudAnswersState(p) \/ PollState(p)
    \/ PollPassage(p) \/ PollGateways(p) \/ PollPasscodes(p) \/ PollEkeys(p)
    \/ PollFails(p)

CommandProgress(c) ==
    CommandTakesGateway(c) \/ CloudAnswersCommand(c) \/ EndCommand(c)

RefreshProgress(r) == RefreshPasscodes(r) \/ RefreshEkeys(r) \/ RefreshFails(r)

Next ==
    \/ \E p \in Polls : BeginPoll(p) \/ UpdateState(p) \/ PollProgress(p)
    \/ \E c \in Commands :
         (\E target \in Position : BeginCommand(c, target)) \/ CommandProgress(c)
    \/ \E r \in Refreshes : ManageCodes(r) \/ RefreshProgress(r)
    \/ \E v \in Setting : SetAutoLock(v)
    \/ \E t \in Tiers : EditOutside(t) \/ SlowIntervalElapses(t)
    \/ \E target \in Position : Turn(target)
    \/ DoorCloses
    \/ \E kind \in Kind : ProcessWebhook(kind) \/ LoseWebhook(kind)
    \/ AutoLocked

Spec == Init /\ [][Next]_vars

(***************************************************************************)
(* Fairness.  The event loop resumes every task whose call has returned,   *)
(* and every call returns or raises (aiohttp has a total timeout).  An     *)
(* asyncio.Lock serves its waiters in order, so a task that waits for      *)
(* GW_LOCK gets it: strong fairness.  Polls are scheduled for ever when    *)
(* manual sync is off, the slow interval elapses again and again, webhooks *)
(* arrive or are lost, timers wake up.  Nothing else is bound to happen.   *)
(***************************************************************************)
Fairness ==
    /\ WF_vars(\E p \in Polls : BeginPoll(p))
    /\ \A p \in Polls : /\ WF_vars(PollProgress(p))
                        /\ SF_vars(PollTakesGateway(p))
    /\ \A c \in Commands : /\ WF_vars(CommandProgress(c))
                           /\ SF_vars(CommandTakesGateway(c))
    /\ \A r \in Refreshes : WF_vars(RefreshProgress(r))
    /\ \A t \in Tiers : WF_vars(SlowIntervalElapses(t))
    /\ \A kind \in Kind : WF_vars(ProcessWebhook(kind) \/ LoseWebhook(kind))
    /\ WF_vars(AutoLocked)

FairSpec == Spec /\ Fairness

-----------------------------------------------------------------------------
(* Correctness *)

TypeOK ==
    /\ data \in Data
    /\ ok \in BOOLEAN
    /\ stamp \in [Tiers -> Age]
    /\ polls \in [Polls -> Poll]
    /\ commands \in [Commands -> Command]
    /\ refreshes \in [Refreshes -> Refresh]
    /\ gw \subseteq Polls \cup Commands
    /\ timers \in Nat
    /\ bolt \in Position
    /\ cloud \in [Tiers -> Setting]
    /\ mail \in [Kind -> Nat]
    /\ turns \in Nat /\ faults \in Nat /\ edits \in Nat
    /\ seen \subseteq {"unlocked", "unclear"}
    /\ overlap \in BOOLEAN

\* The tasks whose call is with the gateway.
OnGateway ==
    {p \in Polls : polls[p].stage = "state"}
      \cup {c \in Commands : commands[c].stage \in {"sent", "done", "failed"}}

\* The gateway is never given a second command or state query while one is
\* out (the comment on GW_LOCK), whichever way the first one ends.
OneGatewayCall == \A s, t \in OnGateway : s = t

\* Home Assistant shows a lock as unlocked only if it has been unlocked at
\* some time - unlocked is never a default or a guess, as locked is with
\* auto-lock and a closing door - or the cloud gave an unclear answer.
UnlockedIsReported == data.locked = "unlocked" => seen # {}

\* action_pending, from which the entity shows locking and unlocking, is set
\* exactly while a command is in progress ...
PendingMirrorsCommand ==
    data.pending <=> \E c \in Commands : commands[c].stage # "idle"

\* ... as long as no two tasks have been in progress at once.
SerialPendingMirrorsCommand == ~overlap => PendingMirrorsCommand

\* A part of the slow tier that is stamped as fetched is there: in the data
\* or in the copy of the poll that fetched it - as long as no two tasks have
\* been in progress at once and no call has failed.
SerialStampsHold ==
    ~overlap /\ faults = 0 =>
      \A t \in Tiers : stamp[t] # "never" =>
        \/ data.config[t] # "none"
        \/ \E p \in Polls : polls[p].new.config[t] # "none"

\* With nothing in progress or under way, and after no fault, the lock shows
\* its position.  In webhook-only mode a poll that overlaps a webhook puts
\* the old position back, and nothing ever corrects it.
Settled == InFlight = {} /\ timers = 0 /\ (\A k \in Kind : mail[k] = 0)
SettledViewIsTrue ==
    Settled /\ faults = 0 /\ data.locked # "unknown" => data.locked = bolt

\* While polls re-verify the state, a wrong position does not last: from some
\* time on the lock shows its position or nothing, and its position again
\* and again (update_state may always blank it).
ViewConverges ==
    /\ <>[](data.locked \in {bolt, "unknown"})
    /\ []<>(data.locked = bolt)

\* Every lock and unlock call ends, whatever polls and faults there are.
CommandsEnd ==
    \A c \in Commands : commands[c].stage # "idle" ~> commands[c].stage = "idle"

\* Once nobody edits any more, every part of the slow tier shows for good
\* what the cloud holds, however polls and code re-fetches overlapped before.
ConfigConverges == <>[](\A t \in Tracked : data.config[t] = cloud[t])

=============================================================================
