# A verification of TTLock Connect in TLA+

TTLock Connect is a Home Assistant custom integration
(`custom_components/ttlock_connect/`) that controls TTLock smart locks through
TTLock's cloud, its gateways and, to read a lock's state, Bluetooth. This
directory holds TLA+ models of its stateful parts, the TLC configurations that
check them and TLAPS proofs about them. Paths below are relative to
`custom_components/ttlock_connect/` unless they start with `docs/` or `tests/`.

Everything runs on one asyncio event loop: a task runs undisturbed from one
`await` to the next, and every interleaving is an interleaving of such stretches.
The models are built on that. A *stage* of a task is the await it is suspended
at; an action is everything one task does from one resumption to its next
suspension. A call to the cloud or to a lock whose moment matters takes two
actions: the other side acts (`CloudAnswers...`), and the task resumes.

## 1. Inventory

| Component | State it keeps | Operations | Talks to |
|---|---|---|---|
| Lock coordinator (`coordinator.py`, `lock.py`) | `LockState` of a lock, the `_*_last_fetched` stamps of the slow tier, `_sensor_recheck_done`, BLE presence | `_async_update_data` (a poll), `_process_webhook_data`, `lock`, `unlock`, `async_refresh_codes`, `set_auto_lock`, `set_lock_sound`, the auto-lock task | cloud client, lock state store, Bluetooth session, webhook group (through the dispatcher and entry data), entities |
| Lock state store (`store.py`) | per lock: sensor absent, failures in a row, time of the last one; in memory and in a file | `async_load`, `async_get`, `async_update` | door-sensor part of the poll |
| Webhook group (`webhook.py`) | in memory: one `_WebhookGroup` per client_id; persisted in entry data: id, URL, status; repair issues | `register_webhook`, `_resolve_group_webhook_id`, `handle_webhook`, `async_resolve_setup_issue`, `unregister_webhook` | config entries, HA's webhook registry, coordinators (dispatcher) |
| Config entries (`__init__.py`) | domain data of each entry, options snapshot, update listener; shared store, capture and counter | set up, unload, reload, remove, options changed | everything |
| Cloud client (`api.py`) | token session, `GW_LOCK` for the whole process | one method per call; the gateway calls under `GW_LOCK` | TTLock cloud, the API call counter |
| API call counter, usage estimate (`api_stats.py`, `usage_estimate.py`) | calls per day, 31 days back, saved with a delay | load, record, prune, flush | cloud client, sensors |
| Bluetooth session (`ble.py`) | per session: the connection, `_turn`, the pending future, the frame assembler; the last advertisement | `async_command_session`, `execute`, `_notification`, `async_read_status`, `async_track_address` | lock coordinator |
| Bluetooth frames (`ble_protocol.py`) | the assembler's buffer | feed; build and parse frames; checksum, AES | Bluetooth session |
| Traffic capture (`capture.py`) | a bounded deque per lock | add, switch on and off, dump | log handlers, diagnostics |
| Services (`services.py`) | none; the progress of each call through its locks | passage mode, auto-lock, passcodes, cards, fingerprints, eKeys, records, `update_state` | coordinators of all entries, cloud client |
| Options flow, sign-in (`config_flow.py`, `application_credentials.py`) | a form in progress, the coordinator it was opened for | options, passcode and eKey management, OAuth | cloud client, coordinators, config entries |
| Gateway coordinator (`coordinator.py`) | a list of gateways | poll | cloud client |
| Entities (`entity.py`, `lock.py`, `sensor.py`, ...) | none: functions of the data | | coordinators |

### What is hard in this code

* **Copies.** A poll deep-copies `self.data` before its first await and replaces
  `self.data` by the copy when it returns; `async_refresh_codes` does the same.
  Webhooks, commands and timers write the current data in between
  (`coordinator.py:377`, `:487`).
* **Two places for one fact.** The slow tier stamps "fetched" on the coordinator,
  while the values are in the copy, which a later failing call throws away.
* **`GW_LOCK`**: one lock for all gateway calls of the process; TTLock's gateway
  fails when it gets two commands at once (`api.py:36-38`).
* **Answers that are not answers**: state "unknown", an error code for "no door
  sensor", a sensor without a battery level, a command that timed out and was
  carried out all the same.
* **Bytes from the air** come in notifications of any sizes, maybe from the middle
  of a frame; a frame answers whatever command is pending; a session must close its
  connection whatever fails or is cancelled.
* **Persistence.** The sensor verdict, the entry data and the call counter
  survive restarts; stamps, groups, handlers and issues do not.
* **Entries that share a webhook**, each with a history of its own, set up at
  the same time, unloaded, removed, added, with awaits between read and write.
* **Entries that are half there.** A set-up has an await after each of its parts, and
  may fail at each; a record without coordinators stays in `hass.data`, where
  services that look for any entry's lock find it. Set-up writes entry data, which
  calls the listener that reloads the entry (`__init__.py:180-192`).
* **Calls in the middle of which one fails.** A service goes through its locks,
  a cleanup through codes, and an error ends both where they are.
* **Schedules that move.** Every push puts the next poll off
  (`coordinator.py:647`), and three gates decide which calls a poll makes.
* **What outlives its owner**: auto-lock tasks, the dispatcher connection, the
  listeners for HOMEASSISTANT_STARTED and _STOP.

`PROJECT.json` lists each hazard at its line with the properties that are for it.

### What makes each component correct

* Lock coordinator: one gateway call at a time; the lock is never shown as
  unlocked on a guess; `action_pending` is set exactly during a command; a stamp
  never runs ahead of its data; a wrong view does not last; commands end.
* Door sensor probe: a verdict is earned by failures in a row, also over
  restarts; after it, one probe per restart; the question is settled in the end.
* Webhook group: one webhook for all members; URLs fit ids; an unconfirmed user
  is told and a confirmed one is not; nothing stays registered after the stop.
* Entry life cycle: saved options take effect whenever they were saved; entities
  that are shown have their coordinators; set-ups do not reload for ever; what shared
  objects counted is not lost.
* Services and panel: a change is shown when the call is over; a cleanup deletes
  what has passed and nothing else; the gateway's lock is held exactly for a call
  that a gateway relays.
* Schedule: the calls stay within the estimate the user is shown, and the slow tier
  is never older than its interval by more than the polls that were put off.
* API call counter: the count of a day never falls, no call is counted twice, the
  file is at most one delay behind, old days go.
* Bluetooth session: an answer is given to the command it answers; one request at
  a time; every session ends, and then the connection is closed. Frames: whatever the chunks,
  the frames that come out are those that went in.

## 2. Modules

| Module | What it is |
|---|---|
| `LockCoordinator` | one lock's coordinator, with its polls, commands, webhooks, timers, code re-fetches, and `GW_LOCK` |
| `LockCoordinator_proofs` | five theorems about it |
| `MCLockCoordinator` | its instances for TLC |
| `AutoLock`, `MCAutoLock` | passage mode and the predicted auto-lock over time |
| `DoorSensorProbe`, `MCDoorSensorProbe` | the door-sensor part of a poll with the lock state store |
| `LockFeatures_proofs` | three theorems about each of the two |
| `WebhookGroup`, `MCWebhookGroup` | the shared webhook over the life of the config entries |
| `WebhookGroup_proofs` | six theorems about it |
| `CloudhookLife`, `MCCloudhookLife` | the URL of that webhook when Home Assistant Cloud makes and deletes it |
| `CloudhookLife_proofs` | four theorems about it |
| `BleFrames` | frames and `FrameAssembler.feed`, as operators |
| `BleSession`, `MCBleSession` | a Bluetooth session, with its callers, the lock's bytes and the link |
| `BleSession_proofs` | six theorems about it, one of them the refinement |
| `CommandExchange` | the abstract specification that `BleSession` implements |
| `ConfigEntries`, `MCConfigEntries` | entries set up, unloaded, reloaded and disabled, with their options and what is found of them |
| `ConfigEntries_proofs` | three theorems about it |
| `CodeManagement`, `MCCodeManagement` | the services and the options panel, the calls they make and what they fetch again |
| `CodeManagement_proofs` | four theorems about it |
| `PollSchedule`, `MCPollSchedule` | when coordinators poll, which calls that makes, and the usage estimate |
| `ApiCallCounter`, `MCApiCallCounter` | the tally of cloud calls that the entries share, with their set-up and unload |
| `ApiUsage_proofs` | four theorems about the tally, three about the schedule |

`LockFeatures_proofs` and `ApiUsage_proofs` each extend two components that share
nothing, so the names that both of a pair would have are qualified in one of them:
`ProbeInit`, `ProbeNext`, `ProbeSpec`, `ProbeTypeOK` in `DoorSensorProbe`, `CounterInit`,
`CounterNext`, `CounterSpec`, `CounterTypeOK`, `CallCloud`, `Date` in `ApiCallCounter`.

### LockCoordinator

State: `data` (`self.data`), `ok` (`last_update_success`), `stamp` (the slow
tier's stamps, by age), `polls`, `commands` and `refreshes` (the calls in
progress, each with its stage and its copy), `gw` (who is inside `async with
GW_LOCK`), `timers` (auto-lock tasks asleep). The real lock (`bolt`), the cloud's
settings (`cloud`) and the webhooks on their way (`mail`) are external.

| Action | Code |
|---|---|
| `BeginPoll`, `PollDetails` ... `PollEkeys`, `PollFails` | `_async_update_data`, one action per await; `AtStart`, `AfterDetails` ... say which await comes next |
| `PollTakesGateway`, `CloudAnswersState`, `PollState` | `get_lock_state` under `GW_LOCK` |
| `BeginCommand`, `CommandTakesGateway`, `CloudAnswersCommand`, `EndCommand` | `lock` / `unlock` with `lock_action` and its `finally` |
| `ManageCodes`, `RefreshPasscodes`, `RefreshEkeys`, `RefreshFails` | a code is changed, then `async_refresh_codes` |
| `SetAutoLock` | `set_auto_lock` |
| `UpdateState` | the `update_state` service |
| `ProcessWebhook`, `AutoLocked` | `_process_webhook_data`, `_handle_auto_lock` |

Abstractions. Each slow-tier part is one on/off value: `details` stands for
`auto_lock_seconds`, `passage` for passage mode being active now, `codes` for the
PIN list (read at `list_passcodes`; `list_ekeys` is a second await). Slow-tier
data is read at the moment the task resumes. Times are ages: a stamp is `never`,
`fresh` or `old`. `SetAutoLock` and `ManageCodes` join the cloud's acceptance of
a change with the code after that await; their own turn at `GW_LOCK` is left out.
The lock is connectable (has a gateway). `WebhookConfirmed` is a constant here;
how it changes is `WebhookGroup`'s subject. Left out: the door's own open state,
battery, names, last user and reason, `set_lock_sound` (the shape of
`set_auto_lock`), when Bluetooth hears the lock, and the unload of the entry.

### AutoLock

State: the time, the settings (passage mode, auto-lock delay), what the lock has not
reported yet, webhooks on their way, the timers asleep and what is shown. `ProcessWebhook`
and `AutoLocked` are `_process_webhook_data` with `_handle_auto_lock`;
`PassageModeActive` and `AutoLocks` are `passage_mode_active` and `auto_lock_delay`;
`ConfigurePassageMode` and `SetAutoLock` change the lock's settings and the data.

The lock is external: it locks itself a delay after an unlock unless its passage mode
keeps it open, which is written as a set of minutes of the week (`OpenMinutes`) and
not as the code's conditions; it reports as late as it likes, with a clock that may be
ahead or behind. Abstractions: one unit of time for minutes and seconds; no polls,
commands or locking by hand (`LockCoordinator` has them); timers wake on time;
two timers that end together are one, as are two reports of one moment; days and
weeks are short.

### DoorSensorProbe

State: whether a sensor is `paired` (external), the sensor in `self.data`,
`_sensor_recheck_done`, the store's entry in memory and in its file, the polls in
progress. A poll has the stages `copied` (awaits lock/detail), `query` (awaits
the sensor), `save` (awaits the file) and `rest`. `Queries` is the throttling,
`ProbeFailed`, `SensorFound` and `RecheckFailed` are the outcomes of
`_check_for_sensor`, `BatteryRead` is `_update_present_sensor`, `Restart` is a
stop, or a crash before the file was written. Times are ages (`FailureAges`,
`FetchAges`: a day has passed). One lock; the store's first load is atomic.

`streak` counts the failures since a probe last found the sensor: it is reset by the
answer, not by its save. `lost` says that a crash came while a success was still
unsaved (`FoundUnsaved`), until a later success is saved.

### WebhookGroup

State: HA's own state, the life of each entry and its persisted data, the stage of
its `register_webhook`, how many stop listeners it has, who holds `_GROUPS_LOCK`,
the group, the registered handlers, the issues. `Join` and `Resolve` are the
section under `_GROUPS_LOCK`, `GetUrl` and `Register` the rest;
`HandleWebhook` is the cloud calling a registered handler, `Unregister` a stop
listener, and `Add`, `Setup`, `Unload`, `Remove`, `Started`, `Stop`, `Restart`
are what `__init__.py` and HA do to entries. `CanonicalIds` is
`_resolve_group_webhook_id`; a new id is any that was never used.

Abstractions: the entries have one client_id, and the implementation of every
sibling resolves (an error there skips the sibling); membership is read at the
end of the resolution's awaits; `get_url` always suspends, which only adds
interleavings; an entry is not set up twice before HA has started; what is in
flight when HA stops does not go on; entry data survives a crash. Cloudhooks and
their deletion are `CloudhookLife`'s.

### CloudhookLife

State: what has become of each entry and its data, the group with the entry whose
handler is registered; Home Assistant Cloud's subscription and the cloudhook of each
id; the deletions `async_remove_entry` waits for; the URL in the open issue and the
one TTLock calls.

| Action | Code |
|---|---|
| `Setup`, `HookCreated`, `HookNotCreated` | `register_webhook`, with `get_url` and `try_generate_cloudhook`; `Resolve` is `_resolve_group_webhook_id` |
| `Remove`, `HookDeleted`, `HookNotDeleted` | `async_remove_entry` |
| `HandleWebhook` | `handle_webhook` and `async_resolve_setup_issue` |
| `Add`, `Unload`, `UserRegisters`, `Restart` | Home Assistant, the user |

A URL is an id and a cloudhook, or no cloudhook for Home Assistant's own URL, which
always answers. A cloudhook that is made again has a new URL. Abstractions: the
entries share an id from the first set-up on, so what consolidation does to several
ids, and the sections under `_GROUPS_LOCK`, are `WebhookGroup`'s; the only await is
that for a new cloudhook; the subscription does not change; `NoURLAvailableError`
does not happen.

### ApiCallCounter

State: per entry the stage of its set-up, its counter and what the domain data
holds for it; the counter objects, which of them is shared, the queue of delayed
saves, the file, the day. `Setup`, `CounterLoaded`, `LocksListed`,
`GatewaysListed` and `SetupFails` are `async_setup_entry` with its awaits (the
counter's load, `get_locks`, the first refresh of the gateways); `Record` is
`ApiCallCounter.record` and part of each action that sends a call; `SaveIsDue` is
the delayed save, which takes the data when it is due. Every save waits equally
long after the last call, so saves fall due in the order of those calls: `saves`
is a queue. `sent` is what was really sent.

Abstractions: a tally is a count per day, without endpoints; the file is read when
the load returns and written in one step; calls still in flight when an entry is
unloaded are left out (they were counted when they were sent); unloading the
platforms succeeds; the rest of the set-up makes no call of its own, and the
initial fill is `CallCloud`. The clock does not go back.

### BleFrames and BleSession

`BleFrames` has the assembler: `Cut` is the loop of `feed`, as a recursive function
of where it stands, and `Feed` appends and cuts. The sizes of header, trailer and
data are parameters, so that small frames have every case of the real ones. A
byte is a pair of a frame's kind and a position in it: what the assembler decides
depends on values alone (`Value`), while the checksum is taken to be ideal -
`Decode` accepts exactly the bytes of one frame from its first to its last.

`BleSession`: `stage` says where `async_command_session` is, `callers` where each call
of `execute` is, `turn` is `_turn`, `pending` the future with the frame it was resolved
with. `Open`, `Connect`, `Start`, `EndBody`, `Stop`, `Disconnect` are the context
manager; `TakeTurn`, `Write`, `Receive`, `TimeOut` are `execute`; `Notify` hands the
assembler the next bytes, any number of them. `Cancel` may come at every await. `Stop`
and `Disconnect` may raise a `BleakError`, which the code swallows: the session goes on
closing, and after a failed disconnect the link may still be open; `abandoned` says that
the disconnect failed or the closing was cancelled. `air` holds the bytes on their way;
before `Start` and after `Stop` they are lost. `torn` says whether what the buffer was
fed, since the subscription or the reset at the start of a command, began inside a
frame; `missed` counts the frames that ended since then and did not come out.

The program has one caller per session, `async_read_status`; a second one makes
the promise of `LockSession` that "commands are serialised" something to check.

Abstractions: the cipher is left out, the payload of a command too; a write is
one step, after which the lock has the command; the radio delivers what is sent
in order or drops the link; the lock has one connection at a time; a connection
that a cancelled `stop_notify` or a failed `disconnect` leaves open lasts until the link
drops.

`BleSession` implements `CommandExchange` (`ExchangesCommands`): a session is open
or not, at most one command is out, each ends with one result, and the reply is its
own until something disturbed the session. The mapping: `open` is `stage # "idle"`,
`out` is `turn`, `result` the outcomes; bytes, frames, the link and the future are
steps that stutter. No guard of the abstract module speaks of frames, so it holds
the whole path of a byte from the radio to `execute` to what its docstring says.

### ConfigEntries

State, per entry: its options and whether it is disabled, Home Assistant's state of
it, the await at which its set-up or unload is (`task`: one at a time, under HA's
`setup_lock`), the reloads that wait for that lock, how often its update listener is
registered, its record in `hass.data`, and the generation of coordinators whose
entities are in Home Assistant.

| Action | Code |
|---|---|
| `ImplementationFound` ... `PlatformsSetUp`, `SetupFails`, `NotReady` | `async_setup_entry`, one action per await |
| `PlatformsUnloaded`, `PlatformStays`, `Forget` | `async_unload_entry` and what HA does after it |
| `ChangeOptions`, `Notified`, `ReloadsOn` | the options form; `_reload_on_options_update` |
| `Ask`, `TakeLock`, `Retry` | Home Assistant: reload, disable, enable; the timer of an entry that was not ready |
| `Finds` | `coordinator_for` among the coordinators of an entity's own entry |

Abstractions: an entry has the coordinators of one lock, a generation per set-up, and
generations alternate; the platforms make their entities in one step; removal of
entries is `WebhookGroup`'s. An exception in set-up leaves the record and the
listener, as Home Assistant only undoes `async_on_unload` for `ConfigEntryNotReady`
and after an unload: `TypeOK` counts at most one listener too many per failure, and
each of them reloads. `async_remove_config_entry_device` fails on such a record too,
although its docstring (`__init__.py:224-226`) names failed entries as its purpose.

### CodeManagement

State: the cloud's codes, keys and settings; the data of each lock's coordinator,
for each generation of coordinators; the calls and panels in progress (`task`);
`GW_LOCK`. A handler is a record of what tells handlers apart: which call it makes,
whether for each selected lock or for the first (`_first_coordinator`), and whether
it then fetches the lists again (`async_refresh_codes`), stores the value in the
data, or does nothing. `Send`, `CloudCarriesOut`, `CloudRefuses`, `Leave` are
`TTLockApi.post`; `FetchAgain`, `StoreValue`, `NothingMore`, `FindExpired`,
`DeletedExpired`, `Raises` are how handlers go on; `OpenPanel`, `ShowForm`,
`SubmitForm`, `ClosePanel` are the panel; `Reload` replaces the coordinators.

What the model brought out. `_parse_resp` raises for every error code but 0, so the
branches for `False` and the form error `api_error` never run. A raise ends the whole
call: locks left of the selection are not touched, and what was done is not fetched
again. eKey actions go through the first selected lock and refresh only that one,
whichever lock the key is of. A lock picked by two of its entities is handled twice.
Auto-lock "enabled" with 0 seconds becomes 10 seconds.

Abstractions: validity is "lasting" or "passed" and does not pass during a run; a
list is its first page (100 codes, 200 keys); services that only read are one call;
cards and fingerprints are shown nowhere and so are one kind of call; polls are
`LockCoordinator`'s.

### PollSchedule

State: the time, the options, whether webhooks are confirmed, when each coordinator is
due, the stamps, what is known of each door sensor, and the calls made by source.
`Planned` is what a poll asks for (`SlowTierDue`, `QueriesSensor`, `ReadsState` are the
gates), `PollSucceeds`, `PollWithoutState` and `PollFails` how it ends, `Refresh` adds
the next date. `Sync`
is the buttons and `update_state`; `DataPushed` a webhook or an auto-lock timer,
`CodesRefreshed` a management action: both `Postpone`. `Every` and `AtATime` are the
estimate as a rate. Abstractions: a poll takes no time and timers are never late;
at most one call of a poll fails; the estimate is not rounded.

A lock with a door sensor goes one of two ways (`QueriesSensor`). If the battery level
is known (`present`), it is queried once a day. If not, it is looked for, unless a
failure of the last day is stored (`probeFrom`); a sensor that is found but
answers without a level (`Answer`: "blank") neither becomes known nor leaves a failure,
so every poll asks again. `StoreAnswer` is what the store keeps, also if the poll fails
later, `KeepAnswer` what the data keep. Abstraction: the search may end for the rest of
the run after any failure; `DoorSensorProbe` has which one, and restarts.

The estimate that the sensor shows is computed at set-up and stays when webhooks become
confirmed.

A failed poll loses the door sensor's stamp with its copy, so `doorSensor/query` is
made again at the next poll although `usage_estimate.py:88` counts "at most once
per day"; `CallsWithinEstimate` allows one more call per failure.

## 3. Runs

| Run | Checks | Bounds |
|---|---|---|
| `lock_convergence` | `OneGatewayCall`, `SerialPendingMirrorsCommand`; liveness: `ViewConverges`, `CommandsEnd`, `ConfigConverges` | a poll, a command, a code re-fetch, which copy and publish over each other; codes tracked; one turn, one fault, one edit, which may turn auto-lock on; a confirmed webhook, beside polls |
| `lock_events` | `SerialStampsHold`, `UnlockedIsReported`, and liveness `ViewConverges`, with webhooks that overtake each other and timers that outlive their unlock | a poll; details, passage and gateways tracked, door sensor, Bluetooth; three turns; a confirmed webhook, beside polls |
| `webhook_group` | `OneWebhook`, `UrlFitsId`, `UnconfirmedIsTold`, `TrafficSettlesIssue`, `StopUnregisters` | two entries with any history, a third id, a restart, two set-ups of each |
| `door_sensor` | verdict, quiet, and liveness `ProbeSettles` | two overlapping polls, the real three failures; a pairing, a fault, a restart |
| `api_counter` | what the tally in memory and in the file holds: `SerialTallyIsComplete`, `SerialFileCatchesUp`, `DaysAreBounded` | two entries, three counter objects, four days, months of two days, the least retention, five calls, a restart |
| `ble_session` | `InStep`, `PlainStartCostsOneFrame`, `SerialAnswerIsOwn`, `SessionCloses`, the refinement `ExchangesCommands`, and liveness `SessionEnds` | two callers; frames of 5 and 8 bytes, one with a magic in its data; a frame sent unasked, a fault, a cancellation |
| `entries` | `OptionsTakeEffect`, `ShownIsKept`, and liveness `SetUpsSettle` | two entries, two changes of options, a reload or disabling, a fault |
| `codes` | `SerialChangeIsShown`, `GatewayIsAtWork`, `SerialCleanupIsExact` | a service call and a panel, two locks, two codes, a key; two requests, one fault or reload; one lock, two, or one picked twice |
| `auto_lock` | `SerialPredictionIsRight`, `SerialPredictionIsNotEarly` | two days of five minutes; six settings of passage mode; a delay of two; clocks up to one apart; two unlocks, one change |
| `cloudhooks` | `SerialUrlAnswers`, `SerialUserKnowsUrl`, `HookIsUsed` | three entries, two ids, three cloudhooks, a failing call, a restart |
| `schedule` | `CallsWithinEstimate`, `SlowTierIsFresh` | a lock with gateway and door sensor; six settings; eleven units of time, days of four; a push, one request or failure, two answers of the sensor without a battery level |
| `webhook_only` | the finding of section 4: `SettledViewIsTrue` | one poll, one turn, from a coordinator that knows the lock's position |

The runs of `ApiCallCounter` and `BleSession` check the type invariant as well, which says
more there than types: that no counter has two saves pending, and that less than a
frame is kept in the buffer. It is proved for every module (section 5); in the others it
was checked with TLC before.

`webhook_only` starts in the middle of a history (`WarmInit`), because the shortest one from
`Init` is not the one worth reading: from `Init` one poll without fault and the slow
interval lead there.

Why these bounds. A lost update needs one writer between another's read and
write: a poll and one task of another kind, or two polls, as in `door_sensor`. In
`LockCoordinator` one poll runs beside the other tasks: `OneGatewayCall` and
`UnlockedIsReported` are proved for any number of polls (section 5), and the
properties that begin with `Serial` speak of histories without overlap. One
fault reaches every failure path of the code, because no path counts faults
except the sensor probe, whose three failures are not faults of the bound but
the truthful answer of a lock without a sensor. In `lock_events` three turns let
a lock be unlocked, locked and unlocked again while a timer sleeps and put three
webhooks on their way, of which the first may arrive last; the cloud's answer to a poll
and the copy in progress may be from before any of them. It has no command, re-fetch
or fault, each of which multiplies its states: `lock_convergence` has all three, with
one turn. `SerialStampsHold` is stated for histories without a fault.
The codes are followed by `lock_convergence`
alone, as the one slow-tier part with two writers that copy. Webhook groups of two
entries have every case of `_resolve_group_webhook_id`: none, one or two ids,
none, one or two of them confirmed; the properties are proved for any number of
entries, of which two confirmed ids may lose to a third.
For the tally, months of two days and a retention of one give the closest
boundary that the assumption `Retention >= MonthLength - 1` allows (the code has 62
and at most 31), and four days let a month pass and be forgotten; five calls are
two set-ups and one call more.

A session needs two callers for one to wait for the other, and one frame sent
unasked to begin inside a frame and still have two more to lose; an 8-byte frame
whose data begin like a 7-byte frame, with 5 bytes left, is the least that makes
the assembler swallow the beginning of the next one.

In `entries`, entries do not depend on each other, so two are more than enough; two
changes of options are what it takes for one to be saved while the reload for the other
is under way, and options are only compared, so two values suffice. In `codes` a call
and a panel make every pair of tasks; the second lock has a code that lasts and one that
has passed, so a cleanup has something to delete and something to leave, and the first
lock the key, so that an eKey action can go through the wrong lock. `schedule` has poll and slow
intervals that are multiples of each other, that are not, and a slow tier faster than
the polls; eleven units are nearly three days and more than two slow intervals, so rates
show. The locks of an entry share nothing but the counter, so one is checked and any
number is proved; the sensor's two answers without a level can follow each other or have
a failure between them.

In `auto_lock` thirteen moments are two days and half of the third, so the delay
crosses the end of a day and of the week; the settings have a period inside a day, one
up to a day's last minute, one that ends before it starts, and whole days. Two unlocks
and a change are what it takes for one to disturb the other. In `cloudhooks` three
entries are one that goes, one that stays and one that comes, and two ids are needed
because after a restart without entries a new one is made.

Symmetry is used for webhook ids, entries and counters, in runs of
invariants only.

No run checks deadlock: every counter is bounded, and a state in which the bounds
are used up and nothing is in progress is the end of the instance, not of the
system. That tasks do not wait for each other for ever is `CommandsEnd`.

### Properties with a condition, and why

`SerialStampsHold`, `SerialPendingMirrorsCommand` and `SerialVerdictIsEarned`
hold as long as no two tasks have been in progress at once and, the first one, no
call has failed, the last one, no crash undid a success (`lost`); TLC refutes them
without each condition. They say that the
sequential code is right and that its faults are those of overlapping copies,
which the hazards list. `TrafficSettlesIssue` holds unless consolidation was
ambiguous, `StopUnregisters` unless a removed entry joined the group.
`SerialTallyIsComplete` and `SerialFileCatchesUp` hold as long as no two counters
were created at once (`raced`) and no tally was dropped before it was saved
(`lost`: a crash, or the reload of the only entry within the delay of a save); TLC
refutes them without either condition.
`SerialAnswerIsOwn` holds as long as the lock sends nothing unasked and no command
of the session has timed out: a frame is taken for the answer to whatever is
pending, and the opcode in it is not compared. `PlainStartCostsOneFrame` holds as
long as no data with a magic in them were sent; with one, the assembler that begins
inside a frame may take the data for a frame and swallow the beginning of the next.
In `InStep` there is no such condition: an assembler that begins between two frames
is never misled. `SessionCloses` says of the connection that it is closed unless
a cancellation arrived during `stop_notify` or `disconnect` - `CancelledError` is no
`BleakError`, so the rest of the `finally` is skipped - or `disconnect` raised, which is
swallowed, since "there is nothing left to do about it" (`ble.py:221`); that the turn is
released it says without condition. TLC refutes each of the three without its condition.

`SerialChangeIsShown` holds unless two tasks were at work at once, a call failed, an
eKey was changed through another lock than its own or a panel was used after a reload;
`SerialCleanupIsExact` unless something overlapped or failed. TLC refutes them without
their conditions. `CallsWithinEstimate` counts, beyond the estimate, the fill at the
start, what a user asked for or a failure repeated, and every answer of a door sensor
without its battery level, whose queries nothing throttles; without the last TLC refutes
it. `SlowTierIsFresh` counts one poll interval for each push or failure: webhooks more
frequent than the poll interval keep a lock from being polled, and so the slow tier from
being fetched, as long as they go on.

The two properties of `auto_lock` hold unless a second unlock, a change of the settings
or the beginning or end of passage mode comes between an unlock and the lock's locking
itself, or the lock's clock is behind (`disturbed`): a timer can not be cancelled, and
what the code subtracts as delay of the report includes what the clock is behind.
`SerialUrlAnswers` and `SerialUserKnowsUrl` hold as long as no cloudhook was asked for
while it was being made or deleted (`raced`), the second one also only until a cloudhook
is deleted under a group that lives on (`emptied`, see section 4); `HookIsUsed` as long
as Home Assistant Cloud has not failed and no restart came in the middle of a deletion.
TLC refutes each without its conditions.

`ConfigConverges` uses one poll at a time: of two overlapping polls the first may
stamp the codes as fresh and the second then publish a copy from before.

### Fairness

`LockCoordinator`: a task whose call has returned is resumed, and calls return or
raise (aiohttp has a total timeout): weak fairness of each task. `asyncio.Lock`
serves its waiters in order, so who waits for `GW_LOCK` gets it: strong fairness
of `PollTakesGateway` and `CommandTakesGateway`, because the lock may be taken
by others again and again. Polls are scheduled for ever (`update_interval`, manual
sync off), the slow interval elapses again and again, a webhook arrives or is
lost, timers wake up. Commands, edits, `update_state` and turns are never bound
to happen. `DoorSensorProbe`: polls, their progress, and days passing.
`BleSession`: calls to the adapter return or raise (bleak times out) and the
`RESPONSE_TIMEOUT` of a wait passes; nothing is asked of the lock or of the link.
`ConfigEntries`: what holds an entry's `setup_lock` goes on, since its calls return or
raise, and the lock serves its waiters; weak fairness per entry. Neither the user
nor the options form is bound to act. `WebhookGroup`, `CloudhookLife`,
`ApiCallCounter`, `CodeManagement`, `AutoLock` and `PollSchedule` have safety properties only.

## 4. Findings

`webhook_only` is a run that TLC refutes: in webhook-only mode a poll that knows the
position does not read it again (`coordinator.py:423-425`: "state changes arrive via
confirmed-live webhooks, so skip the cloud re-verification call and carry the current
state forward"). It copies the data, with "locked", and waits for the list of codes; the
bolt is turned, and its webhook shows "unlocked"; the lists arrive and the poll publishes
its copy: the lock is shown as locked, and no later poll reads the position again. A
poll that does read it, after a restart or `update_state`, can do the same with an answer
from before the webhook.

Other disagreements with the documents, which the models show or their conditions
stand for, and no run is for:

* A probe for a door sensor adds one to the failures it read before its query. Two have
  failed; a poll asks and is answered "failed"; before it resumes, another poll, which a
  Sync button started, finds a sensor that has been paired meanwhile and stores no
  failure; the first then stores three, and the verdict. `coordinator.py:537` says "only
  give up after SENSOR_ABSENT_AFTER_FAILURES consecutive failures". It is why
  `SerialVerdictIsEarned` excludes overlapping polls.
* Two failures are in the file, the third probe finds the sensor, and Home Assistant
  crashes before the file is written: the next failure counts as the third, although the
  count is "persisted via self._store so the count - and the final verdict - survive HA
  restarts" (`coordinator.py:537-539`). It is the condition `lost`.
* A door sensor that is found but answers without its battery level does not count as
  present (`sensor_present`), so every poll looks for it, and no failure is stored that
  would throttle that. `usage_estimate.py:88`: "at most once per day per lock with a
  sensor". `CallsWithinEstimate` counts these answers (`blanks`).
* Ambiguous consolidation changes the webhook id of an entry and keeps its
  "confirmed" status, on which webhook-only mode relies (`coordinator.py:496-500`:
  "Requires both the option being enabled and this entry's webhook having been
  confirmed live"). Three entries show it, the second and third confirmed on ids of
  their own: they get the first one's id, on which nothing has ever arrived.
* `coordinator_for` goes through every entry of the integration and raises `KeyError`
  on one that is disabled, failed or being set up, so services fail for the locks of the
  entries after it. `services.py:404` says of the lookup: "Filters out any entity_ids
  that don't have associated coordinators."
* `passage_mode_active` looks at the day of the week before it looks at `all_day`, so
  passage mode that is all day but not on every day counts as over on the others.
  `services.yaml:25`: "If set, the enabled setting applies 24/7."
* `async_remove_entry` deletes the cloudhook with the last entry and leaves the group
  confirmed: an entry added before the next restart gets a new URL and is taken for
  live, and nobody is told. `webhook.py:84-85` gives as the purpose of `confirmed`
  that a sibling "doesn't get told to go register a URL that's already live".
* A poll that began during a command sets `action_pending` again after the command's
  `finally` (`lock_action` promises "that in-progress state is managed correctly").
* An answer "unknown" to the state query, or none, is shown as unlocked
  (`docs/ttlock-cloud-api/gateway/queryLockOpenState.md:28` has a value of its own
  for it).
* Unloading the last member does not unregister the webhook
  (`docs/adr/0002-shared-webhook-per-developer-application.md:5` says it does).
* Entries that are set up at once count in counters of their own
  (`__init__.py:53`: "one ApiCallCounter for the whole install").

## 5. Proofs

`LockCoordinator_proofs` proves for any number of polls, commands and re-fetches,
any set of tracked parts, any options and any bounds:

* `TypeCorrect`: `Spec => []TypeOK`. `CourseType` says where a poll goes next,
  `ContinueType` that going on keeps the types; then one lemma per group of
  actions. `TypeOK` is inductive by itself.
* `GatewayExclusive`: `Spec => []OneGatewayCall`. That two calls are never out at
  once is not inductive: it says nothing of `gw`, and a task enters when `gw` is
  empty. The invariant `GatewayInv` adds `OnGateway = gw`: the tasks whose
  call is out are those inside the lock, so an empty lock means no call.
* `UnlockedNeverGuessed`: `Spec => []UnlockedIsReported`. The shown state may come
  from a copy, a reply, a webhook or the target of a command carried out, so the
  invariant `UnlockedInv` says of all of them that as long as the lock has never
  been unlocked and no answer was unclear (`seen = {}`), nothing anywhere says
  "unlocked". `SeenGrows` is what carries it over a step.
* `PendingMirrors`: `Spec => []SerialPendingMirrorsCommand`, and `StampsHold`:
  `Spec => []SerialStampsHold`, from one invariant, `SerialInv`. It says, of a history in
  which no two tasks overlapped, that at most one is in progress (`Alone`), that the
  copy which a poll or a re-fetch carries has no command pending, because none began
  since, and, as long as no call has failed, that the data, or the copy of the poll in
  progress, has every part that is stamped (`Covers`).

The assumptions are those of the module: task slots of different kinds are
different (`TaskAssumption`), options are Booleans, bounds are naturals.

`LockFeatures_proofs` proves of `DoorSensorProbe`, for any number of polls, any positive
number of failures that make the verdict (`AbsentAssumption`) and any bounds:

* `ProbeTypeCorrect`: `ProbeSpec => []ProbeTypeOK`. That the count of failures stays within
  `AbsentAfter` is not inductive: a poll adds one to what it read. `CountInv`
  adds that a record says "absent" exactly when its count is `AbsentAfter`, in
  memory, in the file and in what a poll has read, so a poll that adds one read
  less than that.
* `VerdictIsQuiet`: `ProbeSpec => []QuietAfterVerdict`. `QuietInv` adds that before
  the recheck of this run nothing has been asked for the verdict.
* `SerialVerdictEarned`: `ProbeSpec => []SerialVerdictIsEarned`. `Serial` says, of a
  history in which no two polls overlapped and no crash undid a success (`lost`), that
  one poll at most is in progress, that what it read is still what is stored, and that
  no count exceeds the streak of failures: in memory always, in the file unless a
  success is about to be saved, which a crash would undo. `SerialStep` reduces each
  step to the poll that takes it.

`BleSession_proofs` proves, for any callers, kinds of frames, sizes, cuts into
notifications and bounds, the four invariants of `ble_session`, `TypeOK`, and that the
session implements `CommandExchange`. `SessionCloses` covers calls that raise,
`stop_notify` and `disconnect` included. It assumes what the code's constants satisfy: a
magic of one byte or of two different ones that is shorter than the header
(`LengthAssumption`, `MagicAssumption`; it is `7F 5A`), frames whose data fit
(`ImageAssumption`), and that no kind of frame is called "none".

* The loop of `feed` is a recursive function, `Cut`. `SetInduction` is induction over the
  naturals, derived from the well-foundedness of `<` for a set instead of a predicate;
  with it `CutUnfolds` shows that the recursion is well-defined, and lemmas follow it
  round by round: what one call gives out and keeps, and that feeding a stream in two
  pieces gives the same as feeding it whole.
* `SessionClosed` (`SessionCloses`) is about closed sessions and not inductive:
  `SessionInv` adds that a command is out exactly while its caller holds the turn (so
  commands are serialised), that the turn is held in the body only, and that no
  connection is there before a session connects.
* `StaysInStep` (`InStep`) and `PlainStart` (`PlainStartCostsOneFrame`): `BufferInv` says
  that no frame is complete in what is kept, `WireInv` that whole frames, or the end of
  one, are in the air, and `SyncInv` that what is kept followed by what is in the air is
  such a stream again, as long as it is known how the assembler fares (`Followed`): with the
  data of a frame that contains a magic, a session that starts within it may miss more.
* `AnswersAreOwn` (`SerialAnswerIsOwn`): `OwnInv` follows one command, from the request to
  the lock's answer, its bytes in the air, in the buffer and in the pending future.
* `ExchangeImplemented` (`ExchangesCommands`): `ResultInv` says that results are there once a
  call is over. Every step of the session is one of the exchange or none, under
  the refinement mapping of `BleSession`; `IInv` is the conjunction of these invariants.

`ConfigEntries_proofs` proves, for any set of entries, any non-empty set of options
(`OptionsAssumption`) and any bounds, `TypeCorrect`, `ShownKept` and `SavedOptionsUsed`
from one invariant, `EntriesInv`: `TypeOK` and, for each entry by itself,

* `ListenerInv`: a listener is there from the first await on, and at the beginning of
  a set-up there is at most one per failure. `TypeOK` bounds the listeners and is not
  inductive without it: each set-up adds one.
* `PartsInv`: what the set-up has stored by each of its awaits.
* `ShownInv`: entities are shown in the states "loaded" and "failed unload" only, and
  no set-up runs meanwhile, so nothing replaces the record they look up.
* `OptionInv`: unless a reload waits, snapshot and coordinators have the saved options.
  It speaks of the stretch from the snapshot to the end, because the listener compares
  with the snapshot and the coordinators are made one await later.

`CodeManagement_proofs` proves, for any locks, codes, selections, bounds and any
number of tasks, from the assumptions of the module (tasks, ids and `None` are
different; selections are not empty; `DataAssumption`: `None` is no data):

* `TypeCorrect`: `Spec => []TypeOK`. `TasksInv` adds that a task in progress is
  `Formed`: it has locks left, coordinators that exist, a setting to store where it
  stores one, and lists before deleting only in a cleanup. Without it the first of its
  locks, or the data it writes, need not exist.
* `GatewayHeldAtWork`: `Spec => []GatewayIsAtWork`, by `GatewayInv`, which is `TasksInv`
  with it. `QuietStep` is for steps that touch no relayed call, `LeaveInv` for the end of
  one, `GatewayTaken` for its beginning.
* `ChangeIsShown`: `Spec => []SerialChangeIsShown`, and `CleanupIsExact`: `Spec =>
  SerialCleanupIsExact`, an action property, from `LoneState`. Of a history that nothing
  disturbed it says, for each stage of the one task in progress (`InProgress`), that at
  its lock nothing is out of date but what the rest of its handler brings up to date,
  and that every other lock shows what the cloud has (`Matches`). A cleanup knows all
  codes that have passed: those it has still to delete and the one it is at (`Cleaning`).

`WebhookGroup_proofs` proves the five invariants of `webhook_group` and `TypeOK`, for any
finite number of entries with any stored data (`EntryAssumption`; finite, because the
refcount is compared with a cardinality), any webhook ids and any bounds. None of
them is inductive; all follow from one invariant, `GroupsInv`:

* `FreshInv`: nothing is there yet when Home Assistant starts.
* `GroupInv`, `HookInv`: one task resolves, and only while there is no group; whoever
  takes part - has joined, or still listens for the stop (`Bound`) - has the group's id;
  a handler is for that id, by an entry that has it. Without the listeners in `Bound`,
  `unregister_webhook` of an entry that has failed since could clear another id.
* `DataInv`: URLs fit ids, and a status comes with an id.
* `IssueInv`: in a confirmed group no issue is open and all who joined have the status;
  in another, whoever lacks it has been told.
* `TrafficInv`: after a consolidation without doubt no entry has a status that the
  group has not, so the registering member's status, the only one a webhook looks at,
  speaks for all. `CanonicalConfirms` shows that of `_resolve_group_webhook_id`: an id
  that is chosen without doubt and is not confirmed leaves no confirmed entry.
* `CountInv`: the refcount is the number of listeners for the stop, counted as a set of
  pairs (`Listeners`), unless an entry joined and failed. `StopUnregisters` is then: no
  listeners, no group, no handler.

`Agree` is what a group and the entries' data must satisfy for `JoinGroup` to keep all
this; `Join` and `Resolve` each establish it, and `JoinGroupInv` is proved once.

`CloudhookLife_proofs` proves `TypeOK` and the three properties of `cloudhooks`, for any entries
and any bounds, from `CloudhooksInv`: entries that have an id have the same, the
group's (`IdInv`), so that an id can not be taken from the last entry that uses it; a
stored URL is of its entry's id (`UrlInv`); without a race at most one cloudhook is being
created, for an id that has none, and none that is being deleted has users (`RaceInv`).
`SerialUserKnowsUrl` needs more: `KnowsInv` adds who takes part in the group (`MemberInv`),
that an issue that is open tells a URL of the group's id (`ToldInv`), and that whoever
is confirmed is so through the URL that TTLock really calls, which answers, as does
the URL that was told (`AnswerInv`).

`LockFeatures_proofs` also proves both properties of `auto_lock` and `TypeOK`, for days
and weeks of any length, any delay, any configurations of passage mode, any skew and any
bounds. `StaysOpenWhenActive` shows that the code's test of weekday and minute is, at
every moment, membership in the lock's set of minutes of the week (`MinutesOfWeek` is
the arithmetic). Of an undisturbed unlock, `PendingInv` says that every report fits it,
that a timer runs only if the lock locks itself, and not for less than that takes
(`TimerFits`), and where the bolt is before and after the delay; `SettledInv` that
afterwards the lock is shown as it is and will not move any more.

`ApiUsage_proofs` proves of `ApiCallCounter`, for any entries, counters, days, months,
retention of at least a month (`RetentionAssumption`; the code keeps 62 days) and
bounds, the four invariants of `api_counter`, from `CounterInv`:

* `CounterTyped` is the type invariant with `Distinct`: no counter is queued twice, which
  is what `CounterTypeOK` says by counting.
* `DaysInv`: nothing is tallied for days to come, and the days of each tally lie in one
  window (`Window`), so that there are at most `Retention + 1`. This needs no condition:
  `DaysBounded` holds however counters race.
* `SharedInv`, as long as no two counters were created at once: one counter is shared by
  all that are connected, or one is loading.
* `MonthInv`, as long as in addition none was dropped unsaved: this month's calls are in
  the shared counter, in the one that is queued, and in the file if none is.

and of `PollSchedule`, for any finite set of locks (`LockAssumption`; the estimate is of a
number of locks), any positive intervals (`OptionAssumption`) and bounds, `TypeOK` and
the two invariants of `schedule`, from `ScheduleInv`:

* `DueInv`, `StampInv`: a poll is due within an interval from now and never missed; stamps
  have passed. `FreshInv` says when a part of the slow tier will be fetched at the latest,
  in terms of the next poll's date, so that it survives pushes, which move that date.
* `LocksInv`: the calls of all locks but those `Beyond` the estimate are the size of a set of
  triples of a lock, a call and a number (`Made`), since the provers can not reason about
  sums; each lock's calls are spaced out by their interval (`RegularInv`), so the number
  of one is bounded by the time that has passed, and the size of the whole by that bound
  for each of the pairs (`MadeBound`). Which queries of a door sensor are spaced out is
  not what `Spaced` says of the others: `SensorSpaced` counts those that told something,
  of which the last is dated by the data if the level is known and by the failure in the
  store if not. `GatewayInv` is the same for the one gateway coordinator.

Model-checked only: liveness, which is out of the prover's reach - `ViewConverges`,
`CommandsEnd`, `ConfigConverges`, `ProbeSettles`, `SessionEnds`, `SetUpsSettle` - and the
finding of `webhook_only`, which TLC refutes.
Every invariant and every action property of the passing runs is proved.

## 6. Plan

In order of importance; the first nine are done.

1. `LockCoordinator` with proofs: the state everything else shows.
2. `WebhookGroup` with proofs: persisted state, shared and rewritten by concurrent tasks.
3. `DoorSensorProbe` with proofs: a verdict kept over restarts.
4. `ApiCallCounter` with proofs: a tally shared by entries, saved with a delay.
5. `BleFrames`, `BleSession` with proofs and `CommandExchange`, which it implements.
6. `ConfigEntries` with proofs: options, reloads, and what is found of half-set-up entries.
7. `CodeManagement` with proofs: services and the options panel.
8. `PollSchedule` with proofs: the schedule against the usage estimate.
9. `AutoLock` and `CloudhookLife` with proofs: passage mode over time, the URLs of cloudhooks.
10. The ring buffer of the capture.
11. Composition: `WebhookGroup`'s status as `WebhookConfirmed` of a coordinator.

Abstract specifications worth stating: a mutex that `LockCoordinator` implements
for the gateway; a register that is written by events and read by polls, for
the view of a lock; a verdict with a count of failures, for the door sensor; a
monotone count, for the API counter.

Theorems worth proving next: the step simulations of the abstract specifications
above.

## 7. Not modelled, and why

Entities, apart from their buttons and switches, and diagnostics are functions of
state that is modelled. AES, the checksum and the key formats of `ble_protocol.py` are
computations on bytes that TLC could only sample and that `tests/` covers with
vectors. OAuth and the device registry are Home Assistant's; the validation of forms
and of services' schemas is a function of what is typed. Parsing of answers and of
webhooks is a conversion whose results the modules name. Redaction of captured
traffic is string processing.
The rest is in the plan above; `PROJECT.json` has the state of each component.
