# BTicino MyHome: specifications, model checks and proofs

The integration under `src/custom_components/bticino_myhome` connects Home
Assistant to one MH201 gateway per config entry, over two OpenWebNet sessions.
It is asyncio code: one thread, many tasks, and every `await` a place where
another task may change what the first one read. This project models the parts
in which that, or a long sequence of legal calls, decides correctness. All line
numbers below refer to the sources of that directory.

## 1. Inventory

| Component | State it keeps | Operations | Hard behaviour |
|---|---|---|---|
| Gateway sessions and tasks, `gateway.py` | `_command_session`, `_event_session`, `_command_connected`, `_event_connected`, `_closing`, `_command_lock` with its queue, `_event_task`, `_command_reconnect_task` | `async_connect`, `async_close`, `async_send`, event loop, command reconnect loop | callers, loops and unload interleave at each await; cancellation; timeouts; late replies |
| Device inventory, `device.py` | `_devices`, listeners | `add`, `remove`, `replace`, `as_dicts` | long sequences of changes; manual against discovered |
| Dynamic entities, `platform.py`, `sensor.py`, `binary_sensor.py` | one table of live entities per platform, the shared door-entry log | listeners for add and remove, set-up, unload | derived state that must follow the inventory |
| Options flow and persistence, `config_flow.py:404-648`, `__init__.py` | `entry.data["devices"]`, a running scan | scan, learn, manual, remove, registry removal, load, unload | the scan writes, after minutes, to what it captured |
| Discovery engine, `discovery.py` | `_found`, a listener | probes, passive events, merge | evidence in any order, rejected and failing probes |
| Entities, `entity.py` and platforms | availability, decoded state, two subscriptions | hydration, event handlers, commands | old answers after new events, reconnection without refresh |
| Climate, `climate.py`, `protocol/thermoregulation.py` | mode, action, preset, setpoint | commands by profile, mode, setpoint and output frames | two tables that must be inverse, state derived from several frames |
| Burglar alarm, `alarm_control_panel.py`, `binary_sensor.py`, `protocol/alarm.py`, `services.py` | what panel and sensors show | arm, disarm, partitions, status requests | shared addresses, snapshots that overtake events, partition masks |
| Protocol codecs, `protocol/` | none | parse, normalise, build, encode | boundaries of ranges and fields |
| Config flow and identity, `config_flow.py:1-400`, `discovery.py` | unique id, host, port | user, SSDP, reauthentication, reconfiguration, migration | address changes, two entries for one gateway |
| Actions, triggers, diagnostics, bus monitor | none | look-ups and I/O | - |

How they meet: an entity, an action or a scan calls `gateway.async_send`; the
gateway dispatches frames to the listeners of entities, scans and the bus event;
connection flags reach entities through connection listeners; the options flow
changes the device manager, whose listeners change the entities, and then
persists; load rebuilds manager and entities from what was persisted; unload
closes the gateway.

What makes each correct, in a sentence: the *gateway* gives one caller at a time
the channel, returns each its own reply, comes back after a loss and leaves
nothing behind when closed; the *inventory* keeps entities, manager and persisted
list in step, and only the user removes; *discovery* keeps the strongest evidence
whatever the order; *entities* show the latest evidence and are available exactly
when both channels are; *codecs* invert one another inside their ranges;
*identity* gives one gateway one entry.

## 2. Modules

| Module | Role |
|---|---|
| `CommandChannel` | what a user of `async_send` may rely on: an abstract channel with one exchange at a time |
| `Gateway`, `GatewayProofs` | `class BticinoGateway`, one action per stretch between two awaits, and its theorems |
| `Inventory`, `InventoryProofs` | device manager, entity tables, door log, persisted list and options flow |
| `Discovery`, `DiscoveryProofs` | `BticinoDiscovery`: passive and active scans, several on one gateway |
| `EntityState`, `EntityStateProofs` | subscription, availability, requests, events and answers of any entity |
| `Protocol` | builders, parser and decoders, with light, shutter and meter |
| `Climate`, `ClimateProofs` | one thermoregulation zone under every profile |
| `Alarm`, `AlarmProofs` | the burglar alarm: panel, sensors, the two alarm actions |
| `Handlers`, `HandlersProofs` | `Climate`, two instances of `Alarm`, and `Protocol`, side by side, and the theorems about all of them |
| `GatewayIdentity`, `GatewayIdentityProofs` | config entries, unique ids and flows while gateways move |
| `MCGateway`, `MCInventory`, `MCDiscovery`, `MCEntityState`, `MCGatewayIdentity`, `MCHandlers` | instances for TLC |

How they fit: `Gateway` gives `EntityState`, `Discovery` and `Alarm` exchanges
that end or fail, and flags that tell the truth. `EntityState` treats a state as a
number and asks how old it is; `Protocol`, `Climate` and `Alarm` say which state a
frame means. `Discovery` proves what `Inventory` takes as its `Findings`. The host
`Gateway` connects to is the one `GatewayIdentity` writes into the entry.

### Gateway

A program counter names the await at which each task is suspended: `entry` for
`async_setup_entry`/`async_close`, `eventLoop` for the event worker, `pc[t]` for
each caller of `async_send` and for the reconnect loop (`Recovery`). `sess[t]` is
the session object a task holds in a local variable, `holder` and `waiters` are
`_command_lock` and its queue. `unread` stands for the command stream: the callers
whose reply it still owes, oldest first. `open` holds the session objects that were
constructed and not closed.

An action is named for what resumes the task: `SendGranted` is
`async_send` from the moment it gets the lock, through the second test of
`_closing`, to its next await, `SendDropped` the rest of the error branch once
`_safe_close` has returned, `RecoveryWake` the reconnect loop after its backoff.
Starting a task (`StartRecovery`) only makes it runnable.

What is abstracted: frames and their dispatch (no gateway state depends on them,
and listeners' exceptions are caught, `gateway.py:334`, `343`); the length of
timers (a timer may fire whenever the task is suspended); which error it was,
where the branches do the same; `BticinoGatewayAuthError` at run time, which the
loops treat like any other connection error. A rejected command ends an exchange
exactly as an accepted one, so both are `SendReply`.

Bounds: `Sessions` is the number of session objects alive at a time, not of all
that are ever constructed, and a closed one is used again. `MaxAbandoned` bounds
the replies left on the stream by cancelled callers.

### Inventory

`devices` is the manager's dictionary, `entities[p]` the table of platform `p`
with what each entity was built from, `persisted` the entry's list. A device is a
key and a record of its type, its source and whether it has the optional
capabilities (position control, climate profile). Everything but the scan runs
without an await and is one action that includes the listeners and
`_persist_devices`. The scan is three steps: capture and probe, listen, write. A
scan whose entry was reloaded meanwhile is `"stale"`; `overtaken` records that such
a scan wrote its old inventory and nothing has been persisted since.

What is abstracted: names and the other capabilities; whether a WHO=18 address is
that of a meter (`TypesOf` gives `energy` to meters only); the await between the
unloading of the platforms and the closing of the gateway. From Home
Assistant the model takes: unloading deletes `runtime_data` and calls the
`async_on_unload` callbacks, which remove the listeners; an open options flow
survives a reload.

`ConstantsAssumption` says that the types a key may have belong to one platform,
which `_ALLOWED_MANUAL_TYPES` (`discovery.py:160`) ensures for the documented
families. For any other WHO the code accepts any type, and registering the same
address again with another leaves both entities; that case is outside the model.

### Discovery

`stage`, `at` and `listening` are where a scan is, which address it probes next and
whether `_on_event` is registered; `found` is `_found`, a record of capabilities and
source by key. An answer to a probe reaches a scan twice: dispatched by the
gateway to every listener (`Heard`), and as the result of the exchange, stored as
active evidence (`Answered`). A NACK (`Rejected`) comes after the dispatch of what
preceded it. `After` is the
loop over the frames, `Store` the merge `_store_found_device`, `Leave` the `finally`
clause. Names and the extra fields of a device are left out.

### EntityState

A point is one fact about the bus; its states are numbered in the order in which they
hold, so that "older" is `<`. `stream` is what the event session has not read,
`exchange` the one exchange on the command session with the answers it has so far.
`Construct` and `AddedToHass` are two steps, because the entity reads the flag in one
and subscribes in the other. Answers are dispatched when the exchange ends
(`gateway.py:299`), events when they are read. Cancelled request tasks, both
channels' losses and returns, and failing exchanges are actions of their own. A
disturbance of the reply stream is `Gateway`'s subject and does not occur here, except
that what a cancelled request had been answered stays for the next exchange.

### Protocol, Climate, Alarm

`Protocol`: a frame is its fields, each with its text and the place of its `#`;
`BuildCommand`, `BuildGoToLevel` and the others are the builders, `ParseFrame` the
patterns of the parser in their order, `Handled` the handlers of `light.py`,
`cover.py` and `sensor.py`. The MH201 may relay what any client writes, so that every
frame the integration builds also comes in. Left out: the text of numbers, priority and
information fields of a shutter status.

`Climate`: a WHAT is an operation of a family, which is how the catalogue numbers them.
The commands are total over the modes and presets the profile offers; a zone obeys,
changes by itself, and reports operation, setpoint and outputs in any order. Setpoints
are in hundredths where the user gives them and in tenths on the wire. Measured
temperatures are shown as decoded and left out. `told` keeps what the last frames said that
is still true; "mode" in it means that a mode was reported after the outputs were. A zone
is assumed to send operations of its own profile only (`ZoneWhats`).

`Alarm`: the central keeps a WHAT for each point, an entity shows what its handler
makes of the frames, which arrive in any order (`inbox`), or are lost with the event
channel. Each entity asks for its status when it is added (`Asked`), and an answer
tells of everything the WHERE stands for. `alarm` has the kinds of alarm there were since
the arming last changed, and `reread` what answers told the panel since then. The two
actions (`ArmPartitions`, `SetPartition`) include the look-up of a loaded entry,
`_normalize_partitions`, and the digits in which the list is sent (`Mask`), which the central
reads one by one; their order and repetitions mean nothing to it.

### GatewayIdentity

`entries` is the list of config entries with what identifies them, `flow` each flow
with what it learned before its last await, `address` where each gateway is.
`HandleExisting` is `_handle_existing_gateway`, `ReconfigureChecked` and `Reconfigured`
the two halves of the reconfiguration around its connection test, `Migrated` is
`async_migrate_entry`. `RuntimeId` is the identity entity ids are made of. A
`setting` fixes an installation: who is configured with or without metadata, which
flows run, whether discovery learns serial and UDN, whether addresses are reused; it
never changes, and the properties name the settings they hold in. Passwords, and with
them reauthentication, ports, titles and forms are left out.

## 3. Runs

Seven runs pass. Distinct states and the time they take with two workers are rounded.

| Run | Instance | Shows |
|---|---|---|
| `gateway_tasks` | 2 callers, both cancellable, 4 sessions, 2 abandoned replies; 169 000 states, 80 s | `TypeOK`, `ChannelFlagsAgree`, `ExchangeOnInstalledSession`, `CloseStopsTasks`, `NoConnectAfterClosing`, `SendTerminates`, `EventRecovers`, `UnloadCompletes` in every interleaving, with cancellation |
| `gateway_recovery` | 3 callers, none cancelled, 3 sessions; 23 000 states, 6 s | `OwnReply`, `NoOrphanSession`, `RecoveryArmed`, `CommandRecovers`, and that `Gateway` implements `CommandChannel` |
| `inventory` | a cover and two door devices; 59 000 states, 15 s | `TypeOK`, `EntityPerDevice`, `DoorLogFollowsDevices`, `PersistedIsInventory`, `ManualIsKept`, with reloads during a scan |
| `discovery` | two scans, a shutter that is probed, a scenario, a group; 65 000 states, 80 s | `TypeOK`, `FoundIsEvidence`, `ListensWhileRunning`, `ScanEnds` |
| `entity` | two climate entities that share a zone, three requests each; 93 000 states, 70 s | `TypeOK`, `AvailableIsConnected`, `NothingInvented`, `StaleForAReason`, `RequestsEnd` |
| `handlers` | every climate profile; alarm with two partitions and with one; light, shutter and meter; 1 360 000 states, 130 s | `ObeyedIsShown`, `ActionIsReported`, `ShowsWhatItOffers`; `SensorsFollowTheCentral`, `PanelFollowsTheCentral`, `ArmedAsAsked`; `ReportedIsShown`, `QuestionsShowNothing`; `TypeOK` |
| `identity` | five installations of two gateways, two flows; 1 700 000 states, 75 s | `TypeOK`, `OneEntryPerGateway`, `EntryKeepsGateway`, `RuntimeIdIsKept` |

Five runs end in a counterexample, which is what the code does:

| Run | Property | What happens |
|---|---|---|
| `gateway_close_race` | `ClosedReleasesSession` | a caller is inside `session.connect()` while `async_close` runs; `_closing` is not tested again (`gateway.py:288`), so it installs its session in a closed gateway |
| `gateway_cancelled_exchange` | `OwnReply` | an initial-state task cancelled while it awaits its reply (`gateway.py:306`) leaves the reply on the stream for the next command |
| `gateway_cancelled_drop` | `CommandRecovers` | cancelled between dropping the session and arming its recovery (`gateway.py:315`), a caller leaves the channel down |
| `inventory_stale_scan` | `RemovalIsExplicit` | a scan that outlives a reload persists the old inventory (`config_flow.py:507-525`) |
| `handlers_technical_reset` | `AlarmShownIsInProgress` | the panel takes WHAT=12 as an alarm and not WHAT=13 as its end (`alarm_control_panel.py:71`): it stays triggered after a technical alarm was reset, while the auxiliary's sensor is off |

The three gateway counterexamples are why the gateway has two passing runs: what
`gateway_tasks` shows holds with cancelled callers, what `gateway_recovery` shows needs
that no caller is cancelled.

What the less obvious properties say. `StaleForAReason` lists the only three reasons for
which an entity shows an old state: the frame is still to be read, it was lost with the
event channel, or an answer prepared before it was dispatched after it. The second
and the third are real limits of the code, since a status request is never repeated.
`FoundIsEvidence` makes the result of a scan a function of the set of frames that
passed, so that their order and the other scans do not matter. `RequestsEnd` says that
each request of an entity is made, so that one that fails does not take the next with it.
`PanelFollowsTheCentral` says for which alarms the panel is triggered: one since the
arming last changed, or a technical alarm that outlasted an arming and was named in an
answer. It may forget an alarm in one way, to the "engaged" of the snapshot that a dozen
entities ask for when added. Whether the alarm is still in progress is not part of it but
of `AlarmShownIsInProgress`, which the code does not keep. `ActionIsReported` says how far
the action of a zone follows its outputs. As long as the last output frame is true, heating and
cooling are shown for open outputs only; but any mode or DIM=12 frame sets the action to idle
or off (`climate.py:285-312`), so that after one an open output is not shown until the
next output frame, and no request of the integration asks for one. Before any mode is
known, a frame with both outputs idle leaves the action as it was (`climate.py:270-273`).
`ShowsWhatItOffers` holds for a zone that sends operations of its own profile.
`ArmedAsAsked` compares what the central reads from the digits with the list the user
passed. `OneEntryPerGateway` and `EntryKeepsGateway` say
under which conditions on discovery and addresses one entry stays one gateway's; two
entries without metadata are exempt from having different unique ids, for the reason
given at the end of section 5.

Why the bounds are enough.

- *Gateway.* Two callers and the reconnect loop already meet at the lock in every
  order; with three the queue is longer than one. Sessions: one installed, and one for
  each task that can be opening or closing one; too few would show as a deadlock. One
  abandoned reply shifts a stream, two shift it twice.
- *Inventory.* Devices are independent but for the door log, which two door devices
  exercise; a cover is the device with optional capabilities, a door device the one
  with two types.
- *Discovery.* The merge treats each key by itself; the three keys are of the three
  kinds the code tells apart. Two scans are one that probes and one that overhears.
- *EntityState.* Two states of a point give an old and a new one, three an old one that
  is overtaken twice; two unread frames give an order. The two entities are one that
  commands and one that shares its points; a climate entity is the one with the most
  requests, so that the first, the second and the last of them may fail. Only the mode
  changes: the theorems of `EntityStateProofs` are about any number of changing points.
- *Handlers.* The modules have no variable in common and are checked in one
  run, in which `part` picks the module, so that every state is one of one module.
  Temperatures are below the range, at its end, and halfway between two steps;
  partition lists are empty, repeated, disordered and out of range at both ends; the
  payloads lie on both sides of every limit of the decoders. The alarm is looked at
  with two partitions and one change of the central, and with one partition and two.
- *Identity.* Two gateways suffice to confuse one with the other, two flows to overlap.
  Two entries at most, so that there is one that belongs to each. The entries are both
  complete, both without metadata, or one of each.

Deadlock is checked in all runs but `identity`: a closed gateway with nothing left to
run takes the explicit step `Terminated`. In `identity` a reconfiguration that is refused
is no step, and two entries that were given one unique id are refused every one.

Fairness. Every await in `gateway.py` except the read of an event has a timeout
or is a sleep, and the asyncio loop resumes what is ready, so each task's steps
are weakly fair (`TaskFairness`). No call, cancellation, unload, frame or loss is
ever forced. `NetworkRecovers`, that a connection tried again and again succeeds
once, is an assumption about the device: without it no channel need come back.
`Discovery` needs that a probe ends, as `async_send` does, and that a sleep does.
`EntityState` needs that an exchange ends, one way or the other, and that a request
task which finds the channel free again and again gets it, which the queue of
`_command_lock` gives it: strong fairness of `Request`. The other modules claim no
liveness.

## 4. Proofs

`GatewayProofs` proves, for any set of callers and session objects:

- `TypeCorrect`: `Spec => []TypeOK`.
- `Invariance`: the inductive invariant `IndInv`. The properties are not inductive
  alone. That flags agree needs to know what every task holds when it installs or
  drops a session (`ConnectInv`, `SetupInv`); that no session is replaced under an
  exchange needs the lock discipline (`LockInv`: who is at an await inside the
  lock is its holder), and what `_closing` rules out (`ClosingInv`). TLC checked
  `IndInv` as an invariant first.
- `FlagsAgree`, `ExchangeStable`, `CloseIsFinal`, `NoLateConnect`: the safety
  properties of `gateway_tasks`, from `IndInv`.
- `RepliesAreOwn`: `OwnReply`, under the assumption `Cancellable = {}`. The extra
  invariant `ReplyInv` says that the stream owes exactly the running exchange.
- `Refinement`: `Spec => ImplementsChannel` under the same assumption, step by
  step, with `IndInv` and `ReplyInv`.

- `NoConnectionLost` and `RecoveryIsArmed`: `NoOrphanSession` and `RecoveryArmed`, also
  under `Cancellable = {}`. `LastingInv` joins the two with `HandsInv`: a task that
  neither opens, uses nor drops a session holds none, so that nothing is lost when it
  takes one, and `async_connect` has installed a session before it turns to the event
  channel, so that the loaded entry starts with both.

`InventoryProofs` proves, for any keys, allowed types and platforms:

- `InventoryTypes` and `InventoryInvariance`: `IndInv`, that is types,
  `EntityPerDevice` and `DoorLogFollowsDevices` together. They are inductive once taken
  together with the typing, which says that a record's type is one its key allows: a
  record that is overwritten stays on its platform only because a key has one family
  (`SameFamily`). `AddStep` and `RemoveStep` treat the two ways to change the
  inventory once for all the flows that use them.
- `EntitiesFollowDevices` and `DoorLogIsShared` follow, with reloads under a scan or
  without.
- `PersistedInStep`: `PersistedIsInventory`, that inventory and persisted list agree
  unless a stale scan has just written. `inventory_stale_scan` shows what it does.
- `ManualRecordsKept`: the action property `ManualIsKept`, from the steps alone.

`GatewayIdentityProofs`, for any gateways, addresses, flows and installations:

- `TypesCorrect`, and `RuntimeIdKept`, the action property `RuntimeIdIsKept`. Each step
  that touches an entry goes through `Updated` or through migration, and both fix
  `RuntimeId` (`UpdatedEntry`, `MigratedEntry`); a created entry has a number no other
  had, so it cannot be mistaken for one that stays.
- `IdentityInvariance`: the inductive invariant `IdInv`, which TLC checked first. It holds
  in the two kinds of installation the properties are about, `Fixed` (entries are only
  reconfigured) and `Fresh` (discovery is complete, addresses are not reused, no entry is
  without metadata). The properties speak of entries, but what may break them is what a
  flow learned two awaits ago, so the invariant says of every flow in progress what it
  may write whenever it comes to it: a reconfiguration the metadata of its own entry and
  of no other (`ReconfigureOK`), a creation the metadata of a gateway that is still the
  only one its address was ever given to (`CreateOK`, `ServedBy`). The creation may be
  overtaken by another of the same gateway; the entry that one made then has the same
  unique id and is removed (`CreatedIsGood`). Initially each gateway has at most one
  entry, by counting (`InitialOrder`).
- `OneEntry` and `KeepsGateway`: `OneEntryPerGateway` and `EntryKeepsGateway`, from it.

`EntityStateProofs`, for any entities, points, requests and reports:

- `AvailabilityIsTrue`: `AvailableIsConnected`. It is inductive with the types of the
  flags: every step that changes a flag goes through `SetConnected`.
- `EntityTypes`: `TypeOK`.
- `NothingIsInvented`: `NothingInvented`. What an entity shows comes from a frame, so the
  invariant says of every frame on the stream and of the answers of the exchange,
  also those a cancelled task left there, that they tell of a state the bus has been in
  (`Told`).

- `StaleHasAReason`: `StaleForAReason`. `ShownIsRead` is what has to be added to `Told`:
  what a subscribed entity shows of a point is no older than the last event read of it,
  unless an older answer was dispatched since. Frames leave the stream only by being read
  or by being lost, so a state that is newer than the last one read is on the stream or
  will never be.

`DiscoveryProofs`, for any scans, keys, groups and probes, and exchanges of at most two
frames (`Responses`):

- `ListenersAreRemoved`: `ListensWhileRunning`.
- `FoundInvariance`, and from it `TypesCorrect` and `FoundIsTheEvidence`, that is `TypeOK`
  and `FoundIsEvidence`. `Right` says of any devices, frames and confirmed keys that
  the devices are what the frames prove. It is kept by a frame that is heard
  (`HearOne`), and by one that is taken for an answer after it was heard
  (`ConfirmOne`), so that it is by an exchange (`HearAll`, `ConfirmAll`). The loop `After`
  is a recursive function; for so few frames the function its equations define is
  written down (`AfterEquations`), which needs no induction.

`ClimateProofs`, for any profile and temperatures: `ZoneInvariance`. What is shown after a
command follows from what the zone obeys (`ZoneObeys`, with `AskedType` for what was
asked of it), what the entity makes of the frames it has read (`EntityShows`), and two facts
about the tables of `protocol/thermoregulation.py`: the WHAT of a mode or preset the
profile offers is decoded to that mode or preset (`ModeIsObeyed`, `PresetIsObeyed`), and
every WHAT a zone sends shows a mode and a preset the entity offers (`ZoneShows`).
`HalfDegrees` is the rounding of setpoints: a temperature inside the range is sent as
the nearest half degree, in tenths.

`AlarmProofs`, for any partitions out of 1..8, lists of them and number of changes:
`AlarmInvariance`. The properties hold when no frame is on its way; the invariant has to
say what holds between the frames of one answer, in whatever order they come. What a
frame under way says is true (`InboxIsTrue`); a sensor that shows anything, and was told
of every change, shows the central's state or is about to be told (`SensorsAreTold`), and
so does the panel (`PanelIsTold`); an entity whose request was answered shows something or
is about to (`AnswersAreShown`). `ArmedAsAsked` needs that a list of partitions is accepted
only as a whole, and that its numbers have one digit each, so that the central reads what
was listed (`Accepted`).

`HandlersProofs` proves the same of light, shutter and meter, and puts the four together:

- What the parser makes of each builder's frame (`ParsedCommand`, `ParsedDimension`,
  `ParsedWrite`, `ParsedStatusRequest`, `ParsedDimensionRequest`), that a frame of one family
  is not taken for one of another (`ParsedFamily`, `OtherFamily`), what each handler makes
  of it (`HandledLight`, ...), and from these, frame by frame (`LightFrame`,
  ...) and step by step, `PointsInv`: types and `ReportedIsShown`.
- `Invariance`: the invariants of the part that runs. `Handlers` instantiates the modules
  with variables of its own, and `ClimateProofs` and `AlarmProofs` once more;
  `SameZone`, `SameHouse` and `SameFlat` say that the two are one.
- `Typing`, `ZoneObeyed`, `ActionReported`, `OffersWhatItShows`, `SensorsFollow`, `PanelFollows`,
  `ArmsAsAsked`, `ReportsShown`: every invariant of the run `handlers`.
  `QuestionsAreSilent`: its action property, that no request for a status changes what is
  shown, whoever sends it.

The proofs use the named assumption `ConstantsAssumption` of each module, which TLC
evaluates in each run: sets of constants are finite where they are counted, the value
`None` is outside the sets it is added to, bounds are natural numbers, and what
the modules' comments say of the tables that are parameters.

Only model-checked: liveness (`SendTerminates`, `EventRecovers`, `UnloadCompletes`,
`CommandRecovers`, `RequestsEnd`, `ScanEnds`), which needs fairness and ENABLED and is
out of the prover's reach. Every other property of the passing runs is a theorem.
Exchanges of more than two frames are not covered by `FoundIsTheEvidence`: for those the
equations of `After` would need an induction over the sequence, which the library's
theorems, having an operator as a parameter, do not give here.

## 5. Not modelled

- Diagnostics, translations, brand, constants: text, snapshots and declarations.
- Device triggers filter the bus event by WHO and WHERE and keep no state. A trigger does
  not name its gateway, so with two gateways it fires for either.
- The stand-alone bus monitor, which prints frames and is not part of the integration.
- OWNd, except through what `gateway.py` does with it.
- Reauthentication, passwords, ports, titles and forms of the configuration flow.
- Home Assistant's own failures: a listener that raises, platforms that fail to unload.
- A peer that vanishes without closing the event stream: `readuntil` has no timeout
  (`gateway.py:204`), and what TCP does then is outside the code.
- The host of a running gateway: `_handle_existing_gateway` changes the entry without a
  reload, and the running one goes on with the old address until it is reloaded.

Divergences met on the way that the models describe as the code is, without a run:

- Two entries without metadata that are reconfigured at a time may be given one unique
  id: each flow asks `_identity_owned_by_other_entry` (`config_flow.py:254`) before
  it awaits the connection test, and neither asks again before it writes
  (`config_flow.py:286`). The text of the refusal, `strings.json:57`, is "Another
  configuration entry already uses this gateway identity."; when discovery finds the
  gateway, both entries are refused every later reconfiguration with it. The entities are
  not mixed up: their identity is the one the entries had (`OneEntryPerGateway`). If one
  of the two entries has its metadata, this cannot happen.
- A cover that is registered again, now with the advanced option, has position control in
  the inventory and in the persisted list, but its entity was built from the first
  record and has none until the entry is reloaded (`platform.py:55`, `EntitiesAdded`).
  `USAGE.md:447` says "Advanced covers expose Home Assistant position control 0–100%."
- A frame before a NACK has already been dispatched when the probe is rejected
  (`gateway.py:299`), and becomes a passive candidate of the scan;
  `tests/test_discovery_safety.py:42-50` expects no candidate, with an `async_send`
  that dispatches nothing.
- A user or SSDP flow that finds a gateway at the address another had rebinds that
  entry (`config_flow.py:320`), although serial and UDN come before host and port in
  the "stable gateway identity" of `CHANGELOG.md:72`.
- Requests for a dimension that are relayed are parsed, as events without values
  (`parser.py:74`); `docs/protocol.md:31` says they "are not emitted as device events".
  No handler takes them for a state (`QuestionsShowNothing`).
