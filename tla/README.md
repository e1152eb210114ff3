# qs-farm backend: a verification development in TLA+

The backend (NestJS, PostgreSQL through TypeORM, MQTT through EMQX, Socket.IO)
connects farm controllers to mobile applications. Controllers publish telemetry,
status and command responses over MQTT; the backend stores them, tracks pump and
fertilizer sessions, evaluates thresholds, runs schedules and sends commands back.
One Node process runs everything. There is no lock and, with one exception (the
clean-up before a device is reset or removed), no database transaction spans more
than one ORM call, so **two handlers interleave at every `await`**. That is where
this code can go wrong and where a unit test seldom looks, so the models take one
step per query.

Paths below are relative to the repository root; `pump.service.ts` is
`src/pump/pump.service.ts` there, and so on.

## 1. Inventory

| Component | State it keeps | Operations | Hard behaviour | What makes it correct |
|---|---|---|---|---|
| Pump sessions (`pump/pump.service.ts`) | table `pump_session`, `device.totalOperatingHours`, the flag `executing` | `pump.started`, `pump.stopped`, `pump.disconnected`, stale-session cron | handlers interleave at each query; crash between two writes; late and duplicated messages | one active session per device, numbers without gap, a closed session stays closed, hours agree with sessions, silent sessions end |
| Fertilizer sessions (`fertilizer/fertilizer.service.ts`) | table `fertilizer_session`, `executing` | the same three events and a cron | as above | as above, without hours |
| Threshold evaluation (`sensor/threshold.service.ts`) | `deviceStates`, `lastActionTime` in memory, command and alert logs | `evaluate` | telemetry of a device handled concurrently; publish fails; restart forgets the maps | one command per episode, cooldown, every dispatched command is followed by its logs |
| Configuration (`zone/config-resolution.service.ts`, `sensor/sensor.service.ts`) | two caches of 60 s | load, invalidate, CRUD | a load racing an invalidation | staleness bounded by the time to live, fallback chain |
| Sync and routing (`device/sync/sync.service.ts`, `device/mqtt/mqtt.service.ts`) | `deviceContextCache` of 60 s | status, telemetry, response, send command | stale route after pairing; responses out of order | a command goes where the device listens |
| Provisioning and pairing (`provision/provision.service.ts`, `device/device.service.ts`) | tables `device`, `pairing_token` | provision, pair, unpair, regenerate token, delete tokens, reset | writes to two tables without transaction; ORM saves of stale rows; unique key on the serial | a token is spent by a pairing and by one only, the controller holds the credentials of its row |
| Gateways (`gateway/gateway.service.ts`) | table `gateway`, `device.gatewayId` | provision, pair, delete, status | bulk assignment after the save | devices of a farm go through its gateway |
| Broker ACL (`emqx/emqx.service.ts`) | `gatewayDeviceCache` of 60 s | authenticate, check | stale ownership | access revoked within the time to live |
| Schedules (`schedule/schedule.service.ts`) | table `device_schedule`, `executing` | CRUD, tick | crash between send and save; late ticks; save of a stale row | a schedule fires once per due minute |
| Firmware (`firmware/firmware.service.ts`) | tables `firmware`, `firmware_update_log` | publish, deploy, report | duplicated and reordered reports, two channels | a log ends with the outcome of its own deployment |
| Accounts (`auth/auth.service.ts`) | `user.tokenVersion`, one-time passwords | sign in, refresh, change, reset | read-increment-write, one-time use | old tokens die, an OTP is used once |
| WebSocket (`device/websocket/device.gateway.ts`) | `connectedClients` | connect, disconnect, broadcast | disconnect overtakes the handshake | presence ends |
| Push (`notification/fcm.service.ts`) | device tokens | send | external service | - |
| Coffee prices (`coffee-price/coffee-price.service.ts`) | table `coffee_price` | scrape with retries | find-then-insert | one row per market and day |
| Farms, zones, users, files | plain rows | CRUD | - | - |

How they interact: MQTT messages reach `SyncService` (callbacks) and, for gateways,
`GatewayService` (events). `SyncService` awaits the device row (to know the farm) and
then emits in-process events (`telemetry.received`, `pump.*`, `fertilizer.*`,
`firmware.update.reported`) that several services handle concurrently;
`EventEmitter2` does not wait for asynchronous handlers. Commands go the other way
through `SyncService.sendCommandToDevice` or `MqttService.publishToDevice`. All services
share the database.

## 2. Plan

Modules, the most important behaviour first. All of them are written.

1. **PumpSession** with the abstract **SessionRegister**: the session protocol.
2. **ThresholdService**: when an action is dispatched, under concurrent telemetry,
   failed publishes and restarts.
3. **ScheduleEngine**: ticks, sends, saves and crashes beside the requests of users.
4. **FirmwareUpdate** with the abstract **UpdateLog**: deployments and reports.
5. **Provisioning**, extended by **Gateways**: pairing of devices, and the bulk
   assignment that writes the same column from the other side.
6. **CacheAside** (a map that is filled by a read and expires, four times),
   **CommandRouting** and **ZoneConfig** on top of it: what a request can use that is
   no longer in the database.
7. **FertilizerSession**: the steps of PumpSession by `INSTANCE`, with the longer
   closes of fertilizer sessions; it implements SessionRegister again.
8. Proofs: **PumpSessionProofs**, **ThresholdProofs**, **FirmwareProofs**,
   **ScheduleProofs**, **CacheProofs**, **GatewayProofs**, and **FertilizerProofs**, which
   takes the lemmas of the pump tracker by `INSTANCE`; **SumTheorems**, on which the two
   trackers rest for operating hours and reports.

Left out of the plan for good, with the reasons in section 7: accounts, WebSocket
presence, push notifications, coffee prices and the plain CRUD.

## 3. The modules and the code

| Module | Models | Role |
|---|---|---|
| `PumpSession` | `pump.service.ts`, the message handlers of `sync.service.ts` and `mqtt.service.ts` that feed it | detailed specification |
| `SessionRegister` | what session tracking promises | abstract specification |
| `FertilizerSession` | `fertilizer.service.ts`, through the actions of `PumpSession` | detailed specification |
| `ThresholdService` | `threshold.service.ts` and the loop of `processTelemetry` in `sensor.service.ts` | detailed specification |
| `ScheduleEngine` | `schedule.service.ts` | detailed specification |
| `FirmwareUpdate` | `firmware.service.ts` and the handlers that pass reports to it | detailed specification |
| `UpdateLog` | what the history of updates promises | abstract specification |
| `Provisioning` | `provision.service.ts`, the writes of `device.service.ts` | component, extended by `Gateways` |
| `Gateways` | `gateway.service.ts` | the composition of both |
| `CacheAside` | the four caches of 60 s in `sync`, `emqx`, `sensor` and `config-resolution` | component, extended by the next two |
| `CommandRouting` | commands, responses, `togglePump`, the ACL check | component |
| `ZoneConfig` | `zone.service.ts`, CRUD of configurations, what telemetry resolves from them | the composition of the three |
| `PumpSessionProofs`, `ThresholdProofs`, `FirmwareProofs`, `ScheduleProofs`, `CacheProofs`, `GatewayProofs`, `FertilizerProofs` | - | theorems |
| `SumTheorems` | - | lemmas about sums over finite sets |
| `MC...` | - | instances for TLC |

Conventions shared by the modules:

- A variable `job` (`engine`, `request`, `deploy`, ...) holds, for each handler in flight,
  where it is (`pc`) and what its closure holds. **One action is one query and the code up
  to the next `await`**; the event loop makes exactly that atomic.
- Messages and requests arrive from the environment in any order, any number of times.
  Handlers that are idle can take one: the bound on handlers bounds the concurrency.
- `save(entity)` of TypeORM is two actions: it loads the row, and then writes only the
  columns in which the entity differs from it (`Merge`, `Written`, `Saved`). The two
  halves matter: two overlapping saves do not overwrite each other row by row but column
  by column. An entity whose row is gone is inserted again.
- A failure of a query is an action that takes the code's `catch`; a crash or restart
  loses the handlers and the state in memory and keeps the tables.
- History variables only record; no guard reads them. They are named in the
  `VARIABLES` of each module.
- A *faulty variant* of an operator stands before it: the bug that some property is
  there to catch. No specification uses it; put in place of the operator, it makes TLC
  find the property violated (`PROJECT.json`, "mutants").

### Pump sessions

| Code | Specification |
|---|---|
| table `pump_session` (columns read by the protocol) | `sessions`, a function from ids to rows; `cols` are the columns `closeSession` assigns |
| `device.totalOperatingHours`, in clock units | `hours` |
| `MAX(sensor_data.createdAt)` per device | `lastData` |
| session ids published to a controller | `told` |
| `executing` of the cron | `job[Cron].pc # "idle"` |
| the sessions the running cron still has to look at | `queue` |
| `handlePumpStarted` | `StartedFind`, `StartedMax`, `StartedInsert`, `PublishSessionId` |
| `handlePumpStopped` | `StoppedFind`, then `Load`, `Update`, `AddHours` of `closeSession` |
| `handlePumpDisconnected` | `DisconnectedFind`, `DisconnectedLast`, then the same |
| `cleanupStaleSessions` | `CronTick`, `CronScan`, `CronCheck`, then `Load`, `Update` per session |
| rejected queries | `HandlerFails`, `CronFails` |

The time of a message (`at`) is taken when it is received, before `SyncService` awaits
the device row; that is why an event can be older than the session it finds.
A stop carries an id only if the controller was told one, and a message that is
delivered twice or late may carry an old one. The sensor aggregates (averages, flow,
overcurrent) are computed by queries before the save and stored with the row; only reports
read them, so they are left out here and modelled for fertilizer sessions.

### Fertilizer sessions

`fertilizer.service.ts` repeats the pump tracker without hours, so `FertilizerSession`
takes its actions from `PumpSession` (`Tracker`, with `lastData` replaced by the last
fertilizer reading and `hours` by zero) and adds what is its own:

| Code | Specification |
|---|---|
| readings and alerts of the fertilizer sensors | `readings`, `alerts` |
| the aggregate and alert columns of a session | `marks` |
| what a close has computed of them | `work` |
| `computeSessionAggregates`, `computeOvercurrentData` and its fallback | `Aggregates`, `Overcurrent`, `AnyAlert`, between finding the session and `Load` |
| `getReport` and `getSessions` | the operators `Summary`, `Timeline`, `Sessions` |

Minimum, maximum and average of a sensor are abstracted to the number of readings
they are computed from. The three queries of a report run at once and each sees the
table of its moment; the operators are evaluated on one table, since the parts can only
agree if no row changes between them. The device query of `publishSessionId` is merged with
the publish, because the errors of both are swallowed.

### Threshold evaluation

| Code | Specification |
|---|---|
| `deviceStates` | `held[d]`, the actions whose state is `true` |
| `lastActionTime` | `lastAction[d][s]`, `Never` if unset |
| `processTelemetry` up to its loop | `TelemetryReceived`, `Store` |
| one round of the loop, `evaluate` | `WithinLimits` (clears), `Blocked` (anti-spam), `Dispatch` and what follows |
| `shouldDispatch` | `ShouldDispatch` and the map updates of `Dispatch` |
| find the device, publish, command log, alert log, notification | `FindDevice`, `Publish`, `LogCommand`, `LogAlert`, `Notify` |
| `catch` of the dispatch | `DispatchFails`; `HandlerFails` is the `catch` of `processTelemetry` |

A reading carries the thresholds resolved for its sensor: which they are, and how old,
is the subject of `ZoneConfig`. A configuration disabled or in manual mode is a reading
with no threshold: nothing happens.

### Schedules

| Code | Specification |
|---|---|
| table `device_schedule` | `rows` |
| the interval of 60 s | `timer`, `Fire`; `executing` is `engine.pc # "idle"` |
| `processSchedules` | `LoadSchedules`, then per schedule `NextSchedule` (skip or execute), `RunThrows`, `Finished` |
| `shouldExecute` | `ShouldExecute`, on the local minute of the run |
| `executeSchedule` | `Send` per device, `Apply` (mode changes), `EngineLoad`, `EngineSave` (`save` of the entity read at the start of the run), `Notify` |
| failures of a send, a query, the process | `SendFailsInGroup`, `ExecuteFails`, `RunFails`, `Crash` |
| `create`, `update`, `toggle`, `remove` | `Create`; `Find` and then `Preload`, `RequestLoad`, `RequestSave` or `Remove` |

`Local` maps the clock to local dates and minutes, so that a clock that is set back is a
`Local` that repeats a minute. A zone or a farm as a target is the set of all devices.

### Firmware

| Code | Specification |
|---|---|
| tables `firmware`, `firmware_update_log` | `catalog`, `logs` |
| `firmwareVersion` of devices and gateways | `version` |
| `deploy`, `deployForUser`, `deployGatewaysForUser`, `deployToGateways` | `DeployToDevices`, `CheckGateways`, `RefindFirmware`; per target `InsertPending`, `SendCommand`, and `FailedLoad`, `FailedSave` if the send fails |
| `checkForUpdate` | `CheckForUpdate` |
| `handleUpdateReport` | `FindPending`, then `LoadLog`, `SaveLog` or `InsertSelfInitiated`, then `UpdateVersion` (one `UPDATE` of a gateway) or `LoadRow`, `SaveRow` (preload and save of a device) |
| `handleGatewayStatus`, heartbeats with a version | `Heartbeat` |
| provisioning, `DeviceService.update`, unpairing, regeneration, pairing: whatever else finds the row of a target and saves it | `TouchRow`, `LoadRow`, `SaveRow` |
| `upload`, `publish`, `unpublish`, `remove` | `Administer` |

`TouchRow` keeps of those requests what matters to the version: they hold the one they found, or,
for provisioning, the one the device told. It allows more than the code, which provisions
a device only while it is not paired. The kind in the query of `checkForUpdate` is taken to be
that of the asking target: the code believes the parameter, which is `device` unless given.

Refinement: `Abstract` reads the table as the variable `log` of `UpdateLog`, and the targets
that reported a success as `succeeded`. An insert maps to `Record`, a save to `End` or a
stutter, a report to `Hear`.

### Provisioning and gateways

| Code | Specification |
|---|---|
| tables `device`, `pairing_token`, `gateway` | `devices`, `tokens`, `gateways`; ids, tokens and credentials are numbers drawn from `fresh` |
| what was sent to controllers | `controllers` (credentials), `told` (tokens) |
| `handleProvisionRequest` | `ProvisionFind`, `LoadRow`, `InsertRow` or `UpdateRow`, `GenerateToken`, `Respond` |
| `pairDevice` | `PairFind`, `CheckToken`, `PickGateway`, `PairUpdate`, `UseToken`, `SetOwner` |
| `unpairDevice`, `regenerateDeviceToken`, `update` | `UnpairFind`, `RegenerateFind`, `Preload`, then the save |
| `remove`, `resetDevice` | `RemoveFind`, `CleanDeviceData` (one transaction), `RemoveOrReset` |
| `deletePairingToken`, `deleteAllPairingTokens` | `Administer`; time makes tokens `Expire` |
| gateways: provisioning, `pairGateway`, `deleteGateway` | `GatewayProvisionFind`, `GatewayPairFind`, the save, `AssignDevices`, `GatewayRespond`; `DeleteFind`, `ReleaseDevices`, `RemoveGateway` |

Foreign and unique keys of the database are part of the actions: `Dangling` rejects a
gateway that is gone, an insert of a serial that exists fails, removing a gateway releases the
devices that still refer to it.

### Caches, routes and zones

| Code | Specification |
|---|---|
| `deviceContextCache`, `gatewayDeviceCache`, the caches of configurations and of contexts | `cache`, with keys `route`, `owned`, `configs`, `context` |
| lookup, query, storing of the answer | `LookUp`, `Load` (and `LoadRules`), `Fill` |
| `sendCommandToDevice`, `handleDeviceResponse` | `SendCommand`, `Publish`; `DeviceResponse`, `UpdatePump` or `UpdateMode` |
| `checkGatewayAcl` | `CheckAcl`, `Answer` |
| `togglePump` | `ToggleFind`, `ToggleSend` (each command a request of its own), `ToggleLoad`, `ToggleSave` |
| `ZoneService.update`, `remove` | `Preload`, `LoadZone`, `SaveZone`; `RemoveFind`, `Remove` |
| create, update, delete of configurations and thresholds | `EditRules`, `WriteRules`, `Invalidate` |
| `processTelemetry` up to the loop; `resolveConfig`, `pickThreshold` | `Telemetry`, `Evaluate`; `Resolve` |
| `DeviceService.update` | `UpdateDevice`, `PreloadDevice`, `LoadDevice`, `SaveDevice` |
| `applyModeChange` of schedules, for a zone or a device | `ScheduleMode`, `SetMode`, `Invalidate` |
| pairing and gateways (modelled in `Provisioning` and `Gateways`) | `AssignGateway` |

An update of a device may give a zone, an irrigation mode and `pumpEnabled`, each or none. One
that gives none of them is a *rename*; it stands for every other request that finds the
device and saves it, such as a firmware report or unpairing. `Changed` is what TypeORM writes:
the columns in which the entity differs from the row that `save` loads. A column the request
does not give is among them if somebody wrote it between the preload and that load;
`Stale` records it.

One sensor type, one limit per rule, and thresholds as opaque numbers stand for the rest: the
properties ask which rule is used, not what it says.

## 4. The runs

| Run | Question | Instance | Answer |
|---|---|---|---|
| `pump` | Do operating hours agree with sessions, and is the span of a completed session right, when starts overlap as well? | 1 device, 1 session, 2 handlers and the cron, clock 1..3, 1 failure | yes, within the limits the properties state |
| `pump_serial` | Does the tracker implement `SessionRegister`? | starts one at a time; 1 device, 2 sessions, 2 handlers, 1 failure | yes |
| `pump_fair` | Are sessions of silent devices closed in the end? | fair, 1 handler, 1 failure | yes |
| `pump_hours` | Does an interrupted session never add hours? (a comment and the test guide say so) | no failure | **no** |
| `pump_end` | Does a session never end before it starts? (two comments say so) | no failure | **no** |
| `threshold` | Once per episode? Cooldown kept? Nothing held back without having been sent? | 1 device, 2 sensors that share an action, 3 actions, 2 handlers, clock 1..3, 1 failure or restart | yes |
| `threshold_cooldown` | Is the cooldown per device and action? (a doc says so) | no failure | **no** |
| `schedule` | Once per due minute? Is all that is due fired? Does a one-time schedule fire in the end? | fair; 2 schedules, 2 devices, clock 1..5 set back once, timer off by up to half an interval, 1 request, 1 failure | yes, with the excuses the properties state |
| `firmware` | Does the history of updates say what targets reported? Does every target get files meant for it? | a device with two channels, a gateway, 3 files, 2 logs, 2 handlers; 2 reports and a heartbeat or another save of a row, or 1 report and a failure | yes, conditionally |
| `gateways` | Do rows, tokens, credentials and gateways stay consistent? | 1 controller, 2 gateways, 2 farms; 7 starting situations; 3 requests, 2 at a time, or 2 and a failure | yes, unless overlaps the properties name occur |
| `caches` | How old can be what a request uses? Is a completed change seen? What do overlapping requests lose? | 1 device, 1 gateway, 1 zone, 2 modes; 3 requests, 2 at a time, or 2 and a failure; 8 topics | bounded by `TTL + 1`; yes; the rest conditionally |
| `fertilizer` | Do aggregates and alert columns match the span, does a report agree with itself, is the register kept? | 1 device, 2 sessions, 2 handlers and the cron, clock 1..3, 1 reading, 1 alert; 3 topics | yes |

What the properties say, beyond one type invariant per composition:

- Pump. `SessionCredit`: a session that one close reached, and whose handler did not die between
  its two writes, has earned exactly its duration if it is completed and nothing
  otherwise; `DeviceHours` sums that up per device. `CompletedSpan`: a completed session that
  at most two closes reached has an end not before its start, and the duration between
  the two. `OneActive`, `Numbered`, `KeepsRegister`: one active session, numbered in order,
  never reopened; the third is refinement of `SessionRegister`. `SilentSessionsEnd`: an
  active session whose device stays silent is eventually closed.
- Fertilizer. `SpanSummed`: what a close counted is what lies between the start and the
  end it wrote. `FlagsAgree`: the alert columns agree with each other, also when two closes left
  columns of both. `ReportAgrees`: summary, timeline and list of a report count the same
  sessions. `KeepsRegister` again.
- Thresholds. `OncePerEpisode`: an action is dispatched at most once until a
  reading within limits clears it. `CooldownKept`: a sensor of a device dispatches nothing
  within the cooldown of its last dispatch. `HeldWasSent`: an action whose state is held back
  was published since its last dispatch, is on its way to be, or was lost to a failure.
- Schedules. `FiresOnce`: no schedule fires twice for one local minute, not even when the
  minute comes twice, and a one-time schedule fires once. `DueWasSent`: a run that ended without
  failure has sent every schedule that was due when it began, to every device of its
  target. `OneTimeFires`: an enabled one-time schedule fires in the end, however many runs fail.
- Firmware. `OwnOutcome`, `EveryReportRecorded`: when the deployments and reports of a target do
  not overlap, an ended log has the outcome reported for its own version, and every report
  left one mark. `VersionFollows`: the row of a target has the version it told last, in a
  successful report, a heartbeat or provisioning, once the handler is done, however deployments
  and saves of the row that do not touch the version interleave with it. Excused are a handler
  that failed, a second teller while the first is at work, and a request that
  writes back the version it had found before.
  `RightFirmware` and `KeepsHistory` hold whatever overlaps.
- Gateways. `PairedHasCredential`: a row has a credential exactly when it is paired.
  `RevokedStaysOut`: a withdrawn credential does not come back. `TokenOnce`: a token pairs
  once. `ControllerMatches`: a controller holds the credential of its row. `GatewayOfFarm`: a
  paired device has the gateway of its farm, once no gateway request is at work.
- Caches. `UsedRecently`: what a request uses was in the database at most `TTL + 1` ago: the
  time to live, and the time a request takes at most. The bound is tight: with `TTL` TLC finds a
  counterexample. `UpdateSeen`: once a change is complete the cache has it or nothing, except
  for entries filled by a load the change overtook. `ZoneKept`: a zone shows its
  last update or schedule and its last toggle, and a device is in the zone it was last moved
  to, when the requests that write these do not overlap; devices may be renamed,
  switched and saved beside them. `PumpFeedback`: `pumpEnabled` of a device is what its last
  response or update said; excused are overlapping switches and responses, failed responses,
  and requests that write back what they had preloaded (`Stale`). Moves and renames
  may overlap with a response in every other order.

Many of these hold on a condition, because without it they are false of this code. The
condition is written with history variables: `met` records which kinds of requests overlapped
or failed and which columns were saved stale, `told` what each target told last if nothing came between, `muddled` the targets whose reports do not match the
commands, `excused` the schedules whose execution was cut short, `ledger` how many closes
reached a session. The conditions name kinds of requests, so they are a little wider
than they need be: `ZoneKept`, for one, leaves out a toggle beside the removal of any zone. Section 5 lists what happens when a condition does not hold.

### Bounds, and why they are enough

- *One device.* No action of the trackers, the thresholds or the caches relates two devices:
  rows, maps and cooldowns are keyed by device. The proofs cover any number.
- *Pump.* One session in `pump`: credit and span are properties of one row, and the
  interesting interleavings are several closes of the same row. Two in `pump_serial`: the second
  start must find the first session in every state. Two handlers and the cron: three actors can
  close one session at once, which is what it takes for a row with the columns of two
  closes; the third close is why `CompletedSpan` stops at two. Clock 1..3: a start, an end and a
  later time; `StaleAfter = 1` lets silence be reached or not.
- *One failure* can hit between any two steps, and a second one meets the same states. In
  `firmware`, `gateways` and `caches` a failure takes the place of one report or request
  (`MaxReports`, `MaxOthers`, `MaxRequests` bound the sums).
- *Thresholds*: a critical and a warning level, minimum and maximum, an action shared
  by two sensors, `ALERT_ONLY`, and a change of irrigation mode; `Cooldown = 2` with a clock
  of three values can be within and past. A payload of two readings exercises the loop.
- *Schedules*: two schedules, so that one can fail, throw or be removed before the other; a group
  and a single device; a slot with an unknown time zone. Two units are a minute; the clock
  reads the same minute twice, and again on the next day.
- *Firmware*: two device files, so that a report can be about another version than the log; one
  gateway file that administrators publish and withdraw meanwhile; two logs, so that there is a
  newest one. The gateway alone asks for updates by itself (`Asking`). A report and one other
  save or heartbeat are what it takes to write two versions in either order, in one handler each.
- *Gateways*: three requests are a pair that overlaps and one that meets the result. The starting
  situations (device and gateway each new, provisioned or paired, the second gateway new) are
  those that requests lead to one after the other; starting there leaves the three requests for
  the interesting part. Three are not enough for everything: two conditions of the properties
  (a rename beside a pairing, in `PairedHasCredential` and `GatewayOfFarm`) name what takes four
  or five requests to go wrong, and what the proofs asked for. The proofs settle every other
  number of requests for all six properties.
- *Caches*: the kinds of requests of a behaviour are those of one topic (`Scopes`): the ones
  that share rows or a cache. An entry is used up to `TTL = 1` old, and the clock of four values
  can pass twice the window. The updates of devices are a rename, moves in and out, a
  switch, and one that gives all columns. A request is over before the second tick after its arrival.
- *Fertilizer*: `Scopes` separates closes with the cron and failures, reuse of the number by a
  second session, and overlapping events. `StaleAfter = 0`: any session the cron finds without
  newer data is stale.
- Handlers, requests, sessions and logs are interchangeable, hence the symmetry sets of the
  safety runs. `pump_fair` and `schedule` check liveness and have none.
- Deadlock is not checked: the clock stops at its bound and the environment need not send.

### Fairness

`pump_fair` assumes `WF(CronRun)`, since the interval keeps firing and the event loop
resumes the run of the cron when a query is answered, and `WF(Handle(h))` for every handler,
for the same reason. `schedule` assumes `WF(Advance)`, since time passes, and
`WF(EngineStep)`: the timer fires and the run is resumed. Nothing is assumed of the environment:
no message need ever come, and a failure or a crash may come at any time (as often as the
bound allows). Without the reset of the cron's flag on every path `SilentSessionsEnd` fails, and
`OneTimeFires` fails if a failed attempt marked the schedule as executed, as their faulty
variants show.

## 5. Where the code departs from what it says

Three statements of the repository are refuted by a run:

1. *An interrupted session can add hours* (`pump_hours`). `closeSession` tests the status it
   assigned itself (`pump.service.ts:299`). A stop and the cron both find the session; both
   save; the row ends interrupted and the stop adds the hours. The comment at line
   298 and `docs/test-guide-pump-session-tracking.md:112` say otherwise.
2. *A session can end before it starts* (`pump_end`). A last will received before a start and
   handled after it closes the new session; with no data since the start, the end is the
   time of the last will (`pump.service.ts:230`), and the duration is cut to 0. The comment
   above it says the end must not precede the start.
3. *The cooldown is per sensor, not per action* (`threshold_cooldown`). Two sensors that share
   an action dispatch it within the cooldown of each other once a reading within
   limits of one has cleared its state. `plans/fcm-notification-test-flow.md:205` says per device
   per action.

Also met while modelling, and visible in the guards of the properties.

Pump and thresholds
- Two overlapping starts of a device leave two active sessions with one number (the reason for
  `OverlappingStarts`). Hours are lost for good if the process dies between the two writes of
  `closeSession`. Three overlapping closes can leave a row with columns of two of them.
- The cron judges silence by sensor data alone, so it can close a session that has just
  started on a device that was silent before.
- A failed publish leaves an action held back that no reading out of limits retries; a
  warning starts the cooldown that then blocks a critical reading of the same sensor.

Fertilizer
- A session of a device without fertilizer readings is closed by the next run of the cron.
- A session that ends at its last reading leaves out the alert of that reading.
- Overlapping closes can put the counts of one beside the end of another; of three, the
  columns can be mixed further.
- The list of a report takes every session from `from` on: it ignores `to`.

Schedules
- `save(schedule)` inserts the row again if it was removed while the schedule was sent.
- A recurring schedule that was due while the process was down is not caught up:
  `docs/project-overview-pdr.md:106` and `docs/system-architecture.md:204` say it is. The first
  tick comes 60 s after a restart.
- An unknown time zone is accepted and then ends every run; the schedules after it starve
  (`Poisoned` in `OneTimeFires`).
- An update that sets `deviceId` to null passes `validateTarget`.

Firmware
- A report closes the newest pending log of its target, whatever version that log is
  about. A log can be failed although one of the two channels delivered the command.
- A heartbeat or provisioning that overlaps with the handler of a report can leave the row with
  the older of the two versions: neither compares them, and each writes when its turn comes.
- `deployToDevices` does not ask whether the file is published: `RightFirmware` says what is left.

Provisioning and gateways
- The save of `regenerateDeviceToken` can put a credential into a row that was unpaired
  meanwhile; the new credential is returned to the user but not sent to the controller.
- A rename that overlaps with a pairing can leave a column of before: after a later unpairing
  beside a save the row can have a credential without being paired, or be paired without
  one; a save that overlaps with a pairing can keep the gateway of another farm.
- `gateway_delete` beside `gateway_provision` brings the gateway back. A `deleteGateway` that fails
  midway leaves the devices without it.
- Moving a device to a zone of another farm keeps the gateway of the old one.
- "1 farm = max 1 gateway" (`provision.service.ts:188`) is enforced nowhere.
- A device that provisions with an expired token gets no new one, though the error at lines 169-172
  asks it to.

Caches, routes and zones
- Moving a device, removing a zone, saving the pump state and pairing tell no cache.
- An invalidation by zone finds only what is in the cache: what is being loaded is put
  there afterwards. `SET_MODE` changes a column the configuration depends on without one.
- `togglePump` saves the whole entity it read: it undoes a concurrent update of the zone. It saves
  `pumpEnabled` as asked for even if no command reached a device.
- `DeviceService.update` writes back what it preloaded if the row changed before its save loads
  it again: a rename beside a response puts the old `pumpEnabled` back, beside a move the old
  zone, beside a firmware report the old version. A `PATCH` can set `pumpEnabled` though no
  command was sent and no controller answered.
- A device without a `SensorConfig` of its own evaluates nothing, even if its zone has thresholds.
- No code emits `gateway.devices.changed`, which a listener waits for.
- `authenticate` expects the bare id as a user name, `checkAcl` recognises a device only by `device:`.

## 6. What is proved

The proofs are checked by TLAPS for every value of the constants that satisfies
`ConstantsAssumption` of the module (`TrackerAssumption` in `FertilizerSession`): any number of devices, sessions, schedules, files,
handlers, any clock, any payloads.

| Theorem | States | Argument |
|---|---|---|
| `PumpSessionProofs!TypeCorrect`, `TypeInvariant` | `TypeOK` | `TInv` adds to the types that every job in flight is well formed: a save has a row, an insert has a positive number, the cron works on rows. Without that `Update` could leave the domain of `sessions`. |
| `PumpSessionProofs!HoursFollowSessions` | `SessionCredit` | `CreditInv` says for every session what it has earned, and which handlers still owe it hours, by the number of closes so far; an actor at `update` may complete it, an actor at `hours` holds the duration the row has. |
| `PumpSessionProofs!HoursAreEarned`, `HoursAreTheSum` | `DeviceHours` | `HoursInv`: the column of a device is the sum of `credited` over its rows, in every state. A new row has earned nothing (`CreditInv`), `AddHours` raises the column and one summand alike, every other step leaves both alone. Under the condition of `DeviceHours` each summand is what `SessionCredit` says, so the rows that are not completed drop out. |
| `PumpSessionProofs!CompletedSpansHold` | `CompletedSpan` | `SpanInv`: what a close is about to write spans the time since the start (`HeldOK`), because a stop that names a session is received after its start (`StopOK`: controllers are only told ids of rows); the second of two closes compared its columns with those of the first or with nothing (`RowOK`), so a completed row has end and duration of one close. |
| `PumpSessionProofs!AtMostOneActive`, `NumberedInOrder` | `OneActive`, `Numbered` | assume `~OverlappingStarts`. `RegInv`: while a start is past its search, its device has no active session, and the number it computed is one more than the sessions of the device. Closing and crashing only remove active sessions. |
| `PumpSessionProofs!ImplementsRegister` | `KeepsRegister` | every step under `RegInv` maps to `Open`, `Close` or a stutter of `SessionRegister`: an insert opens, an update that ends an active session closes, no update makes a row active. |
| `FertilizerProofs!FertilizerTypes` | `TypeOK` of `FertilizerSession` | `TInv` of the pump tracker and `FInv`. `FTypes`: only a close has aggregates in hand, and its flags agree with its count. `HistoryOK`: what the closes so far have made of a session; before the first save there are no marks, and after one the row is not active. |
| `FertilizerProofs!FertilizerRegister` | `KeepsRegister` | assumes `~OverlappingStarts`. Each step is one of the pump tracker, with the last fertilizer reading as `lastData` and no hours, or leaves the register alone; the lemmas of `PumpSessionProofs` hold of it as they stand (`Pump == INSTANCE PumpSessionProofs WITH ...`). |
| `FertilizerProofs!FlagsFollowCounts` | `FlagsAgree` | the same invariant: a second close compared its marks with nothing or with those of the first (`HistoryOK`), so whichever columns it writes, the flags go with the count. |
| `FertilizerProofs!SpansAreSummed` | `SpanSummed` | `SpanInv` of the module: what a close has counted is what lies in its span, give or take the last instant (`CloseOK`, `SummedOK`). No reading or alert is of the future (`ReadingsOK`), and an end is not ahead of the clock, so what is logged later only adds at that instant. |
| `FertilizerProofs!ReportsAgree` | `ReportAgrees` | the table is finite (`FiniteRows`: a step adds one row at most), the buckets of the timeline are a partition of the sessions asked for, and the parts of a partition add up to the whole; a flagged session has counted an overcurrent (`FlagsAgree`), and a sum is monotonic. |
| `ThresholdProofs!TypeInvariant` | `TypeOK` | inductive as it stands: it says that a handler at work has a device, a reading and, exactly while it dispatches, an action. |
| `ThresholdProofs!DispatchedOnce` | `OncePerEpisode` | inductive with the types: the count is 1 exactly while the action is held, and check and update are one step. |
| `ThresholdProofs!CooldownHolds` | `CooldownKept` | `Remembers`: no action of a sensor was dispatched later than its `lastActionTime`, which is not ahead of the clock; only `Dispatch` gives a handler an action. |
| `ThresholdProofs!NothingLatched` | `HeldWasSent` | each step either leaves alone the handler that carries a held action, moves it on, or records what became of the command. |
| `FirmwareProofs!TypeInvariant` | `TypeOK` | `FInv` (below). |
| `FirmwareProofs!SuitableFirmware` | `RightFirmware` | `FInv` is the conjunction of `TablesInv`, `LogsInv`, `JobsInv`, `DeployInv` and `RightInv`: a deployment holds a file that suited its targets when it was checked, and what suits a target stays suitable because logs keep their target, successes are kept, and a file once published counts as published (`Grows`). |
| `FirmwareProofs!ImplementsUpdateLog` | `KeepsHistory` | an insert maps to `Record`, a report to `Hear`, a save to `End` or a stutter; the save needs `JobsInv`, which says what the entity of a job in flight can differ in from its row. |
| `FirmwareProofs!LogsHaveTheirOutcome`, `ReportsAreRecorded` | `OwnOutcome`, `EveryReportRecorded` | `CleanInv` follows a target that is not `muddled`: one log of it at most is pending and the target reports no other version (`PendingOK`), the one report at work is the last heard and closes that log (`ReportsOK`), logs that ended count the reports (`CountOK`) and have an outcome that was heard (`EndedOK`). |
| `FirmwareProofs!VersionsFollowReports` | `VersionFollows` | `ToldInv`: while `told` of a target stands, one handler at most is telling (`Tellers`) and holds that version, and every other handler that will save the row found its version as it is, so its save leaves it alone (`ToldOK`); with no handler telling, the row has the version. |
| `ScheduleProofs!TypeInvariant` | `TypeOK` | `Typed` adds that the engine has a schedule exactly while it executes one, and the time of the run once it has loaded the schedules. |
| `ScheduleProofs!FiresOnceADay` | `FiresOnce` | assumes `NoReturn`: the clock is never set back by a day or more (otherwise the row forgets the first of two executions that read the same minute). `Memory`: whatever was sent is remembered by `last` of the row, of the copy in the list of the run, and of the entity the run saves, and these agree in type, slot and `last` unless the schedule is excused; hence the two halves of every save change only what they are meant to. |
| `ScheduleProofs!NothingDueIsHeldBack` | `DueWasSent` | needs the converse of `Memory`: a row remembers no more than was sent (`RememberedWasSent`), so what is due for a user is due for the engine; then `DueIsSent`: each schedule due waits in the list, is being executed, or is done, and stays done because an id is not used again and no edit changes the device. |
| `CacheProofs!TypeInvariant` | `TypeOK` of `ZoneConfig` | `Typed` says what a request holds at each step (`KeyedAt`, `About`, `HoldsAt`); a zone that a save inserts again is there, and a toggle moves devices only into a zone that is. |
| `CacheProofs!ChangesAreSeen` | `UpdateSeen` | inductive with the types: a write that makes an entry wrong leaves its request about to invalidate that entry (the contexts cached with a zone are found because they still agree with the database), and any other change marks the entry. |
| `CacheProofs!BoundedStaleness` | `UsedRecently` | `TRecent` and `Fresh`: the data of an entry were in the database one tick before it was filled, those a request queried when it arrived, and those it took from a cache at most `TTL` before; `RecentKept`: no step loses a value younger than the window. |
| `CacheProofs!ResponsesAreReported` | `PumpFeedback` | `Watching` (the types, the steps of the requests that write zones or pumps, and that those in flight together are in `met`) with `ReportedInv`: the column is what the last response or update said, or the handler of that response is still to write it; and a request whose save has loaded the row of the device holds the `pumpEnabled` it was given or, as nothing was stale, the one it loaded (`PumpHeld`), so it leaves alone what a response writes after that load. |
| `CacheProofs!ZonesAreKept` | `ZoneKept` | `Watching` with `KeptInv`: what a toggle or an update holds is the row of its zone but for what it changes (`StillHolds`), so the save writes what was asked for and nothing else; a zone shows its last update, and its last toggle unless one is at work (`RowKept`). A device is in the zone it was last moved to (`PlaceKept`), a toggle has as members those in its zone, and a save of a device holds the zone it was given or the one it loaded (`ZoneHeld`, for all requests `Placed`). |
| `GatewayProofs!TypeInvariant` | `TypeOK` of `Gateways` | `Typed` says what a request holds at each step and that requests in flight together are recorded in `met` (`TMet`), which every other proof uses to exclude an overlap. |
| `GatewayProofs!TokensPairOnce` | `TokenOnce` | `UsedUp`: a token that paired is used, or its pairing is about to mark it; `NotYet`: a pairing past its check holds a token that paired nothing, as no other pairing is in flight. |
| `GatewayProofs!PairedDevices` | `PairedHasCredential` | `Holds`: what each request is about to save agrees with the row but for what it may change: a regeneration saves over a paired row, a rename holds the credential of the row unless that was withdrawn, and renames of a device hold the same one (`RenamesAgree`). So the column-wise merge of two consistent rows is consistent. |
| `GatewayProofs!RevokedOut` | `RevokedStaysOut` | `Keeps`, on top of `Holds`: a rename saves the row as it is, a regeneration a credential no row has had; what is written is not withdrawn. |
| `GatewayProofs!ControllersMatch` | `ControllerMatches` | `Sent`: a credential of a pairing is at its controller or in the hands of the pairing, whose row stays as it left it (`PairHolds`); no request is about to save any other (`SaveSent`). |
| `GatewayProofs!GatewaysFollowFarms` | `GatewayOfFarm` | `FarmInv`: a row and whatever requests hold to save over it are versions of one device (`Version`) that have to agree pairwise (`VersionsAgree`): no two name different farms, and the gateway of each fits the farm of the other (`Suits`). A gateway fits a farm if it is the farm's, if it is gone (the database will refuse it), if there is none because the farm has none or one that is being deleted, or while the farm is being assigned (`Fits`). Beside that, farms have one gateway at most and the requests about gateways hold what is in the table (`GatewaysHold`). |

`GatewayProofs` classifies the steps once (`StepForms`): all but six kinds leave ids, status
and credentials of the rows and the requests that save them alone (`Still`), or the pairings and
the controllers (`Away`). Besides the bounds it assumes that serials and gateways are distinct
names (they are keys of different tables) and that there are finitely many gateways.

The values the runs use satisfy the assumptions: TLC evaluates every `ConstantsAssumption`
and `TrackerAssumption`, and `NoReturn` as `ClockAssumption` of `MCScheduleEngine`.

`SumTheorems` proves what a sum over a finite set does when an element is added, changed or
left out, or when the set is divided. A sum is defined by recursion, and the library's
induction theorems, which take an operator, are of no use to the provers; but that every
nonempty family of finite sets has a minimal member (`MinimalSet`) is a statement about sets.
From it follows that some function on the subsets of a set adds up one element at a time
(`AdditiveExists`), that it satisfies the recursive equation of the sum (`AdditiveUnfolds`)
and that nothing else does (`UnfoldsUnique`), so the sum is that function (`SumIsAdditive`).
A sum of another column (`MapThenSumSet(LAMBDA ...)`) satisfies the same equation and is
brought to `SumFunctionOnSet` where it is met.

Every invariant and every action property of the passing runs is a theorem. Only
model-checked: `SilentSessionsEnd` and `OneTimeFires` (liveness is beyond the prover), and
the runs that end in a counterexample.

## 7. What is not modelled

Within the components modelled:

- the sensor aggregates and reports of *pump* sessions and the Excel exports of both trackers
  (they change no state; their counterparts of fertilizer sessions are modelled);
- the cache of farm owners, the choice between push and WebSocket, texts and log lines;
- `controlMode`, `fertilizerEnabled` and `lastSeenAt` of devices, the last will and `DISABLED`
  state of gateways and the expiry of their tokens, `factory_reset`;
- changes of the serial and the MAC of a device by `PATCH` (rows are keyed by their serial), and the
  mode a schedule sets for a whole farm, one `UPDATE` of all its devices;
- the target columns an update of a schedule may change, and the members of a zone or farm;
- who may ask for what: ownership and role checks reject a request before it changes anything.
  The exception is the ACL check of the broker, which uses a cache and is modelled.

Outside: accounts and authentication, WebSocket presence, push notifications, coffee prices,
the CRUD of farms, zones, users and files, controllers and DTOs. The first three have state and
hazards of their own, which `PROJECT.json` lists, but share no table with the components
modelled except the farm and user rows nothing here writes; the rest are single statements
or calls of other services. `PROJECT.json` names every component with its status, and every
hazard with the properties that cover it or the reason why none does.
