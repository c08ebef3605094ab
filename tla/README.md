# Verification of cgateweb

cgateweb is a Node.js process that bridges a C-Bus home-automation network, reached through the
C-Gate server over TCP, and Home Assistant, reached through an MQTT broker. This directory holds
TLA+ models of the parts of it whose correctness depends on the order of events, TLC runs that
check them on small instances, and TLAPS proofs of the invariants that matter most.

Paths below are relative to the repository; `router` is `src/mqttCommandRouter.js`.

Contents: 1 the system and its hazards, 2 the modules and how they correspond to the code, 3 the
runs, their bounds and fairness, 4 the proofs, 5 disagreements and observations, 6 what is left out
and the plan.

To run: `tlc -config MCServices.cfg MCServices`, and likewise for the other
configurations; `tlapm SendingProofs.tla`, and likewise for the other seven proof modules. A large component has a
module `...Proofs` of its own; SendingProofs, ConnectionProofs and ServicesProofs are about several components each
(section 4), and SequenceLemmas is what they share.

## 1 The system

Everything runs on one event loop. Interleaving happens between callbacks: socket and broker events,
timers, and continuations after an `await`. An emitter calls its listeners synchronously, so a step
of a model is one callback with everything its listeners do, and there are no data races.

| Component (source) | State it keeps | Operations | What makes it correct |
|---|---|---|---|
| Command queue (`throttledQueue.js`) | four FIFO arrays, length, timer, a send in flight | add with eviction, timer, completion, clear; gated by the pool's health | priority order, exact depth, serial sends, no lost wake-up |
| Connection pool (`cgateConnectionPool.js`, `cgateConnection.js`) | slots, healthy set, pending reconnects, timers, retry counts, start/stop flags | start, stop, execute; connect, error, close, timeout, health check per socket | no slot given up, health counts live connections only, nothing comes back after stop |
| Command delivery (`cgateWebBridge.js` `_sendCgateCommand`, pool `execute`, `sendWithBackpressure`) | `isWritable`, drain waiters, adaptive interval | healthy connections in order (writable first), wait for a drain, retry on the next connection | each command written or reported, per connection never older after newer, every hand-over ends |
| Connections and readiness (`connectionManager.js`, `bridgeReadiness.js`, `bridgeInitializationService.js`, `mqttManager.js`) | allConnected latch, lifecycle, debounce, broker session, retained status | events of three connections, debounced initialisation, stop | the status topic says Online exactly when the bridge is up |
| MQTT publishing (`mqttManager.js`, `eventPublisher.js`) | outbox of retained publishes, coalescing buffer, dedup window | publish, replay, flush | the last value of a topic is what the broker ends up with, and the topics of a device do not contradict each other |
| Group control (router, `cbusCommand.js`, `deviceStateManager.js`, `coverRampTracker.js`) | last level and pending relative operation per group, ramps of covers | switch, ramp, increase, stop, position, tilt, trigger | the last request wins, what is shown agrees with the bus |
| Native air conditioning (router, `airconControlRegistry.js`, `airconEventHandler.js`) | learned mode, targets and aux state per thermostat, debounced setpoints, wards asked | setpoint, mode, off, fan; broadcasts | the last request wins, the card agrees with the thermostat, never powered up by a setpoint |
| Tree discovery (`haDiscoveryTreeSession.js`, `haDiscovery.js`, `haDiscoveryTree.js`) | queue of requests, attempts, watchdogs, deadline, retries and resyncs per network | request, stream lines, error answer, timers, network events, stop | every network is discovered or visibly paused, with its own devices |
| Entity discovery (`haDiscovery.js`, `haDiscoveryPublishers.js`, `haDiscoveryTree.js`, `unitTypeClassifier.js`, `deviceTypeClassifier.js`) | configs published and cached, which entities announced themselves, labels, exclusions | tree run, first traffic, retraction, sweep, label change, replay | a group is published as one entity, a replay is exact, what announced itself stays, a load is never a sensor |
| Security panel (`securityPanelState.js`, `securityPanelConditions.js`, `securityEventHandler.js`, `stateResyncCoordinator.js`) | alarm record, conditions, zones, isolation, sync slots, snapshot file | readings, syncs at start and reconnection, resync of Home Assistant, restart | at rest everything shown is right; no false reassurance |
| Panel and other commands (router, `securityCommand.js`, `web/rateLimiter.js`) | attempts per disarm source | arm, disarm with code, bypass, measurement, temperature, scene, getall, gettree | limits and checks precede the write, and cost nobody else an attempt |
| Initialisation (`bridgeInitializationService.js`) | polling timers, networks being discovered | network discovery, initial and periodic getall, 401s, reload, stop | what is there is polled, what is not stops being polled |
| Line protocol (`lineProcessor.js`, `commandResponseProcessor.js`, `cbusEvent.js`) | partial line per slot, tree buffer | reassemble, classify, buffer, replay | no line lost, merged or repeated, fragments in order |
| Interface recovery (`networkInterfaceMonitor.js`, `cniNotificationManager.js`, `serialDeviceRecovery.js`) | interface state, attempts, last attempt, port in use | reading, recovery script | restarts of C-Gate bounded, a replugged device recovered |
| Label file (`labelLoader.js`, `web/labelRoutes.js`) | labels, watch debounce, reload retry, last save | load, save, watch, PUT, PATCH, import, names learned | memory, file and discovery agree once quiet; a file briefly away wipes nothing |
| Web server (`webServer.js`, `web/*`) | event stream clients, ring of events, request windows | routes, rate limit, stream, start, close | streams complete and in order, none outlives its browser |
| Measurement, temperature, clock, scenes | none beyond announced entities | decode, encode one line | conversions are inverse |
| Configuration (`config/*`) | merged settings | load, alias, validate, detect | precedence of sources |
| Diagnostics (`haBridgeDiagnostics.js`, `staleDeviceDetector.js`, `stateResyncCoordinator.js`) | last seen per device, pending resync triggers | start, interval, resync after a reconnection or a birth | all that was announced comes back, the count of silent devices is right |
| Supervisor calls, project import, entry and service scripts, add-on scripts, constants, tools and tests | little or none | | |

How they meet: the router and the handlers put C-Gate lines in the queue; the queue asks the pool
whether it may run, and sends through it; responses come back on the pool's sockets through the line
and response processors to tree discovery, interface monitoring and the publisher; events come on the
one event connection to the publisher, the aircon and security handlers and the device state manager.
The three connections meet in the connection manager's latch, whose `allConnected` starts the
initialisation and its syncs. A broker reconnection or the birth message of Home Assistant reaches
the resync coordinator, which replays discovery and state after a delay.

What is hard here, and hard to test (PROJECT.json lists each hazard at its line):

- two callbacks in an order nobody wrote a test for: `error` before `close`, a timer queued before
  `stop()`, a late stream after its watchdog, a broadcast that crosses a command;
- state checked at one time and used at another: the debounced setpoint, the health set, the latch,
  the arm state forgotten by a resync;
- loss: an event connection that is down, topics that are not retained, a broker without persistence,
  a process that exits without finishing `stop()`;
- retries and budgets: reconnections, tree attempts, resyncs, sync slots used once a session;
- answers without an address: tree streams and levels are attributed by the order of requests.

## 2 The modules

A definition that models code keeps the code's name where it can; `map` in PROJECT.json gives its
lines. Timers have no durations: an armed timer may fire at any later moment, so every race of a
timer with anything else is covered. Definitions marked *Mutation* are plausible bugs of the next
definition, used to show that each property can fail; they take no part in the specifications.

**ThrottledQueue** (`throttledQueue.js`). `queues`, `length`, `timer`, `isProcessing`, `active` are
the object's fields; `canProcess` is the bridge's gate, `inFlight`, `settled`, `lost`, `orphaned`
record what became of commands. Actions: `Add` (the append, the eviction at the cap and the first
immediate `_process`), `TimerFires`, `Finish` (the promise settles: `_finishProcess`), `Clear`,
`GateChanges`. **PriorityDispatch** says what it promises without sequences, timers or flags: the
oldest of the most urgent class starts, the oldest of the least urgent class is given up at the cap,
and every command is waiting, running, ended or dropped. `DispatchSpec` is its specification under
the refinement mapping `Dispatch`.

**CgatePool** (`cgateConnectionPool.js` with the pool's half of `cgateConnection.js`). A connection
object is a pair of its slot and a number, since a replaced object may live on: `connections` maps
slots to objects, `sock` gives the socket behind each, `heard` whether the pool still listens to it.
`start()` and `stop()` are two steps each (`Start`/`StartResumes`, `Stop`/`StopResumes`) around their
await. The other actions are socket events (`Connected`, `SocketError`, `RemoteClose`,
`SocketDestroyed`, `LateClose`), timers (`ConnectTimeout`, `ReconnectTimer`, `StartTimeouts`,
`HealthCheck`, `RecheckUnhealthy`) and the server's coming and going. `SocketError` leaves a `close` to come
(`dying`), as Node does. A write of a string does not throw, so the `catch` of
`_sendInitialCommands` has no counterpart; keep-alive pings are not modelled, and the reconnection
of a failing keep-alive equals a close.

**GroupControl** (the router's lighting and cover handlers, `cbusCommand.js`, `deviceStateManager.js`,
`coverRampTracker.js`, the status path of `eventPublisher.js`). `level` and `goal` are the bus, `queue` the
waiting commands of three classes, `events` and `answers` the lines of one group on the event and
the command connection, `known`, `pending` and `ramp` what the bridge remembers, `shown` the topics.
`HandleLevel`, `HandleRelativeLevel`, `HandlePosition`, `HandleSilent` (tilt and trigger), `HandleStop` and
`HandleGetAll` are requests with their optimistic publishes; `HandleEvent` and `HandleAnswer` are a line
with everything it causes, a waiting relative operation included; `OperationTimesOut` and
`Estimate` are the timers. The queue appears as what PriorityDispatch promises, at any speed. C-Gate
carries commands out in the order sent, which holds on one connection of the pool; each channel keeps its order
and the two may cross. `wanted` and `crossed` are history variables: what the last request stands for, whether an
older one could still act after it, and whether the last report overtook an answer. Positions are
asked of covers only, as discovery offers them.

**BridgeReadiness** EXTENDS CgatePool and composes it with the MQTT session, the event connection, the
latch, the debounce, the lifecycle, and the broker's retained status and last will. A step of the pool runs
its listeners in the same step (`ConnectionAdded`, `ConnectionLost`, `PoolStep`). `exited` stands for
`process.exit` (`index.js:92`), which does not wait for `stop()`; the initialisation work after the
readiness update is left out. That the MQTT client follows an error by a close, and that the broker
publishes a will when a session breaks and may lose retained messages, is assumed (`external`).

**AirconControl** (the router's thermostat commands, `airconControlRegistry.js`,
`airconEventHandler.js`). One ward; a unit stands for its ward, zones and source unit; levels are in
degrees (the code's divided by 256). `queue` and `air` are commands to and broadcasts from the
ward, each in order and arbitrarily late; `therm` is the thermostats, `registry`, `pending` and
`refreshed` the bridge's knowledge, `shown` the card. `HandleSetpoint`, `SendSetpoint` (the debounce
timer), `HandleModeOn`, `HandleModeOff` and `HandleFanMode` are the router's handlers with their optimistic
publishes; `HandleLine` is a broadcast with everything the event handler does, the refresh of the
ward included; `Execute` and the `Turn` actions are the thermostats and people at them. A request that a
handler refuses changes nothing but the log, and is what the guards exclude. `wish` and `hist` are history
variables. That a thermostat broadcasts what it was told, and ignores a plant type of 255, is taken from
the captures the source quotes.

**TreeDiscovery** (`haDiscoveryTreeSession.js`, the network events of `haDiscovery.js`). `pending`
is the queue of requests answers are attributed by, `session` the stream being received, the rest the
timers and budgets per network and the sensor's `status`. C-Gate keeps its answers in order per
connection and not across; it may stall, answer 401, stop in the middle, answer late, or lose a
connection. A stream is a start line, one data step and an end line. `Line` is a line with all its
handling (a complete tree is parsed in the same step, since xml2js calls back before it returns, which
leaves the epoch guards without effect); `Event` is a network event, `Trigger` a rediscovery, and
the timers are `WatchdogFires`, `RetryFires`, `ResyncFires` and `DeadlineFires`. Whether a tree is malformed,
unsynchronised or unchanged is a choice of C-Gate; `FlatTrees` puts units directly under the network,
`Unruly` adds connections that break, networks that are removed and streams without a data line.

**SecurityPanel** (`securityPanelState.js`, `securityPanelConditions.js`, `securityEventHandler.js`,
`stateResyncCoordinator.js`). `panel` is the real panel, `wire` its broadcasts on their way, `asked` the
status requests not yet answered; `alarm`, `cond`, `states`, `isolated` are the tracker, `file` the
snapshot, `slots` the sync slots, `announced` the discovery of the panel, `resync` the coordinator's timer,
`shown` what Home Assistant shows, `up` the phase of the bridge (starting, broker up, ready, event
connection dropped). `Handle` is one reading with every transition, publish, announcement, sync and save it
causes. `answered`, `missed`, `lost`, `unseen` record what the bridge could not have known, so that the
properties claim nothing impossible: what is broadcast while the event connection is down is gone, and so is
a publish nobody hears. The panel is nondeterministic within the order of events that the captures in the
source show.

**CommandDelivery** (`_sendCgateCommand`, `execute`, `sendWithBackpressure`). `wire` is the connections with what each
was written, `job` the one hand-over under way: `HandOver`, `FirstSend`, `SendAgain`, `Report`, the wait's timeout
`DrainGivenUp`, and the sockets' `Lost`, `Connected`, `Drained`. Between two awaits that wait for nothing no socket event
is handled (`SocketsHeard`). Whether a write is accepted freely is the socket's choice; `pressed` remembers the
commands for which one was not.

**EventTopics** and **MqttOutbox** (`eventPublisher.js`, `mqttManager.js`). EventTopics is constant operators only: the
topics and payloads of every kind of reading and group event, in order, a level as the rounded percentage.
MqttOutbox carries the publications of one address through the coalescing buffer, the dedup window and the queue of an
outage to what the broker retains (`out`). A JavaScript Map is a sequence of entries in insertion order, so that a
key that is set again keeps its place where the code lets it. `EventPublished`, `FlushBuffer`, `WindowEnds`,
`BrokerConnects`, `BrokerLost`, `PublisherRestarts`; `latest` is the history the properties compare with. An event's
`role` is what settings and overrides make of its group. `OneAddress` says that the events of one address fit together: a
group that is a cover for one event is a cover for all, and an address whose level is shown is no motion sensor or zone.
The roles by application are settings. The type override of a group can be edited while the process runs; the position it
leaves on the broker when it stops being a cover is outside this model.

**LabelFile** (`labelLoader.js`, `labelRoutes.js`, `applySecurityZoneName`, SIGUSR1). `file` is the disk, `memory` the
loader, `announced` the last `labels-changed`, `watch` the watcher with its grace, debounce and single retry. An
edit on disk may break the file or take it away, and the watcher may miss its return (`unheard`). The four
extended sections are treated alike by the code and stand as one.

**InterfaceRecovery** (`networkInterfaceMonitor.js`, `cniNotificationManager.js`, `serialDeviceRecovery.js`, with the
add-on's resolver as far as `src/` uses it). `pci` is the device and C-Gate, `cni` the monitor, `rec` the recovery's
memory with backoff and stable window as flags that time sets. `HandleReading` is a poll's answer with everything it
causes, the script included; an answer is handled after it was given, so the device may have moved.

**Initialisation** (`bridgeInitializationService.js`). `collected` and `handler` are the calls of `handleAllConnected`
that wait for the networks and the one response handler they share; `polls`, `asked`, `monitored` what is polled,
unanswered, monitored. `NotThere` is a 401 with its two meanings, `OtherError` any other error that ends a discovery,
`PeriodsReloaded` the reload of settings.

**CgateLines** (`lineProcessor.js`, the connection listeners of `cgateWebBridge.js`, `commandResponseProcessor.js`). A line is a
sequence of tokens that begins with its kind; sockets deliver any prefix of what was sent. `ReceiveChunk` is
`processData` with every handler of every line it completes; `CommandReplaced` and `EventReplaced` differ as the code does:
a pool slot gets a new processor, the event connection keeps the old one. `calls` counts which component a line reached.

**PanelCommands** over **RateLimiter** (the router's security, measurement, temperature, scene and request topics;
`rateLimiter.js`). RateLimiter is constant operators on a log of request times; PanelCommands has one action per topic,
with every refusal. `attempts` is the history of well-formed disarms.

**EventStream** (`sseHandler.js`, the event log of `cgateWebBridge.js`, `webServer.js`). `ring`, `listeners` and `streams` are
the code's; `socket` is a browser's, which refuses writes some time before its `close` is heard, or whose `close` was
over before the handler listened. `EntryLogged` appends and writes to every listener; the server starts, binds, closes.

**Diagnostics** (`haBridgeDiagnostics.js`, `staleDeviceDetector.js`, `deviceStateManager.js`, `stateResyncCoordinator.js`). What
is published again after a reconnection of the broker or a birth of Home Assistant: `triggers` collapse into one timer,
`queued` is the outbox, `heard` the devices last seen, with the eviction at the cap.

**GroupTypes** and **EntityDiscovery** (`haDiscovery.js`, `haDiscoveryPublishers.js`, `haDiscoveryTree.js`,
`unitTypeClassifier.js`, `deviceTypeClassifier.js`). GroupTypes is constant operators: unit categories, what units and names say of
a group, the precedence override, prefix, cover name, unit, and the switches of each. EntityDiscovery keeps the Sets and Maps of the process in
`d`, with what the broker retains. The code's loops over groups and entities touch topics of their own, so their order
does not matter: `PublishGroups`, `Announce` and `Retract` are about a set at once. `TreeRun` is a whole run (groups,
labelled groups, labelled zones, sweep) over a tree some of whose units may not have reported their groups yet,
`EntityHeard` and `GroupHeard` the first traffic, `UpdateLabels`, `ZoneNamed`, `NetworkRemoved`, `Republish`, `Restart`. A
config's payload is its type and name. TreeDiscovery says when a tree arrives, EntityDiscovery what it does.

**MCServices** is the instance that puts eleven of these components in one run. They share no state, so it is a
disjoint sum and not a composition: `part` says which component a behaviour is about, and the others stay in one
initial state. Interleaving components that do not interact would multiply states and show nothing more.
**MCBridgeReadiness** holds two in the same way: the bridge, and the tree session over one connection that lasts.

## 3 The runs

Twelve runs; a violation run shows a statement of the repository that its code does not keep (section 5).

| Run | Question | Bounds | States |
|---|---|---|---|
| `services` | Eleven components, one at a time: see the next table | see below | 668 k |
| `bridge_readiness` | First up noticed and status agrees (`StatusTold`), stale Online withdrawn (`OnlineWithdrawn`), Online again (`ReadyAgain`); by itself the tree session: every discovery ends in ok or a pause (`Resolves`) | bridge: 1 slot, 3 objects; tree: 2 networks, 1 connection that lasts, 1 retry, 1 nudge, flat trees, no removal | 435 k |
| `group_control` | At rest what is shown is the bus and the last request stands (`RestAgrees`), a stop holds, requests obeyed | 1 group, light or cover, 3 requests, 1 hand at the wall, 2 levels asked, 1 level seen on the way | 1.1 M |
| `aircon` | Last request wins; card, learned mode and the targets sent are right (`ViewsAgree`); ward learned, requests served | 2 thermostats, 2 modes, 2 fan speeds, 3 requests, 1 hand at a thermostat | 926 k |
| `aircon_power_up` | (violation) a setpoint never powers a unit up | 1 thermostat, 2 requests, 2 hands | |
| `tree_discovery` | Records agree: one wait, watched, sensor honest (`RecordsAgree`) | 2 networks, 2 connections, 1 retry, 1 resync, 2 nudges | 2.4 M |
| `tree_flat` | (violation) a network gets its own devices only, with flat trees | 1 connection that lasts, 1 retry, 1 nudge | |
| `tree_overlap` | (violation) never stuck, with two connections | 2 connections | |
| `security` | Card, sensors and tracker right at rest (`PanelAgrees`), reassurance corrected, blank card filled | 2 zones, panic, away mode, 4 changes, 2 upsets, lag 1 | 2.1 M |
| `security_arm_ready` | (violation) arm_ready never downgrades | the same | |
| `entity_discovery` | What is published is one entity per group without the light or sensor it supersedes, and replayed exactly (`ConfigsRight`), no load becomes a sensor, what announced itself stays | 2 groups, 3 kinds of self-announcing entity, 4 projects, 4 label files, 3 option sets, 2 upsets | 284 k |
| `entity_leftover` | (violation) no entity is left over when an override changes | 1 project, 2 label files, 1 option set, 2 upsets | |

In `services`:

| Component | Properties | Bounds |
|---|---|---|
| ThrottledQueue | `QueueSound`: depth exact, no lost wake-up, serial sends up to `clear()`; `DispatchSpec`: every step is one of PriorityDispatch; `QueueDrains` | cap 2, 5 commands |
| CgatePool | `PoolSound`: no slot given up, health is current, nothing comes back after stop; `OutageSurfaced`; `Recovers` | 2 slots, 3 objects a slot alive at once |
| CommandDelivery | `CommandsAccounted`: written or reported, once without back pressure, never older after newer on a connection; `HandoversEnd` | 2 connections, 2 commands, 2 losses |
| MqttOutbox, EventTopics | `NewestWins`: the broker ends with the newest value; `TopicsCohere`: state, level, position and problem agree | outage cap 3, dedup cap 3, 4 events or troubles |
| LabelFile | `LabelsFollowFile`: file, loader and discovery agree once the watcher is quiet | 2 labels, 2 names, 2 section contents, 3 edits |
| InterfaceRecovery | `RestartsBounded`: no more runs than the budget, no more restarts than plugs; `DeviceComesBack` | 2 ports and a path by id, 2 attempts, 4 moves |
| Initialisation | `NetworksServed`: what is there is polled and monitored; `VainPollsEnd` | 2 networks, 2 applications, 2 overlapping calls, 3 calls, reloads or errors |
| CgateLines | `LinesExact`: lines handled and rest are what was received, fragments in order, one refresh per sync | 1 slot and the event port, 3 lines or replacements, limit 4 tokens, 1 fragment kept |
| PanelCommands | `CodesLimited`: no window sees more codes than allowed, and none is refused without as many attempts | 3 panels, 2 tracked, 1 code a window of 1, clock to 2, 5 disarms |
| EventStream | `StreamsFaithful`: ring in order, streams complete, a listener per stream, at most two | ring of 2, 4 entries, 3 browsers, 2 streams |
| Diagnostics | `AnnouncementsReturn`: what was announced is there again, the count comes to be right | 3 devices, 2 remembered, 3 happenings |

Invariants of one component are stated as one property that names its parts (`PoolSound == TypeOK /\ NeverGivesUp /\
...`); a part of it is what a reader should look for when it fails.

Why the bounds are enough. *Queue*: a cap of two makes the cap bind with one or two classes waiting, and
five commands allow an eviction, a send and a clear in every order. *Delivery*: two connections give a fall-back and
an end of the list; the second command shows what a doubtful first one leaves behind. *Outbox*: caps of three are
below the topics of a cover and a sensor together, so both evict; four troubles are two values of a topic, an outage and a
loss or restart. *Labels*: three edits are a removal, a return and a save. *Recovery*: four moves are a plug,
a drop, a replug and an add-on restart; the budget is spent within them. *Initialisation*: two calls that overlap
contend for the one handler. *Lines*: a limit of four tokens is below two lines, so the limit cuts. *Panel*: three panels
against two that are tracked force one to be forgotten; a boundary lies at exactly one window. *Stream*: four
entries wrap a ring of two; the third browser meets the cap. *Diagnostics*: the third device evicts.
*Entities*: the two groups are of different applications, the four projects are the cases `UnitType` tells apart, and the
three option sets are all on, types from units off, and automatic types off; two
upsets give a change and a restart, or a loss and a removal, in every order with runs and first traffic, which are
not bounded.
*Pool*: two slots show that a slot does not disturb another; three objects a slot are one current, one replaced and one
being created (numbers are reused, so the number of reconnections is not bounded); the retry count only scales a
delay, so it may saturate. *Group*: groups meet in the queue only, where one more group is one more waiting command;
that the level event of another group does not consume an operation is read from the code and not exercised. Three
requests are a relative operation, one that overtakes it and one more; the levels are the real ones.
*Bridge*: with two slots the states are millions, and the latch distinguishes only an empty health set.
*Aircon*: three requests give a debounced setpoint overtaken twice, or by another unit of the same ward; the
change at the wall is the fourth actor's move. Targets 22 and 60 are on both sides of the plausible limit.
*Tree*: two networks are what a misattribution takes; one retry and one resync exhaust both budgets.
`MaxOwed` bounds the requests C-Gate owes, and never binds in `bridge_readiness`. *Security*: zone z2 is outside
the first report; four changes of the panel are arm, entry delay, alarm and its end, and two upsets are a
restart of the bridge and one of Home Assistant, or twice the same.

Fairness is weak and on what the event loop or a live peer does: due timers fire, intervals recur, delivered events are
handled, promises settle, a wait for a drain times out, an attempt to reach a server that is up succeeds, the broker publishes
due wills. It is never on requests, faults, edits, the server's coming back or, in TreeDiscovery, on C-Gate answering.
In SecurityPanel what went away comes back and the panel answers what it was asked. In InterfaceRecovery polls are
answered and C-Gate opens a port that is there, but nothing says that the script succeeds: attempts may be spent in
vain. In Initialisation a 401 arrives in the end for a pair that is not there, and in Diagnostics the
broker's staying is the premise of the property. The liveness properties of MCServices carry their fairness as a premise
(`part = "delivery" /\ DeliveryFairness => ...`), since it is about one component and the run has eleven; so do those of `bridge_readiness`.

Deadlock is not checked: a behaviour may end, since the process exits (BridgeReadiness), or the bounded requests,
commands, changes or nudges are used up (the others). What must not stop is stated as a liveness property. In `services` every
action of every component fires; the one branch TLC never takes is a full queue that is not active, which the code
cannot reach either.

## 4 The proofs

| Module | Theorems (for every value of the constants) | Inductive invariant |
|---|---|---|
| SendingProofs | of the queue `QueueTypes`, `QueueLengthExact`, `QueueNoStrandedWork`, `QueueSerial`, their sum `QueueIsSound`; the refinement `QueueDispatches` (`Spec => DispatchSpec`); of the disarm codes `CodesAreLimited` (`CodesLimited`); of the outbox `NewestIsRetained` (`NewestWins`), `TopicsAreCoherent` (`TopicsCohere`); of the diagnostics `AnnouncedIsThere` | `QueueInv`: types, exact length, `WakeUpInv`; for the refinement `DispatchInv`: an array is in order of age, its numbers have been given out, and the counter counts the abstract queue too; `LimiterInv`; `OutboxInv` and, on top of it, `Coherent(latest)`; `AnnouncedInv` |
| ConnectionProofs | of the pool `PoolTypes`, `PoolNeverGivesUp`, `PoolHealthyIsCurrent`, `PoolNoResurrection`, their sum `PoolIsSound`; of the bridge `BridgeDrivesPool`, `BridgeNoticesFirstUp`, `BridgeStatusAgrees`, their sum `BridgeStatusTold`; of the lines `LinesAreExact` (`LinesExact`) | `PoolInv`; on top of it `BridgeInv`; `LinesInv` |
| GroupControlProofs | `GroupsRestRight` (`RestAgrees`), `StopsAreHonoured` (`StopHonoured`) | `GroupInv`: for each group `LastWord`, `ReportsTrue`, `ShownCatchesUp`, `LightStill` |
| AirconControlProofs | `ClimateViewsAgree` (`ViewsAgree`), `LatestRequestsWin` (`LatestRequestWins`) | `AirconInv`: for each unit `ModeKnown`, `TargetKnown`, `CardKnown`, `WishOnItsWay` |
| SecurityPanelProofs | `SecurityInvariant`, `PanelIsRight` (`PanelAgrees`), `ReassuranceIsCorrected` (`ReassuranceCorrected`) | `SecInv`: eleven parts, below |
| TreeDiscoveryProofs | `TreeTypes`, `TreeRecordsAgree` (`RecordsAgree`), `TreeNeverStuck` and `OneConnectionNeverStuck` (`NotStuck`, where streams do not overlap) | `TreeInv`: these together with `DeadlineHasSession` (a deadline belongs to a session) and `StreamsRequested` (a stream answers the oldest request of its connection); on top of it `Moving` |
| ServicesProofs | `RecoveryBounded` (`RestartsBounded`), `NetworksAreServed` (`NetworksServed`), `LabelsAreFollowed` (`LabelsFollowFile`), `StreamsAreFaithful` (`StreamsFaithful`), `CommandsAreAccounted` (`CommandsAccounted`), `EntityInvariant`, `ConfigsAreRight` (`ConfigsRight`), `SensorsHaveNoLoad` (`ReadOnlyHasNoLoad`), `AnnouncementsStay` (`AnnouncedStays`) | `RecoveryInv`, `LabelInv`, `StreamInv`, `DeliveryInv`, `EntityInv`; `NetworksServed` is inductive by itself |
| SequenceLemmas | lemmas only: the least and the greatest element of a set of numbers, induction along `0..N`, what a recursive function along `0..N` is; the newest element of a kind in a sequence, when the sequence grows at its end or shrinks at its front | |

ServicesProofs is about InterfaceRecovery, Initialisation, LabelFile, EventStream, CommandDelivery and
EntityDiscovery: one module, since these share no names. For the same reason SendingProofs is about ThrottledQueue,
PanelCommands, MqttOutbox and Diagnostics, and ConnectionProofs about the pool, BridgeReadiness, which composes it, and CgateLines.

**Recursion.** Splitting a buffer, publishing a list and replaying tree fragments are loops, here recursive functions
along `0..N`. The induction theorems of the library take an operator as a parameter and cannot be used. `Least` (a set of
naturals has a least element) follows from the well-foundedness of strict inclusion among finite sets, which is stated about
sets; from it follow `Induct`, which is about a set of numbers, and `Recursion`, which says that a function given by its
first value and its steps exists and is what it should be. Every loop is then an invariant over its prefixes.

**Queue.** That no work is stranded is not inductive by itself. A completion arms the timer only if it finds the
queue active, and a send that is not in flight would never complete; `WakeUpInv` says that the timer and a send
exclude each other and that both need an active queue. `QueueSerial` needs its own count: each abandoned
send is one `clear()` of an unfinished send. The four arrays are summed by cases over the four classes, so that the
module has no recursion. The refinement maps the arrays to the sets of numbers they hold (`Dispatch`); the
numbers are given out in order, so the head of an array is the oldest of its class. An `Add` is a
Submit, with its eviction at the cap and the send it may start at once; a timer that fires is a Start, or a
stutter when nothing waits or the gate is closed; a completion is an End, and `Clear` a Discard.

**Pool.** A slot has a future because a pending mark always has its timer (`TimersExact`) and a slot without
one has a current object with a live socket that the pool listens to (`LiveIsCurrent`,
`HeardIsCurrent`). Health is current because replacing an object happens only where the old one is
closed or silent (`PendingIsClosed`); the exception, a `start()` that established nothing, is part of
the property and described in section 5. `LifeCycle` and `OwnObjects` tie the flags to the phases
of start and stop and objects to slots.

**Bridge.** Each step of the bridge is a step of the pool or leaves the pool alone (`BridgeDrivesPool`), so that what
is proved of the pool holds here. `StatusCurrent` is why the broker's copy is right: on an open session nothing is
due that would overwrite the last word said. The first up is noticed because the latch rises with the last of
the three connections, whichever comes last.

**Panel codes.** The log keeps timestamps, the property counts attempts. `EntriesTrue` says that a panel's entry is of its last
attempt and that its timestamps are of its attempts; `TypedRemembered` is the direction that could fail: a code that was typed is
still in the log, or too old to count, or its panel was forgotten since, and then as many others as are tracked had been
tried between two of its attempts (`WithinCap`: the one that is dropped is the one seen longest ago). A code that is typed
found fewer timestamps than allowed, so few of the window were typed; a refusal found as many, and each is an attempt.

**Outbox.** Of every topic the bus told of, the newest value is in the buffer, or it is coming: it is queued, or it is with the
broker and nothing of its topic is queued (`Coming`), unless it was lost (`gone`). The window is the subtle part: dropping a
publish that repeats its topic's last one is right only if that one is still coming, which `Recalled` says of every entry of
the window and which an eviction from the queue does not break, since it marks the topic as lost. `Keeps(s, L, U)` is all this
for an outbox `s`, newest values `L` and the topics `U` whose publication is still to be made; each publication of an event or
of a flushed buffer preserves it and takes its topic out of `U`, so that at the end of the loop `U` is empty. `TopicsCohere` then
speaks of `latest` only: `Coherent` is preserved by every kind of event, by cases over `Publications`, and needs `OneAddress`.

**Lines.** `Wire` is what a list of lines looks like on a socket. What `Split` makes of a buffer is such a list and a rest without a
mark (an invariant of its loop). Of the chunks it suffices that the rest, which is the buffer, continues into the next chunk
(`Begins`), and that C-Gate sends no empty line, since an empty line is skipped and would be missing from the wire. Synchronisations are
counted by their places in `handled`, which a callback extends.

**Groups.** The last request is the last command in the queue that moves its group, or it has been carried out, or it
is a relative one that waits for a level nothing can change any more (`LastWord`). The last report of a group at rest
is its level (`ReportsTrue`), and what is shown is what is known or there is a report to come (`ShownCatchesUp`).
None of these looks at another group, so that a step is examined for one group at a time.

**Thermostats and panel.** Both listen to a broadcast channel that is in order and late. The invariants have one form,
which SequenceLemmas provides for: of the messages on their way that tell of a thing, the newest tells what is; when there
is none, the bridge knows it already. Of a thermostat the things are mode and target, and for the
commands to it, what was asked last. Of the panel they are each condition (`TroubleRight`), isolation (`IsolationRight`,
`IsolationEnds`), zone (`ZonesRight`), the card (`CardRight`), alarm (`AlarmEnds`) and arm mode (`ModeRight`); here
the bridge knows it "unless a status request is due or something was lost", which `SessionSound` ties to the slots
of a session. `PanelSound`, `LampsShown` and the types complete `SecInv`.

**Tree.** `RecordsAgree` is one wait, watchdogs and an honest sensor, which are preserved only together: a
request is queued only where nothing is in flight for its network, a stream takes the head of the queue and
its watchdog with it, and a stream that is dropped leaves neither. That a network gets its own devices is not proved: the
code checks it where a tree carries its network number, and does not keep it where it does not (section 5). The types of
TreeDiscovery are proved and in no run's list.

`TreeNeverStuck` says what the run `tree_overlap` leaves open: that nothing but an overlap of streams makes a network stuck, as long as
connections last, answers hold data and no network is removed (`~Unruly`). All three are needed: an end line without data returns
without failing its network (`haDiscoveryTreeSession.js:501`), the session of a stream that breaks off with its connection is
taken over by the next stream, and a network removed in the middle of its stream leaves a session without a deadline (with
`Unruly = TRUE` TLC finds `NotStuck` violated with one connection). `Moving` adds to `NotStuck` that a session has a deadline and a stream under way
(`Attended`), so that a start line never meets a session, and that the session of a stream that has sent its data holds
it (`Holding`), so that an end line never drops one. It is the safety half of `Resolves`: what remains is that timers fire and budgets end.

**Diagnostics.** `AnnouncedIsThere` is the safety half of `AnnouncementsReturn`. Before the first connection what was announced is queued; on a
connection it is there, or its resync is due (`NothingForgotten`). Nothing needs to hold during later outages, since
the connection that ends one publishes the configs of the bridge and triggers the resync of the entities.

**Services.** *Recovery*: the runs of an outage are counted by the attempts (`BudgetExact`), and a device shows evidence of a
renumber only after a plug that no restart answered (`EvidenceNeedsPlug`). *Streams*: the ring holds the last entries from
its head on, modulo its size (`RingOf`); a live browser got every entry since its first (`StreamsRun`); listeners are
the streams (`StreamsKept`). *Delivery*: a command under way is unreported, and unwritten unless under pressure
(`UnderWay`); with what was written being no newer than it (`HandedOver`), order per connection follows. *Labels*: the
property with the types is inductive. *Entities*: what is published of an entity is its own and protected from the sweep
(`Own`, `Driven`), the cache is what is published (`Exact`) and the broker has it unless it lost it (`Mirrors`), a group
has one type without the light or sensor it supersedes (`Single`, `NoStale`), a zone that counts as announced shows its name
(`Named`), and what is a sensor on the word of the last run's units has no load (`NoLoad`). That the last survives a
tree that is partly synchronised is the lemma about `UnitType` and `PartlySynced`.

Assumptions are those in the modules, each evaluated by a run: positive sizes, limits that are naturals, finite sets of
networks, units and zones, `Unknown` and `None` distinct from what they stand beside, and the shape of the data
(EntityDiscovery: a project names groups and its units list some, a unit that lists groups is a real device, a label file has a
name or none for all; GroupTypes: prefixes give types; MqttOutbox: levels are numbers and the events are of one address;
CgateLines: no line is empty or contains a mark). Nothing else is assumed, but `~Unruly` and streams that do not overlap where
said; the fairness plays no part in the proofs.

Only model-checked:

- every property under fairness (`QueueDrains`, `HandoversEnd`, `DeviceComesBack`, `VainPollsEnd`,
  `AnnouncementsReturn`, `OutageSurfaced`, `Recovers`, `OnlineWithdrawn`, `ReadyAgain`,
  `RequestObeyed`, `WardLearned`, `RequestServed`, `Resolves`, `CardFilled`): temporal reasoning with fairness and
  ENABLED is out of the prover's reach;
- what the five violation runs refute.

## 5 Disagreements and observations

Checked, each by a violation run with the quoted text in PROJECT.json:

- `aircon_power_up`: a setpoint waits for its debounce timer while the unit is switched off; the timer does
  not look again and sends it with the fallback mode, which turns the unit on.
- `tree_flat`: an answer that comes after the watchdog of its request becomes the answer of the next network in the
  queue, since the failed request is removed from it (the test's comment says that this is what prevents it). A tree with its
  units directly under `<Network>` is taken whatever network it is of, so one network's devices are published under another.
- `tree_overlap`: two streams that overlap leave a network `discovering` with no request, stream or timer.
- `security_arm_ready`: a resync makes the tracker forget that the panel is armed, and an `arm_ready` that
  arrives before the answer is published as `disarmed`. The `security` run shows that it is corrected.
- `entity_leftover`: an override to a switch (cover, relay, scene) is taken out of the label file and the add-on
  restarted; the group is published as a light, and the retained switch stays beside it. Only the light topic and, with types from
  units, the binary sensor topic of a group are cleared across processes. The add-on's documentation admits a leftover for
  the binary sensor of that option (`homeassistant-addon/DOCS.md:406`), not for overrides, prefixes, names or the switches
  of automatic types, where it is the same. `ConfigsRight` therefore speaks of what this process publishes.

Seen while modelling, with no run of their own:

- Queue: a full queue of urgent commands evicts one of them to admit a bulk command
  (`throttledQueue.js:194`), which is what PriorityDispatch states.
- Pool: the first-attempt promises reject by timers only (`cgateConnectionPool.js:338`). Where every first
  attempt was refused, `start()` schedules reconnections for slots that have reconnected meanwhile and tears
  down live connections. `HealthyIsCurrent` excludes this case. `stop()` during `start()` leaves the health
  timers running on a stopped pool.
- Delivery: `socket.write()` that returns false has taken the data, and `sendWithBackpressure` writes it
  again after the drain (`cgateConnection.js:138-152`): the command is sent twice. A command that is reported as
  failed may have been written, and with two connections an older command that waits in one socket can reach C-Gate
  after a newer one. `CommandsAccounted` states what is left: order per connection, and once without pressure.
- Publishing: triggers pass the same coalescing and dedup as states, so that two presses of a button inside one
  window can become one.
- Labels: `save()` completes the sections it was not given from memory, though the comment says from disk
  (`labelLoader.js:130-134`); an edit within the grace of a save is not read until the next change; SIGUSR1
  reloads the loader and tells nobody; it loads without `keepOnError`, so that a file
  briefly removed by a backup empties the labels, which the option is there to prevent (`labelLoader.js:50-53`), and a PATCH then
  writes that to disk.
- Recovery: evidence and budget are kept per network, so with two networks on one device a
  renumber restarts C-Gate once per network; a path by id hides a renumber from the evidence (`NoEvidence`).
- Initialisation: while networks are discovered, a 4xx that answers any other command ends the wait early, and what it
  collected replaces the networks known before; the rest of `handleAllConnected` runs although `stop()` was called meanwhile.
- Lines: a 762 on the command port tells discovery twice (`commandResponseProcessor.js:281-284` and the bridge's own
  handler), though `cgateWebBridge.js:842` says once per notification; the partial line of a replaced connection is handled as a
  whole one, though `cgateWebBridge.js:453` says it avoids a stale one; the event connection's partial line joins the first line of the
  next connection; a chunk above the limit loses complete lines.
- Groups: a STOP is 'critical' (`router:967`) and overtakes a position or switch command that still waits, after which
  the cover travels, although the README says that it halts a cover (`README.md:105`); `StopHonoured` excludes this case.
  An INCREASE waiting for its level is cancelled by another relative request only (`router:833`, "so
  the latest command wins"); it takes a level that an OFF sent after it produced, or an event older than its
  GET, for its base, and acts after the OFF. Optimistic publishes and estimates go past the dedup window of
  the publisher. Estimates start from the last level heard, or from closed, and a light asked for a position
  would get them too, with no report to end them.
- Bridge: a reset gives `error` and then `close`; the first empties the pool's health set without the signal
  that lowers the latch, so the recovery finds it still up and the status stays Offline
  (`ReadyAgain` states the case where the latch did drop). With a debounce, a reconnection
  inside the window skips the readiness update too (`bridgeInitializationService.js:85`); `stop()` can be
  overtaken by a reconnection that sets the lifecycle back from stopping (`cgateWebBridge.js:586`).
- Aircon: off addresses the whole ward, not the unit asked; a type fallback of 0 is commented "any" in the
  registry and decoded otherwise, and a pending setpoint is built from whatever mode has been learned when
  its timer fires.
- Tree: A stalled stream nobody asked for schedules a retry, and sends
  TREEXML, for the network 'unknown'; a network removed in the middle of its stream keeps the session
  without a deadline (`haDiscovery.js:379-400`); a resync timer can reopen a paused network.
- Entities: an excluded panel leaves its bypass button announced (`haDiscoveryPublishers.js:1317`), though the comment at
  line 679 says that exclusion retracts what an earlier run published.
- Diagnostics: at the cap the device that was entered first is forgotten, even if it was heard a moment ago.
- Panel: the keys of a code are separate commands of the queue; a queue at its cap drops some of them, and the pool may
  spread them over connections.
- Security: condition sensors stay Unknown when the panel was announced outside the path that seeds them, or
  when Home Assistant was restarted; `PanelAgrees` allows that. The early sync slot is used up once a
  session, so after the event connection was lost the connect sync asks nothing, and a change that was
  missed stays missed; the invariants at rest exclude it (`missed`). A status report in an entry delay or an
  alarm replaces the state by the arm mode. `alarm_off` of an armed panel can show disarmed until the
  `system_arm` behind it. The snapshot is written in place, not atomically.

## 6 Left out, and the plan

Not modelled, with reasons, are listed as components in PROJECT.json: one-shot configuration, the Supervisor's calls, the
project importer, HTTP formatting, developer tools, and the scripts around the container. Inside the modelled
components: the parsing of lines and payloads, ramp times, eviction of old levels, the topics of tilt, trigger and HVAC
groups in GroupControl (EventTopics has them), setback and guard flags, humidity and plant warnings of thermostats, zone names, the
security view of the event stream, retained topics (`retainreads`), reconnections of the broker within a session of SecurityPanel,
tree signatures (a choice), areas and payload fields of entities, the text of notifications, the clock request, and all delays.

Next: configuration precedence as operators, and the retained messages of one process across the composition of
EntityDiscovery with MqttOutbox.
