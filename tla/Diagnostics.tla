----------------------------- MODULE Diagnostics -----------------------------
(***************************************************************************)
(* What the bridge says about itself and about silent devices: its         *)
(* diagnostics (src/src/haBridgeDiagnostics.js), the devices not heard     *)
(* for long (src/src/staleDeviceDetector.js, src/src/deviceStateManager.js)*)
(* and what is published again when the broker or Home Assistant comes     *)
(* back (src/src/stateResyncCoordinator.js, src/src/cgateWebBridge.js).    *)
(*                                                                         *)
(* A topic is retained or queued for the broker (MqttOutbox); only the     *)
(* count of silent devices has a value that matters.                       *)
(***************************************************************************)
EXTENDS Naturals, Sequences, FiniteSets

CONSTANTS
  Devices,
  MaxDevices,    \* deviceStateMaxEntries
  MaxHappenings  \* bound: events of devices, outages, restarts

ASSUME DiagnosticsAssumption == MaxDevices \in Nat \ {0} /\ MaxHappenings \in Nat

VARIABLES
  options,   \* settings: diagnostics, stale, onReconnect (stateResyncOnMqttReconnect)
  running,   \* started: start() published; entities: HaDiscovery recorded configs
  session,   \* up: mqttManager is connected; once: it was
  retained,  \* per topic on the broker its value
  queued,    \* per topic waiting for the broker its value
  triggers,  \* _pendingTriggers; a timer is armed while there are any
  heard,     \* _deviceLevels, _lastSeen: a Map; old: last seen before the threshold
  happenings

diagVars == <<options, running, session, retained, queued, triggers, heard, happenings>>

Happen == happenings < MaxHappenings /\ happenings' = happenings + 1

NoTopics == [t \in {} |-> {}]

Over(m, new) == [t \in DOMAIN m \cup DOMAIN new |-> IF t \in DOMAIN new THEN new[t] ELSE m[t]]

\* Configs and states without a value of interest.
Plain(topics) == [t \in topics |-> {}]

PublishTo(connected, new) ==
  IF connected THEN retained' = Over(retained, new) /\ UNCHANGED queued
  ELSE queued' = Over(queued, new) /\ UNCHANGED retained

DiagInit ==
  /\ options \in [diagnostics : BOOLEAN, stale : BOOLEAN, onReconnect : BOOLEAN]
  /\ running = [started |-> FALSE, entities |-> FALSE]
  /\ session = [up |-> FALSE, once |-> FALSE]
  /\ retained = NoTopics /\ queued = NoTopics /\ triggers = {}
  /\ heard = <<>> /\ happenings = 0

-----------------------------------------------------------------------------
(* Silent devices *)

\* _getStaleDevices.
StaleDevices == {heard[i].device : i \in {j \in DOMAIN heard : heard[j].old}}

StaleCount == [t \in {"stale_count"} |-> StaleDevices]

\* updateLevelFromEvent: a known device keeps its place, and at the cap the device that
\* was entered first is forgotten.
DeviceHeard(d) ==
  /\ Happen
  /\ heard' = IF \E i \in DOMAIN heard : heard[i].device = d
                THEN [i \in DOMAIN heard |-> IF heard[i].device = d THEN [heard[i] EXCEPT !.old = FALSE] ELSE heard[i]]
              ELSE Append(IF Len(heard) >= MaxDevices THEN Tail(heard) ELSE heard, [device |-> d, old |-> FALSE])
  /\ UNCHANGED <<options, running, session, retained, queued, triggers>>

DeviceAges ==
  /\ \E i \in DOMAIN heard : ~heard[i].old /\ heard' = [heard EXCEPT ![i].old = TRUE]
  /\ UNCHANGED <<options, running, session, retained, queued, triggers, happenings>>

\* _check, on the interval.
StaleCheck ==
  /\ options.stale /\ running.started /\ PublishTo(session.up, StaleCount)
  /\ UNCHANGED <<options, running, session, triggers, heard, happenings>>

-----------------------------------------------------------------------------
(* Diagnostics *)

Configs == (IF options.diagnostics THEN {"diagnostics"} ELSE {}) \cup (IF options.stale THEN {"stale"} ELSE {})

\* start: both publish their config and their first state.
BridgeStarts ==
  /\ ~running.started /\ running' = [running EXCEPT !.started = TRUE]
  /\ PublishTo(session.up, Over(Plain(Configs \cup (IF options.diagnostics THEN {"state"} ELSE {})),
                                IF options.stale THEN StaleCount ELSE NoTopics))
  /\ UNCHANGED <<options, session, triggers, heard, happenings>>

\* publishNow, on the interval.
DiagnosticsTick ==
  /\ options.diagnostics /\ running.started /\ PublishTo(session.up, Plain({"state"}))
  /\ UNCHANGED <<options, running, session, triggers, heard, happenings>>

EntityAnnounced ==
  /\ ~running.entities /\ running' = [running EXCEPT !.entities = TRUE]
  /\ PublishTo(session.up, Plain({"entities"}))
  /\ UNCHANGED <<options, session, triggers, heard, happenings>>

-----------------------------------------------------------------------------
(* Resync *)

\* Mutation: the last trigger counts.
LatestTrigger(t) == {t}

\* requestResync: triggers collapse into one timer, which starts again.
RequestResync(t) == triggers \cup {t}

\* _runResync: the recorded configs after a reconnection only.  It also asks for levels and
\* security states, as commands of the queue.
ResyncRuns ==
  /\ triggers # {} /\ triggers' = {}
  /\ IF "mqtt-reconnect" \in triggers /\ running.entities
       THEN PublishTo(session.up, Plain({"entities"}))
       ELSE UNCHANGED <<retained, queued>>
  /\ UNCHANGED <<options, running, session, heard, happenings>>

HaOnline ==
  /\ Happen /\ session.up /\ triggers' = RequestResync("ha-birth")
  /\ UNCHANGED <<options, running, session, retained, queued, heard>>

\* _handleConnect: the queue is flushed; after the first time the bridge hears 'reconnect'.
BrokerUp ==
  /\ ~session.up /\ session' = [up |-> TRUE, once |-> TRUE]
  /\ retained' = Over(Over(retained, queued),
                      Plain(IF session.once /\ running.started THEN Configs ELSE {}))
  /\ queued' = NoTopics
  /\ triggers' = IF session.once /\ options.onReconnect THEN RequestResync("mqtt-reconnect") ELSE triggers
  /\ UNCHANGED <<options, running, heard, happenings>>

\* The broker goes, and may come back without what it retained.
BrokerDown(topics) ==
  /\ Happen /\ session.up /\ session' = [session EXCEPT !.up = FALSE]
  /\ retained' = [t \in DOMAIN retained \ topics |-> retained[t]]
  /\ UNCHANGED <<options, running, queued, triggers, heard>>

\* stop(), and the next process.
BridgeRestarts ==
  /\ Happen
  /\ running' = [started |-> FALSE, entities |-> FALSE] /\ session' = [up |-> FALSE, once |-> FALSE]
  /\ queued' = NoTopics /\ triggers' = {} /\ heard' = <<>>
  /\ UNCHANGED <<options, retained>>

DiagNext ==
  \/ DeviceAges \/ StaleCheck \/ BridgeStarts \/ DiagnosticsTick \/ EntityAnnounced
  \/ ResyncRuns \/ HaOnline \/ BrokerUp \/ BridgeRestarts
  \/ \E d \in Devices : DeviceHeard(d)
  \/ \E topics \in {{}, DOMAIN retained} : BrokerDown(topics)

DiagSpec == DiagInit /\ [][DiagNext]_diagVars

\* Intervals and timers fire.
DiagFairness == WF_diagVars(StaleCheck) /\ WF_diagVars(DiagnosticsTick) /\ WF_diagVars(ResyncRuns)

-----------------------------------------------------------------------------
(* Properties *)

\* What a running bridge has published and settings let it publish again.
Due ==
  (IF running.started THEN Configs \cup (IF options.diagnostics THEN {"state"} ELSE {}) ELSE {})
    \cup (IF running.entities /\ options.onReconnect THEN {"entities"} ELSE {})

CountShown == "stale_count" \in DOMAIN retained /\ retained["stale_count"] = StaleDevices

\* Once the broker stays, everything the bridge announced is there again, whatever the
\* broker forgot, whichever restarts of Home Assistant fell into the debounce and however
\* short an earlier connection was; and the count of silent devices comes to be right
\* (cgateWebBridge.js:466-481, stateResyncCoordinator.js:65-152, staleDeviceDetector.js:40-110).
DiagnosticsReturn ==
  <>[]session.up =>
    /\ <>[](Due \subseteq DOMAIN retained)
    /\ []<>(options.stale /\ running.started => CountShown)
=============================================================================
