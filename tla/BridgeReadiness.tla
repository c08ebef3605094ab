--------------------------- MODULE BridgeReadiness ---------------------------
(***************************************************************************)
(* The readiness of the bridge: the connection pool of CgatePool, the      *)
(* event connection (src/src/cgateConnection.js, the standalone half), the *)
(* MQTT session and its status topic (src/src/mqttManager.js), the         *)
(* allConnected latch (src/src/connectionManager.js), the debounced        *)
(* initialisation (src/src/bridgeInitializationService.js) and the         *)
(* lifecycle (src/src/bridgeReadiness.js), wired as the bridge wires them. *)
(*                                                                         *)
(* Event emitters call their listeners synchronously, so one step is a     *)
(* socket event or a timer with everything its listeners do.               *)
(***************************************************************************)
EXTENDS CgatePool

VARIABLES
  mqtt,          \* the MQTT client: "none", "connecting", "open", "failing" ('close' to come)
  mqttConnected, \* MqttManager.connected
  bridgeReady,   \* MqttManager._bridgeReady
  status,        \* topic hello/cgateweb: .last is _lastStatusPayload, .retained the broker's copy
  willDue,       \* the broker has a broken session whose will it has not published
  esock,         \* event socket: "none", "connecting", "open", "dying"
  econnected,    \* eventConnection.connected
  etimer,        \* eventConnection.reconnectTimeout is set
  allConnected,  \* ConnectionManager.allConnected
  debounce,      \* the last initialisation is "recent" or not ("idle"); "off": initDebounceMs = 0
  hasEverBeenReady,
  lifecycle,     \* BridgeReadiness._lifecycle.state
  exited         \* the process has called process.exit

poolVars   == <<ctl, slot, obj, signal, serverUp>>
mqttVars   == <<mqtt, mqttConnected, willDue>>
eventVars  == <<esock, econnected, etimer>>
readyVars  == <<bridgeReady, status, hasEverBeenReady, lifecycle>>
latchVars  == <<allConnected, debounce>>
bridgeVars == <<mqttVars, eventVars, readyVars, latchVars, exited>>
allVars    == <<poolVars, bridgeVars>>

-----------------------------------------------------------------------------
(* Readiness, computed from the connection state after the step at hand *)

\* _publishStatus on an open session: a payload that repeats the last one is not sent.
Published(s, payload) == IF s.last = payload THEN s ELSE [last |-> payload, retained |-> payload]

Payload(ready) == IF ready THEN "Online" ELSE "Offline"

Up == mqttConnected /\ econnected /\ healthy # {}

\* Mutation: only a ready bridge publishes.
UpdatePublishesReadyOnly(st, state) ==
  LET ready == mqttConnected' /\ econnected' /\ healthy' # {}
  IN  /\ hasEverBeenReady' = (hasEverBeenReady \/ ready)
      /\ lifecycle' = IF ready THEN "ready" ELSE IF hasEverBeenReady' THEN "degraded" ELSE "booting"
      /\ bridgeReady' = ready
      /\ status' = IF ready THEN Published(st, Payload(ready)) ELSE st

\* _updateBridgeReadiness: BridgeReadiness.update and its listener setBridgeReady;
\* st is the status topic so far, state the lifecycle so far.
UpdateReadiness(st, state) ==
  LET ready == mqttConnected' /\ econnected' /\ healthy' # {}
  IN  /\ hasEverBeenReady' = (hasEverBeenReady \/ ready)
      /\ lifecycle' = IF ready THEN "ready"
                      ELSE IF state = "stopping" THEN state
                      ELSE IF hasEverBeenReady' THEN "degraded" ELSE "booting"
      /\ bridgeReady' = ready
      /\ status' = IF mqttConnected' THEN Published(st, Payload(ready)) ELSE st

\* Mutation: the check counts the healthy connections before the new one is added.
CheckBeforeAdding(st) ==
  LET fires == ~allConnected /\ isStarted' /\ mqttConnected' /\ econnected' /\ healthy # {}
  IN  /\ allConnected' = (allConnected \/ fires)
      /\ debounce' = IF fires /\ debounce = "idle" THEN "recent" ELSE debounce
      /\ IF fires /\ debounce # "recent"
         THEN UpdateReadiness(st, lifecycle)
         ELSE status' = st /\ UNCHANGED <<bridgeReady, hasEverBeenReady, lifecycle>>

\* _checkAllConnected, and handleAllConnected when it fires: the initialisation, and
\* with it the readiness update, is skipped within the debounce window.
CheckAllConnected(st) ==
  LET fires == ~allConnected /\ isStarted' /\ mqttConnected' /\ econnected' /\ healthy' # {}
  IN  /\ allConnected' = (allConnected \/ fires)
      /\ debounce' = IF fires /\ debounce = "idle" THEN "recent" ELSE debounce
      /\ IF fires /\ debounce # "recent"
         THEN UpdateReadiness(st, lifecycle)
         ELSE status' = st /\ UNCHANGED <<bridgeReady, hasEverBeenReady, lifecycle>>

\* Mutation: a connection that goes down leaves the latch up.
KeepLatch == UNCHANGED allConnected

DropLatch == allConnected' = FALSE

-----------------------------------------------------------------------------
(* Steps of the pool, with what its listeners do *)

BridgeStart ==
  /\ ~exited /\ Start
  /\ mqtt' = "connecting"
  /\ UNCHANGED <<mqttConnected, willDue, eventVars, readyVars, latchVars, exited>>

\* pool.start() has resolved: 'started', then the event connection is opened, then
\* bridge.start() goes on to its own readiness update.
PoolStarted ==
  /\ ~exited /\ StartResumes
  /\ esock' = "connecting"
  /\ UNCHANGED <<mqttVars, econnected, etimer, latchVars, exited>>
  /\ UpdateReadiness(status, lifecycle)

\* 'connectionAdded'.
ConnectionAdded(c) ==
  /\ ~exited /\ Connected(c)
  /\ UNCHANGED <<mqttVars, eventVars, exited>>
  /\ CheckAllConnected(status)

\* 'connectionLost', and 'allConnectionsUnhealthy' when that emptied the pool.
ConnectionLost(c) ==
  /\ ~exited /\ c \in heard
  /\ RemoteClose(c) \/ LateClose(c)
  /\ allConnected' = (allConnected /\ ~(healthy = {c} /\ Active))
  /\ UNCHANGED <<mqttVars, eventVars, debounce, exited>>
  /\ UpdateReadiness(status, lifecycle)

PoolChecked ==
  /\ ~exited /\ HealthCheck
  /\ UNCHANGED <<mqttVars, eventVars, debounce, exited>>
  /\ IF healthy' = {}
     THEN DropLatch /\ UpdateReadiness(status, lifecycle)
     ELSE UNCHANGED <<allConnected, readyVars>>

\* Steps of the pool that nothing outside it reacts to.
PoolStep ==
  /\ ~exited
  /\ \/ StartTimeouts
     \/ \E i \in Index : ReconnectTimer(i)
     \/ \E c \in Conn : \/ SocketError(c) \/ SocketDestroyed(c) \/ ConnectTimeout(c)
                        \/ RecheckUnhealthy(c)
                        \/ c \notin heard /\ LateClose(c)
     \/ ServerChanges
  /\ UNCHANGED bridgeVars

-----------------------------------------------------------------------------
(* The event connection *)

EventConnected ==
  /\ ~exited /\ Quiet
  /\ esock = "connecting" /\ serverUp
  /\ esock' = "open" /\ econnected' = TRUE /\ etimer' = FALSE
  /\ UNCHANGED <<poolVars, mqttVars, exited>>
  /\ CheckAllConnected(status)

\* 'error': the socket is destroyed, its 'close' follows.
EventError ==
  /\ ~exited /\ Quiet
  /\ esock \in {"connecting", "open"} /\ ~serverUp
  /\ esock' = "dying" /\ econnected' = FALSE
  /\ DropLatch
  /\ UNCHANGED <<poolVars, mqttVars, etimer, debounce, exited>>
  /\ UpdateReadiness(status, lifecycle)

\* The socket is destroyed without an event of its own: connect timeout, TLS listener.
EventDestroyed ==
  /\ ~exited /\ Quiet
  /\ esock \in {"connecting", "open"} /\ ~serverUp
  /\ esock' = "dying"
  /\ UNCHANGED <<poolVars, mqttVars, econnected, etimer, readyVars, latchVars, exited>>

\* 'close', by C-Gate or of a destroyed socket: schedule the reconnection.
EventClosed ==
  /\ ~exited /\ Quiet
  /\ esock = "dying" \/ (esock = "open" /\ ~serverUp)
  /\ esock' = "none" /\ econnected' = FALSE /\ etimer' = TRUE
  /\ DropLatch
  /\ UNCHANGED <<poolVars, mqttVars, debounce, exited>>
  /\ UpdateReadiness(status, lifecycle)

EventReconnect ==
  /\ ~exited /\ Quiet
  /\ etimer
  /\ etimer' = FALSE /\ esock' = "connecting"
  /\ UNCHANGED <<poolVars, mqttVars, econnected, readyVars, latchVars, exited>>

-----------------------------------------------------------------------------
(* The MQTT session *)

StatusOnConnect == Published(status, Payload(bridgeReady))

\* 'connect': publish the status as far as it is known, then tell the listeners.
\* The client keeps its id, so the broker has dealt with the broken session.
MqttConnect ==
  /\ ~exited /\ Quiet
  /\ mqtt = "connecting" /\ ~willDue
  /\ mqtt' = "open" /\ mqttConnected' = TRUE
  /\ UNCHANGED <<poolVars, eventVars, willDue, exited>>
  /\ CheckAllConnected(StatusOnConnect)

\* 'error', which the bridge does not listen to; the client's 'close' follows.
MqttError ==
  /\ ~exited /\ Quiet
  /\ mqtt \in {"connecting", "open"}
  /\ mqtt' = "failing" /\ mqttConnected' = FALSE
  /\ willDue' = (willDue \/ mqtt = "open")
  /\ DropLatch
  /\ UNCHANGED <<poolVars, eventVars, readyVars, debounce, exited>>

\* 'close' of an open session or of one that failed; the library then reconnects.
MqttClose ==
  /\ ~exited /\ Quiet
  /\ mqtt \in {"open", "failing"}
  /\ mqtt' = "connecting" /\ mqttConnected' = FALSE
  /\ willDue' = (willDue \/ mqtt = "open")
  /\ DropLatch
  /\ UNCHANGED <<poolVars, eventVars, debounce, exited>>
  /\ UpdateReadiness(status, lifecycle)

\* The broker publishes the will of a broken session.
BrokerWill ==
  /\ willDue
  /\ willDue' = FALSE
  /\ status' = [status EXCEPT !.retained = "Offline"]
  /\ UNCHANGED <<poolVars, mqtt, mqttConnected, eventVars, bridgeReady, hasEverBeenReady,
                 lifecycle, latchVars, exited>>

\* A broker without persistence restarts.
BrokerForgets ==
  /\ mqtt # "open"
  /\ status' = [status EXCEPT !.retained = "none"]
  /\ UNCHANGED <<poolVars, mqttVars, eventVars, bridgeReady, hasEverBeenReady, lifecycle,
                 latchVars, exited>>

-----------------------------------------------------------------------------
(* Time and shutdown *)

DebounceExpires ==
  /\ debounce = "recent"
  /\ debounce' = "idle"
  /\ UNCHANGED <<poolVars, mqttVars, eventVars, readyVars, allConnected, exited>>

\* A signal: bridge.stop() as far as its first await, then process.exit, which breaks
\* the MQTT session without a farewell.
Shutdown ==
  /\ ~exited /\ Quiet
  /\ start # "none"
  /\ exited' = TRUE
  /\ willDue' = (willDue \/ mqtt = "open")
  /\ UNCHANGED <<poolVars, mqtt, mqttConnected, eventVars, latchVars>>
  /\ UpdateReadiness(status, "stopping")

-----------------------------------------------------------------------------

BridgeInit ==
  /\ Init
  /\ mqtt = "none" /\ mqttConnected = FALSE /\ bridgeReady = FALSE /\ willDue = FALSE
  /\ status = [last |-> "none", retained |-> "none"]
  /\ esock = "none" /\ econnected = FALSE /\ etimer = FALSE
  /\ allConnected = FALSE /\ debounce \in {"off", "idle"}
  /\ hasEverBeenReady = FALSE /\ lifecycle = "booting"
  /\ exited = FALSE

BridgeNext ==
  \/ BridgeStart \/ PoolStarted \/ PoolChecked \/ PoolStep
  \/ \E c \in Conn : ConnectionAdded(c) \/ ConnectionLost(c)
  \/ EventConnected \/ EventError \/ EventDestroyed \/ EventClosed \/ EventReconnect
  \/ MqttConnect \/ MqttError \/ MqttClose \/ BrokerWill \/ BrokerForgets
  \/ DebounceExpires \/ Shutdown

BridgeSpec == BridgeInit /\ [][BridgeNext]_allVars

\* Node fires due timers and delivers pending events, attempts to reach a server that
\* is up succeed, the broker publishes due wills, and time passes.
BridgeFairness ==
  /\ WF_allVars(PoolStarted)
  /\ WF_allVars(PoolChecked)
  /\ WF_allVars(StartTimeouts /\ PoolStep)
  /\ \A i \in Index : WF_allVars(ReconnectTimer(i) /\ PoolStep)
  /\ \A c \in Conn : /\ WF_allVars(ConnectionAdded(c))
                     /\ WF_allVars(LateClose(c) /\ (ConnectionLost(c) \/ PoolStep))
  /\ WF_allVars(EventConnected)
  /\ WF_allVars(esock = "dying" /\ EventClosed)
  /\ WF_allVars(EventReconnect)
  /\ WF_allVars(MqttConnect)
  /\ WF_allVars(mqtt = "failing" /\ MqttClose)
  /\ WF_allVars(BrokerWill)
  /\ WF_allVars(DebounceExpires)

BridgeFairSpec == BridgeSpec /\ BridgeFairness

-----------------------------------------------------------------------------
(* Properties *)

BridgeTypeOK ==
  /\ TypeOK
  /\ mqtt \in {"none", "connecting", "open", "failing"}
  /\ esock \in {"none", "connecting", "open", "dying"}
  /\ status \in [last : {"none", "Online", "Offline"}, retained : {"none", "Online", "Offline"}]
  /\ lifecycle \in {"booting", "ready", "degraded", "stopping"}
  /\ debounce \in {"off", "idle", "recent"}
  /\ \A b \in {mqttConnected, bridgeReady, willDue, econnected, etimer, allConnected,
               hasEverBeenReady, exited} : b \in BOOLEAN

\* The first time the three connections are all up the bridge notices at once, in
\* whatever order they came up and however many attempts failed before
\* (connectionManager.js:121-139, bridgeInitializationService.js:82-100).
FirstUpNoticed == Up => hasEverBeenReady

\* While the session is open the broker's copy of the status says Online exactly when
\* the bridge means it: neither the repeat filter nor a late will nor a broker that
\* forgot its retained messages leaves a wrong Online or hides one
\* (mqttManager.js:294-346, 365-377, 468-488).
StatusAgrees == mqttConnected /\ ~exited => (status.retained = "Online" <=> bridgeReady)

\* What the bridge and the broker say agrees with the connections
\* (connectionManager.js:121-139, mqttManager.js:294-377, 468-488).
StatusTold == BridgeTypeOK /\ FirstUpNoticed /\ StatusAgrees

\* A status that went stale is withdrawn: an Online while a connection is down is
\* sooner or later replaced, or true again, whatever fails next -- also by the last
\* will of a process that exits.
StaleOnlineWithdrawn ==
  (status.retained = "Online" /\ (~Up \/ exited)) ~> (status.retained # "Online" \/ (Up /\ ~exited))

\* Without the debounce, and when no outage of the pool leaves the latch up, the bridge
\* is Online again after every outage of any of the three, once they stay up
\* (connectionManager.js:43-87, 121-139).
ReadyAgainWhenLatchDrops ==
  (debounce = "off" /\ <>[](Up /\ ~exited) /\ [](healthy = {} => ~allConnected))
    => <>[](status.retained = "Online")
=============================================================================
