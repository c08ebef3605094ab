----------------------------- MODULE MCServices -----------------------------
(***************************************************************************)
(* TLC instance of the components that are small on their own, in one      *)
(* process: a behaviour is one of a single component, part, while the      *)
(* others stay in one of their initial states.                             *)
(***************************************************************************)
EXTENDS ThrottledQueue, CommandDelivery, MqttOutbox, LabelFile, InterfaceRecovery, Initialisation,
        CgateLines, PanelCommands, EventStream, Diagnostics

CONSTANTS PoolSize, Generations, RetryCap   \* of CgatePool

VARIABLES
  part,
  \* of CgatePool
  isStarted, isShuttingDown, start, stopped, monitoring, connections, pending, timers, retry,
  first, sock, poolHeard, healthy, signal, serverUp

-----------------------------------------------------------------------------
(* Instances *)

Cover(level, action) == [kind |-> "group", role |-> "cover", level |-> level, action |-> action, source |-> None]

\* Levels around the rounding of a percentage, a level that is not known, and readings.
Events ==
  {Cover(255, "on"), Cover(1, "ramp"), Cover(None, "off"),
   [kind |-> "group", role |-> "hvac", level |-> 42, action |-> "ramp", source |-> "u1"],
   [kind |-> "temperature", fields |-> [celsius |-> 21, sensorStatus |-> 0]],
   [kind |-> "temperature", fields |-> [sensorStatus |-> 3]]}

LinesOfCgate == {<<"tree", "x">>, <<"level", "y">>, <<"sync">>}

CodesTyped == {<<>>, <<"1", "2">>, <<"x">>, <<"1", "1", "1">>}

PermissionSets == {{}, {"control"}, {"control", "disarm", "bypass"}, {"disarm", "scene", "discovery"}}

poolVars == <<isStarted, isShuttingDown, start, stopped, monitoring, connections, pending, timers, retry,
              first, sock, poolHeard, healthy, signal, serverUp>>

Pool == INSTANCE CgatePool WITH heard <- poolHeard

\* Two objects of a slot can be referenced at once (the current one and one that
\* was replaced), and a reconnection needs a third.
ASSUME Generations >= 3

-----------------------------------------------------------------------------
(* One component at a time *)

Parts == {"queue", "delivery", "outbox", "labels", "recovery", "service", "lines", "panel", "stream", "diagnostics",
          "pool"}

ServicesInit ==
  /\ part \in Parts
  /\ Init /\ LinesInit /\ StreamInit
  /\ DeliveryInit /\ (part # "delivery" => \A c \in Slots : ~wire[c].up /\ ~wire[c].writable)
  /\ OutboxInit   /\ (part # "outbox" => ~mode.coalesce /\ ~mode.dedup)
  /\ LabelInit    /\ (part # "labels" => file = Missing)
  /\ RecoveryInit /\ (part # "recovery" => pci = Booted(ById, Unplugged))
  /\ ServiceInit  /\ (part # "service" => configured = {} /\ there = {})
  /\ PanelInit    /\ (part # "panel" => allowed = {})
  /\ DiagInit     /\ (part # "diagnostics" => options = [diagnostics |-> FALSE, stale |-> FALSE, onReconnect |-> FALSE])
  /\ Pool!Init    /\ (part # "pool" => serverUp)

ServicesNext ==
  /\ UNCHANGED part
  /\ IF part = "queue"       THEN Next         ELSE UNCHANGED vars
  /\ IF part = "delivery"    THEN DeliveryNext ELSE UNCHANGED deliveryVars
  /\ IF part = "outbox"      THEN OutboxNext   ELSE UNCHANGED outVars
  /\ IF part = "labels"      THEN LabelNext    ELSE UNCHANGED labelVars
  /\ IF part = "recovery"    THEN RecoveryNext ELSE UNCHANGED recVars
  /\ IF part = "service"     THEN ServiceNext  ELSE UNCHANGED serviceVars
  /\ IF part = "lines"       THEN LinesNext    ELSE UNCHANGED lineVars
  /\ IF part = "panel"       THEN PanelNext    ELSE UNCHANGED panelVars
  /\ IF part = "stream"      THEN StreamNext   ELSE UNCHANGED streamVars
  /\ IF part = "diagnostics" THEN DiagNext     ELSE UNCHANGED diagVars
  /\ IF part = "pool"        THEN Pool!Next    ELSE UNCHANGED poolVars

servicesVars ==
  <<part, vars, deliveryVars, outVars, labelVars, recVars, serviceVars, lineVars, panelVars, streamVars, diagVars,
    poolVars>>

ServicesSpec == ServicesInit /\ [][ServicesNext]_servicesVars

-----------------------------------------------------------------------------
(* Safety of the pool *)

\* A slot of a running pool always has a future, the health set holds current objects
\* only, and nothing comes back after stop() (cgateConnectionPool.js:143-197, 282-414).
PoolSound == Pool!PoolSound

-----------------------------------------------------------------------------
(* Liveness: each under the fairness of its component, while that is at work *)

\* A queue whose gate stays open empties (throttledQueue.js:64-72, 117-146).
QueueDrains == part = "queue" /\ Fairness => DrainsEventually

\* Every hand-over of a command ends (cgateConnectionPool.js:205-246).
HandoversEnd == part = "delivery" /\ DeliveryFairness => DeliverySettles

\* A device that is plugged in again and stays runs again (serialDeviceRecovery.js:169-307).
DeviceComesBack == part = "recovery" /\ RecoveryFairness => ReplugRecovered

\* No poll of nothing goes on for ever (bridgeInitializationService.js:561-579).
VainPollsEnd == part = "service" /\ ServiceFairness => VainPollsStop

\* What was announced returns with the broker (cgateWebBridge.js:466-481).
AnnouncementsReturn == part = "diagnostics" /\ DiagFairness => DiagnosticsReturn

\* Every outage of the pool is surfaced (cgateConnectionPool.js:528-546).
OutageSurfaced == part = "pool" /\ Pool!Fairness => Pool!OutageSurfaced

\* Every slot comes back for good with a C-Gate that stays (cgateConnectionPool.js:365-414).
Recovers == part = "pool" /\ Pool!Fairness => Pool!Recovers
=============================================================================
