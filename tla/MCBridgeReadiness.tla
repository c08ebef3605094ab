-------------------------- MODULE MCBridgeReadiness --------------------------
(***************************************************************************)
(* TLC instance of the bridge over a pool of one slot, and of the tree     *)
(* session over one connection that lasts: a behaviour is one of either,   *)
(* part, while the other stays in an initial state.                        *)
(***************************************************************************)
EXTENDS BridgeReadiness

CONSTANTS Networks, Unknown, NoNetwork   \* of TreeDiscovery

VARIABLES
  part,
  \* of TreeDiscovery
  awaited, session, deadline, attempts, watchdog, again, resyncs, resyncTimer, sensor, entities,
  halted, commands, requests, stream, nudges

\* Two objects of a slot can be referenced at once (the current one and one that
\* was replaced), and a reconnection needs a third.
ASSUME Generations >= 3

treeVars == <<awaited, session, deadline, attempts, watchdog, again, resyncs, resyncTimer, sensor,
              entities, halted, commands, requests, stream, nudges>>

\* The answers hold data; they may be late or never come.
Tree == INSTANCE TreeDiscovery WITH
  Conns <- {1}, None <- NoNetwork, MaxAttempts <- 1, MaxResyncs <- 0, FlatTrees <- TRUE,
  Unruly <- FALSE, MaxNudges <- 1, MaxOwed <- 20,
  pending <- awaited, retry <- again, status <- sensor, stopped <- halted

BothInit ==
  /\ part \in {"bridge", "tree"}
  /\ BridgeInit /\ (part # "bridge" => serverUp /\ debounce = "off")
  /\ Tree!Init

BothNext ==
  /\ UNCHANGED part
  /\ IF part = "bridge" THEN BridgeNext ELSE UNCHANGED allVars
  /\ IF part = "tree"   THEN Tree!Next  ELSE UNCHANGED treeVars

BothSpec == BothInit /\ [][BothNext]_<<part, allVars, treeVars>>

-----------------------------------------------------------------------------
(* Liveness: each under the fairness of its part *)

\* A stale Online is withdrawn, also when the process exits (mqttManager.js:365-377).
OnlineWithdrawn == part = "bridge" /\ BridgeFairness => StaleOnlineWithdrawn

\* The bridge is Online again after an outage that dropped the latch
\* (connectionManager.js:43-87, 121-139).
ReadyAgain == part = "bridge" /\ BridgeFairness => ReadyAgainWhenLatchDrops

\* Discovery of a network ends, in its devices or in a pause (haDiscoveryTreeSession.js:191-231).
Resolves == part = "tree" /\ Tree!Fairness => Tree!Resolves
=============================================================================
