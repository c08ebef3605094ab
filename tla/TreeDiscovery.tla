---------------------------- MODULE TreeDiscovery ----------------------------
(***************************************************************************)
(* Fetching the device tree of every C-Bus network for Home Assistant      *)
(* discovery (src/src/haDiscoveryTreeSession.js, with the network events   *)
(* of src/src/haDiscovery.js).                                             *)
(*                                                                         *)
(* A TREEXML request is answered by a stream: a start line (343), data     *)
(* lines (347) and an end line (344).  Requests are spread over the        *)
(* connections of the pool; answers keep their order on one connection     *)
(* only, and the program attributes a stream to the network at the head of *)
(* its queue of requests.  Delays are abstracted: an armed timer may fire  *)
(* at any later moment.  The XML parser calls back before it returns, so   *)
(* the end of a stream and its parsing are one step.                       *)
(***************************************************************************)
EXTENDS Naturals, Sequences, FiniteSets, SequencesExt

CONSTANTS
  Networks,     \* ha_discovery_networks, or the networks C-Gate listed
  Conns,        \* connections of the command pool
  Unknown,      \* the network a stream nobody asked for is attributed to
  None,
  MaxAttempts,  \* haDiscoveryMaxTreeRetryAttempts
  MaxResyncs,   \* haDiscoveryMaxTreeResyncAttempts
  FlatTrees,    \* the trees of C-Gate have their units directly under <Network>
  Unruly,       \* environment: connections break, networks are removed, answers are empty
  MaxNudges,    \* bound: requests and network events from outside
  MaxOwed       \* bound: no retry while C-Gate owes this many answers

ASSUME NetworksAssumption == IsFiniteSet(Networks)
ASSUME NamesAssumption == Unknown \notin Networks /\ None \notin Networks \cup {Unknown}
ASSUME LimitsAssumption == MaxAttempts \in Nat /\ MaxResyncs \in Nat
ASSUME EnvironmentAssumption ==
  FlatTrees \in BOOLEAN /\ Unruly \in BOOLEAN /\ MaxNudges \in Nat /\ MaxOwed \in Nat

Nets == Networks \cup {Unknown}

VARIABLES
  pending,      \* pendingTreeNetworks
  session,      \* activeTreeSession: its network, or None, and the trees whose data it holds
  deadline,     \* _treeStreamDeadlineHandle is armed
  attempts, watchdog, retry,  \* _treeRequestState, per network
  resyncs, resyncTimer,       \* _treeResyncState, per network
  status,       \* what the discovery sensor of a network shows: "none", "discovering", "ok", "paused"
  entities,     \* the network whose tree the published entities of a network come from, or None
  stopped,
  commands,     \* TREEXML commands in the command queue
  requests,     \* C-Gate: per connection, the requests it has not finished answering
  stream,       \* C-Gate: per connection, the answer under way: "idle", "started", "sent"
  nudges        \* requests and events so far

cgate    == <<commands, requests, stream>>
fetching == <<pending, session, deadline>>
counters == <<attempts, watchdog, retry>>
resync   == <<resyncs, resyncTimer>>
shown    == <<status, entities>>
vars     == <<fetching, counters, resync, shown, stopped, cgate, nudges>>

NoSession == [net |-> None, trees |-> <<>>]

-----------------------------------------------------------------------------
(* Requesting a tree *)

\* indexOf and splice.
Without(s, n) == IF n \in ToSet(s) THEN RemoveAt(s, CHOOSE i \in DOMAIN s : s[i] = n) ELSE s

Unique(s) == \A i, j \in DOMAIN s : s[i] = s[j] => i = j

\* The orders in which the configuration may list the networks of S.
Orders(S) == {q \in [1..Cardinality(S) -> S] : ToSet(q) = S /\ Unique(q)}

\* Mutation: only the queue is looked at.
InFlightQueued(n) == n \in ToSet(pending)
InFlight(n)       == n \in ToSet(pending) \/ session.net = n

Discovering(nets) == [n \in Nets |-> IF n \in nets THEN "discovering" ELSE status[n]]

\* queueTreeRequest for each network of ns: one already in flight is not asked
\* for again.
QueueTreeRequests(ns) ==
  /\ retry'    = [n \in Nets |-> retry[n] /\ n \notin ns]
  /\ status'   = Discovering(ns)
  /\ \E fresh \in Orders({n \in ns : ~InFlight(n)}) :
       /\ pending'  = pending \o fresh
       /\ watchdog' = [n \in Nets |-> watchdog[n] \/ n \in ToSet(fresh)]
       /\ commands' = commands \o fresh
  /\ UNCHANGED <<session, deadline, attempts, entities, stopped, requests, stream>>

\* The command queue hands a request to some connection of the pool.
Send(c) ==
  /\ ~stopped /\ commands # <<>>
  /\ commands' = Tail(commands)
  /\ requests' = [requests EXCEPT ![c] = Append(@, Head(commands))]
  /\ UNCHANGED <<fetching, counters, resync, shown, stopped, stream, nudges>>

BudgetLeft(n) == attempts[n] < MaxAttempts

\* Mutation: attempts are not counted.
CountNoAttempt(n) == attempts[n]
CountAttempt(n)   == attempts[n] + 1

Disarm(n) == [watchdog EXCEPT ![n] = FALSE]

\* _handleTreeRequestFailure: back off and retry, or pause once the budget is
\* spent.  armed and dl are the watchdogs and the stream deadline as the caller
\* leaves them.
Fail(n, armed, dl) ==
  /\ pending' = Without(pending, n)
  /\ IF BudgetLeft(n)
       THEN /\ attempts' = [attempts EXCEPT ![n] = CountAttempt(n)]
            /\ retry'    = [retry EXCEPT ![n] = TRUE]
            /\ watchdog' = armed
            /\ deadline' = dl
            /\ UNCHANGED status
       ELSE /\ attempts' = [attempts EXCEPT ![n] = 0]
            /\ retry'    = [retry EXCEPT ![n] = FALSE]
            /\ watchdog' = [armed EXCEPT ![n] = FALSE]
            /\ deadline' = (dl /\ session'.net # n)
            /\ status'   = [status EXCEPT ![n] = "paused"]
  /\ UNCHANGED <<resync, entities, stopped>>

FewOwed == Len(commands) + MapThenSumSet(LAMBDA c : Len(requests[c]), Conns) < MaxOwed

\* No answer in time.
WatchdogFires(n) ==
  /\ ~stopped /\ watchdog[n]
  /\ UNCHANGED <<session, cgate, nudges>>
  /\ Fail(n, Disarm(n), deadline)

RetryFires(n) ==
  /\ ~stopped /\ retry[n] /\ FewOwed
  /\ QueueTreeRequests({n})
  /\ UNCHANGED <<resync, nudges>>

ResyncFires(n) ==
  /\ ~stopped /\ resyncTimer[n] /\ FewOwed
  /\ QueueTreeRequests({n})
  /\ resyncTimer' = [resyncTimer EXCEPT ![n] = FALSE]
  /\ UNCHANGED <<resyncs, nudges>>

-----------------------------------------------------------------------------
(* Receiving a tree *)

\* handleTreeStart: the stream is taken for the answer to the oldest request,
\* for a restart of the session under way if there is none, or for 'unknown'.
StreamNetwork ==
  IF pending # <<>> THEN Head(pending)
  ELSE IF session.net # None THEN session.net ELSE Unknown

Start(trees) ==
  LET n == StreamNetwork
  IN  /\ pending'     = IF pending = <<>> THEN pending ELSE Tail(pending)
      /\ watchdog'    = Disarm(n)
      /\ retry'       = [retry EXCEPT ![n] = FALSE]
      /\ resyncTimer' = [resyncTimer EXCEPT ![n] = FALSE]
      /\ session'     = [net |-> n, trees |-> trees]
      /\ deadline'    = TRUE
      /\ UNCHANGED <<attempts, resyncs, shown, stopped>>

Answers(c) == requests[c] # <<>> /\ stream[c] = "idle"

TreeStart(c) ==
  /\ ~stopped /\ Answers(c) /\ Head(requests[c]) # Unknown
  /\ stream' = [stream EXCEPT ![c] = "started"]
  /\ Start(<<>>)
  /\ UNCHANGED <<commands, requests, nudges>>

\* handleTreeData, for all the data lines of the stream.
TreeData(c) ==
  /\ ~stopped /\ stream[c] = "started"
  /\ stream' = [stream EXCEPT ![c] = "sent"]
  /\ IF session.net = None
       THEN Start(<<Head(requests[c])>>)
       ELSE /\ session'  = [session EXCEPT !.trees = Append(@, Head(requests[c]))]
            /\ deadline' = TRUE
            /\ UNCHANGED <<pending, counters, resync, shown, stopped>>
  /\ UNCHANGED <<commands, requests, nudges>>

\* findNetworkData: the number in the tree is compared, unless the tree has its
\* units directly under the root.
HasDataOf(tree, n) == tree = n \/ FlatTrees

\* A tree with device data was parsed; unsynced: some of its units have no groups
\* yet; unchanged: its groups are those of the tree before.
Accept(n, tree, unsynced, unchanged) ==
  /\ attempts' = [attempts EXCEPT ![n] = 0]
  /\ watchdog' = Disarm(n)
  /\ retry'    = [retry EXCEPT ![n] = FALSE]
  /\ entities' = [entities EXCEPT ![n] = tree]
  /\ status'   = [status EXCEPT ![n] = "ok"]
  /\ IF unsynced /\ ~(unchanged /\ resyncs[n] > 0) /\ resyncs[n] < MaxResyncs
       THEN /\ resyncs'     = [resyncs EXCEPT ![n] = @ + 1]
            /\ resyncTimer' = [resyncTimer EXCEPT ![n] = TRUE]
       ELSE /\ resyncs'     = [resyncs EXCEPT ![n] = 0]
            /\ resyncTimer' = [resyncTimer EXCEPT ![n] = FALSE]
  /\ deadline' = FALSE
  /\ UNCHANGED <<pending, stopped>>

\* What the parser makes of the session: its data may be malformed, or the tree
\* of a network C-Gate has not synchronised, without devices.
ParseTree(n, trees) ==
  \E readable, synced, unsynced, unchanged \in BOOLEAN :
    IF Len(trees) = 1 /\ readable /\ synced /\ HasDataOf(trees[1], n)
      THEN Accept(n, trees[1], unsynced, unchanged)
      ELSE Fail(n, watchdog, FALSE)

\* handleTreeEnd: nothing comes of a session without data, or of one nobody asked for.
TreeEnd(c) ==
  /\ ~stopped
  /\ stream[c] = "sent" \/ (Unruly /\ stream[c] = "started")
  /\ stream'   = [stream EXCEPT ![c] = "idle"]
  /\ requests' = [requests EXCEPT ![c] = Tail(@)]
  /\ session'  = NoSession
  /\ IF session.net \in Networks /\ session.trees # <<>>
       THEN ParseTree(session.net, session.trees)
       ELSE /\ deadline' = FALSE
            /\ UNCHANGED <<pending, counters, resync, shown, stopped>>
  /\ UNCHANGED <<commands, nudges>>

\* The stream has gone silent.
DeadlineFires ==
  /\ ~stopped /\ deadline
  /\ session' = NoSession
  /\ Fail(session.net, watchdog, FALSE)
  /\ UNCHANGED <<cgate, nudges>>

\* "401 Network not found": handleCommandError fails the oldest request.
NotFound(c) ==
  /\ ~stopped /\ Answers(c)
  /\ requests' = [requests EXCEPT ![c] = Tail(@)]
  /\ UNCHANGED <<session, commands, stream, nudges>>
  /\ IF pending = <<>>
       THEN UNCHANGED <<pending, deadline, counters, resync, shown, stopped>>
       ELSE LET n == Head(pending) IN Fail(n, Disarm(n), deadline)

\* A connection breaks: what C-Gate had to answer on it is lost.
ConnectionLost(c) ==
  /\ Unruly /\ requests[c] # <<>>
  /\ requests' = [requests EXCEPT ![c] = <<>>]
  /\ stream'   = [stream EXCEPT ![c] = "idle"]
  /\ UNCHANGED <<fetching, counters, resync, shown, stopped, commands, nudges>>

-----------------------------------------------------------------------------
(* Requests and network events from outside *)

Nudge == ~stopped /\ nudges < MaxNudges /\ nudges' = nudges + 1

\* trigger(): every connection is up, or discovery is asked for over MQTT.
Trigger == Nudge /\ QueueTreeRequests(Networks) /\ UNCHANGED resync

\* gettree over MQTT, or "Network created" from C-Gate (742).
TreeRequested(n) == Nudge /\ QueueTreeRequests({n}) /\ UNCHANGED resync

\* "Network sync ok" (762).
NetworkSynced(n) ==
  /\ Nudge
  /\ QueueTreeRequests({n})
  /\ resyncs'     = [resyncs EXCEPT ![n] = 0]
  /\ resyncTimer' = [resyncTimer EXCEPT ![n] = FALSE]

\* "Network removed" (742).
NetworkRemoved(n) ==
  /\ Unruly /\ Nudge
  /\ attempts'    = [attempts EXCEPT ![n] = 0]
  /\ watchdog'    = Disarm(n)
  /\ retry'       = [retry EXCEPT ![n] = FALSE]
  /\ deadline'    = (deadline /\ session.net # n)
  /\ resyncs'     = [resyncs EXCEPT ![n] = 0]
  /\ resyncTimer' = [resyncTimer EXCEPT ![n] = FALSE]
  /\ pending'     = Without(pending, n)
  /\ entities'    = [entities EXCEPT ![n] = None]
  /\ status'      = [status EXCEPT ![n] = "none"]
  /\ UNCHANGED <<session, stopped, cgate>>

ClearTimers ==
  /\ attempts'    = [n \in Nets |-> 0]
  /\ watchdog'    = [n \in Nets |-> FALSE]
  /\ retry'       = [n \in Nets |-> FALSE]
  /\ resyncs'     = [n \in Nets |-> 0]
  /\ resyncTimer' = [n \in Nets |-> FALSE]
  /\ deadline'    = FALSE

\* stop(): the bridge no longer listens to its connections.
Stop ==
  /\ ~stopped
  /\ stopped' = TRUE
  /\ ClearTimers
  /\ status'   = [n \in Nets |-> "none"]
  /\ UNCHANGED <<pending, session, entities, cgate, nudges>>

-----------------------------------------------------------------------------

Init ==
  /\ pending = <<>> /\ session = NoSession /\ deadline = FALSE
  /\ attempts = [n \in Nets |-> 0]
  /\ watchdog = [n \in Nets |-> FALSE] /\ retry = [n \in Nets |-> FALSE]
  /\ resyncs = [n \in Nets |-> 0] /\ resyncTimer = [n \in Nets |-> FALSE]
  /\ status = [n \in Nets |-> "none"] /\ entities = [n \in Nets |-> None]
  /\ stopped = FALSE
  /\ commands = <<>> /\ requests = [c \in Conns |-> <<>>] /\ stream = [c \in Conns |-> "idle"]
  /\ nudges = 0

Timer(n) == WatchdogFires(n) \/ RetryFires(n) \/ ResyncFires(n)
Line(c)  == TreeStart(c) \/ TreeData(c) \/ TreeEnd(c) \/ NotFound(c)
Event(n) == TreeRequested(n) \/ NetworkSynced(n) \/ NetworkRemoved(n)

Next ==
  \/ \E n \in Nets : Timer(n)
  \/ \E c \in Conns : Send(c) \/ Line(c) \/ ConnectionLost(c)
  \/ \E n \in Networks : Event(n)
  \/ DeadlineFires \/ Trigger \/ Stop

Spec == Init /\ [][Next]_vars

\* Every timer of the event loop fires in the end; C-Gate need not answer.
Fairness ==
  /\ \A n \in Nets : WF_vars(WatchdogFires(n)) /\ WF_vars(RetryFires(n)) /\ WF_vars(ResyncFires(n))
  /\ WF_vars(DeadlineFires)

-----------------------------------------------------------------------------
(* Properties *)

TypeOK ==
  /\ pending \in Seq(Nets)
  /\ session \in [net : Nets \cup {None}, trees : Seq(Networks)]
  /\ deadline \in BOOLEAN
  /\ attempts \in [Nets -> 0..MaxAttempts]
  /\ watchdog \in [Nets -> BOOLEAN] /\ retry \in [Nets -> BOOLEAN]
  /\ resyncs \in [Nets -> 0..MaxResyncs] /\ resyncTimer \in [Nets -> BOOLEAN]
  /\ status \in [Nets -> {"none", "discovering", "ok", "paused"}]
  /\ entities \in [Nets -> Networks \cup {None}]
  /\ stopped \in BOOLEAN
  /\ commands \in Seq(Nets) /\ requests \in [Conns -> Seq(Nets)]
  /\ stream \in [Conns -> {"idle", "started", "sent"}]
  /\ nudges \in 0..MaxNudges

\* A network is never fetched twice at once, whatever was lost, late or
\* misattributed: it waits in the queue once, or has the session, or waits for
\* its retry (haDiscoveryTreeSession.js:105-107).
OneWait ==
  /\ Unique(pending)
  /\ session.net \notin ToSet(pending)
  /\ \A n \in Nets : retry[n] => ~InFlight(n)

\* A request whose answer never comes is noticed, and a watchdog never outlives
\* its request to fail a network that is being received or has been received.
Watched == \A n \in Nets : ~stopped => (watchdog[n] <=> n \in ToSet(pending))

\* The discovery sensor never says ok or paused of a network that is being
\* fetched or waits for its retry: a pause is the end of the retries.
SensorHonest ==
  \A n \in Networks : status[n] \in {"ok", "paused"} => ~InFlight(n) /\ ~retry[n]

\* The records of who is under way agree with each other: the queue, the session, the
\* retries, the watchdogs and the sensor.
RecordsAgree == OneWait /\ Watched /\ SensorHonest

\* The entities of a network come from its own tree.  Answers are attributed by the
\* order of the requests: a request that failed leaves the queue, so that its late
\* answer cannot be taken for another's (src/tests/haDiscovery.test.js:948), and of a
\* tree that carries numbers the wrong one is found out (haDiscoveryTree.js:9-14).
OwnEntities == \A n \in Networks : entities[n] \in {n, None}

\* Discovery does not stay silently stuck: a network that is being discovered
\* has a request with a watchdog, a stream with a deadline, or a retry timer
\* (haDiscoveryTreeSession.js:424-427, 543-546).
NotStuck ==
  \A n \in Networks : status[n] = "discovering" =>
    (n \in ToSet(pending) /\ watchdog[n]) \/ (session.net = n /\ deadline) \/ retry[n]

\* Every network that is being discovered is in the end discovered, or paused
\* for the user to see, even if C-Gate stops answering: each failure uses up one
\* attempt, and nothing waits without a timer.
Resolves ==
  \A n \in Networks : status[n] = "discovering" ~> status[n] # "discovering"
=============================================================================
