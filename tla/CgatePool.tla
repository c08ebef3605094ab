----------------------------- MODULE CgatePool -----------------------------
(***************************************************************************)
(* The command connection pool (src/src/cgateConnectionPool.js) together   *)
(* with the socket life cycle of the connections it owns                   *)
(* (src/src/cgateConnection.js, the pool-managed half).                    *)
(*                                                                         *)
(* A connection object is a pair <<slot, number>>: the pool creates a new  *)
(* object each time it (re)connects a slot, and an object it has replaced  *)
(* may still be in the healthy set.  Delays are abstracted: an armed timer *)
(* may fire at any later moment.                                           *)
(***************************************************************************)
EXTENDS Integers, FiniteSets

CONSTANTS
  PoolSize,     \* connectionPoolSize
  Generations,  \* bound: connection objects of one slot alive at a time
  RetryCap      \* bound: where the model stops counting retryCounts

ASSUME PoolSizeAssumption == PoolSize \in Nat \ {0}
ASSUME GenerationsAssumption == Generations \in Nat \ {0}
ASSUME RetryCapAssumption == RetryCap \in Nat \ {0}

Index == 1..PoolSize
Conn  == Index \X (1..Generations)
NoObject == <<0, 0>>

VARIABLES
  isStarted, isShuttingDown,
  start,        \* the start() call: "none", "waiting" for its promises, "done", or
                \* "failed" (done without one established connection)
  stopped,      \* history: a stop() call has completed
  monitoring,   \* healthCheckTimer and keepAliveTimer are set
  connections,  \* connections[i]: the current object of slot i, or NoObject
  pending,      \* pendingReconnects
  timers,       \* keys of _reconnectTimers
  retry,        \* retryCounts
  first,        \* per slot, the promise start() awaits: "none", "pending", "resolved", "rejected"
  sock,         \* per object: "none", "connecting", "open", "dying" (destroyed, 'close' to come)
  heard,        \* objects whose events the pool listens to
  healthy,      \* healthyConnections
  signal,       \* last pool-wide event: "none", "connectionAdded", "allConnectionsUnhealthy"
  serverUp      \* environment: C-Gate accepts and keeps connections

ctl  == <<isStarted, isShuttingDown, start, stopped, monitoring>>
slot == <<connections, pending, timers, retry, first>>
obj  == <<sock, heard, healthy>>
vars == <<ctl, slot, obj, signal, serverUp>>

-----------------------------------------------------------------------------
(* Helpers *)

Active == isStarted /\ ~isShuttingDown

\* connection.connected with a socket that is not destroyed.
Alive(c) == sock[c] = "open"

\* c is the object start() created for its slot, and start() still waits for it.
IsFirst(c) == start = "waiting" /\ c[2] = 1

\* Unless every promise start() awaits has settled: then the rest of start() runs
\* before any other event is handled.
Quiet == ~(start = "waiting" /\ \A i \in Index : first[i] # "pending")

\* Object numbers of slot i that nothing refers to: one of them stands for the new object.
Free(i) ==
  {c \in {i} \X (1..Generations) :
     sock[c] = "none" /\ c \notin healthy /\ connections[i] # c /\ ~IsFirst(c)}

Bump(n) == IF n < RetryCap THEN n + 1 ELSE n

\* Mutation: past maxRetries the slot is given up.
ScheduleGivesUp(S, r) ==
  LET new == {i \in S : Active /\ i \notin pending /\ r[i] < RetryCap}
  IN  /\ pending' = pending \union new
      /\ timers' = timers \union new
      /\ retry' = [i \in Index |-> IF i \in new THEN Bump(r[i]) ELSE r[i]]

\* _scheduleReconnection for the slots S, after r has become the retry counts.
ScheduleReconnection(S, r) ==
  LET new == {i \in S : Active /\ i \notin pending}
  IN  /\ pending' = pending \union new
      /\ timers' = timers \union new
      /\ retry' = [i \in Index |-> IF i \in new THEN Bump(r[i]) ELSE r[i]]

\* Mutation: only 'error' and the health check remove from the health set.
OnCloseKeepsHealthy(c) ==
  /\ healthy' = healthy
  /\ signal' = IF healthy = {c} /\ Active THEN "allConnectionsUnhealthy" ELSE signal
  /\ ScheduleReconnection({c[1]}, retry)
  /\ heard' = heard \ {c}

\* The pool's 'close' handler for object c, which emits nothing after it.
OnClose(c) ==
  /\ healthy' = healthy \ {c}
  /\ signal' = IF healthy = {c} /\ Active THEN "allConnectionsUnhealthy" ELSE signal
  /\ ScheduleReconnection({c[1]}, retry)
  /\ heard' = heard \ {c}

-----------------------------------------------------------------------------
(* start() *)

Start ==
  /\ Quiet
  /\ ~isStarted /\ start = "none"
  /\ isStarted' = TRUE /\ start' = "waiting"
  /\ connections' = [i \in Index |-> <<i, 1>>]
  /\ first' = [i \in Index |-> "pending"]
  /\ sock' = [c \in Conn |-> IF c[2] = 1 THEN "connecting" ELSE "none"]
  /\ heard' = {c \in Conn : c[2] = 1}
  /\ UNCHANGED <<isShuttingDown, stopped, monitoring, pending, timers, retry,
                 healthy, signal, serverUp>>

StartResumes ==
  /\ ~Quiet
  /\ monitoring' = TRUE
  /\ IF \A i \in Index : first[i] = "rejected"
     THEN LET S == {i \in Index : connections[i] # NoObject}
          IN  /\ start' = "failed"
              /\ ScheduleReconnection(S, [i \in Index |-> IF i \in S THEN 0 ELSE retry[i]])
     ELSE start' = "done" /\ UNCHANGED <<pending, timers, retry>>
  /\ first' = [i \in Index |-> "none"]
  /\ UNCHANGED <<isStarted, isShuttingDown, stopped, connections, obj, signal, serverUp>>

-----------------------------------------------------------------------------
(* Socket events *)

\* 'connect'.  It settles the object's promise, which is still pending: the timer
\* that rejects it destroys the socket too.  The continuation of a reconnection
\* resets the retry count (which is 0 for a first object).
Connected(c) ==
  /\ Quiet
  /\ sock[c] = "connecting" /\ serverUp
  /\ sock' = [sock EXCEPT ![c] = "open"]
  /\ healthy' = healthy \union {c}
  /\ signal' = "connectionAdded"
  /\ first' = [first EXCEPT ![c[1]] = IF IsFirst(c) THEN "resolved" ELSE @]
  /\ retry' = [retry EXCEPT ![c[1]] = 0]
  /\ UNCHANGED <<ctl, connections, pending, timers, heard, serverUp>>

\* 'error' (refused, reset): _handleError destroys the socket, whose 'close' follows.
SocketError(c) ==
  /\ Quiet
  /\ sock[c] \in {"connecting", "open"} /\ ~serverUp
  /\ sock' = [sock EXCEPT ![c] = "dying"]
  /\ healthy' = healthy \ {c}
  /\ UNCHANGED <<ctl, slot, heard, signal, serverUp>>

\* The socket of an established connection is destroyed without an error: _reportTlsPort.
SocketDestroyed(c) ==
  /\ Quiet
  /\ sock[c] = "open" /\ ~serverUp
  /\ sock' = [sock EXCEPT ![c] = "dying"]
  /\ UNCHANGED <<ctl, slot, heard, healthy, signal, serverUp>>

\* 'close' of an open socket: the server ended the connection.
RemoteClose(c) ==
  /\ Quiet
  /\ sock[c] = "open" /\ ~serverUp
  /\ sock' = [sock EXCEPT ![c] = "none"]
  /\ OnClose(c)
  /\ UNCHANGED <<ctl, connections, first, serverUp>>

\* 'close' of a destroyed socket.  A replaced object has no listener left.
LateClose(c) ==
  /\ Quiet
  /\ sock[c] = "dying"
  /\ sock' = [sock EXCEPT ![c] = "none"]
  /\ IF c \in heard
     THEN OnClose(c)
     ELSE UNCHANGED <<healthy, signal, pending, timers, retry, heard>>
  /\ UNCHANGED <<ctl, connections, first, serverUp>>

-----------------------------------------------------------------------------
(* Timers *)

\* The timers of _createConnection in start(), armed in one tick with one delay and
\* cleared by 'connect' only: a refused connection stays unsettled until they fire,
\* even when a reconnection has since brought its slot up.  The sockets' own timeouts
\* are due with them, so an object that is still connecting is destroyed.
StartTimeouts ==
  LET late == {i \in Index : first[i] = "pending"}
      hung == {<<i, 1>> : i \in {j \in late : sock[<<j, 1>>] = "connecting"}}
  IN  /\ Quiet
      /\ late # {} /\ (hung # {} => ~serverUp)
      /\ first' = [i \in Index |-> IF i \in late THEN "rejected" ELSE first[i]]
      /\ sock' = [c \in Conn |-> IF c \in hung THEN "dying" ELSE sock[c]]
      /\ UNCHANGED <<ctl, connections, pending, timers, retry, heard, healthy, signal, serverUp>>

\* The same two timers of a reconnection: the awaiting callback only logs.
ConnectTimeout(c) ==
  /\ Quiet
  /\ sock[c] = "connecting" /\ ~serverUp /\ ~IsFirst(c)
  /\ sock' = [sock EXCEPT ![c] = "dying"]
  /\ UNCHANGED <<ctl, slot, heard, healthy, signal, serverUp>>

\* The timer of _scheduleReconnection: in a running pool, silence and destroy the
\* old object of the slot, whatever its state, and create a new one.
Replace(i) ==
  LET old == connections[i] IN
  \E new \in Free(i) :
    /\ \A c \in Free(i) : new[2] <= c[2]
    /\ connections' = [connections EXCEPT ![i] = new]
    /\ heard' = (heard \ {old}) \union {new}
    /\ sock' = [c \in Conn |-> IF c = new THEN "connecting"
                               ELSE IF c = old /\ sock[c] # "none" THEN "dying"
                               ELSE sock[c]]

ReconnectTimer(i) ==
  /\ Quiet
  /\ i \in timers
  /\ timers' = timers \ {i} /\ pending' = pending \ {i}
  /\ IF Active THEN Replace(i) ELSE UNCHANGED <<connections, heard, sock>>
  /\ UNCHANGED <<ctl, retry, first, healthy, signal, serverUp>>

\* Mutation: only the check that finds the last connection dead reports it.
CheckedOnce(left) == IF left = {} /\ healthy # {} THEN "allConnectionsUnhealthy" ELSE signal

\* What the health check reports when it leaves these connections in the set.
Checked(left) == IF left = {} THEN "allConnectionsUnhealthy" ELSE signal

\* _performHealthCheck: drop every current object that is not connected.
HealthCheck ==
  /\ Quiet
  /\ monitoring /\ ~isShuttingDown
  /\ healthy' = {c \in healthy : Alive(c) \/ c # connections[c[1]]}
  /\ signal' = Checked(healthy')
  /\ UNCHANGED <<ctl, slot, sock, heard, serverUp>>

\* execute() failed to send through c, and the recheck timer that
\* _markConnectionUnhealthy armed fires: _checkConnectionHealth.  (With c connected
\* by then, or no longer in the set, the check changes nothing.)
RecheckUnhealthy(c) ==
  /\ Quiet
  /\ c \in healthy /\ ~Alive(c)
  /\ healthy' = healthy \ {c}
  /\ UNCHANGED <<ctl, slot, sock, heard, signal, serverUp>>

-----------------------------------------------------------------------------
(* stop() *)

CancelTimers == timers' = {}

\* disconnect() takes the listeners off every current socket that is not already
\* destroyed, so those emit no 'close' any more.
Stop ==
  /\ Quiet
  /\ Active
  /\ isShuttingDown' = TRUE /\ monitoring' = FALSE
  /\ CancelTimers
  /\ sock' = [c \in Conn |-> IF c = connections[c[1]] /\ sock[c] # "dying"
                             THEN "none" ELSE sock[c]]
  /\ UNCHANGED <<isStarted, start, stopped, connections, pending, retry, first,
                 heard, healthy, signal, serverUp>>

\* Every close promise is resolved, by a 'close' or by the force timer.
StopResumes ==
  /\ Quiet
  /\ isShuttingDown
  /\ isStarted' = FALSE /\ isShuttingDown' = FALSE /\ stopped' = TRUE
  /\ connections' = [i \in Index |-> NoObject]
  /\ healthy' = {} /\ pending' = {}
  /\ retry' = [i \in Index |-> 0]
  /\ UNCHANGED <<start, monitoring, timers, first, sock, heard, signal, serverUp>>

ServerChanges ==
  /\ Quiet
  /\ serverUp' = ~serverUp
  /\ UNCHANGED <<ctl, slot, obj, signal>>

-----------------------------------------------------------------------------

Init ==
  /\ isStarted = FALSE /\ isShuttingDown = FALSE /\ stopped = FALSE /\ monitoring = FALSE
  /\ start = "none"
  /\ connections = [i \in Index |-> NoObject]
  /\ first = [i \in Index |-> "none"]
  /\ sock = [c \in Conn |-> "none"]
  /\ heard = {} /\ healthy = {} /\ pending = {} /\ timers = {}
  /\ retry = [i \in Index |-> 0]
  /\ signal = "none"
  /\ serverUp \in BOOLEAN

Next ==
  \/ Start \/ StartResumes \/ Stop \/ StopResumes \/ HealthCheck \/ ServerChanges
  \/ StartTimeouts
  \/ \E i \in Index : ReconnectTimer(i)
  \/ \E c \in Conn : \/ Connected(c) \/ SocketError(c) \/ SocketDestroyed(c)
                      \/ RemoteClose(c) \/ LateClose(c)
                      \/ ConnectTimeout(c) \/ RecheckUnhealthy(c)

Spec == Init /\ [][Next]_vars

\* Node fires due timers and delivers pending events, and an attempt to connect to
\* a server that is up succeeds.  Nothing is assumed of calls or of the server.
Fairness ==
  /\ WF_vars(StartResumes)
  /\ WF_vars(HealthCheck)
  /\ WF_vars(StartTimeouts)
  /\ \A i \in Index : WF_vars(ReconnectTimer(i))
  /\ \A c \in Conn : /\ WF_vars(Connected(c))
                     /\ WF_vars(LateClose(c))

FairSpec == Spec /\ Fairness

-----------------------------------------------------------------------------
(* Properties *)

TypeOK ==
  /\ isStarted \in BOOLEAN /\ isShuttingDown \in BOOLEAN /\ stopped \in BOOLEAN
  /\ monitoring \in BOOLEAN /\ serverUp \in BOOLEAN
  /\ start \in {"none", "waiting", "done", "failed"}
  /\ connections \in [Index -> Conn \union {NoObject}]
  /\ first \in [Index -> {"none", "pending", "resolved", "rejected"}]
  /\ sock \in [Conn -> {"none", "connecting", "open", "dying"}]
  /\ heard \subseteq Conn /\ healthy \subseteq Conn
  /\ pending \subseteq Index /\ timers \subseteq Index
  /\ retry \in [Index -> 0..RetryCap]
  /\ signal \in {"none", "connectionAdded", "allConnectionsUnhealthy"}

\* "Exponential backoff -- never permanently give up" (cgateConnectionPool.js:375):
\* a slot of a running pool always has a future.  Either a reconnection timer is
\* armed for it, or its current object still has an event to come that the pool
\* will hear.
SlotNeverGivenUp ==
  Active => \A i \in Index :
    \/ i \in pending /\ i \in timers
    \/ connections[i] \in heard /\ sock[connections[i]] # "none"

\* What the health set counts is the current object of its slot, with its socket
\* open or a 'close' to come that will take it out -- in every run of the pool
\* whose start() established a connection.
HealthyIsCurrent ==
  (start # "failed" /\ ~isShuttingDown) =>
    \A c \in healthy :
      c = connections[c[1]] /\ c \in heard /\ sock[c] \in {"open", "dying"}

\* After stop() nothing comes back: no timer is left to reconnect a slot and no
\* socket is open or opening (cgateConnectionPool.js:164-172).
NoResurrection ==
  stopped => /\ timers = {} /\ healthy = {}
             /\ \A c \in Conn : sock[c] \notin {"connecting", "open"}

\* A slot of a running pool always has a future, the health set holds current objects
\* only, and nothing comes back after stop() (cgateConnectionPool.js:143-197, 282-414).
PoolSound == TypeOK /\ SlotNeverGivenUp /\ HealthyIsCurrent /\ NoResurrection

\* The health check surfaces every outage sooner or later, whatever the order of
\* 'error' and 'close' (cgateConnectionPool.js:528-546).
OutageSurfaced ==
  (monitoring /\ Active /\ healthy = {})
    ~> (signal = "allConnectionsUnhealthy" \/ healthy # {} \/ ~Active)

\* Once C-Gate stays up, every slot of a pool that is not stopped gets an open and
\* healthy connection for good, however many refusals, resets, timeouts and
\* replacements came before.
Recovers ==
  <>[]serverUp =>
    <>[](start # "none" /\ Active =>
           \A i \in Index : connections[i] \in healthy /\ Alive(connections[i]))
=============================================================================
