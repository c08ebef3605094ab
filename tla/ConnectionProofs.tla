--------------------------- MODULE ConnectionProofs ---------------------------
(***************************************************************************)
(* Proofs about the connections to C-Gate, for any number of them and any  *)
(* lines.  The pool: types, no slot is ever given up, what the health set  *)
(* counts, and nothing comes back after stop().  The bridge: it drives the *)
(* pool as CgatePool specifies it, it notices the first time everything is *)
(* up, and the broker's copy of the status topic agrees with what the      *)
(* bridge means.  The lines: whatever the chunks, those handled are exact. *)
(***************************************************************************)
EXTENDS BridgeReadiness, CgateLines, SequenceTheorems, SequenceLemmas

-----------------------------------------------------------------------------
(* The inductive invariant *)

\* The pool is started at most once, and stop() ends that run of it.
LifeCycle ==
  /\ isShuttingDown => isStarted
  /\ start = "none" => ~isStarted /\ ~stopped /\ pending = {}
  /\ stopped => ~isStarted
  /\ ~isStarted => healthy = {}

\* A slot holds objects of its own.
OwnObjects == \A i \in Index : connections[i] = NoObject \/ connections[i][1] = i

\* A running pool has a timer exactly for the slots it believes to be pending, and
\* a pool that does not run has none.
TimersExact ==
  /\ Active => pending = timers
  /\ ~Active => timers = {}

\* Only a running pool has a live socket, and only for the current object of a
\* slot, whose events it hears.
LiveIsCurrent ==
  \A c \in Conn : sock[c] \in {"connecting", "open"} =>
    Active /\ c = connections[c[1]] /\ c \in heard

\* A running pool hears no object it has replaced.
HeardIsCurrent == Active => \A c \in heard : c = connections[c[1]]

\* Until start() has given up, a slot waits for a reconnection only when its
\* object has been heard to close.
PendingIsClosed ==
  (Active /\ start # "failed") => \A i \in pending : connections[i] \notin heard

PoolInv ==
  /\ TypeOK
  /\ LifeCycle
  /\ OwnObjects
  /\ TimersExact
  /\ LiveIsCurrent
  /\ HeardIsCurrent
  /\ PendingIsClosed
  /\ SlotNeverGivenUp
  /\ HealthyIsCurrent

-----------------------------------------------------------------------------
(* Lemmas about the helpers *)

\* An object is a pair of its slot and a number, and NoObject is no object.
LEMMA ConnFacts ==
  /\ \A c \in Conn : c[1] \in Index /\ c = <<c[1], c[2]>>
  /\ NoObject \notin Conn
BY PoolSizeAssumption DEF Conn, Index, NoObject

\* _scheduleReconnection keeps the types of what it changes, and leaves a running
\* pool with a timer for every slot it was called for.
LEMMA ScheduleFacts ==
  ASSUME TypeOK, TimersExact, NEW S \in SUBSET Index, NEW r \in [Index -> 0..RetryCap],
         ScheduleReconnection(S, r)
  PROVE  /\ pending' \subseteq Index /\ timers' \subseteq Index
         /\ retry' \in [Index -> 0..RetryCap]
         /\ Active => pending' = timers' /\ pending' = pending \union S
         /\ ~Active => pending' = pending /\ timers' = timers
<1>1. pending \subseteq Index /\ timers \subseteq Index
  BY DEF TypeOK
<1>2. pending' \subseteq Index /\ timers' \subseteq Index
  BY <1>1 DEF ScheduleReconnection
<1>3. retry' \in [Index -> 0..RetryCap]
  BY RetryCapAssumption DEF ScheduleReconnection, Bump
<1>4. Active => pending' = timers' /\ pending' = pending \union S
  BY <1>1 DEF ScheduleReconnection, TimersExact
<1>5. ~Active => pending' = pending /\ timers' = timers
  BY DEF ScheduleReconnection
<1>6. QED
  BY <1>2, <1>3, <1>4, <1>5

-----------------------------------------------------------------------------
(* The invariant holds initially and is preserved by every action *)

\* Before the start there are no connections.
LEMMA InitInv == Init => PoolInv
<1> SUFFICES ASSUME Init PROVE PoolInv
  OBVIOUS
<1>1. TypeOK
  <2>1. connections \in [Index -> Conn \union {NoObject}] /\ retry \in [Index -> 0..RetryCap]
    BY RetryCapAssumption DEF Init
  <2>2. /\ first \in [Index -> {"none", "pending", "resolved", "rejected"}]
        /\ sock \in [Conn -> {"none", "connecting", "open", "dying"}]
    BY DEF Init
  <2>3. QED
    BY <2>1, <2>2 DEF Init, TypeOK
<1>2. LifeCycle /\ OwnObjects /\ TimersExact /\ HeardIsCurrent /\ PendingIsClosed
  BY DEF Init, LifeCycle, OwnObjects, TimersExact, HeardIsCurrent, PendingIsClosed, Active
<1>3. LiveIsCurrent /\ SlotNeverGivenUp /\ HealthyIsCurrent
  BY DEF Init, LiveIsCurrent, SlotNeverGivenUp, HealthyIsCurrent, Active
<1>4. QED
  BY <1>1, <1>2, <1>3 DEF PoolInv

\* Start opens the connections,
LEMMA StartInv == PoolInv /\ Start => PoolInv'
<1> SUFFICES ASSUME PoolInv, Start PROVE PoolInv'
  OBVIOUS
<1> USE DEF PoolInv
<1>0. \A i \in Index : <<i, 1>> \in Conn
  BY GenerationsAssumption DEF Conn
<1>1. TypeOK'
  BY <1>0 DEF Start, TypeOK
<1>2. LifeCycle' /\ OwnObjects' /\ TimersExact'
  BY DEF Start, LifeCycle, OwnObjects, TimersExact, Active
<1>3. /\ isStarted' /\ ~isShuttingDown' /\ healthy' = {} /\ pending' = {}
      /\ Active'
  BY DEF Start, LifeCycle, Active
<1>4. \A c \in Conn : c[2] = 1 => connections'[c[1]] = c
  BY ConnFacts DEF Start
<1>5. LiveIsCurrent' /\ HeardIsCurrent'
  BY <1>3, <1>4 DEF Start, LiveIsCurrent, HeardIsCurrent
<1>6. SlotNeverGivenUp'
  BY <1>0 DEF Start, SlotNeverGivenUp
<1>7. HealthyIsCurrent' /\ PendingIsClosed'
  BY <1>3 DEF HealthyIsCurrent, PendingIsClosed
<1>8. QED
  BY <1>1, <1>2, <1>5, <1>6, <1>7

\* goes on when they are up,
LEMMA StartResumesInv == PoolInv /\ StartResumes => PoolInv'
<1> SUFFICES ASSUME PoolInv, StartResumes PROVE PoolInv'
  OBVIOUS
<1> USE DEF PoolInv
<1>1. /\ start = "waiting" /\ start' \in {"done", "failed"}
      /\ UNCHANGED <<isStarted, isShuttingDown, stopped, connections, sock, heard, healthy,
                     signal, serverUp>>
  BY DEF StartResumes, Quiet, obj
<1>2. Active' = Active
  BY <1>1 DEF Active
<1>3. /\ pending' \subseteq Index /\ timers' \subseteq Index
      /\ retry' \in [Index -> 0..RetryCap]
      /\ Active => pending' = timers' /\ pending \subseteq pending'
      /\ ~Active => timers' = timers
      /\ start' # "failed" => pending' = pending
  <2>1. CASE \A i \in Index : first[i] = "rejected"
    <3> DEFINE S == {i \in Index : connections[i] # NoObject}
               r == [i \in Index |-> IF i \in S THEN 0 ELSE retry[i]]
    <3>1. ScheduleReconnection(S, r) /\ start' = "failed"
      BY <2>1 DEF StartResumes
    <3>2. S \in SUBSET Index /\ r \in [Index -> 0..RetryCap]
      BY RetryCapAssumption DEF TypeOK
    <3>3. QED
      <4> HIDE DEF S, r
      <4>1. QED
        BY <3>1, <3>2, ScheduleFacts
  <2>2. CASE ~\A i \in Index : first[i] = "rejected"
    BY <2>2 DEF StartResumes, TypeOK, TimersExact
  <2>3. QED
    BY <2>1, <2>2
<1>4. TypeOK'
  <2>1. monitoring' = TRUE /\ first' \in [Index -> {"none", "pending", "resolved", "rejected"}]
    BY DEF StartResumes
  <2>2. QED
    BY <1>1, <1>3, <2>1 DEF TypeOK
<1>5. LifeCycle' /\ OwnObjects' /\ TimersExact'
  BY <1>1, <1>2, <1>3 DEF LifeCycle, OwnObjects, TimersExact
<1>6. LiveIsCurrent' /\ HeardIsCurrent' /\ SlotNeverGivenUp'
  BY <1>1, <1>2, <1>3 DEF LiveIsCurrent, HeardIsCurrent, SlotNeverGivenUp, TimersExact
<1>7. PendingIsClosed' /\ HealthyIsCurrent'
  BY <1>1, <1>2, <1>3 DEF PendingIsClosed, HealthyIsCurrent
<1>8. QED
  BY <1>4, <1>5, <1>6, <1>7

\* each connects,
LEMMA ConnectedInv == PoolInv /\ (\E c \in Conn : Connected(c)) => PoolInv'
<1> SUFFICES ASSUME PoolInv, NEW c \in Conn, Connected(c) PROVE PoolInv'
  OBVIOUS
<1> USE DEF PoolInv
<1>1. Active /\ c = connections[c[1]] /\ c \in heard /\ c[1] \in Index
  BY ConnFacts DEF Connected, LiveIsCurrent
<1>2. /\ UNCHANGED <<ctl, connections, pending, timers, heard, serverUp>>
      /\ healthy' = healthy \union {c}
      /\ sock' = [sock EXCEPT ![c] = "open"]
  BY DEF Connected
<1>3. Active' = Active
  BY <1>2 DEF Active, ctl
<1>4. TypeOK'
  <2>0. 0 \in 0..RetryCap
    BY RetryCapAssumption
  <2>1. retry' \in [Index -> 0..RetryCap]
    BY <2>0 DEF Connected, TypeOK
  <2>2. first' \in [Index -> {"none", "pending", "resolved", "rejected"}]
    BY DEF Connected, TypeOK
  <2>3. sock' \in [Conn -> {"none", "connecting", "open", "dying"}] /\ healthy' \subseteq Conn
    BY <1>2 DEF TypeOK
  <2>4. QED
    BY <1>2, <2>1, <2>2, <2>3 DEF Connected, TypeOK, ctl
<1>5. LifeCycle' /\ OwnObjects' /\ TimersExact' /\ HeardIsCurrent' /\ PendingIsClosed'
  BY <1>1, <1>2, <1>3
     DEF LifeCycle, OwnObjects, TimersExact, HeardIsCurrent, PendingIsClosed, ctl, Active
<1>6. LiveIsCurrent' /\ SlotNeverGivenUp' /\ HealthyIsCurrent'
  BY <1>1, <1>2, <1>3 DEF LiveIsCurrent, SlotNeverGivenUp, HealthyIsCurrent, ctl, TypeOK
<1>7. QED
  BY <1>4, <1>5, <1>6

\* The live sockets D are destroyed, and objects may leave the health set.
LEMMA DestroyedInv ==
  ASSUME PoolInv, NEW D, \A c \in D : sock[c] \in {"connecting", "open"},
         sock' = [c \in Conn |-> IF c \in D THEN "dying" ELSE sock[c]],
         healthy' \subseteq healthy,
         first' \in [Index -> {"none", "pending", "resolved", "rejected"}],
         UNCHANGED <<ctl, connections, pending, timers, retry, heard, signal, serverUp>>
  PROVE  PoolInv'
<1> USE DEF PoolInv, ctl
<1>1. Active' = Active
  BY DEF Active
<1>2. TypeOK'
  <2>1. sock' \in [Conn -> {"none", "connecting", "open", "dying"}] /\ healthy' \subseteq Conn
    BY DEF TypeOK
  <2>2. QED
    BY <2>1 DEF TypeOK
<1>3. LifeCycle' /\ OwnObjects' /\ TimersExact' /\ HeardIsCurrent' /\ PendingIsClosed'
  BY <1>1 DEF LifeCycle, OwnObjects, TimersExact, HeardIsCurrent, PendingIsClosed
<1>4. LiveIsCurrent'
  BY <1>1 DEF LiveIsCurrent
<1>5. SlotNeverGivenUp' /\ HealthyIsCurrent'
  <2>1. \A c \in Conn : /\ sock[c] # "none" => sock'[c] # "none"
                        /\ sock[c] \in {"open", "dying"} => sock'[c] \in {"open", "dying"}
    OBVIOUS
  <2>2. healthy \subseteq Conn /\ heard \subseteq Conn
    BY DEF TypeOK
  <2>3. QED
    BY <1>1, <2>1, <2>2 DEF SlotNeverGivenUp, HealthyIsCurrent
<1>6. QED
  BY <1>2, <1>3, <1>4, <1>5

\* is destroyed by a timeout or an error,
LEMMA DestroysInv ==
  PoolInv /\ (StartTimeouts \/ \E c \in Conn : SocketError(c) \/ SocketDestroyed(c) \/ ConnectTimeout(c))
    => PoolInv'
<1>1. ASSUME PoolInv, StartTimeouts PROVE PoolInv'
  <2> DEFINE late == {i \in Index : first[i] = "pending"}
             D == {<<i, 1>> : i \in {j \in late : sock[<<j, 1>>] = "connecting"}}
  <2>1. /\ first' = [i \in Index |-> IF i \in late THEN "rejected" ELSE first[i]]
        /\ sock' = [c \in Conn |-> IF c \in D THEN "dying" ELSE sock[c]]
        /\ UNCHANGED <<ctl, connections, pending, timers, retry, heard, healthy, signal, serverUp>>
    BY <1>1 DEF StartTimeouts
  <2>2. \A c \in D : sock[c] \in {"connecting", "open"}
    OBVIOUS
  <2>3. first' \in [Index -> {"none", "pending", "resolved", "rejected"}]
    BY <1>1, <2>1 DEF PoolInv, TypeOK
  <2> HIDE DEF D
  <2>4. QED
    BY <1>1, <2>1, <2>2, <2>3, DestroyedInv
<1>2. ASSUME PoolInv, NEW c \in Conn, SocketError(c) \/ SocketDestroyed(c) \/ ConnectTimeout(c)
      PROVE  PoolInv'
  <2> DEFINE D == {c}
  <2>1. /\ sock' = [d \in Conn |-> IF d \in D THEN "dying" ELSE sock[d]]
        /\ \A d \in D : sock[d] \in {"connecting", "open"}
        /\ healthy' \subseteq healthy
        /\ UNCHANGED <<ctl, slot, heard, signal, serverUp>>
    BY <1>2 DEF SocketError, SocketDestroyed, ConnectTimeout, PoolInv, TypeOK
  <2>2. first' \in [Index -> {"none", "pending", "resolved", "rejected"}]
    BY <1>2, <2>1 DEF PoolInv, TypeOK, slot
  <2>3. QED
    <3> HIDE DEF D
    <3>1. QED
      BY <1>2, <2>1, <2>2, DestroyedInv DEF slot
<1>3. QED
  BY <1>1, <1>2

\* The pool handles the 'close' of an object it hears.
LEMMA ClosedInv ==
  ASSUME PoolInv, NEW c \in Conn, sock[c] \in {"open", "dying"}, c \in heard,
         sock' = [sock EXCEPT ![c] = "none"], OnClose(c),
         UNCHANGED <<ctl, connections, first, serverUp>>
  PROVE  PoolInv'
<1> USE DEF PoolInv, ctl
<1>1. Active' = Active
  BY DEF Active
<1>2. c[1] \in Index /\ {c[1]} \in SUBSET Index
  BY ConnFacts
<1>3. /\ pending' \subseteq Index /\ timers' \subseteq Index
      /\ retry' \in [Index -> 0..RetryCap]
      /\ Active => pending' = timers' /\ pending' = pending \union {c[1]}
      /\ ~Active => timers' = timers /\ pending' = pending
  <2>1. retry \in [Index -> 0..RetryCap] /\ ScheduleReconnection({c[1]}, retry)
    BY DEF OnClose, TypeOK
  <2>2. QED
    BY <1>2, <2>1, ScheduleFacts
<1>4. /\ healthy' = healthy \ {c} /\ heard' = heard \ {c}
      /\ signal' \in {"none", "connectionAdded", "allConnectionsUnhealthy"}
  BY DEF OnClose, TypeOK
<1>5. TypeOK'
  <2>1. sock' \in [Conn -> {"none", "connecting", "open", "dying"}]
    BY DEF TypeOK
  <2>2. QED
    BY <1>3, <1>4, <2>1 DEF TypeOK
<1>6. Active => c = connections[c[1]]
  BY DEF HeardIsCurrent
<1>7. LifeCycle' /\ OwnObjects' /\ TimersExact' /\ HeardIsCurrent' /\ LiveIsCurrent'
  <2>1. LifeCycle' /\ OwnObjects' /\ TimersExact' /\ HeardIsCurrent'
    <3>1. start = "none" => ~Active
      BY DEF LifeCycle, Active
    <3>2. QED
      BY <1>1, <1>3, <1>4, <3>1 DEF LifeCycle, OwnObjects, TimersExact, HeardIsCurrent
  <2>2. LiveIsCurrent'
    BY <1>1, <1>4 DEF LiveIsCurrent, TypeOK
  <2>3. QED
    BY <2>1, <2>2
<1>8. PendingIsClosed'
  BY <1>1, <1>3, <1>4, <1>6 DEF PendingIsClosed
<1>9. SlotNeverGivenUp'
  <2>1. SUFFICES ASSUME Active, NEW i \in Index
                 PROVE  \/ i \in pending' /\ i \in timers'
                        \/ connections[i] \in heard' /\ sock'[connections[i]] # "none"
    BY <1>1 DEF SlotNeverGivenUp
  <2>2. CASE i = c[1]
    BY <1>3, <2>1, <2>2
  <2>3. CASE i # c[1]
    <3>1. connections[i] # c
      BY <1>2, <2>3, ConnFacts DEF OwnObjects
    <3>2. CASE i \in pending
      BY <1>3, <2>1, <3>2
    <3>3. CASE i \notin pending
      <4>1. connections[i] \in heard /\ sock[connections[i]] # "none"
        BY <2>1, <3>3 DEF SlotNeverGivenUp
      <4>2. connections[i] \in Conn
        BY <4>1 DEF TypeOK
      <4>3. QED
        BY <1>4, <3>1, <4>1, <4>2 DEF TypeOK
    <3>4. QED
      BY <3>2, <3>3
  <2>4. QED
    BY <2>2, <2>3
<1>10. HealthyIsCurrent'
  BY <1>4 DEF HealthyIsCurrent, TypeOK
<1>11. QED
  BY <1>5, <1>7, <1>8, <1>9, <1>10

\* is closed by the other side, or late,
LEMMA ClosesInv == PoolInv /\ (\E c \in Conn : RemoteClose(c) \/ LateClose(c)) => PoolInv'
<1>1. ASSUME PoolInv, NEW c \in Conn, RemoteClose(c) PROVE PoolInv'
  <2>1. c \in heard
    BY <1>1 DEF RemoteClose, PoolInv, LiveIsCurrent
  <2>2. QED
    BY <1>1, <2>1, ClosedInv DEF RemoteClose
<1>2. ASSUME PoolInv, NEW c \in Conn, LateClose(c), c \in heard PROVE PoolInv'
  BY <1>2, ClosedInv DEF LateClose
<1>3. ASSUME PoolInv, NEW c \in Conn, LateClose(c), c \notin heard PROVE PoolInv'
  <2> USE DEF PoolInv, ctl
  <2>1. /\ sock' = [sock EXCEPT ![c] = "none"] /\ sock[c] = "dying"
        /\ UNCHANGED <<ctl, slot, heard, healthy, signal, serverUp>>
    BY <1>3 DEF LateClose, slot
  <2>2. Active' = Active
    BY <2>1 DEF Active
  <2>3. TypeOK'
    <3>1. sock' \in [Conn -> {"none", "connecting", "open", "dying"}]
      BY <1>3, <2>1 DEF TypeOK
    <3>2. QED
      BY <1>3, <2>1, <3>1 DEF TypeOK, slot
  <2>4. LifeCycle' /\ OwnObjects' /\ TimersExact' /\ HeardIsCurrent' /\ PendingIsClosed'
    BY <1>3, <2>1, <2>2
       DEF LifeCycle, OwnObjects, TimersExact, HeardIsCurrent, PendingIsClosed, slot
  <2>5. LiveIsCurrent' /\ SlotNeverGivenUp' /\ HealthyIsCurrent'
    BY <1>3, <2>1, <2>2
       DEF LiveIsCurrent, SlotNeverGivenUp, HealthyIsCurrent, TypeOK, slot
  <2>6. QED
    BY <1>3, <2>3, <2>4, <2>5
<1>4. QED
  BY <1>1, <1>2, <1>3

\* is replaced when its timer fires,
LEMMA ReconnectInv == PoolInv /\ (\E i \in Index : ReconnectTimer(i)) => PoolInv'
<1> SUFFICES ASSUME PoolInv, NEW i \in Index, ReconnectTimer(i) PROVE PoolInv'
  OBVIOUS
<1> USE DEF PoolInv
<1>1. /\ i \in timers /\ timers' = timers \ {i} /\ pending' = pending \ {i}
      /\ UNCHANGED <<ctl, retry, first, healthy, signal, serverUp>>
  BY DEF ReconnectTimer
<1>2. Active /\ Active' /\ i \in pending
  BY <1>1 DEF TimersExact, Active, ctl
<1> DEFINE old == connections[i]
<1>3. PICK new \in Free(i) :
         /\ connections' = [connections EXCEPT ![i] = new]
         /\ heard' = (heard \ {old}) \union {new}
         /\ sock' = [c \in Conn |-> IF c = new THEN "connecting"
                                    ELSE IF c = old /\ sock[c] # "none" THEN "dying"
                                    ELSE sock[c]]
  BY <1>2 DEF ReconnectTimer, Replace
<1>4. new \in Conn /\ new[1] = i /\ sock[new] = "none" /\ new \notin healthy /\ new # old
  BY DEF Free, Conn
<1>5. TypeOK'
  <2>1. sock' \in [Conn -> {"none", "connecting", "open", "dying"}]
    BY <1>3 DEF TypeOK
  <2>2. connections' \in [Index -> Conn \union {NoObject}]
    BY <1>3, <1>4 DEF TypeOK
  <2>3. heard' \subseteq Conn
    BY <1>3, <1>4 DEF TypeOK
  <2>4. QED
    BY <1>1, <2>1, <2>2, <2>3 DEF TypeOK, ctl
<1>6. LifeCycle' /\ OwnObjects' /\ TimersExact'
  <2>1. start # "none"
    BY <1>2 DEF LifeCycle, Active
  <2>2. LifeCycle'
    BY <1>1, <2>1 DEF LifeCycle, ctl
  <2>3. OwnObjects'
    BY <1>3, <1>4 DEF OwnObjects, TypeOK
  <2>4. TimersExact'
    BY <1>1, <1>2 DEF TimersExact
  <2>5. QED
    BY <2>2, <2>3, <2>4
\* An object of another slot is neither old nor new.
<1>7. ASSUME NEW j \in Index, j # i
      PROVE  connections'[j] = connections[j] /\ connections[j] # new
             /\ (connections[j] # NoObject => connections[j] # old)
  <2>1. connections'[j] = connections[j]
    BY <1>3, <1>7 DEF TypeOK
  <2>2. connections[j] # NoObject => connections[j] # old
    BY <1>7 DEF OwnObjects
  <2>3. connections[j] # new
    BY <1>4, <1>7, ConnFacts DEF OwnObjects
  <2>4. QED
    BY <2>1, <2>2, <2>3
<1>8. connections'[i] = new
  BY <1>3 DEF TypeOK
<1>9. \A c \in Conn : c[1] # i => connections'[c[1]] = connections[c[1]]
  BY <1>7, ConnFacts
<1>10. LiveIsCurrent' /\ HeardIsCurrent'
  <2>1. ASSUME NEW c \in heard' PROVE c = connections'[c[1]]
    <3>1. CASE c = new
      BY <1>4, <1>8, <3>1
    <3>2. CASE c # new
      <4>1. c \in heard /\ c # old
        BY <1>3, <2>1, <3>2
      <4>2. c = connections[c[1]] /\ c \in Conn
        BY <1>2, <4>1 DEF HeardIsCurrent, TypeOK
      <4>3. QED
        BY <1>9, <4>1, <4>2
    <3>3. QED
      BY <3>1, <3>2
  <2>2. ASSUME NEW c \in Conn, sock'[c] \in {"connecting", "open"} PROVE c \in heard'
    <3>1. CASE c = new
      BY <1>3, <3>1
    <3>2. CASE c # new
      <4>1. c # old /\ sock[c] \in {"connecting", "open"}
        BY <1>3, <2>2, <3>2
      <4>2. QED
        BY <1>3, <4>1 DEF LiveIsCurrent
    <3>3. QED
      BY <3>1, <3>2
  <2>3. QED
    BY <1>2, <2>1, <2>2 DEF LiveIsCurrent, HeardIsCurrent
<1>11. PendingIsClosed'
  <2>1. SUFFICES ASSUME start # "failed", NEW j \in pending' PROVE connections'[j] \notin heard'
    BY <1>1 DEF PendingIsClosed, ctl
  <2>2. j \in pending /\ j # i /\ j \in Index
    BY <1>1 DEF TypeOK
  <2>3. connections[j] \notin heard
    BY <1>2, <2>1, <2>2 DEF PendingIsClosed
  <2>4. QED
    BY <1>3, <1>7, <2>2, <2>3
<1>12. SlotNeverGivenUp'
  <2>1. SUFFICES ASSUME NEW j \in Index
                 PROVE  \/ j \in pending' /\ j \in timers'
                        \/ connections'[j] \in heard' /\ sock'[connections'[j]] # "none"
    BY DEF SlotNeverGivenUp
  <2>2. CASE j = i
    BY <1>3, <1>4, <1>8, <2>2
  <2>3. CASE j # i /\ j \in pending /\ j \in timers
    BY <1>1, <2>3
  <2>4. CASE j # i /\ connections[j] \in heard /\ sock[connections[j]] # "none"
    <3>1. connections[j] \in Conn
      BY <2>4 DEF TypeOK
    <3>2. connections[j] # old /\ connections[j] # new /\ connections'[j] = connections[j]
      BY <1>7, <2>4, <3>1, ConnFacts
    <3>3. QED
      BY <1>3, <2>4, <3>1, <3>2
  <2>5. QED
    BY <1>2, <2>2, <2>3, <2>4 DEF SlotNeverGivenUp
<1>13. HealthyIsCurrent'
  <2>1. SUFFICES ASSUME start # "failed", NEW c \in healthy
                 PROVE  c = connections'[c[1]] /\ c \in heard' /\ sock'[c] \in {"open", "dying"}
    BY <1>1 DEF HealthyIsCurrent, ctl
  <2>2. c = connections[c[1]] /\ c \in heard /\ sock[c] \in {"open", "dying"} /\ c \in Conn
    BY <1>2, <2>1 DEF HealthyIsCurrent, Active, TypeOK
  <2>3. old \notin heard
    BY <1>2, <2>1 DEF PendingIsClosed
  <2>4. c # old /\ c # new /\ c[1] # i
    BY <1>4, <2>1, <2>2, <2>3
  <2>5. QED
    BY <1>3, <1>9, <2>2, <2>4
<1>14. QED
  BY <1>5, <1>6, <1>10, <1>11, <1>12, <1>13

\* is checked;
LEMMA ChecksInv ==
  PoolInv /\ (HealthCheck \/ \E c \in Conn : RecheckUnhealthy(c)) => PoolInv'
<1> SUFFICES ASSUME PoolInv, HealthCheck \/ \E c \in Conn : RecheckUnhealthy(c) PROVE PoolInv'
  OBVIOUS
<1> USE DEF PoolInv, ctl, slot
<1>1. /\ healthy' \subseteq healthy
      /\ signal' \in {"none", "connectionAdded", "allConnectionsUnhealthy"}
      /\ UNCHANGED <<ctl, slot, sock, heard, serverUp>>
  BY DEF HealthCheck, Checked, RecheckUnhealthy, TypeOK
<1>2. Active' = Active
  BY <1>1 DEF Active
<1>3. TypeOK'
  BY <1>1 DEF TypeOK
<1>4. LifeCycle' /\ OwnObjects' /\ TimersExact' /\ HeardIsCurrent' /\ PendingIsClosed'
  BY <1>1, <1>2 DEF LifeCycle, OwnObjects, TimersExact, HeardIsCurrent, PendingIsClosed
<1>5. LiveIsCurrent' /\ SlotNeverGivenUp' /\ HealthyIsCurrent'
  BY <1>1, <1>2 DEF LiveIsCurrent, SlotNeverGivenUp, HealthyIsCurrent
<1>6. QED
  BY <1>3, <1>4, <1>5

\* stop ends them all,
LEMMA StopInv == PoolInv /\ Stop => PoolInv'
<1> SUFFICES ASSUME PoolInv, Stop PROVE PoolInv'
  OBVIOUS
<1> USE DEF PoolInv
<1>1. /\ isStarted' /\ isShuttingDown' /\ ~Active' /\ timers' = {}
      /\ UNCHANGED <<isStarted, start, stopped, connections, pending, retry, first,
                     heard, healthy, signal, serverUp>>
  BY DEF Stop, CancelTimers, Active
<1>2. sock' = [c \in Conn |-> IF c = connections[c[1]] /\ sock[c] # "dying"
                              THEN "none" ELSE sock[c]]
  BY DEF Stop
<1>3. TypeOK'
  <2>1. sock' \in [Conn -> {"none", "connecting", "open", "dying"}]
    BY <1>2 DEF TypeOK
  <2>2. QED
    BY <1>1, <2>1 DEF Stop, TypeOK
<1>4. LifeCycle' /\ OwnObjects' /\ TimersExact'
  BY <1>1 DEF LifeCycle, OwnObjects, TimersExact
<1>5. LiveIsCurrent'
  BY <1>2 DEF LiveIsCurrent
<1>6. HeardIsCurrent' /\ PendingIsClosed' /\ SlotNeverGivenUp' /\ HealthyIsCurrent'
  BY <1>1 DEF HeardIsCurrent, PendingIsClosed, SlotNeverGivenUp, HealthyIsCurrent
<1>7. QED
  BY <1>3, <1>4, <1>5, <1>6

\* and resolves.
LEMMA StopResumesInv == PoolInv /\ StopResumes => PoolInv'
<1> SUFFICES ASSUME PoolInv, StopResumes PROVE PoolInv'
  OBVIOUS
<1> USE DEF PoolInv
<1>1. /\ ~isStarted' /\ ~Active' /\ ~Active /\ healthy' = {}
      /\ start # "none"
      /\ connections' = [i \in Index |-> NoObject]
      /\ UNCHANGED <<start, monitoring, timers, first, sock, heard, signal, serverUp>>
  BY DEF StopResumes, Active, LifeCycle
<1>2. TypeOK'
  <2>1. retry' \in [Index -> 0..RetryCap]
    BY RetryCapAssumption DEF StopResumes
  <2>2. connections' \in [Index -> Conn \union {NoObject}]
    BY <1>1
  <2>3. pending' \subseteq Index
    BY DEF StopResumes
  <2>4. QED
    BY <1>1, <2>1, <2>2, <2>3 DEF StopResumes, TypeOK
<1>3. LifeCycle' /\ OwnObjects' /\ TimersExact'
  BY <1>1 DEF StopResumes, LifeCycle, OwnObjects, TimersExact
<1>4. LiveIsCurrent'
  BY <1>1 DEF LiveIsCurrent
<1>5. HeardIsCurrent' /\ PendingIsClosed' /\ SlotNeverGivenUp' /\ HealthyIsCurrent'
  BY <1>1 DEF HeardIsCurrent, PendingIsClosed, SlotNeverGivenUp, HealthyIsCurrent
<1>6. QED
  BY <1>2, <1>3, <1>4, <1>5

\* Every step of the pool keeps its invariant.
LEMMA NextInv == PoolInv /\ [Next]_vars => PoolInv'
<1>1. PoolInv /\ (ServerChanges \/ UNCHANGED vars) => PoolInv'
  <2> SUFFICES ASSUME PoolInv, ServerChanges \/ UNCHANGED vars PROVE PoolInv'
    OBVIOUS
  <2>1. UNCHANGED <<ctl, slot, obj, signal>> /\ serverUp' \in BOOLEAN
    BY DEF ServerChanges, vars, PoolInv, TypeOK
  <2>2. QED
    BY <2>1 DEF PoolInv, TypeOK, LifeCycle, OwnObjects, TimersExact, LiveIsCurrent,
                HeardIsCurrent, PendingIsClosed, SlotNeverGivenUp, HealthyIsCurrent, Active,
                ctl, slot, obj
<1>2. QED
  BY <1>1, StartInv, StartResumesInv, ConnectedInv, DestroysInv, ClosesInv, ReconnectInv,
     ChecksInv, StopInv, StopResumesInv DEF Next

\* So it always holds.
LEMMA PoolInvariant == Spec => []PoolInv
BY InitInv, NextInv, PTL DEF Spec

-----------------------------------------------------------------------------
(* Theorems *)

\* Every variable of the pool keeps its type (cgateConnectionPool.js:73-87).
THEOREM PoolTypes == Spec => []TypeOK
<1>1. PoolInv => TypeOK
  BY DEF PoolInv
<1>2. QED
  BY <1>1, PoolInvariant, PTL

\* "Never permanently give up": however errors, closes, timeouts, health checks
\* and replacements interleave, every slot of a running pool of any size has a
\* reconnection timer, or an object whose next event the pool will hear
\* (cgateConnectionPool.js:291-311, 365-414).
THEOREM PoolNeverGivesUp == Spec => []SlotNeverGivenUp
<1>1. PoolInv => SlotNeverGivenUp
  BY DEF PoolInv
<1>2. QED
  BY <1>1, PoolInvariant, PTL

\* Unless start() gave up, no replaced object stays in the health set
\* (cgateConnectionPool.js:282-318, 387-414).
THEOREM PoolHealthyIsCurrent == Spec => []HealthyIsCurrent
<1>1. PoolInv => HealthyIsCurrent
  BY DEF PoolInv
<1>2. QED
  BY <1>1, PoolInvariant, PTL

\* Once stop() has completed, no timer, no healthy connection and no live socket
\* comes back (cgateConnectionPool.js:143-197).
THEOREM PoolNoResurrection == Spec => []NoResurrection
<1>1. PoolInv => NoResurrection
  BY DEF PoolInv, NoResurrection, LifeCycle, TimersExact, LiveIsCurrent, Active
<1>2. QED
  BY <1>1, PoolInvariant, PTL

\* All that the runs check of the pool's state, for a pool of any size, with any number
\* of replacements (cgateConnectionPool.js:143-197, 282-414).
THEOREM PoolIsSound == Spec => []PoolSound
BY PoolTypes, PoolNeverGivesUp, PoolHealthyIsCurrent, PoolNoResurrection, PTL DEF PoolSound

-----------------------------------------------------------------------------
(* The pool inside the bridge *)

\* A step of the bridge is a step of the pool or leaves the pool alone.
LEMMA BridgeStepsPool == [BridgeNext]_allVars => [Next]_vars
<1> SUFFICES ASSUME [BridgeNext]_allVars PROVE [Next]_vars
  OBVIOUS
<1>1. CASE BridgeStart \/ PoolStarted \/ PoolChecked
  BY <1>1 DEF BridgeStart, PoolStarted, PoolChecked, Next
<1>2. ASSUME NEW c \in Conn, ConnectionAdded(c) \/ ConnectionLost(c) PROVE Next
  BY <1>2 DEF ConnectionAdded, ConnectionLost, Next
<1>3. CASE PoolStep
  <2>1. StartTimeouts \/ ServerChanges \/ (\E i \in Index : ReconnectTimer(i))
          \/ (\E c \in Conn : \/ SocketError(c) \/ SocketDestroyed(c) \/ ConnectTimeout(c)
                              \/ RecheckUnhealthy(c) \/ LateClose(c))
    BY <1>3 DEF PoolStep
  <2>2. QED
    BY <2>1 DEF Next
<1>4. CASE EventConnected \/ EventError \/ EventDestroyed \/ EventClosed \/ EventReconnect
  BY <1>4 DEF EventConnected, EventError, EventDestroyed, EventClosed, EventReconnect, poolVars, vars
<1>5. CASE MqttConnect \/ MqttError \/ MqttClose \/ BrokerWill \/ BrokerForgets
  BY <1>5 DEF MqttConnect, MqttError, MqttClose, BrokerWill, BrokerForgets, poolVars, vars
<1>6. CASE DebounceExpires \/ Shutdown
  BY <1>6 DEF DebounceExpires, Shutdown, poolVars, vars
<1>7. CASE UNCHANGED allVars
  BY <1>7 DEF allVars, poolVars, vars
<1>8. QED
  BY <1>1, <1>2, <1>3, <1>4, <1>5, <1>6, <1>7 DEF BridgeNext

\* Whatever the event connection, the broker and the readiness logic do, the pool in
\* the bridge behaves as CgatePool says, so every theorem about CgatePool holds of it
\* (cgateWebBridge.js:211-223, 290-371).
THEOREM BridgeDrivesPool == BridgeSpec => Spec
<1>1. BridgeInit => Init
  BY DEF BridgeInit
<1>2. QED
  BY <1>1, BridgeStepsPool, PTL DEF BridgeSpec, Spec

\* start() is called once: no later step forgets it.
LEMMA StartedForGood == [Next]_vars => (start # "none" => start' # "none")
<1> SUFFICES ASSUME [Next]_vars, start # "none" PROVE start' # "none"
  OBVIOUS
<1>1. CASE Start \/ StartResumes
  BY <1>1 DEF Start, StartResumes
<1>2. CASE Stop \/ StopResumes \/ HealthCheck \/ ServerChanges \/ StartTimeouts
  BY <1>2 DEF Stop, StopResumes, HealthCheck, ServerChanges, StartTimeouts, ctl
<1>3. ASSUME NEW i \in Index, ReconnectTimer(i) PROVE start' # "none"
  BY <1>3 DEF ReconnectTimer, ctl
<1>4. ASSUME NEW c \in Conn, \/ Connected(c) \/ SocketError(c) \/ SocketDestroyed(c)
                             \/ RemoteClose(c) \/ LateClose(c)
                             \/ ConnectTimeout(c) \/ RecheckUnhealthy(c)
      PROVE  start' # "none"
  BY <1>4 DEF Connected, SocketError, SocketDestroyed, RemoteClose, LateClose,
              ConnectTimeout, RecheckUnhealthy, ctl
<1>5. CASE UNCHANGED vars
  BY <1>5 DEF vars, ctl
<1>6. QED
  BY <1>1, <1>2, <1>3, <1>4, <1>5 DEF Next

-----------------------------------------------------------------------------
(* The inductive invariant *)

StatusTopic == [last : {"none", "Online", "Offline"}, retained : {"none", "Online", "Offline"}]
LifecycleState == {"booting", "ready", "degraded", "stopping"}

\* The latch, and an initialisation that was skipped within the debounce window, leave
\* a trace: the bridge has been ready before.
LatchRemembers == allConnected \/ debounce = "recent" => hasEverBeenReady

\* The client exists once start() is called, MqttManager.connected follows its session,
\* and no session begins with a bridge that believes itself ready: 'close' comes between
\* the end of a session and the next.
SessionOpens ==
  /\ mqtt # "none" => start # "none"
  /\ mqttConnected <=> mqtt = "open"
  /\ mqtt \in {"none", "connecting"} => ~bridgeReady

\* The broker's copy is Online only if the bridge's last word was.
NeverMoreOnline(st) == st.retained = "Online" => st.last = "Online"

\* The broker's copy is Online exactly when the bridge's last word was.
Exact(st) == st.retained = "Online" <=> st.last = "Online"

\* On an open session the last word is what the bridge means, and nothing is due that
\* would overwrite it.
StatusCurrent ==
  /\ NeverMoreOnline(status)
  /\ mqttConnected /\ ~exited =>
       ~willDue /\ status.last = Payload(bridgeReady) /\ Exact(status)

\* The types of the bridge's own variables.
OwnTypes ==
  /\ mqtt \in {"none", "connecting", "open", "failing"}
  /\ esock \in {"none", "connecting", "open", "dying"}
  /\ status \in StatusTopic /\ lifecycle \in LifecycleState
  /\ debounce \in {"off", "idle", "recent"}
  /\ mqttConnected \in BOOLEAN /\ bridgeReady \in BOOLEAN /\ willDue \in BOOLEAN
  /\ econnected \in BOOLEAN /\ etimer \in BOOLEAN /\ allConnected \in BOOLEAN
  /\ hasEverBeenReady \in BOOLEAN /\ exited \in BOOLEAN

BridgeInv == OwnTypes /\ LatchRemembers /\ SessionOpens /\ StatusCurrent /\ FirstUpNoticed

-----------------------------------------------------------------------------
(* Lemmas about the helpers *)

\* What a publication of the status makes of the topic.
LEMMA PublishedFacts ==
  ASSUME NEW st \in StatusTopic, NEW r \in BOOLEAN
  PROVE  /\ Published(st, Payload(r)) \in StatusTopic
         /\ Published(st, Payload(r)).last = Payload(r)
         /\ NeverMoreOnline(st) => NeverMoreOnline(Published(st, Payload(r)))
         /\ Exact(st) => Exact(Published(st, Payload(r)))
         /\ ~r /\ NeverMoreOnline(st) => Exact(Published(st, Payload(r)))
BY DEF Published, Payload, StatusTopic, NeverMoreOnline, Exact

\* What an update of the readiness leaves behind, given the status topic st so far.
LEMMA UpdateFacts ==
  ASSUME NEW st \in StatusTopic, NEW state \in LifecycleState, NeverMoreOnline(st),
         hasEverBeenReady \in BOOLEAN, mqttConnected' \in BOOLEAN, econnected' \in BOOLEAN,
         UpdateReadiness(st, state)
  PROVE  /\ status' \in StatusTopic /\ lifecycle' \in LifecycleState
         /\ bridgeReady' \in BOOLEAN /\ hasEverBeenReady' \in BOOLEAN
         /\ hasEverBeenReady => hasEverBeenReady'
         /\ Up' => hasEverBeenReady'
         /\ bridgeReady' => mqttConnected'
         /\ NeverMoreOnline(status')
         /\ mqttConnected' => status'.last = Payload(bridgeReady')
         /\ mqttConnected' /\ Exact(st) => Exact(status')
<1>1. /\ bridgeReady' = Up' /\ Up' \in BOOLEAN
      /\ hasEverBeenReady' = (hasEverBeenReady \/ Up')
      /\ lifecycle' = IF Up' THEN "ready"
                      ELSE IF state = "stopping" THEN state
                      ELSE IF hasEverBeenReady' THEN "degraded" ELSE "booting"
      /\ status' = IF mqttConnected' THEN Published(st, Payload(Up')) ELSE st
  BY DEF UpdateReadiness, Up
<1>2. Up' => mqttConnected'
  BY DEF Up
<1>3. lifecycle' \in LifecycleState
  BY <1>1 DEF LifecycleState
<1>4. QED
  BY <1>1, <1>2, <1>3, PublishedFacts

\* What the check of the latch leaves behind.
LEMMA CheckFacts ==
  ASSUME OwnTypes, LatchRemembers, NEW st \in StatusTopic, NeverMoreOnline(st),
         mqttConnected' \in BOOLEAN, econnected' \in BOOLEAN, LifeCycle',
         CheckAllConnected(st)
  PROVE  /\ status' \in StatusTopic /\ lifecycle' \in LifecycleState
         /\ bridgeReady' \in BOOLEAN /\ hasEverBeenReady' \in BOOLEAN
         /\ allConnected' \in BOOLEAN /\ debounce' \in {"off", "idle", "recent"}
         /\ FirstUpNoticed' /\ LatchRemembers'
         /\ bridgeReady' => bridgeReady \/ mqttConnected'
         /\ NeverMoreOnline(status')
         /\ (mqttConnected' /\ Exact(st) /\ st.last = Payload(bridgeReady))
              => Exact(status') /\ status'.last = Payload(bridgeReady')
<1> DEFINE fires == ~allConnected /\ isStarted' /\ mqttConnected' /\ econnected' /\ healthy' # {}
<1>1. /\ allConnected' = (allConnected \/ fires)
      /\ debounce' = IF fires /\ debounce = "idle" THEN "recent" ELSE debounce
  BY DEF CheckAllConnected
<1>2. allConnected' \in BOOLEAN /\ debounce' \in {"off", "idle", "recent"}
  BY <1>1 DEF OwnTypes
<1>3. Up' => isStarted'
  BY DEF Up, LifeCycle
<1>4. fires => Up'
  BY DEF Up
<1>5. CASE fires /\ debounce # "recent"
  <2>1. UpdateReadiness(st, lifecycle)
    BY <1>5 DEF CheckAllConnected
  <2>2. lifecycle \in LifecycleState /\ hasEverBeenReady \in BOOLEAN
    BY DEF OwnTypes
  <2> HIDE DEF fires
  <2>3. /\ status' \in StatusTopic /\ lifecycle' \in LifecycleState
        /\ bridgeReady' \in BOOLEAN /\ hasEverBeenReady' \in BOOLEAN
        /\ hasEverBeenReady => hasEverBeenReady'
        /\ Up' => hasEverBeenReady'
        /\ bridgeReady' => mqttConnected'
        /\ NeverMoreOnline(status')
        /\ mqttConnected' => status'.last = Payload(bridgeReady')
        /\ mqttConnected' /\ Exact(st) => Exact(status')
    BY <2>1, <2>2, UpdateFacts
  <2>4. FirstUpNoticed' /\ LatchRemembers'
    BY <1>4, <1>5, <2>3 DEF FirstUpNoticed, LatchRemembers
  <2>5. QED
    BY <1>2, <2>3, <2>4
<1>6. CASE ~(fires /\ debounce # "recent")
  <2>1. status' = st /\ UNCHANGED <<bridgeReady, hasEverBeenReady, lifecycle>>
    BY <1>6 DEF CheckAllConnected
  <2>2. LatchRemembers'
    BY <1>1, <1>6, <2>1 DEF LatchRemembers
  <2>3. Up' => allConnected \/ fires
    BY <1>3 DEF Up
  <2> HIDE DEF fires
  <2>4. FirstUpNoticed'
    BY <1>6, <2>1, <2>3 DEF FirstUpNoticed, LatchRemembers
  <2>5. QED
    BY <1>2, <2>1, <2>2, <2>4 DEF OwnTypes
<1>7. QED
  BY <1>5, <1>6

-----------------------------------------------------------------------------
(* The invariant holds initially and is preserved by every step *)

\* Before the start nothing was told.
LEMMA BridgeInitInv == BridgeInit => BridgeInv
<1> SUFFICES ASSUME BridgeInit PROVE BridgeInv
  OBVIOUS
<1>1. OwnTypes
  BY DEF BridgeInit, OwnTypes, StatusTopic, LifecycleState
<1>2. LatchRemembers /\ SessionOpens /\ FirstUpNoticed
  BY DEF BridgeInit, LatchRemembers, SessionOpens, FirstUpNoticed, Up
<1>3. StatusCurrent
  BY DEF BridgeInit, StatusCurrent, NeverMoreOnline
<1>4. QED
  BY <1>1, <1>2, <1>3 DEF BridgeInv

\* Steps that end in an update of the readiness.
LEMMA UpdateStep ==
  ASSUME BridgeInv, NEW state \in LifecycleState, UpdateReadiness(status, state),
         start # "none" => start' # "none", mqtt' # "none" => mqtt # "none",
         mqtt' \in {"none", "connecting", "open", "failing"},
         esock' \in {"none", "connecting", "open", "dying"},
         mqttConnected' \in BOOLEAN, willDue' \in BOOLEAN,
         econnected' \in BOOLEAN, etimer' \in BOOLEAN, exited' \in BOOLEAN,
         allConnected' \in BOOLEAN, allConnected' => allConnected, debounce' = debounce,
         mqttConnected' <=> mqtt' = "open",
         mqttConnected' /\ ~exited' => mqttConnected /\ ~exited /\ willDue' = willDue
  PROVE  BridgeInv'
<1>1. /\ status \in StatusTopic /\ NeverMoreOnline(status) /\ hasEverBeenReady \in BOOLEAN
  BY DEF BridgeInv, OwnTypes, StatusCurrent
<1>2. /\ status' \in StatusTopic /\ lifecycle' \in LifecycleState
      /\ bridgeReady' \in BOOLEAN /\ hasEverBeenReady' \in BOOLEAN
      /\ hasEverBeenReady => hasEverBeenReady'
      /\ Up' => hasEverBeenReady'
      /\ bridgeReady' => mqttConnected'
      /\ NeverMoreOnline(status')
      /\ mqttConnected' => status'.last = Payload(bridgeReady')
      /\ mqttConnected' /\ Exact(status) => Exact(status')
  BY <1>1, UpdateFacts
<1>3. OwnTypes'
  BY <1>2 DEF BridgeInv, OwnTypes
<1>4. LatchRemembers' /\ FirstUpNoticed' /\ SessionOpens'
  BY <1>2 DEF BridgeInv, LatchRemembers, FirstUpNoticed, SessionOpens
<1>5. StatusCurrent'
  BY <1>2 DEF BridgeInv, StatusCurrent, NeverMoreOnline, Exact
<1>6. QED
  BY <1>3, <1>4, <1>5 DEF BridgeInv

\* Steps of an unchanged session that end in a check of the latch.
LEMMA CheckStep ==
  ASSUME BridgeInv, LifeCycle', CheckAllConnected(status), UNCHANGED <<mqttVars, exited>>,
         start # "none" => start' # "none",
         esock' \in {"none", "connecting", "open", "dying"},
         econnected' \in BOOLEAN, etimer' \in BOOLEAN
  PROVE  BridgeInv'
<1>1. /\ OwnTypes /\ LatchRemembers /\ status \in StatusTopic /\ NeverMoreOnline(status)
      /\ UNCHANGED <<mqtt, mqttConnected, willDue, exited>>
      /\ mqttConnected' \in BOOLEAN
  BY DEF BridgeInv, OwnTypes, StatusCurrent, mqttVars
<1>2. /\ status' \in StatusTopic /\ lifecycle' \in LifecycleState
      /\ bridgeReady' \in BOOLEAN /\ hasEverBeenReady' \in BOOLEAN
      /\ allConnected' \in BOOLEAN /\ debounce' \in {"off", "idle", "recent"}
      /\ FirstUpNoticed' /\ LatchRemembers'
      /\ bridgeReady' => bridgeReady \/ mqttConnected'
      /\ NeverMoreOnline(status')
      /\ (mqttConnected' /\ Exact(status) /\ status.last = Payload(bridgeReady))
           => Exact(status') /\ status'.last = Payload(bridgeReady')
  BY <1>1, CheckFacts
<1>3. OwnTypes'
  BY <1>1, <1>2 DEF OwnTypes
<1>4. SessionOpens'
  BY <1>1, <1>2 DEF BridgeInv, SessionOpens
<1>5. StatusCurrent'
  BY <1>1, <1>2 DEF BridgeInv, StatusCurrent, NeverMoreOnline, Exact
<1>6. QED
  BY <1>2, <1>3, <1>4, <1>5 DEF BridgeInv

\* Steps that leave the readiness and its latch alone and bring no connection up.
LEMMA SilentStep ==
  ASSUME BridgeInv, UNCHANGED <<readyVars, exited>>,
         mqtt' # "none" => start' # "none",
         healthy' \subseteq healthy, econnected' = econnected,
         mqtt' \in {"none", "connecting", "open", "failing"},
         esock' \in {"none", "connecting", "open", "dying"},
         mqttConnected' \in BOOLEAN, willDue' \in BOOLEAN, etimer' \in BOOLEAN,
         allConnected' \in BOOLEAN, allConnected' => allConnected,
         debounce' \in {debounce, "idle"},
         mqttConnected' <=> mqtt' = "open",
         mqtt' \in {"none", "connecting"} => mqtt \in {"none", "connecting"},
         mqttConnected' => mqttConnected /\ willDue' = willDue
  PROVE  BridgeInv'
<1> USE DEF BridgeInv, readyVars
<1>1. OwnTypes'
  BY DEF OwnTypes
<1>2. LatchRemembers' /\ SessionOpens' /\ FirstUpNoticed'
  BY DEF LatchRemembers, SessionOpens, FirstUpNoticed, Up
<1>3. StatusCurrent'
  BY DEF StatusCurrent, NeverMoreOnline, Exact
<1>4. QED
  BY <1>1, <1>2, <1>3

\* 'connect' of the MQTT client: the session begins with a bridge that is not ready, so
\* whatever an earlier session left in the broker is no Online.
LEMMA MqttConnectInv ==
  ASSUME BridgeInv, LifeCycle', start # "none" => start' # "none", MqttConnect
  PROVE  BridgeInv'
<1> DEFINE st == StatusOnConnect
<1>1. /\ mqtt = "connecting" /\ ~willDue /\ mqtt' = "open" /\ mqttConnected' = TRUE
      /\ UNCHANGED <<esock, econnected, etimer, willDue, exited>>
      /\ CheckAllConnected(st)
  BY DEF MqttConnect, eventVars
<1>2. bridgeReady = FALSE /\ OwnTypes /\ LatchRemembers /\ econnected' \in BOOLEAN
  BY <1>1 DEF BridgeInv, SessionOpens, OwnTypes
<1>3. st \in StatusTopic /\ NeverMoreOnline(st) /\ Exact(st) /\ st.last = Payload(bridgeReady)
  BY <1>2, PublishedFacts DEF StatusOnConnect, BridgeInv, OwnTypes, StatusCurrent
<1> HIDE DEF st
<1>4. /\ status' \in StatusTopic /\ lifecycle' \in LifecycleState
      /\ bridgeReady' \in BOOLEAN /\ hasEverBeenReady' \in BOOLEAN
      /\ allConnected' \in BOOLEAN /\ debounce' \in {"off", "idle", "recent"}
      /\ FirstUpNoticed' /\ LatchRemembers'
      /\ NeverMoreOnline(status')
      /\ (mqttConnected' /\ Exact(st) /\ st.last = Payload(bridgeReady))
           => Exact(status') /\ status'.last = Payload(bridgeReady')
  BY <1>1, <1>2, <1>3, CheckFacts
<1>5. OwnTypes'
  BY <1>1, <1>2, <1>4 DEF OwnTypes
<1>6. SessionOpens'
  BY <1>1 DEF BridgeInv, SessionOpens
<1>7. StatusCurrent'
  BY <1>1, <1>3, <1>4 DEF StatusCurrent, NeverMoreOnline, Exact
<1>8. QED
  BY <1>4, <1>5, <1>6, <1>7 DEF BridgeInv

\* Steps of the broker alone: a due will, and a restart that forgets.
LEMMA BrokerInv ==
  ASSUME BridgeInv, BrokerWill \/ BrokerForgets
  PROVE  BridgeInv'
<1> USE DEF BridgeInv
<1>1. /\ UNCHANGED <<start, healthy, mqtt, mqttConnected, esock, econnected, etimer, bridgeReady,
                     hasEverBeenReady, lifecycle, allConnected, debounce, exited>>
      /\ willDue' \in BOOLEAN /\ (willDue' => willDue)
      /\ willDue \/ mqtt # "open"
  <2> USE DEF poolVars, ctl, obj, mqttVars, eventVars, latchVars, OwnTypes
  <2>1. CASE BrokerWill
    BY <2>1 DEF BrokerWill
  <2>2. CASE BrokerForgets
    BY <2>2 DEF BrokerForgets
  <2>3. QED
    BY <2>1, <2>2
<1>2. status' \in StatusTopic /\ status'.retained # "Online"
  BY DEF BrokerWill, BrokerForgets, OwnTypes, StatusTopic
<1>3. OwnTypes'
  BY <1>1, <1>2 DEF OwnTypes
<1>4. LatchRemembers' /\ SessionOpens' /\ FirstUpNoticed'
  BY <1>1 DEF LatchRemembers, SessionOpens, FirstUpNoticed, Up
<1>5. StatusCurrent'
  BY <1>1, <1>2 DEF StatusCurrent, NeverMoreOnline, SessionOpens
<1>6. QED
  BY <1>3, <1>4, <1>5

\* Every step of the bridge over the pool keeps the invariant of the bridge.
LEMMA BridgeNextInv == PoolInv' /\ BridgeInv /\ [BridgeNext]_allVars => BridgeInv'
<1> SUFFICES ASSUME PoolInv', BridgeInv, [BridgeNext]_allVars PROVE BridgeInv'
  OBVIOUS
<1> USE DEF mqttVars, eventVars, latchVars, DropLatch
<1>0. /\ LifeCycle' /\ OwnTypes /\ (mqttConnected <=> mqtt = "open")
      /\ lifecycle \in LifecycleState /\ "stopping" \in LifecycleState
      /\ mqtt # "none" => start # "none"
      /\ start # "none" => start' # "none"
  BY BridgeStepsPool, StartedForGood DEF PoolInv, BridgeInv, OwnTypes, SessionOpens, LifecycleState
<1>1. CASE BridgeStart
  <2>1. /\ mqtt = "none" /\ start' # "none" /\ healthy' = healthy
        /\ mqtt' = "connecting"
        /\ UNCHANGED <<mqttConnected, willDue, eventVars, readyVars, latchVars, exited>>
    BY <1>0, <1>1 DEF BridgeStart, Start
  <2>2. QED
    BY <1>0, <2>1, SilentStep DEF OwnTypes
<1>2. CASE PoolStarted
  BY <1>0, <1>2, UpdateStep DEF PoolStarted, OwnTypes
<1>3. CASE PoolChecked
  <2>1. healthy' \subseteq healthy
    BY <1>3 DEF PoolChecked, HealthCheck
  <2>2. CASE healthy' = {}
    BY <1>0, <1>3, <2>2, UpdateStep DEF PoolChecked, OwnTypes
  <2>3. CASE healthy' # {}
    BY <1>0, <1>3, <2>1, <2>3, SilentStep DEF PoolChecked, OwnTypes
  <2>4. QED
    BY <2>2, <2>3
<1>4. CASE PoolStep
  <2>1. healthy' \subseteq healthy
    BY <1>4 DEF PoolStep, StartTimeouts, ReconnectTimer, SocketError, SocketDestroyed,
                ConnectTimeout, RecheckUnhealthy, LateClose, ServerChanges, obj
  <2>2. QED
    BY <1>0, <1>4, <2>1, SilentStep DEF PoolStep, bridgeVars, OwnTypes
<1>5. ASSUME NEW c \in Conn, ConnectionAdded(c) PROVE BridgeInv'
  BY <1>0, <1>5, CheckStep DEF ConnectionAdded, OwnTypes
<1>6. ASSUME NEW c \in Conn, ConnectionLost(c) PROVE BridgeInv'
  BY <1>0, <1>6, UpdateStep DEF ConnectionLost, OwnTypes
<1>7. CASE EventConnected
  BY <1>0, <1>7, CheckStep DEF EventConnected, OwnTypes
<1>8. CASE EventError \/ EventClosed
  <2>1. CASE EventError
    BY <1>0, <2>1, UpdateStep DEF EventError, OwnTypes
  <2>2. CASE EventClosed
    BY <1>0, <2>2, UpdateStep DEF EventClosed, OwnTypes
  <2>3. QED
    BY <1>8, <2>1, <2>2
<1>9. CASE EventDestroyed \/ EventReconnect
  <2>1. healthy' \subseteq healthy
    BY <1>9 DEF EventDestroyed, EventReconnect, poolVars, obj
  <2>2. CASE EventDestroyed
    BY <1>0, <2>1, <2>2, SilentStep DEF EventDestroyed, OwnTypes
  <2>3. CASE EventReconnect
    BY <1>0, <2>1, <2>3, SilentStep DEF EventReconnect, OwnTypes
  <2>4. QED
    BY <1>9, <2>2, <2>3
<1>10. CASE MqttConnect
  BY <1>0, <1>10, MqttConnectInv
<1>11. CASE MqttError
  <2>1. healthy' \subseteq healthy
    BY <1>11 DEF MqttError, poolVars, obj
  <2>2. QED
    BY <1>0, <1>11, <2>1, SilentStep DEF MqttError, OwnTypes
<1>12. CASE MqttClose
  BY <1>0, <1>12, UpdateStep DEF MqttClose, OwnTypes
<1>13. CASE BrokerWill \/ BrokerForgets
  BY <1>13, BrokerInv
<1>14. CASE DebounceExpires
  <2>1. healthy' \subseteq healthy
    BY <1>14 DEF DebounceExpires, poolVars, obj
  <2>2. QED
    BY <1>0, <1>14, <2>1, SilentStep DEF DebounceExpires, OwnTypes
<1>15. CASE Shutdown
  BY <1>0, <1>15, UpdateStep DEF Shutdown, OwnTypes
<1>16. CASE UNCHANGED allVars
  BY <1>16 DEF allVars, poolVars, ctl, obj, bridgeVars, readyVars, BridgeInv, OwnTypes, LatchRemembers,
               SessionOpens, StatusCurrent, FirstUpNoticed, Up
<1>17. QED
  BY <1>1, <1>2, <1>3, <1>4, <1>5, <1>6, <1>7, <1>8, <1>9, <1>10, <1>11, <1>12, <1>13, <1>14,
     <1>15, <1>16 DEF BridgeNext

\* So both always hold.
LEMMA BridgeInvariant == BridgeSpec => [](PoolInv /\ BridgeInv)
<1>1. BridgeSpec => []PoolInv
  BY BridgeDrivesPool, PoolInvariant, PTL
<1>2. QED
  BY <1>1, BridgeInitInv, BridgeNextInv, PTL DEF BridgeSpec

-----------------------------------------------------------------------------
(* Theorems *)

\* The bridge notices the first time its three connections are all up, in whatever
\* order they came up and however often they failed before
\* (connectionManager.js:121-139, bridgeInitializationService.js:82-100).
THEOREM BridgeNoticesFirstUp == BridgeSpec => []FirstUpNoticed
<1>1. BridgeInv => FirstUpNoticed
  BY DEF BridgeInv
<1>2. QED
  BY <1>1, BridgeInvariant, PTL

\* While the session is open the broker's copy of the status says Online exactly when
\* the bridge means it, past the repeat filter, late wills and a broker that forgets
\* (mqttManager.js:294-346, 365-377, 468-488).
THEOREM BridgeStatusAgrees == BridgeSpec => []StatusAgrees
<1>1. BridgeInv => StatusAgrees
  BY DEF BridgeInv, OwnTypes, StatusCurrent, StatusAgrees, Exact, Payload
<1>2. QED
  BY <1>1, BridgeInvariant, PTL

\* What the bridge and the broker say agrees with the connections, for a pool of any
\* size (connectionManager.js:121-139, mqttManager.js:294-377, 468-488).
THEOREM BridgeStatusTold == BridgeSpec => []StatusTold
<1>1. PoolInv /\ BridgeInv => BridgeTypeOK
  BY DEF PoolInv, BridgeInv, OwnTypes, BridgeTypeOK, StatusTopic, LifecycleState
<1>2. QED
  BY <1>1, BridgeInvariant, BridgeNoticesFirstUp, BridgeStatusAgrees, PTL DEF StatusTold

-----------------------------------------------------------------------------
(* Lines of C-Gate: the tokens of lines, and lines out of tokens *)

\* The tokens of C-Gate's lines, all tokens, and the lines that can be handled.
LineToken == (UNION {{l[i] : i \in DOMAIN l} : l \in LineSet}) \ {Mark}
Token     == LineToken \cup {Mark}
Whole     == {l \in Seq(LineToken) : l # <<>>}

\* The tokens of lines are built up line by line.
LEMMA WireSteps ==
  ASSUME NEW ls \in Seq(Seq(Token))
  PROVE  \E w \in [0..Len(ls) -> Seq(Token)] :
           /\ w[0] = <<>>
           /\ \A n \in 1..Len(ls) : w[n] = w[n - 1] \o Append(ls[n], Mark)
           /\ Wire(ls) = w[Len(ls)]
<1>1. PICK N \in Nat : N = Len(ls)
  OBVIOUS
<1> DEFINE S == Seq(Token)
           a == <<>>
           g == [n \in 1..N |-> [x \in S |-> x \o Append(ls[n], Mark)]]
           Made(F, f) == F = [n \in 0..N |-> IF n = 0 THEN <<>> ELSE f[n - 1] \o Append(ls[n], Mark)]
<1>2. \A n \in 1..N : \A x \in S : ls[n] \in S /\ x \o Append(ls[n], Mark) \in S
  BY <1>1 DEF Token
<1> HIDE DEF S
<1>3. a \in S /\ g \in [1..N -> [S -> S]] /\ \A n \in 1..N : \A x \in S : g[n][x] = x \o Append(ls[n], Mark)
  <2>1. a \in S
    BY DEF S
  <2>2. QED
    BY <1>2, <2>1
<1> HIDE DEF g
<1>4. PICK h : Recurs(h, N, S, a, g)
  <2> HIDE DEF a
  <2>1. QED
    BY <1>3, Recursion
<1>5. h \in [0..N -> S] /\ h[0] = <<>> /\ \A n \in 1..N : h[n] = h[n - 1] \o Append(ls[n], Mark)
  <2>1. h \in [0..N -> S] /\ h[0] = a /\ \A n \in 1..N : h[n] = g[n][h[n - 1]]
    BY <1>4 DEF Recurs
  <2>2. ASSUME NEW n \in 1..N PROVE h[n] = h[n - 1] \o Append(ls[n], Mark)
    <3>1. n - 1 \in 0..N
      OBVIOUS
    <3>2. h[n - 1] \in S
      BY <2>1, <3>1
    <3>3. QED
      BY <1>3, <2>1, <3>2
  <2>3. QED
    BY <2>1, <2>2
<1>6. Made(h, h)
  <2>1. h = [n \in 0..N |-> h[n]]
    BY <1>5
  <2>2. \A n \in 0..N : h[n] = IF n = 0 THEN <<>> ELSE h[n - 1] \o Append(ls[n], Mark)
    BY <1>5
  <2>3. QED
    BY <2>1, <2>2
<1>7. ASSUME NEW F, NEW f, Made(F, f)
      PROVE  /\ (\A n \in 0..N : F[n] \in S) => F \in [0..N -> S]
             /\ F[0] = <<>>
             /\ \A n \in 1..N : F[n] = f[n - 1] \o Append(ls[n], Mark)
  <2>1. (\A n \in 0..N : F[n] \in S) => F \in [0..N -> S]
    <3>1. \A n \in 0..N : F[n] = IF n = 0 THEN <<>> ELSE f[n - 1] \o Append(ls[n], Mark)
      BY <1>7
    <3>2. QED
      BY <1>7, <3>1
  <2>2. F[0] = <<>>
    <3>1. 0 \in 0..N
      OBVIOUS
    <3>2. QED
      BY <1>7, <3>1
  <2>3. ASSUME NEW n \in 1..N PROVE F[n] = f[n - 1] \o Append(ls[n], Mark)
    <3>1. n \in 0..N /\ n # 0
      OBVIOUS
    <3>2. QED
      BY <1>7, <3>1
  <2>4. QED
    BY <2>1, <2>2, <2>3
<1>8. Wire(ls) = (CHOOSE f : Made(f, f))[N]
  BY <1>1 DEF Wire
<1> HIDE DEF Made
<1>9. PICK w : Made(w, w) /\ Wire(ls) = w[N]
  BY <1>1, <1>6, <1>8
<1>10. /\ (\A n \in 0..N : w[n] \in S) => w \in [0..N -> S]
       /\ w[0] = <<>>
       /\ \A n \in 1..N : w[n] = w[n - 1] \o Append(ls[n], Mark)
  BY <1>7, <1>9
<1>11. \A n \in 0..N : w[n] \in S
  <2> DEFINE P == {n \in 0..N : w[n] \in S}
  <2>1. 0 \in P
    BY <1>3, <1>10
  <2>2. ASSUME NEW n \in 1..N, n - 1 \in P PROVE n \in P
    <3>1. w[n - 1] \in S
      BY <2>2
    <3>2. w[n - 1] \o Append(ls[n], Mark) \in S
      BY <1>2, <3>1
    <3>3. n \in 0..N
      OBVIOUS
    <3>4. QED
      BY <1>10, <3>2, <3>3
  <2> HIDE DEF P
  <2>3. \A n \in 0..N : n \in P
    BY <2>1, <2>2, Induct
  <2>4. QED
    BY <2>3 DEF P
<1>12. w \in [0..N -> S]
  BY <1>10, <1>11
<1>13. QED
  BY <1>1, <1>9, <1>10, <1>12 DEF S

\* No lines are no tokens, and one more line adds its own and a delimiter.
LEMMA WireAppend ==
  /\ Wire(<<>>) = <<>>
  /\ \A ls \in Seq(Seq(Token)) : \A l \in Seq(Token) :
       Wire(ls) \in Seq(Token) /\ Wire(Append(ls, l)) = Wire(ls) \o Append(l, Mark)
<1>1. Wire(<<>>) = <<>>
  <2>1. <<>> \in Seq(Seq(Token)) /\ Len(<<>>) = 0
    OBVIOUS
  <2>2. QED
    BY <2>1, WireSteps
<1>2. ASSUME NEW ls \in Seq(Seq(Token)), NEW l \in Seq(Token)
      PROVE  Wire(ls) \in Seq(Token) /\ Wire(Append(ls, l)) = Wire(ls) \o Append(l, Mark)
  <2> DEFINE S == Seq(Token)
  <2>1. PICK N \in Nat : N = Len(ls)
    OBVIOUS
  <2>2. /\ Append(ls, l) \in Seq(S) /\ Len(Append(ls, l)) = N + 1
        /\ Append(ls, l)[N + 1] = l /\ \A n \in 1..N : Append(ls, l)[n] = ls[n]
    BY <2>1
  <2>3. PICK w \in [0..N -> S] :
          /\ w[0] = <<>>
          /\ \A n \in 1..N : w[n] = w[n - 1] \o Append(ls[n], Mark)
          /\ Wire(ls) = w[N]
    BY <2>1, WireSteps
  <2>4. PICK v \in [0..(N + 1) -> S] :
          /\ v[0] = <<>>
          /\ \A n \in 1..(N + 1) : v[n] = v[n - 1] \o Append(Append(ls, l)[n], Mark)
          /\ Wire(Append(ls, l)) = v[N + 1]
    BY <2>2, WireSteps
  <2> DEFINE P == {n \in 0..N : v[n] = w[n]}
  <2>5. 0 \in P
    BY <2>3, <2>4
  <2>6. ASSUME NEW n \in 1..N, n - 1 \in P PROVE n \in P
    <3>1. n \in 0..N /\ n \in 1..(N + 1) /\ v[n - 1] = w[n - 1]
      BY <2>6
    <3>2. v[n] = v[n - 1] \o Append(ls[n], Mark) /\ w[n] = w[n - 1] \o Append(ls[n], Mark)
      BY <2>2, <2>3, <2>4, <3>1
    <3>3. QED
      BY <3>1, <3>2
  <2>7. \A n \in 0..N : n \in P
    <3> HIDE DEF P
    <3>1. QED
      BY <2>5, <2>6, Induct
  <2>8. N \in 0..N /\ N + 1 \in 1..(N + 1) /\ (N + 1) - 1 = N
    OBVIOUS
  <2>9. v[N] = w[N]
    BY <2>7, <2>8
  <2>10. v[N + 1] = v[N] \o Append(l, Mark)
    BY <2>2, <2>4, <2>8
  <2>11. QED
    BY <2>3, <2>4, <2>8, <2>9, <2>10
<1>3. QED
  BY <1>1, <1>2

\* What one more token does to the lines and the rest so far.
WithToken(s, c) == IF c = Mark THEN Ended(s) ELSE [lines |-> s.lines, rest |-> Append(s.rest, c)]

Partial == [lines : Seq(Whole), rest : Seq(LineToken)]

\* One more token keeps lines that can be handled and a rest without a delimiter.
LEMMA WithTokenType ==
  ASSUME NEW s \in Partial, NEW c \in Token
  PROVE  WithToken(s, c) \in Partial
<1>1. s.lines \in Seq(Whole) /\ s.rest \in Seq(LineToken)
  BY DEF Partial
<1>2. CASE c = Mark
  <2>1. <<>> \in Seq(LineToken)
    OBVIOUS
  <2>2. s.rest # <<>> => Append(s.lines, s.rest) \in Seq(Whole)
    BY <1>1 DEF Whole
  <2>3. QED
    BY <1>1, <1>2, <2>1, <2>2 DEF WithToken, Ended, Partial
<1>3. CASE c # Mark
  <2>1. Append(s.rest, c) \in Seq(LineToken)
    BY <1>1, <1>3 DEF Token
  <2>2. QED
    BY <1>1, <1>3, <2>1 DEF WithToken, Partial
<1>4. QED
  BY <1>2, <1>3

\* Tokens are split one by one.
LEMMA SplitSteps ==
  ASSUME NEW b \in Seq(Token)
  PROVE  \E w \in [0..Len(b) -> Partial] :
           /\ w[0] = [lines |-> <<>>, rest |-> <<>>]
           /\ \A n \in 1..Len(b) : w[n] = WithToken(w[n - 1], b[n])
           /\ Split(b) = w[Len(b)]
<1>1. PICK N \in Nat : N = Len(b)
  OBVIOUS
<1> DEFINE S == Partial
           a == [lines |-> <<>>, rest |-> <<>>]
           Step(x, n) == WithToken(x, b[n])
           g == [n \in 1..N |-> [x \in S |-> Step(x, n)]]
           Made(F, f) == F = [n \in 0..N |-> IF n = 0 THEN a ELSE Step(f[n - 1], n)]
<1>2. a \in S /\ \A n \in 1..N : \A x \in S : Step(x, n) \in S
  <2>1. <<>> \in Seq(Whole) /\ <<>> \in Seq(LineToken)
    OBVIOUS
  <2>2. \A n \in 1..N : b[n] \in Token
    BY <1>1
  <2>3. a \in S
    BY <2>1 DEF Partial
  <2>4. QED
    BY <2>2, <2>3, WithTokenType
<1>3. Split(b) = (CHOOSE f : Made(f, f))[N]
  BY <1>1 DEF Split, WithToken
<1> HIDE DEF Step, S, a
<1>4. g \in [1..N -> [S -> S]] /\ \A n \in 1..N : \A x \in S : g[n][x] = Step(x, n)
  BY <1>2
<1> HIDE DEF g
<1>5. PICK h : Recurs(h, N, S, a, g)
  BY <1>2, <1>4, Recursion
<1>6. h \in [0..N -> S] /\ h[0] = a /\ \A n \in 1..N : h[n] = Step(h[n - 1], n)
  <2>1. h \in [0..N -> S] /\ h[0] = a /\ \A n \in 1..N : h[n] = g[n][h[n - 1]]
    BY <1>5 DEF Recurs
  <2>2. ASSUME NEW n \in 1..N PROVE h[n] = Step(h[n - 1], n)
    <3>1. n - 1 \in 0..N
      OBVIOUS
    <3>2. h[n - 1] \in S
      BY <2>1, <3>1
    <3>3. QED
      BY <1>4, <2>1, <3>2
  <2>3. QED
    BY <2>1, <2>2
<1>7. Made(h, h)
  <2>1. h = [n \in 0..N |-> h[n]]
    BY <1>6
  <2>2. \A n \in 0..N : h[n] = IF n = 0 THEN a ELSE Step(h[n - 1], n)
    BY <1>6
  <2>3. QED
    BY <2>1, <2>2
<1>8. ASSUME NEW F, NEW f, Made(F, f)
      PROVE  /\ (\A n \in 0..N : F[n] \in S) => F \in [0..N -> S]
             /\ F[0] = a
             /\ \A n \in 1..N : F[n] = Step(f[n - 1], n)
  <2>1. \A n \in 0..N : F[n] = IF n = 0 THEN a ELSE Step(f[n - 1], n)
    BY <1>8
  <2>2. (\A n \in 0..N : F[n] \in S) => F \in [0..N -> S]
    BY <1>8, <2>1
  <2>3. 0 \in 0..N /\ \A n \in 1..N : n \in 0..N /\ n # 0
    OBVIOUS
  <2>4. QED
    BY <2>1, <2>2, <2>3
<1> HIDE DEF Made
<1>9. PICK w : Made(w, w) /\ Split(b) = w[N]
  BY <1>3, <1>7
<1>10. /\ (\A n \in 0..N : w[n] \in S) => w \in [0..N -> S]
       /\ w[0] = a
       /\ \A n \in 1..N : w[n] = Step(w[n - 1], n)
  BY <1>8, <1>9
<1>11. \A n \in 0..N : w[n] \in S
  <2> DEFINE P == {n \in 0..N : w[n] \in S}
  <2>1. 0 \in P /\ \A n \in 1..N : n - 1 \in P => n \in P
    BY <1>2, <1>10
  <2> HIDE DEF P
  <2>2. \A n \in 0..N : n \in P
    BY <2>1, Induct
  <2>3. QED
    BY <2>2 DEF P
<1>12. QED
  BY <1>1, <1>9, <1>10, <1>11 DEF S, a, Step

\* An element after a concatenation; one that a prefix grows by.
LEMMA AppendConcat ==
  ASSUME NEW A, NEW s \in Seq(A), NEW t \in Seq(A), NEW e \in A
  PROVE  s \o Append(t, e) = Append(s \o t, e)
<1>1. /\ s \o Append(t, e) \in Seq(A) /\ Len(s \o Append(t, e)) = Len(s) + Len(t) + 1
      /\ Append(s \o t, e) \in Seq(A) /\ Len(Append(s \o t, e)) = Len(s) + Len(t) + 1
  OBVIOUS
<1>2. ASSUME NEW i \in 1..(Len(s) + Len(t) + 1) PROVE (s \o Append(t, e))[i] = Append(s \o t, e)[i]
  <2>1. Len(s) \in Nat /\ Len(t) \in Nat
    OBVIOUS
  <2>2. CASE i <= Len(s)
    BY <2>1, <2>2
  <2>3. CASE i > Len(s) /\ i <= Len(s) + Len(t)
    BY <2>1, <2>3
  <2>4. CASE i = Len(s) + Len(t) + 1
    BY <2>1, <2>4
  <2>5. QED
    BY <2>1, <2>2, <2>3, <2>4
<1>3. QED
  BY <1>1, <1>2

\* The prefixes of a sequence.
LEMMA PrefixGrows ==
  ASSUME NEW A, NEW b \in Seq(A)
  PROVE  /\ SubSeq(b, 1, 0) = <<>> /\ SubSeq(b, 1, Len(b)) = b
         /\ \A n \in 1..Len(b) : SubSeq(b, 1, n - 1) \in Seq(A) /\ SubSeq(b, 1, n) = Append(SubSeq(b, 1, n - 1), b[n])
<1>1. SubSeq(b, 1, 0) = <<>> /\ SubSeq(b, 1, Len(b)) = b
  OBVIOUS
<1>2. ASSUME NEW n \in 1..Len(b)
      PROVE  SubSeq(b, 1, n - 1) \in Seq(A) /\ SubSeq(b, 1, n) = Append(SubSeq(b, 1, n - 1), b[n])
  <2> DEFINE p == SubSeq(b, 1, n - 1)
             q == SubSeq(b, 1, n)
  <2>1. p \in Seq(A) /\ Len(p) = n - 1 /\ \A i \in 1..(n - 1) : p[i] = b[i]
    OBVIOUS
  <2>2. q \in Seq(A) /\ Len(q) = n /\ \A i \in 1..n : q[i] = b[i]
    OBVIOUS
  <2> HIDE DEF p, q
  <2>3. b[n] \in A
    OBVIOUS
  <2>4. q = Append(p, b[n])
    BY <2>1, <2>2, <2>3
  <2>5. QED
    BY <2>1, <2>4 DEF p, q
<1>3. QED
  BY <1>1, <1>2

\* No line in b is empty.
NoEmptyLine(b) == \A i \in 1..Len(b) : b[i] = Mark => i > 1 /\ b[i - 1] # Mark

\* Lines that can be handled are made of tokens.
LEMMA WholeTokens ==
  /\ Mark \in Token
  /\ \A l \in Seq(LineToken) : l \in Seq(Token)
  /\ \A ls \in Seq(Whole) : ls \in Seq(Seq(Token))
BY DEF Token, Whole

\* Tokens are put together in any order, and one more is more than none.
LEMMA TokensJoin ==
  /\ \A s, t, u \in Seq(Token) : (s \o t) \o u = s \o (t \o u)
  /\ \A s \in Seq(Token), c \in Token : Append(s, c) # <<>>
<1>1. ASSUME NEW s \in Seq(Token), NEW t \in Seq(Token), NEW u \in Seq(Token)
      PROVE  (s \o t) \o u = s \o (t \o u)
  BY ConcatAssociative
<1>2. ASSUME NEW s \in Seq(Token), NEW c \in Token PROVE Append(s, c) # <<>>
  BY AppendProperties
<1>3. QED
  BY <1>1, <1>2

\* The tokens of one more line.
LEMMA WireOneMore ==
  ASSUME NEW h \in Seq(Whole), NEW l \in Whole
  PROVE  Wire(h) \in Seq(Token) /\ Wire(Append(h, l)) = Append(Wire(h) \o l, Mark)
<1>1. h \in Seq(Seq(Token)) /\ l \in Seq(Token) /\ Mark \in Token
  BY WholeTokens DEF Whole
<1>2. Wire(h) \in Seq(Token) /\ Wire(Append(h, l)) = Wire(h) \o Append(l, Mark)
  BY <1>1, WireAppend
<1>3. QED
  BY <1>1, <1>2, AppendConcat

\* What is split so far, after the lines h, makes up the tokens p after them.
MakesUp(h, s, p) == Wire(h \o s.lines) \o s.rest = Wire(h) \o p

\* One more token of what is split.
LEMMA SplitStep ==
  ASSUME NEW h \in Seq(Whole), NEW s \in Partial, NEW p \in Seq(Token), NEW c \in Token,
         MakesUp(h, s, p), c = Mark => s.rest # <<>>
  PROVE  MakesUp(h, WithToken(s, c), Append(p, c))
<1>0. PICK x \in Seq(Whole), r \in Seq(LineToken) : s = [lines |-> x, rest |-> r]
  BY DEF Partial
<1>1. PICK t : t = WithToken(s, c)
  OBVIOUS
<1>2. h \o x \in Seq(Whole)
  OBVIOUS
<1>3. r \in Seq(Token)
  BY WholeTokens
<1>4. PICK y \in Seq(Token), v \in Seq(Token) : y = Wire(h \o x) /\ v = Wire(h)
  <2>1. \A g \in Seq(Whole) : Wire(g) \in Seq(Token)
    BY WholeTokens, WireAppend
  <2>2. QED
    BY <1>2, <2>1
<1>5. y \o r = v \o p
  BY <1>0, <1>4 DEF MakesUp
<1>6. v \o Append(p, c) = Append(y \o r, c)
  BY <1>5, AppendConcat
<1>7. CASE c = Mark
  <2>1. t.lines = Append(x, r) /\ t.rest = <<>> /\ r \in Whole
    BY <1>0, <1>1, <1>7 DEF WithToken, Ended, Whole
  <2>2. h \o Append(x, r) = Append(h \o x, r)
    BY <2>1, AppendConcat
  <2>3. Wire(h \o t.lines) = Append(y \o r, Mark)
    BY <1>2, <1>4, <2>1, <2>2, WireOneMore
  <2>4. Append(y \o r, Mark) \in Seq(Token)
    BY <1>3, WholeTokens
  <2>5. Append(y \o r, Mark) \o <<>> = Append(y \o r, Mark)
    BY <2>4, ConcatEmptySeq
  <2>6. Wire(h \o t.lines) \o t.rest = v \o Append(p, c)
    BY <1>6, <1>7, <2>1, <2>3, <2>5
  <2>7. QED
    BY <1>1, <1>4, <2>6, Zenon DEF MakesUp
<1>8. CASE c # Mark
  <2>1. t.lines = x /\ t.rest = Append(r, c)
    BY <1>0, <1>1, <1>8 DEF WithToken
  <2>2. y \o Append(r, c) = Append(y \o r, c)
    BY <1>3, AppendConcat
  <2>3. y \o t.rest = v \o Append(p, c)
    BY <1>6, <2>1, <2>2
  <2>4. Wire(h \o t.lines) \o t.rest = v \o Append(p, c)
    BY <1>4, <2>1, <2>3, Zenon
  <2>5. QED
    BY <1>1, <1>4, <2>4, Zenon DEF MakesUp
<1>9. QED
  BY <1>7, <1>8

\* What is split makes up what it was split from.
LEMMA SplitExact ==
  ASSUME NEW b \in Seq(Token), NEW h \in Seq(Whole)
  PROVE  /\ Split(b) \in Partial
         /\ Split(b).rest = <<>> => b = <<>> \/ b[Len(b)] = Mark
         /\ NoEmptyLine(b) => Wire(h \o Split(b).lines) \o Split(b).rest = Wire(h) \o b
<1>1. PICK N \in Nat : N = Len(b)
  OBVIOUS
<1>2. PICK w \in [0..N -> Partial] :
        /\ w[0] = [lines |-> <<>>, rest |-> <<>>]
        /\ \A n \in 1..N : w[n] = WithToken(w[n - 1], b[n])
        /\ Split(b) = w[N]
  BY <1>1, SplitSteps
<1> DEFINE U(n) == w[n].rest = <<>> => n = 0 \/ b[n] = Mark
           V(n) == MakesUp(h, w[n], SubSeq(b, 1, n))
           Q(n) == U(n) /\ (NoEmptyLine(b) => V(n))
           P == {n \in 0..N : Q(n)}
<1>5. Q(0)
  <2>1. SubSeq(b, 1, 0) = <<>>
    BY PrefixGrows
  <2>2. h \o <<>> = h /\ w[0].lines = <<>> /\ w[0].rest = <<>>
    BY <1>2
  <2>3. QED
    BY <2>1, <2>2 DEF MakesUp
<1>6. ASSUME NEW n \in 1..N, Q(n - 1) PROVE Q(n)
  <2> HIDE DEF U, V
  <2>1. b[n] \in Token /\ n - 1 \in 0..N /\ w[n] = WithToken(w[n - 1], b[n])
    BY <1>1, <1>2
  <2>2. SubSeq(b, 1, n - 1) \in Seq(Token) /\ SubSeq(b, 1, n) = Append(SubSeq(b, 1, n - 1), b[n])
    BY <1>1, PrefixGrows
  <2>3. PICK x \in Seq(Whole), r \in Seq(LineToken) : w[n - 1] = [lines |-> x, rest |-> r]
    <3>1. w[n - 1] \in Partial
      BY <1>2, <2>1
    <3>2. QED
      BY <3>1 DEF Partial
  <2>4. w[n - 1].lines = x /\ w[n - 1].rest = r
    BY <2>3
  <2>5. r = <<>> => n - 1 = 0 \/ b[n - 1] = Mark
    BY <1>6, <2>4 DEF U
  <2>6. U(n)
    <3>1. b[n] # Mark => w[n].rest = Append(r, b[n])
      BY <2>1, <2>4 DEF WithToken
    <3>2. r \in Seq(Token)
      BY WholeTokens
    <3>3. Append(r, b[n]) # <<>>
      BY <2>1, <3>2, TokensJoin
    <3>4. QED
      BY <3>1, <3>3 DEF U
  <2>7. ASSUME NoEmptyLine(b) PROVE V(n)
    <3>1. b[n] = Mark => r # <<>>
      BY <1>1, <2>5, <2>7 DEF NoEmptyLine
    <3>2. V(n - 1)
      BY <1>6, <2>7
    <3>3. MakesUp(h, w[n - 1], SubSeq(b, 1, n - 1))
      BY <3>2 DEF V
    <3>4. w[n - 1] \in Partial
      BY <1>2, <2>1
    <3>5. MakesUp(h, w[n], Append(SubSeq(b, 1, n - 1), b[n]))
      BY <2>1, <2>2, <2>4, <3>1, <3>3, <3>4, SplitStep
    <3>6. QED
      BY <2>2, <3>5 DEF V
  <2>8. QED
    BY <2>6, <2>7
<1>7. \A n \in 0..N : n \in P
  <2>1. 0 \in 0..N /\ \A n \in 1..N : n - 1 \in 0..N /\ n \in 0..N
    OBVIOUS
  <2>2. 0 \in P /\ \A n \in 1..N : n - 1 \in P => n \in P
    <3> HIDE DEF Q
    <3>1. QED
      BY <1>5, <1>6, <2>1
  <2> HIDE DEF P
  <2>3. QED
    BY <2>2, Induct
<1> HIDE DEF U, V
<1>8. U(N) /\ (NoEmptyLine(b) => V(N))
  BY <1>7
<1>9. SubSeq(b, 1, N) = b /\ (N = 0 => b = <<>>)
  BY <1>1
<1>10. Split(b) \in Partial
  BY <1>2
<1>11. Split(b).rest = <<>> => b = <<>> \/ b[Len(b)] = Mark
  BY <1>1, <1>2, <1>8, <1>9 DEF U
<1>12. NoEmptyLine(b) => Wire(h \o Split(b).lines) \o Split(b).rest = Wire(h) \o b
  <2>1. V(N) => Wire(h \o w[N].lines) \o w[N].rest = Wire(h) \o SubSeq(b, 1, N)
    BY Zenon DEF V, MakesUp
  <2>2. QED
    BY <1>2, <1>8, <1>9, <2>1, Zenon
<1>13. QED
  BY <1>10, <1>11, <1>12

\* Short sequences, joined.
LEMMA JoinOneOne ==
  ASSUME NEW a, NEW b
  PROVE  <<a>> \o <<b>> = <<a, b>>
<1>0. PICK S : a \in S /\ b \in S
  <2> DEFINE T == {a, b}
  <2>1. a \in T /\ b \in T
    OBVIOUS
  <2> HIDE DEF T
  <2>2. QED
    BY <2>1
<1>1. <<a>> \in Seq(S) /\ <<b>> \in Seq(S) /\ Len(<<a>>) = 1 /\ Len(<<b>>) = 1
  BY <1>0
<1>2. <<a>> \o <<b>> \in Seq(S) /\ Len(<<a>> \o <<b>>) = 2
  BY <1>1
<1>3. <<a, b>> \in Seq(S) /\ Len(<<a, b>>) = 2
  BY <1>0
<1>4. \A i \in 1..2 : (<<a>> \o <<b>>)[i] = <<a, b>>[i]
  BY <1>1
<1>5. QED
  BY <1>2, <1>3, <1>4, SeqEqual

\* Short sequences, joined.
LEMMA JoinOneTwo ==
  ASSUME NEW a, NEW b, NEW c
  PROVE  <<a>> \o <<b, c>> = <<a, b, c>>
<1>0. PICK S : a \in S /\ b \in S /\ c \in S
  <2> DEFINE T == {a, b, c}
  <2>1. a \in T /\ b \in T /\ c \in T
    OBVIOUS
  <2> HIDE DEF T
  <2>2. QED
    BY <2>1
<1>1. <<a>> \in Seq(S) /\ <<b, c>> \in Seq(S) /\ Len(<<a>>) = 1 /\ Len(<<b, c>>) = 2
  BY <1>0
<1>2. <<a>> \o <<b, c>> \in Seq(S) /\ Len(<<a>> \o <<b, c>>) = 3
  BY <1>1
<1>3. <<a, b, c>> \in Seq(S) /\ Len(<<a, b, c>>) = 3
  BY <1>0
<1>4. \A i \in 1..3 : (<<a>> \o <<b, c>>)[i] = <<a, b, c>>[i]
  BY <1>1
<1>5. QED
  BY <1>2, <1>3, <1>4, SeqEqual

\* Short sequences, joined.
LEMMA JoinOneThree ==
  ASSUME NEW a, NEW b, NEW c, NEW d
  PROVE  <<a>> \o <<b, c, d>> = <<a, b, c, d>>
<1>0. PICK S : a \in S /\ b \in S /\ c \in S /\ d \in S
  <2> DEFINE T == {a, b, c, d}
  <2>1. a \in T /\ b \in T /\ c \in T /\ d \in T
    OBVIOUS
  <2> HIDE DEF T
  <2>2. QED
    BY <2>1
<1>1. <<a>> \in Seq(S) /\ <<b, c, d>> \in Seq(S) /\ Len(<<a>>) = 1 /\ Len(<<b, c, d>>) = 3
  BY <1>0
<1>2. <<a>> \o <<b, c, d>> \in Seq(S) /\ Len(<<a>> \o <<b, c, d>>) = 4
  BY <1>1
<1>3. <<a, b, c, d>> \in Seq(S) /\ Len(<<a, b, c, d>>) = 4
  BY <1>0
<1>4. \A i \in 1..4 : (<<a>> \o <<b, c, d>>)[i] = <<a, b, c, d>>[i]
  BY <1>1
<1>5. QED
  BY <1>2, <1>3, <1>4, SeqEqual

\* Short sequences, joined.
LEMMA JoinTwoOne ==
  ASSUME NEW a, NEW b, NEW c
  PROVE  <<a, b>> \o <<c>> = <<a, b, c>>
<1>0. PICK S : a \in S /\ b \in S /\ c \in S
  <2> DEFINE T == {a, b, c}
  <2>1. a \in T /\ b \in T /\ c \in T
    OBVIOUS
  <2> HIDE DEF T
  <2>2. QED
    BY <2>1
<1>1. <<a, b>> \in Seq(S) /\ <<c>> \in Seq(S) /\ Len(<<a, b>>) = 2 /\ Len(<<c>>) = 1
  BY <1>0
<1>2. <<a, b>> \o <<c>> \in Seq(S) /\ Len(<<a, b>> \o <<c>>) = 3
  BY <1>1
<1>3. <<a, b, c>> \in Seq(S) /\ Len(<<a, b, c>>) = 3
  BY <1>0
<1>4. \A i \in 1..3 : (<<a, b>> \o <<c>>)[i] = <<a, b, c>>[i]
  BY <1>1
<1>5. QED
  BY <1>2, <1>3, <1>4, SeqEqual

\* What is called for a line, written out.
LEMMA CallsWhenReady ==
  ASSUME tree.ready
  PROVE  /\ SyncComplete = <<"discovery", "security", "resync">>
         /\ CommandCalls("level") = <<"publish", "discovery", "state">>
         /\ CommandCalls("lifecycle") = <<"discovery">>
         /\ CommandCalls("sync") = <<"discovery", "discovery", "security", "resync">>
         /\ EventCalls("level") = <<"publish", "state", "discovery">>
<1>1. \A c : WhenReady(c) = c
  BY DEF WhenReady
<1>2. SyncComplete = <<"discovery", "security", "resync">>
  <2>1. <<"discovery">> \o <<"security", "resync">> = <<"discovery", "security", "resync">>
    BY JoinOneTwo, Zenon
  <2>2. QED
    BY <1>1, <2>1 DEF SyncComplete
<1>3. CommandCalls("level") = <<"publish", "discovery", "state">>
  <2>1. <<"publish">> \o <<"discovery">> = <<"publish", "discovery">>
    BY JoinOneOne, Zenon
  <2>2. <<"publish", "discovery">> \o <<"state">> = <<"publish", "discovery", "state">>
    BY JoinTwoOne, Zenon
  <2>3. QED
    BY <1>1, <2>1, <2>2 DEF CommandCalls
<1>4. CommandCalls("sync") = <<"discovery", "discovery", "security", "resync">>
  <2>1. <<"discovery">> \o <<"discovery", "security", "resync">> = <<"discovery", "discovery", "security", "resync">>
    BY JoinOneThree, Zenon
  <2>2. QED
    BY <1>1, <1>2, <2>1 DEF CommandCalls
<1>5. CommandCalls("lifecycle") = <<"discovery">>
  BY <1>1 DEF CommandCalls
<1>6. EventCalls("level") = <<"publish", "state", "discovery">>
  <2>1. <<"publish", "state">> \o <<"discovery">> = <<"publish", "state", "discovery">>
    BY JoinTwoOne, Zenon
  <2>2. QED
    BY <1>1, <2>1 DEF EventCalls
<1>7. QED
  BY <1>2, <1>3, <1>4, <1>5, <1>6

\* Without discovery.
LEMMA CallsWithout ==
  ASSUME ~tree.ready
  PROVE  /\ SyncComplete = <<"security", "resync">>
         /\ CommandCalls("level") = <<"publish", "state">>
         /\ CommandCalls("lifecycle") = <<>>
         /\ CommandCalls("sync") = <<"security", "resync">>
         /\ EventCalls("level") = <<"publish", "state">>
<1>1. \A c : WhenReady(c) = <<>>
  BY DEF WhenReady
<1>2. SyncComplete = <<"security", "resync">>
  <2>1. <<"security", "resync">> \in Seq(Components)
    BY DEF Components
  <2>2. <<>> \o <<"security", "resync">> = <<"security", "resync">>
    BY <2>1, ConcatEmptySeq
  <2>3. QED
    BY <1>1, <2>2 DEF SyncComplete
<1>3. CommandCalls("level") = <<"publish", "state">>
  <2>1. <<"publish">> \in Seq(Components)
    BY DEF Components
  <2>2. <<"publish">> \o <<>> = <<"publish">>
    BY <2>1, ConcatEmptySeq
  <2>3. <<"publish">> \o <<"state">> = <<"publish", "state">>
    BY JoinOneOne, Zenon
  <2>4. QED
    BY <1>1, <2>2, <2>3 DEF CommandCalls
<1>4. CommandCalls("sync") = <<"security", "resync">>
  <2>1. <<"security", "resync">> \in Seq(Components)
    BY DEF Components
  <2>2. <<>> \o <<"security", "resync">> = <<"security", "resync">>
    BY <2>1, ConcatEmptySeq
  <2>3. QED
    BY <1>1, <1>2, <2>2 DEF CommandCalls
<1>5. CommandCalls("lifecycle") = <<>>
  BY <1>1 DEF CommandCalls
<1>6. EventCalls("level") = <<"publish", "state">>
  <2>1. <<"publish", "state">> \in Seq(Components)
    BY DEF Components
  <2>2. <<"publish", "state">> \o <<>> = <<"publish", "state">>
    BY <2>1, ConcatEmptySeq
  <2>3. QED
    BY <1>1, <2>2 DEF EventCalls
<1>7. QED
  BY <1>2, <1>3, <1>4, <1>5, <1>6

\* Which of the calls for a line of a kind are of c.
CallsOf(c, p, kind) == {n \in DOMAIN LineCalls(p, kind) : LineCalls(p, kind)[n] = c}

\* A synchronisation makes one call of the panel's refresh, and one of the resync;
\* no other line makes one.
LEMMA OneCall ==
  ASSUME NEW c \in {"security", "resync"}, NEW p
  PROVE  \E pos : \A kind : CallsOf(c, p, kind) = IF kind = "sync" THEN {pos} ELSE {}
<1> DEFINE Hits(s) == {n \in DOMAIN s : s[n] = c}
           Others == {<<"publish", "discovery", "state">>, <<"publish", "state", "discovery">>, <<"publish", "state">>,
                      <<"interface">>, <<"discovery">>, <<"error">>, <<"handler">>, <<>>}
           Syncs == {<<"security", "resync">>, <<"discovery", "security", "resync">>,
                     <<"discovery", "discovery", "security", "resync">>}
<1>1. /\ CommandCalls("level") \in Others /\ EventCalls("level") \in Others /\ CommandCalls("lifecycle") \in Others
      /\ CommandCalls("sync") \in Syncs /\ SyncComplete \in Syncs
  BY CallsWhenReady, CallsWithout
<1>2. ASSUME NEW kind, kind # "sync" PROVE LineCalls(p, kind) \in Others
  <2>1. CASE kind \in {"level", "lifecycle"}
    <3>1. kind = "lifecycle" => EventCalls(kind) = <<>>
      BY DEF EventCalls
    <3>2. QED
      BY <1>1, <2>1, <3>1 DEF LineCalls
  <2>2. CASE kind \notin {"level", "lifecycle"}
    BY <1>2, <2>2 DEF LineCalls, CommandCalls, EventCalls
  <2>3. QED
    BY <2>1, <2>2
<1>3. LineCalls(p, "sync") \in Syncs
  <2>1. EventCalls("sync") = SyncComplete
    BY DEF EventCalls
  <2>2. QED
    BY <1>1, <2>1 DEF LineCalls
<1>4. \A s \in Others : Hits(s) = {}
  OBVIOUS
<1>5. \A s \in Syncs : \E pos : Hits(s) = {pos}
  <2>1. Hits(<<"security", "resync">>) = IF c = "security" THEN {1} ELSE {2}
    OBVIOUS
  <2>2. Hits(<<"discovery", "security", "resync">>) = IF c = "security" THEN {2} ELSE {3}
    OBVIOUS
  <2>3. Hits(<<"discovery", "discovery", "security", "resync">>) = IF c = "security" THEN {3} ELSE {4}
    OBVIOUS
  <2> HIDE DEF Hits
  <2>4. QED
    BY <2>1, <2>2, <2>3
<1> HIDE DEF Others, Syncs
<1>6. PICK pos : Hits(LineCalls(p, "sync")) = {pos}
  BY <1>3, <1>5
<1>7. ASSUME NEW kind
      PROVE  Hits(LineCalls(p, kind)) = IF kind = "sync" THEN {pos} ELSE {}
  BY <1>2, <1>4, <1>6
<1>8. QED
  BY <1>7 DEF CallsOf

\* The lines of a synchronisation among some lines.
SyncLines(ls) == {i \in DOMAIN ls : Head(ls[i]) = "sync"}

\* Lines make as many calls of the refresh, and of the resync, as they tell synchronisations.
LEMMA CallsCounted ==
  ASSUME NEW c \in {"security", "resync"}, NEW p, NEW ls \in Seq(Whole)
  PROVE  /\ IsFiniteSet(SyncLines(ls)) /\ Cardinality(SyncLines(ls)) \in Nat
         /\ Cardinality(CallsTo(c, p, ls)) = Cardinality(SyncLines(ls))
<1>1. PICK pos : \A kind : CallsOf(c, p, kind) = IF kind = "sync" THEN {pos} ELSE {}
  BY OneCall
<1>2. IsFiniteSet(SyncLines(ls))
  <2>1. IsFiniteSet(1..Len(ls)) /\ SyncLines(ls) \in SUBSET (1..Len(ls))
    BY FS_Interval DEF SyncLines
  <2>2. QED
    BY <2>1, FS_Subset
<1>3. CallsTo(c, p, ls) = {<<i, pos>> : i \in SyncLines(ls)}
  <2>1. CallsTo(c, p, ls) = UNION {{<<i, j>> : j \in CallsOf(c, p, Head(ls[i]))} : i \in DOMAIN ls}
    BY DEF CallsTo, CallsOf
  <2>2. QED
    BY <1>1, <2>1 DEF SyncLines
<1> DEFINE f == [i \in SyncLines(ls) |-> <<i, pos>>]
<1>4. f \in Bijection(SyncLines(ls), CallsTo(c, p, ls))
  <2>1. f \in [SyncLines(ls) -> CallsTo(c, p, ls)]
    BY <1>3
  <2>2. \A i, j \in SyncLines(ls) : f[i] = f[j] => i = j
    OBVIOUS
  <2>3. \A x \in CallsTo(c, p, ls) : \E i \in SyncLines(ls) : f[i] = x
    BY <1>3
  <2> HIDE DEF f
  <2>4. QED
    BY <2>1, <2>2, <2>3 DEF Bijection, Injection, Surjection, IsInjective
<1> HIDE DEF f
<1>5. ExistsBijection(SyncLines(ls), CallsTo(c, p, ls))
  BY <1>4 DEF ExistsBijection
<1> DEFINE A == SyncLines(ls)
           C == CallsTo(c, p, ls)
<1>6. Cardinality(C) = Cardinality(A) /\ Cardinality(A) \in Nat
  <2>1. IsFiniteSet(A) /\ ExistsBijection(A, C)
    BY <1>2, <1>5
  <2> HIDE DEF A, C
  <2>2. QED
    BY <2>1, FS_Bijection, FS_CardinalityType
<1>7. QED
  BY <1>2, <1>6

\* The synchronisations of the history, when lines are added to it.
LEMMA HandledAfter ==
  ASSUME NEW p \in Ports, NEW ls \in Seq(Whole), handled \in [Ports -> Seq(Whole)],
         handled' = [handled EXCEPT ![p] = @ \o ls], IsFiniteSet(HandledOf("sync"))
  PROVE  /\ IsFiniteSet(HandledOf("sync")')
         /\ Cardinality(HandledOf("sync")') = Cardinality(HandledOf("sync")) + Cardinality(SyncLines(ls))
<1> DEFINE N == Len(handled[p])
           M == Len(ls)
           Had == HandledOf("sync")
           Added == {<<p, N + i>> : i \in SyncLines(ls)}
<1>1. handled[p] \in Seq(Whole) /\ N \in Nat /\ M \in Nat /\ DOMAIN ls = 1..M
  OBVIOUS
<1>2. /\ handled'[p] = handled[p] \o ls /\ \A q \in Ports : q # p => handled'[q] = handled[q]
      /\ DOMAIN (handled'[p]) = 1..(N + M)
      /\ \A i \in 1..N : handled'[p][i] = handled[p][i]
      /\ \A i \in 1..M : handled'[p][N + i] = ls[i]
  BY <1>1
<1>3. \A x : x \in Had <=> \E q \in Ports : \E i \in DOMAIN (handled[q]) : Head(handled[q][i]) = "sync" /\ x = <<q, i>>
  BY DEF HandledOf
<1>4. \A x : x \in HandledOf("sync")' <=>
             \E q \in Ports : \E i \in DOMAIN (handled'[q]) : Head(handled'[q][i]) = "sync" /\ x = <<q, i>>
  BY DEF HandledOf
<1> HIDE DEF Had
<1>5. HandledOf("sync")' = Had \cup Added
  <2>1. ASSUME NEW x \in HandledOf("sync")' PROVE x \in Had \cup Added
    <3>0. PICK q \in Ports : \E i \in DOMAIN (handled'[q]) : Head(handled'[q][i]) = "sync" /\ x = <<q, i>>
      BY <1>4
    <3>1. PICK i \in DOMAIN (handled'[q]) : Head(handled'[q][i]) = "sync" /\ x = <<q, i>>
      BY <3>0
    <3>2. CASE q # p
      BY <1>2, <1>3, <3>1, <3>2
    <3>3. CASE q = p /\ i \in 1..N
      <4>1. i \in DOMAIN (handled[p]) /\ Head(handled[p][i]) = "sync"
        BY <1>1, <1>2, <3>1, <3>3
      <4>2. QED
        BY <1>3, <3>1, <3>3, <4>1
    <3>4. CASE q = p /\ i \notin 1..N
      <4>1. i \in 1..(N + M)
        BY <1>2, <3>1, <3>4
      <4>2. i - N \in 1..M /\ N + (i - N) = i
        BY <1>1, <3>4, <4>1
      <4>3. i - N \in SyncLines(ls)
        BY <1>1, <1>2, <3>1, <3>4, <4>2 DEF SyncLines
      <4>4. QED
        BY <3>1, <3>4, <4>2, <4>3
    <3>5. QED
      BY <3>2, <3>3, <3>4
  <2>2. ASSUME NEW x \in Had PROVE x \in HandledOf("sync")'
    <3>0. PICK q \in Ports : \E i \in DOMAIN (handled[q]) : Head(handled[q][i]) = "sync" /\ x = <<q, i>>
      BY <1>3
    <3>1. PICK i \in DOMAIN (handled[q]) : Head(handled[q][i]) = "sync" /\ x = <<q, i>>
      BY <3>0
    <3>2. CASE q # p
      BY <1>2, <1>4, <3>1, <3>2
    <3>3. CASE q = p
      <4>1. i \in 1..N /\ i \in 1..(N + M)
        BY <1>1, <3>1, <3>3
      <4>2. QED
        BY <1>2, <1>4, <3>1, <3>3, <4>1
    <3>4. QED
      BY <3>2, <3>3
  <2>3. ASSUME NEW i \in SyncLines(ls) PROVE <<p, N + i>> \in HandledOf("sync")'
    <3>1. i \in 1..M /\ N + i \in 1..(N + M) /\ Head(ls[i]) = "sync"
      BY <1>1 DEF SyncLines
    <3>2. QED
      BY <1>2, <1>4, <3>1
  <2>4. QED
    BY <2>1, <2>2, <2>3
<1>6. Had \cap Added = {}
  <2> SUFFICES ASSUME NEW i \in SyncLines(ls), <<p, N + i>> \in Had
               PROVE  FALSE
    OBVIOUS
  <2>0. PICK q \in Ports : \E j \in DOMAIN (handled[q]) : <<p, N + i>> = <<q, j>>
    BY <1>3
  <2>1. PICK j \in DOMAIN (handled[q]) : <<p, N + i>> = <<q, j>>
    BY <2>0
  <2>2. q = p /\ j = N + i /\ j \in 1..N
    BY <1>1, <2>1
  <2>3. i \in 1..M
    BY <1>1 DEF SyncLines
  <2>4. QED
    BY <1>1, <2>2, <2>3
<1>7. IsFiniteSet(SyncLines(ls)) /\ Cardinality(SyncLines(ls)) \in Nat
  BY CallsCounted
<1>8. IsFiniteSet(Added) /\ Cardinality(Added) = Cardinality(SyncLines(ls))
  <2> DEFINE f == [i \in SyncLines(ls) |-> <<p, N + i>>]
  <2>1. f \in [SyncLines(ls) -> Added] /\ \A x \in Added : \E i \in SyncLines(ls) : f[i] = x
    OBVIOUS
  <2>2. \A i, j \in SyncLines(ls) : f[i] = f[j] => i = j
    <3>1. \A i \in SyncLines(ls) : i \in Int
      BY <1>1 DEF SyncLines
    <3>2. QED
      BY <1>1, <3>1
  <2> HIDE DEF f, Added
  <2>3. f \in Bijection(SyncLines(ls), Added)
    BY <2>1, <2>2 DEF Bijection, Injection, Surjection, IsInjective
  <2>4. ExistsBijection(SyncLines(ls), Added)
    BY <2>3 DEF ExistsBijection
  <2>5. QED
    BY <1>7, <2>4, FS_Bijection
<1> HIDE DEF Added
<1>9. IsFiniteSet(Had)
  BY DEF Had
<1>10. /\ IsFiniteSet(Had \cup Added)
       /\ Cardinality(Had \cup Added) = Cardinality(Had) + Cardinality(Added) - Cardinality(Had \cap Added)
  BY <1>8, <1>9, FS_Union
<1>11. Cardinality(Had \cap Added) = 0 /\ Cardinality(Had) \in Nat
  BY <1>6, <1>9, FS_EmptySet, FS_CardinalityType
<1>12. Cardinality(Had \cup Added) = Cardinality(Had) + Cardinality(SyncLines(ls))
  BY <1>7, <1>8, <1>10, <1>11
<1>13. QED
  BY <1>5, <1>10, <1>12 DEF Had

\* What is held of the tree: discovery was given, or is still to be given, the fragments
\* that were kept, in order.
TreeType == [ready : BOOLEAN, pending : Seq(Whole), given : Seq(Whole), heard : Seq(Whole)]
TreeKept ==
  {t \in TreeType : t.given \o t.pending = t.heard /\ IF t.ready THEN t.pending = <<>> ELSE t.given = <<>>}

\* When a record of the tree is one.
LEMMA Kept ==
  ASSUME NEW r \in BOOLEAN, NEW a \in Seq(Whole), NEW g \in Seq(Whole), NEW h \in Seq(Whole)
  PROVE  [ready |-> r, pending |-> a, given |-> g, heard |-> h] \in TreeKept <=> g \o a = h /\ (IF r THEN a = <<>> ELSE g = <<>>)
<1> DEFINE t == [ready |-> r, pending |-> a, given |-> g, heard |-> h]
<1>1. t \in TreeType
  BY DEF TreeType
<1>2. t.ready = r /\ t.pending = a /\ t.given = g /\ t.heard = h
  OBVIOUS
<1> HIDE DEF t
<1>3. t \in TreeKept <=> g \o a = h /\ (IF r THEN a = <<>> ELSE g = <<>>)
  BY <1>1, <1>2 DEF TreeKept
<1>4. QED
  BY <1>3 DEF t

\* One more fragment keeps it.
LEMMA TreeLineKept ==
  ASSUME NEW t \in TreeKept, NEW l \in Whole
  PROVE  TreeLine(t, l) \in TreeKept
<1>0. PICK r \in BOOLEAN, a \in Seq(Whole), g \in Seq(Whole), h \in Seq(Whole) :
        t = [ready |-> r, pending |-> a, given |-> g, heard |-> h]
  <2>1. t \in TreeType
    BY DEF TreeKept
  <2>2. QED
    BY <2>1 DEF TreeType
<1>1. g \o a = h /\ (IF r THEN a = <<>> ELSE g = <<>>)
  BY <1>0, Kept
<1>2. Append(h, l) \in Seq(Whole) /\ Append(a, l) \in Seq(Whole) /\ Append(g, l) \in Seq(Whole)
  OBVIOUS
<1>3. CASE r
  <2>1. TreeLine(t, l) = [ready |-> r, pending |-> a, given |-> Append(g, l), heard |-> Append(h, l)]
    BY <1>0, <1>3 DEF TreeLine
  <2>2. a = <<>>
    BY <1>1, <1>3
  <2>3. Append(g, l) \o a = Append(h, l)
    <3>1. g \o <<>> = h
      BY <1>1, <2>2
    <3>2. g = h
      BY <3>1, ConcatEmptySeq
    <3>3. Append(g, l) \o <<>> = Append(g, l)
      BY <1>2, ConcatEmptySeq
    <3>4. QED
      BY <2>2, <3>2, <3>3, Zenon
  <2>4. [ready |-> r, pending |-> a, given |-> Append(g, l), heard |-> Append(h, l)] \in TreeKept
    BY <1>2, <1>3, <2>2, <2>3, Kept, ZenonT(60)
  <2>5. QED
    BY <2>1, <2>4
<1>4. CASE ~r /\ Len(a) < MaxFragments
  <2>1. TreeLine(t, l) = [ready |-> r, pending |-> Append(a, l), given |-> g, heard |-> Append(h, l)]
    BY <1>0, <1>4 DEF TreeLine
  <2>2. g \o Append(a, l) = Append(g \o a, l)
    BY AppendConcat
  <2>3. g \o Append(a, l) = Append(h, l) /\ g = <<>>
    BY <1>1, <1>4, <2>2
  <2>4. [ready |-> r, pending |-> Append(a, l), given |-> g, heard |-> Append(h, l)] \in TreeKept
    BY <1>2, <1>4, <2>3, Kept
  <2>5. QED
    BY <2>1, <2>4
<1>5. CASE ~r /\ ~(Len(a) < MaxFragments)
  BY <1>0, <1>5 DEF TreeLine
<1>6. QED
  BY <1>3, <1>4, <1>5

\* Lines are looked at one by one.
LEMMA TreeSteps ==
  ASSUME NEW p, NEW ls \in Seq(Whole), tree \in TreeKept
  PROVE  \E w \in [0..Len(ls) -> TreeKept] :
           /\ w[0] = tree
           /\ \A n \in 1..Len(ls) : w[n] = IF p # EventPort /\ Head(ls[n]) = "tree" THEN TreeLine(w[n - 1], ls[n]) ELSE w[n - 1]
           /\ TreeLines(p, ls) = w[Len(ls)]
<1>1. PICK N \in Nat : N = Len(ls)
  OBVIOUS
<1> DEFINE S == TreeKept
           a == tree
           Step(x, n) == IF p # EventPort /\ Head(ls[n]) = "tree" THEN TreeLine(x, ls[n]) ELSE x
           g == [n \in 1..N |-> [x \in S |-> Step(x, n)]]
           Made(F, f) == F = [n \in 0..N |-> IF n = 0 THEN a ELSE Step(f[n - 1], n)]
<1>2. a \in S /\ \A n \in 1..N : \A x \in S : Step(x, n) \in S
  <2>1. \A n \in 1..N : ls[n] \in Whole
    BY <1>1
  <2>2. QED
    BY <2>1, TreeLineKept
<1>3. TreeLines(p, ls) = (CHOOSE f : Made(f, f))[N]
  BY <1>1 DEF TreeLines
<1> HIDE DEF Step, S, a
<1>4. g \in [1..N -> [S -> S]] /\ \A n \in 1..N : \A x \in S : g[n][x] = Step(x, n)
  BY <1>2
<1> HIDE DEF g
<1>5. PICK h : Recurs(h, N, S, a, g)
  BY <1>2, <1>4, Recursion
<1>6. h \in [0..N -> S] /\ h[0] = a /\ \A n \in 1..N : h[n] = Step(h[n - 1], n)
  <2>1. h \in [0..N -> S] /\ h[0] = a /\ \A n \in 1..N : h[n] = g[n][h[n - 1]]
    BY <1>5 DEF Recurs
  <2>2. ASSUME NEW n \in 1..N PROVE h[n] = Step(h[n - 1], n)
    <3>1. n - 1 \in 0..N
      OBVIOUS
    <3>2. h[n - 1] \in S
      BY <2>1, <3>1
    <3>3. QED
      BY <1>4, <2>1, <3>2
  <2>3. QED
    BY <2>1, <2>2
<1>7. Made(h, h)
  <2>1. h = [n \in 0..N |-> h[n]]
    BY <1>6
  <2>2. \A n \in 0..N : h[n] = IF n = 0 THEN a ELSE Step(h[n - 1], n)
    BY <1>6
  <2>3. QED
    BY <2>1, <2>2
<1>8. ASSUME NEW F, NEW f, Made(F, f)
      PROVE  /\ (\A n \in 0..N : F[n] \in S) => F \in [0..N -> S]
             /\ F[0] = a
             /\ \A n \in 1..N : F[n] = Step(f[n - 1], n)
  <2>1. \A n \in 0..N : F[n] = IF n = 0 THEN a ELSE Step(f[n - 1], n)
    BY <1>8
  <2>2. (\A n \in 0..N : F[n] \in S) => F \in [0..N -> S]
    BY <1>8, <2>1
  <2>3. 0 \in 0..N /\ \A n \in 1..N : n \in 0..N /\ n # 0
    OBVIOUS
  <2>4. QED
    BY <2>1, <2>2, <2>3
<1> HIDE DEF Made
<1>9. PICK w : Made(w, w) /\ TreeLines(p, ls) = w[N]
  BY <1>3, <1>7
<1>10. /\ (\A n \in 0..N : w[n] \in S) => w \in [0..N -> S]
       /\ w[0] = a
       /\ \A n \in 1..N : w[n] = Step(w[n - 1], n)
  BY <1>8, <1>9
<1>11. \A n \in 0..N : w[n] \in S
  <2> DEFINE P == {n \in 0..N : w[n] \in S}
  <2>1. 0 \in P /\ \A n \in 1..N : n - 1 \in P => n \in P
    BY <1>2, <1>10
  <2> HIDE DEF P
  <2>2. \A n \in 0..N : n \in P
    BY <2>1, Induct
  <2>3. QED
    BY <2>2 DEF P
<1>12. QED
  BY <1>1, <1>9, <1>10, <1>11 DEF S, a, Step

\* So any lines keep it.
LEMMA TreeLinesKept ==
  ASSUME NEW p, NEW ls \in Seq(Whole), tree \in TreeKept
  PROVE  TreeLines(p, ls) \in TreeKept
<1>1. Len(ls) \in 0..Len(ls)
  OBVIOUS
<1>2. QED
  BY <1>1, TreeSteps

\* No two delimiters in a row; and none first where a line begins.
SpacedOut(s) == \A i \in 2..Len(s) : s[i] = Mark => s[i - 1] # Mark
Begins(b, s) == b = <<>> /\ s # <<>> => s[1] # Mark

\* A line of C-Gate has tokens, and no delimiter among them.
LEMMA LineFacts ==
  ASSUME NEW l \in LineSet
  PROVE  l \in Seq(LineToken) /\ l \in Seq(Token) /\ Len(l) \in Nat \ {0} /\ \A i \in 1..Len(l) : l[i] # Mark
<1> DEFINE T == {l[i] : i \in DOMAIN l}
<1>1. l # <<>> /\ l \in Seq(T \ {Mark})
  BY LinesAssumption
<1>2. T \ {Mark} \subseteq LineToken
  <2> DEFINE Ts == {{m[i] : i \in DOMAIN m} : m \in LineSet}
  <2>1. T \in Ts
    OBVIOUS
  <2>2. LineToken = (UNION Ts) \ {Mark}
    BY DEF LineToken
  <2> HIDE DEF T, Ts
  <2>3. QED
    BY <2>1, <2>2
<1> HIDE DEF T
<1>3. l \in Seq(LineToken)
  BY <1>1, <1>2
<1>4. Len(l) # 0 /\ \A i \in 1..Len(l) : l[i] # Mark
  BY <1>1
<1>5. QED
  BY <1>3, <1>4, WholeTokens

\* A line sent after what is under way.
LEMMA SentKeeps ==
  ASSUME NEW s \in Seq(Token), NEW l \in LineSet, NEW b, SpacedOut(s), Begins(b, s)
  PROVE  /\ s \o Append(l, Mark) \in Seq(Token)
         /\ SpacedOut(s \o Append(l, Mark)) /\ Begins(b, s \o Append(l, Mark))
<1>1. l \in Seq(Token) /\ Len(l) \in Nat \ {0} /\ \A i \in 1..Len(l) : l[i] # Mark
  BY LineFacts
<1>2. PICK N \in Nat, M \in Nat \ {0} : N = Len(s) /\ M = Len(l)
  BY <1>1
<1> DEFINE a == Append(l, Mark)
           t == s \o a
<1>3. a \in Seq(Token) /\ Len(a) = M + 1 /\ a[M + 1] = Mark /\ \A i \in 1..M : a[i] = l[i]
  BY <1>1, <1>2, WholeTokens
<1> HIDE DEF a
<1>4. /\ t \in Seq(Token) /\ Len(t) = N + M + 1
      /\ \A i \in 1..N : t[i] = s[i]
      /\ \A i \in 1..(M + 1) : t[N + i] = a[i]
  BY <1>2, <1>3
<1> HIDE DEF t
<1>5. SpacedOut(t)
  <2> SUFFICES ASSUME NEW i \in 2..(N + M + 1), t[i] = Mark PROVE t[i - 1] # Mark
    BY <1>4 DEF SpacedOut
  <2>1. CASE i <= N
    <3>1. i \in 1..N /\ i - 1 \in 1..N /\ i \in 2..Len(s)
      BY <1>2, <2>1
    <3>2. QED
      BY <1>4, <3>1 DEF SpacedOut
  <2>2. CASE i > N
    <3>1. i - N \in 1..(M + 1) /\ N + (i - N) = i
      BY <1>2, <2>2
    <3>2. a[i - N] = Mark
      BY <1>4, <3>1
    <3>3. i - N = M + 1
      BY <1>1, <1>2, <1>3, <3>1, <3>2
    <3>4. M \in 1..(M + 1) /\ i - 1 = N + M /\ M \in 1..M
      BY <1>2, <3>3
    <3>5. t[i - 1] = a[M] /\ a[M] = l[M] /\ l[M] # Mark
      BY <1>1, <1>2, <1>3, <1>4, <3>4
    <3>6. QED
      BY <3>5
  <2>3. QED
    BY <2>1, <2>2
<1>6. Begins(b, t)
  <2> SUFFICES ASSUME b = <<>> PROVE t[1] # Mark
    BY DEF Begins
  <2>1. CASE N = 0
    <3>1. 1 \in 1..(M + 1) /\ 1 \in 1..M /\ t[N + 1] = a[1] /\ N + 1 = 1
      BY <1>2, <1>4, <2>1
    <3>2. QED
      BY <1>1, <1>2, <1>3, <3>1
  <2>2. CASE N # 0
    <3>1. 1 \in 1..N /\ s # <<>>
      BY <1>2, <2>2
    <3>2. QED
      BY <1>4, <3>1 DEF Begins
  <2>3. QED
    BY <1>2, <2>1, <2>2
<1>7. QED
  BY <1>4, <1>5, <1>6 DEF t, a

\* What stays under way when a chunk has arrived, and the buffer with the chunk.
LEMMA ChunkKeeps ==
  ASSUME NEW b \in Seq(LineToken), NEW s \in Seq(Token), NEW n \in 1..Len(s), SpacedOut(s), Begins(b, s)
  PROVE  /\ SubSeq(s, 1, n) \in Seq(Token)
         /\ b \o SubSeq(s, 1, n) \in Seq(Token) /\ Len(b \o SubSeq(s, 1, n)) > 0
         /\ (b \o SubSeq(s, 1, n))[Len(b \o SubSeq(s, 1, n))] = s[n]
         /\ NoEmptyLine(b \o SubSeq(s, 1, n))
         /\ SubSeq(s, n + 1, Len(s)) \in Seq(Token) /\ SpacedOut(SubSeq(s, n + 1, Len(s)))
         /\ s[n] = Mark => Begins(<<>>, SubSeq(s, n + 1, Len(s)))
<1>1. PICK N \in Nat, M \in Nat : N = Len(s) /\ M = Len(b)
  OBVIOUS
<1> DEFINE c == SubSeq(s, 1, n)
           x == b \o c
           r == SubSeq(s, n + 1, Len(s))
<1>2. n \in 1..N /\ n <= N
  BY <1>1
<1>3. c \in Seq(Token) /\ Len(c) = n /\ \A i \in 1..n : c[i] = s[i]
  BY <1>1, <1>2
<1>4. r \in Seq(Token) /\ Len(r) = N - n /\ \A i \in 1..(N - n) : r[i] = s[n + i]
  BY <1>1, <1>2
<1>5. b \in Seq(Token) /\ \A i \in 1..M : b[i] # Mark
  <2>1. \A i \in 1..M : b[i] \in LineToken
    BY <1>1
  <2>2. Mark \notin LineToken
    BY DEF LineToken
  <2>3. QED
    BY <2>1, <2>2, WholeTokens
<1> HIDE DEF c
<1>6. /\ x \in Seq(Token) /\ Len(x) = M + n
      /\ \A i \in 1..M : x[i] = b[i]
      /\ \A i \in 1..n : x[M + i] = c[i]
  BY <1>1, <1>3, <1>5, SMTT(40)
<1> HIDE DEF x, r
<1>7. M + n > 0 /\ n \in 1..n /\ x[M + n] = s[n]
  <2>1. M + n > 0 /\ n \in 1..n
    BY <1>1
  <2>2. x[M + n] = c[n] /\ c[n] = s[n]
    BY <1>3, <1>6, <2>1
  <2>3. QED
    BY <2>1, <2>2
<1>8. NoEmptyLine(x)
  <2> SUFFICES ASSUME NEW i \in 1..(M + n), x[i] = Mark PROVE i > 1 /\ x[i - 1] # Mark
    BY <1>6 DEF NoEmptyLine
  <2>1. i > M
    BY <1>1, <1>5, <1>6
  <2>2. i - M \in 1..n /\ M + (i - M) = i
    BY <1>1, <2>1
  <2>3. s[i - M] = Mark
    BY <1>3, <1>6, <2>2
  <2>4. CASE i - M = 1
    <3>1. s # <<>> /\ s[1] = Mark
      BY <1>1, <1>2, <2>3, <2>4
    <3>2. b # <<>>
      BY <3>1 DEF Begins
    <3>3. M \in 1..M /\ i - 1 = M
      BY <1>1, <2>2, <2>4, <3>2
    <3>4. x[i - 1] = b[M] /\ i > 1
      BY <1>1, <1>6, <2>2, <2>4, <3>3
    <3>5. QED
      BY <1>5, <3>3, <3>4
  <2>5. CASE i - M # 1
    <3>1. i - M \in 2..Len(s) /\ (i - M) - 1 \in 1..n /\ M + ((i - M) - 1) = i - 1 /\ i > 1
      BY <1>1, <1>2, <2>2, <2>5
    <3>2. s[(i - M) - 1] # Mark
      BY <2>3, <3>1 DEF SpacedOut
    <3>3. x[i - 1] = s[(i - M) - 1]
      BY <1>3, <1>6, <3>1
    <3>4. QED
      BY <3>1, <3>2, <3>3
  <2>6. QED
    BY <2>4, <2>5
<1>9. SpacedOut(r)
  <2> SUFFICES ASSUME NEW i \in 2..(N - n), r[i] = Mark PROVE r[i - 1] # Mark
    BY <1>4 DEF SpacedOut
  <2>1. n + i \in 2..Len(s) /\ i \in 1..(N - n) /\ i - 1 \in 1..(N - n) /\ (n + i) - 1 = n + (i - 1)
    BY <1>1, <1>2
  <2>2. QED
    BY <1>4, <2>1 DEF SpacedOut
<1>10. s[n] = Mark => Begins(<<>>, r)
  <2> SUFFICES ASSUME s[n] = Mark, r # <<>> PROVE r[1] # Mark
    BY DEF Begins
  <2>1. N - n \in Nat /\ N - n # 0
    BY <1>1, <1>2, <1>4
  <2>2. 1 \in 1..(N - n) /\ n + 1 \in 2..Len(s) /\ (n + 1) - 1 = n
    BY <1>1, <1>2, <2>1
  <2>3. r[1] = s[n + 1]
    BY <1>4, <2>2
  <2>4. QED
    BY <2>2, <2>3 DEF SpacedOut
<1>11. QED
  BY <1>3, <1>4, <1>6, <1>7, <1>8, <1>9, <1>10 DEF x, c, r

\* The limit keeps the end.
LEMMA LimitedFacts ==
  ASSUME NEW x \in Seq(Token), Len(x) > 0
  PROVE  Limited(x) \in Seq(Token) /\ Len(Limited(x)) > 0 /\ Limited(x)[Len(Limited(x))] = x[Len(x)]
<1>1. PICK N \in Nat \ {0}, K \in Nat \ {0} : N = Len(x) /\ K = MaxBuffer
  BY LinesAssumption
<1>2. CASE N > K
  <2>1. N - K + 1 \in 1..N /\ Limited(x) = SubSeq(x, N - K + 1, N)
    BY <1>1, <1>2 DEF Limited
  <2>2. /\ SubSeq(x, N - K + 1, N) \in Seq(Token)
        /\ Len(SubSeq(x, N - K + 1, N)) = K
        /\ SubSeq(x, N - K + 1, N)[K] = x[N]
    BY <1>1, <2>1
  <2>3. QED
    BY <1>1, <2>1, <2>2
<1>3. CASE ~(N > K)
  BY <1>1, <1>3 DEF Limited
<1>4. QED
  BY <1>2, <1>3

\* Invariant: types; the tokens under way and in the buffers hold no empty line, so that
\* what was received is the lines handled and the rest; the tree's fragments; and one call
\* of the refresh and of the resync for every synchronisation handled.
LinesTypeOK ==
  /\ stream \in [Ports -> Seq(Token)] /\ got \in [Ports -> Seq(Token)]
  /\ buffer \in [Ports -> Seq(LineToken)] /\ handled \in [Ports -> Seq(Whole)]
  /\ DOMAIN cut = Ports /\ tree \in TreeKept
Neat(p)  == SpacedOut(stream[p]) /\ Begins(buffer[p], stream[p])
ExactOn(p) == ~cut[p] => got[p] = Wire(handled[p]) \o buffer[p]
SyncsCounted ==
  /\ IsFiniteSet(HandledOf("sync"))
  /\ calls["security"] = Cardinality(HandledOf("sync")) /\ calls["resync"] = calls["security"]
LinesInv == LinesTypeOK /\ SyncsCounted /\ \A p \in Ports : Neat(p) /\ ExactOn(p)

\* The callback keeps types, fragments and the counts.
LEMMA HandleInv ==
  ASSUME LinesTypeOK, SyncsCounted, NEW p \in Ports, NEW ls \in Seq(Whole), HandleLines(p, ls)
  PROVE  handled' \in [Ports -> Seq(Whole)] /\ tree' \in TreeKept /\ SyncsCounted'
<1>1. handled' = [handled EXCEPT ![p] = @ \o ls] /\ handled \in [Ports -> Seq(Whole)]
  BY DEF HandleLines, LinesTypeOK
<1>2. handled' \in [Ports -> Seq(Whole)]
  <2>1. handled[p] \o ls \in Seq(Whole)
    BY <1>1
  <2>2. QED
    BY <1>1, <2>1
<1>3. tree' \in TreeKept
  BY TreeLinesKept DEF HandleLines, LinesTypeOK
<1>4. SyncsCounted'
  <2>1. /\ IsFiniteSet(HandledOf("sync")')
        /\ Cardinality(HandledOf("sync")') = Cardinality(HandledOf("sync")) + Cardinality(SyncLines(ls))
    BY <1>1, HandledAfter DEF SyncsCounted
  <2>2. \A c \in {"security", "resync"} : calls'[c] = calls[c] + Cardinality(SyncLines(ls))
    <3> SUFFICES ASSUME NEW c \in {"security", "resync"}
                 PROVE  calls'[c] = calls[c] + Cardinality(SyncLines(ls))
      OBVIOUS
    <3>1. c \in Components /\ calls' = [d \in Components |-> calls[d] + Cardinality(CallsTo(d, p, ls))]
      BY DEF Components, HandleLines
    <3>2. calls'[c] = calls[c] + Cardinality(CallsTo(c, p, ls))
      BY <3>1
    <3>3. QED
      BY <3>2, CallsCounted
  <2>3. calls'["security"] = Cardinality(HandledOf("sync")') /\ calls'["resync"] = calls'["security"]
    BY <2>1, <2>2 DEF SyncsCounted
  <2>4. QED
    BY <2>1, <2>3 DEF SyncsCounted
<1>5. QED
  BY <1>2, <1>3, <1>4

\* A chunk: what was received stays the lines and the rest.
LEMMA ChunkInv ==
  ASSUME LinesInv, NEW p \in Ports, NEW n \in 1..Len(stream[p]), ReceiveChunk(p, n)
  PROVE  LinesInv'
<1>1. PICK s \in Seq(Token), b \in Seq(LineToken), h \in Seq(Whole), g \in Seq(Token) :
        s = stream[p] /\ b = buffer[p] /\ h = handled[p] /\ g = got[p]
  BY DEF LinesInv, LinesTypeOK
<1> DEFINE c == SubSeq(s, 1, n)
           x == b \o c
           y == Limited(x)
           r == SubSeq(s, n + 1, Len(s))
<1>2. n \in 1..Len(s) /\ SpacedOut(s) /\ Begins(b, s) /\ (~cut[p] => g = Wire(h) \o b)
  BY <1>1 DEF LinesInv, Neat, ExactOn
<1>3. /\ c \in Seq(Token) /\ x \in Seq(Token) /\ Len(x) > 0 /\ x[Len(x)] = s[n] /\ NoEmptyLine(x)
      /\ r \in Seq(Token) /\ SpacedOut(r) /\ (s[n] = Mark => Begins(<<>>, r))
  BY <1>2, ChunkKeeps
<1>4. y \in Seq(Token) /\ Len(y) > 0 /\ y[Len(y)] = s[n]
  BY <1>3, LimitedFacts
<1>5. /\ stream' = [stream EXCEPT ![p] = r] /\ got' = [got EXCEPT ![p] = g \o c]
      /\ cut' = [cut EXCEPT ![p] = cut[p] \/ y # x]
      /\ buffer' = [buffer EXCEPT ![p] = Split(y).rest]
      /\ HandleLines(p, Split(y).lines)
  BY <1>1 DEF ReceiveChunk, Remainder, LinesIn
<1> HIDE DEF y
<1>6. /\ Split(y).lines \in Seq(Whole) /\ Split(y).rest \in Seq(LineToken)
      /\ Split(y).rest = <<>> => s[n] = Mark
      /\ NoEmptyLine(y) => Wire(h \o Split(y).lines) \o Split(y).rest = Wire(h) \o y
  <2>1. /\ Split(y) \in Partial
        /\ Split(y).rest = <<>> => y = <<>> \/ y[Len(y)] = Mark
        /\ NoEmptyLine(y) => Wire(h \o Split(y).lines) \o Split(y).rest = Wire(h) \o y
    BY <1>4, SplitExact
  <2>2. Split(y).lines \in Seq(Whole) /\ Split(y).rest \in Seq(LineToken)
    BY <2>1 DEF Partial
  <2>3. y # <<>>
    BY <1>4
  <2>4. QED
    BY <1>4, <2>1, <2>2, <2>3
<1>7. handled' \in [Ports -> Seq(Whole)] /\ tree' \in TreeKept /\ SyncsCounted'
  BY <1>5, <1>6, HandleInv DEF LinesInv
<1>8. handled' = [handled EXCEPT ![p] = h \o Split(y).lines]
  BY <1>1, <1>5 DEF HandleLines
<1>9. g \o c \in Seq(Token)
  BY <1>3
<1> HIDE DEF c, x, r
<1>10. LinesTypeOK'
  BY <1>3, <1>5, <1>6, <1>7, <1>9 DEF LinesInv, LinesTypeOK
<1>11. ASSUME NEW q \in Ports, q # p PROVE Neat(q)' /\ ExactOn(q)'
  <2>1. /\ stream'[q] = stream[q] /\ got'[q] = got[q] /\ cut'[q] = cut[q]
        /\ buffer'[q] = buffer[q] /\ handled'[q] = handled[q]
    BY <1>5, <1>8, <1>11 DEF LinesInv, LinesTypeOK
  <2>2. QED
    BY <2>1 DEF LinesInv, Neat, ExactOn
<1>12. /\ stream'[p] = r /\ got'[p] = g \o c /\ buffer'[p] = Split(y).rest
       /\ handled'[p] = h \o Split(y).lines /\ (~cut'[p] => ~cut[p] /\ y = x)
  BY <1>5, <1>8 DEF LinesInv, LinesTypeOK
<1>13. Neat(p)'
  <2>1. Begins(Split(y).rest, r)
    BY <1>3, <1>6 DEF Begins
  <2>2. QED
    BY <1>3, <1>12, <2>1 DEF Neat
<1>14. ExactOn(p)'
  <2> SUFFICES ASSUME ~cut'[p] PROVE got'[p] = Wire(handled'[p]) \o buffer'[p]
    BY DEF ExactOn
  <2>1. y = x /\ g = Wire(h) \o b
    BY <1>2, <1>12
  <2>2. Wire(h \o Split(y).lines) \o Split(y).rest = Wire(h) \o x
    BY <1>3, <1>6, <2>1
  <2>3. (Wire(h) \o b) \o c = Wire(h) \o (b \o c)
    <3>1. PICK v \in Seq(Token) : v = Wire(h)
      BY WholeTokens, WireAppend
    <3>2. PICK u \in Seq(Token) : u = b
      BY WholeTokens
    <3>3. PICK k \in Seq(Token) : k = c
      BY <1>3
    <3>4. (v \o u) \o k = v \o (u \o k)
      BY TokensJoin
    <3>5. QED
      BY <3>1, <3>2, <3>3, <3>4, Zenon
  <2>4. got'[p] = Wire(h) \o x
    BY <1>12, <2>1, <2>3 DEF x
  <2>5. QED
    BY <1>12, <2>2, <2>4
<1>15. QED
  BY <1>7, <1>10, <1>11, <1>13, <1>14 DEF LinesInv

\* C-Gate sends a line.
LEMMA SentInv ==
  ASSUME LinesInv, NEW p \in Ports, NEW l \in LineSet, LineSent(p, l)
  PROVE  LinesInv'
<1>1. PICK s \in Seq(Token) : s = stream[p] /\ SpacedOut(s) /\ Begins(buffer[p], s)
  BY DEF LinesInv, LinesTypeOK, Neat
<1> DEFINE t == s \o Append(l, Mark)
<1>2. t \in Seq(Token) /\ SpacedOut(t) /\ Begins(buffer[p], t)
  BY <1>1, SentKeeps
<1>3. stream' = [stream EXCEPT ![p] = t] /\ UNCHANGED <<got, buffer, cut, handled, tree, calls>>
  BY <1>1 DEF LineSent
<1> HIDE DEF t
<1>4. LinesTypeOK'
  BY <1>2, <1>3 DEF LinesInv, LinesTypeOK
<1>5. SyncsCounted'
  BY <1>3 DEF LinesInv, SyncsCounted, HandledOf
<1>6. ASSUME NEW q \in Ports PROVE Neat(q)' /\ ExactOn(q)'
  <2>1. stream'[q] = IF q = p THEN t ELSE stream[q]
    BY <1>3 DEF LinesInv, LinesTypeOK
  <2>2. QED
    BY <1>2, <1>3, <2>1 DEF LinesInv, Neat, ExactOn
<1>7. QED
  BY <1>4, <1>5, <1>6 DEF LinesInv

\* Nothing is under way on a connection that is new.
LEMMA NothingNeat == SpacedOut(<<>>) /\ (\A b : Begins(b, <<>>)) /\ <<>> \in Seq(Token) /\ <<>> \in Seq(LineToken)
BY DEF SpacedOut, Begins

\* A connection of the pool is replaced.
LEMMA CommandReplacedInv ==
  ASSUME LinesInv, NEW p \in CommandPorts, CommandReplaced(p)
  PROVE  LinesInv'
<1>1. p \in Ports
  BY DEF Ports
<1>2. PICK b \in Seq(LineToken), h \in Seq(Whole), g \in Seq(Token) :
        b = buffer[p] /\ h = handled[p] /\ g = got[p]
  BY <1>1 DEF LinesInv, LinesTypeOK
<1> DEFINE ls == IF b = <<>> THEN <<>> ELSE <<b>>
           m == IF b = <<>> THEN g ELSE Append(g, Mark)
<1>3. ls \in Seq(Whole) /\ m \in Seq(Token)
  <2>1. b # <<>> => b \in Whole
    BY DEF Whole
  <2>2. <<>> \in Seq(Whole) /\ \A w \in Whole : <<w>> \in Seq(Whole)
    OBVIOUS
  <2>3. m \in Seq(Token)
    BY WholeTokens
  <2>4. QED
    BY <2>1, <2>2, <2>3
<1>4. /\ HandleLines(p, ls) /\ got' = [got EXCEPT ![p] = m] /\ buffer' = [buffer EXCEPT ![p] = <<>>]
      /\ stream' = [stream EXCEPT ![p] = <<>>] /\ cut' = cut
  BY <1>2 DEF CommandReplaced
<1>5. handled' \in [Ports -> Seq(Whole)] /\ tree' \in TreeKept /\ SyncsCounted'
  BY <1>1, <1>3, <1>4, HandleInv DEF LinesInv
<1>6. handled' = [handled EXCEPT ![p] = h \o ls]
  BY <1>2, <1>4 DEF HandleLines
<1>7. ~cut[p] => m = Wire(h \o ls) \o <<>>
  <2> SUFFICES ASSUME ~cut[p] PROVE m = Wire(h \o ls) \o <<>>
    OBVIOUS
  <2>1. PICK v \in Seq(Token) : v = Wire(h)
    BY WholeTokens, WireAppend
  <2>2. g = v \o b
    BY <1>1, <1>2, <2>1 DEF LinesInv, ExactOn
  <2>3. CASE b = <<>>
    <3>1. h \o ls = h /\ m = v /\ v \o <<>> = v
      BY <2>2, <2>3, ConcatEmptySeq
    <3>2. QED
      BY <2>1, <3>1
  <2>4. CASE b # <<>>
    <3>1. b \in Whole /\ h \o ls = Append(h, b)
      BY <2>4 DEF Whole
    <3>2. Wire(Append(h, b)) = Append(v \o b, Mark)
      BY <2>1, <3>1, WireOneMore
    <3>3. m = Append(v \o b, Mark)
      BY <2>2, <2>4
    <3>4. m \o <<>> = m
      BY <1>3, ConcatEmptySeq
    <3>5. QED
      BY <3>1, <3>2, <3>3, <3>4
  <2>5. QED
    BY <2>3, <2>4
<1> HIDE DEF ls, m
<1>8. LinesTypeOK'
  BY <1>1, <1>3, <1>4, <1>5, NothingNeat DEF LinesInv, LinesTypeOK
<1>9. ASSUME NEW q \in Ports PROVE Neat(q)' /\ ExactOn(q)'
  <2>1. CASE q = p
    <3>1. stream'[q] = <<>> /\ buffer'[q] = <<>> /\ got'[q] = m /\ handled'[q] = h \o ls
      BY <1>4, <1>6, <2>1 DEF LinesInv, LinesTypeOK
    <3>2. QED
      BY <1>4, <1>7, <2>1, <3>1, NothingNeat DEF Neat, ExactOn
  <2>2. CASE q # p
    <3>1. stream'[q] = stream[q] /\ got'[q] = got[q] /\ buffer'[q] = buffer[q] /\ handled'[q] = handled[q]
      BY <1>4, <1>6, <2>2 DEF LinesInv, LinesTypeOK
    <3>2. QED
      BY <1>4, <3>1 DEF LinesInv, Neat, ExactOn
  <2>3. QED
    BY <2>1, <2>2
<1>10. QED
  BY <1>5, <1>8, <1>9 DEF LinesInv

\* The event connection is replaced.
LEMMA EventReplacedInv ==
  ASSUME LinesInv, EventReplaced
  PROVE  LinesInv'
<1>1. stream' = [stream EXCEPT ![EventPort] = <<>>] /\ UNCHANGED <<got, buffer, cut, handled, tree, calls>>
  BY DEF EventReplaced
<1>2. LinesTypeOK'
  BY <1>1, NothingNeat DEF LinesInv, LinesTypeOK
<1>3. SyncsCounted'
  BY <1>1 DEF LinesInv, SyncsCounted, HandledOf
<1>4. ASSUME NEW q \in Ports PROVE Neat(q)' /\ ExactOn(q)'
  <2>1. stream'[q] = IF q = EventPort THEN <<>> ELSE stream[q]
    BY <1>1 DEF LinesInv, LinesTypeOK
  <2>2. QED
    BY <1>1, <2>1, NothingNeat DEF LinesInv, Neat, ExactOn
<1>5. QED
  BY <1>2, <1>3, <1>4 DEF LinesInv

\* Discovery gets what was kept for it.
LEMMA ReadyInv ==
  ASSUME LinesInv, DiscoveryReady
  PROVE  LinesInv'
<1>1. tree' \in TreeKept
  <2>1. tree \in TreeType /\ tree.given \o tree.pending = tree.heard /\ tree.given = <<>>
    BY DEF LinesInv, LinesTypeOK, TreeKept, DiscoveryReady
  <2> DEFINE a == tree.pending
             h == tree.heard
  <2>2. tree' = [ready |-> TRUE, pending |-> <<>>, given |-> a, heard |-> h]
    BY <2>1 DEF DiscoveryReady, TreeType
  <2>3. a \in Seq(Whole) /\ h \in Seq(Whole) /\ <<>> \in Seq(Whole)
    BY <2>1 DEF TreeType
  <2>4. <<>> \o a = h
    BY <2>1
  <2> HIDE DEF a, h
  <2>5. a \o <<>> = h
    <3>1. <<>> \o a = a /\ a \o <<>> = a
      BY <2>3, ConcatEmptySeq
    <3>2. QED
      BY <2>4, <3>1, Zenon
  <2>6. [ready |-> TRUE, pending |-> <<>>, given |-> a, heard |-> h] \in TreeKept
    BY <2>3, <2>5, Kept, ZenonT(60)
  <2>7. QED
    BY <2>2, <2>6
<1>2. QED
  BY <1>1 DEF LinesInv, LinesTypeOK, SyncsCounted, HandledOf, Neat, ExactOn, DiscoveryReady

\* Every step.
LEMMA LinesNextInv ==
  ASSUME LinesInv, [LinesNext]_lineVars
  PROVE  LinesInv'
<1>1. CASE \E p \in Ports, l \in LineSet : LineSent(p, l)
  BY <1>1, SentInv
<1>2. CASE \E p \in Ports : \E n \in 1..Len(stream[p]) : ReceiveChunk(p, n)
  BY <1>2, ChunkInv
<1>3. CASE \E p \in CommandPorts : CommandReplaced(p)
  BY <1>3, CommandReplacedInv
<1>4. CASE EventReplaced
  BY <1>4, EventReplacedInv
<1>5. CASE DiscoveryReady
  BY <1>5, ReadyInv
<1>6. CASE UNCHANGED lineVars
  BY <1>6 DEF lineVars, LinesInv, LinesTypeOK, SyncsCounted, HandledOf, Neat, ExactOn
<1>7. QED
  BY <1>1, <1>2, <1>3, <1>4, <1>5, <1>6 DEF LinesNext

\* Nothing was sent or received.
LEMMA LinesInitInv == LinesInit => LinesInv
<1> SUFFICES ASSUME LinesInit
             PROVE  LinesInv
  OBVIOUS
<1>1. HandledOf("sync") = {}
  BY DEF LinesInit, HandledOf
<1>2. SyncsCounted
  <2>1. calls["security"] = 0 /\ calls["resync"] = 0
    BY DEF LinesInit, Components
  <2>2. QED
    BY <1>1, <2>1, FS_EmptySet DEF SyncsCounted
<1>3. tree \in TreeKept
  <2>1. <<>> \in Seq(Whole) /\ <<>> \o <<>> = <<>>
    OBVIOUS
  <2>2. QED
    BY <2>1, Kept DEF LinesInit
<1>4. LinesTypeOK
  BY <1>3 DEF LinesInit, LinesTypeOK
<1>5. ASSUME NEW p \in Ports PROVE Neat(p) /\ ExactOn(p)
  <2>1. stream[p] = <<>> /\ got[p] = <<>> /\ buffer[p] = <<>> /\ handled[p] = <<>>
    BY DEF LinesInit
  <2>2. Wire(<<>>) = <<>> /\ <<>> \o <<>> = <<>>
    BY WireAppend
  <2>3. QED
    BY <2>1, <2>2, NothingNeat DEF Neat, ExactOn
<1>6. QED
  BY <1>2, <1>4, <1>5 DEF LinesInv

\* What the invariant says of lines, fragments and synchronisations.
LEMMA LinesInvExact == LinesInv => LinesExact
<1> SUFFICES ASSUME LinesInv
             PROVE  LinesExact
  OBVIOUS
<1>1. ASSUME NEW l \in Seq(LineToken) PROVE NoMark(l)
  <2>1. \A i \in DOMAIN l : l[i] \in LineToken
    OBVIOUS
  <2>2. QED
    BY <2>1 DEF NoMark, LineToken
<1>2. ASSUME NEW p \in Ports
      PROVE  /\ \A i \in DOMAIN handled[p] : handled[p][i] # <<>> /\ NoMark(handled[p][i])
             /\ NoMark(buffer[p])
             /\ ~cut[p] => got[p] = Wire(handled[p]) \o buffer[p]
  <2>1. handled[p] \in Seq(Whole) /\ buffer[p] \in Seq(LineToken)
    BY DEF LinesInv, LinesTypeOK
  <2>2. \A i \in DOMAIN handled[p] : handled[p][i] \in Whole
    BY <2>1
  <2>3. \A i \in DOMAIN handled[p] : handled[p][i] # <<>> /\ NoMark(handled[p][i])
    BY <1>1, <2>2 DEF Whole
  <2>4. QED
    BY <1>1, <2>1, <2>3 DEF LinesInv, ExactOn
<1>3. tree.given \o tree.pending = tree.heard /\ (tree.ready => tree.pending = <<>>)
  BY DEF LinesInv, LinesTypeOK, TreeKept
<1>4. QED
  BY <1>2, <1>3 DEF LinesExact, LinesInv, SyncsCounted

\* For any lines, ports, limits and chunks, and with connections replaced at any time: the
\* lines handled and the rest are what was received, discovery gets every fragment that was
\* kept, in order, and each synchronisation makes one refresh and one resync.
THEOREM LinesAreExact == LinesSpec => []LinesExact
<1>1. LinesInit => LinesInv
  BY LinesInitInv
<1>2. LinesInv /\ [LinesNext]_lineVars => LinesInv'
  BY LinesNextInv
<1>3. LinesInv => LinesExact
  BY LinesInvExact
<1>4. QED
  BY <1>1, <1>2, <1>3, PTL DEF LinesSpec
=============================================================================
