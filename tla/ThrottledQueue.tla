--------------------------- MODULE ThrottledQueue ---------------------------
(***************************************************************************)
(* The C-Gate command queue (src/src/throttledQueue.js) as the bridge      *)
(* instantiates it: four priority classes, a size cap with eviction, one   *)
(* asynchronous send at a time, and a gate (canProcessFn) that is open     *)
(* while the connection pool has a healthy connection.                     *)
(*                                                                         *)
(* Items are numbered in the order they are added.  The throttling delay   *)
(* is abstracted: an armed timer may fire at any later moment.  The send   *)
(* function of the bridge is asynchronous (cgateWebBridge.js:899), so a    *)
(* started item stays in flight until its promise settles.                 *)
(***************************************************************************)
EXTENDS Integers, Sequences, FiniteSets

CONSTANTS
  MaxSize,  \* options.maxSize; 0 means unlimited
  MaxAdds   \* bound: how many items are ever added

ASSUME MaxSizeAssumption == MaxSize \in Nat
ASSUME MaxAddsAssumption == MaxAdds \in Nat

VARIABLES
  queues,        \* _queues: per class, the items waiting, oldest first
  length,        \* _length: the separately maintained total
  active,        \* _active
  isProcessing,  \* _isProcessing
  timer,         \* _timer # null
  canProcess,    \* what canProcessFn answers now
  nextId,        \* number of the next item to be added
  inFlight,      \* items whose processFn promise is pending
  settled,       \* history: items whose promise has settled
  lost,          \* history: items evicted at capacity or discarded by clear
  orphaned       \* history: sends that clear() abandoned while in flight

qvars == <<queues, length, active, isProcessing, timer>>
vars  == <<qvars, canProcess, nextId, inFlight, settled, lost, orphaned>>

-----------------------------------------------------------------------------
(* Classes and contents *)

Priority == {"critical", "interactive", "normal", "bulk"}

\* _priorityOrder: lower rank is served first and evicted last.
Rank == [critical |-> 1, interactive |-> 2, normal |-> 3, bulk |-> 4]

Empty == [p \in Priority |-> <<>>]

Item == 1..MaxAdds

NonEmpty(q) == {p \in Priority : q[p] # <<>>}

\* The class _dequeueOneItem takes from: the most urgent one that is not empty.
MostUrgent(q) == {p \in NonEmpty(q) : \A r \in NonEmpty(q) : Rank[p] <= Rank[r]}

\* Mutation: eviction looks for its victim in the order of service.
RearAsFront(q) == {p \in NonEmpty(q) : \A r \in NonEmpty(q) : Rank[p] <= Rank[r]}

\* The class _dropOneItem takes from: the least urgent one that is not empty.
Rear(q) == {p \in NonEmpty(q) : \A r \in NonEmpty(q) : Rank[p] >= Rank[r]}

\* _takeFromQueue: both dequeue and eviction remove the oldest item of a class.
TakeFrom(q, p) == [q EXCEPT ![p] = Tail(@)]

Full == MaxSize > 0 /\ length >= MaxSize

\* Items of a queue content, as a set.
ItemsIn(q) == {q[pi[1]][pi[2]] : pi \in {pj \in Priority \X Item : pj[2] \in 1..Len(q[pj[1]])}}

-----------------------------------------------------------------------------
(* add() and _process() *)

\* Hand the next item to processFn, whose promise is pending from then on.
Send(q) ==
  /\ \E p \in MostUrgent(q) :
       /\ inFlight' = inFlight \union {Head(q[p])}
       /\ queues' = TakeFrom(q, p)
  /\ isProcessing' = TRUE

\* _process, run with contents q of total len, by the caller who has just set active
\* to act and the timer to tm.
Process(q, len, act, tm) ==
  LET drained == ~isProcessing /\ len = 0
      blocked == ~isProcessing /\ len # 0 /\ ~canProcess
  IN  IF isProcessing \/ drained \/ blocked
      THEN /\ queues' = q /\ length' = len
           /\ active' = (act /\ ~drained)
           /\ timer' = ((tm /\ ~drained) \/ blocked)
           /\ UNCHANGED <<isProcessing, inFlight>>
      ELSE Send(q) /\ length' = len - 1 /\ active' = act /\ timer' = tm

\* The rest of add(), once there is room: q and len are the contents before the push.
Enqueue(p, q, len) ==
  LET pushed == [q EXCEPT ![p] = Append(@, nextId)]
  IN  IF active
      THEN /\ queues' = pushed /\ length' = len + 1
           /\ timer' = (timer \/ ~isProcessing)
           /\ UNCHANGED <<active, isProcessing, inFlight>>
      ELSE Process(pushed, len + 1, TRUE, timer)

-----------------------------------------------------------------------------
(* Actions *)

\* add(item, {priority: p}), evicting first when the queue is full.
Add(p) ==
  /\ nextId \in Item
  /\ \/ /\ ~Full
        /\ Enqueue(p, queues, length)
        /\ lost' = lost
     \/ /\ Full
        /\ \E r \in Rear(queues) :
             /\ Enqueue(p, TakeFrom(queues, r), length - 1)
             /\ lost' = lost \union {Head(queues[r])}
  /\ nextId' = nextId + 1
  /\ UNCHANGED <<canProcess, settled, orphaned>>

\* The setTimeout callback of _scheduleNext.
TimerFires ==
  /\ timer
  /\ Process(queues, length, active, FALSE)
  /\ UNCHANGED <<canProcess, nextId, settled, lost, orphaned>>

\* Mutation: the next timer is not armed.
FinishWithoutTimer == isProcessing' = FALSE /\ timer' = FALSE

FinishProcess == isProcessing' = FALSE /\ timer' = active

\* The promise of a started item settles.
Finish(i) ==
  /\ i \in inFlight
  /\ inFlight' = inFlight \ {i}
  /\ settled' = settled \union {i}
  /\ FinishProcess
  /\ UNCHANGED <<queues, length, active, canProcess, nextId, lost, orphaned>>

\* clear(), called by the bridge's stop().
Clear ==
  /\ queues' = Empty /\ length' = 0
  /\ isProcessing' = FALSE /\ active' = FALSE /\ timer' = FALSE
  /\ lost' = lost \union ItemsIn(queues)
  /\ orphaned' = IF isProcessing THEN orphaned + 1 ELSE orphaned
  /\ UNCHANGED <<canProcess, nextId, inFlight, settled>>

\* The pool gains its first or loses its last healthy connection.
GateChanges ==
  /\ canProcess' = ~canProcess
  /\ UNCHANGED <<qvars, nextId, inFlight, settled, lost, orphaned>>

Init ==
  /\ queues = Empty /\ length = 0
  /\ active = FALSE /\ isProcessing = FALSE /\ timer = FALSE
  /\ canProcess = FALSE
  /\ nextId = 1
  /\ inFlight = {} /\ settled = {} /\ lost = {}
  /\ orphaned = 0

Next ==
  \/ \E p \in Priority : Add(p)
  \/ TimerFires
  \/ \E i \in Item : Finish(i)
  \/ Clear
  \/ GateChanges

Spec == Init /\ [][Next]_vars

\* Node fires due timers, and every send settles: execute() awaits at most one
\* drain per healthy connection, and a drain wait has a timeout.
Fairness == WF_vars(TimerFires) /\ \A i \in Item : WF_vars(Finish(i))

FairSpec == Spec /\ Fairness

-----------------------------------------------------------------------------
(* Properties *)

Depth(q) == [p \in Priority |-> Len(q[p])]

Total(q) ==
  LET d == Depth(q) IN d["critical"] + d["interactive"] + d["normal"] + d["bulk"]

\* Every variable has its type.
TypeOK ==
  /\ queues \in [Priority -> Seq(Item)]
  /\ length \in Nat
  /\ active \in BOOLEAN /\ isProcessing \in BOOLEAN /\ timer \in BOOLEAN
  /\ canProcess \in BOOLEAN
  /\ nextId \in 1..(MaxAdds + 1)
  /\ inFlight \subseteq Item /\ settled \subseteq Item /\ lost \subseteq Item
  /\ orphaned \in Nat

\* The counter that stands for the depth never drifts from the four queues,
\* through pushes, dequeues, evictions and clear() in any order, and with a cap
\* the depth never exceeds it (throttledQueue.js:56-73, 155-208).
LengthExact ==
  /\ length = Total(queues)
  /\ MaxSize > 0 => length <= MaxSize

\* Work that waits always has something that will look at it again: an armed
\* timer, or a send in flight whose completion arms one.  A lost wake-up would
\* leave commands in the queue until the next add (throttledQueue.js:64-72,
\* 117-124, 137-146).
NoStrandedWork == length > 0 => active /\ (timer \/ (isProcessing /\ inFlight # {}))

\* The strengthening that makes NoStrandedWork inductive: the timer and a send
\* exclude each other, and both need an active queue.
WakeUpInv ==
  /\ NoStrandedWork
  /\ timer => active /\ ~isProcessing
  /\ isProcessing => active /\ inFlight # {}

\* Sends are serialised, up to the sends that clear() abandoned: clear() resets
\* _isProcessing while a send is pending, and the completion of that send later
\* unlocks the queue for a second one (throttledQueue.js:117-124, 218-225).
SerialUpToClears == Cardinality(inFlight) <= orphaned + (IF isProcessing THEN 1 ELSE 0)

\* The queue keeps its books: the depth counter is exact, waiting work is always
\* looked at again, and sends are serialised up to clear() (throttledQueue.js:56-225).
QueueSound == TypeOK /\ LengthExact /\ NoStrandedWork /\ SerialUpToClears

\* Once the pool stays healthy, the queue empties: every command waiting is sent
\* or has been evicted, whatever was added, blocked or cleared before.
DrainsEventually == <>[]canProcess => <>[](length = 0)

-----------------------------------------------------------------------------
(* What the queue promises: see PriorityDispatch *)

\* A queue content without its order: the waiting commands, each with its class.
Queued(q) == UNION {{[id |-> q[p][k], class |-> p] : k \in 1..Len(q[p])} : p \in Priority}

Dispatch == INSTANCE PriorityDispatch WITH
  waiting <- Queued(queues),
  running <- inFlight,
  ended   <- settled,
  dropped <- lost,
  last    <- nextId - 1

DispatchSpec == Dispatch!Spec
=============================================================================
