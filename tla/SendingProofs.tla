---------------------------- MODULE SendingProofs ----------------------------
(***************************************************************************)
(* Proofs about what stands between a request or an event and what is sent *)
(* for it.  The command queue, for every MaxSize and MaxAdds: types, the   *)
(* exact length counter, no lost wake-up, serial sends up to clear(), and  *)
(* that it implements PriorityDispatch.  The disarm codes, for any panels  *)
(* and limits: how many of a panel are accepted in a window of time.  The  *)
(* outbox, for any events of an address and any sizes of the queue of an   *)
(* outage and of the dedup window: the broker has the newest values, and   *)
(* those of one device agree.  The diagnostics: what the bridge announced  *)
(* is there again.                                                         *)
(***************************************************************************)
EXTENDS ThrottledQueue, PanelCommands, MqttOutbox, Diagnostics, SequenceTheorems, SequenceLemmas

-----------------------------------------------------------------------------
(* The command queue *)

Contents == [Priority -> Seq(Item)]

\* A queue content together with a counter that is exact for it.
Shape(q, len) == q \in Contents /\ len \in Nat /\ len = Total(q)

\* The depths of a content are natural numbers, and so is their total.
LEMMA TotalType ==
  ASSUME NEW q \in Contents
  PROVE  Depth(q) \in [Priority -> Nat] /\ Total(q) \in Nat
<1>1. Depth(q) \in [Priority -> Nat]
  BY DEF Contents, Depth
<1>2. QED
  BY <1>1 DEF Total, Priority

\* The same change of one entry of four changes their sum.
LEMMA FourSum ==
  ASSUME NEW d \in [Priority -> Nat], NEW e \in [Priority -> Nat], NEW p \in Priority,
         NEW k \in Int,
         \A r \in Priority : e[r] = (IF r = p THEN d[r] + k ELSE d[r])
  PROVE  e["critical"] + e["interactive"] + e["normal"] + e["bulk"]
           = d["critical"] + d["interactive"] + d["normal"] + d["bulk"] + k
<1>1. /\ d["critical"] \in Nat /\ d["interactive"] \in Nat
      /\ d["normal"] \in Nat /\ d["bulk"] \in Nat
  BY DEF Priority
<1>2. CASE p = "critical"
  BY <1>1, <1>2 DEF Priority
<1>3. CASE p = "interactive"
  BY <1>1, <1>3 DEF Priority
<1>4. CASE p = "normal"
  BY <1>1, <1>4 DEF Priority
<1>5. CASE p = "bulk"
  BY <1>1, <1>5 DEF Priority
<1>6. QED
  BY <1>2, <1>3, <1>4, <1>5 DEF Priority

\* The empty content has nothing in it.
LEMMA EmptyShape == Shape(Empty, 0)
<1>1. Empty \in Contents
  BY DEF Empty, Contents
<1>2. \A r \in Priority : Depth(Empty)[r] = 0
  BY DEF Empty, Depth
<1>3. Total(Empty) = 0
  BY <1>2 DEF Total, Priority
<1>4. QED
  BY <1>1, <1>3 DEF Shape

\* Changing the depth of one class by k changes the total by k.
LEMMA TotalShift ==
  ASSUME NEW q \in Contents, NEW t \in Contents, NEW p \in Priority, NEW k \in Int,
         \A r \in Priority : Len(t[r]) = IF r = p THEN Len(q[r]) + k ELSE Len(q[r])
  PROVE  Total(t) = Total(q) + k
<1>1. Depth(q) \in [Priority -> Nat] /\ Depth(t) \in [Priority -> Nat]
  BY TotalType
<1>2. \A r \in Priority : Depth(t)[r] = (IF r = p THEN Depth(q)[r] + k ELSE Depth(q)[r])
  BY DEF Depth
<1>3. QED
  BY <1>1, <1>2, FourSum DEF Total

\* Taking the oldest item of a class that has one: the item is an item and the
\* rest is one shorter.
LEMMA TakeShape ==
  ASSUME NEW q, NEW len, Shape(q, len), NEW p \in NonEmpty(q)
  PROVE  /\ Shape(TakeFrom(q, p), len - 1)
         /\ Head(q[p]) \in Item
         /\ len > 0
<1> DEFINE t == TakeFrom(q, p)
<1>1. p \in Priority /\ q[p] \in Seq(Item) /\ q[p] # <<>>
  BY DEF Shape, Contents, NonEmpty
<1>2. /\ Tail(q[p]) \in Seq(Item) /\ Head(q[p]) \in Item
      /\ Len(q[p]) \in Nat /\ Len(q[p]) > 0
      /\ Len(Tail(q[p])) = Len(q[p]) - 1
  BY <1>1
<1>3. q \in Contents /\ t \in Contents
  BY <1>1, <1>2 DEF Shape, Contents, TakeFrom
<1>4. \A r \in Priority : Len(t[r]) = IF r = p THEN Len(q[r]) + (-1) ELSE Len(q[r])
  BY <1>1, <1>2 DEF Shape, Contents, TakeFrom
<1>5. Total(t) = Total(q) + (-1)
  BY <1>1, <1>3, <1>4, TotalShift
<1>6. Total(t) \in Nat /\ Total(q) \in Nat
  BY <1>3, TotalType
<1>7. QED
  BY <1>2, <1>3, <1>5, <1>6 DEF Shape

\* Appending an item makes the content one longer.
LEMMA PushShape ==
  ASSUME NEW q, NEW len, Shape(q, len), NEW p \in Priority, NEW i \in Item
  PROVE  Shape([q EXCEPT ![p] = Append(@, i)], len + 1)
<1> DEFINE t == [q EXCEPT ![p] = Append(@, i)]
<1>1. q[p] \in Seq(Item) /\ Len(Append(q[p], i)) = Len(q[p]) + 1 /\ Append(q[p], i) \in Seq(Item)
  BY DEF Shape, Contents
<1>2. q \in Contents /\ t \in Contents
  BY <1>1 DEF Shape, Contents
<1>3. \A r \in Priority : Len(t[r]) = IF r = p THEN Len(q[r]) + 1 ELSE Len(q[r])
  BY <1>1 DEF Shape, Contents
<1>4. Total(t) = Total(q) + 1
  <2> HIDE DEF t
  <2>1. 1 \in Int
    OBVIOUS
  <2>2. QED
    BY <1>2, <1>3, <2>1, TotalShift
<1>5. QED
  BY <1>2, <1>4 DEF Shape

\* What _process does to a content with an exact counter.
LEMMA ProcessShape ==
  ASSUME NEW q, NEW len, NEW act \in BOOLEAN, NEW tm \in BOOLEAN,
         TypeOK, Shape(q, len), Process(q, len, act, tm)
  PROVE  /\ Shape(queues', length') /\ length' <= len
         /\ active' \in BOOLEAN /\ isProcessing' \in BOOLEAN /\ timer' \in BOOLEAN
         /\ inFlight' \subseteq Item
<1>1. CASE isProcessing \/ len = 0 \/ ~canProcess
  <2>1. queues' = q /\ length' = len /\ UNCHANGED <<isProcessing, inFlight>>
    BY <1>1 DEF Process
  <2>2. active' \in BOOLEAN /\ timer' \in BOOLEAN
    BY <1>1 DEF Process
  <2>3. QED
    BY <2>1, <2>2 DEF TypeOK, Shape
<1>2. CASE ~(isProcessing \/ len = 0 \/ ~canProcess)
  <2>1. PICK p \in MostUrgent(q) : /\ inFlight' = inFlight \union {Head(q[p])}
                              /\ queues' = TakeFrom(q, p)
    BY <1>2 DEF Process, Send
  <2>2. p \in NonEmpty(q)
    BY DEF MostUrgent
  <2>3. Shape(TakeFrom(q, p), len - 1) /\ Head(q[p]) \in Item
    BY <2>2, TakeShape
  <2>4. length' = len - 1 /\ isProcessing' = TRUE /\ active' = act /\ timer' = tm
    BY <1>2 DEF Process, Send
  <2>5. QED
    BY <2>1, <2>3, <2>4 DEF TypeOK, Shape
<1>3. QED
  BY <1>1, <1>2

\* If the caller of _process is active whenever there is work, and has not left a
\* timer beside a send, no work is stranded afterwards.
LEMMA ProcessWakes ==
  ASSUME NEW q, NEW len, NEW act \in BOOLEAN, NEW tm \in BOOLEAN,
         TypeOK, WakeUpInv, Shape(q, len), Process(q, len, act, tm),
         len > 0 => act, isProcessing => act, tm = FALSE
  PROVE  WakeUpInv'
<1>1. CASE isProcessing \/ len = 0 \/ ~canProcess
  BY <1>1 DEF Process, TypeOK, Shape, WakeUpInv, NoStrandedWork
<1>2. CASE ~(isProcessing \/ len = 0 \/ ~canProcess)
  <2>1. inFlight' # {}
    BY <1>2 DEF Process, Send
  <2>2. length' = len - 1 /\ isProcessing' = TRUE /\ active' = act /\ timer' = tm
    BY <1>2 DEF Process, Send
  <2>3. act
    BY <1>2 DEF Shape
  <2>4. QED
    BY <2>1, <2>2, <2>3 DEF WakeUpInv, NoStrandedWork
<1>3. QED
  BY <1>1, <1>2

-----------------------------------------------------------------------------
(* The inductive invariant *)

QueueInv == TypeOK /\ LengthExact /\ WakeUpInv

\* The queue is empty at the start.
LEMMA InitInv == Init => QueueInv
<1> SUFFICES ASSUME Init PROVE QueueInv
  OBVIOUS
<1>1. Empty \in [Priority -> Seq(Item)]
  BY EmptyShape DEF Shape, Contents
<1>2. Total(Empty) = 0
  BY EmptyShape DEF Shape
<1>3. TypeOK
  <2>1. queues \in [Priority -> Seq(Item)]
    BY <1>1 DEF Init
  <2>2. length \in Nat /\ nextId \in 1..(MaxAdds + 1) /\ orphaned \in Nat
    BY MaxAddsAssumption DEF Init
  <2>3. inFlight \subseteq Item /\ settled \subseteq Item /\ lost \subseteq Item
    BY DEF Init
  <2>4. /\ active \in BOOLEAN /\ isProcessing \in BOOLEAN /\ timer \in BOOLEAN
        /\ canProcess \in BOOLEAN
    BY DEF Init
  <2>5. QED
    BY <2>1, <2>2, <2>3, <2>4 DEF TypeOK
<1>4. LengthExact
  BY <1>2, MaxSizeAssumption DEF Init, LengthExact
<1>5. WakeUpInv
  BY DEF Init, WakeUpInv, NoStrandedWork
<1>6. QED
  BY <1>3, <1>4, <1>5 DEF QueueInv

\* The rest of add(), given room: an exact content goes in, QueueInv comes out.
LEMMA EnqueueInv ==
  ASSUME QueueInv, NEW p \in Priority, NEW q, NEW len, Shape(q, len),
         nextId \in Item, Enqueue(p, q, len)
  PROVE  /\ Shape(queues', length') /\ length' <= len + 1
         /\ active' \in BOOLEAN /\ isProcessing' \in BOOLEAN /\ timer' \in BOOLEAN
         /\ inFlight' \subseteq Item
         /\ WakeUpInv'
<1> DEFINE pushed == [q EXCEPT ![p] = Append(@, nextId)]
<1>1. Shape(pushed, len + 1)
  BY PushShape
<1>2. TypeOK /\ WakeUpInv
  BY DEF QueueInv
<1>3. CASE active
  <2>1. /\ queues' = pushed /\ length' = len + 1
        /\ timer' = (timer \/ ~isProcessing)
        /\ UNCHANGED <<active, isProcessing, inFlight>>
    BY <1>3 DEF Enqueue
  <2>2. WakeUpInv'
    BY <1>2, <1>3, <2>1 DEF WakeUpInv, NoStrandedWork, TypeOK
  <2>3. QED
    BY <1>1, <1>2, <2>1, <2>2 DEF TypeOK, Shape
<1>4. CASE ~active
  <2>1. Process(pushed, len + 1, TRUE, timer)
    BY <1>4 DEF Enqueue
  <2>2. timer = FALSE
    BY <1>2, <1>4 DEF WakeUpInv, TypeOK
  <2>3. WakeUpInv'
    BY <1>1, <1>2, <2>1, <2>2, ProcessWakes
  <2>4. /\ Shape(queues', length') /\ length' <= len + 1
        /\ active' \in BOOLEAN /\ isProcessing' \in BOOLEAN /\ timer' \in BOOLEAN
        /\ inFlight' \subseteq Item
    BY <1>1, <1>2, <2>1, <2>2, ProcessShape
  <2>5. QED
    BY <2>3, <2>4
<1>5. QED
  BY <1>3, <1>4

\* Every step keeps the invariant.
LEMMA NextInv == QueueInv /\ [Next]_vars => QueueInv'
<1> SUFFICES ASSUME QueueInv, [Next]_vars PROVE QueueInv'
  OBVIOUS
<1>1. TypeOK /\ LengthExact /\ WakeUpInv /\ Shape(queues, length)
  BY DEF QueueInv, TypeOK, LengthExact, Shape, Contents
<1>2. ASSUME NEW p \in Priority, Add(p) PROVE QueueInv'
  <2>1. /\ nextId \in Item /\ nextId' = nextId + 1
        /\ UNCHANGED <<canProcess, settled, orphaned>>
    BY <1>2 DEF Add
  <2>2. CASE ~Full /\ Enqueue(p, queues, length) /\ lost' = lost
    <3>1. /\ Shape(queues', length') /\ length' <= length + 1
          /\ active' \in BOOLEAN /\ isProcessing' \in BOOLEAN /\ timer' \in BOOLEAN
          /\ inFlight' \subseteq Item /\ WakeUpInv'
      BY <1>1, <2>1, <2>2, EnqueueInv
    <3>2 TypeOK'
      <4>1. queues' \in [Priority -> Seq(Item)] /\ length' \in Nat
        BY <3>1 DEF Shape, Contents
      <4>2. nextId' \in 1..(MaxAdds + 1)
        BY <2>1, MaxAddsAssumption DEF Item
      <4>3. inFlight' \subseteq Item /\ settled' \subseteq Item /\ lost' \subseteq Item
        BY <1>1, <2>1, <2>2, <3>1 DEF TypeOK
      <4>4. canProcess' \in BOOLEAN /\ orphaned' \in Nat
        BY <1>1, <2>1 DEF TypeOK
      <4>5. QED
        BY <4>1, <4>2, <4>3, <4>4, <3>1 DEF TypeOK
    <3>3. LengthExact'
      BY <1>1, <2>2, <3>1, MaxSizeAssumption DEF LengthExact, Full, Shape
    <3>4. QED
      BY <3>1, <3>2, <3>3 DEF QueueInv
  <2>3. ASSUME Full, NEW r \in Rear(queues), Enqueue(p, TakeFrom(queues, r), length - 1),
               lost' = lost \union {Head(queues[r])}
        PROVE  QueueInv'
    <3>1. r \in NonEmpty(queues)
      BY DEF Rear
    <3>2. Shape(TakeFrom(queues, r), length - 1) /\ Head(queues[r]) \in Item
      BY <1>1, <3>1, TakeShape
    <3>3. /\ Shape(queues', length') /\ length' <= (length - 1) + 1
          /\ active' \in BOOLEAN /\ isProcessing' \in BOOLEAN /\ timer' \in BOOLEAN
          /\ inFlight' \subseteq Item /\ WakeUpInv'
      BY <2>1, <2>3, <3>2, EnqueueInv
    <3>4 TypeOK'
      <4>1. queues' \in [Priority -> Seq(Item)] /\ length' \in Nat
        BY <3>3 DEF Shape, Contents
      <4>2. nextId' \in 1..(MaxAdds + 1)
        BY <2>1, MaxAddsAssumption DEF Item
      <4>3. inFlight' \subseteq Item /\ settled' \subseteq Item /\ lost' \subseteq Item
        BY <1>1, <2>1, <2>3, <3>2, <3>3 DEF TypeOK
      <4>4. canProcess' \in BOOLEAN /\ orphaned' \in Nat
        BY <1>1, <2>1 DEF TypeOK
      <4>5. QED
        BY <4>1, <4>2, <4>3, <4>4, <3>3 DEF TypeOK
    <3>5. LengthExact'
      BY <1>1, <3>3, MaxSizeAssumption DEF LengthExact, Shape
    <3>6. QED
      BY <3>3, <3>4, <3>5 DEF QueueInv
  <2>4. QED
    BY <1>2, <2>2, <2>3 DEF Add
<1>3. CASE TimerFires
  <2>1. timer /\ Process(queues, length, active, FALSE)
    BY <1>3 DEF TimerFires
  <2>2. active
    BY <1>1, <2>1 DEF WakeUpInv
  <2>3. /\ Shape(queues', length') /\ length' <= length
        /\ active' \in BOOLEAN /\ isProcessing' \in BOOLEAN /\ timer' \in BOOLEAN
        /\ inFlight' \subseteq Item
    BY <1>1, <2>1, <2>2, ProcessShape
  <2>4. WakeUpInv'
    BY <1>1, <2>1, <2>2, ProcessWakes
  <2>5. TypeOK'
    BY <1>1, <1>3, <2>3 DEF TimerFires, TypeOK, Shape, Contents
  <2>6. LengthExact'
    BY <1>1, <2>3, MaxSizeAssumption DEF LengthExact, Shape
  <2>7. QED
    BY <2>4, <2>5, <2>6 DEF QueueInv
<1>4. ASSUME NEW i \in Item, Finish(i) PROVE QueueInv'
  <2>1. TypeOK' /\ LengthExact'
    BY <1>1, <1>4 DEF Finish, FinishProcess, TypeOK, LengthExact
  <2>2. WakeUpInv'
    BY <1>1, <1>4 DEF Finish, FinishProcess, TypeOK, WakeUpInv, NoStrandedWork
  <2>3. QED
    BY <2>1, <2>2 DEF QueueInv
<1>5. CASE Clear
  <2>1. Empty \in [Priority -> Seq(Item)] /\ Total(Empty) = 0
    BY EmptyShape DEF Shape, Contents
  <2>2. ItemsIn(queues) \subseteq Item
    BY <1>1 DEF ItemsIn, TypeOK
  <2>3. TypeOK'
    <3>1. queues' \in [Priority -> Seq(Item)] /\ length' \in Nat
      BY <1>5, <2>1 DEF Clear
    <3>2. inFlight' \subseteq Item /\ settled' \subseteq Item /\ lost' \subseteq Item
      BY <1>1, <1>5, <2>2 DEF Clear, TypeOK
    <3>3. orphaned' \in Nat
      BY <1>1, <1>5 DEF Clear, TypeOK
    <3>4. QED
      BY <1>1, <1>5, <3>1, <3>2, <3>3 DEF Clear, TypeOK
  <2>4. LengthExact'
    BY <1>5, <2>1, MaxSizeAssumption DEF Clear, LengthExact
  <2>5. WakeUpInv'
    BY <1>5 DEF Clear, WakeUpInv, NoStrandedWork
  <2>6. QED
    BY <2>3, <2>4, <2>5 DEF QueueInv
<1>6. CASE GateChanges
  BY <1>1, <1>6 DEF GateChanges, QueueInv, TypeOK, LengthExact, WakeUpInv, NoStrandedWork, qvars
<1>7. CASE UNCHANGED vars
  BY <1>1, <1>7 DEF vars, QueueInv, TypeOK, LengthExact, WakeUpInv, NoStrandedWork, qvars
<1>8. QED
  BY <1>2, <1>3, <1>4, <1>5, <1>6, <1>7 DEF Next

\* So it always holds.
LEMMA QueueInvariant == Spec => []QueueInv
BY InitInv, NextInv, PTL DEF Spec

\* Every variable of the queue keeps its type (throttledQueue.js:12-54).
THEOREM QueueTypes == Spec => []TypeOK
<1>1. QueueInv => TypeOK
  BY DEF QueueInv
<1>2. QED
  BY <1>1, QueueInvariant, PTL

\* The depth counter is exact and, with a cap, never above it, for every cap and
\* every number of items (throttledQueue.js:56-73, 155-208).
THEOREM QueueLengthExact == Spec => []LengthExact
<1>1. QueueInv => LengthExact
  BY DEF QueueInv
<1>2. QED
  BY <1>1, QueueInvariant, PTL

\* No wake-up is ever lost: waiting work has an armed timer or a send in flight
\* that will arm one (throttledQueue.js:64-72, 117-124, 137-146).
THEOREM QueueNoStrandedWork == Spec => []NoStrandedWork
<1>1. QueueInv => NoStrandedWork
  BY DEF QueueInv, WakeUpInv
<1>2. QED
  BY <1>1, QueueInvariant, PTL

-----------------------------------------------------------------------------
(* Serial sends *)

\* A set of items is finite, and one more or one fewer changes its size by at most one.
LEMMA InFlightSize ==
  ASSUME NEW S, S \subseteq Item, NEW i \in Item
  PROVE  /\ Cardinality(S) \in Nat
         /\ Cardinality(S \union {i}) <= Cardinality(S) + 1
         /\ i \in S => Cardinality(S \ {i}) = Cardinality(S) - 1
<1>1. IsFiniteSet(Item)
  BY MaxAddsAssumption, FS_Interval DEF Item
<1>2. IsFiniteSet(S)
  BY <1>1, FS_Subset
<1>3. Cardinality(S) \in Nat
  BY <1>2, FS_CardinalityType
<1>4. Cardinality(S \union {i}) <= Cardinality(S) + 1
  <2>1. Cardinality(S \union {i}) = IF i \in S THEN Cardinality(S) ELSE Cardinality(S) + 1
    BY <1>2, FS_AddElement
  <2>2. QED
    BY <1>3, <2>1
<1>5. i \in S => Cardinality(S \ {i}) = Cardinality(S) - 1
  BY <1>2, FS_RemoveElement
<1>6. QED
  BY <1>3, <1>4, <1>5

\* _process starts at most one item, and only when none is being processed.
LEMMA ProcessSerial ==
  ASSUME NEW q, NEW len, NEW act \in BOOLEAN, NEW tm \in BOOLEAN,
         TypeOK, SerialUpToClears, Shape(q, len), Process(q, len, act, tm),
         orphaned' = orphaned
  PROVE  SerialUpToClears'
<1>1. CASE isProcessing \/ len = 0 \/ ~canProcess
  <2>1. UNCHANGED <<isProcessing, inFlight>>
    BY <1>1 DEF Process
  <2>2. QED
    BY <2>1 DEF SerialUpToClears
<1>2. CASE ~(isProcessing \/ len = 0 \/ ~canProcess)
  <2>1. PICK p \in MostUrgent(q) : inFlight' = inFlight \union {Head(q[p])}
    BY <1>2 DEF Process, Send
  <2>2. Head(q[p]) \in Item
    BY TakeShape DEF MostUrgent
  <2>3. Cardinality(inFlight') <= Cardinality(inFlight) + 1 /\ Cardinality(inFlight) \in Nat
    <3>1. inFlight \subseteq Item
      BY DEF TypeOK
    <3>2. QED
      BY <2>1, <2>2, <3>1, InFlightSize
  <2>4. Cardinality(inFlight') \in Nat
    BY <2>1, <2>2, InFlightSize DEF TypeOK
  <2>5. isProcessing' = TRUE /\ Cardinality(inFlight) <= orphaned
    BY <1>2 DEF Process, Send, SerialUpToClears, TypeOK
  <2>6. QED
    BY <2>3, <2>4, <2>5 DEF SerialUpToClears, TypeOK
<1>3. QED
  BY <1>1, <1>2

\* Every step keeps the sends serialised, up to those that a clear abandoned.
LEMMA NextSerial ==
  QueueInv /\ SerialUpToClears /\ [Next]_vars => SerialUpToClears'
<1> SUFFICES ASSUME QueueInv, SerialUpToClears, [Next]_vars PROVE SerialUpToClears'
  OBVIOUS
<1>1. TypeOK /\ WakeUpInv /\ Shape(queues, length)
  BY DEF QueueInv, TypeOK, LengthExact, Shape, Contents
<1>2. ASSUME NEW p \in Priority, NEW q, NEW len, Shape(q, len), nextId \in Item,
             Enqueue(p, q, len), orphaned' = orphaned
      PROVE  SerialUpToClears'
  <2>1. CASE active
    <3>1. UNCHANGED <<isProcessing, inFlight>>
      BY <1>2, <2>1 DEF Enqueue
    <3>2. QED
      BY <1>2, <3>1 DEF SerialUpToClears
  <2>2. CASE ~active
    <3>1. Process([q EXCEPT ![p] = Append(@, nextId)], len + 1, TRUE, timer)
      BY <1>2, <2>2 DEF Enqueue
    <3>2. Shape([q EXCEPT ![p] = Append(@, nextId)], len + 1)
      BY <1>2, PushShape
    <3>3. timer \in BOOLEAN
      BY <1>1 DEF TypeOK
    <3>4. QED
      BY <1>1, <1>2, <3>1, <3>2, <3>3, ProcessSerial
  <2>3. QED
    BY <2>1, <2>2
<1>3. ASSUME NEW p \in Priority, Add(p) PROVE SerialUpToClears'
  <2>1. nextId \in Item /\ orphaned' = orphaned
    BY <1>3 DEF Add
  <2>2. CASE ~Full /\ Enqueue(p, queues, length)
    BY <1>1, <1>2, <2>1, <2>2
  <2>3. ASSUME NEW r \in Rear(queues), Enqueue(p, TakeFrom(queues, r), length - 1)
        PROVE  SerialUpToClears'
    <3>1. Shape(TakeFrom(queues, r), length - 1)
      BY <1>1, TakeShape DEF Rear
    <3>2. QED
      BY <1>2, <2>1, <2>3, <3>1
  <2>4. QED
    BY <1>3, <2>2, <2>3 DEF Add
<1>4. CASE TimerFires
  <2>1. Process(queues, length, active, FALSE) /\ orphaned' = orphaned /\ active \in BOOLEAN
    BY <1>1, <1>4 DEF TimerFires, TypeOK
  <2>2. QED
    BY <1>1, <2>1, ProcessSerial
<1>5. ASSUME NEW i \in Item, Finish(i) PROVE SerialUpToClears'
  <2>1. i \in inFlight /\ inFlight' = inFlight \ {i} /\ isProcessing' = FALSE /\ orphaned' = orphaned
    BY <1>5 DEF Finish, FinishProcess
  <2>2. Cardinality(inFlight') = Cardinality(inFlight) - 1 /\ Cardinality(inFlight) \in Nat
    BY <1>1, <2>1, InFlightSize DEF TypeOK
  <2>3. orphaned \in Nat
    BY <1>1 DEF TypeOK
  <2>4. QED
    BY <2>1, <2>2, <2>3 DEF SerialUpToClears
<1>6. CASE Clear
  <2>1. inFlight' = inFlight /\ isProcessing' = FALSE
        /\ orphaned' = IF isProcessing THEN orphaned + 1 ELSE orphaned
    BY <1>6 DEF Clear
  <2>2. orphaned \in Nat
    BY <1>1 DEF TypeOK
  <2>3. QED
    BY <2>1, <2>2 DEF SerialUpToClears
<1>7. CASE GateChanges \/ UNCHANGED vars
  <2>1. UNCHANGED <<isProcessing, inFlight, orphaned>>
    BY <1>7 DEF GateChanges, qvars, vars
  <2>2. QED
    BY <2>1 DEF SerialUpToClears
<1>8. QED
  BY <1>3, <1>4, <1>5, <1>6, <1>7 DEF Next

\* However adds, timers, completions and clears interleave, the number of sends in
\* flight never exceeds one plus the sends that clear() abandoned
\* (throttledQueue.js:75-124, 218-225).
THEOREM QueueSerial == Spec => []SerialUpToClears
<1>1. Init => SerialUpToClears
  BY FS_EmptySet DEF Init, SerialUpToClears
<1>2. QED
  BY <1>1, NextSerial, QueueInvariant, PTL DEF Spec

\* All that the runs check of the queue's state, for every cap and every number of
\* commands (throttledQueue.js:56-225).
THEOREM QueueIsSound == Spec => []QueueSound
BY QueueTypes, QueueLengthExact, QueueNoStrandedWork, QueueSerial, PTL DEF QueueSound

-----------------------------------------------------------------------------
(* The queue implements PriorityDispatch *)

\* The record that stands for item i of class c in the abstract queue.
Command(i, c) == [id |-> i, class |-> c]

\* Items of a class wait in the order they were added.
OldestFirst(q) == \A p \in Priority : \A j, k \in 1..Len(q[p]) : j < k => q[p][j] < q[p][k]

\* Only items numbered below n wait, and fewer than n in each class.
Below(q, n) == \A p \in Priority : /\ Len(q[p]) < n
                                  /\ \A k \in 1..Len(q[p]) : q[p][k] < n

\* A content whose counter also counts the abstract queue.
Counted(q, len) == IsFiniteSet(Queued(q)) /\ Cardinality(Queued(q)) = len

Neat(q, len, n) == Shape(q, len) /\ OldestFirst(q) /\ Below(q, n) /\ Counted(q, len)

\* The abstract specification counts as the queue does.
LEMMA SameCardinality == \A S : Dispatch!Cardinality(S) = Cardinality(S)
BY DEF Dispatch!Cardinality, Cardinality

\* Membership in the abstract queue.
LEMMA WaitingMember ==
  ASSUME NEW q, NEW d
  PROVE  d \in Queued(q) <=> \E p \in Priority : \E k \in 1..Len(q[p]) : d = Command(q[p][k], p)
BY DEF Queued, Command

\* A command is its number and its class.
LEMMA CommandParts ==
  ASSUME NEW i, NEW c, NEW j, NEW d
  PROVE  /\ Command(i, c).id = i /\ Command(i, c).class = c
         /\ Command(i, c) = Command(j, d) <=> i = j /\ c = d
<1>1. Command(i, c).id = i /\ Command(i, c).class = c
  BY DEF Command
<1>2. Command(j, d).id = j /\ Command(j, d).class = d
  BY DEF Command
<1>3. QED
  BY <1>1, <1>2

\* Taking the oldest item of a class removes its record, and no other, from the
\* abstract queue.
LEMMA TakeWaiting ==
  ASSUME NEW q \in Contents, OldestFirst(q), NEW p \in NonEmpty(q)
  PROVE  /\ Command(Head(q[p]), p) \in Queued(q)
         /\ Queued(TakeFrom(q, p)) = Queued(q) \ {Command(Head(q[p]), p)}
<1> DEFINE t == TakeFrom(q, p)
           c == Command(Head(q[p]), p)
<1>1. p \in Priority /\ q[p] \in Seq(Item) /\ q[p] # <<>>
  BY DEF Contents, NonEmpty
<1>2. /\ Len(q[p]) \in Nat /\ Len(q[p]) > 0 /\ Head(q[p]) = q[p][1]
      /\ Tail(q[p]) \in Seq(Item) /\ Len(Tail(q[p])) = Len(q[p]) - 1
      /\ \A k \in 1..(Len(q[p]) - 1) : Tail(q[p])[k] = q[p][k + 1]
  BY <1>1
<1>3. t[p] = Tail(q[p]) /\ \A r \in Priority \ {p} : t[r] = q[r]
  BY <1>1 DEF TakeFrom, Contents
<1>4. c \in Queued(q)
  <2>1. 1 \in 1..Len(q[p]) /\ c = Command(q[p][1], p)
    BY <1>2
  <2>2. QED
    BY <1>1, <2>1, WaitingMember
<1>5. ASSUME NEW d \in Queued(t) PROVE d \in Queued(q) \ {c}
  <2>1. PICK r \in Priority : \E k \in 1..Len(t[r]) : d = Command(t[r][k], r)
    BY <1>5, WaitingMember
  <2>2. PICK k \in 1..Len(t[r]) : d = Command(t[r][k], r)
    BY <2>1
  <2>3. CASE r = p
    <3>1. k \in 1..(Len(q[p]) - 1) /\ t[r][k] = q[p][k + 1]
      BY <1>2, <1>3, <2>3, <2>2
    <3>2. k + 1 \in 1..Len(q[p]) /\ 1 \in 1..Len(q[p]) /\ 1 < k + 1
      BY <1>2, <3>1
    <3>3. d = Command(q[p][k + 1], p) /\ q[p][1] < q[p][k + 1]
      BY <1>1, <2>2, <2>3, <3>1, <3>2 DEF OldestFirst
    <3>4. q[p][1] \in Item /\ q[p][k + 1] \in Item
      BY <1>1, <3>2
    <3>5. q[p][1] # q[p][k + 1]
      BY <3>3, <3>4 DEF Item
    <3>6. d \in Queued(q)
      BY <1>1, <3>2, <3>3, WaitingMember
    <3>7. d # c
      BY <1>2, <3>3, <3>5, CommandParts
    <3>8. QED
      BY <3>6, <3>7
  <2>4. CASE r # p
    <3>1. t[r] = q[r]
      BY <1>3, <2>4
    <3>2. d \in Queued(q)
      BY <2>2, <3>1, WaitingMember
    <3>3. d # c
      BY <2>2, <2>4, CommandParts
    <3>4. QED
      BY <3>2, <3>3
  <2>5. QED
    BY <2>3, <2>4
<1>6. ASSUME NEW d \in Queued(q), d # c PROVE d \in Queued(t)
  <2>1. PICK r \in Priority : \E k \in 1..Len(q[r]) : d = Command(q[r][k], r)
    BY <1>6, WaitingMember
  <2>2. PICK k \in 1..Len(q[r]) : d = Command(q[r][k], r)
    BY <2>1
  <2>3. CASE r = p
    <3>1. k # 1
      BY <1>2, <1>6, <2>2, <2>3
    <3>2. k - 1 \in 1..(Len(q[p]) - 1) /\ (k - 1) + 1 = k
      BY <1>2, <2>2, <2>3, <3>1
    <3>3. k - 1 \in 1..Len(t[p]) /\ t[p][k - 1] = q[p][k]
      BY <1>2, <1>3, <3>2
    <3>4. QED
      BY <1>1, <2>2, <2>3, <3>3, WaitingMember
  <2>4. CASE r # p
    <3>1. t[r] = q[r]
      BY <1>3, <2>4
    <3>2. QED
      BY <2>2, <3>1, WaitingMember
  <2>5. QED
    BY <2>3, <2>4
<1>7. QED
  BY <1>4, <1>5, <1>6

\* A queue stays neat when its front is taken,
LEMMA TakeNeat ==
  ASSUME NEW q, NEW len, NEW n \in Nat, Neat(q, len, n), NEW p \in NonEmpty(q)
  PROVE  Neat(TakeFrom(q, p), len - 1, n)
<1> DEFINE t == TakeFrom(q, p)
<1>1. p \in Priority /\ q \in Contents /\ q[p] \in Seq(Item) /\ q[p] # <<>>
  BY DEF Neat, Shape, Contents, NonEmpty
<1>2. /\ Len(q[p]) \in Nat /\ Len(q[p]) > 0
      /\ Tail(q[p]) \in Seq(Item) /\ Len(Tail(q[p])) = Len(q[p]) - 1
      /\ \A k \in 1..(Len(q[p]) - 1) : Tail(q[p])[k] = q[p][k + 1]
  BY <1>1
<1>3. t[p] = Tail(q[p]) /\ \A r \in Priority \ {p} : t[r] = q[r]
  BY <1>1 DEF TakeFrom, Contents
<1>4. Shape(t, len - 1)
  BY TakeShape DEF Neat
<1>5. OldestFirst(t)
  <2>1. SUFFICES ASSUME NEW r \in Priority, NEW j \in 1..Len(t[r]), NEW k \in 1..Len(t[r]), j < k
                 PROVE  t[r][j] < t[r][k]
    BY DEF OldestFirst
  <2>2. CASE r = p
    <3>1. t[r] = Tail(q[p])
      BY <1>3, <2>2
    <3>2. j \in 1..(Len(q[p]) - 1) /\ k \in 1..(Len(q[p]) - 1)
      BY <1>2, <3>1
    <3>3. j + 1 \in 1..Len(q[p]) /\ k + 1 \in 1..Len(q[p]) /\ j + 1 < k + 1
      BY <1>2, <2>1, <3>2
    <3>4. t[r][j] = q[p][j + 1] /\ t[r][k] = q[p][k + 1]
      BY <1>2, <3>1, <3>2
    <3>5. QED
      BY <1>1, <3>3, <3>4 DEF Neat, OldestFirst
  <2>3. CASE r # p
    BY <1>3, <2>1, <2>3 DEF Neat, OldestFirst
  <2>4. QED
    BY <2>2, <2>3
<1>6. Below(t, n)
  <2>1. SUFFICES ASSUME NEW r \in Priority
                 PROVE  Len(t[r]) < n /\ \A k \in 1..Len(t[r]) : t[r][k] < n
    BY DEF Below
  <2>2. CASE r = p
    <3>1. Len(q[p]) < n /\ \A k \in 1..Len(q[p]) : q[p][k] < n
      BY <1>1 DEF Neat, Below
    <3>2. t[r] = Tail(q[p])
      BY <1>3, <2>2
    <3>3. Len(t[r]) < n
      BY <1>2, <3>1, <3>2
    <3>4. ASSUME NEW k \in 1..Len(t[r]) PROVE t[r][k] < n
      <4>1. k \in 1..(Len(q[p]) - 1)
        BY <1>2, <3>2
      <4>2. t[r][k] = q[p][k + 1] /\ k + 1 \in 1..Len(q[p])
        BY <1>2, <3>2, <4>1
      <4>3. QED
        BY <3>1, <4>2
    <3>5. QED
      BY <3>3, <3>4
  <2>3. CASE r # p
    BY <1>3, <2>3 DEF Neat, Below
  <2>4. QED
    BY <2>2, <2>3
<1>7. Counted(t, len - 1)
  <2>1. OldestFirst(q) /\ IsFiniteSet(Queued(q)) /\ Cardinality(Queued(q)) = len
    BY DEF Neat, Counted
  <2>2. /\ Command(Head(q[p]), p) \in Queued(q)
        /\ Queued(t) = Queued(q) \ {Command(Head(q[p]), p)}
    BY <1>1, <2>1, TakeWaiting
  <2>3. IsFiniteSet(Queued(t)) /\ Cardinality(Queued(t)) = len - 1
    BY <2>1, <2>2, FS_RemoveElement
  <2>4. QED
    BY <2>3 DEF Counted
<1>8. QED
  BY <1>4, <1>5, <1>6, <1>7 DEF Neat

\* Appending a new item adds its record to the abstract queue.
LEMMA PushWaiting ==
  ASSUME NEW q \in Contents, NEW p \in Priority, NEW i \in Item
  PROVE  Queued([q EXCEPT ![p] = Append(@, i)]) = Queued(q) \union {Command(i, p)}
<1> DEFINE t == [q EXCEPT ![p] = Append(@, i)]
<1>1. /\ q[p] \in Seq(Item) /\ Len(q[p]) \in Nat
      /\ Len(Append(q[p], i)) = Len(q[p]) + 1
      /\ Append(q[p], i)[Len(q[p]) + 1] = i
      /\ \A k \in 1..Len(q[p]) : Append(q[p], i)[k] = q[p][k]
  BY DEF Contents
<1>2. t[p] = Append(q[p], i) /\ \A r \in Priority \ {p} : t[r] = q[r]
  BY DEF Contents
<1> HIDE DEF t
<1>3. ASSUME NEW d \in Queued(t) PROVE d \in Queued(q) \union {Command(i, p)}
  <2>1. PICK r \in Priority : \E k \in 1..Len(t[r]) : d = Command(t[r][k], r)
    BY <1>3, WaitingMember
  <2>2. PICK k \in 1..Len(t[r]) : d = Command(t[r][k], r)
    BY <2>1
  <2>3. CASE r = p
    <3>1. t[r] = Append(q[p], i)
      BY <1>2, <2>3
    <3>2. k \in 1..Len(q[p]) \/ k = Len(q[p]) + 1
      BY <1>1, <3>1
    <3>3. CASE k = Len(q[p]) + 1
      BY <1>1, <2>2, <2>3, <3>1, <3>3
    <3>4. CASE k \in 1..Len(q[p])
      <4>1. d = Command(q[p][k], p)
        BY <1>1, <2>2, <2>3, <3>1, <3>4
      <4>2. QED
        BY <3>4, <4>1, WaitingMember
    <3>5. QED
      BY <3>2, <3>3, <3>4
  <2>4. CASE r # p
    <3>1. t[r] = q[r]
      BY <1>2, <2>4
    <3>2. QED
      BY <2>2, <3>1, WaitingMember
  <2>5. QED
    BY <2>3, <2>4
<1>4. ASSUME NEW d \in Queued(q) PROVE d \in Queued(t)
  <2>1. PICK r \in Priority : \E k \in 1..Len(q[r]) : d = Command(q[r][k], r)
    BY <1>4, WaitingMember
  <2>2. PICK k \in 1..Len(q[r]) : d = Command(q[r][k], r)
    BY <2>1
  <2>3. k \in 1..Len(t[r]) /\ t[r][k] = q[r][k]
    <3>1. CASE r = p
      BY <1>1, <1>2, <3>1
    <3>2. CASE r # p
      BY <1>2, <3>2
    <3>3. QED
      BY <3>1, <3>2
  <2>4. QED
    BY <2>2, <2>3, WaitingMember
<1>5. Command(i, p) \in Queued(t)
  <2>1. Len(q[p]) + 1 \in 1..Len(t[p]) /\ Command(i, p) = Command(t[p][Len(q[p]) + 1], p)
    BY <1>1, <1>2
  <2>2. QED
    BY <2>1, WaitingMember
<1>6. QED
  BY <1>3, <1>4, <1>5 DEF t

\* and when the next command joins.
LEMMA PushNeat ==
  ASSUME NEW q, NEW len, NEW n \in Item, Neat(q, len, n), NEW p \in Priority
  PROVE  Neat([q EXCEPT ![p] = Append(@, n)], len + 1, n + 1)
<1> DEFINE t == [q EXCEPT ![p] = Append(@, n)]
<1>1. q \in Contents /\ q[p] \in Seq(Item) /\ n \in Nat
  BY DEF Neat, Shape, Contents, Item
<1>2. /\ Len(q[p]) \in Nat /\ Len(Append(q[p], n)) = Len(q[p]) + 1
      /\ Append(q[p], n)[Len(q[p]) + 1] = n
      /\ \A k \in 1..Len(q[p]) : Append(q[p], n)[k] = q[p][k]
  BY <1>1
<1>3. t[p] = Append(q[p], n) /\ \A r \in Priority \ {p} : t[r] = q[r]
  BY <1>1 DEF Contents
<1>4. Shape(t, len + 1)
  BY PushShape DEF Neat
<1>5. Queued(t) = Queued(q) \union {Command(n, p)}
  BY <1>1, PushWaiting
<1> HIDE DEF t
<1>6. OldestFirst(t)
  <2>1. SUFFICES ASSUME NEW r \in Priority, NEW j \in 1..Len(t[r]), NEW k \in 1..Len(t[r]), j < k
                 PROVE  t[r][j] < t[r][k]
    BY DEF OldestFirst
  <2>2. CASE r = p
    <3>1. t[r] = Append(q[p], n)
      BY <1>3, <2>2
    <3>2. j \in 1..(Len(q[p]) + 1) /\ k \in 1..(Len(q[p]) + 1)
      BY <1>2, <3>1
    <3>3. j \in 1..Len(q[p]) /\ t[r][j] = q[p][j]
      BY <1>2, <2>1, <3>1, <3>2
    <3>4. CASE k = Len(q[p]) + 1
      <4>1. t[r][k] = n
        BY <1>2, <3>1, <3>4
      <4>2. QED
        BY <3>3, <4>1 DEF Neat, Below
    <3>5. CASE k # Len(q[p]) + 1
      <4>1. k \in 1..Len(q[p]) /\ t[r][k] = q[p][k]
        BY <1>2, <3>1, <3>2, <3>5
      <4>2. QED
        BY <2>1, <3>3, <4>1 DEF Neat, OldestFirst
    <3>6. QED
      BY <3>4, <3>5
  <2>3. CASE r # p
    BY <1>3, <2>1, <2>3 DEF Neat, OldestFirst
  <2>4. QED
    BY <2>2, <2>3
<1>7. Below(t, n + 1)
  <2>1. SUFFICES ASSUME NEW r \in Priority
                 PROVE  Len(t[r]) < n + 1 /\ \A k \in 1..Len(t[r]) : t[r][k] < n + 1
    BY DEF Below
  <2>2. Len(q[r]) < n /\ (\A k \in 1..Len(q[r]) : q[r][k] < n) /\ q[r] \in Seq(Item)
    BY DEF Neat, Below, Shape, Contents
  <2>3. CASE r = p
    <3>1. t[r] = Append(q[p], n)
      BY <1>3, <2>3
    <3>2. Len(t[r]) < n + 1
      BY <1>1, <1>2, <2>2, <2>3, <3>1
    <3>3. ASSUME NEW k \in 1..Len(t[r]) PROVE t[r][k] < n + 1
      <4>1. k \in 1..Len(q[p]) \/ k = Len(q[p]) + 1
        BY <1>2, <3>1
      <4>2. CASE k = Len(q[p]) + 1
        BY <1>1, <1>2, <3>1, <4>2
      <4>3. CASE k \in 1..Len(q[p])
        <5>1. t[r][k] = q[p][k] /\ q[p][k] < n /\ q[p][k] \in Item
          BY <1>1, <1>2, <2>2, <2>3, <3>1, <4>3
        <5>2. QED
          BY <1>1, <5>1 DEF Item
      <4>4. QED
        BY <4>1, <4>2, <4>3
    <3>4. QED
      BY <3>2, <3>3
  <2>4. CASE r # p
    <3>1. t[r] = q[r]
      BY <1>3, <2>4
    <3>2. Len(q[r]) \in Nat
      BY <2>2
    <3>3. ASSUME NEW k \in 1..Len(q[r]) PROVE q[r][k] < n + 1
      <4>1. q[r][k] \in Item /\ q[r][k] < n
        BY <2>2
      <4>2. QED
        BY <1>1, <4>1 DEF Item
    <3>4. QED
      BY <1>1, <2>2, <3>1, <3>2, <3>3
  <2>5. QED
    BY <2>3, <2>4
<1>8. Counted(t, len + 1)
  <2>1. Command(n, p) \notin Queued(q)
    <3>1. SUFFICES ASSUME Command(n, p) \in Queued(q) PROVE FALSE
      OBVIOUS
    <3>2. PICK r \in Priority : \E k \in 1..Len(q[r]) : Command(n, p) = Command(q[r][k], r)
      BY <3>1, WaitingMember
    <3>3. PICK k \in 1..Len(q[r]) : Command(n, p) = Command(q[r][k], r)
      BY <3>2
    <3>4. n = q[r][k]
      BY <3>3, CommandParts
    <3>5. q[r][k] < n
      BY DEF Neat, Below
    <3>6. QED
      BY <1>1, <3>4, <3>5
  <2>2. IsFiniteSet(Queued(q)) /\ Cardinality(Queued(q)) = len
    BY DEF Neat, Counted
  <2>3. IsFiniteSet(Queued(t)) /\ Cardinality(Queued(t)) = len + 1
    BY <1>5, <2>1, <2>2, FS_AddElement
  <2>4. QED
    BY <2>3 DEF Counted
<1>9. QED
  BY <1>4, <1>6, <1>7, <1>8 DEF Neat, t

\* The class that is served is at least as urgent as every class that waits, and the
\* class that is evicted from at most as urgent.
LEMMA FrontIsFirst ==
  ASSUME NEW q \in Contents, OldestFirst(q), NEW p \in MostUrgent(q)
  PROVE  Dispatch!IsFirst(Command(Head(q[p]), p), Queued(q))
<1> DEFINE c == Command(Head(q[p]), p)
<1>1. p \in Priority /\ q[p] \in Seq(Item) /\ q[p] # <<>>
  BY DEF Contents, MostUrgent, NonEmpty
<1>2. Len(q[p]) \in Nat /\ 1 \in 1..Len(q[p]) /\ Head(q[p]) = q[p][1]
  BY <1>1
<1>3. ASSUME NEW d \in Queued(q) \ {c}
      PROVE  Dispatch!MoreUrgent(c.class, d.class) \/ (c.class = d.class /\ c.id < d.id)
  <2>1. PICK r \in Priority : \E k \in 1..Len(q[r]) : d = Command(q[r][k], r)
    BY <1>3, WaitingMember
  <2>2. PICK k \in 1..Len(q[r]) : d = Command(q[r][k], r)
    BY <2>1
  <2>3. /\ d.id = q[r][k] /\ d.class = r
        /\ c.id = q[p][1] /\ c.class = p
    BY <1>2, <2>2, CommandParts
  <2>4. q[r] # <<>>
    BY <2>2
  <2>5. Rank[p] <= Rank[r]
    BY <2>4 DEF MostUrgent, NonEmpty
  <2>6. CASE r = p
    <3>1. k # 1
      BY <1>2, <1>3, <2>2, <2>6
    <3>2. 1 < k /\ k \in 1..Len(q[p])
      BY <1>2, <2>2, <2>6, <3>1
    <3>3. q[p][1] < q[p][k]
      BY <1>1, <1>2, <3>2 DEF OldestFirst
    <3>4. QED
      BY <2>3, <2>6, <3>3
  <2>7. CASE r # p
    <3>1. Rank[p] < Rank[r]
      BY <1>1, <2>5, <2>7 DEF Rank, Priority
    <3>2. Dispatch!MoreUrgent(c.class, d.class)
      BY <1>1, <2>3, <3>1 DEF Rank, Priority, Dispatch!MoreUrgent
    <3>3. QED
      BY <3>2
  <2>8. QED
    BY <2>6, <2>7
<1>4. QED
  BY <1>3 DEF Dispatch!IsFirst

\* The oldest of the lowest class is the one the abstract queue drops.
LEMMA RearIsVictim ==
  ASSUME NEW q \in Contents, OldestFirst(q), NEW p \in Rear(q)
  PROVE  Dispatch!IsVictim(Command(Head(q[p]), p), Queued(q))
<1> DEFINE c == Command(Head(q[p]), p)
<1>1. p \in Priority /\ q[p] \in Seq(Item) /\ q[p] # <<>>
  BY DEF Contents, Rear, NonEmpty
<1>2. Len(q[p]) \in Nat /\ 1 \in 1..Len(q[p]) /\ Head(q[p]) = q[p][1]
  BY <1>1
<1>3. ASSUME NEW d \in Queued(q) \ {c}
      PROVE  Dispatch!MoreUrgent(d.class, c.class) \/ (c.class = d.class /\ c.id < d.id)
  <2>1. PICK r \in Priority : \E k \in 1..Len(q[r]) : d = Command(q[r][k], r)
    BY <1>3, WaitingMember
  <2>2. PICK k \in 1..Len(q[r]) : d = Command(q[r][k], r)
    BY <2>1
  <2>3. /\ d.id = q[r][k] /\ d.class = r
        /\ c.id = q[p][1] /\ c.class = p
    BY <1>2, <2>2, CommandParts
  <2>4. q[r] # <<>>
    BY <2>2
  <2>5. Rank[p] >= Rank[r]
    BY <2>4 DEF Rear, NonEmpty
  <2>6. CASE r = p
    <3>1. k # 1
      BY <1>2, <1>3, <2>2, <2>6
    <3>2. 1 < k /\ k \in 1..Len(q[p])
      BY <1>2, <2>2, <2>6, <3>1
    <3>3. q[p][1] < q[p][k]
      BY <1>1, <1>2, <3>2 DEF OldestFirst
    <3>4. QED
      BY <2>3, <2>6, <3>3
  <2>7. CASE r # p
    <3>1. Rank[r] < Rank[p]
      BY <1>1, <2>5, <2>7 DEF Rank, Priority
    <3>2. Dispatch!MoreUrgent(d.class, c.class)
      BY <1>1, <2>3, <3>1 DEF Rank, Priority, Dispatch!MoreUrgent
    <3>3. QED
      BY <3>2
  <2>8. QED
    BY <2>6, <2>7
<1>4. QED
  BY <1>3 DEF Dispatch!IsVictim

\* _process starts nothing or the most urgent oldest command, and keeps the books.
LEMMA ProcessDispatches ==
  ASSUME NEW q, NEW len, NEW n \in Nat, NEW act, NEW tm,
         Neat(q, len, n), Process(q, len, act, tm)
  PROVE  Dispatch!StartSome(Queued(q)) /\ Neat(queues', length', n)
<1>1. CASE isProcessing \/ len = 0 \/ ~canProcess
  <2>1. queues' = q /\ length' = len /\ inFlight' = inFlight
    BY <1>1 DEF Process
  <2>2. QED
    BY <2>1 DEF Dispatch!StartSome
<1>2. CASE ~(isProcessing \/ len = 0 \/ ~canProcess)
  <2>1. PICK p \in MostUrgent(q) : /\ inFlight' = inFlight \union {Head(q[p])}
                              /\ queues' = TakeFrom(q, p)
    BY <1>2 DEF Process, Send
  <2>2. length' = len - 1
    BY <1>2 DEF Process, Send
  <2>3. p \in NonEmpty(q) /\ q \in Contents /\ OldestFirst(q)
    BY DEF MostUrgent, Neat, Shape
  <2>4. Neat(queues', length', n)
    BY <2>1, <2>2, <2>3, TakeNeat
  <2>5. /\ Command(Head(q[p]), p) \in Queued(q)
        /\ Queued(queues') = Queued(q) \ {Command(Head(q[p]), p)}
    BY <2>1, <2>3, TakeWaiting
  <2>6. Dispatch!IsFirst(Command(Head(q[p]), p), Queued(q))
    BY <2>3, FrontIsFirst
  <2>7. inFlight' = inFlight \union {Command(Head(q[p]), p).id}
    BY <2>1, CommandParts
  <2>8. Dispatch!StartSome(Queued(q))
    BY <2>5, <2>6, <2>7 DEF Dispatch!StartSome
  <2>9. QED
    BY <2>4, <2>8
<1>3. QED
  BY <1>1, <1>2

\* The rest of add(): the new command waits with the others, and then at most the
\* first of them all is started.
LEMMA EnqueueDispatches ==
  ASSUME NEW p \in Priority, NEW q, NEW len, nextId \in Item, Neat(q, len, nextId),
         Enqueue(p, q, len)
  PROVE  /\ Dispatch!StartSome(Queued(q) \union {Command(nextId, p)})
         /\ Neat(queues', length', nextId + 1)
<1> DEFINE pushed == [q EXCEPT ![p] = Append(@, nextId)]
<1>1. Neat(pushed, len + 1, nextId + 1)
  BY PushNeat
<1>2. Queued(pushed) = Queued(q) \union {Command(nextId, p)}
  BY PushWaiting DEF Neat, Shape
<1>3. CASE active
  <2>1. queues' = pushed /\ length' = len + 1 /\ inFlight' = inFlight
    BY <1>3 DEF Enqueue
  <2>2. Dispatch!StartSome(Queued(pushed))
    BY <2>1 DEF Dispatch!StartSome
  <2>3. QED
    BY <1>1, <1>2, <2>1, <2>2
<1>4. CASE ~active
  <2>1. Process(pushed, len + 1, TRUE, timer)
    BY <1>4 DEF Enqueue
  <2>2. nextId + 1 \in Nat
    BY DEF Item
  <2>3. QED
    BY <1>1, <1>2, <2>1, <2>2, ProcessDispatches
<1>5. QED
  BY <1>3, <1>4

\* What the refinement needs of a state beside its types.
DispatchInv == Neat(queues, length, nextId)

\* The queue starts as the abstract one does.
LEMMA InitDispatches == Init => DispatchInv /\ Dispatch!Init
<1> SUFFICES ASSUME Init PROVE DispatchInv /\ Dispatch!Init
  OBVIOUS
<1>1. Queued(Empty) = {}
  BY DEF Queued, Empty
<1>2. queues = Empty /\ length = 0 /\ nextId = 1
  BY DEF Init
<1>3. Counted(Empty, 0)
  BY <1>1, FS_EmptySet DEF Counted
<1>4. OldestFirst(Empty) /\ Below(Empty, 1)
  BY DEF OldestFirst, Below, Empty
<1>5. DispatchInv
  BY <1>2, <1>3, <1>4, EmptyShape DEF DispatchInv, Neat
<1>6. Dispatch!Init
  BY <1>1, <1>2 DEF Init, Dispatch!Init
<1>7. QED
  BY <1>5, <1>6

\* Adding a command is submitting it.
LEMMA AddDispatches ==
  ASSUME TypeOK, DispatchInv, NEW p \in Priority, Add(p)
  PROVE  Dispatch!Submit(p) /\ DispatchInv'
<1>1. /\ nextId \in Item /\ nextId' = nextId + 1 /\ settled' = settled
      /\ nextId \in Nat /\ nextId - 1 < MaxAdds /\ (nextId - 1) + 1 = nextId
  BY MaxAddsAssumption DEF Add, Item
<1>2. nextId' - 1 = (nextId - 1) + 1
  BY <1>1
<1>3. Neat(queues, length, nextId) /\ Cardinality(Queued(queues)) = length
  BY DEF DispatchInv, Neat, Counted
<1> DEFINE new == [id |-> (nextId - 1) + 1, class |-> p]
<1>4. new = Command(nextId, p)
  BY <1>1 DEF Command
<1> HIDE DEF new
<1>5. CASE ~Full /\ Enqueue(p, queues, length) /\ lost' = lost
  <2>1. /\ Dispatch!StartSome(Queued(queues) \union {new})
        /\ Neat(queues', length', nextId + 1)
    BY <1>1, <1>3, <1>4, <1>5, EnqueueDispatches
  <2>2. ~(MaxSize > 0 /\ Dispatch!Cardinality(Queued(queues)) >= MaxSize)
    BY <1>3, <1>5, SameCardinality DEF Full
  <2>3. Dispatch!Submit(p)
    BY <1>1, <1>2, <1>5, <2>1, <2>2 DEF Dispatch!Submit, new
  <2>4. QED
    BY <1>1, <2>1, <2>3 DEF DispatchInv
<1>6. ASSUME Full, NEW r \in Rear(queues), Enqueue(p, TakeFrom(queues, r), length - 1),
             lost' = lost \union {Head(queues[r])}
      PROVE  Dispatch!Submit(p) /\ DispatchInv'
  <2> DEFINE v == Command(Head(queues[r]), r)
  <2>1. r \in NonEmpty(queues) /\ queues \in Contents /\ OldestFirst(queues)
    BY <1>3 DEF Rear, Neat, Shape
  <2>2. Neat(TakeFrom(queues, r), length - 1, nextId)
    BY <1>1, <1>3, <2>1, TakeNeat
  <2>3. v \in Queued(queues) /\ Queued(TakeFrom(queues, r)) = Queued(queues) \ {v}
    BY <2>1, TakeWaiting
  <2>4. /\ Dispatch!StartSome((Queued(queues) \ {v}) \union {new})
        /\ Neat(queues', length', nextId + 1)
    BY <1>1, <1>4, <1>6, <2>2, <2>3, EnqueueDispatches
  <2>5. Dispatch!IsVictim(v, Queued(queues))
    BY <2>1, RearIsVictim
  <2>6. lost' = lost \union {v.id}
    BY <1>6, CommandParts
  <2>7. MaxSize > 0 /\ Dispatch!Cardinality(Queued(queues)) >= MaxSize
    BY <1>3, <1>6, SameCardinality DEF Full
  <2> HIDE DEF v
  <2>8. Dispatch!Submit(p)
    BY <1>1, <1>2, <2>3, <2>4, <2>5, <2>6, <2>7 DEF Dispatch!Submit, new
  <2>9. QED
    BY <1>1, <2>4, <2>8 DEF DispatchInv
<1>7. QED
  BY <1>5, <1>6 DEF Add

\* clear() loses exactly the commands that wait.
LEMMA ClearDispatches ==
  ASSUME TypeOK, DispatchInv, Clear
  PROVE  Dispatch!Discard /\ DispatchInv'
<1>1. Queued(Empty) = {} /\ Counted(Empty, 0) /\ OldestFirst(Empty) /\ Shape(Empty, 0)
  BY EmptyShape, FS_EmptySet DEF Queued, Empty, Counted, OldestFirst
<1>2. nextId \in Nat /\ nextId > 0 /\ nextId <= MaxAdds + 1
  BY MaxAddsAssumption DEF TypeOK
<1>3. Below(Empty, nextId)
  BY <1>2 DEF Below, Empty
<1>4. queues' = Empty /\ length' = 0 /\ nextId' = nextId
  BY DEF Clear
<1>5. DispatchInv'
  BY <1>1, <1>3, <1>4 DEF DispatchInv, Neat
<1>6. ItemsIn(queues) = {c.id : c \in Queued(queues)}
  <2>1. ASSUME NEW i \in ItemsIn(queues) PROVE \E c \in Queued(queues) : i = c.id
    <3>1. PICK pi \in Priority \X Item : pi[2] \in 1..Len(queues[pi[1]]) /\ i = queues[pi[1]][pi[2]]
      BY <2>1 DEF ItemsIn
    <3>2. Command(i, pi[1]) \in Queued(queues)
      BY <3>1, WaitingMember
    <3>3. QED
      BY <3>2, CommandParts
  <2>2. ASSUME NEW c \in Queued(queues) PROVE c.id \in ItemsIn(queues)
    <3>1. PICK p \in Priority : \E k \in 1..Len(queues[p]) : c = Command(queues[p][k], p)
      BY <2>2, WaitingMember
    <3>2. PICK k \in 1..Len(queues[p]) : c = Command(queues[p][k], p)
      BY <3>1
    <3>3. Len(queues[p]) \in Nat /\ Len(queues[p]) < nextId
      BY DEF TypeOK, DispatchInv, Neat, Below
    <3>4. k \in Item
      BY <1>2, <3>3, MaxAddsAssumption DEF Item
    <3>5. <<p, k>> \in {pj \in Priority \X Item : pj[2] \in 1..Len(queues[pj[1]])}
      BY <3>4
    <3>6. queues[p][k] \in ItemsIn(queues)
      BY <3>5 DEF ItemsIn
    <3>7. QED
      BY <3>2, <3>6, CommandParts
  <2>3. QED
    BY <2>1, <2>2
<1>7. Queued(queues') = {} /\ lost' = lost \union {c.id : c \in Queued(queues)}
  BY <1>1, <1>4, <1>6 DEF Clear
<1>8. Dispatch!Discard
  BY <1>4, <1>7 DEF Dispatch!Discard, Clear
<1>9. QED
  BY <1>5, <1>8

\* Every step is one of the abstract queue, or none.
LEMMA NextDispatches ==
  TypeOK /\ DispatchInv /\ [Next]_vars => DispatchInv' /\ [Dispatch!Next]_(Dispatch!dvars)
<1> SUFFICES ASSUME TypeOK, DispatchInv, [Next]_vars
             PROVE  DispatchInv' /\ [Dispatch!Next]_(Dispatch!dvars)
  OBVIOUS
<1>1. ASSUME NEW p \in Priority, Add(p) PROVE DispatchInv' /\ Dispatch!Next
  <2>1. p \in Dispatch!Class
    BY DEF Priority, Dispatch!Class
  <2>2. QED
    BY <1>1, <2>1, AddDispatches DEF Dispatch!Next
<1>2. CASE TimerFires
  <2>1. /\ Process(queues, length, active, FALSE)
        /\ UNCHANGED <<nextId, settled, lost>>
    BY <1>2 DEF TimerFires
  <2>2. nextId \in Nat
    BY MaxAddsAssumption DEF TypeOK
  <2>3. Dispatch!StartSome(Queued(queues)) /\ Neat(queues', length', nextId)
    BY <2>1, <2>2, ProcessDispatches DEF DispatchInv
  <2>4. Dispatch!Start
    BY <2>1, <2>3 DEF Dispatch!Start
  <2>5. QED
    BY <2>1, <2>3, <2>4 DEF Dispatch!Next, DispatchInv
<1>3. ASSUME NEW i \in Item, Finish(i) PROVE DispatchInv' /\ Dispatch!Next
  <2>1. Dispatch!End(i)
    BY <1>3 DEF Finish, Dispatch!End
  <2>2. DispatchInv'
    BY <1>3 DEF Finish, DispatchInv
  <2>3. QED
    BY <2>1, <2>2 DEF Dispatch!Next, Item
<1>4. CASE Clear
  BY <1>4, ClearDispatches DEF Dispatch!Next
<1>5. CASE GateChanges
  BY <1>5 DEF GateChanges, qvars, DispatchInv, Dispatch!dvars
<1>6. CASE UNCHANGED vars
  BY <1>6 DEF vars, qvars, DispatchInv, Dispatch!dvars
<1>7. QED
  BY <1>1, <1>2, <1>3, <1>4, <1>5, <1>6 DEF Next

\* The sequences, flags and timers of the code keep the promise of PriorityDispatch: a
\* command that starts is the oldest of the most urgent class waiting, one that is
\* evicted the oldest of the least urgent, and no other is lost, for every cap and
\* every number of commands (throttledQueue.js:56-225).
THEOREM QueueDispatches == Spec => DispatchSpec
<1>1. Spec => []TypeOK
  BY QueueTypes
<1>2. QED
  BY <1>1, InitDispatches, NextDispatches, PTL DEF Spec, DispatchSpec, Dispatch!Spec

-----------------------------------------------------------------------------
(* The codes typed on a panel *)

Attempt == [panel : Panels, at : Nat, typed : BOOLEAN]

PanelTypeOK ==
  /\ now \in Nat /\ attempts \in Seq(Attempt)
  /\ limiter = [log |-> limiter.log, swept |-> limiter.swept, requests |-> Len(attempts)]

\* The attempts are in the order of time.
InTime == \A i, j \in 1..Len(attempts) : i <= j => attempts[i].at <= attempts[j].at /\ attempts[j].at <= now

Stamp(i) == [n |-> i, at |-> attempts[i].at]

Entry == [times : SUBSET [n : Nat, at : Nat], seen : Nat]

\* Attempt n is the last of panel s.
LastOf(s, n) ==
  /\ n \in 1..Len(attempts) /\ attempts[n].panel = s
  /\ \A i \in 1..Len(attempts) : i > n => attempts[i].panel # s

AttemptsOf(s) == {i \in 1..Len(attempts) : attempts[i].panel = s}

\* What the log says of a panel is true: its place, and timestamps that are of its attempts.
EntriesTrue ==
  \A s \in DOMAIN limiter.log :
    /\ limiter.log[s] \in Entry
    /\ LastOf(s, limiter.log[s].seen)
    /\ IsFiniteSet(limiter.log[s].times)
    /\ \A t \in limiter.log[s].times : t.n \in AttemptsOf(s) /\ t = Stamp(t.n)

WithinCap == IsFiniteSet(DOMAIN limiter.log) /\ Cardinality(DOMAIN limiter.log) <= MaxTracked

\* Since attempt i of a panel as many others as are tracked were tried before its next.
ForgottenSince(i) ==
  \E a \in i..Len(attempts), b \in 1..(Len(attempts) + 1) :
    /\ a < b
    /\ attempts[a].panel = attempts[i].panel
    /\ b <= Len(attempts) => attempts[b].panel = attempts[i].panel
    /\ attempts[i].panel \notin OthersBetween(a, b)
    /\ Cardinality(OthersBetween(a, b)) >= MaxTracked

Held(i) == /\ attempts[i].panel \in DOMAIN limiter.log
           /\ Stamp(i) \in limiter.log[attempts[i].panel].times

\* A code that was typed is remembered, too old to count, or of a panel forgotten since.
TypedRemembered ==
  \A i \in 1..Len(attempts) :
    attempts[i].typed => Held(i) \/ attempts[i].at < now - Window \/ ForgottenSince(i)

LimiterInv == PanelTypeOK /\ InTime /\ EntriesTrue /\ WithinCap /\ TypedRemembered

\* What the cap leaves: entries as they were, at most MaxTracked of them; and who is
\* forgotten was seen before as many others as are tracked.
LEMMA CappedFacts ==
  ASSUME NEW log, IsFiniteSet(DOMAIN log), Cardinality(DOMAIN log) <= MaxTracked + 1,
         \A s \in DOMAIN log : log[s].seen \in Nat,
         \A r, s \in DOMAIN log : log[r].seen = log[s].seen => r = s
  PROVE  /\ DOMAIN Capped(log) \subseteq DOMAIN log
         /\ \A s \in DOMAIN Capped(log) : Capped(log)[s] = log[s]
         /\ IsFiniteSet(DOMAIN Capped(log)) /\ Cardinality(DOMAIN Capped(log)) <= MaxTracked
         /\ \A v \in DOMAIN log \ DOMAIN Capped(log) :
              /\ Cardinality(DOMAIN log \ {v}) >= MaxTracked
              /\ IsFiniteSet(DOMAIN log \ {v})
              /\ \A o \in DOMAIN log \ {v} : log[o].seen > log[v].seen
<1> DEFINE D == DOMAIN log
           kept == {r \in D : \E o \in D : log[o].seen < log[r].seen}
<1>0. MaxTracked \in Nat \ {0} /\ Cardinality(D) \in Nat
  BY LimiterAssumption, FS_CardinalityType
<1>1. CASE Cardinality(D) <= MaxTracked
  BY <1>1 DEF Capped
<1>2. CASE ~(Cardinality(D) <= MaxTracked)
  <2>1. Capped(log) = [s \in kept |-> log[s]]
    BY <1>2 DEF Capped
  <2>2. Cardinality(D) = MaxTracked + 1
    BY <1>0, <1>2
  <2>3. D # {}
    BY <1>0, <2>2, FS_EmptySet
  <2>4. PICK x \in D : \A s \in D : log[x].seen <= log[s].seen
    <3> DEFINE I == {log[s].seen : s \in D}
    <3>1. I \subseteq Nat /\ I # {}
      BY <2>3
    <3> HIDE DEF I
    <3>2. PICK y \in I : \A z \in I : y <= z
      BY <3>1, Least
    <3>3. QED
      BY <3>2 DEF I
  <2>5. x \notin kept
    BY <2>4
  <2>6. \A v \in D : IsFiniteSet(D \ {v}) /\ Cardinality(D \ {v}) = MaxTracked
    <3> TAKE v \in D
    <3>1. IsFiniteSet(D)
      OBVIOUS
    <3> HIDE DEF D
    <3>2. IsFiniteSet(D \ {v}) /\ Cardinality(D \ {v}) = Cardinality(D) - 1
      BY <3>1, FS_RemoveElement
    <3>3. QED
      BY <1>0, <2>2, <3>2
  <2>7. kept \in SUBSET (D \ {x})
    BY <2>5
  <2>8. IsFiniteSet(kept) /\ Cardinality(kept) <= MaxTracked
    BY <2>6, <2>7, FS_Subset
  <2>9. ASSUME NEW v \in D \ kept
        PROVE  /\ Cardinality(D \ {v}) >= MaxTracked
               /\ IsFiniteSet(D \ {v})
               /\ \A o \in D \ {v} : log[o].seen > log[v].seen
    <3>1. Cardinality(D \ {v}) = MaxTracked /\ IsFiniteSet(D \ {v})
      BY <2>6
    <3>2. ASSUME NEW o \in D \ {v}
          PROVE  log[o].seen > log[v].seen
      BY <2>9
    <3>3. QED
      BY <1>0, <3>1, <3>2
  <2>10. QED
    BY <2>1, <2>7, <2>8, <2>9
<1>3. QED
  BY <1>1, <1>2

\* The tracked panels are those of the panel's attempts.
OneMore(k, answer) == attempts' = Append(attempts, [panel |-> k, at |-> now, typed |-> answer])

\* The attempts so far stay, and one joins them.
LEMMA OneMoreFacts ==
  ASSUME PanelTypeOK, NEW k \in Panels, NEW answer \in BOOLEAN, OneMore(k, answer)
  PROVE  /\ attempts' \in Seq(Attempt) /\ Len(attempts') = Len(attempts) + 1 /\ Len(attempts) \in Nat
         /\ \A i \in 1..Len(attempts) : attempts'[i] = attempts[i] /\ attempts[i] \in Attempt
         /\ attempts'[Len(attempts) + 1] = [panel |-> k, at |-> now, typed |-> answer]
<1>1. [panel |-> k, at |-> now, typed |-> answer] \in Attempt
  BY DEF PanelTypeOK, Attempt
<1>2. QED
  BY <1>1, AppendProperties, LenProperties DEF PanelTypeOK, OneMore

\* The panels tried between two attempts of a history q are a finite set.
LEMMA BetweenFinite ==
  ASSUME NEW q, NEW a \in Int, NEW b \in Int
  PROVE  IsFiniteSet({q[m].panel : m \in (a + 1)..(b - 1)})
<1> DEFINE S == (a + 1)..(b - 1)
           f == [m \in S |-> q[m].panel]
           T == {q[m].panel : m \in S}
<1>1. IsFiniteSet(S)
  BY FS_Interval
<1>2. f \in Surjection(S, T)
  BY DEF Surjection
<1> HIDE DEF f, S, T
<1>3. IsFiniteSet(T)
  BY <1>1, <1>2, FS_Surjection
<1>4. QED
  BY <1>3 DEF S, T

\* The timestamps that decide on an attempt.
Counting(k) == Noted(TimesOf(limiter.log, k, now - Window), [n |-> Len(attempts) + 1, at |-> now])

\* A well-formed disarm of panel k.
Attempted(k) ==
  /\ limiter' = Request(limiter, k, now).limiter
  /\ OneMore(k, ~Request(limiter, k, now).limited)
  /\ now' = now

\* The limiter's answer, and its log, by the steps of the code.
LEMMA AttemptedParts ==
  ASSUME LimiterInv, NEW k \in Panels, Attempted(k)
  PROVE  LET capped == Capped(Seen(limiter.log, k, Counting(k), Len(attempts) + 1))
         IN  /\ OneMore(k, ~(Cardinality(Counting(k)) > MaxRequests))
             /\ limiter'.requests = Len(attempts) + 1
             /\ limiter' = [log |-> limiter'.log, swept |-> limiter'.swept, requests |-> limiter'.requests]
             /\ limiter'.log \in {capped, SweptLog(capped, now - Window)}
<1> DEFINE capped == Capped(Seen(limiter.log, k, Counting(k), Len(attempts) + 1))
<1>1. limiter.requests = Len(attempts)
  BY DEF LimiterInv, PanelTypeOK
<1>2. PICK due \in BOOLEAN :
        limiter' = [log |-> IF due THEN SweptLog(capped, now - Window) ELSE capped,
                    swept |-> IF due THEN now ELSE limiter.swept, requests |-> Len(attempts) + 1]
  BY <1>1 DEF Attempted, Request, Counting
<1>3. Request(limiter, k, now).limited = (Cardinality(Counting(k)) > MaxRequests)
  BY <1>1 DEF Request, Counting
<1>5. OneMore(k, ~(Cardinality(Counting(k)) > MaxRequests))
  BY <1>3 DEF Attempted
<1>6. limiter'.log \in {capped, SweptLog(capped, now - Window)}
  BY <1>2
<1> HIDE DEF capped
<1>7. QED
  BY <1>2, <1>5, <1>6 DEF capped

\* What is counted: the attempts of this panel that are in the window and remembered.
LEMMA CountingFacts ==
  ASSUME LimiterInv, NEW k \in Panels, NEW answer \in BOOLEAN, OneMore(k, answer), now' = now
  PROVE  /\ IsFiniteSet(Counting(k))
         /\ \A t \in Counting(k) :
              t.n \in (AttemptsOf(k))' /\ t = Stamp(t.n)' /\ t.at >= now - Window
         /\ k \in DOMAIN limiter.log =>
              \A t \in limiter.log[k].times : t.at >= now - Window => t \in Counting(k)
         /\ Cardinality(Counting(k)) <= MaxRequests => [n |-> Len(attempts) + 1, at |-> now] \in Counting(k)
<1> DEFINE start == now - Window
           old == TimesOf(limiter.log, k, start)
           stamp == [n |-> Len(attempts) + 1, at |-> now]
           N == Len(attempts)
<1>0. /\ now \in Nat /\ Window \in Nat /\ N \in Nat /\ MaxRequests \in Nat /\ MaxRequests > 0
      /\ attempts'[N + 1].panel = k /\ attempts'[N + 1].at = now /\ Len(attempts') = N + 1
      /\ \A i \in 1..N : attempts'[i] = attempts[i]
  <2>1. PanelTypeOK
    BY DEF LimiterInv
  <2>2. now \in Nat /\ Window \in Nat /\ MaxRequests \in Nat /\ MaxRequests > 0
    BY <2>1, LimiterAssumption DEF PanelTypeOK
  <2>3. /\ Len(attempts') = Len(attempts) + 1 /\ Len(attempts) \in Nat
        /\ \A i \in 1..Len(attempts) : attempts'[i] = attempts[i]
        /\ attempts'[Len(attempts) + 1] = [panel |-> k, at |-> now, typed |-> answer]
    BY <2>1, OneMoreFacts
  <2>4. QED
    BY <2>2, <2>3
<1>1. \A i \in 1..N : Stamp(i)' = Stamp(i)
  BY <1>0 DEF Stamp
<1>2. \A i : i = N + 1 => Stamp(i)' = stamp
  BY <1>0 DEF Stamp
<1>3. AttemptsOf(k) \subseteq AttemptsOf(k)' /\ N + 1 \in AttemptsOf(k)'
  <2>1. N + 1 \in 1..Len(attempts') /\ \A i \in 1..N : i \in 1..Len(attempts')
    BY <1>0
  <2>2. QED
    BY <1>0, <2>1 DEF AttemptsOf
<1>4. \A i \in AttemptsOf(k) : i \in 1..N
  BY DEF AttemptsOf
<1>5. /\ IsFiniteSet(old)
      /\ \A t \in old : t.n \in AttemptsOf(k)' /\ t = Stamp(t.n)' /\ t.at >= start
      /\ k \in DOMAIN limiter.log => \A t \in limiter.log[k].times : t.at >= start => t \in old
  <2>1. CASE k \in DOMAIN limiter.log
    <3>1. old = {t \in limiter.log[k].times : t.at >= start}
      BY <2>1 DEF TimesOf, DropExpired
    <3>2. IsFiniteSet(limiter.log[k].times)
      BY <2>1 DEF LimiterInv, EntriesTrue
    <3>3. IsFiniteSet(old)
      <4>1. old \in SUBSET limiter.log[k].times
        BY <3>1
      <4>2. QED
        BY <3>2, <4>1, FS_Subset
    <3>4. \A t \in old : t.n \in AttemptsOf(k) /\ t = Stamp(t.n)
      BY <2>1, <3>1 DEF LimiterInv, EntriesTrue
    <3>5. \A t \in old : t.n \in AttemptsOf(k)' /\ t = Stamp(t.n)'
      BY <1>1, <1>3, <1>4, <3>4
    <3>6. QED
      BY <3>1, <3>3, <3>5
  <2>2. CASE k \notin DOMAIN limiter.log
    <3>1. old = {}
      BY <2>2 DEF TimesOf
    <3>2. QED
      BY <2>2, <3>1, FS_EmptySet
  <2>3. QED
    BY <2>1, <2>2
<1>6. Counting(k) = IF Cardinality(old) <= 2 * MaxRequests THEN old \cup {stamp} ELSE old
  BY DEF Counting, Noted
<1>7. stamp.n = N + 1 /\ stamp.at >= start
  BY <1>0
<1> HIDE DEF old, stamp, start, N
<1>8. IsFiniteSet(Counting(k))
  BY <1>5, <1>6, FS_AddElement
<1>9. \A t \in Counting(k) : t.n \in AttemptsOf(k)' /\ t = Stamp(t.n)' /\ t.at >= start
  <2> SUFFICES ASSUME NEW t \in Counting(k), t \notin old
               PROVE  t.n \in AttemptsOf(k)' /\ t = Stamp(t.n)' /\ t.at >= start
    BY <1>5
  <2>1. t = stamp
    BY <1>6
  <2>2. QED
    BY <1>2, <1>3, <1>7, <2>1
<1>10. k \in DOMAIN limiter.log => \A t \in limiter.log[k].times : t.at >= start => t \in Counting(k)
  BY <1>5, <1>6
<1>11. Cardinality(Counting(k)) <= MaxRequests => stamp \in Counting(k)
  <2>1. Cardinality(old) \in Nat
    BY <1>5, FS_CardinalityType
  <2>2. CASE Cardinality(old) <= 2 * MaxRequests
    BY <1>6, <2>2
  <2>3. CASE ~(Cardinality(old) <= 2 * MaxRequests)
    <3>1. Counting(k) = old
      BY <1>6, <2>3
    <3>2. Cardinality(old) > MaxRequests
      BY <1>0, <2>1, <2>3
    <3>3. QED
      BY <1>0, <2>1, <3>1, <3>2
  <2>4. QED
    BY <2>2, <2>3
<1>12. QED
  BY <1>8, <1>9, <1>10, <1>11 DEF start, stamp, N

\* Every attempt in the window whose timestamp panel s has in the log l.
Holds(l, s, t) == s \in DOMAIN l /\ t \in l[s].times

\* The log after an attempt: true, within the cap, with all that was counted; and with what
\* it knew of each other panel that still counts, unless as many were tried since.
LEMMA LogAfter ==
  ASSUME LimiterInv, NEW k \in Panels, Attempted(k)
  PROVE  /\ PanelTypeOK' /\ EntriesTrue' /\ WithinCap'
         /\ \A t \in Counting(k) : Holds(limiter'.log, k, t)
         /\ \A s \in DOMAIN limiter.log \ {k} :
              \/ \A t \in limiter.log[s].times : t.at >= now - Window => Holds(limiter'.log, s, t)
              \/ \E O : /\ IsFiniteSet(O) /\ Cardinality(O) >= MaxTracked /\ s \notin O
                        /\ \A o \in O : \E m \in 1..Len(attempts') :
                             m > limiter.log[s].seen /\ attempts'[m].panel = o
<1> DEFINE start == now - Window
           seen == Seen(limiter.log, k, Counting(k), Len(attempts) + 1)
           capped == Capped(seen)
           answer == ~(Cardinality(Counting(k)) > MaxRequests)
<1>1. PICK N \in Nat : N = Len(attempts)
  BY LenProperties DEF LimiterInv, PanelTypeOK
<1>2. /\ OneMore(k, answer) /\ limiter'.requests = N + 1
      /\ limiter' = [log |-> limiter'.log, swept |-> limiter'.swept, requests |-> limiter'.requests]
      /\ limiter'.log \in {capped, SweptLog(capped, start)}
  BY <1>1, AttemptedParts
<1>3. now' = now /\ answer \in BOOLEAN /\ PanelTypeOK
  BY DEF Attempted, LimiterInv
<1>4. /\ attempts' \in Seq(Attempt) /\ Len(attempts') = N + 1
      /\ \A i \in 1..N : attempts'[i] = attempts[i]
      /\ attempts'[N + 1] = [panel |-> k, at |-> now, typed |-> answer]
  BY <1>1, <1>2, <1>3, OneMoreFacts
<1>5. /\ IsFiniteSet(Counting(k))
      /\ \A t \in Counting(k) : t.n \in (AttemptsOf(k))' /\ t = Stamp(t.n)' /\ t.at >= start
  BY <1>2, <1>3, CountingFacts
<1>6. /\ \A s \in DOMAIN limiter.log :
           /\ limiter.log[s] \in Entry
           /\ limiter.log[s].seen \in 1..N /\ attempts[limiter.log[s].seen].panel = s
           /\ \A i \in 1..N : i > limiter.log[s].seen => attempts[i].panel # s
           /\ IsFiniteSet(limiter.log[s].times)
           /\ \A t \in limiter.log[s].times : t.n \in AttemptsOf(s) /\ t = Stamp(t.n)
      /\ IsFiniteSet(DOMAIN limiter.log) /\ Cardinality(DOMAIN limiter.log) <= MaxTracked
  BY <1>1 DEF LimiterInv, EntriesTrue, LastOf, WithinCap
<1>7. /\ DOMAIN seen = DOMAIN limiter.log \cup {k}
      /\ seen[k] = [times |-> Counting(k), seen |-> N + 1]
      /\ \A s \in DOMAIN limiter.log \ {k} : seen[s] = limiter.log[s]
  BY <1>1 DEF Seen
<1> DEFINE True(e, s) ==
             /\ e \in Entry
             /\ e.seen \in 1..(N + 1) /\ attempts'[e.seen].panel = s
             /\ \A i \in 1..(N + 1) : i > e.seen => attempts'[i].panel # s
             /\ IsFiniteSet(e.times)
             /\ \A t \in e.times : t.n \in (AttemptsOf(s))' /\ t = Stamp(t.n)'
<1>8. \A s \in DOMAIN seen : True(seen[s], s)
  <2>1. True(seen[k], k)
    <3>0. seen[k] \in Entry
      <4>1. \A t \in Counting(k) : t \in [n : Nat, at : Nat]
        <5> TAKE t \in Counting(k)
        <5>1. t = [n |-> t.n, at |-> attempts'[t.n].at] /\ t.n \in 1..(N + 1)
          BY <1>4, <1>5 DEF Stamp, AttemptsOf
        <5>2. attempts'[t.n] \in Attempt
          BY <1>4, <5>1, ElementOfSeq
        <5>3. t.n \in Nat /\ attempts'[t.n].at \in Nat
          BY <5>1, <5>2 DEF Attempt
        <5>4. QED
          BY <5>1, <5>3
      <4>2. QED
        BY <1>7, <4>1 DEF Entry
    <3>1. ~ \E i \in 1..(N + 1) : i > N + 1
      BY <1>1
    <3>2. N + 1 \in 1..(N + 1)
      BY <1>1
    <3>3. QED
      BY <1>4, <1>5, <1>7, <3>0, <3>1, <3>2
  <2>2. ASSUME NEW s \in DOMAIN limiter.log \ {k}
        PROVE  True(seen[s], s)
    <3>1. seen[s] = limiter.log[s]
      BY <1>7
    <3>0. PICK n : /\ n = limiter.log[s].seen /\ n \in 1..N /\ attempts[n].panel = s
                   /\ \A i \in 1..N : i > n => attempts[i].panel # s
      BY <1>6
    <3>2. limiter.log[s].seen \in 1..(N + 1) /\ attempts'[limiter.log[s].seen].panel = s
      <4>1. n \in 1..(N + 1) /\ attempts'[n] = attempts[n]
        BY <1>1, <1>4, <3>0
      <4>2. QED
        BY <3>0, <4>1
    <3>3. \A i \in 1..(N + 1) : i > limiter.log[s].seen => attempts'[i].panel # s
      <4> SUFFICES ASSUME NEW i \in 1..(N + 1), i > limiter.log[s].seen
                   PROVE  attempts'[i].panel # s
        OBVIOUS
      <4>1. CASE i \in 1..N
        BY <1>4, <3>0, <4>1
      <4>2. CASE i = N + 1
        BY <1>4, <4>2
      <4>3. QED
        BY <1>1, <4>1, <4>2
    <3>4. \A t \in limiter.log[s].times : t.n \in (AttemptsOf(s))' /\ t = Stamp(t.n)'
      <4> TAKE t \in limiter.log[s].times
      <4>1. t.n \in 1..N /\ attempts[t.n].panel = s /\ t = [n |-> t.n, at |-> attempts[t.n].at]
        BY <1>1, <1>6 DEF AttemptsOf, Stamp
      <4>2. t.n \in 1..Len(attempts') /\ attempts'[t.n] = attempts[t.n]
        BY <1>1, <1>4, <4>1
      <4>3. QED
        BY <4>1, <4>2 DEF AttemptsOf, Stamp
    <3>5. QED
      BY <1>6, <3>1, <3>2, <3>3, <3>4
  <2>3. QED
    BY <1>7, <2>1, <2>2
<1> HIDE DEF seen, start, answer
<1>9. /\ DOMAIN capped \subseteq DOMAIN seen
      /\ \A s \in DOMAIN capped : capped[s] = seen[s]
      /\ IsFiniteSet(DOMAIN capped) /\ Cardinality(DOMAIN capped) <= MaxTracked
      /\ \A v \in DOMAIN seen \ DOMAIN capped :
           /\ Cardinality(DOMAIN seen \ {v}) >= MaxTracked
           /\ IsFiniteSet(DOMAIN seen \ {v})
           /\ \A o \in DOMAIN seen \ {v} : seen[o].seen > seen[v].seen
  <2>1. IsFiniteSet(DOMAIN seen) /\ Cardinality(DOMAIN seen) <= MaxTracked + 1
    <3>1. Cardinality(DOMAIN limiter.log) \in Nat /\ MaxTracked \in Nat
      BY <1>6, FS_CardinalityType, LimiterAssumption
    <3>2. /\ IsFiniteSet(DOMAIN limiter.log \cup {k})
          /\ Cardinality(DOMAIN limiter.log \cup {k}) \in {Cardinality(DOMAIN limiter.log), Cardinality(DOMAIN limiter.log) + 1}
      BY <1>6, FS_AddElement
    <3>3. QED
      BY <1>6, <1>7, <3>1, <3>2
  <2>2. \A s \in DOMAIN seen : seen[s].seen \in Nat
    BY <1>1, <1>8
  <2>3. \A r, s \in DOMAIN seen : seen[r].seen = seen[s].seen => r = s
    BY <1>8
  <2>4. QED
    BY <2>1, <2>2, <2>3, CappedFacts
<1>10. k \in DOMAIN capped
  <2> SUFFICES ASSUME k \notin DOMAIN capped
               PROVE  FALSE
    OBVIOUS
  <2>1. /\ Cardinality(DOMAIN seen \ {k}) >= MaxTracked
        /\ \A o \in DOMAIN seen \ {k} : seen[o].seen > N + 1
    BY <1>7, <1>9
  <2>2. DOMAIN seen \ {k} # {}
    BY <2>1, LimiterAssumption, FS_EmptySet
  <2>3. \A o \in DOMAIN seen : seen[o].seen <= N + 1
    BY <1>1, <1>8
  <2>4. QED
    BY <1>1, <1>8, <2>1, <2>2, <2>3
<1> HIDE DEF capped
<1>11. /\ DOMAIN limiter'.log \subseteq DOMAIN capped
       /\ \A s \in DOMAIN limiter'.log :
            /\ limiter'.log[s] \in Entry /\ limiter'.log[s].seen = capped[s].seen
            /\ limiter'.log[s].times \subseteq capped[s].times
       /\ \A s \in DOMAIN capped : \A t \in capped[s].times : t.at >= start => Holds(limiter'.log, s, t)
  <2>1. CASE limiter'.log = capped
    BY <1>8, <1>9, <2>1 DEF Holds
  <2>2. CASE limiter'.log = SweptLog(capped, start)
    <3>1. /\ DOMAIN limiter'.log = {r \in DOMAIN capped : DropExpired(capped[r].times, start) # {}}
          /\ \A s \in DOMAIN limiter'.log :
               limiter'.log[s] = [capped[s] EXCEPT !.times = DropExpired(@, start)]
      BY <2>2 DEF SweptLog
    <3>2. \A s \in DOMAIN capped : capped[s] \in Entry
      BY <1>8, <1>9
    <3>3. \A s \in DOMAIN limiter'.log :
            /\ limiter'.log[s] \in Entry /\ limiter'.log[s].seen = capped[s].seen
            /\ limiter'.log[s].times = DropExpired(capped[s].times, start)
      <4> TAKE s \in DOMAIN limiter'.log
      <4>1. capped[s] \in Entry /\ limiter'.log[s] = [capped[s] EXCEPT !.times = DropExpired(@, start)]
        BY <3>1, <3>2
      <4>2. DropExpired(capped[s].times, start) \subseteq capped[s].times
        BY DEF DropExpired
      <4>3. QED
        BY <4>1, <4>2 DEF Entry
    <3>4. \A s \in DOMAIN limiter'.log : limiter'.log[s].times = {t \in capped[s].times : t.at >= start}
      BY <3>3 DEF DropExpired
    <3>5. ASSUME NEW s \in DOMAIN capped, NEW t \in capped[s].times, t.at >= start
          PROVE  Holds(limiter'.log, s, t)
      <4>1. t \in DropExpired(capped[s].times, start)
        BY <3>5 DEF DropExpired
      <4>2. s \in DOMAIN limiter'.log
        BY <3>1, <4>1
      <4>3. QED
        BY <3>4, <3>5, <4>2 DEF Holds
    <3>6. \A s \in DOMAIN limiter'.log :
            /\ limiter'.log[s] \in Entry /\ limiter'.log[s].seen = capped[s].seen
            /\ limiter'.log[s].times \subseteq capped[s].times
      BY <3>3, <3>4
    <3>7. QED
      BY <3>1, <3>5, <3>6
  <2>3. QED
    BY <1>2, <2>1, <2>2
<1>12. EntriesTrue'
  <2> SUFFICES ASSUME NEW s \in DOMAIN limiter'.log
               PROVE  /\ limiter'.log[s] \in Entry
                      /\ LastOf(s, limiter.log[s].seen)'
                      /\ IsFiniteSet(limiter'.log[s].times)
                      /\ \A t \in limiter'.log[s].times : t.n \in (AttemptsOf(s))' /\ t = Stamp(t.n)'
    BY DEF EntriesTrue
  <2>1. s \in DOMAIN capped /\ s \in DOMAIN seen /\ capped[s] = seen[s] /\ True(seen[s], s)
    BY <1>8, <1>9, <1>11
  <2>2. limiter'.log[s].seen = seen[s].seen /\ limiter'.log[s].times \in SUBSET seen[s].times
    BY <1>11, <2>1
  <2>3. IsFiniteSet(limiter'.log[s].times)
    BY <2>1, <2>2, FS_Subset
  <2>4. LastOf(s, limiter.log[s].seen)'
    BY <1>4, <2>1, <2>2 DEF LastOf
  <2>5. QED
    BY <1>11, <2>1, <2>2, <2>3, <2>4
<1>13. WithinCap'
  <2>1. DOMAIN limiter'.log \in SUBSET DOMAIN capped
    BY <1>11
  <2>2. /\ IsFiniteSet(DOMAIN limiter'.log)
        /\ Cardinality(DOMAIN limiter'.log) <= Cardinality(DOMAIN capped)
    BY <1>9, <2>1, FS_Subset
  <2>3. Cardinality(DOMAIN limiter'.log) \in Nat /\ Cardinality(DOMAIN capped) \in Nat /\ MaxTracked \in Nat
    BY <1>9, <2>2, FS_CardinalityType, LimiterAssumption
  <2>4. QED
    BY <1>9, <2>2, <2>3 DEF WithinCap
<1>14. PanelTypeOK'
  BY <1>2, <1>3, <1>4 DEF PanelTypeOK
<1>15. \A t \in Counting(k) : Holds(limiter'.log, k, t)
  BY <1>5, <1>7, <1>9, <1>10, <1>11
<1>16. ASSUME NEW s \in DOMAIN limiter.log \ {k}
       PROVE  \/ \A t \in limiter.log[s].times : t.at >= start => Holds(limiter'.log, s, t)
              \/ \E O : /\ IsFiniteSet(O) /\ Cardinality(O) >= MaxTracked /\ s \notin O
                        /\ \A o \in O : \E m \in 1..Len(attempts') :
                             m > limiter.log[s].seen /\ attempts'[m].panel = o
  <2>1. s \in DOMAIN seen /\ seen[s] = limiter.log[s]
    BY <1>7
  <2>2. CASE s \in DOMAIN capped
    BY <1>9, <1>11, <2>1, <2>2
  <2>3. CASE s \notin DOMAIN capped
    <3> DEFINE O == DOMAIN seen \ {s}
    <3>1. IsFiniteSet(O) /\ Cardinality(O) >= MaxTracked /\ \A o \in O : seen[o].seen > limiter.log[s].seen
      BY <1>9, <2>1, <2>3
    <3>2. \A o \in O : seen[o].seen \in 1..Len(attempts') /\ attempts'[seen[o].seen].panel = o
      BY <1>4, <1>8
    <3>3. s \notin O
      OBVIOUS
    <3>4. QED
      BY <3>1, <3>2, <3>3
  <2>4. QED
    BY <2>2, <2>3
<1>17. QED
  BY <1>12, <1>13, <1>14, <1>15, <1>16 DEF start

\* The state around an attempt, by position.
LEMMA AttemptedFacts ==
  ASSUME LimiterInv, NEW k \in Panels, Attempted(k)
  PROVE  \E N \in Nat :
           /\ N = Len(attempts) /\ Len(attempts') = N + 1 /\ now' = now /\ now \in Nat
           /\ \A i \in 1..N : attempts'[i] = attempts[i] /\ attempts[i] \in Attempt
           /\ attempts'[N + 1].panel = k /\ attempts'[N + 1].at = now
           /\ attempts'[N + 1].typed <=> Cardinality(Counting(k)) <= MaxRequests
           /\ attempts \in Seq(Attempt) /\ attempts' \in Seq(Attempt)
           /\ IsFiniteSet(Counting(k)) /\ Cardinality(Counting(k)) \in Nat
           /\ \A t \in Counting(k) : t.n \in (AttemptsOf(k))' /\ t = Stamp(t.n)' /\ t.at >= now - Window
           /\ k \in DOMAIN limiter.log =>
                \A t \in limiter.log[k].times : t.at >= now - Window => t \in Counting(k)
           /\ Cardinality(Counting(k)) <= MaxRequests => [n |-> N + 1, at |-> now] \in Counting(k)
<1> DEFINE answer == ~(Cardinality(Counting(k)) > MaxRequests)
<1>1. PanelTypeOK /\ answer \in BOOLEAN /\ now' = now /\ now \in Nat /\ attempts \in Seq(Attempt)
  BY DEF LimiterInv, PanelTypeOK, Attempted
<1>2. OneMore(k, answer)
  BY AttemptedParts
<1> HIDE DEF answer
<1>3. /\ attempts' \in Seq(Attempt) /\ Len(attempts') = Len(attempts) + 1 /\ Len(attempts) \in Nat
      /\ \A i \in 1..Len(attempts) : attempts'[i] = attempts[i] /\ attempts[i] \in Attempt
      /\ attempts'[Len(attempts) + 1] = [panel |-> k, at |-> now, typed |-> answer]
  BY <1>1, <1>2, OneMoreFacts
<1>4. /\ IsFiniteSet(Counting(k))
      /\ \A t \in Counting(k) : t.n \in (AttemptsOf(k))' /\ t = Stamp(t.n)' /\ t.at >= now - Window
      /\ k \in DOMAIN limiter.log =>
           \A t \in limiter.log[k].times : t.at >= now - Window => t \in Counting(k)
      /\ Cardinality(Counting(k)) <= MaxRequests => [n |-> Len(attempts) + 1, at |-> now] \in Counting(k)
  BY <1>1, <1>2, CountingFacts
<1>5. Cardinality(Counting(k)) \in Nat
  BY <1>4, FS_CardinalityType
<1>6. answer <=> Cardinality(Counting(k)) <= MaxRequests
  BY <1>5, LimiterAssumption DEF answer
<1>7. /\ attempts'[Len(attempts) + 1].panel = k /\ attempts'[Len(attempts) + 1].at = now
      /\ attempts'[Len(attempts) + 1].typed <=> Cardinality(Counting(k)) <= MaxRequests
  BY <1>3, <1>6
<1>8. QED
  BY <1>1, <1>3, <1>4, <1>5, <1>7

\* The new attempt is the latest.
LEMMA InTimeAfter ==
  ASSUME LimiterInv, NEW k \in Panels, Attempted(k)
  PROVE  InTime'
<1>1. PICK N \in Nat :
        /\ N = Len(attempts) /\ Len(attempts') = N + 1 /\ now' = now /\ now \in Nat
        /\ \A i \in 1..N : attempts'[i] = attempts[i] /\ attempts[i] \in Attempt
        /\ attempts'[N + 1].panel = k /\ attempts'[N + 1].at = now
  BY AttemptedFacts
<1>2. \A i, j \in 1..N : i <= j => attempts[i].at <= attempts[j].at /\ attempts[j].at <= now
  BY <1>1 DEF LimiterInv, InTime
<1> SUFFICES ASSUME NEW i \in 1..(N + 1), NEW j \in 1..(N + 1), i <= j
             PROVE  attempts'[i].at <= attempts'[j].at /\ attempts'[j].at <= now
  BY <1>1 DEF InTime
<1>3. CASE j \in 1..N
  <2>1. i \in 1..N
    BY <1>1, <1>3
  <2>2. QED
    BY <1>1, <1>2, <1>3, <2>1
<1>4. CASE j = N + 1 /\ i \in 1..N
  <2>1. attempts[i].at <= now
    BY <1>1, <1>2, <1>4
  <2>2. QED
    BY <1>1, <1>4, <2>1
<1>5. CASE j = N + 1 /\ i = N + 1
  BY <1>1, <1>5
<1>6. QED
  BY <1>1, <1>3, <1>4, <1>5

\* Which panels were tried between two attempts does not change.
LEMMA BetweenStays ==
  ASSUME NEW N \in Nat, \A i \in 1..N : attempts'[i] = attempts[i],
         NEW a \in Nat, NEW b \in Nat, b <= N + 1
  PROVE  OthersBetween(a, b)' = OthersBetween(a, b)
<1>1. \A m \in (a + 1)..(b - 1) : attempts'[m] = attempts[m]
  BY DEF OthersBetween
<1>2. QED
  BY <1>1 DEF OthersBetween

\* A panel that was forgotten was, whatever is tried next.
LEMMA ForgottenStays ==
  ASSUME NEW N \in Nat, N = Len(attempts), Len(attempts') = N + 1,
         \A i \in 1..N : attempts'[i] = attempts[i],
         NEW i \in 1..N, ForgottenSince(i)
  PROVE  ForgottenSince(i)'
<1> DEFINE s == attempts[i].panel
<1>1. PICK a \in i..N, b \in 1..(N + 1) :
        /\ a < b /\ attempts[a].panel = s
        /\ b <= N => attempts[b].panel = s
        /\ s \notin OthersBetween(a, b)
        /\ Cardinality(OthersBetween(a, b)) >= MaxTracked
  BY DEF ForgottenSince
<1>2. OthersBetween(a, b)' = OthersBetween(a, b) /\ a \in 1..N /\ a \in i..(N + 1)
  BY <1>1, BetweenStays
<1>3. attempts'[i].panel = s /\ attempts'[a].panel = s
  BY <1>1, <1>2
<1>4. CASE b <= N \/ attempts'[N + 1].panel = s
  <2>1. b <= N + 1 => attempts'[b].panel = s
    BY <1>1, <1>4
  <2>2. b \in 1..(N + 2)
    BY <1>1
  <2>3. QED
    BY <1>1, <1>2, <1>3, <2>1, <2>2 DEF ForgottenSince
<1>5. CASE b = N + 1 /\ attempts'[N + 1].panel # s
  <2>1. OthersBetween(a, N + 2)' = OthersBetween(a, b) \cup {attempts'[N + 1].panel}
    <3>1. (a + 1)..((N + 2) - 1) = ((a + 1)..(b - 1)) \cup {N + 1}
      BY <1>2, <1>5
    <3>2. \A m \in (a + 1)..(b - 1) : attempts'[m] = attempts[m]
      BY <1>2, <1>5
    <3>3. QED
      BY <3>1, <3>2, SMTT(30) DEF OthersBetween
  <2>2. IsFiniteSet(OthersBetween(a, b))
    <3>1. PICK q : q = attempts
      OBVIOUS
    <3>2. a \in Int /\ b \in Int
      BY <1>2
    <3>3. QED
      BY <3>1, <3>2, BetweenFinite DEF OthersBetween
  <2>3. Cardinality(OthersBetween(a, N + 2)') >= MaxTracked
    <3> DEFINE S == OthersBetween(a, b)
               x == attempts'[N + 1].panel
    <3>1. IsFiniteSet(S) /\ Cardinality(S) >= MaxTracked /\ MaxTracked \in Nat
      BY <1>1, <2>2, LimiterAssumption
    <3>2. OthersBetween(a, N + 2)' = S \cup {x}
      BY <2>1
    <3> HIDE DEF S, x
    <3>3. Cardinality(S) \in Nat
      BY <3>1, FS_CardinalityType
    <3>4. Cardinality(S \cup {x}) = IF x \in S THEN Cardinality(S) ELSE Cardinality(S) + 1
      BY <3>1, FS_AddElement
    <3>5. Cardinality(S \cup {x}) >= MaxTracked
      BY <3>1, <3>3, <3>4
    <3>6. QED
      BY <3>2, <3>5
  <2>4. s \notin OthersBetween(a, N + 2)' /\ a < N + 2 /\ N + 2 \in 1..(N + 2)
    BY <1>1, <1>5, <2>1
  <2>5. QED
    BY <1>2, <1>3, <2>3, <2>4, SMTT(30) DEF ForgottenSince
<1>6. QED
  BY <1>1, <1>4, <1>5

\* What was typed stays remembered, or too old, or the panel forgotten since.
LEMMA RememberedAfter ==
  ASSUME LimiterInv, NEW k \in Panels, Attempted(k)
  PROVE  TypedRemembered'
<1> DEFINE start == now - Window
<1>1. PICK N \in Nat :
        /\ N = Len(attempts) /\ Len(attempts') = N + 1 /\ now' = now /\ now \in Nat
        /\ \A i \in 1..N : attempts'[i] = attempts[i] /\ attempts[i] \in Attempt
        /\ attempts'[N + 1].panel = k /\ attempts'[N + 1].at = now
        /\ attempts'[N + 1].typed <=> Cardinality(Counting(k)) <= MaxRequests
        /\ Cardinality(Counting(k)) \in Nat
        /\ k \in DOMAIN limiter.log =>
             \A t \in limiter.log[k].times : t.at >= start => t \in Counting(k)
        /\ Cardinality(Counting(k)) <= MaxRequests => [n |-> N + 1, at |-> now] \in Counting(k)
  BY AttemptedFacts
<1>2. /\ \A t \in Counting(k) : Holds(limiter'.log, k, t)
      /\ \A s \in DOMAIN limiter.log \ {k} :
           \/ \A t \in limiter.log[s].times : t.at >= start => Holds(limiter'.log, s, t)
           \/ \E O : /\ IsFiniteSet(O) /\ Cardinality(O) >= MaxTracked /\ s \notin O
                     /\ \A o \in O : \E m \in 1..Len(attempts') :
                          m > limiter.log[s].seen /\ attempts'[m].panel = o
  BY LogAfter
<1>3. \A i \in 1..N : attempts[i].typed => Held(i) \/ attempts[i].at < start \/ ForgottenSince(i)
  BY <1>1 DEF LimiterInv, TypedRemembered
<1> SUFFICES ASSUME NEW i \in 1..(N + 1), attempts'[i].typed
             PROVE  Held(i)' \/ attempts'[i].at < start \/ ForgottenSince(i)'
  BY <1>1 DEF TypedRemembered
<1> DEFINE t == [n |-> i, at |-> attempts'[i].at]
<1>4. Held(i)' = Holds(limiter'.log, attempts'[i].panel, t)
  BY DEF Held, Holds, Stamp
<1>5. CASE i = N + 1
  <2>2. Cardinality(Counting(k)) <= MaxRequests
    BY <1>1, <1>5
  <2>3. attempts'[i].panel = k /\ t = [n |-> N + 1, at |-> now]
    BY <1>1, <1>5
  <2>4. QED
    BY <1>1, <1>2, <1>4, <2>2, <2>3
<1>6. CASE i \in 1..N
  <2>1. attempts'[i] = attempts[i] /\ Stamp(i) = t /\ attempts[i] \in Attempt
    BY <1>1, <1>6 DEF Stamp
  <2> DEFINE s == attempts[i].panel
  <2>2. t.at >= start \/ attempts'[i].at < start
    BY <1>1, <2>1, LimiterAssumption DEF Attempt
  <2>3. CASE ForgottenSince(i)
    BY <1>1, <1>6, <2>3, ForgottenStays
  <2>4. CASE Held(i) /\ t.at >= start
    <3>1. s \in DOMAIN limiter.log /\ t \in limiter.log[s].times
      BY <2>1, <2>4 DEF Held
    <3>2. CASE s = k
      BY <1>1, <1>2, <1>4, <2>1, <2>4, <3>1, <3>2
    <3>3. CASE s # k /\ \A u \in limiter.log[s].times : u.at >= start => Holds(limiter'.log, s, u)
      BY <1>4, <2>1, <2>4, <3>1, <3>3
    <3>4. ASSUME s # k,
                 NEW O, IsFiniteSet(O), Cardinality(O) >= MaxTracked, s \notin O,
                 \A o \in O : \E m \in 1..Len(attempts') :
                   m > limiter.log[s].seen /\ attempts'[m].panel = o
          PROVE  ForgottenSince(i)'
      <4>1. PICK a : /\ a = limiter.log[s].seen /\ a \in 1..N /\ attempts[a].panel = s
                     /\ \A j \in 1..N : j > a => attempts[j].panel # s
        BY <1>1, <3>1, SMTT(30) DEF LimiterInv, EntriesTrue, LastOf
      <4>0. a \in 1..N
        BY <4>1
      <4>2. i <= a
        BY <1>6, <4>1
      <4>3. \A j \in (a + 1)..(N + 1) : attempts'[j].panel # s
        <5> TAKE j \in (a + 1)..(N + 1)
        <5>1. CASE j \in 1..N
          <6>1. j > a
            BY <4>0
          <6>2. attempts[j].panel # s
            BY <4>1, <5>1, <6>1
          <6>3. QED
            BY <1>1, <5>1, <6>2
        <5>2. CASE j = N + 1
          BY <1>1, <3>4, <5>2
        <5>3. QED
          BY <4>1, <5>1, <5>2
      <4>4. s \notin OthersBetween(a, N + 2)'
        <5>1. (a + 1)..((N + 2) - 1) = (a + 1)..(N + 1)
          BY <1>1
        <5>2. QED
          BY <4>3, <5>1 DEF OthersBetween
      <4>5. O \in SUBSET OthersBetween(a, N + 2)'
        <5>1. ASSUME NEW o \in O PROVE o \in OthersBetween(a, N + 2)'
          <6>1. PICK m \in 1..(N + 1) : m > a /\ attempts'[m].panel = o
            BY <1>1, <3>4, <4>1, SMTT(30)
          <6>2. m \in (a + 1)..((N + 2) - 1)
            BY <4>1, <6>1
          <6>3. QED
            BY <6>1, <6>2, SMTT(30) DEF OthersBetween
        <5>2. QED
          BY <5>1, Zenon
      <4>6. Cardinality(OthersBetween(a, N + 2)') >= MaxTracked
        <5>1. IsFiniteSet(OthersBetween(a, N + 2)')
          <6>1. a \in Int /\ N + 2 \in Int
            BY <4>1
          <6>2. PICK q : q = attempts'
            OBVIOUS
          <6>3. QED
            BY <6>1, <6>2, BetweenFinite DEF OthersBetween
        <5>2. Cardinality(O) <= Cardinality(OthersBetween(a, N + 2)')
          BY <4>5, <5>1, FS_Subset
        <5>3. /\ Cardinality(O) \in Nat /\ Cardinality(OthersBetween(a, N + 2)') \in Nat
              /\ MaxTracked \in Nat
          BY <3>4, <5>1, FS_CardinalityType, LimiterAssumption, SMTT(30)
        <5>4. QED
          BY <3>4, <5>2, <5>3
      <4>7. /\ a \in i..(N + 1) /\ N + 2 \in 1..(N + 2) /\ a < N + 2 /\ ~(N + 2 <= N + 1)
            /\ attempts'[a].panel = attempts'[i].panel
        BY <1>1, <2>1, <4>1, <4>2
      <4>8. QED
        BY <1>1, <2>1, <4>4, <4>6, <4>7 DEF ForgottenSince
    <3>5. QED
      BY <1>2, <3>1, <3>2, <3>3, <3>4
  <2>5. CASE attempts[i].at < start
    BY <2>1, <2>5
  <2>6. QED
    BY <1>3, <1>6, <2>1, <2>2, <2>3, <2>4, <2>5
<1>7. QED
  BY <1>5, <1>6

\* The codes of earlier attempts are limited as before.
LEMMA EarlierStay ==
  ASSUME NEW N \in Nat, N = Len(attempts), Len(attempts') = N + 1,
         \A i \in 1..N : attempts'[i] = attempts[i],
         NEW j \in 1..N
  PROVE  InWindow(j)' = InWindow(j) /\ (Forgotten(j) => Forgotten(j)')
<1>1. \A i \in 1..j : attempts'[i] = attempts[i]
  OBVIOUS
<1>2. InWindow(j)' = InWindow(j)
  BY <1>1 DEF InWindow
<1>3. \A i \in InWindow(j) : i \in 1..j
  BY DEF InWindow
<1>4. ASSUME NEW a \in InWindow(j), NEW b \in InWindow(j)
      PROVE  OthersBetween(a, b)' = OthersBetween(a, b)
  <2>1. a \in Nat /\ b \in Nat /\ b <= N + 1
    BY <1>3
  <2>2. QED
    BY <2>1, BetweenStays
<1>5. QED
  BY <1>1, <1>2, <1>4 DEF Forgotten

\* What was typed in the window of the new attempt is counted, or the panel was forgotten.
LEMMA TypedCounted ==
  ASSUME LimiterInv, NEW k \in Panels, Attempted(k),
         NEW N \in Nat, N = Len(attempts),
         Cardinality(Counting(k)) <= MaxRequests,
         ~Forgotten(N + 1)', NEW i \in InWindow(N + 1)', attempts'[i].typed
  PROVE  Stamp(i)' \in Counting(k)
<1> DEFINE start == now - Window
<1>1. /\ Len(attempts') = N + 1 /\ now' = now /\ now \in Nat
      /\ \A h \in 1..N : attempts'[h] = attempts[h] /\ attempts[h] \in Attempt
      /\ attempts'[N + 1].panel = k /\ attempts'[N + 1].at = now
      /\ k \in DOMAIN limiter.log =>
           \A t \in limiter.log[k].times : t.at >= start => t \in Counting(k)
      /\ [n |-> N + 1, at |-> now] \in Counting(k)
  BY AttemptedFacts
<1>2. i \in 1..(N + 1) /\ attempts'[i].panel = k /\ attempts'[i].at >= start
  BY <1>1 DEF InWindow
<1>3. CASE i = N + 1
  BY <1>1, <1>3 DEF Stamp
<1>4. CASE i \in 1..N
  <2>1. attempts'[i] = attempts[i] /\ attempts[i] \in Attempt /\ attempts[i].panel = k
    BY <1>1, <1>2, <1>4
  <2>2. Stamp(i)' = [n |-> i, at |-> attempts[i].at] /\ Stamp(i) = [n |-> i, at |-> attempts[i].at]
    BY <2>1 DEF Stamp
  <2>3. Held(i) \/ attempts[i].at < start \/ ForgottenSince(i)
    BY <1>4, <2>1 DEF LimiterInv, TypedRemembered
  <2>4. ~(attempts[i].at < start)
    BY <1>1, <1>2, <2>1, LimiterAssumption DEF Attempt
  <2>5. CASE Held(i)
    <3>1. k \in DOMAIN limiter.log /\ Stamp(i) \in limiter.log[k].times /\ Stamp(i).at >= start
      BY <1>2, <2>1, <2>2, <2>5 DEF Held
    <3>2. QED
      BY <1>1, <2>2, <3>1
  <2>6. CASE ForgottenSince(i)
    <3>1. PICK a \in i..N, b \in 1..(N + 1) :
            /\ a < b /\ attempts[a].panel = k
            /\ b <= N => attempts[b].panel = k
            /\ k \notin OthersBetween(a, b)
            /\ Cardinality(OthersBetween(a, b)) >= MaxTracked
      BY <2>1, <2>6 DEF ForgottenSince
    <3>2. OthersBetween(a, b)' = OthersBetween(a, b) /\ a \in 1..N
      BY <1>1, <1>4, <3>1, BetweenStays, SMTT(30)
    <3>3. ASSUME NEW h \in i..(N + 1), attempts'[h].panel = k
          PROVE  h \in InWindow(N + 1)'
      <4>1. attempts'[h].at >= start
        <5>1. CASE h = N + 1
          BY <1>1, <5>1, LimiterAssumption
        <5>2. CASE h \in 1..N
          <6>1. attempts[i].at <= attempts[h].at
            BY <1>4, <5>2 DEF LimiterInv, InTime
          <6>2. attempts'[h] = attempts[h] /\ attempts[h] \in Attempt
            BY <1>1, <5>2
          <6>3. QED
            BY <1>1, <1>2, <2>1, <6>1, <6>2, LimiterAssumption DEF Attempt
        <5>3. QED
          BY <1>4, <5>1, <5>2
      <4>2. h \in 1..(N + 1)
        BY <1>4
      <4>3. QED
        BY <1>1, <3>3, <4>1, <4>2 DEF InWindow
    <3>4. attempts'[a].panel = k /\ attempts'[b].panel = k /\ b \in i..(N + 1)
      <4>1. b \in i..(N + 1) /\ (b \in 1..N \/ b = N + 1)
        BY <1>4, <3>1
      <4>2. QED
        BY <1>1, <3>1, <3>2, <4>1
    <3>5. a \in InWindow(N + 1)' /\ b \in InWindow(N + 1)'
      <4>1. a \in i..(N + 1)
        BY <3>1
      <4>2. QED
        BY <3>3, <3>4, <4>1
    <3>6. Forgotten(N + 1)'
      BY <1>1, <3>1, <3>2, <3>5 DEF Forgotten
    <3>7. QED
      BY <3>6
  <2>7. QED
    BY <2>3, <2>4, <2>5, <2>6
<1>5. QED
  BY <1>2, <1>3, <1>4

\* The new attempt is limited as the property says.
LEMMA NewestLimited ==
  ASSUME LimiterInv, NEW k \in Panels, Attempted(k), NEW N \in Nat, N = Len(attempts)
  PROVE  IF attempts'[N + 1].typed
           THEN Forgotten(N + 1)' \/ Cardinality({i \in InWindow(N + 1)' : attempts'[i].typed}) <= MaxRequests
         ELSE Cardinality(InWindow(N + 1)') > MaxRequests
<1>1. /\ Len(attempts') = N + 1 /\ now' = now /\ now \in Nat
      /\ attempts'[N + 1].panel = k /\ attempts'[N + 1].at = now
      /\ attempts'[N + 1].typed <=> Cardinality(Counting(k)) <= MaxRequests
      /\ IsFiniteSet(Counting(k)) /\ Cardinality(Counting(k)) \in Nat
      /\ \A t \in Counting(k) : t.n \in (AttemptsOf(k))' /\ t = Stamp(t.n)' /\ t.at >= now - Window
  BY AttemptedFacts
<1>2. MaxRequests \in Nat
  BY LimiterAssumption
<1> DEFINE W == InWindow(N + 1)'
           Y == {i \in W : attempts'[i].typed}
<1>3. IsFiniteSet(W)
  <2>1. W \in SUBSET (1..(N + 1)) /\ IsFiniteSet(1..(N + 1))
    BY FS_Interval DEF InWindow
  <2>2. QED
    BY <2>1, FS_Subset
<1>4. CASE attempts'[N + 1].typed
  <2> SUFFICES ASSUME ~Forgotten(N + 1)'
               PROVE  Cardinality(Y) <= MaxRequests
    BY <1>4
  <2> DEFINE f == [i \in Y |-> [n |-> i, at |-> attempts'[i].at]]
  <2>1. \A i \in Y : [n |-> i, at |-> attempts'[i].at] \in Counting(k)
    <3> TAKE i \in Y
    <3>1. Stamp(i)' \in Counting(k)
      BY <1>1, <1>4, TypedCounted
    <3>2. QED
      BY <3>1 DEF Stamp
  <2>2. f \in Injection(Y, Counting(k))
    <3>1. f \in [Y -> Counting(k)]
      BY <2>1
    <3>2. \A i, j \in Y : f[i] = f[j] => i = j
      OBVIOUS
    <3>3. QED
      BY <3>1, <3>2 DEF Injection, IsInjective
  <2>3. Cardinality(Y) <= Cardinality(Counting(k)) /\ IsFiniteSet(Y)
    <3> HIDE DEF Y, f
    <3>1. QED
      BY <1>1, <2>2, FS_Injection
  <2>4. Cardinality(Y) \in Nat /\ Cardinality(Counting(k)) <= MaxRequests
    BY <1>1, <1>4, <2>3, FS_CardinalityType
  <2>5. QED
    BY <1>1, <1>2, <2>3, <2>4
<1>5. CASE ~attempts'[N + 1].typed
  <2> DEFINE g == [t \in Counting(k) |-> t.n]
  <2>1. \A t \in Counting(k) : t.n \in W
    <3> TAKE t \in Counting(k)
    <3>1. t.n \in 1..(N + 1) /\ attempts'[t.n].panel = k /\ attempts'[t.n].at >= now - Window
      BY <1>1 DEF AttemptsOf, Stamp
    <3>2. QED
      BY <1>1, <3>1 DEF InWindow
  <2>2. g \in Injection(Counting(k), W)
    <3>1. g \in [Counting(k) -> W]
      BY <2>1
    <3>2. \A t, u \in Counting(k) : g[t] = g[u] => t = u
      <4> TAKE t, u \in Counting(k)
      <4>1. t = [n |-> t.n, at |-> attempts'[t.n].at] /\ u = [n |-> u.n, at |-> attempts'[u.n].at]
        BY <1>1 DEF Stamp
      <4>2. QED
        BY <4>1
    <3>3. QED
      BY <3>1, <3>2 DEF Injection, IsInjective
  <2>3. Cardinality(Counting(k)) <= Cardinality(W) /\ Cardinality(W) \in Nat
    <3> HIDE DEF W, g
    <3>1. QED
      BY <1>3, <2>2, FS_Injection, FS_CardinalityType
  <2>4. Cardinality(Counting(k)) > MaxRequests
    BY <1>1, <1>2, <1>5
  <2>5. QED
    BY <1>1, <1>2, <1>5, <2>3, <2>4
<1>6. QED
  BY <1>4, <1>5

\* An attempt keeps the invariant and the property.
LEMMA AttemptedInv ==
  ASSUME LimiterInv, CodesLimited, NEW k \in Panels, Attempted(k)
  PROVE  LimiterInv' /\ CodesLimited'
<1>1. LimiterInv'
  BY LogAfter, InTimeAfter, RememberedAfter DEF LimiterInv
<1>2. CodesLimited'
  <2>1. PICK N \in Nat :
          /\ N = Len(attempts) /\ Len(attempts') = N + 1
          /\ \A i \in 1..N : attempts'[i] = attempts[i]
          /\ attempts \in Seq(Attempt) /\ attempts' \in Seq(Attempt)
    BY AttemptedFacts
  <2>2. DOMAIN attempts = 1..N /\ DOMAIN attempts' = 1..(N + 1)
    BY <2>1, LenProperties
  <2> SUFFICES ASSUME NEW j \in 1..(N + 1)
               PROVE  IF attempts'[j].typed
                        THEN Forgotten(j)' \/ Cardinality({i \in InWindow(j)' : attempts'[i].typed}) <= MaxRequests
                      ELSE Cardinality(InWindow(j)') > MaxRequests
    BY <2>2 DEF CodesLimited
  <2>3. CASE j = N + 1
    BY <2>1, <2>3, NewestLimited
  <2>4. CASE j \in 1..N
    <3>1. InWindow(j)' = InWindow(j) /\ (Forgotten(j) => Forgotten(j)')
      BY <2>1, <2>4, EarlierStay
    <3>2. \A i \in InWindow(j) : attempts'[i] = attempts[i]
      BY <2>1, <2>4 DEF InWindow
    <3>3. {i \in InWindow(j)' : attempts'[i].typed} = {i \in InWindow(j) : attempts[i].typed}
      BY <3>1, <3>2
    <3>4. attempts'[j] = attempts[j]
      BY <2>1, <2>4
    <3>5. IF attempts[j].typed
            THEN Forgotten(j) \/ Cardinality({i \in InWindow(j) : attempts[i].typed}) <= MaxRequests
          ELSE Cardinality(InWindow(j)) > MaxRequests
      BY <2>2, <2>4 DEF CodesLimited
    <3>6. QED
      BY <3>1, <3>3, <3>4, <3>5
  <2>5. QED
    BY <2>3, <2>4
<1>3. QED
  BY <1>1, <1>2

\* The clock, and every message that is no attempt, keep them too.
LEMMA NoAttemptInv ==
  ASSUME LimiterInv, CodesLimited, UNCHANGED <<limiter, attempts>>, now' \in {now, now + 1}
  PROVE  LimiterInv' /\ CodesLimited'
<1>1. CodesLimited'
  <2>1. \A j : InWindow(j)' = InWindow(j)
    BY DEF InWindow
  <2>2. \A a, b : OthersBetween(a, b)' = OthersBetween(a, b)
    BY DEF OthersBetween
  <2>3. \A j : Forgotten(j)' <=> Forgotten(j)
    BY <2>1, <2>2 DEF Forgotten
  <2>4. QED
    BY <2>1, <2>3 DEF CodesLimited
<1>2. EntriesTrue' /\ WithinCap'
  BY DEF LimiterInv, EntriesTrue, WithinCap, LastOf, AttemptsOf, Stamp
<1>3. now \in Nat /\ now' \in Nat /\ now <= now' /\ PanelTypeOK'
  BY DEF LimiterInv, PanelTypeOK
<1>4. \A i \in 1..Len(attempts) : attempts[i] \in Attempt
  BY LenProperties, ElementOfSeq DEF LimiterInv, PanelTypeOK
<1>5. InTime'
  <2> SUFFICES ASSUME NEW i \in 1..Len(attempts), NEW j \in 1..Len(attempts), i <= j
               PROVE  attempts[i].at <= attempts[j].at /\ attempts[j].at <= now'
    BY DEF InTime
  <2>1. attempts[i].at <= attempts[j].at /\ attempts[j].at <= now /\ attempts[j].at \in Nat
    BY <1>4 DEF LimiterInv, InTime, Attempt
  <2>2. QED
    BY <1>3, <2>1
<1>6. TypedRemembered'
  <2> SUFFICES ASSUME NEW i \in 1..Len(attempts), attempts[i].typed
               PROVE  Held(i)' \/ attempts[i].at < now' - Window \/ ForgottenSince(i)'
    BY DEF TypedRemembered
  <2>1. Held(i)' = Held(i) /\ ForgottenSince(i)' = ForgottenSince(i)
    BY DEF Held, ForgottenSince, Stamp, OthersBetween
  <2>2. attempts[i].at < now - Window => attempts[i].at < now' - Window
    BY <1>3, <1>4, LimiterAssumption DEF Attempt
  <2>3. QED
    BY <2>1, <2>2 DEF LimiterInv, TypedRemembered
<1>7. QED
  BY <1>1, <1>2, <1>3, <1>5, <1>6 DEF LimiterInv

\* A disarm is an attempt, or leaves the limiter alone.
LEMMA DisarmAttempts ==
  ASSUME NEW k, NEW code, SecurityDisarm(k, code)
  PROVE  Attempted(k) \/ UNCHANGED <<limiter, attempts, now>>
BY DEF SecurityDisarm, Attempted, OneMore, NoAttempt

\* A message that is about no code leaves the limiter alone.
LEMMA PlainLeave ==
  ASSUME PlainMessages
  PROVE  UNCHANGED <<limiter, attempts, now>>
<1>1. ASSUME NEW mine, SecurityBypass(mine) PROVE UNCHANGED <<limiter, attempts, now>>
  BY <1>1 DEF SecurityBypass, BypassKeypress, NoAttempt
<1>2. ASSUME NEW mine, NEW v, NEW m, NEW u, MeasurementData(mine, v, m, u)
      PROVE  UNCHANGED <<limiter, attempts, now>>
  BY <1>2 DEF MeasurementData, NoAttempt
<1>3. ASSUME NEW mine, NEW v, TemperatureBroadcast(mine, v)
      PROVE  UNCHANGED <<limiter, attempts, now>>
  BY <1>3 DEF TemperatureBroadcast, NoAttempt
<1>4. ASSUME NEW verb, NEW scene, SceneModule(verb, scene)
      PROVE  UNCHANGED <<limiter, attempts, now>>
  BY <1>4 DEF SceneModule, NoAttempt
<1>5. QED
  BY <1>1, <1>2, <1>3, <1>4 DEF PlainMessages

\* Every step.
LEMMA PanelNextInv ==
  ASSUME LimiterInv, CodesLimited, [PanelNext]_panelVars
  PROVE  LimiterInv' /\ CodesLimited'
<1>1. CASE PanelTick
  BY <1>1, NoAttemptInv DEF PanelTick
<1>2. CASE GetAll \/ GetTree \/ DiscoveryTrigger
  <2>1. UNCHANGED <<limiter, attempts, now>>
    BY <1>2 DEF GetAll, GetTree, DiscoveryTrigger, NoAttempt
  <2>2. QED
    BY <2>1, NoAttemptInv
<1>3. CASE PlainMessages
  BY <1>3, PlainLeave, NoAttemptInv
<1>4. ASSUME NEW k \in Panels, NEW p \in Messages, SecurityArm(k, TRUE, p)
      PROVE  LimiterInv' /\ CodesLimited'
  <2>1. SecurityDisarm(k, p.code) \/ UNCHANGED <<limiter, attempts, now>>
    BY <1>4 DEF SecurityArm, BypassKeypress, NoAttempt
  <2>2. Attempted(k) \/ UNCHANGED <<limiter, attempts, now>>
    BY <2>1, DisarmAttempts
  <2>3. QED
    BY <2>2, AttemptedInv, NoAttemptInv
<1>5. ASSUME NEW k, NEW p, SecurityArm(k, FALSE, p)
      PROVE  LimiterInv' /\ CodesLimited'
  <2>1. UNCHANGED <<limiter, attempts, now>>
    BY <1>5 DEF SecurityArm, PanelPermitted, NoAttempt
  <2>2. QED
    BY <2>1, NoAttemptInv
<1>6. CASE UNCHANGED panelVars
  BY <1>6, NoAttemptInv DEF panelVars
<1>7. \/ PanelTick \/ GetAll \/ GetTree \/ DiscoveryTrigger \/ PlainMessages \/ UNCHANGED panelVars
      \/ \E k \in Panels, p \in Messages : SecurityArm(k, TRUE, p)
      \/ \E k, p : SecurityArm(k, FALSE, p)
  BY Zenon DEF PanelNext
<1>8. QED
  BY <1>1, <1>2, <1>3, <1>4, <1>5, <1>6, <1>7

\* Nothing is tracked and nothing was tried.
LEMMA PanelInitInv == PanelInit => LimiterInv /\ CodesLimited
<1> SUFFICES ASSUME PanelInit
             PROVE  LimiterInv /\ CodesLimited
  OBVIOUS
<1>1. attempts = <<>> /\ Len(attempts) = 0 /\ DOMAIN attempts = {} /\ 1..Len(attempts) = {} /\ attempts \in Seq(Attempt)
  BY EmptySeq DEF PanelInit
<1>2. limiter = NoRequests /\ now = 0
  BY DEF PanelInit
<1>3. DOMAIN limiter.log = {} /\ limiter = [log |-> limiter.log, swept |-> limiter.swept, requests |-> 0]
  BY <1>2 DEF NoRequests
<1>4. WithinCap
  BY <1>3, FS_EmptySet, LimiterAssumption DEF WithinCap
<1>5. QED
  BY <1>1, <1>2, <1>3, <1>4 DEF LimiterInv, PanelTypeOK, InTime, EntriesTrue, TypedRemembered, CodesLimited

\* In no window, wherever it begins, are more codes typed on a panel than the limit allows,
\* unless as many other panels as are tracked were tried between two of its attempts; and no
\* code is refused without as many attempts in the window, for any number of panels, any
\* limit, window and cap (rateLimiter.js:56-93, mqttCommandRouter.js:530-580).
THEOREM CodesAreLimited == PanelSpec => []CodesLimited
<1>1. PanelInit => LimiterInv /\ CodesLimited
  BY PanelInitInv
<1>2. LimiterInv /\ CodesLimited /\ [PanelNext]_panelVars => LimiterInv' /\ CodesLimited'
  BY PanelNextInv
<1>3. QED
  BY <1>1, <1>2, PTL DEF PanelSpec
-----------------------------------------------------------------------------
(* Maps, and lists of publications *)

\* A sequence, and one with a topic once.
Listed(m) == m \in Seq(Entries(m))
IsMap(m)  == Listed(m) /\ \A i, j \in DOMAIN m : m[i].topic = m[j].topic => i = j

\* Those of M that are not about topic t.
Apart(M, t) == {x \in M : x.topic # t}
Topics(M)   == {x.topic : x \in M}

\* What can be counted on of a list.
LEMMA ListedIs ==
  ASSUME NEW m
  PROVE  /\ \A S : m \in Seq(S) => Listed(m)
         /\ Listed(m) => DOMAIN m = 1..Len(m) /\ Len(m) \in Nat /\ TopicsIn(m) = Topics(Entries(m))
         /\ Listed(m) => (m = <<>> <=> Entries(m) = {})
<1>1. ASSUME NEW S, m \in Seq(S) PROVE Listed(m)
  <2>1. m \in [1..Len(m) -> S] /\ Len(m) \in Nat
    BY <1>1
  <2>2. \A i \in 1..Len(m) : m[i] \in Entries(m)
    BY <2>1 DEF Entries
  <2>3. m \in [1..Len(m) -> Entries(m)]
    BY <2>1, <2>2
  <2>4. QED
    BY <2>1, <2>3 DEF Listed
<1>2. ASSUME Listed(m) PROVE DOMAIN m = 1..Len(m) /\ Len(m) \in Nat
  BY <1>2 DEF Listed
<1>3. ASSUME Listed(m) PROVE TopicsIn(m) = Topics(Entries(m))
  BY DEF TopicsIn, Topics, Entries
<1>4. ASSUME Listed(m) PROVE m = <<>> <=> Entries(m) = {}
  BY <1>4 DEF Listed, Entries
<1>5. QED
  BY <1>1, <1>2, <1>3, <1>4

\* The last entry of a topic.
LEMMA PlaceIs ==
  ASSUME NEW m, Listed(m), NEW t \in TopicsIn(m)
  PROVE  /\ Place(m, t) \in DOMAIN m /\ m[Place(m, t)].topic = t
         /\ \A j \in DOMAIN m : m[j].topic = t => j <= Place(m, t)
<1> DEFINE I == {i \in DOMAIN m : m[i].topic = t}
<1>1. DOMAIN m = 1..Len(m) /\ Len(m) \in Nat
  BY ListedIs
<1>2. I # {} /\ I \subseteq 1..Len(m)
  BY <1>1 DEF TopicsIn
<1>3. PICK x \in I : \A y \in I : y <= x
  BY <1>1, <1>2, Greatest
<1>4. x \in DOMAIN m /\ m[x].topic = t /\ \A j \in DOMAIN m : m[j].topic = t => j <= x
  BY <1>3
<1>5. QED
  BY <1>4 DEF Place

\* In a Map the entry of a topic is the only one.
LEMMA ValueIs ==
  ASSUME NEW m, IsMap(m), NEW x \in Entries(m)
  PROVE  x.topic \in TopicsIn(m) /\ m[Place(m, x.topic)] = x /\ ValueIn(m, x.topic) = x.payload
<1>1. PICK i \in DOMAIN m : m[i] = x
  BY DEF Entries
<1>2. x.topic \in TopicsIn(m)
  BY <1>1 DEF TopicsIn
<1>3. Place(m, x.topic) \in DOMAIN m /\ m[Place(m, x.topic)].topic = x.topic
  BY <1>2, PlaceIs DEF IsMap
<1>4. Place(m, x.topic) = i
  BY <1>1, <1>3 DEF IsMap
<1>5. QED
  BY <1>1, <1>2, <1>4 DEF ValueIn

\* One entry more, of a new topic.
LEMMA AppendIs ==
  ASSUME NEW m, IsMap(m), NEW p, p.topic \notin TopicsIn(m)
  PROVE  /\ IsMap(Append(m, p)) /\ Entries(Append(m, p)) = Entries(m) \cup {p}
         /\ Len(Append(m, p)) = Len(m) + 1 /\ Append(m, p) # <<>>
<1> DEFINE S == Entries(m) \cup {p}
           a == Append(m, p)
<1>1. m \in Seq(S) /\ p \in S /\ Len(m) \in Nat /\ DOMAIN m = 1..Len(m)
  <2>1. m \in Seq(Entries(m))
    BY DEF IsMap, Listed
  <2>2. QED
    BY <2>1
<1> HIDE DEF S
<1>2. /\ a \in Seq(S) /\ a # <<>> /\ Len(a) = Len(m) + 1
      /\ \A i \in 1..Len(m) : a[i] = m[i]
      /\ a[Len(m) + 1] = p
  BY <1>1, AppendProperties
<1> HIDE DEF a
<1>3. DOMAIN a = 1..(Len(m) + 1)
  BY <1>1, <1>2
<1>4. Listed(a)
  BY <1>2, ListedIs
<1>5. \A i \in 1..(Len(m) + 1) : i \in 1..Len(m) \/ i = Len(m) + 1
  BY <1>1
<1>6. \A i \in 1..Len(m) : i \in 1..(Len(m) + 1)
  BY <1>1
<1>7. Entries(a) = S
  <2>1. ASSUME NEW x \in Entries(a) PROVE x \in S
    BY <1>1, <1>2, <1>3, <1>5 DEF Entries, S
  <2>2. ASSUME NEW x \in S PROVE x \in Entries(a)
    <3>1. CASE x = p
      <4>1. Len(m) + 1 \in 1..(Len(m) + 1)
        BY <1>1
      <4>2. QED
        BY <1>2, <1>3, <3>1, <4>1 DEF Entries
    <3>2. CASE x \in Entries(m)
      BY <1>1, <1>2, <1>3, <1>6, <3>2 DEF Entries
    <3>3. QED
      BY <3>1, <3>2 DEF S
  <2>3. QED
    BY <2>1, <2>2
<1>8. \A i \in 1..Len(m) : m[i].topic # p.topic
  BY <1>1 DEF TopicsIn
<1>9. \A i, j \in DOMAIN a : a[i].topic = a[j].topic => i = j
  <2>1. \A i, j \in 1..Len(m) : m[i].topic = m[j].topic => i = j
    BY <1>1 DEF IsMap
  <2>2. QED
    BY <1>2, <1>3, <1>5, <1>8, <2>1
<1>10. QED
  BY <1>2, <1>4, <1>7, <1>9 DEF IsMap, a, S

\* The entry of a topic changed where it is.
LEMMA SetInPlaceIs ==
  ASSUME NEW m, IsMap(m), NEW p
  PROVE  /\ IsMap(SetInPlace(m, p))
         /\ Entries(SetInPlace(m, p)) = Apart(Entries(m), p.topic) \cup {p}
<1>1. CASE p.topic \notin TopicsIn(m)
  <2>1. SetInPlace(m, p) = Append(m, p)
    BY <1>1 DEF SetInPlace
  <2>2. Apart(Entries(m), p.topic) = Entries(m)
    BY <1>1 DEF Apart, Entries, TopicsIn
  <2>3. QED
    BY <1>1, <2>1, <2>2, AppendIs
<1>2. CASE p.topic \in TopicsIn(m)
  <2> DEFINE S == Entries(m) \cup {p}
  <2>1. m \in Seq(S) /\ Len(m) \in Nat /\ DOMAIN m = 1..Len(m) /\ p \in S
    <3>1. m \in Seq(Entries(m))
      BY DEF IsMap, Listed
    <3>2. QED
      BY <3>1
  <2>2. PICK k \in DOMAIN m : k = Place(m, p.topic) /\ m[k].topic = p.topic
    BY <1>2, PlaceIs DEF IsMap
  <2>3. PICK a : a = [m EXCEPT ![k] = p]
    OBVIOUS
  <2>4. SetInPlace(m, p) = a
    BY <1>2, <2>2, <2>3 DEF SetInPlace
  <2> HIDE DEF S
  <2>5. a \in Seq(S) /\ DOMAIN a = DOMAIN m /\ \A i \in DOMAIN m : a[i] = IF i = k THEN p ELSE m[i]
    BY <2>1, <2>2, <2>3
  <2>6. Listed(a)
    BY <2>5, ListedIs
  <2>7. \A i \in DOMAIN m : m[i].topic = p.topic => i = k
    BY <2>2 DEF IsMap
  <2>8. \A i, j \in DOMAIN a : a[i].topic = a[j].topic => i = j
    BY <2>5, <2>7 DEF IsMap
  <2>9. Entries(a) = Apart(Entries(m), p.topic) \cup {p}
    <3>1. ASSUME NEW x \in Entries(a) PROVE x \in Apart(Entries(m), p.topic) \cup {p}
      <4>1. PICK i \in DOMAIN m : x = a[i]
        BY <2>5 DEF Entries
      <4>2. QED
        BY <2>5, <2>7, <4>1 DEF Apart, Entries
    <3>2. ASSUME NEW x \in Apart(Entries(m), p.topic) PROVE x \in Entries(a)
      <4>1. PICK i \in DOMAIN m : x = m[i] /\ m[i].topic # p.topic
        BY DEF Apart, Entries
      <4>2. a[i] = x
        BY <2>2, <2>5, <4>1
      <4>3. QED
        BY <2>5, <4>2 DEF Entries
    <3>3. p \in Entries(a)
      BY <2>2, <2>5 DEF Entries
    <3>4. QED
      BY <3>1, <3>2, <3>3
  <2>10. QED
    BY <2>4, <2>6, <2>8, <2>9 DEF IsMap
<1>3. QED
  BY <1>1, <1>2

\* A Map without one of its topics.
LEMMA DropIs ==
  ASSUME NEW m, IsMap(m), NEW t
  PROVE  IsMap(Drop(m, t)) /\ Entries(Drop(m, t)) = Apart(Entries(m), t)
<1>1. CASE t \notin TopicsIn(m)
  <2>1. Drop(m, t) = m
    BY <1>1 DEF Drop
  <2>2. Apart(Entries(m), t) = Entries(m)
    BY <1>1 DEF Apart, Entries, TopicsIn
  <2>3. QED
    BY <2>1, <2>2
<1>2. CASE t \in TopicsIn(m)
  <2>1. DOMAIN m = 1..Len(m) /\ Len(m) \in Nat
    BY ListedIs, SMTT(30) DEF IsMap
  <2>2. PICK N \in Nat : N = Len(m)
    BY <2>1
  <2>3. PICK k \in 1..N : k = Place(m, t) /\ m[k].topic = t
    BY <1>2, <2>1, <2>2, PlaceIs DEF IsMap
  <2>4. PICK a : a = [i \in 1..(N - 1) |-> IF i < k THEN m[i] ELSE m[i + 1]]
    OBVIOUS
  <2>5. Drop(m, t) = a
    BY <1>2, <2>2, <2>3, <2>4 DEF Drop
  <2> DEFINE f == [i \in 1..(N - 1) |-> IF i < k THEN i ELSE i + 1]
  <2>6. /\ \A i \in 1..(N - 1) : f[i] \in 1..N /\ f[i] # k /\ a[i] = m[f[i]]
        /\ \A i, j \in 1..(N - 1) : f[i] = f[j] => i = j
        /\ \A j \in 1..N : j # k => \E i \in 1..(N - 1) : f[i] = j
    <3>1. \A i \in 1..(N - 1) : f[i] \in 1..N /\ f[i] # k /\ a[i] = m[f[i]]
      BY <2>4
    <3>2. \A i, j \in 1..(N - 1) : f[i] = f[j] => i = j
      OBVIOUS
    <3>3. ASSUME NEW j \in 1..N, j # k PROVE \E i \in 1..(N - 1) : f[i] = j
      <4>1. CASE j < k
        <5>1. j \in 1..(N - 1) /\ f[j] = j
          BY <4>1
        <5>2. QED
          BY <5>1
      <4>2. CASE j > k
        <5>1. j - 1 \in 1..(N - 1) /\ f[j - 1] = j
          BY <4>2
        <5>2. QED
          BY <5>1
      <4>3. QED
        BY <3>3, <4>1, <4>2
    <3>4. QED
      BY <3>1, <3>2, <3>3
  <2> HIDE DEF f
  <2>7. a \in Seq(Entries(m)) /\ DOMAIN a = 1..(N - 1)
    <3>1. DOMAIN a = 1..(N - 1) /\ N - 1 \in Nat
      BY <2>3, <2>4
    <3>2. ASSUME NEW i \in 1..(N - 1) PROVE a[i] \in Entries(m)
      <4>1. f[i] \in DOMAIN m /\ a[i] = m[f[i]]
        BY <2>1, <2>2, <2>6
      <4>2. QED
        BY <4>1 DEF Entries
    <3>3. a \in [1..(N - 1) -> Entries(m)]
      BY <2>4, <3>2
    <3>4. QED
      BY <3>1, <3>3
  <2>8. Listed(a)
    BY <2>7, ListedIs
  <2>9. \A i, j \in 1..N : m[i].topic = m[j].topic => i = j
    BY <2>1, <2>2 DEF IsMap
  <2>10. ASSUME NEW i \in DOMAIN a, NEW j \in DOMAIN a, a[i].topic = a[j].topic PROVE i = j
    <3>1. /\ i \in 1..(N - 1) /\ j \in 1..(N - 1) /\ f[i] \in 1..N /\ f[j] \in 1..N
          /\ a[i] = m[f[i]] /\ a[j] = m[f[j]]
      BY <2>6, <2>7
    <3>2. f[i] = f[j]
      BY <2>9, <2>10, <3>1
    <3>3. QED
      BY <2>6, <3>1, <3>2
  <2>11. Entries(a) = Apart(Entries(m), t)
    <3>1. ASSUME NEW x \in Entries(a) PROVE x \in Apart(Entries(m), t)
      <4>1. PICK i \in 1..(N - 1) : x = m[f[i]] /\ f[i] \in 1..N /\ f[i] # k
        BY <2>6, <2>7 DEF Entries
      <4>2. QED
        BY <2>1, <2>2, <2>3, <2>9, <4>1 DEF Apart, Entries
    <3>2. ASSUME NEW x \in Apart(Entries(m), t) PROVE x \in Entries(a)
      <4>1. PICK j \in 1..N : x = m[j] /\ j # k
        BY <2>1, <2>2, <2>3 DEF Apart, Entries
      <4>2. PICK i \in 1..(N - 1) : f[i] = j
        BY <2>6, <4>1
      <4>3. a[i] = x /\ i \in DOMAIN a
        BY <2>6, <2>7, <4>1, <4>2
      <4>4. QED
        BY <4>3 DEF Entries
    <3>3. QED
      BY <3>1, <3>2
  <2>12. QED
    BY <2>5, <2>8, <2>10, <2>11 DEF IsMap
<1>3. QED
  BY <1>1, <1>2

\* A Map without its oldest entry.
LEMMA TailIs ==
  ASSUME NEW m, IsMap(m), m # <<>>
  PROVE  /\ IsMap(Tail(m)) /\ Head(m) \in Entries(m)
         /\ Entries(Tail(m)) = Apart(Entries(m), Head(m).topic)
<1>1. m \in Seq(Entries(m)) /\ DOMAIN m = 1..Len(m) /\ Len(m) \in Nat /\ Len(m) > 0
  BY ListedIs DEF IsMap, Listed
<1>2. PICK a, h : a = Tail(m) /\ h = Head(m)
  OBVIOUS
<1>3. /\ a \in Seq(Entries(m)) /\ DOMAIN a = 1..(Len(m) - 1) /\ h = m[1]
      /\ \A i \in 1..(Len(m) - 1) : a[i] = m[i + 1] /\ i + 1 \in 1..Len(m)
  BY <1>1, <1>2
<1>4. h \in Entries(m)
  BY <1>1, <1>3 DEF Entries
<1>5. Listed(a)
  BY <1>3, ListedIs
<1>6. \A i, j \in 1..Len(m) : m[i].topic = m[j].topic => i = j
  BY <1>1 DEF IsMap
<1>7. \A i, j \in DOMAIN a : a[i].topic = a[j].topic => i = j
  BY <1>1, <1>3, <1>6
<1>8. Entries(a) = Apart(Entries(m), h.topic)
  <2>1. ASSUME NEW x \in Entries(a) PROVE x \in Apart(Entries(m), h.topic)
    <3>1. PICK i \in 1..(Len(m) - 1) : x = a[i]
      BY <1>3 DEF Entries
    <3>2. PICK j \in 1..Len(m) : x = m[j] /\ j # 1
      <4>1. x = m[i + 1] /\ i + 1 \in 1..Len(m) /\ i + 1 # 1
        BY <1>3, <3>1
      <4>2. QED
        BY <4>1
    <3>3. m[j].topic # m[1].topic
      <4>1. 1 \in 1..Len(m)
        BY <1>1
      <4>2. QED
        BY <1>6, <3>2, <4>1
    <3>4. QED
      BY <1>1, <1>3, <3>2, <3>3 DEF Apart, Entries
  <2>2. ASSUME NEW x \in Apart(Entries(m), h.topic) PROVE x \in Entries(a)
    <3>1. PICK j \in 1..Len(m) : x = m[j] /\ j # 1
      BY <1>1, <1>3 DEF Apart, Entries
    <3>2. j - 1 \in 1..(Len(m) - 1) /\ (j - 1) + 1 = j
      BY <1>1, <3>1
    <3>3. QED
      BY <1>3, <3>1, <3>2 DEF Entries
  <2>3. QED
    BY <2>1, <2>2
<1>9. QED
  BY <1>2, <1>4, <1>5, <1>7, <1>8 DEF IsMap

-----------------------------------------------------------------------------
(* What an outbox keeps of the newest values *)

\* The broker has value v of topic t, or will have it from the queue.
Coming(Q, K, t, v) ==
  IF t \in Topics(Q) THEN \A x \in Q : x.topic = t => x.payload = v ELSE t \in DOMAIN K /\ K[t] = v

\* A publication p took the queue Q, the broker K and the lost topics G to Q2, K2, G2.
Passed(p, Q, K, G, Q2, K2, G2) ==
  /\ p.topic \notin G2 /\ Coming(Q2, K2, p.topic, p.payload)
  /\ \A t : t # p.topic /\ t \notin G2 =>
       t \notin G /\ \A v : Coming(Q, K, t, v) => Coming(Q2, K2, t, v)
  /\ Topics(Q2) \cap G2 = {}
  /\ Topics(Q2) \subseteq Topics(Q) \cup {p.topic}
  /\ DOMAIN K2 \subseteq DOMAIN K \cup {p.topic}

\* p is one of the newest values L, unless its topic is still among V; U is V and that topic.
Newer(p, L, U, V) ==
  p.topic \in DOMAIN L /\ U \subseteq V \cup {p.topic} /\ (p.topic \notin V => p.payload = L[p.topic])

\* The window R2 knows p, and no more than R knew.
Knows(R2, R, p) == R2 \subseteq Apart(R, p.topic) \cup {p}

\* The buffer, the window, the queue, the broker and the lost topics agree with the
\* newest values L, but for those of the topics U.
Buffered(B, L, U) == \A x \in B : x.topic \in DOMAIN L /\ (x.topic \notin U => x.payload = L[x.topic])
Sent(B, Q, K, G, L, U) == \A t \in DOMAIN L : t \notin U /\ t \notin G /\ t \notin Topics(B) => Coming(Q, K, t, L[t])
Recalled(R, Q, K, G) == \A x \in R : x.topic \notin G => Coming(Q, K, x.topic, x.payload)
Within(Q, K, G, L) == Topics(Q) \cap G = {} /\ Topics(Q) \subseteq DOMAIN L /\ DOMAIN K \subseteq DOMAIN L

\* An outbox, and its Maps; what is off is empty.
IsOutbox(s) == \E b, r, q, k, g : s = [buffer |-> b, recent |-> r, pending |-> q, broker |-> k, gone |-> g]
KeepsMaps(s) == IsMap(s.buffer) /\ IsMap(s.recent) /\ IsMap(s.pending)
Sparing(s)   == (link => s.pending = <<>>) /\ (mode.dedup \/ s.recent = <<>>)
Agrees(s, L, U) ==
  /\ Buffered(Entries(s.buffer), L, U)
  /\ Sent(Entries(s.buffer), Entries(s.pending), s.broker, s.gone, L, U)
  /\ Recalled(Entries(s.recent), Entries(s.pending), s.broker, s.gone)
  /\ Within(Entries(s.pending), s.broker, s.gone, L)
Keeps(s, L, U) == IsOutbox(s) /\ KeepsMaps(s) /\ Sparing(s) /\ Agrees(s, L, U)

\* n is the outbox of these parts.
Parts(n, b, r, q, k, g) ==
  IsOutbox(n) /\ n.buffer = b /\ n.recent = r /\ n.pending = q /\ n.broker = k /\ n.gone = g

\* A change of a part of an outbox is a change of that part alone.
LEMMA PartsAre ==
  ASSUME NEW s, IsOutbox(s), NEW x, NEW y
  PROVE  /\ Parts([s EXCEPT !.buffer = x], x, s.recent, s.pending, s.broker, s.gone)
         /\ Parts([s EXCEPT !.recent = x], s.buffer, x, s.pending, s.broker, s.gone)
         /\ Parts([s EXCEPT !.pending = x], s.buffer, s.recent, x, s.broker, s.gone)
         /\ Parts([s EXCEPT !.pending = x, !.gone = y], s.buffer, s.recent, x, s.broker, y)
         /\ Parts([s EXCEPT !.broker = x, !.gone = y], s.buffer, s.recent, s.pending, x, y)
<1>1. PICK b, r, q, k, g : s = [buffer |-> b, recent |-> r, pending |-> q, broker |-> k, gone |-> g]
  BY DEF IsOutbox
<1>2. s.buffer = b /\ s.recent = r /\ s.pending = q /\ s.broker = k /\ s.gone = g
  BY <1>1
<1>3. ASSUME NEW e, NEW f, NEW h, NEW i, NEW j, NEW n,
             n = [buffer |-> e, recent |-> f, pending |-> h, broker |-> i, gone |-> j]
      PROVE  Parts(n, e, f, h, i, j)
  <2>1. IsOutbox(n)
    BY <1>3, Zenon DEF IsOutbox
  <2>2. n.buffer = e /\ n.recent = f /\ n.pending = h /\ n.broker = i /\ n.gone = j
    BY <1>3
  <2>3. QED
    BY <2>1, <2>2 DEF Parts
<1>4. Parts([s EXCEPT !.buffer = x], x, r, q, k, g)
  <2>1. [s EXCEPT !.buffer = x] = [buffer |-> x, recent |-> r, pending |-> q, broker |-> k, gone |-> g]
    BY <1>1
  <2>2. QED
    BY <1>3, <2>1
<1>5. Parts([s EXCEPT !.recent = x], b, x, q, k, g)
  <2>1. [s EXCEPT !.recent = x] = [buffer |-> b, recent |-> x, pending |-> q, broker |-> k, gone |-> g]
    BY <1>1
  <2>2. QED
    BY <1>3, <2>1
<1>6. Parts([s EXCEPT !.pending = x], b, r, x, k, g)
  <2>1. [s EXCEPT !.pending = x] = [buffer |-> b, recent |-> r, pending |-> x, broker |-> k, gone |-> g]
    BY <1>1
  <2>2. QED
    BY <1>3, <2>1
<1>7. Parts([s EXCEPT !.pending = x, !.gone = y], b, r, x, k, y)
  <2>1. PICK m : m = [s EXCEPT !.pending = x]
    OBVIOUS
  <2>2. m = [buffer |-> b, recent |-> r, pending |-> x, broker |-> k, gone |-> g]
    BY <1>1, <2>1
  <2>3. [m EXCEPT !.gone = y] = [buffer |-> b, recent |-> r, pending |-> x, broker |-> k, gone |-> y]
    BY <2>2
  <2>4. [s EXCEPT !.pending = x, !.gone = y] = [m EXCEPT !.gone = y]
    BY <2>1
  <2>5. QED
    BY <1>3, <2>3, <2>4
<1>8. Parts([s EXCEPT !.broker = x, !.gone = y], b, r, q, x, y)
  <2>1. PICK m : m = [s EXCEPT !.broker = x]
    OBVIOUS
  <2>2. m = [buffer |-> b, recent |-> r, pending |-> q, broker |-> x, gone |-> g]
    BY <1>1, <2>1
  <2>3. [m EXCEPT !.gone = y] = [buffer |-> b, recent |-> r, pending |-> q, broker |-> x, gone |-> y]
    BY <2>2
  <2>4. [s EXCEPT !.broker = x, !.gone = y] = [m EXCEPT !.gone = y]
    BY <2>1
  <2>5. QED
    BY <1>3, <2>3, <2>4
<1>9. QED
  BY <1>2, <1>4, <1>5, <1>6, <1>7, <1>8

\* What passes p on, or noted it before, leaves the outbox in agreement.
LEMMA PassedAgrees ==
  ASSUME NEW p, NEW L, NEW U, NEW V, NEW R, NEW R2, NEW Q, NEW K, NEW G, NEW Q2, NEW K2, NEW G2,
         Newer(p, L, U, V), Passed(p, Q, K, G, Q2, K2, G2), Knows(R2, R, p),
         Sent({}, Q, K, G, L, U), Recalled(R, Q, K, G), Within(Q, K, G, L)
  PROVE  Sent({}, Q2, K2, G2, L, V) /\ Recalled(R2, Q2, K2, G2) /\ Within(Q2, K2, G2, L)
<1>1. ASSUME NEW t \in DOMAIN L, t \notin V, t \notin G2 PROVE Coming(Q2, K2, t, L[t])
  <2>1. CASE t = p.topic
    BY <1>1, <2>1 DEF Passed, Newer
  <2>2. CASE t # p.topic
    <3>1. t \notin U /\ t \notin G /\ t \notin Topics({})
      BY <1>1, <2>2 DEF Passed, Topics, Newer
    <3>2. Coming(Q, K, t, L[t])
      BY <3>1 DEF Sent
    <3>3. QED
      BY <1>1, <2>2, <3>2 DEF Passed
  <2>3. QED
    BY <2>1, <2>2
<1>2. ASSUME NEW x \in R2, x.topic \notin G2 PROVE Coming(Q2, K2, x.topic, x.payload)
  <2>1. CASE x = p
    BY <2>1 DEF Passed
  <2>2. CASE x \in Apart(R, p.topic)
    <3>1. x \in R /\ x.topic # p.topic /\ x.topic \notin G
      BY <1>2, <2>2 DEF Apart, Passed
    <3>2. Coming(Q, K, x.topic, x.payload)
      BY <3>1 DEF Recalled
    <3>3. QED
      BY <1>2, <3>1, <3>2 DEF Passed
  <2>3. QED
    BY <2>1, <2>2 DEF Knows
<1>3. QED
  BY <1>1, <1>2 DEF Sent, Recalled, Within, Passed, Newer

\* A broker that is given p.
LEMMA GivenIs ==
  ASSUME NEW p, NEW K, NEW G
  PROVE  Passed(p, {}, K, G, {}, Told(K, <<p>>), G \ TopicsIn(<<p>>))
<1>1. PICK o : o = <<p>>
  OBVIOUS
<1>2. DOMAIN o = {1} /\ o[1] = p
  BY <1>1
<1>3. TopicsIn(o) = {p.topic}
  BY <1>2 DEF TopicsIn
<1>4. ValueIn(o, p.topic) = p.payload
  <2>1. 1 \in DOMAIN o /\ o[1].topic = p.topic /\ \A j \in DOMAIN o : o[j].topic = p.topic => j <= 1
    BY <1>2
  <2>2. Place(o, p.topic) \in DOMAIN o
    BY <2>1 DEF Place
  <2>3. QED
    BY <1>2, <2>2 DEF ValueIn
<1>5. PICK K2 : K2 = Told(K, o)
  OBVIOUS
<1>6. DOMAIN K2 = DOMAIN K \cup {p.topic} /\ K2[p.topic] = p.payload /\ \A t \in DOMAIN K : t # p.topic => K2[t] = K[t]
  BY <1>3, <1>4, <1>5 DEF Told
<1>7. Topics({}) = {}
  BY DEF Topics
<1>8. Passed(p, {}, K, G, {}, K2, G \ {p.topic})
  BY <1>6, <1>7 DEF Passed, Coming
<1>9. QED
  BY <1>1, <1>3, <1>5, <1>8

\* The queue with p last, and its oldest entry evicted if there are too many.
LEMMA EnqueuedIs ==
  ASSUME OutboxAssumption, NEW s, IsOutbox(s), IsMap(s.pending), NEW p,
         Topics(Entries(s.pending)) \cap s.gone = {}
  PROVE  LET n == EnqueueRetained(s, p)
         IN  /\ IsOutbox(n) /\ n.buffer = s.buffer /\ n.recent = s.recent /\ n.broker = s.broker
             /\ IsMap(n.pending)
             /\ Passed(p, Entries(s.pending), s.broker, s.gone, Entries(n.pending), n.broker, n.gone)
<1> DEFINE Q == Entries(s.pending)
           K == s.broker
           G == s.gone
<1>1. PICK d : d = Drop(s.pending, p.topic)
  OBVIOUS
<1>2. IsMap(d) /\ Entries(d) = Apart(Q, p.topic)
  BY <1>1, DropIs
<1>3. TopicsIn(d) = Topics(Entries(d)) /\ p.topic \notin TopicsIn(d) /\ (d = <<>> => Len(d) = 0)
  <2>1. TopicsIn(d) = Topics(Entries(d))
    BY <1>2, ListedIs DEF IsMap
  <2>2. QED
    BY <1>2, <2>1 DEF Apart, Topics
<1>4. PICK m : m = Append(d, p)
  OBVIOUS
<1>5. IsMap(m) /\ Entries(m) = Apart(Q, p.topic) \cup {p} /\ Len(m) = Len(d) + 1 /\ m # <<>>
  BY <1>2, <1>3, <1>4, AppendIs
<1>6. PICK n : n = EnqueueRetained(s, p)
  OBVIOUS
<1>7. CASE Len(m) <= MaxPending
  <2>1. n = [s EXCEPT !.pending = m, !.gone = @ \ {p.topic}]
    <3>1. Len(m) \in Int /\ MaxPending \in Int
      BY <1>5, ListedIs DEF IsMap, OutboxAssumption
    <3>2. ~(Len(m) > MaxPending)
      BY <1>7, <3>1
    <3>3. QED
      BY <1>1, <1>4, <1>6, <3>2, SMTT(30) DEF EnqueueRetained
  <2>2. n = [s EXCEPT !.pending = m, !.gone = G \ {p.topic}]
    BY <2>1
  <2>3. Parts(n, s.buffer, s.recent, m, K, G \ {p.topic})
    BY <2>2, PartsAre
  <2>4. Passed(p, Q, K, G, Apart(Q, p.topic) \cup {p}, K, G \ {p.topic})
    BY DEF Passed, Coming, Apart, Topics
  <2>5. QED
    BY <1>5, <1>6, <2>3, <2>4 DEF Parts
<1>8. CASE Len(m) > MaxPending
  <2>1. PICK h : h = Head(m)
    OBVIOUS
  <2>2. h \in Apart(Q, p.topic)
    <3>1. Len(d) \in Nat /\ Len(d) > 0
      BY <1>2, <1>5, <1>8, ListedIs DEF IsMap, OutboxAssumption
    <3>2. d \in Seq(Entries(d) \cup {p}) /\ p \in Entries(d) \cup {p}
      <4>1. d \in Seq(Entries(d))
        BY <1>2 DEF IsMap, Listed
      <4>2. QED
        BY <4>1
    <3>3. m[1] = d[1] /\ h = m[1]
      <4>1. PICK S : S = Entries(d) \cup {p}
        OBVIOUS
      <4>2. d \in Seq(S) /\ p \in S
        BY <3>2, <4>1
      <4>3. m \in Seq(S) /\ \A i \in 1..Len(d) : m[i] = d[i]
        BY <1>4, <4>2, AppendProperties
      <4>4. QED
        BY <1>5, <2>1, <3>1, <4>3
    <3>4. 1 \in DOMAIN d
      BY <1>2, <3>1, ListedIs DEF IsMap
    <3>5. QED
      BY <1>2, <3>3, <3>4 DEF Entries
  <2>3. PICK a : a = Tail(m)
    OBVIOUS
  <2>4. n = [s EXCEPT !.pending = a, !.gone = (G \ {p.topic}) \cup {h.topic}]
    BY <1>1, <1>4, <1>6, <1>8, <2>1, <2>3 DEF EnqueueRetained
  <2>5. Parts(n, s.buffer, s.recent, a, K, (G \ {p.topic}) \cup {h.topic})
    BY <2>4, PartsAre
  <2>6. IsMap(a) /\ Entries(a) = Apart(Apart(Q, p.topic) \cup {p}, h.topic)
    BY <1>5, <2>1, <2>3, TailIs
  <2>7. Passed(p, Q, K, G, Entries(a), K, (G \ {p.topic}) \cup {h.topic})
    BY <2>2, <2>6 DEF Passed, Coming, Apart, Topics
  <2>8. QED
    BY <1>6, <2>5, <2>6, <2>7 DEF Parts
<1>9. QED
  <2>1. Len(m) \in Int /\ MaxPending \in Int
    BY <1>5, ListedIs DEF IsMap, OutboxAssumption
  <2>2. QED
    BY <1>7, <1>8, <2>1

\* Publishing p, to the broker or to the queue.
LEMMA PublishedIs ==
  ASSUME OutboxAssumption, NEW s, IsOutbox(s), IsMap(s.pending), NEW p, link => s.pending = <<>>,
         Topics(Entries(s.pending)) \cap s.gone = {}
  PROVE  LET n == Publish(s, p)
         IN  /\ IsOutbox(n) /\ n.buffer = s.buffer /\ n.recent = s.recent
             /\ IsMap(n.pending) /\ (link => n.pending = <<>>)
             /\ Passed(p, Entries(s.pending), s.broker, s.gone, Entries(n.pending), n.broker, n.gone)
<1>1. CASE ~link
  BY <1>1, EnqueuedIs DEF Publish
<1>2. CASE link
  <2>1. PICK n : n = Publish(s, p)
    OBVIOUS
  <2>2. PICK o : o = <<p>>
    OBVIOUS
  <2>3. n = [s EXCEPT !.broker = Told(s.broker, o), !.gone = s.gone \ TopicsIn(o)]
    BY <1>2, <2>1, <2>2 DEF Publish, Deliver
  <2>4. Parts(n, s.buffer, s.recent, s.pending, Told(s.broker, o), s.gone \ TopicsIn(o))
    BY <2>3, PartsAre
  <2>5. Entries(s.pending) = {}
    BY <1>2, ListedIs DEF IsMap
  <2>6. Passed(p, {}, s.broker, s.gone, {}, Told(s.broker, o), s.gone \ TopicsIn(o))
    BY <2>2, GivenIs
  <2>7. QED
    BY <1>2, <2>1, <2>4, <2>5, <2>6 DEF Parts
<1>3. QED
  BY <1>1, <1>2

-----------------------------------------------------------------------------
(* A list of publications, one after the other *)

\* The outboxes after each publication of a list.
LEMMA EachSteps ==
  ASSUME NEW c, NEW s, NEW ps, Listed(ps)
  PROVE  \E w : /\ w[0] = s
                /\ \A n \in 1..Len(ps) : w[n] = PublishIfNeeded(c, w[n - 1], ps[n])
                /\ PublishEach(c, s, ps) = w[Len(ps)]
<1>1. PICK N \in Nat : N = Len(ps)
  BY ListedIs
<1> DEFINE Step(x, n) == PublishIfNeeded(c, x, ps[n])
           Made(M, F, f) == F = [n \in 0..M |-> IF n = 0 THEN s ELSE Step(f[n - 1], n)]
           P == {M \in 0..N : \E f : Made(M, f, f)}
<1>2. PublishEach(c, s, ps) = (CHOOSE f : Made(N, f, f))[N]
  BY <1>1 DEF PublishEach
<1> HIDE DEF Step
<1>3. 0 \in P
  <2>1. PICK h : h = [n \in 0..0 |-> s]
    OBVIOUS
  <2>2. Made(0, h, h)
    BY <2>1
  <2>3. QED
    BY <2>2
<1>4. ASSUME NEW M \in 1..N, M - 1 \in P PROVE M \in P
  <2>1. PICK f : Made(M - 1, f, f)
    BY <1>4
  <2>2. \A n \in 0..(M - 1) : f[n] = IF n = 0 THEN s ELSE Step(f[n - 1], n)
    BY <2>1
  <2>3. PICK h : h = [n \in 0..M |-> IF n = M THEN Step(f[M - 1], M) ELSE f[n]]
    OBVIOUS
  <2>4. ASSUME NEW n \in 0..M PROVE h[n] = IF n = 0 THEN s ELSE Step(h[n - 1], n)
    <3>1. CASE n = M
      <4>1. n - 1 \in 0..M /\ n - 1 # M /\ n # 0 /\ n - 1 = M - 1
        BY <3>1
      <4>2. h[n] = Step(f[n - 1], n) /\ h[n - 1] = f[n - 1]
        BY <2>3, <3>1, <4>1
      <4>3. QED
        BY <4>1, <4>2
    <3>2. CASE n # M /\ n # 0
      <4>1. n \in 0..(M - 1) /\ n - 1 \in 0..M /\ n - 1 # M
        BY <3>2
      <4>2. h[n] = f[n] /\ h[n - 1] = f[n - 1]
        BY <2>3, <3>2, <4>1
      <4>3. QED
        BY <2>2, <3>2, <4>1, <4>2
    <3>3. CASE n = 0 /\ n # M
      BY <2>2, <2>3, <3>3
    <3>4. QED
      BY <3>1, <3>2, <3>3
  <2>5. h = [n \in 0..M |-> h[n]]
    BY <2>3
  <2>6. Made(M, h, h)
    BY <2>4, <2>5
  <2>7. M \in 0..N
    OBVIOUS
  <2>8. QED
    BY <2>6, <2>7
<1>5. PICK h : Made(N, h, h)
  <2>1. \A M \in 1..N : M - 1 \in P => M \in P
    BY <1>4
  <2> HIDE DEF P
  <2>2. \A M \in 0..N : M \in P
    BY <1>3, <2>1, Induct
  <2>3. N \in P
    BY <2>2
  <2>4. QED
    BY <2>3 DEF P
<1>6. ASSUME NEW f, Made(N, f, f)
      PROVE  f[0] = s /\ \A n \in 1..N : f[n] = Step(f[n - 1], n)
  <2>1. \A n \in 0..N : f[n] = IF n = 0 THEN s ELSE Step(f[n - 1], n)
    BY <1>6
  <2>2. 0 \in 0..N /\ \A n \in 1..N : n \in 0..N /\ n # 0
    OBVIOUS
  <2>3. QED
    BY <2>1, <2>2
<1> HIDE DEF Made
<1>7. PICK w : Made(N, w, w) /\ PublishEach(c, s, ps) = w[N]
  BY <1>2, <1>5
<1>8. QED
  BY <1>1, <1>6, <1>7 DEF Step

\* A publication past the buffer: identical to the last within the window, or passed on.
LEMMA NowKeeps ==
  ASSUME OutboxAssumption, NEW L, NEW U, NEW V, NEW s, Keeps(s, L, U), s.buffer = <<>>, NEW p,
         Newer(p, L, U, V)
  PROVE  Keeps(PublishNow(s, p), L, V) /\ PublishNow(s, p).buffer = <<>>
<1> DEFINE R == Entries(s.recent)
           Q == Entries(s.pending)
           K == s.broker
           G == s.gone
<1>1. Entries(s.buffer) = {} /\ Buffered({}, L, V)
  BY DEF Entries, Buffered
<1>2. IsOutbox(s) /\ KeepsMaps(s) /\ Sparing(s) /\ Sent({}, Q, K, G, L, U) /\ Recalled(R, Q, K, G) /\ Within(Q, K, G, L)
  BY <1>1 DEF Keeps, Agrees
<1>3. IsMap(s.buffer) /\ IsMap(s.pending) /\ IsMap(s.recent) /\ (link => s.pending = <<>>) /\ Q \cap Q = Q
      /\ Topics(Q) \cap G = {}
  BY <1>2 DEF KeepsMaps, Sparing, Within
<1>4. ASSUME NEW m, IsOutbox(m), m.buffer = <<>>, m.pending = s.pending, m.broker = K, m.gone = G,
             IsMap(m.recent), Knows(Entries(m.recent), R, p),
             mode.dedup \/ m.recent = <<>>
      PROVE  Keeps(Publish(m, p), L, V) /\ Publish(m, p).buffer = <<>>
  <2>1. PICK n : n = Publish(m, p)
    OBVIOUS
  <2>2. /\ IsOutbox(n) /\ n.buffer = m.buffer /\ n.recent = m.recent
        /\ IsMap(n.pending) /\ (link => n.pending = <<>>)
        /\ Passed(p, Q, K, G, Entries(n.pending), n.broker, n.gone)
    BY <1>3, <1>4, <2>1, PublishedIs
  <2>3. /\ Sent({}, Entries(n.pending), n.broker, n.gone, L, V)
        /\ Recalled(Entries(n.recent), Entries(n.pending), n.broker, n.gone)
        /\ Within(Entries(n.pending), n.broker, n.gone, L)
    <3>1. PICK R2, Q2, K2, G2 : R2 = Entries(n.recent) /\ Q2 = Entries(n.pending) /\ K2 = n.broker /\ G2 = n.gone
      OBVIOUS
    <3>2. Passed(p, Q, K, G, Q2, K2, G2) /\ Knows(R2, R, p)
      BY <1>4, <2>2, <3>1
    <3>3. PICK R1, Q1, K1, G1 : R1 = R /\ Q1 = Q /\ K1 = K /\ G1 = G
      OBVIOUS
    <3>4. /\ Sent({}, Q1, K1, G1, L, U) /\ Recalled(R1, Q1, K1, G1) /\ Within(Q1, K1, G1, L)
          /\ Passed(p, Q1, K1, G1, Q2, K2, G2) /\ Knows(R2, R1, p)
      BY <1>2, <3>2, <3>3
    <3>5. Sent({}, Q2, K2, G2, L, V) /\ Recalled(R2, Q2, K2, G2) /\ Within(Q2, K2, G2, L)
      BY <3>4, PassedAgrees
    <3>6. QED
      BY <3>1, <3>5
  <2>4. Agrees(n, L, V)
    BY <1>1, <1>4, <2>2, <2>3 DEF Agrees, Entries
  <2>5. KeepsMaps(n) /\ Sparing(n)
    BY <1>3, <1>4, <2>2 DEF KeepsMaps, Sparing
  <2>6. QED
    BY <1>4, <2>1, <2>2, <2>4, <2>5 DEF Keeps
<1>5. CASE ~mode.dedup
  <2>1. s.recent = <<>> /\ Entries(s.recent) = {}
    BY <1>2, <1>5 DEF Sparing, Entries
  <2>2. PublishNow(s, p) = Publish(s, p)
    BY <1>5 DEF PublishNow
  <2>3. QED
    BY <1>2, <1>3, <1>4, <2>1, <2>2 DEF Knows
<1>6. CASE mode.dedup /\ p \in R
  <2>1. PublishNow(s, p) = s
    BY <1>6 DEF PublishNow
  <2>2. ASSUME NEW t \in DOMAIN L, t \notin V, t \notin G PROVE Coming(Q, K, t, L[t])
    <3>1. CASE t = p.topic
      BY <1>2, <1>6, <2>2, <3>1 DEF Recalled, Newer
    <3>2. CASE t # p.topic
      <4>1. t \notin U /\ t \notin Topics({})
        BY <2>2, <3>2 DEF Topics, Newer
      <4>2. QED
        BY <1>2, <2>2, <4>1 DEF Sent
    <3>3. QED
      BY <3>1, <3>2
  <2>3. Sent({}, Q, K, G, L, V)
    BY <2>2 DEF Sent
  <2>4. Keeps(s, L, V)
    BY <1>1, <1>2, <2>3 DEF Keeps, Agrees
  <2>5. QED
    BY <2>1, <2>4
<1>7. CASE mode.dedup /\ p \notin R
  <2>1. PICK a : a = SetInPlace(s.recent, p)
    OBVIOUS
  <2>2. IsMap(a) /\ Entries(a) = Apart(R, p.topic) \cup {p} /\ a # <<>>
    <3>1. IsMap(a) /\ Entries(a) = Apart(R, p.topic) \cup {p}
      BY <1>3, <2>1, SetInPlaceIs
    <3>2. QED
      BY <3>1, ListedIs DEF IsMap
  <2>3. PICK r : r = IF Len(a) > MaxRecent THEN Tail(a) ELSE a
    OBVIOUS
  <2>4. IsMap(r) /\ Entries(r) \subseteq Apart(R, p.topic) \cup {p}
    <3>1. IsMap(Tail(a)) /\ Entries(Tail(a)) \subseteq Entries(a)
      BY <2>2, TailIs DEF Apart
    <3>2. QED
      BY <2>2, <2>3, <3>1
  <2>5. PICK m : m = [s EXCEPT !.recent = r]
    OBVIOUS
  <2>6. PublishNow(s, p) = Publish(m, p)
    BY <1>7, <2>1, <2>3, <2>5 DEF PublishNow
  <2>7. Parts(m, s.buffer, r, s.pending, K, G)
    BY <1>2, <2>5, PartsAre
  <2>8. QED
    BY <1>4, <1>7, <2>4, <2>6, <2>7 DEF Parts, Knows
<1>8. QED
  BY <1>5, <1>6, <1>7

\* A publication into the buffer.
LEMMA BufferKeeps ==
  ASSUME NEW L, NEW U, NEW V, NEW s, Keeps(s, L, U), NEW p, Newer(p, L, U, V)
  PROVE  Keeps([s EXCEPT !.buffer = SetInPlace(@, p)], L, V)
<1> DEFINE B == Entries(s.buffer)
           Q == Entries(s.pending)
<1>1. PICK a : a = SetInPlace(s.buffer, p)
  OBVIOUS
<1>2. IsMap(a) /\ Entries(a) = Apart(B, p.topic) \cup {p}
  BY <1>1, SetInPlaceIs DEF Keeps, KeepsMaps
<1>3. PICK n : n = [s EXCEPT !.buffer = a]
  OBVIOUS
<1>4. Parts(n, a, s.recent, s.pending, s.broker, s.gone)
  BY <1>3, PartsAre DEF Keeps
<1>5. Buffered(Apart(B, p.topic) \cup {p}, L, V)
  BY DEF Keeps, Agrees, Buffered, Apart, Newer
<1>6. Sent(Apart(B, p.topic) \cup {p}, Q, s.broker, s.gone, L, V)
  <2>1. Sent(B, Q, s.broker, s.gone, L, U)
    BY DEF Keeps, Agrees
  <2>2. Topics(Apart(B, p.topic) \cup {p}) = Topics(B) \cup {p.topic}
    BY DEF Topics, Apart
  <2>3. QED
    BY <2>1, <2>2 DEF Sent, Newer
<1>7. Keeps(n, L, V)
  BY <1>2, <1>4, <1>5, <1>6 DEF Keeps, KeepsMaps, Sparing, Agrees, Parts
<1>8. QED
  BY <1>1, <1>3, <1>7

\* L has the publications of ps, each after those before it.
Final(ps, L) ==
  /\ TopicsIn(ps) \subseteq DOMAIN L
  /\ \A i \in DOMAIN ps :
       (\A j \in DOMAIN ps : j > i => ps[j].topic # ps[i].topic) => ps[i].payload = L[ps[i].topic]

\* A list whose publications the newest values hold, each after those before it.
LEMMA EachKeeps ==
  ASSUME OutboxAssumption, NEW L, NEW c \in BOOLEAN, NEW s, NEW ps, Listed(ps), Final(ps, L),
         Keeps(s, L, TopicsIn(ps)), c \/ s.buffer = <<>>
  PROVE  LET n == PublishEach(c, s, ps) IN Keeps(n, L, {}) /\ (c \/ n.buffer = <<>>)
<1>1. PICK N \in Nat : N = Len(ps) /\ DOMAIN ps = 1..N
  BY ListedIs
<1>2. PICK w : /\ w[0] = s
               /\ \A n \in 1..N : w[n] = PublishIfNeeded(c, w[n - 1], ps[n])
               /\ PublishEach(c, s, ps) = w[N]
  BY <1>1, EachSteps
<1> DEFINE Later(n) == {ps[i].topic : i \in (n + 1)..N}
           P == {n \in 0..N : Keeps(w[n], L, Later(n)) /\ (c \/ w[n].buffer = <<>>)}
<1>3. 0 \in P
  <2>1. Later(0) = TopicsIn(ps)
    BY <1>1 DEF TopicsIn
  <2> HIDE DEF Later
  <2>2. Keeps(w[0], L, Later(0)) /\ (c \/ w[0].buffer = <<>>) /\ 0 \in 0..N
    BY <1>2, <2>1
  <2>3. QED
    BY <2>2
<1>4. ASSUME NEW n \in 1..N, n - 1 \in P PROVE n \in P
  <2>1. PICK p : p = ps[n]
    OBVIOUS
  <2>2. p.topic \in DOMAIN L
    BY <1>1, <2>1 DEF TopicsIn, Final
  <2>3. Later(n - 1) \subseteq Later(n) \cup {p.topic}
    <3>1. \A i \in ((n - 1) + 1)..N : i = n \/ i \in (n + 1)..N
      OBVIOUS
    <3>2. QED
      BY <2>1, <3>1
  <2>4. p.topic \notin Later(n) => p.payload = L[p.topic]
    <3>1. \A j \in 1..N : j > n => j \in (n + 1)..N
      OBVIOUS
    <3>2. QED
      BY <1>1, <2>1, <3>1 DEF Final
  <2>5. w[n] = PublishIfNeeded(c, w[n - 1], p) /\ n \in 0..N
    BY <1>2, <2>1
  <2>6. Keeps(w[n - 1], L, Later(n - 1)) /\ (c \/ w[n - 1].buffer = <<>>)
    BY <1>4
  <2>7. PICK U, V, v : U = Later(n - 1) /\ V = Later(n) /\ v = w[n - 1]
    OBVIOUS
  <2> HIDE DEF Later
  <2>8. Newer(p, L, U, V) /\ Keeps(v, L, U)
    BY <2>2, <2>3, <2>4, <2>6, <2>7 DEF Newer
  <2>9. Keeps(w[n], L, V) /\ (c \/ w[n].buffer = <<>>)
    <3>1. CASE c = TRUE
      <4>1. w[n] = [v EXCEPT !.buffer = SetInPlace(@, p)]
        BY <2>5, <2>7, <3>1 DEF PublishIfNeeded
      <4>2. QED
        BY <2>8, <3>1, <4>1, BufferKeeps
    <3>2. CASE c = FALSE
      <4>1. w[n] = PublishNow(v, p) /\ v.buffer = <<>>
        BY <2>5, <2>6, <2>7, <3>2 DEF PublishIfNeeded
      <4>2. QED
        BY <2>8, <4>1, NowKeeps
    <3>3. QED
      BY <3>1, <3>2
  <2>10. QED
    BY <2>5, <2>7, <2>9
<1>5. N \in P
  <2>1. \A n \in 1..N : n - 1 \in P => n \in P
    BY <1>4
  <2> HIDE DEF P
  <2>2. \A n \in 0..N : n \in P
    BY <1>3, <2>1, Induct
  <2>3. QED
    BY <2>2
<1>6. Later(N) = {}
  <2>1. (N + 1)..N = {}
    OBVIOUS
  <2>2. QED
    BY <2>1
<1>7. QED
  BY <1>2, <1>5, <1>6

-----------------------------------------------------------------------------
(* The newest values *)

\* M is L and what the list ps says.
Tells(M, L, ps) ==
  /\ DOMAIN M = DOMAIN L \cup TopicsIn(ps)
  /\ \A t \in DOMAIN L : t \notin TopicsIn(ps) => M[t] = L[t]
  /\ \A t \in TopicsIn(ps) : \E x \in Entries(ps) : x.topic = t /\ M[t] = x.payload
  /\ Final(ps, M)

\* What a list adds to the newest values.
LEMMA ToldIs ==
  ASSUME NEW L, NEW ps, Listed(ps)
  PROVE  Tells(Told(L, ps), L, ps)
<1>1. PICK M : M = Told(L, ps)
  OBVIOUS
<1>2. /\ DOMAIN M = DOMAIN L \cup TopicsIn(ps)
      /\ \A t \in DOMAIN L : t \notin TopicsIn(ps) => M[t] = L[t]
      /\ \A t \in TopicsIn(ps) : M[t] = ValueIn(ps, t)
  BY <1>1 DEF Told
<1>3. ASSUME NEW t \in TopicsIn(ps) PROVE \E x \in Entries(ps) : x.topic = t /\ M[t] = x.payload
  <2>1. PICK k \in DOMAIN ps : k = Place(ps, t) /\ ps[k].topic = t
    BY PlaceIs
  <2>2. M[t] = ps[k].payload
    BY <1>2, <2>1 DEF ValueIn
  <2>3. QED
    BY <2>1, <2>2 DEF Entries
<1>4. ASSUME NEW i \in DOMAIN ps, \A j \in DOMAIN ps : j > i => ps[j].topic # ps[i].topic
      PROVE  ps[i].payload = M[ps[i].topic]
  <2>1. DOMAIN ps = 1..Len(ps) /\ Len(ps) \in Nat /\ ps[i].topic \in TopicsIn(ps)
    BY ListedIs DEF TopicsIn
  <2>2. PICK k \in DOMAIN ps : k = Place(ps, ps[i].topic) /\ ps[k].topic = ps[i].topic /\ i <= k
    BY <2>1, PlaceIs
  <2>3. k = i
    BY <1>4, <2>1, <2>2
  <2>4. QED
    BY <1>2, <2>1, <2>2, <2>3 DEF ValueIn
<1>5. Final(ps, M)
  BY <1>2, <1>4 DEF Final
<1>6. QED
  BY <1>1, <1>2, <1>3, <1>5 DEF Tells

\* Two lists, one after the other.
LEMMA JoinIs ==
  ASSUME NEW s, NEW t, Listed(s), Listed(t)
  PROVE  Listed(s \o t) /\ Entries(s \o t) = Entries(s) \cup Entries(t)
<1>1. PICK S : S = Entries(s) \cup Entries(t)
  OBVIOUS
<1>2. s \in Seq(S) /\ t \in Seq(S)
  BY <1>1 DEF Listed
<1>3. PICK u : u = s \o t
  OBVIOUS
<1>4. /\ u \in Seq(S) /\ Len(u) = Len(s) + Len(t) /\ Len(s) \in Nat /\ Len(t) \in Nat
      /\ DOMAIN u = 1..(Len(s) + Len(t)) /\ DOMAIN s = 1..Len(s) /\ DOMAIN t = 1..Len(t)
      /\ \A i \in 1..(Len(s) + Len(t)) : u[i] = IF i <= Len(s) THEN s[i] ELSE t[i - Len(s)]
  BY <1>2, <1>3, ConcatProperties
<1>5. ASSUME NEW x \in S PROVE x \in Entries(u)
  <2>1. CASE x \in Entries(s)
    <3>1. PICK i \in 1..Len(s) : x = s[i]
      BY <1>4, <2>1 DEF Entries
    <3>2. i \in 1..(Len(s) + Len(t)) /\ i <= Len(s)
      BY <1>4
    <3>3. QED
      BY <1>4, <3>1, <3>2 DEF Entries
  <2>2. CASE x \in Entries(t)
    <3>1. PICK i \in 1..Len(t) : x = t[i]
      BY <1>4, <2>2 DEF Entries
    <3>2. i + Len(s) \in 1..(Len(s) + Len(t)) /\ ~(i + Len(s) <= Len(s)) /\ (i + Len(s)) - Len(s) = i
      BY <1>4
    <3>3. u[i + Len(s)] = x
      BY <1>4, <3>1, <3>2
    <3>4. QED
      BY <1>4, <3>2, <3>3 DEF Entries
  <2>3. QED
    BY <1>1, <2>1, <2>2
<1>6. ASSUME NEW x \in Entries(u) PROVE x \in S
  <2>1. PICK i \in 1..(Len(s) + Len(t)) : x = u[i]
    BY <1>4 DEF Entries
  <2>2. u \in [1..(Len(s) + Len(t)) -> S]
    BY <1>4
  <2>3. QED
    BY <2>1, <2>2
<1>7. Entries(u) = S
  BY <1>5, <1>6
<1>8. QED
  BY <1>1, <1>3, <1>4, <1>7, ListedIs

\* One publication, on a condition.
LEMMA PubIs ==
  /\ \A t, v : Listed(Pub(t, v)) /\ Entries(Pub(t, v)) = {[topic |-> t, payload |-> v]}
  /\ Listed(<<>>) /\ Entries(<<>>) = {}
  /\ \A c, s : Listed(s) => Listed(When(c, s))
  /\ \A c, s : Entries(When(c, s)) = IF c THEN Entries(s) ELSE {}
<1>1. ASSUME NEW t, NEW v PROVE Listed(Pub(t, v)) /\ Entries(Pub(t, v)) = {[topic |-> t, payload |-> v]}
  <2>1. PICK x : x = [topic |-> t, payload |-> v]
    OBVIOUS
  <2>2. PICK o : o = <<x>>
    OBVIOUS
  <2>3. o \in Seq({x}) /\ DOMAIN o = {1} /\ o[1] = x
    BY <2>2
  <2>4. Listed(o) /\ Entries(o) = {x}
    BY <2>3, ListedIs DEF Entries
  <2>5. QED
    BY <2>1, <2>2, <2>4 DEF Pub
<1>2. Listed(<<>>) /\ Entries(<<>>) = {}
  BY DEF Listed, Entries
<1>3. QED
  BY <1>1, <1>2 DEF When

\* The topics that say something of each other, and a list with none of them.
Related  == {"state", "level", "position", "sensor_status", "sensor_problem"}
Other(s) == Listed(s) /\ \A x \in Entries(s) : x.topic \notin Related

\* What Other lists are made of.
LEMMA OtherIs ==
  /\ \A t, v : t \notin Related => Other(Pub(t, v))
  /\ \A c, s : Other(s) => Other(When(c, s))
  /\ \A r, f, t : t \notin Related => Other(Carried(r, f, t))
  /\ \A r, f : f \notin Related => Other(Flag(r, f))
  /\ Other(<<>>)
<1>1. \A t, v : t \notin Related => Other(Pub(t, v))
  BY PubIs DEF Other
<1>2. \A c, s : Other(s) => Other(When(c, s))
  BY PubIs DEF Other
<1>3. Other(<<>>)
  BY PubIs DEF Other
<1>4. QED
  BY <1>1, <1>2, <1>3 DEF Carried, Flag

\* Joins of Other lists.
LEMMA OtherJoin == ASSUME NEW s, NEW t, Other(s), Other(t) PROVE Other(s \o t)
  BY JoinIs DEF Other

\* The readings, but for that of a temperature and of a state, have no related topics.
LEMMA OtherReadings ==
  ASSUME NEW e, IsEvent(e), e.kind \notin {"group", "temperature", "state"}
  PROVE  Other(Reading(e.kind, e.fields))
<1>1. PICK r : r = e.fields
  OBVIOUS
<1>2. Other(ModeReading(r))
  <2>1. PICK a, b, c, d, f, g : /\ a = Carried(r, "mode", "mode") /\ b = Carried(r, "setpoint", "setpoint")
                                /\ c = Carried(r, "fanMode", "fan_mode") /\ d = Carried(r, "fanSpeed", "fan_speed")
                                /\ f = Carried(r, "fanSpeedPercent", "fan_speed_percent")
                                /\ g = Carried(r, "comfortLevel", "comfort_level")
    OBVIOUS
  <2>2. Other(a) /\ Other(b) /\ Other(c) /\ Other(d) /\ Other(f) /\ Other(g)
    BY <2>1, OtherIs DEF Related
  <2>3. PICK l : l = a \o b \o c
    OBVIOUS
  <2>4. Other(l)
    BY <2>2, <2>3, OtherJoin
  <2>5. PICK m : m = l \o d \o f \o g
    OBVIOUS
  <2>6. Other(m)
    BY <2>2, <2>4, <2>5, OtherJoin
  <2>7. QED
    BY <2>1, <2>3, <2>5, <2>6 DEF ModeReading
<1>3. Other(ActionReading(r))
  <2>1. PICK a, b, c, d : /\ a = Pub("action", r.action) /\ b = Flag(r, "damper")
                          /\ c = Flag(r, "busy") /\ d = Flag(r, "expansion")
    OBVIOUS
  <2>2. PICK f, g, h, i, j : /\ f = Carried(r, "type", "plant_type") /\ g = Carried(r, "type", "plant_type_description")
                             /\ h = Carried(r, "errorCode", "error") /\ i = Carried(r, "errorCode", "error_description")
                             /\ j = When(DOMAIN r \cap {"error", "errorCode"} # {}, Pub("problem", OnOff(PlantProblem(r))))
    OBVIOUS
  <2>3. Other(a) /\ Other(b) /\ Other(c) /\ Other(d)
    BY <2>1, OtherIs DEF Related
  <2>4. Other(f) /\ Other(g) /\ Other(h) /\ Other(i) /\ Other(j)
    BY <2>2, OtherIs DEF Related
  <2>5. PICK l : l = a \o b \o c \o d
    OBVIOUS
  <2>6. Other(l)
    BY <2>3, <2>5, OtherJoin
  <2>7. PICK m : m = l \o f \o g
    OBVIOUS
  <2>8. Other(m)
    BY <2>4, <2>6, <2>7, OtherJoin
  <2>9. PICK n : n = m \o h \o i \o j
    OBVIOUS
  <2>10. Other(n)
    BY <2>4, <2>8, <2>9, OtherJoin
  <2>11. QED
    BY <2>1, <2>2, <2>5, <2>7, <2>9, <2>10 DEF ActionReading
<1>4. Other(HumidityReading(r)) /\ Other(Pub("humidity_action", r.action))
  BY OtherIs DEF HumidityReading, Related
<1>5. Other(HumidityModeReading(r))
  <2>1. PICK a, b : a = Carried(r, "mode", "humidity_mode") /\ b = Carried(r, "humiditySetpoint", "humidity_setpoint")
    OBVIOUS
  <2>2. Other(a) /\ Other(b)
    BY <2>1, OtherIs DEF Related
  <2>3. QED
    BY <2>1, <2>2, OtherJoin DEF HumidityModeReading
<1>6. Other(MeasurementReading(r))
  <2>1. PICK a, b : a = Pub("value", r.value) /\ b = Pub("unit", IF "unit" \in DOMAIN r THEN r.unit ELSE "")
    OBVIOUS
  <2>2. Other(a) /\ Other(b)
    BY <2>1, OtherIs DEF Related
  <2>3. QED
    BY <2>1, <2>2, OtherJoin DEF MeasurementReading
<1>7. e.kind = "clock" => Other(ClockReading(r))
  BY <1>1, OtherIs DEF ClockReading, Related, IsEvent
<1>8. QED
  BY <1>1, <1>2, <1>3, <1>4, <1>5, <1>6, <1>7, OtherIs DEF Reading

\* What a temperature reading and a state reading publish.
LEMMA TemperatureIs ==
  ASSUME NEW r, NEW ps, ps = TemperatureReading(r)
  PROVE  /\ Listed(ps)
         /\ \A x \in Entries(ps) : x.topic \in {"current_temperature", "sensor_status", "sensor_problem"}
         /\ "sensor_status" \in TopicsIn(ps) <=> "sensor_problem" \in TopicsIn(ps)
         /\ \A x, y \in Entries(ps) : x.topic = "sensor_status" /\ y.topic = "sensor_problem" =>
              (y.payload = "ON" <=> x.payload >= 2)
<1> DEFINE c == "sensorStatus" \in DOMAIN r
<1>1. PICK f, g, h : /\ f = Carried(r, "celsius", "current_temperature")
                     /\ g = Carried(r, "sensorStatus", "sensor_status")
                     /\ h = When(c, Pub("sensor_problem", OnOff(r.sensorStatus >= 2)))
  OBVIOUS
<1>2. /\ Listed(f) /\ Listed(g) /\ Listed(h)
      /\ \A x \in Entries(f) : x.topic = "current_temperature"
  BY <1>1, PubIs DEF Carried
<1>3. /\ Entries(g) = IF c THEN {[topic |-> "sensor_status", payload |-> r.sensorStatus]} ELSE {}
      /\ Entries(h) = IF c THEN {[topic |-> "sensor_problem", payload |-> OnOff(r.sensorStatus >= 2)]} ELSE {}
  <2>1. r["sensorStatus"] = r.sensorStatus
    OBVIOUS
  <2>2. QED
    BY <1>1, <2>1, PubIs DEF Carried
<1>4. PICK l : l = f \o g
  OBVIOUS
<1>5. Listed(l) /\ Entries(l) = Entries(f) \cup Entries(g)
  BY <1>2, <1>4, JoinIs
<1>6. ps = l \o h
  BY <1>1, <1>4 DEF TemperatureReading
<1>7. Listed(ps) /\ Entries(ps) = Entries(f) \cup Entries(g) \cup Entries(h)
  BY <1>2, <1>5, <1>6, JoinIs
<1>8. \A x \in Entries(g) : c /\ x.topic = "sensor_status" /\ x.payload = r.sensorStatus
  BY <1>3
<1>9. \A x \in Entries(h) : c /\ x.topic = "sensor_problem" /\ x.payload = OnOff(r.sensorStatus >= 2)
  BY <1>3
<1>10. TopicsIn(ps) = Topics(Entries(ps))
  BY <1>7, ListedIs
<1>11. c => "sensor_status" \in TopicsIn(ps) /\ "sensor_problem" \in TopicsIn(ps)
  <2>1. c => Entries(g) # {} /\ Entries(h) # {}
    BY <1>3
  <2>2. QED
    BY <1>7, <1>8, <1>9, <1>10, <2>1 DEF Topics
<1>12. ~c => "sensor_status" \notin TopicsIn(ps) /\ "sensor_problem" \notin TopicsIn(ps)
  BY <1>2, <1>3, <1>7, <1>10 DEF Topics
<1>13. ASSUME NEW x \in Entries(ps), NEW y \in Entries(ps), x.topic = "sensor_status", y.topic = "sensor_problem"
       PROVE  y.payload = "ON" <=> x.payload >= 2
  <2>1. x \in Entries(g) /\ y \in Entries(h)
    BY <1>2, <1>7, <1>8, <1>9, <1>13
  <2>2. x.payload = r.sensorStatus /\ y.payload = OnOff(r.sensorStatus >= 2)
    BY <1>8, <1>9, <2>1
  <2>3. QED
    BY <2>2 DEF OnOff
<1>14. \A x \in Entries(ps) : x.topic \in {"current_temperature", "sensor_status", "sensor_problem"}
  BY <1>2, <1>7, <1>8, <1>9
<1>15. QED
  BY <1>7, <1>11, <1>12, <1>13, <1>14

\* A level above 0 % is that of an output that is on.
LEMMA PercentIs == ASSUME NEW level \in Int, Percent(level) > 0 PROVE level > 0
  BY DEF Percent

\* What the event of a group publishes.
LEMMA StatusIs ==
  ASSUME NEW e, IsEvent(e), e.kind = "group", e.role \notin {"trigger", "hvac", "tilt"}
  PROVE  LET ps == Publications(e)
         IN  /\ Listed(ps)
             /\ \A x \in Entries(ps) : x.topic \in {"source_unit", "state", "level", "position"}
             /\ "state" \in TopicsIn(ps)
             /\ "level" \in TopicsIn(ps) <=> e.role # "pir"
             /\ "position" \in TopicsIn(ps) <=> e.role = "cover"
             /\ \A x \in Entries(ps) : x.topic \in {"level", "position"} => x.payload = LevelPercent(e)
             /\ \A x \in Entries(ps) : x.topic = "state" => x.payload = OnOff(IsOn(e))
             /\ e.role # "pir" /\ LevelPercent(e) > 0 => IsOn(e)
<1>1. PICK f, g, h, i : /\ f = When(e.source # None, Pub("source_unit", e.source))
                        /\ g = Pub("state", OnOff(IsOn(e)))
                        /\ h = When(e.role # "pir", Pub("level", LevelPercent(e)))
                        /\ i = When(e.role = "cover", Pub("position", LevelPercent(e)))
  OBVIOUS
<1>2. /\ Listed(f) /\ Listed(g) /\ Listed(h) /\ Listed(i)
      /\ \A x \in Entries(f) : x.topic = "source_unit"
      /\ Entries(g) = {[topic |-> "state", payload |-> OnOff(IsOn(e))]}
      /\ Entries(h) = IF e.role # "pir" THEN {[topic |-> "level", payload |-> LevelPercent(e)]} ELSE {}
      /\ Entries(i) = IF e.role = "cover" THEN {[topic |-> "position", payload |-> LevelPercent(e)]} ELSE {}
  <2>1. PICK a, b, c : a = Pub("source_unit", e.source) /\ b = Pub("level", LevelPercent(e)) /\ c = Pub("position", LevelPercent(e))
    OBVIOUS
  <2>2. /\ Listed(a) /\ Listed(b) /\ Listed(c) /\ Listed(g)
        /\ Entries(a) = {[topic |-> "source_unit", payload |-> e.source]}
        /\ Entries(b) = {[topic |-> "level", payload |-> LevelPercent(e)]}
        /\ Entries(c) = {[topic |-> "position", payload |-> LevelPercent(e)]}
        /\ Entries(g) = {[topic |-> "state", payload |-> OnOff(IsOn(e))]}
    BY <1>1, <2>1, PubIs
  <2>3. /\ f = When(e.source # None, a) /\ h = When(e.role # "pir", b) /\ i = When(e.role = "cover", c)
    BY <1>1, <2>1
  <2>4. Listed(f) /\ Listed(h) /\ Listed(i)
    BY <2>2, <2>3, PubIs
  <2>5. /\ Entries(f) = IF e.source # None THEN Entries(a) ELSE {}
        /\ Entries(h) = IF e.role # "pir" THEN Entries(b) ELSE {}
        /\ Entries(i) = IF e.role = "cover" THEN Entries(c) ELSE {}
    BY <2>3, PubIs
  <2>6. QED
    BY <2>2, <2>4, <2>5
<1>3. PICK l : l = g \o h
  OBVIOUS
<1>4. Listed(l) /\ Entries(l) = Entries(g) \cup Entries(h)
  BY <1>2, <1>3, JoinIs
<1>5. PICK m : m = l \o i
  OBVIOUS
<1>6. Listed(m) /\ Entries(m) = Entries(g) \cup Entries(h) \cup Entries(i)
  BY <1>2, <1>4, <1>5, JoinIs
<1>7. PICK ps : ps = f \o m
  OBVIOUS
<1>8. Listed(ps) /\ Entries(ps) = Entries(f) \cup Entries(g) \cup Entries(h) \cup Entries(i)
  BY <1>2, <1>6, <1>7, JoinIs
<1>9. ps = Publications(e)
  <2>1. StatusEvent(e) = m
    BY <1>1, <1>3, <1>5 DEF StatusEvent
  <2>2. Publications(e) = f \o StatusEvent(e)
    BY <1>1 DEF Publications
  <2>3. QED
    BY <1>7, <2>1, <2>2
<1>10. /\ \A x \in Entries(g) : x.topic = "state" /\ x.payload = OnOff(IsOn(e))
       /\ \A x \in Entries(h) : e.role # "pir" /\ x.topic = "level" /\ x.payload = LevelPercent(e)
       /\ \A x \in Entries(i) : e.role = "cover" /\ x.topic = "position" /\ x.payload = LevelPercent(e)
  BY <1>2
<1>11. TopicsIn(ps) = Topics(Entries(ps))
  BY <1>8, ListedIs
<1>12. "state" \in TopicsIn(ps)
  <2>1. Entries(g) # {}
    BY <1>2
  <2>2. QED
    BY <1>8, <1>10, <1>11, <2>1 DEF Topics
<1>13. e.role # "pir" => "level" \in TopicsIn(ps)
  <2>1. e.role # "pir" => Entries(h) # {}
    BY <1>2
  <2>2. QED
    BY <1>8, <1>10, <1>11, <2>1 DEF Topics
<1>14. e.role = "cover" => "position" \in TopicsIn(ps)
  <2>1. e.role = "cover" => Entries(i) # {}
    BY <1>2
  <2>2. QED
    BY <1>8, <1>10, <1>11, <2>1 DEF Topics
<1>15. \A x \in Entries(ps) : x.topic \in {"source_unit", "state", "level", "position"}
  BY <1>2, <1>8, <1>10
<1>16. \A x \in Entries(ps) : x.topic = "level" => e.role # "pir" /\ x.payload = LevelPercent(e)
  BY <1>2, <1>8, <1>10
<1>17. \A x \in Entries(ps) : x.topic = "position" => e.role = "cover" /\ x.payload = LevelPercent(e)
  BY <1>2, <1>8, <1>10
<1>18. \A x \in Entries(ps) : x.topic = "state" => x.payload = OnOff(IsOn(e))
  BY <1>2, <1>8, <1>10
<1>19. ASSUME e.role # "pir", LevelPercent(e) > 0 PROVE IsOn(e)
  <2>1. CASE e.level = None
    BY <1>19, <2>1 DEF LevelPercent, IsOn
  <2>2. CASE e.level # None
    <3>1. e.level \in Int /\ Percent(e.level) > 0
      BY <1>19, <2>2 DEF LevelPercent, IsEvent
    <3>2. e.level > 0
      BY <3>1, PercentIs
    <3>3. QED
      BY <1>19, <2>2, <3>2 DEF IsOn
  <2>3. QED
    BY <2>1, <2>2
<1>20. "level" \in TopicsIn(ps) => e.role # "pir"
  BY <1>11, <1>16 DEF Topics
<1>21. "position" \in TopicsIn(ps) => e.role = "cover"
  BY <1>11, <1>17 DEF Topics
<1>22. QED
  BY <1>8, <1>9, <1>12, <1>13, <1>14, <1>15, <1>16, <1>17, <1>18, <1>19, <1>20, <1>21

\* What every event publishes: others, a temperature, a state, or those of a group.
LEMMA PublicationsAre ==
  ASSUME NEW e, IsEvent(e)
  PROVE  \/ Other(Publications(e))
         \/ e.kind = "temperature" /\ Publications(e) = TemperatureReading(e.fields)
         \/ e.kind = "state" /\ Publications(e) = Pub("state", OnOff(e.fields.on))
         \/ e.kind = "group" /\ e.role \notin {"trigger", "hvac", "tilt"}
<1>1. CASE e.kind \notin {"group", "temperature", "state"}
  BY <1>1, OtherReadings DEF Publications
<1>2. CASE e.kind = "temperature"
  BY <1>2 DEF Publications, Reading
<1>3. CASE e.kind = "state"
  BY <1>3 DEF Publications, Reading
<1>4. CASE e.kind = "group" /\ e.role \in {"trigger", "hvac", "tilt"}
  <2>1. PICK f : f = When(e.source # None, Pub("source_unit", e.source))
    OBVIOUS
  <2>2. Other(f)
    BY <2>1, OtherIs DEF Related
  <2>3. Other(TiltEvent(e)) /\ Other(<<>>)
    BY OtherIs DEF TiltEvent, Related
  <2>4. Other(HvacEvent(e))
    <3>1. PICK a, b, c : a = Pub("current_temperature", e.level) /\ b = Pub("setpoint", e.level) /\ c = a \o b
      OBVIOUS
    <3>2. Other(a) /\ Other(b)
      BY <3>1, OtherIs DEF Related
    <3>3. Other(c)
      BY <3>1, <3>2, OtherJoin
    <3>4. PICK m, n : m = When(e.level # None, c) /\ n = Pub("mode", IF e.action = "off" THEN "off" ELSE "auto")
      OBVIOUS
    <3>5. Other(m) /\ Other(n)
      BY <3>3, <3>4, OtherIs DEF Related
    <3>6. QED
      BY <3>1, <3>4, <3>5, OtherJoin DEF HvacEvent
  <2>5. PICK g \in {<<>>, HvacEvent(e), TiltEvent(e)} : Publications(e) = f \o g
    BY <1>4, <2>1 DEF Publications
  <2>6. QED
    BY <2>2, <2>3, <2>4, <2>5, OtherJoin
<1>5. QED
  BY <1>1, <1>2, <1>3, <1>4

-----------------------------------------------------------------------------
(* The newest values of one device agree *)

\* A level has a state, a position a level, and both were shown by events of the address.
Coherent(L) ==
  /\ "level" \in DOMAIN L => /\ "state" \in DOMAIN L /\ (L["level"] > 0 => L["state"] = "ON")
                             /\ \E e \in BusEvents : ShowsLevel(e)
  /\ "position" \in DOMAIN L => /\ "level" \in DOMAIN L /\ L["position"] = L["level"]
                                /\ \E e \in BusEvents : ShowsLevel(e) /\ e.role = "cover"
  /\ "sensor_status" \in DOMAIN L /\ "sensor_problem" \in DOMAIN L =>
       (L["sensor_problem"] = "ON" <=> L["sensor_status"] >= 2)

\* No event makes them disagree.
LEMMA EventsCohere ==
  ASSUME OutboxAssumption, NEW L, Coherent(L), NEW e \in BusEvents
  PROVE  Listed(Publications(e)) /\ Coherent(Told(L, Publications(e)))
<1>1. IsEvent(e) /\ OneAddress(BusEvents)
  BY DEF OutboxAssumption
<1>2. PICK ps, M : ps = Publications(e) /\ M = Told(L, ps)
  OBVIOUS
<1>3. ASSUME Listed(ps)
      PROVE  /\ DOMAIN M = DOMAIN L \cup TopicsIn(ps)
             /\ \A t \in DOMAIN L : t \notin TopicsIn(ps) => M[t] = L[t]
             /\ \A t \in TopicsIn(ps) : \E x \in Entries(ps) : x.topic = t /\ M[t] = x.payload
             /\ TopicsIn(ps) = Topics(Entries(ps))
  <2>1. TopicsIn(ps) = Topics(Entries(ps))
    BY <1>3, ListedIs
  <2>2. Tells(M, L, ps)
    BY <1>2, <1>3, ToldIs
  <2>3. QED
    BY <2>1, <2>2 DEF Tells
<1>4. CASE Other(ps)
  <2>1. Listed(ps) /\ \A t \in Related : t \notin TopicsIn(ps)
    BY <1>3, <1>4 DEF Other, Topics
  <2>2. \A t \in Related : (t \in DOMAIN M <=> t \in DOMAIN L) /\ (t \in DOMAIN L => M[t] = L[t])
    BY <1>3, <2>1
  <2>3. Coherent(M)
    BY <2>2 DEF Coherent, Related
  <2>4. QED
    BY <1>2, <2>1, <2>3
<1>5. CASE e.kind = "temperature" /\ ps = TemperatureReading(e.fields)
  <2>1. /\ Listed(ps)
        /\ \A x \in Entries(ps) : x.topic \in {"current_temperature", "sensor_status", "sensor_problem"}
        /\ "sensor_status" \in TopicsIn(ps) <=> "sensor_problem" \in TopicsIn(ps)
        /\ \A x, y \in Entries(ps) : x.topic = "sensor_status" /\ y.topic = "sensor_problem" =>
             (y.payload = "ON" <=> x.payload >= 2)
    BY <1>5, TemperatureIs
  <2>2. \A t \in {"state", "level", "position"} : t \notin TopicsIn(ps)
    BY <1>3, <2>1 DEF Topics
  <2>3. \A t \in {"state", "level", "position"} :
          (t \in DOMAIN M <=> t \in DOMAIN L) /\ (t \in DOMAIN L => M[t] = L[t])
    BY <1>3, <2>1, <2>2
  <2>4. ASSUME "sensor_status" \in DOMAIN M, "sensor_problem" \in DOMAIN M
        PROVE  M["sensor_problem"] = "ON" <=> M["sensor_status"] >= 2
    <3>1. CASE "sensor_status" \in TopicsIn(ps)
      BY <1>3, <2>1, <3>1
    <3>2. CASE "sensor_status" \notin TopicsIn(ps)
      BY <1>3, <2>1, <2>4, <3>2 DEF Coherent
    <3>3. QED
      BY <3>1, <3>2
  <2>5. Coherent(M)
    BY <2>3, <2>4 DEF Coherent
  <2>6. QED
    BY <1>2, <2>1, <2>5
<1>6. CASE e.kind = "state" /\ ps = Pub("state", OnOff(e.fields.on))
  <2>1. Listed(ps) /\ \A x \in Entries(ps) : x.topic = "state"
    BY <1>6, PubIs
  <2>2. \A t : t # "state" => (t \in DOMAIN M <=> t \in DOMAIN L) /\ (t \in DOMAIN L => M[t] = L[t])
    BY <1>3, <2>1 DEF Topics
  <2>3. "level" \notin DOMAIN L
    BY <1>1, <1>6 DEF Coherent, OneAddress, ShowsLevel, ShowsState
  <2>4. Coherent(M)
    BY <2>2, <2>3 DEF Coherent
  <2>5. QED
    BY <1>2, <2>1, <2>4
<1>7. CASE e.kind = "group" /\ e.role \notin {"trigger", "hvac", "tilt"}
  <2>1. /\ Listed(ps)
        /\ \A x \in Entries(ps) : x.topic \in {"source_unit", "state", "level", "position"}
        /\ "state" \in TopicsIn(ps)
        /\ "level" \in TopicsIn(ps) <=> e.role # "pir"
        /\ "position" \in TopicsIn(ps) <=> e.role = "cover"
        /\ \A x \in Entries(ps) : x.topic \in {"level", "position"} => x.payload = LevelPercent(e)
        /\ \A x \in Entries(ps) : x.topic = "state" => x.payload = OnOff(IsOn(e))
        /\ e.role # "pir" /\ LevelPercent(e) > 0 => IsOn(e)
    BY <1>1, <1>2, <1>7, StatusIs
  <2>2. /\ M["state"] = OnOff(IsOn(e)) /\ "state" \in DOMAIN M
        /\ "level" \in TopicsIn(ps) => M["level"] = LevelPercent(e)
        /\ "position" \in TopicsIn(ps) => M["position"] = LevelPercent(e)
    BY <1>3, <2>1
  <2>3. \A t \in {"sensor_status", "sensor_problem"} :
          (t \in DOMAIN M <=> t \in DOMAIN L) /\ (t \in DOMAIN L => M[t] = L[t])
    BY <1>3, <2>1 DEF Topics
  <2>4. CASE e.role = "pir"
    <3>1. "level" \notin DOMAIN L
      BY <1>1, <1>7, <2>4 DEF Coherent, OneAddress, ShowsLevel, ShowsState
    <3>2. "level" \notin DOMAIN M /\ "position" \notin DOMAIN M
      BY <1>3, <2>1, <2>4, <3>1 DEF Coherent
    <3>3. Coherent(M)
      BY <2>3, <3>2 DEF Coherent
    <3>4. QED
      BY <1>2, <2>1, <3>3
  <2>5. CASE e.role # "pir"
    <3>1. ShowsLevel(e) /\ ShowsState(e)
      BY <1>7, <2>5 DEF ShowsLevel, ShowsState
    <3>2. "level" \in DOMAIN M /\ M["level"] = LevelPercent(e)
      BY <1>3, <2>1, <2>2, <2>5
    <3>3. M["level"] > 0 => M["state"] = "ON"
      BY <2>1, <2>2, <2>5, <3>2 DEF OnOff
    <3>4. ASSUME "position" \in DOMAIN M PROVE e.role = "cover" /\ M["position"] = M["level"]
      <4>1. e.role = "cover"
        <5>1. CASE "position" \in TopicsIn(ps)
          BY <2>1, <5>1
        <5>2. CASE "position" \in DOMAIN L
          BY <1>1, <3>1, <5>2 DEF Coherent, OneAddress
        <5>3. QED
          BY <1>3, <2>1, <3>4, <5>1, <5>2
      <4>2. QED
        BY <2>1, <2>2, <3>2, <4>1
    <3>5. Coherent(M)
      BY <2>2, <2>3, <3>1, <3>2, <3>3, <3>4 DEF Coherent
    <3>6. QED
      BY <1>2, <2>1, <3>5
  <2>6. QED
    BY <2>4, <2>5
<1>8. QED
  BY <1>1, <1>2, <1>4, <1>5, <1>6, <1>7, PublicationsAre

-----------------------------------------------------------------------------
(* The outbox agrees with the newest values *)

OutboxInv == Keeps(out, latest, {}) /\ mode.coalesce \in BOOLEAN /\ (mode.coalesce \/ out.buffer = <<>>)

\* It does at the start.
LEMMA StartsKeeping == OutboxInit => OutboxInv
<1> SUFFICES ASSUME OutboxInit PROVE OutboxInv
  OBVIOUS
<1>1. out = [buffer |-> <<>>, recent |-> <<>>, pending |-> <<>>, broker |-> <<>>, gone |-> {}]
  BY DEF OutboxInit, NoOutput
<1>2. IsOutbox(out)
  BY <1>1, Zenon DEF IsOutbox
<1>3. out.buffer = <<>> /\ out.recent = <<>> /\ out.pending = <<>> /\ out.broker = <<>> /\ out.gone = {}
  BY <1>1
<1>4. IsMap(<<>>) /\ Entries(<<>>) = {} /\ DOMAIN <<>> = {}
  BY PubIs DEF IsMap
<1>5. KeepsMaps(out) /\ Sparing(out)
  BY <1>3, <1>4 DEF KeepsMaps, Sparing
<1>6. latest = <<>> /\ mode.coalesce \in BOOLEAN
  BY DEF OutboxInit
<1>7. Agrees(out, latest, {})
  BY <1>3, <1>4, <1>6 DEF Agrees, Buffered, Sent, Recalled, Within, Topics
<1>8. QED
  BY <1>2, <1>3, <1>5, <1>6, <1>7 DEF OutboxInv, Keeps

\* An event of the bus is published, into the buffer or past it.
LEMMA EventKeeps ==
  ASSUME OutboxAssumption, OutboxInv, NEW e \in BusEvents, EventPublished(e), Listed(Publications(e))
  PROVE  OutboxInv'
<1>1. PICK ps : ps = Publications(e)
  OBVIOUS
<1>2. PICK M : M = Told(latest, ps)
  OBVIOUS
<1>3. Tells(M, latest, ps)
  BY <1>1, <1>2, ToldIs
<1>4. Keeps(out, latest, {})
  BY DEF OutboxInv
<1>5. Keeps(out, M, TopicsIn(ps))
  <2>1. Buffered(Entries(out.buffer), M, TopicsIn(ps))
    BY <1>3, <1>4 DEF Keeps, Agrees, Buffered, Tells
  <2>2. Sent(Entries(out.buffer), Entries(out.pending), out.broker, out.gone, M, TopicsIn(ps))
    <3>1. Sent(Entries(out.buffer), Entries(out.pending), out.broker, out.gone, latest, {})
      BY <1>4 DEF Keeps, Agrees
    <3>2. QED
      BY <1>3, <3>1 DEF Sent, Tells
  <2>3. Within(Entries(out.pending), out.broker, out.gone, M)
    BY <1>3, <1>4 DEF Keeps, Agrees, Within, Tells
  <2>4. QED
    BY <1>4, <2>1, <2>2, <2>3 DEF Keeps, Agrees
<1>6. out' = PublishEach(mode.coalesce, out, ps) /\ latest' = M /\ mode' = mode /\ link' = link
  BY <1>1, <1>2 DEF EventPublished
<1>7. Keeps(out', M, {}) /\ (mode.coalesce \/ out'.buffer = <<>>)
  <2>1. Final(ps, M) /\ Listed(ps)
    BY <1>1, <1>3 DEF Tells
  <2>2. QED
    BY <1>5, <1>6, <2>1, EachKeeps DEF OutboxInv
<1>8. QED
  BY <1>6, <1>7 DEF OutboxInv, Keeps, Sparing

\* The buffer is flushed.
LEMMA FlushKeeps ==
  ASSUME OutboxAssumption, OutboxInv, FlushBuffer
  PROVE  OutboxInv'
<1>1. PICK ps, s : ps = out.buffer /\ s = [out EXCEPT !.buffer = <<>>]
  OBVIOUS
<1>2. Keeps(out, latest, {}) /\ IsMap(ps)
  BY <1>1 DEF OutboxInv, Keeps, KeepsMaps
<1>3. Parts(s, <<>>, out.recent, out.pending, out.broker, out.gone)
  BY <1>1, <1>2, PartsAre DEF Keeps
<1>4. TopicsIn(ps) = Topics(Entries(ps)) /\ Listed(ps)
  BY <1>2, ListedIs DEF IsMap
<1>5. Final(ps, latest)
  <2>1. TopicsIn(ps) \subseteq DOMAIN latest /\ \A i \in DOMAIN ps : ps[i].payload = latest[ps[i].topic]
    BY <1>1, <1>2 DEF Keeps, Agrees, Buffered, Entries, TopicsIn
  <2>2. QED
    BY <2>1 DEF Final
<1>6. Keeps(s, latest, TopicsIn(ps))
  <2>1. Buffered({}, latest, TopicsIn(ps)) /\ Entries(<<>>) = {} /\ IsMap(<<>>)
    BY PubIs DEF Buffered, IsMap
  <2>2. Sent({}, Entries(out.pending), out.broker, out.gone, latest, TopicsIn(ps))
    BY <1>1, <1>2, <1>4 DEF Keeps, Agrees, Sent
  <2>3. QED
    BY <1>2, <1>3, <2>1, <2>2 DEF Keeps, KeepsMaps, Sparing, Agrees, Parts
<1>7. out' = PublishEach(FALSE, s, ps) /\ latest' = latest /\ mode' = mode /\ link' = link
  BY <1>1 DEF FlushBuffer
<1>8. s.buffer = <<>>
  BY <1>3 DEF Parts
<1>9. Keeps(out', latest, {}) /\ out'.buffer = <<>>
  BY <1>4, <1>5, <1>6, <1>7, <1>8, EachKeeps
<1>10. QED
  BY <1>7, <1>9 DEF OutboxInv, Keeps, Sparing

\* The window of a topic ends.
LEMMA WindowKeeps ==
  ASSUME OutboxInv, NEW t, WindowEnds(t)
  PROVE  OutboxInv'
<1>1. PICK a : a = Drop(out.recent, t)
  OBVIOUS
<1>2. Keeps(out, latest, {}) /\ IsMap(out.recent)
  BY DEF OutboxInv, Keeps, KeepsMaps
<1>3. IsMap(a) /\ Entries(a) \subseteq Entries(out.recent)
  BY <1>1, <1>2, DropIs DEF Apart
<1>4. out' = [out EXCEPT !.recent = a] /\ latest' = latest /\ mode' = mode /\ link' = link
  BY <1>1, SMTT(30) DEF WindowEnds
<1>5. Parts(out', out.buffer, a, out.pending, out.broker, out.gone)
  BY <1>2, <1>4, PartsAre DEF Keeps
<1>6. mode.dedup \/ a = <<>>
  <2>1. out.recent = <<>> => Entries(a) = {}
    BY <1>3, PubIs
  <2>2. Entries(a) = {} => a = <<>>
    BY <1>3, ListedIs DEF IsMap
  <2>3. QED
    BY <1>2, <2>1, <2>2 DEF Keeps, Sparing
<1>7. Recalled(Entries(a), Entries(out.pending), out.broker, out.gone)
  BY <1>2, <1>3 DEF Keeps, Agrees, Recalled
<1>8. QED
  BY <1>2, <1>3, <1>4, <1>5, <1>6, <1>7 DEF OutboxInv, Keeps, KeepsMaps, Sparing, Agrees, Parts

\* The queue of an outage is replayed.
LEMMA ReplayKeeps ==
  ASSUME OutboxInv, BrokerConnects
  PROVE  OutboxInv'
<1>1. PICK q, K, Q, G : q = out.pending /\ K = out.broker /\ Q = Entries(q) /\ G = out.gone
  OBVIOUS
<1>2. Keeps(out, latest, {}) /\ IsMap(q) /\ Topics(Q) \cap G = {}
  BY <1>1 DEF OutboxInv, Keeps, KeepsMaps, Agrees, Within
<1>3. PICK K2 : K2 = Told(K, q)
  OBVIOUS
<1>4. TopicsIn(q) = Topics(Q) /\ Listed(q)
  BY <1>1, <1>2, ListedIs DEF IsMap
<1>5. /\ DOMAIN K2 = DOMAIN K \cup Topics(Q)
      /\ \A t \in DOMAIN K : t \notin Topics(Q) => K2[t] = K[t]
      /\ \A t \in Topics(Q) : \E x \in Q : x.topic = t /\ K2[t] = x.payload
  <2>1. Tells(K2, K, q)
    BY <1>3, <1>4, ToldIs
  <2>2. QED
    BY <1>1, <1>4, <2>1 DEF Tells
<1>6. PICK s : s = [out EXCEPT !.pending = <<>>]
  OBVIOUS
<1>7. Parts(s, out.buffer, out.recent, <<>>, K, G)
  BY <1>1, <1>2, <1>6, PartsAre DEF Keeps
<1>8. /\ out' = [s EXCEPT !.broker = K2, !.gone = G \ TopicsIn(q)]
      /\ latest' = latest /\ mode' = mode
  BY <1>1, <1>3, <1>6, <1>7 DEF BrokerConnects, Deliver, Parts
<1>9. G \ TopicsIn(q) = G
  BY <1>2, <1>4
<1>10. Parts(out', out.buffer, out.recent, <<>>, K2, G)
  <2>1. out' = [s EXCEPT !.broker = K2, !.gone = G]
    BY <1>8, <1>9
  <2>2. IsOutbox(s)
    BY <1>7, SMTT(30) DEF Parts
  <2>3. PICK r : r = [s EXCEPT !.broker = K2, !.gone = G]
    OBVIOUS
  <2>4. Parts(r, s.buffer, s.recent, s.pending, K2, G)
    BY <2>2, <2>3, PartsAre, Zenon
  <2>5. s.buffer = out.buffer /\ s.recent = out.recent /\ s.pending = <<>> /\ out' = r
    BY <1>7, <2>1, <2>3 DEF Parts
  <2>6. QED
    BY <2>4, <2>5
<1>11. \A t, v : Coming(Q, K, t, v) => Coming({}, K2, t, v)
  BY <1>5 DEF Coming, Topics
<1>12. /\ Sent(Entries(out.buffer), Q, K, G, latest, {}) /\ Recalled(Entries(out.recent), Q, K, G)
       /\ Within(Q, K, G, latest) /\ Buffered(Entries(out.buffer), latest, {})
  BY <1>1, <1>2 DEF Keeps, Agrees
<1>13. Sent(Entries(out.buffer), {}, K2, G, latest, {}) /\ Recalled(Entries(out.recent), {}, K2, G)
  BY <1>11, <1>12 DEF Sent, Recalled
<1>14. Within({}, K2, G, latest)
  BY <1>5, <1>12 DEF Within, Topics
<1>15. Agrees(out', latest, {})
  BY <1>10, <1>12, <1>13, <1>14, PubIs DEF Agrees, Parts
<1>16. KeepsMaps(out') /\ IsMap(<<>>)
  BY <1>2, <1>10, PubIs DEF KeepsMaps, Parts, IsMap, Keeps
<1>17. QED
  BY <1>2, <1>8, <1>10, <1>15, <1>16 DEF OutboxInv, Keeps, Sparing, Parts

\* The broker goes, with all it retained or with nothing lost.
LEMMA LossKeeps ==
  ASSUME OutboxInv, NEW taken \in {{}, DOMAIN out.broker}, BrokerLost(taken)
  PROVE  OutboxInv'
<1>1. PICK K, G : K = out.broker /\ G = out.gone
  OBVIOUS
<1>2. Keeps(out, latest, {}) /\ out.pending = <<>> /\ Entries(out.pending) = {}
  <2>1. Keeps(out, latest, {}) /\ out.pending = <<>>
    BY DEF OutboxInv, Keeps, Sparing, BrokerLost
  <2>2. QED
    BY <2>1, PubIs
<1>3. PICK K2 : K2 = [t \in DOMAIN K \ taken |-> K[t]]
  OBVIOUS
<1>4. PICK m : m = [out EXCEPT !.gone = G \cup taken]
  OBVIOUS
<1>5. out' = [out EXCEPT !.broker = K2, !.gone = G \cup taken]
  BY <1>1, <1>3 DEF BrokerLost
<1>6. Parts(out', out.buffer, out.recent, out.pending, K2, G \cup taken)
  BY <1>2, <1>5, PartsAre DEF Keeps
<1>7. \A t, v : t \notin G \cup taken /\ Coming({}, K, t, v) => Coming({}, K2, t, v)
  BY <1>3 DEF Coming, Topics
<1>8. /\ Sent(Entries(out.buffer), {}, K, G, latest, {}) /\ Recalled(Entries(out.recent), {}, K, G)
      /\ Within({}, K, G, latest) /\ Buffered(Entries(out.buffer), latest, {})
  BY <1>1, <1>2 DEF Keeps, Agrees
<1>9. /\ Sent(Entries(out.buffer), {}, K2, G \cup taken, latest, {})
      /\ Recalled(Entries(out.recent), {}, K2, G \cup taken)
      /\ Within({}, K2, G \cup taken, latest)
  BY <1>3, <1>7, <1>8 DEF Sent, Recalled, Within, Topics
<1>10. Agrees(out', latest, {})
  BY <1>2, <1>6, <1>8, <1>9 DEF Agrees, Parts
<1>11. QED
  BY <1>2, <1>6, <1>10 DEF OutboxInv, Keeps, KeepsMaps, Sparing, Parts, BrokerLost

\* The process restarts.
LEMMA RestartKeeps ==
  ASSUME OutboxInv, PublisherRestarts
  PROVE  OutboxInv'
<1>1. PICK K, G, B, Q : K = out.broker /\ G = out.gone /\ B = Entries(out.buffer) /\ Q = Entries(out.pending)
  OBVIOUS
<1>2. Keeps(out, latest, {}) /\ TopicsIn(out.buffer) = Topics(B) /\ TopicsIn(out.pending) = Topics(Q)
  BY <1>1, ListedIs DEF OutboxInv, Keeps, KeepsMaps, IsMap
<1>3. PICK G2 : G2 = G \cup Topics(B) \cup Topics(Q)
  OBVIOUS
<1>4. PICK n : n = [buffer |-> <<>>, recent |-> <<>>, pending |-> <<>>, broker |-> <<>>, gone |-> {}]
  OBVIOUS
<1>5. IsOutbox(n)
  BY <1>4, Zenon DEF IsOutbox
<1>6. n.buffer = <<>> /\ n.recent = <<>> /\ n.pending = <<>>
  BY <1>4
<1>7. out' = [n EXCEPT !.broker = K, !.gone = G2] /\ link' = FALSE /\ latest' = latest /\ mode' = mode
  BY <1>1, <1>2, <1>3, <1>4, SMTT(30) DEF PublisherRestarts, NoOutput
<1>8. Parts(out', <<>>, <<>>, <<>>, K, G2)
  BY <1>5, <1>6, <1>7, PartsAre
<1>9. IsMap(<<>>) /\ Entries(<<>>) = {}
  BY PubIs DEF IsMap
<1>10. Sent(B, Q, K, G, latest, {}) /\ Within(Q, K, G, latest)
  BY <1>1, <1>2 DEF Keeps, Agrees
<1>11. Sent({}, {}, K, G2, latest, {}) /\ Within({}, K, G2, latest)
  BY <1>3, <1>10 DEF Sent, Within, Coming, Topics
<1>12. Agrees(out', latest, {})
  BY <1>8, <1>9, <1>11 DEF Agrees, Parts, Buffered, Recalled
<1>13. QED
  BY <1>7, <1>8, <1>9, <1>12 DEF OutboxInv, Keeps, KeepsMaps, Sparing, Parts

\* Every step keeps the outbox in agreement with the newest values, and those with each other.
LEMMA OutboxSteps ==
  ASSUME OutboxAssumption, OutboxInv, Coherent(latest), [OutboxNext]_outVars
  PROVE  OutboxInv' /\ Coherent(latest')
<1>1. CASE \E e \in BusEvents : EventPublished(e)
  <2>1. PICK e \in BusEvents : EventPublished(e)
    BY <1>1
  <2>2. Listed(Publications(e)) /\ Coherent(Told(latest, Publications(e)))
    BY EventsCohere
  <2>3. latest' = Told(latest, Publications(e))
    BY <2>1 DEF EventPublished
  <2>4. QED
    BY <2>1, <2>2, <2>3, EventKeeps
<1>2. CASE FlushBuffer
  BY <1>2, FlushKeeps DEF FlushBuffer
<1>3. CASE BrokerConnects
  BY <1>3, ReplayKeeps DEF BrokerConnects
<1>4. CASE PublisherRestarts
  BY <1>4, RestartKeeps DEF PublisherRestarts
<1>5. CASE \E t \in TopicsIn(out.recent) : WindowEnds(t)
  BY <1>5, WindowKeeps DEF WindowEnds
<1>6. CASE \E lostTopics \in {{}, DOMAIN out.broker} : BrokerLost(lostTopics)
  BY <1>6, LossKeeps DEF BrokerLost
<1>7. CASE UNCHANGED outVars
  BY <1>7 DEF outVars, OutboxInv, Keeps, Sparing
<1>8. QED
  BY <1>1, <1>2, <1>3, <1>4, <1>5, <1>6, <1>7 DEF OutboxNext

\* What the broker shows is among the newest values, and is one unless it was taken.
LEMMA ShownIsNewest ==
  ASSUME OutboxInv, Settled
  PROVE  /\ DOMAIN out.broker \subseteq DOMAIN latest
         /\ \A t \in DOMAIN latest \ out.gone : t \in DOMAIN out.broker /\ out.broker[t] = latest[t]
<1>1. /\ Sent(Entries(out.buffer), Entries(out.pending), out.broker, out.gone, latest, {})
      /\ DOMAIN out.broker \subseteq DOMAIN latest /\ out.buffer = <<>> /\ out.pending = <<>>
  BY DEF OutboxInv, Keeps, Agrees, Within, Sparing, Settled
<1>2. Entries(out.buffer) = {} /\ Entries(out.pending) = {}
  BY <1>1, PubIs
<1>3. QED
  BY <1>1, <1>2 DEF Sent, Coming, Topics

\* Hence what the broker shows coheres, as the newest values do.
LEMMA ShownCoheres ==
  ASSUME OutboxInv, Coherent(latest)
  PROVE  TopicsCohere
<1> SUFFICES ASSUME Settled
             PROVE  /\ Shown("state") /\ Shown("level") /\ out.broker["level"] > 0 => out.broker["state"] = "ON"
                    /\ Shown("position") /\ Shown("level") => out.broker["position"] = out.broker["level"]
                    /\ Shown("sensor_status") /\ Shown("sensor_problem") =>
                         (out.broker["sensor_problem"] = "ON" <=> out.broker["sensor_status"] >= 2)
  BY DEF TopicsCohere
<1>1. \A t : Shown(t) => t \in DOMAIN latest /\ out.broker[t] = latest[t]
  BY ShownIsNewest DEF Shown
<1>2. QED
  BY <1>1 DEF Coherent

\* The outbox agrees with the newest values, and those with each other.
LEMMA OutboxAlways == OutboxSpec => [](OutboxInv /\ Coherent(latest))
<1>1. OutboxInit => OutboxInv /\ Coherent(latest)
  BY StartsKeeping DEF OutboxInit, Coherent
<1>2. OutboxInv /\ Coherent(latest) /\ [OutboxNext]_outVars => (OutboxInv /\ Coherent(latest))'
  <2>1. OutboxInv /\ Coherent(latest) /\ [OutboxNext]_outVars => OutboxInv' /\ Coherent(latest')
    BY OutboxSteps, OutboxAssumption
  <2>2. QED
    BY <2>1
<1>3. QED
  BY <1>1, <1>2, PTL DEF OutboxSpec

\* With the broker connected and the buffer flushed, the broker retains the newest value of
\* every topic, through coalescing, the dedup window, the queue of an outage and its replay;
\* except one that was evicted or taken (mqttManager.js:181-209, eventPublisher.js:763-822).
THEOREM NewestIsRetained == OutboxSpec => []NewestWins
<1>1. OutboxInv => NewestWins
  BY ShownIsNewest DEF NewestWins
<1>2. QED
  BY <1>1, OutboxAlways, PTL

\* Topics of one device never contradict each other on the broker: an output above 0 % is
\* on, a position is the level, and a sensor that is said to fail has a status that says so
\* (eventPublisher.js:86-110, 443-483, 560-607).
THEOREM TopicsAreCoherent == OutboxSpec => []TopicsCohere
<1>1. OutboxInv /\ Coherent(latest) => TopicsCohere
  BY ShownCoheres
<1>2. QED
  BY <1>1, OutboxAlways, PTL
-----------------------------------------------------------------------------
(* What the bridge says about itself *)

\* The configs of the bridge itself, and of entities, that are to be with the broker.
ConfigsDue  == IF running.started THEN Configs ELSE {}
EntitiesDue == running.entities /\ options.onReconnect

SessionTypes ==
  /\ session \in [up : BOOLEAN, once : BOOLEAN] /\ (session.up => session.once)
  /\ running \in [started : BOOLEAN, entities : BOOLEAN]

\* Before the first connection they are queued; while there is one they are there, but for
\* entities whose resync is due.  An outage in between needs nothing: the connection that
\* ends it publishes the one and triggers the other.
Accounted(up, once, C, E, there, waiting, resync) ==
  IF up THEN C \subseteq there /\ (E => "entities" \in there \/ resync)
  ELSE ~once => C \subseteq waiting /\ (E => "entities" \in waiting)

NothingForgotten ==
  Accounted(session.up, session.once, ConfigsDue, EntitiesDue, DOMAIN retained, DOMAIN queued,
            "mqtt-reconnect" \in triggers)

AnnouncedInv == SessionTypes /\ NothingForgotten

\* What is published is with the broker or queued for it, and nothing else goes.
LEMMA PublishedTopics ==
  ASSUME NEW new, PublishTo(session.up, new)
  PROVE  /\ session.up => DOMAIN retained' = DOMAIN retained \cup DOMAIN new
         /\ ~session.up => DOMAIN queued' = DOMAIN queued \cup DOMAIN new
         /\ DOMAIN retained \subseteq DOMAIN retained' /\ DOMAIN queued \subseteq DOMAIN queued'
BY DEF PublishTo, Over

\* Publishing keeps what is due, and adds what is published to it.
LEMMA PublishKeeps ==
  ASSUME AnnouncedInv, NEW new, PublishTo(session.up, new),
         UNCHANGED <<options, session, triggers>>, SessionTypes',
         ConfigsDue' \subseteq ConfigsDue \cup DOMAIN new,
         EntitiesDue' => EntitiesDue \/ "entities" \in DOMAIN new
  PROVE  AnnouncedInv'
<1>1. PICK N : N = DOMAIN new
  OBVIOUS
<1>2. /\ session.up => DOMAIN retained' = DOMAIN retained \cup N
      /\ ~session.up => DOMAIN queued' = DOMAIN queued \cup N
  BY <1>1, PublishedTopics
<1>3. ConfigsDue' \subseteq ConfigsDue \cup N /\ (EntitiesDue' => EntitiesDue \/ "entities" \in N)
  BY <1>1
<1>4. session' = session /\ triggers' = triggers /\ NothingForgotten
  BY DEF AnnouncedInv
<1>5. NothingForgotten'
  <2> DEFINE T == "mqtt-reconnect" \in triggers
  <2>1. Accounted(session.up, session.once, ConfigsDue, EntitiesDue, DOMAIN retained, DOMAIN queued, T)
    BY <1>4 DEF NothingForgotten
  <2> HIDE DEF T
  <2>2. Accounted(session.up, session.once, ConfigsDue', EntitiesDue', DOMAIN retained', DOMAIN queued', T)
    BY <1>2, <1>3, <2>1 DEF Accounted
  <2>3. T' = T
    BY <1>4 DEF T
  <2>4. QED
    BY <1>4, <2>2, <2>3 DEF NothingForgotten, T
<1>6. QED
  BY <1>5 DEF AnnouncedInv

\* Every step keeps it.
LEMMA AnnouncedStep == AnnouncedInv /\ [DiagNext]_diagVars => AnnouncedInv'
<1> SUFFICES ASSUME AnnouncedInv, [DiagNext]_diagVars PROVE AnnouncedInv'
  OBVIOUS
<1>1. SessionTypes /\ NothingForgotten
  BY DEF AnnouncedInv
<1>2. CASE StaleCheck \/ DiagnosticsTick
  <2>1. PICK new : PublishTo(session.up, new)
    BY <1>2 DEF StaleCheck, DiagnosticsTick
  <2>2. UNCHANGED <<options, session, triggers, running>>
    BY <1>2 DEF StaleCheck, DiagnosticsTick
  <2>3. SessionTypes' /\ ConfigsDue' = ConfigsDue /\ EntitiesDue' = EntitiesDue
    BY <1>1, <2>2 DEF SessionTypes, ConfigsDue, EntitiesDue, Configs
  <2>4. QED
    BY <2>1, <2>2, <2>3, PublishKeeps
<1>3. CASE BridgeStarts
  <2>1. PICK new : /\ PublishTo(session.up, new)
                   /\ new = Over(Plain(Configs \cup (IF options.diagnostics THEN {"state"} ELSE {})),
                                 IF options.stale THEN StaleCount ELSE NoTopics)
    BY <1>3 DEF BridgeStarts
  <2>2. Configs \subseteq DOMAIN new
    BY <2>1 DEF Over, Plain
  <2>3. UNCHANGED <<options, session, triggers>> /\ running' = [running EXCEPT !.started = TRUE]
    BY <1>3 DEF BridgeStarts
  <2>4. SessionTypes' /\ running'.entities = running.entities
    BY <1>1, <2>3 DEF SessionTypes
  <2>5. ConfigsDue' \subseteq Configs /\ EntitiesDue' = EntitiesDue
    BY <2>3, <2>4 DEF ConfigsDue, EntitiesDue, Configs
  <2>6. QED
    BY <2>1, <2>2, <2>3, <2>4, <2>5, PublishKeeps
<1>4. CASE EntityAnnounced
  <2>1. PICK new : PublishTo(session.up, new) /\ new = Plain({"entities"})
    BY <1>4 DEF EntityAnnounced
  <2>2. UNCHANGED <<options, session, triggers>> /\ running' = [running EXCEPT !.entities = TRUE]
    BY <1>4 DEF EntityAnnounced
  <2>3. "entities" \in DOMAIN new
    BY <2>1 DEF Plain
  <2>4. SessionTypes' /\ ConfigsDue' = ConfigsDue
    BY <1>1, <2>2 DEF SessionTypes, ConfigsDue, Configs
  <2>5. QED
    BY <2>1, <2>2, <2>3, <2>4, PublishKeeps
<1>5. CASE ResyncRuns
  <2>1. UNCHANGED <<options, running, session>> /\ triggers' = {}
    BY <1>5 DEF ResyncRuns
  <2>2. SessionTypes' /\ ConfigsDue' = ConfigsDue /\ EntitiesDue' = EntitiesDue
    BY <1>1, <2>1 DEF SessionTypes, ConfigsDue, EntitiesDue, Configs
  <2>3. CASE "mqtt-reconnect" \in triggers /\ running.entities
    <3>1. PICK new : PublishTo(session.up, new) /\ new = Plain({"entities"})
      BY <1>5, <2>3 DEF ResyncRuns
    <3>2. "entities" \in DOMAIN new
      BY <3>1 DEF Plain
    <3>3. /\ session.up => "entities" \in DOMAIN retained'
          /\ ~session.up => "entities" \in DOMAIN queued'
          /\ DOMAIN retained \subseteq DOMAIN retained' /\ DOMAIN queued \subseteq DOMAIN queued'
      BY <3>1, <3>2, PublishedTopics
    <3>4. QED
      BY <1>1, <2>1, <2>2, <3>3 DEF AnnouncedInv, NothingForgotten, Accounted
  <2>4. CASE ~("mqtt-reconnect" \in triggers /\ running.entities)
    <3>1. UNCHANGED <<retained, queued>>
      BY <1>5, <2>4 DEF ResyncRuns
    <3>2. QED
      BY <1>1, <2>1, <2>2, <2>4, <3>1 DEF AnnouncedInv, NothingForgotten, Accounted, EntitiesDue
  <2>5. QED
    BY <2>3, <2>4
<1>6. CASE BrokerUp
  <2>1. /\ ~session.up /\ session' = [up |-> TRUE, once |-> TRUE]
        /\ DOMAIN retained' = DOMAIN retained \cup DOMAIN queued
                                \cup (IF session.once /\ running.started THEN Configs ELSE {})
        /\ triggers' = IF session.once /\ options.onReconnect
                         THEN triggers \cup {"mqtt-reconnect"} ELSE triggers
        /\ UNCHANGED <<options, running>>
    BY <1>6 DEF BrokerUp, RequestResync, Over, Plain
  <2>2. /\ SessionTypes' /\ session'.up
        /\ ConfigsDue' = ConfigsDue /\ EntitiesDue' = EntitiesDue
    BY <1>1, <2>1 DEF SessionTypes, ConfigsDue, EntitiesDue, Configs
  <2>3. ConfigsDue \subseteq DOMAIN retained'
    BY <1>1, <2>1 DEF NothingForgotten, Accounted, ConfigsDue
  <2>4. EntitiesDue => "entities" \in DOMAIN retained' \/ "mqtt-reconnect" \in triggers'
    BY <1>1, <2>1 DEF NothingForgotten, Accounted, EntitiesDue
  <2>5. QED
    BY <2>2, <2>3, <2>4 DEF AnnouncedInv, NothingForgotten, Accounted
<1>7. CASE \E topics \in {{}, DOMAIN retained} : BrokerDown(topics)
  <2>1. session.up /\ session' = [session EXCEPT !.up = FALSE] /\ running' = running
    BY <1>7 DEF BrokerDown
  <2>2. SessionTypes' /\ ~session'.up /\ session'.once
    BY <1>1, <2>1 DEF SessionTypes
  <2>3. QED
    BY <2>2 DEF AnnouncedInv, NothingForgotten, Accounted
<1>8. CASE BridgeRestarts
  <2>1. running' = [started |-> FALSE, entities |-> FALSE] /\ session' = [up |-> FALSE, once |-> FALSE]
    BY <1>8 DEF BridgeRestarts
  <2>2. ConfigsDue' = {} /\ ~EntitiesDue' /\ SessionTypes'
    BY <2>1 DEF ConfigsDue, EntitiesDue, SessionTypes
  <2>3. QED
    BY <2>1, <2>2 DEF AnnouncedInv, NothingForgotten, Accounted
<1>9. CASE HaOnline \/ DeviceAges \/ (\E d \in Devices : DeviceHeard(d)) \/ UNCHANGED diagVars
  <2>1. UNCHANGED <<options, running, session, retained, queued>> /\ triggers \subseteq triggers'
    BY <1>9 DEF HaOnline, RequestResync, DeviceAges, DeviceHeard, diagVars
  <2>2. SessionTypes' /\ ConfigsDue' = ConfigsDue /\ EntitiesDue' = EntitiesDue
    BY <1>1, <2>1 DEF SessionTypes, ConfigsDue, EntitiesDue, Configs
  <2>3. QED
    BY <1>1, <2>1, <2>2 DEF AnnouncedInv, NothingForgotten, Accounted
<1>10. QED
  BY <1>2, <1>3, <1>4, <1>5, <1>6, <1>7, <1>8, <1>9 DEF DiagNext

\* Whenever the broker is connected and no resync is due, every config that the bridge has
\* announced, of itself and of entities, is with the broker, whatever it forgot during
\* outages, and however triggers of reconnections and of Home Assistant's birth fell together
\* in the debounce (cgateWebBridge.js:466-481, stateResyncCoordinator.js:65-152).
THEOREM AnnouncedIsThere ==
  DiagSpec => [](session.up /\ triggers = {} => Due \ {"state"} \subseteq DOMAIN retained)
<1>1. DiagInit => AnnouncedInv
  BY DEF DiagInit, AnnouncedInv, SessionTypes, NothingForgotten, Accounted, ConfigsDue, EntitiesDue
<1>2. AnnouncedInv => (session.up /\ triggers = {} => Due \ {"state"} \subseteq DOMAIN retained)
  BY DEF AnnouncedInv, NothingForgotten, Accounted, Due, ConfigsDue, EntitiesDue
<1>3. QED
  BY <1>1, <1>2, AnnouncedStep, PTL DEF DiagSpec
=============================================================================
