------------------------ MODULE TreeDiscoveryProofs ------------------------
(***************************************************************************)
(* Proofs about the tree session for any number of networks, connections,  *)
(* attempts and re-fetches: types, one wait per network, a watchdog for    *)
(* every request, an honest sensor, and no network stuck unless streams    *)
(* overlap or are empty.                                                   *)
(***************************************************************************)
EXTENDS TreeDiscovery, FiniteSetTheorems, SequenceTheorems, TLAPS

-----------------------------------------------------------------------------
(* Sequences without repetition *)

\* What stands at a position of a sequence is one of its elements.
LEMMA ElementAt ==
  ASSUME NEW S, NEW s \in Seq(S), NEW i \in 1..Len(s)
  PROVE  s[i] \in ToSet(s)
BY DEF ToSet

\* A function on an initial segment of the positions is a sequence.
LEMMA ListIsSeq ==
  ASSUME NEW S, NEW n \in Nat, NEW f \in [1..n -> S]
  PROVE  f \in Seq(S)
<1>1. [1..n -> S] \in {[1..m -> S] : m \in Nat}
  OBVIOUS
<1>2. f \in UNION {[1..m -> S] : m \in Nat}
  BY <1>1, Zenon
<1>3. QED
  BY <1>2, SeqDef, Zenon

\* Taking the head off a queue without repetition takes it out of its elements.
LEMMA TailUnique ==
  ASSUME NEW S, NEW s \in Seq(S), s # <<>>, Unique(s)
  PROVE  /\ Head(s) \in S /\ Head(s) \in ToSet(s)
         /\ Tail(s) \in Seq(S) /\ Unique(Tail(s))
         /\ ToSet(Tail(s)) = ToSet(s) \ {Head(s)}
<1>1. /\ Head(s) = s[1] /\ Len(s) \in Nat \ {0}
      /\ Tail(s) \in Seq(S) /\ Len(Tail(s)) = Len(s) - 1
      /\ \A i \in 1..Len(Tail(s)) : Tail(s)[i] = s[i + 1]
  OBVIOUS
<1>2. Unique(Tail(s))
  BY <1>1 DEF Unique
<1>3. ASSUME NEW x PROVE x \in ToSet(Tail(s)) <=> x \in ToSet(s) \ {Head(s)}
  <2>1. ASSUME x \in ToSet(Tail(s)) PROVE x \in ToSet(s) \ {Head(s)}
    <3>1. PICK i \in 1..Len(Tail(s)) : Tail(s)[i] = x
      BY <2>1, <1>1 DEF ToSet
    <3>2. i + 1 \in 1..Len(s) /\ s[i + 1] = x /\ i + 1 # 1 /\ 1 \in 1..Len(s)
      BY <3>1, <1>1
    <3>3. x # s[1]
      BY <3>2 DEF Unique
    <3>4. QED
      BY <3>2, <3>3, <1>1 DEF ToSet
  <2>2. ASSUME x \in ToSet(s) \ {Head(s)} PROVE x \in ToSet(Tail(s))
    <3>1. PICK i \in 1..Len(s) : s[i] = x
      BY <2>2 DEF ToSet
    <3>2. i # 1
      BY <3>1, <2>2, <1>1
    <3>3. i - 1 \in 1..Len(Tail(s)) /\ Tail(s)[i - 1] = x
      BY <3>1, <3>2, <1>1
    <3>4. Tail(s)[i - 1] \in ToSet(Tail(s))
      BY <3>3, <1>1, ElementAt
    <3>5. QED
      BY <3>3, <3>4
  <2>3. QED
    BY <2>1, <2>2
<1>4. Head(s) \in S /\ Head(s) \in ToSet(s)
  BY <1>1 DEF ToSet
<1>5. QED
  BY <1>1, <1>2, <1>3, <1>4

\* Appending to a queue what it does not hold keeps it without repetition.
LEMMA JoinUnique ==
  ASSUME NEW S, NEW s \in Seq(S), NEW t \in Seq(S), Unique(s), Unique(t),
         ToSet(s) \cap ToSet(t) = {}
  PROVE  /\ s \o t \in Seq(S) /\ Unique(s \o t)
         /\ ToSet(s \o t) = ToSet(s) \cup ToSet(t)
<1>1. /\ s \o t \in Seq(S) /\ Len(s \o t) = Len(s) + Len(t)
      /\ Len(s) \in Nat /\ Len(t) \in Nat
      /\ \A i \in 1..Len(s) + Len(t) : (s \o t)[i] = IF i <= Len(s) THEN s[i] ELSE t[i - Len(s)]
  OBVIOUS
<1> DEFINE u == s \o t
<1>2. \A i \in 1..Len(s) : u[i] = s[i] /\ s[i] \in ToSet(s)
  BY <1>1 DEF ToSet
<1>3. \A i \in 1..Len(t) : u[Len(s) + i] = t[i] /\ t[i] \in ToSet(t)
  BY <1>1 DEF ToSet
<1>4. ASSUME NEW x PROVE x \in ToSet(u) <=> x \in ToSet(s) \cup ToSet(t)
  <2>1. ASSUME x \in ToSet(u) PROVE x \in ToSet(s) \cup ToSet(t)
    <3>1. PICK i \in 1..Len(s) + Len(t) : u[i] = x
      BY <2>1, <1>1 DEF ToSet
    <3>2. CASE i <= Len(s)
      BY <3>1, <3>2, <1>1, <1>2
    <3>3. CASE i > Len(s)
      <4>1. i - Len(s) \in 1..Len(t) /\ t[i - Len(s)] = x
        BY <3>1, <3>3, <1>1
      <4>2. QED
        BY <4>1, <1>3
    <3>4. QED
      BY <3>1, <3>2, <3>3, <1>1
  <2>2. ASSUME x \in ToSet(s) PROVE x \in ToSet(u)
    <3>1. PICK i \in 1..Len(s) : s[i] = x
      BY <2>2 DEF ToSet
    <3>2. i \in 1..Len(u) /\ u[i] = x
      BY <3>1, <1>1
    <3>3. QED
      BY <3>2, <1>1 DEF ToSet
  <2>3. ASSUME x \in ToSet(t) PROVE x \in ToSet(u)
    <3>1. PICK i \in 1..Len(t) : t[i] = x
      BY <2>3 DEF ToSet
    <3>2. Len(s) + i \in 1..Len(u) /\ u[Len(s) + i] = x
      BY <3>1, <1>1
    <3>3. u[Len(s) + i] \in ToSet(u)
      BY <3>2, <1>1, ElementAt
    <3>4. QED
      BY <3>2, <3>3
  <2>4. QED
    BY <2>1, <2>2, <2>3
<1>5. Unique(u)
  <2> SUFFICES ASSUME NEW i \in 1..Len(s) + Len(t), NEW j \in 1..Len(s) + Len(t), u[i] = u[j]
               PROVE  i = j
    BY <1>1 DEF Unique
  <2>1. CASE i <= Len(s) /\ j <= Len(s)
    BY <2>1, <1>1 DEF Unique
  <2>2. CASE i > Len(s) /\ j > Len(s)
    <3>1. /\ i - Len(s) \in 1..Len(t) /\ j - Len(s) \in 1..Len(t)
          /\ t[i - Len(s)] = t[j - Len(s)]
      BY <2>2, <1>1
    <3>2. i - Len(s) = j - Len(s)
      BY <3>1 DEF Unique
    <3>3. QED
      BY <3>2, <1>1
  <2>3. CASE i <= Len(s) /\ j > Len(s)
    <3>1. j - Len(s) \in 1..Len(t) /\ u[j] = t[j - Len(s)] /\ i \in 1..Len(s)
      BY <2>3, <1>1
    <3>2. u[i] \in ToSet(s) /\ u[j] \in ToSet(t)
      BY <3>1, <1>2, <1>3
    <3>3. QED
      BY <3>2
  <2>4. CASE i > Len(s) /\ j <= Len(s)
    <3>1. i - Len(s) \in 1..Len(t) /\ u[i] = t[i - Len(s)] /\ j \in 1..Len(s)
      BY <2>4, <1>1
    <3>2. u[i] \in ToSet(t) /\ u[j] \in ToSet(s)
      BY <3>1, <1>2, <1>3
    <3>3. QED
      BY <3>2
  <2>5. QED
    BY <2>1, <2>2, <2>3, <2>4, <1>1
<1>6. QED
  BY <1>1, <1>4, <1>5

\* Cutting an element out of a queue without repetition.
LEMMA WithoutUnique ==
  ASSUME NEW S, NEW s \in Seq(S), Unique(s), NEW n
  PROVE  /\ Without(s, n) \in Seq(S) /\ Unique(Without(s, n))
         /\ ToSet(Without(s, n)) = ToSet(s) \ {n}
<1>1. CASE n \notin ToSet(s)
  BY <1>1 DEF Without, ToSet
<1>2. CASE n \in ToSet(s)
  <2> DEFINE i == CHOOSE j \in DOMAIN s : s[j] = n
             u == SubSeq(s, 1, i - 1)
             v == SubSeq(s, i + 1, Len(s))
  <2>1. i \in 1..Len(s) /\ s[i] = n /\ Len(s) \in Nat
    BY <1>2 DEF ToSet
  <2>2. Without(s, n) = u \o v
    BY <1>2 DEF Without, RemoveAt
  <2> HIDE DEF i
  <2>3. /\ u \in Seq(S) /\ Len(u) = i - 1
        /\ \A j \in 1..i - 1 : u[j] = s[j]
    BY <2>1
  <2>4. /\ v \in Seq(S) /\ Len(v) = Len(s) - i
        /\ \A j \in 1..Len(s) - i : v[j] = s[i + j]
    BY <2>1
  <2> HIDE DEF u, v
  <2>5. Unique(u)
    BY <2>1, <2>3 DEF Unique
  <2>6. Unique(v)
    <3> SUFFICES ASSUME NEW j \in 1..Len(s) - i, NEW k \in 1..Len(s) - i, v[j] = v[k]
                 PROVE  j = k
      BY <2>1, <2>4 DEF Unique
    <3>1. i + j \in 1..Len(s) /\ i + k \in 1..Len(s) /\ s[i + j] = s[i + k]
      BY <2>1, <2>4
    <3>2. i + j = i + k
      BY <3>1 DEF Unique
    <3>3. QED
      BY <3>2, <2>1
  <2>7. ASSUME NEW x, x \in ToSet(u) PROVE \E j \in 1..Len(s) : s[j] = x /\ j < i
    <3>1. PICK j \in 1..i - 1 : u[j] = x
      BY <2>7, <2>3, <2>1 DEF ToSet
    <3>2. j \in 1..Len(s) /\ s[j] = x /\ j < i
      BY <3>1, <2>3, <2>1
    <3>3. QED
      BY <3>2
  <2>8. ASSUME NEW x, x \in ToSet(v) PROVE \E j \in 1..Len(s) : s[j] = x /\ j > i
    <3>1. PICK j \in 1..Len(s) - i : v[j] = x
      BY <2>8, <2>4, <2>1 DEF ToSet
    <3>2. i + j \in 1..Len(s) /\ s[i + j] = x /\ i + j > i
      BY <3>1, <2>4, <2>1
    <3>3. QED
      BY <3>2
  <2>9. ASSUME NEW x, x \in ToSet(u), x \in ToSet(v) PROVE FALSE
    <3>1. PICK j \in 1..Len(s) : s[j] = x /\ j < i
      BY <2>7, <2>9
    <3>2. PICK k \in 1..Len(s) : s[k] = x /\ k > i
      BY <2>8, <2>9
    <3>3. j = k
      BY <3>1, <3>2 DEF Unique
    <3>4. QED
      BY <3>1, <3>2, <3>3, <2>1
  <2>10. /\ u \o v \in Seq(S) /\ Unique(u \o v)
         /\ ToSet(u \o v) = ToSet(u) \cup ToSet(v)
    <3>1. ToSet(u) \cap ToSet(v) = {}
      BY <2>9
    <3>2. QED
      BY <3>1, <2>3, <2>4, <2>5, <2>6, JoinUnique
  <2>11. ASSUME NEW x PROVE x \in ToSet(u) \cup ToSet(v) <=> x \in ToSet(s) \ {n}
    <3>1. ASSUME x \in ToSet(u) \cup ToSet(v) PROVE x \in ToSet(s) \ {n}
      <4>1. PICK j \in 1..Len(s) : s[j] = x /\ j # i
        BY <3>1, <2>7, <2>8, <2>1
      <4>2. s[j] # n
        BY <4>1, <2>1 DEF Unique
      <4>3. QED
        BY <4>1, <4>2 DEF ToSet
    <3>2. ASSUME x \in ToSet(s) \ {n} PROVE x \in ToSet(u) \cup ToSet(v)
      <4>1. PICK j \in 1..Len(s) : s[j] = x
        BY <3>2 DEF ToSet
      <4>2. j # i
        BY <4>1, <3>2, <2>1
      <4>3. CASE j < i
        <5>1. j \in 1..Len(u) /\ u[j] = x
          BY <4>1, <4>3, <2>1, <2>3
        <5>2. QED
          BY <5>1, <2>3 DEF ToSet
      <4>4. CASE j > i
        <5>1. j - i \in 1..Len(v) /\ v[j - i] = x
          BY <4>1, <4>4, <2>1, <2>4
        <5>2. QED
          BY <5>1, <2>4 DEF ToSet
      <4>5. QED
        BY <4>1, <4>2, <4>3, <4>4, <2>1
    <3>3. QED
      BY <3>1, <3>2
  <2>12. QED
    BY <2>2, <2>10, <2>11
<1>3. QED
  BY <1>1, <1>2

-----------------------------------------------------------------------------
(* The inductive invariant *)

\* A deadline runs for the session it was armed for; C-Gate streams the tree of
\* the network at the head of a connection.
DeadlineHasSession == deadline => session.net \in Nets
StreamsRequested ==
  \A c \in Conns : stream[c] # "idle" => requests[c] # <<>> /\ Head(requests[c]) \in Networks

TreeInv ==
  /\ TypeOK /\ OneWait /\ Watched /\ SensorHonest
  /\ DeadlineHasSession /\ StreamsRequested

\* The types of the session, of C-Gate's side, and of the rest.
Session       == [net : Nets \cup {None}, trees : Seq(Networks)]
OutsideTypes  ==
  /\ session \in Session /\ nudges \in 0..MaxNudges
  /\ commands \in Seq(Nets) /\ requests \in [Conns -> Seq(Nets)]
  /\ stream \in [Conns -> {"idle", "started", "sent"}]
RecordTypes ==
  /\ pending \in Seq(Nets) /\ deadline \in BOOLEAN
  /\ attempts \in [Nets -> 0..MaxAttempts]
  /\ watchdog \in [Nets -> BOOLEAN] /\ retry \in [Nets -> BOOLEAN]
  /\ resyncs \in [Nets -> 0..MaxResyncs] /\ resyncTimer \in [Nets -> BOOLEAN]
  /\ status \in [Nets -> {"none", "discovering", "ok", "paused"}]
  /\ entities \in [Nets -> Networks \cup {None}]
  /\ stopped \in BOOLEAN

\* The types, of what is outside the session and of its records,
LEMMA TypeParts == TypeOK <=> OutsideTypes /\ RecordTypes
BY DEF TypeOK, OutsideTypes, RecordTypes, Session

\* What is kept about the records of the program.
RecordInv ==
  /\ RecordTypes /\ OneWait /\ Watched /\ SensorHonest /\ DeadlineHasSession

\* the invariant likewise,
LEMMA InvParts == TreeInv <=> OutsideTypes /\ RecordInv /\ StreamsRequested
BY TypeParts DEF TreeInv, RecordInv

\* Names: no network is None.
LEMMA NetsNames == /\ Networks \subseteq Nets /\ Unknown \in Nets
                   /\ None \notin Nets /\ NoSession \in Session
BY NamesAssumption DEF Nets, NoSession, Session

\* The initial state satisfies the invariant.
LEMMA TreeInit == Init => TreeInv
<1> SUFFICES ASSUME Init PROVE TreeInv
  OBVIOUS
<1>1. OutsideTypes
  BY EnvironmentAssumption, NetsNames DEF Init, OutsideTypes, EnvironmentAssumption
<1>2. RecordTypes
  <2>1. 0 \in 0..MaxAttempts /\ 0 \in 0..MaxResyncs
    BY LimitsAssumption DEF LimitsAssumption
  <2>2. attempts \in [Nets -> 0..MaxAttempts] /\ resyncs \in [Nets -> 0..MaxResyncs]
    BY <2>1 DEF Init
  <2>3. pending \in Seq(Nets)
    BY DEF Init
  <2>4. deadline \in BOOLEAN /\ stopped \in BOOLEAN
    BY DEF Init
  <2>5. /\ watchdog \in [Nets -> BOOLEAN] /\ retry \in [Nets -> BOOLEAN]
        /\ resyncTimer \in [Nets -> BOOLEAN]
    BY DEF Init
  <2>6. /\ status \in [Nets -> {"none", "discovering", "ok", "paused"}]
        /\ entities \in [Nets -> Networks \cup {None}]
    BY DEF Init
  <2>7. QED
    BY <2>2, <2>3, <2>4, <2>5, <2>6 DEF RecordTypes
<1>3. ToSet(pending) = {}
  BY DEF Init, ToSet
<1>4. OneWait /\ Watched /\ SensorHonest
  BY <1>3, NetsNames DEF Init, InFlight, OneWait, Unique, Watched, SensorHonest, NoSession
<1>5. DeadlineHasSession /\ StreamsRequested
  BY DEF Init, DeadlineHasSession, StreamsRequested
<1>6. QED
  BY <1>1, <1>2, <1>4, <1>5, InvParts DEF RecordInv

\* A failure keeps the invariant if n was in flight and is no longer received, and
\* the caller has disarmed its watchdog.
LEMMA FailKeeps ==
  ASSUME OutsideTypes, RecordInv, ~stopped,
         NEW n \in Nets, InFlight(n),
         NEW armed \in [Nets -> BOOLEAN], NEW dl \in BOOLEAN,
         \A m \in Nets : armed[m] <=> m \in ToSet(pending) \ {n},
         session'.net \in {session.net, None}, session'.net # n,
         dl => session'.net \in Nets,
         Fail(n, armed, dl)
  PROVE  RecordInv'
<1> USE NetsNames
<1>0. LimitsAssumption
  BY LimitsAssumption
<1>1. /\ pending' \in Seq(Nets) /\ Unique(pending')
      /\ ToSet(pending') = ToSet(pending) \ {n}
  <2>1. pending' = Without(pending, n) /\ pending \in Seq(Nets) /\ Unique(pending)
    BY DEF Fail, RecordInv, RecordTypes, OneWait
  <2>2. QED
    BY <2>1, WithoutUnique
<1>2. status[n] \notin {"ok", "paused"} \/ n \notin Networks
  BY DEF RecordInv, SensorHonest
<1>3. ~InFlight(n)' /\ \A m \in Nets : InFlight(m)' => InFlight(m) /\ m # n
  BY <1>1 DEF InFlight
<1>4. session'.net \notin ToSet(pending')
  <2>1. ToSet(pending) \subseteq Nets
    BY DEF RecordInv, RecordTypes, ToSet
  <2>2. session.net \notin ToSet(pending)
    BY DEF RecordInv, OneWait
  <2>3. QED
    BY <1>1, <2>1, <2>2
<1>5. CASE BudgetLeft(n)
  <2>1. /\ attempts' = [attempts EXCEPT ![n] = CountAttempt(n)]
        /\ retry' = [retry EXCEPT ![n] = TRUE]
        /\ watchdog' = armed /\ deadline' = dl /\ status' = status
        /\ UNCHANGED <<resyncs, resyncTimer, entities, stopped>>
    BY <1>5 DEF Fail, resync
  <2>2. attempts' \in [Nets -> 0..MaxAttempts]
    <3>1. attempts[n] + 1 \in 0..MaxAttempts
      BY <1>0, <1>5 DEF BudgetLeft, RecordInv, RecordTypes, LimitsAssumption
    <3>2. QED
      BY <2>1, <3>1 DEF CountAttempt, RecordInv, RecordTypes
  <2>3. RecordTypes'
    BY <1>1, <2>1, <2>2 DEF RecordInv, RecordTypes
  <2>4. OneWait'
    BY <1>1, <1>3, <1>4, <2>1 DEF RecordInv, RecordTypes, OneWait
  <2>5. Watched'
    BY <1>1, <2>1 DEF Watched
  <2>6. SensorHonest'
    BY <1>2, <1>3, <2>1 DEF RecordInv, RecordTypes, SensorHonest
  <2>7. DeadlineHasSession'
    BY <2>1 DEF DeadlineHasSession
  <2>8. QED
    BY <2>3, <2>4, <2>5, <2>6, <2>7 DEF RecordInv
<1>6. CASE ~BudgetLeft(n)
  <2>1. /\ attempts' = [attempts EXCEPT ![n] = 0]
        /\ retry' = [retry EXCEPT ![n] = FALSE]
        /\ watchdog' = [armed EXCEPT ![n] = FALSE]
        /\ deadline' = (dl /\ session'.net # n)
        /\ status' = [status EXCEPT ![n] = "paused"]
        /\ UNCHANGED <<resyncs, resyncTimer, entities, stopped>>
    BY <1>6 DEF Fail, resync
  <2>2. attempts' \in [Nets -> 0..MaxAttempts]
    <3>1. 0 \in 0..MaxAttempts
      BY <1>0 DEF LimitsAssumption
    <3>2. QED
      BY <2>1, <3>1 DEF RecordInv, RecordTypes
  <2>3. RecordTypes'
    BY <1>1, <2>1, <2>2 DEF RecordInv, RecordTypes
  <2>4. OneWait'
    BY <1>1, <1>3, <1>4, <2>1 DEF RecordInv, RecordTypes, OneWait
  <2>5. Watched'
    BY <1>1, <2>1 DEF Watched
  <2>6. SensorHonest'
    BY <1>3, <2>1 DEF RecordInv, RecordTypes, SensorHonest
  <2>7. DeadlineHasSession'
    BY <2>1 DEF DeadlineHasSession
  <2>8. QED
    BY <2>3, <2>4, <2>5, <2>6, <2>7 DEF RecordInv
<1>7. QED
  BY <1>5, <1>6

\* A start line keeps the invariant, whichever network it is attributed to.
LEMMA StartKeeps ==
  ASSUME OutsideTypes, RecordInv, ~stopped, NEW trees \in Seq(Networks), Start(trees)
  PROVE  RecordInv' /\ session' \in Session
<1> DEFINE n == StreamNetwork
<1>1. /\ pending' = IF pending = <<>> THEN pending ELSE Tail(pending)
      /\ watchdog' = [watchdog EXCEPT ![n] = FALSE]
      /\ retry' = [retry EXCEPT ![n] = FALSE]
      /\ resyncTimer' = [resyncTimer EXCEPT ![n] = FALSE]
      /\ session' = [net |-> n, trees |-> trees] /\ deadline' = TRUE
      /\ UNCHANGED <<attempts, resyncs, status, entities, stopped>>
  BY DEF Start, Disarm, shown
<1>2. pending \in Seq(Nets) /\ Unique(pending)
  BY DEF RecordInv, RecordTypes, OneWait
<1>3. /\ n \in Nets /\ pending' \in Seq(Nets) /\ Unique(pending')
      /\ ToSet(pending') = ToSet(pending) \ {n}
      /\ InFlight(n) \/ n = Unknown
  <2>1. CASE pending = <<>>
    <3>1. ToSet(pending) = {}
      BY <2>1 DEF ToSet
    <3>2. pending' = pending /\ (n = session.net \/ n = Unknown) /\ n \in Nets
      BY <2>1, <1>1, NetsNames DEF StreamNetwork, OutsideTypes, Session
    <3>3. QED
      BY <3>1, <3>2, <1>2 DEF InFlight
  <2>2. CASE pending # <<>>
    <3>1. n = Head(pending) /\ pending' = Tail(pending)
      BY <2>2, <1>1 DEF StreamNetwork
    <3>2. QED
      BY <2>2, <3>1, <1>2, TailUnique DEF InFlight
  <2>3. QED
    BY <2>1, <2>2
<1> HIDE DEF n
<1>4. session' \in Session /\ session'.net = n
  BY <1>1, <1>3 DEF Session
<1>5. RecordTypes'
  BY <1>1, <1>3 DEF RecordInv, RecordTypes
<1>6. OneWait'
  <2>1. ASSUME NEW m \in Nets, retry'[m] PROVE ~InFlight(m)'
    <3>1. retry[m] /\ m # n
      BY <2>1, <1>1, <1>3 DEF RecordInv, RecordTypes
    <3>2. ~InFlight(m)
      BY <3>1 DEF RecordInv, OneWait
    <3>3. QED
      BY <3>1, <3>2, <1>3, <1>4 DEF InFlight
  <2>2. QED
    BY <2>1, <1>3, <1>4 DEF OneWait
<1>7. Watched'
  BY <1>1, <1>3 DEF RecordInv, RecordTypes, Watched
<1>8. SensorHonest'
  <2> SUFFICES ASSUME NEW m \in Networks, status'[m] \in {"ok", "paused"}
               PROVE  ~InFlight(m)' /\ ~retry'[m]
    BY DEF SensorHonest
  <2>1. m \in Nets /\ ~InFlight(m) /\ ~retry[m] /\ m # Unknown
    BY <1>1, NetsNames, NamesAssumption DEF RecordInv, SensorHonest, NamesAssumption
  <2>2. m # n
    BY <2>1, <1>3
  <2>3. ~InFlight(m)'
    BY <2>1, <2>2, <1>3, <1>4 DEF InFlight
  <2>4. ~retry'[m]
    BY <2>1, <2>2, <1>1 DEF RecordInv, RecordTypes
  <2>5. QED
    BY <2>3, <2>4
<1>9. DeadlineHasSession'
  BY <1>1, <1>3, <1>4 DEF DeadlineHasSession
<1>10. QED
  BY <1>4, <1>5, <1>6, <1>7, <1>8, <1>9 DEF RecordInv

\* Requests keep the invariant, and fill the command queue.
LEMMA QueueKeeps ==
  ASSUME OutsideTypes, RecordInv, ~stopped,
         NEW ns \in SUBSET Nets, IsFiniteSet(ns), QueueTreeRequests(ns),
         resyncs' \in [Nets -> 0..MaxResyncs], resyncTimer' \in [Nets -> BOOLEAN]
  PROVE  RecordInv' /\ commands' \in Seq(Nets)
<1> DEFINE F == {n \in ns : ~InFlight(n)}
<1>1. PICK fresh \in Orders(F) :
        /\ pending' = pending \o fresh
        /\ watchdog' = [n \in Nets |-> watchdog[n] \/ n \in ToSet(fresh)]
        /\ commands' = commands \o fresh
  BY DEF QueueTreeRequests
<1>2. /\ retry' = [n \in Nets |-> retry[n] /\ n \notin ns]
      /\ status' = [n \in Nets |-> IF n \in ns THEN "discovering" ELSE status[n]]
      /\ UNCHANGED <<session, deadline, attempts, entities, stopped>>
  BY DEF QueueTreeRequests, Discovering
<1>3. fresh \in Seq(Nets) /\ Unique(fresh) /\ ToSet(fresh) = F
  <2>1. F \subseteq Nets /\ Cardinality(F) \in Nat
    <3>1. F \subseteq ns /\ IsFiniteSet(F)
      BY FS_Subset
    <3>2. QED
      BY <3>1, FS_CardinalityType
  <2>2. fresh \in [1..Cardinality(F) -> F] /\ Unique(fresh) /\ ToSet(fresh) = F
    BY <1>1 DEF Orders
  <2>3. fresh \in [1..Cardinality(F) -> Nets]
    BY <2>1, <2>2
  <2>4. QED
    BY <2>1, <2>2, <2>3, ListIsSeq
<1>4. F \subseteq ns /\ \A m \in F : ~InFlight(m)
  OBVIOUS
<1> HIDE DEF F
<1>5. /\ pending' \in Seq(Nets) /\ Unique(pending')
      /\ ToSet(pending') = ToSet(pending) \cup F
  <2>1. pending \in Seq(Nets) /\ Unique(pending)
    BY DEF RecordInv, RecordTypes, OneWait
  <2>2. ToSet(pending) \cap ToSet(fresh) = {}
    BY <1>3, <1>4 DEF InFlight
  <2>3. QED
    BY <2>1, <2>2, <1>1, <1>3, JoinUnique
<1>6. commands' \in Seq(Nets)
  BY <1>1, <1>3 DEF OutsideTypes
<1>7. RecordTypes'
  <2>1. watchdog' \in [Nets -> BOOLEAN] /\ retry' \in [Nets -> BOOLEAN]
    BY <1>1, <1>2 DEF RecordInv, RecordTypes
  <2>2. status' \in [Nets -> {"none", "discovering", "ok", "paused"}]
    BY <1>2 DEF RecordInv, RecordTypes
  <2>3. QED
    BY <2>1, <2>2, <1>2, <1>5 DEF RecordInv, RecordTypes
<1>8. OneWait'
  <2>1. session'.net \notin ToSet(pending')
    BY <1>2, <1>4, <1>5 DEF RecordInv, OneWait, InFlight
  <2>2. ASSUME NEW m \in Nets, retry'[m] PROVE ~InFlight(m)'
    <3>1. retry[m] /\ m \notin ns
      BY <2>2, <1>2
    <3>2. ~InFlight(m)
      BY <3>1 DEF RecordInv, OneWait
    <3>3. QED
      BY <3>1, <3>2, <1>2, <1>4, <1>5 DEF InFlight
  <2>3. QED
    BY <2>1, <2>2, <1>5 DEF OneWait
<1>9. Watched'
  BY <1>1, <1>2, <1>3, <1>5 DEF RecordInv, Watched
<1>10. SensorHonest'
  <2> SUFFICES ASSUME NEW m \in Networks, status'[m] \in {"ok", "paused"}
               PROVE  ~InFlight(m)' /\ ~retry'[m]
    BY DEF SensorHonest
  <2>1. m \in Nets /\ m \notin ns /\ status[m] \in {"ok", "paused"}
    BY <1>2, NetsNames
  <2>2. ~InFlight(m) /\ ~retry[m]
    BY <2>1 DEF RecordInv, SensorHonest
  <2>3. QED
    BY <2>1, <2>2, <1>2, <1>4, <1>5 DEF InFlight
<1>11. DeadlineHasSession'
  BY <1>2 DEF RecordInv, DeadlineHasSession
<1>12. QED
  BY <1>6, <1>7, <1>8, <1>9, <1>10, <1>11 DEF RecordInv

\* Accepting the tree of the session that has just ended keeps the invariant.
LEMMA AcceptKeeps ==
  ASSUME OutsideTypes, RecordInv, ~stopped, NEW tree \in Networks,
         NEW unsynced \in BOOLEAN, NEW unchanged \in BOOLEAN,
         session.net \in Networks, session' = NoSession,
         Accept(session.net, tree, unsynced, unchanged)
  PROVE  RecordInv'
<1> DEFINE n == session.net
<1>1. n \in Nets /\ n \notin ToSet(pending)
  BY NetsNames DEF RecordInv, OneWait
<1>2. /\ attempts' = [attempts EXCEPT ![n] = 0]
      /\ watchdog' = [watchdog EXCEPT ![n] = FALSE]
      /\ retry' = [retry EXCEPT ![n] = FALSE]
      /\ entities' = [entities EXCEPT ![n] = tree]
      /\ status' = [status EXCEPT ![n] = "ok"]
      /\ deadline' = FALSE /\ UNCHANGED <<pending, stopped>>
  BY DEF Accept, Disarm
<1>3. resyncs' \in [Nets -> 0..MaxResyncs] /\ resyncTimer' \in [Nets -> BOOLEAN]
  <2>1. \/ /\ resyncs[n] < MaxResyncs
           /\ resyncs' = [resyncs EXCEPT ![n] = @ + 1]
           /\ resyncTimer' = [resyncTimer EXCEPT ![n] = TRUE]
        \/ /\ resyncs' = [resyncs EXCEPT ![n] = 0]
           /\ resyncTimer' = [resyncTimer EXCEPT ![n] = FALSE]
    BY DEF Accept
  <2>2. 0 \in 0..MaxResyncs /\ (resyncs[n] < MaxResyncs => resyncs[n] + 1 \in 0..MaxResyncs)
    BY <1>1, LimitsAssumption DEF LimitsAssumption, RecordInv, RecordTypes
  <2>3. QED
    BY <1>1, <2>1, <2>2, ZenonT(60) DEF RecordInv, RecordTypes
<1>4. attempts' \in [Nets -> 0..MaxAttempts]
  <2>1. 0 \in 0..MaxAttempts
    BY LimitsAssumption DEF LimitsAssumption
  <2>2. QED
    BY <2>1, <1>2 DEF RecordInv, RecordTypes
<1>5. RecordTypes'
  BY <1>1, <1>2, <1>3, <1>4 DEF RecordInv, RecordTypes
<1>6. session'.net = None /\ None \notin Nets
  BY NetsNames DEF NoSession
<1>7. None \notin ToSet(pending)
  BY <1>6 DEF RecordInv, RecordTypes, ToSet
<1> HIDE DEF n
<1>8. OneWait'
  BY <1>1, <1>2, <1>6, <1>7 DEF RecordInv, RecordTypes, OneWait, InFlight
<1>9. Watched'
  BY <1>1, <1>2 DEF RecordInv, RecordTypes, Watched
<1>10. SensorHonest'
  <2> SUFFICES ASSUME NEW m \in Networks, status'[m] \in {"ok", "paused"}
               PROVE  ~InFlight(m)' /\ ~retry'[m]
    BY DEF SensorHonest
  <2>1. m \in Nets
    BY NetsNames
  <2>2. CASE m = n
    BY <2>1, <2>2, <1>1, <1>2, <1>6 DEF InFlight, RecordInv, RecordTypes
  <2>3. CASE m # n
    <3>1. ~InFlight(m) /\ ~retry[m]
      BY <2>1, <2>3, <1>2 DEF RecordInv, RecordTypes, SensorHonest
    <3>2. QED
      BY <3>1, <2>1, <2>3, <1>2, <1>6 DEF InFlight, RecordInv, RecordTypes
  <2>4. QED
    BY <2>2, <2>3
<1>11. DeadlineHasSession'
  BY <1>2 DEF DeadlineHasSession
<1>12. QED
  BY <1>5, <1>8, <1>9, <1>10, <1>11 DEF RecordInv

-----------------------------------------------------------------------------
(* The steps *)

\* The invariant of the next state, from its parts.
LEMMA NextParts == OutsideTypes' /\ RecordInv' /\ StreamsRequested' => TreeInv'
BY DEF TreeInv, RecordInv, TypeOK, OutsideTypes, RecordTypes, Session

\* What an action that leaves the records of the program alone keeps.
LEMMA RecordsAlone ==
  ASSUME RecordInv, UNCHANGED <<fetching, counters, resync, shown, stopped>>
  PROVE  RecordInv'
<1>1. RecordTypes' /\ DeadlineHasSession'
  BY DEF RecordInv, RecordTypes, DeadlineHasSession, fetching, counters, resync, shown
<1>2. OneWait' /\ Watched' /\ SensorHonest'
  BY DEF RecordInv, OneWait, Watched, SensorHonest, InFlight, fetching, counters, resync, shown
<1>3. QED
  BY <1>1, <1>2 DEF RecordInv

\* A timer keeps the invariant.
LEMMA TimerKeeps ==
  ASSUME TreeInv, NEW n \in Nets, Timer(n)
  PROVE  TreeInv'
<1>1. OutsideTypes /\ RecordInv /\ StreamsRequested
  BY InvParts
<1>2. CASE WatchdogFires(n)
  <2>1. ~stopped /\ watchdog[n] /\ session' = session /\ Fail(n, Disarm(n), deadline)
        /\ UNCHANGED <<commands, requests, stream, nudges>>
    BY <1>2 DEF WatchdogFires, cgate
  <2>2. n \in ToSet(pending) /\ InFlight(n) /\ session.net # n
    BY <1>1, <2>1 DEF RecordInv, Watched, OneWait, InFlight
  <2>3. /\ Disarm(n) \in [Nets -> BOOLEAN]
        /\ \A m \in Nets : Disarm(n)[m] <=> m \in ToSet(pending) \ {n}
    BY <1>1, <2>1 DEF Disarm, RecordInv, RecordTypes, Watched
  <2>4. deadline \in BOOLEAN /\ (deadline => session'.net \in Nets)
    BY <1>1, <2>1 DEF RecordInv, RecordTypes, DeadlineHasSession
  <2>5. RecordInv'
    BY <1>1, <2>1, <2>2, <2>3, <2>4, FailKeeps
  <2>6. OutsideTypes' /\ StreamsRequested'
    BY <1>1, <2>1 DEF OutsideTypes, StreamsRequested
  <2>7. QED
    BY <2>5, <2>6, NextParts
<1>3. CASE RetryFires(n)
  <2>1. /\ ~stopped /\ QueueTreeRequests({n}) /\ UNCHANGED <<resyncs, resyncTimer, nudges>>
        /\ UNCHANGED <<session, requests, stream>>
    BY <1>3 DEF RetryFires, resync, QueueTreeRequests
  <2>2. resyncs' \in [Nets -> 0..MaxResyncs] /\ resyncTimer' \in [Nets -> BOOLEAN]
    BY <1>1, <2>1 DEF RecordInv, RecordTypes
  <2>3. IsFiniteSet({n}) /\ {n} \in SUBSET Nets
    BY FS_Singleton
  <2>4. RecordInv' /\ commands' \in Seq(Nets)
    BY <1>1, <2>1, <2>2, <2>3, QueueKeeps
  <2>5. OutsideTypes' /\ StreamsRequested'
    BY <1>1, <2>1, <2>4 DEF OutsideTypes, StreamsRequested
  <2>6. QED
    BY <2>4, <2>5, NextParts
<1>4. CASE ResyncFires(n)
  <2>1. /\ ~stopped /\ QueueTreeRequests({n}) /\ UNCHANGED <<resyncs, nudges>>
        /\ resyncTimer' = [resyncTimer EXCEPT ![n] = FALSE]
        /\ UNCHANGED <<session, requests, stream>>
    BY <1>4 DEF ResyncFires, QueueTreeRequests
  <2>2. resyncs' \in [Nets -> 0..MaxResyncs] /\ resyncTimer' \in [Nets -> BOOLEAN]
    BY <1>1, <2>1 DEF RecordInv, RecordTypes
  <2>3. IsFiniteSet({n}) /\ {n} \in SUBSET Nets
    BY FS_Singleton
  <2>4. RecordInv' /\ commands' \in Seq(Nets)
    BY <1>1, <2>1, <2>2, <2>3, QueueKeeps
  <2>5. OutsideTypes' /\ StreamsRequested'
    BY <1>1, <2>1, <2>4 DEF OutsideTypes, StreamsRequested
  <2>6. QED
    BY <2>4, <2>5, NextParts
<1>5. QED
  BY <1>2, <1>3, <1>4 DEF Timer

\* The deadline of the stream keeps the invariant.
LEMMA DeadlineKeeps ==
  ASSUME TreeInv, DeadlineFires
  PROVE  TreeInv'
<1>1. OutsideTypes /\ RecordInv /\ StreamsRequested
  BY InvParts
<1>2. /\ ~stopped /\ deadline /\ session' = NoSession
      /\ Fail(session.net, watchdog, FALSE)
      /\ UNCHANGED <<commands, requests, stream, nudges>>
  BY DEF DeadlineFires, cgate
<1>3. session.net \in Nets /\ InFlight(session.net) /\ session.net \notin ToSet(pending)
  BY <1>1, <1>2 DEF RecordInv, DeadlineHasSession, OneWait, InFlight
<1>4. session'.net = None /\ None # session.net
  BY <1>2, <1>3, NetsNames DEF NoSession
<1>5. /\ watchdog \in [Nets -> BOOLEAN]
      /\ \A m \in Nets : watchdog[m] <=> m \in ToSet(pending) \ {session.net}
  BY <1>1, <1>2, <1>3 DEF RecordInv, RecordTypes, Watched
<1>6. RecordInv'
  BY <1>1, <1>2, <1>3, <1>4, <1>5, FailKeeps
<1>7. OutsideTypes' /\ StreamsRequested'
  BY <1>1, <1>2, NetsNames DEF OutsideTypes, StreamsRequested
<1>8. QED
  BY <1>6, <1>7, NextParts

\* A line from C-Gate keeps the invariant.
LEMMA LineKeeps ==
  ASSUME TreeInv, NEW c \in Conns, Line(c)
  PROVE  TreeInv'
<1>1. OutsideTypes /\ RecordInv /\ StreamsRequested
  BY InvParts
<1>2. /\ requests \in [Conns -> Seq(Nets)]
      /\ stream \in [Conns -> {"idle", "started", "sent"}] /\ commands \in Seq(Nets)
      /\ session \in Session /\ nudges \in 0..MaxNudges
  BY <1>1 DEF OutsideTypes
<1>3. CASE TreeStart(c)
  <2>1. /\ ~stopped /\ requests[c] # <<>> /\ Head(requests[c]) # Unknown
        /\ stream' = [stream EXCEPT ![c] = "started"]
        /\ Start(<<>>) /\ UNCHANGED <<commands, requests, nudges>>
    BY <1>3 DEF TreeStart, Answers
  <2>2. <<>> \in Seq(Networks)
    OBVIOUS
  <2>3. RecordInv' /\ session' \in Session
    BY <1>1, <2>1, <2>2, StartKeeps
  <2>4. Head(requests[c]) \in Networks
    <3>1. Head(requests[c]) \in Nets
      BY <1>2, <2>1
    <3>2. QED
      BY <2>1, <3>1 DEF Nets
  <2>5. OutsideTypes' /\ StreamsRequested'
    BY <1>1, <1>2, <2>1, <2>3, <2>4 DEF OutsideTypes, StreamsRequested
  <2>6. QED
    BY <2>3, <2>5, NextParts
<1>4. CASE TreeData(c)
  <2>1. /\ ~stopped /\ stream[c] = "started" /\ stream' = [stream EXCEPT ![c] = "sent"]
        /\ UNCHANGED <<commands, requests, nudges>>
    BY <1>4 DEF TreeData
  <2>2. requests[c] # <<>> /\ Head(requests[c]) \in Networks
    BY <1>1, <2>1 DEF StreamsRequested
  <2>3. RecordInv' /\ session' \in Session
    <3>1. CASE session.net = None
      <4>1. Start(<<Head(requests[c])>>) /\ <<Head(requests[c])>> \in Seq(Networks)
        BY <1>4, <2>2, <3>1 DEF TreeData
      <4>2. QED
        BY <1>1, <2>1, <4>1, StartKeeps
    <3>2. CASE session.net # None
      <4>1. /\ session' = [session EXCEPT !.trees = Append(@, Head(requests[c]))]
            /\ deadline' = TRUE
            /\ UNCHANGED <<pending, attempts, watchdog, retry, resyncs, resyncTimer, status, entities, stopped>>
        BY <1>4, <3>2 DEF TreeData, counters, resync, shown
      <4>2. session' \in Session /\ session'.net = session.net /\ session.net \in Nets
        <5>1. session.net \in Nets /\ session.trees \in Seq(Networks)
          BY <1>2, <3>2 DEF Session
        <5>2. Append(session.trees, Head(requests[c])) \in Seq(Networks)
          BY <5>1, <2>2
        <5>3. QED
          BY <1>2, <4>1, <5>1, <5>2 DEF Session
      <4>3. RecordTypes' /\ DeadlineHasSession'
        BY <1>1, <2>1, <4>1, <4>2 DEF RecordInv, RecordTypes, DeadlineHasSession
      <4>4. OneWait' /\ Watched' /\ SensorHonest'
        BY <1>1, <4>1, <4>2 DEF RecordInv, OneWait, Watched, SensorHonest, InFlight
      <4>5. QED
        BY <4>2, <4>3, <4>4 DEF RecordInv
    <3>3. QED
      BY <3>1, <3>2
  <2>4. OutsideTypes' /\ StreamsRequested'
    BY <1>1, <1>2, <2>1, <2>2, <2>3 DEF OutsideTypes, StreamsRequested
  <2>5. QED
    BY <2>3, <2>4, NextParts
<1>5. CASE TreeEnd(c)
  <2>1. /\ ~stopped /\ stream[c] # "idle" /\ stream' = [stream EXCEPT ![c] = "idle"]
        /\ requests' = [requests EXCEPT ![c] = Tail(@)] /\ session' = NoSession
        /\ UNCHANGED <<commands, nudges>>
    BY <1>5 DEF TreeEnd
  <2>2. session'.net = None /\ None \notin Nets /\ None \notin ToSet(pending)
    BY <1>1, <2>1, NetsNames DEF NoSession, RecordInv, RecordTypes, ToSet
  <2>3. RecordInv'
    <3>1. CASE session.net \in Networks /\ session.trees # <<>>
      <4>1. ParseTree(session.net, session.trees)
        BY <1>5, <3>1 DEF TreeEnd
      <4>2. PICK readable \in BOOLEAN, synced \in BOOLEAN, unsynced \in BOOLEAN, unchanged \in BOOLEAN :
              IF Len(session.trees) = 1 /\ readable /\ synced /\ HasDataOf(session.trees[1], session.net)
                THEN Accept(session.net, session.trees[1], unsynced, unchanged)
                ELSE Fail(session.net, watchdog, FALSE)
        BY <4>1 DEF ParseTree
      <4>3. CASE Len(session.trees) = 1 /\ Accept(session.net, session.trees[1], unsynced, unchanged)
        <5>1. session.trees \in Seq(Networks)
          BY <1>2 DEF Session
        <5>2. session.trees[1] \in Networks
          BY <5>1, <4>3
        <5>3. QED
          BY <1>1, <2>1, <3>1, <4>3, <5>2, AcceptKeeps
      <4>4. CASE Fail(session.net, watchdog, FALSE)
        <5>1. session.net \in Nets /\ InFlight(session.net) /\ session.net \notin ToSet(pending)
          BY <1>1, <3>1, NetsNames DEF RecordInv, OneWait, InFlight
        <5>2. /\ watchdog \in [Nets -> BOOLEAN]
              /\ \A m \in Nets : watchdog[m] <=> m \in ToSet(pending) \ {session.net}
          BY <1>1, <2>1, <5>1 DEF RecordInv, RecordTypes, Watched
        <5>3. QED
          BY <1>1, <2>1, <2>2, <4>4, <5>1, <5>2, FailKeeps
      <4>5. QED
        BY <4>2, <4>3, <4>4
    <3>2. CASE ~(session.net \in Networks /\ session.trees # <<>>)
      <4>1. /\ deadline' = FALSE
            /\ UNCHANGED <<pending, attempts, watchdog, retry, resyncs, resyncTimer, status, entities, stopped>>
        BY <1>5, <3>2 DEF TreeEnd, counters, resync, shown
      <4>2. RecordTypes' /\ DeadlineHasSession'
        BY <1>1, <4>1 DEF RecordInv, RecordTypes, DeadlineHasSession
      <4>3. \A m \in Nets : InFlight(m)' => InFlight(m)
        BY <2>2, <4>1 DEF InFlight
      <4>4. OneWait'
        BY <1>1, <2>2, <4>1, <4>3 DEF RecordInv, OneWait
      <4>5. Watched' /\ SensorHonest'
        BY <1>1, <4>1, <4>3, NetsNames DEF RecordInv, Watched, SensorHonest
      <4>6. QED
        BY <4>2, <4>4, <4>5 DEF RecordInv
    <3>3. QED
      BY <3>1, <3>2
  <2>4. requests[c] # <<>> /\ requests[c] \in Seq(Nets)
    BY <1>1, <1>2, <2>1 DEF StreamsRequested
  <2>5. OutsideTypes' /\ StreamsRequested'
    BY <1>1, <1>2, <2>1, <2>4, NetsNames DEF OutsideTypes, StreamsRequested
  <2>6. QED
    BY <2>3, <2>5, NextParts
<1>6. CASE NotFound(c)
  <2>1. /\ ~stopped /\ requests[c] # <<>> /\ stream[c] = "idle"
        /\ requests' = [requests EXCEPT ![c] = Tail(@)]
        /\ UNCHANGED <<session, commands, stream, nudges>>
    BY <1>6 DEF NotFound, Answers
  <2>2. RecordInv'
    <3>1. CASE pending = <<>>
      BY <1>1, <1>6, <2>1, <3>1, RecordsAlone DEF NotFound, fetching
    <3>2. CASE pending # <<>>
      <4>1. Fail(Head(pending), Disarm(Head(pending)), deadline)
        BY <1>6, <3>2 DEF NotFound
      <4>2. pending \in Seq(Nets) /\ Unique(pending)
        BY <1>1 DEF RecordInv, RecordTypes, OneWait
      <4>3. Head(pending) \in Nets /\ Head(pending) \in ToSet(pending)
        BY <3>2, <4>2, TailUnique
      <4>4. InFlight(Head(pending)) /\ session.net # Head(pending)
        BY <1>1, <4>3 DEF RecordInv, OneWait, InFlight
      <4>5. /\ Disarm(Head(pending)) \in [Nets -> BOOLEAN]
            /\ \A m \in Nets : Disarm(Head(pending))[m] <=> m \in ToSet(pending) \ {Head(pending)}
        BY <1>1, <2>1, <4>3 DEF Disarm, RecordInv, RecordTypes, Watched
      <4>6. deadline \in BOOLEAN /\ (deadline => session'.net \in Nets)
        BY <1>1, <2>1 DEF RecordInv, RecordTypes, DeadlineHasSession
      <4>7. QED
        BY <1>1, <2>1, <4>1, <4>3, <4>4, <4>5, <4>6, FailKeeps
    <3>3. QED
      BY <3>1, <3>2
  <2>3. OutsideTypes' /\ StreamsRequested'
    BY <1>1, <1>2, <2>1 DEF OutsideTypes, StreamsRequested
  <2>4. QED
    BY <2>2, <2>3, NextParts
<1>7. QED
  BY <1>3, <1>4, <1>5, <1>6 DEF Line

\* The command queue hands a request over.
LEMMA SendKeeps ==
  ASSUME TreeInv, NEW c \in Conns, Send(c)
  PROVE  TreeInv'
<1>1. OutsideTypes /\ RecordInv /\ StreamsRequested
  BY InvParts
<1>2. /\ commands # <<>> /\ commands \in Seq(Nets) /\ commands' = Tail(commands)
      /\ requests \in [Conns -> Seq(Nets)]
      /\ requests' = [requests EXCEPT ![c] = Append(@, Head(commands))]
      /\ UNCHANGED <<session, stream, nudges>>
  BY <1>1 DEF Send, OutsideTypes, fetching
<1>3. RecordInv'
  BY <1>1, RecordsAlone DEF Send
<1>4. Head(commands) \in Nets /\ Tail(commands) \in Seq(Nets)
  BY <1>2
<1>5. /\ requests' \in [Conns -> Seq(Nets)]
      /\ \A d \in Conns : requests[d] # <<>> => requests'[d] # <<>> /\ Head(requests'[d]) = Head(requests[d])
  BY <1>2, <1>4, SMTT(40)
<1>6. OutsideTypes' /\ StreamsRequested'
  BY <1>1, <1>2, <1>4, <1>5 DEF OutsideTypes, StreamsRequested
<1>7. QED
  BY <1>3, <1>6, NextParts

\* A connection that breaks keeps the invariant.
LEMMA LossKeeps ==
  ASSUME TreeInv, NEW c \in Conns, ConnectionLost(c)
  PROVE  TreeInv'
<1>1. OutsideTypes /\ RecordInv /\ StreamsRequested
  BY InvParts
<1>2. /\ requests' = [requests EXCEPT ![c] = <<>>] /\ stream' = [stream EXCEPT ![c] = "idle"]
      /\ UNCHANGED <<session, commands, nudges>>
  BY DEF ConnectionLost, fetching
<1>3. RecordInv'
  BY <1>1, RecordsAlone DEF ConnectionLost
<1>4. OutsideTypes' /\ StreamsRequested'
  BY <1>1, <1>2 DEF OutsideTypes, StreamsRequested
<1>5. QED
  BY <1>3, <1>4, NextParts

\* A request or a "network synced" keeps the invariant.
LEMMA NudgeKeeps ==
  ASSUME TreeInv, NEW ns \in SUBSET Networks, Nudge, QueueTreeRequests(ns),
         resyncs' \in [Nets -> 0..MaxResyncs], resyncTimer' \in [Nets -> BOOLEAN]
  PROVE  TreeInv'
<1>1. OutsideTypes /\ RecordInv /\ StreamsRequested
  BY InvParts
<1>2. /\ ~stopped /\ nudges < MaxNudges /\ nudges' = nudges + 1
      /\ UNCHANGED <<session, requests, stream>>
  BY DEF Nudge, QueueTreeRequests
<1>3. IsFiniteSet(ns) /\ ns \in SUBSET Nets
  BY FS_Subset, NetworksAssumption, NetsNames
<1>4. RecordInv' /\ commands' \in Seq(Nets)
  BY <1>1, <1>2, <1>3, QueueKeeps
<1>5. nudges' \in 0..MaxNudges
  BY <1>1, <1>2, EnvironmentAssumption DEF OutsideTypes, EnvironmentAssumption
<1>6. OutsideTypes' /\ StreamsRequested'
  BY <1>1, <1>2, <1>4, <1>5 DEF OutsideTypes, StreamsRequested
<1>7. QED
  BY <1>4, <1>6, NextParts

\* The removal of a network keeps the invariant, even in the middle of its stream.
LEMMA RemovalKeeps ==
  ASSUME TreeInv, NEW n \in Networks, NetworkRemoved(n)
  PROVE  TreeInv'
<1>1. OutsideTypes /\ RecordInv /\ StreamsRequested
  BY InvParts
<1>2. /\ ~stopped /\ nudges < MaxNudges /\ nudges' = nudges + 1
      /\ attempts' = [attempts EXCEPT ![n] = 0]
      /\ watchdog' = [watchdog EXCEPT ![n] = FALSE]
      /\ retry' = [retry EXCEPT ![n] = FALSE]
      /\ deadline' = (deadline /\ session.net # n)
      /\ resyncs' = [resyncs EXCEPT ![n] = 0]
      /\ resyncTimer' = [resyncTimer EXCEPT ![n] = FALSE]
      /\ pending' = Without(pending, n)
      /\ entities' = [entities EXCEPT ![n] = None]
      /\ status' = [status EXCEPT ![n] = "none"]
      /\ UNCHANGED <<session, stopped, commands, requests, stream>>
  BY DEF NetworkRemoved, Nudge, Disarm, cgate
<1>3. /\ pending' \in Seq(Nets) /\ Unique(pending')
      /\ ToSet(pending') = ToSet(pending) \ {n} /\ n \in Nets
  <2>1. pending \in Seq(Nets) /\ Unique(pending)
    BY <1>1 DEF RecordInv, RecordTypes, OneWait
  <2>2. QED
    BY <2>1, <1>2, WithoutUnique, NetsNames
<1>4. \A m \in Nets : InFlight(m)' => InFlight(m)
  BY <1>2, <1>3 DEF InFlight
<1>5. RecordTypes'
  <2>1. 0 \in 0..MaxAttempts /\ 0 \in 0..MaxResyncs
    BY LimitsAssumption DEF LimitsAssumption
  <2>2. attempts' \in [Nets -> 0..MaxAttempts] /\ resyncs' \in [Nets -> 0..MaxResyncs]
    BY <1>1, <1>2, <2>1 DEF RecordInv, RecordTypes
  <2>3. /\ deadline' \in BOOLEAN /\ watchdog' \in [Nets -> BOOLEAN]
        /\ retry' \in [Nets -> BOOLEAN] /\ resyncTimer' \in [Nets -> BOOLEAN]
    BY <1>1, <1>2 DEF RecordInv, RecordTypes
  <2>4. /\ status' \in [Nets -> {"none", "discovering", "ok", "paused"}]
        /\ entities' \in [Nets -> Networks \cup {None}] /\ stopped' \in BOOLEAN
    BY <1>1, <1>2 DEF RecordInv, RecordTypes
  <2>5. QED
    BY <1>3, <2>2, <2>3, <2>4 DEF RecordTypes
<1>6. OneWait'
  <2>1. ASSUME NEW m \in Nets, retry'[m] PROVE ~InFlight(m)'
    <3>1. retry[m]
      BY <2>1, <1>1, <1>2 DEF RecordInv, RecordTypes
    <3>2. QED
      BY <3>1, <1>1, <1>4 DEF RecordInv, OneWait
  <2>2. session'.net \notin ToSet(pending')
    BY <1>1, <1>2, <1>3 DEF RecordInv, OneWait
  <2>3. QED
    BY <2>1, <2>2, <1>3 DEF OneWait
<1>7. Watched'
  BY <1>1, <1>2, <1>3 DEF RecordInv, RecordTypes, Watched
<1>8. SensorHonest'
  <2> SUFFICES ASSUME NEW m \in Networks, status'[m] \in {"ok", "paused"}
               PROVE  ~InFlight(m)' /\ ~retry'[m]
    BY DEF SensorHonest
  <2>1. m \in Nets /\ m # n /\ status[m] \in {"ok", "paused"}
    BY <1>1, <1>2, NetsNames DEF RecordInv, RecordTypes
  <2>2. ~InFlight(m) /\ ~retry[m]
    BY <1>1, <2>1 DEF RecordInv, SensorHonest
  <2>3. ~retry'[m]
    BY <1>1, <1>2, <2>1, <2>2 DEF RecordInv, RecordTypes
  <2>4. QED
    BY <2>1, <2>2, <2>3, <1>4
<1>9. DeadlineHasSession'
  BY <1>1, <1>2 DEF RecordInv, DeadlineHasSession
<1>10. nudges' \in 0..MaxNudges
  BY <1>1, <1>2, EnvironmentAssumption DEF OutsideTypes, EnvironmentAssumption
<1>11. OutsideTypes' /\ StreamsRequested'
  BY <1>1, <1>2, <1>10 DEF OutsideTypes, StreamsRequested
<1>12. QED
  BY <1>5, <1>6, <1>7, <1>8, <1>9, <1>11, NextParts DEF RecordInv

\* stop() keeps the invariant.
LEMMA StopKeeps ==
  ASSUME TreeInv, Stop
  PROVE  TreeInv'
<1>1. OutsideTypes /\ RecordInv /\ StreamsRequested
  BY InvParts
<1>2. /\ stopped' = TRUE /\ deadline' = FALSE
      /\ attempts' = [n \in Nets |-> 0]
      /\ watchdog' = [n \in Nets |-> FALSE]
      /\ retry' = [n \in Nets |-> FALSE]
      /\ resyncs' = [n \in Nets |-> 0]
      /\ resyncTimer' = [n \in Nets |-> FALSE]
      /\ status' = [n \in Nets |-> "none"]
      /\ UNCHANGED <<pending, session, entities, commands, requests, stream, nudges>>
  BY DEF Stop, ClearTimers, cgate
<1>3. RecordTypes'
  <2>1. 0 \in 0..MaxAttempts /\ 0 \in 0..MaxResyncs
    BY LimitsAssumption DEF LimitsAssumption
  <2>2. attempts' \in [Nets -> 0..MaxAttempts] /\ resyncs' \in [Nets -> 0..MaxResyncs]
    BY <1>2, <2>1
  <2>3. /\ deadline' \in BOOLEAN /\ watchdog' \in [Nets -> BOOLEAN]
        /\ retry' \in [Nets -> BOOLEAN] /\ resyncTimer' \in [Nets -> BOOLEAN]
    BY <1>2
  <2>4. /\ status' \in [Nets -> {"none", "discovering", "ok", "paused"}]
        /\ entities' \in [Nets -> Networks \cup {None}]
        /\ stopped' \in BOOLEAN /\ pending' \in Seq(Nets)
    BY <1>1, <1>2 DEF RecordInv, RecordTypes
  <2>5. QED
    BY <2>2, <2>3, <2>4 DEF RecordTypes
<1>4. OneWait' /\ Watched' /\ DeadlineHasSession'
  BY <1>1, <1>2 DEF RecordInv, OneWait, Watched, DeadlineHasSession
<1>5. SensorHonest'
  BY <1>2, NetsNames DEF SensorHonest
<1>6. OutsideTypes' /\ StreamsRequested'
  BY <1>1, <1>2 DEF OutsideTypes, StreamsRequested
<1>7. QED
  BY <1>3, <1>4, <1>5, <1>6, NextParts DEF RecordInv

\* Every step keeps the invariant.
LEMMA TreeStep == TreeInv /\ [Next]_vars => TreeInv'
<1> SUFFICES ASSUME TreeInv, [Next]_vars PROVE TreeInv'
  OBVIOUS
<1>1. OutsideTypes /\ RecordInv /\ StreamsRequested
  BY InvParts
<1>2. ASSUME NEW n \in Nets, Timer(n) PROVE TreeInv'
  BY <1>2, TimerKeeps
<1>3. ASSUME NEW c \in Conns, Send(c) PROVE TreeInv'
  BY <1>3, SendKeeps
<1>4. ASSUME NEW c \in Conns, Line(c) PROVE TreeInv'
  BY <1>4, LineKeeps
<1>5. ASSUME NEW c \in Conns, ConnectionLost(c) PROVE TreeInv'
  BY <1>5, LossKeeps
<1>6. ASSUME NEW n \in Networks, Event(n) PROVE TreeInv'
  <2>1. n \in Nets /\ {n} \in SUBSET Networks
    BY NetsNames
  <2>2. CASE TreeRequested(n)
    <3>1. Nudge /\ QueueTreeRequests({n}) /\ UNCHANGED <<resyncs, resyncTimer>>
      BY <2>2 DEF TreeRequested, resync
    <3>2. resyncs' \in [Nets -> 0..MaxResyncs] /\ resyncTimer' \in [Nets -> BOOLEAN]
      BY <1>1, <3>1 DEF RecordInv, RecordTypes
    <3>3. QED
      BY <2>1, <3>1, <3>2, NudgeKeeps
  <2>3. CASE NetworkSynced(n)
    <3>1. /\ Nudge /\ QueueTreeRequests({n})
          /\ resyncs' = [resyncs EXCEPT ![n] = 0]
          /\ resyncTimer' = [resyncTimer EXCEPT ![n] = FALSE]
      BY <2>3 DEF NetworkSynced
    <3>2. 0 \in 0..MaxResyncs
      BY LimitsAssumption DEF LimitsAssumption
    <3>3. resyncs' \in [Nets -> 0..MaxResyncs] /\ resyncTimer' \in [Nets -> BOOLEAN]
      BY <1>1, <3>1, <3>2 DEF RecordInv, RecordTypes
    <3>4. QED
      BY <2>1, <3>1, <3>3, NudgeKeeps
  <2>4. CASE NetworkRemoved(n)
    BY <2>4, RemovalKeeps
  <2>5. QED
    BY <1>6, <2>2, <2>3, <2>4 DEF Event
<1>7. ASSUME Trigger PROVE TreeInv'
  <2>1. Nudge /\ QueueTreeRequests(Networks) /\ UNCHANGED <<resyncs, resyncTimer>>
    BY <1>7 DEF Trigger, resync
  <2>2. resyncs' \in [Nets -> 0..MaxResyncs] /\ resyncTimer' \in [Nets -> BOOLEAN]
    BY <1>1, <2>1 DEF RecordInv, RecordTypes
  <2>3. QED
    BY <2>1, <2>2, NudgeKeeps
<1>8. ASSUME UNCHANGED vars PROVE TreeInv'
  <2>1. UNCHANGED <<fetching, counters, resync, shown, stopped, commands, requests, stream, nudges>>
    BY <1>8 DEF vars, cgate
  <2>2. RecordInv'
    BY <1>1, <2>1, RecordsAlone
  <2>3. OutsideTypes' /\ StreamsRequested'
    BY <1>1, <2>1 DEF OutsideTypes, StreamsRequested, fetching
  <2>4. QED
    BY <2>2, <2>3, NextParts
<1>9. QED
  BY <1>2, <1>3, <1>4, <1>5, <1>6, <1>7, <1>8, DeadlineKeeps, StopKeeps DEF Next

-----------------------------------------------------------------------------
(* The theorems *)

\* The inductive invariant holds of every behaviour.
THEOREM TreeInvariant == Spec => []TreeInv
BY TreeInit, TreeStep, PTL DEF Spec

\* The records of the session and of C-Gate keep their types.
THEOREM TreeTypes == Spec => []TypeOK
BY TreeInvariant, PTL DEF TreeInv

\* A network is never fetched twice at once: queued once, or received, or waiting for its
\* retry, for any number of networks and of lost or late answers; a watchdog runs for
\* exactly the queued requests; and the sensor shows ok or paused only of a network with
\* nothing under way or to come (queueTreeRequest's guard, haDiscoveryTreeSession.js:105-107).
THEOREM TreeRecordsAgree == Spec => []RecordsAgree
BY TreeInvariant, PTL DEF TreeInv, RecordsAgree

-----------------------------------------------------------------------------
(* Without overlap nothing is stuck *)

\* C-Gate streams one tree at a time.
NoOverlap == \A c, d \in Conns : stream[c] # "idle" /\ stream[d] # "idle" => c = d

\* A session has its deadline and a stream under way, and holds the data that was sent.
Attended == ~stopped /\ session.net # None => deadline /\ \E c \in Conns : stream[c] # "idle"
Holding  == \A c \in Conns : stream[c] = "sent" /\ session.net # None => session.trees # <<>>

Moving == Attended /\ Holding /\ NotStuck

\* A failure of n leaves no other network without what it waits for.
LEMMA FailUnstuck ==
  ASSUME OutsideTypes, RecordInv, NotStuck,
         NEW n \in Nets, NEW armed \in [Nets -> BOOLEAN], NEW dl \in BOOLEAN,
         \A m \in ToSet(pending) \ {n} : armed[m] <=> watchdog[m],
         \A m \in Networks \ {n} : session.net = m /\ deadline => session'.net = m /\ dl,
         Fail(n, armed, dl)
  PROVE  NotStuck' /\ (session'.net # n /\ dl => deadline')
<1>1. ToSet(pending') = ToSet(pending) \ {n} /\ ToSet(pending) \subseteq Nets
  <2>1. pending' = Without(pending, n) /\ pending \in Seq(Nets) /\ Unique(pending)
    BY DEF Fail, RecordInv, RecordTypes, OneWait
  <2>2. ToSet(pending') = ToSet(pending) \ {n}
    BY <2>1, WithoutUnique
  <2>3. ToSet(pending) \subseteq Nets
    BY <2>1 DEF ToSet
  <2>4. QED
    BY <2>2, <2>3
<1>2. /\ retry \in [Nets -> BOOLEAN]
      /\ status \in [Nets -> {"none", "discovering", "ok", "paused"}]
  BY DEF RecordInv, RecordTypes
<1>3. \/ /\ retry' = [retry EXCEPT ![n] = TRUE] /\ status' = status
         /\ watchdog' = armed /\ deadline' = dl
      \/ /\ retry' = [retry EXCEPT ![n] = FALSE] /\ status' = [status EXCEPT ![n] = "paused"]
         /\ watchdog' = [armed EXCEPT ![n] = FALSE] /\ deadline' = (dl /\ session'.net # n)
  BY DEF Fail
<1>4. ASSUME NEW m \in Networks, status'[m] = "discovering"
      PROVE  (m \in ToSet(pending') /\ watchdog'[m]) \/ (session'.net = m /\ deadline') \/ retry'[m]
  <2>1. m \in Nets
    BY NetsNames
  <2>2. CASE m = n
    BY <1>2, <1>3, <1>4, <2>1, <2>2
  <2>3. CASE m # n
    <3>1. status[m] = "discovering" /\ retry'[m] = retry[m] /\ watchdog'[m] = armed[m]
      BY <1>2, <1>3, <1>4, <2>1, <2>3
    <3>2. (m \in ToSet(pending) /\ watchdog[m]) \/ (session.net = m /\ deadline) \/ retry[m]
      BY <3>1 DEF NotStuck
    <3>3. CASE m \in ToSet(pending) /\ watchdog[m]
      BY <1>1, <2>3, <3>1, <3>3
    <3>4. CASE session.net = m /\ deadline
      BY <1>3, <2>3, <3>4
    <3>5. QED
      BY <3>1, <3>2, <3>3, <3>4
  <2>4. QED
    BY <2>2, <2>3
<1>5. session'.net # n /\ dl => deadline'
  BY <1>3
<1>6. QED
  BY <1>4, <1>5 DEF NotStuck

\* A start line that finds no session leaves no network without what it waits for.
LEMMA StartUnstuck ==
  ASSUME OutsideTypes, RecordInv, NotStuck, session.net = None, NEW trees, Start(trees)
  PROVE  NotStuck' /\ session'.net # None /\ deadline' /\ session'.trees = trees
<1>1. PICK n : n = StreamNetwork
  OBVIOUS
<1>2. /\ pending' = IF pending = <<>> THEN pending ELSE Tail(pending)
      /\ watchdog' = [watchdog EXCEPT ![n] = FALSE]
      /\ retry' = [retry EXCEPT ![n] = FALSE]
      /\ session' = [net |-> n, trees |-> trees] /\ deadline' = TRUE /\ status' = status
  BY <1>1 DEF Start, Disarm, shown
<1>3. /\ n \in Nets /\ ToSet(pending') = ToSet(pending) \ {n}
      /\ ToSet(pending) \subseteq Nets
  <2>1. pending \in Seq(Nets) /\ Unique(pending)
    BY DEF RecordInv, RecordTypes, OneWait
  <2>2. CASE pending = <<>>
    <3>1. n = Unknown /\ pending' = pending
      BY <1>1, <1>2, <2>2 DEF StreamNetwork
    <3>2. ToSet(pending) = {}
      BY <2>2 DEF ToSet
    <3>3. QED
      BY <3>1, <3>2, NetsNames
  <2>3. CASE pending # <<>>
    <3>1. n = Head(pending) /\ pending' = Tail(pending)
      BY <1>1, <1>2, <2>3 DEF StreamNetwork
    <3>2. n \in Nets /\ ToSet(pending') = ToSet(pending) \ {n}
      BY <2>1, <2>3, <3>1, TailUnique
    <3>3. ToSet(pending) \subseteq Nets
      BY <2>1 DEF ToSet
    <3>4. QED
      BY <3>2, <3>3
  <2>4. QED
    BY <2>2, <2>3
<1>4. session'.net = n /\ session'.trees = trees /\ n # None
  BY <1>2, <1>3, NetsNames
<1>5. watchdog \in [Nets -> BOOLEAN] /\ retry \in [Nets -> BOOLEAN]
  BY DEF RecordInv, RecordTypes
<1>6. ASSUME NEW m \in Networks, status'[m] = "discovering"
      PROVE  (m \in ToSet(pending') /\ watchdog'[m]) \/ (session'.net = m /\ deadline') \/ retry'[m]
  <2>1. m \in Nets /\ m # None
    BY NetsNames
  <2>2. (m \in ToSet(pending) /\ watchdog[m]) \/ retry[m]
    BY <1>2, <1>6, <2>1 DEF NotStuck
  <2>3. QED
    BY <1>2, <1>3, <1>4, <1>5, <2>1, <2>2
<1>7. QED
  BY <1>2, <1>4, <1>6 DEF NotStuck

\* Nor do requests: what is in flight already is watched, or received with its deadline.
LEMMA QueueUnstuck ==
  ASSUME OutsideTypes, RecordInv, ~stopped, NotStuck, Attended,
         NEW ns \in SUBSET Nets, IsFiniteSet(ns), QueueTreeRequests(ns)
  PROVE  NotStuck'
<1> DEFINE F == {n \in ns : ~InFlight(n)}
<1>1. PICK fresh \in Orders(F) :
        /\ pending' = pending \o fresh
        /\ watchdog' = [n \in Nets |-> watchdog[n] \/ n \in ToSet(fresh)]
  BY DEF QueueTreeRequests
<1>2. /\ retry' = [n \in Nets |-> retry[n] /\ n \notin ns]
      /\ status' = [n \in Nets |-> IF n \in ns THEN "discovering" ELSE status[n]]
      /\ session' = session /\ deadline' = deadline
  BY DEF QueueTreeRequests, Discovering
<1>3. fresh \in Seq(Nets) /\ Unique(fresh) /\ ToSet(fresh) = F
  <2>1. F \subseteq Nets /\ Cardinality(F) \in Nat
    <3>1. F \subseteq ns /\ IsFiniteSet(F)
      BY FS_Subset
    <3>2. QED
      BY <3>1, FS_CardinalityType
  <2>2. fresh \in [1..Cardinality(F) -> F] /\ Unique(fresh) /\ ToSet(fresh) = F
    BY <1>1 DEF Orders
  <2>3. fresh \in [1..Cardinality(F) -> Nets]
    BY <2>1, <2>2
  <2>4. QED
    BY <2>1, <2>2, <2>3, ListIsSeq
<1>4. \A m \in ns : m \in F \/ InFlight(m)
  OBVIOUS
<1>5. F \subseteq ns /\ \A m \in F : ~InFlight(m)
  OBVIOUS
<1> HIDE DEF F
<1>6. ToSet(pending') = ToSet(pending) \cup F
  <2>1. pending \in Seq(Nets) /\ Unique(pending)
    BY DEF RecordInv, RecordTypes, OneWait
  <2>2. ToSet(pending) \cap ToSet(fresh) = {}
    BY <1>3, <1>5 DEF InFlight
  <2>3. QED
    BY <2>1, <2>2, <1>1, <1>3, JoinUnique
<1>7. \A m \in Nets : watchdog[m] <=> m \in ToSet(pending)
  BY DEF RecordInv, Watched
<1>8. ASSUME NEW m \in Networks, status'[m] = "discovering"
      PROVE  (m \in ToSet(pending') /\ watchdog'[m]) \/ (session'.net = m /\ deadline') \/ retry'[m]
  <2>1. m \in Nets /\ m # None
    BY NetsNames
  <2>2. CASE m \in ns
    <3>1. m \in F \/ m \in ToSet(pending) \/ (session.net = m /\ deadline)
      BY <1>4, <2>1, <2>2 DEF InFlight, Attended
    <3>2. QED
      BY <1>1, <1>2, <1>3, <1>6, <1>7, <2>1, <3>1
  <2>3. CASE m \notin ns
    <3>1. (m \in ToSet(pending) /\ watchdog[m]) \/ (session.net = m /\ deadline) \/ retry[m]
      BY <1>2, <1>8, <2>1, <2>3 DEF NotStuck
    <3>2. QED
      BY <1>1, <1>2, <1>6, <2>1, <2>3, <3>1
  <2>4. QED
    BY <2>2, <2>3
<1>9. QED
  BY <1>8 DEF NotStuck

\* A timer keeps the networks moving.
LEMMA TimerMoves ==
  ASSUME TreeInv, Moving, NEW n \in Nets, Timer(n)
  PROVE  Moving'
<1>1. OutsideTypes /\ RecordInv
  BY InvParts
<1>2. Attended /\ Holding /\ NotStuck
  BY DEF Moving
<1>3. ~stopped /\ session' = session /\ stream' = stream
  BY DEF Timer, WatchdogFires, RetryFires, ResyncFires, QueueTreeRequests, cgate
<1>4. CASE WatchdogFires(n)
  <2>1. watchdog[n] /\ Fail(n, Disarm(n), deadline)
    BY <1>4 DEF WatchdogFires
  <2>2. /\ watchdog \in [Nets -> BOOLEAN] /\ deadline \in BOOLEAN
        /\ ToSet(pending) \subseteq Nets
    BY <1>1 DEF RecordInv, RecordTypes, ToSet
  <2>3. /\ Disarm(n) \in [Nets -> BOOLEAN]
        /\ \A m \in ToSet(pending) \ {n} : Disarm(n)[m] <=> watchdog[m]
    BY <2>2 DEF Disarm
  <2>4. session.net # n
    BY <1>1, <1>3, <2>1 DEF RecordInv, Watched, OneWait
  <2>5. NotStuck' /\ (session'.net # n /\ deadline => deadline')
    BY <1>1, <1>2, <1>3, <2>1, <2>2, <2>3, FailUnstuck
  <2>6. Attended' /\ Holding'
    BY <1>2, <1>3, <2>4, <2>5 DEF Attended, Holding
  <2>7. QED
    BY <2>5, <2>6 DEF Moving
<1>5. CASE RetryFires(n) \/ ResyncFires(n)
  <2>1. QueueTreeRequests({n}) /\ deadline' = deadline
    BY <1>5 DEF RetryFires, ResyncFires, QueueTreeRequests
  <2>2. IsFiniteSet({n}) /\ {n} \in SUBSET Nets
    BY FS_Singleton
  <2>3. NotStuck'
    BY <1>1, <1>2, <1>3, <2>1, <2>2, QueueUnstuck
  <2>4. Attended' /\ Holding'
    BY <1>2, <1>3, <2>1 DEF Attended, Holding
  <2>5. QED
    BY <2>3, <2>4 DEF Moving
<1>6. QED
  BY <1>4, <1>5 DEF Timer

\* So does the deadline of the stream.
LEMMA DeadlineMoves ==
  ASSUME TreeInv, Moving, DeadlineFires
  PROVE  Moving'
<1>1. OutsideTypes /\ RecordInv
  BY InvParts
<1>2. Attended /\ Holding /\ NotStuck
  BY DEF Moving
<1>3. /\ ~stopped /\ deadline /\ session' = NoSession /\ session.net \in Nets
      /\ Fail(session.net, watchdog, FALSE)
  BY <1>1 DEF DeadlineFires, RecordInv, DeadlineHasSession
<1>4. watchdog \in [Nets -> BOOLEAN] /\ session'.net = None
  BY <1>1, <1>3 DEF RecordInv, RecordTypes, NoSession
<1>5. NotStuck'
  BY <1>1, <1>2, <1>3, <1>4, FailUnstuck
<1>6. Attended' /\ Holding'
  BY <1>4 DEF Attended, Holding
<1>7. QED
  BY <1>5, <1>6 DEF Moving

\* A start line finds no session, since no other stream is under way.
LEMMA StartMoves ==
  ASSUME TreeInv, Moving, NoOverlap', NEW c \in Conns, TreeStart(c)
  PROVE  Moving'
<1>1. OutsideTypes /\ RecordInv
  BY InvParts
<1>2. Attended /\ Holding /\ NotStuck
  BY DEF Moving
<1>3. /\ ~stopped /\ stream[c] = "idle" /\ stream' = [stream EXCEPT ![c] = "started"]
      /\ stream \in [Conns -> {"idle", "started", "sent"}] /\ Start(<<>>)
  BY <1>1 DEF TreeStart, Answers, OutsideTypes
<1>4. \A d \in Conns : stream[d] = "idle"
  BY <1>3 DEF NoOverlap
<1>5. session.net = None
  BY <1>2, <1>3, <1>4 DEF Attended
<1>6. NotStuck' /\ deadline'
  BY <1>1, <1>2, <1>3, <1>5, StartUnstuck
<1>7. stream'[c] # "idle" /\ \A d \in Conns : stream'[d] # "sent"
  BY <1>3, <1>4
<1>8. Attended' /\ Holding'
  BY <1>6, <1>7 DEF Attended, Holding
<1>9. QED
  BY <1>6, <1>8 DEF Moving

\* The data of a stream goes to its session, or to a new one.
LEMMA DataMoves ==
  ASSUME TreeInv, Moving, NoOverlap, NEW c \in Conns, TreeData(c)
  PROVE  Moving'
<1>1. OutsideTypes /\ RecordInv
  BY InvParts
<1>2. Attended /\ Holding /\ NotStuck
  BY DEF Moving
<1>3. /\ ~stopped /\ stream[c] = "started" /\ stream' = [stream EXCEPT ![c] = "sent"]
      /\ stream \in [Conns -> {"idle", "started", "sent"}]
      /\ requests[c] \in Seq(Nets) /\ session \in Session
  BY <1>1 DEF TreeData, OutsideTypes
<1>4. stream'[c] = "sent" /\ stream'[c] # "idle"
  BY <1>3
<1>5. CASE session.net = None
  <2>1. PICK trees : trees = <<Head(requests[c])>>
    OBVIOUS
  <2>2. Start(trees) /\ trees # <<>>
    BY <1>5, <2>1 DEF TreeData
  <2>3. NotStuck' /\ deadline' /\ session'.trees # <<>>
    BY <1>1, <1>2, <1>5, <2>2, StartUnstuck
  <2>4. QED
    BY <1>4, <2>3 DEF Moving, Attended, Holding
<1>6. CASE session.net # None
  <2>1. /\ session' = [session EXCEPT !.trees = Append(@, Head(requests[c]))]
        /\ deadline' = TRUE
        /\ UNCHANGED <<pending, watchdog, retry, status>>
    BY <1>6 DEF TreeData, counters, shown
  <2>2. PICK net, trees : session = [net |-> net, trees |-> trees] /\ trees \in Seq(Networks)
    BY <1>3 DEF Session
  <2>3. session'.net = session.net /\ session'.trees = Append(trees, Head(requests[c]))
    BY <2>1, <2>2
  <2>4. session'.trees # <<>>
    BY <2>2, <2>3
  <2>5. NotStuck'
    BY <1>2, <2>1, <2>3 DEF NotStuck
  <2>6. QED
    BY <1>4, <2>1, <2>4, <2>5 DEF Moving, Attended, Holding
<1>7. QED
  BY <1>5, <1>6

\* The end of a stream resolves the session or retries it: its data is there.
LEMMA EndMoves ==
  ASSUME ~Unruly, TreeInv, Moving, NEW c \in Conns, TreeEnd(c)
  PROVE  Moving'
<1>1. OutsideTypes /\ RecordInv
  BY InvParts
<1>2. Attended /\ Holding /\ NotStuck
  BY DEF Moving
<1>3. ~stopped /\ stream[c] = "sent" /\ session' = NoSession
  BY DEF TreeEnd
<1>4. session'.net = None
  BY <1>3 DEF NoSession
<1>5. Attended' /\ Holding'
  BY <1>4 DEF Attended, Holding
<1>6. watchdog \in [Nets -> BOOLEAN] /\ retry \in [Nets -> BOOLEAN] /\ ToSet(pending) \subseteq Nets
      /\ status \in [Nets -> {"none", "discovering", "ok", "paused"}]
  BY <1>1 DEF RecordInv, RecordTypes, ToSet
<1>7. CASE session.net \in Networks /\ session.trees # <<>>
  <2>1. PICK n, trees : n \in Networks /\ n = session.net /\ ParseTree(n, trees)
    BY <1>7 DEF TreeEnd
  <2>2. n \in Nets /\ \A m \in Networks \ {n} : session.net # m
    BY <2>1, NetsNames
  <2>3. CASE Fail(n, watchdog, FALSE)
    <3>1. \A m \in Networks \ {n} : session.net = m /\ deadline => session'.net = m /\ FALSE
      BY <2>2
    <3>2. NotStuck'
      BY <1>1, <1>2, <1>6, <2>2, <2>3, <3>1, FailUnstuck
    <3>3. QED
      BY <1>5, <3>2 DEF Moving
  <2>4. CASE \E tree, unsynced, unchanged : Accept(n, tree, unsynced, unchanged)
    <3>1. /\ watchdog' = [watchdog EXCEPT ![n] = FALSE] /\ retry' = [retry EXCEPT ![n] = FALSE]
          /\ status' = [status EXCEPT ![n] = "ok"] /\ pending' = pending
      BY <2>4 DEF Accept, Disarm
    <3>2. ASSUME NEW m \in Networks, status'[m] = "discovering"
          PROVE  (m \in ToSet(pending') /\ watchdog'[m]) \/ retry'[m]
      <4>1. m \in Nets /\ m # n /\ status[m] = "discovering"
        BY <1>6, <2>2, <3>1, <3>2, NetsNames
      <4>2. (m \in ToSet(pending) /\ watchdog[m]) \/ retry[m]
        BY <1>2, <2>2, <4>1 DEF NotStuck
      <4>3. QED
        BY <1>6, <3>1, <4>1, <4>2
    <3>3. QED
      BY <1>5, <3>2 DEF Moving, NotStuck
  <2>5. QED
    BY <2>1, <2>3, <2>4 DEF ParseTree
<1>8. CASE ~(session.net \in Networks /\ session.trees # <<>>)
  <2>1. UNCHANGED <<pending, watchdog, retry, status>>
    BY <1>8 DEF TreeEnd, counters, shown
  <2>2. session.net \notin Networks
    <3>1. session.net # None => session.trees # <<>>
      BY <1>2, <1>3 DEF Holding
    <3>2. QED
      BY <1>8, <3>1, NetsNames
  <2>3. NotStuck'
    BY <1>2, <2>1, <2>2 DEF NotStuck
  <2>4. QED
    BY <1>5, <2>3 DEF Moving
<1>9. QED
  BY <1>7, <1>8

\* An error answer fails the oldest request, which is not the session's.
LEMMA NotFoundMoves ==
  ASSUME TreeInv, Moving, NEW c \in Conns, NotFound(c)
  PROVE  Moving'
<1>1. OutsideTypes /\ RecordInv
  BY InvParts
<1>2. Attended /\ Holding /\ NotStuck
  BY DEF Moving
<1>3. ~stopped /\ session' = session /\ stream' = stream
  BY DEF NotFound
<1>4. CASE pending = <<>>
  <2>1. UNCHANGED <<pending, deadline, watchdog, retry, status, stopped>>
    BY <1>4 DEF NotFound, counters, shown
  <2>2. QED
    BY <1>2, <1>3, <2>1 DEF Moving, Attended, Holding, NotStuck
<1>5. CASE pending # <<>>
  <2>1. PICK n : n = Head(pending) /\ Fail(n, Disarm(n), deadline)
    BY <1>5 DEF NotFound
  <2>2. pending \in Seq(Nets) /\ Unique(pending)
    BY <1>1 DEF RecordInv, RecordTypes, OneWait
  <2>3. n \in Nets /\ n \in ToSet(pending)
    BY <1>5, <2>1, <2>2, TailUnique
  <2>4. /\ watchdog \in [Nets -> BOOLEAN] /\ deadline \in BOOLEAN
        /\ ToSet(pending) \subseteq Nets
    BY <1>1 DEF RecordInv, RecordTypes, ToSet
  <2>5. /\ Disarm(n) \in [Nets -> BOOLEAN]
        /\ \A m \in ToSet(pending) \ {n} : Disarm(n)[m] <=> watchdog[m]
    BY <2>4 DEF Disarm
  <2>6. session.net # n
    BY <1>1, <2>3 DEF RecordInv, OneWait
  <2>7. NotStuck' /\ (session'.net # n /\ deadline => deadline')
    BY <1>1, <1>2, <1>3, <2>1, <2>3, <2>4, <2>5, FailUnstuck
  <2>8. Attended' /\ Holding'
    BY <1>2, <1>3, <2>6, <2>7 DEF Attended, Holding
  <2>9. QED
    BY <2>7, <2>8 DEF Moving
<1>6. QED
  BY <1>4, <1>5

\* Every step keeps the networks moving, where connections last, answers hold data
\* and no network is removed.
LEMMA MovingStep ==
  ASSUME ~Unruly, TreeInv, Moving, NoOverlap, NoOverlap', [Next]_vars
  PROVE  Moving'
<1>1. OutsideTypes /\ RecordInv
  BY InvParts
<1>2. Attended /\ Holding /\ NotStuck
  BY DEF Moving
<1>3. ASSUME NEW n \in Nets, Timer(n) PROVE Moving'
  BY <1>3, TimerMoves
<1>4. ASSUME NEW c \in Conns, Send(c) PROVE Moving'
  <2>1. UNCHANGED <<pending, session, deadline, watchdog, retry, status, stopped, stream>>
    BY <1>4 DEF Send, fetching, counters, shown
  <2>2. QED
    BY <1>2, <2>1 DEF Moving, Attended, Holding, NotStuck
<1>5. ASSUME NEW c \in Conns, Line(c) PROVE Moving'
  BY <1>5, StartMoves, DataMoves, EndMoves, NotFoundMoves DEF Line
<1>6. ASSUME NEW ns \in SUBSET Networks, ~stopped, QueueTreeRequests(ns) PROVE Moving'
  <2>1. IsFiniteSet(ns) /\ ns \in SUBSET Nets
    BY FS_Subset, NetworksAssumption, NetsNames
  <2>2. NotStuck'
    BY <1>1, <1>2, <1>6, <2>1, QueueUnstuck
  <2>3. UNCHANGED <<session, deadline, stopped, stream>>
    BY <1>6 DEF QueueTreeRequests
  <2>4. QED
    BY <1>2, <2>2, <2>3 DEF Moving, Attended, Holding
<1>7. ASSUME NEW n \in Networks, Event(n) PROVE Moving'
  <2>1. ~stopped /\ QueueTreeRequests({n}) /\ {n} \in SUBSET Networks
    BY <1>7 DEF Event, TreeRequested, NetworkSynced, NetworkRemoved, Nudge
  <2>2. QED
    BY <1>6, <2>1
<1>8. ASSUME Trigger PROVE Moving'
  <2>1. ~stopped /\ QueueTreeRequests(Networks) /\ Networks \in SUBSET Networks
    BY <1>8 DEF Trigger, Nudge
  <2>2. QED
    BY <1>6, <2>1
<1>9. ASSUME Stop PROVE Moving'
  <2>1. /\ stopped' = TRUE /\ status' = [n \in Nets |-> "none"]
        /\ session' = session /\ stream' = stream
    BY <1>9 DEF Stop, cgate
  <2>2. NotStuck'
    BY <2>1, NetsNames DEF NotStuck
  <2>3. QED
    BY <1>2, <2>1, <2>2 DEF Moving, Attended, Holding
<1>10. ASSUME UNCHANGED vars PROVE Moving'
  <2>1. UNCHANGED <<pending, session, deadline, watchdog, retry, status, stopped, stream>>
    BY <1>10 DEF vars, fetching, counters, shown, cgate
  <2>2. QED
    BY <1>2, <2>1 DEF Moving, Attended, Holding, NotStuck
<1>11. ASSUME NEW c \in Conns PROVE ~ConnectionLost(c)
  BY DEF ConnectionLost
<1>12. QED
  BY <1>3, <1>4, <1>5, <1>7, <1>8, <1>9, <1>10, <1>11, DeadlineMoves DEF Next

\* They move at the start.
LEMMA MovingInit == Init => Moving
BY DEF Init, Moving, Attended, Holding, NotStuck, NoSession, Nets

\* Overlapping streams are what it takes to be stuck: in every behaviour in which C-Gate
\* streams one tree at a time with data in each, connections last and no network is removed, a
\* network that is being discovered has a request with a watchdog, a stream with a deadline, or a retry, whatever
\* stalls, is refused, late or malformed (handleTreeStart, haDiscoveryTreeSession.js:424-427).
THEOREM TreeNeverStuck ==
  ASSUME ~Unruly
  PROVE  Spec /\ []NoOverlap => []NotStuck
<1>1. TreeInv /\ Moving /\ NoOverlap /\ NoOverlap' /\ [Next]_vars => Moving'
  BY MovingStep
<1>2. Moving => NotStuck
  BY DEF Moving
<1>3. QED
  BY <1>1, <1>2, MovingInit, TreeInvariant, PTL DEF Spec

\* So with a pool of one connection that lasts, answers that hold data and no network removed,
\* no network is ever stuck.
THEOREM OneConnectionNeverStuck ==
  ASSUME ~Unruly, \A c, d \in Conns : c = d
  PROVE  Spec => []NotStuck
<1>1. NoOverlap
  BY DEF NoOverlap
<1>2. Spec => []NoOverlap
  BY <1>1, PTL
<1>3. QED
  BY <1>2, TreeNeverStuck, PTL
=============================================================================
