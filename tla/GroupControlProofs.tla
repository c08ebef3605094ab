-------------------------- MODULE GroupControlProofs --------------------------
(***************************************************************************)
(* Proofs about lights and covers, for any groups, levels, number of       *)
(* requests and order in which commands, reports and answers get through.  *)
(*                                                                         *)
(* What is kept of a group looks at nothing but the group's own state and  *)
(* at the waiting commands that move it, so that the proof first says how  *)
(* the queue changes (a command joins, the front leaves) and then goes     *)
(* through the steps of one group.                                         *)
(***************************************************************************)
EXTENDS GroupControl, TLAPS

-----------------------------------------------------------------------------
(* Types *)

\* The topics of each group, and no others.
Topical == shown = [g \in Group |-> shown[g]]

\* Percentages are levels, levels percentages.
LEMMA PercentLevel == \A p \in 0..100 : FromPercent(p) \in Level
BY LevelAssumption DEF FromPercent, Level

\* A level is shown as a percentage,
LEMMA LevelPercent == \A l \in Level : Percent(l) \in 0..100
BY LevelAssumption DEF Percent, Level

\* what is out of range is clamped to one,
LEMMA ClampLevel == \A l \in Int : Clamp(l) \in Level
BY LevelAssumption DEF Clamp, Level

\* and none is taken for the marks of a group that stands still, is unknown or halts.
LEMMA LevelsAreNotMarks ==
  /\ \A l \in Level : l \in Int /\ l # Still /\ l # Unknown /\ l # Halt /\ l # Open
  /\ 0 \in Level /\ CGATE_LEVEL_MAX \in Level /\ Halt # Open
  /\ \A a, b \in Level : Between(a, b) \subseteq Level
BY LevelAssumption, DialAssumption, PercentLevel DEF Level, Still, Unknown, Halt, Open, Between

\* What a topic says of a level is a percentage.
LEMMA SaysType == \A t, l : l \in Level => Says(t, l) \in 0..100
BY LevelPercent DEF Says

\* What is published of a group reaches its own topics and leaves the others.
LEMMA ShowFacts ==
  ASSUME TypeOK, Topical, NEW g \in Group, NEW topics, NEW l \in Level
  PROVE  LET new == Show(g, topics, l)
         IN  /\ new = [h \in Group |-> new[h]]
             /\ \A h \in Group : new[h] \in [Topics(h) -> 0..100 \union {Unknown}]
             /\ \A h \in Group : h # g => new[h] = shown[h]
             /\ \A t \in Topics(g) : new[g][t] = IF t \in topics THEN Says(t, l) ELSE shown[g][t]
<1> DEFINE new == Show(g, topics, l)
           mine == [t \in Topics(g) |-> IF t \in topics THEN Says(t, l) ELSE shown[g][t]]
<1>1. shown[g] \in [Topics(g) -> 0..100 \union {Unknown}]
  BY DEF TypeOK
<1>2. new = [shown EXCEPT ![g] = mine]
  BY <1>1 DEF Show
<1>3. mine \in [Topics(g) -> 0..100 \union {Unknown}]
  BY <1>1, SaysType
<1>4. new = [h \in Group |-> IF h = g THEN mine ELSE shown[h]]
  BY <1>2 DEF Topical
<1> HIDE DEF new
<1>5. /\ new = [h \in Group |-> new[h]]
      /\ \A h \in Group : h # g => new[h] = shown[h]
      /\ new[g] = mine
  BY <1>4
<1>6. \A h \in Group : new[h] \in [Topics(h) -> 0..100 \union {Unknown}]
  BY <1>3, <1>5 DEF TypeOK
<1>7. \A t \in Topics(g) : new[g][t] = IF t \in topics THEN Says(t, l) ELSE shown[g][t]
  BY <1>5
<1>8. QED
  BY <1>5, <1>6, <1>7 DEF new

-----------------------------------------------------------------------------
(* The queue *)

\* A command that moves has one group, and in the most urgent class it stops it.
Plain(class, c) ==
  /\ c.verb # "get" => \E g \in Group : c.groups = {g}
  /\ class = "critical" => c.verb = "stop"

CommandsPlain == \A class \in Class : \A i \in DOMAIN queue[class] : Plain(class, queue[class][i])

\* The classes of the queue are ranked.
LEMMA ClassOrder ==
  /\ \A c, d \in Class : Rank[c] \in Nat /\ (Rank[c] = Rank[d] => c = d)
  /\ \A c \in Class : ~(Rank["normal"] < Rank[c]) /\ (c # "critical" => Rank["critical"] < Rank[c])
BY DEF Class, Rank

\* A command joins at the end of its class; everything else keeps its place.
LEMMA Joins ==
  ASSUME TypeOK, NEW class \in Class, NEW c \in Command, QueueCommand(class, c)
  PROVE  /\ queue' \in [Class -> Seq(Command)]
         /\ \A d \in Class : d # class => queue'[d] = queue[d]
         /\ \A d \in Class : \A i \in DOMAIN queue[d] : i \in DOMAIN queue'[d] /\ queue'[d][i] = queue[d][i]
         /\ Len(queue[class]) + 1 \in DOMAIN queue'[class] /\ queue'[class][Len(queue[class]) + 1] = c
         /\ \A i \in DOMAIN queue'[class] :
              \/ i \in DOMAIN queue[class] /\ queue'[class][i] = queue[class][i] /\ i <= Len(queue[class])
              \/ i = Len(queue[class]) + 1 /\ queue'[class][i] = c
<1>1. queue \in [Class -> Seq(Command)]
  BY DEF TypeOK
<1>2. queue' = [queue EXCEPT ![class] = Append(@, c)]
  BY DEF QueueCommand
<1> DEFINE s == queue[class]
           t == queue'[class]
<1>3. s \in Seq(Command) /\ t = Append(s, c) /\ \A d \in Class : d # class => queue'[d] = queue[d]
  BY <1>1, <1>2
<1>4. queue' \in [Class -> Seq(Command)]
  BY <1>1, <1>2
<1> HIDE DEF s, t
<1>5. /\ DOMAIN s = 1..Len(s) /\ DOMAIN t = 1..(Len(s) + 1) /\ Len(s) \in Nat
      /\ \A i \in 1..Len(s) : t[i] = s[i]
      /\ t[Len(s) + 1] = c
  BY <1>3
<1>6. \A i \in DOMAIN s : i \in DOMAIN t /\ t[i] = s[i]
  BY <1>5
<1>7. \A i \in DOMAIN t : (i \in DOMAIN s /\ t[i] = s[i] /\ i <= Len(s)) \/ (i = Len(s) + 1 /\ t[i] = c)
  BY <1>5
<1>8. Len(s) + 1 \in DOMAIN t /\ t[Len(s) + 1] = c
  BY <1>5
<1>9. \A d \in Class : \A i \in DOMAIN queue[d] : i \in DOMAIN queue'[d] /\ queue'[d][i] = queue[d][i]
  BY <1>3, <1>6 DEF s, t
<1>10. QED
  BY <1>3, <1>4, <1>7, <1>8, <1>9 DEF s, t

\* The front leaves: what was behind it moves up, nothing more urgent waits.
LEMMA Leaves ==
  ASSUME TypeOK, NEW class \in Front, queue' = [queue EXCEPT ![class] = Tail(@)]
  PROVE  /\ queue' \in [Class -> Seq(Command)] /\ class \in Class
         /\ \A d \in Class : d # class => queue'[d] = queue[d]
         /\ 1 \in DOMAIN queue[class] /\ Head(queue[class]) = queue[class][1] /\ queue[class][1] \in Command
         /\ \A i \in DOMAIN queue'[class] : i + 1 \in DOMAIN queue[class] /\ queue'[class][i] = queue[class][i + 1]
         /\ \A i \in DOMAIN queue[class] :
              i # 1 => i - 1 \in DOMAIN queue'[class] /\ queue'[class][i - 1] = queue[class][i]
         /\ \A d \in Class : Rank[d] < Rank[class] => queue[d] = <<>>
<1>1. queue \in [Class -> Seq(Command)]
  BY DEF TypeOK
<1>2. class \in Class /\ queue[class] # <<>> /\ \A d \in Class : queue[d] # <<>> => Rank[class] <= Rank[d]
  BY DEF Front
<1>3. \A d \in Class : Rank[d] < Rank[class] => queue[d] = <<>>
  BY <1>2, ClassOrder
<1> DEFINE s == queue[class]
           t == queue'[class]
<1>4. s \in Seq(Command) /\ s # <<>> /\ t = Tail(s) /\ \A d \in Class : d # class => queue'[d] = queue[d]
  BY <1>1, <1>2
<1>5. queue' \in [Class -> Seq(Command)]
  BY <1>1, <1>2
<1> HIDE DEF s, t
<1>6. /\ DOMAIN s = 1..Len(s) /\ Len(s) \in Nat \ {0} /\ DOMAIN t = 1..(Len(s) - 1)
      /\ \A i \in 1..(Len(s) - 1) : t[i] = s[i + 1]
  BY <1>4
<1>7. 1 \in DOMAIN s /\ Head(s) = s[1] /\ s[1] \in Command
  BY <1>4, <1>6
<1>8. \A i \in DOMAIN t : i + 1 \in DOMAIN s /\ t[i] = s[i + 1]
  BY <1>6
<1>9. \A i \in DOMAIN s : i # 1 => i - 1 \in DOMAIN t /\ t[i - 1] = s[i]
  <2> TAKE i \in DOMAIN s
  <2> HAVE i # 1
  <2>1. i - 1 \in 1..(Len(s) - 1) /\ (i - 1) + 1 = i
    BY <1>6
  <2>2. QED
    BY <1>6, <2>1
<1>10. QED
  BY <1>2, <1>3, <1>4, <1>5, <1>7, <1>8, <1>9 DEF s, t

\* The places of a list are numbers from one.
LEMMA Places ==
  ASSUME NEW q \in [Class -> Seq(Command)], NEW class \in Class
  PROVE  DOMAIN q[class] \subseteq Nat \ {0} /\ Len(q[class]) \in Nat
<1>1. q[class] \in Seq(Command)
  OBVIOUS
<1>2. QED
  BY <1>1

\* The commands the router builds are commands.
LEMMA CommandTypes ==
  /\ \A g \in Group, l \in Level : Set(g, l) \in Command /\ Set(g, l).verb = "set"
                                   /\ Set(g, l).groups = {g} /\ Set(g, l).level = l
  /\ \A g \in Group : TerminateRamp(g) \in Command /\ TerminateRamp(g).verb = "stop"
                      /\ TerminateRamp(g).groups = {g}
  /\ \A gs \in SUBSET Group : Get(gs) \in Command /\ Get(gs).verb = "get"
BY LevelsAreNotMarks DEF Set, TerminateRamp, Get, Command

\* A plain command may join the queue,
LEMMA JoinsPlain ==
  ASSUME TypeOK, CommandsPlain, NEW class \in Class, NEW c \in Command, QueueCommand(class, c), Plain(class, c)
  PROVE  CommandsPlain'
BY Joins DEF CommandsPlain

\* and leave it.
LEMMA LeavesPlain ==
  ASSUME TypeOK, CommandsPlain, NEW class \in Front, queue' = [queue EXCEPT ![class] = Tail(@)]
  PROVE  CommandsPlain'
BY Leaves DEF CommandsPlain

-----------------------------------------------------------------------------
(* What is kept of a group *)

\* A waiting command that will move g, and whether there is none.
Moves(g, c) == g \in c.groups /\ c.verb # "get"
Idle(g) == \A d \in Class : \A i \in DOMAIN queue[d] : ~Moves(g, queue[d][i])
SetWaits(g) == \E d \in Class : \E i \in DOMAIN queue[d] : g \in queue[d][i].groups /\ queue[d][i].verb = "set"

\* The last command to move g sets it to l: none follows it in its class, none waits in
\* a less urgent one.
LastAt(g, l, k, i) ==
  /\ i \in DOMAIN queue[k] /\ queue[k][i] = Set(g, l)
  /\ \A j \in DOMAIN queue[k] : i < j => ~Moves(g, queue[k][j])
  /\ \A d \in Class : Rank[k] < Rank[d] => \A j \in DOMAIN queue[d] : ~Moves(g, queue[d][j])

LastIs(g, l) == \E k \in Class, i \in Nat : LastAt(g, l, k, i)

Towards(g, l) == goal[g] = l \/ (goal[g] = Still /\ level[g] = l)

\* Quiet, in terms of the places of the queue.
Calm(g) ==
  /\ Idle(g) /\ goal[g] = Still
  /\ events[g] = <<>> /\ \A i \in DOMAIN answers[g] : answers[g][i] = level[g]

\* A request that is the last word is the last command to move its group, or was
\* carried out; a relative one waits for a level that nothing can change.
LastWord(g) == wanted[g].sure =>
  /\ wanted[g].what = Halt =>
       /\ pending[g] = 0 /\ ~SetWaits(g)
       /\ Idle(g) => goal[g] = Still
  /\ wanted[g].what \in Level =>
       \/ pending[g] = 0 /\ (LastIs(g, wanted[g].what) \/ (Idle(g) /\ Towards(g, wanted[g].what)))
       \/ pending[g] # 0 /\ Calm(g) /\ wanted[g].what = Clamp(level[g] + pending[g])

\* The last report of a group at rest is its level; when there is none, so is every
\* answer, and what is known, unless an event overtook an answer.
ReportsTrue(g) == goal[g] = Still =>
  /\ events[g] # <<>> => events[g][Len(events[g])] = level[g]
  /\ events[g] = <<>> /\ ~crossed[g] =>
       (\A i \in DOMAIN answers[g] : answers[g][i] = level[g]) /\ known[g] \in {Unknown, level[g]}

\* What is shown is what is known, or there is a report to come that will say so.
ShownCatchesUp(g) == ~SetWaits(g) /\ goal[g] = Still /\ events[g] = <<>> =>
  /\ ramp[g] = NoRamp
  /\ known[g] # Unknown => \A t \in Topics(g) : shown[g][t] = Says(t, known[g])

LightStill(g) == g \notin cover => goal[g] = Still /\ ramp[g] = NoRamp

Kept(g) == LastWord(g) /\ ReportsTrue(g) /\ ShownCatchesUp(g) /\ LightStill(g)

GroupInv == TypeOK /\ Topical /\ CommandsPlain /\ \A g \in Group : Kept(g)

\* A command that does not move g changes nothing of this.
LEMMA JoinsElsewhere ==
  ASSUME TypeOK, NEW class \in Class, NEW c \in Command, QueueCommand(class, c),
         NEW g \in Group, ~Moves(g, c)
  PROVE  /\ Idle(g) <=> Idle(g)'
         /\ SetWaits(g) <=> SetWaits(g)'
         /\ \A l : LastIs(g, l) => LastIs(g, l)'
<1>1. /\ \A d \in Class : \A i \in DOMAIN queue[d] : i \in DOMAIN queue'[d] /\ queue'[d][i] = queue[d][i]
      /\ \A d \in Class : \A i \in DOMAIN queue'[d] :
           (i \in DOMAIN queue[d] /\ queue'[d][i] = queue[d][i]) \/ queue'[d][i] = c
  BY Joins
<1>2. Idle(g) <=> Idle(g)'
  BY <1>1 DEF Idle
<1>3. SetWaits(g) <=> SetWaits(g)'
  BY <1>1 DEF SetWaits, Moves
<1>4. ASSUME NEW l, LastIs(g, l) PROVE LastIs(g, l)'
  <2>0. PICK k \in Class, i \in Nat : LastAt(g, l, k, i)
    BY <1>4 DEF LastIs
  <2>1. /\ i \in DOMAIN queue[k] /\ queue[k][i] = Set(g, l)
        /\ \A j \in DOMAIN queue[k] : i < j => ~Moves(g, queue[k][j])
        /\ \A d \in Class : Rank[k] < Rank[d] => \A j \in DOMAIN queue[d] : ~Moves(g, queue[d][j])
    BY <2>0 DEF LastAt
  <2>2. i \in DOMAIN queue'[k] /\ queue'[k][i] = Set(g, l)
    BY <1>1, <2>1
  <2>3. \A j \in DOMAIN queue'[k] : i < j => ~Moves(g, queue'[k][j])
    BY <1>1, <2>1
  <2>4. \A d \in Class : Rank[k] < Rank[d] => \A j \in DOMAIN queue'[d] : ~Moves(g, queue'[d][j])
    BY <1>1, <2>1
  <2>5. QED
    BY <2>2, <2>3, <2>4 DEF LastIs, LastAt
<1>5. QED
  BY <1>2, <1>3, <1>4

\* A level joins: it is the last command of g when none waits in a less urgent class.
LEMMA JoinsSet ==
  ASSUME TypeOK, NEW class \in Class, NEW g \in Group, NEW l \in Level, QueueCommand(class, Set(g, l))
  PROVE  /\ SetWaits(g)'
         /\ (\A d \in Class : Rank[class] < Rank[d] => \A j \in DOMAIN queue[d] : ~Moves(g, queue[d][j]))
              => LastIs(g, l)'
<1> DEFINE n == Len(queue[class]) + 1
<1>1. /\ Set(g, l) \in Command /\ Set(g, l).verb = "set" /\ Set(g, l).groups = {g}
      /\ Rank[class] \in Nat
  BY CommandTypes, ClassOrder
<1>2. /\ \A d \in Class : d # class => queue'[d] = queue[d]
      /\ n \in DOMAIN queue'[class] /\ queue'[class][n] = Set(g, l)
      /\ \A i \in DOMAIN queue'[class] : i <= Len(queue[class]) \/ i = n
  BY <1>1, Joins
<1>3. SetWaits(g)'
  BY <1>1, <1>2 DEF SetWaits
<1>4. \A j \in DOMAIN queue'[class] : ~(n < j)
  <2>1. queue' \in [Class -> Seq(Command)] /\ queue \in [Class -> Seq(Command)]
    BY <1>1, Joins DEF TypeOK
  <2>2. DOMAIN queue'[class] \subseteq Nat \ {0} /\ Len(queue[class]) \in Nat
    BY <2>1, Places
  <2>3. QED
    BY <1>2, <2>2
<1>5. ASSUME \A d \in Class : Rank[class] < Rank[d] => \A j \in DOMAIN queue[d] : ~Moves(g, queue[d][j])
      PROVE  LastIs(g, l)'
  BY <1>1, <1>2, <1>4, <1>5 DEF LastIs, LastAt
<1>6. QED
  BY <1>3, <1>5

\* The front leaves: a last command stays the last one, or was the front.
LEMMA LeavesMoves ==
  ASSUME TypeOK, NEW class \in Front, queue' = [queue EXCEPT ![class] = Tail(@)], NEW g \in Group
  PROVE  LET c == Head(queue[class])
         IN  /\ Idle(g) => Idle(g)' /\ ~Moves(g, c)
             /\ SetWaits(g)' => SetWaits(g)
             /\ ~Moves(g, c) => (Idle(g)' => Idle(g)) /\ (SetWaits(g) => SetWaits(g)')
             /\ c.verb # "set" => (SetWaits(g) => SetWaits(g)')
             /\ \A l : LastIs(g, l) => LastIs(g, l)' \/ (c = Set(g, l) /\ Idle(g)')
<1> DEFINE c == Head(queue[class])
<1>1. /\ class \in Class /\ \A d \in Class : d # class => queue'[d] = queue[d]
      /\ 1 \in DOMAIN queue[class] /\ c = queue[class][1]
      /\ \A i \in DOMAIN queue'[class] : i + 1 \in DOMAIN queue[class] /\ queue'[class][i] = queue[class][i + 1]
      /\ \A i \in DOMAIN queue[class] :
           i # 1 => i - 1 \in DOMAIN queue'[class] /\ queue'[class][i - 1] = queue[class][i]
      /\ \A d \in Class : Rank[d] < Rank[class] => queue[d] = <<>>
  BY Leaves
<1> HIDE DEF c
<1>2. \A d \in Class : \A i \in DOMAIN queue'[d] : \E j \in DOMAIN queue[d] : queue'[d][i] = queue[d][j]
  BY <1>1
<1>3. \A d \in Class : \A i \in DOMAIN queue[d] :
        queue[d][i] = c \/ \E j \in DOMAIN queue'[d] : queue'[d][j] = queue[d][i]
  <2> TAKE d \in Class
  <2> TAKE i \in DOMAIN queue[d]
  <2>1. CASE d # class
    BY <1>1, <2>1
  <2>2. CASE d = class
    <3>1. CASE i = 1
      BY <1>1, <2>2, <3>1
    <3>2. CASE i # 1
      <4>1. i - 1 \in DOMAIN queue'[d] /\ queue'[d][i - 1] = queue[d][i]
        BY <1>1, <2>2, <3>2
      <4>2. QED
        BY <4>1
    <3>3. QED
      BY <3>1, <3>2
  <2>3. QED
    BY <2>1, <2>2
<1>4. Idle(g) => Idle(g)' /\ ~Moves(g, c)
  BY <1>1, <1>2 DEF Idle
<1>5. SetWaits(g)' => SetWaits(g)
  BY <1>2 DEF SetWaits
<1>6. /\ ~Moves(g, c) => (Idle(g)' => Idle(g)) /\ (SetWaits(g) => SetWaits(g)')
      /\ c.verb # "set" => (SetWaits(g) => SetWaits(g)')
  BY <1>3 DEF Idle, SetWaits, Moves
<1>7. \A d \in Class : DOMAIN queue'[d] \subseteq Nat \ {0}
  BY Leaves, Places
<1>8. ASSUME NEW l, LastIs(g, l) PROVE LastIs(g, l)' \/ (c = Set(g, l) /\ Idle(g)')
  <2>0. PICK k \in Class, i \in Nat : LastAt(g, l, k, i)
    BY <1>8 DEF LastIs
  <2>1. /\ i \in DOMAIN queue[k] /\ queue[k][i] = Set(g, l)
        /\ \A j \in DOMAIN queue[k] : i < j => ~Moves(g, queue[k][j])
        /\ \A d \in Class : Rank[k] < Rank[d] => \A j \in DOMAIN queue[d] : ~Moves(g, queue[d][j])
    BY <2>0 DEF LastAt
  <2>2. \A d \in Class : Rank[k] < Rank[d] => \A j \in DOMAIN queue'[d] : ~Moves(g, queue'[d][j])
    BY <1>2, <2>1
  <2>3. i \in Nat \ {0} /\ \A d \in Class : DOMAIN queue[d] \subseteq Nat
    BY <2>1 DEF TypeOK
  <2>4. CASE k # class
    <3>1. queue'[k] = queue[k]
      BY <1>1, <2>4
    <3>2. QED
      BY <2>1, <2>2, <3>1 DEF LastIs, LastAt
  <2>5. CASE k = class /\ i # 1
    <3>1. i - 1 \in DOMAIN queue'[k] /\ queue'[k][i - 1] = Set(g, l)
      BY <1>1, <2>1, <2>5
    <3>2. ASSUME NEW j \in DOMAIN queue'[k], i - 1 < j PROVE ~Moves(g, queue'[k][j])
      <4>1. j + 1 \in DOMAIN queue[k] /\ queue'[k][j] = queue[k][j + 1]
        BY <1>1, <2>5, <3>2
      <4>2. j \in Nat /\ i < j + 1
        BY <1>1, <1>7, <2>3, <3>2
      <4>3. QED
        BY <2>1, <4>1, <4>2
    <3>3. i - 1 \in Nat
      BY <2>3, <2>5
    <3>4. LastAt(g, l, k, i - 1)'
      BY <2>2, <3>1, <3>2 DEF LastAt
    <3>5. QED
      BY <3>3, <3>4 DEF LastIs
  <2>6. CASE k = class /\ i = 1
    <3>1. c = Set(g, l)
      BY <1>1, <2>1, <2>6
    <3>2. ASSUME NEW j \in DOMAIN queue'[class] PROVE ~Moves(g, queue'[class][j])
      <4>1. j + 1 \in DOMAIN queue[class] /\ queue'[class][j] = queue[class][j + 1]
        BY <1>1, <3>2
      <4>2. j \in Nat /\ j # 0
        BY <1>1, <1>7, <3>2
      <4>3. QED
        BY <2>1, <2>6, <4>1, <4>2
    <3>3. ASSUME NEW d \in Class, NEW j \in DOMAIN queue'[d] PROVE ~Moves(g, queue'[d][j])
      <4>1. CASE d = class
        BY <3>2, <3>3, <4>1
      <4>2. CASE d # class
        <5>1. Rank[d] < Rank[class] \/ Rank[class] < Rank[d]
          BY <1>1, <4>2, ClassOrder
        <5>2. queue'[d] = queue[d] /\ queue[d] # <<>>
          BY <1>1, <3>3, <4>2
        <5>3. QED
          BY <1>1, <2>2, <2>6, <3>3, <5>1, <5>2
      <4>3. QED
        BY <4>1, <4>2
    <3>4. Idle(g)'
      BY <3>3 DEF Idle
    <3>5. QED
      BY <3>1, <3>4
  <2>7. QED
    BY <2>4, <2>5, <2>6
<1>9. QED
  BY <1>4, <1>5, <1>6, <1>8 DEF c

-----------------------------------------------------------------------------
(* Every step keeps the types *)

GroupType == TypeOK /\ Topical /\ CommandsPlain

\* The model's questions about the queue, without its positions.
LEMMA WaitsIsIdle ==
  ASSUME TypeOK, NEW g \in Group
  PROVE  /\ ~Waits(g, {"set", "stop"}) <=> Idle(g)
         /\ Quiet(g) <=> Calm(g)
         /\ \A class \in Class : ~Overtakes(class, g) <=>
              \A d \in Class : Rank[class] < Rank[d] => \A j \in DOMAIN queue[d] : ~Moves(g, queue[d][j])
<1>1. \A d \in Class : \A i \in DOMAIN queue[d] : queue[d][i].verb \in {"set", "stop", "get"}
  <2> SUFFICES ASSUME NEW d \in Class, NEW i \in DOMAIN queue[d] PROVE queue[d][i].verb \in {"set", "stop", "get"}
    OBVIOUS
  <2>1. queue[d] \in Seq(Command)
    BY DEF TypeOK
  <2>2. queue[d][i] \in Command
    BY <2>1
  <2>3. QED
    BY <2>2 DEF Command
<1>2. ~Waits(g, {"set", "stop"}) <=> Idle(g)
  BY <1>1 DEF Waits, Waiting, Idle, Moves
<1>3. QED
  BY <1>2 DEF Overtakes, Waiting, Moves, Quiet, Calm

\* A request is noted: for its group alone.
LEMMA NotedType ==
  ASSUME TypeOK, NEW g \in Group, NEW what \in Level \union {Halt, Open}, NEW sure \in BOOLEAN,
         wanted' = [wanted EXCEPT ![g] = [what |-> what, sure |-> sure]]
  PROVE  /\ wanted' \in [Group -> [what : Level \union {Halt, Open}, sure : BOOLEAN]]
         /\ wanted'[g].what = what /\ wanted'[g].sure = sure
         /\ \A h \in Group : h # g => wanted'[h] = wanted[h]
BY DEF TypeOK

\* A request that is noted is the one asked for, and sure only if nothing overtakes it.
LEMMA WantsType ==
  ASSUME TypeOK, NEW class \in Class, NEW g \in Group, NEW l \in Level \union {Halt, Open}, Wants(class, g, l)
  PROVE  /\ wanted' \in [Group -> [what : Level \union {Halt, Open}, sure : BOOLEAN]]
         /\ wanted'[g].what = l /\ (wanted'[g].sure => pending[g] = 0 /\ ~Overtakes(class, g))
         /\ \A h \in Group : h # g => wanted'[h] = wanted[h]
<1> DEFINE sure == pending[g] = 0 /\ ~Overtakes(class, g)
<1>1. sure \in BOOLEAN
  OBVIOUS
<1>2. wanted' = [wanted EXCEPT ![g] = [what |-> l, sure |-> sure]]
  BY DEF Wants
<1>3. wanted'[g].sure => sure
  <2> HIDE DEF sure
  <2>1. QED
    BY <1>1, <1>2, NotedType
<1>4. QED
  <2> HIDE DEF sure
  <2>1. /\ wanted' \in [Group -> [what : Level \union {Halt, Open}, sure : BOOLEAN]]
        /\ wanted'[g].what = l /\ \A h \in Group : h # g => wanted'[h] = wanted[h]
    BY <1>1, <1>2, NotedType
  <2>2. QED
    BY <1>3, <2>1 DEF sure

\* A request is counted, within the bound.
LEMMA AskType == TypeOK /\ Ask => asks' \in 0..MaxAsks
BY BoundAssumption DEF TypeOK, Ask

\* A request that queues a level or a stop, and may show it.
LEMMA LevelRequestType ==
  ASSUME GroupType, NEW g \in Group, NEW p \in Dial, HandleLevel(g, p)
  PROVE  GroupType'
<1>1. FromPercent(p) \in Level /\ "normal" \in Class
  BY PercentLevel, DialAssumption DEF Class
<1>2. TypeOK /\ Topical /\ CommandsPlain
  BY DEF GroupType
<1>3. Set(g, FromPercent(p)) \in Command /\ Plain("normal", Set(g, FromPercent(p)))
  BY <1>1, CommandTypes DEF Plain
<1>4. queue' \in [Class -> Seq(Command)] /\ CommandsPlain'
  BY <1>1, <1>2, <1>3, Joins, JoinsPlain DEF HandleLevel
<1>5. /\ shown' = [h \in Group |-> shown'[h]]
      /\ \A h \in Group : shown'[h] \in [Topics(h) -> 0..100 \union {Unknown}]
  BY <1>1, <1>2, ShowFacts DEF HandleLevel
<1>6. wanted' \in [Group -> [what : Level \union {Halt, Open}, sure : BOOLEAN]]
  BY <1>1, <1>2, WantsType DEF HandleLevel
<1>7. asks' \in 0..MaxAsks /\ UNCHANGED <<level, goal, events, answers, known, pending, ramp, crossed, turns, cover>>
  BY <1>2, AskType DEF HandleLevel, bus
<1>8. QED
  BY <1>2, <1>4, <1>5, <1>6, <1>7 DEF GroupType, TypeOK, Topical, Topics

\* A step up or down keeps the types,
LEMMA RelativeRequestType ==
  ASSUME GroupType, NEW g \in Group, NEW step \in {RAMP_STEP, -RAMP_STEP}, HandleRelativeLevel(g, step)
  PROVE  GroupType'
<1>1. TypeOK /\ Topical /\ CommandsPlain
  BY DEF GroupType
<1>2. Get({g}) \in Command /\ Plain("normal", Get({g})) /\ "normal" \in Class
  BY CommandTypes DEF Plain, Class
<1>3. queue' \in [Class -> Seq(Command)] /\ CommandsPlain'
  BY <1>1, <1>2, Joins, JoinsPlain DEF HandleRelativeLevel
<1>4. Clamp(level[g] + step) \in Level /\ Quiet(g) \in BOOLEAN
  <2>1. level[g] \in Int /\ step \in Int
    <3>1. level[g] \in Level
      BY <1>1 DEF TypeOK
    <3>2. step \in Int
      BY LevelAssumption
    <3>3. QED
      BY <3>1, <3>2, LevelsAreNotMarks
  <2>2. Clamp(level[g] + step) \in Level
    BY <2>1, ClampLevel
  <2>3. Quiet(g) \in BOOLEAN
    BY DEF Quiet
  <2>4. QED
    BY <2>2, <2>3
<1>5. wanted' \in [Group -> [what : Level \union {Halt, Open}, sure : BOOLEAN]]
  BY <1>1, <1>4, NotedType DEF HandleRelativeLevel
<1>6. pending' \in [Group -> {0, RAMP_STEP, -RAMP_STEP}]
  BY <1>1 DEF HandleRelativeLevel, SetupOperation, TypeOK
<1>7. asks' \in 0..MaxAsks /\ UNCHANGED <<level, goal, events, answers, known, ramp, shown, crossed, turns, cover>>
  BY <1>1, AskType DEF HandleRelativeLevel, bus
<1>8. QED
  BY <1>1, <1>3, <1>5, <1>6, <1>7 DEF GroupType, TypeOK, Topical, Topics

\* so does a position,
LEMMA PositionRequestType ==
  ASSUME GroupType, NEW g \in Group, NEW p \in Dial, NEW class \in {"interactive", "normal"},
         HandlePosition(g, p) \/ HandleSilent(class, g, p)
  PROVE  GroupType'
<1> DEFINE l == FromPercent(p)
<1>1. l \in Level /\ "interactive" \in Class /\ class \in Class
  BY PercentLevel, DialAssumption DEF Class
<1>2. TypeOK /\ Topical /\ CommandsPlain
  BY DEF GroupType
<1>3. PICK k \in {"interactive", "normal"} : QueueCommand(k, Set(g, l)) /\ Wants(k, g, l)
  BY DEF HandlePosition, HandleSilent, QueueRamp
<1>4. Set(g, l) \in Command /\ Plain(k, Set(g, l)) /\ k \in Class
  BY <1>1, CommandTypes DEF Plain, Class
<1>5. queue' \in [Class -> Seq(Command)] /\ CommandsPlain'
  BY <1>2, <1>3, <1>4, Joins, JoinsPlain
<1>6. wanted' \in [Group -> [what : Level \union {Halt, Open}, sure : BOOLEAN]]
  BY <1>1, <1>2, <1>3, <1>4, WantsType
<1>7. ramp' \in [Group -> [from : Level, to : Level] \union {NoRamp}]
  <2>1. (IF known[g] = Unknown THEN 0 ELSE known[g]) \in Level
    BY <1>2, LevelsAreNotMarks DEF TypeOK
  <2>2. CASE HandlePosition(g, p)
    BY <1>1, <1>2, <2>1, <2>2 DEF HandlePosition, StartCoverRamp, TypeOK
  <2>3. CASE HandleSilent(class, g, p)
    BY <1>2, <2>3 DEF HandleSilent, bridge, TypeOK
  <2>4. QED
    BY <2>2, <2>3
<1>8. asks' \in 0..MaxAsks /\ UNCHANGED <<level, goal, events, answers, known, pending, shown, crossed, turns, cover>>
  BY <1>2, AskType DEF HandlePosition, HandleSilent, bus, bridge
<1>9. QED
  BY <1>2, <1>5, <1>6, <1>7, <1>8 DEF GroupType, TypeOK, Topical, Topics

\* a stop,
LEMMA StopRequestType ==
  ASSUME GroupType, NEW g \in Group, HandleStop(g) \/ HandleGetAll
  PROVE  GroupType'
<1>1. TypeOK /\ Topical /\ CommandsPlain
  BY DEF GroupType
<1>2. PICK k \in Class, c \in Command : QueueCommand(k, c) /\ Plain(k, c)
  <2>1. TerminateRamp(g) \in Command /\ Plain("critical", TerminateRamp(g)) /\ "critical" \in Class
    BY CommandTypes DEF Plain, Class
  <2>2. Get(Group) \in Command /\ Plain("normal", Get(Group)) /\ "normal" \in Class
    BY CommandTypes DEF Plain, Class
  <2>3. QED
    BY <2>1, <2>2 DEF HandleStop, QueueStop, HandleGetAll
<1>3. queue' \in [Class -> Seq(Command)] /\ CommandsPlain'
  BY <1>1, <1>2, Joins, JoinsPlain
<1>4. wanted' \in [Group -> [what : Level \union {Halt, Open}, sure : BOOLEAN]]
  BY <1>1, WantsType DEF HandleStop, HandleGetAll, Class, TypeOK
<1>5. ramp' \in [Group -> [from : Level, to : Level] \union {NoRamp}]
  BY <1>1 DEF HandleStop, CancelRamp, HandleGetAll, bridge, TypeOK
<1>6. asks' \in 0..MaxAsks /\ UNCHANGED <<level, goal, events, answers, known, pending, shown, crossed, turns, cover>>
  BY <1>1, AskType DEF HandleStop, HandleGetAll, bus, bridge
<1>7. QED
  BY <1>1, <1>3, <1>4, <1>5, <1>6 DEF GroupType, TypeOK, Topical, Topics

\* Something moves on the bus: a level taken, a stop.
LEMMA TakeLevelType ==
  ASSUME TypeOK, NEW g \in Group, NEW l \in Level, TakeLevel(g, l) \/ Stop(g)
  PROVE  /\ level' \in [Group -> Level] /\ goal' \in [Group -> Level \union {Still}]
         /\ events' \in [Group -> Seq(Level)]
         /\ \A h \in Group : h # g => level'[h] = level[h] /\ goal'[h] = goal[h] /\ events'[h] = events[h]
<1>1. level \in [Group -> Level] /\ goal \in [Group -> Level \union {Still}] /\ events \in [Group -> Seq(Level)]
  BY DEF TypeOK
<1>2. \A m \in Level : Append(events[g], m) \in Seq(Level)
  BY <1>1
<1>3. \A m \in Level : Report(g, m) =>
        events' \in [Group -> Seq(Level)] /\ \A h \in Group : h # g => events'[h] = events[h]
  BY <1>1, <1>2 DEF Report
<1>4. CASE TakeLevel(g, l)
  BY <1>1, <1>3, <1>4 DEF TakeLevel
<1>5. CASE Stop(g)
  BY <1>1, <1>3, <1>5 DEF Stop
<1>6. QED
  BY <1>4, <1>5

\* What the front does to the bus: it moves the one group that it is for, or asks.
LEMMA ExecuteFacts ==
  ASSUME GroupType, NEW class \in Class, NEW c \in Command, Plain(class, c), Execute(c)
  PROVE  \/ /\ c.verb = "get" /\ UNCHANGED <<level, goal, events>>
            /\ answers' = [g \in Group |-> IF g \in c.groups THEN Append(answers[g], level[g]) ELSE answers[g]]
         \/ /\ UNCHANGED answers
            /\ \E g \in Group : c.groups = {g} /\ \/ c.verb = "set" /\ TakeLevel(g, c.level)
                                                  \/ c.verb = "stop" /\ Stop(g)
<1>1. CASE c.verb = "get"
  BY <1>1 DEF Execute
<1>2. CASE c.verb # "get"
  <2>1. PICK g \in Group : c.groups = {g}
    BY <1>2 DEF Plain
  <2>2. QED
    BY <1>2, <2>1 DEF Execute
<1>3. QED
  BY <1>1, <1>2

\* a command that leaves the queue,
LEMMA DispatchType == GroupType /\ Dispatch => GroupType'
<1> SUFFICES ASSUME GroupType, Dispatch PROVE GroupType'
  OBVIOUS
<1>1. TypeOK /\ Topical /\ CommandsPlain
  BY DEF GroupType
<1>2. PICK class \in Front : /\ Execute(Head(queue[class]))
                             /\ queue' = [queue EXCEPT ![class] = Tail(@)]
                             /\ UNCHANGED <<bridge, wanted, crossed, asks, turns, cover>>
  BY DEF Dispatch
<1>3. class \in Class /\ Head(queue[class]) \in Command /\ Plain(class, Head(queue[class]))
  <2>1. /\ class \in Class /\ 1 \in DOMAIN queue[class] /\ Head(queue[class]) = queue[class][1]
        /\ queue[class][1] \in Command
    BY <1>1, <1>2, Leaves
  <2>2. Plain(class, queue[class][1])
    BY <1>1, <2>1 DEF CommandsPlain
  <2>3. QED
    BY <2>1, <2>2
<1>4. queue' \in [Class -> Seq(Command)] /\ CommandsPlain'
  BY <1>1, <1>2, Leaves, LeavesPlain
<1> DEFINE c == Head(queue[class])
<1>5. /\ level' \in [Group -> Level] /\ goal' \in [Group -> Level \union {Still}]
      /\ events' \in [Group -> Seq(Level)] /\ answers' \in [Group -> Seq(Level)]
  <2>0. c \in Command /\ c.level \in Level /\ Plain(class, c) /\ Execute(c)
    BY <1>2, <1>3 DEF Command
  <2> HIDE DEF c
  <2>1. CASE /\ c.verb = "get" /\ UNCHANGED <<level, goal, events>>
             /\ answers' = [g \in Group |-> IF g \in c.groups THEN Append(answers[g], level[g]) ELSE answers[g]]
    <3>1. ASSUME NEW g \in Group PROVE Append(answers[g], level[g]) \in Seq(Level) /\ answers[g] \in Seq(Level)
      <4>1. answers[g] \in Seq(Level) /\ level[g] \in Level
        BY <1>1 DEF TypeOK
      <4>2. QED
        BY <4>1
    <3>2. answers' \in [Group -> Seq(Level)]
      BY <2>1, <3>1
    <3>3. QED
      BY <1>1, <2>1, <3>2 DEF TypeOK
  <2>2. CASE UNCHANGED answers /\ \E g \in Group : TakeLevel(g, c.level) \/ Stop(g)
    BY <1>1, <2>0, <2>2, TakeLevelType DEF TypeOK
  <2>3. QED
    BY <1>3, <2>0, <2>1, <2>2, ExecuteFacts
<1>6. QED
  BY <1>1, <1>2, <1>4, <1>5 DEF GroupType, TypeOK, Topical, Topics, bridge

\* a level that moves, arrives or is turned at the wall,
LEMMA WorldType ==
  ASSUME GroupType, NEW g \in Group, Travel(g) \/ Arrive(g) \/ TurnAtWall(g)
  PROVE  GroupType'
<1>1. TypeOK /\ Topical /\ CommandsPlain
  BY DEF GroupType
<1>2. UNCHANGED <<answers, queue, known, pending, ramp, shown, crossed, asks, cover>>
  BY DEF Travel, Arrive, TurnAtWall, bridge
<1>3. /\ level' \in [Group -> Level] /\ goal' \in [Group -> Level \union {Still}]
      /\ events' \in [Group -> Seq(Level)] /\ turns' \in 0..MaxTurns
      /\ wanted' \in [Group -> [what : Level \union {Halt, Open}, sure : BOOLEAN]]
  <2>1. CASE Travel(g)
    <3>1. PICK l \in Between(level[g], goal[g]) : level' = [level EXCEPT ![g] = l]
      BY <2>1 DEF Travel
    <3>2. l \in Level
      <4>1. level[g] \in Level /\ goal[g] \in Level
        BY <1>1, <2>1 DEF Travel, TypeOK
      <4>2. QED
        BY <3>1, <4>1, LevelsAreNotMarks
    <3>3. QED
      BY <1>1, <2>1, <3>1, <3>2 DEF Travel, TypeOK
  <2>2. CASE Arrive(g)
    <3>1. goal[g] \in Level /\ Append(events[g], goal[g]) \in Seq(Level)
      BY <1>1, <2>2 DEF Arrive, TypeOK
    <3>2. QED
      BY <1>1, <2>2, <3>1 DEF Arrive, Report, TypeOK
  <2>3. CASE TurnAtWall(g)
    <3>1. turns' \in 0..MaxTurns
      BY <1>1, <2>3, BoundAssumption DEF TurnAtWall, TypeOK
    <3>2. wanted' \in [Group -> [what : Level \union {Halt, Open}, sure : BOOLEAN]]
      BY <1>1, <2>3, NotedType DEF TurnAtWall
    <3>3. \E l \in Level : TakeLevel(g, l) \/ Stop(g)
      BY <2>3, LevelsAreNotMarks DEF TurnAtWall
    <3>4. QED
      BY <1>1, <3>1, <3>2, <3>3, TakeLevelType
  <2>4. QED
    BY <2>1, <2>2, <2>3
<1>4. QED
  BY <1>1, <1>2, <1>3 DEF GroupType, TypeOK, Topical, Topics, CommandsPlain

\* What a line does to its own group: it is shown and known, and ends the estimates of a
\* cover; a waiting operation becomes a command to set the level it leads to.
LEMMA LineFacts ==
  ASSUME GroupType, NEW g \in Group, NEW l \in Level, HandleLine(g, l)
  PROVE  /\ shown' = [h \in Group |-> shown'[h]]
         /\ \A h \in Group : shown'[h] \in [Topics(h) -> 0..100 \union {Unknown}]
         /\ \A h \in Group : h # g => shown'[h] = shown[h]
         /\ pending[g] = 0 => queue' = queue /\ \A t \in Topics(g) : shown'[g][t] = Says(t, l)
         /\ pending[g] # 0 => Clamp(l + pending[g]) \in Level /\ QueueCommand("normal", Set(g, Clamp(l + pending[g])))
<1>1. TypeOK /\ Topical
  BY DEF GroupType
<1> DEFINE told == Show(g, Topics(g), l)
<1>2. /\ told = [h \in Group |-> told[h]]
      /\ \A h \in Group : told[h] \in [Topics(h) -> 0..100 \union {Unknown}]
      /\ \A h \in Group : h # g => told[h] = shown[h]
      /\ \A t \in Topics(g) : told[g][t] = Says(t, l)
  BY <1>1, ShowFacts
<1>3. CASE pending[g] = 0
  <2>1. shown' = told /\ queue' = queue
    BY <1>3 DEF HandleLine, PublishEvent
  <2> HIDE DEF told
  <2>2. QED
    BY <1>2, <1>3, <2>1
<1>4. CASE pending[g] # 0
  <2> DEFINE m == Clamp(l + pending[g])
  <2>1. m \in Level
    <3>1. l \in Int /\ pending[g] \in Int
      <4>1. pending[g] \in {0, RAMP_STEP, -RAMP_STEP}
        BY <1>1 DEF TypeOK
      <4>2. QED
        BY <4>1, LevelsAreNotMarks, LevelAssumption
    <3>2. QED
      BY <3>1, ClampLevel
  <2>2. /\ QueueCommand("normal", Set(g, m))
        /\ shown' = [told EXCEPT ![g].state = Says("state", m), ![g].level = Says("level", m)]
    BY <1>4 DEF HandleLine, PublishEvent
  <2> HIDE DEF told, m
  <2>3. Says("state", m) \in 0..100 /\ Says("level", m) \in 0..100
    BY <2>1, SaysType
  <2> DEFINE mine == [told[g] EXCEPT !.state = Says("state", m), !.level = Says("level", m)]
  <2>4. mine \in [Topics(g) -> 0..100 \union {Unknown}]
    BY <1>2, <2>3 DEF Topics
  <2>5. shown' = [h \in Group |-> IF h = g THEN mine ELSE told[h]]
    BY <1>2, <2>2
  <2> HIDE DEF mine
  <2>6. /\ shown' = [h \in Group |-> shown'[h]] /\ shown'[g] = mine
        /\ \A h \in Group : h # g => shown'[h] = told[h]
    BY <2>5
  <2>7. QED
    BY <1>2, <1>4, <2>1, <2>2, <2>4, <2>6 DEF m
<1>5. QED
  BY <1>3, <1>4

\* an event or an answer,
LEMMA LineType ==
  ASSUME GroupType, NEW g \in Group, HandleEvent(g) \/ HandleAnswer(g)
  PROVE  GroupType'
<1>1. TypeOK /\ Topical /\ CommandsPlain
  BY DEF GroupType
<1>2. PICK l \in Level : HandleLine(g, l)
  <2>1. CASE HandleEvent(g)
    <3>1. Head(events[g]) \in Level
      BY <1>1, <2>1 DEF HandleEvent, TypeOK
    <3>2. QED
      BY <2>1, <3>1 DEF HandleEvent
  <2>2. CASE HandleAnswer(g)
    <3>1. Head(answers[g]) \in Level
      BY <1>1, <2>2 DEF HandleAnswer, TypeOK
    <3>2. QED
      BY <2>2, <3>1 DEF HandleAnswer
  <2>3. QED
    BY <2>1, <2>2
<1>3. /\ shown' = [h \in Group |-> shown'[h]]
      /\ \A h \in Group : shown'[h] \in [Topics(h) -> 0..100 \union {Unknown}]
      /\ pending[g] = 0 => queue' = queue
      /\ pending[g] # 0 => Clamp(l + pending[g]) \in Level /\ QueueCommand("normal", Set(g, Clamp(l + pending[g])))
  BY <1>2, LineFacts
<1>4. queue' \in [Class -> Seq(Command)] /\ CommandsPlain'
  <2>1. CASE pending[g] = 0
    BY <1>1, <1>3, <2>1 DEF TypeOK, CommandsPlain
  <2>2. CASE pending[g] # 0
    <3> DEFINE c == Set(g, Clamp(l + pending[g]))
    <3>1. "normal" \in Class /\ c \in Command /\ Plain("normal", c) /\ QueueCommand("normal", c)
      BY <1>3, <2>2, CommandTypes DEF Class, Plain
    <3> HIDE DEF c
    <3>2. QED
      BY <1>1, <3>1, Joins, JoinsPlain
  <2>3. QED
    BY <2>1, <2>2
<1>5. /\ known' \in [Group -> Level \union {Unknown}] /\ pending' \in [Group -> {0, RAMP_STEP, -RAMP_STEP}]
      /\ ramp' \in [Group -> [from : Level, to : Level] \union {NoRamp}]
  BY <1>1, <1>2 DEF HandleLine, ReportEndsRamp, CancelRamp, TypeOK
<1>6. /\ events' \in [Group -> Seq(Level)] /\ answers' \in [Group -> Seq(Level)] /\ crossed' \in [Group -> BOOLEAN]
      /\ UNCHANGED <<level, goal, wanted, asks, turns, cover>>
  <2>1. CASE HandleEvent(g)
    <3>1. Tail(events[g]) \in Seq(Level)
      BY <1>1, <2>1 DEF HandleEvent, TypeOK
    <3>2. events' \in [Group -> Seq(Level)]
      BY <1>1, <2>1, <3>1 DEF HandleEvent, TypeOK
    <3>3. (answers[g] # <<>>) \in BOOLEAN
      OBVIOUS
    <3>4. crossed' \in [Group -> BOOLEAN]
      BY <1>1, <2>1, <3>3 DEF HandleEvent, TypeOK
    <3>5. QED
      BY <1>1, <2>1, <3>2, <3>4 DEF HandleEvent, TypeOK
  <2>2. CASE HandleAnswer(g)
    <3>1. Tail(answers[g]) \in Seq(Level)
      BY <1>1, <2>2 DEF HandleAnswer, TypeOK
    <3>2. QED
      BY <1>1, <2>2, <3>1 DEF HandleAnswer, TypeOK
  <2>3. QED
    BY <2>1, <2>2
<1>7. QED
  BY <1>1, <1>3, <1>4, <1>5, <1>6 DEF GroupType, TypeOK, Topical, Topics

\* and a timer.
LEMMA TimerType ==
  ASSUME GroupType, NEW g \in Group, OperationTimesOut(g) \/ Estimate(g)
  PROVE  GroupType'
<1>1. TypeOK /\ Topical /\ CommandsPlain
  BY DEF GroupType
<1>2. CASE OperationTimesOut(g)
  <2>1. wanted' \in [Group -> [what : Level \union {Halt, Open}, sure : BOOLEAN]]
    BY <1>1, <1>2, NotedType DEF OperationTimesOut
  <2>2. QED
    BY <1>1, <1>2, <2>1 DEF OperationTimesOut, bus, GroupType, TypeOK, Topical, Topics, CommandsPlain
<1>3. CASE Estimate(g)
  <2>1. ramp[g].from \in Level /\ ramp[g].to \in Level
    BY <1>1, <1>3 DEF Estimate, TypeOK
  <2>2. PICK l \in Level : shown' = Show(g, {"position", "level"}, l) /\ (ramp' = ramp \/ CancelRamp(g))
    BY <1>3, <2>1, LevelsAreNotMarks DEF Estimate
  <2>3. /\ shown' = [h \in Group |-> shown'[h]]
        /\ \A h \in Group : shown'[h] \in [Topics(h) -> 0..100 \union {Unknown}]
    BY <1>1, <2>2, ShowFacts
  <2>4. ramp' \in [Group -> [from : Level, to : Level] \union {NoRamp}]
    BY <1>1, <2>2 DEF CancelRamp, TypeOK
  <2>5. UNCHANGED <<level, goal, events, answers, queue, known, pending, wanted, crossed, asks, turns, cover>>
    BY <1>3 DEF Estimate, bus
  <2>6. QED
    BY <1>1, <2>3, <2>4, <2>5 DEF GroupType, TypeOK, Topical, Topics, CommandsPlain
<1>4. QED
  BY <1>2, <1>3

\* Every step keeps the types.
LEMMA NextType == GroupType /\ [Next]_vars => GroupType'
<1> SUFFICES ASSUME GroupType, [Next]_vars PROVE GroupType'
  OBVIOUS
<1>1. CASE Request
  BY <1>1, LevelRequestType, RelativeRequestType, PositionRequestType, StopRequestType DEF Request
<1>2. CASE Dispatch
  BY <1>2, DispatchType
<1>3. ASSUME NEW g \in Group, Travel(g) \/ Arrive(g) \/ TurnAtWall(g) PROVE GroupType'
  BY <1>3, WorldType
<1>4. ASSUME NEW g \in Group, HandleEvent(g) \/ HandleAnswer(g) \/ OperationTimesOut(g) \/ Estimate(g)
      PROVE  GroupType'
  BY <1>4, LineType, TimerType
<1>5. CASE UNCHANGED vars
  BY <1>5 DEF vars, bus, bridge, GroupType, TypeOK, Topical, Topics, CommandsPlain
<1>6. QED
  BY <1>1, <1>2, <1>3, <1>4, <1>5 DEF Next

-----------------------------------------------------------------------------
(* Every step keeps what is kept of a group *)

Own(g) == <<level[g], goal[g], events[g], answers[g], known[g], pending[g], ramp[g], shown[g], wanted[g], crossed[g]>>

\* A group that a step does not concern: its own state stays, and what joins or leaves
\* the queue does not move it.
LEMMA Untouched ==
  ASSUME GroupType, NEW g \in Group, Kept(g), Own(g)' = Own(g), cover' = cover,
         \/ queue' = queue
         \/ \E class \in Class, c \in Command : QueueCommand(class, c) /\ ~Moves(g, c)
         \/ \E class \in Front : queue' = [queue EXCEPT ![class] = Tail(@)] /\ ~Moves(g, Head(queue[class]))
  PROVE  Kept(g)'
<1>1. /\ Idle(g) <=> Idle(g)'
      /\ SetWaits(g) <=> SetWaits(g)'
      /\ \A l : LastIs(g, l) => LastIs(g, l)'
  <2>1. CASE queue' = queue
    BY <2>1 DEF Idle, SetWaits, LastIs, LastAt
  <2>2. CASE \E class \in Class, c \in Command : QueueCommand(class, c) /\ ~Moves(g, c)
    BY <2>2, JoinsElsewhere DEF GroupType
  <2>3. CASE \E class \in Front : queue' = [queue EXCEPT ![class] = Tail(@)] /\ ~Moves(g, Head(queue[class]))
    <3>1. PICK class \in Front : queue' = [queue EXCEPT ![class] = Tail(@)] /\ ~Moves(g, Head(queue[class]))
      BY <2>3
    <3>2. \A l : ~(Head(queue[class]) = Set(g, l))
      BY <3>1 DEF Set, Moves
    <3>3. QED
      BY <3>1, <3>2, LeavesMoves DEF GroupType
  <2>4. QED
    BY <2>1, <2>2, <2>3
<1>2. /\ level'[g] = level[g] /\ goal'[g] = goal[g] /\ events'[g] = events[g] /\ answers'[g] = answers[g]
      /\ known'[g] = known[g] /\ pending'[g] = pending[g] /\ ramp'[g] = ramp[g] /\ shown'[g] = shown[g]
      /\ wanted'[g] = wanted[g] /\ crossed'[g] = crossed[g]
  BY DEF Own
<1>3. LastWord(g)'
  BY <1>1, <1>2 DEF Kept, LastWord, Calm, Towards
<1>4. ReportsTrue(g)' /\ ShownCatchesUp(g)' /\ LightStill(g)'
  BY <1>1, <1>2 DEF Kept, ReportsTrue, ShownCatchesUp, LightStill, Topics
<1>5. QED
  BY <1>3, <1>4 DEF Kept

\* What holds of a group holds after a level was asked for,
LEMMA LevelRequestKept ==
  ASSUME GroupType, NEW g \in Group, NEW p \in Dial, HandleLevel(g, p), NEW h \in Group, Kept(h)
  PROVE  Kept(h)'
<1> DEFINE l == FromPercent(p)
<1>1. TypeOK /\ Topical /\ l \in Level /\ "normal" \in Class
  BY PercentLevel, DialAssumption DEF GroupType, Class
<1>2. /\ QueueCommand("normal", Set(g, l)) /\ Wants("normal", g, l) /\ shown' = Show(g, {"state", "level"}, l)
      /\ UNCHANGED <<level, goal, events, answers, known, pending, ramp, crossed, cover>>
  BY DEF HandleLevel, bus
<1> HIDE DEF l
<1>3. Set(g, l) \in Command /\ Set(g, l).groups = {g}
  BY <1>1, CommandTypes
<1>4. /\ wanted'[g].what = l /\ (wanted'[g].sure => pending[g] = 0)
      /\ \A k \in Group : k # g => wanted'[k] = wanted[k] /\ shown'[k] = shown[k]
  BY <1>1, <1>2, WantsType, ShowFacts
<1>5. CASE h # g
  BY <1>1, <1>2, <1>3, <1>4, <1>5, Untouched DEF Own, Moves
<1>6. CASE h = g
  <2>1. SetWaits(g)' /\ LastIs(g, l)'
    BY <1>1, <1>2, JoinsSet, ClassOrder
  <2>2. LastWord(g)'
    BY <1>1, <1>2, <1>4, <2>1, LevelsAreNotMarks DEF LastWord
  <2>3. ReportsTrue(g)' /\ ShownCatchesUp(g)' /\ LightStill(g)'
    BY <1>2, <1>6, <2>1 DEF Kept, ReportsTrue, ShownCatchesUp, LightStill
  <2>4. QED
    BY <1>6, <2>2, <2>3 DEF Kept
<1>7. QED
  BY <1>5, <1>6

\* a step up or down,
LEMMA RelativeRequestKept ==
  ASSUME GroupType, NEW g \in Group, NEW step \in {RAMP_STEP, -RAMP_STEP}, HandleRelativeLevel(g, step),
         NEW h \in Group, Kept(h)
  PROVE  Kept(h)'
<1>1. TypeOK /\ Get({g}) \in Command /\ Get({g}).verb = "get" /\ "normal" \in Class
  BY CommandTypes DEF GroupType, Class
<1>2. /\ QueueCommand("normal", Get({g})) /\ pending' = [pending EXCEPT ![g] = step]
      /\ wanted' = [wanted EXCEPT ![g] = [what |-> Clamp(level[g] + step), sure |-> Quiet(g)]]
      /\ UNCHANGED <<level, goal, events, answers, known, ramp, shown, crossed, cover>>
  BY DEF HandleRelativeLevel, SetupOperation, bus
<1>3. /\ \A k \in Group : k # g => pending'[k] = pending[k] /\ wanted'[k] = wanted[k]
      /\ pending'[g] = step /\ wanted'[g] = [what |-> Clamp(level[g] + step), sure |-> Quiet(g)]
  BY <1>1, <1>2 DEF TypeOK
<1>4. CASE h # g
  BY <1>1, <1>2, <1>3, <1>4, Untouched DEF Own, Moves
<1>5. CASE h = g
  <2>1. ~Moves(g, Get({g}))
    BY <1>1 DEF Moves
  <2>2. (Idle(g) <=> Idle(g)') /\ (SetWaits(g) <=> SetWaits(g)')
    BY <1>1, <1>2, <2>1, JoinsElsewhere
  <2>3. wanted'[g].sure => Calm(g)
    BY <1>1, <1>3, WaitsIsIdle
  <2>4. step # 0 /\ Clamp(level[g] + step) \in Level
    <3>1. level[g] \in Level
      BY <1>1 DEF TypeOK
    <3>2. level[g] \in Int
      BY <3>1, LevelsAreNotMarks
    <3>3. step \in Int /\ step # 0
      BY LevelAssumption
    <3>4. QED
      BY <3>2, <3>3, ClampLevel
  <2>5. wanted'[g].sure => Calm(g)'
    BY <1>2, <2>2, <2>3 DEF Calm
  <2>6. LastWord(g)'
    BY <1>2, <1>3, <2>4, <2>5, LevelsAreNotMarks DEF LastWord
  <2>7. ReportsTrue(g)' /\ ShownCatchesUp(g)' /\ LightStill(g)'
    BY <1>2, <1>5, <2>2 DEF Kept, ReportsTrue, ShownCatchesUp, LightStill, Topics
  <2>8. QED
    BY <1>5, <2>6, <2>7 DEF Kept
<1>6. QED
  BY <1>4, <1>5

\* a position,
LEMMA PositionRequestKept ==
  ASSUME GroupType, NEW g \in Group, NEW p \in Dial, NEW class \in {"interactive", "normal"},
         (g \in cover /\ HandlePosition(g, p)) \/ HandleSilent(class, g, p), NEW h \in Group, Kept(h)
  PROVE  Kept(h)'
<1> DEFINE l == FromPercent(p)
<1>1. TypeOK /\ l \in Level
  BY PercentLevel, DialAssumption DEF GroupType
<1>2. PICK k \in Class : QueueCommand(k, Set(g, l)) /\ Wants(k, g, l)
  BY DEF HandlePosition, HandleSilent, QueueRamp, Class
<1>3. /\ UNCHANGED <<level, goal, events, answers, known, pending, shown, crossed, cover>>
      /\ \A j \in Group : j # g => ramp'[j] = ramp[j]
      /\ g \notin cover => ramp' = ramp
  BY <1>1 DEF HandlePosition, StartCoverRamp, HandleSilent, bus, bridge, TypeOK
<1> HIDE DEF l
<1>4. Set(g, l) \in Command /\ Set(g, l).groups = {g}
  BY <1>1, CommandTypes
<1>5. /\ wanted'[g].what = l /\ (wanted'[g].sure => pending[g] = 0 /\ ~Overtakes(k, g))
      /\ \A j \in Group : j # g => wanted'[j] = wanted[j]
  BY <1>1, <1>2, WantsType
<1>6. CASE h # g
  BY <1>1, <1>2, <1>3, <1>4, <1>5, <1>6, Untouched DEF Own, Moves
<1>7. CASE h = g
  <2>1. SetWaits(g)' /\ (wanted'[g].sure => LastIs(g, l)')
    BY <1>1, <1>2, <1>5, JoinsSet, WaitsIsIdle
  <2>2. LastWord(g)'
    BY <1>1, <1>3, <1>5, <2>1, LevelsAreNotMarks DEF LastWord
  <2>3. ReportsTrue(g)' /\ ShownCatchesUp(g)' /\ LightStill(g)'
    BY <1>3, <1>7, <2>1 DEF Kept, ReportsTrue, ShownCatchesUp, LightStill
  <2>4. QED
    BY <1>7, <2>2, <2>3 DEF Kept
<1>8. QED
  BY <1>6, <1>7

\* A stop joins behind other stops, in front of everything else.
LEMMA StopRequestKept ==
  ASSUME GroupType, NEW g \in Group, HandleStop(g), NEW h \in Group, Kept(h)
  PROVE  Kept(h)'
<1> DEFINE c == TerminateRamp(g)
<1>1. TypeOK /\ CommandsPlain /\ c \in Command /\ c.verb = "stop" /\ c.groups = {g} /\ "critical" \in Class
  BY CommandTypes DEF GroupType, Class
<1>2. /\ QueueCommand("critical", c) /\ Wants("critical", g, Halt) /\ ramp' = [ramp EXCEPT ![g] = NoRamp]
      /\ UNCHANGED <<level, goal, events, answers, known, pending, shown, crossed, cover>>
  BY DEF HandleStop, QueueStop, CancelRamp, bus
<1> HIDE DEF c
<1>3. /\ wanted'[g].what = Halt /\ (wanted'[g].sure => pending[g] = 0 /\ ~Overtakes("critical", g))
      /\ \A j \in Group : j # g => wanted'[j] = wanted[j] /\ ramp'[j] = ramp[j]
      /\ ramp'[g] = NoRamp
  <2>1. /\ wanted'[g].what = Halt /\ (wanted'[g].sure => pending[g] = 0 /\ ~Overtakes("critical", g))
        /\ \A j \in Group : j # g => wanted'[j] = wanted[j]
    BY <1>1, <1>2, WantsType
  <2>2. ramp'[g] = NoRamp /\ \A j \in Group : j # g => ramp'[j] = ramp[j]
    BY <1>1, <1>2 DEF TypeOK
  <2>3. QED
    BY <2>1, <2>2
<1>4. CASE h # g
  BY <1>1, <1>2, <1>3, <1>4, Untouched DEF Own, Moves
<1>5. CASE h = g
  <2>1. /\ \A d \in Class : \A i \in DOMAIN queue[d] : i \in DOMAIN queue'[d] /\ queue'[d][i] = queue[d][i]
        /\ \A d \in Class : \A i \in DOMAIN queue'[d] :
             (i \in DOMAIN queue[d] /\ queue'[d][i] = queue[d][i]) \/ queue'[d][i] = c
        /\ Len(queue["critical"]) + 1 \in DOMAIN queue'["critical"]
        /\ queue'["critical"][Len(queue["critical"]) + 1] = c
    BY <1>1, <1>2, Joins
  <2>2. (SetWaits(g) <=> SetWaits(g)') /\ ~Idle(g)'
    BY <1>1, <2>1 DEF SetWaits, Idle, Moves
  <2>3. ~Overtakes("critical", g) => ~SetWaits(g)
    <3>1. ASSUME NEW d \in Class, NEW i \in DOMAIN queue[d], queue[d][i].verb = "set", g \in queue[d][i].groups
          PROVE  Overtakes("critical", g)
      <4>1. d # "critical"
        BY <1>1, <3>1 DEF CommandsPlain, Plain
      <4>2. Rank["critical"] < Rank[d] /\ Moves(g, queue[d][i])
        BY <3>1, <4>1, ClassOrder DEF Moves
      <4>3. QED
        BY <1>1, <3>1, <4>2, WaitsIsIdle
    <3>2. QED
      BY <3>1 DEF SetWaits
  <2>4. LastWord(g)'
    BY <1>2, <1>3, <2>2, <2>3, LevelsAreNotMarks DEF LastWord
  <2>5. ReportsTrue(g)' /\ ShownCatchesUp(g)' /\ LightStill(g)'
    BY <1>2, <1>3, <1>5, <2>2 DEF Kept, ReportsTrue, ShownCatchesUp, LightStill, Topics
  <2>6. QED
    BY <1>5, <2>4, <2>5 DEF Kept
<1>6. QED
  BY <1>4, <1>5

\* a read of all groups,
LEMMA GetAllKept ==
  ASSUME GroupType, HandleGetAll, NEW h \in Group, Kept(h)
  PROVE  Kept(h)'
<1>1. TypeOK /\ Get(Group) \in Command /\ Get(Group).verb = "get" /\ "normal" \in Class
  BY CommandTypes DEF GroupType, Class
<1>2. QueueCommand("normal", Get(Group)) /\ UNCHANGED <<bus, bridge, wanted, crossed, cover>>
  BY DEF HandleGetAll
<1>3. QED
  BY <1>1, <1>2, Untouched DEF Own, Moves, bus, bridge

\* A group that moves: it has a report to make, or is on its way to one.
LEMMA Moved ==
  ASSUME GroupType, NEW g \in Group, Kept(g), NEW l \in Level, TakeLevel(g, l) \/ Stop(g),
         UNCHANGED <<cover, answers, known, ramp, crossed>>
  PROVE  /\ ReportsTrue(g)' /\ LightStill(g)'
         /\ \/ goal'[g] # Still \/ events'[g] # <<>>
            \/ goal[g] = Still /\ UNCHANGED <<level, goal, events>> /\ Stop(g)
         /\ TakeLevel(g, l) => Towards(g, l)'
         /\ Stop(g) => goal'[g] = Still
<1>1. /\ level \in [Group -> Level] /\ goal \in [Group -> Level \union {Still}] /\ events \in [Group -> Seq(Level)]
      /\ level[g] \in Level
  BY DEF GroupType, TypeOK
<1>2. LightStill(g) /\ ReportsTrue(g)
  BY DEF Kept
<1>3. ASSUME NEW m \in Level, Report(g, m)
      PROVE  events'[g] # <<>> /\ events'[g][Len(events'[g])] = m
  <2>1. events'[g] = Append(events[g], m) /\ events[g] \in Seq(Level)
    BY <1>1, <1>3 DEF Report
  <2>2. QED
    BY <2>1
<1>4. CASE TakeLevel(g, l) /\ g \notin cover
  <2>1. level' = [level EXCEPT ![g] = l] /\ Report(g, l) /\ goal' = goal /\ goal[g] = Still
    BY <1>2, <1>4 DEF TakeLevel, LightStill
  <2>2. level'[g] = l /\ goal'[g] = Still /\ events'[g] # <<>> /\ events'[g][Len(events'[g])] = l
    BY <1>1, <1>3, <2>1
  <2>3. ~Stop(g) \/ goal'[g] = Still
    BY <2>2
  <2>4. QED
    BY <1>2, <2>1, <2>2 DEF ReportsTrue, LightStill, Towards
<1>5. CASE TakeLevel(g, l) /\ g \in cover
  <2>1. goal' = [goal EXCEPT ![g] = l] /\ UNCHANGED <<level, events>> /\ l # Still
    BY <1>5, LevelsAreNotMarks DEF TakeLevel
  <2>2. goal'[g] = l /\ goal'[g] # Still
    BY <1>1, <2>1
  <2>3. ~Stop(g)
    <3>1. goal[g] # Still => ~Stop(g)
      BY <1>1, <2>2 DEF Stop
    <3>2. goal[g] = Still => ~Stop(g)
      BY <2>2 DEF Stop
    <3>3. QED
      BY <3>1, <3>2
  <2>4. QED
    BY <1>5, <2>2, <2>3 DEF ReportsTrue, LightStill, Towards
<1>6. CASE ~TakeLevel(g, l) /\ Stop(g) /\ goal[g] = Still
  <2>1. UNCHANGED <<level, goal, events>>
    BY <1>6 DEF Stop
  <2>2. QED
    BY <1>2, <1>6, <2>1 DEF ReportsTrue, LightStill
<1>7. CASE ~TakeLevel(g, l) /\ Stop(g) /\ goal[g] # Still
  <2>1. goal' = [goal EXCEPT ![g] = Still] /\ Report(g, level[g]) /\ level' = level
    BY <1>7 DEF Stop
  <2>2. goal'[g] = Still /\ events'[g] # <<>> /\ events'[g][Len(events'[g])] = level'[g]
    BY <1>1, <1>3, <2>1
  <2>3. QED
    BY <1>2, <1>7, <2>2 DEF ReportsTrue, LightStill
<1>8. QED
  BY <1>4, <1>5, <1>6, <1>7

\* a command that leaves the queue,
LEMMA DispatchKept ==
  ASSUME GroupType, Dispatch, NEW h \in Group, Kept(h)
  PROVE  Kept(h)'
<1>1. TypeOK /\ CommandsPlain
  BY DEF GroupType
<1>2. PICK class \in Front : /\ Execute(Head(queue[class]))
                             /\ queue' = [queue EXCEPT ![class] = Tail(@)]
                             /\ UNCHANGED <<bridge, wanted, crossed, asks, turns, cover>>
  BY DEF Dispatch
<1> DEFINE c == Head(queue[class])
<1>3. class \in Class /\ 1 \in DOMAIN queue[class] /\ c = queue[class][1] /\ c \in Command /\ Plain(class, c)
  <2>1. class \in Class /\ 1 \in DOMAIN queue[class] /\ c = queue[class][1] /\ c \in Command
    BY <1>1, <1>2, Leaves
  <2>2. Plain(class, queue[class][1])
    BY <1>1, <2>1 DEF CommandsPlain
  <2>3. QED
    BY <2>1, <2>2
<1>4. /\ Idle(h) => Idle(h)' /\ ~Moves(h, c)
      /\ SetWaits(h)' => SetWaits(h)
      /\ ~Moves(h, c) => (Idle(h)' => Idle(h)) /\ (SetWaits(h) => SetWaits(h)')
      /\ c.verb # "set" => (SetWaits(h) => SetWaits(h)')
      /\ \A l : LastIs(h, l) => LastIs(h, l)' \/ (c = Set(h, l) /\ Idle(h)')
  BY <1>1, <1>2, LeavesMoves
<1>5. UNCHANGED <<known, pending, ramp, shown, wanted, crossed, cover>>
  BY <1>2 DEF bridge
<1> HIDE DEF c
<1>6. CASE /\ c.verb = "get" /\ UNCHANGED <<level, goal, events>>
           /\ answers' = [g \in Group |-> IF g \in c.groups THEN Append(answers[g], level[g]) ELSE answers[g]]
  <2>1. ~Moves(h, c)
    BY <1>6 DEF Moves
  <2>2. CASE h \notin c.groups
    <3>1. answers'[h] = answers[h]
      BY <1>6, <2>2
    <3>2. Own(h)' = Own(h)
      BY <1>5, <1>6, <3>1 DEF Own
    <3>3. QED
      BY <1>2, <1>5, <2>1, <3>2, Untouched DEF c
  <2>3. CASE h \in c.groups
    <3>1. answers'[h] = Append(answers[h], level[h]) /\ answers[h] \in Seq(Level) /\ level[h] \in Level
      BY <1>1, <1>6, <2>3 DEF TypeOK
    <3>2. (\A i \in DOMAIN answers[h] : answers[h][i] = level[h]) => \A i \in DOMAIN answers'[h] : answers'[h][i] = level[h]
      BY <3>1
    <3>3. Calm(h) => Calm(h)'
      BY <1>4, <1>6, <3>2 DEF Calm
    <3>4. \A l : ~(c = Set(h, l))
      BY <1>6 DEF Set
    <3>5. LastWord(h)'
      BY <1>4, <1>5, <1>6, <2>1, <3>3, <3>4 DEF Kept, LastWord, Towards
    <3>6. ReportsTrue(h)'
      BY <1>5, <1>6, <3>2 DEF Kept, ReportsTrue
    <3>7. ShownCatchesUp(h)' /\ LightStill(h)'
      BY <1>4, <1>5, <1>6, <2>1 DEF Kept, ShownCatchesUp, LightStill, Topics
    <3>8. QED
      BY <3>5, <3>6, <3>7 DEF Kept
  <2>4. QED
    BY <2>2, <2>3
<1>7. ASSUME UNCHANGED answers, NEW g \in Group, c.groups = {g},
             \/ c.verb = "set" /\ TakeLevel(g, c.level)
             \/ c.verb = "stop" /\ Stop(g)
      PROVE  Kept(h)'
  <2>1. PICK l \in Level : l = c.level
    BY <1>3 DEF Command
  <2>2. CASE h # g
    <3>1. level'[h] = level[h] /\ goal'[h] = goal[h] /\ events'[h] = events[h]
      BY <1>1, <1>7, <2>1, <2>2, TakeLevelType
    <3>2. Own(h)' = Own(h) /\ ~Moves(h, c)
      BY <1>5, <1>7, <2>2, <3>1 DEF Own, Moves
    <3>3. QED
      BY <1>2, <1>5, <3>2, Untouched DEF c
  <2>3. CASE h = g
    <3>0. (c.verb = "set" /\ TakeLevel(h, l)) \/ (c.verb = "stop" /\ Stop(h))
      BY <1>7, <2>1, <2>3
    <3>1. /\ ReportsTrue(h)' /\ LightStill(h)'
          /\ \/ goal'[h] # Still \/ events'[h] # <<>>
             \/ goal[h] = Still /\ UNCHANGED <<level, goal, events>> /\ Stop(h)
          /\ TakeLevel(h, l) => Towards(h, l)'
          /\ Stop(h) => goal'[h] = Still
      <4>1. UNCHANGED <<cover, answers, known, ramp, crossed>>
        BY <1>5, <1>7
      <4>2. QED
        BY <3>0, <4>1, Moved
    <3>2. Moves(h, c) /\ ~Idle(h)
      BY <1>4, <1>7, <2>3 DEF Moves
    <3>3. CASE c.verb = "set" /\ TakeLevel(h, l)
      <4>1. SetWaits(h)
        BY <1>3, <1>7, <2>3, <3>3 DEF SetWaits
      <4>2. goal'[h] # Still \/ events'[h] # <<>>
        <5>1. CASE h \in cover
          <6>1. goal'[h] = l
            BY <1>1, <3>3, <5>1 DEF TakeLevel, TypeOK
          <6>2. QED
            BY <2>1, <6>1, LevelsAreNotMarks
        <5>2. CASE h \notin cover
          <6>1. events'[h] = Append(events[h], l) /\ events[h] \in Seq(Level)
            BY <1>1, <3>3, <5>2 DEF TakeLevel, Report, TypeOK
          <6>2. QED
            BY <2>1, <6>1
        <5>3. QED
          BY <5>1, <5>2
      <4>3. \A m : c = Set(h, m) => m = l
        BY <2>1 DEF Set
      <4>4. LastWord(h)'
        BY <1>4, <1>5, <3>1, <3>2, <3>3, <4>1, <4>3 DEF Kept, LastWord, Calm
      <4>5. ShownCatchesUp(h)'
        BY <4>2 DEF ShownCatchesUp
      <4>6. QED
        BY <3>1, <4>4, <4>5 DEF Kept
    <3>4. CASE c.verb = "stop" /\ Stop(h)
      <4>1. \A m : ~(c = Set(h, m))
        BY <3>4 DEF Set
      <4>2. LastWord(h)'
        BY <1>4, <1>5, <3>1, <3>2, <3>4, <4>1 DEF Kept, LastWord, Calm
      <4>3. SetWaits(h) => SetWaits(h)'
        BY <1>4, <3>4
      <4>4. ShownCatchesUp(h)'
        BY <1>5, <3>1, <4>3 DEF Kept, ShownCatchesUp, Topics
      <4>5. QED
        BY <3>1, <4>2, <4>4 DEF Kept
    <3>5. QED
      BY <3>0, <3>3, <3>4
  <2>4. QED
    BY <2>2, <2>3
<1>8. QED
  BY <1>2, <1>3, <1>6, <1>7, ExecuteFacts DEF c

\* a level that moves, arrives or is turned at the wall,
LEMMA WorldKept ==
  ASSUME GroupType, NEW g \in Group, Travel(g) \/ Arrive(g) \/ TurnAtWall(g), NEW h \in Group, Kept(h)
  PROVE  Kept(h)'
<1>1. TypeOK
  BY DEF GroupType
<1>2. UNCHANGED <<answers, queue, known, pending, ramp, shown, crossed, cover>>
  BY DEF Travel, Arrive, TurnAtWall, bridge
<1>3. CASE Travel(g)
  <2>1. /\ goal[g] # Still /\ UNCHANGED <<goal, events, wanted>>
        /\ \A k \in Group : k # g => level'[k] = level[k]
    BY <1>1, <1>3 DEF Travel, TypeOK
  <2>2. CASE h # g
    BY <1>2, <2>1, <2>2, Untouched DEF Own
  <2>3. CASE h = g
    BY <1>2, <2>1, <2>3 DEF Kept, LastWord, LastIs, LastAt, Idle, Calm, Towards, SetWaits, ReportsTrue,
                            ShownCatchesUp, LightStill
  <2>4. QED
    BY <2>2, <2>3
<1>4. CASE Arrive(g)
  <2>1. /\ goal[g] \in Level /\ goal[g] # Still /\ events[g] \in Seq(Level)
        /\ level' = [level EXCEPT ![g] = goal[g]] /\ goal' = [goal EXCEPT ![g] = Still]
        /\ events' = [events EXCEPT ![g] = Append(@, goal[g])] /\ UNCHANGED wanted
    BY <1>1, <1>4, LevelsAreNotMarks DEF Arrive, Report, TypeOK
  <2>2. \A k \in Group : k # g => level'[k] = level[k] /\ goal'[k] = goal[k] /\ events'[k] = events[k]
    BY <1>1, <2>1 DEF TypeOK
  <2>3. CASE h # g
    BY <1>2, <2>1, <2>2, <2>3, Untouched DEF Own
  <2>4. CASE h = g
    <3>1. /\ level'[g] = goal[g] /\ goal'[g] = Still /\ events'[g] = Append(events[g], goal[g])
      BY <1>1, <2>1 DEF TypeOK
    <3>2. events'[g] # <<>> /\ events'[g][Len(events'[g])] = level'[g]
      <4>1. PICK m \in Level : m = goal[g]
        BY <2>1
      <4>2. events'[g] = Append(events[g], m) /\ events[g] \in Seq(Level) /\ level'[g] = m
        BY <2>1, <3>1, <4>1
      <4>3. QED
        BY <4>2
    <3>3. (Idle(g) <=> Idle(g)') /\ (SetWaits(g) <=> SetWaits(g)') /\ \A l : LastIs(g, l) <=> LastIs(g, l)'
      BY <1>2 DEF Idle, SetWaits, LastIs, LastAt
    <3>4. LastWord(g)'
      BY <1>2, <2>1, <2>4, <3>1, <3>3 DEF Kept, LastWord, Calm, Towards
    <3>5. ReportsTrue(g)' /\ ShownCatchesUp(g)' /\ LightStill(g)'
      BY <1>2, <2>4, <3>1, <3>2 DEF Kept, ReportsTrue, ShownCatchesUp, LightStill
    <3>6. QED
      BY <2>4, <3>4, <3>5 DEF Kept
  <2>5. QED
    BY <2>3, <2>4
<1>5. CASE TurnAtWall(g)
  <2>1. PICK l \in Level : TakeLevel(g, l) \/ (goal[g] # Still /\ Stop(g))
    BY <1>5, LevelsAreNotMarks DEF TurnAtWall
  <2>2. \A k \in Group : k # g => level'[k] = level[k] /\ goal'[k] = goal[k] /\ events'[k] = events[k]
    BY <1>1, <2>1, TakeLevelType
  <2>3. wanted'[g].sure = FALSE /\ \A k \in Group : k # g => wanted'[k] = wanted[k]
    BY <1>1, <1>5, NotedType DEF TurnAtWall
  <2>4. CASE h # g
    BY <1>2, <2>2, <2>3, <2>4, Untouched DEF Own
  <2>5. CASE h = g
    <3>1. ReportsTrue(g)' /\ LightStill(g)'
      BY <1>2, <2>1, <2>5, Moved
    <3>2. goal'[g] # Still \/ events'[g] # <<>>
      <4>1. CASE TakeLevel(g, l) /\ g \in cover
        BY <1>1, <4>1, LevelsAreNotMarks DEF TakeLevel, TypeOK
      <4>2. CASE TakeLevel(g, l) /\ g \notin cover
        <5>1. events'[g] = Append(events[g], l) /\ events[g] \in Seq(Level)
          BY <1>1, <4>2 DEF TakeLevel, Report, TypeOK
        <5>2. QED
          BY <5>1
      <4>3. CASE goal[g] # Still /\ Stop(g)
        <5>1. events'[g] = Append(events[g], level[g]) /\ events[g] \in Seq(Level) /\ level[g] \in Level
          BY <1>1, <4>3 DEF Stop, Report, TypeOK
        <5>2. QED
          BY <5>1
      <4>4. QED
        BY <2>1, <4>1, <4>2, <4>3
    <3>3. LastWord(g)' /\ ShownCatchesUp(g)'
      BY <2>3, <3>2 DEF LastWord, ShownCatchesUp
    <3>4. QED
      BY <2>5, <3>1, <3>3 DEF Kept
  <2>6. QED
    BY <2>4, <2>5
<1>6. QED
  BY <1>3, <1>4, <1>5

\* A line of another group.
LEMMA LineElsewhere ==
  ASSUME GroupType, NEW g \in Group, HandleEvent(g) \/ HandleAnswer(g), NEW h \in Group, h # g, Kept(h)
  PROVE  Kept(h)'
<1>1. TypeOK
  BY DEF GroupType
<1>2. PICK l \in Level : HandleLine(g, l)
  <2>1. HandleEvent(g) => Head(events[g]) \in Level /\ HandleLine(g, Head(events[g]))
    BY <1>1 DEF HandleEvent, TypeOK
  <2>2. HandleAnswer(g) => Head(answers[g]) \in Level /\ HandleLine(g, Head(answers[g]))
    BY <1>1 DEF HandleAnswer, TypeOK
  <2>3. QED
    BY <2>1, <2>2
<1>3. /\ shown'[h] = shown[h]
      /\ pending[g] = 0 => queue' = queue
      /\ pending[g] # 0 => Clamp(l + pending[g]) \in Level /\ QueueCommand("normal", Set(g, Clamp(l + pending[g])))
  BY <1>2, LineFacts
<1>4. UNCHANGED <<level, goal, wanted, cover>>
  BY DEF HandleEvent, HandleAnswer
<1>5. known'[h] = known[h] /\ pending'[h] = pending[h] /\ ramp'[h] = ramp[h]
  BY <1>1, <1>2 DEF HandleLine, ReportEndsRamp, CancelRamp, TypeOK
<1>6. events'[h] = events[h] /\ answers'[h] = answers[h] /\ crossed'[h] = crossed[h]
  BY <1>1 DEF HandleEvent, HandleAnswer, TypeOK
<1>7. Own(h)' = Own(h)
  BY <1>3, <1>4, <1>5, <1>6 DEF Own
<1>8. queue' = queue \/ \E class \in Class, c \in Command : QueueCommand(class, c) /\ ~Moves(h, c)
  <2>1. CASE pending[g] # 0
    <3> DEFINE c == Set(g, Clamp(l + pending[g]))
    <3>1. "normal" \in Class /\ c \in Command /\ c.groups = {g} /\ QueueCommand("normal", c)
      BY <1>3, <2>1, CommandTypes DEF Class
    <3> HIDE DEF c
    <3>2. QED
      BY <3>1 DEF Moves
  <2>2. QED
    BY <1>3, <2>1
<1>9. QED
  BY <1>4, <1>7, <1>8, Untouched

\* A line of g: what it says is known and shown, unless it started a command that will
\* say so itself.
LEMMA LineShown ==
  ASSUME GroupType, NEW g \in Group, NEW l \in Level, HandleLine(g, l), Kept(g), cover' = cover
  PROVE  /\ known'[g] = l /\ pending'[g] = 0 /\ ramp'[g] = NoRamp
         /\ LightStill(g)' <=> (g \notin cover => goal'[g] = Still)
         /\ SetWaits(g)' \/ \A t \in Topics(g) : shown'[g][t] = Says(t, l)
         /\ pending[g] = 0 => queue' = queue
         /\ pending[g] # 0 => \E m \in Level : m = Clamp(l + pending[g]) /\ LastIs(g, m)'
<1>1. TypeOK /\ LightStill(g)
  BY DEF GroupType, Kept
<1>2. known'[g] = l /\ pending'[g] = 0 /\ ramp'[g] = NoRamp
  BY <1>1 DEF HandleLine, ReportEndsRamp, CancelRamp, TypeOK, LightStill
<1>3. /\ pending[g] = 0 => queue' = queue /\ \A t \in Topics(g) : shown'[g][t] = Says(t, l)
      /\ pending[g] # 0 => Clamp(l + pending[g]) \in Level /\ QueueCommand("normal", Set(g, Clamp(l + pending[g])))
  BY LineFacts
<1>4. ASSUME pending[g] # 0 PROVE SetWaits(g)' /\ \E m \in Level : m = Clamp(l + pending[g]) /\ LastIs(g, m)'
  <2>1. PICK m \in Level : m = Clamp(l + pending[g])
    BY <1>3, <1>4
  <2>2. QueueCommand("normal", Set(g, m)) /\ "normal" \in Class
    BY <1>3, <1>4, <2>1 DEF Class
  <2>3. SetWaits(g)' /\ LastIs(g, m)'
    BY <1>1, <2>2, JoinsSet, ClassOrder
  <2>4. QED
    BY <2>1, <2>3
<1>5. QED
  BY <1>2, <1>3, <1>4 DEF LightStill

\* an event,
LEMMA EventKept ==
  ASSUME GroupType, NEW g \in Group, HandleEvent(g), Kept(g)
  PROVE  Kept(g)'
<1>1. TypeOK
  BY DEF GroupType
<1>2. PICK l \in Level : l = Head(events[g])
  BY <1>1 DEF HandleEvent, TypeOK
<1>3. /\ events[g] # <<>> /\ HandleLine(g, l)
      /\ UNCHANGED <<level, goal, answers, wanted, cover>>
      /\ events'[g] = Tail(events[g]) /\ crossed'[g] = (answers[g] # <<>>)
  BY <1>1, <1>2 DEF HandleEvent, TypeOK
<1>4. /\ known'[g] = l /\ pending'[g] = 0 /\ ramp'[g] = NoRamp
      /\ LightStill(g)' <=> (g \notin cover => goal'[g] = Still)
      /\ SetWaits(g)' \/ \A t \in Topics(g) : shown'[g][t] = Says(t, l)
      /\ pending[g] = 0 => queue' = queue
  BY <1>3, LineShown
<1>5. LastWord(g)'
  BY <1>3, <1>4 DEF Kept, LastWord, Calm, LastIs, LastAt, Idle, Towards, SetWaits
<1>6. ReportsTrue(g)'
  <2> DEFINE s == events[g]
  <2>1. s \in Seq(Level) /\ s # <<>> /\ l = Head(s) /\ events'[g] = Tail(s)
    BY <1>1, <1>2, <1>3 DEF TypeOK
  <2>2. goal[g] = Still => s[Len(s)] = level[g]
    BY <1>3 DEF Kept, ReportsTrue
  <2> HIDE DEF s
  <2>3. CASE Tail(s) = <<>>
    <3>1. Len(s) = 1 /\ l = s[1]
      <4>1. Len(s) \in Nat \ {0} /\ l = s[1] /\ DOMAIN Tail(s) = 1..(Len(s) - 1)
        BY <2>1
      <4>2. DOMAIN Tail(s) = {}
        BY <2>3
      <4>3. ~(1 \in 1..(Len(s) - 1))
        BY <4>1, <4>2
      <4>4. QED
        BY <4>1, <4>3
    <3>2. goal'[g] = Still => known'[g] = level'[g]
      BY <1>3, <1>4, <2>2, <3>1
    <3>3. ~crossed'[g] => answers'[g] = <<>>
      BY <1>3
    <3>4. QED
      BY <2>1, <2>3, <3>2, <3>3 DEF ReportsTrue
  <2>4. CASE Tail(s) # <<>>
    <3>1. Len(Tail(s)) = Len(s) - 1 /\ Tail(s)[Len(Tail(s))] = s[Len(s)]
      BY <2>1, <2>4
    <3>2. QED
      BY <1>3, <2>1, <2>2, <2>4, <3>1 DEF ReportsTrue
  <2>5. QED
    BY <2>3, <2>4
<1>7. ShownCatchesUp(g)' /\ LightStill(g)'
  BY <1>3, <1>4 DEF Kept, ShownCatchesUp, LightStill, Topics
<1>8. QED
  BY <1>5, <1>6, <1>7 DEF Kept

\* an answer,
LEMMA AnswerKept ==
  ASSUME GroupType, NEW g \in Group, HandleAnswer(g), Kept(g)
  PROVE  Kept(g)'
<1>1. TypeOK
  BY DEF GroupType
<1>2. PICK l \in Level : l = Head(answers[g])
  BY <1>1 DEF HandleAnswer, TypeOK
<1>3. /\ answers[g] # <<>> /\ HandleLine(g, l)
      /\ UNCHANGED <<level, goal, events, wanted, crossed, cover>>
      /\ answers'[g] = Tail(answers[g])
  BY <1>1, <1>2 DEF HandleAnswer, TypeOK
<1>4. /\ known'[g] = l /\ pending'[g] = 0 /\ ramp'[g] = NoRamp
      /\ LightStill(g)' <=> (g \notin cover => goal'[g] = Still)
      /\ SetWaits(g)' \/ \A t \in Topics(g) : shown'[g][t] = Says(t, l)
      /\ pending[g] = 0 => queue' = queue
      /\ pending[g] # 0 => \E m \in Level : m = Clamp(l + pending[g]) /\ LastIs(g, m)'
  BY <1>3, LineShown
<1>5. /\ 1 \in DOMAIN answers[g] /\ l = answers[g][1]
      /\ \A i \in DOMAIN Tail(answers[g]) : i + 1 \in DOMAIN answers[g] /\ Tail(answers[g])[i] = answers[g][i + 1]
  <2>1. answers[g] \in Seq(Level) /\ answers[g] # <<>>
    BY <1>1, <1>3 DEF TypeOK
  <2>2. QED
    BY <1>2, <2>1
<1>6. LastWord(g)'
  <2>1. CASE pending[g] = 0
    BY <1>3, <1>4, <2>1 DEF Kept, LastWord, Calm, LastIs, LastAt, Idle, Towards, SetWaits
  <2>2. CASE pending[g] # 0
    <3>1. PICK m \in Level : m = Clamp(l + pending[g]) /\ LastIs(g, m)'
      BY <1>4, <2>2
    <3>2. ASSUME wanted[g].sure PROVE wanted[g].what # Halt /\ (wanted[g].what \in Level => wanted[g].what = m)
      <4>1. wanted[g].what \in Level => l = level[g]
        BY <1>5, <2>2, <3>2 DEF Kept, LastWord, Calm
      <4>2. QED
        BY <2>2, <3>1, <3>2, <4>1 DEF Kept, LastWord
    <3>3. QED
      BY <1>3, <1>4, <3>1, <3>2 DEF LastWord
  <2>3. QED
    BY <2>1, <2>2
<1>7. ReportsTrue(g)'
  BY <1>3, <1>4, <1>5 DEF Kept, ReportsTrue
<1>8. ShownCatchesUp(g)' /\ LightStill(g)'
  BY <1>3, <1>4 DEF Kept, ShownCatchesUp, LightStill, Topics
<1>9. QED
  BY <1>6, <1>7, <1>8 DEF Kept

\* and a timer.
LEMMA TimerKept ==
  ASSUME GroupType, NEW g \in Group, OperationTimesOut(g) \/ Estimate(g), NEW h \in Group, Kept(h)
  PROVE  Kept(h)'
<1>1. TypeOK /\ Topical
  BY DEF GroupType
<1>2. CASE OperationTimesOut(g)
  <2>1. /\ wanted'[g].sure = FALSE /\ \A k \in Group : k # g => wanted'[k] = wanted[k] /\ pending'[k] = pending[k]
        /\ UNCHANGED <<level, goal, events, answers, queue, known, ramp, shown, crossed, cover>>
    BY <1>1, <1>2, NotedType DEF OperationTimesOut, bus, TypeOK
  <2>2. CASE h # g
    BY <2>1, <2>2, Untouched DEF Own
  <2>3. CASE h = g
    BY <2>1, <2>3 DEF Kept, LastWord, ReportsTrue, ShownCatchesUp, LightStill, SetWaits, Topics
  <2>4. QED
    BY <2>2, <2>3
<1>3. CASE Estimate(g)
  <2>1. ramp[g] # NoRamp /\ UNCHANGED <<level, goal, events, answers, queue, known, pending, wanted, crossed, cover>>
    BY <1>3 DEF Estimate, bus
  <2>2. PICK l \in Level : shown' = Show(g, {"position", "level"}, l) /\ (ramp' = ramp \/ CancelRamp(g))
    <3>1. ramp[g].from \in Level /\ ramp[g].to \in Level
      BY <1>1, <2>1 DEF TypeOK
    <3>2. QED
      BY <1>3, <3>1, LevelsAreNotMarks DEF Estimate
  <2>3. \A k \in Group : k # g => shown'[k] = shown[k] /\ ramp'[k] = ramp[k]
    <3>1. \A k \in Group : k # g => shown'[k] = shown[k]
      BY <1>1, <2>2, ShowFacts
    <3>2. \A k \in Group : k # g => ramp'[k] = ramp[k]
      BY <1>1, <2>2 DEF CancelRamp, TypeOK
    <3>3. QED
      BY <3>1, <3>2
  <2>4. CASE h # g
    BY <2>1, <2>3, <2>4, Untouched DEF Own
  <2>5. CASE h = g
    <3>1. g \in cover /\ (~SetWaits(g) => goal[g] # Still \/ events[g] # <<>>)
      BY <2>1, <2>5 DEF Kept, LightStill, ShownCatchesUp
    <3>2. (Idle(g) <=> Idle(g)') /\ (SetWaits(g) <=> SetWaits(g)') /\ \A m : LastIs(g, m) <=> LastIs(g, m)'
      BY <2>1 DEF Idle, SetWaits, LastIs, LastAt
    <3>3. LastWord(g)'
      BY <2>1, <2>5, <3>2 DEF Kept, LastWord, Calm, Towards
    <3>4. ReportsTrue(g)' /\ ShownCatchesUp(g)' /\ LightStill(g)'
      BY <2>1, <2>5, <3>1, <3>2 DEF Kept, ReportsTrue, ShownCatchesUp, LightStill
    <3>5. QED
      BY <2>5, <3>3, <3>4 DEF Kept
  <2>6. QED
    BY <2>4, <2>5
<1>4. QED
  BY <1>2, <1>3

-----------------------------------------------------------------------------
(* The theorems *)

\* At the start every group rests.
LEMMA InitInv == Init => GroupInv
<1> SUFFICES ASSUME Init PROVE GroupInv
  OBVIOUS
<1>1. TypeOK
  BY LevelsAreNotMarks, BoundAssumption DEF Init, TypeOK
<1>2. Topical /\ CommandsPlain
  BY DEF Init, Topical, CommandsPlain
<1>3. ASSUME NEW g \in Group PROVE Kept(g)
  <2>1. /\ goal[g] = Still /\ events[g] = <<>> /\ answers[g] = <<>> /\ known[g] = Unknown
        /\ ramp[g] = NoRamp /\ wanted[g].sure = FALSE
    BY DEF Init
  <2>2. QED
    BY <2>1 DEF Kept, LastWord, ReportsTrue, ShownCatchesUp, LightStill
<1>4. QED
  BY <1>1, <1>2, <1>3 DEF GroupInv

\* Every step keeps the invariant.
LEMMA NextInv == GroupInv /\ [Next]_vars => GroupInv'
<1> SUFFICES ASSUME GroupInv, [Next]_vars PROVE GroupInv'
  OBVIOUS
<1>1. GroupType /\ \A g \in Group : Kept(g)
  BY DEF GroupInv, GroupType
<1>2. GroupType'
  BY <1>1, NextType
<1>3. ASSUME NEW h \in Group PROVE Kept(h)'
  <2>1. Kept(h)
    BY <1>1
  <2>2. CASE Request
    BY <1>1, <2>1, <2>2, LevelRequestKept, RelativeRequestKept, PositionRequestKept, StopRequestKept, GetAllKept
       DEF Request
  <2>3. CASE Dispatch
    BY <1>1, <2>1, <2>3, DispatchKept
  <2>4. CASE \E g \in Group : Travel(g) \/ Arrive(g) \/ TurnAtWall(g)
    BY <1>1, <2>1, <2>4, WorldKept
  <2>5. ASSUME NEW g \in Group, HandleEvent(g) \/ HandleAnswer(g) PROVE Kept(h)'
    <3>1. CASE h = g
      BY <1>1, <2>1, <2>5, <3>1, EventKept, AnswerKept
    <3>2. CASE h # g
      BY <1>1, <2>1, <2>5, <3>2, LineElsewhere
    <3>3. QED
      BY <3>1, <3>2
  <2>6. CASE \E g \in Group : OperationTimesOut(g) \/ Estimate(g)
    BY <1>1, <2>1, <2>6, TimerKept
  <2>7. CASE UNCHANGED vars
    BY <1>1, <2>1, <2>7, Untouched DEF vars, bus, bridge, Own
  <2>8. QED
    BY <2>2, <2>3, <2>4, <2>5, <2>6, <2>7 DEF Next
<1>4. QED
  BY <1>2, <1>3 DEF GroupInv, GroupType

\* So it always holds.
LEMMA GroupInvariant == Spec => []GroupInv
BY InitInv, NextInv, PTL DEF Spec

\* At rest what is shown, known and done of a group is right, for any groups, levels and
\* number of requests, whatever the order in which commands leave the queue and lines
\* come back (mqttCommandRouter.js:718-1018, eventPublisher.js:528-635,
\* coverRampTracker.js:47-87).
THEOREM GroupsRestRight == Spec => []RestAgrees
<1>1. GroupInv => RestAgrees
  <2> SUFFICES ASSUME GroupInv PROVE RestAgrees
    OBVIOUS
  <2>1. TypeOK /\ \A g \in Group : Kept(g)
    BY DEF GroupInv
  <2>2. ASSUME NEW g \in Group, Settled(g)
        PROVE  /\ Idle(g) /\ ~SetWaits(g) /\ goal[g] = Still /\ events[g] = <<>> /\ answers[g] = <<>>
               /\ pending[g] = 0 /\ \A l : ~LastIs(g, l)
    <3>1. Calm(g) /\ answers[g] = <<>> /\ pending[g] = 0
      BY <2>1, <2>2, WaitsIsIdle DEF Settled
    <3>2. ~SetWaits(g)
      BY <3>1 DEF Calm, Idle, SetWaits, Moves
    <3>3. ASSUME NEW l, LastIs(g, l) PROVE FALSE
      <4>1. PICK k \in Class, i \in Nat : LastAt(g, l, k, i)
        BY <3>3 DEF LastIs
      <4>2. i \in DOMAIN queue[k] /\ g \in queue[k][i].groups /\ queue[k][i].verb = "set"
        BY <4>1 DEF LastAt, Set
      <4>3. QED
        BY <3>2, <4>2 DEF SetWaits
    <3>4. QED
      BY <3>1, <3>2, <3>3 DEF Calm
  <2>3. StateAgrees
    BY <2>1, <2>2 DEF StateAgrees, Kept, ReportsTrue, ShownCatchesUp
  <2>4. LatestRequestWins
    <3> SUFFICES ASSUME NEW g \in Group, Settled(g), wanted[g].sure, wanted[g].what \in Level
                 PROVE  level[g] = wanted[g].what
      BY DEF LatestRequestWins
    <3>1. Towards(g, wanted[g].what) /\ goal[g] = Still
      BY <2>1, <2>2 DEF Kept, LastWord
    <3>2. QED
      BY <3>1, LevelsAreNotMarks DEF Towards
  <2>5. QED
    BY <2>1, <2>3, <2>4 DEF RestAgrees
<1>2. QED
  BY <1>1, GroupInvariant, PTL

\* A cover that was stopped, with nothing asked or turned since and no command waiting,
\* does not travel (mqttCommandRouter.js, _handleStop; throttledQueue.js:117-146).
THEOREM StopsAreHonoured == Spec => []StopHonoured
<1>1. GroupInv => StopHonoured
  <2> SUFFICES ASSUME GroupInv, NEW g \in cover, wanted[g].what = Halt, wanted[g].sure, ~Waits(g, {"set", "stop"})
               PROVE  goal[g] = Still
    BY DEF StopHonoured
  <2>1. TypeOK /\ g \in Group
    BY DEF GroupInv, TypeOK
  <2>2. Kept(g)
    BY <2>1 DEF GroupInv
  <2>3. Idle(g)
    BY <2>1, WaitsIsIdle
  <2>4. QED
    BY <2>2, <2>3 DEF Kept, LastWord
<1>2. QED
  BY <1>1, GroupInvariant, PTL
=============================================================================
