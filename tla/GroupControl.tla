---------------------------- MODULE GroupControl ----------------------------
(***************************************************************************)
(* Lights and covers: what an MQTT request becomes (src/src/mqttCommand-   *)
(* Router.js, cbusCommand.js), in which order the commands leave the queue,*)
(* what the lines C-Gate sends back do (eventPublisher.js, deviceState-    *)
(* Manager.js), and the positions estimated while a cover is under way     *)
(* (coverRampTracker.js).                                                  *)
(*                                                                         *)
(* C-Gate and the bus are external.  A light takes its level at once; a    *)
(* cover travels, may be seen on the way, and reports where it comes to    *)
(* rest.  Reports come on the event connection and answers to GET on the   *)
(* command connection: each keeps its order, the two may cross.  Commands  *)
(* are carried out in the order sent.  The queue (ThrottledQueue) is its   *)
(* promise (PriorityDispatch) here: oldest of the most urgent class, at    *)
(* any later moment.                                                       *)
(***************************************************************************)
EXTENDS Integers, Sequences

CONSTANTS
  Group,            \* group addresses
  CGATE_LEVEL_MAX,  \* 255
  RAMP_STEP,        \* 26
  Dial,             \* the percentages asked for
  Seen,             \* the percentages seen on the way
  MaxAsks,          \* bound: requests
  MaxTurns          \* bound: what somebody does at the wall

ASSUME LevelAssumption == CGATE_LEVEL_MAX \in Nat \ {0} /\ RAMP_STEP \in Nat \ {0}
ASSUME DialAssumption == Dial \subseteq 0..100 /\ Seen \subseteq 0..100
ASSUME BoundAssumption == MaxAsks \in Nat /\ MaxTurns \in Nat

VARIABLES
  cover,    \* the groups that are covers, by application or label (fixed)
  level,    \* of each group, on the bus
  goal,     \* where a travelling cover is going, or Still
  queue,    \* the waiting commands of each class
  events,   \* per group: reports on the event connection
  answers,  \* per group: answers on the command connection
  known,    \* DeviceStateManager._deviceLevels
  pending,  \* activeOperations: the step of the operation waiting for a level, or 0
  ramp,     \* CoverRampTracker._ramps: [from, to], or NoRamp
  shown,    \* per group and topic: the last value published
  wanted,   \* history: the level the last request stands for, or Halt or Open, and
            \* whether no older request could act after it
  crossed,  \* history: the last report overtook an answer still on its way
  asks, turns

bus == <<level, goal, events, answers>>
bridge == <<known, pending, ramp, shown>>
vars == <<cover, bus, queue, bridge, wanted, crossed, asks, turns>>

-----------------------------------------------------------------------------
(* Groups, levels and commands *)

Level == 0..CGATE_LEVEL_MAX
Unknown == -1
Still == -1
NoRamp == [from |-> -1, to |-> -1]
Halt == -1
Open == -2

\* Percentages and levels, rounded as Math.round does.
FromPercent(p) == (2 * p * CGATE_LEVEL_MAX + 100) \div 200
Percent(l) == (200 * l + CGATE_LEVEL_MAX) \div (2 * CGATE_LEVEL_MAX)

Clamp(l) == IF l < 0 THEN 0 ELSE IF l > CGATE_LEVEL_MAX THEN CGATE_LEVEL_MAX ELSE l

\* Levels somebody may see between a and b.
Between(a, b) == {l \in {FromPercent(p) : p \in Seen} : (a < l /\ l < b) \/ (b < l /\ l < a)}

Class == {"critical", "interactive", "normal"}
Rank == [critical |-> 1, interactive |-> 2, normal |-> 3]

Set(g, l) == [verb |-> "set", groups |-> {g}, level |-> l]
TerminateRamp(g) == [verb |-> "stop", groups |-> {g}, level |-> 0]
Get(gs) == [verb |-> "get", groups |-> gs, level |-> 0]
Command == [verb : {"set", "stop", "get"}, groups : SUBSET Group, level : Level]

Waiting(class) == {queue[class][i] : i \in DOMAIN queue[class]}

QueueCommand(class, c) == queue' = [queue EXCEPT ![class] = Append(@, c)]

\* What a topic says of level l.
Says(topic, l) == IF topic = "state" THEN (IF l > 0 THEN 1 ELSE 0) ELSE Percent(l)
Topics(g) == {"state", "level"} \union (IF g \in cover THEN {"position"} ELSE {})
Show(g, topics, l) == [shown EXCEPT ![g] = [t \in DOMAIN @ |-> IF t \in topics THEN Says(t, l) ELSE @[t]]]

-----------------------------------------------------------------------------
(* What the requests stand for (history) *)

\* Commands of g that a command of this class overtakes.
Overtakes(class, g) == \E d \in Class : Rank[class] < Rank[d] /\
  \E c \in Waiting(d) : g \in c.groups /\ c.verb # "get"

Waits(g, verbs) == \E d \in Class : \E c \in Waiting(d) : g \in c.groups /\ c.verb \in verbs

\* Nothing is about to change g, and what is said of it is true.
Quiet(g) ==
  /\ ~Waits(g, {"set", "stop"}) /\ goal[g] = Still
  /\ events[g] = <<>> /\ \A i \in DOMAIN answers[g] : answers[g][i] = level[g]

\* Nothing of g is under way anywhere.
Settled(g) ==
  Quiet(g) /\ ~Waits(g, {"get"}) /\ answers[g] = <<>> /\ pending[g] = 0 /\ ramp[g] = NoRamp

\* The last request is for l; it is the last word unless an older one acts later.
Wants(class, g, l) ==
  wanted' = [wanted EXCEPT ![g] = [what |-> l, sure |-> pending[g] = 0 /\ ~Overtakes(class, g)]]

-----------------------------------------------------------------------------
(* The requests: MqttCommandRouter *)

Ask == asks < MaxAsks /\ asks' = asks + 1

\* _handleSwitch, and _handleRamp with ON, OFF or a percentage.
HandleLevel(g, p) ==
  LET l == FromPercent(p)
  IN  /\ Ask
      /\ QueueCommand("normal", Set(g, l))
      /\ shown' = Show(g, {"state", "level"}, l)
      /\ Wants("normal", g, l)
      /\ UNCHANGED <<bus, known, pending, ramp, crossed, turns, cover>>

\* cancelRelativeLevelOperation, then setupRelativeLevelOperation.
SetupOperation(g, step) == pending' = [pending EXCEPT ![g] = step]

\* _handleRelativeLevel: INCREASE and DECREASE.
HandleRelativeLevel(g, step) ==
  /\ Ask
  /\ SetupOperation(g, step)
  /\ QueueCommand("normal", Get({g}))
  /\ wanted' = [wanted EXCEPT ![g] = [what |-> Clamp(level[g] + step), sure |-> Quiet(g)]]
  /\ UNCHANGED <<bus, known, ramp, shown, crossed, turns, cover>>

\* _startCoverRamp: from the level last heard, or from 0.
StartCoverRamp(g, l) ==
  ramp' = [ramp EXCEPT ![g] = [from |-> IF known[g] = Unknown THEN 0 ELSE known[g], to |-> l]]

\* Mutation: a level of 0 is taken for a missing one.
QueueRampIfTrue(class, g, l) == IF l = 0 THEN queue' = queue ELSE QueueCommand(class, Set(g, l))

\* _queueRampCommand
QueueRamp(class, g, l) == QueueCommand(class, Set(g, l))

\* _handlePosition, which Home Assistant is offered for covers only.
HandlePosition(g, p) ==
  /\ Ask
  /\ QueueRamp("interactive", g, FromPercent(p))
  /\ StartCoverRamp(g, FromPercent(p))
  /\ Wants("interactive", g, FromPercent(p))
  /\ UNCHANGED <<bus, known, pending, shown, crossed, turns, cover>>

\* _handleTilt ("interactive") and _handleTrigger ("normal"): nothing is published.
HandleSilent(class, g, p) ==
  /\ Ask
  /\ QueueRamp(class, g, FromPercent(p))
  /\ Wants(class, g, FromPercent(p))
  /\ UNCHANGED <<bus, bridge, crossed, turns, cover>>

CancelRamp(g) == ramp' = [ramp EXCEPT ![g] = NoRamp]

\* Mutation: the payload STOP is not known.
DropStop(g) == queue' = queue

QueueStop(g) == QueueCommand("critical", TerminateRamp(g))

\* _handleStop, from the stop topic or the payload STOP of the switch topic.
HandleStop(g) ==
  /\ Ask
  /\ QueueStop(g)
  /\ CancelRamp(g)
  /\ Wants("critical", g, Halt)
  /\ UNCHANGED <<bus, known, pending, shown, crossed, turns, cover>>

\* _handleGetAll
HandleGetAll ==
  /\ Ask
  /\ QueueCommand("normal", Get(Group))
  /\ UNCHANGED <<bus, bridge, wanted, crossed, turns, cover>>

-----------------------------------------------------------------------------
(* The queue's front at C-Gate *)

Front == {c \in Class : queue[c] # <<>> /\ \A d \in Class : queue[d] # <<>> => Rank[c] <= Rank[d]}

Report(g, l) == events' = [events EXCEPT ![g] = Append(@, l)]

\* A light takes the level and reports it, a cover sets out.
TakeLevel(g, l) ==
  IF g \notin cover
  THEN level' = [level EXCEPT ![g] = l] /\ Report(g, l) /\ goal' = goal
  ELSE goal' = [goal EXCEPT ![g] = l] /\ UNCHANGED <<level, events>>

\* What travels stops where it is and reports.
Stop(g) ==
  IF goal[g] = Still THEN UNCHANGED <<level, goal, events>>
  ELSE goal' = [goal EXCEPT ![g] = Still] /\ Report(g, level[g]) /\ level' = level

Execute(c) ==
  \/ /\ c.verb = "set"
     /\ \E g \in c.groups : TakeLevel(g, c.level)
     /\ answers' = answers
  \/ /\ c.verb = "stop"
     /\ \E g \in c.groups : Stop(g)
     /\ answers' = answers
  \/ /\ c.verb = "get"
     /\ answers' = [g \in Group |-> IF g \in c.groups THEN Append(answers[g], level[g]) ELSE answers[g]]
     /\ UNCHANGED <<level, goal, events>>

\* The next command is sent and carried out.
Dispatch == \E class \in Front :
  /\ Execute(Head(queue[class]))
  /\ queue' = [queue EXCEPT ![class] = Tail(@)]
  /\ UNCHANGED <<bridge, wanted, crossed, asks, turns, cover>>

\* A cover is seen on its way.
Travel(g) ==
  /\ goal[g] # Still
  /\ \E l \in Between(level[g], goal[g]) : level' = [level EXCEPT ![g] = l]
  /\ UNCHANGED <<goal, events, answers, queue, bridge, wanted, crossed, asks, turns, cover>>

\* It is where it was going.
Arrive(g) ==
  /\ goal[g] # Still
  /\ level' = [level EXCEPT ![g] = goal[g]]
  /\ goal' = [goal EXCEPT ![g] = Still]
  /\ Report(g, goal[g])
  /\ UNCHANGED <<answers, queue, bridge, wanted, crossed, asks, turns, cover>>

\* Somebody uses the wall switch: full, none, or a cover stopped.
TurnAtWall(g) ==
  /\ turns < MaxTurns /\ turns' = turns + 1
  /\ \/ \E l \in {0, CGATE_LEVEL_MAX} : TakeLevel(g, l)
     \/ goal[g] # Still /\ Stop(g)
  /\ wanted' = [wanted EXCEPT ![g] = [what |-> Open, sure |-> FALSE]]
  /\ UNCHANGED <<answers, queue, bridge, crossed, asks, cover>>

-----------------------------------------------------------------------------
(* A line about a group, from either connection *)

\* publishEvent: EVENT_KIND_HANDLERS.status.
PublishEvent(g, l) == Show(g, Topics(g), l)

\* Mutation: estimates survive the report.
ReportKeepsRamp(g) == ramp' = ramp

\* publishEvent: what is heard of a cover ends its estimates.
ReportEndsRamp(g) == IF g \in cover THEN CancelRamp(g) ELSE ramp' = ramp

\* publishEvent and updateLevelFromEvent, whose level event runs the waiting operation.
HandleLine(g, l) ==
  /\ ReportEndsRamp(g)
  /\ known' = [known EXCEPT ![g] = l]
  /\ pending' = [pending EXCEPT ![g] = 0]
  /\ IF pending[g] = 0
     THEN shown' = PublishEvent(g, l) /\ queue' = queue
     ELSE LET newLevel == Clamp(l + pending[g])
          IN  /\ QueueCommand("normal", Set(g, newLevel))
              /\ shown' = [PublishEvent(g, l) EXCEPT
                             ![g].state = Says("state", newLevel), ![g].level = Says("level", newLevel)]

HandleEvent(g) ==
  /\ events[g] # <<>>
  /\ HandleLine(g, Head(events[g]))
  /\ events' = [events EXCEPT ![g] = Tail(@)]
  /\ crossed' = [crossed EXCEPT ![g] = answers[g] # <<>>]
  /\ UNCHANGED <<level, goal, answers, wanted, asks, turns, cover>>

HandleAnswer(g) ==
  /\ answers[g] # <<>>
  /\ HandleLine(g, Head(answers[g]))
  /\ answers' = [answers EXCEPT ![g] = Tail(@)]
  /\ UNCHANGED <<level, goal, events, wanted, crossed, asks, turns, cover>>

\* The timer of setupRelativeLevelOperation.
OperationTimesOut(g) ==
  /\ pending[g] # 0
  /\ pending' = [pending EXCEPT ![g] = 0]
  /\ wanted' = [wanted EXCEPT ![g] = [what |-> Open, sure |-> FALSE]]
  /\ UNCHANGED <<bus, queue, known, ramp, shown, crossed, asks, turns, cover>>

\* The interval of startRamp: an estimate, or the end of the ramp.
Estimate(g) ==
  /\ ramp[g] # NoRamp
  /\ \/ \E l \in Between(ramp[g].from, ramp[g].to) : shown' = Show(g, {"position", "level"}, l) /\ ramp' = ramp
     \/ shown' = Show(g, {"position", "level"}, ramp[g].to) /\ CancelRamp(g)
  /\ UNCHANGED <<bus, queue, known, pending, wanted, crossed, asks, turns, cover>>

-----------------------------------------------------------------------------
(* Specification *)

Init ==
  /\ cover \in SUBSET Group
  /\ level \in [Group -> {0, CGATE_LEVEL_MAX}]
  /\ goal = [g \in Group |-> Still]
  /\ queue = [c \in Class |-> <<>>]
  /\ events = [g \in Group |-> <<>>] /\ answers = [g \in Group |-> <<>>]
  /\ known = [g \in Group |-> Unknown]
  /\ pending = [g \in Group |-> 0] /\ ramp = [g \in Group |-> NoRamp]
  /\ shown = [g \in Group |-> [t \in Topics(g) |-> Unknown]]
  /\ wanted = [g \in Group |-> [what |-> Open, sure |-> FALSE]]
  /\ crossed = [g \in Group |-> FALSE]
  /\ asks = 0 /\ turns = 0

Request == \E g \in Group :
  \/ \E p \in Dial : HandleLevel(g, p)
  \/ \E step \in {RAMP_STEP, -RAMP_STEP} : HandleRelativeLevel(g, step)
  \/ g \in cover /\ \E p \in Dial : HandlePosition(g, p)
  \/ \E p \in Dial, class \in {"interactive", "normal"} : HandleSilent(class, g, p)
  \/ HandleStop(g)
  \/ HandleGetAll

Next ==
  \/ Request
  \/ Dispatch
  \/ \E g \in Group : Travel(g) \/ Arrive(g) \/ TurnAtWall(g)
  \/ \E g \in Group : HandleEvent(g) \/ HandleAnswer(g) \/ OperationTimesOut(g) \/ Estimate(g)

Spec == Init /\ [][Next]_vars

\* The queue drains while a connection is up, lines are read, covers get there and
\* timers fire.
Fairness ==
  /\ WF_vars(Dispatch)
  /\ \A g \in Group : /\ WF_vars(Arrive(g)) /\ WF_vars(HandleEvent(g)) /\ WF_vars(HandleAnswer(g))
                      /\ WF_vars(OperationTimesOut(g))

FairSpec == Spec /\ Fairness

-----------------------------------------------------------------------------
(* Properties *)

TypeOK ==
  /\ cover \in SUBSET Group
  /\ level \in [Group -> Level] /\ goal \in [Group -> Level \union {Still}]
  /\ queue \in [Class -> Seq(Command)]
  /\ events \in [Group -> Seq(Level)] /\ answers \in [Group -> Seq(Level)]
  /\ known \in [Group -> Level \union {Unknown}]
  /\ pending \in [Group -> {0, RAMP_STEP, -RAMP_STEP}]
  /\ ramp \in [Group -> [from : Level, to : Level] \union {NoRamp}]
  /\ \A g \in Group : shown[g] \in [Topics(g) -> 0..100 \union {Unknown}]
  /\ wanted \in [Group -> [what : Level \union {Halt, Open}, sure : BOOLEAN]]
  /\ crossed \in [Group -> BOOLEAN]
  /\ asks \in 0..MaxAsks /\ turns \in 0..MaxTurns

\* When nothing of a group is under way, Home Assistant shows its level on every topic, and
\* the bridge knows it: no estimate, optimistic value or late line is left standing
\* (_publishOptimisticLightState, cancelRamp in publishEvent).  The exception is an answer
\* that an event overtook.
StateAgrees == \A g \in Group :
  Settled(g) /\ known[g] # Unknown /\ ~crossed[g] =>
    known[g] = level[g] /\ \A t \in Topics(g) : shown[g][t] = Says(t, level[g])

\* When nothing of a group is under way, its level is what the last request stands for,
\* except where an older request could still act when it was made: a relative operation
\* that waited for a level, or a command that waited in a less urgent class.
LatestRequestWins == \A g \in Group :
  Settled(g) /\ wanted[g].sure /\ wanted[g].what \in Level => level[g] = wanted[g].what

\* At rest what is shown, known and done of a group is right
\* (mqttCommandRouter.js:718-1018, eventPublisher.js:528-635, coverRampTracker.js:47-87).
RestAgrees == TypeOK /\ StateAgrees /\ LatestRequestWins

\* A cover that was stopped, with nothing asked or turned since and no command waiting, does
\* not travel, with the exceptions of LatestRequestWins (_handleStop).
StopHonoured == \A g \in cover :
  wanted[g].what = Halt /\ wanted[g].sure /\ ~Waits(g, {"set", "stop"}) => goal[g] = Still

\* Every request that no older one can undo is carried out or replaced.
RequestObeyed == \A g \in Group : \A p \in Dial :
  LET asked == wanted[g].sure /\ wanted[g].what = FromPercent(p)
  IN  asked ~> level[g] = FromPercent(p) \/ ~asked

=============================================================================
