------------------------------ MODULE MqttOutbox ------------------------------
(***************************************************************************)
(* Retained state on its way to the broker: coalescing and deduplication   *)
(* (src/src/eventPublisher.js), the queue of an outage and its replay      *)
(* (src/src/mqttManager.js).                                               *)
(*                                                                         *)
(* The topics are those of one address.  A Map is a sequence of entries    *)
(* with distinct topics, in insertion order.                               *)
(***************************************************************************)
EXTENDS EventTopics

CONSTANTS
  BusEvents,    \* events of the bus
  MaxPending,   \* mqttPendingPublishMaxEntries
  MaxRecent,    \* eventPublishDedupMaxEntries
  MaxTrouble    \* bound: events of the bus, outages, lost publishes

ASSUME OutboxAssumption ==
  /\ MaxPending \in Nat \ {0} /\ MaxRecent \in Nat \ {0} /\ MaxTrouble \in Nat
  /\ (\A e \in BusEvents : IsEvent(e)) /\ OneAddress(BusEvents)

VARIABLES
  mode,         \* settings: coalesce, dedup
  out,          \* buffer, recent, pending: Maps; broker: retained values by topic;
                \*   gone: topics whose newest value an eviction, the broker or an
                \*   error lost
  latest,       \* the newest value of each topic the bus told
  link,         \* connected, as mqttManager knows it
  trouble

outVars == <<mode, out, latest, link, trouble>>

-----------------------------------------------------------------------------
(* Maps *)

Entries(m)  == {m[i] : i \in DOMAIN m}
TopicsIn(m) == {m[i].topic : i \in DOMAIN m}

\* Where topic t is in m, the last place if m is not a Map but a list of publications.
Place(m, t)   == CHOOSE i \in DOMAIN m : m[i].topic = t /\ \A j \in DOMAIN m : m[j].topic = t => j <= i
ValueIn(m, t) == m[Place(m, t)].payload

\* Map.delete.
Drop(m, t) ==
  IF t \notin TopicsIn(m) THEN m
  ELSE [i \in 1..(Len(m) - 1) |-> IF i < Place(m, t) THEN m[i] ELSE m[i + 1]]

\* Map.set: a known key keeps its place.
SetInPlace(m, p) ==
  IF p.topic \in TopicsIn(m) THEN [m EXCEPT ![Place(m, p.topic)] = p] ELSE Append(m, p)

\* The values v by topic, and then what m says.
Told(v, m) ==
  [t \in DOMAIN v \cup TopicsIn(m) |-> IF t \in TopicsIn(m) THEN ValueIn(m, t) ELSE v[t]]

-----------------------------------------------------------------------------
(* Publishing *)

\* _enqueueRetainedPublish: the newest value last, the oldest entry evicted.
\* Mutation: the value queued first stays.
EnqueueRetainedFirst(s, p) ==
  IF p.topic \in TopicsIn(s.pending) THEN s ELSE [s EXCEPT !.pending = Append(@, p)]

EnqueueRetained(s, p) ==
  LET queued == Append(Drop(s.pending, p.topic), p)
  IN  IF Len(queued) > MaxPending
        THEN [s EXCEPT !.pending = Tail(queued), !.gone = (@ \ {p.topic}) \cup {Head(queued).topic}]
        ELSE [s EXCEPT !.pending = queued, !.gone = @ \ {p.topic}]

\* The client takes what it is given.
Deliver(s, m) == [s EXCEPT !.broker = Told(@, m), !.gone = @ \ TopicsIn(m)]

\* mqttManager.publish.
Publish(s, p) == IF link THEN Deliver(s, <<p>>) ELSE EnqueueRetained(s, p)

\* _publishNow: an identical payload of the topic within the window is dropped.
\* _pruneDedupCache keeps the newest entries.
PublishNow(s, p) ==
  IF ~mode.dedup THEN Publish(s, p)
  ELSE IF p \in Entries(s.recent) THEN s
  ELSE LET noted == SetInPlace(s.recent, p)
       IN  Publish([s EXCEPT !.recent = IF Len(noted) > MaxRecent THEN Tail(noted) ELSE noted], p)

\* _publishIfNeeded.
PublishIfNeeded(coalesce, s, p) ==
  IF coalesce THEN [s EXCEPT !.buffer = SetInPlace(@, p)] ELSE PublishNow(s, p)

\* The publications ps, one after the other.
PublishEach(coalesce, s, ps) ==
  LET after[n \in 0..Len(ps)] ==
        IF n = 0 THEN s ELSE PublishIfNeeded(coalesce, after[n - 1], ps[n])
  IN  after[Len(ps)]

-----------------------------------------------------------------------------
(* Actions *)

Trouble == trouble < MaxTrouble /\ trouble' = trouble + 1

NoOutput == [buffer |-> <<>>, recent |-> <<>>, pending |-> <<>>, broker |-> <<>>, gone |-> {}]

OutboxInit ==
  /\ mode \in [coalesce : BOOLEAN, dedup : BOOLEAN]
  /\ out = NoOutput /\ latest = <<>> /\ link = FALSE /\ trouble = 0

EventPublished(e) ==
  /\ Trouble
  /\ out' = PublishEach(mode.coalesce, out, Publications(e))
  /\ latest' = Told(latest, Publications(e))
  /\ UNCHANGED <<mode, link>>

\* _flushCoalesceBuffer.
FlushBuffer ==
  /\ out.buffer # <<>>
  /\ out' = PublishEach(FALSE, [out EXCEPT !.buffer = <<>>], out.buffer)
  /\ UNCHANGED <<mode, latest, link, trouble>>

\* The window of a topic's last publish ends.
WindowEnds(t) ==
  /\ t \in TopicsIn(out.recent)
  /\ out' = [out EXCEPT !.recent = Drop(@, t)]
  /\ UNCHANGED <<mode, latest, link, trouble>>

\* 'connect': the queue of the outage is replayed; its topics are distinct, so that the
\* order does not show.
BrokerConnects ==
  /\ ~link /\ link' = TRUE
  /\ out' = Deliver([out EXCEPT !.pending = <<>>], out.pending)
  /\ UNCHANGED <<mode, latest, trouble>>

\* 'close' or 'error'.  The broker may come back without its retained messages, or
\* without what it was last sent.
BrokerLost(lostTopics) ==
  /\ Trouble /\ link /\ link' = FALSE
  /\ out' = [out EXCEPT !.gone = @ \cup lostTopics,
                        !.broker = [t \in DOMAIN @ \ lostTopics |-> @[t]]]
  /\ UNCHANGED <<mode, latest>>

\* shutdown(), and the next process: what was not sent is lost.
PublisherRestarts ==
  /\ Trouble /\ link' = FALSE
  /\ out' = [NoOutput EXCEPT !.broker = out.broker,
                             !.gone = out.gone \cup TopicsIn(out.buffer) \cup TopicsIn(out.pending)]
  /\ UNCHANGED <<mode, latest>>

OutboxNext ==
  \/ \E e \in BusEvents : EventPublished(e)
  \/ FlushBuffer \/ BrokerConnects \/ PublisherRestarts
  \/ \E t \in TopicsIn(out.recent) : WindowEnds(t)
  \/ \E lostTopics \in {{}, DOMAIN out.broker} : BrokerLost(lostTopics)

OutboxSpec == OutboxInit /\ [][OutboxNext]_outVars

-----------------------------------------------------------------------------
(* Properties *)

Settled == link /\ out.buffer = <<>>

Shown(t) == t \in DOMAIN out.broker /\ t \notin out.gone

\* With the broker connected and the buffer flushed, the broker retains the newest
\* value of every topic, through coalescing, the dedup window, the queue of an outage
\* and its replay; except one whose queued value was evicted or that the broker lost
\* (mqttManager.js:181-209, eventPublisher.js:763-822).
NewestWins ==
  Settled => \A t \in DOMAIN latest \ out.gone : t \in DOMAIN out.broker /\ out.broker[t] = latest[t]

\* Topics of one device never contradict each other on the broker: an output above
\* 0 % is on, a position is the level, and a sensor that is said to fail has a
\* status that says so (eventPublisher.js:86-110, 443-483, 560-607).
TopicsCohere ==
  Settled =>
    /\ Shown("state") /\ Shown("level") /\ out.broker["level"] > 0 => out.broker["state"] = "ON"
    /\ Shown("position") /\ Shown("level") => out.broker["position"] = out.broker["level"]
    /\ Shown("sensor_status") /\ Shown("sensor_problem") =>
         (out.broker["sensor_problem"] = "ON" <=> out.broker["sensor_status"] >= 2)
=============================================================================
