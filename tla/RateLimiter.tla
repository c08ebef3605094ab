----------------------------- MODULE RateLimiter -----------------------------
(***************************************************************************)
(* The sliding-window limiter (src/src/web/rateLimiter.js) of the web      *)
(* API's clients and of the panel's codes.  Constant operators only.       *)
(*                                                                         *)
(* The log is a Map: per source the timestamps, each with the number of    *)
(* its request, and the number of the request that put the source where it *)
(* is in the Map's order.                                                  *)
(***************************************************************************)
EXTENDS Integers, FiniteSets

CONSTANTS
  MaxRequests,  \* accepted per window
  Window,       \* windowMs
  MaxTracked    \* maxTrackedSources

ASSUME LimiterAssumption == MaxRequests \in Nat \ {0} /\ Window \in Nat \ {0} /\ MaxTracked \in Nat \ {0}

\* The first call sweeps.
NoRequests == [log |-> [source \in {} |-> [times |-> {}, seen |-> 0]], swept |-> -Window, requests |-> 0]

\* _dropExpired: what is exactly a window old still counts.
DropExpired(times, start) == {t \in times : t.at >= start}

TimesOf(log, source, start) == IF source \in DOMAIN log THEN DropExpired(log[source].times, start) ELSE {}

\* Refused requests are logged too, up to a point.
Noted(times, stamp) == IF Cardinality(times) <= 2 * MaxRequests THEN times \cup {stamp} ELSE times

\* Mutation: Map.set without the delete leaves the source where it was.
SeenInPlace(log, source, times, n) ==
  [s \in DOMAIN log \cup {source} |->
     IF s # source THEN log[s]
     ELSE [times |-> times, seen |-> IF source \in DOMAIN log THEN log[source].seen ELSE n]]

\* The source was seen last.
Seen(log, source, times, n) ==
  [s \in DOMAIN log \cup {source} |-> IF s = source THEN [times |-> times, seen |-> n] ELSE log[s]]

\* At the cap the least recently seen source is forgotten.
Capped(log) ==
  IF Cardinality(DOMAIN log) <= MaxTracked THEN log
  ELSE [s \in {r \in DOMAIN log : \E o \in DOMAIN log : log[o].seen < log[r].seen} |-> log[s]]

\* _sweepIfDue, _prune: an entry stays where it is.
SweptLog(log, start) ==
  [s \in {r \in DOMAIN log : DropExpired(log[r].times, start) # {}} |->
     [log[s] EXCEPT !.times = DropExpired(@, start)]]

\* isLimitedByKey: the limiter afterwards, and its answer.
Request(l, source, now) ==
  LET n     == l.requests + 1
      times == Noted(TimesOf(l.log, source, now - Window), [n |-> n, at |-> now])
      log   == Capped(Seen(l.log, source, times, n))
      due   == now - l.swept >= Window
  IN  [limiter |-> [log      |-> IF due THEN SweptLog(log, now - Window) ELSE log,
                    swept    |-> IF due THEN now ELSE l.swept,
                    requests |-> n],
       limited |-> Cardinality(times) > MaxRequests]
=============================================================================
