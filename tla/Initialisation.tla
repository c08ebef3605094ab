---------------------------- MODULE Initialisation ----------------------------
(***************************************************************************)
(* What happens once everything is connected                               *)
(* (src/src/bridgeInitializationService.js): the networks are discovered   *)
(* when none are configured, their levels requested and polled, their      *)
(* interfaces monitored; and an error of C-Gate that ends a discovery or a *)
(* poll.                                                                   *)
(*                                                                         *)
(* Calls of handleAllConnected overlap when the wait for the discovery is  *)
(* longer than the debounce.  Whether a pair of network and application is *)
(* there is C-Gate's business: a poll of one that is not is answered 401.  *)
(***************************************************************************)
EXTENDS Naturals, FiniteSets

CONSTANTS
  Networks, Apps,  \* Apps: lighting and the applications with an id in the settings
  Calls,           \* bound: calls of handleAllConnected that overlap
  MaxInits         \* bound: calls, reloads, errors of other commands

ASSUME InitsAssumption == MaxInits \in Nat

VARIABLES
  configured,   \* getall_networks, ha_discovery_networks
  there,        \* the pairs C-Gate has
  collected,    \* per call that waits for the discovery: the networks collected
  handler,      \* networkDiscoveryHandler: the call it is of, if any
  known,        \* discoveredNetworks
  polls,        \* _perAppTimers
  asked,        \* pairs whose levels were requested, without an answer yet
  monitored,    \* networks of _cniMonitorTimer
  discovery,    \* HaDiscovery objects made, labels-changed listeners
  inits

serviceVars == <<configured, there, collected, handler, known, polls, asked, monitored, discovery, inits>>

Pairs == Networks \X Apps

Waiting == DOMAIN collected

InitAgain == inits < MaxInits /\ inits' = inits + 1

ServiceInit ==
  /\ configured \in SUBSET Networks /\ there \in SUBSET Pairs
  /\ collected = [c \in {} |-> {}] /\ handler = {}
  /\ known = {} /\ polls = {} /\ asked = {} /\ monitored = {} /\ discovery = 0 /\ inits = 0

-----------------------------------------------------------------------------
(* handleAllConnected *)

\* _resolveGetallNetworks, when the networks found are nets: what is configured comes first.
Resolved(nets) == (IF configured # {} THEN configured ELSE nets) \X Apps

\* _resolveMonitorNetworkIds.
Monitorable(nets) == nets \cup configured

\* _scheduleAllGetalls; with nothing resolved the timers there are stay.
Schedule(nets) == polls' = IF Resolved(nets) # {} THEN Resolved(nets) ELSE polls

\* The rest of handleAllConnected, the networks found being nets, with asking unanswered.
Continue(nets, asking) ==
  /\ Schedule(nets)
  /\ asked' = asking \cup Resolved(nets)
  /\ monitored' = IF Monitorable(nets) # {} THEN Monitorable(nets) ELSE monitored
  /\ discovery' = IF discovery = 0 THEN 1 ELSE discovery

AllConnected(c) ==
  /\ InitAgain /\ c \notin Waiting
  /\ IF configured # {}
       THEN Continue(known, asked) /\ UNCHANGED <<collected, handler>>
       ELSE /\ collected' = [d \in Waiting \cup {c} |-> IF d = c THEN {} ELSE collected[d]]
            /\ handler' = {c}
            /\ UNCHANGED <<polls, asked, monitored, discovery>>
  /\ UNCHANGED <<configured, there, known>>

\* A 200 line names a network.
NetworkNamed(n) ==
  /\ \E c \in handler :
       /\ n \notin collected[c]
       /\ collected' = [collected EXCEPT ![c] = @ \cup {n}]
  /\ UNCHANGED <<configured, there, handler, known, polls, asked, monitored, discovery, inits>>

\* finish, of call c, and what that call does then.  Whoever's handler it is, it is removed.
DiscoveryEnds(c, asking) ==
  /\ collected' = [d \in Waiting \ {c} |-> collected[d]]
  /\ handler' = {}
  /\ known' = collected[c]
  /\ Continue(collected[c], asking)

DiscoveryTimesOut(c) == c \in Waiting /\ DiscoveryEnds(c, asked) /\ UNCHANGED <<configured, there, inits>>

-----------------------------------------------------------------------------
(* Polls and errors *)

PollFires(p) ==
  /\ p \in polls /\ asked' = asked \cup {p}
  /\ UNCHANGED <<configured, there, collected, handler, known, polls, monitored, discovery, inits>>

LevelsAnswered(p) ==
  /\ p \in asked \cap there /\ asked' = asked \ {p}
  /\ UNCHANGED <<configured, there, collected, handler, known, polls, monitored, discovery, inits>>

\* Mutation: the answer that is not worth a warning is dropped.
QuietStopsNothing(p) == UNCHANGED polls

\* Mutation: the application is not polled on any network.
StopApplication(p) == polls' = {q \in polls : q[2] # p[2]}

\* handleCommandError, of a 401 on a pair.
StopPoll(p) == polls' = polls \ {p}

\* A 401.  While networks are discovered it is taken for the answer to that, whose call
\* goes on with what it has, and the poll stays.
NotThere(p) ==
  /\ p \in asked \ there
  /\ \/ \E c \in handler : DiscoveryEnds(c, asked \ {p})
     \/ /\ handler = {} /\ StopPoll(p) /\ asked' = asked \ {p}
        /\ UNCHANGED <<collected, handler, known, monitored, discovery>>
  /\ UNCHANGED <<configured, there, inits>>

\* Any other 4xx or 5xx.
OtherError ==
  /\ InitAgain /\ \E c \in handler : DiscoveryEnds(c, asked)
  /\ UNCHANGED <<configured, there>>

\* SIGUSR1: reloadSettings.
PeriodsReloaded ==
  /\ InitAgain /\ Schedule(known)
  /\ UNCHANGED <<configured, there, collected, handler, known, asked, monitored, discovery>>

ServiceNext ==
  \/ OtherError \/ PeriodsReloaded
  \/ \E c \in Calls : AllConnected(c) \/ DiscoveryTimesOut(c)
  \/ \E n \in Networks : NetworkNamed(n)
  \/ \E p \in Pairs : PollFires(p) \/ LevelsAnswered(p) \/ NotThere(p)

ServiceSpec == ServiceInit /\ [][ServiceNext]_serviceVars

\* Timers fire, and C-Gate answers what it is asked.
ServiceFairness ==
  /\ \A c \in Calls : WF_serviceVars(DiscoveryTimesOut(c))
  /\ \A p \in Pairs : WF_serviceVars(PollFires(p)) /\ WF_serviceVars(NotThere(p))

-----------------------------------------------------------------------------
(* Properties *)

\* From the first initialisation on every network that was resolved last is polled for
\* what C-Gate has of it, and monitored, whatever calls overlap, however a discovery
\* ended and whatever polls an error stopped, also while a later call still discovers
\* (bridgeInitializationService.js:82-165, 299-381, 561-579).
NetworksServed ==
  discovery # 0 =>
    Resolved(known) \cap there \subseteq polls /\ Monitorable(known) \subseteq monitored

\* No poll goes on for ever against nothing: the 401s stop it in the end, although
\* each initialisation starts it again and a discovery may take the answer for its own
\* (bridgeInitializationService.js:299-381, 561-579; commandResponseProcessor.js:339-370).
VainPollsStop == <>[](polls \subseteq there)
=============================================================================
