--------------------------- MODULE CommandDelivery ---------------------------
(***************************************************************************)
(* A command of the queue on its way to C-Gate: the bridge's send function *)
(* (src/src/cgateWebBridge.js), the pool's choice of a connection and its  *)
(* fall-back to the next (src/src/cgateConnectionPool.js), and a socket    *)
(* with back pressure (src/src/cgateConnection.js).                        *)
(*                                                                         *)
(* The queue hands over one command at a time (ThrottledQueue); commands   *)
(* are numbered in that order.  Which connections are healthy is           *)
(* CgatePool's; here a connection is healthy while it is up.               *)
(***************************************************************************)
EXTENDS Naturals, Sequences, FiniteSets, SequencesExt

CONSTANTS
  Wires,        \* connectionPoolSize
  MaxCommands,  \* bound: commands handed over
  MaxFlaps      \* bound: connections lost

ASSUME DeliveryAssumption == Wires \in Nat \ {0} /\ MaxCommands \in Nat /\ MaxFlaps \in Nat

VARIABLES
  wire,      \* per slot: up (connected), writable (isWritable), sent: history of its writes
  job,       \* execute(): phase, command, rest: the connections to try, first the current
  reported,  \* commands a warning was published for
  pressed,   \* history: commands some write of which was accepted and returned false
  flaps

deliveryVars == <<wire, job, reported, pressed, flaps>>

Slots == 1..Wires

DeliveryInit ==
  /\ wire \in [Slots -> {[up |-> b, writable |-> b, sent |-> <<>>] : b \in BOOLEAN}]
  /\ job = [phase |-> "idle", command |-> 0, rest |-> <<>>]
  /\ reported = {} /\ pressed = {} /\ flaps = 0

\* Between two awaits that wait for nothing no event of a socket is handled.
SocketsHeard == job.phase \in {"idle", "drain"}

Phase(p)  == job' = [job EXCEPT !.phase = p]

\* _getHealthyConnectionsSorted: those that can be written to first, then by index.
Before(c, d)  == IF wire[c].writable = wire[d].writable THEN c < d ELSE wire[c].writable
Sorted(order) == \A i, j \in DOMAIN order : i < j => Before(order[i], order[j])

Current == Head(job.rest)

-----------------------------------------------------------------------------
(* execute() *)

\* The queue's gate is open: some connection is healthy.
HandOver ==
  /\ job.phase = "idle" /\ job.command < MaxCommands
  /\ \E c \in Slots : wire[c].up
  /\ \E order \in SetToSeqs({c \in Slots : wire[c].up}) :
       Sorted(order) /\ job' = [phase |-> "send", command |-> job.command + 1, rest |-> order]
  /\ UNCHANGED <<wire, reported, pressed, flaps>>

\* The last connection to try has failed: execute throws, and the bridge reports.
Report ==
  /\ job.phase = "send" /\ job.rest = <<>>
  /\ reported' = reported \cup {job.command}
  /\ Phase("idle") /\ UNCHANGED <<wire, pressed, flaps>>

Fails == job' = [job EXCEPT !.phase = "send", !.rest = Tail(@)]

\* socket.write took the command and answers ok.
Written(ok) ==
  /\ wire' = [wire EXCEPT ![Current].sent = Append(@, job.command), ![Current].writable = ok]
  /\ pressed' = IF ok THEN pressed ELSE pressed \cup {job.command}

\* sendWithBackpressure, to the first await: a write that is not accepted freely is
\* followed by a wait, and so is no write.
FirstSend ==
  /\ job.phase = "send" /\ job.rest # <<>>
  /\ \/ wire[Current].writable /\ Written(TRUE) /\ Phase("idle")
     \/ wire[Current].writable /\ Written(FALSE) /\ Phase("drain")
     \/ ~wire[Current].writable /\ Phase("drain") /\ UNCHANGED <<wire, pressed>>
  /\ UNCHANGED <<reported, flaps>>

\* After the drain it is sent, whether or not it was written before.
SendAgain ==
  /\ job.phase = "again"
  /\ \/ Written(TRUE) /\ Phase("idle")
     \/ Written(FALSE) /\ Fails
  /\ UNCHANGED <<reported, flaps>>

\* Mutation: the wait has no end of its own.
WaitForever == job.phase = "drain" /\ ~wire[Current].up /\ Fails

\* The wait for the drain is given up after connectionTimeout.
DrainTimesOut == job.phase = "drain" /\ Fails

DrainGivenUp == DrainTimesOut /\ UNCHANGED <<wire, reported, pressed, flaps>>

-----------------------------------------------------------------------------
(* Sockets *)

\* The connections to try without c, which is among them once at most.
Without(rest, c) ==
  IF c \in ToSet(rest) THEN RemoveAt(rest, CHOOSE i \in DOMAIN rest : rest[i] = c) ELSE rest

\* Mutation: who waits for the drain of a lost connection takes the command for sent.
LossEndsExecute(c) ==
  job' = IF job.phase = "drain" /\ c = Current THEN [job EXCEPT !.phase = "idle"]
         ELSE [job EXCEPT !.rest = Without(@, c)]

\* _resolveDrainWaiters(FALSE); the connection object is not the slot's next one.
LossFails(c) ==
  job' = [job EXCEPT !.phase = IF @ = "drain" /\ c = Current THEN "send" ELSE @,
                     !.rest  = Without(@, c)]

Lost(c) ==
  /\ SocketsHeard /\ flaps < MaxFlaps /\ wire[c].up
  /\ wire' = [wire EXCEPT ![c].up = FALSE, ![c].writable = FALSE]
  /\ LossFails(c)
  /\ flaps' = flaps + 1
  /\ UNCHANGED <<reported, pressed>>

\* The pool's next object for the slot connects.  Its first lines, EVENT and LOGIN,
\* are written past the queue.
Connected(c) ==
  /\ SocketsHeard /\ ~wire[c].up
  /\ wire' = [wire EXCEPT ![c].up = TRUE, ![c].writable = TRUE]
  /\ UNCHANGED <<job, reported, pressed, flaps>>

Drained(c) ==
  /\ SocketsHeard /\ wire[c].up /\ ~wire[c].writable
  /\ wire' = [wire EXCEPT ![c].writable = TRUE]
  /\ IF job.phase = "drain" /\ c = Current THEN Phase("again") ELSE UNCHANGED job
  /\ UNCHANGED <<reported, pressed, flaps>>

DeliveryNext ==
  \/ HandOver \/ Report \/ FirstSend \/ SendAgain \/ DrainGivenUp
  \/ \E c \in Slots : Lost(c) \/ Connected(c) \/ Drained(c)

DeliverySpec == DeliveryInit /\ [][DeliveryNext]_deliveryVars

\* Promises settle, and the timer of a wait fires.
DeliveryFairness == WF_deliveryVars(Report \/ FirstSend \/ SendAgain \/ DrainGivenUp)

-----------------------------------------------------------------------------
(* Properties *)

Copies(n) == UNION {{c} \X {i \in DOMAIN wire[c].sent : wire[c].sent[i] = n} : c \in Slots}

Done == 1..(IF job.phase = "idle" THEN job.command ELSE job.command - 1)

\* A command that was handed over was written or is reported; without back pressure it
\* was written once, or never and is reported.  No connection carries an older command
\* after a newer one, in spite of losses, waits and second writes
\* (cgateConnection.js:101-149, cgateConnectionPool.js:205-246, cgateWebBridge.js:899-917).
CommandsAccounted ==
  /\ \A n \in Done :
       /\ n \in reported \/ Copies(n) # {}
       /\ n \in pressed \/ Cardinality(Copies(n)) = (IF n \in reported THEN 0 ELSE 1)
  /\ \A c \in Slots : \A i, j \in DOMAIN wire[c].sent : i <= j => wire[c].sent[i] <= wire[c].sent[j]

\* Every hand-over ends, so that the queue goes on: whatever connections are lost,
\* replaced or never drain (cgateConnectionPool.js:205-246, cgateConnection.js:292-319).
DeliverySettles == [](job.phase # "idle" => <>(job.phase = "idle"))
=============================================================================
