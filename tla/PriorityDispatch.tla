-------------------------- MODULE PriorityDispatch --------------------------
(***************************************************************************)
(* What the command queue promises its callers, without sequences, timers  *)
(* or flags: a set of waiting commands, each with a class.  A command that *)
(* starts is the oldest of the most urgent class waiting.  At capacity a   *)
(* submission displaces the oldest of the least urgent class waiting.      *)
(***************************************************************************)
EXTENDS Integers, FiniteSets

CONSTANTS MaxSize, MaxAdds

VARIABLES waiting, running, ended, dropped, last

dvars == <<waiting, running, ended, dropped, last>>

Class == {"critical", "interactive", "normal", "bulk"}

\* a is served before b.
MoreUrgent(a, b) ==
  LET order == [critical |-> 1, interactive |-> 2, normal |-> 3, bulk |-> 4]
  IN  order[a] < order[b]

\* Of the commands w, the one to start next and the one to give up first.
IsFirst(c, w) == \A d \in w \ {c} :
  MoreUrgent(c.class, d.class) \/ (c.class = d.class /\ c.id < d.id)
IsVictim(c, w) == \A d \in w \ {c} :
  MoreUrgent(d.class, c.class) \/ (c.class = d.class /\ c.id < d.id)

Init == waiting = {} /\ running = {} /\ ended = {} /\ dropped = {} /\ last = 0

\* Of the commands w, none or the first is started.
StartSome(w) ==
  \/ waiting' = w /\ running' = running
  \/ \E c \in w : /\ IsFirst(c, w)
                  /\ waiting' = w \ {c}
                  /\ running' = running \union {c.id}

Submit(class) ==
  /\ last < MaxAdds
  /\ last' = last + 1
  /\ LET new == [id |-> last + 1, class |-> class]
     IN  IF MaxSize > 0 /\ Cardinality(waiting) >= MaxSize
         THEN \E v \in waiting :
                /\ IsVictim(v, waiting)
                /\ dropped' = dropped \union {v.id}
                /\ StartSome((waiting \ {v}) \union {new})
         ELSE dropped' = dropped /\ StartSome(waiting \union {new})
  /\ UNCHANGED ended

Start ==
  /\ StartSome(waiting)
  /\ UNCHANGED <<ended, dropped, last>>

End(i) ==
  /\ i \in running
  /\ running' = running \ {i}
  /\ ended' = ended \union {i}
  /\ UNCHANGED <<waiting, dropped, last>>

Discard ==
  /\ waiting' = {}
  /\ dropped' = dropped \union {c.id : c \in waiting}
  /\ UNCHANGED <<running, ended, last>>

Next ==
  \/ \E class \in Class : Submit(class)
  \/ Start
  \/ \E i \in 1..MaxAdds : End(i)
  \/ Discard

Spec == Init /\ [][Next]_dvars
=============================================================================
