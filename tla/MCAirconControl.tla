---------------------------- MODULE MCAirconControl ----------------------------
(* TLC instances of AirconControl. *)
EXTENDS AirconControl

\* Two requests race when one of them is still pending, and an implausible target
\* (above 50 degrees) is worth a run only where a plausible one exists.
ASSUME MaxAsks >= 1 /\ \E l \in Dialled : l <= MaxLevel
=============================================================================
