---------------------------- MODULE MCGroupControl ----------------------------
(* TLC instances of GroupControl, at the real levels. *)
EXTENDS GroupControl

\* What is asked for is what is shown: the two roundings undo each other.
ASSUME \A p \in 0..100 : Percent(FromPercent(p)) = p
=============================================================================
