---------------------------- MODULE MCSecurityPanel ----------------------------
(* TLC instances of SecurityPanel. *)
EXTENDS SecurityPanel

\* A report that leaves a zone out is one of the cases.
ASSUME First # Zone
=============================================================================
