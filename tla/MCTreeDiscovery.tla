--------------------------- MODULE MCTreeDiscovery ---------------------------
(* TLC instances of TreeDiscovery. *)
EXTENDS TreeDiscovery, TLC

\* Networks are interchangeable, and so are connections.
Symmetry == Permutations(Networks) \union Permutations(Conns)
=============================================================================
