-------------------------------- MODULE MCWRR --------------------------------
(* Two nodes, and two clients that may have either id. *)
EXTENDS WRR, TLC

CONSTANTS n1, n2, c1, c2

Symmetry == Permutations({n1, n2}) \cup Permutations({c1, c2})

=============================================================================
