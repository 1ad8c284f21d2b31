--------------------------- MODULE MCR14PLifetime ---------------------------
(* One client, two routers, two reconnections. *)
EXTENDS R14PLifetime, TLC

CONSTANTS w1, w2, r1, r2

Symmetry == Permutations({w1, w2}) \cup Permutations({r1, r2})

=============================================================================
