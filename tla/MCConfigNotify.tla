--------------------------- MODULE MCConfigNotify ---------------------------
(* Two daemons with two items, and two users that commit. *)
EXTENDS ConfigNotify, TLC

CONSTANTS d1, d2, i1, i2, s1, s2

Symmetry == Permutations({d1, d2}) \cup Permutations({s1, s2})

=============================================================================
