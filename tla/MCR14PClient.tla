---------------------------- MODULE MCR14PClient ----------------------------
(* A client with a pool of two streams.  Streams are interchangeable. *)
EXTENDS R14PClient, TLC

CONSTANTS s1, s2

Symmetry == Permutations(Streams)

=============================================================================
