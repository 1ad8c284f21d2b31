---------------------------- MODULE MCConfigTree ----------------------------
(* Two users, an item, a block with a leaf, a list entry, and a file of each kind. *)
EXTENDS ConfigTree, TLC

CONSTANTS u1, u2, i, b, l, e, v1

Config(value, leaf, list) ==
    [item |-> (i :> value), leaf |-> (b :> (l :> leaf)), list |-> list]

GivenFiles == {[config |-> Config(v1, Empty, {e}), bad |-> FALSE],
               [config |-> Config(Empty, v1, {}), bad |-> TRUE]}

Symmetry == Permutations({u1, u2})

=============================================================================
