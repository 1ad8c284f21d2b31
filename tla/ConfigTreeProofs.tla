-------------------------- MODULE ConfigTreeProofs --------------------------
(***************************************************************************)
(* Proofs about ConfigTree, for every set of users, items, blocks, lists,  *)
(* values and files: the properties of its run, and that it implements     *)
(* ConfigStore.  The operations of Config are taken one by one, first what *)
(* they do to a node, then to a tree, then what the actions do to the      *)
(* state.                                                                  *)
(***************************************************************************)
EXTENDS ConfigTree, TLAPS

(***************************************************************************)
(* A node that is ready has one value, and one without new value that is   *)
(* not deleted never had a value.                                          *)
(***************************************************************************)
NodeInv(n) ==
    /\ n \in Node
    /\ n.state = "ready" => n.new_value = n.value
    /\ n.state = "modified" /\ n.new_value = Empty => n.value = Empty

TreeType == [item : [Items -> Node], leaf : [Blocks -> [Leaves -> Node]],
             has : SUBSET Named, is_new : SUBSET Named, state : [Named -> State]]

\* New blocks have no committed values; where there is no block nothing is left.
TreeInv(t) ==
    /\ t \in TreeType
    /\ \A i \in Items : NodeInv(t.item[i])
    /\ \A b \in Blocks, l \in Leaves : NodeInv(t.leaf[b][l])
    /\ t.is_new \subseteq t.has
    /\ \A b \in Named \ t.has : t.state[b] = "ready"
    /\ \A b \in Blocks \ t.has : t.leaf[b] = [l \in Leaves |-> Blank]
    /\ \A b \in Blocks \cap t.is_new, l \in Leaves : t.leaf[b][l].value = Empty

\* What a node has as long as nothing is discarded.
Draft(n) == IF n.state = "deleted" THEN Empty ELSE n.new_value

\* s has the committed values of t, and its list entries.
Keeps(t, s) ==
    /\ \A i \in Items : s.item[i].value = t.item[i].value
    /\ \A b \in Blocks, l \in Leaves : s.leaf[b][l].value = t.leaf[b][l].value
    /\ Lists \cap (t.has \ t.is_new) \subseteq s.has \ s.is_new
-----------------------------------------------------------------------------
(* Nodes. *)

LEMMA BlankNode == NodeInv(Blank) /\ Blank.value = Empty /\ Blank.new_value = Empty /\ Blank.state = "ready"
  BY DEF NodeInv, Blank, Node, Value, State

LEMMA WrittenNode ==
  ASSUME NEW n, NodeInv(n), NEW v \in Values
  PROVE  NodeInv(Written(n, v)) /\ Written(n, v).value = n.value /\ Draft(Written(n, v)) = v
  BY TreeAssumption DEF NodeInv, Written, Node, Value, State, Draft

LEMMA DeletedNode ==
  ASSUME NEW n, NodeInv(n)
  PROVE  NodeInv(Deleted(n)) /\ Deleted(n).value = n.value /\ Draft(Deleted(n)) = Empty
  BY DEF NodeInv, Deleted, Node, Value, State, Draft

(***************************************************************************)
(* discard goes back to the committed value.                               *)
(***************************************************************************)
LEMMA DiscardedNode ==
  ASSUME NEW n, NodeInv(n)
  PROVE  /\ NodeInv(Discarded(n)) /\ Discarded(n).state = "ready"
         /\ Discarded(n).value = n.value /\ Draft(Discarded(n)) = n.value
  BY DEF NodeInv, Discarded, Node, Value, State, Draft

(***************************************************************************)
(* commit makes the draft the committed value.                             *)
(***************************************************************************)
LEMMA CommittedNode ==
  ASSUME NEW n, NodeInv(n)
  PROVE  /\ NodeInv(Committed(n)) /\ Committed(n).state = "ready"
         /\ Committed(n).value = Draft(n) /\ Draft(Committed(n)) = Draft(n)
<1>1. CASE n.state = "modified"
  BY <1>1 DEF NodeInv, Committed, Node, Value, State, Draft
<1>2. CASE n.state = "deleted"
  BY <1>2, BlankNode DEF Committed, Draft
<1>3. CASE n.state = "ready"
  BY <1>3 DEF NodeInv, Committed, Node, Value, State, Draft
<1> QED BY <1>1, <1>2, <1>3 DEF NodeInv, Node, State
-----------------------------------------------------------------------------
(* What show_config shows of a tree. *)

ItemsOf(t) == [i \in Items |-> t.item[i].value]
LeavesOf(t) == [b \in Blocks |-> [l \in Leaves |-> t.leaf[b][l].value]]
ListsOf(t) == Lists \cap (t.has \ t.is_new)

LEMMA ShownIs ==
  ASSUME NEW t, TreeInv(t)
  PROVE  /\ Shown(t) = [item |-> ItemsOf(t), leaf |-> LeavesOf(t), list |-> ListsOf(t)]
         /\ Shown(t) \in Configs
<1> DEFINE Old(n) == IF n.new_value # Empty \/ n.state = "deleted" THEN n.value ELSE Empty
           I == [i \in Items |-> Old(t.item[i])]
           F == [b \in Blocks |-> [l \in Leaves |-> IF b \in t.has \ t.is_new THEN Old(t.leaf[b][l]) ELSE Empty]]
<1>1. \A n : NodeInv(n) => Old(n) = n.value /\ n.value \in Value
  BY DEF NodeInv, Node, State
<1>2. \A i \in Items : Old(t.item[i]) = t.item[i].value /\ t.item[i].value \in Value
  BY <1>1 DEF TreeInv
<1>3. ASSUME NEW b \in Blocks, NEW l \in Leaves
      PROVE  /\ t.leaf[b][l].value = IF b \in t.has \ t.is_new THEN Old(t.leaf[b][l]) ELSE Empty
             /\ t.leaf[b][l].value \in Value
  <2>1. CASE b \in t.has \ t.is_new
    BY <1>1, <2>1 DEF TreeInv
  <2>2. CASE b \notin t.has
    BY <2>2, BlankNode DEF TreeInv, Value
  <2>3. CASE b \in t.is_new
    BY <2>3 DEF TreeInv, Value
  <2> QED BY <2>1, <2>2, <2>3
<1>4. I = ItemsOf(t) /\ I \in [Items -> Value]
  BY <1>2 DEF ItemsOf
<1>5. F = LeavesOf(t) /\ F \in [Blocks -> [Leaves -> Value]]
  BY <1>3 DEF LeavesOf
<1>6. Shown(t) = [item |-> I, leaf |-> F, list |-> ListsOf(t)] /\ ListsOf(t) \subseteq Lists
  BY DEF Shown, ListsOf
<1> HIDE DEF I, F
<1> QED BY <1>4, <1>5, <1>6 DEF Configs

Here(t) == {b \in t.has : t.state[b] # "deleted"}

NewItemsOf(t) == [i \in Items |-> Draft(t.item[i])]
NewLeavesOf(t) == [b \in Blocks |-> [l \in Leaves |-> IF b \in Here(t) THEN Draft(t.leaf[b][l]) ELSE Empty]]
NewListsOf(t) == Lists \cap Here(t)

LEMMA ShownNewIs ==
  ASSUME NEW t, TreeInv(t)
  PROVE  /\ ShownNew(t) = [item |-> NewItemsOf(t), leaf |-> NewLeavesOf(t), list |-> NewListsOf(t)]
         /\ ShownNew(t) \in Configs
<1>1. ShownNew(t) = [item |-> NewItemsOf(t), leaf |-> NewLeavesOf(t), list |-> NewListsOf(t)]
  BY DEF ShownNew, Draft, Here, NewItemsOf, NewLeavesOf, NewListsOf
<1>2. \A n : NodeInv(n) => Draft(n) \in Value
  BY DEF NodeInv, Node, Value, Draft
<1>3. \A i \in Items : Draft(t.item[i]) \in Value
  BY <1>2 DEF TreeInv
<1>4. \A b \in Blocks, l \in Leaves : Draft(t.leaf[b][l]) \in Value /\ Empty \in Value
  BY <1>2 DEF TreeInv, Value
<1>5. NewItemsOf(t) \in [Items -> Value]
  BY <1>3 DEF NewItemsOf
<1>6. NewLeavesOf(t) \in [Blocks -> [Leaves -> Value]]
  BY <1>4 DEF NewLeavesOf
<1> QED BY <1>1, <1>5, <1>6 DEF Configs, NewListsOf

(***************************************************************************)
(* A tree that keeps what is committed shows it, perhaps with more list    *)
(* entries.                                                                *)
(***************************************************************************)
LEMMA KeepsGrown ==
  ASSUME NEW t, NEW s, TreeInv(t), TreeInv(s), Keeps(t, s)
  PROVE  Shown(s) \in Grown(Shown(t))
<1>1. ItemsOf(s) = ItemsOf(t)
  BY DEF Keeps, ItemsOf
<1>2. LeavesOf(s) = LeavesOf(t)
  BY DEF Keeps, LeavesOf
<1>3. ListsOf(s) \in SUBSET Lists /\ ListsOf(t) \subseteq ListsOf(s)
  BY DEF Keeps, ListsOf
<1>4. Shown(s) = [Shown(t) EXCEPT !.list = ListsOf(s)]
  BY <1>1, <1>2, ShownIs
<1>5. Shown(t).list = ListsOf(t)
  BY ShownIs
<1> QED BY <1>3, <1>4, <1>5 DEF Grown

LEMMA KeepsItself == ASSUME NEW t PROVE Keeps(t, t)
  BY DEF Keeps

LEMMA KeepsBoth == ASSUME NEW r, NEW s, NEW t, Keeps(r, s), Keeps(s, t) PROVE Keeps(r, t)
  BY DEF Keeps
-----------------------------------------------------------------------------
(* Trees: what set and delete do. *)

LEMMA ItemChanged ==
  ASSUME NEW t, TreeInv(t), NEW i \in Items, NEW n, NodeInv(n), n.value = t.item[i].value
  PROVE  TreeInv([t EXCEPT !.item[i] = n]) /\ Keeps(t, [t EXCEPT !.item[i] = n])
<1> DEFINE s == [t EXCEPT !.item[i] = n]
<1>1. /\ s.leaf = t.leaf /\ s.has = t.has /\ s.is_new = t.is_new /\ s.state = t.state
      /\ s.item = [t.item EXCEPT ![i] = n] /\ s \in TreeType
  BY DEF TreeInv, TreeType, NodeInv
<1>2. \A j \in Items : s.item[j] = IF j = i THEN n ELSE t.item[j]
  BY <1>1 DEF TreeInv, TreeType
<1> HIDE DEF s
<1>3. TreeInv(s) /\ Keeps(t, s)
  BY <1>1, <1>2 DEF TreeInv, Keeps
<1> QED BY <1>3 DEF s

LEMMA LeafChanged ==
  ASSUME NEW t, TreeInv(t), NEW b \in Blocks, b \in t.has, NEW l \in Leaves,
         NEW n, NodeInv(n), n.value = t.leaf[b][l].value
  PROVE  TreeInv([t EXCEPT !.leaf[b][l] = n]) /\ Keeps(t, [t EXCEPT !.leaf[b][l] = n])
<1> DEFINE s == [t EXCEPT !.leaf[b][l] = n]
<1>1. /\ s.item = t.item /\ s.has = t.has /\ s.is_new = t.is_new /\ s.state = t.state
      /\ s.leaf = [t.leaf EXCEPT ![b] = [@ EXCEPT ![l] = n]] /\ s \in TreeType
  BY DEF TreeInv, TreeType, NodeInv
<1>2. \A d \in Blocks, m \in Leaves : s.leaf[d][m] = IF d = b /\ m = l THEN n ELSE t.leaf[d][m]
  BY <1>1 DEF TreeInv, TreeType
<1>3. \A d \in Blocks \ {b} : s.leaf[d] = t.leaf[d]
  BY <1>1 DEF TreeInv, TreeType
<1> HIDE DEF s
<1>4. TreeInv(s) /\ Keeps(t, s)
  BY <1>1, <1>2, <1>3 DEF TreeInv, Keeps
<1> QED BY <1>4 DEF s

LEMMA StateChanged ==
  ASSUME NEW t, TreeInv(t), NEW b \in Named, b \in t.has, NEW x \in State
  PROVE  TreeInv([t EXCEPT !.state[b] = x]) /\ Keeps(t, [t EXCEPT !.state[b] = x])
<1> DEFINE s == [t EXCEPT !.state[b] = x]
<1>1. /\ s.item = t.item /\ s.leaf = t.leaf /\ s.has = t.has /\ s.is_new = t.is_new
      /\ s.state = [t.state EXCEPT ![b] = x] /\ s \in TreeType
  BY DEF TreeInv, TreeType
<1>2. \A d \in Named : s.state[d] = IF d = b THEN x ELSE t.state[d]
  BY <1>1 DEF TreeInv, TreeType
<1> HIDE DEF s
<1>3. TreeInv(s) /\ Keeps(t, s)
  BY <1>1, <1>2 DEF TreeInv, Keeps
<1> QED BY <1>3 DEF s

(***************************************************************************)
(* auto_complete makes a block without values, and touches no other.       *)
(***************************************************************************)
LEMMA CreatedTree ==
  ASSUME NEW t, TreeInv(t), NEW b \in Named, b \notin t.has
  PROVE  /\ TreeInv(Created(t, b)) /\ Keeps(t, Created(t, b))
         /\ Created(t, b).has = t.has \cup {b} /\ Created(t, b).is_new = t.is_new \cup {b}
         /\ Created(t, b).item = t.item
         /\ \A d \in Named \ {b} : Created(t, b).state[d] = t.state[d]
         /\ \A d \in Blocks \ {b} : Created(t, b).leaf[d] = t.leaf[d]
         /\ ShownNew(Created(t, b)) \in Grown(ShownNew(t))
<1> DEFINE s == Created(t, b)
           fresh == [Blank EXCEPT !.state = "modified"]
<1>1. /\ s.item = t.item /\ s.has = t.has \cup {b} /\ s.is_new = t.is_new \cup {b}
      /\ s.state = [t.state EXCEPT ![b] = "modified"]
      /\ s.leaf = IF b \in Blocks THEN [t.leaf EXCEPT ![b] = [l \in Leaves |-> fresh]] ELSE t.leaf
  BY DEF Created, TreeInv, TreeType
<1>2. NodeInv(fresh) /\ fresh.value = Empty /\ Draft(fresh) = Empty
  BY DEF NodeInv, Blank, Node, Value, State, Draft
<1>3. \A d \in Named : s.state[d] = IF d = b THEN "modified" ELSE t.state[d]
  BY <1>1 DEF TreeInv, TreeType
<1>4. \A d \in Blocks \ {b} : s.leaf[d] = t.leaf[d]
  BY <1>1 DEF TreeInv, TreeType
<1>5. b \in Blocks => s.leaf[b] = [l \in Leaves |-> fresh]
  BY <1>1 DEF TreeInv, TreeType
<1>6. s \in TreeType
  <2>1. s.item \in [Items -> Node] /\ s.has \in SUBSET Named /\ s.is_new \in SUBSET Named
    BY <1>1 DEF TreeInv, TreeType
  <2>2. s.state \in [Named -> State]
    BY <1>1 DEF TreeInv, TreeType, State
  <2>3. s.leaf \in [Blocks -> [Leaves -> Node]]
    BY <1>1, <1>2 DEF TreeInv, TreeType, NodeInv
  <2>4. s = [item |-> s.item, leaf |-> s.leaf, has |-> s.has, is_new |-> s.is_new, state |-> s.state]
    <3> DEFINE L == IF b \in Blocks THEN [t.leaf EXCEPT ![b] = [l \in Leaves |-> fresh]] ELSE t.leaf
    <3>1. s = [[[[t EXCEPT !.has = t.has \cup {b}] EXCEPT !.is_new = t.is_new \cup {b}]
                     EXCEPT !.state[b] = "modified"] EXCEPT !.leaf = L]
      BY DEF Created, TreeInv, TreeType
    <3> HIDE DEF s, fresh, L
    <3> QED BY <3>1 DEF TreeInv, TreeType
  <2> QED BY <2>1, <2>2, <2>3, <2>4 DEF TreeType
<1>7. \A d \in Blocks, l \in Leaves : NodeInv(s.leaf[d][l]) /\ s.leaf[d][l].value = t.leaf[d][l].value
  <2> TAKE d \in Blocks, l \in Leaves
  <2>1. CASE d = b
    <3>1. t.leaf[b] = [m \in Leaves |-> Blank] /\ s.leaf[b] = [m \in Leaves |-> fresh]
      BY <1>5, <2>1 DEF TreeInv, Named
    <3> HIDE DEF fresh
    <3> QED BY <2>1, <3>1, <1>2, BlankNode
  <2>2. CASE d # b
    BY <2>2, <1>4 DEF TreeInv
  <2> QED BY <2>1, <2>2
<1> HIDE DEF s, fresh
<1>8. TreeInv(s)
  <2>1. \A d \in Blocks \cap s.is_new, l \in Leaves : s.leaf[d][l].value = Empty
    <3> TAKE d \in Blocks \cap s.is_new, l \in Leaves
    <3>1. CASE d = b
      BY <3>1, <1>2, <1>5
    <3>2. CASE d # b
      BY <3>2, <1>1, <1>4 DEF TreeInv
    <3> QED BY <3>1, <3>2
  <2>2. s.is_new \subseteq s.has /\ \A d \in Named \ s.has : s.state[d] = "ready"
    BY <1>1, <1>3 DEF TreeInv
  <2>3. \A d \in Blocks \ s.has : s.leaf[d] = [l \in Leaves |-> Blank]
    BY <1>1, <1>4 DEF TreeInv
  <2> QED BY <1>1, <1>6, <1>7, <2>1, <2>2, <2>3 DEF TreeInv
<1>9. Keeps(t, s)
  BY <1>1, <1>7 DEF Keeps
<1>10. ShownNew(s) \in Grown(ShownNew(t))
  <2>1. Here(s) = Here(t) \cup {b}
    BY <1>1, <1>3 DEF Here, TreeInv, TreeType
  <2>2. NewItemsOf(s) = NewItemsOf(t)
    BY <1>1 DEF NewItemsOf
  <2>3. NewLeavesOf(s) = NewLeavesOf(t)
    <3> SUFFICES ASSUME NEW d \in Blocks, NEW l \in Leaves
                 PROVE  (IF d \in Here(s) THEN Draft(s.leaf[d][l]) ELSE Empty)
                          = (IF d \in Here(t) THEN Draft(t.leaf[d][l]) ELSE Empty)
      BY DEF NewLeavesOf
    <3>1. CASE d = b
      BY <3>1, <2>1, <1>2, <1>5 DEF Here
    <3>2. CASE d # b
      BY <3>2, <2>1, <1>4
    <3> QED BY <3>1, <3>2
  <2>4. NewListsOf(s) \in SUBSET Lists /\ NewListsOf(t) \subseteq NewListsOf(s)
    BY <2>1 DEF NewListsOf
  <2>5. ShownNew(s) = [ShownNew(t) EXCEPT !.list = NewListsOf(s)] /\ ShownNew(t).list = NewListsOf(t)
    BY <1>8, <2>2, <2>3, ShownNewIs
  <2> QED BY <2>4, <2>5 DEF Grown
<1> QED BY <1>1, <1>3, <1>4, <1>8, <1>9, <1>10 DEF s
-----------------------------------------------------------------------------
(* Trees: commit, discard, load and rollback. *)

(***************************************************************************)
(* The dry run of a commit may only admit list entries.                    *)
(***************************************************************************)
LEMMA PretendedTree ==
  ASSUME NEW t, TreeInv(t)
  PROVE  /\ TreeInv(CommitPretend(t)) /\ Keeps(t, CommitPretend(t))
         /\ ShownNew(CommitPretend(t)) = ShownNew(t)
<1> DEFINE s == CommitPretend(t)
<1>1. /\ s.item = t.item /\ s.leaf = t.leaf /\ s.has = t.has /\ s.is_new = {} /\ s.state = t.state
      /\ s \in TreeType
  BY DEF CommitPretend, TreeInv, TreeType
<1> HIDE DEF s
<1>2. TreeInv(s) /\ Keeps(t, s)
  BY <1>1 DEF TreeInv, Keeps
<1>3. ShownNew(s) = ShownNew(t)
  BY <1>1 DEF ShownNew
<1> QED BY <1>2, <1>3 DEF s

\* Nothing is left to commit or to discard.
Clean(t) ==
    /\ \A i \in Items : t.item[i].state = "ready"
    /\ \A b \in Blocks, l \in Leaves : t.leaf[b][l].state = "ready"
    /\ \A b \in Named : t.state[b] = "ready"
    /\ t.is_new = {}

(***************************************************************************)
(* Of a clean tree, both kinds of show_config show the same.               *)
(***************************************************************************)
LEMMA CleanShown == ASSUME NEW t, TreeInv(t), Clean(t) PROVE ShownNew(t) = Shown(t)
<1>1. \A n : NodeInv(n) /\ n.state = "ready" => Draft(n) = n.value
  BY DEF NodeInv, Draft
<1>2. Here(t) = t.has
  BY DEF Here, Clean, TreeInv, TreeType
<1>3. NewItemsOf(t) = ItemsOf(t)
  BY <1>1 DEF NewItemsOf, ItemsOf, Clean, TreeInv
<1>4. \A b \in Blocks, l \in Leaves :
        (IF b \in Here(t) THEN Draft(t.leaf[b][l]) ELSE Empty) = t.leaf[b][l].value
  BY <1>1, <1>2, BlankNode DEF Clean, TreeInv
<1>5. NewLeavesOf(t) = LeavesOf(t)
  BY <1>4 DEF NewLeavesOf, LeavesOf
<1>6. NewListsOf(t) = ListsOf(t)
  BY <1>2 DEF NewListsOf, ListsOf, Clean
<1> QED BY <1>3, <1>5, <1>6, ShownIs, ShownNewIs

IsTree(t) == t = [item |-> t.item, leaf |-> t.leaf, has |-> t.has, is_new |-> t.is_new, state |-> t.state]

(***************************************************************************)
(* A tree is a record, and stays one when its fields are replaced.         *)
(***************************************************************************)
LEMMA Replaced ==
  ASSUME NEW t, IsTree(t), NEW x
  PROVE  /\ IsTree([t EXCEPT !.item = x]) /\ IsTree([t EXCEPT !.leaf = x])
         /\ IsTree([t EXCEPT !.has = x]) /\ IsTree([t EXCEPT !.is_new = x])
         /\ IsTree([t EXCEPT !.state = x])
<1>1. IsTree([t EXCEPT !.item = x])
  BY DEF IsTree
<1>2. IsTree([t EXCEPT !.leaf = x])
  BY DEF IsTree
<1>3. IsTree([t EXCEPT !.has = x])
  BY DEF IsTree
<1>4. IsTree([t EXCEPT !.is_new = x])
  BY DEF IsTree
<1>5. IsTree([t EXCEPT !.state = x])
  BY DEF IsTree
<1> QED BY <1>1, <1>2, <1>3, <1>4, <1>5

LEMMA WithoutIsTree == ASSUME NEW t, IsTree(t), NEW B PROVE IsTree(Without(t, B))
<1> DEFINE H == t.has \ B
           N == t.is_new \ B
           Q == [b \in Named |-> IF b \in B THEN "ready" ELSE t.state[b]]
           F == [b \in Blocks |-> IF b \in B THEN [l \in Leaves |-> Blank] ELSE t.leaf[b]]
           t1 == [t EXCEPT !.has = H]
           t2 == [t1 EXCEPT !.is_new = N]
           t3 == [t2 EXCEPT !.state = Q]
<1>1. Without(t, B) = [t3 EXCEPT !.leaf = F]
  BY DEF Without, IsTree
<1> HIDE DEF H, N, Q, F
<1>2. IsTree(t1)
  BY Replaced
<1> HIDE DEF t1
<1>3. IsTree(t2)
  BY <1>2, Replaced
<1> HIDE DEF t2
<1>4. IsTree(t3)
  BY <1>3, Replaced
<1> HIDE DEF t3
<1>5. IsTree([t3 EXCEPT !.leaf = F])
  BY <1>4, Replaced
<1> QED BY <1>1, <1>5, Zenon

(***************************************************************************)
(* discard: the tree is what is committed.                                 *)
(***************************************************************************)
LEMMA DiscardedTree ==
  ASSUME NEW t, TreeInv(t)
  PROVE  /\ TreeInv(Discard(t)) /\ Clean(Discard(t)) /\ Discard(t).has = t.has \ t.is_new
         /\ Shown(Discard(t)) = Shown(t) /\ ShownNew(Discard(t)) = Shown(t)
<1> DEFINE s == Discard(t)
           NoLeaves == [l \in Leaves |-> Blank]
           kept(b) == IF b \in t.is_new THEN NoLeaves ELSE t.leaf[b]
<1>1. /\ s.has = t.has \ t.is_new /\ s.is_new = {}
      /\ s.item = [i \in Items |-> Discarded(t.item[i])]
      /\ s.state = [b \in Named |-> "ready"]
      /\ s.leaf = [b \in Blocks |-> IF b \in t.has THEN [l \in Leaves |-> Discarded(kept(b)[l])] ELSE kept(b)]
  BY DEF Discard, AllReady, EachItem, Without, TreeInv, TreeType
<1>2. s = [item |-> s.item, leaf |-> s.leaf, has |-> s.has, is_new |-> s.is_new, state |-> s.state]
  <2> DEFINE W == Without(t, t.is_new)
             I == [i \in Items |-> Discarded(W.item[i])]
             F == [b \in Blocks |-> IF b \in t.has THEN [l \in Leaves |-> Discarded(W.leaf[b][l])] ELSE W.leaf[b]]
             W1 == [W EXCEPT !.item = I]
             E == [W1 EXCEPT !.leaf = F]
  <2>1. IsTree(W)
    BY WithoutIsTree DEF IsTree, TreeInv, TreeType
  <2>2. EachItem(Discarded, W, t.has) = E
    <3> HIDE DEF W
    <3> QED BY <2>1 DEF EachItem, IsTree
  <2>3. Discard(t) = AllReady(E)
    BY <2>2 DEF Discard
  <2> HIDE DEF W, I, F
  <2>4. IsTree(W1)
    BY <2>1, Replaced
  <2> HIDE DEF W1
  <2>5. IsTree(E)
    BY <2>4, Replaced
  <2> HIDE DEF E
  <2> QED BY <2>3, <2>5, Replaced DEF AllReady, IsTree
<1>3. \A i \in Items : /\ NodeInv(s.item[i]) /\ s.item[i].state = "ready"
                       /\ s.item[i].value = t.item[i].value
  BY <1>1, DiscardedNode DEF TreeInv
<1>4. Discarded(Blank) = Blank
  BY DEF Discarded, Blank
<1>5. ASSUME NEW b \in Blocks, b \notin s.has PROVE s.leaf[b] = NoLeaves
  <2>1. kept(b) = NoLeaves
    BY <1>1, <1>5 DEF TreeInv, Named
  <2> HIDE DEF kept
  <2> QED BY <1>1, <1>4, <2>1
<1>6. ASSUME NEW b \in Blocks, NEW l \in Leaves
      PROVE  /\ NodeInv(s.leaf[b][l]) /\ s.leaf[b][l].state = "ready"
             /\ s.leaf[b][l].value = t.leaf[b][l].value
  <2>1. CASE b \in s.has
    <3>1. s.leaf[b][l] = Discarded(t.leaf[b][l])
      BY <1>1, <2>1
    <3> HIDE DEF s
    <3> QED BY <3>1, DiscardedNode DEF TreeInv
  <2>2. CASE b \notin s.has
    <3>1. s.leaf[b][l] = Blank
      BY <1>5, <2>2
    <3>2. t.leaf[b][l].value = Empty
      BY <1>1, <2>2, BlankNode DEF TreeInv
    <3> HIDE DEF s
    <3> QED BY <3>1, <3>2, BlankNode
  <2> QED BY <2>1, <2>2
<1>7. s.item \in [Items -> Node] /\ s.leaf \in [Blocks -> [Leaves -> Node]]
  <2>1. s.item \in [Items -> Node]
    BY <1>1, <1>3 DEF NodeInv
  <2>2. \A b \in Blocks : s.leaf[b] \in [Leaves -> Node]
    <3> TAKE b \in Blocks
    <3>1. \A l \in Leaves : s.leaf[b][l] \in Node
      BY <1>6 DEF NodeInv
    <3>2. CASE b \in s.has
      <4>1. s.leaf[b] = [l \in Leaves |-> Discarded(kept(b)[l])]
        BY <1>1, <3>2
      <4> HIDE DEF s, kept
      <4> QED BY <3>1, <4>1
    <3>3. CASE b \notin s.has
      BY <1>5, <3>3, BlankNode DEF NodeInv
    <3> QED BY <3>2, <3>3
  <2>3. s.leaf = [b \in Blocks |-> s.leaf[b]]
    BY <1>1
  <2> HIDE DEF s
  <2> QED BY <2>1, <2>2, <2>3
<1> HIDE DEF s, kept
<1>8. TreeInv(s) /\ Clean(s)
  <2>1. s \in TreeType
    BY <1>1, <1>2, <1>7 DEF TreeType, TreeInv, State
  <2>2. Clean(s)
    BY <1>1, <1>3, <1>6 DEF Clean
  <2> QED BY <1>1, <1>3, <1>5, <1>6, <2>1, <2>2 DEF TreeInv, Clean
<1>9. Shown(s) = Shown(t)
  <2>1. ItemsOf(s) = ItemsOf(t)
    BY <1>3 DEF ItemsOf
  <2>2. LeavesOf(s) = LeavesOf(t)
    BY <1>6 DEF LeavesOf
  <2>3. ListsOf(s) = ListsOf(t)
    BY <1>1 DEF ListsOf
  <2> QED BY <1>8, <2>1, <2>2, <2>3, ShownIs
<1>10. ShownNew(s) = Shown(s)
  BY <1>8, CleanShown
<1> QED BY <1>1, <1>8, <1>9, <1>10 DEF s

(***************************************************************************)
(* commit: the tree is the draft.                                          *)
(***************************************************************************)
LEMMA CommittedTree ==
  ASSUME NEW t, TreeInv(t)
  PROVE  /\ TreeInv(Commit(t)) /\ Clean(Commit(t)) /\ Commit(t).has = Here(t)
         /\ Shown(Commit(t)) = ShownNew(t) /\ ShownNew(Commit(t)) = ShownNew(t)
<1> DEFINE s == Commit(t)
           NoLeaves == [l \in Leaves |-> Blank]
           deleted == {b \in t.has : t.state[b] = "deleted"}
           kept(b) == IF b \in deleted THEN NoLeaves ELSE t.leaf[b]
<1>0. t.has \ deleted = Here(t)
  BY DEF Here
<1>1. /\ s.has = Here(t) /\ s.is_new = {}
      /\ s.item = [i \in Items |-> Committed(t.item[i])]
      /\ s.state = [b \in Named |-> "ready"]
      /\ s.leaf = [b \in Blocks |-> IF b \in t.has THEN [l \in Leaves |-> Committed(kept(b)[l])] ELSE kept(b)]
  BY <1>0 DEF Commit, AllReady, EachItem, Without, TreeInv, TreeType
<1>2. s = [item |-> s.item, leaf |-> s.leaf, has |-> s.has, is_new |-> s.is_new, state |-> s.state]
  <2> DEFINE W == Without(t, deleted)
             I == [i \in Items |-> Committed(W.item[i])]
             F == [b \in Blocks |-> IF b \in t.has THEN [l \in Leaves |-> Committed(W.leaf[b][l])] ELSE W.leaf[b]]
             W1 == [W EXCEPT !.item = I]
             E == [W1 EXCEPT !.leaf = F]
  <2>1. IsTree(W)
    BY WithoutIsTree DEF IsTree, TreeInv, TreeType
  <2>2. EachItem(Committed, W, t.has) = E
    <3> HIDE DEF W
    <3> QED BY <2>1 DEF EachItem, IsTree
  <2>3. Commit(t) = [AllReady(E) EXCEPT !.is_new = {}]
    BY <2>2 DEF Commit
  <2> HIDE DEF W, I, F
  <2>4. IsTree(W1)
    BY <2>1, Replaced
  <2> HIDE DEF W1
  <2>5. IsTree(E)
    BY <2>4, Replaced
  <2> HIDE DEF E
  <2> QED BY <2>3, <2>5, Replaced DEF AllReady, IsTree
<1>3. \A i \in Items : /\ NodeInv(s.item[i]) /\ s.item[i].state = "ready"
                       /\ s.item[i].value = Draft(t.item[i])
  BY <1>1, CommittedNode DEF TreeInv
<1>4. Committed(Blank) = Blank
  BY DEF Committed, Blank
<1>5. ASSUME NEW b \in Blocks, b \notin s.has PROVE s.leaf[b] = NoLeaves
  <2>1. kept(b) = NoLeaves
    BY <1>0, <1>1, <1>5 DEF TreeInv, Named
  <2> HIDE DEF kept
  <2> QED BY <1>1, <1>4, <2>1
<1>6. ASSUME NEW b \in Blocks, NEW l \in Leaves
      PROVE  /\ NodeInv(s.leaf[b][l]) /\ s.leaf[b][l].state = "ready"
             /\ s.leaf[b][l].value = IF b \in Here(t) THEN Draft(t.leaf[b][l]) ELSE Empty
  <2>1. CASE b \in s.has
    <3>1. s.leaf[b][l] = Committed(t.leaf[b][l]) /\ b \in Here(t)
      BY <1>0, <1>1, <2>1
    <3> HIDE DEF s
    <3> QED BY <3>1, CommittedNode DEF TreeInv
  <2>2. CASE b \notin s.has
    <3>1. s.leaf[b] = NoLeaves /\ b \notin Here(t)
      BY <1>1, <1>5, <2>2
    <3>2. s.leaf[b][l] = Blank
      BY <3>1
    <3> HIDE DEF s
    <3> QED BY <3>1, <3>2, BlankNode
  <2> QED BY <2>1, <2>2
<1>7. s.item \in [Items -> Node] /\ s.leaf \in [Blocks -> [Leaves -> Node]]
  <2>1. s.item \in [Items -> Node]
    BY <1>1, <1>3 DEF NodeInv
  <2>2. \A b \in Blocks : s.leaf[b] \in [Leaves -> Node]
    <3> TAKE b \in Blocks
    <3>1. \A l \in Leaves : s.leaf[b][l] \in Node
      BY <1>6 DEF NodeInv
    <3>2. CASE b \in s.has
      <4>1. s.leaf[b] = [l \in Leaves |-> Committed(kept(b)[l])]
        BY <1>0, <1>1, <3>2
      <4> HIDE DEF s, kept
      <4> QED BY <3>1, <4>1
    <3>3. CASE b \notin s.has
      BY <1>5, <3>3, BlankNode DEF NodeInv
    <3> QED BY <3>2, <3>3
  <2>3. s.leaf = [b \in Blocks |-> s.leaf[b]]
    BY <1>1
  <2> HIDE DEF s
  <2> QED BY <2>1, <2>2, <2>3
<1> HIDE DEF s, kept, deleted
<1>8. TreeInv(s) /\ Clean(s)
  <2>1. s \in TreeType
    BY <1>0, <1>1, <1>2, <1>7 DEF TreeType, TreeInv, State
  <2>2. Clean(s)
    BY <1>1, <1>3, <1>6 DEF Clean
  <2> QED BY <1>1, <1>3, <1>5, <1>6, <2>1, <2>2 DEF TreeInv, Clean
<1>9. Shown(s) = ShownNew(t)
  <2>1. ItemsOf(s) = NewItemsOf(t)
    BY <1>3 DEF ItemsOf, NewItemsOf
  <2>2. LeavesOf(s) = NewLeavesOf(t)
    BY <1>6 DEF LeavesOf, NewLeavesOf
  <2>3. ListsOf(s) = NewListsOf(t)
    BY <1>1 DEF ListsOf, NewListsOf
  <2> QED BY <1>8, <2>1, <2>2, <2>3, ShownIs, ShownNewIs
<1>10. ShownNew(s) = Shown(s)
  BY <1>8, CleanShown
<1> QED BY <1>1, <1>8, <1>9, <1>10 DEF s

(***************************************************************************)
(* replace_prepare marks and changes no value.                             *)
(***************************************************************************)
LEMMA PreparedTree ==
  ASSUME NEW t, TreeInv(t)
  PROVE  /\ TreeInv(ReplacePrepare(t)) /\ Keeps(t, ReplacePrepare(t))
         /\ \A b \in t.has : ReplacePrepare(t).state[b] = "deleted"
         /\ ReplacePrepare(t).has = t.has
<1> DEFINE s == ReplacePrepare(t)
<1>1. /\ s.leaf = t.leaf /\ s.has = t.has /\ s.is_new = t.is_new
      /\ s.item = [i \in Items |-> Deleted(t.item[i])]
      /\ s.state = [b \in Named |-> IF b \in t.has THEN "deleted" ELSE "ready"]
  BY DEF ReplacePrepare, TreeInv, TreeType
<1>2. s = [item |-> s.item, leaf |-> s.leaf, has |-> s.has, is_new |-> s.is_new, state |-> s.state]
  <2> DEFINE I == [i \in Items |-> Deleted(t.item[i])]
             Q == [b \in Named |-> IF b \in t.has THEN "deleted" ELSE "ready"]
             t1 == [t EXCEPT !.item = I]
  <2>1. IsTree(t)
    BY DEF IsTree, TreeInv, TreeType
  <2>2. s = [t1 EXCEPT !.state = Q]
    BY <2>1 DEF ReplacePrepare, IsTree
  <2> HIDE DEF I, Q, s
  <2>3. IsTree(t1)
    BY <2>1, Replaced
  <2> HIDE DEF t1
  <2>4. IsTree([t1 EXCEPT !.state = Q])
    BY <2>3, Replaced
  <2> QED BY <2>2, <2>4 DEF IsTree
<1> HIDE DEF s
<1>3. \A i \in Items : NodeInv(s.item[i]) /\ s.item[i].value = t.item[i].value
  BY <1>1, DeletedNode DEF TreeInv
<1>4. s.item \in [Items -> Node]
  BY <1>1, <1>3 DEF NodeInv
<1>5. s \in TreeType
  BY <1>1, <1>2, <1>4 DEF TreeType, TreeInv, State
<1>6. TreeInv(s) /\ Keeps(t, s)
  BY <1>1, <1>3, <1>5 DEF TreeInv, Keeps
<1> QED BY <1>1, <1>6 DEF s, TreeInv, TreeType

Into(n, v) == IF v = Empty THEN n ELSE Written(n, v)

LEMMA IntoNode ==
  ASSUME NEW n, NodeInv(n), NEW v \in Value
  PROVE  /\ NodeInv(Into(n, v)) /\ Into(n, v).value = n.value
         /\ v # Empty => Draft(Into(n, v)) = v
         /\ v = Empty => Into(n, v) = n
  BY WrittenNode DEF Into, Value

LEMMA NamedInIs ==
  ASSUME NEW c \in Configs
  PROVE  /\ NamedIn(c) \subseteq Named /\ NamedIn(c) \cap Lists = c.list
         /\ \A b \in Blocks, l \in Leaves : c.leaf[b][l] \in Value
         /\ \A b \in Blocks, l \in Leaves : b \notin NamedIn(c) => c.leaf[b][l] = Empty
         /\ \A i \in Items : c.item[i] \in Value
  BY TreeAssumption DEF NamedIn, Named, Configs

(***************************************************************************)
(* merge writes the new values only, and makes the blocks that are named.  *)
(***************************************************************************)
LEMMA MergedTree ==
  ASSUME NEW t, TreeInv(t), NEW c \in Configs
  PROVE  /\ TreeInv(Merge(t, c)) /\ Keeps(t, Merge(t, c))
         /\ Merge(t, c).has = t.has \cup NamedIn(c)
         /\ Merge(t, c).is_new = (t.is_new \ NamedIn(c)) \cup (NamedIn(c) \ t.has)
         /\ \A b \in Named : Merge(t, c).state[b] = IF b \in NamedIn(c) THEN "modified" ELSE t.state[b]
         /\ \A i \in Items : c.item[i] # Empty => Draft(Merge(t, c).item[i]) = c.item[i]
         /\ \A b \in Blocks, l \in Leaves : c.leaf[b][l] # Empty => Draft(Merge(t, c).leaf[b][l]) = c.leaf[b][l]
<1> DEFINE s == Merge(t, c)
<1>1. s = [item |-> [i \in Items |-> Into(t.item[i], c.item[i])],
           leaf |-> [b \in Blocks |-> [l \in Leaves |-> Into(t.leaf[b][l], c.leaf[b][l])]],
           has |-> t.has \cup NamedIn(c),
           is_new |-> (t.is_new \ NamedIn(c)) \cup (NamedIn(c) \ t.has),
           state |-> [b \in Named |-> IF b \in NamedIn(c) THEN "modified" ELSE t.state[b]]]
  BY DEF Merge, Into
<1> HIDE DEF s
<1>2. \A i \in Items : /\ NodeInv(s.item[i]) /\ s.item[i].value = t.item[i].value
                       /\ c.item[i] # Empty => Draft(s.item[i]) = c.item[i]
  BY <1>1, IntoNode, NamedInIs DEF TreeInv
<1>3. \A b \in Blocks, l \in Leaves :
        /\ NodeInv(s.leaf[b][l]) /\ s.leaf[b][l].value = t.leaf[b][l].value
        /\ c.leaf[b][l] # Empty => Draft(s.leaf[b][l]) = c.leaf[b][l]
        /\ c.leaf[b][l] = Empty => s.leaf[b][l] = t.leaf[b][l]
  BY <1>1, IntoNode, NamedInIs DEF TreeInv
<1>4. s \in TreeType
  <2>1. s.item \in [Items -> Node]
    BY <1>1, <1>2 DEF NodeInv
  <2>2. s.leaf \in [Blocks -> [Leaves -> Node]]
    BY <1>1, <1>3 DEF NodeInv
  <2>3. s.state \in [Named -> State]
    BY <1>1 DEF TreeInv, TreeType, State
  <2>4. s.has \in SUBSET Named /\ s.is_new \in SUBSET Named
    BY <1>1, NamedInIs DEF TreeInv, TreeType
  <2>5. s = [item |-> s.item, leaf |-> s.leaf, has |-> s.has, is_new |-> s.is_new, state |-> s.state]
    BY <1>1
  <2> QED BY <2>1, <2>2, <2>3, <2>4, <2>5 DEF TreeType
<1>5. \A b \in Blocks \ s.has : s.leaf[b] = [l \in Leaves |-> Blank]
  <2> TAKE b \in Blocks \ s.has
  <2>1. b \notin t.has /\ t.leaf[b] = [l \in Leaves |-> Blank]
    BY <1>1 DEF TreeInv
  <2>2. \A l \in Leaves : s.leaf[b][l] = Blank
    BY <1>1, <1>3, <2>1, NamedInIs
  <2>3. s.leaf[b] \in [Leaves -> Node]
    BY <1>4 DEF TreeType
  <2> QED BY <2>2, <2>3
<1>6. \A b \in Blocks \cap s.is_new, l \in Leaves : s.leaf[b][l].value = Empty
  <2> TAKE b \in Blocks \cap s.is_new, l \in Leaves
  <2>1. CASE b \in t.is_new
    BY <1>3, <2>1 DEF TreeInv
  <2>2. CASE b \notin t.has
    BY <1>3, <2>2, BlankNode DEF TreeInv
  <2> QED BY <1>1, <2>1, <2>2
<1>7. TreeInv(s)
  <2>1. s.is_new \subseteq s.has /\ \A b \in Named \ s.has : s.state[b] = "ready"
    BY <1>1 DEF TreeInv
  <2> QED BY <1>2, <1>3, <1>4, <1>5, <1>6, <2>1 DEF TreeInv
<1>8. Keeps(t, s)
  BY <1>1, <1>2, <1>3 DEF Keeps
<1>9. /\ s.has = t.has \cup NamedIn(c) /\ s.is_new = (t.is_new \ NamedIn(c)) \cup (NamedIn(c) \ t.has)
      /\ \A b \in Named : s.state[b] = IF b \in NamedIn(c) THEN "modified" ELSE t.state[b]
  BY <1>1
<1> QED BY <1>2, <1>3, <1>7, <1>8, <1>9 DEF s

(***************************************************************************)
(* load and rollback: replace_prepare and merge have all that the file or  *)
(* the revision names, and no other list entries.                          *)
(***************************************************************************)
LEMMA LoadedOver ==
  ASSUME NEW t, TreeInv(t), NEW c \in Configs
  PROVE  /\ TreeInv(Merge(ReplacePrepare(t), c)) /\ Keeps(t, Merge(ReplacePrepare(t), c))
         /\ Merge(ReplacePrepare(t), c).has = t.has \cup NamedIn(c)
         /\ Merge(ReplacePrepare(t), c).is_new \subseteq t.is_new \cup (NamedIn(c) \ t.has)
         /\ Covers(ShownNew(Merge(ReplacePrepare(t), c)), c)
<1> DEFINE p == ReplacePrepare(t)
           s == Merge(p, c)
<1>1. TreeInv(p) /\ Keeps(t, p) /\ p.has = t.has /\ p.is_new = t.is_new /\ \A b \in t.has : p.state[b] = "deleted"
  BY PreparedTree DEF ReplacePrepare, TreeInv, TreeType
<1> HIDE DEF p
<1>2. /\ TreeInv(s) /\ Keeps(p, s) /\ s.has = p.has \cup NamedIn(c)
      /\ s.is_new = (p.is_new \ NamedIn(c)) \cup (NamedIn(c) \ p.has)
      /\ \A b \in Named : s.state[b] = IF b \in NamedIn(c) THEN "modified" ELSE p.state[b]
      /\ \A i \in Items : c.item[i] # Empty => Draft(s.item[i]) = c.item[i]
      /\ \A b \in Blocks, l \in Leaves : c.leaf[b][l] # Empty => Draft(s.leaf[b][l]) = c.leaf[b][l]
  BY <1>1, MergedTree
<1> HIDE DEF s
<1>3. Here(s) = NamedIn(c)
  <2>1. \A b \in s.has : b \in Named
    BY <1>2 DEF TreeInv, TreeType
  <2> QED BY <1>1, <1>2, <2>1 DEF Here
<1>4. ShownNew(s).list = c.list
  <2>1. ShownNew(s).list = NewListsOf(s)
    BY <1>2, ShownNewIs
  <2>2. NewListsOf(s) = c.list
    BY <1>3, NamedInIs DEF NewListsOf
  <2> QED BY <2>1, <2>2
<1>5. \A i \in Items : c.item[i] # Empty => ShownNew(s).item[i] = c.item[i]
  BY <1>2, ShownNewIs DEF NewItemsOf
<1>6. \A b \in Blocks, l \in Leaves : c.leaf[b][l] # Empty => ShownNew(s).leaf[b][l] = c.leaf[b][l]
  BY <1>2, <1>3, ShownNewIs, NamedInIs DEF NewLeavesOf
<1>7. Covers(ShownNew(s), c)
  BY <1>4, <1>5, <1>6 DEF Covers
<1>8. Keeps(t, s)
  BY <1>1, <1>2, KeepsBoth
<1> QED BY <1>1, <1>2, <1>7, <1>8 DEF s, p

(***************************************************************************)
(* The start of the daemon: the tree is the configuration file.            *)
(***************************************************************************)
LEMMA LoadedTree ==
  ASSUME NEW c \in Configs
  PROVE  /\ TreeInv(Loaded(c)) /\ Clean(Loaded(c))
         /\ Shown(Loaded(c)) = c /\ ShownNew(Loaded(c)) = c
<1> DEFINE s == Loaded(c)
           Both(v) == [value |-> v, new_value |-> v, state |-> "ready"]
<1>1. s = [item |-> [i \in Items |-> Both(c.item[i])],
           leaf |-> [b \in Blocks |-> [l \in Leaves |-> Both(c.leaf[b][l])]],
           has |-> NamedIn(c), is_new |-> {}, state |-> [b \in Named |-> "ready"]]
  BY DEF Loaded
<1>2. \A v \in Value : NodeInv(Both(v)) /\ Both(v).value = v /\ Both(v).state = "ready"
  BY DEF NodeInv, Blank, Node, State, Value
<1>3. Both(Empty) = Blank
  BY DEF Blank
<1> HIDE DEF s, Both
<1>4. \A i \in Items : NodeInv(s.item[i]) /\ s.item[i].value = c.item[i] /\ s.item[i].state = "ready"
  BY <1>1, <1>2, NamedInIs
<1>5. \A b \in Blocks, l \in Leaves :
        NodeInv(s.leaf[b][l]) /\ s.leaf[b][l].value = c.leaf[b][l] /\ s.leaf[b][l].state = "ready"
  BY <1>1, <1>2, NamedInIs
<1>6. \A b \in Blocks \ s.has : s.leaf[b] = [l \in Leaves |-> Blank]
  BY <1>1, <1>3, NamedInIs
<1>7. s \in TreeType
  <2>1. s.item \in [Items -> Node]
    BY <1>1, <1>4 DEF NodeInv
  <2>2. s.leaf \in [Blocks -> [Leaves -> Node]]
    BY <1>1, <1>5 DEF NodeInv
  <2>3. s.state \in [Named -> State] /\ s.has \in SUBSET Named /\ s.is_new \in SUBSET Named
    BY <1>1, NamedInIs DEF State
  <2>4. s = [item |-> s.item, leaf |-> s.leaf, has |-> s.has, is_new |-> s.is_new, state |-> s.state]
    BY <1>1
  <2> QED BY <2>1, <2>2, <2>3, <2>4 DEF TreeType
<1>8. TreeInv(s) /\ Clean(s)
  BY <1>1, <1>4, <1>5, <1>6, <1>7 DEF TreeInv, Clean
<1>9. Shown(s) = c
  <2>1. c = [item |-> c.item, leaf |-> c.leaf, list |-> c.list]
    BY DEF Configs
  <2>2. ItemsOf(s) = c.item
    BY <1>4 DEF ItemsOf, Configs
  <2>3. LeavesOf(s) = c.leaf
    BY <1>5 DEF LeavesOf, Configs
  <2>4. ListsOf(s) = c.list
    BY <1>1, NamedInIs DEF ListsOf
  <2> QED BY <1>8, <2>1, <2>2, <2>3, <2>4, ShownIs
<1> QED BY <1>8, <1>9, CleanShown DEF s
-----------------------------------------------------------------------------
(* The state. *)

UsersInv ==
    /\ owner \in Users \cup {None} /\ OwnerIsKnown
    /\ DOMAIN wn \subseteq Users /\ \A u \in DOMAIN wn : wn[u] \in Blocks \cup {Root, Gone}

FilesInv == saved \in Configs /\ revisions \subseteq Configs /\ stray \subseteq Items \cup Named

(***************************************************************************)
(* A working node exists, and a new block is one of the owner's only (when *)
(* it was made in a transaction).                                          *)
(***************************************************************************)
NewIsOwners ==
    \A v \in DOMAIN wn : wn[v] \in Blocks =>
        wn[v] \in tree.has /\ (wn[v] \in tree.is_new \ stray => v = owner)

TreeIInv == TreeInv(tree) /\ UsersInv /\ FilesInv /\ CleanWithoutOwner /\ NewIsOwners

(***************************************************************************)
(* What requests do, by kind.  A write keeps what is committed and every   *)
(* block; a reset ends with everybody at the root; else only the working   *)
(* node of the user moves.                                                 *)
(***************************************************************************)
Wrote(u) ==
    /\ Request(u) /\ ~Pretends(u)
    /\ TreeInv(tree') /\ Keeps(tree, tree')
    /\ tree.has \subseteq tree'.has /\ tree'.is_new \cap tree.has \subseteq tree.is_new
    /\ \/ owner' = u /\ stray' = stray
       \/ owner' = owner /\ stray' = Items \cup Named
    /\ UNCHANGED <<saved, revisions>>

WasReset(u) ==
    /\ ResetAllWns(u) /\ ~Pretends(u)
    /\ TreeInv(tree')
    /\ \/ EndTransaction /\ Clean(tree')
       \/ tree' = CommitPretend(tree) /\ UNCHANGED <<owner, stray>>
    /\ saved' \in Configs /\ revisions' \subseteq Configs

WentTo(u, n) ==
    /\ wn' = Moved(u, n)
    /\ \/ n = At(u) /\ n # Gone
       \/ n = Root
       \/ n \in tree.has \cap Blocks /\ ~Pretends(u)
    /\ UNCHANGED <<tree, owner, saved, revisions, stray>>

LEMMA Writing ==
  ASSUME TreeIInv, NEW u \in Users, NEW t, Write(u, t), TreeInv(t), Keeps(tree, t),
         tree.has \subseteq t.has, t.is_new \cap tree.has \subseteq tree.is_new
  PROVE  Wrote(u)
  BY DEF Write, Wrote

LEMMA SettingWrites ==
  ASSUME TreeIInv, NEW u \in Users, Setting(u)
  PROVE  Wrote(u) \/ \E b \in Named : SetStray(u, b)
<1> USE DEF TreeIInv
<1>1. CASE SetNothing(u)
  BY <1>1, Writing, KeepsItself DEF SetNothing
<1>2. ASSUME NEW i \in Items, NEW v \in Values, SetItem(u, i, v) PROVE Wrote(u)
  <2> DEFINE n == Written(tree.item[i], v)
             t == [tree EXCEPT !.item[i] = n]
  <2>1. NodeInv(n) /\ n.value = tree.item[i].value
    BY WrittenNode DEF TreeInv
  <2>2. Write(u, t)
    BY <1>2 DEF SetItem
  <2>3. t.has = tree.has /\ t.is_new = tree.is_new
    BY DEF TreeInv, TreeType
  <2> HIDE DEF n
  <2>4. TreeInv(t) /\ Keeps(tree, t)
    BY <2>1, ItemChanged
  <2> HIDE DEF t
  <2> QED BY <2>2, <2>3, <2>4, Writing
<1>3. ASSUME NEW b \in Blocks, SetBlock(u, b) PROVE Wrote(u)
  <2> DEFINE x == IF tree.state[b] = "deleted" THEN "modified" ELSE tree.state[b]
             t == [tree EXCEPT !.state[b] = x]
  <2>1. b \in Named /\ b \in tree.has /\ x \in State
    BY <1>3 DEF SetBlock, TreeInv, TreeType, Named, State
  <2>2. Write(u, t)
    BY <1>3 DEF SetBlock
  <2>3. t.has = tree.has /\ t.is_new = tree.is_new
    BY DEF TreeInv, TreeType
  <2> HIDE DEF x
  <2>4. TreeInv(t) /\ Keeps(tree, t)
    BY <2>1, StateChanged
  <2> HIDE DEF t
  <2> QED BY <2>2, <2>3, <2>4, Writing
<1>4. ASSUME NEW b \in Blocks, SetNew(u, b) PROVE Wrote(u)
  <2> DEFINE t == Created(tree, b)
  <2>1. b \in Named /\ b \notin tree.has /\ Write(u, t)
    BY <1>4 DEF SetNew, Named
  <2>2. TreeInv(t) /\ Keeps(tree, t) /\ t.has = tree.has \cup {b} /\ t.is_new = tree.is_new \cup {b}
    BY <2>1, CreatedTree
  <2> HIDE DEF t
  <2> QED BY <2>1, <2>2, Writing
<1>5. ASSUME NEW b \in Blocks, NEW l \in Leaves, NEW v \in Values, SetLeaf(u, b, l, v) PROVE Wrote(u)
  <2> DEFINE n == Written(tree.leaf[b][l], v)
             t == [tree EXCEPT !.leaf[b][l] = n]
  <2>1. NodeInv(n) /\ n.value = tree.leaf[b][l].value
    BY WrittenNode DEF TreeInv
  <2>2. Write(u, t) /\ b \in tree.has
    BY <1>5 DEF SetLeaf
  <2>3. t.has = tree.has /\ t.is_new = tree.is_new
    BY DEF TreeInv, TreeType
  <2> HIDE DEF n
  <2>4. TreeInv(t) /\ Keeps(tree, t)
    BY <2>1, <2>2, LeafChanged
  <2> HIDE DEF t
  <2> QED BY <2>2, <2>3, <2>4, Writing
<1>6. ASSUME NEW b \in Blocks, NEW l \in Leaves, NEW v \in Values, SetNewLeaf(u, b, l, v) PROVE Wrote(u)
  <2> DEFINE s == Created(tree, b)
             n == Written(s.leaf[b][l], v)
             t == [s EXCEPT !.leaf[b][l] = n]
  <2>1. b \in Named /\ b \notin tree.has /\ Write(u, t)
    BY <1>6 DEF SetNewLeaf, Named
  <2>2. TreeInv(s) /\ Keeps(tree, s) /\ s.has = tree.has \cup {b} /\ s.is_new = tree.is_new \cup {b}
    BY <2>1, CreatedTree
  <2> HIDE DEF s
  <2>3. NodeInv(n) /\ n.value = s.leaf[b][l].value
    BY <2>2, WrittenNode DEF TreeInv
  <2>4. t.has = s.has /\ t.is_new = s.is_new
    BY <2>2 DEF TreeInv, TreeType
  <2> HIDE DEF n
  <2>5. TreeInv(t) /\ Keeps(s, t)
    BY <2>2, <2>3, LeafChanged
  <2>6. Keeps(tree, t)
    BY <2>2, <2>5, KeepsBoth
  <2> HIDE DEF t
  <2> QED BY <2>1, <2>2, <2>4, <2>5, <2>6, Writing
<1> QED BY <1>1, <1>2, <1>3, <1>4, <1>5, <1>6 DEF Setting

LEMMA DeletingWrites ==
  ASSUME TreeIInv, NEW u \in Users, Deleting(u)
  PROVE  Wrote(u)
<1> USE DEF TreeIInv
<1>1. ASSUME NEW i \in Items, DeleteItem(u, i) PROVE Wrote(u)
  <2> DEFINE n == Deleted(tree.item[i])
             t == [tree EXCEPT !.item[i] = n]
  <2>1. NodeInv(n) /\ n.value = tree.item[i].value
    BY DeletedNode DEF TreeInv
  <2>2. Write(u, t)
    BY <1>1 DEF DeleteItem
  <2>3. t.has = tree.has /\ t.is_new = tree.is_new
    BY DEF TreeInv, TreeType
  <2> HIDE DEF n
  <2>4. TreeInv(t) /\ Keeps(tree, t)
    BY <2>1, ItemChanged
  <2> HIDE DEF t
  <2> QED BY <2>2, <2>3, <2>4, Writing
<1>2. ASSUME NEW b \in Blocks, NEW l \in Leaves, DeleteLeaf(u, b, l) PROVE Wrote(u)
  <2> DEFINE n == Deleted(tree.leaf[b][l])
             t == [tree EXCEPT !.leaf[b][l] = n]
  <2>1. NodeInv(n) /\ n.value = tree.leaf[b][l].value
    BY DeletedNode DEF TreeInv
  <2>2. Write(u, t) /\ b \in tree.has
    BY <1>2 DEF DeleteLeaf
  <2>3. t.has = tree.has /\ t.is_new = tree.is_new
    BY DEF TreeInv, TreeType
  <2> HIDE DEF n
  <2>4. TreeInv(t) /\ Keeps(tree, t)
    BY <2>1, <2>2, LeafChanged
  <2> HIDE DEF t
  <2> QED BY <2>2, <2>3, <2>4, Writing
<1>3. ASSUME NEW b \in Blocks, DeleteBlock(u, b) PROVE Wrote(u)
  <2> DEFINE t == [tree EXCEPT !.state[b] = "deleted"]
  <2>1. b \in Named /\ b \in tree.has /\ "deleted" \in State /\ Write(u, t)
    BY <1>3 DEF DeleteBlock, Named, State
  <2>2. t.has = tree.has /\ t.is_new = tree.is_new
    BY DEF TreeInv, TreeType
  <2>3. TreeInv(t) /\ Keeps(tree, t)
    BY <2>1, StateChanged
  <2> HIDE DEF t
  <2> QED BY <2>1, <2>2, <2>3, Writing
<1> QED BY <1>1, <1>2, <1>3 DEF Deleting

LEMMA LoadWrites ==
  ASSUME TreeIInv, NEW u \in Users, NEW f \in Files, Load(u, f)
  PROVE  Wrote(u)
<1> DEFINE t == Merge(ReplacePrepare(tree), f.config)
<1>1. f.config \in Configs
  BY FilesAssumption
<1>2. /\ TreeInv(t) /\ Keeps(tree, t) /\ t.has = tree.has \cup NamedIn(f.config)
      /\ t.is_new \subseteq tree.is_new \cup (NamedIn(f.config) \ tree.has)
  BY <1>1, LoadedOver DEF TreeIInv
<1>3. tree' = t
  BY DEF Load
<1> HIDE DEF t
<1> QED BY <1>2, <1>3 DEF Load, Wrote

LEMMA DiscardResets ==
  ASSUME TreeIInv, NEW u \in Users, DoDiscard(u)
  PROVE  WasReset(u)
  BY DiscardedTree DEF TreeIInv, FilesInv, DoDiscard, WasReset

LEMMA CommitResets ==
  ASSUME TreeIInv, NEW u \in Users, NEW opened \in BOOLEAN, NEW written \in BOOLEAN,
         DoCommit(u, opened, written)
  PROVE  WasReset(u)
<1> DEFINE t == CommitPretend(tree)
<1>1. TreeInv(t) /\ Shown(t) \in Configs
  BY PretendedTree, ShownIs DEF TreeIInv
<1>2. TreeInv(Commit(t)) /\ Clean(Commit(t)) /\ ShownNew(Commit(t)) \in Configs
  BY <1>1, CommittedTree, ShownNewIs
<1>3. CASE opened
  <2>1. /\ revisions' = revisions \cup {Shown(t)} /\ tree' = Commit(t)
        /\ saved' = (IF written THEN ShownNew(tree') ELSE saved) /\ EndTransaction
    BY <1>3 DEF DoCommit
  <2> HIDE DEF t
  <2> QED BY <1>1, <1>2, <2>1 DEF DoCommit, WasReset, TreeIInv, FilesInv
<1>4. CASE ~opened
  BY <1>1, <1>4 DEF DoCommit, WasReset, TreeIInv, FilesInv
<1> QED BY <1>3, <1>4

LEMMA RollbackResets ==
  ASSUME TreeIInv, NEW u \in Users, NEW c \in revisions, NEW written \in BOOLEAN,
         Rollback(u, c, written)
  PROVE  WasReset(u)
<1> DEFINE t == Merge(ReplacePrepare(tree), c)
<1>1. TreeInv(t)
  BY LoadedOver DEF TreeIInv, FilesInv
<1>2. TreeInv(Commit(t)) /\ Clean(Commit(t)) /\ ShownNew(Commit(t)) \in Configs
  BY <1>1, CommittedTree, ShownNewIs
<1>3. tree' = Commit(t) /\ saved' = (IF written THEN ShownNew(tree') ELSE saved)
  BY DEF Rollback
<1> HIDE DEF t
<1> QED BY <1>2, <1>3 DEF Rollback, WasReset, TreeIInv, FilesInv

LEMMA LoginGoes == ASSUME NEW u \in Users, Login(u) PROVE WentTo(u, Root)
  BY DEF Login, WentTo

LEMMA LookGoes == ASSUME NEW u \in Users, Look(u) PROVE WentTo(u, At(u))
  BY DEF Look, Request, WentTo

LEMMA EditGoes ==
  ASSUME NEW u \in Users, NEW n \in Blocks \cup {Root}, Edit(u, n)
  PROVE  WentTo(u, n)
  BY DEF Edit, WentTo

(***************************************************************************)
(* The kinds are all there is.                                             *)
(***************************************************************************)
LEMMA Kinds ==
  ASSUME TreeIInv, NEW u \in Users, Command(u)
  PROVE  \/ Wrote(u)
         \/ \E b \in Named : SetStray(u, b)
         \/ \E n \in Blocks \cup {Root, Gone} : WentTo(u, n)
         \/ WasReset(u)
         \/ Logout(u)
<1>1. At(u) \in Blocks \cup {Root, Gone}
  BY DEF TreeIInv, UsersInv, At
<1>2. CASE Look(u)
  BY <1>1, <1>2, LookGoes
<1> QED BY <1>2, SettingWrites, DeletingWrites, LoadWrites, EditGoes, DiscardResets, CommitResets, RollbackResets
         DEF Command
-----------------------------------------------------------------------------
(* The invariant. *)

LEMMA MovedIs ==
  ASSUME UsersInv, NEW u \in Users, NEW n \in Blocks \cup {Root, Gone}
  PROVE  /\ DOMAIN Moved(u, n) = DOMAIN wn \cup {u} /\ DOMAIN Moved(u, n) \subseteq Users
         /\ \A v \in DOMAIN Moved(u, n) : Moved(u, n)[v] = IF v = u THEN n ELSE wn[v]
         /\ \A v \in DOMAIN Moved(u, n) : Moved(u, n)[v] \in Blocks \cup {Root, Gone}
         /\ At(u) \in Blocks \cup {Root, Gone}
  BY DEF UsersInv, Moved, At

(***************************************************************************)
(* After a request without edit everybody is where he was, and is known.   *)
(***************************************************************************)
LEMMA RequestKeeps ==
  ASSUME UsersInv, NEW u \in Users, Request(u)
  PROVE  /\ DOMAIN wn' = DOMAIN wn \cup {u} /\ DOMAIN wn' \subseteq Users
         /\ \A v \in DOMAIN wn : wn'[v] = wn[v]
         /\ u \notin DOMAIN wn => wn'[u] = Root
         /\ \A v \in DOMAIN wn' : wn'[v] \in Blocks \cup {Root, Gone}
<1>1. wn' = Moved(u, At(u)) /\ At(u) \in Blocks \cup {Root, Gone}
  BY DEF Request, At, UsersInv
<1>2. /\ DOMAIN wn' = DOMAIN wn \cup {u} /\ DOMAIN wn' \subseteq Users
      /\ \A v \in DOMAIN wn' : wn'[v] = IF v = u THEN At(u) ELSE wn[v]
      /\ \A v \in DOMAIN wn' : wn'[v] \in Blocks \cup {Root, Gone}
  BY <1>1, MovedIs
<1> QED BY <1>2 DEF At

LEMMA WroteKeeps ==
  ASSUME TreeIInv, NEW u \in Users, Wrote(u)
  PROVE  TreeIInv'
<1> USE TreeAssumption
<1>1. owner \in {None, u} /\ owner' \in {owner, u} /\ u # None
  BY DEF Wrote, Pretends, TreeIInv
<1>2. UsersInv'
  BY <1>1, RequestKeeps DEF Wrote, TreeIInv, UsersInv, OwnerIsKnown
<1>3. FilesInv'
  BY DEF Wrote, TreeIInv, FilesInv
<1>4. TreeInv(tree)'
  BY DEF Wrote
<1>5. CleanWithoutOwner'
  <2>1. CASE owner' = u
    BY <1>1, <2>1 DEF CleanWithoutOwner
  <2>2. CASE stray' = Items \cup Named
    BY <1>4, <2>2 DEF CleanWithoutOwner, TreeInv, TreeType
  <2> QED BY <2>1, <2>2 DEF Wrote
<1>6. NewIsOwners'
  <2> SUFFICES ASSUME NEW v \in DOMAIN wn', wn'[v] \in Blocks
               PROVE  wn'[v] \in tree'.has /\ (wn'[v] \in tree'.is_new \ stray' => v = owner')
    BY DEF NewIsOwners
  <2>1. v \in DOMAIN wn /\ wn'[v] = wn[v] /\ v # None
    BY RequestKeeps DEF Wrote, TreeIInv, UsersInv
  <2>2. wn[v] \in tree.has /\ (wn[v] \in tree.is_new \ stray => v = owner)
    BY <2>1 DEF TreeIInv, NewIsOwners
  <2>3. wn'[v] \in tree'.has
    BY <2>1, <2>2 DEF Wrote
  <2>4. ASSUME wn'[v] \in tree'.is_new \ stray' PROVE v = owner'
    <3>1. CASE owner' = u /\ stray' = stray
      BY <1>1, <2>1, <2>2, <2>4, <3>1 DEF Wrote
    <3>2. CASE stray' = Items \cup Named
      BY <1>4, <2>4, <3>2 DEF TreeInv, TreeType
    <3> QED BY <3>1, <3>2 DEF Wrote
  <2> QED BY <2>3, <2>4
<1> QED BY <1>2, <1>3, <1>4, <1>5, <1>6 DEF TreeIInv

LEMMA StrayKeeps ==
  ASSUME TreeIInv, NEW u \in Users, NEW b \in Named, SetStray(u, b)
  PROVE  TreeIInv'
<1> DEFINE t == Created(tree, b)
<1>1. /\ TreeInv(t) /\ t.has = tree.has \cup {b} /\ t.is_new = tree.is_new \cup {b}
      /\ t.item = tree.item /\ \A d \in Named \ {b} : t.state[d] = tree.state[d]
      /\ \A d \in Blocks \ {b} : t.leaf[d] = tree.leaf[d]
  BY CreatedTree DEF TreeIInv, SetStray
<1>2. tree' = t /\ stray' = stray \cup {b} /\ owner' = owner /\ saved' = saved /\ revisions' = revisions
  BY DEF SetStray
<1> HIDE DEF t
<1>3. UsersInv'
  <2>1. /\ DOMAIN wn' = DOMAIN wn \cup {u} /\ DOMAIN wn' \subseteq Users
        /\ \A v \in DOMAIN wn' : wn'[v] \in Blocks \cup {Root, Gone}
    BY RequestKeeps DEF SetStray, TreeIInv
  <2> QED BY <1>2, <2>1 DEF TreeIInv, UsersInv, OwnerIsKnown
<1>4. FilesInv'
  BY <1>2 DEF TreeIInv, FilesInv
<1>5. TreeInv(tree)'
  BY <1>1, <1>2
<1>6. CleanWithoutOwner'
  <2>1. tree.has \subseteq Named
    BY DEF TreeIInv, TreeInv, TreeType
  <2> QED BY <1>1, <1>2, <2>1 DEF TreeIInv, CleanWithoutOwner
<1>7. NewIsOwners'
  <2> SUFFICES ASSUME NEW v \in DOMAIN wn', wn'[v] \in Blocks
               PROVE  wn'[v] \in tree'.has /\ (wn'[v] \in tree'.is_new \ stray' => v = owner')
    BY DEF NewIsOwners
  <2>1. v \in DOMAIN wn /\ wn'[v] = wn[v]
    BY RequestKeeps, TreeAssumption DEF SetStray, TreeIInv, UsersInv
  <2> QED BY <1>1, <1>2, <2>1 DEF TreeIInv, NewIsOwners
<1> QED BY <1>3, <1>4, <1>5, <1>6, <1>7 DEF TreeIInv

LEMMA WentKeeps ==
  ASSUME TreeIInv, NEW u \in Users, NEW n \in Blocks \cup {Root, Gone}, WentTo(u, n)
  PROVE  TreeIInv'
<1>1. tree' = tree /\ owner' = owner /\ saved' = saved /\ revisions' = revisions /\ stray' = stray
  BY DEF WentTo
<1>2. /\ DOMAIN wn' = DOMAIN wn \cup {u} /\ DOMAIN wn' \subseteq Users
      /\ \A v \in DOMAIN wn' : wn'[v] = IF v = u THEN n ELSE wn[v]
      /\ \A v \in DOMAIN wn' : wn'[v] \in Blocks \cup {Root, Gone}
  <2>1. UsersInv /\ wn' = Moved(u, n)
    BY DEF TreeIInv, WentTo
  <2>2. /\ DOMAIN Moved(u, n) = DOMAIN wn \cup {u} /\ DOMAIN Moved(u, n) \subseteq Users
        /\ \A v \in DOMAIN Moved(u, n) : Moved(u, n)[v] = IF v = u THEN n ELSE wn[v]
        /\ \A v \in DOMAIN Moved(u, n) : Moved(u, n)[v] \in Blocks \cup {Root, Gone}
    BY <2>1, MovedIs
  <2> QED BY <2>1, <2>2
<1>3. UsersInv'
  BY <1>1, <1>2 DEF TreeIInv, UsersInv, OwnerIsKnown
<1>4. FilesInv' /\ TreeInv(tree)' /\ CleanWithoutOwner'
  BY <1>1 DEF TreeIInv, FilesInv, CleanWithoutOwner
<1>5. NewIsOwners'
  <2> SUFFICES ASSUME NEW v \in DOMAIN wn', wn'[v] \in Blocks
               PROVE  wn'[v] \in tree.has /\ (wn'[v] \in tree.is_new \ stray => v = owner)
    BY <1>1 DEF NewIsOwners
  <2>1. v \in DOMAIN wn \cup {u} /\ wn'[v] = IF v = u THEN n ELSE wn[v]
    BY <1>2
  <2>2. CASE v \in DOMAIN wn /\ wn'[v] = wn[v]
    BY <2>2 DEF TreeIInv, NewIsOwners
  <2>3. CASE v = u /\ n \in tree.has \cap Blocks /\ ~Pretends(u)
    <3>1. CASE owner = None
      BY <2>1, <2>3, <3>1 DEF TreeIInv, CleanWithoutOwner
    <3>2. CASE owner = u
      BY <2>1, <2>3, <3>2
    <3> QED BY <2>3, <3>1, <3>2 DEF Pretends
  <2>4. CASE v = u /\ n = At(u)
    BY <2>1, <2>4, TreeAssumption DEF At, TreeIInv, NewIsOwners
  <2>5. CASE v = u /\ n = Root
    BY <2>1, <2>5, TreeAssumption
  <2> QED BY <2>1, <2>2, <2>3, <2>4, <2>5 DEF WentTo
<1> QED BY <1>3, <1>4, <1>5 DEF TreeIInv

LEMMA ResetKeeps ==
  ASSUME TreeIInv, NEW u \in Users, WasReset(u)
  PROVE  TreeIInv'
<1>1. owner \in {None, u} /\ owner' \in {None, owner}
  BY DEF WasReset, Pretends, EndTransaction
<1>2. DOMAIN wn' = DOMAIN wn \cup {u} /\ \A v \in DOMAIN wn' : wn'[v] = Root
  BY DEF WasReset, ResetAllWns
<1>3. UsersInv'
  BY <1>1, <1>2 DEF TreeIInv, UsersInv, OwnerIsKnown
<1>4. FilesInv' /\ TreeInv(tree)'
  BY DEF WasReset, EndTransaction, TreeIInv, FilesInv
<1>5. CleanWithoutOwner'
  <2>1. CASE Clean(tree')
    BY <1>4, <2>1 DEF Clean, CleanWithoutOwner, TreeInv, TreeType
  <2>2. CASE tree' = CommitPretend(tree) /\ UNCHANGED <<owner, stray>>
    <3>1. /\ tree'.item = tree.item /\ tree'.has = tree.has /\ tree'.state = tree.state
          /\ tree'.leaf = tree.leaf /\ tree'.is_new = {}
      BY <2>2 DEF CommitPretend, TreeIInv, TreeInv, TreeType
    <3> QED BY <2>2, <3>1 DEF TreeIInv, CleanWithoutOwner
  <2> QED BY <2>1, <2>2 DEF WasReset
<1>6. NewIsOwners'
  BY <1>2, TreeAssumption DEF NewIsOwners
<1> QED BY <1>3, <1>4, <1>5, <1>6 DEF TreeIInv

(***************************************************************************)
(* logout and the sweep: who stays was not in a new block, unless it is    *)
(* the owner's, who stays only when nothing is discarded.                  *)
(***************************************************************************)
LEMMA LeaveKeeps ==
  ASSUME TreeIInv, NEW U \in SUBSET Users, Leave(U)
  PROVE  TreeIInv'
<1> DEFINE W == [v \in DOMAIN wn \ U |-> wn[v]]
<1>1. CASE \A u \in U : Pretends(u)
  <2>1. /\ wn' = W /\ tree' = tree /\ owner' = owner /\ stray' = stray
        /\ saved' = saved /\ revisions' = revisions /\ owner \notin U
    BY <1>1 DEF Leave, Pretends
  <2>2. DOMAIN wn' = DOMAIN wn \ U /\ \A v \in DOMAIN wn' : wn'[v] = wn[v]
    BY <2>1
  <2> HIDE DEF W
  <2>3. UsersInv'
    BY <2>1, <2>2 DEF TreeIInv, UsersInv, OwnerIsKnown
  <2>4. FilesInv' /\ TreeInv(tree)' /\ CleanWithoutOwner' /\ NewIsOwners'
    BY <2>1, <2>2 DEF TreeIInv, FilesInv, CleanWithoutOwner, NewIsOwners
  <2> QED BY <2>3, <2>4 DEF TreeIInv
<1>2. CASE \E u \in U : ~Pretends(u)
  <2>1. /\ wn' = Freed(W, tree.is_new) /\ tree' = Discard(tree) /\ owner' = None /\ stray' = {}
        /\ saved' = saved /\ revisions' = revisions /\ owner \in U \cup {None}
    BY <1>2 DEF Leave, Pretends, EndTransaction
  <2>2. /\ DOMAIN wn' = DOMAIN wn \ U
        /\ \A v \in DOMAIN wn' : wn'[v] = IF wn[v] \in tree.is_new THEN Gone ELSE wn[v]
    BY <2>1 DEF Freed
  <2> HIDE DEF W
  <2>3. UsersInv'
    BY <2>1, <2>2 DEF TreeIInv, UsersInv, OwnerIsKnown
  <2>4. TreeInv(tree') /\ Clean(tree') /\ tree'.has = tree.has \ tree.is_new
    BY <2>1, DiscardedTree DEF TreeIInv
  <2>5. FilesInv' /\ TreeInv(tree)'
    BY <2>1, <2>4 DEF TreeIInv, FilesInv
  <2>6. CleanWithoutOwner'
    BY <2>4 DEF Clean, CleanWithoutOwner, TreeInv, TreeType
  <2>7. NewIsOwners'
    BY <2>2, <2>4, TreeAssumption DEF Clean, TreeIInv, NewIsOwners
  <2> QED BY <2>3, <2>5, <2>6, <2>7 DEF TreeIInv
<1> QED BY <1>1, <1>2

LEMMA RestartKeeps == ASSUME TreeIInv, Restart PROVE TreeIInv'
<1>1. saved \in Configs
  BY DEF TreeIInv, FilesInv
<1>2. TreeInv(tree') /\ Clean(tree')
  BY <1>1, LoadedTree DEF Restart
<1>3. UsersInv' /\ NewIsOwners'
  BY DEF Restart, EndTransaction, UsersInv, OwnerIsKnown, NewIsOwners
<1>4. CleanWithoutOwner'
  BY <1>2 DEF Clean, CleanWithoutOwner, TreeInv, TreeType
<1>5. FilesInv'
  BY DEF Restart, EndTransaction, TreeIInv, FilesInv
<1> QED BY <1>2, <1>3, <1>4, <1>5 DEF TreeIInv

LEMMA NothingIs == Nothing \in Configs
  BY DEF Nothing, Configs, Value

LEMMA InitIs == ASSUME Init PROVE TreeIInv
<1>1. TreeInv(tree) /\ Clean(tree)
  BY NothingIs, LoadedTree DEF Init
<1>2. UsersInv /\ NewIsOwners
  BY DEF Init, UsersInv, OwnerIsKnown, NewIsOwners
<1>3. CleanWithoutOwner
  BY <1>1 DEF Clean, CleanWithoutOwner, TreeInv, TreeType
<1>4. FilesInv
  BY NothingIs DEF Init, FilesInv
<1> QED BY <1>1, <1>2, <1>3, <1>4 DEF TreeIInv

LEMMA StepKeeps == ASSUME TreeIInv, [Next]_vars PROVE TreeIInv'
<1>1. ASSUME NEW u \in Users, Command(u) PROVE TreeIInv'
  <2>1. CASE Logout(u)
    BY <2>1, LeaveKeeps DEF Logout
  <2> QED BY <1>1, <2>1, Kinds, WroteKeeps, StrayKeeps, WentKeeps, ResetKeeps
<1>2. ASSUME NEW u \in Users, Login(u) PROVE TreeIInv'
  BY <1>2, LoginGoes, WentKeeps
<1>3. ASSUME NEW U \in SUBSET Users, Sweep(U) PROVE TreeIInv'
  BY <1>3, LeaveKeeps DEF Sweep
<1>4. CASE UNCHANGED vars
  <2>1. UsersInv' /\ FilesInv' /\ TreeInv(tree)'
    BY <1>4 DEF vars, TreeIInv, UsersInv, OwnerIsKnown, FilesInv
  <2>2. CleanWithoutOwner' /\ NewIsOwners'
    BY <1>4 DEF vars, TreeIInv, CleanWithoutOwner, NewIsOwners
  <2> QED BY <2>1, <2>2 DEF TreeIInv
<1> QED BY <1>1, <1>2, <1>3, <1>4, RestartKeeps DEF Next

(***************************************************************************)
(* The tree is well formed and its owner known in every reachable state.   *)
(***************************************************************************)
THEOREM Invariance == Spec => []TreeIInv
  BY InitIs, StepKeeps, PTL DEF Spec

(***************************************************************************)
(* What the actions of process_enter leave is a tree, users and files.     *)
(***************************************************************************)
THEOREM TypeCorrect == Spec => []TypeOK
<1>1. ASSUME TreeIInv PROVE TypeOK
  BY <1>1 DEF TreeIInv, TreeInv, TreeType, UsersInv, FilesInv, TypeOK
<1> QED BY <1>1, Invariance, PTL

(***************************************************************************)
(* The owner of a transaction is always in usr_path_map, where the sweep   *)
(* of timeout_loop finds it.                                               *)
(***************************************************************************)
THEOREM OwnerKnown == Spec => []OwnerIsKnown
<1>1. ASSUME TreeIInv PROVE OwnerIsKnown
  BY <1>1 DEF TreeIInv, UsersInv
<1> QED BY <1>1, Invariance, PTL

(***************************************************************************)
(* Nothing is left to commit when nobody owns the transaction: each way to *)
(* end one (commit, discard, rollback, logout, sweep) cleans the tree.     *)
(***************************************************************************)
THEOREM CleanTree == Spec => []CleanWithoutOwner
<1>1. ASSUME TreeIInv PROVE CleanWithoutOwner
  BY <1>1 DEF TreeIInv
<1> QED BY <1>1, Invariance, PTL
-----------------------------------------------------------------------------
(* Steps. *)

LEMMA CommandAlive ==
  ASSUME TreeIInv, NEW u \in Users, Command(u) \/ Login(u), ~Logout(u),
         NEW v \in DOMAIN wn, wn[v] \in Blocks
  PROVE  v \in DOMAIN wn' => wn'[v] # Gone /\ (wn'[v] = wn[v] => wn[v] \in tree'.has)
<1> USE TreeAssumption
<1>1. wn[v] \in tree.has /\ wn[v] # Gone /\ wn[v] # Root
  BY DEF TreeIInv, NewIsOwners
<1>2. CASE Wrote(u)
  BY <1>1, <1>2, RequestKeeps DEF Wrote, TreeIInv
<1>3. ASSUME NEW b \in Named, SetStray(u, b)
      PROVE  wn'[v] # Gone /\ wn[v] \in tree'.has
  <2>1. tree'.has = tree.has \cup {b}
    BY <1>3, CreatedTree DEF SetStray, TreeIInv
  <2> QED BY <1>1, <1>3, <2>1, RequestKeeps DEF SetStray, TreeIInv
<1>4. ASSUME NEW n \in Blocks \cup {Root, Gone}, WentTo(u, n)
      PROVE  wn'[v] # Gone /\ wn[v] \in tree'.has
  <2>1. v \in DOMAIN Moved(u, n) /\ Moved(u, n)[v] = IF v = u THEN n ELSE wn[v]
    <3>1. UsersInv /\ v \in DOMAIN wn \cup {u}
      BY DEF TreeIInv
    <3>2. /\ DOMAIN Moved(u, n) = DOMAIN wn \cup {u}
          /\ \A x \in DOMAIN Moved(u, n) : Moved(u, n)[x] = IF x = u THEN n ELSE wn[x]
      BY <3>1, MovedIs
    <3> QED BY <3>1, <3>2
  <2>2. n # Gone /\ tree' = tree /\ wn' = Moved(u, n)
    BY <1>4 DEF WentTo
  <2> QED BY <1>1, <2>1, <2>2
<1>5. CASE WasReset(u)
  BY <1>1, <1>5 DEF WasReset, ResetAllWns
<1> QED BY <1>2, <1>3, <1>4, <1>5, Kinds, LoginGoes

LEMMA LeaveAlive ==
  ASSUME TreeIInv, NEW U \in SUBSET Users, Leave(U),
         NEW v \in DOMAIN wn, v \in DOMAIN wn', wn[v] \in Blocks, wn[v] \notin stray
  PROVE  wn'[v] # Gone /\ wn[v] \in tree'.has
<1> USE TreeAssumption
<1>1. wn[v] \in tree.has /\ wn[v] # Gone /\ (wn[v] \in tree.is_new => v = owner) /\ v # None
  BY DEF TreeIInv, NewIsOwners, UsersInv
<1>2. CASE \A u \in U : Pretends(u)
  BY <1>1, <1>2 DEF Leave
<1>3. CASE \E u \in U : ~Pretends(u)
  <2>1. wn' = Freed([x \in DOMAIN wn \ U |-> wn[x]], tree.is_new) /\ tree' = Discard(tree)
    BY <1>3 DEF Leave
  <2>2. v \notin U /\ wn'[v] = IF wn[v] \in tree.is_new THEN Gone ELSE wn[v]
    BY <2>1 DEF Freed
  <2>3. wn[v] \notin tree.is_new
    BY <1>1, <1>3, <2>2 DEF Pretends
  <2>4. tree'.has = tree.has \ tree.is_new
    BY <2>1, DiscardedTree DEF TreeIInv
  <2> QED BY <1>1, <2>2, <2>3, <2>4
<1> QED BY <1>2, <1>3

(***************************************************************************)
(* discard of a logout frees no working node of who stays.                 *)
(***************************************************************************)
THEOREM NodesStayAlive == Spec => WorkingNodesAlive
<1> DEFINE A == \A u \in DOMAIN wn \cap DOMAIN wn' : wn[u] \in Blocks /\ wn[u] \notin stray
                   => wn'[u] # Gone /\ (wn'[u] = wn[u] => wn[u] \in tree'.has)
<1>1. ASSUME TreeIInv, [Next]_vars PROVE A
  <2> SUFFICES ASSUME NEW v \in DOMAIN wn, v \in DOMAIN wn', wn[v] \in Blocks, wn[v] \notin stray
               PROVE  wn'[v] # Gone /\ (wn'[v] = wn[v] => wn[v] \in tree'.has)
    OBVIOUS
  <2>1. ASSUME NEW u \in Users, Login(u) \/ Command(u)
        PROVE  wn'[v] # Gone /\ (wn'[v] = wn[v] => wn[v] \in tree'.has)
    <3>1. CASE Logout(u)
      BY <1>1, <3>1, LeaveAlive DEF Logout
    <3>2. CASE ~Logout(u)
      BY <1>1, <2>1, <3>2, CommandAlive
    <3> QED BY <3>1, <3>2
  <2>2. ASSUME NEW U \in SUBSET Users, Sweep(U)
        PROVE  wn'[v] # Gone /\ wn[v] \in tree'.has
    BY <1>1, <2>2, LeaveAlive DEF Sweep
  <2>3. ~Restart
    BY DEF Restart
  <2>4. CASE UNCHANGED vars
    BY <1>1, <2>4, TreeAssumption DEF vars, TreeIInv, NewIsOwners
  <2> QED BY <1>1, <2>1, <2>2, <2>3, <2>4 DEF Next
<1>2. TreeIInv /\ [Next]_vars => [A]_vars
  BY <1>1
<1> HIDE DEF A
<1>3. Spec => [][A]_vars
  BY <1>2, Invariance, PTL DEF Spec
<1> QED BY <1>3 DEF A, WorkingNodesAlive

(***************************************************************************)
(* While another's transaction lasts, a user only adds new blocks.         *)
(***************************************************************************)
LEMMA OtherCommand ==
  ASSUME TreeIInv, NEW u \in Users, Pretends(u), Command(u)
  PROVE  /\ owner' = owner /\ saved' = saved /\ revisions' = revisions
         /\ tree'.item = tree.item
         /\ \A b \in tree.has : /\ b \in tree'.has /\ tree'.state[b] = tree.state[b]
                                /\ b \in Blocks => tree'.leaf[b] = tree.leaf[b]
<1>1. ASSUME NEW d \in Named, SetStray(u, d)
      PROVE  /\ owner' = owner /\ saved' = saved /\ revisions' = revisions
             /\ tree'.item = tree.item
             /\ \A b \in tree.has : /\ b \in tree'.has /\ tree'.state[b] = tree.state[b]
                                    /\ b \in Blocks => tree'.leaf[b] = tree.leaf[b]
  <2>1. tree' = Created(tree, d) /\ d \notin tree.has
        /\ owner' = owner /\ saved' = saved /\ revisions' = revisions
    BY <1>1 DEF SetStray
  <2>2. /\ Created(tree, d).has = tree.has \cup {d} /\ Created(tree, d).item = tree.item
        /\ \A b \in Named \ {d} : Created(tree, d).state[b] = tree.state[b]
        /\ \A b \in Blocks \ {d} : Created(tree, d).leaf[b] = tree.leaf[b]
    BY <2>1, CreatedTree DEF TreeIInv
  <2>3. tree.has \subseteq Named
    BY DEF TreeIInv, TreeInv, TreeType
  <2> QED BY <2>1, <2>2, <2>3
<1>2. CASE Logout(u)
  BY <1>2 DEF Logout, Leave
<1>3. ASSUME NEW n \in Blocks \cup {Root, Gone}, WentTo(u, n)
      PROVE  owner' = owner /\ saved' = saved /\ revisions' = revisions /\ tree' = tree
  BY <1>3 DEF WentTo
<1> QED BY <1>1, <1>2, <1>3, Kinds DEF Wrote, WasReset

THEOREM OthersOnlyLook == Spec => OthersAreReadOnly
<1> DEFINE A == \A u \in Users : Pretends(u) /\ Command(u)
                   => /\ owner' = owner /\ saved' = saved /\ revisions' = revisions
                      /\ tree'.item = tree.item
                      /\ \A b \in tree.has : /\ b \in tree'.has /\ tree'.state[b] = tree.state[b]
                                             /\ b \in Blocks => tree'.leaf[b] = tree.leaf[b]
<1>1. TreeIInv => A
  BY OtherCommand
<1>2. TreeIInv /\ [Next]_vars => [A]_vars
  BY <1>1
<1> QED BY <1>2, Invariance, PTL DEF Spec, OthersAreReadOnly
-----------------------------------------------------------------------------
(* ConfigTree implements ConfigStore. *)

LEMMA Showing ==
  ASSUME TreeIInv, TreeIInv'
  PROVE  /\ Shown(tree) \in Configs /\ ShownNew(tree) \in Configs
         /\ Shown(tree') \in Configs /\ ShownNew(tree') \in Configs
<1>1. TreeInv(tree) /\ TreeInv(tree')
  BY DEF TreeIInv
<1> QED BY <1>1, ShownIs, ShownNewIs

LEMMA WroteRefines ==
  ASSUME TreeIInv, TreeIInv', NEW u \in Users, Wrote(u)
  PROVE  Store!Change(u)
<1>1. Shown(tree') \in Grown(Shown(tree)) /\ ShownNew(tree') \in Configs
  BY Showing, KeepsGrown DEF TreeIInv, Wrote
<1>2. owner \in {None, u} /\ owner' \in {owner, u} /\ saved' = saved /\ revisions' = revisions
  BY DEF Wrote, Pretends
<1> QED BY <1>1, <1>2 DEF Store!Change, Store!MayWrite

LEMMA StrayRefines ==
  ASSUME TreeIInv, TreeIInv', NEW u \in Users, NEW b \in Named, SetStray(u, b)
  PROVE  Store!Intrude
<1>1. /\ TreeInv(tree) /\ TreeInv(tree') /\ b \notin tree.has /\ tree' = Created(tree, b)
      /\ owner' = owner /\ saved' = saved /\ revisions' = revisions
  BY DEF TreeIInv, SetStray
<1>2. /\ Keeps(tree, tree') /\ ShownNew(tree') \in Grown(ShownNew(tree))
      /\ tree'.has = tree.has \cup {b} /\ tree'.is_new = tree.is_new \cup {b}
  BY <1>1, CreatedTree
<1>3. ItemsOf(tree') = ItemsOf(tree) /\ LeavesOf(tree') = LeavesOf(tree)
  BY <1>2 DEF Keeps, ItemsOf, LeavesOf
<1>4. ListsOf(tree') = ListsOf(tree)
  BY <1>1, <1>2 DEF ListsOf
<1>5. Shown(tree') = Shown(tree)
  BY <1>1, <1>3, <1>4, ShownIs
<1> QED BY <1>1, <1>2, <1>5 DEF Store!Intrude

LEMMA DiscardRefines ==
  ASSUME TreeIInv, NEW u \in Users, DoDiscard(u)
  PROVE  Store!Discard(u)
<1>1. /\ owner \in {None, u} /\ owner' = None /\ tree' = Discard(tree)
      /\ saved' = saved /\ revisions' = revisions
  BY DEF DoDiscard, Pretends, EndTransaction
<1>2. Shown(tree') = Shown(tree) /\ ShownNew(tree') = Shown(tree)
  BY <1>1, DiscardedTree DEF TreeIInv
<1> QED BY <1>1, <1>2 DEF Store!Discard, Store!MayWrite

LEMMA CommitRefines ==
  ASSUME TreeIInv, TreeIInv', NEW u \in Users, NEW opened \in BOOLEAN, NEW written \in BOOLEAN,
         DoCommit(u, opened, written)
  PROVE  Store!Commit(u) \/ Store!Change(u)
<1> DEFINE t == CommitPretend(tree)
<1>1. TreeInv(tree) /\ owner \in {None, u}
  BY DEF TreeIInv, DoCommit, Pretends
<1>2. TreeInv(t) /\ Keeps(tree, t) /\ ShownNew(t) = ShownNew(tree) /\ Shown(t) \in Grown(Shown(tree))
  BY <1>1, PretendedTree, KeepsGrown
<1>3. CASE opened
  <2>1. /\ revisions' = revisions \cup {Shown(t)} /\ tree' = Commit(t)
        /\ saved' = (IF written THEN ShownNew(tree') ELSE saved) /\ owner' = None
    BY <1>3 DEF DoCommit, EndTransaction
  <2>2. Shown(tree') = ShownNew(tree) /\ ShownNew(tree') = ShownNew(tree)
    BY <1>2, <2>1, CommittedTree
  <2> HIDE DEF t
  <2> QED BY <1>1, <1>2, <2>1, <2>2 DEF Store!Commit, Store!MayWrite
<1>4. CASE ~opened
  <2>1. tree' = t /\ owner' = owner /\ saved' = saved /\ revisions' = revisions
    BY <1>4 DEF DoCommit
  <2> HIDE DEF t
  <2> QED BY <1>1, <1>2, <2>1, Showing DEF Store!Change, Store!MayWrite
<1> QED BY <1>3, <1>4

LEMMA RollbackRefines ==
  ASSUME TreeIInv, TreeIInv', NEW u \in Users, NEW c \in revisions, NEW written \in BOOLEAN,
         Rollback(u, c, written)
  PROVE  Store!Rollback(u)
<1> DEFINE t == Merge(ReplacePrepare(tree), c)
<1>1. TreeInv(t) /\ Covers(ShownNew(t), c)
  BY LoadedOver DEF TreeIInv, FilesInv
<1>2. /\ tree' = Commit(t) /\ owner \in {None, u} /\ owner' = None /\ revisions' = revisions
      /\ saved' = (IF written THEN ShownNew(tree') ELSE saved)
  BY DEF Rollback, Pretends, EndTransaction
<1> HIDE DEF t
<1>3. Shown(tree') = ShownNew(t) /\ ShownNew(tree') = ShownNew(t)
  BY <1>1, <1>2, CommittedTree
<1> QED BY <1>1, <1>2, <1>3, Showing DEF Store!Rollback, Store!MayWrite

LEMMA LeaveRefines ==
  ASSUME TreeIInv, NEW U \in SUBSET Users, Leave(U)
  PROVE  UNCHANGED Store!vars \/ \E u \in U : Store!Discard(u)
<1>1. CASE \A u \in U : Pretends(u)
  BY <1>1 DEF Leave, Store!vars
<1>2. ASSUME NEW u \in U, ~Pretends(u) PROVE Store!Discard(u)
  <2>1. /\ owner \in {None, u} /\ owner' = None /\ tree' = Discard(tree)
        /\ saved' = saved /\ revisions' = revisions
    BY <1>2 DEF Leave, Pretends, EndTransaction
  <2>2. Shown(tree') = Shown(tree) /\ ShownNew(tree') = Shown(tree)
    BY <2>1, DiscardedTree DEF TreeIInv
  <2> QED BY <2>1, <2>2 DEF Store!Discard, Store!MayWrite
<1> QED BY <1>1, <1>2

LEMMA RestartRefines == ASSUME TreeIInv, Restart PROVE Store!Restart
<1>1. saved \in Configs /\ tree' = Loaded(saved) /\ owner' = None /\ saved' = saved /\ revisions' = revisions
  BY DEF TreeIInv, FilesInv, Restart, EndTransaction
<1>2. Shown(tree') = saved /\ ShownNew(tree') = saved
  BY <1>1, LoadedTree
<1> QED BY <1>1, <1>2 DEF Store!Restart

LEMMA WentRefines ==
  ASSUME NEW u \in Users, NEW n, WentTo(u, n)
  PROVE  UNCHANGED Store!vars
  BY DEF WentTo, Store!vars

LEMMA InitRefines == ASSUME Init PROVE Store!Init
<1>1. tree = Loaded(Nothing) /\ owner = None /\ saved = Nothing /\ revisions = {}
  BY DEF Init
<1>2. Shown(tree) = Nothing /\ ShownNew(tree) = Nothing /\ Nothing \in Configs
  BY <1>1, NothingIs, LoadedTree
<1> QED BY <1>1, <1>2 DEF Store!Init

LEMMA StepRefines ==
  ASSUME TreeIInv, TreeIInv', [Next]_vars
  PROVE  [Store!Next]_(Store!vars)
<1>1. ASSUME NEW u \in Users, Command(u) PROVE Store!Next \/ UNCHANGED Store!vars
  <2>1. CASE Setting(u) \/ Deleting(u) \/ \E f \in Files : Load(u, f)
    BY <2>1, SettingWrites, DeletingWrites, LoadWrites, WroteRefines, StrayRefines DEF Store!Next
  <2>2. CASE Look(u) \/ \E n \in Blocks \cup {Root} : Edit(u, n)
    BY <2>2, LookGoes, EditGoes, WentRefines
  <2>3. CASE DoDiscard(u) \/ (\E opened, written \in BOOLEAN : DoCommit(u, opened, written))
    BY <2>3, DiscardRefines, CommitRefines DEF Store!Next
  <2>4. CASE \E c \in revisions, written \in BOOLEAN : Rollback(u, c, written)
    BY <2>4, RollbackRefines DEF Store!Next
  <2>5. CASE Logout(u)
    BY <2>5, LeaveRefines DEF Logout, Store!Next
  <2> QED BY <1>1, <2>1, <2>2, <2>3, <2>4, <2>5 DEF Command
<1>2. ASSUME NEW u \in Users, Login(u) PROVE UNCHANGED Store!vars
  BY <1>2, LoginGoes, WentRefines
<1>3. ASSUME NEW U \in SUBSET Users, Sweep(U) PROVE Store!Next \/ UNCHANGED Store!vars
  BY <1>3, LeaveRefines DEF Sweep, Store!Next
<1>4. CASE UNCHANGED vars
  BY <1>4 DEF vars, Store!vars
<1>5. CASE Restart
  BY <1>5, RestartRefines DEF Store!Next
<1> QED BY <1>1, <1>2, <1>3, <1>4, <1>5 DEF Next

(***************************************************************************)
(* Config with its users is a ConfigStore: a draft of one user at a time,  *)
(* committed or discarded whole, and what was written last after a restart *)
(***************************************************************************)
THEOREM TreeIsAStore == Spec => ImplementsStore
  BY InitRefines, StepRefines, Invariance, PTL DEF Spec, ImplementsStore, Store!Spec
=============================================================================
