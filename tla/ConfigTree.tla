----------------------------- MODULE ConfigTree -----------------------------
(***************************************************************************)
(* The configuration tree of the config daemon and the commands of its     *)
(* users (config.cpp, process_enter of events.cpp, timeout_loop of         *)
(* configd.cpp).  Every node has the committed value and a new one; the    *)
(* first change starts a transaction, and while it lasts the commands of   *)
(* other users only pretend.  A request is one step: the mutex is held     *)
(* (ConfigLock says when it is).                                           *)
(*                                                                         *)
(* The tree is cut down to items of the root and blocks made from a        *)
(* template.  A block has items of its own (its leaves), or none: then it  *)
(* is an entry of a list (is_empty).  Names are exact, completion is left  *)
(* out.                                                                    *)
(***************************************************************************)
EXTENDS FiniteSets, Naturals

CONSTANTS
    Users, Items, Blocks, Leaves, Lists,
    Values, Empty,
    Files,          \* what can be loaded: a configuration, and a bad block name after it
    Root, Gone, None,
    MaxRevisions    \* bound: different revisions in the commit log

ASSUME TreeAssumption ==
    /\ Root \notin Blocks /\ Gone \notin Blocks /\ Root # Gone
    /\ Blocks \cap Lists = {}
    /\ Empty \notin Values /\ None \notin Users
    /\ MaxRevisions \in Nat

VARIABLES
    tree,
    owner,          \* transaction_owner, None without transaction
    wn,             \* usr_path_map: the working node of every user it knows
    saved,          \* the configuration file
    revisions,      \* the commit log
    stray           \* history: what was changed outside a transaction

vars == <<tree, owner, wn, saved, revisions, stray>>

Named == Blocks \cup Lists
-----------------------------------------------------------------------------
(* Nodes. *)

Blank == [value |-> Empty, new_value |-> Empty, state |-> "ready"]
Written(n, v) == [n EXCEPT !.new_value = v, !.state = "modified"]
Deleted(n) == [n EXCEPT !.state = "deleted"]
Discarded(n) == IF n.state = "ready" THEN n
                ELSE [n EXCEPT !.new_value = n.value, !.state = "ready"]
Committed(n) == CASE n.state = "modified" -> [n EXCEPT !.value = n.new_value, !.state = "ready"]
                  [] n.state = "deleted" -> Blank
                  [] OTHER -> n

\* A function on nodes, applied to every item, and every leaf of the blocks B.
EachItem(Op(_), t, B) ==
    [t EXCEPT !.item = [i \in Items |-> Op(@[i])],
              !.leaf = [b \in Blocks |-> IF b \in B THEN [l \in Leaves |-> Op(@[b][l])] ELSE @[b]]]

WithoutFlags(t, B) ==   \* mutant: is_new outlives the block
    [t EXCEPT !.has = @ \ B,
              !.state = [b \in Named |-> IF b \in B THEN "ready" ELSE @[b]],
              !.leaf = [b \in Blocks |-> IF b \in B THEN [l \in Leaves |-> Blank] ELSE @[b]]]

\* The blocks B are freed, with their leaves.
Without(t, B) ==
    [t EXCEPT !.has = @ \ B, !.is_new = @ \ B,
              !.state = [b \in Named |-> IF b \in B THEN "ready" ELSE @[b]],
              !.leaf = [b \in Blocks |-> IF b \in B THEN [l \in Leaves |-> Blank] ELSE @[b]]]

AllReady(t) == [t EXCEPT !.state = [b \in Named |-> "ready"]]

\* A block made from the template.
Created(t, b) ==
    [t EXCEPT !.has = @ \cup {b}, !.is_new = @ \cup {b}, !.state[b] = "modified",
              !.leaf = IF b \in Blocks
                       THEN [@ EXCEPT ![b] = [l \in Leaves |-> [Blank EXCEPT !.state = "modified"]]]
                       ELSE @]
-----------------------------------------------------------------------------
(* Config: discard, commit, show_config, replace_prepare, merge. *)

DiscardKeepingNew(t) ==   \* mutant: is_new is not looked at
    AllReady(EachItem(Discarded, t, t.has))

Discard(t) == AllReady(EachItem(Discarded, Without(t, t.is_new), t.has))

\* What a commit would have to do.
Changed(t) == {b \in t.has : t.state[b] # "ready"}
Changes(t) == \/ Changed(t) # {}
              \/ \E i \in Items : t.item[i].state # "ready"
              \/ \E b \in t.has \cap Blocks : \E l \in Leaves : t.leaf[b][l].state # "ready"

\* commit(pretend = true) counts the changes, and resets is_new.
CommitPretend(t) == [t EXCEPT !.is_new = {}]

CommitDeletedToo(t) ==   \* mutant: the deleted blocks stay
    [AllReady(EachItem(Committed, t, t.has)) EXCEPT !.is_new = {}]

Commit(t) ==
    LET deleted == {b \in t.has : t.state[b] = "deleted"}
    IN  [AllReady(EachItem(Committed, Without(t, deleted), t.has)) EXCEPT !.is_new = {}]

\* show_config with no_uncm: the committed configuration.
Shown(t) ==
    LET Old(n) == IF n.new_value # Empty \/ n.state = "deleted" THEN n.value ELSE Empty
    IN  [item |-> [i \in Items |-> Old(t.item[i])],
         leaf |-> [b \in Blocks |-> [l \in Leaves |->
                       IF b \in t.has \ t.is_new THEN Old(t.leaf[b][l]) ELSE Empty]],
         list |-> Lists \cap (t.has \ t.is_new)]

\* Without it: with the changes that are not committed.
ShownNew(t) ==
    LET New(n) == IF n.state = "deleted" THEN Empty ELSE n.new_value
        here == {b \in t.has : t.state[b] # "deleted"}
    IN  [item |-> [i \in Items |-> New(t.item[i])],
         leaf |-> [b \in Blocks |-> [l \in Leaves |->
                       IF b \in here THEN New(t.leaf[b][l]) ELSE Empty]],
         list |-> Lists \cap here]

\* The blocks that a configuration names: one without values is not shown.
NamedIn(c) == {b \in Blocks : \E l \in Leaves : c.leaf[b][l] # Empty} \cup c.list

\* Items, and blocks but not their leaves.
ReplacePrepare(t) ==
    [t EXCEPT !.item = [i \in Items |-> Deleted(@[i])],
              !.state = [b \in Named |-> IF b \in t.has THEN "deleted" ELSE "ready"]]

\* merge with set_node_state.  The nodes of the template are ready.
Merge(t, c) ==
    LET Into(n, v) == IF v = Empty THEN n ELSE Written(n, v)
        created == NamedIn(c) \ t.has
    IN  [item |-> [i \in Items |-> Into(t.item[i], c.item[i])],
         leaf |-> [b \in Blocks |-> [l \in Leaves |-> Into(t.leaf[b][l], c.leaf[b][l])]],
         has |-> t.has \cup NamedIn(c),
         is_new |-> (t.is_new \ NamedIn(c)) \cup created,
         state |-> [b \in Named |-> IF b \in NamedIn(c) THEN "modified" ELSE t.state[b]]]

\* merge at the start of the daemon, without set_node_state.
Loaded(c) ==
    LET Both(v) == [value |-> v, new_value |-> v, state |-> "ready"]
    IN  [item |-> [i \in Items |-> Both(c.item[i])],
         leaf |-> [b \in Blocks |-> [l \in Leaves |-> Both(c.leaf[b][l])]],
         has |-> NamedIn(c), is_new |-> {}, state |-> [b \in Named |-> "ready"]]

Nothing == [item |-> [i \in Items |-> Empty],
            leaf |-> [b \in Blocks |-> [l \in Leaves |-> Empty]],
            list |-> {}]

Init == /\ tree = Loaded(Nothing)
        /\ owner = None /\ wn = <<>>
        /\ saved = Nothing /\ revisions = {} /\ stray = {}
-----------------------------------------------------------------------------
(* Users. *)

Pretends(u) == owner \notin {None, u}

At(u) == IF u \in DOMAIN wn THEN wn[u] ELSE Root

Moved(u, n) == [v \in DOMAIN wn \cup {u} |-> IF v = u THEN n ELSE wn[v]]

\* update_definition_wn.  What a freed working node leads to is not modelled.
Request(u) ==
    /\ At(u) # Gone
    /\ wn' = Moved(u, At(u))

Freed(w, B) == [u \in DOMAIN w |-> IF w[u] \in B THEN Gone ELSE w[u]]

\* reset_all_wns, in a request of u.
ResetAllWns(u) ==
    /\ At(u) # Gone
    /\ wn' = [v \in DOMAIN wn \cup {u} |-> Root]

WriteAnyway(u, t) ==   \* mutant: no test for another's transaction
    /\ Request(u)
    /\ tree' = t
    /\ owner' = u
    /\ UNCHANGED <<saved, revisions, stray>>

\* A request that changes the tree and starts a transaction.
Write(u, t) ==
    /\ Request(u)
    /\ ~Pretends(u)
    /\ tree' = t
    /\ owner' = u
    /\ UNCHANGED <<saved, revisions, stray>>

Login(u) ==
    /\ wn' = Moved(u, Root)
    /\ UNCHANGED <<tree, owner, saved, revisions, stray>>
-----------------------------------------------------------------------------
(* set, delete, edit, top and up. *)

SetItem(u, i, v) == At(u) = Root /\ Write(u, [tree EXCEPT !.item[i] = Written(@, v)])

\* Without value, or with an invalid one.
SetNothing(u) == Write(u, tree)

\* The last word of a set is a block that exists.
SetBlock(u, b) ==
    /\ b \in tree.has /\ At(u) \in {Root, b}
    /\ Write(u, [tree EXCEPT !.state[b] = IF @ = "deleted" THEN "modified" ELSE @])

SetLeaf(u, b, l, v) ==
    /\ b \in tree.has /\ At(u) \in {Root, b}
    /\ Write(u, [tree EXCEPT !.leaf[b][l] = Written(@, v)])

SetNewLeaf(u, b, l, v) ==
    /\ b \notin tree.has /\ At(u) = Root
    /\ Write(u, [Created(tree, b) EXCEPT !.leaf[b][l] = Written(@, v)])

SetNew(u, b) ==
    /\ b \notin tree.has /\ At(u) = Root
    /\ Write(u, Created(tree, b))

\* A new block is created by anyone; a list entry, and a block with an unknown
\* name after it, does not start a transaction.
SetStray(u, b) ==
    /\ b \notin tree.has /\ At(u) = Root
    /\ Request(u)
    /\ tree' = Created(tree, b)
    /\ stray' = stray \cup {b}
    /\ UNCHANGED <<owner, saved, revisions>>

\* What shows the tree, what is refused, and what a user that pretends writes.
Look(u) ==
    /\ Request(u)
    /\ UNCHANGED <<tree, owner, saved, revisions, stray>>

DeleteItem(u, i) == At(u) = Root /\ Write(u, [tree EXCEPT !.item[i] = Deleted(@)])

DeleteLeaf(u, b, l) ==
    /\ b \in tree.has /\ At(u) \in {Root, b}
    /\ Write(u, [tree EXCEPT !.leaf[b][l] = Deleted(@)])

\* An entry of a list has no children to find it by: it is not deleted.
DeleteBlock(u, b) ==
    /\ b \in tree.has /\ At(u) \in {Root, b}
    /\ Write(u, [tree EXCEPT !.state[b] = "deleted"])

Edit(u, n) ==
    /\ At(u) # Gone /\ ~Pretends(u)
    /\ n = Root \/ (n \in tree.has /\ At(u) = Root)
    /\ wn' = Moved(u, n)
    /\ UNCHANGED <<tree, owner, saved, revisions, stray>>
-----------------------------------------------------------------------------
(* discard, commit, load and rollback. *)

EndTransaction == owner' = None /\ stray' = {}

DiscardInPlace(u) ==   \* mutant: the working nodes are not reset
    /\ Request(u) /\ ~Pretends(u)
    /\ tree' = Discard(tree)
    /\ EndTransaction
    /\ UNCHANGED <<saved, revisions>>

DoDiscard(u) ==
    /\ ResetAllWns(u) /\ ~Pretends(u)
    /\ tree' = Discard(tree)
    /\ EndTransaction
    /\ UNCHANGED <<saved, revisions>>

\* opened: the new revision; written: the configuration file.
DoCommit(u, opened, written) ==
    /\ ~Pretends(u) /\ Changes(tree)
    /\ ResetAllWns(u)
    /\ LET t == CommitPretend(tree)
       IN  IF opened
           THEN /\ revisions' = revisions \cup {Shown(t)}
                /\ Cardinality(revisions') <= MaxRevisions
                /\ tree' = Commit(t)
                /\ saved' = IF written THEN ShownNew(tree') ELSE saved
                /\ EndTransaction
           ELSE tree' = t /\ UNCHANGED <<revisions, saved, owner, stray>>

\* A file with a bad block name is merged up to it.
Load(u, f) ==
    /\ Request(u) /\ ~Pretends(u)
    /\ tree' = Merge(ReplacePrepare(tree), f.config)
    /\ IF f.bad THEN owner' = owner /\ stray' = Items \cup Named
                ELSE owner' = u /\ stray' = stray
    /\ UNCHANGED <<saved, revisions>>

Rollback(u, c, written) ==
    /\ ~Pretends(u) /\ c \in revisions
    /\ ResetAllWns(u)
    /\ tree' = Commit(Merge(ReplacePrepare(tree), c))
    /\ saved' = IF written THEN ShownNew(tree') ELSE saved
    /\ EndTransaction
    /\ UNCHANGED revisions
-----------------------------------------------------------------------------
(* The end of users. *)

\* process_user_logout and timeout_loop, for the users U.
LeaveSilently(U) ==   \* mutant: the users are removed only
    /\ wn' = [v \in DOMAIN wn \ U |-> wn[v]]
    /\ UNCHANGED <<tree, owner, saved, revisions, stray>>

Leave(U) ==
    /\ IF \A u \in U : Pretends(u)
       THEN /\ wn' = [v \in DOMAIN wn \ U |-> wn[v]]
            /\ UNCHANGED <<tree, owner, stray>>
       ELSE /\ wn' = Freed([v \in DOMAIN wn \ U |-> wn[v]], tree.is_new)
            /\ tree' = Discard(tree)
            /\ EndTransaction
    /\ UNCHANGED <<saved, revisions>>

Logout(u) == Leave({u})

Sweep(U) == U \subseteq DOMAIN wn /\ Leave(U)

Restart ==
    /\ tree' = Loaded(saved)
    /\ wn' = <<>>
    /\ EndTransaction
    /\ UNCHANGED <<saved, revisions>>
-----------------------------------------------------------------------------
Setting(u) ==
    \/ SetNothing(u)
    \/ \E i \in Items, v \in Values : SetItem(u, i, v)
    \/ \E b \in Blocks : \/ SetBlock(u, b) \/ SetNew(u, b)
                         \/ \E l \in Leaves, v \in Values : SetLeaf(u, b, l, v) \/ SetNewLeaf(u, b, l, v)
    \/ \E b \in Named : SetStray(u, b)

Deleting(u) ==
    \/ \E i \in Items : DeleteItem(u, i)
    \/ \E b \in Blocks : DeleteBlock(u, b) \/ \E l \in Leaves : DeleteLeaf(u, b, l)

Command(u) ==
    \/ Setting(u)
    \/ Deleting(u)
    \/ Look(u)
    \/ \E n \in Blocks \cup {Root} : Edit(u, n)
    \/ DoDiscard(u)
    \/ \E opened, written \in BOOLEAN : DoCommit(u, opened, written)
    \/ \E f \in Files : Load(u, f)
    \/ \E c \in revisions, written \in BOOLEAN : Rollback(u, c, written)
    \/ Logout(u)

Next == \/ \E u \in Users : Login(u) \/ Command(u)
        \/ \E U \in SUBSET Users \ {{}} : Sweep(U)
        \/ Restart

Spec == Init /\ [][Next]_vars
-----------------------------------------------------------------------------
Value == Values \cup {Empty}
State == {"ready", "modified", "deleted"}
Node == [value : Value, new_value : Value, state : State]

Configs == [item : [Items -> Value], leaf : [Blocks -> [Leaves -> Value]], list : SUBSET Lists]

ASSUME FilesAssumption == Files \subseteq [config : Configs, bad : BOOLEAN]

TypeOK ==
    /\ tree \in [item : [Items -> Node], leaf : [Blocks -> [Leaves -> Node]],
                 has : SUBSET Named, is_new : SUBSET Named, state : [Named -> State]]
    /\ tree.is_new \subseteq tree.has
    /\ \A b \in Named \ tree.has : tree.state[b] = "ready"
    /\ \A b \in Blocks \ tree.has : tree.leaf[b] = [l \in Leaves |-> Blank]
    /\ owner \in Users \cup {None}
    /\ DOMAIN wn \subseteq Users /\ \A u \in DOMAIN wn : wn[u] \in Blocks \cup {Root, Gone}
    /\ saved \in Configs /\ revisions \subseteq Configs
    /\ stray \subseteq Items \cup Named

(***************************************************************************)
(* A transaction has an owner that the config daemon knows: its logout or  *)
(* the sweep of idle users ends it, and others are not locked out for ever *)
(* by an owner that nobody times out (configd.cpp 422-442).                *)
(***************************************************************************)
OwnerIsKnown == owner # None => owner \in DOMAIN wn

(***************************************************************************)
(* Without transaction the tree is clean: what a user changed and left     *)
(* behind is not committed by the next one.  (What set creates without     *)
(* starting a transaction, and a load that fails half way, excepted.)      *)
(***************************************************************************)
CleanWithoutOwner ==
    owner = None =>
        /\ \A i \in Items \ stray : tree.item[i].state = "ready"
        /\ \A b \in tree.has \ stray :
              /\ tree.state[b] = "ready" /\ b \notin tree.is_new
              /\ b \in Blocks => \A l \in Leaves : tree.leaf[b][l].state = "ready"

(***************************************************************************)
(* No working node is freed under its user: commit, discard and rollback   *)
(* put everybody back to the root first; logout and the sweep do not, but  *)
(* a new block is another's working node only when it was created outside  *)
(* a transaction.                                                          *)
(***************************************************************************)
WorkingNodesAlive ==
    [][\A u \in DOMAIN wn \cap DOMAIN wn' : wn[u] \in Blocks /\ wn[u] \notin stray
            => wn'[u] # Gone /\ (wn'[u] = wn[u] => wn[u] \in tree'.has)]_vars

(***************************************************************************)
(* While a transaction lasts nothing another user sends changes a value,   *)
(* or the state of a node that exists: it may only add new blocks.         *)
(***************************************************************************)
OthersAreReadOnly ==
    [][\A u \in Users : Pretends(u) /\ Command(u)
          => /\ owner' = owner /\ saved' = saved /\ revisions' = revisions
             /\ tree'.item = tree.item
             /\ \A b \in tree.has : /\ b \in tree'.has /\ tree'.state[b] = tree.state[b]
                                    /\ b \in Blocks => tree'.leaf[b] = tree.leaf[b]]_vars

(***************************************************************************)
(* For its users the tree is a ConfigStore: drafts of one user at a time,  *)
(* committed whole or discarded whole, whatever is_new and the states of   *)
(* the nodes went through; and a restart finds the configuration that was  *)
(* written last.                                                           *)
(***************************************************************************)
Grown(c) == {[c EXCEPT !.list = L] : L \in {L \in SUBSET Lists : c.list \subseteq L}}

Covers(c, d) ==
    /\ \A i \in Items : d.item[i] # Empty => c.item[i] = d.item[i]
    /\ \A b \in Blocks, l \in Leaves : d.leaf[b][l] # Empty => c.leaf[b][l] = d.leaf[b][l]
    /\ d.list = c.list

Store == INSTANCE ConfigStore WITH committed <- Shown(tree), draft <- ShownNew(tree), file <- saved

ImplementsStore == Store!Spec

(***************************************************************************)
(* events.cpp 1397: "save current config excluding uncommitted changes".   *)
(* A new revision is the configuration before the commit.                  *)
(***************************************************************************)
RevisionIsCommitted == [][revisions' \subseteq revisions \cup {Shown(tree)}]_vars

(***************************************************************************)
(* config.h 540, of replace_prepare: "complete replacement of              *)
(* configuration data contents".  A rollback leaves what the revision has. *)
(***************************************************************************)
RollbackIsComplete ==
    [][\A u \in Users, c \in revisions, written \in BOOLEAN :
          Rollback(u, c, written) => Shown(tree') = c]_vars
=============================================================================
