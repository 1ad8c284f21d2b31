--------------------------------- MODULE WRR ---------------------------------
(***************************************************************************)
(* Weighted round robin in a routing daemon: the table of one destination  *)
(* type (WRR of pmink_utils.h, kept by WRRRouteHandler of r14p.cpp), the   *)
(* clients that come and go, and the configuration that names the nodes    *)
(* and their weights (WRRConfigMod).  Everything that touches the table    *)
(* holds the session's mutex, so each use of it is one step; what a client *)
(* does between two of them is not.                                        *)
(*                                                                         *)
(* A commit makes its changes one after the other under one lock; here     *)
(* each change is a step of its own.  Which of several clients with one id *)
(* is first in the session's list is left open.                            *)
(***************************************************************************)
EXTENDS Integers, SequencesExt, FiniteSetsExt

CONSTANTS
    Nodes,        \* the ids of the daemons of this type
    Clients,      \* connections of such daemons to this one
    NoClient,     \* NULL
    Weights       \* the weights the configuration gives

ASSUME WRRAssumption ==
    /\ NoClient \notin Clients
    /\ NoClient \notin Nodes
    /\ Weights \subseteq Nat

VARIABLES
    configured,   \* wrr_map has a table for this type
    wrr,          \* the table
    status,       \* how far the registration of each client is
    inactive,     \* clients that were told to end
    NodeOf,       \* the id of its daemon
    conf,         \* the weight the configuration has for each node
    shrunk,       \* history: the table has not only grown
    reweighted,   \* history: nodes whose weight was changed
    overlapped    \* history: ids that two clients had at once

clientVars == <<status, inactive, NodeOf, overlapped>>
vars == <<configured, wrr, conf, clientVars, shrunk, reweighted>>

\* WRR::WRR().
NewWRR == [items |-> <<>>, w_gcd |-> 0, w_max |-> 0, index |-> -1, cw |-> 0]

Init == /\ configured = FALSE
        /\ wrr = NewWRR
        /\ status = [c \in Clients |-> "away"]
        /\ inactive = {}
        /\ conf = [id \in Nodes |-> 0]
        /\ NodeOf = [c \in Clients |-> NoClient]
        /\ shrunk = FALSE
        /\ reweighted = {} /\ overlapped = {}
-----------------------------------------------------------------------------
(* The operations of WRR. *)

gcd[p \in Nat \X Nat] == LET m == p[1]
                             n == p[2]
                         IN  IF n = 0 THEN m ELSE gcd[<<n, m % n>>]

WeightsOf(w) == [i \in DOMAIN w.items |-> w.items[i].weight]

GcdOf(weights) == IF weights = <<>> THEN 0
                  ELSE FoldLeft(LAMBDA g, weight : gcd[<<g, weight>>], Head(weights), Tail(weights))

recalc(w) == [w EXCEPT !.w_gcd = GcdOf(WeightsOf(w)),
                       !.w_max = Max({0} \cup ToSet(WeightsOf(w)))]

LoweredByOne(w) == IF w.cw - 1 <= 0 THEN w.w_max ELSE w.cw - 1   \* mutant

LoweredPastZero(w) == w.cw - w.w_gcd                    \* mutant

\* The current weight of the next round.
Lowered(w) == IF w.cw - w.w_gcd <= 0 THEN w.w_max ELSE w.cw - w.w_gcd

Hits(w, positions, weight) ==
    {p \in positions : w.items[p + 1].weight > 0 /\ w.items[p + 1].weight >= weight}

MissedUnseen(w, cw) == [wrr |-> w, at |-> -1]   \* mutant: a miss leaves no trace

\* No item was found: the current weight stays lowered.
Missed(w, cw) ==
    [wrr |-> [w EXCEPT !.index = (@ + Len(w.items)) % Len(w.items), !.cw = cw], at |-> -1]

(***************************************************************************)
(* run(): the table after it and the position it returns, or -1.  The      *)
(* items after index come first, with the current weight; at position 0    *)
(* the weight is lowered for the others, or starts again from w_max.  At   *)
(* most n items are looked at.                                             *)
(***************************************************************************)
run(w) ==
    LET n     == Len(w.items)
        first == (w.index + 1) % n
        ahead == IF first = 0 THEN {} ELSE first..(n - 1)
        hits  == Hits(w, ahead, w.cw)
        cw    == Lowered(w)
        later == Hits(w, (0..(n - 1)) \ ahead, cw)
        Result(index, weight, at) == [wrr |-> [w EXCEPT !.index = index, !.cw = weight], at |-> at]
    IN  IF n = 0           THEN [wrr |-> w, at |-> -1]
        ELSE IF hits # {}  THEN Result(Min(hits), w.cw, Min(hits))
        ELSE IF cw = 0     THEN Result(0, 0, -1)
        ELSE IF later # {} THEN Result(Min(later), cw, Min(later))
        ELSE Missed(w, cw)

\* The first item with an id, as get() finds it; 0 if there is none.
Get(w, id) == SelectInSeq(w.items, LAMBDA item : item.id = id)

Off(item) == IF item.weight = 0 THEN item
             ELSE [item EXCEPT !.old_weight = item.weight, !.weight = 0]

On(item) == IF item.weight > 0 THEN item ELSE [item EXCEPT !.weight = item.old_weight]

\* enable(item): an item that has a weight is left alone, with no recalc.
enable(w, i) == IF w.items[i].weight > 0 THEN w ELSE recalc([w EXCEPT !.items[i] = On(@)])

DisableOnly(w, i) == [w EXCEPT !.items[i] = Off(@)]   \* mutant: no recalc

disable(w, i) == IF w.items[i].weight = 0 THEN w ELSE recalc([w EXCEPT !.items[i] = Off(@)])

\* enable(id) or disable(id), of every item with the id.
switch(w, id, enabled) ==
    LET Switched(item) == IF enabled THEN On(item) ELSE Off(item)
    IN  recalc([w EXCEPT !.items = [i \in DOMAIN @ |-> IF @[i].id = id THEN Switched(@[i]) ELSE @[i]]])

AddNodeOff(w, client, id, weight) ==   \* mutant: an added node starts disabled
    LET item == [id |-> id, item |-> client, weight |-> weight, old_weight |-> weight]
    IN  switch([w EXCEPT !.items = Append(@, item)], id, FALSE)

\* add_item, then enable or disable.
add_node(w, client, id, weight) ==
    LET item  == [id |-> id, item |-> client, weight |-> weight, old_weight |-> weight]
        added == recalc([w EXCEPT !.items = Append(@, item)])
    IN  switch(added, id, client # NoClient)

\* remove(id), of a node that has one item (it is added where it has none).
remove(w, id) == recalc([w EXCEPT !.items = RemoveAt(@, Get(w, id))])

UpdateOnlyFlag(w, client, id) ==   \* mutant: the pointer is left
    LET i == Get(w, id)
    IN  IF i = 0 THEN w
        ELSE IF client = NoClient THEN disable(w, i)
        ELSE enable([w EXCEPT !.items[i].item = client], i)

update_client(w, client, id) ==
    LET i == Get(w, id)
        updated == [w EXCEPT !.items[i].item = client]
    IN  IF i = 0 THEN w
        ELSE IF client = NoClient THEN disable(updated, i) ELSE enable(updated, i)
-----------------------------------------------------------------------------
(* Clients of the session. *)

Goto(c, from, to) == status[c] \in from /\ status' = [status EXCEPT ![c] = to]

\* A daemon connects, is listed, and asks to be registered under its id.
Connect(c, id) ==
    /\ Goto(c, {"away"}, "named")
    /\ NodeOf' = [NodeOf EXCEPT ![c] = id]
    /\ overlapped' = IF \E d \in Clients : NodeOf[d] = id THEN overlapped \cup {id} ELSE overlapped
    /\ UNCHANGED <<configured, wrr, conf, inactive, shrunk, reweighted>>

\* RegClientStreamDone: the registration flag, then the routing handler.
SetRegistered(c) ==
    /\ Goto(c, {"named"}, "registered")
    /\ UNCHANGED <<configured, wrr, conf, inactive, NodeOf, overlapped, shrunk, reweighted>>

Register(c) ==
    /\ Goto(c, {"registered"}, "served")
    /\ wrr' = IF configured THEN update_client(wrr, c, NodeOf[c]) ELSE wrr
    /\ UNCHANGED <<configured, conf, inactive, NodeOf, overlapped, shrunk, reweighted>>

\* Any thread disconnects it.
Disconnect(c) ==
    /\ status[c] # "away" /\ c \notin inactive
    /\ inactive' = inactive \cup {c}
    /\ UNCHANGED <<configured, wrr, conf, status, NodeOf, overlapped, shrunk, reweighted>>

\* Its IN thread finds the connection broken.
Lose(c) ==
    /\ Goto(c, {"named", "served"}, "lost")
    /\ inactive' = inactive \cup {c}
    /\ UNCHANGED <<configured, wrr, conf, NodeOf, overlapped, shrunk, reweighted>>

\* Its threads are gone: remove_client.
RemoveClient(c) ==
    /\ c \in inactive
    /\ Goto(c, {"named", "served", "lost"}, "away")
    /\ inactive' = inactive \ {c}
    /\ NodeOf' = [NodeOf EXCEPT ![c] = NoClient]
    /\ wrr' = IF configured THEN update_client(wrr, NoClient, NodeOf[c]) ELSE wrr
    /\ overlapped' = overlapped \cap {NodeOf[d] : d \in Clients \ {c}}
    /\ shrunk' = configured
    /\ UNCHANGED <<configured, conf, reweighted>>
-----------------------------------------------------------------------------
(* Configuration. *)

Registered(c) == status[c] \in {"registered", "served"}

RegisteredClients(id) == {c \in Clients : Registered(c) /\ NodeOf[c] = id}

\* A node of the configuration, at the start or new.
AddNode(id, weight) ==
    /\ Get(wrr, id) = 0
    /\ \E c \in IF RegisteredClients(id) = {} THEN {NoClient} ELSE RegisteredClients(id) :
          wrr' = add_node(wrr, c, id, weight)
    /\ configured' = TRUE
    /\ conf' = [conf EXCEPT ![id] = weight]
    /\ UNCHANGED <<clientVars, shrunk, reweighted>>

RemoveNode(id) ==
    /\ Get(wrr, id) # 0
    /\ wrr' = remove(wrr, id)
    /\ conf' = [conf EXCEPT ![id] = 0]
    /\ shrunk' = TRUE
    /\ reweighted' = reweighted \ {id}
    /\ UNCHANGED <<configured, clientVars>>

RemoveType ==
    /\ configured
    /\ configured' = FALSE
    /\ wrr' = NewWRR
    /\ conf' = [id \in Nodes |-> 0]
    /\ shrunk' = FALSE
    /\ reweighted' = {}
    /\ UNCHANGED clientVars

\* A weight changes.  That of an item without client stays; otherwise it is
\* written into the item and recalculation is left to update_client.
SetWeight(id, weight) ==
    LET i == Get(wrr, id)
        written == [wrr EXCEPT !.items[i].weight = weight]
    IN  /\ i # 0
        /\ conf' = [conf EXCEPT ![id] = weight]
        /\ wrr' = IF wrr.items[i].item = NoClient THEN wrr
                  ELSE update_client(written, wrr.items[i].item, id)
        /\ shrunk' = TRUE
        /\ reweighted' = reweighted \cup {id}
        /\ UNCHANGED <<configured, clientVars>>

ModifyWeight(id, weight) == SetWeight(id, weight)

DeleteWeight(id) == SetWeight(id, 0)
-----------------------------------------------------------------------------
(* Routing. *)

\* find_route: "skip if not registered or not active".
Candidates == {c \in Clients : Registered(c) /\ c \notin inactive}

\* A packet for any daemon of this type.  (Without a table the first candidate
\* is taken and nothing changes.)
Route ==
    /\ Candidates # {}
    /\ configured
    /\ wrr' = run(wrr).wrr
    /\ UNCHANGED <<configured, conf, clientVars, shrunk, reweighted>>
-----------------------------------------------------------------------------
ClientStep(c) == \/ \E id \in Nodes : Connect(c, id)
                 \/ SetRegistered(c) \/ Register(c)
                 \/ Disconnect(c) \/ Lose(c) \/ RemoveClient(c)

ConfigStep == \/ \E id \in Nodes : \/ RemoveNode(id) \/ DeleteWeight(id)
                                   \/ \E weight \in Weights : \/ AddNode(id, weight)
                                                              \/ ModifyWeight(id, weight)
              \/ RemoveType

Next == (\E c \in Clients : ClientStep(c)) \/ ConfigStep \/ Route

Spec == Init /\ [][Next]_vars

-----------------------------------------------------------------------------
ItemType == [id : Nodes, item : Clients \cup {NoClient}, weight : Nat, old_weight : Nat]

(* The values the state takes; the table has one item for a node. *)
TypeOK ==
    /\ configured \in BOOLEAN
    /\ wrr.items \in Seq(ItemType)
    /\ \A i, j \in DOMAIN wrr.items : wrr.items[i].id = wrr.items[j].id => i = j
    /\ wrr.w_gcd \in Nat /\ wrr.w_max \in Nat
    /\ wrr.index \in Nat \cup {-1} /\ wrr.cw \in Nat
    /\ status \in [Clients -> {"away", "named", "registered", "served", "lost"}]
    /\ inactive \subseteq {c \in Clients : status[c] # "away"}
    /\ conf \in [Nodes -> Nat]
    /\ NodeOf \in [Clients -> Nodes \cup {NoClient}]
    /\ shrunk \in BOOLEAN
    /\ reweighted \subseteq Nodes /\ overlapped \subseteq Nodes

Enabled == {i \in DOMAIN wrr.items : wrr.items[i].weight > 0}

(***************************************************************************)
(* The table never holds a client that was removed, although configuration *)
(* changes, registrations and removals overlap, and an item with a weight  *)
(* has a client: find_route can use what run() returns.                    *)
(***************************************************************************)
ItemsAreAlive ==
    \A i \in DOMAIN wrr.items :
        /\ wrr.items[i].item \in {NoClient} \cup {c \in Clients : status[c] # "away"}
        /\ wrr.items[i].weight > 0 => wrr.items[i].item # NoClient

(***************************************************************************)
(* w_gcd and w_max are those of the current weights, whoever registered,   *)
(* left, was added or removed, in any order (as long as no weight was      *)
(* changed: "recalc (done in update client)", cfg_events.cpp 118, is not). *)
(***************************************************************************)
Recalculated == reweighted = {} => recalc(wrr) = wrr

\* The table w after k packets, and what the last of them found.
After(w, k) ==
    LET after[n \in Nat] == IF n = 0 THEN [wrr |-> w, at |-> -1] ELSE run(after[n - 1].wrr)
    IN  after[k]

\* In any Sum(weights)/gcd packets in a row, each item gets weight/gcd of them.
SharesFairly(w) ==
    LET total == FoldLeft(+, 0, WeightsOf(w))
        cycle == total \div w.w_gcd
        Share(i) == {k \in 1..cycle : After(w, k).at = i - 1}
    IN  \A i \in DOMAIN w.items : Cardinality(Share(i)) * w.w_gcd = w.items[i].weight

(***************************************************************************)
(* When nothing changes, every node of a table that has only grown gets    *)
(* its share of the packets, wherever the packets before left off.  (Then  *)
(* each packet finds a node: as many are routed as are sent.)              *)
(***************************************************************************)
FairShare == Enabled # {} /\ ~shrunk => SharesFairly(wrr)

(***************************************************************************)
(* A node whose daemon is registered is served by it: in whatever order it *)
(* is configured, connects, leaves and returns, its weight is restored,    *)
(* unless two of its connections overlapped or its weight was changed.     *)
(***************************************************************************)
RegisteredIsEnabled ==
    \A c \in Clients, i \in DOMAIN wrr.items :
        (status[c] = "served" /\ wrr.items[i].id = NodeOf[c]
            /\ NodeOf[c] \notin overlapped \cup reweighted) =>
            /\ wrr.items[i].item = c
            /\ wrr.items[i].weight = conf[NodeOf[c]]

(***************************************************************************)
(* Packets do not stay without a route while a node is enabled, however    *)
(* far the current weight was above the weights that are left: it is       *)
(* lowered by each packet that is not routed, and that many are enough.    *)
(***************************************************************************)
RoutedAgain ==
    Enabled # {} /\ reweighted = {} => \E k \in 1..(wrr.cw \div wrr.w_gcd + 1) : After(wrr, k).at # -1
=============================================================================
