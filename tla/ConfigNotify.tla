---------------------------- MODULE ConfigNotify ----------------------------
(***************************************************************************)
(* How the daemons follow the configuration.  A daemon asks the config     *)
(* daemon for a part of the configuration and to be notified of its        *)
(* changes (notification_request of config_r14p.cpp, process_get of        *)
(* events.cpp); a commit collects what it changed (prepare_notifications), *)
(* and the end of its stream sends that to every user of the notification  *)
(* (StreamDone, notify_user), item by item; a daemon applies a             *)
(* notification when it has it all (CfgUpdateStreamDone).                  *)
(*                                                                         *)
(* All daemons reach the config daemon through a routing daemon, that is,  *)
(* over one connection of the config daemon: its mutex excludes none of    *)
(* the streams below from another (ConfigLock).  A stream is a packet that *)
(* goes back and forth; packets of one daemon stay in order.  The token of *)
(* a stream holds what both ends know of it.  Values are the numbers of    *)
(* the commits that wrote them.                                            *)
(***************************************************************************)
EXTENDS Naturals, FiniteSets, SequencesExt

CONSTANTS
    Daemons,
    Items,
    Edits,        \* the sets of items that a commit changes
    Commits,      \* streams of users that commit
    MaxVersion,   \* bound: commits
    MaxTries,     \* bound: notification requests
    MaxLosses     \* bound: connections lost

ASSUME NotifyAssumption ==
    /\ IsFiniteSet(Items)
    /\ Edits \subseteq SUBSET Items \ {{}}
    /\ MaxVersion \in Nat /\ MaxTries \in Nat /\ MaxLosses \in Nat

VARIABLES
    committed,    \* the configuration: the last commit of each item
    version,
    changes,      \* R14PCfgNotification::ntf_cfg_lst
    ready,        \* R14PCfgNotification::ready
    owing,        \* streams whose ntfy_lst has the notification
    slots,        \* the memory of R14PCfgNotification::users
    size,         \* and how much of it is in use
    down, up,     \* packets to and from each daemon
    conn,         \* its connection to the routing daemon is up
    phase,        \* where its notification_request is
    snap,         \* what it received and has not merged yet
    copy,         \* its configuration
    handler,      \* its STREAM_NEW handler is set
    tries, losses,
    log,          \* history: every configuration that was committed
    state         \* history: what can have happened to the copy

configVars == <<committed, version, log>>
notifyVars == <<changes, ready, owing, slots, size>>
daemonVars == <<phase, snap, copy, handler>>
vars == <<configVars, notifyVars, down, up, conn, daemonVars, tries, losses, state>>

Initial == [i \in Items |-> 0]

Init == /\ committed = Initial /\ version = 0 /\ log = {Initial}
        /\ changes = <<>> /\ ready = FALSE /\ owing = {}
        /\ slots = <<>> /\ size = 0
        /\ down = [d \in Daemons |-> <<>>] /\ up = [d \in Daemons |-> <<>>]
        /\ conn = [d \in Daemons |-> TRUE]
        /\ phase = [d \in Daemons |-> "down"]
        /\ snap = [d \in Daemons |-> <<>>]
        /\ copy = [d \in Daemons |-> Initial]
        /\ handler = [d \in Daemons |-> FALSE]
        /\ tries = 0 /\ losses = 0
        /\ state = [d \in Daemons |-> "missed"]
-----------------------------------------------------------------------------
(* Packets. *)

Open(d) == ToSet(up[d]) \cup ToSet(down[d])

\* History: a copy is "whole", a "mix" of two configurations, or has "missed" one.
Missed(D) == [d \in Daemons |-> IF d \in D THEN "missed" ELSE state[d]]

Tell(d, token, msg) ==
    /\ down' = [down EXCEPT ![d] = Append(@, [token EXCEPT !.msg = msg])]
    /\ up' = [up EXCEPT ![d] = Tail(@)]

Answer(d, token, msg) ==
    /\ up' = [up EXCEPT ![d] = Append(@, [token EXCEPT !.msg = msg])]
    /\ down' = [down EXCEPT ![d] = Tail(@)]

Received(d, kind, msg) ==
    down[d] # <<>> /\ conn[d]
        /\ Head(down[d]).kind = kind /\ Head(down[d]).msg = msg /\ Head(down[d]).known

Arrived(d, kind, msg) ==
    up[d] # <<>> /\ Head(up[d]).kind = kind /\ Head(up[d]).msg = msg

\* A stream that begins: its items are to be sent, its end has received none.
NewToken(kind, left, slot) ==
    [kind |-> kind, msg |-> "start", left |-> left, got |-> <<>>,
     slot |-> slot, users |-> slots, known |-> TRUE]
-----------------------------------------------------------------------------
(* The users of the notification: a vector of their ids. *)

Users == {slots[j] : j \in 1..size}

SlotBehind(d) ==   \* mutant: the slots are counted from the end
    size + 1 - (CHOOSE j \in 1..size : slots[j] = d)

SlotOf(d) == CHOOSE j \in 1..size : slots[j] = d

\* unreg_user: the users behind d move up, the last slot keeps its bytes.
Unreg(d) ==
    IF d \notin Users THEN [slots |-> slots, size |-> size]
    ELSE LET j == SlotOf(d)
         IN  [slots |-> [k \in DOMAIN slots |-> IF k \in j..(size - 1) THEN slots[k + 1] ELSE slots[k]],
              size  |-> size - 1]

RegAgain(d) ==   \* mutant: a user that is known is not removed first
    size' = size + 1 /\ slots' = Append(SubSeq(slots, 1, size), d)

\* reg_user: push_back.  The vector moves when it grows past what it ever held.
Reg(d) ==
    LET u == Unreg(d)
    IN  /\ size' = u.size + 1
        /\ slots' = IF u.size = Len(u.slots) THEN Append(u.slots, d)
                    ELSE [u.slots EXCEPT ![u.size + 1] = d]
-----------------------------------------------------------------------------
(* Commits. *)

OldValues(I) == [k \in 1..Cardinality(I) |->   \* mutant: value for new_value
                    LET i == SetToSeq(I)[k] IN [item |-> i, value |-> committed[i]]]

\* What a commit to the items I adds to the list, in the order of the tree.
NewValues(I) == [k \in 1..Cardinality(I) |-> [item |-> SetToSeq(I)[k], value |-> version + 1]]

\* prepare_notifications, and Config::commit.
Commit(s, I) ==
    /\ s \notin owing /\ version < MaxVersion
    /\ changes' = changes \o NewValues(I)
    /\ ready' = TRUE
    /\ owing' = owing \cup {s}
    /\ version' = version + 1
    /\ committed' = [i \in Items |-> IF i \in I THEN version + 1 ELSE committed[i]]
    /\ log' = log \cup {committed'}
    /\ state' = [d \in Daemons |->
                    IF state[d] = "whole" /\ \E token \in Open(d) : token.kind = "get"
                    THEN "mix" ELSE state[d]]
    /\ UNCHANGED <<slots, size, down, up, conn, daemonVars, tries, losses>>

\* notify_user for every user of the notification.
Notify ==
    /\ down' = [d \in Daemons |->
                  IF d \in Users
                  THEN Append(down[d], NewToken("notify", changes, SlotOf(d)))
                  ELSE down[d]]
    /\ state' = Missed({d \in Users : Open(d) # {}})

StreamDoneReady(s) ==   \* mutant: ready is not reset
    /\ s \in owing
    /\ owing' = owing \ {s}
    /\ IF ready THEN Notify ELSE UNCHANGED <<down, state>>
    /\ changes' = <<>>
    /\ UNCHANGED <<configVars, ready, slots, size, up, conn, daemonVars, tries, losses>>

\* StreamDone::run.
StreamDone(s) ==
    /\ s \in owing
    /\ owing' = owing \ {s}
    /\ IF ready THEN Notify ELSE UNCHANGED <<down, state>>
    /\ changes' = <<>> /\ ready' = FALSE
    /\ UNCHANGED <<configVars, slots, size, up, conn, daemonVars, tries, losses>>
-----------------------------------------------------------------------------
(* The notification request. *)

\* notification_request, at the start or after a missed heartbeat.
Request(d) ==
    /\ conn[d] /\ phase[d] \in {"down", "up"} /\ tries < MaxTries
    /\ tries' = tries + 1
    /\ phase' = [phase EXCEPT ![d] = "waiting"]
    /\ up' = [up EXCEPT ![d] = Append(@, [NewToken("get", <<>>, 0) EXCEPT !.users = <<>>])]
    /\ UNCHANGED <<configVars, notifyVars, down, conn, snap, copy, handler, losses, state>>

\* process_get: registers the user and answers with the number of items.
GetStart(d) ==
    /\ Arrived(d, "get", "start")
    /\ Tell(d, [Head(up[d]) EXCEPT !.left = SetToSeq(Items)], "item")
    /\ Reg(d)
    /\ state' = [state EXCEPT ![d] = IF Open(d) = {Head(up[d])} THEN "whole" ELSE "missed"]
    /\ UNCHANGED <<configVars, changes, ready, owing, conn, daemonVars, tries, losses>>

\* StreamNext: the item is sent with the value it has by now.
GetNext(d) ==
    LET token == Head(up[d])
        item  == Head(token.left)
    IN  /\ Arrived(d, "get", "continue")
        /\ IF token.left = <<>> THEN Tell(d, token, "end")
           ELSE Tell(d, [token EXCEPT !.left = Tail(@),
                                      !.got = Append(@, [item |-> item, value |-> committed[item]])], "item")
        /\ UNCHANGED <<configVars, notifyVars, conn, daemonVars, tries, losses, state>>

\* RegUsrStreamNext.
GetItem(d) ==
    /\ Received(d, "get", "item")
    /\ Answer(d, Head(down[d]), "continue")
    /\ UNCHANGED <<configVars, notifyVars, conn, daemonVars, tries, losses, state>>

\* RegUseStreamDone wakes up the thread that waits.
GetEnd(d) ==
    /\ Received(d, "get", "end")
    /\ down' = [down EXCEPT ![d] = Tail(@)]
    /\ snap' = [snap EXCEPT ![d] = Head(down[d]).got]
    /\ phase' = [phase EXCEPT ![d] = "merge"]
    /\ UNCHANGED <<configVars, notifyVars, up, conn, copy, handler, tries, losses, state>>

\* That thread sets one value after the other, without the configuration's lock.
Merge(d) ==
    /\ phase[d] = "merge" /\ snap[d] # <<>>
    /\ copy' = [copy EXCEPT ![d][Head(snap[d]).item] = Head(snap[d]).value]
    /\ snap' = [snap EXCEPT ![d] = Tail(@)]
    /\ UNCHANGED <<configVars, notifyVars, down, up, conn, phase, handler, tries, losses, state>>

SetHandler(d) ==
    /\ phase[d] = "merge" /\ snap[d] = <<>>
    /\ handler' = [handler EXCEPT ![d] = TRUE]
    /\ phase' = [phase EXCEPT ![d] = "up"]
    /\ UNCHANGED <<configVars, notifyVars, down, up, conn, snap, copy, tries, losses, state>>
-----------------------------------------------------------------------------
(* A notification. *)

\* CfgUpdateStreamNew; without handler the first packet is acknowledged with END.
NtfStart(d) ==
    /\ Received(d, "notify", "start")
    /\ IF handler[d] THEN Answer(d, Head(down[d]), "continue") /\ UNCHANGED state
       ELSE /\ down' = [down EXCEPT ![d] = Tail(@)]
            /\ state' = Missed({d})
            /\ UNCHANGED up
    /\ UNCHANGED <<configVars, notifyVars, conn, daemonVars, tries, losses>>

\* NtfyUsrStreamNext.
NtfNext(d) ==
    LET token == Head(up[d])
    IN  /\ Arrived(d, "notify", "continue")
        /\ IF token.left = <<>> THEN Tell(d, token, "end")
           ELSE Tell(d, [token EXCEPT !.left = Tail(@), !.got = Append(@, Head(token.left))], "item")
        /\ UNCHANGED <<configVars, notifyVars, conn, daemonVars, tries, losses, state>>

\* The places of a list that change item i.
ChangesOf(list, i) == {k \in DOMAIN list : list[k].item = i}

\* One change is applied after the other: the last one of an item counts.
Applied(c, list) ==
    [i \in Items |-> IF ChangesOf(list, i) = {} THEN c[i]
                     ELSE list[Max(ChangesOf(list, i))].value]

NtfItemAtOnce(d) ==   \* mutant: an item is applied when it comes
    /\ Received(d, "notify", "item")
    /\ Answer(d, Head(down[d]), "continue")
    /\ copy' = [copy EXCEPT ![d] = Applied(@, Head(down[d]).got)]
    /\ UNCHANGED <<configVars, notifyVars, conn, phase, snap, handler, tries, losses, state>>

\* CfgUpdateStreamNext.
NtfItem(d) ==
    /\ Received(d, "notify", "item")
    /\ Answer(d, Head(down[d]), "continue")
    /\ UNCHANGED <<configVars, notifyVars, conn, daemonVars, tries, losses, state>>

\* CfgUpdateStreamDone: everything, under the configuration's lock.
NtfEnd(d) ==
    /\ Received(d, "notify", "end")
    /\ down' = [down EXCEPT ![d] = Tail(@)]
    /\ copy' = [copy EXCEPT ![d] = Applied(@, Head(down[d]).got)]
    /\ state' = [state EXCEPT ![d] = IF phase[d] # "up" THEN "missed"
                                     ELSE IF @ = "mix" THEN "whole" ELSE @]
    /\ UNCHANGED <<configVars, notifyVars, up, conn, phase, snap, handler, tries, losses>>

\* NtfyUsrStreamDone: the user in the slot is removed, whoever it is by now.  A
\* slot of memory the vector has left holds anything.
NtfError(d) ==
    LET token == Head(up[d])
    IN  /\ Arrived(d, "notify", "error")
        /\ up' = [up EXCEPT ![d] = Tail(@)]
        /\ \E e \in IF Len(token.users) = Len(slots) THEN {slots[token.slot]} ELSE Daemons :
              /\ slots' = Unreg(e).slots /\ size' = Unreg(e).size
              /\ state' = Missed({d, e})
        /\ UNCHANGED <<configVars, changes, ready, owing, down, conn, daemonVars, tries, losses>>

-----------------------------------------------------------------------------
(* Connections. *)

\* The routing daemon has no route, or the daemon does not know the stream.  The
\* error ends the stream; a request that waited has failed before.
Refuse(d) ==
    /\ down[d] # <<>>
    /\ ~conn[d] \/ ~Head(down[d]).known
    /\ IF Head(down[d]).kind = "notify"
       THEN Answer(d, Head(down[d]), "error") /\ state' = Missed({d})
       ELSE down' = [down EXCEPT ![d] = Tail(@)] /\ UNCHANGED <<up, state>>
    /\ UNCHANGED <<configVars, notifyVars, conn, daemonVars, tries, losses>>

Forgotten(tokens) ==
    [k \in DOMAIN tokens |-> [tokens[k] EXCEPT !.known = @ /\ tokens[k].kind = "notify"
                                                         /\ tokens[k].msg = "start"]]

\* The connection of a daemon is lost with the packets on it; its streams are
\* timed out, and a request that waits fails.  Or the daemon itself ends.
Lose(d, ends, lost) ==
    /\ conn[d] /\ losses < MaxLosses
    /\ losses' = losses + 1
    /\ conn' = [conn EXCEPT ![d] = FALSE]
    /\ down' = [down EXCEPT ![d] = IF lost THEN <<>> ELSE Forgotten(@)]
    /\ up' = [up EXCEPT ![d] = IF lost THEN <<>> ELSE Forgotten(@)]
    /\ state' = IF Open(d) = {} THEN state ELSE Missed({d})
    /\ phase' = [phase EXCEPT ![d] = IF ends \/ @ = "waiting" THEN "down" ELSE @]
    /\ IF ends THEN /\ copy' = [copy EXCEPT ![d] = Initial]
                    /\ handler' = [handler EXCEPT ![d] = FALSE]
                    /\ snap' = [snap EXCEPT ![d] = <<>>]
       ELSE UNCHANGED <<copy, handler, snap>>
    /\ UNCHANGED <<configVars, notifyVars, tries>>

Reconnect(d) ==
    /\ ~conn[d]
    /\ conn' = [conn EXCEPT ![d] = TRUE]
    /\ UNCHANGED <<configVars, notifyVars, down, up, daemonVars, tries, losses, state>>
-----------------------------------------------------------------------------
Committing(s) == StreamDone(s) \/ \E I \in Edits : Commit(s, I)

Registering(d) == \/ Request(d) \/ GetStart(d) \/ GetNext(d) \/ GetItem(d) \/ GetEnd(d)
                  \/ Merge(d) \/ SetHandler(d)

Notifying(d) == NtfStart(d) \/ NtfNext(d) \/ NtfItem(d) \/ NtfEnd(d) \/ NtfError(d)

Failing(d) == \/ Refuse(d) \/ Reconnect(d)
              \/ \E ends, lost \in BOOLEAN : Lose(d, ends, lost)

Next == \/ \E s \in Commits : Committing(s)
        \/ \E d \in Daemons : Registering(d) \/ Notifying(d) \/ Failing(d)

Spec == Init /\ [][Next]_vars
-----------------------------------------------------------------------------
Change == [item : Items, value : 0..MaxVersion]

TypeOK ==
    /\ committed \in [Items -> 0..MaxVersion] /\ version \in 0..MaxVersion
    /\ changes \in Seq(Change) /\ ready \in BOOLEAN /\ owing \subseteq Commits
    /\ slots \in Seq(Daemons) /\ size \in 0..Len(slots)
    /\ \A j, k \in 1..size : slots[j] = slots[k] => j = k
    /\ conn \in [Daemons -> BOOLEAN] /\ handler \in [Daemons -> BOOLEAN]
    /\ phase \in [Daemons -> {"down", "waiting", "merge", "up"}]
    /\ snap \in [Daemons -> Seq(Change)]
    /\ copy \in [Daemons -> [Items -> 0..MaxVersion]]
    /\ state \in [Daemons -> {"whole", "mix", "missed"}]

(***************************************************************************)
(* What a commit has collected is sent: as long as the notification is     *)
(* ready, a stream is open whose StreamDone will send it, and nothing is   *)
(* collected without being ready.                                          *)
(***************************************************************************)
ReadyIsOwed == /\ ready => owing # {}
               /\ changes # <<>> => ready

Quiet(d) == Open(d) = {} /\ ~ready

(***************************************************************************)
(* A daemon that asked for its configuration, and whose streams came one   *)
(* after the other, has the committed configuration as soon as nothing is  *)
(* on its way, whatever was committed before, during and after the request *)
(* (unless a notification came before the handler of notifications was     *)
(* set, or it was unregistered).                                           *)
(***************************************************************************)
Converged ==
    \A d \in Daemons : phase[d] = "up" /\ state[d] # "missed" /\ Quiet(d) => copy[d] = committed

(***************************************************************************)
(* Such a daemon never has part of a commit: a notification is applied     *)
(* when it is complete.  (With a commit during the request it has a mix,   *)
(* until it is notified of that commit.)                                   *)
(***************************************************************************)
NeverTorn ==
    \A d \in Daemons : phase[d] = "up" /\ state[d] = "whole" => copy[d] \in log

(***************************************************************************)
(* A daemon is unregistered because it failed itself, as long as the users *)
(* have not moved between a notification and its failure (the slot that is *)
(* kept is then another's).                                                *)
(***************************************************************************)
HasFailed(d) == up[d] # <<>> /\ Head(up[d]).msg = "error"

StaysListed ==
    [][\A d \in Users : d \in Users' \/ HasFailed(d)
                          \/ \E e \in Daemons : HasFailed(e) /\ Head(up[e]).users # slots]_vars

(***************************************************************************)
(* README.md 203-204: "all connected daemons that are affected with that   *)
(* particular modification, are notified".  A daemon that is connected and *)
(* registered has the committed configuration once nothing is on its way.  *)
(***************************************************************************)
AllAreNotified ==
    \A d \in Daemons : phase[d] = "up" /\ conn[d] /\ Quiet(d) => copy[d] = committed
=============================================================================
