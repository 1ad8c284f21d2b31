---------------------------- MODULE R14PLifetime ----------------------------
(***************************************************************************)
(* The life of one R14PClient in its session (r14p.cpp): how it is created *)
(* by server_loop or connect, how its threads are started and counted, how *)
(* it is registered, how other clients hold it while they route packets to *)
(* it, and how it is removed and destroyed, alone or with the session.     *)
(*                                                                         *)
(* Threads are "in", "out", "timeout", "exit", and those that register:    *)
(* "reg" for an inbound client, one of RegThreads for each reconnection of *)
(* an outbound one.  What the threads do otherwise is in R14PClient.       *)
(***************************************************************************)
EXTENDS Integers, Sequences, FiniteSets

CONSTANTS
    Outbound,        \* created by connect, otherwise by server_loop
    RegThreads,      \* the threads that register again after a reconnection
    Routers,         \* other clients, whose IN threads route packets here
    WORD,            \* counters are unsigned: they count modulo WORD
    PromptCount,     \* a thread's creator counts it before it can end
    LateAccept,      \* the server may accept while the session is destroyed
    LastSent,        \* the last packet of a registration is sent before OUT ends
    DestinationAll,  \* packets are sent to the id "*"
    SameType         \* the peer is a daemon of the session's own type

Threads == {"in", "out", "timeout", "exit", "reg"} \cup RegThreads

ASSUME LifetimeAssumption ==
    /\ {Outbound, PromptCount, LateAccept, LastSent, DestinationAll, SameType} \subseteq BOOLEAN
    /\ IsFiniteSet(RegThreads) /\ IsFiniteSet(Routers)
    /\ {"in", "out", "timeout", "exit", "reg", "creator"} \cap RegThreads = {}
    /\ WORD \in Nat /\ WORD > Cardinality(Threads) + 1 /\ WORD > Cardinality(Routers) + 2

VARIABLES
    creator,         \* server_loop or connect: where it is
    started,         \* the threads it has started
    uncounted,       \* the last of them is not counted yet
    running,         \* the client's threads
    thread_count,    \* R14PClient::thread_count
    active, registered,
    in_pc, exit_pc,  \* where IN and the exit thread are
    signal,          \* what each thread that registers is waiting for
    reg_stream,      \* the registration stream of an inbound client
    ref_counter,     \* R14PClient::ref_counter
    holders,         \* routers with a counted reference
    borrowers,       \* routers with the pointer alone
    client,          \* the object and its place in the session's list
    counted,         \* the client is in R14PSession::thread_count
    session          \* destroy_session: where it is

creatorVars == <<creator, started, uncounted>>
threadVars  == <<running, thread_count, in_pc, exit_pc>>
regVars     == <<registered, signal, reg_stream>>
refVars     == <<ref_counter, holders, borrowers>>
listVars    == <<client, counted>>
vars == <<creatorVars, threadVars, active, regVars, refVars, listVars, session>>

Waiters == RegThreads \cup {"creator"}

Init == /\ creator = "none" /\ started = 0 /\ uncounted = FALSE
        /\ running = {} /\ thread_count = 0
        /\ in_pc = "loop" /\ exit_pc = "wait"
        /\ active = TRUE /\ registered = FALSE
        /\ signal = [w \in Waiters |-> "none"]
        /\ reg_stream = "none"
        /\ ref_counter = 1 /\ holders = {} /\ borrowers = {}
        /\ client = "none" /\ counted = FALSE
        /\ session = "open"

inc(n) == IF n = WORD - 1 THEN 0 ELSE n + 1

decSigned(n) == n - 1   \* mutant: a signed counter

dec(n) == IF n = 0 THEN WORD - 1 ELSE n - 1
-----------------------------------------------------------------------------
(* Creation. *)

\* The threads, in the order of register_client and init_threads.
Order == IF Outbound THEN <<"out", "timeout", "in">> ELSE <<"reg", "out", "timeout", "in">>

CreateUncounted ==   \* mutant: the session does not count the client
    /\ creator = "none"
    /\ session = "open" \/ (LateAccept /\ ~Outbound)
    /\ creator' = "threads"
    /\ client' = IF Outbound THEN "unlisted" ELSE "listed"
    /\ reg_stream' = IF Outbound THEN "none" ELSE "armed"
    /\ UNCHANGED <<started, uncounted, threadVars, active, registered, signal, refVars, counted, session>>

\* An inbound client is listed first, an outbound one when it is registered.
Create ==
    /\ creator = "none"
    /\ session = "open" \/ (LateAccept /\ ~Outbound)
    /\ session # "gone"
    /\ creator' = "threads"
    /\ client' = IF Outbound THEN "unlisted" ELSE "listed"
    /\ counted' = TRUE
    /\ reg_stream' = IF Outbound THEN "none" ELSE "armed"
    /\ UNCHANGED <<started, uncounted, threadVars, active, registered, signal, refVars, session>>

StartThread ==
    /\ creator = "threads" /\ ~uncounted
    /\ started < Len(Order)
    /\ started' = started + 1
    /\ running' = running \cup {Order[started + 1]}
    /\ uncounted' = TRUE
    /\ UNCHANGED <<creator, thread_count, in_pc, exit_pc, active, regVars, refVars, listVars, session>>

\* inc_thread_count comes after pthread_create.
CountThread ==
    /\ uncounted
    /\ uncounted' = FALSE
    /\ thread_count' = inc(thread_count)
    /\ UNCHANGED <<creator, started, running, in_pc, exit_pc, active, regVars, refVars, listVars, session>>

Created ==
    /\ creator = "threads" /\ ~uncounted
    /\ started = Len(Order)
    /\ creator' = IF Outbound THEN "register" ELSE "done"
    /\ UNCHANGED <<started, uncounted, threadVars, active, regVars, refVars, listVars, session>>

\* connect waits in register_client; without a stream it goes on at once.
Connect ==
    /\ creator = "register"
    /\ creator' = "wait"
    /\ \E stage \in {"stream", "posted"} : signal' = [signal EXCEPT !["creator"] = stage]
    /\ UNCHANGED <<started, uncounted, threadVars, active, registered, reg_stream, refVars, listVars, session>>

\* skip_r14p_reg: the client is listed without a registration.
ConnectUnregistered ==
    /\ creator = "register"
    /\ creator' = "done"
    /\ client' = "listed"
    /\ UNCHANGED <<started, uncounted, threadVars, active, regVars, refVars, counted, session>>

\* A client that is not registered is given to remove_client, which does not
\* find it in the list.
Connected ==
    /\ creator = "wait"
    /\ signal["creator"] = "posted"
    /\ creator' = IF registered THEN "done" ELSE "failed"
    /\ client' = IF registered THEN "listed" ELSE client
    /\ UNCHANGED <<started, uncounted, threadVars, active, regVars, refVars, counted, session>>
-----------------------------------------------------------------------------
(* The client's threads. *)

\* A thread ends: its last act is to count itself out.
End(t) ==
    /\ t \in running
    /\ PromptCount => ~uncounted
    /\ running' = running \ {t}
    /\ thread_count' = dec(thread_count)

\* out_loop and timeout_loop.
LoopEnds(t) ==
    /\ ~active
    /\ LastSent /\ t = "out" => \A w \in Waiters : signal[w] # "closing"
    /\ End(t)
    /\ UNCHANGED <<creatorVars, in_pc, exit_pc, active, regVars, refVars, listVars, session>>

\* IN loses the connection.  An inbound client ends.
InLost ==
    /\ "in" \in running /\ in_pc = "loop" /\ active
    /\ ~Outbound
    /\ registered' = FALSE
    /\ active' = FALSE
    /\ UNCHANGED <<creatorVars, threadVars, signal, reg_stream, refVars, listVars, session>>

\* An outbound one reconnects and registers again in a thread of its own.
InReconnected(r) ==
    /\ "in" \in running /\ in_pc = "loop" /\ active
    /\ Outbound
    /\ signal[r] = "none"
    /\ registered' = FALSE
    /\ running' = running \cup {r}
    /\ \E stage \in {"stream", "posted"} : signal' = [signal EXCEPT ![r] = stage]
    /\ in_pc' = "count"
    /\ UNCHANGED <<creatorVars, thread_count, exit_pc, active, reg_stream, refVars, listVars, session>>

InCount ==
    /\ "in" \in running /\ in_pc = "count"
    /\ in_pc' = "loop"
    /\ thread_count' = inc(thread_count)
    /\ UNCHANGED <<creatorVars, running, exit_pc, active, regVars, refVars, listVars, session>>

InStartsExitUncounted ==   \* mutant: IN does not count the exit thread
    /\ "in" \in running /\ in_pc = "loop"
    /\ ~active
    /\ running' = running \cup {"exit"}
    /\ in_pc' = "end"
    /\ UNCHANGED <<creatorVars, thread_count, exit_pc, active, regVars, refVars, listVars, session>>

\* The exit thread is counted before it is started.
InStartsExit ==
    /\ "in" \in running /\ in_pc = "loop"
    /\ ~active
    /\ thread_count' = inc(thread_count)
    /\ running' = running \cup {"exit"}
    /\ in_pc' = "end"
    /\ UNCHANGED <<creatorVars, exit_pc, active, regVars, refVars, listVars, session>>

InEnds ==
    /\ in_pc = "end"
    /\ End("in")
    /\ UNCHANGED <<creatorVars, in_pc, exit_pc, active, regVars, refVars, listVars, session>>
-----------------------------------------------------------------------------
(* Registration of an outbound client: register_client's semaphore. *)

\* The peer's END; with a result the signal waits for the STREAM_COMPLETE.
RegResult(w) ==
    /\ "in" \in running /\ active
    /\ signal[w] = "stream"
    /\ \E stage \in {"closing", "posted"} : signal' = [signal EXCEPT ![w] = stage]
    /\ UNCHANGED <<creatorVars, threadVars, active, registered, reg_stream, refVars, listVars, session>>

RegSent(w) ==
    /\ "out" \in running
    /\ signal[w] = "closing"
    /\ signal' = [signal EXCEPT ![w] = "posted"]
    /\ registered' \in {TRUE, registered}
    /\ UNCHANGED <<creatorVars, threadVars, active, reg_stream, refVars, listVars, session>>

\* No callback for a packet that cannot be sent.
RegUnsent(w) ==
    /\ ~LastSent
    /\ "out" \in running
    /\ signal[w] = "closing"
    /\ signal' = [signal EXCEPT ![w] = "lost"]
    /\ UNCHANGED <<creatorVars, threadVars, active, registered, reg_stream, refVars, listVars, session>>

RegTimeoutByIn(w) ==   \* mutant: the exit thread leaves the streams alone
    /\ "in" \in running
    /\ signal[w] = "stream"
    /\ signal' = [signal EXCEPT ![w] = "posted"]
    /\ UNCHANGED <<creatorVars, threadVars, active, registered, reg_stream, refVars, listVars, session>>

\* IN or the exit thread times the stream out.
RegTimeout(w) ==
    /\ {"in", "exit"} \cap running # {}
    /\ signal[w] = "stream"
    /\ signal' = [signal EXCEPT ![w] = "posted"]
    /\ UNCHANGED <<creatorVars, threadVars, active, registered, reg_stream, refVars, listVars, session>>

RegEnds(r) ==
    /\ signal[r] = "posted"
    /\ ~(r \in running /\ in_pc = "count" /\ PromptCount)
    /\ End(r)
    /\ signal' = [signal EXCEPT ![r] = "done"]
    /\ UNCHANGED <<creatorVars, in_pc, exit_pc, active, registered, reg_stream, refVars, listVars, session>>
-----------------------------------------------------------------------------
(* Registration of an inbound client: RegClientStreamNew and RegClientStreamDone. *)

\* START: the stream gets its END and TIMEOUT handlers.
RegNew ==
    /\ "in" \in running /\ active
    /\ reg_stream = "armed"
    /\ reg_stream' = "open"
    /\ UNCHANGED <<creatorVars, threadVars, active, registered, signal, refVars, listVars, session>>

\* END, or the timeout that IN or the exit thread finds.
RegDone ==
    /\ reg_stream = "open"
    /\ reg_stream' = "done"
    /\ \/ /\ "in" \in running /\ in_pc = "loop"
          /\ registered' = TRUE
          /\ UNCHANGED active
       \/ /\ {"in", "exit"} \cap running # {}
          /\ active' = FALSE
          /\ UNCHANGED registered
    /\ UNCHANGED <<creatorVars, threadVars, signal, refVars, listVars, session>>

\* reg_timeout_loop frees the handlers.
RegLoopEnds ==
    /\ ~active \/ reg_stream = "done"
    /\ End("reg")
    /\ UNCHANGED <<creatorVars, in_pc, exit_pc, active, regVars, refVars, listVars, session>>
-----------------------------------------------------------------------------
(* Removal. *)

ExitWaits ==
    /\ "exit" \in running /\ exit_pc = "wait"
    /\ PromptCount => ~uncounted
    /\ thread_count <= 1
    /\ thread_count' = dec(thread_count)
    /\ exit_pc' = "remove"
    /\ UNCHANGED <<creatorVars, running, in_pc, active, regVars, refVars, listVars, session>>

ExitFreesAtOnce ==   \* mutant: references are not waited for
    /\ "exit" \in running /\ exit_pc = "remove"
    /\ client = "listed"
    /\ client' = "removed"
    /\ ref_counter' = dec(ref_counter)
    /\ exit_pc' = "drained"
    /\ UNCHANGED <<creatorVars, running, thread_count, in_pc, active, regVars, holders, borrowers, counted, session>>

\* remove_client takes the client off the list and lets its own reference go.
ExitUnlists ==
    /\ "exit" \in running /\ exit_pc = "remove"
    /\ client = "listed"
    /\ client' = "removed"
    /\ ref_counter' = dec(ref_counter)
    /\ exit_pc' = IF ref_counter' > 0 THEN "drain" ELSE "drained"
    /\ UNCHANGED <<creatorVars, running, thread_count, in_pc, active, regVars, holders, borrowers, counted, session>>

ExitDrains ==
    /\ exit_pc = "drain"
    /\ ref_counter = 0
    /\ exit_pc' = "drained"
    /\ UNCHANGED <<creatorVars, running, thread_count, in_pc, active, regVars, refVars, listVars, session>>

\* The destructor waits for the thread count, then the session counts down.
ExitDestroys ==
    /\ exit_pc = "drained"
    /\ thread_count = 0
    /\ client' = "freed"
    /\ counted' = FALSE
    /\ running' = running \ {"exit"}
    /\ exit_pc' = "done"
    /\ UNCHANGED <<creatorVars, thread_count, in_pc, active, regVars, refVars, session>>
-----------------------------------------------------------------------------
(* Other clients route packets to this one. *)

Routable == client = "listed" /\ registered /\ active

FindRoute(w) ==
    /\ Routable
    /\ w \notin holders \cup borrowers
    /\ holders' = holders \cup {w}
    /\ ref_counter' = inc(ref_counter)
    /\ UNCHANGED <<creatorVars, threadVars, active, regVars, borrowers, listVars, session>>

\* The id "*": no reference is taken.
FindRouteAll(w) ==
    /\ DestinationAll
    /\ Routable
    /\ w \notin holders \cup borrowers
    /\ borrowers' = borrowers \cup {w}
    /\ UNCHANGED <<creatorVars, threadVars, active, regVars, ref_counter, holders, listVars, session>>

RoutedKept(w) ==   \* mutant: the reference stays when no stream is free
    /\ w \in holders \cup borrowers
    /\ holders' = holders \ {w}
    /\ borrowers' = borrowers \ {w}
    /\ ref_counter' \in {ref_counter, dec(ref_counter)}
    /\ UNCHANGED <<creatorVars, threadVars, active, regVars, listVars, session>>

\* The packet is queued; a reference is given back in any case.
Routed(w) ==
    /\ w \in holders \cup borrowers
    /\ holders' = holders \ {w}
    /\ borrowers' = borrowers \ {w}
    /\ ref_counter' = dec(ref_counter)
    /\ UNCHANGED <<creatorVars, threadVars, active, regVars, listVars, session>>

\* A packet for the session's own type from a peer of that type goes back to it.
RoutedToSelf ==
    /\ SameType
    /\ "in" \in running /\ active
    /\ ref_counter' = dec(ref_counter)
    /\ UNCHANGED <<creatorVars, threadVars, active, regVars, holders, borrowers, listVars, session>>
-----------------------------------------------------------------------------
(* The daemon. *)

Disconnect ==
    /\ client = "listed" /\ active
    /\ active' = FALSE
    /\ UNCHANGED <<creatorVars, threadVars, regVars, refVars, listVars, session>>

DestroyAtOnce ==   \* mutant: the clients are not disconnected
    /\ session = "open"
    /\ Outbound => creator \in {"none", "done", "failed"}
    /\ session' = "closing"
    /\ UNCHANGED <<creatorVars, threadVars, active, regVars, refVars, listVars>>

\* destroy_session disconnects the listed clients, once.  connect is called by the
\* thread that destroys.
DestroySession ==
    /\ session = "open"
    /\ Outbound => creator \in {"none", "done", "failed"}
    /\ session' = "closing"
    /\ active' = (active /\ client # "listed")
    /\ UNCHANGED <<creatorVars, threadVars, regVars, refVars, listVars>>

\* The server's thread and every client are counted in the session.
DestroyReturns ==
    /\ session = "closing"
    /\ ~counted
    /\ creator \in {"none", "done", "failed"}
    /\ session' = "gone"
    /\ UNCHANGED <<creatorVars, threadVars, active, regVars, refVars, listVars>>
-----------------------------------------------------------------------------
CreatorStep == StartThread \/ CountThread \/ Created
               \/ Connect \/ ConnectUnregistered \/ Connected

InStep == InCount \/ InStartsExit \/ InEnds

ExitStep == ExitWaits \/ ExitUnlists \/ ExitDrains \/ ExitDestroys

Waiting(w) == RegResult(w) \/ RegSent(w) \/ RegUnsent(w) \/ RegTimeout(w)

Routing(w) == FindRoute(w) \/ FindRouteAll(w) \/ Routed(w)

Next == \/ Create \/ CreatorStep
        \/ LoopEnds("out") \/ LoopEnds("timeout")
        \/ InLost \/ InStep
        \/ \E r \in RegThreads : InReconnected(r) \/ RegEnds(r)
        \/ \E w \in Waiters : Waiting(w)
        \/ RegNew \/ RegDone \/ RegLoopEnds
        \/ ExitStep
        \/ \E w \in Routers : Routing(w)
        \/ RoutedToSelf
        \/ Disconnect \/ DestroySession \/ DestroyReturns

Spec == Init /\ [][Next]_vars

(***************************************************************************)
(* Every thread keeps running: what one has begun it ends, a thread that   *)
(* polls a counter sees it in the end, queued packets are sent or refused, *)
(* and streams are timed out.  Nothing is assumed of the peer.             *)
(***************************************************************************)
FairSpec ==
    /\ Spec
    /\ WF_vars(CreatorStep)
    /\ WF_vars(LoopEnds("out")) /\ WF_vars(LoopEnds("timeout"))
    /\ WF_vars(InStep) /\ WF_vars(ExitStep) /\ WF_vars(RegLoopEnds)
    /\ \A r \in RegThreads : WF_vars(RegEnds(r))
    /\ \A w \in Waiters : WF_vars(RegSent(w) \/ RegUnsent(w)) /\ WF_vars(RegTimeout(w))
    /\ WF_vars(RegDone)
    /\ \A w \in Routers : WF_vars(Routed(w))
    /\ WF_vars(DestroyReturns)
-----------------------------------------------------------------------------
(* The values the state takes. *)
TypeOK ==
    /\ creator \in {"none", "threads", "register", "wait", "done", "failed"}
    /\ started \in 0..Len(Order) /\ uncounted \in BOOLEAN
    /\ running \subseteq Threads
    /\ thread_count \in 0..(WORD - 1)
    /\ in_pc \in {"loop", "count", "end"}
    /\ exit_pc \in {"wait", "remove", "drain", "drained", "done"}
    /\ active \in BOOLEAN /\ registered \in BOOLEAN
    /\ signal \in [Waiters -> {"none", "stream", "closing", "posted", "lost", "done"}]
    /\ reg_stream \in {"none", "armed", "open", "done"}
    /\ ref_counter \in 0..(WORD - 1)
    /\ holders \subseteq Routers /\ borrowers \subseteq Routers
    /\ client \in {"none", "unlisted", "listed", "removed", "freed"}
    /\ counted \in BOOLEAN
    /\ session \in {"open", "closing", "gone"}

(***************************************************************************)
(* A client is destroyed only when all its threads have ended and nobody   *)
(* is left to count them (exit_loop: "wait for other threads to finish").  *)
(***************************************************************************)
NoThreadOutlives == client = "freed" => running = {} /\ ~uncounted

(***************************************************************************)
(* A client is destroyed only when no router holds it (remove_client:      *)
(* "free mem, no refs present").                                           *)
(***************************************************************************)
NoRouteOutlives == client = "freed" => holders \cup borrowers = {}

(***************************************************************************)
(* The session is deleted only when its client is gone for good: no thread *)
(* is left that could still call it.                                       *)
(***************************************************************************)
SessionOutlives ==
    session = "gone" => client \in {"none", "freed"} /\ running = {}

(***************************************************************************)
(* The handlers of a registration stream are not freed while the stream    *)
(* may still call them (reg_timeout_loop: "wait for signal").              *)
(***************************************************************************)
HandlersAreKept == reg_stream = "open" => "reg" \in running

(***************************************************************************)
(* A listed client that has become inactive is removed and destroyed.      *)
(***************************************************************************)
InactiveIsFreed == (client = "listed" /\ ~active) ~> client = "freed"

(***************************************************************************)
(* destroy_session returns ("wait for session threads to finish").         *)
(***************************************************************************)
DestroyEnds == (session = "closing") ~> (session = "gone")

(***************************************************************************)
(* A client that could not be registered is freed (connect: "free client   *)
(* on registration error").                                                *)
(***************************************************************************)
FailedIsFreed == (creator = "failed") ~> (client = "freed")

=============================================================================
