----------------------------- MODULE ConfigLock -----------------------------
(***************************************************************************)
(* Who may touch the configuration of the config daemon, and when.  The    *)
(* configuration tree is shared by the IN threads of the connections, the  *)
(* threads that end them, and the thread that times users out (configd.cpp,*)
(* events.cpp).  A request is an R14P stream: its first message locks      *)
(* mtx_config and does all its changes; the results are sent one by one,   *)
(* from the nodes found by the first message; the mutex is unlocked when   *)
(* the stream ends or times out.                                           *)
(*                                                                         *)
(* mtx_config is PTHREAD_MUTEX_ERRORCHECK and no caller looks at the       *)
(* result: lock() by its owner returns at once, unlock() by another thread *)
(* does nothing.                                                           *)
(***************************************************************************)
EXTENDS Naturals, FiniteSets

CONSTANTS
    Conns,        \* connections: the IN thread of each
    Inbound,      \* those that the daemon has accepted; it has opened the rest
    Streams,
    MaxResults,   \* bound: results of one request
    Sweeper,      \* the thread of timeout_loop
    None

ASSUME LockAssumption ==
    /\ Inbound \subseteq Conns
    /\ Sweeper \notin Conns /\ None \notin Conns /\ Sweeper # None
    /\ MaxResults \in Nat

Kinds == {"read", "write", "refused"}

VARIABLES
    owner,        \* the thread that owns mtx_config
    pc,           \* IN thread: in poll, waiting for the mutex, or on its way out
    conn,         \* the connection a stream is active on
    st, kind,
    out,          \* R14PPayload::out, the answer is not sent yet
    left,         \* results that are still to be sent
    valid,        \* the nodes they are read from are as the request found them
    alone         \* history: nothing else happened on its connection

streamVars == <<conn, st, kind, out, left, valid, alone>>
vars == <<owner, pc, streamVars>>

On(c) == {s \in Streams : conn[s] = c}

Init == /\ owner = None
        /\ pc = [c \in Conns |-> "poll"]
        /\ conn = [s \in Streams |-> None]
        /\ st = [s \in Streams |-> "none"]
        /\ kind = [s \in Streams |-> "read"]
        /\ out = [s \in Streams |-> FALSE]
        /\ left = [s \in Streams |-> 0]
        /\ valid = [s \in Streams |-> FALSE]
        /\ alone = [s \in Streams |-> FALSE]
-----------------------------------------------------------------------------
(* mtx_config. *)

CanLockPlain(t) == owner = None   \* mutant: a mutex that is not ERRORCHECK

\* EDEADLK: the owner is not kept waiting.
CanLock(t) == owner \in {None, t}

UnlockedByForce(t) == None   \* mutant: anyone may unlock

\* EPERM: only the owner unlocks.
UnlockedBy(t) == IF owner = t THEN None ELSE owner

\* What happens on a connection disturbs every request that is open on it.
Disturbed(c) == [s \in Streams |-> alone[s] /\ conn[s] # c]
-----------------------------------------------------------------------------
(* NewStream::run, in two steps: up to config->lock(), and the rest. *)

\* A first message without user or action is answered with END, not locked.
StreamNew(c, s, k) ==
    /\ pc[c] = "poll" /\ conn[s] = None
    /\ conn' = [conn EXCEPT ![s] = c]
    /\ kind' = [kind EXCEPT ![s] = k]
    /\ st' = [st EXCEPT ![s] = IF k = "refused" THEN "ended" ELSE "entering"]
    /\ out' = [out EXCEPT ![s] = k = "refused"]
    /\ pc' = [pc EXCEPT ![c] = IF k = "refused" THEN "poll" ELSE "lock"]
    /\ alone' = [Disturbed(c) EXCEPT ![s] = On(c) = {}]
    /\ UNCHANGED <<owner, left, valid>>

\* The handler: a read finds n results; a write changes or frees nodes (what it
\* answers is text of its own).
Enter(c, s, n) ==
    /\ pc[c] = "lock" /\ conn[s] = c /\ st[s] = "entering"
    /\ CanLock(c)
    /\ owner' = c
    /\ pc' = [pc EXCEPT ![c] = "poll"]
    /\ st' = [st EXCEPT ![s] = "open"]
    /\ out' = [out EXCEPT ![s] = TRUE]
    /\ left' = [left EXCEPT ![s] = n]
    /\ IF kind[s] = "read"
       THEN valid' = [valid EXCEPT ![s] = TRUE]
       ELSE n = 0 /\ valid' = [r \in Streams |-> FALSE]
    /\ UNCHANGED <<conn, kind, alone>>

\* The OUT thread.
Sent(s) ==
    /\ conn[s] # None /\ out[s]
    /\ out' = [out EXCEPT ![s] = FALSE]
    /\ UNCHANGED <<owner, pc, conn, st, kind, left, valid, alone>>

Next1Past(c, s) ==   \* mutant: the results are not counted
    /\ pc[c] = "poll" /\ conn[s] = c /\ st[s] = "open" /\ ~out[s]
    /\ left' = [left EXCEPT ![s] = IF kind[s] = "read" THEN left[s] + 1 ELSE 0]
    /\ out' = [out EXCEPT ![s] = TRUE]
    /\ UNCHANGED <<owner, pc, conn, kind, st, valid, alone>>

\* StreamNext::run: one more result, or END.
Next1(c, s) ==
    /\ pc[c] = "poll" /\ conn[s] = c /\ st[s] = "open" /\ ~out[s]
    /\ IF left[s] > 0
       THEN left' = [left EXCEPT ![s] = left[s] - 1] /\ UNCHANGED st
       ELSE st' = [st EXCEPT ![s] = "ended"] /\ UNCHANGED left
    /\ out' = [out EXCEPT ![s] = TRUE]
    /\ UNCHANGED <<owner, pc, conn, kind, valid, alone>>
-----------------------------------------------------------------------------
(* StreamDone::run: notify (ConfigNotify), unlock, free. *)

Cleared(D) ==
    /\ conn' = [s \in Streams |-> IF s \in D THEN None ELSE conn[s]]
    /\ st' = [s \in Streams |-> IF s \in D THEN "none" ELSE st[s]]
    /\ kind' = [s \in Streams |-> IF s \in D THEN "read" ELSE kind[s]]
    /\ out' = [s \in Streams |-> out[s] /\ s \notin D]
    /\ left' = [s \in Streams |-> IF s \in D THEN 0 ELSE left[s]]
    /\ valid' = [s \in Streams |-> valid[s] /\ s \notin D]

DoneKeeping(c, s) ==   \* mutant: the end of a stream does not unlock
    /\ pc[c] = "poll" /\ conn[s] = c /\ st[s] \in {"open", "ended"} /\ ~out[s]
    /\ Cleared({s})
    /\ alone' = [Disturbed(c) EXCEPT ![s] = FALSE]
    /\ UNCHANGED <<owner, pc>>

\* STREAM_END, or STREAM_TIMEOUT while the client is served.
Done(c, s) ==
    /\ pc[c] = "poll" /\ conn[s] = c /\ st[s] \in {"open", "ended"} /\ ~out[s]
    /\ Cleared({s})
    /\ owner' = UnlockedBy(c)
    /\ alone' = [Disturbed(c) EXCEPT ![s] = FALSE]
    /\ UNCHANGED pc

\* process_timeout(true): every stream that is not in the OUT queue.
Timeouts(c) == {s \in On(c) : ~out[s]}

ForcedOut(c) ==
    /\ Cleared(Timeouts(c))
    /\ owner' = IF Timeouts(c) = {} THEN owner ELSE UnlockedBy(c)
    /\ alone' = IF Timeouts(c) = {} THEN alone ELSE Disturbed(c)
-----------------------------------------------------------------------------
(* Other events of a connection. *)

\* ClientIdle::run: no message for poll_interval.
Idle(c) ==
    /\ pc[c] = "poll" /\ c \in Inbound /\ owner = c
    /\ owner' = UnlockedBy(c)
    /\ alone' = Disturbed(c)
    /\ UNCHANGED <<pc, conn, st, kind, out, left, valid>>

\* NtfyUsrStreamDone::run: a notification sent on c is answered with an error.
NotifyFailed(c) ==
    /\ pc[c] = "poll"
    /\ pc' = [pc EXCEPT ![c] = "nlock"]
    /\ UNCHANGED <<owner, streamVars>>

\* It locks, removes the user and unlocks, for the requests of c as well.
Unreg(c) ==
    /\ pc[c] = "nlock" /\ CanLock(c)
    /\ pc' = [pc EXCEPT ![c] = "poll"]
    /\ owner' = None
    /\ alone' = Disturbed(c)
    /\ UNCHANGED <<conn, st, kind, out, left, valid>>

\* The connection fails: an inbound client ends, an outbound one reconnects.
Fail(c) ==
    /\ pc[c] = "poll"
    /\ pc' = [pc EXCEPT ![c] = IF c \in Inbound THEN "closing" ELSE "poll"]
    /\ ForcedOut(c)

\* in_loop, after the loop: R14P_ET_CLIENT_TERMINATING of the client, which
\* nothing handles (ClientDown is the session's), and the streams again.
Close(c) ==
    /\ pc[c] = "closing"
    /\ pc' = [pc EXCEPT ![c] = "exit"]
    /\ ForcedOut(c)

\* exit_loop takes the streams out of the queue and times them out, but its
\* unlock() is another thread's.
ExitPass(c) ==
    /\ pc[c] = "exit" /\ On(c) # {}
    /\ Cleared(On(c))
    /\ alone' = Disturbed(c)
    /\ UNCHANGED <<owner, pc>>

\* No other thread is left, it may not have come to that: the streams go back
\* to the pool with the client.
Remove(c) ==
    /\ pc[c] = "exit"
    /\ pc' = [pc EXCEPT ![c] = "gone"]
    /\ Cleared(On(c))
    /\ alone' = Disturbed(c)
    /\ UNCHANGED owner

\* A new connection with a thread of its own: c stands for it when the thread
\* before it left nothing behind.
Accept(c) ==
    /\ pc[c] = "gone" /\ owner # c
    /\ pc' = [pc EXCEPT ![c] = "poll"]
    /\ UNCHANGED <<owner, streamVars>>
-----------------------------------------------------------------------------
(* timeout_loop: discards the changes of a user that is idle. *)

SweepLock ==
    /\ owner = None
    /\ owner' = Sweeper
    /\ valid' = [s \in Streams |-> FALSE]
    /\ UNCHANGED <<pc, conn, st, kind, out, left, alone>>

SweepUnlock ==
    /\ owner = Sweeper
    /\ owner' = None
    /\ UNCHANGED <<pc, streamVars>>
-----------------------------------------------------------------------------
Results == 0..MaxResults

Handle(c, s) == \E n \in Results : Enter(c, s, n)

Request(c, s) ==
    \/ \E k \in Kinds : StreamNew(c, s, k)
    \/ Handle(c, s)
    \/ Next1(c, s)
    \/ Done(c, s)

Connection(c) ==
    \/ Idle(c)
    \/ NotifyFailed(c)
    \/ Unreg(c)
    \/ Fail(c) \/ Close(c) \/ ExitPass(c)
    \/ Remove(c)
    \/ Accept(c)

Next == \/ \E c \in Conns : Connection(c) \/ \E s \in Streams : Request(c, s)
        \/ \E s \in Streams : Sent(s)
        \/ SweepLock \/ SweepUnlock

Spec == Init /\ [][Next]_vars

\* Assumed: OUT sends, a stream that is not answered times out, the sweep and
\* the handlers are finite, and a thread that waits for a mutex which is free
\* again and again gets it.
Fairness ==
    /\ \A s \in Streams : WF_vars(Sent(s))
    /\ \A c \in Conns : /\ \A s \in Streams : SF_vars(Done(c, s))
                        /\ SF_vars(\E s \in Streams : Handle(c, s))
                        /\ SF_vars(Unreg(c))
                        /\ WF_vars(Close(c))
    /\ WF_vars(SweepUnlock)

FairSpec == Spec /\ Fairness
-----------------------------------------------------------------------------
TypeOK ==
    /\ owner \in Conns \cup {Sweeper, None}
    /\ pc \in [Conns -> {"poll", "lock", "nlock", "closing", "exit", "gone"}]
    /\ conn \in [Streams -> Conns \cup {None}]
    /\ st \in [Streams -> {"none", "entering", "open", "ended"}]
    /\ kind \in [Streams -> Kinds]
    /\ out \in [Streams -> BOOLEAN]
    /\ left \in [Streams -> Results]
    /\ valid \in [Streams -> BOOLEAN]
    /\ alone \in [Streams -> BOOLEAN]

(***************************************************************************)
(* A living IN thread owns the mutex only on behalf of a request that is   *)
(* still open on its connection: whichever of NewStream, StreamDone,       *)
(* ClientIdle and NtfyUsrStreamDone ran last, in whatever order, no mutex  *)
(* is left behind on a connection without requests (events.cpp 125, 250).  *)
(***************************************************************************)
LockIsHeldForAStream ==
    \A c \in Conns :
        owner = c /\ pc[c] \notin {"exit", "gone"}
            => \E s \in On(c) : st[s] \in {"open", "ended"} /\ kind[s] # "refused"

(***************************************************************************)
(* A request on whose connection nothing else happened since it came has   *)
(* the mutex from its first message to its end, and reads its results from *)
(* nodes no one has touched.  (With a second request, an idle poll or a    *)
(* failed notification on the same connection it may have neither.)        *)
(***************************************************************************)
AloneIsExclusive ==
    \A s \in Streams :
        alone[s] /\ st[s] = "open" => owner = conn[s] /\ (kind[s] = "read" => valid[s])

(***************************************************************************)
(* A request that waits for the configuration gets it, unless a thread     *)
(* that has ended owns the mutex.                                          *)
(***************************************************************************)
OwnerIsDead == \E c \in Conns : owner = c /\ pc[c] \in {"exit", "gone"}

Served == \A c \in Conns : pc[c] = "lock" ~> pc[c] # "lock" \/ OwnerIsDead

(***************************************************************************)
(* events.cpp 45-47, of ClientDown::run: "unlock to avoid deadlock, could  *)
(* happen if client stream was interrupted and not properly closed".  No   *)
(* client that is gone owns the mutex.                                     *)
(***************************************************************************)
DeadThreadsOwnNothing == \A c \in Conns : pc[c] = "gone" => owner # c
=============================================================================
