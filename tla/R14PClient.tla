----------------------------- MODULE R14PClient -----------------------------
(***************************************************************************)
(* One R14PClient of r14p.cpp: the ownership of its stream objects.        *)
(*                                                                         *)
(* A client has a fixed pool of streams, each with one payload of its own, *)
(* a list of active streams, and two queues of payloads to send: out_queue *)
(* (any thread pushes) and internal_out_queue (its IN thread pushes).  The *)
(* threads that share them are                                             *)
(*   IN       runs the state machine: timeouts, reconnection, messages;    *)
(*   OUT      sends what is queued, then frees or keeps the stream;        *)
(*   TIMEOUT  asks IN for a timeout check once in a while;                 *)
(*   exit     waits for the others and destroys the client;                *)
(*   App      the daemon's threads: open streams, send, disconnect.        *)
(*                                                                         *)
(* A stream stands for itself and for its payload.  Boolean fields of the  *)
(* two classes are sets of streams.  What the peer sends is an input: any  *)
(* message on a stream it has been sent a packet of, with or without the   *)
(* expected sequence number, or on a uuid the list does not hold.  What a  *)
(* message says and where it is routed is left out.                        *)
(***************************************************************************)
EXTENDS Naturals, FiniteSets

CONSTANTS
    Streams,         \* the objects of stream_pool, max_concurrent_streams of them
    Nil,             \* no stream
    InternalRoom,    \* payloads internal_out_queue takes without fail
    Outbound,        \* direction = R14P_CD_OUTBOUND
    AppCalls,        \* what the daemon calls: "stream", "datagram", "datagram_reply"
    Loopback,        \* a router may send our own packets back to us
    Overtake,        \* a reply may be handled before OUT is done with the packet
    PromptSend,      \* no timeout check falls between new_stream and send
    PromptQueue      \* no timeout check falls while a listed stream is queued

ASSUME ClientAssumption ==
    /\ Nil \notin Streams
    /\ IsFiniteSet(Streams)
    /\ InternalRoom \in Nat
    /\ {Outbound, Loopback, Overtake, PromptSend, PromptQueue} \subseteq BOOLEAN
    /\ AppCalls \subseteq {"stream", "datagram", "datagram_reply"}

VARIABLES
    (* the pool, the list, the queues *)
    free,            \* the streams in stream_pool's free list
    streams,         \* the list of active streams
    out_queue, internal_out_queue,
    faults,          \* what was done twice: "free", "push"
    (* fields of the streams and of their payloads *)
    linked_stream, last_linked_side,
    local,           \* initiator = R14P_SIT_LOCAL
    timeout,         \* the timeout flag
    expired,         \* the timestamp is stream_timeout old
    free_on_send, out,
    (* flags of the client *)
    active, stream_timeout_check, reconnect_queued,
    (* the threads *)
    in_pc, out_pc,   \* where IN and OUT are
    held,            \* the stream OUT has sent and not yet let go
    exit_pc, timer_alive,
    (* the world around *)
    unsent,          \* streams the daemon got from new_stream and has not sent
    wire,            \* streams whose last packet the peer may answer
    app              \* what the daemon knows of each stream

poolVars   == <<free, streams, faults>>
queueVars  == <<out_queue, internal_out_queue>>
linkVars   == <<linked_stream, last_linked_side, local>>
timeVars   == <<timeout, expired>>
sendVars   == <<free_on_send, out>>
flagVars   == <<active, stream_timeout_check, reconnect_queued>>
threadVars == <<in_pc, out_pc, held, exit_pc, timer_alive>>
worldVars  == <<unsent, wire, app>>

vars == <<poolVars, queueVars, linkVars, timeVars, sendVars, flagVars, threadVars, worldVars>>

Init == /\ free = Streams /\ streams = {} /\ faults = {}
        /\ out_queue = {} /\ internal_out_queue = {}
        /\ linked_stream = [s \in Streams |-> Nil]
        /\ last_linked_side = [s \in Streams |-> Nil]
        /\ local = Streams
        /\ timeout = {} /\ expired = {}
        /\ free_on_send = {} /\ out = {}
        /\ active = TRUE /\ stream_timeout_check = FALSE /\ reconnect_queued = FALSE
        /\ in_pc = "run" /\ out_pc = "loop" /\ held = Nil
        /\ exit_pc = "none" /\ timer_alive = TRUE
        /\ unsent = {} /\ wire = {}
        /\ app = [s \in Streams |-> "none"]
-----------------------------------------------------------------------------
(* Pool, queues, callbacks. *)

SidesOrNothing(S) == S \cup {linked_stream[s] : s \in S}   \* mutant: no NULL check

\* Streams with the other ends of those that are linked.
Sides(S) == S \cup ({linked_stream[s] : s \in S} \ {Nil})

\* deallocate_constructed puts S back.  It looks for room in the free list,
\* not for the object: a second return is refused only when the list is full.
Deallocate(S) ==
    /\ free' = free \cup S
    /\ faults' = IF S \cap free # {} /\ free # Streams THEN faults \cup {"free"} ELSE faults

Queued == out_queue \cup internal_out_queue

\* What OUT holds or will hold.
Sending == Queued \cup ({held} \ {Nil})

NotePush(s) == faults' = IF s \in Queued THEN faults \cup {"push"} ELSE faults

\* out_queue has a place for every stream of the pool.
PushOut(s) ==
    /\ out_queue' = out_queue \cup {s}
    /\ UNCHANGED internal_out_queue

\* The result of a refused push is not looked at.
PushInternal(s) ==
    /\ \/ internal_out_queue' = internal_out_queue \cup {s}
       \/ /\ Cardinality(internal_out_queue) >= InternalRoom
          /\ UNCHANGED internal_out_queue
    /\ UNCHANGED out_queue

\* A stream handed to the daemon is open until its END or TIMEOUT event.
Told(S) == [s \in Streams |-> IF s \in S /\ app[s] = "open" THEN "told"
                               ELSE IF s \in S /\ app[s] = "told" THEN "told twice" ELSE app[s]]

\* A packet of a stream that goes on: it is kept, and marked as in OUT's hands.
SendUnmarked(s) ==   \* mutant
    /\ free_on_send' = free_on_send \ {s}
    /\ UNCHANGED out
    /\ NotePush(s)

SendAndKeep(s) ==
    /\ free_on_send' = free_on_send \ {s}
    /\ out' = out \cup {s}
    /\ NotePush(s)

AllocateStillTimedOut(s) ==   \* mutant: reset forgets the timeout flag
    /\ s \in free
    /\ free' = free \ {s}
    /\ linked_stream' = [linked_stream EXCEPT ![s] = Nil]
    /\ expired' = expired \ {s}
    /\ wire' = wire \ {s}
    /\ UNCHANGED timeout

AllocateStillLinked(s) ==   \* mutant: reset forgets the link
    /\ s \in free
    /\ free' = free \ {s}
    /\ timeout' = timeout \ {s}
    /\ expired' = expired \ {s}
    /\ wire' = wire \ {s}
    /\ UNCHANGED linked_stream

\* allocate_constructed, and R14PStream::reset of a stream that will be listed.
AllocateAndReset(s) ==
    /\ s \in free
    /\ free' = free \ {s}
    /\ linked_stream' = [linked_stream EXCEPT ![s] = Nil]
    /\ timeout' = timeout \ {s}
    /\ expired' = expired \ {s}
    /\ wire' = wire \ {s}

\* allocate_constructed of a stream that only carries one packet.
AllocateForPacket(s) ==
    /\ s \in free
    /\ free' = free \ {s}
    /\ linked_stream' = [linked_stream EXCEPT ![s] = Nil]
    /\ free_on_send' = free_on_send \cup {s}
    /\ wire' = wire \ {s}
    /\ app' = [app EXCEPT ![s] = "none"]
    /\ NotePush(s)
    /\ UNCHANGED <<streams, last_linked_side, local, timeVars, out, unsent>>
-----------------------------------------------------------------------------
(* process_timeout: events for the expired streams, then their removal. *)

LateOrQueued(override) == {s \in streams : override \/ s \in expired}   \* mutant

\* A stream "still in out_queue" is skipped.
Late(override) == {s \in streams \ out : override \/ s \in expired}

\* First pass, over a copy of the list.
MarkTimeouts(override) ==
    /\ timeout' = timeout \cup Sides(Late(override))
    /\ app' = Told(Sides(Late(override)))
    /\ stream_timeout_check' = FALSE
    /\ PromptSend => unsent = {}
    /\ PromptQueue => Sides(streams) \cap Sending = {}
    /\ UNCHANGED <<poolVars, queueVars, linkVars, expired, sendVars, unsent, wire>>

SweepAndKeep ==   \* mutant: the list's iterator is not erased
    /\ Deallocate(Sides(streams \cap timeout))
    /\ UNCHANGED <<streams, queueVars, linkVars, timeVars, sendVars, unsent, app>>

\* Second pass, under the list's mutex.
SweepTimeouts ==
    LET gone == streams \cap timeout
    IN  /\ streams' = streams \ gone
        /\ Deallocate(Sides(gone))
        /\ UNCHANGED <<queueVars, linkVars, timeVars, sendVars, unsent, app>>

\* init_reconnect: an outbound client connects again, an inbound one ends.
\* Nobody answers on a lost connection.  Attempts that fail, each after a forced
\* timeout, are the same as a connection that is lost at once.
InitReconnect ==
    /\ wire' = {}
    /\ active' = (active /\ Outbound)
-----------------------------------------------------------------------------
(* The IN thread: in_loop and R14PStateMachine::run. *)

InGoto(from, to) ==
    /\ in_pc = from
    /\ in_pc' = to
    /\ UNCHANGED <<out_pc, held, timer_alive>>

InRun ==
    /\ active
    /\ \/ /\ stream_timeout_check
          /\ MarkTimeouts(FALSE)
          /\ InGoto("run", "sweep")
       \/ /\ ~stream_timeout_check
          /\ InGoto("run", "reconnect")
          /\ UNCHANGED <<poolVars, queueVars, linkVars, timeVars, sendVars, worldVars,
                         stream_timeout_check>>
    /\ UNCHANGED <<active, reconnect_queued, exit_pc>>

InSweep ==
    /\ InGoto("sweep", "reconnect")
    /\ SweepTimeouts
    /\ UNCHANGED <<flagVars, exit_pc, wire>>

\* OUT, or a notification, has asked for a new connection.
InReconnect ==
    /\ \/ /\ reconnect_queued
          /\ MarkTimeouts(TRUE)
          /\ InGoto("reconnect", "lost")
       \/ /\ ~reconnect_queued
          /\ InGoto("reconnect", "poll")
          /\ UNCHANGED <<poolVars, queueVars, linkVars, timeVars, sendVars, worldVars,
                         stream_timeout_check>>
    /\ UNCHANGED <<active, reconnect_queued, exit_pc>>

InLost ==
    /\ InGoto("lost", "poll")
    /\ SweepTimeouts
    /\ InitReconnect
    /\ reconnect_queued' = FALSE
    /\ UNCHANGED <<stream_timeout_check, exit_pc>>

\* poll() or the read fails.
InSocketError ==
    /\ InGoto("poll", "failed")
    /\ MarkTimeouts(TRUE)
    /\ UNCHANGED <<active, reconnect_queued, exit_pc>>

InFailed ==
    /\ InGoto("failed", "run")
    /\ SweepTimeouts
    /\ InitReconnect
    /\ UNCHANGED <<stream_timeout_check, reconnect_queued, exit_pc>>

\* A shutdown or communication lost notification.
InNotification ==
    /\ InGoto("poll", "run")
    /\ reconnect_queued' = TRUE
    /\ UNCHANGED <<poolVars, queueVars, linkVars, timeVars, sendVars, worldVars, active,
                   stream_timeout_check, exit_pc>>

\* Nothing arrived in poll_interval, or what arrived changes no stream: a packet
\* that does not decode, one for another client, a datagram without reply, or one
\* that finds the pool empty.
InIdle ==
    /\ InGoto("poll", "run")
    /\ UNCHANGED <<poolVars, queueVars, linkVars, timeVars, sendVars, worldVars, flagVars, exit_pc>>

InTerminate ==
    /\ ~active
    /\ MarkTimeouts(TRUE)
    /\ InGoto("run", "terminate")
    /\ UNCHANGED <<active, reconnect_queued, exit_pc>>

InExit ==
    /\ InGoto("terminate", "done")
    /\ SweepTimeouts
    /\ exit_pc' = "wait"
    /\ UNCHANGED <<flagVars, wire>>
-----------------------------------------------------------------------------
(* Messages, handled by IN. *)

InMessage == InGoto("poll", "run") /\ UNCHANGED <<flagVars, exit_pc>>

\* The peer may answer on the conversation of s: it was sent a packet of it.
Answerable(s) ==
    /\ s \in streams
    /\ Sides({s}) \cap wire # {}
    /\ Overtake \/ held \notin Sides({s})

Answered(s) == wire' = wire \ Sides({s})

(***************************************************************************)
(* A packet answered by one of our own and then forgotten: a datagram, a   *)
(* heartbeat, an unsupported version, no route, a START out of sequence,   *)
(* any other message on a uuid the list does not hold.                     *)
(***************************************************************************)
InReply(s) ==
    /\ InMessage
    /\ AllocateForPacket(s)
    /\ PushInternal(s)

\* START on a new uuid.
InStart(s) ==
    /\ InMessage
    /\ AllocateAndReset(s)
    /\ streams' = streams \cup {s}
    /\ local' = local \ {s}
    /\ SendAndKeep(s)
    /\ app' = [app EXCEPT ![s] = "open"]
    /\ PushInternal(s)
    /\ UNCHANGED <<last_linked_side, unsent>>

\* START on the uuid of a stream we opened ourselves: s, its other end, is linked
\* to it.  Any other START on a known uuid is dropped.
InLoopbackStart(t, s) ==
    /\ Loopback
    /\ InMessage
    /\ Answerable(t)
    /\ t \in local
    /\ linked_stream[t] = Nil
    /\ s \in free
    /\ free' = free \ {s}
    /\ linked_stream' = [linked_stream EXCEPT ![t] = s, ![s] = Nil]
    /\ last_linked_side' = [last_linked_side EXCEPT ![t] = s]
    /\ local' = local \ {s}
    /\ timeout' = timeout \ {s}
    /\ expired' = expired \ {s}
    /\ SendAndKeep(s)
    /\ app' = [app EXCEPT ![s] = "open"]
    /\ wire' = wire \ {s, t}
    /\ PushInternal(s)
    /\ UNCHANGED <<streams, unsent>>

\* The side of t's conversation whose turn it is.
Turn(t) == IF linked_stream[t] # Nil /\ last_linked_side[t] = t THEN linked_stream[t] ELSE t

TakeTurn(t) ==
    last_linked_side' = IF linked_stream[t] = Nil THEN last_linked_side
                                                  ELSE [last_linked_side EXCEPT ![t] = Turn(t)]

\* process_sf_continue with the expected number: the stream goes on.
InContinue(t) ==
    LET s == Turn(t)
    IN  /\ InMessage
        /\ Answerable(t)
        /\ Answered(t)
        /\ TakeTurn(t)
        /\ expired' = expired \ {s}
        /\ SendAndKeep(s)
        /\ PushInternal(s)
        /\ UNCHANGED <<free, streams, linked_stream, local, timeout, unsent, app>>

\* process_sf_end, and process_sf_continue out of sequence: the last packet of
\* the stream.  Only an unlinked stream leaves the list with it.
InEnd(t) ==
    LET s == Turn(t)
        remove_stream == linked_stream[t] = Nil
    IN  /\ InMessage
        /\ Answerable(t)
        /\ Answered(t)
        /\ TakeTurn(t)
        /\ expired' \in {expired, expired \ {s}}
        /\ free_on_send' = IF remove_stream THEN free_on_send \cup {s} ELSE free_on_send \ {s}
        /\ out' = IF remove_stream THEN out ELSE out \cup {s}
        /\ streams' = IF remove_stream THEN streams \ {s} ELSE streams
        /\ app' = Told({s})
        /\ NotePush(s)
        /\ PushInternal(s)
        /\ UNCHANGED <<free, linked_stream, local, timeout, unsent>>

\* CONTINUE_WAIT: the peer goes on later.
InContinueWait(t) ==
    /\ InMessage
    /\ Answerable(t)
    /\ expired' = expired \ {t}
    /\ UNCHANGED <<poolVars, queueVars, linkVars, timeout, sendVars, worldVars>>

InContinueWaitBad(t) ==
    /\ InMessage
    /\ Answerable(t)
    /\ Answered(t)
    /\ linked_stream' = [linked_stream EXCEPT ![t] = Nil]
    /\ free_on_send' = free_on_send \cup {t}
    /\ streams' = streams \ {t}
    /\ app' = Told({t})
    /\ NotePush(t)
    /\ PushInternal(t)
    /\ UNCHANGED <<free, last_linked_side, local, timeVars, out, unsent>>

\* STREAM_COMPLETE, the answer to END, to a datagram and to any error; the
\* answer to a heartbeat ends its stream in the same way.
InStreamComplete(t) ==
    /\ InMessage
    /\ Answerable(t)
    /\ Answered(t)
    /\ TakeTurn(t)
    /\ expired' = expired \ {Turn(t)}
    /\ app' = Told({Turn(t)})
    /\ streams' = streams \ Sides({t})
    /\ Deallocate(Sides({t}))
    /\ UNCHANGED <<queueVars, linked_stream, local, timeout, sendVars, unsent>>

InStream(t) == \/ InContinue(t) \/ InEnd(t) \/ InContinueWait(t) \/ InContinueWaitBad(t)
               \/ InStreamComplete(t)
               \/ \E s \in Streams : InLoopbackStart(t, s)
-----------------------------------------------------------------------------
(* The OUT thread: out_loop and out_process. *)

\* A payload is popped and sent; its callback runs; the peer may answer.
OutSend(s) ==
    /\ active
    /\ out_pc = "loop"
    /\ \/ /\ s \in internal_out_queue
          /\ internal_out_queue' = internal_out_queue \ {s}
          /\ UNCHANGED out_queue
       \/ /\ s \in out_queue
          /\ out_queue' = out_queue \ {s}
          /\ UNCHANGED internal_out_queue
    /\ \/ wire' = wire \cup {s} /\ UNCHANGED reconnect_queued
       \/ reconnect_queued' = TRUE /\ UNCHANGED wire
    /\ held' = s
    /\ out_pc' = "sent"
    /\ UNCHANGED <<poolVars, linkVars, timeVars, sendVars, active, stream_timeout_check,
                   in_pc, exit_pc, timer_alive, unsent, app>>

LetGoMarked(s) ==   \* mutant: out is never reset
    /\ IF s \in free_on_send THEN Deallocate({s}) ELSE UNCHANGED <<free, faults>>
    /\ UNCHANGED out

\* A payload leaves OUT: its stream returns to the pool or goes on.
LetGo(s) ==
    \/ s \in free_on_send /\ Deallocate({s}) /\ UNCHANGED out
    \/ s \notin free_on_send /\ out' = out \ {s} /\ UNCHANGED <<free, faults>>

OutRelease ==
    /\ out_pc = "sent"
    /\ LetGo(held)
    /\ held' = Nil
    /\ out_pc' = "loop"
    /\ UNCHANGED <<streams, queueVars, linkVars, timeVars, free_on_send, flagVars, in_pc, exit_pc,
                   timer_alive, worldVars>>

OutExit ==
    /\ ~active
    /\ out_pc = "loop"
    /\ out_pc' = "done"
    /\ UNCHANGED <<poolVars, queueVars, linkVars, timeVars, sendVars, flagVars, in_pc, held, exit_pc,
                   timer_alive, worldVars>>
-----------------------------------------------------------------------------
(* The TIMEOUT thread, and time. *)

TimerTick ==
    /\ active /\ timer_alive
    /\ stream_timeout_check' = TRUE
    /\ UNCHANGED <<poolVars, queueVars, linkVars, timeVars, sendVars, active, reconnect_queued,
                   threadVars, worldVars>>

TimerExit ==
    /\ ~active /\ timer_alive
    /\ timer_alive' = FALSE
    /\ UNCHANGED <<poolVars, queueVars, linkVars, timeVars, sendVars, flagVars, in_pc, out_pc, held,
                   exit_pc, worldVars>>

\* stream_timeout seconds have passed since the last packet of s.
Expire(s) ==
    /\ s \in streams
    /\ PromptSend => s \notin unsent
    /\ expired' = expired \cup {s}
    /\ UNCHANGED <<poolVars, queueVars, linkVars, timeout, sendVars, flagVars, threadVars, worldVars>>
-----------------------------------------------------------------------------
(* The exit thread: exit_loop, remove_client and the destructor. *)

ExitGoto(from, to) ==
    /\ exit_pc = from
    /\ exit_pc' = to
    /\ UNCHANGED <<in_pc, out_pc, held, timer_alive>>

\* While another thread runs, streams are timed out even if still queued.
ExitTimeout ==
    /\ ExitGoto("wait", "sweep")
    /\ out_pc # "done" \/ timer_alive
    /\ out' = out \ streams
    /\ timeout' = timeout \cup Sides(streams)
    /\ app' = Told(Sides(streams))
    /\ stream_timeout_check' = FALSE
    /\ UNCHANGED <<poolVars, queueVars, linkVars, expired, free_on_send, active, reconnect_queued,
                   unsent, wire>>

ExitSweep ==
    /\ ExitGoto("sweep", "wait")
    /\ SweepTimeouts
    /\ UNCHANGED <<flagVars, wire>>

LeftoverOfApp == out_queue \cap free_on_send   \* mutant: one queue forgotten

\* What the destruction finds in the queues and frees.
Leftover == Queued \cap free_on_send

\* The last thread: remove_client empties the queues, freeing what was to be
\* freed on sending, and the destructor frees the streams still listed.
ExitDestroy ==
    /\ ExitGoto("wait", "gone")
    /\ out_pc = "done" /\ ~timer_alive
    /\ out_queue' = {} /\ internal_out_queue' = {}
    /\ streams' = {}
    /\ Deallocate(Sides(Leftover) \cup streams)
    /\ UNCHANGED <<linkVars, timeVars, sendVars, flagVars, worldVars>>
-----------------------------------------------------------------------------
(* The daemon's threads.  A daemon told that the client ends calls no more. *)

AppNewStream(s) ==
    /\ "stream" \in AppCalls /\ active
    /\ AllocateAndReset(s)
    /\ streams' = streams \cup {s}
    /\ local' = local \cup {s}
    /\ unsent' = unsent \cup {s}
    /\ app' = [app EXCEPT ![s] = "open"]
    /\ UNCHANGED <<faults, queueVars, last_linked_side, sendVars, flagVars, threadVars>>

AppSend(s) ==
    /\ s \in unsent
    /\ unsent' = unsent \ {s}
    /\ SendAndKeep(s)
    /\ PushOut(s)
    /\ UNCHANGED <<free, streams, linkVars, timeVars, flagVars, threadVars, wire, app>>

\* send_datagram without a reply callback; and a packet routed here by another
\* client's IN thread.
AppDatagram(s) ==
    /\ "datagram" \in AppCalls /\ active
    /\ AllocateForPacket(s)
    /\ PushOut(s)
    /\ UNCHANGED <<flagVars, threadVars>>

\* send_datagram with a reply callback: the payload is queued, out is not set.
AppDatagramReply(s) ==
    /\ "datagram_reply" \in AppCalls /\ active
    /\ AllocateAndReset(s)
    /\ streams' = streams \cup {s}
    /\ local' = local \cup {s}
    /\ free_on_send' = free_on_send \ {s}
    /\ app' = [app EXCEPT ![s] = "open"]
    /\ NotePush(s)
    /\ PushOut(s)
    /\ UNCHANGED <<last_linked_side, out, flagVars, threadVars, unsent>>

AppDisconnect ==
    /\ active
    /\ active' = FALSE
    /\ UNCHANGED <<poolVars, queueVars, linkVars, timeVars, sendVars, stream_timeout_check,
                   reconnect_queued, threadVars, worldVars>>
-----------------------------------------------------------------------------
InControl == \/ InRun \/ InSweep \/ InReconnect \/ InLost \/ InSocketError \/ InFailed
             \/ InNotification \/ InIdle \/ InTerminate \/ InExit

OutStep == (\E s \in Streams : OutSend(s)) \/ OutRelease \/ OutExit

ExitStep == ExitTimeout \/ ExitSweep \/ ExitDestroy

AppStep == \/ \E s \in Streams : \/ AppNewStream(s) \/ AppSend(s)
                                 \/ AppDatagram(s) \/ AppDatagramReply(s)
           \/ AppDisconnect

InThread == InControl \/ \E s \in Streams : InReply(s) \/ InStart(s) \/ InStream(s)

Next == \/ InThread
        \/ OutStep
        \/ TimerTick \/ TimerExit
        \/ \E s \in Streams : Expire(s)
        \/ ExitStep
        \/ AppStep
        \/ exit_pc = "gone" /\ UNCHANGED vars

Spec == Init /\ [][Next]_vars

(***************************************************************************)
(* Every thread keeps running; out_loop polls both queues in turn and they *)
(* are first in first out, so each queued payload is sent in the end (SF); *)
(* the TIMEOUT thread wakes every second; a daemon sends what it opened.   *)
(* Nothing is assumed of the peer, of errors, or of the daemon opening     *)
(* streams.                                                                *)
(***************************************************************************)
FairSpec ==
    /\ Spec
    /\ WF_vars(InThread)
    /\ WF_vars(OutRelease \/ OutExit)
    /\ \A s \in Streams : SF_vars(OutSend(s)) /\ WF_vars(AppSend(s))
    /\ WF_vars(TimerTick \/ TimerExit)
    /\ WF_vars(ExitStep)
-----------------------------------------------------------------------------
SetsOK ==
    /\ free \subseteq Streams /\ streams \subseteq Streams
    /\ out_queue \subseteq Streams /\ internal_out_queue \subseteq Streams
    /\ local \subseteq Streams /\ timeout \subseteq Streams /\ expired \subseteq Streams
    /\ free_on_send \subseteq Streams /\ out \subseteq Streams
    /\ unsent \subseteq Streams /\ wire \subseteq Streams
    /\ faults \subseteq {"free", "push"}

FieldsOK ==
    /\ linked_stream \in [Streams -> Streams \cup {Nil}]
    /\ last_linked_side \in [Streams -> Streams \cup {Nil}]
    /\ app \in [Streams -> {"none", "open", "told", "told twice"}]

ThreadsOK ==
    /\ active \in BOOLEAN /\ stream_timeout_check \in BOOLEAN
    /\ reconnect_queued \in BOOLEAN /\ timer_alive \in BOOLEAN
    /\ in_pc \in {"run", "sweep", "reconnect", "lost", "poll", "failed", "terminate", "done"}
    /\ out_pc \in {"loop", "sent", "done"}
    /\ held \in Streams \cup {Nil}
    /\ exit_pc \in {"none", "wait", "sweep", "gone"}

(* The values the state of a client takes. *)
TypeOK == SetsOK /\ FieldsOK /\ ThreadsOK

(***************************************************************************)
(* No stream is returned to the pool twice and no payload is queued twice: *)
(* deallocate_constructed and the queues would take both.                  *)
(***************************************************************************)
NothingTwice == faults = {}

(***************************************************************************)
(* A stream has one owner.  In the free list it is neither active nor the  *)
(* other end of an active one and, until the exit thread takes over, its   *)
(* payload is nowhere in OUT's hands (out_process, process_timeout).       *)
(***************************************************************************)
OneOwner ==
    /\ exit_pc # "gone" => Sides(streams) \cap free = {}
    /\ exit_pc = "none" => Sending \cap free = {}

(***************************************************************************)
(* No stream is lost: out of the free list it is active, or OUT is still   *)
(* to free it; a destroyed client has every stream back (the destructor    *)
(* takes the buffers of the streams it finds in the pool).                 *)
(***************************************************************************)
NoLeak ==
    IF exit_pc = "gone" THEN free = Streams
    ELSE Streams \ free \subseteq Sides(streams) \cup (free_on_send \cap Sending)

(***************************************************************************)
(* The out flag of an active stream is set exactly while its payload is in *)
(* OUT's hands, whoever queued it, until the exit thread overrides it: it  *)
(* is all that process_timeout goes by.                                    *)
(***************************************************************************)
OutIsQueued ==
    exit_pc = "none" => (streams \ unsent) \cap out = streams \cap Sending

(***************************************************************************)
(* A stream the daemon opened or was given is never recycled before the    *)
(* daemon had its END or TIMEOUT event, and it has only one of them, even  *)
(* when a timeout, an answer and a lost connection compete.                *)
(***************************************************************************)
ToldOnce ==
    /\ \A s \in Streams : app[s] # "told twice"
    /\ exit_pc # "gone" => \A s \in free : app[s] # "open"

(***************************************************************************)
(* A payload is returned to the pool only when it is in no queue (r14p.h,  *)
(* free_on_send: "payload set to be deallocated after successful           *)
(* transfer"; r14p.cpp, process_timeout: "skip if still in out_queue").    *)
(***************************************************************************)
FreedAfterTransfer == [][exit_pc = "none" => (free' \ free) \cap Queued = {}]_vars

(***************************************************************************)
(* When a client is destroyed every stream of the daemon had its event:    *)
(* in_loop, on its way out, is to "call stream timeout event handler on    *)
(* all active streams".                                                    *)
(***************************************************************************)
AllToldAtExit == exit_pc = "gone" => \A s \in Streams : app[s] # "open"

(***************************************************************************)
(* A stream the peer has abandoned does not stay open: once its time is    *)
(* over, the daemon gets an event, or the peer speaks again.               *)
(***************************************************************************)
ExpiredEnds ==
    \A s \in Streams : (s \in streams /\ s \in expired /\ app[s] = "open")
                            ~> ~(s \in streams /\ s \in expired /\ app[s] = "open")

=============================================================================
