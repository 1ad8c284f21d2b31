-------------------------- MODULE R14PClientProofs --------------------------
(***************************************************************************)
(* Proofs about R14PClient, for any number of streams.  First its types,   *)
(* however it is used; then a client used as the daemons of the repository *)
(* use it (see Calm), also one whose internal_out_queue has room (see      *)
(* Room); and last one whose packets may come back to it, and that may ask *)
(* for replies to datagrams, when nothing is timed out while it is queued  *)
(* (see Prompt).                                                           *)
(***************************************************************************)
EXTENDS R14PClient, FiniteSetTheorems, TLAPS
-----------------------------------------------------------------------------
(* Types, however the client is used. *)

TInv == TypeOK /\ (out_pc = "sent" <=> held # Nil)

\* The other ends of streams are streams.
LEMMA SidesTypes ==
    ASSUME FieldsOK, NEW S \in SUBSET Streams
    PROVE  Sides(S) \subseteq Streams
BY DEF FieldsOK, Sides

\* Events keep the type of what the daemon knows.
LEMMA ToldTypes ==
    ASSUME FieldsOK, NEW S
    PROVE  Told(S) \in [Streams -> {"none", "open", "told", "told twice"}]
BY DEF FieldsOK, Told

\* Queues hold streams.
LEMMA PushTypes ==
    ASSUME SetsOK, NEW s \in Streams, PushInternal(s) \/ PushOut(s)
    PROVE  out_queue' \subseteq Streams /\ internal_out_queue' \subseteq Streams
BY DEF SetsOK, PushInternal, PushOut

\* The pool takes streams.
LEMMA DeallocateTypes ==
    ASSUME SetsOK, NEW S \in SUBSET Streams, Deallocate(S)
    PROVE  free' \subseteq Streams /\ faults' \subseteq {"free", "push"}
BY DEF SetsOK, Deallocate

\* Faults are known ones.
LEMMA NotePushTypes ==
    ASSUME SetsOK, NEW s, NotePush(s)
    PROVE  faults' \subseteq {"free", "push"}
BY DEF SetsOK, NotePush

\* The flags of a packet that is kept.
LEMMA KeepTypes ==
    ASSUME SetsOK, NEW s \in Streams, SendAndKeep(s)
    PROVE  /\ faults' \subseteq {"free", "push"}
           /\ free_on_send' \subseteq Streams /\ out' \subseteq Streams
BY NotePushTypes DEF SetsOK, SendAndKeep

\* The first pass of process_timeout.
LEMMA MarkTypes ==
    ASSUME TInv, NEW o \in BOOLEAN, MarkTimeouts(o)
    PROVE  /\ SetsOK' /\ FieldsOK' /\ stream_timeout_check' \in BOOLEAN
<1>1. Late(o) \subseteq Streams
  BY DEF TInv, TypeOK, SetsOK, Late
<1>2. Sides(Late(o)) \subseteq Streams
  BY <1>1, SidesTypes DEF TInv, TypeOK
<1>3. SetsOK'
  BY <1>2 DEF TInv, TypeOK, SetsOK, MarkTimeouts, poolVars, queueVars, linkVars, sendVars
<1>4. FieldsOK'
  <2>1. app' = Told(Sides(Late(o))) /\ UNCHANGED <<linked_stream, last_linked_side>>
    BY DEF MarkTimeouts, linkVars
  <2>2. app' \in [Streams -> {"none", "open", "told", "told twice"}]
    BY <2>1, ToldTypes DEF TInv, TypeOK
  <2>3. QED  BY <2>1, <2>2 DEF TInv, TypeOK, FieldsOK
<1>5. QED  BY <1>3, <1>4 DEF MarkTimeouts

\* The second pass of process_timeout.
LEMMA SweepTypes ==
    ASSUME TInv, SweepTimeouts, wire' = {} \/ wire' = wire
    PROVE  SetsOK' /\ FieldsOK'
<1>1. Sides(streams \cap timeout) \subseteq Streams
  BY SidesTypes DEF TInv, TypeOK, SetsOK
<1>2. SetsOK'
  BY <1>1, DeallocateTypes
     DEF TInv, TypeOK, SetsOK, SweepTimeouts, queueVars, linkVars, timeVars, sendVars
<1>3. FieldsOK'
  BY DEF TInv, TypeOK, FieldsOK, SweepTimeouts, linkVars
<1>4. QED  BY <1>2, <1>3

\* IN's control.
LEMMA ControlTInv == ASSUME TInv, InControl PROVE TInv'
<1>a. SetsOK /\ FieldsOK /\ ThreadsOK /\ (out_pc = "sent" <=> held # Nil)
  BY DEF TInv, TypeOK
<1>1. CASE \E o \in BOOLEAN : MarkTimeouts(o) /\ (InRun \/ InReconnect \/ InSocketError \/ InTerminate)
  <2>1. SetsOK' /\ FieldsOK' /\ stream_timeout_check' \in BOOLEAN
    BY <1>1, MarkTypes
  <2>2. ThreadsOK' /\ (out_pc = "sent" <=> held # Nil)'
    BY <1>1, <2>1, <1>a
       DEF ThreadsOK, InRun, InReconnect, InSocketError, InTerminate, InGoto
  <2>3. QED  BY <2>1, <2>2 DEF TInv, TypeOK
<1>2. CASE SweepTimeouts /\ (InSweep \/ InLost \/ InFailed \/ InExit)
  <2>1. wire' = {} \/ wire' = wire
    BY <1>2 DEF InSweep, InLost, InFailed, InExit, InitReconnect
  <2>2. SetsOK' /\ FieldsOK'
    BY <1>2, <2>1, SweepTypes
  <2>3. ThreadsOK' /\ (out_pc = "sent" <=> held # Nil)'
    BY <1>2, <1>a DEF ThreadsOK, InSweep, InLost, InFailed, InExit, InGoto, InitReconnect, flagVars
  <2>4. QED  BY <2>2, <2>3 DEF TInv, TypeOK
<1>3. CASE UNCHANGED <<poolVars, queueVars, linkVars, timeVars, sendVars, worldVars, active,
                       stream_timeout_check>>
           /\ (InRun \/ InReconnect \/ InNotification \/ InIdle)
  <2>1. SetsOK'
    BY <1>3, <1>a DEF SetsOK, poolVars, queueVars, linkVars, timeVars, sendVars, worldVars
  <2>2. FieldsOK'
    BY <1>3, <1>a DEF FieldsOK, linkVars, worldVars
  <2>3. ThreadsOK' /\ (out_pc = "sent" <=> held # Nil)'
    BY <1>3, <1>a DEF ThreadsOK, InRun, InReconnect, InNotification, InIdle, InGoto, flagVars
  <2>4. QED  BY <2>1, <2>2, <2>3 DEF TInv, TypeOK
<1>4. QED
  BY <1>1, <1>2, <1>3
     DEF InControl, InRun, InSweep, InReconnect, InLost, InSocketError, InFailed, InNotification,
         InIdle, InTerminate, InExit, flagVars

\* A message changes no other thread.
LEMMA MessageTypes ==
    ASSUME TInv, InMessage
    PROVE  ThreadsOK' /\ (out_pc = "sent" <=> held # Nil)'
BY DEF TInv, TypeOK, ThreadsOK, InMessage, InGoto, flagVars

\* A stream leaves the pool.
LEMMA NewTInv ==
    ASSUME TInv, NEW s \in Streams,
           \/ InReply(s) \/ InStart(s) \/ AppNewStream(s) \/ AppDatagram(s)
           \/ AppDatagramReply(s)
    PROVE  TInv'
<1>a. SetsOK /\ FieldsOK /\ ThreadsOK /\ (out_pc = "sent" <=> held # Nil)
  BY DEF TInv, TypeOK
<1>1. ThreadsOK' /\ (out_pc = "sent" <=> held # Nil)'
  <2>1. CASE InReply(s) \/ InStart(s)
    BY <2>1, MessageTypes DEF InReply, InStart
  <2>2. CASE AppNewStream(s) \/ AppDatagram(s) \/ AppDatagramReply(s)
    BY <2>2, <1>a
       DEF ThreadsOK, AppNewStream, AppDatagram, AppDatagramReply, flagVars, threadVars
  <2>3. QED  BY <2>1, <2>2
<1>2. FieldsOK'
  BY <1>a DEF FieldsOK, InReply, InStart, AppNewStream, AppDatagram, AppDatagramReply,
              AllocateForPacket, AllocateAndReset
<1>3. out_queue' \subseteq Streams /\ internal_out_queue' \subseteq Streams
  BY <1>a, PushTypes
     DEF SetsOK, InReply, InStart, AppNewStream, AppDatagram, AppDatagramReply, queueVars
<1>4. /\ faults' \subseteq {"free", "push"}
      /\ free_on_send' \subseteq Streams /\ out' \subseteq Streams
  BY <1>a, KeepTypes, NotePushTypes
     DEF SetsOK, InReply, InStart, AppNewStream, AppDatagram, AppDatagramReply,
         AllocateForPacket, sendVars
<1>5. SetsOK'
  BY <1>a, <1>3, <1>4
     DEF SetsOK, InReply, InStart, AppNewStream, AppDatagram, AppDatagramReply,
         AllocateForPacket, AllocateAndReset, timeVars
<1>6. QED  BY <1>1, <1>2, <1>5 DEF TInv, TypeOK

\* A message on a stream.
LEMMA StreamTInv ==
    ASSUME TInv, NEW t \in Streams, InStream(t)
    PROVE  TInv'
<1>a. SetsOK /\ FieldsOK /\ ThreadsOK /\ (out_pc = "sent" <=> held # Nil)
  BY DEF TInv, TypeOK
<1>1. ThreadsOK' /\ (out_pc = "sent" <=> held # Nil)'
  BY MessageTypes
     DEF InStream, InContinue, InEnd, InContinueWait, InContinueWaitBad, InStreamComplete,
         InLoopbackStart
<1>2. Turn(t) \in Streams
  BY <1>a DEF FieldsOK, Turn
<1>3. TakeTurn(t) => last_linked_side' \in [Streams -> Streams \cup {Nil}]
  BY <1>2, <1>a DEF TakeTurn, FieldsOK
<1>4. Answered(t) => wire' \subseteq Streams
  BY <1>a DEF Answered, SetsOK
<1>5. Told({Turn(t)}) \in [Streams -> {"none", "open", "told", "told twice"}]
      /\ Told({t}) \in [Streams -> {"none", "open", "told", "told twice"}]
  BY <1>a, ToldTypes
<1>6. CASE InContinue(t)
  <2>1. FieldsOK'
    BY <1>6, <1>3, <1>a DEF InContinue, FieldsOK
  <2>2. SetsOK'
    BY <1>6, <1>2, <1>4, <1>a, KeepTypes, PushTypes DEF InContinue, SetsOK
  <2>3. QED  BY <1>1, <2>1, <2>2 DEF TInv, TypeOK
<1>7. CASE InEnd(t)
  <2>1. FieldsOK'
    BY <1>7, <1>3, <1>5, <1>a DEF InEnd, FieldsOK
  <2>2. SetsOK'
    BY <1>7, <1>2, <1>4, <1>a, NotePushTypes, PushTypes DEF InEnd, SetsOK
  <2>3. QED  BY <1>1, <2>1, <2>2 DEF TInv, TypeOK
<1>8. CASE InContinueWait(t)
  <2>1. FieldsOK'
    BY <1>8, <1>a DEF InContinueWait, FieldsOK, linkVars, worldVars
  <2>2. SetsOK'
    BY <1>8, <1>a DEF InContinueWait, SetsOK, poolVars, queueVars, linkVars, sendVars, worldVars
  <2>3. QED  BY <1>1, <2>1, <2>2 DEF TInv, TypeOK
<1>9. CASE InContinueWaitBad(t)
  <2>1. FieldsOK'
    BY <1>9, <1>5, <1>a DEF InContinueWaitBad, FieldsOK
  <2>2. SetsOK'
    BY <1>9, <1>4, <1>a, NotePushTypes, PushTypes DEF InContinueWaitBad, SetsOK, timeVars
  <2>3. QED  BY <1>1, <2>1, <2>2 DEF TInv, TypeOK
<1>10. CASE InStreamComplete(t)
  <2>1. FieldsOK'
    BY <1>10, <1>3, <1>5, <1>a DEF InStreamComplete, FieldsOK
  <2>2. Sides({t}) \subseteq Streams
    BY <1>a, SidesTypes
  <2>3. SetsOK'
    BY <1>10, <1>4, <2>2, <1>a, DeallocateTypes DEF InStreamComplete, SetsOK, queueVars, sendVars
  <2>4. QED  BY <1>1, <2>1, <2>3 DEF TInv, TypeOK
<1>11. ASSUME NEW s \in Streams, InLoopbackStart(t, s) PROVE TInv'
  <2>1. FieldsOK'
    BY <1>11, <1>a DEF InLoopbackStart, FieldsOK
  <2>2. SetsOK'
    BY <1>11, <1>a, KeepTypes, PushTypes DEF InLoopbackStart, SetsOK
  <2>3. QED  BY <1>1, <2>1, <2>2 DEF TInv, TypeOK
<1>12. QED  BY <1>6, <1>7, <1>8, <1>9, <1>10, <1>11 DEF InStream

\* OUT.
LEMMA OutTInv ==
    ASSUME TInv, OutStep
    PROVE  TInv'
<1>a. SetsOK /\ FieldsOK /\ ThreadsOK /\ (out_pc = "sent" <=> held # Nil)
  BY DEF TInv, TypeOK
<1>1. ASSUME NEW s \in Streams, OutSend(s) PROVE TInv'
  <2>1. FieldsOK'
    BY <1>1, <1>a DEF OutSend, FieldsOK, linkVars
  <2>2. SetsOK'
    BY <1>1, <1>a DEF OutSend, SetsOK, poolVars, linkVars, timeVars, sendVars
  <2>3. ThreadsOK' /\ (out_pc = "sent" <=> held # Nil)'
    BY <1>1, <1>a, ClientAssumption DEF OutSend, ThreadsOK
  <2>4. QED  BY <2>1, <2>2, <2>3 DEF TInv, TypeOK
<1>2. CASE OutRelease
  <2>1. held \in Streams
    BY <1>2, <1>a DEF OutRelease, ThreadsOK
  <2>2. FieldsOK'
    BY <1>2, <1>a DEF OutRelease, FieldsOK, linkVars, worldVars
  <2>3. free' \subseteq Streams /\ faults' \subseteq {"free", "push"} /\ out' \subseteq Streams
    BY <1>2, <1>a, <2>1, DeallocateTypes DEF OutRelease, LetGo, SetsOK
  <2>4. SetsOK'
    BY <1>2, <1>a, <2>3 DEF OutRelease, SetsOK, queueVars, linkVars, timeVars, worldVars
  <2>5. ThreadsOK' /\ (out_pc = "sent" <=> held # Nil)'
    BY <1>2, <1>a DEF OutRelease, ThreadsOK, flagVars
  <2>6. QED  BY <2>2, <2>4, <2>5 DEF TInv, TypeOK
<1>3. CASE OutExit
  <2>1. FieldsOK'
    BY <1>3, <1>a DEF OutExit, FieldsOK, linkVars, worldVars
  <2>2. SetsOK'
    BY <1>3, <1>a
       DEF OutExit, SetsOK, poolVars, queueVars, linkVars, timeVars, sendVars, worldVars
  <2>3. ThreadsOK' /\ (out_pc = "sent" <=> held # Nil)'
    BY <1>3, <1>a DEF OutExit, ThreadsOK, flagVars
  <2>4. QED  BY <2>1, <2>2, <2>3 DEF TInv, TypeOK
<1>4. QED  BY <1>1, <1>2, <1>3 DEF OutStep

\* The exit thread.
LEMMA ExitTInv ==
    ASSUME TInv, ExitStep
    PROVE  TInv'
<1>a. SetsOK /\ FieldsOK /\ ThreadsOK /\ (out_pc = "sent" <=> held # Nil)
  BY DEF TInv, TypeOK
<1>1. CASE ExitTimeout
  <2>1. Sides(streams) \subseteq Streams
    BY <1>a, SidesTypes DEF SetsOK
  <2>2. Told(Sides(streams)) \in [Streams -> {"none", "open", "told", "told twice"}]
    BY <1>a, ToldTypes
  <2>3. FieldsOK'
    BY <1>1, <2>2, <1>a DEF ExitTimeout, FieldsOK, linkVars
  <2>4. SetsOK'
    BY <1>1, <2>1, <1>a DEF ExitTimeout, SetsOK, poolVars, queueVars, linkVars
  <2>5. ThreadsOK' /\ (out_pc = "sent" <=> held # Nil)'
    BY <1>1, <1>a DEF ExitTimeout, ExitGoto, ThreadsOK
  <2>6. QED  BY <2>3, <2>4, <2>5 DEF TInv, TypeOK
<1>2. CASE ExitSweep
  <2>1. SetsOK' /\ FieldsOK'
    BY <1>2, SweepTypes DEF ExitSweep
  <2>2. ThreadsOK' /\ (out_pc = "sent" <=> held # Nil)'
    BY <1>2, <1>a DEF ExitSweep, ExitGoto, ThreadsOK, flagVars
  <2>3. QED  BY <2>1, <2>2 DEF TInv, TypeOK
<1>3. CASE ExitDestroy
  <2>1. Sides(Leftover) \cup streams \subseteq Streams
    BY <1>a, SidesTypes DEF SetsOK, Leftover
  <2>2. FieldsOK'
    BY <1>3, <1>a DEF ExitDestroy, FieldsOK, linkVars, worldVars
  <2>3. SetsOK'
    BY <1>3, <2>1, <1>a, DeallocateTypes
       DEF ExitDestroy, SetsOK, linkVars, timeVars, sendVars, worldVars
  <2>4. ThreadsOK' /\ (out_pc = "sent" <=> held # Nil)'
    BY <1>3, <1>a DEF ExitDestroy, ExitGoto, ThreadsOK, flagVars
  <2>5. QED  BY <2>2, <2>3, <2>4 DEF TInv, TypeOK
<1>4. QED  BY <1>1, <1>2, <1>3 DEF ExitStep

\* Time, the daemon's packets, and stuttering.
LEMMA QuietTInv ==
    ASSUME TInv,
           \/ TimerTick \/ TimerExit \/ AppDisconnect \/ UNCHANGED vars
           \/ \E s \in Streams : Expire(s) \/ AppSend(s)
    PROVE  TInv'
<1>a. SetsOK /\ FieldsOK /\ ThreadsOK /\ (out_pc = "sent" <=> held # Nil)
  BY DEF TInv, TypeOK
<1>1. CASE TimerTick \/ TimerExit \/ AppDisconnect \/ UNCHANGED vars
  <2>1. UNCHANGED <<poolVars, queueVars, linkVars, timeVars, sendVars, worldVars>>
    BY <1>1 DEF TimerTick, TimerExit, AppDisconnect, vars
  <2>2. SetsOK'
    BY <2>1, <1>a DEF SetsOK, poolVars, queueVars, linkVars, timeVars, sendVars, worldVars
  <2>3. FieldsOK'
    BY <2>1, <1>a DEF FieldsOK, linkVars, worldVars
  <2>4. ThreadsOK' /\ (out_pc = "sent" <=> held # Nil)'
    <3>1. CASE TimerTick
      BY <3>1, <1>a DEF TimerTick, ThreadsOK, threadVars
    <3>2. CASE TimerExit
      BY <3>2, <1>a DEF TimerExit, ThreadsOK, flagVars
    <3>3. CASE AppDisconnect
      BY <3>3, <1>a DEF AppDisconnect, ThreadsOK, flagVars, threadVars
    <3>4. CASE UNCHANGED vars
      BY <3>4, <1>a DEF vars, ThreadsOK, flagVars, threadVars
    <3>5. QED  BY <1>1, <3>1, <3>2, <3>3, <3>4
  <2>5. QED  BY <2>2, <2>3, <2>4 DEF TInv, TypeOK
<1>2. ASSUME NEW s \in Streams, Expire(s) PROVE TInv'
  <2>1. SetsOK'
    BY <1>2, <1>a DEF Expire, SetsOK, poolVars, queueVars, linkVars, sendVars, worldVars
  <2>2. FieldsOK'
    BY <1>2, <1>a DEF Expire, FieldsOK, linkVars, worldVars
  <2>3. ThreadsOK' /\ (out_pc = "sent" <=> held # Nil)'
    BY <1>2, <1>a DEF Expire, ThreadsOK, flagVars, threadVars
  <2>4. QED  BY <2>1, <2>2, <2>3 DEF TInv, TypeOK
<1>3. ASSUME NEW s \in Streams, AppSend(s) PROVE TInv'
  <2>1. SetsOK'
    BY <1>3, <1>a, KeepTypes, PushTypes DEF AppSend, SetsOK, linkVars, timeVars
  <2>2. FieldsOK'
    BY <1>3, <1>a DEF AppSend, FieldsOK, linkVars
  <2>3. ThreadsOK' /\ (out_pc = "sent" <=> held # Nil)'
    BY <1>3, <1>a DEF AppSend, ThreadsOK, flagVars, threadVars
  <2>4. QED  BY <2>1, <2>2, <2>3 DEF TInv, TypeOK
<1>4. QED  BY <1>1, <1>2, <1>3

LEMMA NextTInv == TInv /\ [Next]_vars => TInv'
BY ControlTInv, NewTInv, StreamTInv, OutTInv, ExitTInv, QuietTInv DEF Next, InThread, AppStep

LEMMA InitTInv == Init => TInv
<1> SUFFICES ASSUME Init PROVE TInv
  OBVIOUS
<1>1. TypeOK
  BY ClientAssumption DEF Init, TypeOK, SetsOK, FieldsOK, ThreadsOK
<1>2. QED  BY <1>1 DEF Init, TInv

(* The state of a client keeps its types, for any number of streams and     *)
(* whatever the daemon, the routers and the peer do: the callbacks free and *)
(* queue streams of its own pool only.                                      *)
THEOREM TypeCorrect == Spec => []TypeOK
<1>1. TInv => TypeOK
  BY DEF TInv
<1>2. QED  BY <1>1, InitTInv, NextTInv, PTL DEF Spec
-----------------------------------------------------------------------------
(***************************************************************************)
(* No packet of ours comes back to us, the answer to a packet is handled   *)
(* after OUT is done with it, no timeout check falls between new_stream    *)
(* and send, and no datagram asks for a reply.                             *)
(***************************************************************************)
Calm == /\ ~Loopback /\ ~Overtake /\ PromptSend
        /\ "datagram_reply" \notin AppCalls

Sweeping == in_pc \in {"sweep", "lost", "failed", "terminate"} \/ exit_pc = "sweep"

\* Where the threads are.
Phases ==
    /\ exit_pc = "none" <=> in_pc # "done"
    /\ in_pc \in {"terminate", "done"} => ~active /\ unsent = {}
    /\ out_pc = "sent" <=> held # Nil
    /\ exit_pc = "gone" => streams = {} /\ out_pc = "done"

\* Where the stream is.
Place(s) ==
    /\ s \in streams => s \notin free
    /\ exit_pc = "none" /\ s \in Sending => s \notin free
    /\ s \in Sending /\ s \in free_on_send => s \notin free /\ s \notin streams
    /\ s \in unsent => s \in streams /\ s \notin Sending /\ s \notin wire

\* Where its payload is.
Payload(s) ==
    /\ s \in out_queue => s \notin internal_out_queue
    /\ s \in Queued => s # held /\ s \notin wire
    /\ exit_pc = "none" /\ s \in streams /\ s \in Sending => s \in out

\* When it times out.
Timing(s) ==
    s \in streams /\ s \in timeout =>
        /\ Sweeping
        /\ s \notin unsent
        /\ exit_pc = "none" => s \notin Sending

\* What the daemon was told of it.
Events(s) ==
    exit_pc # "gone" =>
        app[s] \in IF s \in streams THEN IF s \in timeout THEN {"told"} ELSE {"open"}
                                    ELSE {"none", "told"}

IInv ==
    /\ TypeOK
    /\ faults = {}
    /\ \A s \in Streams : linked_stream[s] = Nil
    /\ Phases
    /\ \A s \in Streams : /\ Place(s) /\ Payload(s) /\ Timing(s) /\ Events(s)
                          /\ app[s] # "told twice"
-----------------------------------------------------------------------------
LEMMA InitIInv == Init => IInv
<1> SUFFICES ASSUME Init PROVE IInv
  OBVIOUS
<1>1. TypeOK  BY ClientAssumption DEF Init, TypeOK, SetsOK, FieldsOK, ThreadsOK
<1>2. QED
  BY <1>1, ClientAssumption
     DEF Init, IInv, Phases, Place, Payload, Timing, Events, Sweeping, Sending, Queued

LEMMA NoSides ==
    ASSUME IInv, NEW S \in SUBSET Streams
    PROVE  Sides(S) = S
BY DEF IInv, Sides

\* A payload pushed to internal_out_queue is there, or was refused.
LEMMA PushInternalIs ==
    ASSUME NEW s, PushInternal(s)
    PROVE  out_queue' = out_queue /\ internal_out_queue' \subseteq internal_out_queue \cup {s}
<1>1. CASE internal_out_queue' = internal_out_queue \cup {s}
  BY <1>1 DEF PushInternal
<1>2. CASE internal_out_queue' = internal_out_queue
  BY <1>2 DEF PushInternal
<1>3. QED  BY <1>1, <1>2 DEF PushInternal

(* Packets that enter a queue. *)

\* A packet answered by one of our own.
LEMMA InReplyIInv ==
    ASSUME Calm, IInv, NEW s \in Streams, InReply(s)
    PROVE  IInv'
<1> USE ClientAssumption
<1>0. /\ s \in free /\ s # Nil /\ s \notin Sending /\ s \notin Queued /\ s # held
      /\ s \notin streams /\ s \notin unsent /\ exit_pc = "none" /\ active \in BOOLEAN
      /\ in_pc = "poll" \/ active
  <2>1. s \in free /\ Place(s) /\ Phases /\ s # Nil /\ exit_pc = "none"
    BY DEF InReply, InMessage, InGoto, AllocateForPacket, IInv, Phases
  <2>2. s \notin Sending
    BY <2>1 DEF Place
  <2>3. s \notin streams /\ s \notin unsent
    BY <2>1 DEF Place
  <2>4. s \notin Queued /\ s # held
    BY <2>1, <2>2 DEF Sending
  <2>5. active \in BOOLEAN /\ (in_pc = "poll" \/ active)
    BY DEF InReply, InMessage, InGoto, AllocateForPacket, IInv, TypeOK, ThreadsOK
  <2>6. QED  BY <2>1, <2>2, <2>3, <2>4, <2>5
<1>p. out_queue' = out_queue /\ internal_out_queue' \subseteq internal_out_queue \cup {s}
  BY <1>0, PushInternalIs DEF InReply
<1>e. /\ free' = free \ {s}
      /\ faults' = {}
      /\ free_on_send' = free_on_send \cup {s}
      /\ wire' = wire \ {s}
      /\ internal_out_queue' \subseteq internal_out_queue \cup {s}
      /\ in_pc = "poll" /\ in_pc' = "run"
      /\ UNCHANGED <<streams, out_queue, last_linked_side, local, timeout, expired, out,
                     active, stream_timeout_check, reconnect_queued, out_pc, held, exit_pc,
                     timer_alive, unsent>>
  BY <1>0, <1>p
     DEF InReply, InMessage, InGoto, flagVars, AllocateForPacket, NotePush, timeVars,
         IInv, TypeOK, SetsOK, ThreadsOK
<1>f. /\ linked_stream' \in [Streams -> Streams \cup {Nil}]
      /\ \A x \in Streams : linked_stream'[x] = Nil
      /\ app' \in [Streams -> {"none", "open", "told", "told twice"}]
      /\ \A x \in Streams : app'[x] = IF x = s THEN "none" ELSE app[x]
  BY <1>0
     DEF InReply, InMessage, InGoto, flagVars, AllocateForPacket, NotePush, timeVars,
         IInv, TypeOK, FieldsOK
<1>a. TypeOK /\ Phases  BY DEF IInv
<1>1. TypeOK'
  <2>1. SetsOK'
    BY <1>a, <1>0, <1>e DEF TypeOK, SetsOK
  <2>2. FieldsOK'
    BY <1>a, <1>e, <1>f DEF TypeOK, FieldsOK
  <2>3. ThreadsOK'
    BY <1>a, <1>e DEF TypeOK, ThreadsOK
  <2>4. QED  BY <2>1, <2>2, <2>3 DEF TypeOK
<1>2. Phases'
  BY <1>a, <1>0, <1>e DEF Phases
<1>3. ASSUME NEW x \in Streams
      PROVE  (Place(x) /\ Payload(x) /\ Timing(x) /\ Events(x) /\ app[x] # "told twice")'
  <2>1. /\ Place(x) /\ Payload(x) /\ Timing(x) /\ Events(x) /\ app[x] # "told twice"
        /\ held \in Streams \cup {Nil} /\ x # Nil
    BY DEF IInv, TypeOK, ThreadsOK
  <2>q. /\ x \in Queued' => x \in Queued \/ x = s
        /\ x \in Sending' => x \in Sending \/ x = s
    BY <1>e, <1>0, <2>1 DEF Sending, Queued
  <2>2. Place(x)'
    BY <2>1, <2>q, <1>a, <1>0, <1>e DEF Place, Phases
  <2>3. Payload(x)'
    BY <2>1, <2>q, <1>a, <1>0, <1>e DEF Place, Payload, Queued, Phases
  <2>4. Timing(x)'
    BY <2>1, <2>q, <1>a, <1>0, <1>e DEF Place, Timing, Sweeping, Phases
  <2>5. Events(x)' /\ app'[x] # "told twice"
    BY <2>1, <1>a, <1>0, <1>e, <1>f DEF Place, Timing, Events, Sweeping, Phases
  <2>6. QED  BY <2>2, <2>3, <2>4, <2>5
<1>4. QED
  BY <1>e, <1>f, <1>1, <1>2, <1>3 DEF IInv

\* A datagram without reply.
LEMMA AppDatagramIInv ==
    ASSUME Calm, IInv, NEW s \in Streams, AppDatagram(s)
    PROVE  IInv'
<1> USE ClientAssumption
<1>0. /\ s \in free /\ s # Nil /\ s \notin Sending /\ s \notin Queued /\ s # held
      /\ s \notin streams /\ s \notin unsent /\ exit_pc = "none" /\ active \in BOOLEAN
      /\ in_pc = "poll" \/ active
  <2>1. s \in free /\ Place(s) /\ Phases /\ s # Nil /\ exit_pc = "none"
    BY DEF AppDatagram, AllocateForPacket, IInv, Phases
  <2>2. s \notin Sending
    BY <2>1 DEF Place
  <2>3. s \notin streams /\ s \notin unsent
    BY <2>1 DEF Place
  <2>4. s \notin Queued /\ s # held
    BY <2>1, <2>2 DEF Sending
  <2>5. active \in BOOLEAN /\ (in_pc = "poll" \/ active)
    BY DEF AppDatagram, AllocateForPacket, IInv, TypeOK, ThreadsOK
  <2>6. QED  BY <2>1, <2>2, <2>3, <2>4, <2>5
<1>e. /\ free' = free \ {s}
      /\ faults' = {}
      /\ free_on_send' = free_on_send \cup {s}
      /\ wire' = wire \ {s}
      /\ out_queue' = out_queue \cup {s}
      /\ UNCHANGED <<streams, internal_out_queue, last_linked_side, local, timeout, expired,
                     out, active, stream_timeout_check, reconnect_queued, in_pc, out_pc,
                     held, exit_pc, timer_alive, unsent>>
  BY <1>0
     DEF AppDatagram, AllocateForPacket, NotePush, PushOut, timeVars, flagVars,
         threadVars, IInv, TypeOK, SetsOK, ThreadsOK
<1>f. /\ linked_stream' \in [Streams -> Streams \cup {Nil}]
      /\ \A x \in Streams : linked_stream'[x] = Nil
      /\ app' \in [Streams -> {"none", "open", "told", "told twice"}]
      /\ \A x \in Streams : app'[x] = IF x = s THEN "none" ELSE app[x]
  BY <1>0
     DEF AppDatagram, AllocateForPacket, NotePush, PushOut, timeVars, flagVars,
         threadVars, IInv, TypeOK, FieldsOK
<1>a. TypeOK /\ Phases  BY DEF IInv
<1>1. TypeOK'
  <2>1. SetsOK'
    BY <1>a, <1>0, <1>e DEF TypeOK, SetsOK
  <2>2. FieldsOK'
    BY <1>a, <1>e, <1>f DEF TypeOK, FieldsOK
  <2>3. ThreadsOK'
    BY <1>a, <1>e DEF TypeOK, ThreadsOK
  <2>4. QED  BY <2>1, <2>2, <2>3 DEF TypeOK
<1>2. Phases'
  BY <1>a, <1>0, <1>e DEF Phases
<1>3. ASSUME NEW x \in Streams
      PROVE  (Place(x) /\ Payload(x) /\ Timing(x) /\ Events(x) /\ app[x] # "told twice")'
  <2>1. /\ Place(x) /\ Payload(x) /\ Timing(x) /\ Events(x) /\ app[x] # "told twice"
        /\ held \in Streams \cup {Nil} /\ x # Nil
    BY DEF IInv, TypeOK, ThreadsOK
  <2>q. /\ x \in Queued' => x \in Queued \/ x = s
        /\ x \in Sending' => x \in Sending \/ x = s
    BY <1>e, <1>0, <2>1 DEF Sending, Queued
  <2>2. Place(x)'
    BY <2>1, <2>q, <1>a, <1>0, <1>e DEF Place, Phases
  <2>3. Payload(x)'
    BY <2>1, <2>q, <1>a, <1>0, <1>e DEF Place, Payload, Queued, Phases
  <2>4. Timing(x)'
    BY <2>1, <2>q, <1>a, <1>0, <1>e DEF Place, Timing, Sweeping, Phases
  <2>5. Events(x)' /\ app'[x] # "told twice"
    BY <2>1, <1>a, <1>0, <1>e, <1>f DEF Place, Timing, Events, Sweeping, Phases
  <2>6. QED  BY <2>2, <2>3, <2>4, <2>5
<1>4. QED
  BY <1>e, <1>f, <1>1, <1>2, <1>3 DEF IInv

\* The peer opens a stream.
LEMMA InStartIInv ==
    ASSUME Calm, IInv, NEW s \in Streams, InStart(s)
    PROVE  IInv'
<1> USE ClientAssumption
<1>0. /\ s \in free /\ s # Nil /\ s \notin Sending /\ s \notin Queued /\ s # held
      /\ s \notin streams /\ s \notin unsent /\ exit_pc = "none" /\ active \in BOOLEAN
      /\ in_pc = "poll" \/ active
  <2>1. s \in free /\ Place(s) /\ Phases /\ s # Nil /\ exit_pc = "none"
    BY DEF InStart, InMessage, InGoto, AllocateAndReset, IInv, Phases
  <2>2. s \notin Sending
    BY <2>1 DEF Place
  <2>3. s \notin streams /\ s \notin unsent
    BY <2>1 DEF Place
  <2>4. s \notin Queued /\ s # held
    BY <2>1, <2>2 DEF Sending
  <2>5. active \in BOOLEAN /\ (in_pc = "poll" \/ active)
    BY DEF InStart, InMessage, InGoto, AllocateAndReset, IInv, TypeOK, ThreadsOK
  <2>6. QED  BY <2>1, <2>2, <2>3, <2>4, <2>5
<1>p. out_queue' = out_queue /\ internal_out_queue' \subseteq internal_out_queue \cup {s}
  BY <1>0, PushInternalIs DEF InStart
<1>e. /\ free' = free \ {s}
      /\ streams' = streams \cup {s}
      /\ faults' = {}
      /\ timeout' = timeout \ {s}
      /\ expired' = expired \ {s}
      /\ wire' = wire \ {s}
      /\ local' = local \ {s}
      /\ free_on_send' = free_on_send \ {s} /\ out' = out \cup {s}
      /\ internal_out_queue' \subseteq internal_out_queue \cup {s}
      /\ in_pc = "poll" /\ in_pc' = "run"
      /\ UNCHANGED <<out_queue, last_linked_side, active, stream_timeout_check,
                     reconnect_queued, out_pc, held, exit_pc, timer_alive, unsent>>
  BY <1>0, <1>p
     DEF InStart, InMessage, InGoto, flagVars, AllocateAndReset, SendAndKeep, NotePush,
         IInv, TypeOK, SetsOK, ThreadsOK
<1>f. /\ linked_stream' \in [Streams -> Streams \cup {Nil}]
      /\ \A x \in Streams : linked_stream'[x] = Nil
      /\ app' \in [Streams -> {"none", "open", "told", "told twice"}]
      /\ \A x \in Streams : app'[x] = IF x = s THEN "open" ELSE app[x]
  BY <1>0
     DEF InStart, InMessage, InGoto, flagVars, AllocateAndReset, SendAndKeep, NotePush,
         IInv, TypeOK, FieldsOK
<1>a. TypeOK /\ Phases  BY DEF IInv
<1>1. TypeOK'
  <2>1. SetsOK'
    BY <1>a, <1>0, <1>e DEF TypeOK, SetsOK
  <2>2. FieldsOK'
    BY <1>a, <1>e, <1>f DEF TypeOK, FieldsOK
  <2>3. ThreadsOK'
    BY <1>a, <1>e DEF TypeOK, ThreadsOK
  <2>4. QED  BY <2>1, <2>2, <2>3 DEF TypeOK
<1>2. Phases'
  BY <1>a, <1>0, <1>e DEF Phases
<1>3. ASSUME NEW x \in Streams
      PROVE  (Place(x) /\ Payload(x) /\ Timing(x) /\ Events(x) /\ app[x] # "told twice")'
  <2>1. /\ Place(x) /\ Payload(x) /\ Timing(x) /\ Events(x) /\ app[x] # "told twice"
        /\ held \in Streams \cup {Nil} /\ x # Nil
    BY DEF IInv, TypeOK, ThreadsOK
  <2>q. /\ x \in Queued' => x \in Queued \/ x = s
        /\ x \in Sending' => x \in Sending \/ x = s
    BY <1>e, <1>0, <2>1 DEF Sending, Queued
  <2>2. Place(x)'
    BY <2>1, <2>q, <1>a, <1>0, <1>e DEF Place, Phases
  <2>3. Payload(x)'
    BY <2>1, <2>q, <1>a, <1>0, <1>e DEF Place, Payload, Queued, Phases
  <2>4. Timing(x)'
    BY <2>1, <2>q, <1>a, <1>0, <1>e DEF Place, Timing, Sweeping, Phases
  <2>5. Events(x)' /\ app'[x] # "told twice"
    BY <2>1, <1>a, <1>0, <1>e, <1>f DEF Place, Timing, Events, Sweeping, Phases
  <2>6. QED  BY <2>2, <2>3, <2>4, <2>5
<1>4. QED
  BY <1>e, <1>f, <1>1, <1>2, <1>3 DEF IInv

\* The daemon opens a stream.
LEMMA AppNewStreamIInv ==
    ASSUME Calm, IInv, NEW s \in Streams, AppNewStream(s)
    PROVE  IInv'
<1> USE ClientAssumption
<1>0. /\ s \in free /\ s # Nil /\ s \notin Sending /\ s \notin Queued /\ s # held
      /\ s \notin streams /\ s \notin unsent /\ exit_pc = "none" /\ active \in BOOLEAN
      /\ in_pc = "poll" \/ active
  <2>1. s \in free /\ Place(s) /\ Phases /\ s # Nil /\ exit_pc = "none"
    BY DEF AppNewStream, AllocateAndReset, IInv, Phases
  <2>2. s \notin Sending
    BY <2>1 DEF Place
  <2>3. s \notin streams /\ s \notin unsent
    BY <2>1 DEF Place
  <2>4. s \notin Queued /\ s # held
    BY <2>1, <2>2 DEF Sending
  <2>5. active \in BOOLEAN /\ (in_pc = "poll" \/ active)
    BY DEF AppNewStream, AllocateAndReset, IInv, TypeOK, ThreadsOK
  <2>6. QED  BY <2>1, <2>2, <2>3, <2>4, <2>5
<1>e. /\ free' = free \ {s}
      /\ streams' = streams \cup {s}
      /\ faults' = {}
      /\ timeout' = timeout \ {s}
      /\ expired' = expired \ {s}
      /\ wire' = wire \ {s}
      /\ local' = local \cup {s}
      /\ unsent' = unsent \cup {s}
      /\ UNCHANGED <<out_queue, internal_out_queue, last_linked_side, free_on_send, out,
                     active, stream_timeout_check, reconnect_queued, in_pc, out_pc, held,
                     exit_pc, timer_alive>>
  BY <1>0
     DEF AppNewStream, AllocateAndReset, queueVars, sendVars, flagVars, threadVars, IInv,
         TypeOK, SetsOK, ThreadsOK
<1>f. /\ linked_stream' \in [Streams -> Streams \cup {Nil}]
      /\ \A x \in Streams : linked_stream'[x] = Nil
      /\ app' \in [Streams -> {"none", "open", "told", "told twice"}]
      /\ \A x \in Streams : app'[x] = IF x = s THEN "open" ELSE app[x]
  BY <1>0
     DEF AppNewStream, AllocateAndReset, queueVars, sendVars, flagVars, threadVars, IInv,
         TypeOK, FieldsOK
<1>a. TypeOK /\ Phases  BY DEF IInv
<1>1. TypeOK'
  <2>1. SetsOK'
    BY <1>a, <1>0, <1>e DEF TypeOK, SetsOK
  <2>2. FieldsOK'
    BY <1>a, <1>e, <1>f DEF TypeOK, FieldsOK
  <2>3. ThreadsOK'
    BY <1>a, <1>e DEF TypeOK, ThreadsOK
  <2>4. QED  BY <2>1, <2>2, <2>3 DEF TypeOK
<1>2. Phases'
  BY <1>a, <1>0, <1>e DEF Phases
<1>3. ASSUME NEW x \in Streams
      PROVE  (Place(x) /\ Payload(x) /\ Timing(x) /\ Events(x) /\ app[x] # "told twice")'
  <2>1. /\ Place(x) /\ Payload(x) /\ Timing(x) /\ Events(x) /\ app[x] # "told twice"
        /\ held \in Streams \cup {Nil} /\ x # Nil
    BY DEF IInv, TypeOK, ThreadsOK
  <2>q. Queued' = Queued /\ Sending' = Sending
    BY <1>e, <1>0, <2>1 DEF Sending, Queued
  <2>2. Place(x)'
    BY <2>1, <2>q, <1>a, <1>0, <1>e DEF Place, Phases
  <2>3. Payload(x)'
    BY <2>1, <2>q, <1>a, <1>0, <1>e DEF Place, Payload, Queued, Phases
  <2>4. Timing(x)'
    BY <2>1, <2>q, <1>a, <1>0, <1>e DEF Place, Timing, Sweeping, Phases
  <2>5. Events(x)' /\ app'[x] # "told twice"
    BY <2>1, <1>a, <1>0, <1>e, <1>f DEF Place, Timing, Events, Sweeping, Phases
  <2>6. QED  BY <2>2, <2>3, <2>4, <2>5
<1>4. QED
  BY <1>e, <1>f, <1>1, <1>2, <1>3 DEF IInv

\* The daemon sends the first packet of its stream.
LEMMA AppSendIInv ==
    ASSUME Calm, IInv, NEW s \in Streams, AppSend(s)
    PROVE  IInv'
<1> USE ClientAssumption
<1>0. s \in unsent /\ s \in streams /\ s \notin Queued /\ s # held /\ exit_pc = "none"
  <2>1. s \in unsent /\ Place(s) /\ Phases /\ s # Nil
    BY DEF AppSend, IInv
  <2>2. exit_pc = "none"
    BY <2>1 DEF Phases
  <2>3. s \in streams /\ s \notin Sending
    BY <2>1 DEF Place
  <2>4. QED  BY <2>1, <2>2, <2>3 DEF Sending
<1>e. /\ unsent' = unsent \ {s}
      /\ free_on_send' = free_on_send \ {s} /\ out' = out \cup {s}
      /\ faults' = {}
      /\ out_queue' = out_queue \cup {s}
      /\ UNCHANGED <<free, streams, internal_out_queue, last_linked_side, local, timeout,
                     expired, active, stream_timeout_check, reconnect_queued, in_pc,
                     out_pc, held, exit_pc, timer_alive, wire>>
  BY <1>0
     DEF AppSend, SendAndKeep, PushOut, NotePush, linkVars, timeVars, flagVars,
         threadVars, IInv, TypeOK, SetsOK, ThreadsOK
<1>f. /\ UNCHANGED <<linked_stream, app>>
  BY <1>0
     DEF AppSend, SendAndKeep, PushOut, NotePush, linkVars, timeVars, flagVars,
         threadVars, IInv, TypeOK, FieldsOK
<1>a. TypeOK /\ Phases  BY DEF IInv
<1>1. TypeOK'
  <2>1. SetsOK'
    BY <1>a, <1>0, <1>e DEF TypeOK, SetsOK
  <2>2. FieldsOK'
    BY <1>a, <1>e, <1>f DEF TypeOK, FieldsOK
  <2>3. ThreadsOK'
    BY <1>a, <1>e DEF TypeOK, ThreadsOK
  <2>4. QED  BY <2>1, <2>2, <2>3 DEF TypeOK
<1>2. Phases'
  BY <1>a, <1>0, <1>e DEF Phases
<1>3. ASSUME NEW x \in Streams
      PROVE  (Place(x) /\ Payload(x) /\ Timing(x) /\ Events(x) /\ app[x] # "told twice")'
  <2>1. /\ Place(x) /\ Payload(x) /\ Timing(x) /\ Events(x) /\ app[x] # "told twice"
        /\ held \in Streams \cup {Nil} /\ x # Nil
    BY DEF IInv, TypeOK, ThreadsOK
  <2>q. /\ x \in Queued' => x \in Queued \/ x = s
        /\ x \in Sending' => x \in Sending \/ x = s
    BY <1>e, <1>0, <2>1 DEF Sending, Queued
  <2>2. Place(x)'
    BY <2>1, <2>q, <1>a, <1>0, <1>e DEF Place, Phases
  <2>3. Payload(x)'
    BY <2>1, <2>q, <1>a, <1>0, <1>e DEF Place, Payload, Queued, Phases
  <2>4. Timing(x)'
    BY <2>1, <2>q, <1>a, <1>0, <1>e DEF Place, Timing, Sweeping, Phases
  <2>5. Events(x)' /\ app'[x] # "told twice"
    BY <2>1, <1>a, <1>0, <1>e, <1>f DEF Place, Timing, Events, Sweeping, Phases
  <2>6. QED  BY <2>2, <2>3, <2>4, <2>5
<1>4. QED
  BY <1>e, <1>f, <1>1, <1>2, <1>3 DEF IInv

(* Answers to a packet: OUT is done with it, so the stream is in no queue. *)

LEMMA AnsweredIsFree ==
    ASSUME Calm, IInv, NEW t \in Streams, Answerable(t), in_pc = "poll"
    PROVE  /\ t \in streams /\ t \in wire /\ t \notin Queued /\ t # held /\ t \notin unsent
           /\ t \notin Sending /\ t \notin free /\ t \notin timeout /\ app[t] = "open"
           /\ exit_pc = "none"
           /\ Turn(t) = t /\ Sides({t}) = {t} /\ linked_stream[t] = Nil
<1>1. linked_stream[t] = Nil
  BY DEF IInv
<1>a. Sides({t}) = {t}
  BY NoSides
<1>b. Turn(t) = t
  BY <1>1 DEF Turn
<1>2. t \in streams /\ t \in wire /\ t # held
  BY <1>a DEF Answerable, Calm
<1>3. t \notin Queued /\ t \notin Sending
  BY <1>2 DEF IInv, Payload, Sending
<1>4. exit_pc = "none" /\ t \notin unsent /\ t \notin free
  BY <1>2 DEF IInv, Phases, Place
<1>5. t \notin timeout
  BY <1>2, <1>4 DEF IInv, Timing, Sweeping
<1>6. app[t] = "open"
  BY <1>2, <1>4, <1>5 DEF IInv, Events
<1>7. QED  BY <1>1, <1>a, <1>b, <1>2, <1>3, <1>4, <1>5, <1>6

\* The stream goes on.
LEMMA InContinueIInv ==
    ASSUME Calm, IInv, NEW t \in Streams, InContinue(t)
    PROVE  IInv'
<1> USE ClientAssumption
<1>0. /\ t \in streams /\ t \in wire /\ t \notin Queued /\ t # held /\ t \notin unsent
      /\ t \notin Sending /\ t \notin free /\ t \notin timeout /\ app[t] = "open"
      /\ exit_pc = "none"
      /\ Turn(t) = t /\ Sides({t}) = {t} /\ linked_stream[t] = Nil
  BY AnsweredIsFree DEF InContinue, InMessage, InGoto
<1>p. out_queue' = out_queue /\ internal_out_queue' \subseteq internal_out_queue \cup {t}
  BY <1>0, PushInternalIs DEF InContinue
<1>e. /\ in_pc = "poll" /\ in_pc' = "run"
      /\ wire' = wire \ {t}
      /\ expired' = expired \ {t}
      /\ free_on_send' = free_on_send \ {t} /\ out' = out \cup {t}
      /\ faults' = {}
      /\ internal_out_queue' \subseteq internal_out_queue \cup {t}
      /\ UNCHANGED <<free, streams, out_queue, last_linked_side, local, timeout, active,
                     stream_timeout_check, reconnect_queued, out_pc, held, exit_pc,
                     timer_alive, unsent>>
  BY <1>0, <1>p
     DEF InContinue, InMessage, InGoto, flagVars, Answered, TakeTurn, SendAndKeep,
         NotePush, IInv, TypeOK, SetsOK, ThreadsOK
<1>f. /\ UNCHANGED <<linked_stream, app>>
  BY <1>0
     DEF InContinue, InMessage, InGoto, flagVars, Answered, TakeTurn, SendAndKeep,
         NotePush, IInv, TypeOK, FieldsOK
<1>a. TypeOK /\ Phases  BY DEF IInv
<1>1. TypeOK'
  <2>1. SetsOK'
    BY <1>a, <1>0, <1>e DEF TypeOK, SetsOK
  <2>2. FieldsOK'
    BY <1>a, <1>e, <1>f DEF TypeOK, FieldsOK
  <2>3. ThreadsOK'
    BY <1>a, <1>e DEF TypeOK, ThreadsOK
  <2>4. QED  BY <2>1, <2>2, <2>3 DEF TypeOK
<1>2. Phases'
  BY <1>a, <1>0, <1>e DEF Phases
<1>3. ASSUME NEW x \in Streams
      PROVE  (Place(x) /\ Payload(x) /\ Timing(x) /\ Events(x) /\ app[x] # "told twice")'
  <2>1. /\ Place(x) /\ Payload(x) /\ Timing(x) /\ Events(x) /\ app[x] # "told twice"
        /\ held \in Streams \cup {Nil} /\ x # Nil
    BY DEF IInv, TypeOK, ThreadsOK
  <2>q. /\ x \in Queued' => x \in Queued \/ x = t
        /\ x \in Sending' => x \in Sending \/ x = t
    BY <1>e, <1>0, <2>1 DEF Sending, Queued
  <2>2. Place(x)'
    BY <2>1, <2>q, <1>a, <1>0, <1>e DEF Place, Phases
  <2>3. Payload(x)'
    BY <2>1, <2>q, <1>a, <1>0, <1>e DEF Place, Payload, Queued, Phases
  <2>4. Timing(x)'
    BY <2>1, <2>q, <1>a, <1>0, <1>e DEF Place, Timing, Sweeping, Phases
  <2>5. Events(x)' /\ app'[x] # "told twice"
    BY <2>1, <1>a, <1>0, <1>e, <1>f DEF Place, Timing, Events, Sweeping, Phases
  <2>6. QED  BY <2>2, <2>3, <2>4, <2>5
<1>4. QED
  BY <1>e, <1>f, <1>1, <1>2, <1>3 DEF IInv

\* The last packet of a stream.
LEMMA InEndIInv ==
    ASSUME Calm, IInv, NEW t \in Streams, InEnd(t)
    PROVE  IInv'
<1> USE ClientAssumption
<1>0. /\ t \in streams /\ t \in wire /\ t \notin Queued /\ t # held /\ t \notin unsent
      /\ t \notin Sending /\ t \notin free /\ t \notin timeout /\ app[t] = "open"
      /\ exit_pc = "none"
      /\ Turn(t) = t /\ Sides({t}) = {t} /\ linked_stream[t] = Nil
  BY AnsweredIsFree DEF InEnd, InMessage, InGoto
<1>p. out_queue' = out_queue /\ internal_out_queue' \subseteq internal_out_queue \cup {t}
  BY <1>0, PushInternalIs DEF InEnd
<1>e. /\ in_pc = "poll" /\ in_pc' = "run"
      /\ wire' = wire \ {t}
      /\ expired' \subseteq expired
      /\ free_on_send' = free_on_send \cup {t} /\ streams' = streams \ {t}
      /\ faults' = {}
      /\ internal_out_queue' \subseteq internal_out_queue \cup {t}
      /\ UNCHANGED <<free, out_queue, last_linked_side, local, timeout, out, active,
                     stream_timeout_check, reconnect_queued, out_pc, held, exit_pc,
                     timer_alive, unsent>>
  BY <1>0, <1>p
     DEF InEnd, InMessage, InGoto, flagVars, Answered, TakeTurn, Told, NotePush, IInv,
         TypeOK, SetsOK, ThreadsOK
<1>f. /\ app' \in [Streams -> {"none", "open", "told", "told twice"}]
      /\ \A x \in Streams : app'[x] = IF x = t THEN "told" ELSE app[x]
      /\ UNCHANGED linked_stream
  BY <1>0
     DEF InEnd, InMessage, InGoto, flagVars, Answered, TakeTurn, Told, NotePush, IInv,
         TypeOK, FieldsOK
<1>a. TypeOK /\ Phases  BY DEF IInv
<1>1. TypeOK'
  <2>1. SetsOK'
    BY <1>a, <1>0, <1>e DEF TypeOK, SetsOK
  <2>2. FieldsOK'
    BY <1>a, <1>e, <1>f DEF TypeOK, FieldsOK
  <2>3. ThreadsOK'
    BY <1>a, <1>e DEF TypeOK, ThreadsOK
  <2>4. QED  BY <2>1, <2>2, <2>3 DEF TypeOK
<1>2. Phases'
  BY <1>a, <1>0, <1>e DEF Phases
<1>3. ASSUME NEW x \in Streams
      PROVE  (Place(x) /\ Payload(x) /\ Timing(x) /\ Events(x) /\ app[x] # "told twice")'
  <2>1. /\ Place(x) /\ Payload(x) /\ Timing(x) /\ Events(x) /\ app[x] # "told twice"
        /\ held \in Streams \cup {Nil} /\ x # Nil
    BY DEF IInv, TypeOK, ThreadsOK
  <2>q. /\ x \in Queued' => x \in Queued \/ x = t
        /\ x \in Sending' => x \in Sending \/ x = t
    BY <1>e, <1>0, <2>1 DEF Sending, Queued
  <2>2. Place(x)'
    BY <2>1, <2>q, <1>a, <1>0, <1>e DEF Place, Phases
  <2>3. Payload(x)'
    BY <2>1, <2>q, <1>a, <1>0, <1>e DEF Place, Payload, Queued, Phases
  <2>4. Timing(x)'
    BY <2>1, <2>q, <1>a, <1>0, <1>e DEF Place, Timing, Sweeping, Phases
  <2>5. Events(x)' /\ app'[x] # "told twice"
    BY <2>1, <1>a, <1>0, <1>e, <1>f DEF Place, Timing, Events, Sweeping, Phases
  <2>6. QED  BY <2>2, <2>3, <2>4, <2>5
<1>4. QED
  BY <1>e, <1>f, <1>1, <1>2, <1>3 DEF IInv

\* The peer goes on later.
LEMMA InContinueWaitIInv ==
    ASSUME Calm, IInv, NEW t \in Streams, InContinueWait(t)
    PROVE  IInv'
<1> USE ClientAssumption
<1>0. /\ t \in streams /\ t \in wire /\ t \notin Queued /\ t # held /\ t \notin unsent
      /\ t \notin Sending /\ t \notin free /\ t \notin timeout /\ app[t] = "open"
      /\ exit_pc = "none"
      /\ Turn(t) = t /\ Sides({t}) = {t} /\ linked_stream[t] = Nil
  BY AnsweredIsFree DEF InContinueWait, InMessage, InGoto
<1>e. /\ in_pc = "poll" /\ in_pc' = "run"
      /\ expired' = expired \ {t}
      /\ UNCHANGED <<free, streams, faults, out_queue, internal_out_queue, last_linked_side,
                     local, timeout, free_on_send, out, active, stream_timeout_check,
                     reconnect_queued, out_pc, held, exit_pc, timer_alive, unsent, wire>>
  BY <1>0
     DEF InContinueWait, InMessage, InGoto, flagVars, poolVars, queueVars, linkVars,
         sendVars, worldVars, IInv, TypeOK, SetsOK, ThreadsOK
<1>f. /\ UNCHANGED <<linked_stream, app>>
  BY <1>0
     DEF InContinueWait, InMessage, InGoto, flagVars, poolVars, queueVars, linkVars,
         sendVars, worldVars, IInv, TypeOK, FieldsOK
<1>a. TypeOK /\ Phases  BY DEF IInv
<1>1. TypeOK'
  <2>1. SetsOK'
    BY <1>a, <1>0, <1>e DEF TypeOK, SetsOK
  <2>2. FieldsOK'
    BY <1>a, <1>e, <1>f DEF TypeOK, FieldsOK
  <2>3. ThreadsOK'
    BY <1>a, <1>e DEF TypeOK, ThreadsOK
  <2>4. QED  BY <2>1, <2>2, <2>3 DEF TypeOK
<1>2. Phases'
  BY <1>a, <1>0, <1>e DEF Phases
<1>3. ASSUME NEW x \in Streams
      PROVE  (Place(x) /\ Payload(x) /\ Timing(x) /\ Events(x) /\ app[x] # "told twice")'
  <2>1. /\ Place(x) /\ Payload(x) /\ Timing(x) /\ Events(x) /\ app[x] # "told twice"
        /\ held \in Streams \cup {Nil} /\ x # Nil
    BY DEF IInv, TypeOK, ThreadsOK
  <2>q. Queued' = Queued /\ Sending' = Sending
    BY <1>e, <1>0, <2>1 DEF Sending, Queued
  <2>2. Place(x)'
    BY <2>1, <2>q, <1>a, <1>0, <1>e DEF Place, Phases
  <2>3. Payload(x)'
    BY <2>1, <2>q, <1>a, <1>0, <1>e DEF Place, Payload, Queued, Phases
  <2>4. Timing(x)'
    BY <2>1, <2>q, <1>a, <1>0, <1>e DEF Place, Timing, Sweeping, Phases
  <2>5. Events(x)' /\ app'[x] # "told twice"
    BY <2>1, <1>a, <1>0, <1>e, <1>f DEF Place, Timing, Events, Sweeping, Phases
  <2>6. QED  BY <2>2, <2>3, <2>4, <2>5
<1>4. QED
  BY <1>e, <1>f, <1>1, <1>2, <1>3 DEF IInv

\* CONTINUE_WAIT out of sequence.
LEMMA InContinueWaitBadIInv ==
    ASSUME Calm, IInv, NEW t \in Streams, InContinueWaitBad(t)
    PROVE  IInv'
<1> USE ClientAssumption
<1>0. /\ t \in streams /\ t \in wire /\ t \notin Queued /\ t # held /\ t \notin unsent
      /\ t \notin Sending /\ t \notin free /\ t \notin timeout /\ app[t] = "open"
      /\ exit_pc = "none"
      /\ Turn(t) = t /\ Sides({t}) = {t} /\ linked_stream[t] = Nil
  BY AnsweredIsFree DEF InContinueWaitBad, InMessage, InGoto
<1>p. out_queue' = out_queue /\ internal_out_queue' \subseteq internal_out_queue \cup {t}
  BY <1>0, PushInternalIs DEF InContinueWaitBad
<1>e. /\ in_pc = "poll" /\ in_pc' = "run"
      /\ wire' = wire \ {t}
      /\ free_on_send' = free_on_send \cup {t} /\ streams' = streams \ {t}
      /\ faults' = {}
      /\ internal_out_queue' \subseteq internal_out_queue \cup {t}
      /\ UNCHANGED <<free, out_queue, last_linked_side, local, timeout, expired, out, active,
                     stream_timeout_check, reconnect_queued, out_pc, held, exit_pc,
                     timer_alive, unsent>>
  BY <1>0, <1>p
     DEF InContinueWaitBad, InMessage, InGoto, flagVars, Answered, Told, NotePush,
         timeVars, IInv, TypeOK, SetsOK, ThreadsOK
<1>f. /\ linked_stream' \in [Streams -> Streams \cup {Nil}]
      /\ \A x \in Streams : linked_stream'[x] = Nil
      /\ app' \in [Streams -> {"none", "open", "told", "told twice"}]
      /\ \A x \in Streams : app'[x] = IF x = t THEN "told" ELSE app[x]
  BY <1>0
     DEF InContinueWaitBad, InMessage, InGoto, flagVars, Answered, Told, NotePush,
         timeVars, IInv, TypeOK, FieldsOK
<1>a. TypeOK /\ Phases  BY DEF IInv
<1>1. TypeOK'
  <2>1. SetsOK'
    BY <1>a, <1>0, <1>e DEF TypeOK, SetsOK
  <2>2. FieldsOK'
    BY <1>a, <1>e, <1>f DEF TypeOK, FieldsOK
  <2>3. ThreadsOK'
    BY <1>a, <1>e DEF TypeOK, ThreadsOK
  <2>4. QED  BY <2>1, <2>2, <2>3 DEF TypeOK
<1>2. Phases'
  BY <1>a, <1>0, <1>e DEF Phases
<1>3. ASSUME NEW x \in Streams
      PROVE  (Place(x) /\ Payload(x) /\ Timing(x) /\ Events(x) /\ app[x] # "told twice")'
  <2>1. /\ Place(x) /\ Payload(x) /\ Timing(x) /\ Events(x) /\ app[x] # "told twice"
        /\ held \in Streams \cup {Nil} /\ x # Nil
    BY DEF IInv, TypeOK, ThreadsOK
  <2>q. /\ x \in Queued' => x \in Queued \/ x = t
        /\ x \in Sending' => x \in Sending \/ x = t
    BY <1>e, <1>0, <2>1 DEF Sending, Queued
  <2>2. Place(x)'
    BY <2>1, <2>q, <1>a, <1>0, <1>e DEF Place, Phases
  <2>3. Payload(x)'
    BY <2>1, <2>q, <1>a, <1>0, <1>e DEF Place, Payload, Queued, Phases
  <2>4. Timing(x)'
    BY <2>1, <2>q, <1>a, <1>0, <1>e DEF Place, Timing, Sweeping, Phases
  <2>5. Events(x)' /\ app'[x] # "told twice"
    BY <2>1, <1>a, <1>0, <1>e, <1>f DEF Place, Timing, Events, Sweeping, Phases
  <2>6. QED  BY <2>2, <2>3, <2>4, <2>5
<1>4. QED
  BY <1>e, <1>f, <1>1, <1>2, <1>3 DEF IInv

\* The peer has closed the stream.
LEMMA InStreamCompleteIInv ==
    ASSUME Calm, IInv, NEW t \in Streams, InStreamComplete(t)
    PROVE  IInv'
<1> USE ClientAssumption
<1>0. /\ t \in streams /\ t \in wire /\ t \notin Queued /\ t # held /\ t \notin unsent
      /\ t \notin Sending /\ t \notin free /\ t \notin timeout /\ app[t] = "open"
      /\ exit_pc = "none"
      /\ Turn(t) = t /\ Sides({t}) = {t} /\ linked_stream[t] = Nil
  BY AnsweredIsFree DEF InStreamComplete, InMessage, InGoto
<1>e. /\ in_pc = "poll" /\ in_pc' = "run"
      /\ wire' = wire \ {t}
      /\ expired' = expired \ {t}
      /\ free' = free \cup {t} /\ streams' = streams \ {t}
      /\ faults' = {}
      /\ UNCHANGED <<out_queue, internal_out_queue, last_linked_side, local, timeout,
                     free_on_send, out, active, stream_timeout_check, reconnect_queued,
                     out_pc, held, exit_pc, timer_alive, unsent>>
  BY <1>0
     DEF InStreamComplete, InMessage, InGoto, flagVars, Answered, TakeTurn, Told,
         Deallocate, queueVars, sendVars, IInv, TypeOK, SetsOK, ThreadsOK
<1>f. /\ app' \in [Streams -> {"none", "open", "told", "told twice"}]
      /\ \A x \in Streams : app'[x] = IF x = t THEN "told" ELSE app[x]
      /\ UNCHANGED linked_stream
  BY <1>0
     DEF InStreamComplete, InMessage, InGoto, flagVars, Answered, TakeTurn, Told,
         Deallocate, queueVars, sendVars, IInv, TypeOK, FieldsOK
<1>a. TypeOK /\ Phases  BY DEF IInv
<1>1. TypeOK'
  <2>1. SetsOK'
    BY <1>a, <1>0, <1>e DEF TypeOK, SetsOK
  <2>2. FieldsOK'
    BY <1>a, <1>e, <1>f DEF TypeOK, FieldsOK
  <2>3. ThreadsOK'
    BY <1>a, <1>e DEF TypeOK, ThreadsOK
  <2>4. QED  BY <2>1, <2>2, <2>3 DEF TypeOK
<1>2. Phases'
  BY <1>a, <1>0, <1>e DEF Phases
<1>3. ASSUME NEW x \in Streams
      PROVE  (Place(x) /\ Payload(x) /\ Timing(x) /\ Events(x) /\ app[x] # "told twice")'
  <2>1. /\ Place(x) /\ Payload(x) /\ Timing(x) /\ Events(x) /\ app[x] # "told twice"
        /\ held \in Streams \cup {Nil} /\ x # Nil
    BY DEF IInv, TypeOK, ThreadsOK
  <2>q. Queued' = Queued /\ Sending' = Sending
    BY <1>e, <1>0, <2>1 DEF Sending, Queued
  <2>2. Place(x)'
    BY <2>1, <2>q, <1>a, <1>0, <1>e DEF Place, Phases
  <2>3. Payload(x)'
    BY <2>1, <2>q, <1>a, <1>0, <1>e DEF Place, Payload, Queued, Phases
  <2>4. Timing(x)'
    BY <2>1, <2>q, <1>a, <1>0, <1>e DEF Place, Timing, Sweeping, Phases
  <2>5. Events(x)' /\ app'[x] # "told twice"
    BY <2>1, <1>a, <1>0, <1>e, <1>f DEF Place, Timing, Events, Sweeping, Phases
  <2>6. QED  BY <2>2, <2>3, <2>4, <2>5
<1>4. QED
  BY <1>e, <1>f, <1>1, <1>2, <1>3 DEF IInv

(* Steps that only move a thread or a flag. *)

\* Communication is lost.
LEMMA InNotificationIInv ==
    ASSUME Calm, IInv, InNotification
    PROVE  IInv'
<1> USE ClientAssumption
<1>0. TypeOK /\ Phases  BY DEF IInv
<1>e. /\ in_pc = "poll" /\ in_pc' = "run"
      /\ reconnect_queued' = TRUE
      /\ UNCHANGED <<free, streams, faults, out_queue, internal_out_queue, last_linked_side,
                     local, timeout, expired, free_on_send, out, active,
                     stream_timeout_check, out_pc, held, exit_pc, timer_alive, unsent,
                     wire>>
  BY <1>0
     DEF InNotification, InGoto, poolVars, queueVars, linkVars, timeVars, sendVars,
         worldVars, IInv, TypeOK, SetsOK, ThreadsOK
<1>f. /\ UNCHANGED <<linked_stream, app>>
  BY <1>0
     DEF InNotification, InGoto, poolVars, queueVars, linkVars, timeVars, sendVars,
         worldVars, IInv, TypeOK, FieldsOK
<1>a. TypeOK /\ Phases  BY DEF IInv
<1>1. TypeOK'
  <2>1. SetsOK'
    BY <1>a, <1>0, <1>e DEF TypeOK, SetsOK
  <2>2. FieldsOK'
    BY <1>a, <1>e, <1>f DEF TypeOK, FieldsOK
  <2>3. ThreadsOK'
    BY <1>a, <1>e DEF TypeOK, ThreadsOK
  <2>4. QED  BY <2>1, <2>2, <2>3 DEF TypeOK
<1>2. Phases'
  BY <1>a, <1>0, <1>e DEF Phases
<1>3. ASSUME NEW x \in Streams
      PROVE  (Place(x) /\ Payload(x) /\ Timing(x) /\ Events(x) /\ app[x] # "told twice")'
  <2>1. /\ Place(x) /\ Payload(x) /\ Timing(x) /\ Events(x) /\ app[x] # "told twice"
        /\ held \in Streams \cup {Nil} /\ x # Nil
    BY DEF IInv, TypeOK, ThreadsOK
  <2>q. Queued' = Queued /\ Sending' = Sending
    BY <1>e, <1>0, <2>1 DEF Sending, Queued
  <2>2. Place(x)'
    BY <2>1, <2>q, <1>a, <1>0, <1>e DEF Place, Phases
  <2>3. Payload(x)'
    BY <2>1, <2>q, <1>a, <1>0, <1>e DEF Place, Payload, Queued, Phases
  <2>4. Timing(x)'
    BY <2>1, <2>q, <1>a, <1>0, <1>e DEF Place, Timing, Sweeping, Phases
  <2>5. Events(x)' /\ app'[x] # "told twice"
    BY <2>1, <1>a, <1>0, <1>e, <1>f DEF Place, Timing, Events, Sweeping, Phases
  <2>6. QED  BY <2>2, <2>3, <2>4, <2>5
<1>4. QED
  BY <1>e, <1>f, <1>1, <1>2, <1>3 DEF IInv

\* Nothing for the streams arrived.
LEMMA InIdleIInv ==
    ASSUME Calm, IInv, InIdle
    PROVE  IInv'
<1> USE ClientAssumption
<1>0. TypeOK /\ Phases  BY DEF IInv
<1>e. /\ in_pc = "poll" /\ in_pc' = "run"
      /\ UNCHANGED <<free, streams, faults, out_queue, internal_out_queue, last_linked_side,
                     local, timeout, expired, free_on_send, out, active,
                     stream_timeout_check, reconnect_queued, out_pc, held, exit_pc,
                     timer_alive, unsent, wire>>
  BY <1>0
     DEF InIdle, InGoto, poolVars, queueVars, linkVars, timeVars, sendVars, worldVars,
         flagVars, IInv, TypeOK, SetsOK, ThreadsOK
<1>f. /\ UNCHANGED <<linked_stream, app>>
  BY <1>0
     DEF InIdle, InGoto, poolVars, queueVars, linkVars, timeVars, sendVars, worldVars,
         flagVars, IInv, TypeOK, FieldsOK
<1>a. TypeOK /\ Phases  BY DEF IInv
<1>1. TypeOK'
  <2>1. SetsOK'
    BY <1>a, <1>0, <1>e DEF TypeOK, SetsOK
  <2>2. FieldsOK'
    BY <1>a, <1>e, <1>f DEF TypeOK, FieldsOK
  <2>3. ThreadsOK'
    BY <1>a, <1>e DEF TypeOK, ThreadsOK
  <2>4. QED  BY <2>1, <2>2, <2>3 DEF TypeOK
<1>2. Phases'
  BY <1>a, <1>0, <1>e DEF Phases
<1>3. ASSUME NEW x \in Streams
      PROVE  (Place(x) /\ Payload(x) /\ Timing(x) /\ Events(x) /\ app[x] # "told twice")'
  <2>1. /\ Place(x) /\ Payload(x) /\ Timing(x) /\ Events(x) /\ app[x] # "told twice"
        /\ held \in Streams \cup {Nil} /\ x # Nil
    BY DEF IInv, TypeOK, ThreadsOK
  <2>q. Queued' = Queued /\ Sending' = Sending
    BY <1>e, <1>0, <2>1 DEF Sending, Queued
  <2>2. Place(x)'
    BY <2>1, <2>q, <1>a, <1>0, <1>e DEF Place, Phases
  <2>3. Payload(x)'
    BY <2>1, <2>q, <1>a, <1>0, <1>e DEF Place, Payload, Queued, Phases
  <2>4. Timing(x)'
    BY <2>1, <2>q, <1>a, <1>0, <1>e DEF Place, Timing, Sweeping, Phases
  <2>5. Events(x)' /\ app'[x] # "told twice"
    BY <2>1, <1>a, <1>0, <1>e, <1>f DEF Place, Timing, Events, Sweeping, Phases
  <2>6. QED  BY <2>2, <2>3, <2>4, <2>5
<1>4. QED
  BY <1>e, <1>f, <1>1, <1>2, <1>3 DEF IInv

\* OUT ends.
LEMMA OutExitIInv ==
    ASSUME Calm, IInv, OutExit
    PROVE  IInv'
<1> USE ClientAssumption
<1>0. TypeOK /\ Phases  BY DEF IInv
<1>e. /\ ~active /\ out_pc = "loop" /\ out_pc' = "done"
      /\ UNCHANGED <<free, streams, faults, out_queue, internal_out_queue, last_linked_side,
                     local, timeout, expired, free_on_send, out, active,
                     stream_timeout_check, reconnect_queued, in_pc, held, exit_pc,
                     timer_alive, unsent, wire>>
  BY <1>0
     DEF OutExit, poolVars, queueVars, linkVars, timeVars, sendVars, worldVars, flagVars,
         IInv, TypeOK, SetsOK, ThreadsOK
<1>f. /\ UNCHANGED <<linked_stream, app>>
  BY <1>0
     DEF OutExit, poolVars, queueVars, linkVars, timeVars, sendVars, worldVars, flagVars,
         IInv, TypeOK, FieldsOK
<1>a. TypeOK /\ Phases  BY DEF IInv
<1>1. TypeOK'
  <2>1. SetsOK'
    BY <1>a, <1>0, <1>e DEF TypeOK, SetsOK
  <2>2. FieldsOK'
    BY <1>a, <1>e, <1>f DEF TypeOK, FieldsOK
  <2>3. ThreadsOK'
    BY <1>a, <1>e DEF TypeOK, ThreadsOK
  <2>4. QED  BY <2>1, <2>2, <2>3 DEF TypeOK
<1>2. Phases'
  BY <1>a, <1>0, <1>e DEF Phases
<1>3. ASSUME NEW x \in Streams
      PROVE  (Place(x) /\ Payload(x) /\ Timing(x) /\ Events(x) /\ app[x] # "told twice")'
  <2>1. /\ Place(x) /\ Payload(x) /\ Timing(x) /\ Events(x) /\ app[x] # "told twice"
        /\ held \in Streams \cup {Nil} /\ x # Nil
    BY DEF IInv, TypeOK, ThreadsOK
  <2>q. Queued' = Queued /\ Sending' = Sending
    BY <1>e, <1>0, <2>1 DEF Sending, Queued
  <2>2. Place(x)'
    BY <2>1, <2>q, <1>a, <1>0, <1>e DEF Place, Phases
  <2>3. Payload(x)'
    BY <2>1, <2>q, <1>a, <1>0, <1>e DEF Place, Payload, Queued, Phases
  <2>4. Timing(x)'
    BY <2>1, <2>q, <1>a, <1>0, <1>e DEF Place, Timing, Sweeping, Phases
  <2>5. Events(x)' /\ app'[x] # "told twice"
    BY <2>1, <1>a, <1>0, <1>e, <1>f DEF Place, Timing, Events, Sweeping, Phases
  <2>6. QED  BY <2>2, <2>3, <2>4, <2>5
<1>4. QED
  BY <1>e, <1>f, <1>1, <1>2, <1>3 DEF IInv

\* The TIMEOUT thread wakes.
LEMMA TimerTickIInv ==
    ASSUME Calm, IInv, TimerTick
    PROVE  IInv'
<1> USE ClientAssumption
<1>0. TypeOK /\ Phases  BY DEF IInv
<1>e. /\ stream_timeout_check' = TRUE
      /\ UNCHANGED <<free, streams, faults, out_queue, internal_out_queue, last_linked_side,
                     local, timeout, expired, free_on_send, out, active, reconnect_queued,
                     in_pc, out_pc, held, exit_pc, timer_alive, unsent, wire>>
  BY <1>0
     DEF TimerTick, poolVars, queueVars, linkVars, timeVars, sendVars, worldVars,
         threadVars, IInv, TypeOK, SetsOK, ThreadsOK
<1>f. /\ UNCHANGED <<linked_stream, app>>
  BY <1>0
     DEF TimerTick, poolVars, queueVars, linkVars, timeVars, sendVars, worldVars,
         threadVars, IInv, TypeOK, FieldsOK
<1>a. TypeOK /\ Phases  BY DEF IInv
<1>1. TypeOK'
  <2>1. SetsOK'
    BY <1>a, <1>0, <1>e DEF TypeOK, SetsOK
  <2>2. FieldsOK'
    BY <1>a, <1>e, <1>f DEF TypeOK, FieldsOK
  <2>3. ThreadsOK'
    BY <1>a, <1>e DEF TypeOK, ThreadsOK
  <2>4. QED  BY <2>1, <2>2, <2>3 DEF TypeOK
<1>2. Phases'
  BY <1>a, <1>0, <1>e DEF Phases
<1>3. ASSUME NEW x \in Streams
      PROVE  (Place(x) /\ Payload(x) /\ Timing(x) /\ Events(x) /\ app[x] # "told twice")'
  <2>1. /\ Place(x) /\ Payload(x) /\ Timing(x) /\ Events(x) /\ app[x] # "told twice"
        /\ held \in Streams \cup {Nil} /\ x # Nil
    BY DEF IInv, TypeOK, ThreadsOK
  <2>q. Queued' = Queued /\ Sending' = Sending
    BY <1>e, <1>0, <2>1 DEF Sending, Queued
  <2>2. Place(x)'
    BY <2>1, <2>q, <1>a, <1>0, <1>e DEF Place, Phases
  <2>3. Payload(x)'
    BY <2>1, <2>q, <1>a, <1>0, <1>e DEF Place, Payload, Queued, Phases
  <2>4. Timing(x)'
    BY <2>1, <2>q, <1>a, <1>0, <1>e DEF Place, Timing, Sweeping, Phases
  <2>5. Events(x)' /\ app'[x] # "told twice"
    BY <2>1, <1>a, <1>0, <1>e, <1>f DEF Place, Timing, Events, Sweeping, Phases
  <2>6. QED  BY <2>2, <2>3, <2>4, <2>5
<1>4. QED
  BY <1>e, <1>f, <1>1, <1>2, <1>3 DEF IInv

\* The TIMEOUT thread ends.
LEMMA TimerExitIInv ==
    ASSUME Calm, IInv, TimerExit
    PROVE  IInv'
<1> USE ClientAssumption
<1>0. TypeOK /\ Phases  BY DEF IInv
<1>e. /\ timer_alive' = FALSE
      /\ UNCHANGED <<free, streams, faults, out_queue, internal_out_queue, last_linked_side,
                     local, timeout, expired, free_on_send, out, active,
                     stream_timeout_check, reconnect_queued, in_pc, out_pc, held, exit_pc,
                     unsent, wire>>
  BY <1>0
     DEF TimerExit, poolVars, queueVars, linkVars, timeVars, sendVars, worldVars,
         flagVars, IInv, TypeOK, SetsOK, ThreadsOK
<1>f. /\ UNCHANGED <<linked_stream, app>>
  BY <1>0
     DEF TimerExit, poolVars, queueVars, linkVars, timeVars, sendVars, worldVars,
         flagVars, IInv, TypeOK, FieldsOK
<1>a. TypeOK /\ Phases  BY DEF IInv
<1>1. TypeOK'
  <2>1. SetsOK'
    BY <1>a, <1>0, <1>e DEF TypeOK, SetsOK
  <2>2. FieldsOK'
    BY <1>a, <1>e, <1>f DEF TypeOK, FieldsOK
  <2>3. ThreadsOK'
    BY <1>a, <1>e DEF TypeOK, ThreadsOK
  <2>4. QED  BY <2>1, <2>2, <2>3 DEF TypeOK
<1>2. Phases'
  BY <1>a, <1>0, <1>e DEF Phases
<1>3. ASSUME NEW x \in Streams
      PROVE  (Place(x) /\ Payload(x) /\ Timing(x) /\ Events(x) /\ app[x] # "told twice")'
  <2>1. /\ Place(x) /\ Payload(x) /\ Timing(x) /\ Events(x) /\ app[x] # "told twice"
        /\ held \in Streams \cup {Nil} /\ x # Nil
    BY DEF IInv, TypeOK, ThreadsOK
  <2>q. Queued' = Queued /\ Sending' = Sending
    BY <1>e, <1>0, <2>1 DEF Sending, Queued
  <2>2. Place(x)'
    BY <2>1, <2>q, <1>a, <1>0, <1>e DEF Place, Phases
  <2>3. Payload(x)'
    BY <2>1, <2>q, <1>a, <1>0, <1>e DEF Place, Payload, Queued, Phases
  <2>4. Timing(x)'
    BY <2>1, <2>q, <1>a, <1>0, <1>e DEF Place, Timing, Sweeping, Phases
  <2>5. Events(x)' /\ app'[x] # "told twice"
    BY <2>1, <1>a, <1>0, <1>e, <1>f DEF Place, Timing, Events, Sweeping, Phases
  <2>6. QED  BY <2>2, <2>3, <2>4, <2>5
<1>4. QED
  BY <1>e, <1>f, <1>1, <1>2, <1>3 DEF IInv

\* The daemon disconnects.
LEMMA AppDisconnectIInv ==
    ASSUME Calm, IInv, AppDisconnect
    PROVE  IInv'
<1> USE ClientAssumption
<1>0. TypeOK /\ Phases  BY DEF IInv
<1>e. /\ active /\ active' = FALSE
      /\ UNCHANGED <<free, streams, faults, out_queue, internal_out_queue, last_linked_side,
                     local, timeout, expired, free_on_send, out, stream_timeout_check,
                     reconnect_queued, in_pc, out_pc, held, exit_pc, timer_alive, unsent,
                     wire>>
  BY <1>0
     DEF AppDisconnect, poolVars, queueVars, linkVars, timeVars, sendVars, worldVars,
         threadVars, IInv, TypeOK, SetsOK, ThreadsOK
<1>f. /\ UNCHANGED <<linked_stream, app>>
  BY <1>0
     DEF AppDisconnect, poolVars, queueVars, linkVars, timeVars, sendVars, worldVars,
         threadVars, IInv, TypeOK, FieldsOK
<1>a. TypeOK /\ Phases  BY DEF IInv
<1>1. TypeOK'
  <2>1. SetsOK'
    BY <1>a, <1>0, <1>e DEF TypeOK, SetsOK
  <2>2. FieldsOK'
    BY <1>a, <1>e, <1>f DEF TypeOK, FieldsOK
  <2>3. ThreadsOK'
    BY <1>a, <1>e DEF TypeOK, ThreadsOK
  <2>4. QED  BY <2>1, <2>2, <2>3 DEF TypeOK
<1>2. Phases'
  BY <1>a, <1>0, <1>e DEF Phases
<1>3. ASSUME NEW x \in Streams
      PROVE  (Place(x) /\ Payload(x) /\ Timing(x) /\ Events(x) /\ app[x] # "told twice")'
  <2>1. /\ Place(x) /\ Payload(x) /\ Timing(x) /\ Events(x) /\ app[x] # "told twice"
        /\ held \in Streams \cup {Nil} /\ x # Nil
    BY DEF IInv, TypeOK, ThreadsOK
  <2>q. Queued' = Queued /\ Sending' = Sending
    BY <1>e, <1>0, <2>1 DEF Sending, Queued
  <2>2. Place(x)'
    BY <2>1, <2>q, <1>a, <1>0, <1>e DEF Place, Phases
  <2>3. Payload(x)'
    BY <2>1, <2>q, <1>a, <1>0, <1>e DEF Place, Payload, Queued, Phases
  <2>4. Timing(x)'
    BY <2>1, <2>q, <1>a, <1>0, <1>e DEF Place, Timing, Sweeping, Phases
  <2>5. Events(x)' /\ app'[x] # "told twice"
    BY <2>1, <1>a, <1>0, <1>e, <1>f DEF Place, Timing, Events, Sweeping, Phases
  <2>6. QED  BY <2>2, <2>3, <2>4, <2>5
<1>4. QED
  BY <1>e, <1>f, <1>1, <1>2, <1>3 DEF IInv

\* The time of a stream is over.
LEMMA ExpireIInv ==
    ASSUME Calm, IInv, NEW s \in Streams, Expire(s)
    PROVE  IInv'
<1> USE ClientAssumption
<1>0. TypeOK /\ Phases  BY DEF IInv
<1>e. /\ expired' = expired \cup {s} /\ s \in streams
      /\ UNCHANGED <<free, streams, faults, out_queue, internal_out_queue, last_linked_side,
                     local, timeout, free_on_send, out, active, stream_timeout_check,
                     reconnect_queued, in_pc, out_pc, held, exit_pc, timer_alive, unsent,
                     wire>>
  BY <1>0
     DEF Expire, poolVars, queueVars, linkVars, sendVars, flagVars, threadVars, worldVars,
         IInv, TypeOK, SetsOK, ThreadsOK
<1>f. /\ UNCHANGED <<linked_stream, app>>
  BY <1>0
     DEF Expire, poolVars, queueVars, linkVars, sendVars, flagVars, threadVars, worldVars,
         IInv, TypeOK, FieldsOK
<1>a. TypeOK /\ Phases  BY DEF IInv
<1>1. TypeOK'
  <2>1. SetsOK'
    BY <1>a, <1>0, <1>e DEF TypeOK, SetsOK
  <2>2. FieldsOK'
    BY <1>a, <1>e, <1>f DEF TypeOK, FieldsOK
  <2>3. ThreadsOK'
    BY <1>a, <1>e DEF TypeOK, ThreadsOK
  <2>4. QED  BY <2>1, <2>2, <2>3 DEF TypeOK
<1>2. Phases'
  BY <1>a, <1>0, <1>e DEF Phases
<1>3. ASSUME NEW x \in Streams
      PROVE  (Place(x) /\ Payload(x) /\ Timing(x) /\ Events(x) /\ app[x] # "told twice")'
  <2>1. /\ Place(x) /\ Payload(x) /\ Timing(x) /\ Events(x) /\ app[x] # "told twice"
        /\ held \in Streams \cup {Nil} /\ x # Nil
    BY DEF IInv, TypeOK, ThreadsOK
  <2>q. Queued' = Queued /\ Sending' = Sending
    BY <1>e, <1>0, <2>1 DEF Sending, Queued
  <2>2. Place(x)'
    BY <2>1, <2>q, <1>a, <1>0, <1>e DEF Place, Phases
  <2>3. Payload(x)'
    BY <2>1, <2>q, <1>a, <1>0, <1>e DEF Place, Payload, Queued, Phases
  <2>4. Timing(x)'
    BY <2>1, <2>q, <1>a, <1>0, <1>e DEF Place, Timing, Sweeping, Phases
  <2>5. Events(x)' /\ app'[x] # "told twice"
    BY <2>1, <1>a, <1>0, <1>e, <1>f DEF Place, Timing, Events, Sweeping, Phases
  <2>6. QED  BY <2>2, <2>3, <2>4, <2>5
<1>4. QED
  BY <1>e, <1>f, <1>1, <1>2, <1>3 DEF IInv

(* process_timeout. *)

\* The events of the first pass: the streams it marks were open.
LEMMA MarkEffect ==
    ASSUME Calm, IInv, NEW S \in SUBSET streams, ~Sweeping, exit_pc # "gone",
           app' = Told(Sides(S)), timeout' = timeout \cup Sides(S)
    PROVE  /\ timeout' = timeout \cup S
           /\ app' \in [Streams -> {"none", "open", "told", "told twice"}]
           /\ \A x \in Streams : app'[x] = IF x \in S THEN "told" ELSE app[x]
<1>1. Sides(S) = S
  <2>1. streams \subseteq Streams
    BY DEF IInv, TypeOK, SetsOK
  <2>2. QED  BY <2>1, NoSides
<1>2. \A x \in S : x \in Streams /\ app[x] = "open"
  BY DEF IInv, TypeOK, SetsOK, Timing, Events
<1>3. app \in [Streams -> {"none", "open", "told", "told twice"}]
  BY DEF IInv, TypeOK, FieldsOK
<1>4. QED  BY <1>1, <1>2, <1>3 DEF Told

\* The first pass, by IN.
LEMMA MarkIInv ==
    ASSUME Calm, IInv, NEW override \in BOOLEAN, MarkTimeouts(override),
           in_pc \in {"run", "reconnect", "poll"},
           in_pc' \in {"sweep", "lost", "failed", "terminate"}, in_pc' = "terminate" => ~active,
           UNCHANGED <<active, reconnect_queued, out_pc, held, timer_alive, exit_pc>>
    PROVE  IInv'
<1> USE ClientAssumption
<1>0. /\ TypeOK /\ Phases /\ ~Sweeping /\ exit_pc = "none" /\ unsent = {}
      /\ Late(override) \subseteq streams /\ Late(override) \cap out = {}
  <2>1. TypeOK /\ Phases /\ exit_pc = "none"
    BY DEF IInv, Phases
  <2>2. unsent = {}
    BY DEF Calm, MarkTimeouts
  <2>3. QED  BY <2>1, <2>2 DEF Sweeping, Late
<1>m. /\ timeout' = timeout \cup Late(override)
      /\ app' \in [Streams -> {"none", "open", "told", "told twice"}]
      /\ \A x \in Streams : app'[x] = IF x \in Late(override) THEN "told" ELSE app[x]
  BY <1>0, MarkEffect DEF MarkTimeouts
<1>e. /\ timeout' = timeout \cup Late(override)
      /\ stream_timeout_check' = FALSE
      /\ in_pc' \in {"sweep", "lost", "failed", "terminate"}
      /\ in_pc' = "terminate" => ~active
      /\ UNCHANGED <<free, streams, faults, out_queue, internal_out_queue, last_linked_side,
                     local, expired, free_on_send, out, active, reconnect_queued, out_pc,
                     held, exit_pc, timer_alive, unsent, wire>>
  BY <1>0, <1>m
     DEF MarkTimeouts, poolVars, queueVars, linkVars, sendVars, IInv, TypeOK, SetsOK,
         ThreadsOK
<1>f. /\ app' \in [Streams -> {"none", "open", "told", "told twice"}]
      /\ \A x \in Streams : app'[x] = IF x \in Late(override) THEN "told" ELSE app[x]
      /\ UNCHANGED linked_stream
  BY <1>0, <1>m
     DEF MarkTimeouts, poolVars, queueVars, linkVars, sendVars, IInv, TypeOK, FieldsOK
<1>a. TypeOK /\ Phases  BY DEF IInv
<1>1. TypeOK'
  <2>1. SetsOK'
    BY <1>a, <1>0, <1>e DEF TypeOK, SetsOK
  <2>2. FieldsOK'
    BY <1>a, <1>e, <1>f DEF TypeOK, FieldsOK
  <2>3. ThreadsOK'
    BY <1>a, <1>e DEF TypeOK, ThreadsOK
  <2>4. QED  BY <2>1, <2>2, <2>3 DEF TypeOK
<1>2. Phases'
  BY <1>a, <1>0, <1>e DEF Phases
<1>3. ASSUME NEW x \in Streams
      PROVE  (Place(x) /\ Payload(x) /\ Timing(x) /\ Events(x) /\ app[x] # "told twice")'
  <2>1. /\ Place(x) /\ Payload(x) /\ Timing(x) /\ Events(x) /\ app[x] # "told twice"
        /\ held \in Streams \cup {Nil} /\ x # Nil
    BY DEF IInv, TypeOK, ThreadsOK
  <2>q. Queued' = Queued /\ Sending' = Sending
    BY <1>e, <1>0, <2>1 DEF Sending, Queued
  <2>2. Place(x)'
    BY <2>1, <2>q, <1>a, <1>0, <1>e DEF Place, Phases, Payload
  <2>3. Payload(x)'
    BY <2>1, <2>q, <1>a, <1>0, <1>e DEF Place, Payload, Queued, Phases
  <2>4. Timing(x)'
    BY <2>1, <2>q, <1>a, <1>0, <1>e DEF Place, Timing, Sweeping, Phases, Payload
  <2>5. Events(x)' /\ app'[x] # "told twice"
    BY <2>1, <1>a, <1>0, <1>e, <1>f DEF Place, Timing, Events, Sweeping, Phases
  <2>6. QED  BY <2>2, <2>3, <2>4, <2>5
<1>4. QED
  BY <1>e, <1>f, <1>1, <1>2, <1>3 DEF IInv

\* The second pass, by any thread.
LEMMA SweepIInv ==
    ASSUME Calm, IInv, SweepTimeouts, Phases', ThreadsOK', held' = held,
           wire' \subseteq wire, exit_pc' = "none" => exit_pc = "none",
           exit_pc # "gone", exit_pc' # "gone"
    PROVE  IInv'
<1> USE ClientAssumption
<1>0. /\ TypeOK /\ Phases /\ Phases'
      /\ streams \cap timeout \subseteq Streams /\ streams \cap timeout \cap free = {}
      /\ Sides(streams \cap timeout) = streams \cap timeout
  <2>1. TypeOK /\ Phases
    BY DEF IInv
  <2>2. streams \cap timeout \subseteq Streams
    BY <2>1 DEF TypeOK, SetsOK
  <2>3. streams \cap timeout \cap free = {}
    BY <2>2 DEF IInv, Place
  <2>4. Sides(streams \cap timeout) = streams \cap timeout
    BY <2>2, NoSides
  <2>5. QED  BY <2>1, <2>2, <2>3, <2>4
<1>e. /\ streams' = streams \ timeout
      /\ free' = free \cup (streams \cap timeout)
      /\ faults' = {}
      /\ wire' \subseteq wire
      /\ (exit_pc' = "none" => exit_pc = "none") /\ exit_pc # "gone" /\ exit_pc' # "gone"
      /\ active' \in BOOLEAN /\ stream_timeout_check' \in BOOLEAN /\ reconnect_queued' \in BOOLEAN
      /\ in_pc' \in {"run", "sweep", "reconnect", "lost", "poll", "failed", "terminate", "done"}
      /\ out_pc' \in {"loop", "sent", "done"}
      /\ timer_alive' \in BOOLEAN
      /\ UNCHANGED <<out_queue, internal_out_queue, last_linked_side, local, timeout, expired,
                     free_on_send, out, held, unsent>>
  BY <1>0
     DEF SweepTimeouts, Deallocate, queueVars, linkVars, timeVars, sendVars, IInv, TypeOK,
         SetsOK, ThreadsOK
<1>f. /\ UNCHANGED <<linked_stream, app>>
  BY <1>0
     DEF SweepTimeouts, Deallocate, queueVars, linkVars, timeVars, sendVars, IInv, TypeOK,
         FieldsOK
<1>a. TypeOK /\ Phases  BY DEF IInv
<1>1. TypeOK'
  <2>1. SetsOK'
    BY <1>a, <1>0, <1>e DEF TypeOK, SetsOK
  <2>2. FieldsOK'
    BY <1>a, <1>e, <1>f DEF TypeOK, FieldsOK
  <2>3. ThreadsOK'
    BY <1>a, <1>e DEF TypeOK, ThreadsOK
  <2>4. QED  BY <2>1, <2>2, <2>3 DEF TypeOK
<1>2. Phases'
  BY <1>a, <1>0, <1>e DEF Phases
<1>3. ASSUME NEW x \in Streams
      PROVE  (Place(x) /\ Payload(x) /\ Timing(x) /\ Events(x) /\ app[x] # "told twice")'
  <2>1. /\ Place(x) /\ Payload(x) /\ Timing(x) /\ Events(x) /\ app[x] # "told twice"
        /\ held \in Streams \cup {Nil} /\ x # Nil
    BY DEF IInv, TypeOK, ThreadsOK
  <2>q. Queued' = Queued /\ Sending' = Sending
    BY <1>e, <1>0, <2>1 DEF Sending, Queued
  <2>2. Place(x)'
    BY <2>1, <2>q, <1>a, <1>0, <1>e DEF Place, Phases, Timing
  <2>3. Payload(x)'
    BY <2>1, <2>q, <1>a, <1>0, <1>e DEF Place, Payload, Queued, Phases
  <2>4. Timing(x)'
    BY <2>1, <2>q, <1>a, <1>0, <1>e DEF Place, Timing, Sweeping, Phases, Timing
  <2>5. Events(x)' /\ app'[x] # "told twice"
    BY <2>1, <1>a, <1>0, <1>e, <1>f DEF Place, Timing, Events, Sweeping, Phases
  <2>6. QED  BY <2>2, <2>3, <2>4, <2>5
<1>4. QED
  BY <1>e, <1>f, <1>1, <1>2, <1>3 DEF IInv

(* The OUT thread. *)

\* A payload leaves the queues and is held until it is sent.
LEMMA OutSendIInv ==
    ASSUME Calm, IInv, NEW s \in Streams, OutSend(s)
    PROVE  IInv'
<1> USE ClientAssumption
<1>0. /\ TypeOK /\ Phases /\ s \in Queued /\ s # Nil /\ held = Nil /\ s \notin unsent
      /\ out_pc = "loop" /\ out_pc' = "sent" /\ held' = s
  <2>1. TypeOK /\ Phases /\ Place(s) /\ out_pc = "loop" /\ out_pc' = "sent" /\ held' = s
    BY DEF IInv, OutSend
  <2>2. s \in Queued
    BY DEF OutSend, Queued
  <2>3. held = Nil
    BY <2>1 DEF Phases
  <2>4. QED  BY <2>1, <2>2, <2>3 DEF Place, Sending
<1>q. \A x \in Streams :
        /\ x \in out_queue' => x \in out_queue
        /\ x \in internal_out_queue' => x \in internal_out_queue
        /\ x \in Queued' => x \in Queued /\ x # s
        /\ x \in Sending' => x \in Sending
  <2>1. Payload(s)
    BY DEF IInv
  <2>2. CASE s \in internal_out_queue /\ internal_out_queue' = internal_out_queue \ {s}
             /\ out_queue' = out_queue
    BY <2>1, <2>2, <1>0 DEF Payload, Queued, Sending
  <2>3. CASE s \in out_queue /\ out_queue' = out_queue \ {s}
             /\ internal_out_queue' = internal_out_queue
    BY <2>1, <2>3, <1>0 DEF Payload, Queued, Sending
  <2>4. QED  BY <2>2, <2>3 DEF OutSend
<1>w. /\ \A x \in Streams : x \in wire' => x \in wire \/ x = s
      /\ wire' \subseteq Streams /\ out_queue' \subseteq Streams /\ internal_out_queue' \subseteq Streams
      /\ reconnect_queued' \in BOOLEAN
  <2>1. CASE wire' = wire \cup {s} /\ UNCHANGED reconnect_queued
    BY <2>1, <1>0, <1>q DEF TypeOK, SetsOK, ThreadsOK, OutSend
  <2>2. CASE reconnect_queued' = TRUE /\ UNCHANGED wire
    BY <2>2, <1>0, <1>q DEF TypeOK, SetsOK, OutSend
  <2>3. QED  BY <2>1, <2>2 DEF OutSend
<1>e. /\ held' = s /\ out_pc' = "sent"
      /\ \A x \in Streams :
            /\ x \in out_queue' => x \in out_queue
            /\ x \in internal_out_queue' => x \in internal_out_queue
            /\ x \in Queued' => x \in Queued /\ x # s
            /\ x \in Sending' => x \in Sending
            /\ x \in wire' => x \in wire \/ x = s
      /\ wire' \subseteq Streams /\ out_queue' \subseteq Streams /\ internal_out_queue' \subseteq Streams
      /\ reconnect_queued' \in BOOLEAN
      /\ UNCHANGED <<free, streams, faults, last_linked_side, local, timeout, expired,
                     free_on_send, out, active, stream_timeout_check, in_pc, exit_pc,
                     timer_alive, unsent>>
  BY <1>0, <1>q, <1>w
     DEF OutSend, poolVars, linkVars, timeVars, sendVars, IInv, TypeOK, SetsOK, ThreadsOK
<1>f. /\ UNCHANGED <<linked_stream, app>>
  BY <1>0 DEF OutSend, poolVars, linkVars, timeVars, sendVars, IInv, TypeOK, FieldsOK
<1>a. TypeOK /\ Phases  BY DEF IInv
<1>1. TypeOK'
  <2>1. SetsOK'
    BY <1>a, <1>0, <1>e DEF TypeOK, SetsOK
  <2>2. FieldsOK'
    BY <1>a, <1>e, <1>f DEF TypeOK, FieldsOK
  <2>3. ThreadsOK'
    BY <1>a, <1>e DEF TypeOK, ThreadsOK
  <2>4. QED  BY <2>1, <2>2, <2>3 DEF TypeOK
<1>2. Phases'
  BY <1>a, <1>0, <1>e DEF Phases
<1>3. ASSUME NEW x \in Streams
      PROVE  (Place(x) /\ Payload(x) /\ Timing(x) /\ Events(x) /\ app[x] # "told twice")'
  <2>1. /\ Place(x) /\ Payload(x) /\ Timing(x) /\ Events(x) /\ app[x] # "told twice"
        /\ held \in Streams \cup {Nil} /\ x # Nil
    BY DEF IInv, TypeOK, ThreadsOK
  <2>q. /\ x \in Queued' => x \in Queued /\ x # s
        /\ x \in Sending' => x \in Sending
    BY <1>e, <1>0, <2>1 DEF Sending, Queued
  <2>2. Place(x)'
    BY <2>1, <2>q, <1>a, <1>0, <1>e DEF Place, Phases
  <2>3. Payload(x)'
    BY <2>1, <2>q, <1>a, <1>0, <1>e DEF Place, Payload, Queued, Phases
  <2>4. Timing(x)'
    BY <2>1, <2>q, <1>a, <1>0, <1>e DEF Place, Timing, Sweeping, Phases
  <2>5. Events(x)' /\ app'[x] # "told twice"
    BY <2>1, <1>a, <1>0, <1>e, <1>f DEF Place, Timing, Events, Sweeping, Phases
  <2>6. QED  BY <2>2, <2>3, <2>4, <2>5
<1>4. QED
  BY <1>e, <1>f, <1>1, <1>2, <1>3 DEF IInv

\* OUT lets go of the payload it has sent.
LEMMA OutReleaseIInv ==
    ASSUME Calm, IInv, OutRelease
    PROVE  IInv'
<1> USE ClientAssumption
<1>0. /\ TypeOK /\ Phases /\ held \in Streams /\ held \in Sending /\ held \notin Queued
      /\ held \in free_on_send => held \notin free /\ held \notin streams
      /\ out_pc = "sent" /\ out_pc' = "loop" /\ held' = Nil
  <2>1. TypeOK /\ Phases /\ out_pc = "sent" /\ out_pc' = "loop" /\ held' = Nil
    BY DEF IInv, OutRelease
  <2>2. held \in Streams
    BY <2>1 DEF Phases, TypeOK, ThreadsOK
  <2>3. Place(held) /\ Payload(held)
    BY <2>2 DEF IInv
  <2>4. held \in Sending /\ held \notin Queued
    BY <2>2, <2>3 DEF Sending, Payload
  <2>5. QED  BY <2>1, <2>2, <2>3, <2>4 DEF Place
<1>q. /\ \A x \in Streams : x \in free' => x \in free \/ (x = held /\ held \in free_on_send)
      /\ \A x \in Streams : x \in out /\ x # held => x \in out'
      /\ free' \subseteq Streams /\ out' \subseteq Streams /\ faults' = {}
  <2>1. CASE held \in free_on_send
    <3>1. Deallocate({held}) /\ out' = out
      BY <2>1 DEF OutRelease, LetGo
    <3>2. free' = free \cup {held} /\ {held} \cap free = {}
      BY <2>1, <3>1, <1>0 DEF Deallocate
    <3>3. faults' = {}
      BY <3>1, <3>2 DEF Deallocate, IInv
    <3>4. QED  BY <2>1, <3>1, <3>2, <3>3, <1>0 DEF TypeOK, SetsOK
  <2>2. CASE held \notin free_on_send
    BY <2>2, <1>0 DEF OutRelease, LetGo, TypeOK, SetsOK, IInv
  <2>3. QED  BY <2>1, <2>2
<1>e. /\ held' = Nil /\ out_pc' = "loop"
      /\ \A x \in Streams : x \in free' => x \in free \/ (x = held /\ held \in free_on_send)
      /\ \A x \in Streams : x \in out /\ x # held => x \in out'
      /\ free' \subseteq Streams /\ out' \subseteq Streams /\ faults' = {}
      /\ UNCHANGED <<streams, out_queue, internal_out_queue, last_linked_side, local, timeout,
                     expired, free_on_send, active, stream_timeout_check, reconnect_queued,
                     in_pc, exit_pc, timer_alive, unsent, wire>>
  BY <1>0, <1>q
     DEF OutRelease, queueVars, linkVars, timeVars, flagVars, worldVars, IInv, TypeOK,
         SetsOK, ThreadsOK
<1>f. /\ UNCHANGED <<linked_stream, app>>
  BY <1>0
     DEF OutRelease, queueVars, linkVars, timeVars, flagVars, worldVars, IInv, TypeOK,
         FieldsOK
<1>a. TypeOK /\ Phases  BY DEF IInv
<1>1. TypeOK'
  <2>1. SetsOK'
    BY <1>a, <1>0, <1>e DEF TypeOK, SetsOK
  <2>2. FieldsOK'
    BY <1>a, <1>e, <1>f DEF TypeOK, FieldsOK
  <2>3. ThreadsOK'
    BY <1>a, <1>e DEF TypeOK, ThreadsOK
  <2>4. QED  BY <2>1, <2>2, <2>3 DEF TypeOK
<1>2. Phases'
  BY <1>a, <1>0, <1>e DEF Phases
<1>3. ASSUME NEW x \in Streams
      PROVE  (Place(x) /\ Payload(x) /\ Timing(x) /\ Events(x) /\ app[x] # "told twice")'
  <2>1. /\ Place(x) /\ Payload(x) /\ Timing(x) /\ Events(x) /\ app[x] # "told twice"
        /\ held \in Streams \cup {Nil} /\ x # Nil
    BY DEF IInv, TypeOK, ThreadsOK
  <2>q. Queued' = Queued /\ (x \in Sending' <=> x \in Sending /\ x # held)
    BY <1>e, <1>0, <2>1 DEF Sending, Queued
  <2>2. Place(x)'
    BY <2>1, <2>q, <1>a, <1>0, <1>e DEF Place, Phases
  <2>3. Payload(x)'
    BY <2>1, <2>q, <1>a, <1>0, <1>e DEF Place, Payload, Queued, Phases
  <2>4. Timing(x)'
    BY <2>1, <2>q, <1>a, <1>0, <1>e DEF Place, Timing, Sweeping, Phases
  <2>5. Events(x)' /\ app'[x] # "told twice"
    BY <2>1, <1>a, <1>0, <1>e, <1>f DEF Place, Timing, Events, Sweeping, Phases
  <2>6. QED  BY <2>2, <2>3, <2>4, <2>5
<1>4. QED
  BY <1>e, <1>f, <1>1, <1>2, <1>3 DEF IInv

(* The exit thread. *)

\* Every stream is timed out.
LEMMA ExitTimeoutIInv ==
    ASSUME Calm, IInv, ExitTimeout
    PROVE  IInv'
<1> USE ClientAssumption
<1>0. /\ TypeOK /\ Phases /\ ~Sweeping /\ exit_pc = "wait" /\ exit_pc' = "sweep" /\ unsent = {}
      /\ streams \subseteq Streams
  <2>1. TypeOK /\ Phases /\ exit_pc = "wait" /\ exit_pc' = "sweep"
    BY DEF IInv, ExitTimeout, ExitGoto
  <2>2. ~Sweeping /\ unsent = {}
    BY <2>1 DEF Phases, Sweeping
  <2>3. QED  BY <2>1, <2>2 DEF TypeOK, SetsOK
<1>m. /\ timeout' = timeout \cup streams
      /\ app' \in [Streams -> {"none", "open", "told", "told twice"}]
      /\ \A x \in Streams : app'[x] = IF x \in streams THEN "told" ELSE app[x]
  BY <1>0, MarkEffect DEF ExitTimeout
<1>e. /\ timeout' = timeout \cup streams
      /\ out' = out \ streams
      /\ stream_timeout_check' = FALSE
      /\ exit_pc' = "sweep"
      /\ UNCHANGED <<free, streams, faults, out_queue, internal_out_queue, last_linked_side,
                     local, expired, free_on_send, active, reconnect_queued, in_pc, out_pc,
                     held, timer_alive, unsent, wire>>
  BY <1>0, <1>m
     DEF ExitTimeout, ExitGoto, poolVars, queueVars, linkVars, IInv, TypeOK, SetsOK,
         ThreadsOK
<1>f. /\ app' \in [Streams -> {"none", "open", "told", "told twice"}]
      /\ \A x \in Streams : app'[x] = IF x \in streams THEN "told" ELSE app[x]
      /\ UNCHANGED linked_stream
  BY <1>0, <1>m DEF ExitTimeout, ExitGoto, poolVars, queueVars, linkVars, IInv, TypeOK, FieldsOK
<1>a. TypeOK /\ Phases  BY DEF IInv
<1>1. TypeOK'
  <2>1. SetsOK'
    BY <1>a, <1>0, <1>e DEF TypeOK, SetsOK
  <2>2. FieldsOK'
    BY <1>a, <1>e, <1>f DEF TypeOK, FieldsOK
  <2>3. ThreadsOK'
    BY <1>a, <1>e DEF TypeOK, ThreadsOK
  <2>4. QED  BY <2>1, <2>2, <2>3 DEF TypeOK
<1>2. Phases'
  BY <1>a, <1>0, <1>e DEF Phases
<1>3. ASSUME NEW x \in Streams
      PROVE  (Place(x) /\ Payload(x) /\ Timing(x) /\ Events(x) /\ app[x] # "told twice")'
  <2>1. /\ Place(x) /\ Payload(x) /\ Timing(x) /\ Events(x) /\ app[x] # "told twice"
        /\ held \in Streams \cup {Nil} /\ x # Nil
    BY DEF IInv, TypeOK, ThreadsOK
  <2>q. Queued' = Queued /\ Sending' = Sending
    BY <1>e, <1>0, <2>1 DEF Sending, Queued
  <2>2. Place(x)'
    BY <2>1, <2>q, <1>a, <1>0, <1>e DEF Place, Phases
  <2>3. Payload(x)'
    BY <2>1, <2>q, <1>a, <1>0, <1>e DEF Place, Payload, Queued, Phases
  <2>4. Timing(x)'
    BY <2>1, <2>q, <1>a, <1>0, <1>e DEF Place, Timing, Sweeping, Phases
  <2>5. Events(x)' /\ app'[x] # "told twice"
    BY <2>1, <1>a, <1>0, <1>e, <1>f DEF Place, Timing, Events, Sweeping, Phases
  <2>6. QED  BY <2>2, <2>3, <2>4, <2>5
<1>4. QED
  BY <1>e, <1>f, <1>1, <1>2, <1>3 DEF IInv

\* Everything is freed.
LEMMA ExitDestroyIInv ==
    ASSUME Calm, IInv, ExitDestroy
    PROVE  IInv'
<1> USE ClientAssumption
<1>0. /\ TypeOK /\ Phases /\ exit_pc = "wait" /\ exit_pc' = "gone" /\ unsent = {}
      /\ out_pc = "done" /\ held = Nil
      /\ Leftover \subseteq Streams /\ Sides(Leftover) = Leftover
      /\ (Leftover \cup streams) \cap free = {} /\ streams \subseteq Streams
  <2>1. TypeOK /\ Phases /\ exit_pc = "wait" /\ exit_pc' = "gone" /\ out_pc = "done"
    BY DEF IInv, ExitDestroy, ExitGoto
  <2>2. unsent = {} /\ held = Nil
    BY <2>1 DEF Phases
  <2>3. Leftover \subseteq Streams /\ streams \subseteq Streams
    BY <2>1 DEF TypeOK, SetsOK, Leftover
  <2>4. Sides(Leftover) = Leftover
    BY <2>3, NoSides
  <2>5. \A x \in Leftover : x \notin free
    BY <2>3 DEF IInv, Place, Leftover, Sending
  <2>6. \A x \in streams : x \notin free
    BY <2>3 DEF IInv, Place
  <2>7. QED  BY <2>1, <2>2, <2>3, <2>4, <2>5, <2>6
<1>e. /\ free' = free \cup Leftover \cup streams
      /\ streams' = {} /\ out_queue' = {} /\ internal_out_queue' = {}
      /\ faults' = {}
      /\ exit_pc' = "gone"
      /\ UNCHANGED <<last_linked_side, local, timeout, expired, free_on_send, out, active,
                     stream_timeout_check, reconnect_queued, in_pc, out_pc, held,
                     timer_alive, unsent, wire>>
  BY <1>0
     DEF ExitDestroy, ExitGoto, Deallocate, linkVars, timeVars, sendVars, flagVars,
         worldVars, IInv, TypeOK, SetsOK, ThreadsOK
<1>f. /\ UNCHANGED <<linked_stream, app>>
  BY <1>0
     DEF ExitDestroy, ExitGoto, Deallocate, linkVars, timeVars, sendVars, flagVars,
         worldVars, IInv, TypeOK, FieldsOK
<1>a. TypeOK /\ Phases  BY DEF IInv
<1>1. TypeOK'
  <2>1. SetsOK'
    BY <1>a, <1>0, <1>e DEF TypeOK, SetsOK
  <2>2. FieldsOK'
    BY <1>a, <1>e, <1>f DEF TypeOK, FieldsOK
  <2>3. ThreadsOK'
    BY <1>a, <1>e DEF TypeOK, ThreadsOK
  <2>4. QED  BY <2>1, <2>2, <2>3 DEF TypeOK
<1>2. Phases'
  BY <1>a, <1>0, <1>e DEF Phases
<1>3. ASSUME NEW x \in Streams
      PROVE  (Place(x) /\ Payload(x) /\ Timing(x) /\ Events(x) /\ app[x] # "told twice")'
  <2>1. /\ Place(x) /\ Payload(x) /\ Timing(x) /\ Events(x) /\ app[x] # "told twice"
        /\ held \in Streams \cup {Nil} /\ x # Nil
    BY DEF IInv, TypeOK, ThreadsOK
  <2>q. x \notin Queued' /\ x \notin Sending'
    BY <1>e, <1>0, <2>1 DEF Sending, Queued
  <2>2. Place(x)'
    BY <2>1, <2>q, <1>a, <1>0, <1>e DEF Place, Phases
  <2>3. Payload(x)'
    BY <2>1, <2>q, <1>a, <1>0, <1>e DEF Place, Payload, Queued, Phases
  <2>4. Timing(x)'
    BY <2>1, <2>q, <1>a, <1>0, <1>e DEF Place, Timing, Sweeping, Phases
  <2>5. Events(x)' /\ app'[x] # "told twice"
    BY <2>1, <1>a, <1>0, <1>e, <1>f DEF Place, Timing, Events, Sweeping, Phases
  <2>6. QED  BY <2>2, <2>3, <2>4, <2>5
<1>4. QED
  BY <1>e, <1>f, <1>1, <1>2, <1>3 DEF IInv

\* IN finds nothing to do and goes on.
LEMMA PassIInv ==
    ASSUME Calm, IInv, in_pc \in {"run", "reconnect"}, in_pc' \in {"reconnect", "poll"},
           UNCHANGED <<poolVars, queueVars, linkVars, timeVars, sendVars, worldVars, flagVars,
                       out_pc, held, timer_alive, exit_pc>>
    PROVE  IInv'
<1> USE ClientAssumption
<1>0. TypeOK /\ Phases  BY DEF IInv
<1>e. /\ in_pc \in {"run", "reconnect"} /\ in_pc' \in {"reconnect", "poll"}
      /\ UNCHANGED <<free, streams, faults, out_queue, internal_out_queue, last_linked_side,
                     local, timeout, expired, free_on_send, out, active,
                     stream_timeout_check, reconnect_queued, out_pc, held, exit_pc,
                     timer_alive, unsent, wire>>
  BY <1>0
     DEF poolVars, queueVars, linkVars, timeVars, sendVars, worldVars, flagVars, IInv,
         TypeOK, SetsOK, ThreadsOK
<1>f. /\ UNCHANGED <<linked_stream, app>>
  BY <1>0
     DEF poolVars, queueVars, linkVars, timeVars, sendVars, worldVars, flagVars, IInv,
         TypeOK, FieldsOK
<1>a. TypeOK /\ Phases  BY DEF IInv
<1>1. TypeOK'
  <2>1. SetsOK'
    BY <1>a, <1>0, <1>e DEF TypeOK, SetsOK
  <2>2. FieldsOK'
    BY <1>a, <1>e, <1>f DEF TypeOK, FieldsOK
  <2>3. ThreadsOK'
    BY <1>a, <1>e DEF TypeOK, ThreadsOK
  <2>4. QED  BY <2>1, <2>2, <2>3 DEF TypeOK
<1>2. Phases'
  BY <1>a, <1>0, <1>e DEF Phases
<1>3. ASSUME NEW x \in Streams
      PROVE  (Place(x) /\ Payload(x) /\ Timing(x) /\ Events(x) /\ app[x] # "told twice")'
  <2>1. /\ Place(x) /\ Payload(x) /\ Timing(x) /\ Events(x) /\ app[x] # "told twice"
        /\ held \in Streams \cup {Nil} /\ x # Nil
    BY DEF IInv, TypeOK, ThreadsOK
  <2>q. Queued' = Queued /\ Sending' = Sending
    BY <1>e, <1>0, <2>1 DEF Sending, Queued
  <2>2. Place(x)'
    BY <2>1, <2>q, <1>a, <1>0, <1>e DEF Place, Phases
  <2>3. Payload(x)'
    BY <2>1, <2>q, <1>a, <1>0, <1>e DEF Place, Payload, Queued, Phases
  <2>4. Timing(x)'
    BY <2>1, <2>q, <1>a, <1>0, <1>e DEF Place, Timing, Sweeping, Phases
  <2>5. Events(x)' /\ app'[x] # "told twice"
    BY <2>1, <1>a, <1>0, <1>e, <1>f DEF Place, Timing, Events, Sweeping, Phases
  <2>6. QED  BY <2>2, <2>3, <2>4, <2>5
<1>4. QED
  BY <1>e, <1>f, <1>1, <1>2, <1>3 DEF IInv

-----------------------------------------------------------------------------
(* The inductive invariant. *)

LEMMA ControlIInv ==
    ASSUME Calm, IInv, InControl
    PROVE  IInv'
<1> USE DEF InGoto, flagVars
<1>a. TypeOK /\ Phases /\ ThreadsOK
  BY DEF IInv, TypeOK
<1>1. CASE InRun
  <2>1. CASE MarkTimeouts(FALSE) /\ InGoto("run", "sweep")
    BY <1>1, <2>1, MarkIInv DEF InRun
  <2>2. CASE ~stream_timeout_check /\ InGoto("run", "reconnect")
    BY <1>1, <2>2, PassIInv DEF InRun
  <2>3. QED  BY <1>1, <2>1, <2>2 DEF InRun
<1>2. CASE InSweep
  BY <1>2, <1>a, SweepIInv DEF InSweep, Phases, ThreadsOK, SweepTimeouts
<1>3. CASE InReconnect
  <2>1. CASE MarkTimeouts(TRUE) /\ InGoto("reconnect", "lost")
    BY <1>3, <2>1, MarkIInv DEF InReconnect
  <2>2. CASE ~reconnect_queued /\ InGoto("reconnect", "poll")
    BY <1>3, <2>2, PassIInv DEF InReconnect
  <2>3. QED  BY <1>3, <2>1, <2>2 DEF InReconnect
<1>4. CASE InLost
  BY <1>4, <1>a, SweepIInv DEF InLost, InitReconnect, Phases, ThreadsOK, SweepTimeouts
<1>5. CASE InSocketError
  BY <1>5, MarkIInv DEF InSocketError
<1>6. CASE InFailed
  BY <1>6, <1>a, SweepIInv DEF InFailed, InitReconnect, Phases, ThreadsOK, SweepTimeouts
<1>7. CASE InNotification
  BY <1>7, InNotificationIInv
<1>8. CASE InIdle
  BY <1>8, InIdleIInv
<1>9. CASE InTerminate
  BY <1>9, MarkIInv DEF InTerminate
<1>10. CASE InExit
  BY <1>10, <1>a, SweepIInv DEF InExit, Phases, ThreadsOK, SweepTimeouts
<1>11. QED
  BY <1>1, <1>2, <1>3, <1>4, <1>5, <1>6, <1>7, <1>8, <1>9, <1>10 DEF InControl

LEMMA NextIInv ==
    ASSUME Calm, IInv, [Next]_vars
    PROVE  IInv'
<1>a. TypeOK /\ Phases /\ ThreadsOK
  BY DEF IInv, TypeOK
<1>1. CASE InControl
  BY <1>1, ControlIInv
<1>2. ASSUME NEW s \in Streams, InReply(s) \/ InStart(s)
      PROVE  IInv'
  BY <1>2, InReplyIInv, InStartIInv
<1>3. ASSUME NEW t \in Streams, InStream(t)
      PROVE  IInv'
  <2>1. ASSUME NEW s \in Streams PROVE ~InLoopbackStart(t, s)
    BY DEF InLoopbackStart, Calm
  <2>2. QED
    BY <1>3, <2>1, InContinueIInv, InEndIInv, InContinueWaitIInv, InContinueWaitBadIInv,
       InStreamCompleteIInv DEF InStream
<1>4. ASSUME NEW s \in Streams, OutSend(s)
      PROVE  IInv'
  BY <1>4, OutSendIInv
<1>5. CASE OutRelease \/ OutExit \/ TimerTick \/ TimerExit
  BY <1>5, OutReleaseIInv, OutExitIInv, TimerTickIInv, TimerExitIInv
<1>6. ASSUME NEW s \in Streams, Expire(s)
      PROVE  IInv'
  BY <1>6, ExpireIInv
<1>7. CASE ExitTimeout \/ ExitDestroy
  BY <1>7, ExitTimeoutIInv, ExitDestroyIInv
<1>8. CASE ExitSweep
  BY <1>8, <1>a, SweepIInv DEF ExitSweep, ExitGoto, flagVars, Phases, ThreadsOK, SweepTimeouts
<1>9. ASSUME NEW s \in Streams,
             AppNewStream(s) \/ AppSend(s) \/ AppDatagram(s) \/ AppDatagramReply(s)
      PROVE  IInv'
  <2>1. ~AppDatagramReply(s)
    BY DEF AppDatagramReply, Calm
  <2>2. QED  BY <1>9, <2>1, AppNewStreamIInv, AppSendIInv, AppDatagramIInv
<1>10. CASE AppDisconnect
  BY <1>10, AppDisconnectIInv
<1>11. CASE UNCHANGED vars
  <2>1. /\ free' = free /\ streams' = streams /\ faults' = faults
        /\ out_queue' = out_queue /\ internal_out_queue' = internal_out_queue
        /\ linked_stream' = linked_stream /\ last_linked_side' = last_linked_side /\ local' = local
        /\ timeout' = timeout /\ expired' = expired /\ free_on_send' = free_on_send /\ out' = out
        /\ active' = active /\ stream_timeout_check' = stream_timeout_check
        /\ reconnect_queued' = reconnect_queued
    BY <1>11 DEF vars, poolVars, queueVars, linkVars, timeVars, sendVars, flagVars
  <2>2. /\ in_pc' = in_pc /\ out_pc' = out_pc /\ held' = held /\ exit_pc' = exit_pc
        /\ timer_alive' = timer_alive /\ unsent' = unsent /\ wire' = wire /\ app' = app
    BY <1>11 DEF vars, threadVars, worldVars
  <2>3. TypeOK'
    <3>1. SetsOK' /\ FieldsOK'
      BY <2>1, <2>2 DEF IInv, TypeOK, SetsOK, FieldsOK
    <3>2. ThreadsOK'
      BY <2>1, <2>2 DEF IInv, TypeOK, ThreadsOK
    <3>3. QED  BY <3>1, <3>2 DEF TypeOK
  <2>4. Phases'
    BY <2>1, <2>2 DEF IInv, Phases
  <2>5. Queued' = Queued /\ Sending' = Sending /\ Sweeping' = Sweeping
    BY <2>1, <2>2 DEF Queued, Sending, Sweeping
  <2>6. ASSUME NEW s \in Streams
        PROVE  Place(s)' /\ Payload(s)' /\ Timing(s)' /\ Events(s)'
    BY <2>1, <2>2, <2>5 DEF IInv, Place, Payload, Timing, Events
  <2>7. QED  BY <2>1, <2>2, <2>3, <2>4, <2>6 DEF IInv
<1>12. QED
  BY <1>1, <1>2, <1>3, <1>4, <1>5, <1>6, <1>7, <1>8, <1>9, <1>10, <1>11
     DEF Next, InThread, OutStep, ExitStep, AppStep

(* The places of every stream and payload are consistent (IInv).            *)
THEOREM Invariance ==
    ASSUME Calm
    PROVE  Spec => []IInv
<1>1. IInv /\ [Next]_vars => IInv'
  BY NextIInv
<1>2. QED  BY InitIInv, <1>1, PTL DEF Spec

(* Nothing is freed or queued twice, however timeouts, answers, lost        *)
(* connections and the end of the client interleave (deallocate_constructed *)
(* and the queues would take both).                                         *)
THEOREM NothingIsDoneTwice ==
    ASSUME Calm
    PROVE  Spec => []NothingTwice
<1>1. IInv => NothingTwice  BY DEF IInv, NothingTwice
<1>2. QED  BY <1>1, Invariance, PTL

(* A stream in the pool is neither active nor in OUT's hands: what          *)
(* process_timeout and out_process rely on.                                 *)
THEOREM StreamsHaveOneOwner ==
    ASSUME Calm
    PROVE  Spec => []OneOwner
<1>1. IInv => OneOwner
  <2> SUFFICES ASSUME IInv PROVE OneOwner
    OBVIOUS
  <2>1. streams \subseteq Streams /\ Sending \subseteq Streams
    BY DEF IInv, TypeOK, SetsOK, ThreadsOK, Sending, Queued
  <2>2. Sides(streams) = streams
    BY <2>1, NoSides
  <2>3. QED  BY <2>1, <2>2 DEF IInv, Place, OneOwner
<1>2. QED  BY <1>1, Invariance, PTL

(* The daemon has one event for the end of each stream, before the stream   *)
(* is recycled.                                                             *)
THEOREM DaemonIsToldOnce ==
    ASSUME Calm
    PROVE  Spec => []ToldOnce
<1>1. IInv => ToldOnce
  <2> SUFFICES ASSUME IInv PROVE ToldOnce
    OBVIOUS
  <2>1. \A s \in Streams : app[s] # "told twice"
    BY DEF IInv
  <2>2. ASSUME exit_pc # "gone", NEW s \in free PROVE app[s] # "open"
    BY <2>2 DEF IInv, TypeOK, SetsOK, Place, Events
  <2>3. QED  BY <2>1, <2>2 DEF ToldOnce
<1>2. QED  BY <1>1, Invariance, PTL
-----------------------------------------------------------------------------
(***************************************************************************)
(* When internal_out_queue has room for the payloads of all streams, no    *)
(* stream is lost, and the out flag says where the payload is.             *)
(***************************************************************************)

(* A push is refused only when the queue holds as many payloads as there are. *)
Room == InternalRoom >= Cardinality(Streams)

\* Somebody has s: it is active, or OUT will free it.
Held(s) ==
    exit_pc # "gone" /\ s \notin free => s \in streams \/ (s \in free_on_send /\ s \in Sending)

\* The out flag of s is true of its payload.
Flagged(s) ==
    exit_pc = "none" /\ s \in streams /\ s \in out /\ s \notin unsent => s \in Sending

KInv ==
    /\ IInv
    /\ exit_pc = "gone" => free = Streams
    /\ \A s \in Streams : Held(s) /\ Flagged(s)
-----------------------------------------------------------------------------
LEMMA InitKInv == Init => KInv
<1> SUFFICES ASSUME Init PROVE KInv
  OBVIOUS
<1>1. IInv
  BY InitIInv
<1>2. QED  BY <1>1 DEF Init, KInv, Held, Flagged

(* With room, a push to internal_out_queue is not refused. *)
LEMMA PushInternalTaken ==
    ASSUME Room, IInv, NEW s \in Streams, s \notin internal_out_queue, PushInternal(s)
    PROVE  out_queue' = out_queue /\ internal_out_queue' = internal_out_queue \cup {s}
<1>1. internal_out_queue \in SUBSET (Streams \ {s})
  BY DEF IInv, TypeOK, SetsOK
<1>2. /\ IsFiniteSet(Streams \ {s})
      /\ Cardinality(Streams \ {s}) = Cardinality(Streams) - 1
      /\ Cardinality(Streams) \in Nat
  BY ClientAssumption, FS_RemoveElement, FS_CardinalityType
<1>3. Cardinality(internal_out_queue) <= Cardinality(Streams) - 1
      /\ Cardinality(internal_out_queue) \in Nat
  BY <1>1, <1>2, FS_Subset, FS_CardinalityType
<1>4. ~(Cardinality(internal_out_queue) >= InternalRoom)
  BY <1>2, <1>3, ClientAssumption DEF Room
<1>5. QED  BY <1>4 DEF PushInternal

(* A step that leaves the places of the streams and payloads alone. *)
LEMMA SamePlaces ==
    ASSUME KInv, IInv',
           UNCHANGED <<free, streams, out_queue, internal_out_queue, held, free_on_send, out,
                       unsent, exit_pc>>
    PROVE  KInv'
<1>1. Sending' = Sending
  BY DEF Sending, Queued
<1>2. ASSUME NEW x \in Streams PROVE Held(x)' /\ Flagged(x)'
  BY <1>1 DEF KInv, Held, Flagged
<1>3. QED  BY <1>2 DEF KInv

(* A step by which s enters a queue.  It is in the list, or is to be freed. *)
LEMMA Enqueued ==
    ASSUME KInv, IInv', NEW s \in Streams, exit_pc = "none", exit_pc' = "none",
           out_queue' \cup internal_out_queue' = Queued \cup {s}, held' = held, s # Nil,
           \A x \in Streams \ {s} :
              /\ x \in free' <=> x \in free
              /\ x \in streams' <=> x \in streams
              /\ x \in free_on_send' <=> x \in free_on_send
              /\ x \in out' <=> x \in out
              /\ x \in unsent' <=> x \in unsent,
           s \in streams' \/ s \in free_on_send'
    PROVE  KInv'
<1>1. Sending' = Sending \cup {s}
  BY DEF Sending, Queued
<1>2. ASSUME NEW x \in Streams PROVE Held(x)' /\ Flagged(x)'
  <2>1. CASE x = s
    BY <1>1, <2>1 DEF Held, Flagged
  <2>2. CASE x # s
    BY <1>1, <1>2, <2>2 DEF KInv, Held, Flagged
  <2>3. QED  BY <2>1, <2>2
<1>3. QED  BY <1>2 DEF KInv

(* Packets that enter internal_out_queue. *)
LEMMA InPushKInv ==
    ASSUME Calm, Room, KInv, IInv', NEW s \in Streams,
           \/ InReply(s) \/ InStart(s)
           \/ InContinue(s) \/ InEnd(s) \/ InContinueWaitBad(s)
    PROVE  KInv'
<1>0. IInv /\ s # Nil /\ held \in Streams \cup {Nil}
  BY ClientAssumption DEF KInv, IInv, TypeOK, ThreadsOK
<1>1. CASE InReply(s)
  <2>1. s \in free /\ in_pc = "poll" /\ exit_pc' = exit_pc /\ held' = held
    BY <1>1 DEF InReply, InMessage, InGoto, AllocateForPacket
  <2>2. exit_pc = "none" /\ s \notin Queued
    BY <1>0, <2>1 DEF IInv, Phases, Place, Sending
  <2>3. out_queue' \cup internal_out_queue' = Queued \cup {s}
    BY <1>0, <1>1, <2>2, PushInternalTaken DEF InReply, Queued
  <2>4. /\ free' = free \ {s} /\ free_on_send' = free_on_send \cup {s}
        /\ UNCHANGED <<streams, out, unsent>>
    BY <1>1 DEF InReply, AllocateForPacket
  <2>5. QED  BY <1>0, <2>1, <2>2, <2>3, <2>4, Enqueued
<1>2. CASE InStart(s)
  <2>1. s \in free /\ in_pc = "poll" /\ exit_pc' = exit_pc /\ held' = held
    BY <1>2 DEF InStart, InMessage, InGoto, AllocateAndReset
  <2>2. exit_pc = "none" /\ s \notin Queued
    BY <1>0, <2>1 DEF IInv, Phases, Place, Sending
  <2>3. out_queue' \cup internal_out_queue' = Queued \cup {s}
    BY <1>0, <1>2, <2>2, PushInternalTaken DEF InStart, Queued
  <2>4. /\ free' = free \ {s} /\ free_on_send' = free_on_send \ {s}
        /\ streams' = streams \cup {s} /\ out' = out \cup {s}
        /\ UNCHANGED unsent
    BY <1>2 DEF InStart, AllocateAndReset, SendAndKeep
  <2>5. QED  BY <1>0, <2>1, <2>2, <2>3, <2>4, Enqueued
<1>3. CASE InContinue(s)
  <2>1. Answerable(s) /\ in_pc = "poll" /\ exit_pc' = exit_pc /\ held' = held
    BY <1>3 DEF InContinue, InMessage, InGoto
  <2>2. /\ exit_pc = "none" /\ s \notin Queued /\ s \in streams /\ Turn(s) = s
    BY <1>0, <2>1, AnsweredIsFree
  <2>3. out_queue' \cup internal_out_queue' = Queued \cup {s}
    BY <1>0, <1>3, <2>2, PushInternalTaken DEF InContinue, Queued
  <2>4. /\ free_on_send' = free_on_send \ {s} /\ out' = out \cup {s}
        /\ UNCHANGED <<free, streams, unsent>>
    BY <1>3, <2>2 DEF InContinue, SendAndKeep
  <2>5. QED  BY <1>0, <2>1, <2>2, <2>3, <2>4, Enqueued
<1>4. CASE InEnd(s)
  <2>1. Answerable(s) /\ in_pc = "poll" /\ exit_pc' = exit_pc /\ held' = held
    BY <1>4 DEF InEnd, InMessage, InGoto
  <2>2. /\ exit_pc = "none" /\ s \notin Queued /\ Turn(s) = s /\ linked_stream[s] = Nil
    BY <1>0, <2>1, AnsweredIsFree
  <2>3. out_queue' \cup internal_out_queue' = Queued \cup {s}
    BY <1>0, <1>4, <2>2, PushInternalTaken DEF InEnd, Queued
  <2>4. /\ free_on_send' = free_on_send \cup {s} /\ streams' = streams \ {s}
        /\ UNCHANGED <<free, out, unsent>>
    BY <1>4, <2>2 DEF InEnd
  <2>5. QED  BY <1>0, <2>1, <2>2, <2>3, <2>4, Enqueued
<1>5. CASE InContinueWaitBad(s)
  <2>1. Answerable(s) /\ in_pc = "poll" /\ exit_pc' = exit_pc /\ held' = held
    BY <1>5 DEF InContinueWaitBad, InMessage, InGoto
  <2>2. exit_pc = "none" /\ s \notin Queued
    BY <1>0, <2>1, AnsweredIsFree
  <2>3. out_queue' \cup internal_out_queue' = Queued \cup {s}
    BY <1>0, <1>5, <2>2, PushInternalTaken DEF InContinueWaitBad, Queued
  <2>4. /\ free_on_send' = free_on_send \cup {s} /\ streams' = streams \ {s}
        /\ UNCHANGED <<free, out, unsent>>
    BY <1>5 DEF InContinueWaitBad
  <2>5. QED  BY <1>0, <2>1, <2>2, <2>3, <2>4, Enqueued
<1>6. QED  BY <1>1, <1>2, <1>3, <1>4, <1>5

(* Streams that leave the list and return to the pool. *)
LEMMA Unlisted ==
    ASSUME KInv, IInv', NEW S \in SUBSET Streams,
           free' = free \cup S, streams' = streams \ S,
           UNCHANGED <<out_queue, internal_out_queue, held, free_on_send, out, unsent>>,
           exit_pc # "gone", exit_pc' # "gone", exit_pc' = "none" => exit_pc = "none"
    PROVE  KInv'
<1>1. Sending' = Sending
  BY DEF Sending, Queued
<1>2. ASSUME NEW x \in Streams PROVE Held(x)' /\ Flagged(x)'
  BY <1>1 DEF KInv, Held, Flagged
<1>3. QED  BY <1>2 DEF KInv

LEMMA SweepKInv ==
    ASSUME KInv, IInv', SweepTimeouts, held' = held,
           exit_pc # "gone", exit_pc' # "gone", exit_pc' = "none" => exit_pc = "none"
    PROVE  KInv'
<1>1. streams \cap timeout \in SUBSET Streams
  BY DEF KInv, IInv, TypeOK, SetsOK
<1>2. Sides(streams \cap timeout) = streams \cap timeout
  BY <1>1, NoSides DEF KInv
<1>3. /\ free' = free \cup (streams \cap timeout)
      /\ streams' = streams \ (streams \cap timeout)
      /\ UNCHANGED <<out_queue, internal_out_queue, free_on_send, out, unsent>>
  BY <1>2 DEF SweepTimeouts, Deallocate, queueVars, sendVars
<1>4. QED  BY <1>1, <1>3, Unlisted

LEMMA InStreamCompleteKInv ==
    ASSUME Calm, KInv, IInv', NEW t \in Streams, InStreamComplete(t)
    PROVE  KInv'
<1>1. /\ Answerable(t) /\ in_pc = "poll" /\ IInv
      /\ UNCHANGED <<out_queue, internal_out_queue, held, free_on_send, out, unsent, exit_pc>>
  BY DEF InStreamComplete, InMessage, InGoto, queueVars, sendVars, KInv
<1>2. exit_pc = "none" /\ Sides({t}) = {t}
  BY <1>1, AnsweredIsFree
<1>3. free' = free \cup {t} /\ streams' = streams \ {t}
  BY <1>2 DEF InStreamComplete, Deallocate
<1>4. QED  BY <1>1, <1>2, <1>3, Unlisted

(* The steps of IN's own loop. *)
LEMMA ControlKInv ==
    ASSUME Calm, KInv, IInv', InControl
    PROVE  KInv'
<1>0. IInv /\ Phases
  BY DEF KInv, IInv
<1>1. CASE InRun \/ InReconnect \/ InSocketError \/ InNotification \/ InIdle \/ InTerminate
  <2>1. UNCHANGED <<free, streams, out_queue, internal_out_queue, held, free_on_send, out,
                    unsent, exit_pc>>
    BY <1>1 DEF InRun, InReconnect, InSocketError, InNotification, InIdle, InTerminate, InGoto,
                MarkTimeouts, poolVars, queueVars, sendVars, worldVars
  <2>2. QED  BY <2>1, SamePlaces
<1>2. CASE InSweep \/ InLost \/ InFailed \/ InExit
  <2>1. /\ SweepTimeouts /\ held' = held
        /\ exit_pc' = exit_pc \/ exit_pc' = "wait"
        /\ in_pc \in {"sweep", "lost", "failed", "terminate"}
    BY <1>2 DEF InSweep, InLost, InFailed, InExit, InGoto
  <2>2. exit_pc = "none"
    BY <1>0, <2>1 DEF Phases
  <2>3. QED  BY <2>1, <2>2, SweepKInv
<1>3. QED  BY <1>1, <1>2 DEF InControl

(* The steps of OUT. *)
LEMMA OutSendKInv ==
    ASSUME KInv, IInv', NEW s \in Streams, OutSend(s)
    PROVE  KInv'
<1>1. /\ held = Nil /\ held' = s /\ s # Nil
      /\ Queued' \cup {s} = Queued
      /\ UNCHANGED <<free, streams, free_on_send, out, unsent, exit_pc>>
  BY ClientAssumption
     DEF OutSend, KInv, IInv, Phases, poolVars, sendVars, Queued
<1>2. Sending' = Sending
  BY <1>1 DEF Sending
<1>3. ASSUME NEW x \in Streams PROVE Held(x)' /\ Flagged(x)'
  BY <1>1, <1>2 DEF KInv, Held, Flagged
<1>4. QED  BY <1>1, <1>3 DEF KInv

LEMMA OutReleaseKInv ==
    ASSUME KInv, IInv', OutRelease
    PROVE  KInv'
<1>1. /\ held # Nil /\ held \in Streams /\ held' = Nil
      /\ exit_pc # "gone" /\ exit_pc' = exit_pc
      /\ UNCHANGED <<streams, free_on_send, unsent>>
      /\ Queued' = Queued
      /\ IInv
  BY DEF OutRelease, KInv, IInv, Phases, TypeOK, ThreadsOK, queueVars, worldVars, Queued
<1>2. Sending' \cup {held} = Sending
  BY <1>1 DEF Sending
<1>3. \/ held \in free_on_send /\ free' = free \cup {held} /\ out' = out
      \/ held \notin free_on_send /\ free' = free /\ out' = out \ {held}
  BY DEF OutRelease, LetGo, Deallocate
<1>4. ASSUME NEW x \in Streams PROVE Held(x)' /\ Flagged(x)'
  <2>1. Held(x) /\ Flagged(x) /\ Place(held) /\ held \in Sending
    BY <1>1, <1>2 DEF KInv, IInv
  <2>2. CASE x = held
    BY <1>1, <1>3, <2>1, <2>2 DEF Held, Flagged, Place
  <2>3. CASE x # held
    BY <1>1, <1>2, <1>3, <2>1, <2>3 DEF Held, Flagged
  <2>4. QED  BY <2>2, <2>3
<1>5. QED  BY <1>1, <1>4 DEF KInv

(* The steps of the exit thread. *)
LEMMA ExitTimeoutKInv ==
    ASSUME KInv, IInv', ExitTimeout
    PROVE  KInv'
<1>1. /\ exit_pc = "wait" /\ exit_pc' = "sweep" /\ Sending' = Sending
      /\ UNCHANGED <<free, streams, free_on_send>>
  BY DEF ExitTimeout, ExitGoto, poolVars, queueVars, Sending, Queued
<1>2. ASSUME NEW x \in Streams PROVE Held(x)' /\ Flagged(x)'
  BY <1>1 DEF KInv, Held, Flagged
<1>3. QED  BY <1>1, <1>2 DEF KInv

\* All that is not in the pool is found by the destruction.
LEMMA ExitDestroyKInv ==
    ASSUME KInv, IInv', ExitDestroy
    PROVE  KInv'
<1>1. /\ exit_pc = "wait" /\ exit_pc' = "gone" /\ held = Nil
      /\ IInv /\ free \subseteq Streams /\ streams \subseteq Streams
      /\ Leftover \in SUBSET Streams
  BY DEF ExitDestroy, ExitGoto, KInv, IInv, Phases, TypeOK, SetsOK, Leftover, Queued
<1>2. free' = free \cup Leftover \cup streams
  <2>1. Sides(Leftover) = Leftover
    BY <1>1, NoSides
  <2>2. QED  BY <2>1 DEF ExitDestroy, Deallocate
<1>3. ASSUME NEW x \in Streams PROVE x \in free'
  BY <1>1, <1>2 DEF KInv, Held, Sending, Leftover
<1>4. free' = Streams
  BY <1>1, <1>2, <1>3
<1>5. QED  BY <1>1, <1>4 DEF KInv, Held, Flagged

(* The steps of the daemon. *)
LEMMA AppKInv ==
    ASSUME Calm, KInv, IInv', NEW s \in Streams,
           AppNewStream(s) \/ AppSend(s) \/ AppDatagram(s)
    PROVE  KInv'
<1>0. /\ IInv /\ Phases /\ s # Nil /\ held \in Streams \cup {Nil}
      /\ in_pc # "done" => exit_pc = "none"
      /\ Place(s)
  BY ClientAssumption DEF KInv, IInv, Phases, TypeOK, ThreadsOK
<1>1. CASE AppNewStream(s)
  <2>1. /\ free' = free \ {s} /\ streams' = streams \cup {s} /\ unsent' = unsent \cup {s}
        /\ UNCHANGED <<out_queue, internal_out_queue, held, free_on_send, out, exit_pc>>
        /\ exit_pc = "none"
    BY <1>0, <1>1 DEF AppNewStream, AllocateAndReset, queueVars, sendVars, threadVars, Phases
  <2>2. Sending' = Sending
    BY <2>1 DEF Sending, Queued
  <2>3. ASSUME NEW x \in Streams PROVE Held(x)' /\ Flagged(x)'
    BY <2>1, <2>2 DEF KInv, Held, Flagged
  <2>4. QED  BY <2>1, <2>3 DEF KInv
<1>2. CASE AppSend(s)
  <2>1. /\ out_queue' \cup internal_out_queue' = Queued \cup {s}
        /\ free_on_send' = free_on_send \ {s} /\ out' = out \cup {s} /\ unsent' = unsent \ {s}
        /\ UNCHANGED <<free, streams, held, exit_pc>>
        /\ s \in unsent
    BY <1>2 DEF AppSend, SendAndKeep, PushOut, Queued, threadVars
  <2>2. s \in streams /\ exit_pc = "none"
    BY <1>0, <2>1 DEF Place, Phases
  <2>3. QED  BY <1>0, <2>1, <2>2, Enqueued
<1>3. CASE AppDatagram(s)
  <2>1. /\ out_queue' \cup internal_out_queue' = Queued \cup {s}
        /\ free' = free \ {s} /\ free_on_send' = free_on_send \cup {s}
        /\ UNCHANGED <<streams, held, out, unsent, exit_pc>>
        /\ exit_pc = "none"
    BY <1>0, <1>3 DEF AppDatagram, AllocateForPacket, PushOut, Queued, threadVars, Phases
  <2>2. QED  BY <1>0, <2>1, Enqueued
<1>4. QED  BY <1>1, <1>2, <1>3

LEMMA NextKInv ==
    ASSUME Calm, Room, KInv, [Next]_vars
    PROVE  KInv'
<1>0. IInv /\ IInv'
  BY NextIInv DEF KInv
<1>1. CASE InControl
  BY <1>0, <1>1, ControlKInv
<1>2. ASSUME NEW s \in Streams, InReply(s) \/ InStart(s)
      PROVE  KInv'
  BY <1>0, <1>2, InPushKInv
<1>3. ASSUME NEW t \in Streams, InStream(t)
      PROVE  KInv'
  <2>1. ASSUME NEW s \in Streams PROVE ~InLoopbackStart(t, s)
    BY DEF InLoopbackStart, Calm
  <2>2. ASSUME InContinueWait(t) PROVE KInv'
    BY <1>0, <2>2, SamePlaces
       DEF InContinueWait, InMessage, InGoto, poolVars, queueVars, sendVars, worldVars
  <2>3. QED
    BY <1>0, <1>3, <2>1, <2>2, InPushKInv, InStreamCompleteKInv DEF InStream
<1>4. ASSUME NEW s \in Streams, OutSend(s)
      PROVE  KInv'
  BY <1>0, <1>4, OutSendKInv
<1>5. CASE OutRelease
  BY <1>0, <1>5, OutReleaseKInv
<1>6. CASE OutExit \/ TimerTick \/ TimerExit \/ (\E s \in Streams : Expire(s)) \/ AppDisconnect
           \/ UNCHANGED vars
  <2>1. UNCHANGED <<free, streams, out_queue, internal_out_queue, held, free_on_send, out,
                    unsent, exit_pc>>
    BY <1>6 DEF OutExit, TimerTick, TimerExit, Expire, AppDisconnect, vars, poolVars, queueVars,
                sendVars, threadVars, worldVars
  <2>2. QED  BY <1>0, <2>1, SamePlaces
<1>7. CASE ExitTimeout \/ ExitDestroy
  BY <1>0, <1>7, ExitTimeoutKInv, ExitDestroyKInv
<1>8. CASE ExitSweep
  BY <1>0, <1>8, SweepKInv DEF ExitSweep, ExitGoto
<1>9. ASSUME NEW s \in Streams,
             AppNewStream(s) \/ AppSend(s) \/ AppDatagram(s) \/ AppDatagramReply(s)
      PROVE  KInv'
  <2>1. ~AppDatagramReply(s)
    BY DEF AppDatagramReply, Calm
  <2>2. QED  BY <1>0, <1>9, <2>1, AppKInv
<1>10. QED
  BY <1>1, <1>2, <1>3, <1>4, <1>5, <1>6, <1>7, <1>8, <1>9
     DEF Next, InThread, OutStep, ExitStep, AppStep
-----------------------------------------------------------------------------
LEMMA KeepsKInv ==
    ASSUME Calm, Room
    PROVE  Spec => []KInv
<1>1. KInv /\ [Next]_vars => KInv'
  BY NextKInv
<1>2. QED  BY InitKInv, <1>1, PTL DEF Spec

(* No stream is lost: what the pool does not hold is active or is freed by  *)
(* OUT, and the destruction of the client finds all of it                   *)
(* (remove_client, ~R14PClient).                                            *)
THEOREM NothingLeaks ==
    ASSUME Calm, Room
    PROVE  Spec => []NoLeak
<1>1. KInv => NoLeak
  <2> SUFFICES ASSUME KInv PROVE NoLeak
    OBVIOUS
  <2>1. Sides(streams) = streams
    BY NoSides DEF KInv, IInv, TypeOK, SetsOK
  <2>2. QED  BY <2>1 DEF KInv, Held, NoLeak
<1>2. QED  BY <1>1, KeepsKInv, PTL

(* The out flag of an active stream is true of its payload, so that         *)
(* process_timeout skips what OUT has and nothing else.                     *)
THEOREM OutFlagIsTrue ==
    ASSUME Calm, Room
    PROVE  Spec => []OutIsQueued
<1>1. KInv => OutIsQueued
  <2> SUFFICES ASSUME KInv, exit_pc = "none"
               PROVE  (streams \ unsent) \cap out = streams \cap Sending
    BY DEF OutIsQueued
  <2>1. ASSUME NEW s \in streams
        PROVE  (s \notin unsent /\ s \in out) <=> s \in Sending
    <3>1. s \in Streams /\ Place(s) /\ Payload(s) /\ Flagged(s)
      BY DEF KInv, IInv, TypeOK, SetsOK
    <3>2. QED  BY <3>1 DEF Place, Payload, Flagged
  <2>2. QED  BY <2>1
<1>2. QED  BY <1>1, KeepsKInv, PTL
-----------------------------------------------------------------------------
(* What returns to the pool in one step. *)

\* Before the exit thread, only a sweep, an answer, and OUT return streams.
LEMMA FreedBy ==
    ASSUME [Next]_vars, exit_pc = "none"
    PROVE  \/ free' \subseteq free
           \/ free' = free \cup Sides(streams \cap timeout)
           \/ \E t \in Streams : InMessage /\ Answerable(t) /\ free' = free \cup Sides({t})
           \/ out_pc = "sent" /\ free' = free \cup {held}
<1>1. CASE InControl
  <2>1. CASE UNCHANGED poolVars
    BY <2>1 DEF poolVars
  <2>2. CASE SweepTimeouts
    BY <2>2 DEF SweepTimeouts, Deallocate
  <2>3. CASE \E o \in BOOLEAN : MarkTimeouts(o)
    BY <2>3 DEF MarkTimeouts, poolVars
  <2>4. QED
    BY <1>1, <2>1, <2>2, <2>3
       DEF InControl, InRun, InSweep, InReconnect, InLost, InSocketError, InFailed,
           InNotification, InIdle, InTerminate, InExit
<1>2. ASSUME NEW s \in Streams, InReply(s) \/ InStart(s) PROVE free' \subseteq free
  BY <1>2 DEF InReply, InStart, AllocateForPacket, AllocateAndReset
<1>3. ASSUME NEW t \in Streams, InStream(t)
      PROVE  \/ free' \subseteq free
             \/ InMessage /\ Answerable(t) /\ free' = free \cup Sides({t})
  <2>1. CASE InStreamComplete(t)
    BY <2>1 DEF InStreamComplete, Deallocate
  <2>2. CASE InContinue(t) \/ InEnd(t) \/ InContinueWait(t) \/ InContinueWaitBad(t)
    BY <2>2 DEF InContinue, InEnd, InContinueWait, InContinueWaitBad, poolVars
  <2>3. CASE \E s \in Streams : InLoopbackStart(t, s)
    BY <2>3 DEF InLoopbackStart
  <2>4. QED  BY <1>3, <2>1, <2>2, <2>3 DEF InStream
<1>4. CASE OutStep
  <2>1. CASE OutRelease
    BY <2>1 DEF OutRelease, LetGo, Deallocate
  <2>2. CASE OutExit \/ \E s \in Streams : OutSend(s)
    BY <2>2 DEF OutExit, OutSend, poolVars
  <2>3. QED  BY <1>4, <2>1, <2>2 DEF OutStep
<1>5. ~ExitStep
  BY DEF ExitStep, ExitTimeout, ExitSweep, ExitDestroy, ExitGoto
<1>6. CASE AppStep
  <2>1. CASE AppDisconnect \/ \E s \in Streams : AppSend(s)
    BY <2>1 DEF AppDisconnect, AppSend, poolVars
  <2>2. CASE \E s \in Streams : AppNewStream(s) \/ AppDatagram(s) \/ AppDatagramReply(s)
    BY <2>2 DEF AppNewStream, AppDatagram, AppDatagramReply, AllocateForPacket, AllocateAndReset
  <2>3. QED  BY <1>6, <2>1, <2>2 DEF AppStep
<1>7. CASE TimerTick \/ TimerExit \/ UNCHANGED vars \/ \E s \in Streams : Expire(s)
  BY <1>7 DEF TimerTick, TimerExit, Expire, vars, poolVars
<1>8. QED  BY <1>1, <1>2, <1>3, <1>4, <1>5, <1>6, <1>7 DEF Next, InThread

(* A timeout, an answer or the end of its transfer returns a stream to the  *)
(* pool only when its payload is in no queue: OUT would send the payload of *)
(* another stream (process_timeout, "skip if still in out_queue").          *)
THEOREM FreedAreSent ==
    ASSUME Calm
    PROVE  Spec => FreedAfterTransfer
<1>1. ASSUME IInv, [Next]_vars, exit_pc = "none"
      PROVE  (free' \ free) \cap Queued = {}
  <2>1. /\ \A x \in Streams : Payload(x) /\ Timing(x)
        /\ streams \subseteq Streams
        /\ out_pc = "sent" => held \in Streams
    BY <1>1 DEF IInv, TypeOK, SetsOK, ThreadsOK, Phases
  <2>2. CASE free' = free \cup Sides(streams \cap timeout)
    <3>1. Sides(streams \cap timeout) = streams \cap timeout
      BY <1>1, <2>1, NoSides
    <3>2. \A x \in streams \cap timeout : x \notin Queued
      BY <1>1, <2>1 DEF Timing, Sending
    <3>3. QED  BY <2>2, <3>1, <3>2
  <2>3. ASSUME NEW t \in Streams, Answerable(t), free' = free \cup Sides({t})
        PROVE  (free' \ free) \cap Queued = {}
    <3>1. Sides({t}) = {t}
      BY <1>1, NoSides
    <3>2. t \notin Queued
      BY <2>1, <2>3, <3>1 DEF Answerable, Payload
    <3>3. QED  BY <2>3, <3>1, <3>2
  <2>4. CASE out_pc = "sent" /\ free' = free \cup {held}
    <3>1. held \notin Queued
      BY <2>1, <2>4 DEF Payload
    <3>2. QED  BY <2>4, <3>1
  <2>5. QED  BY <1>1, <2>2, <2>3, <2>4, FreedBy
<1>2. QED  BY <1>1, Invariance, PTL DEF Spec, FreedAfterTransfer
-----------------------------------------------------------------------------
(* Where the threads are, when no timeout check falls between new_stream    *)
(* and send.                                                                *)

LEMMA NextPhases ==
    ASSUME PromptSend, TypeOK, Phases, [Next]_vars
    PROVE  Phases'
<1>a. /\ exit_pc = "none" <=> in_pc # "done"
      /\ in_pc \in {"terminate", "done"} => ~active /\ unsent = {}
      /\ out_pc = "sent" <=> held # Nil
      /\ exit_pc = "gone" => streams = {} /\ out_pc = "done"
      /\ exit_pc \in {"none", "wait", "sweep", "gone"}
  BY DEF Phases, TypeOK, ThreadsOK
<1>1. CASE InControl
  <2>1. CASE InRun \/ InReconnect \/ InSocketError \/ InNotification \/ InIdle
    BY <2>1, <1>a
       DEF Phases, InRun, InReconnect, InSocketError, InNotification, InIdle, InGoto
  <2>2. CASE InSweep \/ InLost \/ InFailed
    BY <2>2, <1>a DEF Phases, InSweep, InLost, InFailed, InGoto
  <2>3. CASE InTerminate
    BY <2>3, <1>a DEF Phases, InTerminate, MarkTimeouts, InGoto
  <2>4. CASE InExit
    BY <2>4, <1>a DEF Phases, InExit, SweepTimeouts, InGoto, flagVars
  <2>5. QED  BY <1>1, <2>1, <2>2, <2>3, <2>4 DEF InControl
<1>2. CASE \E t \in Streams : InReply(t) \/ InStart(t) \/ InStream(t)
  <2>1. InMessage
    BY <1>2 DEF InReply, InStart, InStream, InContinue, InEnd, InContinueWait,
                InContinueWaitBad, InStreamComplete, InLoopbackStart
  <2>2. QED  BY <2>1, <1>a DEF Phases, InMessage, InGoto, flagVars
<1>3. ASSUME NEW s \in Streams, OutSend(s) PROVE Phases'
  BY <1>3, <1>a, ClientAssumption DEF Phases, OutSend, poolVars
<1>4. CASE OutRelease
  BY <1>4, <1>a DEF Phases, OutRelease, flagVars, worldVars
<1>5. CASE OutExit
  BY <1>5, <1>a DEF Phases, OutExit, flagVars, worldVars, poolVars
<1>6. CASE ExitStep
  <2>1. CASE ExitTimeout
    BY <2>1, <1>a DEF Phases, ExitTimeout, ExitGoto
  <2>2. CASE ExitSweep
    BY <2>2, <1>a DEF Phases, ExitSweep, ExitGoto, flagVars, SweepTimeouts
  <2>3. CASE ExitDestroy
    BY <2>3, <1>a DEF Phases, ExitDestroy, ExitGoto, flagVars, worldVars
  <2>4. QED  BY <1>6, <2>1, <2>2, <2>3 DEF ExitStep
<1>7. CASE TimerTick \/ TimerExit \/ AppDisconnect \/ \E s \in Streams : Expire(s)
  BY <1>7, <1>a DEF Phases, TimerTick, TimerExit, AppDisconnect, Expire, flagVars, threadVars,
                    poolVars, worldVars
<1>8. ASSUME NEW s \in Streams, AppNewStream(s) \/ AppDatagram(s) \/ AppDatagramReply(s)
      PROVE  Phases'
  <2>1. active /\ UNCHANGED flagVars /\ UNCHANGED threadVars
    BY <1>8 DEF AppNewStream, AppDatagram, AppDatagramReply
  <2>2. in_pc \notin {"terminate", "done"} /\ exit_pc = "none"
    BY <2>1, <1>a
  <2>3. QED  BY <2>1, <2>2, <1>a DEF Phases, flagVars, threadVars
<1>9. ASSUME NEW s \in Streams, AppSend(s) PROVE Phases'
  BY <1>9, <1>a DEF Phases, AppSend, flagVars, threadVars
<1>10. CASE UNCHANGED vars
  BY <1>10, <1>a DEF Phases, vars, poolVars, flagVars, threadVars, worldVars
<1>11. QED
  BY <1>1, <1>2, <1>3, <1>4, <1>5, <1>6, <1>7, <1>8, <1>9, <1>10
     DEF Next, InThread, OutStep, AppStep
-----------------------------------------------------------------------------
(***************************************************************************)
(* Linked streams.  A router may send our packets back to us and datagrams *)
(* may ask for replies.  The answer to a packet is handled after OUT is    *)
(* done with it, no timeout check falls between new_stream and send, and   *)
(* none while a stream is queued.                                          *)
(***************************************************************************)
Prompt == ~Overtake /\ PromptSend /\ PromptQueue

\* On its way through OUT, or to the peer.
Busy == Sending \cup wire

\* x and its other end.
Linked(x) ==
    /\ x \in streams => x \notin free
    /\ linked_stream[x] # Nil => x \in streams \/ x \in free
    /\ x \in streams /\ linked_stream[x] # Nil =>
           /\ linked_stream[x] \notin free /\ linked_stream[x] \notin streams
           /\ x \in Busy => linked_stream[x] \notin Busy
           /\ \A y \in streams : linked_stream[y] = linked_stream[x] => y = x

\* The payload of x.
Carried(x) ==
    /\ exit_pc = "none" /\ x \in Sending => x \notin free
    /\ x \in Sending /\ x \in free_on_send =>
           x \notin free /\ x \notin streams /\ \A y \in streams : linked_stream[y] # x
    /\ x \in unsent => x \in streams /\ x \notin Busy /\ linked_stream[x] = Nil
    /\ x \in out_queue => x \notin internal_out_queue
    /\ x \in Queued => x # held /\ x \notin wire

\* The timeout of x.
Marked(x) ==
    x \in streams /\ x \in timeout =>
        /\ Sweeping
        /\ x \notin unsent
        /\ exit_pc = "none" => x \notin Sending /\ linked_stream[x] \notin Sending

Owned == \A x \in Streams : Linked(x) /\ Carried(x) /\ Marked(x)

LInv == TypeOK /\ Phases /\ faults = {} /\ Owned

Typed == /\ free \subseteq Streams /\ streams \subseteq Streams
         /\ out_queue \subseteq Streams /\ internal_out_queue \subseteq Streams
         /\ wire \subseteq Streams /\ unsent \subseteq Streams
         /\ held \in Streams \cup {Nil} /\ Nil \notin Streams
         /\ linked_stream \in [Streams -> Streams \cup {Nil}]

\* The types that the proofs use.
LEMMA LInvTyped == ASSUME LInv PROVE Typed
BY ClientAssumption DEF LInv, TypeOK, SetsOK, FieldsOK, ThreadsOK, Typed

\* Streams with their other ends.
LEMMA SidesAre ==
    ASSUME NEW S, NEW x
    PROVE  x \in Sides(S) <=> x \in S \/ (x # Nil /\ \E y \in S : x = linked_stream[y])
BY DEF Sides

\* Who is in which queue.
LEMMA BusyIs ==
    /\ \A x : x \in Queued <=> x \in out_queue \/ x \in internal_out_queue
    /\ \A x : x \in Sending <=> x \in Queued \/ (x = held /\ x # Nil)
    /\ \A x : x \in Busy <=> x \in Sending \/ x \in wire
BY DEF Queued, Sending, Busy

-----------------------------------------------------------------------------
(* What steps do to the owners. *)

\* Nothing, but a packet may be lost.
LEMMA QuietOwned ==
    ASSUME LInv,
           UNCHANGED <<free, streams, out_queue, internal_out_queue, linked_stream, timeout,
                       free_on_send, held, unsent>>,
           wire' \subseteq wire, exit_pc' = "none" => exit_pc = "none", Sweeping => Sweeping'
    PROVE  Owned'
<1>1. Queued' = Queued /\ Sending' = Sending /\ Busy' \subseteq Busy
  BY DEF Queued, Sending, Busy
<1>2. ASSUME NEW x \in Streams PROVE (Linked(x) /\ Carried(x) /\ Marked(x))'
  <2>1. Linked(x) /\ Carried(x) /\ Marked(x)
    BY DEF LInv, Owned
  <2>2. Linked(x)'
    BY <1>1, <2>1 DEF Linked
  <2>3. Carried(x)'
    BY <1>1, <2>1 DEF Carried
  <2>4. Marked(x)'
    BY <1>1, <2>1 DEF Marked
  <2>5. QED  BY <2>2, <2>3, <2>4
<1>3. QED  BY <1>2 DEF Owned

\* Streams are timed out.
LEMMA MarkOwned ==
    ASSUME LInv, unsent = {},
           UNCHANGED <<free, streams, out_queue, internal_out_queue, linked_stream,
                       free_on_send, held, unsent, wire>>, exit_pc' = "none" => exit_pc = "none",
           exit_pc = "none" => Sides(streams) \cap Sending = {}, Sweeping'
    PROVE  Owned'
<1>1. Queued' = Queued /\ Sending' = Sending /\ Busy' = Busy
  BY DEF Queued, Sending, Busy
<1>2. ASSUME NEW x \in Streams PROVE (Linked(x) /\ Carried(x) /\ Marked(x))'
  <2>1. Linked(x) /\ Carried(x) /\ Marked(x)
    BY DEF LInv, Owned
  <2>2. Linked(x)'
    BY <1>1, <2>1 DEF Linked
  <2>3. Carried(x)'
    BY <1>1, <2>1 DEF Carried
  <2>4. exit_pc = "none" /\ x \in streams => x \notin Sending /\ linked_stream[x] \notin Sending
    <3>1. Nil \notin Sending
      BY LInvTyped DEF Typed, Sending, Queued
    <3>2. QED  BY <3>1, SidesAre
  <2>5. Marked(x)'
    BY <1>1, <2>1, <2>4 DEF Marked
  <2>6. QED  BY <2>2, <2>3, <2>5
<1>3. QED  BY <1>2 DEF Owned

\* The two ends of listed streams belong to no other.
LEMMA SidesApart ==
    ASSUME LInv, NEW S \in SUBSET streams
    PROVE  /\ Sides(S) \cap free = {}
           /\ Sides(S) \cap streams = S
           /\ \A y \in streams \ S : linked_stream[y] \notin Sides(S)
           /\ \A x \in Sending \cap free_on_send : x \notin Sides(S)
           /\ Sides(S) \subseteq Streams
<1>1. Typed
  BY LInvTyped
<1>2. \A x \in Streams : Linked(x) /\ Carried(x)
  BY DEF LInv, Owned
<1>3. ASSUME NEW x \in Sides(S)
      PROVE  x \notin free /\ (x \in streams => x \in S) /\ x \in Streams
  <2>1. CASE x \in S
    BY <1>1, <1>2, <2>1 DEF Typed, Linked
  <2>2. CASE x \notin S
    <3>1. PICK y \in S : x = linked_stream[y] /\ x # Nil
      BY <2>2, SidesAre
    <3>2. y \in Streams /\ y \in streams /\ Linked(y)
      BY <1>1, <1>2 DEF Typed
    <3>3. QED  BY <1>1, <3>1, <3>2 DEF Typed, Linked
  <2>3. QED  BY <2>1, <2>2
<1>4. ASSUME NEW y \in streams \ S PROVE linked_stream[y] \notin Sides(S)
  <2>1. y \in Streams /\ Linked(y)
    BY <1>1, <1>2 DEF Typed
  <2>2. CASE linked_stream[y] \in S
    <3>1. linked_stream[y] \in streams /\ linked_stream[y] # Nil
      BY <1>1, <2>2 DEF Typed
    <3>2. QED  BY <2>1, <3>1 DEF Linked
  <2>3. ASSUME NEW z \in S, linked_stream[y] # Nil, linked_stream[y] = linked_stream[z]
        PROVE  FALSE
    <3>1. z \in streams
      OBVIOUS
    <3>2. QED  BY <2>1, <2>3, <3>1 DEF Linked
  <2>4. QED  BY <2>2, <2>3, SidesAre
<1>5. ASSUME NEW x \in Sending \cap free_on_send PROVE x \notin Sides(S)
  <2>1. x \in Streams
    BY <1>1 DEF Typed, Sending, Queued
  <2>2. x \notin streams /\ \A y \in streams : linked_stream[y] # x
    BY <1>2, <2>1 DEF Carried
  <2>3. QED  BY <2>2, SidesAre
<1>6. \A x \in S : x \in Sides(S)
  BY SidesAre
<1>7. QED  BY <1>3, <1>4, <1>5, <1>6

\* Listed streams and their other ends return to the pool.
LEMMA FreedOwned ==
    ASSUME LInv, NEW S \in SUBSET streams, Deallocate(Sides(S)),
           streams' = streams \ Sides(S) \/ streams' = streams \ S,
           S \cap unsent = {}, wire' \subseteq wire,
           exit_pc = "none" => Sides(S) \cap Sending = {},
           UNCHANGED <<out_queue, internal_out_queue, linked_stream, timeout, free_on_send, held,
                       unsent>>,
           exit_pc' = "none" => exit_pc = "none",
           (streams \ S) \cap timeout = {}
    PROVE  Owned' /\ faults' = {}
<1>1. Queued' = Queued /\ Sending' = Sending /\ Busy' \subseteq Busy
  BY DEF Queued, Sending, Busy
<1>2. /\ Sides(S) \cap free = {} /\ Sides(S) \cap streams = S
      /\ \A y \in streams \ S : linked_stream[y] \notin Sides(S)
      /\ \A x \in Sending \cap free_on_send : x \notin Sides(S)
  BY SidesApart
<1>3. streams' = streams \ S /\ free' = free \cup Sides(S) /\ S \subseteq Sides(S)
  BY <1>2 DEF Deallocate
<1>4. faults' = {}
  BY <1>2 DEF Deallocate, LInv
<1> HIDE DEF Deallocate
<1>5. ASSUME NEW x \in Streams PROVE (Linked(x) /\ Carried(x) /\ Marked(x))'
  <2>1. Linked(x) /\ Carried(x) /\ Marked(x)
    BY DEF LInv, Owned
  <2>2. Linked(x)'
    BY <1>1, <1>2, <1>3, <2>1 DEF Linked
  <2>3. Carried(x)'
    BY <1>1, <1>2, <1>3, <2>1 DEF Carried
  <2>4. Marked(x)'
    BY <1>3 DEF Marked
  <2>5. QED  BY <2>2, <2>3, <2>4
<1>6. QED  BY <1>4, <1>5 DEF Owned

\* A stream leaves the pool for one packet.
LEMMA PacketOwned ==
    ASSUME LInv, exit_pc = "none", NEW s \in free,
           free' = free \ {s}, linked_stream' = [linked_stream EXCEPT ![s] = Nil],
           free_on_send' = free_on_send \cup {s}, wire' = wire \ {s},
           \/ out_queue' = out_queue /\ internal_out_queue' \subseteq internal_out_queue \cup {s}
              /\ internal_out_queue \subseteq internal_out_queue'
           \/ out_queue' = out_queue \cup {s} /\ internal_out_queue' = internal_out_queue,
           UNCHANGED <<streams, timeout, unsent, held, exit_pc>>, Sweeping => Sweeping'
    PROVE  Owned'
<1>0. Typed
  BY LInvTyped
<1>1. s \in Streams /\ Linked(s) /\ Carried(s) /\ \A x \in Streams : Linked(x) /\ Carried(x) /\ Marked(x)
  BY <1>0 DEF LInv, Owned, Typed
<1>2. /\ s \notin streams /\ s \notin Sending /\ s \notin Queued /\ s # held /\ s # Nil
      /\ s \notin unsent
  BY <1>0, <1>1, BusyIs DEF Linked, Carried, Typed
<1>3. /\ \A x : x # s => /\ (x \in Queued' <=> x \in Queued) /\ (x \in Sending' <=> x \in Sending)
                         /\ (x \in Busy' <=> x \in Busy)
      /\ s \notin wire' /\ s # held'
  BY <1>2 DEF Queued, Sending, Busy
<1>4. \A y \in streams : /\ y \in Streams /\ y # s /\ linked_stream[y] # s
                         /\ linked_stream'[y] = linked_stream[y]
  <2> SUFFICES ASSUME NEW y \in streams
               PROVE  y \in Streams /\ y # s /\ linked_stream[y] # s /\ linked_stream'[y] = linked_stream[y]
    OBVIOUS
  <2>1. y \in Streams /\ y # s
    BY <1>0, <1>2 DEF Typed
  <2>2. linked_stream[y] # s
    BY <1>1, <1>2, <2>1 DEF Linked
  <2>3. QED  BY <1>0, <2>1, <2>2 DEF Typed
<1>5. linked_stream'[s] = Nil /\ \A x \in Streams : x # s => linked_stream'[x] = linked_stream[x]
  BY <1>0, <1>1 DEF Typed
<1>6. ASSUME NEW x \in Streams PROVE (Linked(x) /\ Carried(x) /\ Marked(x))'
  <2>1. Linked(x) /\ Carried(x) /\ Marked(x)
    BY <1>1
  <2>2. Linked(x)'
    BY <1>2, <1>3, <1>4, <1>5, <2>1 DEF Linked
  <2>3. Carried(x)'
    <3>1. x \in out_queue' => x \notin internal_out_queue'
      BY <1>2, <2>1, BusyIs DEF Carried
    <3>2. CASE x = s
      BY <1>2, <1>3, <1>4, <3>1, <3>2 DEF Carried
    <3>3. CASE x # s
      BY <1>3, <1>4, <1>5, <2>1, <3>1, <3>3 DEF Carried
    <3>4. QED  BY <3>2, <3>3
  <2>4. Marked(x)'
    BY <1>2, <1>3, <1>4, <2>1 DEF Marked
  <2>5. QED  BY <2>2, <2>3, <2>4
<1>7. QED  BY <1>6 DEF Owned

\* A stream leaves the pool for the list, with or without its first packet.
LEMMA ListedOwned ==
    ASSUME LInv, exit_pc = "none", NEW s \in free,
           free' = free \ {s}, linked_stream' = [linked_stream EXCEPT ![s] = Nil],
           streams' = streams \cup {s}, timeout' = timeout \ {s}, wire' = wire \ {s},
           \/ /\ out_queue' = out_queue
              /\ internal_out_queue' \in {internal_out_queue, internal_out_queue \cup {s}}
              /\ free_on_send' = free_on_send \ {s} /\ unsent' = unsent
           \/ /\ out_queue' = out_queue \cup {s} /\ internal_out_queue' = internal_out_queue
              /\ free_on_send' = free_on_send \ {s} /\ unsent' = unsent
           \/ /\ out_queue' = out_queue /\ internal_out_queue' = internal_out_queue
              /\ free_on_send' = free_on_send /\ unsent' = unsent \cup {s},
           UNCHANGED <<held, exit_pc>>, Sweeping => Sweeping'
    PROVE  Owned'
<1>0. Typed
  BY LInvTyped
<1>1. s \in Streams /\ Linked(s) /\ Carried(s) /\ \A x \in Streams : Linked(x) /\ Carried(x) /\ Marked(x)
  BY <1>0 DEF LInv, Owned, Typed
<1>2. /\ s \notin streams /\ s \notin Sending /\ s \notin Queued /\ s # held /\ s # Nil
      /\ s \notin unsent
  BY <1>0, <1>1, BusyIs DEF Linked, Carried, Typed
<1>3. /\ \A x : x # s => /\ (x \in Queued' <=> x \in Queued) /\ (x \in Sending' <=> x \in Sending)
                         /\ (x \in Busy' <=> x \in Busy)
      /\ s \notin wire' /\ s # held'
  BY <1>2 DEF Queued, Sending, Busy
<1>4. \A y \in streams : /\ y \in Streams /\ y # s /\ linked_stream[y] # s
                         /\ linked_stream'[y] = linked_stream[y]
  <2> SUFFICES ASSUME NEW y \in streams
               PROVE  y \in Streams /\ y # s /\ linked_stream[y] # s /\ linked_stream'[y] = linked_stream[y]
    OBVIOUS
  <2>1. y \in Streams /\ y # s
    BY <1>0, <1>2 DEF Typed
  <2>2. linked_stream[y] # s
    BY <1>1, <1>2, <2>1 DEF Linked
  <2>3. QED  BY <1>0, <2>1, <2>2 DEF Typed
<1>5. linked_stream'[s] = Nil /\ \A x \in Streams : x # s => linked_stream'[x] = linked_stream[x]
  BY <1>0, <1>1 DEF Typed
<1>6. s \in unsent' => s \notin Busy'
  BY <1>2, <1>3 DEF Queued, Sending, Busy
<1>7. s \in Sending' => s \notin free_on_send'
  BY <1>2 DEF Queued, Sending
<1>8. ASSUME NEW x \in Streams PROVE (Linked(x) /\ Carried(x) /\ Marked(x))'
  <2>1. Linked(x) /\ Carried(x) /\ Marked(x)
    BY <1>1
  <2>2. Linked(x)'
    BY <1>0, <1>2, <1>3, <1>4, <1>5, <2>1 DEF Linked, Typed
  <2>3. Carried(x)'
    <3>1. x \in out_queue' => x \notin internal_out_queue'
      BY <1>2, <2>1, BusyIs DEF Carried
    <3>2. CASE x = s
      BY <1>2, <1>3, <1>4, <1>5, <1>6, <1>7, <3>1, <3>2 DEF Carried
    <3>3. CASE x # s
      <4>1. x \in Sending' /\ x \in free_on_send' =>
               x \notin free' /\ x \notin streams' /\ \A y \in streams' : linked_stream'[y] # x
        <5>1. x \in Sending' /\ x \in free_on_send' => x \in Sending /\ x \in free_on_send
          BY <1>3, <3>3
        <5>2. x # Nil
          BY <1>0 DEF Typed
        <5>3. QED  BY <1>4, <1>5, <2>1, <3>3, <5>1, <5>2 DEF Carried
      <4>2. x \in unsent' => x \in streams' /\ x \notin Busy' /\ linked_stream'[x] = Nil
        BY <1>3, <1>5, <2>1, <3>3 DEF Carried
      <4>3. exit_pc' = "none" /\ x \in Sending' => x \notin free'
        BY <1>3, <2>1, <3>3 DEF Carried
      <4>4. x \in Queued' => x # held' /\ x \notin wire'
        BY <1>3, <2>1, <3>3 DEF Carried
      <4>5. QED  BY <3>1, <4>1, <4>2, <4>3, <4>4 DEF Carried
    <3>4. QED  BY <3>2, <3>3
  <2>4. Marked(x)'
    <3>1. CASE x = s
      BY <3>1 DEF Marked
    <3>2. CASE x # s
      <4>1. x \in streams' /\ x \in timeout' => x \in streams /\ x \in timeout
        BY <3>2
      <4>2. x \in streams => linked_stream'[x] # s /\ linked_stream'[x] = linked_stream[x]
        BY <1>4
      <4>3. x \in unsent' => x \in unsent
        BY <3>2
      <4>4. QED  BY <1>3, <2>1, <3>2, <4>1, <4>2, <4>3 DEF Marked
    <3>3. QED  BY <3>1, <3>2
  <2>5. QED  BY <2>2, <2>3, <2>4
<1>9. QED  BY <1>8 DEF Owned

\* A stream leaves the pool as the other end of t.
LEMMA OtherEndOwned ==
    ASSUME LInv, exit_pc = "none", NEW t \in streams, t \in wire, t # held,
           linked_stream[t] = Nil, NEW s \in free,
           free' = free \ {s}, linked_stream' = [linked_stream EXCEPT ![t] = s, ![s] = Nil],
           wire' = wire \ {s, t}, free_on_send' = free_on_send \ {s},
           timeout' = timeout \ {s},
           out_queue' = out_queue,
           internal_out_queue' \in {internal_out_queue, internal_out_queue \cup {s}},
           UNCHANGED <<streams, unsent, held, exit_pc>>, ~Sweeping
    PROVE  Owned'
<1>0. Typed
  BY LInvTyped
<1>1. /\ s \in Streams /\ t \in Streams
      /\ \A x \in Streams : Linked(x) /\ Carried(x) /\ Marked(x)
  BY <1>0 DEF LInv, Owned, Typed
<1>2. /\ s \notin streams /\ s \notin Sending /\ s \notin Queued /\ s # held /\ s # Nil
      /\ s \notin unsent /\ s # t
  BY <1>0, <1>1, BusyIs DEF Linked, Carried, Typed
<1>3. t \notin Queued /\ t \notin Sending /\ t \notin unsent
  BY <1>1, BusyIs DEF Carried
<1>4. /\ \A x : x # s => (x \in Queued' <=> x \in Queued) /\ (x \in Sending' <=> x \in Sending)
      /\ \A x : x # s /\ x \in Busy' => x \in Busy
      /\ s \notin wire' /\ s # held' /\ t \notin Busy'
  BY <1>2, <1>3 DEF Queued, Sending, Busy
<1>5. /\ linked_stream'[t] = s /\ linked_stream'[s] = Nil
      /\ \A x \in Streams : x # s /\ x # t => linked_stream'[x] = linked_stream[x]
  BY <1>0, <1>1, <1>2 DEF Typed
<1>6. \A y \in streams : y \in Streams /\ y # s /\ linked_stream[y] # s
  <2> SUFFICES ASSUME NEW y \in streams PROVE y \in Streams /\ y # s /\ linked_stream[y] # s
    OBVIOUS
  <2>1. y \in Streams /\ y # s
    BY <1>0, <1>2 DEF Typed
  <2>2. QED  BY <1>1, <1>2, <2>1 DEF Linked
<1>7. \A y \in streams : linked_stream'[y] = s <=> y = t
  BY <1>5, <1>6
<1>8. s \notin free_on_send'
  OBVIOUS
<1>9. ASSUME NEW x \in Streams PROVE (Linked(x) /\ Carried(x) /\ Marked(x))'
  <2>1. Linked(x) /\ Carried(x) /\ Marked(x) /\ x # Nil
    BY <1>0, <1>1 DEF Typed
  <2>2. Linked(x)'
    <3>1. CASE x = t
      <4>1. linked_stream'[x] = s /\ x \in streams' /\ x \notin free'
        BY <1>5, <2>1, <3>1 DEF Linked
      <4>2. s \notin free' /\ s \notin streams' /\ x \notin Busy'
        BY <1>2, <1>4, <3>1
      <4>3. \A y \in streams' : linked_stream'[y] = s => y = x
        BY <1>7, <3>1
      <4>4. QED  BY <4>1, <4>2, <4>3 DEF Linked
    <3>2. CASE x = s
      BY <1>2, <1>5, <3>2 DEF Linked
    <3>3. CASE x # s /\ x # t
      <4>1. linked_stream'[x] = linked_stream[x] /\ (x \in streams => linked_stream[x] # s)
        BY <1>5, <1>6, <3>3
      <4>2. x \in streams /\ linked_stream[x] # Nil =>
                \A y \in streams : linked_stream'[y] = linked_stream'[x] => y = x
        BY <1>5, <1>6, <2>1, <3>3, <4>1 DEF Linked
      <4>3. x \in streams /\ linked_stream[x] # Nil /\ x \in Busy' => linked_stream[x] \notin Busy'
        BY <1>4, <2>1, <3>3, <4>1 DEF Linked
      <4>4. /\ x \in streams' => x \notin free'
            /\ linked_stream'[x] # Nil => x \in streams' \/ x \in free'
        BY <2>1, <3>3, <4>1 DEF Linked
      <4>5. x \in streams /\ linked_stream[x] # Nil =>
                linked_stream[x] \notin free' /\ linked_stream[x] \notin streams'
        BY <2>1 DEF Linked
      <4>6. QED  BY <4>1, <4>2, <4>3, <4>4, <4>5 DEF Linked
    <3>4. QED  BY <3>1, <3>2, <3>3
  <2>3. Carried(x)'
    <3>1. x \in out_queue' => x \notin internal_out_queue'
      BY <1>2, <2>1, BusyIs DEF Carried
    <3>2. CASE x = s
      BY <1>2, <1>4, <1>8, <3>1, <3>2 DEF Carried
    <3>3. CASE x # s
      <4>1. x \in Sending' /\ x \in free_on_send' =>
               x \notin free' /\ x \notin streams' /\ \A y \in streams' : linked_stream'[y] # x
        <5>1. x \in Sending' /\ x \in free_on_send' => x \in Sending /\ x \in free_on_send
          BY <1>4, <3>3
        <5>2. QED  BY <1>5, <1>6, <2>1, <3>3, <5>1 DEF Carried
      <4>2. x \in unsent' => x \in streams' /\ x \notin Busy' /\ linked_stream'[x] = Nil
        BY <1>3, <1>4, <1>5, <2>1, <3>3 DEF Carried
      <4>3. exit_pc' = "none" /\ x \in Sending' => x \notin free'
        BY <1>4, <2>1, <3>3 DEF Carried
      <4>4. x \in Queued' => x # held' /\ x \notin wire'
        BY <1>4, <2>1, <3>3 DEF Carried
      <4>5. QED  BY <3>1, <4>1, <4>2, <4>3, <4>4 DEF Carried
    <3>4. QED  BY <3>2, <3>3
  <2>4. Marked(x)'
    BY <2>1 DEF Marked
  <2>5. QED  BY <2>2, <2>3, <2>4
<1>10. QED  BY <1>9 DEF Owned

\* A stream that is in use gives a packet to OUT.
LEMMA PushOwned ==
    ASSUME LInv, NEW s \in Streams, s \notin free, s \notin Sending, s \notin wire',
           wire' \subseteq wire,
           \/ /\ out_queue' = out_queue
              /\ internal_out_queue' \in {internal_out_queue, internal_out_queue \cup {s}}
           \/ out_queue' = out_queue \cup {s} /\ internal_out_queue' = internal_out_queue,
           unsent' = unsent \ {s},
           \/ streams' = streams /\ linked_stream' = linked_stream /\ free_on_send' = free_on_send \ {s}
           \/ /\ s \in streams /\ streams' = streams \ {s}
              /\ linked_stream' = [linked_stream EXCEPT ![s] = Nil]
              /\ free_on_send' = free_on_send \cup {s},
           UNCHANGED <<free, timeout, held, exit_pc>>, Sweeping => Sweeping',
           \A y \in streams : linked_stream[y] # Nil =>
               /\ y = s => linked_stream[y] \notin Sending \cup wire'
               /\ linked_stream[y] = s => y \notin Sending \cup wire',
           \A y \in streams \cap timeout : s # y /\ s # linked_stream[y]
    PROVE  Owned'
<1>0. Typed
  BY LInvTyped
<1>1. \A x \in Streams : Linked(x) /\ Carried(x) /\ Marked(x)
  BY DEF LInv, Owned
<1>2. s # Nil /\ s \notin Queued /\ s # held
  BY <1>0, BusyIs DEF Typed
<1>3. /\ \A x : x # s => (x \in Queued' <=> x \in Queued) /\ (x \in Sending' <=> x \in Sending)
      /\ \A x : x \in Busy' => x \in Sending \cup wire' \cup {s}
      /\ \A x : x # s /\ x \in Busy' => x \in Busy
      /\ s # held'
  BY <1>2 DEF Queued, Sending, Busy
<1>4. /\ streams' \subseteq streams /\ streams \subseteq streams' \cup {s}
      /\ \A x \in Streams : linked_stream'[x] = linked_stream[x] \/ (x = s /\ linked_stream'[x] = Nil)
      /\ s \notin streams' => linked_stream'[s] = Nil \/ streams' = streams
      /\ linked_stream'[s] # linked_stream[s] => s \notin streams'
  BY <1>0 DEF Typed
<1>5. ASSUME NEW y \in streams' PROVE y \in Streams /\ y \in streams /\ linked_stream'[y] = linked_stream[y]
  BY <1>0, <1>4 DEF Typed
<1>6. s \in free_on_send' => /\ s \in streams /\ s \notin streams'
                             /\ \A y \in streams : linked_stream[y] # s
  <2> SUFFICES ASSUME s \in free_on_send'
               PROVE  s \in streams /\ s \notin streams' /\ \A y \in streams : linked_stream[y] # s
    OBVIOUS
  <2>1. s \in streams /\ s \notin streams'
    OBVIOUS
  <2>2. ASSUME NEW y \in streams PROVE linked_stream[y] # s
    <3>1. y \in Streams /\ Linked(y)
      BY <1>0, <1>1 DEF Typed
    <3>2. QED  BY <1>2, <2>1, <3>1 DEF Linked
  <2>3. QED  BY <2>1, <2>2
<1>7. \A x : x # s => (x \in free_on_send' <=> x \in free_on_send)
  OBVIOUS
<1>8. ASSUME NEW x \in Streams PROVE (Linked(x) /\ Carried(x) /\ Marked(x))'
  <2>1. Linked(x) /\ Carried(x) /\ Marked(x) /\ x # Nil
    BY <1>0, <1>1 DEF Typed
  <2>2. Linked(x)'
    <3>1. x \in streams' => x \notin free'
      BY <1>4, <2>1 DEF Linked
    <3>2. linked_stream'[x] # Nil => x \in streams' \/ x \in free'
      BY <1>4, <2>1 DEF Linked
    <3>3. ASSUME x \in streams', linked_stream'[x] # Nil
          PROVE  /\ linked_stream'[x] \notin free' /\ linked_stream'[x] \notin streams'
                 /\ x \in Busy' => linked_stream'[x] \notin Busy'
                 /\ \A y \in streams' : linked_stream'[y] = linked_stream'[x] => y = x
      <4>1. x \in streams /\ linked_stream'[x] = linked_stream[x] /\ linked_stream[x] # Nil
        BY <1>5, <3>3
      <4>2. /\ linked_stream[x] \notin free /\ linked_stream[x] \notin streams
            /\ x \in Busy => linked_stream[x] \notin Busy
            /\ \A y \in streams : linked_stream[y] = linked_stream[x] => y = x
        BY <2>1, <4>1 DEF Linked
      <4>3. linked_stream[x] \notin free' /\ linked_stream[x] \notin streams'
        BY <1>4, <4>2
      <4>4. \A y \in streams' : linked_stream'[y] = linked_stream[x] => y = x
        BY <1>5, <4>2
      <4>5. ASSUME x \in Busy', linked_stream[x] \in Busy' PROVE FALSE
        <5>1. CASE x = s
          <6>1. linked_stream[x] # s
            BY <4>1, <4>2, <5>1
          <6>2. linked_stream[x] \in Sending \cup wire'
            BY <1>3, <4>5, <6>1
          <6>3. QED  BY <4>1, <5>1, <6>2
        <5>2. CASE linked_stream[x] = s
          <6>1. x # s
            BY <4>1, <4>2, <5>2
          <6>2. x \in Sending \cup wire'
            BY <1>3, <4>5, <6>1
          <6>3. QED  BY <4>1, <5>2, <6>2
        <5>3. CASE x # s /\ linked_stream[x] # s
          BY <1>3, <4>2, <4>5, <5>3
        <5>4. QED  BY <5>1, <5>2, <5>3
      <4>6. QED  BY <4>1, <4>3, <4>4, <4>5
    <3>4. QED  BY <3>1, <3>2, <3>3 DEF Linked
  <2>3. Carried(x)'
    <3>1. x \in out_queue' => x \notin internal_out_queue'
      BY <1>2, <2>1, BusyIs DEF Carried
    <3>2. CASE x = s
      <4>1. x \in Sending' /\ x \in free_on_send' =>
               x \notin free' /\ x \notin streams' /\ \A y \in streams' : linked_stream'[y] # x
        BY <1>5, <1>6, <3>2
      <4>2. x \notin unsent' /\ x # held' /\ x \notin wire' /\ x \notin free'
        BY <1>3, <3>2
      <4>3. QED  BY <3>1, <4>1, <4>2 DEF Carried
    <3>3. CASE x # s
      <4>1. x \in Sending' /\ x \in free_on_send' =>
               x \notin free' /\ x \notin streams' /\ \A y \in streams' : linked_stream'[y] # x
        <5>1. x \in Sending' /\ x \in free_on_send' => x \in Sending /\ x \in free_on_send
          BY <1>3, <1>7, <3>3
        <5>2. QED  BY <1>4, <1>5, <2>1, <5>1 DEF Carried
      <4>2. x \in unsent' => x \in streams' /\ x \notin Busy' /\ linked_stream'[x] = Nil
        BY <1>3, <1>4, <2>1, <3>3 DEF Carried
      <4>3. exit_pc' = "none" /\ x \in Sending' => x \notin free'
        BY <1>3, <2>1, <3>3 DEF Carried
      <4>4. x \in Queued' => x # held' /\ x \notin wire'
        BY <1>3, <2>1, <3>3 DEF Carried
      <4>5. QED  BY <3>1, <4>1, <4>2, <4>3, <4>4 DEF Carried
    <3>4. QED  BY <3>2, <3>3
  <2>4. Marked(x)'
    <3> SUFFICES ASSUME x \in streams', x \in timeout'
                 PROVE  /\ Sweeping' /\ x \notin unsent'
                        /\ exit_pc' = "none" => x \notin Sending' /\ linked_stream'[x] \notin Sending'
      BY DEF Marked
    <3>1. x \in streams /\ x \in timeout /\ linked_stream'[x] = linked_stream[x]
      BY <1>5
    <3>2. x # s /\ linked_stream[x] # s
      BY <3>1
    <3>3. QED  BY <1>3, <2>1, <3>1, <3>2 DEF Marked
  <2>5. QED  BY <2>2, <2>3, <2>4
<1>9. QED  BY <1>8 DEF Owned

\* OUT pops a payload and sends it.
LEMMA SendOwned ==
    ASSUME LInv, held = Nil, NEW s \in Queued, held' = s,
           \/ /\ s \in internal_out_queue /\ internal_out_queue' = internal_out_queue \ {s}
              /\ out_queue' = out_queue
           \/ /\ s \in out_queue /\ out_queue' = out_queue \ {s}
              /\ internal_out_queue' = internal_out_queue,
           wire' = wire \cup {s} \/ wire' = wire,
           UNCHANGED <<free, streams, linked_stream, timeout, free_on_send, unsent, exit_pc>>,
           Sweeping' = Sweeping
    PROVE  Owned'
<1>0. Typed
  BY LInvTyped
<1>1. s \in Streams /\ s # Nil /\ \A x \in Streams : Linked(x) /\ Carried(x) /\ Marked(x)
  BY <1>0 DEF LInv, Owned, Typed, Queued
<1>2. ~(s \in out_queue /\ s \in internal_out_queue)
  BY <1>1 DEF Carried
<1>3. Queued' = Queued \ {s}
  BY <1>2 DEF Queued
<1>4. Sending' = Sending
  BY <1>1, <1>3 DEF Sending
<1>5. Busy' = Busy
  BY <1>4, BusyIs DEF Busy
<1>6. ASSUME NEW x \in Streams PROVE (Linked(x) /\ Carried(x) /\ Marked(x))'
  <2>1. Linked(x) /\ Carried(x) /\ Marked(x)
    BY <1>1
  <2>2. Linked(x)'
    BY <1>5, <2>1 DEF Linked
  <2>3. Carried(x)'
    <3>1. x \in out_queue' => x \notin internal_out_queue'
      BY <2>1 DEF Carried
    <3>2. x \in Queued' => x # held' /\ x \notin wire'
      BY <1>3, <2>1 DEF Carried
    <3>3. QED  BY <1>4, <1>5, <2>1, <3>1, <3>2 DEF Carried
  <2>4. Marked(x)'
    BY <1>4, <2>1 DEF Marked
  <2>5. QED  BY <2>2, <2>3, <2>4
<1>7. QED  BY <1>6 DEF Owned

\* OUT lets a payload go.
LEMMA ReleaseOwned ==
    ASSUME LInv, held # Nil, held' = Nil,
           \/ held \in free_on_send /\ Deallocate({held})
           \/ UNCHANGED <<free, faults>>,
           UNCHANGED <<streams, out_queue, internal_out_queue, linked_stream, timeout, free_on_send,
                       unsent, wire, exit_pc>>,
           Sweeping' = Sweeping
    PROVE  Owned' /\ faults' = {}
<1>0. Typed
  BY LInvTyped
<1>1. held \in Streams /\ \A x \in Streams : Linked(x) /\ Carried(x) /\ Marked(x)
  BY <1>0 DEF LInv, Owned, Typed
<1>2. held \in Sending /\ held \notin Queued
  BY <1>1, BusyIs DEF Carried
<1>3. Queued' = Queued /\ Sending' = Queued /\ Queued \subseteq Sending /\ Busy' \subseteq Busy
  BY DEF Queued, Sending, Busy
<1>4. held \in free_on_send => /\ held \notin free /\ held \notin streams
                               /\ \A y \in streams : linked_stream[y] # held
  BY <1>1, <1>2 DEF Carried
<1>5. faults' = {}
  BY <1>4 DEF LInv, Deallocate
<1>6. free' = free \/ (free' = free \cup {held} /\ held \in free_on_send)
  BY DEF Deallocate
<1> HIDE DEF Deallocate
<1>7. ASSUME NEW x \in Streams PROVE (Linked(x) /\ Carried(x) /\ Marked(x))'
  <2>1. Linked(x) /\ Carried(x) /\ Marked(x) /\ x # Nil
    BY <1>0, <1>1 DEF Typed
  <2>2. Linked(x)'
    BY <1>3, <1>4, <1>6, <2>1 DEF Linked
  <2>3. Carried(x)'
    BY <1>2, <1>3, <1>4, <1>6, <2>1 DEF Carried
  <2>4. Marked(x)'
    BY <1>3, <2>1 DEF Marked
  <2>5. QED  BY <2>2, <2>3, <2>4
<1>8. QED  BY <1>5, <1>7 DEF Owned

\* What the destruction finds in the queues to be freed is not in the list.
LEMMA DestroyOwned ==
    ASSUME LInv, ExitDestroy
    PROVE  Owned' /\ faults' = {}
<1>0. Typed
  BY LInvTyped
<1>1. \A x \in Streams : Linked(x) /\ Carried(x)
  BY DEF LInv, Owned
<1>2. \A x \in Leftover : /\ x \in Streams /\ x \notin free /\ x \notin streams
                          /\ linked_stream[x] = Nil
  <2> SUFFICES ASSUME NEW x \in Leftover
               PROVE  x \in Streams /\ x \notin free /\ x \notin streams /\ linked_stream[x] = Nil
    OBVIOUS
  <2>1. x \in Streams /\ x \in Sending /\ x \in free_on_send
    BY <1>0 DEF Leftover, Typed, Queued, Sending
  <2>2. x \notin free /\ x \notin streams
    BY <1>1, <2>1 DEF Carried
  <2>3. QED  BY <1>1, <2>1, <2>2 DEF Linked
<1>3. Sides(Leftover) = Leftover
  BY <1>2, SidesAre
<1>4. \A x \in streams : x \notin free
  BY <1>0, <1>1 DEF Typed, Linked
<1>5. (Sides(Leftover) \cup streams) \cap free = {}
  BY <1>2, <1>3, <1>4
<1>6. faults' = {} /\ free' = free \cup (Sides(Leftover) \cup streams)
  BY <1>5 DEF ExitDestroy, Deallocate, LInv
<1>7. /\ streams' = {} /\ out_queue' = {} /\ internal_out_queue' = {}
      /\ linked_stream' = linked_stream /\ exit_pc' = "gone" /\ unsent' = unsent
      /\ held' = held
  BY DEF ExitDestroy, ExitGoto, linkVars, worldVars
<1>8. held = Nil /\ unsent = {}
  BY DEF ExitDestroy, ExitGoto, LInv, Phases
<1>9. Queued' = {} /\ Sending' = {}
  BY <1>7, <1>8 DEF Queued, Sending
<1>10. ASSUME NEW x \in Streams PROVE (Linked(x) /\ Carried(x) /\ Marked(x))'
  <2>1. Linked(x)'
    BY <1>1, <1>6, <1>7 DEF Linked
  <2>2. Carried(x)'
    BY <1>7, <1>8, <1>9 DEF Carried
  <2>3. Marked(x)'
    BY <1>7 DEF Marked
  <2>4. QED  BY <2>1, <2>2, <2>3
<1>11. QED  BY <1>6, <1>10 DEF Owned
-----------------------------------------------------------------------------
(* The actions, by what they do to the owners. *)

\* A message is handled before the exit thread starts, and between sweeps.
LEMMA PollIsEarly ==
    ASSUME LInv, InMessage
    PROVE  exit_pc = "none" /\ exit_pc' = "none" /\ ~Sweeping /\ out_pc' = out_pc /\ held' = held
BY DEF LInv, Phases, InMessage, InGoto, Sweeping

\* An active client has no exit thread yet.
LEMMA CallsAreEarly ==
    ASSUME LInv, active, UNCHANGED <<flagVars, threadVars>>
    PROVE  exit_pc = "none" /\ exit_pc' = "none" /\ Sweeping' = Sweeping /\ held' = held
BY DEF LInv, Phases, flagVars, threadVars, Sweeping

\* A stream in the pool is in no queue.
LEMMA FreeIsNotSent ==
    ASSUME LInv, exit_pc = "none", NEW s \in free
    PROVE  /\ s \in Streams /\ s \notin Sending /\ s \notin Queued
           /\ NotePush(s) => faults' = {}
<1>1. s \in Streams /\ Carried(s) /\ faults = {}
  BY LInvTyped DEF LInv, Owned, Typed
<1>2. s \notin Sending /\ s \notin Queued
  BY <1>1, BusyIs DEF Carried
<1>3. QED  BY <1>1, <1>2 DEF NotePush

\* The peer answers on t: neither end of t is in OUT's hands.
LEMMA AnswerableIs ==
    ASSUME LInv, ~Overtake, InMessage, NEW t \in Streams, Answerable(t)
    PROVE  /\ t \in streams /\ t \notin unsent
           /\ Sides({t}) \cap Sending = {} /\ Sides({t}) \cap free = {}
           /\ Sides({t}) \cap streams = {t} /\ Sides({t}) \cap unsent = {}
           /\ Turn(t) \in Sides({t}) /\ Turn(t) \in Streams
           /\ streams \cap timeout = {}
<1>0. Typed
  BY LInvTyped
<1>1. \A x \in Streams : Linked(x) /\ Carried(x) /\ Marked(x)
  BY DEF LInv, Owned
<1>2. t \in streams /\ held \notin Sides({t})
  BY DEF Answerable
<1>3. PICK z \in Sides({t}) : z \in wire
  BY DEF Answerable
<1>4. Sides({t}) \cap free = {} /\ Sides({t}) \cap streams = {t} /\ Sides({t}) \subseteq Streams
  <2>1. {t} \in SUBSET streams
    BY <1>2
  <2>2. QED  BY <2>1, SidesApart
<1>5. z \in Busy /\ z \notin Queued /\ z \notin Sending
  BY <1>1, <1>2, <1>3, <1>4, BusyIs DEF Carried
<1>6. \A x \in Sides({t}) : x # z => x \notin Busy
  <2> SUFFICES ASSUME NEW x \in Sides({t}), x # z, x \in Busy PROVE FALSE
    OBVIOUS
  <2>1. /\ x = t \/ (x # Nil /\ x = linked_stream[t])
        /\ z = t \/ (z # Nil /\ z = linked_stream[t])
    BY SidesAre
  <2>2. linked_stream[t] # Nil /\ t \in Busy /\ linked_stream[t] \in Busy
    BY <1>5, <2>1
  <2>3. QED  BY <1>1, <1>2, <2>2 DEF Linked
<1>7. \A x \in Sides({t}) : x \notin Sending
  BY <1>5, <1>6, BusyIs
<1>8. Sides({t}) \cap unsent = {}
  <2> SUFFICES ASSUME NEW x \in Sides({t}), x \in unsent PROVE FALSE
    OBVIOUS
  <2>1. x \in streams /\ x \notin Busy /\ linked_stream[x] = Nil
    BY <1>1, <1>4 DEF Carried
  <2>2. x = t
    BY <1>4, <2>1
  <2>3. z = t
    BY <1>3, <2>1, <2>2, SidesAre
  <2>4. QED  BY <1>5, <2>1, <2>2, <2>3
<1>9. t \in Sides({t})
  BY SidesAre
<1>10. Turn(t) \in Sides({t})
  BY SidesAre DEF Turn
<1>11. streams \cap timeout = {}
  BY <1>0, <1>1, PollIsEarly DEF Marked, Typed
<1>12. QED  BY <1>2, <1>4, <1>7, <1>8, <1>9, <1>10, <1>11

\* What PushOwned asks of an end of t.
LEMMA EndsApart ==
    ASSUME LInv, ~Overtake, InMessage, NEW t \in Streams, Answerable(t), NEW s \in Sides({t}),
           NEW y \in streams, linked_stream[y] # Nil
    PROVE  /\ y = s => linked_stream[y] \notin Sending \cup (wire \ Sides({t}))
           /\ linked_stream[y] = s => y \notin Sending \cup (wire \ Sides({t}))
<1>1. /\ t \in streams /\ Sides({t}) \cap Sending = {} /\ Sides({t}) \cap streams = {t}
  BY AnswerableIs
<1>2. y \in Streams /\ Linked(y) /\ s \in Streams
  <2>1. {t} \in SUBSET streams
    BY <1>1
  <2>2. s \in Streams
    BY <2>1, SidesApart
  <2>3. QED  BY <2>2, LInvTyped DEF LInv, Owned, Typed
<1>3. CASE y = s
  <2>1. y = t
    BY <1>1, <1>3
  <2>2. linked_stream[y] \in Sides({t})
    BY <2>1, SidesAre
  <2>3. linked_stream[y] # s
    BY <1>1, <1>2, <1>3 DEF Linked
  <2>4. QED  BY <1>1, <2>2, <2>3
<1>4. CASE linked_stream[y] = s
  <2>1. s \notin streams
    BY <1>2, <1>4 DEF Linked
  <2>2. s = linked_stream[t] /\ s # Nil
    BY <1>1, <2>1, SidesAre
  <2>3. y = t
    BY <1>1, <1>2, <1>4, <2>2 DEF Linked
  <2>4. y \in Sides({t}) /\ y # s
    BY <2>1, <2>3, SidesAre
  <2>5. QED  BY <1>1, <2>4
<1>5. QED  BY <1>3, <1>4

\* An end of t gives the answer to OUT.
LEMMA EndPushed ==
    ASSUME LInv, ~Overtake, InMessage, NEW t \in Streams, Answerable(t), Answered(t),
           NEW s \in Sides({t}), NotePush(s), PushInternal(s),
           \/ /\ streams' = streams /\ linked_stream' = linked_stream
              /\ free_on_send' = free_on_send \ {s}
           \/ /\ s \in streams /\ streams' = streams \ {s}
              /\ linked_stream' = [linked_stream EXCEPT ![s] = Nil]
              /\ free_on_send' = free_on_send \cup {s},
           UNCHANGED <<free, timeout, unsent>>
    PROVE  Owned' /\ faults' = {}
<1>1. /\ t \in streams /\ Sides({t}) \cap Sending = {} /\ Sides({t}) \cap free = {}
      /\ Sides({t}) \cap unsent = {} /\ streams \cap timeout = {}
  BY AnswerableIs
<1>2. s \in Streams
  <2>1. {t} \in SUBSET streams
    BY <1>1
  <2>2. QED  BY <2>1, SidesApart
<1>3. s \notin free /\ s \notin Sending /\ s \notin wire' /\ wire' \subseteq wire
      /\ wire' = wire \ Sides({t})
  BY <1>1 DEF Answered
<1>4. out_queue' = out_queue
      /\ internal_out_queue' \in {internal_out_queue, internal_out_queue \cup {s}}
  BY DEF PushInternal
<1>5. unsent' = unsent \ {s}
  BY <1>1
<1>6. exit_pc = "none" /\ exit_pc' = exit_pc /\ ~Sweeping /\ held' = held
  BY PollIsEarly
<1>7. \A y \in streams : linked_stream[y] # Nil =>
               /\ y = s => linked_stream[y] \notin Sending \cup wire'
               /\ linked_stream[y] = s => y \notin Sending \cup wire'
  BY <1>3, EndsApart
<1>8. \A y \in streams \cap timeout : s # y /\ s # linked_stream[y]
  BY <1>1
<1>9. Owned'
  BY <1>2, <1>3, <1>4, <1>5, <1>6, <1>7, <1>8, PushOwned
<1>10. s \notin Queued
  BY <1>3, BusyIs
<1>11. faults' = {}
  BY <1>10 DEF NotePush, LInv
<1>12. QED  BY <1>9, <1>11

\* A message on a stream.
LEMMA StreamOwned ==
    ASSUME LInv, ~Overtake, NEW t \in Streams, InStream(t)
    PROVE  Owned' /\ faults' = {}
<1>1. InMessage /\ (Answerable(t) \/ \E s \in Streams : InLoopbackStart(t, s))
  BY DEF InStream, InContinue, InEnd, InContinueWait, InContinueWaitBad, InStreamComplete,
         InLoopbackStart
<1>2. exit_pc = "none" /\ exit_pc' = "none" /\ ~Sweeping /\ held' = held
  BY <1>1, PollIsEarly
<1>3. Typed
  BY LInvTyped
<1>4. t \in Sides({t})
  BY SidesAre
<1>5. CASE InContinue(t)
  <2> DEFINE s == Turn(t)
  <2>1. /\ Answerable(t) /\ Answered(t) /\ NotePush(s) /\ PushInternal(s)
        /\ free_on_send' = free_on_send \ {s}
        /\ UNCHANGED <<free, streams, linked_stream, timeout, unsent>>
    BY <1>5 DEF InContinue, SendAndKeep
  <2>2. s \in Sides({t})
    BY <1>1, <2>1, AnswerableIs
  <2> HIDE DEF s
  <2>3. QED  BY <1>1, <2>1, <2>2, EndPushed
<1>6. CASE InEnd(t)
  <2> DEFINE s == Turn(t)
  <2>1. /\ Answerable(t) /\ Answered(t) /\ NotePush(s) /\ PushInternal(s)
        /\ UNCHANGED <<free, linked_stream, timeout, unsent>>
    BY <1>6 DEF InEnd
  <2>2. s \in Sides({t})
    BY <1>1, <2>1, AnswerableIs
  <2>3. CASE linked_stream[t] # Nil
    <3>1. free_on_send' = free_on_send \ {s} /\ streams' = streams
      BY <1>6, <2>3 DEF InEnd
    <3> HIDE DEF s
    <3>2. QED  BY <1>1, <2>1, <2>2, <3>1, EndPushed
  <2>4. CASE linked_stream[t] = Nil
    <3>1. s = t /\ t \in streams
      BY <1>1, <2>1, <2>4, AnswerableIs DEF Turn
    <3>2. free_on_send' = free_on_send \cup {s} /\ streams' = streams \ {s}
      BY <1>6, <2>4 DEF InEnd
    <3>3. linked_stream' = [linked_stream EXCEPT ![s] = Nil]
      BY <1>3, <2>1, <2>4, <3>1 DEF Typed
    <3> HIDE DEF s
    <3>4. QED  BY <1>1, <2>1, <2>2, <3>1, <3>2, <3>3, EndPushed
  <2>5. QED  BY <2>3, <2>4
<1>7. CASE InContinueWait(t)
  <2>1. /\ UNCHANGED <<free, streams, faults, out_queue, internal_out_queue, linked_stream, timeout,
                       free_on_send, unsent, wire>>
    BY <1>7 DEF InContinueWait, poolVars, queueVars, linkVars, sendVars, worldVars
  <2>2. Owned'
    BY <1>2, <2>1, QuietOwned
  <2>3. QED  BY <2>1, <2>2 DEF LInv
<1>8. CASE InContinueWaitBad(t)
  <2>1. /\ Answerable(t) /\ Answered(t) /\ NotePush(t) /\ PushInternal(t)
        /\ streams' = streams \ {t} /\ linked_stream' = [linked_stream EXCEPT ![t] = Nil]
        /\ free_on_send' = free_on_send \cup {t}
        /\ UNCHANGED <<free, timeout, unsent>>
    BY <1>8 DEF InContinueWaitBad, timeVars
  <2>2. t \in streams
    BY <2>1 DEF Answerable
  <2>3. QED  BY <1>1, <1>4, <2>1, <2>2, EndPushed
<1>9. CASE InStreamComplete(t)
  <2>1. /\ Answerable(t) /\ Answered(t) /\ Deallocate(Sides({t})) /\ streams' = streams \ Sides({t})
        /\ UNCHANGED <<out_queue, internal_out_queue, linked_stream, timeout, free_on_send, unsent>>
    BY <1>9 DEF InStreamComplete, queueVars, sendVars
  <2>2. /\ t \in streams /\ t \notin unsent /\ Sides({t}) \cap Sending = {}
        /\ streams \cap timeout = {}
    BY <1>1, <2>1, AnswerableIs
  <2>3. {t} \in SUBSET streams /\ {t} \cap unsent = {} /\ (streams \ {t}) \cap timeout = {}
    BY <2>2
  <2>4. wire' \subseteq wire
    BY <2>1 DEF Answered
  <2>5. QED  BY <1>2, <2>1, <2>2, <2>3, <2>4, FreedOwned
<1>10. ASSUME NEW s \in Streams, InLoopbackStart(t, s)
       PROVE  Owned' /\ faults' = {}
  <2>1. /\ Answerable(t) /\ linked_stream[t] = Nil /\ s \in free /\ free' = free \ {s}
        /\ linked_stream' = [linked_stream EXCEPT ![t] = s, ![s] = Nil]
        /\ wire' = wire \ {s, t} /\ free_on_send' = free_on_send \ {s}
        /\ timeout' = timeout \ {s} /\ NotePush(s) /\ PushInternal(s)
        /\ UNCHANGED <<streams, unsent>>
    BY <1>10 DEF InLoopbackStart, SendAndKeep
  <2>2. Sides({t}) = {t}
    BY <2>1, SidesAre
  <2>3. t \in streams /\ t \in wire /\ t # held
    BY <2>1, <2>2 DEF Answerable
  <2>4. out_queue' = out_queue
        /\ internal_out_queue' \in {internal_out_queue, internal_out_queue \cup {s}}
    BY <2>1 DEF PushInternal
  <2>5. Owned'
    BY <1>2, <2>1, <2>3, <2>4, OtherEndOwned
  <2>6. QED  BY <1>2, <2>1, <2>5, FreeIsNotSent
<1>11. QED  BY <1>5, <1>6, <1>7, <1>8, <1>9, <1>10 DEF InStream

\* A stream leaves the pool.
LEMMA NewOwned ==
    ASSUME LInv, NEW s \in Streams,
           InReply(s) \/ InStart(s) \/ AppNewStream(s) \/ AppDatagram(s) \/ AppDatagramReply(s)
    PROVE  Owned' /\ faults' = {}
<1>1. s \in free
  BY DEF InReply, InStart, AppNewStream, AppDatagram, AppDatagramReply, AllocateForPacket,
         AllocateAndReset
<1>2. exit_pc = "none" /\ exit_pc' = "none" /\ (Sweeping => Sweeping') /\ held' = held
  <2>1. CASE InReply(s) \/ InStart(s)
    BY <2>1, PollIsEarly DEF InReply, InStart
  <2>2. CASE AppNewStream(s) \/ AppDatagram(s) \/ AppDatagramReply(s)
    BY <2>2, CallsAreEarly DEF AppNewStream, AppDatagram, AppDatagramReply
  <2>3. QED  BY <2>1, <2>2
<1>3. faults' = {}
  BY <1>1, <1>2, FreeIsNotSent
     DEF InReply, InStart, AppNewStream, AppDatagram, AppDatagramReply, AllocateForPacket,
         SendAndKeep, LInv
<1>4. CASE InReply(s) \/ AppDatagram(s)
  <2>1. AllocateForPacket(s)
    BY <1>4 DEF InReply, AppDatagram
  <2>2. \/ out_queue' = out_queue /\ internal_out_queue' \subseteq internal_out_queue \cup {s}
           /\ internal_out_queue \subseteq internal_out_queue'
        \/ out_queue' = out_queue \cup {s} /\ internal_out_queue' = internal_out_queue
    BY <1>4 DEF InReply, AppDatagram, PushInternal, PushOut
  <2>3. /\ free' = free \ {s} /\ linked_stream' = [linked_stream EXCEPT ![s] = Nil]
        /\ free_on_send' = free_on_send \cup {s} /\ wire' = wire \ {s}
        /\ UNCHANGED <<streams, timeout, unsent>>
    BY <2>1 DEF AllocateForPacket, timeVars
  <2>4. Owned'
    BY <1>1, <1>2, <2>2, <2>3, PacketOwned
  <2>5. QED  BY <1>3, <2>4
<1>5. CASE InStart(s) \/ AppDatagramReply(s) \/ AppNewStream(s)
  <2>1. AllocateAndReset(s) /\ streams' = streams \cup {s}
    BY <1>5 DEF InStart, AppDatagramReply, AppNewStream
  <2>2. /\ free' = free \ {s} /\ linked_stream' = [linked_stream EXCEPT ![s] = Nil]
        /\ timeout' = timeout \ {s} /\ wire' = wire \ {s}
    BY <2>1 DEF AllocateAndReset
  <2>3. \/ /\ out_queue' = out_queue
           /\ internal_out_queue' \in {internal_out_queue, internal_out_queue \cup {s}}
           /\ free_on_send' = free_on_send \ {s} /\ unsent' = unsent
        \/ /\ out_queue' = out_queue \cup {s} /\ internal_out_queue' = internal_out_queue
           /\ free_on_send' = free_on_send \ {s} /\ unsent' = unsent
        \/ /\ out_queue' = out_queue /\ internal_out_queue' = internal_out_queue
           /\ free_on_send' = free_on_send /\ unsent' = unsent \cup {s}
    BY <1>5 DEF InStart, AppDatagramReply, AppNewStream, PushInternal, PushOut, SendAndKeep,
                queueVars, sendVars
  <2>4. Owned'
    BY <1>1, <1>2, <2>1, <2>2, <2>3, ListedOwned
  <2>5. QED  BY <1>3, <2>4
<1>6. QED  BY <1>4, <1>5

\* The daemon sends the first packet of its stream.
LEMMA AppSendOwned ==
    ASSUME LInv, NEW s \in Streams, AppSend(s)
    PROVE  Owned' /\ faults' = {}
<1>1. \A x \in Streams : Linked(x) /\ Carried(x) /\ Marked(x)
  BY DEF LInv, Owned
<1>2. /\ s \in unsent /\ unsent' = unsent \ {s} /\ free_on_send' = free_on_send \ {s}
      /\ NotePush(s) /\ out_queue' = out_queue \cup {s} /\ internal_out_queue' = internal_out_queue
      /\ UNCHANGED <<free, streams, linked_stream, timeout, wire>>
      /\ UNCHANGED <<held, exit_pc, in_pc>>
  BY DEF AppSend, SendAndKeep, PushOut, linkVars, timeVars, threadVars
<1>3. s \in streams /\ s \notin Busy /\ linked_stream[s] = Nil /\ s \notin free
  BY <1>1, <1>2 DEF Carried, Linked
<1>4. s \notin Sending /\ s \notin wire /\ s \notin Queued /\ s # Nil
  BY <1>3, BusyIs, LInvTyped DEF Typed
<1>5. \A y \in streams : y \in Streams /\ linked_stream[y] # s
  <2> SUFFICES ASSUME NEW y \in streams PROVE y \in Streams /\ linked_stream[y] # s
    OBVIOUS
  <2>1. y \in Streams
    BY LInvTyped DEF Typed
  <2>2. QED  BY <1>1, <1>3, <1>4, <2>1 DEF Linked
<1>6. \A y \in streams \cap timeout : s # y /\ s # linked_stream[y]
  BY <1>1, <1>2, <1>5 DEF Marked
<1>7. \A y \in streams : linked_stream[y] # Nil =>
               /\ y = s => linked_stream[y] \notin Sending \cup wire'
               /\ linked_stream[y] = s => y \notin Sending \cup wire'
  BY <1>3, <1>5
<1>8. Sweeping' = Sweeping
  BY <1>2 DEF Sweeping
<1>9. Owned'
  BY <1>2, <1>3, <1>4, <1>6, <1>7, <1>8, PushOwned
<1>10. faults' = {}
  BY <1>2, <1>4 DEF NotePush, LInv
<1>11. QED  BY <1>9, <1>10

\* The first pass of process_timeout.
LEMMA MarkStepOwned ==
    ASSUME LInv, PromptSend, PromptQueue, NEW o \in BOOLEAN, MarkTimeouts(o), Sweeping',
           held' = held, exit_pc' = "none" => exit_pc = "none"
    PROVE  Owned' /\ faults' = {}
<1>1. /\ unsent = {} /\ Sides(streams) \cap Sending = {}
      /\ UNCHANGED <<free, streams, faults, out_queue, internal_out_queue, linked_stream,
                     free_on_send, unsent, wire>>
  BY DEF MarkTimeouts, poolVars, queueVars, linkVars, sendVars
<1>2. Owned'
  BY <1>1, MarkOwned
<1>3. QED  BY <1>1, <1>2 DEF LInv

\* The second pass.
LEMMA SweepOwned ==
    ASSUME LInv, SweepTimeouts, wire' = {} \/ wire' = wire, held' = held,
           exit_pc' = "none" => exit_pc = "none"
    PROVE  Owned' /\ faults' = {}
<1> DEFINE S == streams \cap timeout
<1>0. Typed
  BY LInvTyped
<1>1. /\ streams' = streams \ S /\ Deallocate(Sides(S))
      /\ UNCHANGED <<out_queue, internal_out_queue, linked_stream, timeout, free_on_send, unsent>>
  BY DEF SweepTimeouts, queueVars, linkVars, timeVars, sendVars
<1>2. \A x \in S : x \in Streams /\ Marked(x)
  BY <1>0 DEF LInv, Owned, Typed
<1>3. S \cap unsent = {}
  BY <1>2 DEF Marked
<1>4. exit_pc = "none" => Sides(S) \cap Sending = {}
  <2> SUFFICES ASSUME exit_pc = "none", NEW x \in Sides(S) PROVE x \notin Sending
    OBVIOUS
  <2>1. x \in S \/ \E y \in S : x = linked_stream[y]
    BY SidesAre
  <2>2. QED  BY <1>2, <2>1 DEF Marked
<1>5. S \in SUBSET streams /\ (streams \ S) \cap timeout = {} /\ wire' \subseteq wire
  OBVIOUS
<1> HIDE DEF S
<1>6. QED  BY <1>1, <1>3, <1>4, <1>5, FreedOwned

\* IN's control.
LEMMA ControlOwned ==
    ASSUME LInv, PromptSend, PromptQueue, InControl
    PROVE  Owned' /\ faults' = {}
<1>1. held' = held
  BY DEF InControl, InRun, InSweep, InReconnect, InLost, InSocketError, InFailed, InNotification,
         InIdle, InTerminate, InExit, InGoto
<1>2. exit_pc' = "none" => exit_pc = "none"
  BY DEF InControl, InRun, InSweep, InReconnect, InLost, InSocketError, InFailed, InNotification,
         InIdle, InTerminate, InExit, LInv, Phases, InGoto
<1>3. CASE \E o \in BOOLEAN :
               MarkTimeouts(o) /\ in_pc' \in {"sweep", "lost", "failed", "terminate"}
  <2>1. Sweeping'
    BY <1>3 DEF Sweeping
  <2>2. QED  BY <1>1, <1>2, <1>3, <2>1, MarkStepOwned
<1>4. CASE SweepTimeouts /\ (wire' = {} \/ wire' = wire)
  BY <1>1, <1>2, <1>4, SweepOwned
<1>5. CASE /\ UNCHANGED <<poolVars, queueVars, linkVars, timeVars, sendVars, worldVars>>
           /\ in_pc \in {"run", "reconnect", "poll"}
  <2>1. UNCHANGED <<free, streams, faults, out_queue, internal_out_queue, linked_stream, timeout,
                    free_on_send, unsent, wire>>
    BY <1>5 DEF poolVars, queueVars, linkVars, timeVars, sendVars, worldVars
  <2>2. ~Sweeping
    BY <1>5 DEF Sweeping, LInv, Phases
  <2>3. Owned'
    BY <1>1, <1>2, <2>1, <2>2, QuietOwned
  <2>4. QED  BY <2>1, <2>3 DEF LInv
<1>6. InControl => \/ \E o \in BOOLEAN :
                          MarkTimeouts(o) /\ in_pc' \in {"sweep", "lost", "failed", "terminate"}
                   \/ SweepTimeouts /\ (wire' = {} \/ wire' = wire)
                   \/ /\ UNCHANGED <<poolVars, queueVars, linkVars, timeVars, sendVars, worldVars>>
                      /\ in_pc \in {"run", "reconnect", "poll"}
  <2>1. CASE InRun
    BY <2>1 DEF InRun, InGoto
  <2>2. CASE InReconnect
    BY <2>2 DEF InReconnect, InGoto
  <2>3. CASE InSocketError \/ InTerminate
    BY <2>3 DEF InSocketError, InTerminate, InGoto
  <2>4. CASE InSweep \/ InLost \/ InFailed \/ InExit
    BY <2>4 DEF InSweep, InLost, InFailed, InExit, InitReconnect
  <2>5. CASE InNotification \/ InIdle
    BY <2>5 DEF InNotification, InIdle, InGoto
  <2>6. QED  BY <2>1, <2>2, <2>3, <2>4, <2>5 DEF InControl
<1>7. QED  BY <1>3, <1>4, <1>5, <1>6

\* OUT.
LEMMA OutOwned ==
    ASSUME LInv, OutStep
    PROVE  Owned' /\ faults' = {}
<1>1. ASSUME NEW s \in Streams, OutSend(s) PROVE Owned' /\ faults' = {}
  <2>1. /\ out_pc = "loop" /\ held' = s /\ s \in Queued
        /\ \/ /\ s \in internal_out_queue /\ internal_out_queue' = internal_out_queue \ {s}
              /\ out_queue' = out_queue
           \/ /\ s \in out_queue /\ out_queue' = out_queue \ {s}
              /\ internal_out_queue' = internal_out_queue
        /\ wire' = wire \cup {s} \/ wire' = wire
        /\ UNCHANGED <<free, streams, faults, linked_stream, timeout, free_on_send, unsent>>
        /\ UNCHANGED <<in_pc, exit_pc>>
    BY <1>1 DEF OutSend, poolVars, linkVars, timeVars, sendVars, Queued
  <2>2. held = Nil
    BY <2>1 DEF LInv, Phases
  <2>3. Sweeping' = Sweeping
    BY <2>1 DEF Sweeping
  <2>4. Owned'
    BY <2>1, <2>2, <2>3, SendOwned
  <2>5. QED  BY <2>1, <2>4 DEF LInv
<1>2. CASE OutRelease
  <2>1. /\ out_pc = "sent" /\ held' = Nil /\ LetGo(held)
        /\ UNCHANGED <<streams, out_queue, internal_out_queue, linked_stream, timeout, free_on_send,
                       unsent, wire, in_pc, exit_pc>>
    BY <1>2 DEF OutRelease, queueVars, linkVars, timeVars, worldVars
  <2>2. held # Nil
    BY <2>1 DEF LInv, Phases
  <2>3. Sweeping' = Sweeping
    BY <2>1 DEF Sweeping
  <2>4. (held \in free_on_send /\ Deallocate({held})) \/ UNCHANGED <<free, faults>>
    BY <2>1 DEF LetGo
  <2>5. QED  BY <2>1, <2>2, <2>3, <2>4, ReleaseOwned
<1>3. CASE OutExit
  <2>1. /\ UNCHANGED <<free, streams, faults, out_queue, internal_out_queue, linked_stream, timeout,
                       free_on_send, unsent, wire>>
        /\ UNCHANGED <<held, exit_pc, in_pc>>
    BY <1>3 DEF OutExit, poolVars, queueVars, linkVars, timeVars, sendVars, worldVars
  <2>2. Sweeping' = Sweeping
    BY <2>1 DEF Sweeping
  <2>3. Owned'
    BY <2>1, <2>2, QuietOwned
  <2>4. QED  BY <2>1, <2>3 DEF LInv
<1>4. QED  BY <1>1, <1>2, <1>3 DEF OutStep

\* The exit thread.
LEMMA ExitOwned ==
    ASSUME LInv, ExitStep
    PROVE  Owned' /\ faults' = {}
<1>1. CASE ExitTimeout
  <2>1. /\ UNCHANGED <<free, streams, faults, out_queue, internal_out_queue, linked_stream,
                       free_on_send, unsent, wire>>
        /\ held' = held /\ exit_pc = "wait" /\ exit_pc' = "sweep"
    BY <1>1 DEF ExitTimeout, ExitGoto, poolVars, queueVars, linkVars
  <2>2. unsent = {} /\ Sweeping'
    BY <2>1 DEF LInv, Phases, Sweeping
  <2>3. Owned'
    BY <2>1, <2>2, MarkOwned
  <2>4. QED  BY <2>1, <2>3 DEF LInv
<1>2. CASE ExitSweep
  BY <1>2, SweepOwned DEF ExitSweep, ExitGoto
<1>3. CASE ExitDestroy
  BY <1>3, DestroyOwned
<1>4. QED  BY <1>1, <1>2, <1>3 DEF ExitStep

\* The other threads, time, and stuttering.
LEMMA QuietStepOwned ==
    ASSUME LInv,
           TimerTick \/ TimerExit \/ AppDisconnect \/ UNCHANGED vars \/ \E s \in Streams : Expire(s)
    PROVE  Owned' /\ faults' = {}
<1>1. /\ UNCHANGED <<free, streams, faults, out_queue, internal_out_queue, linked_stream, timeout,
                     free_on_send, unsent, wire>>
      /\ UNCHANGED <<held, exit_pc, in_pc>>
  BY DEF TimerTick, TimerExit, AppDisconnect, Expire, vars, poolVars, queueVars, linkVars, timeVars,
         sendVars, worldVars, threadVars
<1>2. Sweeping' = Sweeping
  BY <1>1 DEF Sweeping
<1>3. Owned'
  BY <1>1, <1>2, QuietOwned
<1>4. QED  BY <1>1, <1>3 DEF LInv

LEMMA NextLInv ==
    ASSUME Prompt, TInv, LInv, [Next]_vars
    PROVE  LInv'
<1>1. TypeOK' /\ Phases'
  BY NextTInv, NextPhases DEF TInv, LInv, Prompt
<1>2. Owned' /\ faults' = {}
  BY ControlOwned, NewOwned, StreamOwned, OutOwned, ExitOwned, QuietStepOwned, AppSendOwned
     DEF Next, InThread, AppStep, Prompt
<1>3. QED  BY <1>1, <1>2 DEF LInv

LEMMA InitLInv == Init => LInv
<1> SUFFICES ASSUME Init PROVE LInv
  OBVIOUS
<1>1. TypeOK /\ Phases
  BY InitTInv DEF TInv, Init, Phases
<1>2. Queued = {} /\ Sending = {} /\ Busy = {} /\ ~Sweeping
  BY DEF Init, Queued, Sending, Busy, Sweeping
<1>3. Owned
  BY <1>2 DEF Init, Owned, Linked, Carried, Marked
<1>4. QED  BY <1>1, <1>3 DEF Init, LInv

(* The owners of every stream and payload are consistent (LInv), also for   *)
(* streams that are linked by our own packets (linked_stream).              *)
THEOREM LinkedInvariance ==
    ASSUME Prompt
    PROVE  Spec => []LInv
<1>1. TInv /\ LInv /\ [Next]_vars => LInv'
  BY NextLInv
<1>2. QED  BY <1>1, InitTInv, NextTInv, InitLInv, PTL DEF Spec

(* A stream in the pool is neither listed, nor the other end of a listed    *)
(* one, nor in OUT's hands, whoever of the two ends had the last packet     *)
(* (linked_stream, last_linked_side).                                       *)
THEOREM LinkedHaveOneOwner ==
    ASSUME Prompt
    PROVE  Spec => []OneOwner
<1>1. LInv => OneOwner
  <2> SUFFICES ASSUME LInv PROVE OneOwner
    OBVIOUS
  <2>1. Sides(streams) \cap free = {}
    <3>1. streams \in SUBSET streams
      OBVIOUS
    <3>2. QED  BY <3>1, SidesApart
  <2>2. exit_pc = "none" => Sending \cap free = {}
    BY LInvTyped DEF LInv, Owned, Carried, Typed
  <2>3. QED  BY <2>1, <2>2 DEF OneOwner
<1>2. QED  BY <1>1, LinkedInvariance, PTL

(* Nothing is freed or queued twice with linked streams: what frees one end *)
(* frees both, once.                                                        *)
THEOREM LinkedNothingTwice ==
    ASSUME Prompt
    PROVE  Spec => []NothingTwice
<1>1. LInv => NothingTwice
  BY DEF LInv, NothingTwice
<1>2. QED  BY <1>1, LinkedInvariance, PTL

(* Of linked streams, too, both ends return to the pool only when neither   *)
(* has a payload in a queue, although only the listed end has an out flag   *)
(* to go by (process_timeout).                                              *)
THEOREM LinkedFreedAreSent ==
    ASSUME Prompt
    PROVE  Spec => FreedAfterTransfer
<1>1. ASSUME LInv, [Next]_vars, exit_pc = "none"
      PROVE  (free' \ free) \cap Queued = {}
  <2>1. /\ \A x \in Streams : Carried(x) /\ Marked(x)
        /\ Typed
        /\ out_pc = "sent" => held \in Streams
    BY <1>1, LInvTyped DEF LInv, Owned, Typed, Phases
  <2>2. CASE free' = free \cup Sides(streams \cap timeout)
    <3>1. ASSUME NEW x \in Sides(streams \cap timeout) PROVE x \notin Sending
      <4>1. PICK y \in streams \cap timeout : x = y \/ x = linked_stream[y]
        BY <3>1, SidesAre
      <4>2. y \in Streams
        BY <2>1 DEF Typed
      <4>3. QED  BY <1>1, <2>1, <4>1, <4>2 DEF Marked
    <3>2. QED  BY <2>2, <3>1 DEF Sending
  <2>3. ASSUME NEW t \in Streams, InMessage, Answerable(t), free' = free \cup Sides({t})
        PROVE  (free' \ free) \cap Queued = {}
    <3>1. Sides({t}) \cap Sending = {}
      BY <1>1, <2>3, AnswerableIs DEF Prompt
    <3>2. QED  BY <2>3, <3>1 DEF Sending
  <2>4. CASE out_pc = "sent" /\ free' = free \cup {held}
    <3>1. held \notin Queued
      BY <2>1, <2>4 DEF Carried
    <3>2. QED  BY <2>4, <3>1
  <2>5. QED  BY <1>1, <2>2, <2>3, <2>4, FreedBy
<1>2. QED  BY <1>1, LinkedInvariance, PTL DEF Spec, FreedAfterTransfer
=============================================================================
