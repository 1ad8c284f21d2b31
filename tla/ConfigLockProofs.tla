-------------------------- MODULE ConfigLockProofs --------------------------
(***************************************************************************)
(* Proofs about ConfigLock, for every number of connections, requests and  *)
(* results: the mutex is held for a request, and a request that is alone   *)
(* on its connection has the configuration to itself.                      *)
(***************************************************************************)
EXTENDS ConfigLock, TLAPS

(***************************************************************************)
(* What the two invariants rest on.  A request that waits for the mutex is *)
(* one that will lock it (NewStream::run returns early for the others),    *)
(* and one that is alone is the only one on its connection.                *)
(***************************************************************************)
EntersToLock == \A s \in Streams : st[s] = "entering" => kind[s] # "refused"

AloneIsSingle ==
    \A s \in Streams : alone[s] => conn[s] # None /\ \A r \in Streams : conn[r] = conn[s] => r = s

LockInv == TypeOK /\ EntersToLock /\ AloneIsSingle /\ LockIsHeldForAStream /\ AloneIsExclusive
-----------------------------------------------------------------------------
(* TypeOK. *)

LEMMA TypeInit == ASSUME Init PROVE TypeOK
  BY LockAssumption DEF Init, TypeOK, Kinds, Results

(***************************************************************************)
(* StreamDone::run leaves no field of the streams it ends behind, and      *)
(* keeps the types.                                                        *)
(***************************************************************************)
LEMMA ClearedType ==
  ASSUME TypeOK, NEW D, Cleared(D)
  PROVE  /\ conn' \in [Streams -> Conns \cup {None}]
         /\ st' \in [Streams -> {"none", "entering", "open", "ended"}]
         /\ kind' \in [Streams -> Kinds]
         /\ out' \in [Streams -> BOOLEAN]
         /\ left' \in [Streams -> Results]
         /\ valid' \in [Streams -> BOOLEAN]
<1>1. conn' \in [Streams -> Conns \cup {None}]
  BY DEF Cleared, TypeOK
<1>2. st' \in [Streams -> {"none", "entering", "open", "ended"}]
  BY DEF Cleared, TypeOK
<1>3. kind' \in [Streams -> Kinds]
  BY DEF Cleared, TypeOK, Kinds
<1>4. out' \in [Streams -> BOOLEAN] /\ valid' \in [Streams -> BOOLEAN]
  BY DEF Cleared, TypeOK
<1>5. left' \in [Streams -> Results]
  BY LockAssumption DEF Cleared, TypeOK, Results
<1> QED BY <1>1, <1>2, <1>3, <1>4, <1>5

LEMMA DisturbedType ==
  ASSUME TypeOK, NEW c PROVE Disturbed(c) \in [Streams -> BOOLEAN]
  BY DEF Disturbed, TypeOK

(***************************************************************************)
(* process_timeout(true) keeps the types.                                  *)
(***************************************************************************)
LEMMA ForcedOutType ==
  ASSUME TypeOK, NEW c \in Conns, ForcedOut(c), pc' \in [Conns -> {"poll", "lock", "nlock", "closing", "exit", "gone"}]
  PROVE  TypeOK'
<1>1. Cleared(Timeouts(c))
  BY DEF ForcedOut
<1>2. owner' \in Conns \cup {Sweeper, None} /\ alone' \in [Streams -> BOOLEAN]
  BY DisturbedType DEF ForcedOut, UnlockedBy, TypeOK
<1> QED BY <1>1, <1>2, ClearedType DEF TypeOK

(***************************************************************************)
(* No step leaves the types.                                               *)
(***************************************************************************)
LEMMA TypeStep == ASSUME TypeOK, [Next]_vars PROVE TypeOK'
<1> USE LockAssumption
<1>1. ASSUME NEW c \in Conns, NEW s \in Streams, NEW k \in Kinds, StreamNew(c, s, k) PROVE TypeOK'
  BY <1>1, DisturbedType DEF StreamNew, TypeOK, Kinds
<1>2. ASSUME NEW c \in Conns, NEW s \in Streams, NEW n \in Results, Enter(c, s, n) PROVE TypeOK'
  BY <1>2 DEF Enter, TypeOK
<1>3. ASSUME NEW c \in Conns, NEW s \in Streams, Next1(c, s) PROVE TypeOK'
  BY <1>3 DEF Next1, TypeOK, Results
<1>4. ASSUME NEW c \in Conns, NEW s \in Streams, Done(c, s) PROVE TypeOK'
  <2>1. Cleared({s})
    BY <1>4 DEF Done
  <2>2. owner' \in Conns \cup {Sweeper, None} /\ alone' \in [Streams -> BOOLEAN] /\ pc' = pc
    BY <1>4, DisturbedType DEF Done, UnlockedBy, TypeOK
  <2> QED BY <2>1, <2>2, ClearedType DEF TypeOK
<1>5. ASSUME NEW c \in Conns, Idle(c) \/ NotifyFailed(c) \/ Unreg(c) \/ Accept(c) PROVE TypeOK'
  BY <1>5, DisturbedType DEF Idle, NotifyFailed, Unreg, Accept, UnlockedBy, streamVars, TypeOK
<1>6. ASSUME NEW c \in Conns, Fail(c) \/ Close(c) PROVE TypeOK'
  <2>1. ForcedOut(c)
    BY <1>6 DEF Fail, Close
  <2>2. pc' \in [Conns -> {"poll", "lock", "nlock", "closing", "exit", "gone"}]
    BY <1>6 DEF Fail, Close, TypeOK
  <2> QED BY <2>1, <2>2, ForcedOutType
<1>7. ASSUME NEW c \in Conns, ExitPass(c) \/ Remove(c) PROVE TypeOK'
  <2>1. Cleared(On(c)) /\ alone' = Disturbed(c) /\ owner' = owner
    BY <1>7 DEF ExitPass, Remove
  <2>2. pc' \in [Conns -> {"poll", "lock", "nlock", "closing", "exit", "gone"}]
    BY <1>7 DEF ExitPass, Remove, TypeOK
  <2> QED BY <2>1, <2>2, ClearedType, DisturbedType DEF TypeOK
<1>8. ASSUME NEW s \in Streams, Sent(s) PROVE TypeOK'
  BY <1>8 DEF Sent, TypeOK
<1>9. ASSUME SweepLock \/ SweepUnlock PROVE TypeOK'
  BY <1>9 DEF SweepLock, SweepUnlock, streamVars, TypeOK
<1>10. CASE UNCHANGED vars
  BY <1>10 DEF vars, streamVars, TypeOK
<1> QED
  BY <1>1, <1>2, <1>3, <1>4, <1>5, <1>6, <1>7, <1>8, <1>9, <1>10 DEF Next, Connection, Request, Handle
-----------------------------------------------------------------------------
(* The invariant.  Actions are grouped by how they touch the streams. *)

LEMMA LockInit == ASSUME Init PROVE LockInv
<1>1. TypeOK
  BY TypeInit
<1>2. EntersToLock /\ AloneIsSingle /\ AloneIsExclusive
  BY DEF Init, EntersToLock, AloneIsSingle, AloneIsExclusive
<1>3. LockIsHeldForAStream
  BY LockAssumption DEF Init, LockIsHeldForAStream
<1> QED BY <1>1, <1>2, <1>3 DEF LockInv

(***************************************************************************)
(* NewStream::run up to lock(): the new request disturbs the others of its *)
(* connection and changes nothing else of them.                            *)
(***************************************************************************)
LEMMA StreamNewStep ==
  ASSUME LockInv, TypeOK', NEW c \in Conns, NEW s \in Streams, NEW k \in Kinds, StreamNew(c, s, k)
  PROVE  LockInv'
<1> USE LockAssumption DEF LockInv
<1>1. \A r \in Streams \ {s} :
        /\ conn'[r] = conn[r] /\ st'[r] = st[r] /\ kind'[r] = kind[r] /\ valid'[r] = valid[r]
        /\ alone'[r] <=> alone[r] /\ conn[r] # c
  BY DEF StreamNew, Disturbed, TypeOK
<1>2. /\ conn'[s] = c /\ kind'[s] = k /\ st'[s] = IF k = "refused" THEN "ended" ELSE "entering"
      /\ alone'[s] <=> On(c) = {}
  BY DEF StreamNew, Disturbed, TypeOK
<1>3. EntersToLock'
  BY <1>1, <1>2 DEF EntersToLock
<1>4. AloneIsSingle'
  BY <1>1, <1>2 DEF AloneIsSingle, On
<1>5. AloneIsExclusive'
  BY <1>1, <1>2 DEF AloneIsExclusive, StreamNew
<1>6. LockIsHeldForAStream'
  <2> SUFFICES ASSUME NEW d \in Conns, owner' = d, pc'[d] \notin {"exit", "gone"}
               PROVE  \E r \in On(d)' : st'[r] \in {"open", "ended"} /\ kind'[r] # "refused"
    BY DEF LockIsHeldForAStream
  <2>1. owner = d /\ pc[d] \notin {"exit", "gone"} /\ conn[s] = None
    BY DEF StreamNew, TypeOK
  <2>2. PICK r \in On(d) : st[r] \in {"open", "ended"} /\ kind[r] # "refused"
    BY <2>1 DEF LockIsHeldForAStream
  <2>3. r \in Streams \ {s} /\ conn[r] = d
    BY <2>1, <2>2 DEF On
  <2> QED BY <1>1, <2>2, <2>3 DEF On
<1> QED BY <1>3, <1>4, <1>5, <1>6

(***************************************************************************)
(* The rest of NewStream::run: whoever could lock had it, or nobody did.   *)
(***************************************************************************)
LEMMA EnterStep ==
  ASSUME LockInv, TypeOK', NEW c \in Conns, NEW s \in Streams, NEW n \in Results, Enter(c, s, n)
  PROVE  LockInv'
<1> USE LockAssumption DEF LockInv
<1>1. conn' = conn /\ kind' = kind /\ alone' = alone /\ owner' = c /\ conn[s] = c
  BY DEF Enter
<1>2. \A r \in Streams : st'[r] = IF r = s THEN "open" ELSE st[r]
  BY DEF Enter, TypeOK
<1>3. kind[s] # "refused"
  BY DEF Enter, EntersToLock
<1>4. EntersToLock'
  BY <1>1, <1>2 DEF EntersToLock
<1>5. AloneIsSingle'
  BY <1>1 DEF AloneIsSingle
<1>6. LockIsHeldForAStream'
  BY <1>1, <1>2, <1>3 DEF LockIsHeldForAStream, On
<1>7. AloneIsExclusive'
  <2> SUFFICES ASSUME NEW r \in Streams, alone[r], st'[r] = "open"
               PROVE  c = conn[r] /\ (kind[r] = "read" => valid'[r])
    BY <1>1 DEF AloneIsExclusive
  <2>1. CASE r = s
    BY <1>1, <2>1 DEF Enter, TypeOK
  <2>2. CASE r # s
    <3>1. owner = conn[r] /\ conn[r] # None
      BY <1>2, <2>2 DEF AloneIsExclusive, AloneIsSingle
    <3>2. conn[r] = c
      BY <3>1 DEF Enter, CanLock
    <3> QED BY <1>1, <2>2, <3>2 DEF AloneIsSingle
  <2> QED BY <2>1, <2>2
<1> QED BY <1>4, <1>5, <1>6, <1>7

(***************************************************************************)
(* One more result, or END: the request stays as it is.                    *)
(***************************************************************************)
LEMMA Next1Step ==
  ASSUME LockInv, TypeOK', NEW c \in Conns, NEW s \in Streams, Next1(c, s)
  PROVE  LockInv'
<1> USE LockAssumption DEF LockInv
<1>1. owner' = owner /\ pc' = pc /\ conn' = conn /\ kind' = kind /\ valid' = valid /\ alone' = alone
  BY DEF Next1
<1>2. \A r \in Streams : st'[r] = st[r] \/ (st[r] = "open" /\ st'[r] = "ended")
  BY DEF Next1, TypeOK
<1>3. EntersToLock' /\ AloneIsSingle' /\ AloneIsExclusive'
  BY <1>1, <1>2 DEF EntersToLock, AloneIsSingle, AloneIsExclusive
<1>4. LockIsHeldForAStream'
  BY <1>1, <1>2 DEF LockIsHeldForAStream, On
<1> QED BY <1>3, <1>4

(***************************************************************************)
(* Streams of c end and the others are as they were.  Either none ends, or *)
(* all of c are disturbed; the mutex is kept, or c gives it up, or c is on *)
(* its way out.                                                            *)
(***************************************************************************)
LEMMA EndingStep ==
  ASSUME LockInv, TypeOK', NEW c \in Conns, NEW D \in SUBSET On(c), Cleared(D),
         \A r \in Streams : alone'[r] => alone[r] /\ (conn[r] # c \/ (D = {} /\ owner' = owner)),
         \/ owner' = owner /\ (D = {} \/ pc'[c] \in {"exit", "gone"})
         \/ owner' = UnlockedBy(c),
         \A d \in Conns : pc'[d] \notin {"exit", "gone"} => pc[d] \notin {"exit", "gone"}
  PROVE  LockInv'
<1> USE LockAssumption DEF LockInv
<1>1. \A r \in Streams \ D : conn'[r] = conn[r] /\ st'[r] = st[r] /\ kind'[r] = kind[r] /\ (valid'[r] <=> valid[r])
  BY DEF Cleared, TypeOK
<1>2. \A r \in D : r \in Streams /\ conn[r] = c /\ conn'[r] = None /\ st'[r] = "none"
  BY DEF Cleared, On
<1>3. EntersToLock'
  BY <1>1, <1>2 DEF EntersToLock
<1>4. \A r \in Streams : alone'[r] => alone[r] /\ r \notin D
  BY <1>2
<1>5. AloneIsSingle'
  BY <1>1, <1>2, <1>4 DEF AloneIsSingle
<1>6. AloneIsExclusive'
  <2> SUFFICES ASSUME NEW r \in Streams, alone'[r], st'[r] = "open"
               PROVE  owner' = conn'[r] /\ (kind'[r] = "read" => valid'[r])
    BY DEF AloneIsExclusive
  <2>1. alone[r] /\ r \in Streams \ D
    BY <1>4
  <2>2. owner = conn[r] /\ (kind[r] = "read" => valid[r])
    BY <1>1, <2>1 DEF AloneIsExclusive
  <2>3. owner' = owner
    BY <2>2 DEF UnlockedBy
  <2> QED BY <1>1, <2>1, <2>2, <2>3
<1>7. LockIsHeldForAStream'
  <2> SUFFICES ASSUME NEW d \in Conns, owner' = d, pc'[d] \notin {"exit", "gone"}
               PROVE  \E r \in On(d)' : st'[r] \in {"open", "ended"} /\ kind'[r] # "refused"
    BY DEF LockIsHeldForAStream
  <2>1. owner = d /\ (d # c \/ D = {})
    BY DEF UnlockedBy
  <2>2. PICK r \in On(d) : st[r] \in {"open", "ended"} /\ kind[r] # "refused"
    BY <2>1 DEF LockIsHeldForAStream
  <2>3. r \in Streams \ D /\ conn[r] = d
    BY <1>2, <2>1, <2>2 DEF On
  <2> QED BY <1>1, <2>2, <2>3 DEF On
<1> QED BY <1>3, <1>5, <1>6, <1>7

(***************************************************************************)
(* No stream changes; who is alone on c may be disturbed.                  *)
(***************************************************************************)
LEMMA UnlockingStep ==
  ASSUME LockInv, TypeOK', NEW c \in Conns,
         owner \in {None, c}, owner' = None, alone' = Disturbed(c),
         UNCHANGED <<conn, st, kind, valid>>
  PROVE  LockInv'
<1> USE LockAssumption DEF LockInv
<1>1. \A r \in Streams : alone'[r] => alone[r] /\ conn[r] # c
  BY DEF Disturbed
<1>2. EntersToLock' /\ AloneIsSingle'
  BY <1>1 DEF EntersToLock, AloneIsSingle
<1>3. AloneIsExclusive'
  BY <1>1 DEF AloneIsExclusive, AloneIsSingle
<1>4. LockIsHeldForAStream'
  BY DEF LockIsHeldForAStream
<1> QED BY <1>2, <1>3, <1>4

(***************************************************************************)
(* Only threads move, and none that owns the mutex comes back.             *)
(***************************************************************************)
LEMMA ThreadStep ==
  ASSUME LockInv, TypeOK', UNCHANGED <<owner, streamVars>>,
         \A d \in Conns : pc'[d] \notin {"exit", "gone"} => pc[d] \notin {"exit", "gone"} \/ owner # d
  PROVE  LockInv'
<1> USE DEF LockInv, streamVars
<1>1. EntersToLock' /\ AloneIsSingle' /\ AloneIsExclusive'
  BY DEF EntersToLock, AloneIsSingle, AloneIsExclusive
<1>2. LockIsHeldForAStream'
  BY DEF LockIsHeldForAStream, On
<1> QED BY <1>1, <1>2

(***************************************************************************)
(* timeout_loop: it gets the mutex when nobody has it.                     *)
(***************************************************************************)
LEMMA SweepStep == ASSUME LockInv, TypeOK', SweepLock \/ SweepUnlock PROVE LockInv'
<1> USE LockAssumption DEF LockInv
<1>1. /\ owner \notin Conns /\ owner' \notin Conns
      /\ UNCHANGED <<pc, conn, st, kind, alone>>
  BY DEF SweepLock, SweepUnlock, streamVars
<1>2. EntersToLock' /\ AloneIsSingle'
  BY <1>1 DEF EntersToLock, AloneIsSingle
<1>3. LockIsHeldForAStream'
  BY <1>1 DEF LockIsHeldForAStream
<1>4. \A r \in Streams : alone[r] => st[r] # "open"
  BY <1>1 DEF AloneIsExclusive, AloneIsSingle, TypeOK
<1>5. AloneIsExclusive'
  BY <1>1, <1>4 DEF AloneIsExclusive
<1> QED BY <1>2, <1>3, <1>5

LEMMA LockStep == ASSUME LockInv, [Next]_vars PROVE LockInv'
<1> USE LockAssumption
<1>0. TypeOK /\ TypeOK'
  BY TypeStep DEF LockInv
<1>1. ASSUME NEW c \in Conns, NEW s \in Streams, Request(c, s) PROVE LockInv'
  <2>1. ASSUME NEW k \in Kinds, StreamNew(c, s, k) PROVE LockInv'
    BY <1>0, <2>1, StreamNewStep
  <2>2. ASSUME NEW n \in Results, Enter(c, s, n) PROVE LockInv'
    BY <1>0, <2>2, EnterStep
  <2>3. CASE Next1(c, s)
    BY <1>0, <2>3, Next1Step
  <2>4. CASE Done(c, s)
    <3>1. {s} \in SUBSET On(c) /\ Cleared({s}) /\ owner' = UnlockedBy(c) /\ pc' = pc
      BY <2>4 DEF Done, On
    <3>2. \A r \in Streams : alone'[r] => alone[r] /\ conn[r] # c
      BY <1>0, <2>4 DEF Done, Disturbed, TypeOK
    <3> QED BY <1>0, <3>1, <3>2, EndingStep
  <2> QED BY <1>1, <2>1, <2>2, <2>3, <2>4 DEF Request, Handle
<1>2. ASSUME NEW c \in Conns, Connection(c) PROVE LockInv'
  <2>1. CASE Idle(c)
    BY <1>0, <2>1, UnlockingStep DEF Idle, UnlockedBy
  <2>2. CASE Unreg(c)
    BY <1>0, <2>2, UnlockingStep DEF Unreg, CanLock
  <2>3. CASE NotifyFailed(c) \/ Accept(c)
    <3>1. UNCHANGED <<owner, streamVars>>
      BY <2>3 DEF NotifyFailed, Accept
    <3>2. \A d \in Conns : pc'[d] \notin {"exit", "gone"} => pc[d] \notin {"exit", "gone"} \/ owner # d
      BY <1>0, <2>3 DEF NotifyFailed, Accept, TypeOK
    <3> QED BY <1>0, <3>1, <3>2, ThreadStep
  <2>4. CASE Fail(c) \/ Close(c)
    <3>1. ForcedOut(c) /\ Timeouts(c) \in SUBSET On(c) /\ Cleared(Timeouts(c))
      BY <2>4 DEF Fail, Close, ForcedOut, Timeouts
    <3>2. \A d \in Conns : pc'[d] \notin {"exit", "gone"} => pc[d] \notin {"exit", "gone"}
      BY <1>0, <2>4 DEF Fail, Close, TypeOK
    <3>3. \A r \in Streams : alone'[r] => alone[r] /\ (conn[r] # c \/ (Timeouts(c) = {} /\ owner' = owner))
      BY <3>1 DEF ForcedOut, Disturbed
    <3>4. (owner' = owner /\ Timeouts(c) = {}) \/ owner' = UnlockedBy(c)
      BY <3>1 DEF ForcedOut
    <3> QED BY <1>0, <3>1, <3>2, <3>3, <3>4, EndingStep
  <2>5. CASE ExitPass(c) \/ Remove(c)
    <3>1. On(c) \in SUBSET On(c) /\ Cleared(On(c)) /\ owner' = owner
      BY <2>5 DEF ExitPass, Remove
    <3>2. pc'[c] \in {"exit", "gone"} /\ \A d \in Conns : pc'[d] \notin {"exit", "gone"} => pc[d] \notin {"exit", "gone"}
      BY <1>0, <2>5 DEF ExitPass, Remove, TypeOK
    <3>3. \A r \in Streams : alone'[r] => alone[r] /\ conn[r] # c
      BY <2>5 DEF ExitPass, Remove, Disturbed
    <3> QED BY <1>0, <3>1, <3>2, <3>3, EndingStep
  <2> QED BY <1>2, <2>1, <2>2, <2>3, <2>4, <2>5 DEF Connection
<1>3. ASSUME NEW s \in Streams, Sent(s) PROVE LockInv'
  BY <1>0, <1>3 DEF Sent, LockInv, EntersToLock, AloneIsSingle, AloneIsExclusive, LockIsHeldForAStream, On
<1>4. CASE SweepLock \/ SweepUnlock
  BY <1>0, <1>4, SweepStep
<1>5. CASE UNCHANGED vars
  BY <1>0, <1>5, ThreadStep DEF vars
<1> QED BY <1>1, <1>2, <1>3, <1>4, <1>5 DEF Next
-----------------------------------------------------------------------------
(***************************************************************************)
(* The inductive invariant of the configuration lock.                      *)
(***************************************************************************)
THEOREM Invariance == Spec => []LockInv
  BY LockInit, LockStep, PTL DEF Spec

(***************************************************************************)
(* The state keeps its types, for every number of connections, requests    *)
(* and results.                                                            *)
(***************************************************************************)
THEOREM TypeCorrect == Spec => []TypeOK
<1>1. LockInv => TypeOK
  BY DEF LockInv
<1> QED BY <1>1, Invariance, PTL

(***************************************************************************)
(* No living IN thread keeps the mutex without a request on its            *)
(* connection, whatever NewStream, StreamDone, ClientIdle and              *)
(* NtfyUsrStreamDone did before.                                           *)
(***************************************************************************)
THEOREM LockHasAReason == Spec => []LockIsHeldForAStream
<1>1. LockInv => LockIsHeldForAStream
  BY DEF LockInv
<1> QED BY <1>1, Invariance, PTL

(***************************************************************************)
(* A request that is alone on its connection has the mutex from            *)
(* NewStream::run to StreamDone::run, and reads what it found.             *)
(***************************************************************************)
THEOREM AloneHasTheLock == Spec => []AloneIsExclusive
<1>1. LockInv => AloneIsExclusive
  BY DEF LockInv
<1> QED BY <1>1, Invariance, PTL
=============================================================================
