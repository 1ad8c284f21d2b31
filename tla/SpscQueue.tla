----------------------------- MODULE SpscQueue ------------------------------
(***************************************************************************)
(* lockfree::SpscQ of spscq.h: a ring of QSIZE slots shared by one         *)
(* producer thread and one consumer thread without a lock.  Each side owns *)
(* a shadow index and publishes it through head or tail; the producer      *)
(* publishes when asked to flush or at a watermark, the consumer only at a *)
(* watermark.  Between the test of the other side's index, the access to   *)
(* the slot and the publication the other thread may run, so push and pop  *)
(* are three steps each.  Memory is sequentially consistent: on the build  *)
(* target (x86) gcc_mb(), a compiler barrier, is enough for that.          *)
(***************************************************************************)
EXTENDS Naturals, Sequences

CONSTANTS Items,         \* the pointers callers push
          NoItem,        \* the content of a slot never written
          FlushItems,    \* the values of flush_item the producer passes
          QSIZE,
          QUEUE_WATERMARK

(***************************************************************************)
(* init() makes QSIZE the power of two above max(qsize, 256), so at least  *)
(* 512, and the watermark 256: the watermark divides QSIZE at least twice. *)
(***************************************************************************)
ASSUME SizeAssumption ==
    /\ QUEUE_WATERMARK \in Nat \ {0}
    /\ QSIZE \in Nat
    /\ QSIZE >= 2 * QUEUE_WATERMARK
    /\ QSIZE >= 2
    /\ QSIZE % QUEUE_WATERMARK = 0
    /\ NoItem \notin Items
    /\ FlushItems \subseteq BOOLEAN

VARIABLES items,         \* the slots
          head,          \* published by the producer
          tail,          \* published by the consumer
          shadow_head,   \* the producer's own index: the next slot to fill
          shadow_tail,   \* the consumer's own index: the last slot emptied
          push,          \* the push under way: step, item, flush_item
          pop,           \* the step of the pop under way
          got            \* what the last pop returned

vars == <<items, head, tail, shadow_head, shadow_tail, push, pop, got>>

Slots == 0 .. QSIZE - 1

\* (i + 1) & QUEUE_ITEMS_MASK
NextSlot(i) == (i + 1) % QSIZE

AtWatermark(i) == i % QUEUE_WATERMARK = 0

Init == /\ items = [s \in Slots |-> NoItem]
        /\ head = 0
        /\ shadow_head = 0
        /\ tail = QSIZE - 1
        /\ shadow_tail = QSIZE - 1
        /\ push = [step |-> "idle", item |-> NoItem, flush_item |-> FALSE]
        /\ pop = "idle"
        /\ got = NoItem
-----------------------------------------------------------------------------
(* The producer. *)

PushUntested(item, flush_item) ==   \* mutant: no test for room
    /\ push.step = "idle"
    /\ push' = [step |-> "store", item |-> item, flush_item |-> flush_item]
    /\ UNCHANGED <<items, head, tail, shadow_head, shadow_tail, pop, got>>

\* push finds room.  With no room it returns 1 and changes nothing.
PushTest(item, flush_item) ==
    /\ push.step = "idle"
    /\ NextSlot(shadow_head) # tail
    /\ push' = [step |-> "store", item |-> item, flush_item |-> flush_item]
    /\ UNCHANGED <<items, head, tail, shadow_head, shadow_tail, pop, got>>

PushStore ==
    /\ push.step = "store"
    /\ items' = [items EXCEPT ![shadow_head] = push.item]
    /\ shadow_head' = NextSlot(shadow_head)
    /\ push' = [push EXCEPT !.step = "publish"]
    /\ UNCHANGED <<head, tail, shadow_tail, pop, got>>

PushPublishLate ==   \* mutant: flush_item is ignored
    /\ push.step = "publish"
    /\ head' = IF AtWatermark(shadow_head) THEN shadow_head ELSE head
    /\ push' = [push EXCEPT !.step = "idle"]
    /\ UNCHANGED <<items, tail, shadow_head, shadow_tail, pop, got>>

PushPublish ==
    /\ push.step = "publish"
    /\ head' = IF push.flush_item \/ AtWatermark(shadow_head) THEN shadow_head ELSE head
    /\ push' = [push EXCEPT !.step = "idle"]
    /\ UNCHANGED <<items, tail, shadow_head, shadow_tail, pop, got>>

(* The consumer. *)

\* pop finds a published item.  With none it returns 1 and changes nothing.
PopTest ==
    /\ pop = "idle"
    /\ NextSlot(shadow_tail) # head
    /\ pop' = "load"
    /\ UNCHANGED <<items, head, tail, shadow_head, shadow_tail, push, got>>

PopLoadOld ==   \* mutant: the slot before the one to read
    /\ pop = "load"
    /\ got' = items[shadow_tail]
    /\ shadow_tail' = NextSlot(shadow_tail)
    /\ pop' = "publish"
    /\ UNCHANGED <<items, head, tail, shadow_head, push>>

PopLoad ==
    /\ pop = "load"
    /\ got' = items[NextSlot(shadow_tail)]
    /\ shadow_tail' = NextSlot(shadow_tail)
    /\ pop' = "publish"
    /\ UNCHANGED <<items, head, tail, shadow_head, push>>

PopPublishPerLap ==   \* mutant: the watermark of the consumer is the whole ring
    /\ pop = "publish"
    /\ tail' = IF shadow_tail = 0 THEN shadow_tail ELSE tail
    /\ pop' = "idle"
    /\ UNCHANGED <<items, head, shadow_head, shadow_tail, push, got>>

PopPublish ==
    /\ pop = "publish"
    /\ tail' = IF AtWatermark(shadow_tail) THEN shadow_tail ELSE tail
    /\ pop' = "idle"
    /\ UNCHANGED <<items, head, shadow_head, shadow_tail, push, got>>
-----------------------------------------------------------------------------
Producer == \/ \E item \in Items, flush_item \in FlushItems : PushTest(item, flush_item)
            \/ PushStore
            \/ PushPublish

Consumer == PopTest \/ PopLoad \/ PopPublish

Next == Producer \/ Consumer

Spec == Init /\ [][Next]_vars

(***************************************************************************)
(* The consumer's thread polls the queue in a loop (out_loop), and neither *)
(* thread stops inside an operation.  Nothing obliges anyone to push.      *)
(***************************************************************************)
FairSpec == /\ Spec
            /\ WF_vars(PushStore) /\ WF_vars(PushPublish)
            /\ WF_vars(Consumer)
-----------------------------------------------------------------------------
\* The slots passed when walking the ring from slot a to slot b.
Distance(a, b) == IF a <= b THEN b - a ELSE b + QSIZE - a

\* The slot k places after slot a.
After(a, k) == IF a + k < QSIZE THEN a + k ELSE a + k - QSIZE

\* What was accepted and not yet returned, oldest first.
Contents == [k \in 1 .. Distance(shadow_tail, shadow_head) - 1 |-> items[After(shadow_tail, k)]]

Visible == Distance(shadow_tail, head) - 1

TypeOK ==
    /\ items \in [Slots -> Items \cup {NoItem}]
    /\ {head, tail, shadow_head, shadow_tail} \subseteq Slots
    /\ push \in [step : {"idle", "store", "publish"}, item : Items \cup {NoItem},
                 flush_item : BOOLEAN]
    /\ pop \in {"idle", "load", "publish"}
    /\ got \in Items \cup {NoItem}

(***************************************************************************)
(* The two threads never meet in a slot: the slot push is about to write   *)
(* is not one whose item is still to be read, though both tests were made  *)
(* against indices the other side may have moved since (push and pop).     *)
(***************************************************************************)
NoSlotShared ==
    push.step = "store" =>
        /\ \A k \in 1 .. Visible : After(shadow_tail, k) # shadow_head
        /\ pop = "load" => NextSlot(shadow_tail) # shadow_head

(***************************************************************************)
(* The tail the producer sees lags by up to a watermark, so push refuses   *)
(* before the ring is full, but never while fewer than                     *)
(* QSIZE - 1 - QUEUE_WATERMARK items wait (push's test of tail, pop's      *)
(* delayed publication); a refusal with nothing waiting would be final.    *)
(***************************************************************************)
RefusedOnlyWhenLoaded ==
    (pop = "idle" /\ NextSlot(shadow_head) = tail)
        => Len(Contents) >= QSIZE - 1 - QUEUE_WATERMARK

(***************************************************************************)
(* A push with flush_item set hands over its own item and every item left  *)
(* unpublished before it: pop returns them all in the end, even if the     *)
(* producer never pushes again (push's publication of head).               *)
(***************************************************************************)
AcceptedIsTaken ==
    \A item \in Items :
        (/\ push.step = "publish" /\ push.flush_item
         /\ \E k \in DOMAIN Contents : Contents[k] = item)
            ~> (got = item)

(***************************************************************************)
(* The ring implements the bounded queue: every step of push and pop is    *)
(* one of its operations or changes nothing a caller can see.              *)
(***************************************************************************)
Queue == INSTANCE Fifo WITH queue <- Contents, visible <- Visible, Capacity <- QSIZE - 2

ImplementsFifo == Queue!Spec

=============================================================================
