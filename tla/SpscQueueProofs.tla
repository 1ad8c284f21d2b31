--------------------------- MODULE SpscQueueProofs --------------------------
(* Proofs about the ring of spscq.h, for every size, watermark and set of items. *)
EXTENDS SpscQueue, SequenceTheorems, TLAPS

\* Seen from the tail the producer knows, the indices never overtake each other.
Ordered ==
    /\ Distance(tail, shadow_tail) < Distance(tail, head)
    /\ Distance(tail, head) <= Distance(tail, shadow_head)

\* A test made before the other thread moved still holds.
TestsHold ==
    /\ push.step = "store" => NextSlot(shadow_head) # tail
    /\ pop = "load" => NextSlot(shadow_tail) # head

\* A push under way carries an item.
PushHasItem == push.step = "store" => push.item \in Items

IInv == TypeOK /\ Ordered /\ TestsHold /\ PushHasItem
-----------------------------------------------------------------------------
(* Arithmetic on the ring. *)

LEMMA Size == QSIZE \in Nat /\ QSIZE >= 2
BY SizeAssumption

\* The mask of push and pop steps to the next slot and wraps at the end.
LEMMA NextSlotIs ==
    ASSUME NEW i \in Slots
    PROVE  NextSlot(i) = IF i = QSIZE - 1 THEN 0 ELSE i + 1
<1>1. CASE i = QSIZE - 1
  BY <1>1, Size DEF NextSlot, Slots
<1>2. CASE i # QSIZE - 1
  BY <1>2, Size DEF NextSlot, Slots
<1>3. QED  BY <1>1, <1>2

LEMMA NextSlotType == \A i \in Slots : NextSlot(i) \in Slots
BY NextSlotIs, Size DEF Slots

LEMMA DistanceType == \A a, b \in Slots : Distance(a, b) \in 0 .. QSIZE - 1
BY Size DEF Slots, Distance

LEMMA DistanceEqual == \A a, b, c \in Slots : Distance(a, b) = Distance(a, c) => b = c
BY Size DEF Slots, Distance

\* One step along the ring is one more, until the starting point is met again.
LEMMA DistanceNext ==
    \A a, b \in Slots : NextSlot(b) # a => Distance(a, NextSlot(b)) = Distance(a, b) + 1
BY NextSlotIs, Size DEF Slots, Distance

\* Distances from one slot to two others, in order, subtract.
LEMMA DistanceMinus ==
    \A a, b, c \in Slots :
        Distance(a, b) <= Distance(a, c) => Distance(b, c) = Distance(a, c) - Distance(a, b)
BY Size DEF Slots, Distance

LEMMA AfterIs ==
    \A a \in Slots : \A k \in 0 .. QSIZE - 1 : After(a, k) \in Slots /\ Distance(a, After(a, k)) = k
BY Size DEF Slots, Distance, After

LEMMA AfterNext ==
    \A a \in Slots : \A k \in 0 .. QSIZE - 1 : After(NextSlot(a), k) = After(a, k + 1)
BY NextSlotIs, Size DEF Slots, After

LEMMA AfterDistance == \A a, b \in Slots : After(a, Distance(a, b)) = b
BY Size DEF Slots, Distance, After
-----------------------------------------------------------------------------
(* The inductive invariant. *)

LEMMA IndexType ==
    ASSUME IInv
    PROVE  tail \in Slots /\ head \in Slots /\ shadow_tail \in Slots /\ shadow_head \in Slots
BY DEF IInv, TypeOK

LEMMA IndexOrder ==
    ASSUME IInv
    PROVE  /\ Distance(tail, shadow_tail) \in 0 .. QSIZE - 1
           /\ Distance(tail, head) \in 0 .. QSIZE - 1
           /\ Distance(tail, shadow_head) \in 0 .. QSIZE - 1
           /\ Distance(tail, shadow_tail) < Distance(tail, head)
           /\ Distance(tail, head) <= Distance(tail, shadow_head)
BY IndexType, DistanceType DEF IInv, Ordered

\* The same, seen from the slot the consumer emptied last.
LEMMA ConsumerOrder ==
    ASSUME IInv
    PROVE  /\ Distance(shadow_tail, head) = Distance(tail, head) - Distance(tail, shadow_tail)
           /\ Distance(shadow_tail, shadow_head)
                = Distance(tail, shadow_head) - Distance(tail, shadow_tail)
<1>1. Distance(tail, shadow_tail) <= Distance(tail, head)
      /\ Distance(tail, shadow_tail) <= Distance(tail, shadow_head)
  BY IndexOrder, Size
<1>2. QED  BY <1>1, IndexType, DistanceMinus

\* The indices init() chooses are in order.
LEMMA InitIInv == Init => IInv
BY Size DEF Init, IInv, TypeOK, Ordered, TestsHold, PushHasItem, Distance, Slots

\* No step of push or pop breaks the order of the indices.
LEMMA NextIInv == IInv /\ [Next]_vars => IInv'
<1> SUFFICES ASSUME IInv, [Next]_vars PROVE IInv'
  OBVIOUS
<1> USE Size
<1>a. tail \in Slots /\ head \in Slots /\ shadow_tail \in Slots /\ shadow_head \in Slots
  BY IndexType
<1>b. NextSlot(shadow_head) \in Slots /\ NextSlot(shadow_tail) \in Slots
  BY <1>a, NextSlotType
<1>c. /\ Distance(tail, shadow_tail) \in 0 .. QSIZE - 1
      /\ Distance(tail, head) \in 0 .. QSIZE - 1
      /\ Distance(tail, shadow_head) \in 0 .. QSIZE - 1
      /\ Distance(tail, shadow_tail) < Distance(tail, head)
      /\ Distance(tail, head) <= Distance(tail, shadow_head)
  BY IndexOrder
<1>1. ASSUME NEW item \in Items, NEW flush_item \in FlushItems, PushTest(item, flush_item)
      PROVE  IInv'
  <2>1. TypeOK'
    BY <1>1, SizeAssumption DEF PushTest, IInv, TypeOK
  <2>2. Ordered' /\ TestsHold' /\ PushHasItem'
    BY <1>1, <1>c DEF PushTest, IInv, TestsHold, Ordered, PushHasItem, Distance, NextSlot
  <2>3. QED  BY <2>1, <2>2 DEF IInv
<1>2. CASE PushStore
  <2>1. TypeOK'
    BY <1>2, <1>b DEF PushStore, IInv, TypeOK
  <2>2. Distance(tail, NextSlot(shadow_head)) = Distance(tail, shadow_head) + 1
    BY <1>2, <1>a, DistanceNext DEF PushStore, IInv, TestsHold
  <2>3. Ordered'
    <3>1. tail' = tail /\ head' = head /\ shadow_tail' = shadow_tail
          /\ shadow_head' = NextSlot(shadow_head)
      BY <1>2 DEF PushStore
    <3>2. QED  BY <2>2, <3>1, <1>c DEF Ordered
  <2>4. TestsHold' /\ PushHasItem'
    BY <1>2 DEF PushStore, IInv, TypeOK, TestsHold, PushHasItem, NextSlot
  <2>5. QED  BY <2>1, <2>3, <2>4 DEF IInv
<1>3. CASE PushPublish
  <2>1. /\ tail' = tail /\ shadow_tail' = shadow_tail /\ shadow_head' = shadow_head
        /\ head' \in {head, shadow_head} /\ pop' = pop
        /\ push'.step # "store" /\ push' \in [step : {"idle", "store", "publish"},
                                   item : Items \cup {NoItem}, flush_item : BOOLEAN]
    BY <1>3 DEF PushPublish, IInv, TypeOK
  <2>2. TypeOK'
    BY <1>3, <2>1 DEF PushPublish, IInv, TypeOK
  <2>3. Ordered'
    BY <2>1, <1>c DEF Ordered
  <2>4. pop' = "load" => NextSlot(shadow_tail)' # head'
    <3> SUFFICES ASSUME pop = "load", head' = shadow_head, NextSlot(shadow_tail) = shadow_head
                 PROVE  FALSE
      BY <2>1 DEF IInv, TestsHold, NextSlot
    <3>1. shadow_head # tail
      BY <1>a, <1>c DEF Distance, Slots
    <3>2. Distance(tail, shadow_head) = Distance(tail, shadow_tail) + 1
      BY <3>1, <1>a, DistanceNext
    <3>3. Distance(tail, head) = Distance(tail, shadow_head)
      BY <3>2, <1>c
    <3>4. QED  BY <3>3, <1>a, DistanceEqual DEF IInv, TestsHold
  <2>5. TestsHold' /\ PushHasItem'
    BY <2>1, <2>4 DEF TestsHold, PushHasItem
  <2>6. QED  BY <2>2, <2>3, <2>5 DEF IInv
<1>4. CASE PopTest
  BY <1>4, <1>c DEF PopTest, IInv, TypeOK, Ordered, TestsHold, PushHasItem, Distance, NextSlot
<1>5. CASE PopLoad
  <2>1. TypeOK'
    BY <1>5, <1>b DEF PopLoad, IInv, TypeOK
  <2>2. /\ tail' = tail /\ head' = head /\ shadow_head' = shadow_head
        /\ shadow_tail' = NextSlot(shadow_tail) /\ pop' = "publish" /\ push' = push
    BY <1>5 DEF PopLoad
  <2>3. Ordered'
    <3>1. NextSlot(shadow_tail) # head
      BY <1>5 DEF PopLoad, IInv, TestsHold
    <3>2. CASE NextSlot(shadow_tail) = tail
      <4>1. Distance(tail, NextSlot(shadow_tail)) = 0
        BY <3>2, <1>a DEF Distance, Slots
      <4>2. QED  BY <4>1, <2>2, <1>c DEF Ordered
    <3>3. CASE NextSlot(shadow_tail) # tail
      <4>1. Distance(tail, NextSlot(shadow_tail)) = Distance(tail, shadow_tail) + 1
        BY <3>3, <1>a, DistanceNext
      <4>2. Distance(tail, NextSlot(shadow_tail)) # Distance(tail, head)
        BY <3>1, <1>a, <1>b, DistanceEqual
      <4>3. QED  BY <4>1, <4>2, <2>2, <1>c DEF Ordered
    <3>4. QED  BY <3>2, <3>3
  <2>4. TestsHold' /\ PushHasItem'
    BY <2>2 DEF IInv, TestsHold, PushHasItem, NextSlot
  <2>5. QED  BY <2>1, <2>3, <2>4 DEF IInv
<1>6. CASE PopPublish
  <2>1. /\ head' = head /\ shadow_tail' = shadow_tail /\ shadow_head' = shadow_head
        /\ tail' \in {tail, shadow_tail} /\ pop' = "idle" /\ push' = push
    BY <1>6 DEF PopPublish
  <2>2. TypeOK'
    BY <1>6, <2>1 DEF PopPublish, IInv, TypeOK
  <2>3. /\ Distance(shadow_tail, shadow_tail) = 0
        /\ Distance(shadow_tail, head) = Distance(tail, head) - Distance(tail, shadow_tail)
        /\ Distance(shadow_tail, shadow_head)
              = Distance(tail, shadow_head) - Distance(tail, shadow_tail)
    BY <1>a, ConsumerOrder DEF Distance, Slots
  <2>4. Ordered'
    BY <2>1, <2>3, <1>c DEF Ordered
  <2>5. TestsHold'
    <3> SUFFICES ASSUME push.step = "store", NextSlot(shadow_head) = shadow_tail, tail' = shadow_tail
                 PROVE  FALSE
      BY <2>1 DEF IInv, TestsHold, NextSlot
    <3>1. Distance(tail, shadow_tail) = Distance(tail, shadow_head) + 1
      BY <1>a, DistanceNext DEF IInv, TestsHold
    <3>2. QED  BY <3>1, <1>c
  <2>6. PushHasItem'
    BY <2>1 DEF IInv, PushHasItem
  <2>7. QED  BY <2>2, <2>4, <2>5, <2>6 DEF IInv
<1>7. CASE UNCHANGED vars
  BY <1>7 DEF vars, IInv, TypeOK, Ordered, TestsHold, PushHasItem, Distance, NextSlot
<1>8. QED
  BY <1>1, <1>2, <1>3, <1>4, <1>5, <1>6, <1>7 DEF Next, Producer, Consumer

(* The order of the indices is an invariant of push and pop. *)
THEOREM Invariance == Spec => []IInv
BY InitIInv, NextIInv, PTL DEF Spec

(* The indices stay on the ring whatever its size (push, pop: TypeOK). *)
THEOREM TypeCorrect == Spec => []TypeOK
<1>1. IInv => TypeOK  BY DEF IInv
<1>2. QED  BY <1>1, Invariance, PTL

(* Producer and consumer never meet in a slot (push, pop: NoSlotShared). *)
THEOREM SlotsAreApart == Spec => []NoSlotShared
<1>1. IInv => NoSlotShared
  <2> SUFFICES ASSUME IInv, push.step = "store"
               PROVE  /\ \A k \in 1 .. Visible : After(shadow_tail, k) # shadow_head
                      /\ pop = "load" => NextSlot(shadow_tail) # shadow_head
    BY DEF NoSlotShared
  <2> USE Size
  <2>1. tail \in Slots /\ head \in Slots /\ shadow_head \in Slots /\ shadow_tail \in Slots
    BY IndexType
  <2>2. Distance(shadow_tail, head) <= Distance(shadow_tail, shadow_head)
    BY IndexOrder, ConsumerOrder
  <2>3. Visible < Distance(shadow_tail, shadow_head) /\ Visible \in 0 .. QSIZE - 2
    BY IndexOrder, ConsumerOrder DEF Visible
  <2>4. ASSUME NEW k \in 1 .. Visible PROVE After(shadow_tail, k) # shadow_head
    BY <2>1, <2>3, AfterIs
  <2>5. pop = "load" => NextSlot(shadow_tail) # shadow_head
    <3> SUFFICES ASSUME pop = "load", NextSlot(shadow_tail) = shadow_head PROVE FALSE
      OBVIOUS
    <3>1. Distance(shadow_tail, shadow_head) = 1
      BY <2>1, DistanceNext, NextSlotIs DEF Distance, Slots
    <3>2. Distance(shadow_tail, head) = 1
      BY <3>1, IndexOrder, ConsumerOrder
    <3>3. QED  BY <2>1, <3>1, <3>2, DistanceEqual DEF IInv, TestsHold
  <2>6. QED  BY <2>4, <2>5
<1>2. QED  BY <1>1, Invariance, PTL
-----------------------------------------------------------------------------
(* The ring implements the bounded queue of module Fifo. *)

Content == Items \cup {NoItem}

\* Contents is a sequence of as many items as lie between the shadow indices.
ContentsShape ==
    /\ Contents \in Seq(Content)
    /\ Len(Contents) = Distance(shadow_tail, shadow_head) - 1
    /\ \A k \in 1 .. Len(Contents) : Contents[k] = items[After(shadow_tail, k)]

\* What the ring holds, seen from the consumer.
Room ==
    /\ Len(Contents) \in 0 .. QSIZE - 2
    /\ Visible \in 0 .. Len(Contents)
    /\ push.step = "store" => Len(Contents) < QSIZE - 2

LEMMA ContentsIsSeq == IInv => ContentsShape /\ Room
<1> SUFFICES ASSUME IInv PROVE ContentsShape /\ Room
  OBVIOUS
<1> USE Size
<1> DEFINE n == Distance(shadow_tail, shadow_head) - 1
<1>a. tail \in Slots /\ head \in Slots /\ shadow_tail \in Slots /\ shadow_head \in Slots
  BY IndexType
<1>b. /\ Distance(tail, shadow_tail) \in 0 .. QSIZE - 1
      /\ Distance(tail, head) \in 0 .. QSIZE - 1
      /\ Distance(tail, shadow_head) \in 0 .. QSIZE - 1
      /\ Distance(tail, shadow_tail) < Distance(tail, head)
      /\ Distance(tail, head) <= Distance(tail, shadow_head)
      /\ Distance(shadow_tail, head) = Distance(tail, head) - Distance(tail, shadow_tail)
      /\ Distance(shadow_tail, shadow_head)
            = Distance(tail, shadow_head) - Distance(tail, shadow_tail)
  BY IndexOrder, ConsumerOrder
<1>1. n \in 0 .. QSIZE - 2 /\ Visible \in 0 .. n
  BY <1>b DEF Visible
<1>2. \A k \in 1 .. n : items[After(shadow_tail, k)] \in Content
  BY <1>a, <1>1, AfterIs DEF IInv, TypeOK, Content
<1>3. Contents \in [1 .. n -> Content]
  BY <1>2 DEF Contents
<1>4. Contents \in Seq(Content)
  BY <1>1, <1>3, SeqDef
<1>5. Len(Contents) = n
  BY <1>1, <1>3, <1>4, LenProperties
<1>6. ASSUME push.step = "store" PROVE n < QSIZE - 2
  <2>1. NextSlot(shadow_head) # tail
    BY <1>6 DEF IInv, TestsHold
  <2>2. Distance(tail, NextSlot(shadow_head)) = Distance(tail, shadow_head) + 1
    BY <2>1, <1>a, DistanceNext
  <2>3. Distance(tail, NextSlot(shadow_head)) \in 0 .. QSIZE - 1
    BY <1>a, NextSlotType, DistanceType
  <2>4. QED  BY <2>2, <2>3, <1>b
<1>7. QED
  BY <1>1, <1>4, <1>5, <1>6 DEF ContentsShape, Room, Contents

\* PushStore appends the item.
LEMMA StoreAppends ==
    ASSUME IInv, IInv', PushStore
    PROVE  Contents' = Append(Contents, push.item) /\ Visible' = Visible
<1> USE Size
<1> DEFINE n == Len(Contents)
<1>a. tail \in Slots /\ shadow_tail \in Slots /\ shadow_head \in Slots
  BY IndexType
<1>b. shadow_tail' = shadow_tail /\ shadow_head' = NextSlot(shadow_head)
      /\ items' = [items EXCEPT ![shadow_head] = push.item] /\ head' = head
  BY DEF PushStore
<1>1. ContentsShape /\ Room
  BY ContentsIsSeq
<1>2. ContentsShape'
  BY ContentsIsSeq, PTL
<1>3. push.item \in Content
  BY DEF IInv, TypeOK, Content
<1>4. n \in Nat /\ n < QSIZE - 2 /\ n = Distance(shadow_tail, shadow_head) - 1
  BY <1>1 DEF PushStore, ContentsShape, Room
<1>5. Len(Contents') = n + 1
  <2>1. NextSlot(shadow_head) # shadow_tail
    BY <1>a, <1>4, NextSlotIs DEF Distance, Slots
  <2>2. Distance(shadow_tail, NextSlot(shadow_head)) = Distance(shadow_tail, shadow_head) + 1
    BY <2>1, <1>a, DistanceNext
  <2>3. Len(Contents') = Distance(shadow_tail, NextSlot(shadow_head)) - 1
    BY <1>b, <1>2 DEF ContentsShape, Distance
  <2>4. Distance(shadow_tail, shadow_head) \in 0 .. QSIZE - 1
    BY <1>a, DistanceType
  <2>5. QED  BY <2>2, <2>3, <2>4, <1>4
<1>6. ASSUME NEW k \in 1 .. n PROVE Contents'[k] = Contents[k]
  <2>1. After(shadow_tail, k) # shadow_head /\ After(shadow_tail, k) \in Slots
    BY <1>a, <1>4, AfterIs
  <2>2. items'[After(shadow_tail, k)] = items[After(shadow_tail, k)]
    BY <1>b, <2>1 DEF IInv, TypeOK
  <2>3. k \in 1 .. Len(Contents')
    BY <1>4, <1>5
  <2>4. Contents'[k] = items'[After(shadow_tail, k)]
    BY <1>2, <1>b, <2>3 DEF ContentsShape, After
  <2>5. QED  BY <1>1, <2>2, <2>4 DEF ContentsShape
<1>7. Contents'[n + 1] = push.item
  <2>1. items'[shadow_head] = push.item
    BY <1>a, <1>b DEF IInv, TypeOK
  <2>2. After(shadow_tail, n + 1) = shadow_head
    BY <1>a, <1>4, AfterDistance, DistanceType
  <2>3. n + 1 \in 1 .. Len(Contents')
    BY <1>4, <1>5
  <2>4. Contents'[n + 1] = items'[After(shadow_tail, n + 1)]
    BY <1>2, <1>b, <2>3 DEF ContentsShape, After
  <2>5. QED  BY <2>1, <2>2, <2>4
<1>8. Contents' = Append(Contents, push.item)
  <2>1. /\ Append(Contents, push.item) \in Seq(Content)
        /\ Len(Append(Contents, push.item)) = n + 1
        /\ \A k \in 1 .. n : Append(Contents, push.item)[k] = Contents[k]
        /\ Append(Contents, push.item)[n + 1] = push.item
    BY <1>1, <1>3, AppendProperties DEF ContentsShape
  <2>2. ASSUME NEW k \in 1 .. n + 1 PROVE Contents'[k] = Append(Contents, push.item)[k]
    <3>1. CASE k = n + 1  BY <3>1, <1>7, <2>1
    <3>2. CASE k \in 1 .. n  BY <3>2, <1>6, <2>1
    <3>3. QED  BY <3>1, <3>2, <1>4
  <2>3. Contents' \in Seq(Content)
    BY <1>2 DEF ContentsShape
  <2>4. QED  BY <1>5, <2>1, <2>2, <2>3, SeqEqual
<1>9. Visible' = Visible
  BY <1>b DEF Visible, Distance
<1>10. QED  BY <1>8, <1>9

\* PopLoad takes the oldest item.
LEMMA LoadTakes ==
    ASSUME IInv, IInv', PopLoad
    PROVE  /\ Visible > 0
           /\ got' = Head(Contents)
           /\ Contents' = Tail(Contents)
           /\ Visible' = Visible - 1
<1> USE Size
<1> DEFINE n == Len(Contents)
<1>a. tail \in Slots /\ head \in Slots /\ shadow_tail \in Slots /\ shadow_head \in Slots
      /\ NextSlot(shadow_tail) \in Slots
  BY IndexType, NextSlotType
<1>b. shadow_tail' = NextSlot(shadow_tail) /\ shadow_head' = shadow_head /\ items' = items
      /\ head' = head /\ got' = items[NextSlot(shadow_tail)]
      /\ NextSlot(shadow_tail) # head
  BY DEF PopLoad, IInv, TestsHold
<1>c. Distance(shadow_tail, NextSlot(shadow_tail)) = 1
  BY <1>a, NextSlotIs DEF Distance, Slots
<1>1. ContentsShape /\ Room
  BY ContentsIsSeq
<1>2. ContentsShape'
  BY ContentsIsSeq, PTL
<1>3. Visible > 0 /\ Visible' = Visible - 1
  <2>1. Distance(shadow_tail, head) # 1
    BY <1>a, <1>b, <1>c, DistanceEqual
  <2>2. Visible > 0
    <3>1. Distance(shadow_tail, head) \in 0 .. QSIZE - 1
      BY <1>a, DistanceType
    <3>2. Visible \in Nat
      BY <1>1 DEF Room
    <3>3. QED  BY <2>1, <3>1, <3>2 DEF Visible
  <2>3. Distance(NextSlot(shadow_tail), head) = Distance(shadow_tail, head) - 1
    BY <2>2, <1>a, <1>c, DistanceMinus, DistanceType DEF Visible
  <2>4. QED  BY <2>2, <2>3, <1>a, <1>b, DistanceType DEF Visible, Distance
<1>4. n \in Nat \ {0} /\ n <= QSIZE - 2 /\ Len(Contents') = n - 1
  <2>1. n \in Nat \ {0} /\ n <= QSIZE - 2 /\ n = Distance(shadow_tail, shadow_head) - 1
    BY <1>1, <1>3 DEF Room, ContentsShape
  <2>2. Distance(NextSlot(shadow_tail), shadow_head) = Distance(shadow_tail, shadow_head) - 1
    <3>1. Distance(shadow_tail, shadow_head) \in 0 .. QSIZE - 1
      BY <1>a, DistanceType
    <3>2. Distance(shadow_tail, NextSlot(shadow_tail)) <= Distance(shadow_tail, shadow_head)
      BY <2>1, <3>1, <1>c
    <3>3. QED  BY <3>2, <1>a, <1>c, DistanceMinus
  <2>3. Len(Contents') = Distance(NextSlot(shadow_tail), shadow_head) - 1
    BY <1>b, <1>2 DEF ContentsShape, Distance
  <2>4. QED  BY <2>1, <2>2, <2>3, <1>a, DistanceType
<1>5. Contents # << >>
  BY <1>4, EmptySeq
<1>6. got' = Head(Contents)
  <2>1. After(shadow_tail, 1) = NextSlot(shadow_tail)
    BY <1>a, <1>c, AfterDistance
  <2>2. Contents[1] = items[NextSlot(shadow_tail)]
    BY <1>1, <1>4, <2>1 DEF ContentsShape
  <2>3. Head(Contents) = Contents[1]
    BY <1>1, <1>5 DEF ContentsShape
  <2>4. QED  BY <1>b, <2>2, <2>3
<1>7. Contents' = Tail(Contents)
  <2>1. /\ Tail(Contents) \in Seq(Content)
        /\ Len(Tail(Contents)) = n - 1
        /\ \A k \in 1 .. n - 1 : Tail(Contents)[k] = Contents[k + 1]
    BY <1>1, <1>5, HeadTailProperties DEF ContentsShape
  <2>2. ASSUME NEW k \in 1 .. n - 1 PROVE Contents'[k] = Contents[k + 1]
    <3>1. After(NextSlot(shadow_tail), k) = After(shadow_tail, k + 1)
      BY <1>a, <1>4, AfterNext
    <3>2. k \in 1 .. Len(Contents') /\ k + 1 \in 1 .. n
      BY <1>4
    <3>3. Contents'[k] = items[After(NextSlot(shadow_tail), k)]
      BY <1>2, <1>b, <3>2 DEF ContentsShape, After
    <3>4. QED  BY <1>1, <3>1, <3>2, <3>3 DEF ContentsShape
  <2>3. Contents' \in Seq(Content)
    BY <1>2 DEF ContentsShape
  <2>4. QED  BY <1>4, <2>1, <2>2, <2>3, SeqEqual
<1>8. QED  BY <1>3, <1>6, <1>7

(***************************************************************************)
(* push and pop, for every size of the ring, are operations of a bounded   *)
(* first in, first out queue (ImplementsFifo).                             *)
(***************************************************************************)
THEOREM RingImplementsFifo == Spec => ImplementsFifo
<1>1. Init => Queue!Init
  <2> SUFFICES ASSUME Init PROVE Contents = << >> /\ Visible = 0 /\ got = NoItem
    BY DEF Queue!Init
  <2>1. ContentsShape /\ Room
    BY InitIInv, ContentsIsSeq
  <2>2. Contents \in Seq(Content) /\ Len(Contents) = 0
    BY <2>1, Size DEF Init, Distance, ContentsShape
  <2>3. QED  BY <2>1, <2>2, EmptySeq DEF Init, Room
<1>2. IInv /\ IInv' /\ [Next]_vars => [Queue!Next]_(Queue!vars)
  <2> SUFFICES ASSUME IInv, IInv', [Next]_vars PROVE Queue!Next \/ UNCHANGED Queue!vars
    OBVIOUS
  <2>1. CASE PushStore
    <3>1. push.item \in Items
      BY <2>1 DEF PushStore, IInv, PushHasItem
    <3>2. Len(Contents) < QSIZE - 2
      BY <2>1, ContentsIsSeq DEF PushStore, Room
    <3>3. Contents' = Append(Contents, push.item) /\ Visible' = Visible /\ got' = got
      BY <2>1, StoreAppends DEF PushStore
    <3>4. QED  BY <3>1, <3>2, <3>3 DEF Queue!Next, Queue!Put
  <2>2. CASE PushPublish
    <3>1. Contents' = Contents /\ got' = got
      BY <2>2 DEF PushPublish, Contents, Distance, After
    <3>2. Visible' = Visible \/ Visible' = Len(Contents)
      BY <2>2, ContentsIsSeq DEF PushPublish, Visible, Distance, ContentsShape
    <3>3. QED  BY <3>1, <3>2 DEF Queue!Next, Queue!Flush, Queue!vars
  <2>3. CASE PopLoad
    BY <2>3, LoadTakes DEF Queue!Next, Queue!Get
  <2>4. ASSUME \/ \E item \in Items, flush_item \in FlushItems : PushTest(item, flush_item)
               \/ PopTest \/ PopPublish \/ UNCHANGED vars
        PROVE  UNCHANGED Queue!vars
    BY <2>4 DEF PushTest, PopTest, PopPublish, vars, Contents, Visible, Distance, After, Queue!vars
  <2>5. QED
    BY <2>1, <2>2, <2>3, <2>4 DEF Next, Producer, Consumer
<1>3. QED
  BY <1>1, <1>2, Invariance, PTL DEF Spec, Queue!Spec, ImplementsFifo
-----------------------------------------------------------------------------
(* How far the tail the producer sees lags behind the consumer. *)

Lag == Distance(tail, shadow_tail)

\* Before the consumer first publishes, tail is the last slot of the ring and the
\* watermark the consumer meets next is the slot after it.
LongestLag == IF AtWatermark(tail) THEN QUEUE_WATERMARK ELSE 1

\* The consumer publishes at the watermarks, before it can be a whole one ahead.
LagInv ==
    /\ tail = QSIZE - 1 \/ AtWatermark(tail)
    /\ Lag <= LongestLag
    /\ Lag = LongestLag => pop = "publish"

LEMMA Watermark ==
    /\ QUEUE_WATERMARK \in Nat
    /\ QUEUE_WATERMARK >= 1
    /\ 2 * QUEUE_WATERMARK <= QSIZE
BY SizeAssumption

LEMMA MultipleIs ==
    ASSUME NEW i \in Nat, AtWatermark(i)
    PROVE  \E k \in Nat : i = k * QUEUE_WATERMARK
<1>1. PICK k \in Nat : k = i \div QUEUE_WATERMARK
  BY Watermark
<1>2. i = QUEUE_WATERMARK * k + (i % QUEUE_WATERMARK)
  BY <1>1, Watermark
<1>3. i % QUEUE_WATERMARK = 0
  BY DEF AtWatermark
<1>4. i = k * QUEUE_WATERMARK
  BY <1>2, <1>3, Watermark
<1>5. QED  BY <1>4

LEMMA Multiple ==
    ASSUME NEW k \in Nat
    PROVE  AtWatermark(k * QUEUE_WATERMARK)
BY Watermark DEF AtWatermark

\* The ring ends at a watermark, and a watermark further is a watermark again.
LEMMA WatermarksRepeat ==
    ASSUME NEW a \in Slots, NEW b \in Slots, AtWatermark(a), Distance(a, b) = QUEUE_WATERMARK
    PROVE  AtWatermark(b)
<1>1. PICK k \in Nat : a = k * QUEUE_WATERMARK
  BY MultipleIs DEF Slots
<1>2. PICK q \in Nat : QSIZE = q * QUEUE_WATERMARK
  BY MultipleIs, SizeAssumption DEF AtWatermark
<1>3. k < q
  BY <1>1, <1>2, Watermark DEF Slots
<1>4. (k + 1) * QUEUE_WATERMARK <= q * QUEUE_WATERMARK
  BY <1>3, Watermark
<1>5. (k + 1) * QUEUE_WATERMARK = a + QUEUE_WATERMARK
  BY <1>1, Watermark
<1>6. a + QUEUE_WATERMARK <= QSIZE
  BY <1>2, <1>4, <1>5
<1>7. b = a + QUEUE_WATERMARK \/ b = 0 * QUEUE_WATERMARK
  BY <1>6, Size, Watermark DEF Distance, Slots
<1>8. QED  BY <1>5, <1>7, Multiple

\* The consumer is at a watermark when the lag is the longest.
LEMMA LongestAtWatermark ==
    ASSUME IInv, LagInv, Lag = LongestLag
    PROVE  AtWatermark(shadow_tail)
<1>1. tail \in Slots /\ shadow_tail \in Slots
  BY IndexType
<1>2. CASE AtWatermark(tail)
  BY <1>1, <1>2, WatermarksRepeat DEF Lag, LongestLag
<1>3. CASE ~AtWatermark(tail)
  <2>1. shadow_tail = 0 * QUEUE_WATERMARK
    BY <1>1, <1>3, Size, Watermark DEF LagInv, Lag, LongestLag, Distance, Slots
  <2>2. QED  BY <2>1, Multiple
<1>4. QED  BY <1>2, <1>3

\* The queue starts without a lag.
LEMMA InitLag == Init => LagInv
BY Size, Watermark DEF Init, LagInv, Lag, LongestLag, Distance

\* pop keeps the lag below a watermark, and push does not touch it.
LEMMA NextLag == IInv /\ LagInv /\ [Next]_vars => LagInv'
<1> SUFFICES ASSUME IInv, LagInv, [Next]_vars PROVE LagInv'
  OBVIOUS
<1>a. tail \in Slots /\ shadow_tail \in Slots /\ Lag \in 0 .. QSIZE - 1
  BY IndexType, DistanceType DEF Lag
<1>b. LongestLag \in Nat /\ LongestLag < QSIZE /\ LongestLag >= 1
  BY Size, Watermark DEF LongestLag
<1>1. CASE Producer \/ UNCHANGED vars
  <2>1. tail' = tail /\ shadow_tail' = shadow_tail /\ pop' = pop
    BY <1>1 DEF Producer, PushTest, PushStore, PushPublish, vars
  <2>2. QED  BY <2>1 DEF LagInv, Lag, LongestLag, AtWatermark, Distance
<1>2. CASE PopTest
  <2>1. tail' = tail /\ shadow_tail' = shadow_tail /\ pop = "idle"
    BY <1>2 DEF PopTest
  <2>2. QED  BY <2>1 DEF LagInv, Lag, LongestLag, AtWatermark, Distance
<1>3. CASE PopLoad
  <2>1. tail' = tail /\ shadow_tail' = NextSlot(shadow_tail) /\ pop' = "publish" /\ pop = "load"
    BY <1>3 DEF PopLoad
  <2>2. Lag < LongestLag
    BY <2>1, <1>a, <1>b DEF LagInv
  <2>3. NextSlot(shadow_tail) # tail
    BY <2>2, <1>a, <1>b, NextSlotIs, Size DEF Lag, Distance, Slots
  <2>4. Lag' = Lag + 1
    BY <2>1, <2>3, <1>a, DistanceNext DEF Lag, Distance
  <2>5. LongestLag' = LongestLag
    BY <2>1 DEF LongestLag, AtWatermark
  <2>6. QED  BY <2>1, <2>2, <2>4, <2>5, <1>a, <1>b DEF LagInv, AtWatermark
<1>4. CASE PopPublish /\ AtWatermark(shadow_tail)
  <2>1. tail' = shadow_tail /\ shadow_tail' = shadow_tail
    BY <1>4 DEF PopPublish
  <2>2. AtWatermark(tail')
    BY <1>4, <2>1 DEF AtWatermark
  <2>3. Lag' = 0 /\ LongestLag' = QUEUE_WATERMARK
    BY <2>1, <2>2, <1>a, Size DEF Lag, LongestLag, AtWatermark, Distance, Slots
  <2>4. QED  BY <2>2, <2>3, Watermark DEF LagInv, AtWatermark
<1>5. CASE PopPublish /\ ~AtWatermark(shadow_tail)
  <2>1. tail' = tail /\ shadow_tail' = shadow_tail
    BY <1>5 DEF PopPublish
  <2>2. Lag # LongestLag
    BY <1>5, LongestAtWatermark
  <2>3. QED  BY <2>1, <2>2 DEF LagInv, Lag, LongestLag, AtWatermark, Distance
<1>6. QED
  BY <1>1, <1>2, <1>3, <1>4, <1>5 DEF Next, Consumer

(***************************************************************************)
(* A push that finds no room finds it because all but a watermark of the   *)
(* ring waits to be taken, so the consumer has work and will make room     *)
(* (push's test of tail, pop's delayed publication: RefusedOnlyWhenLoaded).*)
(***************************************************************************)
THEOREM RefusalsAreLoaded == Spec => []RefusedOnlyWhenLoaded
<1>1. Spec => []LagInv
  BY InitLag, NextLag, Invariance, PTL DEF Spec
<1>2. IInv /\ LagInv => RefusedOnlyWhenLoaded
  <2> SUFFICES ASSUME IInv, LagInv, pop = "idle", NextSlot(shadow_head) = tail
               PROVE  Len(Contents) >= QSIZE - 1 - QUEUE_WATERMARK
    BY DEF RefusedOnlyWhenLoaded
  <2>1. tail \in Slots /\ shadow_tail \in Slots /\ shadow_head \in Slots
    BY IndexType
  <2>2. Distance(tail, shadow_head) = QSIZE - 1
    BY <2>1, NextSlotIs, Size DEF Distance, Slots
  <2>3. Lag \in Nat /\ Lag < QUEUE_WATERMARK
    BY <2>1, DistanceType, Watermark DEF LagInv, Lag, LongestLag
  <2>4. Len(Contents) = Distance(tail, shadow_head) - Lag - 1
    BY ContentsIsSeq, ConsumerOrder, IndexOrder DEF ContentsShape, Lag
  <2>5. QED  BY <2>2, <2>3, <2>4, Size, Watermark
<1>3. QED  BY <1>1, <1>2, Invariance, PTL

=============================================================================
