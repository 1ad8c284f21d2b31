----------------------- MODULE ConfigNotifyCopyProofs -----------------------
(***************************************************************************)
(* Proofs about what the daemons of ConfigNotify know of the configuration *)
(* for every set of daemons, items, edits and streams and any number of    *)
(* failures: a daemon whose streams came one after the other has the       *)
(* committed configuration when nothing is on its way, and never a part of *)
(* a commit.                                                               *)
(***************************************************************************)
EXTENDS ConfigNotifyProofs, WellFoundedInduction

Config == [Items -> 0..MaxVersion]
-----------------------------------------------------------------------------
(* Lists of changes. *)

\* Existence of a maximum: the least distance from the bound.
LEMMA MaxIs ==
    ASSUME NEW n \in Nat, NEW K \in SUBSET (1..n), K # {}
    PROVE  Max(K) \in K /\ \A k \in K : k <= Max(K)
<1> DEFINE D == {n - k : k \in K}
<1>1. D \subseteq Nat /\ D # {}
  <2>1. ASSUME NEW k \in K PROVE n - k \in Nat
    <3>1. k \in 1..n
      OBVIOUS
    <3>2. QED  BY <3>1
  <2>2. QED  BY <2>1
<1>2. PICK x \in D : \A y \in D : ~(<<y, x>> \in OpToRel(<, Nat))
  BY <1>1, NatLessThanWellFounded, WFMin
<1>3. \A y \in D : ~(y < x)
  BY <1>1, <1>2 DEF OpToRel
<1>4. PICK m \in K : x = n - m
  OBVIOUS
<1>5. ASSUME NEW k \in K PROVE m >= k
  <2>1. n - k \in D
    OBVIOUS
  <2>2. ~(n - k < n - m)
    BY <1>3, <1>4, <2>1
  <2>3. k \in 1..n /\ m \in 1..n
    OBVIOUS
  <2>4. QED  BY <2>2, <2>3
<1>6. Max(K) \in K /\ \A k \in K : Max(K) >= k
  BY <1>5 DEF Max
<1>7. QED  BY <1>6

\* The last change of i in a list.
LEMMA LastOf ==
    ASSUME NEW list \in Seq(Change), NEW i, ChangesOf(list, i) # {}
    PROVE  /\ Max(ChangesOf(list, i)) \in 1..Len(list)
           /\ list[Max(ChangesOf(list, i))].item = i
           /\ list[Max(ChangesOf(list, i))] \in Change
           /\ \A k \in 1..Len(list) : list[k].item = i => k <= Max(ChangesOf(list, i))
<1>1. Len(list) \in Nat /\ DOMAIN list = 1..Len(list) /\ \A k \in 1..Len(list) : list[k] \in Change
  BY LenProperties, ElementOfSeq
<1>2. ChangesOf(list, i) \in SUBSET (1..Len(list))
  BY <1>1 DEF ChangesOf
<1>3. Max(ChangesOf(list, i)) \in ChangesOf(list, i)
      /\ \A k \in ChangesOf(list, i) : k <= Max(ChangesOf(list, i))
  BY <1>1, <1>2, MaxIs
<1>4. QED  BY <1>1, <1>3 DEF ChangesOf

LEMMA LastIs ==
    ASSUME NEW list \in Seq(Change), NEW i, NEW m \in 1..Len(list), list[m].item = i,
           \A k \in 1..Len(list) : list[k].item = i => k <= m
    PROVE  ChangesOf(list, i) # {} /\ Max(ChangesOf(list, i)) = m
<1>1. Len(list) \in Nat /\ DOMAIN list = 1..Len(list)
  BY LenProperties
<1>2. m \in ChangesOf(list, i)
  BY <1>1 DEF ChangesOf
<1>3. /\ Max(ChangesOf(list, i)) \in 1..Len(list)
      /\ list[Max(ChangesOf(list, i))].item = i
      /\ \A k \in 1..Len(list) : list[k].item = i => k <= Max(ChangesOf(list, i))
  BY <1>2, LastOf
<1>4. QED  BY <1>1, <1>2, <1>3

LEMMA AppliedIs ==
    ASSUME NEW c \in Config, NEW list \in Seq(Change)
    PROVE  /\ Applied(c, list) \in Config
           /\ \A i \in Items : Applied(c, list)[i] = IF ChangesOf(list, i) = {} THEN c[i]
                                                     ELSE list[Max(ChangesOf(list, i))].value
<1>1. \A i \in Items : ChangesOf(list, i) # {} => list[Max(ChangesOf(list, i))].value \in 0..MaxVersion
  BY LastOf DEF Change
<1>2. QED  BY <1>1 DEF Applied, Config

LEMMA NoChanges == \A i : ChangesOf(<<>>, i) = {}
BY DEF ChangesOf

LEMMA AppliedNothing ==
    ASSUME NEW c \in Config
    PROVE  Applied(c, <<>>) = c
BY NoChanges DEF Applied, Config

LEMMA ConcatIs ==
    ASSUME NEW S, NEW a \in Seq(S), NEW b \in Seq(S)
    PROVE  /\ a \o b \in Seq(S) /\ DOMAIN (a \o b) = 1..Len(a \o b)
           /\ \A k \in 1..Len(a) : k \in 1..Len(a \o b) /\ (a \o b)[k] = a[k]
           /\ \A m \in 1..Len(b) : Len(a) + m \in 1..Len(a \o b) /\ (a \o b)[Len(a) + m] = b[m]
           /\ \A k \in 1..Len(a \o b) : k \in 1..Len(a) \/ \E m \in 1..Len(b) : k = Len(a) + m
<1>1. /\ a \o b \in Seq(S) /\ Len(a \o b) = Len(a) + Len(b) /\ Len(a) \in Nat /\ Len(b) \in Nat
      /\ DOMAIN (a \o b) = 1..Len(a \o b)
  BY LenProperties, ConcatProperties
<1>2. /\ \A k \in 1..Len(a) : (a \o b)[k] = a[k]
      /\ \A k \in 1..Len(b) : (a \o b)[Len(a) + k] = b[k]
  BY LenProperties, ConcatProperties
<1>3. \A k \in 1..Len(a) : k \in 1..Len(a \o b)
  BY <1>1
<1>4. \A m \in 1..Len(b) : Len(a) + m \in 1..Len(a \o b)
  BY <1>1
<1>5. ASSUME NEW k \in 1..Len(a \o b), k \notin 1..Len(a) PROVE \E m \in 1..Len(b) : k = Len(a) + m
  <2>1. k - Len(a) \in 1..Len(b) /\ k = Len(a) + (k - Len(a))
    BY <1>1, <1>5
  <2> QED  BY <2>1
<1> QED  BY <1>1, <1>2, <1>3, <1>4, <1>5

\* Changes that follow others.
LEMMA AppliedTwice ==
    ASSUME NEW c \in Config, NEW a \in Seq(Change), NEW b \in Seq(Change)
    PROVE  Applied(c, a \o b) = Applied(Applied(c, a), b)
<1> DEFINE ab == a \o b
<1>1. /\ ab \in Seq(Change) /\ DOMAIN ab = 1..Len(ab)
      /\ \A k \in 1..Len(a) : k \in 1..Len(ab) /\ ab[k] = a[k]
      /\ \A m \in 1..Len(b) : Len(a) + m \in 1..Len(ab) /\ ab[Len(a) + m] = b[m]
      /\ \A k \in 1..Len(ab) : k \in 1..Len(a) \/ \E m \in 1..Len(b) : k = Len(a) + m
  BY ConcatIs
<1>2. Len(a) \in Nat /\ Len(b) \in Nat /\ DOMAIN a = 1..Len(a) /\ DOMAIN b = 1..Len(b)
  BY LenProperties
<1> HIDE DEF ab
<1>4. Applied(c, a) \in Config /\ Applied(c, ab) \in Config /\ Applied(Applied(c, a), b) \in Config
  BY <1>1, AppliedIs
<1>5. ASSUME NEW i \in Items
      PROVE  Applied(c, ab)[i] = Applied(Applied(c, a), b)[i]
  <2>1. CASE ChangesOf(b, i) # {}
    <3> DEFINE m == Max(ChangesOf(b, i))
    <3>1. /\ m \in 1..Len(b) /\ b[m].item = i
          /\ \A k \in 1..Len(b) : b[k].item = i => k <= m
      BY <2>1, LastOf
    <3> HIDE DEF m
    <3>2. Len(a) + m \in 1..Len(ab) /\ ab[Len(a) + m] = b[m]
      BY <1>1, <3>1
    <3>3. ASSUME NEW k \in 1..Len(ab), ab[k].item = i PROVE k <= Len(a) + m
      <4>1. CASE k \in 1..Len(a)
        BY <1>2, <3>1, <4>1
      <4>2. ASSUME NEW l \in 1..Len(b), k = Len(a) + l PROVE k <= Len(a) + m
        <5>1. b[l].item = i
          BY <1>1, <3>3, <4>2
        <5>2. l <= m
          BY <3>1, <5>1
        <5> QED  BY <1>2, <3>1, <4>2, <5>2
      <4> QED  BY <1>1, <4>1, <4>2
    <3>4. ChangesOf(ab, i) # {} /\ Max(ChangesOf(ab, i)) = Len(a) + m
      <4> DEFINE n == Len(a) + m
      <4>1. n \in 1..Len(ab) /\ ab[n].item = i
        BY <3>1, <3>2
      <4>2. \A k \in 1..Len(ab) : ab[k].item = i => k <= n
        BY <3>3
      <4>3. ab \in Seq(Change)
        BY <1>1
      <4> HIDE DEF n
      <4>4. ChangesOf(ab, i) # {} /\ Max(ChangesOf(ab, i)) = n
        BY <4>1, <4>2, <4>3, LastIs
      <4> QED  BY <4>4 DEF n
    <3>5. Applied(Applied(c, a), b)[i] = b[m].value
      BY <1>4, <2>1, AppliedIs DEF m
    <3>6. Applied(c, ab)[i] = ab[Len(a) + m].value
      BY <1>1, <3>4, AppliedIs
    <3> QED  BY <3>2, <3>5, <3>6
  <2>2. CASE ChangesOf(b, i) = {}
    <3>1. \A k \in 1..Len(b) : b[k].item # i
      BY <1>2, <2>2 DEF ChangesOf
    <3>2. ASSUME NEW k \in 1..Len(ab), ab[k].item = i
          PROVE  k \in 1..Len(a) /\ a[k].item = i
      <4>1. ASSUME NEW m \in 1..Len(b), k = Len(a) + m PROVE FALSE
        <5>1. b[m].item = i
          BY <1>1, <3>2, <4>1
        <5> QED  BY <3>1, <5>1
      <4>2. k \in 1..Len(a)
        BY <1>1, <4>1
      <4> QED  BY <1>1, <3>2, <4>2
    <3>3. CASE ChangesOf(a, i) = {}
      <4>1. ChangesOf(ab, i) = {}
        <5> SUFFICES ASSUME NEW k \in ChangesOf(ab, i) PROVE FALSE
          OBVIOUS
        <5>1. k \in 1..Len(ab) /\ ab[k].item = i
          BY <1>1 DEF ChangesOf
        <5>2. k \in 1..Len(a) /\ a[k].item = i
          BY <3>2, <5>1
        <5> QED  BY <1>2, <3>3, <5>2 DEF ChangesOf
      <4>2. Applied(c, ab)[i] = c[i]
        BY <1>1, <4>1, AppliedIs
      <4>3. Applied(c, a)[i] = c[i]
        BY <3>3, AppliedIs
      <4>4. Applied(Applied(c, a), b)[i] = Applied(c, a)[i]
        BY <1>4, <2>2, AppliedIs
      <4> QED  BY <4>2, <4>3, <4>4
    <3>4. CASE ChangesOf(a, i) # {}
      <4> DEFINE m == Max(ChangesOf(a, i))
      <4>1. /\ m \in 1..Len(a) /\ a[m].item = i
            /\ \A k \in 1..Len(a) : a[k].item = i => k <= m
        BY <3>4, LastOf
      <4> HIDE DEF m
      <4>2. m \in 1..Len(ab) /\ ab[m] = a[m]
        BY <1>1, <4>1
      <4>3. ChangesOf(ab, i) # {} /\ Max(ChangesOf(ab, i)) = m
        BY <1>1, <3>2, <4>1, <4>2, LastIs
      <4>4. Applied(Applied(c, a), b)[i] = Applied(c, a)[i]
        BY <1>4, <2>2, AppliedIs
      <4>5. Applied(c, a)[i] = a[m].value
        BY <3>4, AppliedIs DEF m
      <4>6. Applied(c, ab)[i] = ab[m].value
        BY <1>1, <4>3, AppliedIs
      <4> QED  BY <4>2, <4>4, <4>5, <4>6
    <3> QED  BY <3>3, <3>4
  <2> QED  BY <2>1, <2>2
<1> QED  BY <1>4, <1>5 DEF Config, ab

\* The first change of a list, applied on its own.
LEMMA AppliedFirst ==
    ASSUME NEW c \in Config, NEW list \in Seq(Change), list # <<>>
    PROVE  /\ [c EXCEPT ![Head(list).item] = Head(list).value] \in Config
           /\ Applied([c EXCEPT ![Head(list).item] = Head(list).value], Tail(list)) = Applied(c, list)
<1> DEFINE h == Head(list)
           f == <<h>>
<1>1. h \in Change /\ Tail(list) \in Seq(Change) /\ f \in Seq(Change)
  BY HeadTailProperties
<1>2. list = f \o Tail(list)
  OBVIOUS
<1>3. Len(f) = 1 /\ f[1] = h
  OBVIOUS
<1>4. h.item \in Items /\ h.value \in 0..MaxVersion
  BY <1>1 DEF Change
<1> HIDE DEF h, f
<1>5. [c EXCEPT ![h.item] = h.value] \in Config
  BY <1>4 DEF Config
<1>6. Applied(c, f) = [c EXCEPT ![h.item] = h.value]
  <2>1. \A i \in Items : i # h.item => ChangesOf(f, i) = {}
    BY <1>1, <1>3, LenProperties DEF ChangesOf
  <2>2. ChangesOf(f, h.item) # {} /\ Max(ChangesOf(f, h.item)) = 1
    BY <1>1, <1>3, LastIs
  <2> DEFINE g == [c EXCEPT ![h.item] = h.value]
  <2>3. Applied(c, f) \in Config
        /\ \A i \in Items : Applied(c, f)[i] = IF ChangesOf(f, i) = {} THEN c[i]
                                              ELSE f[Max(ChangesOf(f, i))].value
    BY <1>1, AppliedIs
  <2>4. \A i \in Items : g[i] = IF i = h.item THEN h.value ELSE c[i]
    BY DEF Config
  <2>5. ASSUME NEW i \in Items PROVE Applied(c, f)[i] = g[i]
    <3>1. CASE i = h.item
      BY <1>3, <2>2, <2>3, <2>4, <3>1
    <3>2. CASE i # h.item
      BY <2>1, <2>3, <2>4, <3>2
    <3>3. QED  BY <3>1, <3>2
  <2>6. g \in Config
    BY <1>5
  <2> HIDE DEF g
  <2>7. Applied(c, f) = g
    BY <2>3, <2>5, <2>6 DEF Config
  <2>8. QED  BY <2>7 DEF g
<1>7. Applied(c, f \o Tail(list)) = Applied(Applied(c, f), Tail(list))
  BY <1>1, AppliedTwice
<1>8. QED  BY <1>2, <1>5, <1>6, <1>7 DEF h

\* A change more at the end of a list.
LEMMA ChangesOfMore ==
    ASSUME NEW list \in Seq(Change), NEW e \in Change
    PROVE  /\ ChangesOf(Append(list, e), e.item) # {}
           /\ \A i : ChangesOf(list, i) # {} => ChangesOf(Append(list, e), i) # {}
<1>1. Len(list) \in Nat /\ DOMAIN list = 1..Len(list)
  BY LenProperties
<1>2. /\ Append(list, e) \in Seq(Change) /\ Len(Append(list, e)) = Len(list) + 1
      /\ DOMAIN Append(list, e) = 1..(Len(list) + 1)
      /\ \A k \in 1..Len(list) : Append(list, e)[k] = list[k]
      /\ Append(list, e)[Len(list) + 1] = e
  BY <1>1, LenProperties
<1>3. Len(list) + 1 \in 1..(Len(list) + 1) /\ \A k \in 1..Len(list) : k \in 1..(Len(list) + 1)
  BY <1>1
<1>4. Len(list) + 1 \in ChangesOf(Append(list, e), e.item)
  BY <1>2, <1>3 DEF ChangesOf
<1>5. \A i : \A k \in ChangesOf(list, i) : k \in ChangesOf(Append(list, e), i)
  BY <1>1, <1>2, <1>3 DEF ChangesOf
<1> QED  BY <1>4, <1>5
-----------------------------------------------------------------------------
(* Sequences. *)

LEMMA ToSetIs ==
    ASSUME NEW S, NEW q \in Seq(S)
    PROVE  /\ ToSet(q) \subseteq S
           /\ ToSet(q) = {} <=> q = <<>>
           /\ \A t : t \in ToSet(q) <=> \E k \in 1..Len(q) : q[k] = t
<1>1. Len(q) \in Nat /\ DOMAIN q = 1..Len(q) /\ \A k \in 1..Len(q) : q[k] \in S
  BY LenProperties, ElementOfSeq
<1>2. \A t : t \in ToSet(q) <=> \E k \in 1..Len(q) : q[k] = t
  BY <1>1 DEF ToSet
<1>3. ASSUME q # <<>> PROVE ToSet(q) # {}
  <2>1. 1 \in 1..Len(q)
    BY <1>1, <1>3, EmptySeq
  <2> QED  BY <1>2, <2>1
<1>4. q = <<>> => ToSet(q) = {}
  BY DEF ToSet
<1> QED  BY <1>1, <1>2, <1>3, <1>4

LEMMA ToSetAppend ==
    ASSUME NEW S, NEW q \in Seq(S), NEW x \in S
    PROVE  ToSet(Append(q, x)) = ToSet(q) \cup {x}
<1>1. /\ Len(q) \in Nat /\ Append(q, x) \in Seq(S) /\ Len(Append(q, x)) = Len(q) + 1
      /\ \A k \in 1..Len(q) : Append(q, x)[k] = q[k]
      /\ Append(q, x)[Len(q) + 1] = x
  BY LenProperties
<1>2. /\ \A k \in 1..(Len(q) + 1) : k \in 1..Len(q) \/ k = Len(q) + 1
      /\ Len(q) + 1 \in 1..(Len(q) + 1) /\ \A k \in 1..Len(q) : k \in 1..(Len(q) + 1)
  BY <1>1
<1>3. \A t : (t \in ToSet(q) <=> \E k \in 1..Len(q) : q[k] = t)
             /\ (t \in ToSet(Append(q, x)) <=> \E k \in 1..(Len(q) + 1) : Append(q, x)[k] = t)
  BY <1>1, ToSetIs
<1> QED  BY <1>1, <1>2, <1>3

LEMMA TailIs ==
    ASSUME NEW S, NEW q \in Seq(S), q # <<>>
    PROVE  /\ Head(q) \in S /\ Head(q) = q[1] /\ Len(q) \in Nat \ {0} /\ 1 \in 1..Len(q)
           /\ Tail(q) \in Seq(S) /\ Len(Tail(q)) = Len(q) - 1
           /\ \A k \in 1..Len(Tail(q)) : k + 1 \in 1..Len(q) /\ Tail(q)[k] = q[k + 1]
           /\ \A k \in 1..Len(q) : k = 1 \/ \E j \in 1..Len(Tail(q)) : k = j + 1
<1>1. Len(q) \in Nat \ {0} /\ Head(q) \in S /\ Head(q) = q[1]
      /\ Tail(q) \in Seq(S) /\ Len(Tail(q)) = Len(q) - 1
  BY HeadTailProperties, EmptySeq, LenProperties
<1>2. \A k \in 1..(Len(q) - 1) : k + 1 \in 1..Len(q) /\ Tail(q)[k] = q[k + 1]
  BY <1>1, HeadTailProperties, LenProperties
<1>3. ASSUME NEW k \in 1..Len(q), k # 1 PROVE \E j \in 1..(Len(q) - 1) : k = j + 1
  <2>1. k - 1 \in 1..(Len(q) - 1) /\ k = (k - 1) + 1
    BY <1>1, <1>3
  <2> QED  BY <2>1
<1> QED  BY <1>1, <1>2, <1>3

LEMMA ToSetTail ==
    ASSUME NEW S, NEW q \in Seq(S), q # <<>>
    PROVE  ToSet(q) = {Head(q)} \cup ToSet(Tail(q))
<1>1. \A t : (t \in ToSet(q) <=> \E k \in 1..Len(q) : q[k] = t)
             /\ (t \in ToSet(Tail(q)) <=> \E k \in 1..Len(Tail(q)) : Tail(q)[k] = t)
  BY TailIs, ToSetIs
<1>2. /\ Head(q) = q[1] /\ 1 \in 1..Len(q)
      /\ \A k \in 1..Len(Tail(q)) : k + 1 \in 1..Len(q) /\ Tail(q)[k] = q[k + 1]
      /\ \A k \in 1..Len(q) : k = 1 \/ \E j \in 1..Len(Tail(q)) : k = j + 1
  BY TailIs
<1> DEFINE h == Head(q)
           r == Tail(q)
<1> HIDE DEF h, r
<1>3. ASSUME NEW t \in ToSet(q) PROVE t = h \/ t \in ToSet(r)
  <2>1. PICK k \in 1..Len(q) : q[k] = t
    BY <1>1
  <2>2. k = 1 \/ \E j \in 1..Len(r) : k = j + 1
    BY <1>2 DEF r
  <2> QED  BY <1>1, <1>2, <2>1, <2>2 DEF h, r
<1>4. ASSUME NEW t \in ToSet(r) PROVE t \in ToSet(q)
  BY <1>1, <1>2, <1>4 DEF r
<1>5. h \in ToSet(q)
  BY <1>1, <1>2 DEF h
<1>6. ToSet(q) = {h} \cup ToSet(r)
  BY <1>3, <1>4, <1>5
<1> QED  BY <1>6 DEF h, r

\* What is taken from one list and added to another.
LEMMA Moved ==
    ASSUME NEW S, NEW a \in Seq(S), NEW b \in Seq(S), b # <<>>
    PROVE  Append(a, Head(b)) \o Tail(b) = a \o b
<1>1. b = <<Head(b)>> \o Tail(b) /\ Append(a, Head(b)) = a \o <<Head(b)>>
  OBVIOUS
<1>2. Tail(b) \in Seq(S) /\ <<Head(b)>> \in Seq(S)
  BY TailIs
<1> DEFINE h == <<Head(b)>>
           r == Tail(b)
<1> HIDE DEF h, r
<1>3. (a \o h) \o r = a \o (h \o r)
  BY <1>2, ConcatAssociative DEF h, r
<1> QED  BY <1>1, <1>3 DEF h, r
-----------------------------------------------------------------------------
(* The invariant. *)

Known(t) == t.kind = "get" /\ t.known

UpMsgs == {<<"get", "start">>, <<"get", "continue">>, <<"notify", "continue">>, <<"notify", "error">>}

DownMsgs == {<<"get", "item">>, <<"get", "end">>,
             <<"notify", "start">>, <<"notify", "item">>, <<"notify", "end">>}

\* The requests before one that its daemon knows have no packet behind its own.
Ordered(q) == \A j, k \in 1..Len(q) : q[j].kind = "get" /\ Known(q[k]) => j <= k

Queues(u, w) ==
    /\ Ordered(u) /\ Ordered(w)
    /\ (\E t \in ToSet(u) : t.kind = "get") => \A t \in ToSet(w) : ~Known(t)
    /\ \A t \in ToSet(u) : <<t.kind, t.msg>> \in UpMsgs /\ (t.msg = "start" => t.got = <<>>)
    /\ \A t \in ToSet(w) : <<t.kind, t.msg>> \in DownMsgs /\ (t.msg = "end" => t.left = <<>>)

\* A daemon that waits for no answer knows no request, and has finished the last.
PhaseInv(d) ==
    /\ phase[d] # "waiting" => \A t \in Open(d) : ~Known(t)
    /\ phase[d] \in {"merge", "up"} => \A t \in Open(d) : t.kind # "get"
    /\ phase[d] # "merge" => snap[d] = <<>>

Single(u, w, t) == \/ u = <<t>> /\ w = <<>>
                   \/ u = <<>> /\ w = <<t>>

\* What a copy c lacks of a configuration is in a list of changes.
Fresh(c, config, list) == \A i \in Items : c[i] = config[i] \/ ChangesOf(list, i) # {}

\* What a request has received is committed, or (in a mix) has changed since.
Fetched(t, mix, config, list) ==
    /\ \A i \in Items : i \in ToSet(t.left) \/ ChangesOf(t.got, i) # {}
    /\ \A k \in 1..Len(t.got) : \/ t.got[k].value = config[t.got[k].item]
                                \/ mix /\ ChangesOf(list, t.got[k].item) # {}

\* A copy when a notification is applied after what is to be merged.
Coming(c, s, t) == Applied(Applied(c, s), t.got \o t.left)

Requested(d) ==
    \A t \in Open(d) : Known(t) /\ t.msg # "start" =>
        Single(up[d], down[d], t) /\ Fetched(t, state[d] = "mix", committed, changes)

Followed(d) ==
    /\ \A t \in Open(d) : /\ Single(up[d], down[d], t) /\ t.msg # "error"
                          /\ Fresh(Coming(copy[d], snap[d], t), committed, changes)
                          /\ Coming(copy[d], snap[d], t) \in log
    /\ Open(d) = {} => Fresh(Applied(copy[d], snap[d]), committed, changes)
    /\ state[d] = "whole" => Applied(copy[d], snap[d]) \in log

CopyInv(d) ==
    state[d] # "missed" => /\ d \in Users
                           /\ Requested(d)
                           /\ phase[d] \in {"merge", "up"} => Followed(d)

ChangesInv == Applied(committed, changes) = committed /\ committed \in log

LocalInv == /\ ready \in BOOLEAN /\ owing \subseteq Commits
            /\ conn \in [Daemons -> BOOLEAN] /\ handler \in [Daemons -> BOOLEAN]
            /\ phase \in [Daemons -> {"down", "waiting", "merge", "up"}]
            /\ snap \in [Daemons -> Seq(Change)]
            /\ copy \in [Daemons -> Config]
            /\ state \in [Daemons -> {"whole", "mix", "missed"}]

DaemonInv(d) == Queues(up[d], down[d]) /\ PhaseInv(d) /\ CopyInv(d)

FollowInv == NotifyInv /\ LocalInv /\ ChangesInv /\ \A d \in Daemons : DaemonInv(d)
-----------------------------------------------------------------------------
(* The order of packets. *)

LEMMA OrderedTail ==
    ASSUME NEW S, NEW q \in Seq(S), q # <<>>, Ordered(q)
    PROVE  Ordered(Tail(q)) /\ (Known(Head(q)) => \A t \in ToSet(Tail(q)) : t.kind # "get")
<1>1. /\ Head(q) = q[1] /\ 1 \in 1..Len(q) /\ Len(Tail(q)) \in Nat
      /\ \A k \in 1..Len(Tail(q)) : k + 1 \in 1..Len(q) /\ Tail(q)[k] = q[k + 1]
  BY TailIs
<1>2. \A t : t \in ToSet(Tail(q)) <=> \E k \in 1..Len(Tail(q)) : Tail(q)[k] = t
  BY TailIs, ToSetIs
<1> DEFINE h == Head(q)
           r == Tail(q)
<1> HIDE DEF h, r
<1>3. Ordered(r)
  <2>1. ASSUME NEW j \in 1..Len(r), NEW k \in 1..Len(r), r[j].kind = "get", Known(r[k]) PROVE j <= k
    <3>1. j + 1 <= k + 1
      BY <1>1, <2>1 DEF Ordered, r
    <3> QED  BY <3>1
  <2> QED  BY <2>1 DEF Ordered
<1>4. ASSUME Known(h), NEW t \in ToSet(r) PROVE t.kind # "get"
  <2>1. PICK k \in 1..Len(r) : r[k] = t
    BY <1>2 DEF r
  <2>2. k + 1 \in 1..Len(q) /\ q[k + 1] = t
    BY <1>1, <2>1 DEF r
  <2>3. t.kind = "get" => k + 1 <= 1
    BY <1>1, <1>4, <2>2 DEF Ordered, h
  <2> QED  BY <2>3
<1> QED  BY <1>3, <1>4 DEF h, r

LEMMA OrderedAppend ==
    ASSUME NEW S, NEW q \in Seq(S), NEW x \in S, Ordered(q),
           x.kind = "get" => \A t \in ToSet(q) : ~Known(t)
    PROVE  Ordered(Append(q, x))
<1>1. /\ Len(q) \in Nat /\ Append(q, x) \in Seq(S) /\ Len(Append(q, x)) = Len(q) + 1
      /\ \A k \in 1..Len(q) : Append(q, x)[k] = q[k]
      /\ Append(q, x)[Len(q) + 1] = x
  BY LenProperties
<1>2. \A t : t \in ToSet(q) <=> \E k \in 1..Len(q) : q[k] = t
  BY ToSetIs
<1> DEFINE a == Append(q, x)
<1> HIDE DEF a
<1>3. ASSUME NEW j \in 1..(Len(q) + 1), NEW k \in 1..(Len(q) + 1), a[j].kind = "get", Known(a[k])
      PROVE  j <= k
  <2>1. CASE k = Len(q) + 1
    BY <1>1, <2>1
  <2>2. CASE k # Len(q) + 1
    <3>1. k \in 1..Len(q) /\ a[k] = q[k]
      BY <1>1, <2>2 DEF a
    <3>2. CASE j = Len(q) + 1
      BY <1>1, <1>2, <1>3, <3>1, <3>2 DEF a
    <3>3. CASE j # Len(q) + 1
      <4>1. j \in 1..Len(q) /\ a[j] = q[j]
        BY <1>1, <3>3 DEF a
      <4> QED  BY <1>3, <3>1, <4>1 DEF Ordered
    <3> QED  BY <3>2, <3>3
  <2> QED  BY <2>1, <2>2
<1> QED  BY <1>1, <1>3 DEF Ordered, a

LEMMA OrderedUnknown ==
    ASSUME NEW S, NEW q \in Seq(S), \A t \in ToSet(q) : ~Known(t)
    PROVE  Ordered(q)
BY ToSetIs DEF Ordered
-----------------------------------------------------------------------------
(* Packets that move. *)

LEMMA TokenFields ==
    ASSUME NEW d \in Daemons, NEW t \in Token(d), NEW m \in Msg
    PROVE  LET x == [t EXCEPT !.msg = m]
           IN  x.kind = t.kind /\ x.msg = m /\ x.left = t.left /\ x.got = t.got /\ x.known = t.known
<1>1. CASE t \in GetToken
  BY <1>1 DEF GetToken
<1>2. CASE t \in NtfToken
  BY <1>2 DEF NtfToken
<1> QED  BY <1>1, <1>2 DEF Token

LEMMA TokenIs ==
    ASSUME NEW d \in Daemons, NEW t \in Token(d)
    PROVE  /\ t.kind \in {"get", "notify"} /\ t.got \in Seq(Change) /\ t.known \in BOOLEAN
           /\ t.kind = "get" => t.left \in Seq(Items)
           /\ t.kind = "notify" => t.left \in Seq(Change)
<1>1. CASE t \in GetToken
  BY <1>1 DEF GetToken
<1>2. CASE t \in NtfToken
  BY <1>2 DEF NtfToken
<1> QED  BY <1>1, <1>2 DEF Token

LEMMA SingleOpen ==
    ASSUME NEW d, NEW t, Single(up[d], down[d], t)
    PROVE  Open(d) = {t}
<1>1. ToSet(<<t>>) = {t} /\ ToSet(<<>>) = {}
  BY DEF ToSet
<1> QED  BY <1>1 DEF Single, Open

LEMMA SingleEnds ==
    ASSUME NEW q, q # <<>>, NEW o, NEW t, Single(o, q, t) \/ Single(q, o, t)
    PROVE  t = Head(q) /\ Tail(q) = <<>> /\ \A x : Append(o, x) = <<x>>
<1>1. q = <<t>> /\ o = <<>>
  BY DEF Single
<1>2. Head(<<t>>) = t /\ Tail(<<t>>) = <<>>
  OBVIOUS
<1>3. \A x : Append(<<>>, x) = <<x>>
  OBVIOUS
<1> QED  BY <1>1, <1>2, <1>3

LEMMA SingleIs == \A x : Single(<<x>>, <<>>, x) /\ Single(<<>>, <<x>>, x)
BY DEF Single

\* A packet up is answered with another of its stream.
LEMMA TellIs ==
    ASSUME PacketsInv, NEW d \in Daemons, up[d] # <<>>, Queues(up[d], down[d]),
           NEW t \in Token(d), NEW m \in Msg, Tell(d, t, m),
           t.kind = Head(up[d]).kind, t.known = Head(up[d]).known,
           <<t.kind, m>> \in DownMsgs, m = "end" => t.left = <<>>
    PROVE  LET x == [t EXCEPT !.msg = m]
           IN  /\ Queues(up'[d], down'[d])
               /\ Head(up[d]) \in Open(d) /\ Head(up[d]) \in Token(d)
               /\ Open(d)' \subseteq Open(d) \cup {x}
               /\ \A a : Single(up[d], down[d], a) => a = Head(up[d]) /\ Single(up'[d], down'[d], x) /\ Open(d)' = {x}
               /\ \A e \in Daemons \ {d} : up'[e] = up[e] /\ down'[e] = down[e]
<1> DEFINE x == [t EXCEPT !.msg = m]
           h == Head(up[d])
           u == up[d]
           w == down[d]
           r == Tail(u)
           n == Append(w, x)
<1>1. u \in Seq(Token(d)) /\ w \in Seq(Token(d)) /\ u # <<>> /\ x \in Token(d)
  BY TokenMsg DEF PacketsInv
<1>2. x.kind = h.kind /\ x.known = h.known /\ x.msg = m /\ x.left = t.left
  BY TokenFields
<1>3. up' = [up EXCEPT ![d] = r] /\ down' = [down EXCEPT ![d] = n]
  BY DEF Tell
<1>4. up'[d] = r /\ down'[d] = n
  BY <1>3 DEF PacketsInv
<1>5. \A e \in Daemons \ {d} : up'[e] = up[e] /\ down'[e] = down[e]
  BY <1>3 DEF PacketsInv
<1>6. ToSet(u) = {h} \cup ToSet(r) /\ ToSet(n) = ToSet(w) \cup {x} /\ h \in Token(d)
  BY <1>1, ToSetTail, ToSetAppend, TailIs
<1>7. Ordered(r) /\ (Known(h) => \A y \in ToSet(r) : y.kind # "get")
  BY <1>1, OrderedTail DEF Queues
<1>8. h.kind = "get" => \A y \in ToSet(w) : ~Known(y)
  BY <1>6 DEF Queues
<1>9. Ordered(n)
  BY <1>1, <1>2, <1>8, OrderedAppend DEF Queues
<1>10. \A a : Single(up[d], down[d], a) => a = h /\ r = <<>> /\ n = <<x>>
  BY <1>1, SingleEnds
<1> HIDE DEF x, h, r, n
<1>11. Queues(r, n)
  <2>1. (\E y \in ToSet(r) : y.kind = "get") => \A y \in ToSet(n) : ~Known(y)
    <3>1. ASSUME NEW y \in ToSet(r), y.kind = "get" PROVE ~Known(h) /\ \A z \in ToSet(w) : ~Known(z)
      BY <1>6, <1>7, <3>1 DEF Queues
    <3>2. Known(x) <=> Known(h)
      BY <1>2 DEF Known
    <3> QED  BY <1>6, <3>1, <3>2
  <2>2. <<x.kind, x.msg>> \in DownMsgs /\ (x.msg = "end" => x.left = <<>>)
    BY <1>2 DEF h
  <2>3. \A y \in ToSet(n) : <<y.kind, y.msg>> \in DownMsgs /\ (y.msg = "end" => y.left = <<>>)
    BY <1>6, <2>2 DEF Queues
  <2> QED  BY <1>6, <1>7, <1>9, <2>1, <2>3 DEF Queues
<1>12. Open(d)' \subseteq Open(d) \cup {x}
  BY <1>4, <1>6 DEF Open
<1>13. \A a : Single(up[d], down[d], a) => Single(up'[d], down'[d], x)
  BY <1>4, <1>10, SingleIs
<1>14. \A a : Single(up[d], down[d], a) => Open(d)' = {x}
  <2>1. ToSet(<<x>>) = {x} /\ ToSet(<<>>) = {}
    BY DEF ToSet
  <2> QED  BY <1>4, <1>10, <2>1 DEF Open
<1> QED  BY <1>4, <1>5, <1>6, <1>10, <1>11, <1>12, <1>13, <1>14 DEF Open, h, x

\* A packet down is answered by a daemon that knows its stream.
LEMMA AnswerIs ==
    ASSUME PacketsInv, NEW d \in Daemons, down[d] # <<>>, Queues(up[d], down[d]),
           NEW m \in Msg, Answer(d, Head(down[d]), m), <<Head(down[d]).kind, m>> \in UpMsgs, m # "start",
           Head(down[d]).kind = "get" => Known(Head(down[d]))
    PROVE  LET x == [Head(down[d]) EXCEPT !.msg = m]
           IN  /\ Queues(up'[d], down'[d])
               /\ Head(down[d]) \in Open(d) /\ Head(down[d]) \in Token(d)
               /\ Open(d)' \subseteq Open(d) \cup {x}
               /\ \A a : Single(up[d], down[d], a) => a = Head(down[d]) /\ Single(up'[d], down'[d], x) /\ Open(d)' = {x}
               /\ \A e \in Daemons \ {d} : up'[e] = up[e] /\ down'[e] = down[e]
<1> DEFINE h == Head(down[d])
           x == [h EXCEPT !.msg = m]
           u == up[d]
           w == down[d]
           r == Tail(w)
           n == Append(u, x)
<1>1. u \in Seq(Token(d)) /\ w \in Seq(Token(d)) /\ w # <<>>
  BY DEF PacketsInv
<1>2. ToSet(w) = {h} \cup ToSet(r) /\ h \in Token(d)
  BY <1>1, ToSetTail, TailIs
<1>3. x \in Token(d) /\ x.kind = h.kind /\ x.known = h.known /\ x.msg = m /\ x.left = h.left
  BY <1>2, TokenFields, TokenMsg
<1>4. up' = [up EXCEPT ![d] = n] /\ down' = [down EXCEPT ![d] = r]
  BY DEF Answer
<1>5. up'[d] = n /\ down'[d] = r
  BY <1>4 DEF PacketsInv
<1>6. \A e \in Daemons \ {d} : up'[e] = up[e] /\ down'[e] = down[e]
  BY <1>4 DEF PacketsInv
<1> HIDE DEF x
<1>7. ToSet(n) = ToSet(u) \cup {x}
  BY <1>1, <1>3, ToSetAppend
<1>8. Ordered(r) /\ (Known(h) => \A y \in ToSet(r) : y.kind # "get")
  BY <1>1, OrderedTail DEF Queues
<1>9. Known(h) => \A y \in ToSet(u) : y.kind # "get"
  BY <1>2 DEF Queues
<1>10. Ordered(n)
  <2>1. x.kind = "get" => \A y \in ToSet(u) : ~Known(y)
    BY <1>3, <1>9 DEF Known
  <2> QED  BY <1>1, <1>3, <2>1, OrderedAppend DEF Queues
<1>11. \A a : Single(up[d], down[d], a) => a = h /\ r = <<>> /\ n = <<x>>
  BY <1>1, SingleEnds
<1> HIDE DEF h, r, n
<1>12. Queues(n, r)
  BY <1>2, <1>3, <1>7, <1>8, <1>10 DEF Queues, Known, h
<1>13. Open(d)' \subseteq Open(d) \cup {x}
  BY <1>2, <1>5, <1>7 DEF Open
<1>14. \A a : Single(up[d], down[d], a) => Single(up'[d], down'[d], x)
  BY <1>5, <1>11, SingleIs
<1>15. \A a : Single(up[d], down[d], a) => Open(d)' = {x}
  <2>1. ToSet(<<x>>) = {x} /\ ToSet(<<>>) = {}
    BY DEF ToSet
  <2> QED  BY <1>5, <1>11, <2>1 DEF Open
<1> QED  BY <1>2, <1>5, <1>6, <1>11, <1>12, <1>13, <1>14, <1>15 DEF Open, h, x

\* A packet down ends its stream.
LEMMA TakenIs ==
    ASSUME PacketsInv, NEW d \in Daemons, down[d] # <<>>, Queues(up[d], down[d]),
           down' = [down EXCEPT ![d] = Tail(@)], up' = up
    PROVE  /\ Queues(up'[d], down'[d])
           /\ Head(down[d]) \in Open(d) /\ Head(down[d]) \in Token(d)
           /\ Open(d)' \subseteq Open(d)
           /\ Known(Head(down[d])) => \A t \in Open(d)' : t.kind # "get"
           /\ \A a : Single(up[d], down[d], a) => a = Head(down[d]) /\ Open(d)' = {}
           /\ \A e \in Daemons \ {d} : up'[e] = up[e] /\ down'[e] = down[e]
<1> DEFINE h == Head(down[d])
           u == up[d]
           w == down[d]
           r == Tail(w)
<1>1. u \in Seq(Token(d)) /\ w \in Seq(Token(d)) /\ w # <<>>
  BY DEF PacketsInv
<1>2. ToSet(w) = {h} \cup ToSet(r) /\ h \in Token(d)
  BY <1>1, ToSetTail, TailIs
<1>3. up'[d] = u /\ down'[d] = r /\ \A e \in Daemons \ {d} : up'[e] = up[e] /\ down'[e] = down[e]
  BY DEF PacketsInv
<1>4. Ordered(r) /\ (Known(h) => \A y \in ToSet(r) : y.kind # "get")
  BY <1>1, OrderedTail DEF Queues
<1>5. Known(h) => \A y \in ToSet(u) : y.kind # "get"
  BY <1>2 DEF Queues
<1>6. \A a : Single(up[d], down[d], a) => a = h /\ r = <<>> /\ u = <<>>
  BY <1>1, SingleEnds DEF Single
<1>7. ToSet(<<>>) = {}
  BY DEF ToSet
<1> HIDE DEF h, r
<1>8. Queues(u, r)
  BY <1>2, <1>4 DEF Queues
<1> QED  BY <1>2, <1>3, <1>4, <1>5, <1>6, <1>7, <1>8 DEF Open, h
-----------------------------------------------------------------------------
(* Steps of one daemon. *)

LEMMA OneDaemon ==
    ASSUME FollowInv, NEW d \in Daemons, Apart(d), NotifyInv', LocalInv', DaemonInv(d)'
    PROVE  FollowInv'
<1>1. committed' = committed /\ changes' = changes /\ log' = log
  BY DEF Apart, SameConfig
<1>2. ChangesInv'
  BY <1>1 DEF FollowInv, ChangesInv
<1>3. ASSUME NEW e \in Daemons \ {d} PROVE DaemonInv(e)'
  <2>1. /\ up'[e] = up[e] /\ down'[e] = down[e]
        /\ phase'[e] = phase[e] /\ snap'[e] = snap[e] /\ copy'[e] = copy[e]
        /\ \/ state'[e] = "missed"
           \/ state'[e] = state[e] /\ (e \in Users => e \in Users')
    BY DEF Apart
  <2>2. Open(e)' = Open(e)
    BY <2>1 DEF Open
  <2>3. Queues(up[e], down[e]) /\ PhaseInv(e) /\ CopyInv(e)
    BY DEF FollowInv, DaemonInv
  <2>4. PhaseInv(e)'
    BY <2>1, <2>2, <2>3 DEF PhaseInv
  <2>5. CopyInv(e)'
    BY <1>1, <2>1, <2>2, <2>3 DEF CopyInv, Requested, Followed
  <2> QED  BY <2>1, <2>3, <2>4, <2>5 DEF DaemonInv
<1> QED  BY <1>2, <1>3 DEF FollowInv

LEMMA RequestFollows ==
    ASSUME FollowInv, NotifyInv', NEW d \in Daemons, Request(d)
    PROVE  FollowInv'
<1> DEFINE t == [NewToken("get", <<>>, 0) EXCEPT !.users = <<>>]
           u == up[d]
           w == down[d]
<1>1. /\ SameConfig /\ SameUsers /\ log' = log /\ down' = down /\ up' = [up EXCEPT ![d] = Append(u, t)]
      /\ phase[d] \in {"down", "up"} /\ phase' = [phase EXCEPT ![d] = "waiting"]
      /\ UNCHANGED <<ready, owing, conn, snap, copy, handler, state>>
  BY DEF Request, SameConfig, SameUsers, configVars, notifyVars
<1>2. Users' = Users
  BY <1>1, UsersSame DEF FollowInv, NotifyInv
<1>3. t \in Token(d) /\ t.kind = "get" /\ t.msg = "start" /\ t.got = <<>>
  BY RequestToken DEF FollowInv
<1> HIDE DEF t
<1>4. up'[d] = Append(u, t) /\ down'[d] = w /\ u \in Seq(Token(d)) /\ w \in Seq(Token(d))
  BY <1>1 DEF FollowInv, NotifyInv, PacketsInv
<1>5. Queues(u, w) /\ PhaseInv(d) /\ CopyInv(d)
  BY DEF FollowInv, DaemonInv
<1>6. LocalInv'
  BY <1>1 DEF FollowInv, LocalInv
<1>7. Apart(d)
  BY <1>1, <1>2 DEF Apart, FollowInv, NotifyInv, PacketsInv, LocalInv
<1>8. ToSet(Append(u, t)) = ToSet(u) \cup {t}
  BY <1>3, <1>4, ToSetAppend
<1>9. \A a \in ToSet(u) \cup ToSet(w) : ~Known(a)
  BY <1>1, <1>5 DEF PhaseInv, Open
<1>10. Queues(Append(u, t), w)
  <2>1. Ordered(Append(u, t))
    BY <1>3, <1>4, <1>5, <1>9, OrderedAppend DEF Queues
  <2>2. <<t.kind, t.msg>> \in UpMsgs
    BY <1>3 DEF UpMsgs
  <2> QED  BY <1>3, <1>5, <1>8, <1>9, <2>1, <2>2 DEF Queues
<1>11. phase'[d] = "waiting" /\ snap'[d] = <<>>
  BY <1>1, <1>5 DEF FollowInv, LocalInv, PhaseInv
<1>12. \A a \in Open(d)' : a = t \/ ~Known(a)
  BY <1>4, <1>8, <1>9 DEF Open
<1>13. PhaseInv(d)'
  BY <1>11 DEF PhaseInv
<1>14. CopyInv(d)'
  BY <1>1, <1>2, <1>3, <1>5, <1>11, <1>12 DEF CopyInv, Requested
<1>15. DaemonInv(d)'
  BY <1>4, <1>10, <1>13, <1>14 DEF DaemonInv
<1> QED  BY <1>6, <1>7, <1>15, OneDaemon

LEMMA GetItemFollows ==
    ASSUME FollowInv, NotifyInv', NEW d \in Daemons, GetItem(d)
    PROVE  FollowInv'
<1> DEFINE h == Head(down[d])
           x == [h EXCEPT !.msg = "continue"]
<1>1. /\ SameConfig /\ SameUsers /\ log' = log /\ down[d] # <<>> /\ h.kind = "get" /\ h.msg = "item" /\ h.known
      /\ Answer(d, h, "continue") /\ UNCHANGED <<ready, owing, conn, phase, snap, copy, handler, state>>
  BY DEF GetItem, Received, SameConfig, SameUsers, configVars, notifyVars, daemonVars
<1>2. Users' = Users
  BY <1>1, UsersSame DEF FollowInv, NotifyInv
<1>3. /\ Queues(up'[d], down'[d]) /\ h \in Open(d) /\ h \in Token(d)
      /\ Open(d)' \subseteq Open(d) \cup {x}
      /\ \A a : Single(up[d], down[d], a) => a = h /\ Single(up'[d], down'[d], x) /\ Open(d)' = {x}
      /\ \A e \in Daemons \ {d} : up'[e] = up[e] /\ down'[e] = down[e]
  <2>1. "continue" \in Msg /\ <<"get", "continue">> \in UpMsgs
    BY DEF Msg, UpMsgs
  <2> QED  BY <1>1, <2>1, AnswerIs DEF FollowInv, NotifyInv, DaemonInv, Known
<1>4. x.kind = h.kind /\ x.left = h.left /\ x.got = h.got
  BY <1>3, TokenFields DEF Msg
<1> HIDE DEF x, h
<1>5. Queues(up[d], down[d]) /\ PhaseInv(d) /\ CopyInv(d)
  BY DEF FollowInv, DaemonInv
<1>6. LocalInv'
  BY <1>1 DEF FollowInv, LocalInv
<1>7. Apart(d)
  BY <1>1, <1>2, <1>3 DEF Apart
<1>8. phase[d] = "waiting" /\ snap[d] = <<>>
  BY <1>1, <1>3, <1>5 DEF PhaseInv, Known
<1>9. PhaseInv(d)'
  BY <1>1, <1>8 DEF PhaseInv
<1>10. state[d] # "missed" => Requested(d)'
  <2>1. ASSUME state[d] # "missed", NEW a \in Open(d)'
        PROVE  Single(up'[d], down'[d], a) /\ Fetched(a, state'[d] = "mix", committed', changes')
    <3>1. Single(up[d], down[d], h) /\ Fetched(h, state[d] = "mix", committed, changes)
      BY <1>1, <1>3, <1>5, <2>1 DEF CopyInv, Requested, Known
    <3>2. a = x /\ Single(up'[d], down'[d], x)
      BY <1>3, <2>1, <3>1
    <3>3. Fetched(x, state'[d] = "mix", committed', changes')
      BY <1>1, <1>4, <3>1 DEF Fetched, SameConfig
    <3> QED  BY <3>2, <3>3
  <2> QED  BY <2>1 DEF Requested
<1>11. CopyInv(d)'
  BY <1>1, <1>2, <1>5, <1>8, <1>10 DEF CopyInv
<1>12. DaemonInv(d)'
  BY <1>3, <1>9, <1>11 DEF DaemonInv
<1> QED  BY <1>6, <1>7, <1>12, OneDaemon

LEMMA SetToSeqCovers ==
    ASSUME NEW S, IsFiniteSet(S)
    PROVE  \A i \in S : \E k \in 1..Cardinality(S) : SetToSeq(S)[k] = i
<1> DEFINE n == Cardinality(S)
           f == SetToSeq(S)
<1>1. n \in Nat /\ ExistsBijection(1..n, S)
  BY FS_CardinalityType
<1>2. \E g \in [1..n -> S] : IsInjective(g)
  BY <1>1 DEF ExistsBijection, Bijection, Injection, IsInjective
<1>3. f \in [1..n -> S] /\ IsInjective(f)
  BY <1>2 DEF SetToSeq
<1> HIDE DEF f
<1>4. f \in Injection(1..n, S)
  BY <1>3 DEF Injection, IsInjective
<1>5. Cardinality(1..n) = n
  BY <1>1, FS_Interval
<1>6. f \in Surjection(1..n, S)
  BY <1>4, <1>5, FS_Injection
<1>7. \A i \in S : \E k \in 1..n : f[k] = i
  BY <1>6 DEF Surjection
<1> QED  BY <1>7 DEF f

LEMMA AllItems == ToSet(SetToSeq(Items)) = Items
<1> DEFINE f == SetToSeq(Items)
<1>1. f \in Seq(Items) /\ Cardinality(Items) \in Nat /\ f \in [1..Cardinality(Items) -> Items]
  BY ItemsInOrder, SetToSeqIs, NotifyAssumption
<1>2. \A i \in Items : \E k \in 1..Cardinality(Items) : f[k] = i
  BY SetToSeqCovers, NotifyAssumption
<1> HIDE DEF f
<1>3. DOMAIN f = 1..Cardinality(Items)
  BY <1>1
<1> QED  BY <1>1, <1>2, <1>3 DEF ToSet, f

\* A request that its daemon knows, and all other packets are its own.
LEMMA OnlyRequest ==
    ASSUME PacketsInv, NEW d \in Daemons, up[d] # <<>>, Queues(up[d], down[d]),
           Known(Head(up[d])), Open(d) = {Head(up[d])}
    PROVE  Single(up[d], down[d], Head(up[d]))
<1> DEFINE u == up[d]
           w == down[d]
           h == Head(u)
           r == Tail(u)
<1>1. u \in Seq(Token(d)) /\ w \in Seq(Token(d)) /\ u # <<>>
  BY DEF PacketsInv
<1>2. ToSet(u) = {h} \cup ToSet(r)
  BY <1>1, ToSetTail
<1>3. \A t \in ToSet(r) : t.kind # "get"
  BY <1>1, OrderedTail DEF Queues
<1>4. ToSet(r) = {}
  BY <1>2, <1>3 DEF Open, Known
<1>5. ToSet(w) = {}
  BY <1>2 DEF Open, Known, Queues
<1>6. r \in Seq(Token(d)) /\ r = <<>> /\ w = <<>>
  BY <1>1, <1>4, <1>5, TailIs, ToSetIs
<1>7. u = <<h>>
  <2>1. Len(r) = Len(u) - 1 /\ Len(u) \in Nat \ {0} /\ u[1] = h
    BY <1>1, TailIs
  <2>2. Len(r) = 0
    BY <1>6, EmptySeq
  <2>3. Len(u) = 1
    BY <2>1, <2>2
  <2> QED  BY <1>1, <2>1, <2>3
<1> QED  BY <1>6, <1>7 DEF Single

LEMMA GetStartFollows ==
    ASSUME FollowInv, NotifyInv', NEW d \in Daemons, GetStart(d)
    PROVE  FollowInv'
<1> DEFINE h == Head(up[d])
           t == [h EXCEPT !.left = SetToSeq(Items)]
           x == [t EXCEPT !.msg = "item"]
<1>1. /\ SameConfig /\ log' = log /\ up[d] # <<>> /\ h.kind = "get" /\ h.msg = "start"
      /\ Tell(d, t, "item") /\ Reg(d)
      /\ state' = [state EXCEPT ![d] = IF Open(d) = {h} THEN "whole" ELSE "missed"]
      /\ UNCHANGED <<ready, owing, conn, phase, snap, copy, handler>>
  BY DEF GetStart, Arrived, SameConfig, configVars, daemonVars
<1>2. Users' = Users \cup {d}
  BY <1>1, RegIs DEF FollowInv, NotifyInv
<1>3. h \in GetToken /\ h \in Token(d)
  BY <1>1, HeadUp DEF FollowInv, NotifyInv, Token, NtfToken
<1>4. t \in Token(d) /\ t.kind = h.kind /\ t.known = h.known /\ t.left = SetToSeq(Items) /\ t.got = h.got
  BY <1>3, ItemsInOrder DEF Token, GetToken
<1>5. x.kind = "get" /\ x.left = SetToSeq(Items) /\ x.got = h.got /\ x.known = h.known
  BY <1>1, <1>4, TokenFields DEF Msg
<1> HIDE DEF t, x
<1>6. Queues(up[d], down[d]) /\ PhaseInv(d)
  BY DEF FollowInv, DaemonInv
<1>7. /\ Queues(up'[d], down'[d]) /\ h \in Open(d)
      /\ Open(d)' \subseteq Open(d) \cup {x}
      /\ \A a : Single(up[d], down[d], a) => a = h /\ Single(up'[d], down'[d], x) /\ Open(d)' = {x}
      /\ \A e \in Daemons \ {d} : up'[e] = up[e] /\ down'[e] = down[e]
  <2>1. "item" \in Msg /\ <<"get", "item">> \in DownMsgs
    BY DEF Msg, DownMsgs
  <2> QED  BY <1>1, <1>4, <1>6, <2>1, TellIs DEF FollowInv, NotifyInv, x
<1>8. h.got = <<>>
  <2>1. h \in ToSet(up[d])
    BY <1>1, ToSetTail DEF FollowInv, NotifyInv, PacketsInv
  <2> QED  BY <1>1, <1>6, <2>1 DEF Queues
<1> HIDE DEF h
<1>9. LocalInv'
  BY <1>1 DEF FollowInv, LocalInv
<1>10. Apart(d)
  BY <1>1, <1>2, <1>7 DEF Apart, FollowInv, LocalInv
<1>11. phase[d] \notin {"merge", "up"} /\ phase'[d] = phase[d] /\ snap'[d] = snap[d]
  BY <1>1, <1>6, <1>7 DEF PhaseInv
<1>12. PhaseInv(d)'
  <2>1. phase[d] # "waiting" => \A a \in Open(d)' : ~Known(a)
    BY <1>1, <1>5, <1>6, <1>7 DEF PhaseInv, Known
  <2> QED  BY <1>6, <1>11, <2>1 DEF PhaseInv
<1>13. ASSUME state'[d] # "missed", NEW a \in Open(d)', Known(a)
       PROVE  Single(up'[d], down'[d], a) /\ Fetched(a, state'[d] = "mix", committed', changes')
  <2>1. Open(d) = {h}
    BY <1>1, <1>13 DEF FollowInv, LocalInv
  <2>2. Known(h)
    BY <1>1, <1>5, <1>7, <1>13, <2>1 DEF Known
  <2>3. Single(up[d], down[d], h)
    BY <1>1, <1>6, <2>1, <2>2, OnlyRequest DEF FollowInv, NotifyInv, h
  <2>4. Fetched(x, state'[d] = "mix", committed', changes')
    <3>1. Len(<<>>) = 0
      OBVIOUS
    <3> QED  BY <1>5, <1>8, <3>1, AllItems DEF Fetched
  <2> QED  BY <1>7, <1>13, <2>3, <2>4
<1>14. CopyInv(d)'
  BY <1>2, <1>11, <1>13 DEF CopyInv, Requested
<1>15. DaemonInv(d)'
  BY <1>7, <1>12, <1>14 DEF DaemonInv
<1> QED  BY <1>9, <1>10, <1>15, OneDaemon

LEMMA FetchedMore ==
    ASSUME NEW h, h.left \in Seq(Items), h.got \in Seq(Change), h.left # <<>>,
           NEW config, [item |-> Head(h.left), value |-> config[Head(h.left)]] \in Change,
           NEW t, t.left = Tail(h.left),
           t.got = Append(h.got, [item |-> Head(h.left), value |-> config[Head(h.left)]]),
           NEW mix, NEW list, Fetched(h, mix, config, list)
    PROVE  Fetched(t, mix, config, list)
<1> DEFINE left == h.left
           got == h.got
           i == Head(left)
           v == config[i]
           e == [item |-> i, value |-> v]
           g == Append(got, e)
<1>1. ToSet(left) = {i} \cup ToSet(Tail(left))
  BY ToSetTail
<1>2. e \in Change /\ e.item = i /\ e.value = v
  OBVIOUS
<1>3. ChangesOf(g, i) # {} /\ \A j : ChangesOf(got, j) # {} => ChangesOf(g, j) # {}
  BY <1>2, ChangesOfMore
<1>4. /\ Len(got) \in Nat /\ Len(g) = Len(got) + 1 /\ g[Len(got) + 1] = e
      /\ \A k \in 1..Len(got) : g[k] = got[k]
  BY <1>2, LenProperties
<1>5. v = config[i] /\ h.left = left /\ h.got = got /\ t.left = Tail(left) /\ t.got = g
  OBVIOUS
<1> HIDE DEF i, e, g, v, left, got
<1>6. \A k \in 1..Len(g) : k \in 1..Len(got) \/ k = Len(got) + 1
  BY <1>4
<1>7. \A j \in Items : j \in ToSet(Tail(left)) \/ ChangesOf(g, j) # {}
  BY <1>1, <1>3, <1>5 DEF Fetched
<1>8. \A k \in 1..Len(g) : g[k].value = config[g[k].item] \/ (mix /\ ChangesOf(list, g[k].item) # {})
  BY <1>2, <1>4, <1>5, <1>6 DEF Fetched
<1> QED  BY <1>5, <1>7, <1>8 DEF Fetched

LEMMA FetchedAll ==
    ASSUME NEW c \in Config, NEW config \in Config, NEW list, NEW mix,
           NEW t, t.left = <<>>, t.got \in Seq(Change), Fetched(t, mix, config, list)
    PROVE  /\ Fresh(Applied(c, t.got), config, list)
           /\ ~mix => Applied(c, t.got) = config
<1> DEFINE g == t.got
           new == Applied(c, g)
<1>1. ToSet(<<>>) = {}
  BY DEF ToSet
<1>2. \A i \in Items : ChangesOf(g, i) # {}
  BY <1>1 DEF Fetched
<1>3. new \in Config /\ \A i \in Items : new[i] = g[Max(ChangesOf(g, i))].value
  BY <1>2, AppliedIs
<1>4. \A i \in Items : Max(ChangesOf(g, i)) \in 1..Len(g) /\ g[Max(ChangesOf(g, i))].item = i
  BY <1>2, LastOf
<1> HIDE DEF new
<1>5. \A i \in Items : new[i] = config[i] \/ (mix /\ ChangesOf(list, i) # {})
  BY <1>3, <1>4 DEF Fetched
<1>6. Fresh(new, config, list)
  BY <1>5 DEF Fresh
<1>7. ~mix => new = config
  BY <1>3, <1>5 DEF Config
<1> QED  BY <1>6, <1>7 DEF new

LEMMA GetNextFollows ==
    ASSUME FollowInv, NotifyInv', NEW d \in Daemons, GetNext(d)
    PROVE  FollowInv'
<1> DEFINE h == Head(up[d])
           i == Head(h.left)
           e == [item |-> i, value |-> committed[i]]
           t == IF h.left = <<>> THEN h ELSE [h EXCEPT !.left = Tail(@), !.got = Append(@, e)]
           m == IF h.left = <<>> THEN "end" ELSE "item"
           x == [t EXCEPT !.msg = m]
<1>1. /\ SameConfig /\ SameUsers /\ log' = log /\ up[d] # <<>> /\ h.kind = "get" /\ h.msg = "continue"
      /\ Tell(d, t, m) /\ UNCHANGED <<ready, owing, conn, phase, snap, copy, handler, state>>
  BY DEF GetNext, Arrived, SameConfig, SameUsers, configVars, notifyVars, daemonVars
<1>2. Users' = Users
  BY <1>1, UsersSame DEF FollowInv, NotifyInv
<1>3. h \in GetToken /\ h \in Token(d) /\ h.left \in Seq(Items) /\ h.got \in Seq(Change)
  BY <1>1, HeadUp DEF FollowInv, NotifyInv, Token, NtfToken, GetToken
<1>4. h.left # <<>> => e \in Change
  <2>1. h.left # <<>> => i \in Items
    BY <1>3, HeadTailProperties
  <2> QED  BY <2>1 DEF FollowInv, NotifyInv, ConfigInv, Change
<1>5. /\ t \in Token(d) /\ t.kind = h.kind /\ t.known = h.known
      /\ h.left = <<>> => t = h
      /\ h.left # <<>> => t.left = Tail(h.left) /\ t.got = Append(h.got, e)
  <2>1. CASE h.left = <<>>
    BY <1>3, <2>1
  <2>2. CASE h.left # <<>>
    <3>1. Tail(h.left) \in Seq(Items) /\ Append(h.got, e) \in Seq(Change)
      BY <1>3, <1>4, <2>2, HeadTailProperties
    <3> HIDE DEF e
    <3>2. t = [h EXCEPT !.left = Tail(@), !.got = Append(@, e)]
      BY <2>2
    <3>3. t \in GetToken /\ t.kind = h.kind /\ t.known = h.known /\ t.left = Tail(h.left) /\ t.got = Append(h.got, e)
      BY <1>3, <3>1, <3>2 DEF GetToken
    <3> QED  BY <2>2, <3>3 DEF Token
  <2> QED  BY <2>1, <2>2
<1>6. m \in Msg /\ <<"get", m>> \in DownMsgs /\ (m = "end" => t.left = <<>>) /\ m # "start"
  BY <1>5 DEF Msg, DownMsgs
<1> HIDE DEF t, m
<1>7. x.kind = h.kind /\ x.left = t.left /\ x.got = t.got /\ x.known = h.known
  BY <1>5, <1>6, TokenFields
<1> HIDE DEF x
<1>8. Queues(up[d], down[d]) /\ PhaseInv(d) /\ CopyInv(d)
  BY DEF FollowInv, DaemonInv
<1>9. /\ Queues(up'[d], down'[d]) /\ h \in Open(d)
      /\ Open(d)' \subseteq Open(d) \cup {x}
      /\ \A a : Single(up[d], down[d], a) => a = h /\ Single(up'[d], down'[d], x) /\ Open(d)' = {x}
      /\ \A f \in Daemons \ {d} : up'[f] = up[f] /\ down'[f] = down[f]
  BY <1>1, <1>5, <1>6, <1>8, TellIs DEF FollowInv, NotifyInv, x
<1> HIDE DEF h, e, i
<1>10. LocalInv'
  BY <1>1 DEF FollowInv, LocalInv
<1>11. Apart(d)
  BY <1>1, <1>2, <1>9 DEF Apart
<1>12. phase[d] \notin {"merge", "up"} /\ phase'[d] = phase[d] /\ snap'[d] = snap[d]
  BY <1>1, <1>8, <1>9 DEF PhaseInv
<1>13. PhaseInv(d)'
  <2>1. phase[d] # "waiting" => \A a \in Open(d)' : ~Known(a)
    BY <1>1, <1>7, <1>8, <1>9 DEF PhaseInv, Known
  <2> QED  BY <1>8, <1>12, <2>1 DEF PhaseInv
<1>14. ASSUME state[d] # "missed", NEW a \in Open(d)', Known(a), a.msg # "start"
       PROVE  Single(up'[d], down'[d], a) /\ Fetched(a, state'[d] = "mix", committed', changes')
  <2> DEFINE mix == state[d] = "mix"
  <2>1. Known(h) => Single(up[d], down[d], h) /\ Fetched(h, mix, committed, changes)
    BY <1>1, <1>8, <1>9, <1>14 DEF CopyInv, Requested
  <2>2. Known(x) => Known(h)
    BY <1>7 DEF Known
  <2>3. a = x /\ Known(h)
    <3>1. CASE a = x
      BY <1>14, <2>2, <3>1
    <3>2. CASE a \in Open(d)
      <4>1. Single(up[d], down[d], a)
        BY <1>8, <1>14, <3>2 DEF CopyInv, Requested
      <4>2. a = h /\ Open(d)' = {x}
        BY <1>9, <4>1
      <4> QED  BY <1>14, <4>2
    <3> QED  BY <1>9, <1>14, <3>1, <3>2
  <2>4. Fetched(x, mix, committed, changes)
    <3>1. CASE h.left = <<>>
      BY <1>5, <1>7, <2>1, <2>3, <3>1 DEF Fetched
    <3>2. CASE h.left # <<>>
      <4>1. x.left = Tail(h.left) /\ x.got = Append(h.got, [item |-> Head(h.left), value |-> committed[Head(h.left)]])
        BY <1>5, <1>7, <3>2 DEF e, i
      <4>2. [item |-> Head(h.left), value |-> committed[Head(h.left)]] \in Change
        BY <1>4, <3>2 DEF e, i
      <4>3. h.left \in Seq(Items) /\ h.got \in Seq(Change) /\ Fetched(h, mix, committed, changes)
        BY <1>3, <2>1, <2>3
      <4> HIDE DEF mix
      <4> QED  BY <3>2, <4>1, <4>2, <4>3, FetchedMore
    <3> QED  BY <3>1, <3>2
  <2>5. Fetched(x, state'[d] = "mix", committed', changes')
    BY <1>1, <2>4 DEF SameConfig
  <2> QED  BY <1>9, <2>1, <2>3, <2>5
<1>15. CopyInv(d)'
  BY <1>1, <1>2, <1>8, <1>12, <1>14 DEF CopyInv, Requested
<1>16. DaemonInv(d)'
  BY <1>9, <1>13, <1>15 DEF DaemonInv
<1> QED  BY <1>10, <1>11, <1>16, OneDaemon

LEMMA GetEndFollows ==
    ASSUME FollowInv, NotifyInv', NEW d \in Daemons, GetEnd(d)
    PROVE  FollowInv'
<1> DEFINE h == Head(down[d])
<1>1. /\ SameConfig /\ SameUsers /\ log' = log /\ down[d] # <<>> /\ h.kind = "get" /\ h.msg = "end" /\ h.known
      /\ down' = [down EXCEPT ![d] = Tail(@)] /\ up' = up
      /\ snap' = [snap EXCEPT ![d] = h.got] /\ phase' = [phase EXCEPT ![d] = "merge"]
      /\ UNCHANGED <<ready, owing, conn, copy, handler, state>>
  BY DEF GetEnd, Received, SameConfig, SameUsers, configVars, notifyVars
<1>2. Users' = Users
  BY <1>1, UsersSame DEF FollowInv, NotifyInv
<1>3. Queues(up[d], down[d]) /\ PhaseInv(d) /\ CopyInv(d)
  BY DEF FollowInv, DaemonInv
<1>4. /\ Queues(up'[d], down'[d]) /\ h \in Open(d) /\ h \in Token(d)
      /\ Known(h) => \A a \in Open(d)' : a.kind # "get"
      /\ \A a : Single(up[d], down[d], a) => a = h /\ Open(d)' = {}
      /\ \A e \in Daemons \ {d} : up'[e] = up[e] /\ down'[e] = down[e]
  BY <1>1, <1>3, TakenIs DEF FollowInv, NotifyInv
<1>5. h.got \in Seq(Change) /\ h.left = <<>> /\ Known(h)
  <2>1. h \in ToSet(down[d])
    BY <1>1, ToSetTail DEF FollowInv, NotifyInv, PacketsInv
  <2> QED  BY <1>1, <1>3, <1>4, <2>1, TokenIs DEF Queues, Known
<1> HIDE DEF h
<1>6. LocalInv' /\ copy[d] \in Config /\ committed \in Config
  BY <1>1, <1>5 DEF FollowInv, LocalInv, NotifyInv, ConfigInv, Config
<1>7. Apart(d) /\ snap'[d] = h.got /\ phase'[d] = "merge"
  BY <1>1, <1>2, <1>4 DEF Apart, FollowInv, LocalInv
<1>8. PhaseInv(d)'
  BY <1>4, <1>5, <1>7 DEF PhaseInv, Known
<1>9. ASSUME state[d] # "missed" PROVE Followed(d)'
  <2>1. Single(up[d], down[d], h) /\ Fetched(h, state[d] = "mix", committed, changes)
    BY <1>1, <1>3, <1>4, <1>5, <1>9 DEF CopyInv, Requested
  <2>2. /\ Fresh(Applied(copy[d], h.got), committed, changes)
        /\ state[d] # "mix" => Applied(copy[d], h.got) = committed
    <3> DEFINE mix == state[d] = "mix"
               c == copy[d]
    <3>1. Fetched(h, mix, committed, changes) /\ c \in Config
      BY <1>6, <2>1
    <3> HIDE DEF mix, c
    <3>2. Fresh(Applied(c, h.got), committed, changes) /\ (~mix => Applied(c, h.got) = committed)
      BY <1>5, <1>6, <3>1, FetchedAll
    <3> QED  BY <3>2 DEF mix, c
  <2> QED  BY <1>1, <1>4, <1>7, <2>1, <2>2 DEF Followed, FollowInv, ChangesInv, SameConfig
<1>10. CopyInv(d)'
  BY <1>1, <1>2, <1>3, <1>4, <1>5, <1>9 DEF CopyInv, Requested, Known
<1>11. DaemonInv(d)'
  BY <1>4, <1>8, <1>10 DEF DaemonInv
<1> QED  BY <1>6, <1>7, <1>11, OneDaemon

LEMMA MergeFollows ==
    ASSUME FollowInv, NotifyInv', NEW d \in Daemons, Merge(d)
    PROVE  FollowInv'
<1> DEFINE s == snap[d]
           c == [copy[d] EXCEPT ![Head(s).item] = Head(s).value]
<1>1. /\ SameConfig /\ SameUsers /\ log' = log /\ UNCHANGED <<up, down>> /\ phase[d] = "merge" /\ s # <<>>
      /\ copy' = [copy EXCEPT ![d] = c] /\ snap' = [snap EXCEPT ![d] = Tail(s)]
      /\ UNCHANGED <<ready, owing, conn, phase, handler, state>>
  BY DEF Merge, SameConfig, SameUsers, configVars, notifyVars
<1>2. Users' = Users
  BY <1>1, UsersSame DEF FollowInv, NotifyInv
<1>3. Queues(up[d], down[d]) /\ PhaseInv(d) /\ CopyInv(d)
  BY DEF FollowInv, DaemonInv
<1>4. s \in Seq(Change) /\ copy[d] \in Config
  BY DEF FollowInv, LocalInv
<1>5. Tail(s) \in Seq(Change) /\ c \in Config /\ Applied(c, Tail(s)) = Applied(copy[d], s)
  BY <1>1, <1>4, AppliedFirst, HeadTailProperties
<1> HIDE DEF c
<1>6. LocalInv'
  BY <1>1, <1>5 DEF FollowInv, LocalInv
<1>7. Apart(d) /\ snap'[d] = Tail(s) /\ copy'[d] = c
  BY <1>1, <1>2 DEF Apart, FollowInv, LocalInv
<1>8. Open(d)' = Open(d) /\ up'[d] = up[d] /\ down'[d] = down[d] /\ phase'[d] = phase[d]
  BY <1>1 DEF Open
<1>9. PhaseInv(d)'
  BY <1>1, <1>3, <1>8 DEF PhaseInv
<1>10. Applied(copy'[d], snap'[d]) = Applied(copy[d], snap[d])
  BY <1>5, <1>7
<1>11. CopyInv(d)'
  BY <1>1, <1>2, <1>3, <1>8, <1>10 DEF CopyInv, Requested, Followed, Coming, SameConfig
<1>12. DaemonInv(d)'
  BY <1>3, <1>8, <1>9, <1>11 DEF DaemonInv
<1> QED  BY <1>6, <1>7, <1>12, OneDaemon

LEMMA SetHandlerFollows ==
    ASSUME FollowInv, NotifyInv', NEW d \in Daemons, SetHandler(d)
    PROVE  FollowInv'
<1>1. /\ SameConfig /\ SameUsers /\ log' = log /\ UNCHANGED <<up, down>> /\ phase[d] = "merge" /\ snap[d] = <<>>
      /\ handler' = [handler EXCEPT ![d] = TRUE] /\ phase' = [phase EXCEPT ![d] = "up"]
      /\ UNCHANGED <<ready, owing, conn, snap, copy, state>>
  BY DEF SetHandler, SameConfig, SameUsers, configVars, notifyVars
<1>2. Users' = Users
  BY <1>1, UsersSame DEF FollowInv, NotifyInv
<1>3. Queues(up[d], down[d]) /\ PhaseInv(d) /\ CopyInv(d)
  BY DEF FollowInv, DaemonInv
<1>4. LocalInv'
  BY <1>1 DEF FollowInv, LocalInv
<1>5. Apart(d) /\ phase'[d] = "up"
  BY <1>1, <1>2 DEF Apart, FollowInv, LocalInv
<1>6. Open(d)' = Open(d) /\ up'[d] = up[d] /\ down'[d] = down[d]
  BY <1>1 DEF Open
<1>7. PhaseInv(d)'
  BY <1>1, <1>3, <1>5, <1>6 DEF PhaseInv
<1>8. CopyInv(d)'
  BY <1>1, <1>2, <1>3, <1>6 DEF CopyInv, Requested, Followed, SameConfig
<1>9. DaemonInv(d)'
  BY <1>3, <1>6, <1>7, <1>8 DEF DaemonInv
<1> QED  BY <1>4, <1>5, <1>9, OneDaemon

LEMMA ReconnectFollows ==
    ASSUME FollowInv, NotifyInv', NEW d \in Daemons, Reconnect(d)
    PROVE  FollowInv'
<1>1. /\ SameConfig /\ SameUsers /\ log' = log /\ UNCHANGED <<up, down>>
      /\ conn' = [conn EXCEPT ![d] = TRUE]
      /\ UNCHANGED <<ready, owing, phase, snap, copy, handler, state>>
  BY DEF Reconnect, SameConfig, SameUsers, configVars, notifyVars, daemonVars
<1>2. Users' = Users
  BY <1>1, UsersSame DEF FollowInv, NotifyInv
<1>3. Queues(up[d], down[d]) /\ PhaseInv(d) /\ CopyInv(d)
  BY DEF FollowInv, DaemonInv
<1>4. LocalInv'
  BY <1>1 DEF FollowInv, LocalInv
<1>5. Apart(d)
  BY <1>1, <1>2 DEF Apart
<1>6. Open(d)' = Open(d)
  BY <1>1 DEF Open
<1>7. DaemonInv(d)'
  BY <1>1, <1>2, <1>3, <1>6 DEF DaemonInv, PhaseInv, CopyInv, Requested, Followed, SameConfig
<1> QED  BY <1>4, <1>5, <1>7, OneDaemon

LEMMA PhaseMoves ==
    ASSUME NEW d, PhaseInv(d), phase' = phase, snap' = snap,
           NEW x, x.kind = "notify", Open(d)' \subseteq Open(d) \cup {x}
    PROVE  PhaseInv(d)'
BY DEF PhaseInv, Known

\* A notification goes on: what it brings stays the same.
LEMMA NotifyMoves ==
    ASSUME FollowInv, NotifyInv', NEW d \in Daemons, SameConfig, SameUsers, log' = log,
           UNCHANGED <<ready, owing, conn, phase, snap, copy, handler, state>>,
           Queues(up'[d], down'[d]),
           \A e \in Daemons \ {d} : up'[e] = up[e] /\ down'[e] = down[e],
           NEW h \in Open(d), h.kind = "notify",
           NEW x, x.kind = "notify", x.msg # "error", \A c, s : Coming(c, s, x) = Coming(c, s, h),
           Open(d)' \subseteq Open(d) \cup {x},
           \A a : Single(up[d], down[d], a) => a = h /\ Single(up'[d], down'[d], x) /\ Open(d)' = {x}
    PROVE  FollowInv'
<1>1. Users' = Users
  BY UsersSame DEF FollowInv, NotifyInv
<1>2. LocalInv' /\ Apart(d)
  BY <1>1 DEF FollowInv, LocalInv, Apart
<1>3. PhaseInv(d) /\ CopyInv(d)
  BY DEF FollowInv, DaemonInv
<1>4. PhaseInv(d)'
  BY <1>3, PhaseMoves
<1>5. ASSUME state[d] # "missed" PROVE Requested(d)'
  <2>1. ASSUME NEW a \in Open(d)', Known(a), a.msg # "start" PROVE FALSE
    <3>1. a \in Open(d) /\ a # h /\ a # x
      BY <2>1 DEF Known
    <3> QED  BY <1>3, <1>5, <2>1, <3>1 DEF CopyInv, Requested
  <2> QED  BY <2>1 DEF Requested
<1>6. ASSUME state[d] # "missed", phase[d] \in {"merge", "up"} PROVE Followed(d)'
  <2>1. /\ Single(up[d], down[d], h)
        /\ Fresh(Coming(copy[d], snap[d], h), committed, changes)
        /\ Coming(copy[d], snap[d], h) \in log
        /\ state[d] = "whole" => Applied(copy[d], snap[d]) \in log
    BY <1>3, <1>6 DEF CopyInv, Followed
  <2>2. Single(up'[d], down'[d], x) /\ Open(d)' = {x}
    BY <2>1
  <2>3. Coming(copy[d], snap[d], x) = Coming(copy[d], snap[d], h)
    OBVIOUS
  <2> QED  BY <2>1, <2>2, <2>3 DEF Followed, SameConfig
<1>7. CopyInv(d)'
  BY <1>1, <1>3, <1>5, <1>6 DEF CopyInv
<1> QED  BY <1>2, <1>4, <1>7, OneDaemon DEF DaemonInv

\* The daemon misses something.
LEMMA MissFollows ==
    ASSUME FollowInv, NotifyInv', NEW d \in Daemons, SameConfig, SameUsers, log' = log,
           UNCHANGED <<ready, owing, conn, phase, snap, copy, handler>>, state' = Missed({d}),
           Queues(up'[d], down'[d]),
           \A e \in Daemons \ {d} : up'[e] = up[e] /\ down'[e] = down[e],
           NEW x, x.kind = "notify", Open(d)' \subseteq Open(d) \cup {x}
    PROVE  FollowInv'
<1>1. Users' = Users
  BY UsersSame DEF FollowInv, NotifyInv
<1>2. /\ state' \in [Daemons -> {"whole", "mix", "missed"}] /\ state'[d] = "missed"
      /\ \A e \in Daemons \ {d} : state'[e] = state[e]
  BY DEF Missed, FollowInv, LocalInv
<1>3. LocalInv' /\ Apart(d)
  BY <1>1, <1>2 DEF FollowInv, LocalInv, Apart
<1>4. PhaseInv(d)'
  BY PhaseMoves DEF FollowInv, DaemonInv
<1>5. DaemonInv(d)'
  BY <1>2, <1>4 DEF DaemonInv, CopyInv
<1> QED  BY <1>3, <1>5, OneDaemon

\* The head of a queue down, answered.
LEMMA AnswerFollows ==
    ASSUME FollowInv, NotifyInv', NEW d \in Daemons, SameConfig, SameUsers, log' = log,
           UNCHANGED <<ready, owing, conn, phase, snap, copy, handler>>,
           down[d] # <<>>, Head(down[d]).kind = "notify",
           \/ Answer(d, Head(down[d]), "continue") /\ state' = state
           \/ Answer(d, Head(down[d]), "error") /\ state' = Missed({d})
    PROVE  FollowInv'
<1> DEFINE h == Head(down[d])
<1>1. Queues(up[d], down[d]) /\ PacketsInv
  BY DEF FollowInv, DaemonInv, NotifyInv
<1>2. ASSUME NEW m \in {"continue", "error"}, Answer(d, h, m)
      PROVE  LET x == [h EXCEPT !.msg = m]
             IN  /\ Queues(up'[d], down'[d]) /\ h \in Open(d) /\ h \in Token(d)
                 /\ Open(d)' \subseteq Open(d) \cup {x}
                 /\ \A a : Single(up[d], down[d], a) => a = h /\ Single(up'[d], down'[d], x) /\ Open(d)' = {x}
                 /\ \A e \in Daemons \ {d} : up'[e] = up[e] /\ down'[e] = down[e]
                 /\ x.kind = "notify" /\ x.msg = m /\ x.left = h.left /\ x.got = h.got
  <2>1. m \in Msg /\ <<"notify", m>> \in UpMsgs /\ m # "start"
    BY DEF Msg, UpMsgs
  <2>2. LET x == [h EXCEPT !.msg = m]
        IN  /\ Queues(up'[d], down'[d]) /\ h \in Open(d) /\ h \in Token(d)
            /\ Open(d)' \subseteq Open(d) \cup {x}
            /\ \A a : Single(up[d], down[d], a) => a = h /\ Single(up'[d], down'[d], x) /\ Open(d)' = {x}
            /\ \A e \in Daemons \ {d} : up'[e] = up[e] /\ down'[e] = down[e]
    BY <1>1, <1>2, <2>1, AnswerIs
  <2>3. LET x == [h EXCEPT !.msg = m]
        IN  x.kind = h.kind /\ x.msg = m /\ x.left = h.left /\ x.got = h.got
    BY <2>1, <2>2, TokenFields
  <2> QED  BY <2>2, <2>3
<1>3. CASE Answer(d, h, "continue") /\ state' = state
  <2> DEFINE x == [h EXCEPT !.msg = "continue"]
  <2>1. /\ Queues(up'[d], down'[d]) /\ h \in Open(d)
        /\ Open(d)' \subseteq Open(d) \cup {x}
        /\ \A a : Single(up[d], down[d], a) => a = h /\ Single(up'[d], down'[d], x) /\ Open(d)' = {x}
        /\ \A e \in Daemons \ {d} : up'[e] = up[e] /\ down'[e] = down[e]
        /\ x.kind = "notify" /\ x.msg # "error" /\ x.left = h.left /\ x.got = h.got
    BY <1>2, <1>3
  <2> HIDE DEF x
  <2>2. \A c, s : Coming(c, s, x) = Coming(c, s, h)
    BY <2>1 DEF Coming
  <2> QED  BY <1>3, <2>1, <2>2, NotifyMoves
<1>4. CASE Answer(d, h, "error") /\ state' = Missed({d})
  <2> DEFINE x == [h EXCEPT !.msg = "error"]
  <2>1. /\ Queues(up'[d], down'[d]) /\ Open(d)' \subseteq Open(d) \cup {x} /\ x.kind = "notify"
        /\ \A e \in Daemons \ {d} : up'[e] = up[e] /\ down'[e] = down[e]
    BY <1>2, <1>4
  <2> HIDE DEF x
  <2> QED  BY <1>4, <2>1, MissFollows
<1> QED  BY <1>3, <1>4

\* The head of a queue down, taken.
LEMMA TakenFollows ==
    ASSUME FollowInv, NotifyInv', NEW d \in Daemons, SameConfig, SameUsers, log' = log,
           UNCHANGED <<ready, owing, conn, phase, snap, copy, handler>>,
           down[d] # <<>>, down' = [down EXCEPT ![d] = Tail(@)], up' = up,
           \/ Head(down[d]).kind = "get" /\ state' = state
           \/ state' = Missed({d})
    PROVE  FollowInv'
<1> DEFINE h == Head(down[d])
<1>1. Queues(up[d], down[d]) /\ PhaseInv(d) /\ CopyInv(d) /\ PacketsInv
  BY DEF FollowInv, DaemonInv, NotifyInv
<1>2. /\ Queues(up'[d], down'[d]) /\ h \in Open(d)
      /\ Open(d)' \subseteq Open(d)
      /\ \A a : Single(up[d], down[d], a) => a = h /\ Open(d)' = {}
      /\ \A e \in Daemons \ {d} : up'[e] = up[e] /\ down'[e] = down[e]
  BY <1>1, TakenIs
<1> HIDE DEF h
<1>3. CASE h.kind = "get" /\ state' = state
  <2>1. Users' = Users
    BY UsersSame DEF FollowInv, NotifyInv
  <2>2. LocalInv' /\ Apart(d)
    BY <1>2, <1>3, <2>1 DEF FollowInv, LocalInv, Apart
  <2>3. phase[d] \notin {"merge", "up"}
    BY <1>1, <1>2, <1>3 DEF PhaseInv
  <2>4. PhaseInv(d)'
    BY <1>1, <1>2 DEF PhaseInv
  <2>5. CopyInv(d)'
    BY <1>1, <1>2, <1>3, <2>1, <2>3 DEF CopyInv, Requested
  <2> QED  BY <1>2, <2>2, <2>4, <2>5, OneDaemon DEF DaemonInv
<1>4. CASE state' = Missed({d})
  <2>1. [kind |-> "notify"].kind = "notify" /\ Open(d)' \subseteq Open(d) \cup {[kind |-> "notify"]}
    BY <1>2
  <2> QED  BY <1>2, <1>4, <2>1, MissFollows
<1> QED  BY <1>3, <1>4 DEF h

LEMMA NtfStartFollows ==
    ASSUME FollowInv, NotifyInv', NEW d \in Daemons, NtfStart(d)
    PROVE  FollowInv'
<1>1. /\ SameConfig /\ SameUsers /\ log' = log /\ down[d] # <<>> /\ Head(down[d]).kind = "notify"
      /\ UNCHANGED <<ready, owing, conn, phase, snap, copy, handler>>
  BY DEF NtfStart, Received, SameConfig, SameUsers, configVars, notifyVars, daemonVars
<1>2. CASE handler[d]
  BY <1>1, <1>2, AnswerFollows DEF NtfStart
<1>3. CASE ~handler[d]
  BY <1>1, <1>3, TakenFollows DEF NtfStart
<1> QED  BY <1>2, <1>3

LEMMA NtfItemFollows ==
    ASSUME FollowInv, NotifyInv', NEW d \in Daemons, NtfItem(d)
    PROVE  FollowInv'
<1>1. /\ SameConfig /\ SameUsers /\ log' = log /\ down[d] # <<>> /\ Head(down[d]).kind = "notify"
      /\ UNCHANGED <<ready, owing, conn, phase, snap, copy, handler>>
      /\ Answer(d, Head(down[d]), "continue") /\ state' = state
  BY DEF NtfItem, Received, SameConfig, SameUsers, configVars, notifyVars, daemonVars
<1> QED  BY <1>1, AnswerFollows

LEMMA RefuseFollows ==
    ASSUME FollowInv, NotifyInv', NEW d \in Daemons, Refuse(d)
    PROVE  FollowInv'
<1>1. /\ SameConfig /\ SameUsers /\ log' = log /\ down[d] # <<>>
      /\ UNCHANGED <<ready, owing, conn, phase, snap, copy, handler>>
  BY DEF Refuse, SameConfig, SameUsers, configVars, notifyVars, daemonVars
<1>2. CASE Head(down[d]).kind = "notify"
  BY <1>1, <1>2, AnswerFollows DEF Refuse
<1>3. CASE Head(down[d]).kind # "notify"
  <2>1. Head(down[d]) \in Token(d)
    BY <1>1, TailIs DEF FollowInv, NotifyInv, PacketsInv
  <2>2. Head(down[d]).kind = "get"
    BY <1>3, <2>1, TokenIs
  <2> QED  BY <1>1, <1>3, <2>2, TakenFollows DEF Refuse
<1> QED  BY <1>2, <1>3

LEMMA NtfNextFollows ==
    ASSUME FollowInv, NotifyInv', NEW d \in Daemons, NtfNext(d)
    PROVE  FollowInv'
<1> DEFINE h == Head(up[d])
           t == IF h.left = <<>> THEN h ELSE [h EXCEPT !.left = Tail(@), !.got = Append(@, Head(h.left))]
           m == IF h.left = <<>> THEN "end" ELSE "item"
           x == [t EXCEPT !.msg = m]
<1>1. /\ SameConfig /\ SameUsers /\ log' = log /\ up[d] # <<>> /\ h.kind = "notify" /\ h.msg = "continue"
      /\ Tell(d, t, m) /\ UNCHANGED <<ready, owing, conn, phase, snap, copy, handler, state>>
  BY DEF NtfNext, Arrived, SameConfig, SameUsers, configVars, notifyVars, daemonVars
<1>2. /\ h \in NtfToken /\ h \in Token(d) /\ h.left \in Seq(Change) /\ h.got \in Seq(Change)
      /\ h.slot <= Len(h.users) /\ h.users[h.slot] = d
  BY <1>1, HeadUp DEF FollowInv, NotifyInv, Token, NtfToken, GetToken
<1>3. /\ t \in Token(d) /\ t.kind = h.kind /\ t.known = h.known
      /\ h.left = <<>> => t = h
      /\ h.left # <<>> => t.left = Tail(h.left) /\ t.got = Append(h.got, Head(h.left))
  <2>1. CASE h.left = <<>>
    BY <1>2, <2>1
  <2>2. CASE h.left # <<>>
    <3> DEFINE e == Head(h.left)
    <3>1. Tail(h.left) \in Seq(Change) /\ e \in Change
      BY <1>2, <2>2, HeadTailProperties
    <3>2. Append(h.got, e) \in Seq(Change)
      BY <1>2, <3>1
    <3> HIDE DEF e
    <3>3. t = [h EXCEPT !.left = Tail(@), !.got = Append(@, e)]
      BY <2>2 DEF e
    <3>4. /\ t \in NtfToken /\ t.kind = h.kind /\ t.known = h.known /\ t.slot = h.slot /\ t.users = h.users
          /\ t.left = Tail(h.left) /\ t.got = Append(h.got, e)
      BY <1>2, <3>1, <3>2, <3>3 DEF NtfToken
    <3> QED  BY <1>2, <2>2, <3>4 DEF Token, e
  <2> QED  BY <2>1, <2>2
<1>4. m \in Msg /\ <<"notify", m>> \in DownMsgs /\ (m = "end" => t.left = <<>>) /\ m # "error"
  BY <1>3 DEF Msg, DownMsgs
<1> HIDE DEF t, m
<1>5. x.kind = h.kind /\ x.left = t.left /\ x.got = t.got /\ x.msg = m
  BY <1>3, <1>4, TokenFields
<1> HIDE DEF x
<1>6. /\ Queues(up'[d], down'[d]) /\ h \in Open(d)
      /\ Open(d)' \subseteq Open(d) \cup {x}
      /\ \A a : Single(up[d], down[d], a) => a = h /\ Single(up'[d], down'[d], x) /\ Open(d)' = {x}
      /\ \A f \in Daemons \ {d} : up'[f] = up[f] /\ down'[f] = down[f]
  BY <1>1, <1>3, <1>4, TellIs DEF FollowInv, DaemonInv, NotifyInv, x
<1>7. x.got \o x.left = h.got \o h.left
  <2>1. CASE h.left = <<>>
    BY <1>3, <1>5, <2>1
  <2>2. CASE h.left # <<>>
    <3> DEFINE a == h.got
               b == h.left
    <3>1. a \in Seq(Change) /\ b \in Seq(Change) /\ b # <<>>
      BY <1>2, <2>2
    <3>2. x.got = Append(a, Head(b)) /\ x.left = Tail(b)
      BY <1>3, <1>5, <2>2
    <3> HIDE DEF a, b
    <3>3. Append(a, Head(b)) \o Tail(b) = a \o b
      BY <3>1, Moved
    <3> QED  BY <3>2, <3>3 DEF a, b
  <2> QED  BY <2>1, <2>2
<1>8. \A c, s : Coming(c, s, x) = Coming(c, s, h)
  BY <1>7 DEF Coming
<1> HIDE DEF h
<1> QED  BY <1>1, <1>4, <1>5, <1>6, <1>8, NotifyMoves

LEMMA NtfEndFollows ==
    ASSUME FollowInv, NotifyInv', NEW d \in Daemons, NtfEnd(d)
    PROVE  FollowInv'
<1> DEFINE h == Head(down[d])
           new == Applied(copy[d], h.got)
<1>1. /\ SameConfig /\ SameUsers /\ log' = log /\ down[d] # <<>> /\ h.kind = "notify" /\ h.msg = "end"
      /\ down' = [down EXCEPT ![d] = Tail(@)] /\ up' = up
      /\ copy' = [copy EXCEPT ![d] = new]
      /\ state' = [state EXCEPT ![d] = IF phase[d] # "up" THEN "missed"
                                       ELSE IF @ = "mix" THEN "whole" ELSE @]
      /\ UNCHANGED <<ready, owing, conn, phase, snap, handler>>
  BY DEF NtfEnd, Received, SameConfig, SameUsers, configVars, notifyVars
<1>2. Users' = Users
  BY <1>1, UsersSame DEF FollowInv, NotifyInv
<1>3. Queues(up[d], down[d]) /\ PhaseInv(d) /\ CopyInv(d)
  BY DEF FollowInv, DaemonInv
<1>4. /\ Queues(up'[d], down'[d]) /\ h \in Open(d) /\ h \in Token(d)
      /\ Open(d)' \subseteq Open(d)
      /\ \A a : Single(up[d], down[d], a) => a = h /\ Open(d)' = {}
      /\ \A e \in Daemons \ {d} : up'[e] = up[e] /\ down'[e] = down[e]
  BY <1>1, <1>3, TakenIs DEF FollowInv, NotifyInv
<1>5. h.got \in Seq(Change) /\ h.left = <<>>
  <2>1. h \in ToSet(down[d])
    BY <1>1, ToSetTail DEF FollowInv, NotifyInv, PacketsInv
  <2> QED  BY <1>1, <1>3, <1>4, <2>1, TokenIs DEF Queues
<1>6. copy[d] \in Config /\ new \in Config
  BY <1>5, AppliedIs DEF FollowInv, LocalInv
<1> HIDE DEF h, new
<1>7. /\ state' \in [Daemons -> {"whole", "mix", "missed"}]
      /\ state'[d] = IF phase[d] # "up" THEN "missed" ELSE IF state[d] = "mix" THEN "whole" ELSE state[d]
      /\ \A e \in Daemons \ {d} : state'[e] = state[e]
  <2> DEFINE y == IF phase[d] # "up" THEN "missed" ELSE IF state[d] = "mix" THEN "whole" ELSE state[d]
  <2>1. state \in [Daemons -> {"whole", "mix", "missed"}]
    BY DEF FollowInv, LocalInv
  <2>2. y \in {"whole", "mix", "missed"}
    BY <2>1
  <2>3. state' = [state EXCEPT ![d] = y]
    BY <1>1
  <2> HIDE DEF y
  <2>4. /\ state' \in [Daemons -> {"whole", "mix", "missed"}] /\ state'[d] = y
        /\ \A e \in Daemons \ {d} : state'[e] = state[e]
    BY <2>1, <2>2, <2>3
  <2> QED  BY <2>4 DEF y
<1>8. LocalInv'
  BY <1>1, <1>6, <1>7 DEF FollowInv, LocalInv
<1>9. Apart(d) /\ copy'[d] = new
  BY <1>1, <1>2, <1>4, <1>7 DEF Apart, FollowInv, LocalInv
<1>10. PhaseInv(d)'
  BY <1>1, <1>3, <1>4 DEF PhaseInv
<1>11. ASSUME state'[d] # "missed" PROVE CopyInv(d)'
  <2>1. phase[d] = "up" /\ state[d] # "missed" /\ snap[d] = <<>>
    <3>1. phase[d] = "up"
      BY <1>7, <1>11
    <3>2. state[d] # "missed"
      BY <1>7, <1>11, <3>1
    <3> QED  BY <1>3, <3>1, <3>2 DEF PhaseInv
  <2>2. /\ Single(up[d], down[d], h)
        /\ Fresh(Coming(copy[d], snap[d], h), committed, changes)
        /\ Coming(copy[d], snap[d], h) \in log
    BY <1>3, <1>4, <2>1 DEF CopyInv, Followed
  <2>3. Coming(copy[d], snap[d], h) = new
    <3>1. h.got \o <<>> = h.got
      BY <1>5, ConcatEmptySeq
    <3>2. Applied(copy[d], <<>>) = copy[d]
      BY <1>6, AppliedNothing
    <3> QED  BY <1>5, <2>1, <3>1, <3>2 DEF Coming, new
  <2>4. Open(d)' = {} /\ Applied(copy'[d], snap'[d]) = new
    BY <1>1, <1>4, <1>6, <1>9, <2>1, <2>2, AppliedNothing
  <2>5. Followed(d)'
    BY <1>1, <2>2, <2>3, <2>4 DEF Followed, SameConfig
  <2> QED  BY <1>2, <1>3, <2>1, <2>4, <2>5 DEF CopyInv, Requested
<1>12. DaemonInv(d)'
  BY <1>4, <1>10, <1>11 DEF DaemonInv, CopyInv
<1> QED  BY <1>8, <1>9, <1>12, OneDaemon

LEMMA NtfErrorFollows ==
    ASSUME FollowInv, NotifyInv', NEW d \in Daemons, NtfError(d)
    PROVE  FollowInv'
<1> DEFINE h == Head(up[d])
           who == IF Len(h.users) = Len(slots) THEN {slots[h.slot]} ELSE Daemons
<1>1. /\ SameConfig /\ log' = log /\ up[d] # <<>>
      /\ up' = [up EXCEPT ![d] = Tail(@)] /\ down' = down
      /\ \E e \in who : /\ slots' = Unreg(e).slots /\ size' = Unreg(e).size
                        /\ state' = Missed({d, e})
      /\ UNCHANGED <<ready, owing, conn, phase, snap, copy, handler>>
  BY DEF NtfError, Arrived, SameConfig, configVars, daemonVars
<1> HIDE DEF who
<1>2. PICK e : /\ slots' = Unreg(e).slots /\ size' = Unreg(e).size
               /\ state' = Missed({d, e})
  BY <1>1
<1>3. Users' = Users \ {e}
  <2>1. {Unreg(e).slots[j] : j \in 1..Unreg(e).size} = Users \ {e}
    BY UnregIs DEF FollowInv, NotifyInv
  <2> QED  BY <1>2, <2>1 DEF Users
<1>4. /\ state' \in [Daemons -> {"whole", "mix", "missed"}]
      /\ \A f \in Daemons : state'[f] = IF f \in {d, e} THEN "missed" ELSE state[f]
  BY <1>2 DEF Missed, FollowInv, LocalInv
<1>5. LocalInv'
  BY <1>1, <1>4 DEF FollowInv, LocalInv
<1>6. /\ up'[d] = Tail(up[d]) /\ down'[d] = down[d] /\ up[d] \in Seq(Token(d))
      /\ \A f \in Daemons \ {d} : up'[f] = up[f] /\ down'[f] = down[f]
  BY <1>1 DEF FollowInv, NotifyInv, PacketsInv
<1>7. Apart(d)
  BY <1>1, <1>3, <1>4, <1>6 DEF Apart
<1>8. Queues(up[d], down[d]) /\ PhaseInv(d)
  BY DEF FollowInv, DaemonInv
<1>9. ToSet(up[d]) = {h} \cup ToSet(Tail(up[d])) /\ Ordered(Tail(up[d]))
  BY <1>1, <1>6, <1>8, ToSetTail, OrderedTail DEF Queues
<1> HIDE DEF h
<1>10. Queues(up'[d], down'[d])
  BY <1>6, <1>8, <1>9 DEF Queues
<1>11. Open(d)' \subseteq Open(d)
  BY <1>6, <1>9 DEF Open
<1>12. PhaseInv(d)'
  BY <1>1, <1>8, <1>11 DEF PhaseInv
<1>13. DaemonInv(d)'
  BY <1>4, <1>10, <1>12 DEF DaemonInv, CopyInv
<1> QED  BY <1>5, <1>7, <1>13, OneDaemon

\* A connection that is lost leaves no request that its daemon knows.
LEMMA ForgottenToken ==
    ASSUME NEW d \in Daemons, NEW q \in Seq(Token(d))
    PROVE  \A t \in ToSet(Forgotten(q)) :
              /\ ~Known(t)
              /\ \E o \in ToSet(q) : t.kind = o.kind /\ t.msg = o.msg /\ t.left = o.left /\ t.got = o.got
<1>1. Len(q) \in Nat /\ DOMAIN q = 1..Len(q) /\ \A k \in 1..Len(q) : q[k] \in Token(d)
  BY LenProperties, ElementOfSeq
<1>2. ASSUME NEW t \in ToSet(Forgotten(q))
      PROVE  /\ ~Known(t)
             /\ \E o \in ToSet(q) : t.kind = o.kind /\ t.msg = o.msg /\ t.left = o.left /\ t.got = o.got
  <2>1. PICK k \in 1..Len(q) : t = [q[k] EXCEPT !.known = @ /\ q[k].kind = "notify" /\ q[k].msg = "start"]
    BY <1>1, <1>2 DEF ToSet, Forgotten
  <2> DEFINE o == q[k]
             x == o.known /\ o.kind = "notify" /\ o.msg = "start"
  <2>2. o \in Token(d) /\ o \in ToSet(q) /\ t = [o EXCEPT !.known = x] /\ x \in BOOLEAN
    BY <1>1, <2>1 DEF ToSet
  <2>3. x => o.kind = "notify"
    OBVIOUS
  <2> HIDE DEF o, x
  <2>4. t.kind = o.kind /\ t.msg = o.msg /\ t.left = o.left /\ t.got = o.got /\ t.known = x
    <3>1. CASE o \in GetToken
      BY <2>2, <3>1 DEF GetToken
    <3>2. CASE o \in NtfToken
      BY <2>2, <3>2 DEF NtfToken
    <3> QED  BY <2>2, <3>1, <3>2 DEF Token
  <2>5. ~Known(t)
    BY <2>3, <2>4 DEF Known
  <2> QED  BY <2>2, <2>4, <2>5
<1> QED  BY <1>2

LEMMA LoseFollows ==
    ASSUME FollowInv, NotifyInv', NEW d \in Daemons, NEW ends \in BOOLEAN, NEW lost \in BOOLEAN,
           Lose(d, ends, lost)
    PROVE  FollowInv'
<1> DEFINE u == up[d]
           w == down[d]
           U == IF lost THEN <<>> ELSE Forgotten(u)
           W == IF lost THEN <<>> ELSE Forgotten(w)
<1>1. /\ SameConfig /\ SameUsers /\ log' = log
      /\ conn' = [conn EXCEPT ![d] = FALSE]
      /\ down' = [down EXCEPT ![d] = W] /\ up' = [up EXCEPT ![d] = U]
      /\ state' = IF Open(d) = {} THEN state ELSE Missed({d})
      /\ phase' = [phase EXCEPT ![d] = IF ends \/ @ = "waiting" THEN "down" ELSE @]
      /\ copy' = IF ends THEN [copy EXCEPT ![d] = Initial] ELSE copy
      /\ handler' = IF ends THEN [handler EXCEPT ![d] = FALSE] ELSE handler
      /\ snap' = IF ends THEN [snap EXCEPT ![d] = <<>>] ELSE snap
      /\ UNCHANGED <<ready, owing>>
  BY DEF Lose, SameConfig, SameUsers, configVars, notifyVars
<1>2. Users' = Users
  BY <1>1, UsersSame DEF FollowInv, NotifyInv
<1>3. u \in Seq(Token(d)) /\ w \in Seq(Token(d))
  BY DEF FollowInv, NotifyInv, PacketsInv
<1>4. Queues(u, w) /\ PhaseInv(d) /\ CopyInv(d)
  BY DEF FollowInv, DaemonInv
<1>5. /\ U \in Seq(Token(d)) /\ W \in Seq(Token(d))
      /\ \A t \in ToSet(U) : /\ ~Known(t)
                             /\ \E o \in ToSet(u) : t.kind = o.kind /\ t.msg = o.msg /\ t.left = o.left /\ t.got = o.got
      /\ \A t \in ToSet(W) : /\ ~Known(t)
                             /\ \E o \in ToSet(w) : t.kind = o.kind /\ t.msg = o.msg /\ t.left = o.left /\ t.got = o.got
  <2>1. ToSet(<<>>) = {} /\ <<>> \in Seq(Token(d))
    BY DEF ToSet
  <2> QED  BY <1>3, <2>1, ForgottenToken, ForgottenIs
<1> HIDE DEF U, W
<1>6. up'[d] = U /\ down'[d] = W /\ \A e \in Daemons \ {d} : up'[e] = up[e] /\ down'[e] = down[e]
  BY <1>1 DEF FollowInv, NotifyInv, PacketsInv
<1>7. Queues(U, W)
  <2>1. Ordered(U) /\ Ordered(W)
    BY <1>5, OrderedUnknown
  <2>2. \A t \in ToSet(U) : <<t.kind, t.msg>> \in UpMsgs /\ (t.msg = "start" => t.got = <<>>)
    <3> TAKE t \in ToSet(U)
    <3>1. PICK o \in ToSet(u) : t.kind = o.kind /\ t.msg = o.msg /\ t.left = o.left /\ t.got = o.got
      BY <1>5
    <3> QED  BY <1>4, <3>1 DEF Queues
  <2>3. \A t \in ToSet(W) : <<t.kind, t.msg>> \in DownMsgs /\ (t.msg = "end" => t.left = <<>>)
    <3> TAKE t \in ToSet(W)
    <3>1. PICK o \in ToSet(w) : t.kind = o.kind /\ t.msg = o.msg /\ t.left = o.left /\ t.got = o.got
      BY <1>5
    <3> QED  BY <1>4, <3>1 DEF Queues
  <2> QED  BY <1>5, <2>1, <2>2, <2>3 DEF Queues
<1>8. \A t \in Open(d)' : ~Known(t) /\ \E o \in Open(d) : t.kind = o.kind
  BY <1>5, <1>6 DEF Open
<1>9. /\ phase'[d] = IF ends \/ phase[d] = "waiting" THEN "down" ELSE phase[d]
      /\ \A e \in Daemons \ {d} : phase'[e] = phase[e]
      /\ phase' \in [Daemons -> {"down", "waiting", "merge", "up"}]
  <2> DEFINE p == IF ends \/ phase[d] = "waiting" THEN "down" ELSE phase[d]
  <2>1. p \in {"down", "waiting", "merge", "up"} /\ phase \in [Daemons -> {"down", "waiting", "merge", "up"}]
    BY DEF FollowInv, LocalInv
  <2>2. phase' = [phase EXCEPT ![d] = p]
    BY <1>1
  <2> HIDE DEF p
  <2>3. /\ phase'[d] = p /\ \A e \in Daemons \ {d} : phase'[e] = phase[e]
        /\ phase' \in [Daemons -> {"down", "waiting", "merge", "up"}]
    BY <2>1, <2>2
  <2> QED  BY <2>3 DEF p
<1>10. /\ state' \in [Daemons -> {"whole", "mix", "missed"}]
       /\ state'[d] = IF Open(d) = {} THEN state[d] ELSE "missed"
       /\ \A e \in Daemons \ {d} : state'[e] = state[e]
  <2>1. CASE Open(d) = {}
    BY <1>1, <2>1 DEF FollowInv, LocalInv
  <2>2. CASE Open(d) # {}
    BY <1>1, <2>2 DEF Missed, FollowInv, LocalInv
  <2> QED  BY <2>1, <2>2
<1>11. /\ snap' \in [Daemons -> Seq(Change)] /\ copy' \in [Daemons -> Config]
       /\ handler' \in [Daemons -> BOOLEAN] /\ conn' \in [Daemons -> BOOLEAN]
       /\ snap'[d] = (IF ends THEN <<>> ELSE snap[d]) /\ (~ends => copy'[d] = copy[d])
       /\ \A e \in Daemons \ {d} : snap'[e] = snap[e] /\ copy'[e] = copy[e]
  <2>1. Initial \in Config /\ <<>> \in Seq(Change)
    BY NotifyAssumption DEF Initial, Config
  <2>2. CASE ends
    BY <1>1, <2>1, <2>2 DEF FollowInv, LocalInv
  <2>3. CASE ~ends
    BY <1>1, <2>3 DEF FollowInv, LocalInv
  <2> QED  BY <2>2, <2>3
<1>12. LocalInv'
  BY <1>1, <1>9, <1>10, <1>11 DEF FollowInv, LocalInv
<1>13. Apart(d)
  BY <1>1, <1>2, <1>6, <1>9, <1>10, <1>11 DEF Apart
<1>14. PhaseInv(d)'
  <2>1. phase'[d] \in {"merge", "up"} => \A t \in Open(d)' : t.kind # "get"
    BY <1>4, <1>8, <1>9 DEF PhaseInv
  <2>2. phase'[d] # "merge" => snap'[d] = <<>>
    BY <1>4, <1>9, <1>11 DEF PhaseInv
  <2> QED  BY <1>8, <2>1, <2>2 DEF PhaseInv
<1>15. ASSUME state'[d] # "missed" PROVE CopyInv(d)'
  <2>1. Open(d) = {} /\ state'[d] = state[d] /\ state[d] # "missed"
    BY <1>10, <1>15
  <2>2. Open(d)' = {}
    BY <1>8, <2>1
  <2>3. phase'[d] \in {"merge", "up"} => phase'[d] = phase[d] /\ ~ends
    BY <1>9
  <2>4. phase'[d] \in {"merge", "up"} => Followed(d)'
    BY <1>1, <1>4, <1>11, <2>1, <2>2, <2>3 DEF CopyInv, Followed, SameConfig
  <2> QED  BY <1>2, <1>4, <2>1, <2>2, <2>4 DEF CopyInv, Requested
<1>16. DaemonInv(d)'
  BY <1>6, <1>7, <1>14, <1>15 DEF DaemonInv, CopyInv
<1> QED  BY <1>12, <1>13, <1>16, OneDaemon
-----------------------------------------------------------------------------
(* Commits. *)

LEMMA NewValuesIs ==
    ASSUME ConfigInv, version < MaxVersion, NEW I \in Edits
    PROVE  /\ NewValues(I) \in Seq(Change) /\ I \subseteq Items
           /\ \A k \in 1..Len(NewValues(I)) : NewValues(I)[k].value = version + 1
           /\ \A i : ChangesOf(NewValues(I), i) # {} <=> i \in I
<1> DEFINE n == Cardinality(I)
           f == SetToSeq(I)
           v == NewValues(I)
<1>1. IsFiniteSet(I) /\ I \subseteq Items
  BY NotifyAssumption, FS_Subset
<1>2. n \in Nat /\ f \in [1..n -> I] /\ \A i \in I : \E k \in 1..n : f[k] = i
  BY <1>1, SetToSeqIs, SetToSeqCovers
<1>3. v \in Seq(Change)
  BY NewValuesAre
<1>4. DOMAIN v = 1..n /\ \A k \in 1..n : v[k].item = f[k] /\ v[k].value = version + 1
  BY DEF NewValues
<1>5. 1..Len(v) = 1..n
  BY <1>3, <1>4, LenProperties
<1> HIDE DEF n, f, v
<1>6. \A i : ChangesOf(v, i) # {} <=> i \in I
  BY <1>2, <1>4 DEF ChangesOf
<1> QED  BY <1>1, <1>3, <1>4, <1>5, <1>6 DEF v

LEMMA ChangesOfBoth ==
    ASSUME NEW a \in Seq(Change), NEW b \in Seq(Change), NEW i
    PROVE  ChangesOf(a \o b, i) # {} <=> ChangesOf(a, i) # {} \/ ChangesOf(b, i) # {}
<1> DEFINE ab == a \o b
<1>1. /\ ab \in Seq(Change) /\ DOMAIN ab = 1..Len(ab)
      /\ \A k \in 1..Len(a) : k \in 1..Len(ab) /\ ab[k] = a[k]
      /\ \A m \in 1..Len(b) : Len(a) + m \in 1..Len(ab) /\ ab[Len(a) + m] = b[m]
      /\ \A k \in 1..Len(ab) : k \in 1..Len(a) \/ \E m \in 1..Len(b) : k = Len(a) + m
  BY ConcatIs
<1>2. DOMAIN a = 1..Len(a) /\ DOMAIN b = 1..Len(b)
  BY LenProperties
<1> HIDE DEF ab
<1>3. ChangesOf(a, i) # {} => ChangesOf(ab, i) # {}
  BY <1>1, <1>2 DEF ChangesOf
<1>4. ASSUME NEW m \in ChangesOf(b, i) PROVE ChangesOf(ab, i) # {}
  <2>1. m \in 1..Len(b) /\ b[m].item = i
    BY <1>2 DEF ChangesOf
  <2>2. Len(a) + m \in DOMAIN ab /\ ab[Len(a) + m].item = i
    BY <1>1, <2>1
  <2> QED  BY <2>2 DEF ChangesOf
<1>5. ASSUME NEW k \in ChangesOf(ab, i) PROVE ChangesOf(a, i) # {} \/ ChangesOf(b, i) # {}
  <2>1. k \in 1..Len(ab) /\ ab[k].item = i
    BY <1>1 DEF ChangesOf
  <2>2. CASE k \in 1..Len(a)
    BY <1>1, <1>2, <2>1, <2>2 DEF ChangesOf
  <2>3. ASSUME NEW m \in 1..Len(b), k = Len(a) + m PROVE ChangesOf(b, i) # {}
    <3>1. b[m].item = i
      BY <1>1, <2>1, <2>3
    <3> QED  BY <1>2, <3>1 DEF ChangesOf
  <2> QED  BY <1>1, <2>1, <2>2, <2>3
<1> QED  BY <1>3, <1>4, <1>5 DEF ab

(***************************************************************************)
(* A commit collects what it commits: the changes that are collected lead  *)
(* to the configuration from any copy that lacks no other.                 *)
(***************************************************************************)
LEMMA CommitCollects ==
    ASSUME NotifyInv, ChangesInv, NEW s \in Commits, NEW I \in Edits, Commit(s, I)
    PROVE  /\ ChangesInv' /\ log \subseteq log' /\ committed' \in Config
           /\ \A i : ChangesOf(changes', i) # {} <=> ChangesOf(changes, i) # {} \/ i \in I
           /\ \A i \in Items : i \notin I => committed'[i] = committed[i]
<1> DEFINE v == NewValues(I)
           c == committed'
<1>1. /\ version < MaxVersion /\ changes' = changes \o v /\ log' = log \cup {c}
      /\ c = [i \in Items |-> IF i \in I THEN version + 1 ELSE committed[i]]
  BY DEF Commit
<1>2. ConfigInv /\ changes \in Seq(Change) /\ committed \in Config
  BY DEF NotifyInv, ConfigInv, Config
<1>3. /\ v \in Seq(Change) /\ I \subseteq Items
      /\ \A k \in 1..Len(v) : v[k].value = version + 1
      /\ \A i : ChangesOf(v, i) # {} <=> i \in I
  BY <1>1, <1>2, NewValuesIs
<1>4. c \in Config
  <2>1. version + 1 \in 0..MaxVersion
    BY <1>1, <1>2, NotifyAssumption DEF ConfigInv
  <2> QED  BY <1>1, <1>2, <2>1 DEF Config
<1>5. \A i \in Items : c[i] = IF i \in I THEN version + 1 ELSE committed[i]
  BY <1>1
<1>6. \A i : ChangesOf(changes', i) # {} <=> ChangesOf(changes, i) # {} \/ i \in I
  BY <1>1, <1>2, <1>3, ChangesOfBoth
<1> HIDE DEF v, c
<1> DEFINE b == Applied(c, changes)
<1>7. /\ b \in Config /\ Applied(b, v) \in Config
      /\ \A i \in Items : b[i] = IF ChangesOf(changes, i) = {} THEN c[i] ELSE changes[Max(ChangesOf(changes, i))].value
      /\ \A i \in Items : Applied(b, v)[i] = IF ChangesOf(v, i) = {} THEN b[i] ELSE v[Max(ChangesOf(v, i))].value
  BY <1>2, <1>3, <1>4, AppliedIs
<1> HIDE DEF b
<1>8. \A i \in Items : committed[i] = IF ChangesOf(changes, i) = {} THEN committed[i]
                                      ELSE changes[Max(ChangesOf(changes, i))].value
  BY <1>2, AppliedIs DEF ChangesInv
<1>9. ASSUME NEW i \in Items PROVE Applied(b, v)[i] = c[i]
  <2>1. CASE i \in I
    <3>1. Max(ChangesOf(v, i)) \in 1..Len(v)
      BY <1>3, <2>1, LastOf
    <3> QED  BY <1>3, <1>5, <1>7, <2>1, <3>1
  <2>2. CASE i \notin I
    BY <1>3, <1>5, <1>7, <1>8, <2>2
  <2> QED  BY <2>1, <2>2
<1>10. Applied(b, v) = c
  BY <1>4, <1>7, <1>9 DEF Config
<1>11. Applied(c, changes \o v) = c
  BY <1>2, <1>3, <1>4, <1>10, AppliedTwice DEF b
<1>12. ChangesInv'
  BY <1>1, <1>11 DEF ChangesInv, c
<1> QED  BY <1>1, <1>4, <1>5, <1>6, <1>12 DEF c

LEMMA FreshSent ==
    ASSUME NotifyInv, ChangesInv, NEW c \in Config, Fresh(c, committed, changes)
    PROVE  Applied(c, changes) = committed
<1>1. committed \in Config /\ changes \in Seq(Change)
  BY DEF NotifyInv, ConfigInv, Config
<1>2. \A x \in Config : /\ Applied(x, changes) \in Config
                        /\ \A i \in Items : Applied(x, changes)[i] = IF ChangesOf(changes, i) = {} THEN x[i]
                                                ELSE changes[Max(ChangesOf(changes, i))].value
  BY <1>1, AppliedIs
<1>3. \A i \in Items : Applied(c, changes)[i] = committed[i]
  BY <1>1, <1>2 DEF Fresh, ChangesInv
<1> QED  BY <1>1, <1>2, <1>3 DEF Config

LEMMA CommitFollows ==
    ASSUME FollowInv, NotifyInv', NEW s \in Commits, NEW I \in Edits, Commit(s, I)
    PROVE  FollowInv'
<1>1. /\ UNCHANGED <<slots, size, down, up, conn, phase, snap, copy, handler>>
      /\ ready' = TRUE /\ owing' = owing \cup {s}
      /\ state' = [d \in Daemons |->
                      IF state[d] = "whole" /\ \E token \in Open(d) : token.kind = "get"
                      THEN "mix" ELSE state[d]]
  BY DEF Commit, daemonVars
<1>2. /\ ChangesInv' /\ log \subseteq log'
      /\ \A i : ChangesOf(changes', i) # {} <=> ChangesOf(changes, i) # {} \/ i \in I
      /\ \A i \in Items : i \notin I => committed'[i] = committed[i]
  BY CommitCollects DEF FollowInv
<1>3. Users' = Users
  BY <1>1 DEF Users
<1>4. LocalInv'
  BY <1>1 DEF FollowInv, LocalInv
<1>5. \A c : Fresh(c, committed, changes) => Fresh(c, committed', changes')
  BY <1>2 DEF Fresh
<1>6. ASSUME NEW d \in Daemons PROVE DaemonInv(d)'
  <2>1. /\ Queues(up[d], down[d]) /\ PhaseInv(d) /\ CopyInv(d)
        /\ up[d] \in Seq(Token(d)) /\ down[d] \in Seq(Token(d))
    BY DEF FollowInv, DaemonInv, NotifyInv, PacketsInv
  <2>2. Open(d)' = Open(d)
    BY <1>1 DEF Open
  <2>3. state'[d] = IF state[d] = "whole" /\ \E token \in Open(d) : token.kind = "get" THEN "mix" ELSE state[d]
    BY <1>1
  <2>4. PhaseInv(d)'
    BY <1>1, <2>1, <2>2 DEF PhaseInv
  <2>5. ASSUME state'[d] # "missed" PROVE CopyInv(d)'
    <3>1. state[d] # "missed" /\ (state'[d] = "whole" => state[d] = "whole")
      BY <2>3, <2>5
    <3>2. ASSUME NEW t \in Open(d), Known(t), t.msg # "start"
          PROVE  Single(up[d], down[d], t) /\ Fetched(t, state'[d] = "mix", committed', changes')
      <4>1. Single(up[d], down[d], t) /\ Fetched(t, state[d] = "mix", committed, changes)
        BY <2>1, <3>1, <3>2 DEF CopyInv, Requested
      <4>2. state'[d] = "mix"
        <5>1. state[d] \in {"whole", "mix", "missed"}
          BY DEF FollowInv, LocalInv
        <5> QED  BY <2>3, <3>1, <3>2, <5>1 DEF Known
      <4>3. t.got \in Seq(Change)
        <5>1. t \in Token(d)
          BY <2>1, <3>2, ToSetIs DEF Open
        <5> QED  BY <5>1, TokenIs
      <4>4. \A k \in 1..Len(t.got) : t.got[k].item \in Items
        <5>1. \A e \in Change : e.item \in Items
          BY DEF Change
        <5>2. \A k \in 1..Len(t.got) : t.got[k] \in Change
          BY <4>3, ElementOfSeq
        <5> QED  BY <5>1, <5>2
      <4>5. \A k \in 1..Len(t.got) : \/ t.got[k].value = committed'[t.got[k].item]
                                     \/ ChangesOf(changes', t.got[k].item) # {}
        BY <1>2, <4>1, <4>4 DEF Fetched
      <4> QED  BY <4>1, <4>2, <4>5 DEF Fetched
    <3>3. Requested(d)'
      BY <1>1, <2>2, <3>2 DEF Requested
    <3>4. phase[d] \in {"merge", "up"} => Followed(d)'
      BY <1>1, <1>2, <1>5, <2>1, <2>2, <3>1 DEF CopyInv, Followed
    <3> QED  BY <1>1, <1>3, <2>1, <3>1, <3>3, <3>4 DEF CopyInv
  <2> QED  BY <1>1, <2>1, <2>4, <2>5 DEF DaemonInv, CopyInv
<1> QED  BY <1>2, <1>4, <1>6 DEF FollowInv

LEMMA StreamDoneFollows ==
    ASSUME FollowInv, ReadyIsOwed, NotifyInv', NEW s \in Commits, StreamDone(s)
    PROVE  FollowInv'
<1>1. /\ UNCHANGED <<committed, log, slots, size, up, conn, phase, snap, copy, handler>>
      /\ owing' = owing \ {s} /\ changes' = <<>> /\ ready' = FALSE
  BY DEF StreamDone, configVars, daemonVars
<1>2. committed \in Config /\ Users' = Users
  BY <1>1 DEF FollowInv, NotifyInv, ConfigInv, Config, Users
<1>3. ChangesInv'
  BY <1>1, <1>2, AppliedNothing DEF FollowInv, ChangesInv
<1>4. CASE ~ready
  <2>1. down' = down /\ state' = state /\ changes' = changes
    BY <1>1, <1>4 DEF StreamDone, ReadyIsOwed
  <2>2. LocalInv'
    BY <1>1, <2>1 DEF FollowInv, LocalInv
  <2>3. ASSUME NEW d \in Daemons PROVE DaemonInv(d)'
    <3>1. Queues(up[d], down[d]) /\ PhaseInv(d) /\ CopyInv(d)
      BY DEF FollowInv, DaemonInv
    <3>2. Open(d)' = Open(d)
      BY <1>1, <2>1 DEF Open
    <3>3. PhaseInv(d)'
      BY <1>1, <3>1, <3>2 DEF PhaseInv
    <3>4. CopyInv(d)'
      BY <1>1, <1>2, <2>1, <3>1, <3>2 DEF CopyInv, Requested, Followed
    <3> QED  BY <1>1, <2>1, <3>1, <3>3, <3>4 DEF DaemonInv
  <2> QED  BY <1>3, <2>2, <2>3 DEF FollowInv
<1>5. CASE ready
  <2> DEFINE N(d) == NewToken("notify", changes, SlotOf(d))
  <2>1. /\ down' = [d \in Daemons |-> IF d \in Users THEN Append(down[d], N(d)) ELSE down[d]]
        /\ state' = [d \in Daemons |-> IF d \in Users /\ Open(d) # {} THEN "missed" ELSE state[d]]
    BY <1>5 DEF StreamDone, Notify, Missed
  <2>2. LocalInv'
    BY <1>1, <2>1 DEF FollowInv, LocalInv
  <2>3. ASSUME NEW d \in Daemons PROVE DaemonInv(d)'
    <3>1. /\ Queues(up[d], down[d]) /\ PhaseInv(d) /\ CopyInv(d)
          /\ up[d] \in Seq(Token(d)) /\ down[d] \in Seq(Token(d))
          /\ copy[d] \in Config /\ snap[d] \in Seq(Change) /\ changes \in Seq(Change)
      BY DEF FollowInv, DaemonInv, NotifyInv, PacketsInv, LocalInv, ConfigInv
    <3>2. CASE d \notin Users
      <4>1. up'[d] = up[d] /\ down'[d] = down[d] /\ state'[d] = state[d]
        BY <1>1, <2>1, <3>2
      <4>2. Open(d)' = Open(d)
        BY <4>1 DEF Open
      <4>3. PhaseInv(d)'
        BY <1>1, <3>1, <4>2 DEF PhaseInv
      <4>4. state'[d] = "missed"
        BY <3>1, <3>2, <4>1 DEF CopyInv
      <4> QED  BY <3>1, <4>1, <4>3, <4>4 DEF DaemonInv, CopyInv
    <3>3. CASE d \in Users
      <4> DEFINE n == N(d)
      <4>1. n \in Token(d) /\ n.kind = "notify" /\ n.msg = "start" /\ n.left = changes /\ n.got = <<>>
        BY <3>3, NotifyToken DEF FollowInv
      <4>2. /\ up'[d] = up[d] /\ down'[d] = Append(down[d], n)
            /\ state'[d] = IF Open(d) # {} THEN "missed" ELSE state[d]
        BY <1>1, <2>1, <3>3
      <4> HIDE DEF n
      <4>3. ToSet(Append(down[d], n)) = ToSet(down[d]) \cup {n}
        BY <3>1, <4>1, ToSetAppend
      <4>4. Ordered(Append(down[d], n))
        BY <3>1, <4>1, OrderedAppend DEF Queues
      <4>5. Queues(up'[d], down'[d])
        <5>1. <<n.kind, n.msg>> \in DownMsgs
          BY <4>1 DEF DownMsgs
        <5> QED  BY <3>1, <4>1, <4>2, <4>3, <4>4, <5>1 DEF Queues, Known
      <4>6. Open(d)' = Open(d) \cup {n}
        BY <4>2, <4>3 DEF Open
      <4>7. PhaseInv(d)'
        BY <1>1, <3>1, <4>1, <4>6, PhaseMoves
      <4>8. ASSUME state'[d] # "missed" PROVE CopyInv(d)'
        <5>1. Open(d) = {} /\ state'[d] = state[d] /\ state[d] # "missed" /\ Open(d)' = {n}
          BY <4>2, <4>6, <4>8
        <5>2. ToSet(up[d]) = {} /\ ToSet(down[d]) = {}
          BY <5>1 DEF Open
        <5>3. up[d] = <<>> /\ down[d] = <<>>
          BY <3>1, <5>2, ToSetIs
        <5>4. Single(up'[d], down'[d], n)
          BY <4>2, <5>3 DEF Single
        <5>5. Requested(d)'
          BY <4>1, <5>1 DEF Requested, Known
        <5>6. ASSUME phase[d] \in {"merge", "up"} PROVE Followed(d)'
          <6> DEFINE t == Applied(copy[d], snap[d])
          <6>1. t \in Config
            BY <3>1, AppliedIs
          <6>2. Fresh(t, committed, changes) /\ (state[d] = "whole" => t \in log)
            BY <3>1, <5>1, <5>6 DEF CopyInv, Followed
          <6> HIDE DEF t
          <6>3. Applied(t, changes) = committed
            BY <6>1, <6>2, FreshSent DEF FollowInv
          <6>4. <<>> \o changes = changes
            BY <3>1, ConcatEmptySeq
          <6>5. Coming(copy[d], snap[d], n) = committed
            BY <4>1, <6>3, <6>4 DEF Coming, t
          <6>6. Fresh(committed, committed, <<>>)
            BY DEF Fresh
          <6>7. committed \in log
            BY DEF FollowInv, ChangesInv
          <6> QED  BY <1>1, <4>1, <5>1, <5>4, <6>2, <6>5, <6>6, <6>7 DEF Followed, t
        <5> QED  BY <1>1, <1>2, <3>3, <5>1, <5>5, <5>6 DEF CopyInv
      <4> QED  BY <4>5, <4>7, <4>8 DEF DaemonInv, CopyInv
    <3> QED  BY <3>2, <3>3
  <2> QED  BY <1>3, <2>2, <2>3 DEF FollowInv
<1> QED  BY <1>4, <1>5

LEMMA InitFollows == ASSUME Init PROVE FollowInv
<1>1. NotifyInv
  BY InitIs
<1>2. Initial \in Config /\ <<>> \in Seq(Change)
  BY NotifyAssumption DEF Initial, Config
<1>3. LocalInv
  BY <1>2 DEF Init, LocalInv
<1>4. ChangesInv
  BY <1>2, AppliedNothing DEF Init, ChangesInv
<1>5. ASSUME NEW d \in Daemons PROVE DaemonInv(d)
  <2>1. up[d] = <<>> /\ down[d] = <<>> /\ phase[d] = "down" /\ snap[d] = <<>> /\ state[d] = "missed"
    BY DEF Init
  <2>2. ToSet(<<>>) = {} /\ Len(<<>>) = 0
    BY DEF ToSet
  <2> QED  BY <2>1, <2>2 DEF DaemonInv, Queues, Ordered, PhaseInv, CopyInv, Open
<1> QED  BY <1>1, <1>3, <1>4, <1>5 DEF FollowInv

LEMMA StepFollows ==
    ASSUME FollowInv, ReadyIsOwed, NotifyInv', [Next]_vars
    PROVE  FollowInv'
<1>1. ASSUME NEW s \in Commits, Committing(s) PROVE FollowInv'
  BY <1>1, CommitFollows, StreamDoneFollows DEF Committing
<1>2. ASSUME NEW d \in Daemons, Registering(d) PROVE FollowInv'
  BY <1>2, RequestFollows, GetStartFollows, GetNextFollows, GetItemFollows, GetEndFollows,
     MergeFollows, SetHandlerFollows DEF Registering
<1>3. ASSUME NEW d \in Daemons, Notifying(d) PROVE FollowInv'
  BY <1>3, NtfStartFollows, NtfNextFollows, NtfItemFollows, NtfEndFollows, NtfErrorFollows DEF Notifying
<1>4. ASSUME NEW d \in Daemons, Failing(d) PROVE FollowInv'
  BY <1>4, RefuseFollows, ReconnectFollows, LoseFollows DEF Failing
<1>5. CASE UNCHANGED vars
  <2>1. UNCHANGED <<committed, log, changes, ready, owing, slots, size, up, down, conn, phase, snap, copy, handler, state>>
    BY <1>5 DEF vars, configVars, notifyVars, daemonVars
  <2>2. LocalInv' /\ ChangesInv' /\ Users' = Users
    BY <2>1 DEF FollowInv, LocalInv, ChangesInv, Users
  <2>3. ASSUME NEW d \in Daemons PROVE DaemonInv(d)'
    <3>1. DaemonInv(d) /\ Open(d)' = Open(d)
      BY <2>1 DEF FollowInv, Open
    <3> QED  BY <2>1, <2>2, <3>1 DEF DaemonInv, PhaseInv, CopyInv, Requested, Followed
  <2> QED  BY <2>2, <2>3 DEF FollowInv
<1> QED  BY <1>1, <1>2, <1>3, <1>4, <1>5 DEF Next

(***************************************************************************)
(* What a daemon has, what is on its way to it and what is collected for   *)
(* it make up the committed configuration, in every reachable state.       *)
(***************************************************************************)
THEOREM Following == Spec => []FollowInv
<1>1. Init => FollowInv
  BY InitFollows
<1>2. FollowInv /\ ReadyIsOwed /\ NotifyInv' /\ [Next]_vars => FollowInv'
  BY StepFollows
<1> QED  BY <1>1, <1>2, Invariance, CollectedIsSent, PTL DEF Spec

(***************************************************************************)
(* The variables of the config daemon and of the daemons keep their types, *)
(* and a user is in the vector once (reg_user).                            *)
(***************************************************************************)
THEOREM TypeCorrect == Spec => []TypeOK
<1>1. FollowInv => TypeOK
  BY DEF FollowInv, NotifyInv, ConfigInv, UsersInv, LocalInv, TypeOK, Config
<1> QED  BY <1>1, Following, PTL

(***************************************************************************)
(* What a daemon got by process_get and by the notifications of every      *)
(* StreamDone since leads to the committed configuration, whatever the     *)
(* commits and the failures of others in between.                          *)
(***************************************************************************)
THEOREM CopiesConverge == Spec => []Converged
<1>1. ASSUME FollowInv, ReadyIsOwed PROVE Converged
  <2>1. ASSUME NEW d \in Daemons, phase[d] = "up", state[d] # "missed", Quiet(d)
        PROVE  copy[d] = committed
    <3>1. Open(d) = {} /\ changes = <<>>
      BY <1>1, <2>1 DEF Quiet, ReadyIsOwed
    <3>2. PhaseInv(d) /\ CopyInv(d) /\ copy[d] \in Config /\ committed \in Config
      BY <1>1 DEF FollowInv, DaemonInv, LocalInv, NotifyInv, ConfigInv, Config
    <3>3. snap[d] = <<>> /\ Fresh(Applied(copy[d], snap[d]), committed, changes)
      BY <2>1, <3>1, <3>2 DEF PhaseInv, CopyInv, Followed
    <3>4. \A i \in Items : copy[d][i] = committed[i]
      BY <3>1, <3>2, <3>3, AppliedNothing, NoChanges DEF Fresh
    <3> QED  BY <3>2, <3>4 DEF Config
  <2> QED  BY <2>1 DEF Converged
<1> QED  BY <1>1, Following, CollectedIsSent, PTL

(***************************************************************************)
(* CfgUpdateStreamDone applies a notification when it has it all: a daemon *)
(* that missed nothing has a configuration that was committed.             *)
(***************************************************************************)
THEOREM CopiesAreWhole == Spec => []NeverTorn
<1>1. ASSUME FollowInv PROVE NeverTorn
  <2>1. ASSUME NEW d \in Daemons, phase[d] = "up", state[d] = "whole"
        PROVE  copy[d] \in log
    <3>1. PhaseInv(d) /\ CopyInv(d) /\ copy[d] \in Config
      BY <1>1 DEF FollowInv, DaemonInv, LocalInv
    <3>2. snap[d] = <<>> /\ Applied(copy[d], snap[d]) \in log
      BY <2>1, <3>1 DEF PhaseInv, CopyInv, Followed
    <3> QED  BY <3>1, <3>2, AppliedNothing
  <2> QED  BY <2>1 DEF NeverTorn
<1> QED  BY <1>1, Following, PTL
=============================================================================
