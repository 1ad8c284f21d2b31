------------------------- MODULE ConfigNotifyProofs -------------------------
(***************************************************************************)
(* Proofs about ConfigNotify, for every set of daemons, items, edits and   *)
(* streams: a notification that is collected is sent, and the slot a       *)
(* notification names was its daemon's when it was made, so that a failure *)
(* unregisters nobody else unless the users have moved.                    *)
(***************************************************************************)
EXTENDS ConfigNotify, FiniteSetTheorems, SequenceTheorems, TLAPS

Msg == {"start", "item", "continue", "end", "error"}

GetToken == [kind : {"get"}, msg : Msg, left : Seq(Items), got : Seq(Change),
             slot : {0}, users : {<<>>}, known : BOOLEAN]

NtfToken == [kind : {"notify"}, msg : Msg, left : Seq(Change), got : Seq(Change),
             slot : Nat \ {0}, users : Seq(Daemons), known : BOOLEAN]

\* The tokens of d: the slot of a notification is d's.
Token(d) == GetToken \cup {t \in NtfToken : t.slot <= Len(t.users) /\ t.users[t.slot] = d}

ConfigInv == /\ committed \in [Items -> 0..MaxVersion] /\ version \in 0..MaxVersion
             /\ changes \in Seq(Change)

UsersInv == /\ slots \in Seq(Daemons) /\ size \in 0..Len(slots)
            /\ \A j, k \in 1..size : slots[j] = slots[k] => j = k

PacketsInv == /\ up \in [Daemons -> UNION {Seq(Token(d)) : d \in Daemons}]
              /\ down \in [Daemons -> UNION {Seq(Token(d)) : d \in Daemons}]
              /\ \A d \in Daemons : up[d] \in Seq(Token(d)) /\ down[d] \in Seq(Token(d))

NotifyInv == ConfigInv /\ UsersInv /\ PacketsInv
-----------------------------------------------------------------------------
(* The items of a set, in the order of the tree. *)

LEMMA SetToSeqIs ==
  ASSUME NEW S, IsFiniteSet(S)
  PROVE  /\ Cardinality(S) \in Nat
         /\ SetToSeq(S) \in [1..Cardinality(S) -> S]
<1>1. Cardinality(S) \in Nat /\ ExistsBijection(1..Cardinality(S), S)
  BY FS_CardinalityType
<1>2. \E f \in [1..Cardinality(S) -> S] : IsInjective(f)
  BY <1>1 DEF ExistsBijection, Bijection, Injection, IsInjective
<1> QED BY <1>1, <1>2 DEF SetToSeq

LEMMA ItemsInOrder == SetToSeq(Items) \in Seq(Items)
<1>1. Cardinality(Items) \in Nat /\ SetToSeq(Items) \in [1..Cardinality(Items) -> Items]
  BY SetToSeqIs, NotifyAssumption
<1> QED BY <1>1, SeqDef

LEMMA NewValuesAre ==
  ASSUME ConfigInv, version < MaxVersion, NEW I \in Edits
  PROVE  NewValues(I) \in Seq(Change)
<1>1. IsFiniteSet(I) /\ I \subseteq Items /\ MaxVersion \in Nat
  BY NotifyAssumption, FS_Subset
<1>2. Cardinality(I) \in Nat /\ SetToSeq(I) \in [1..Cardinality(I) -> I]
  BY <1>1, SetToSeqIs
<1>3. version + 1 \in 0..MaxVersion
  BY <1>1 DEF ConfigInv
<1>4. \A k \in 1..Cardinality(I) : [item |-> SetToSeq(I)[k], value |-> version + 1] \in Change
  BY <1>1, <1>2, <1>3 DEF Change
<1>5. NewValues(I) \in [1..Cardinality(I) -> Change]
  BY <1>4 DEF NewValues
<1> QED BY <1>2, <1>5, SeqDef
-----------------------------------------------------------------------------
(* The vector of users. *)

LEMMA SlotIs ==
  ASSUME UsersInv, NEW d \in Users
  PROVE  d \in Daemons /\ SlotOf(d) \in 1..size /\ slots[SlotOf(d)] = d
         /\ SlotOf(d) \in Nat \ {0} /\ SlotOf(d) <= Len(slots)
<1>1. \E j \in 1..size : slots[j] = d
  BY DEF Users
<1>2. SlotOf(d) \in 1..size /\ slots[SlotOf(d)] = d
  BY <1>1 DEF SlotOf
<1> QED BY <1>2 DEF UsersInv

(***************************************************************************)
(* unreg_user removes d, and nobody else.                                  *)
(***************************************************************************)
LEMMA UnregIs ==
  ASSUME UsersInv, NEW d
  PROVE  /\ Unreg(d).slots \in Seq(Daemons) /\ Len(Unreg(d).slots) = Len(slots)
         /\ Unreg(d).size \in 0..Len(slots)
         /\ \A j, k \in 1..Unreg(d).size : Unreg(d).slots[j] = Unreg(d).slots[k] => j = k
         /\ {Unreg(d).slots[j] : j \in 1..Unreg(d).size} = Users \ {d}
<1>1. CASE d \notin Users
  BY <1>1 DEF Unreg, UsersInv, Users
<1>2. CASE d \in Users
  <2> DEFINE j == SlotOf(d)
             s == [k \in DOMAIN slots |-> IF k \in j..(size - 1) THEN slots[k + 1] ELSE slots[k]]
  <2>1. Unreg(d) = [slots |-> s, size |-> size - 1]
    BY <1>2 DEF Unreg
  <2>2. j \in 1..size /\ slots[j] = d
    BY <1>2, SlotIs
  <2>3. /\ Len(slots) \in Nat /\ DOMAIN slots = 1..Len(slots) /\ size \in 0..Len(slots)
        /\ \A k \in 1..Len(slots) : slots[k] \in Daemons
    BY DEF UsersInv
  <2> HIDE DEF j
  <2>4. s \in [1..Len(slots) -> Daemons]
    BY <2>2, <2>3
  <2>5. s \in Seq(Daemons) /\ Len(s) = Len(slots)
    BY <2>3, <2>4, SeqDef
  <2>6. \A k \in 1..(size - 1) : s[k] = IF k >= j THEN slots[k + 1] ELSE slots[k]
    BY <2>2, <2>3
  <2> HIDE DEF s
  <2>7. \A k, l \in 1..(size - 1) : s[k] = s[l] => k = l
    BY <2>2, <2>3, <2>6 DEF UsersInv
  <2>8. \A k \in 1..(size - 1) : s[k] \in Users \ {d}
    BY <2>2, <2>3, <2>6 DEF UsersInv, Users
  <2>9. ASSUME NEW e \in Users \ {d} PROVE \E k \in 1..(size - 1) : s[k] = e
    <3>1. PICK k \in 1..size : slots[k] = e
      BY <2>9 DEF Users
    <3>2. CASE k < j
      BY <2>2, <2>3, <2>6, <3>1, <3>2
    <3>3. CASE k > j
      <4>1. k - 1 \in 1..(size - 1) /\ s[k - 1] = slots[k]
        BY <2>2, <2>3, <2>6, <3>3
      <4> QED BY <3>1, <4>1
    <3>4. k # j
      BY <2>2, <2>9, <3>1
    <3> QED BY <2>2, <2>3, <3>2, <3>3, <3>4
  <2>10. size - 1 \in 0..Len(slots)
    BY <2>2, <2>3
  <2>11. {s[k] : k \in 1..(size - 1)} = Users \ {d}
    BY <2>8, <2>9
  <2>12. Unreg(d).slots = s /\ Unreg(d).size = size - 1
    BY <2>1
  <2> QED BY <2>5, <2>7, <2>10, <2>11, <2>12
<1> QED BY <1>1, <1>2

(***************************************************************************)
(* reg_user adds d, and removes nobody.                                    *)
(***************************************************************************)
LEMMA RegIs ==
  ASSUME UsersInv, NEW d \in Daemons, Reg(d)
  PROVE  UsersInv' /\ Users' = Users \cup {d}
<1> DEFINE u == Unreg(d)
           s == u.slots
           n == u.size
<1>1. /\ s \in Seq(Daemons) /\ Len(s) \in Nat /\ n \in 0..Len(s)
      /\ \A j, k \in 1..n : s[j] = s[k] => j = k
      /\ {s[j] : j \in 1..n} = Users \ {d}
  BY UnregIs
<1>2. size' = n + 1 /\ slots' = IF n = Len(s) THEN Append(s, d) ELSE [s EXCEPT ![n + 1] = d]
  BY DEF Reg
<1> HIDE DEF u, s, n
<1>3. /\ slots' \in Seq(Daemons) /\ n + 1 \in 1..Len(slots')
      /\ \A j \in 1..n : slots'[j] = s[j]
      /\ slots'[n + 1] = d
  <2>1. CASE n = Len(s)
    BY <1>1, <1>2, <2>1
  <2>2. CASE n # Len(s)
    <3>1. n + 1 \in 1..Len(s) /\ slots' = [s EXCEPT ![n + 1] = d]
      BY <1>1, <1>2, <2>2
    <3> QED BY <1>1, <3>1, ExceptSeq
  <2> QED BY <2>1, <2>2
<1>4. \A j \in 1..n : s[j] # d
  BY <1>1
<1>5. \A j \in 1..(n + 1) : j \in 1..n \/ j = n + 1
  BY <1>1
<1>6. UsersInv'
  <2>1. \A j, k \in 1..(n + 1) : slots'[j] = slots'[k] => j = k
    BY <1>1, <1>3, <1>4, <1>5
  <2> QED BY <1>1, <1>2, <1>3, <2>1 DEF UsersInv
<1>7. Users' = Users \cup {d}
  <2>1. {slots'[j] : j \in 1..(n + 1)} = {s[j] : j \in 1..n} \cup {d}
    BY <1>1, <1>3, <1>5
  <2>2. Users' = {slots'[j] : j \in 1..(n + 1)}
    BY <1>2 DEF Users
  <2> QED BY <1>1, <2>1, <2>2
<1> QED BY <1>6, <1>7
-----------------------------------------------------------------------------
(* Packets. *)

LEMMA TokenMsg ==
  ASSUME NEW d \in Daemons, NEW t \in Token(d), NEW m \in Msg
  PROVE  [t EXCEPT !.msg = m] \in Token(d)
<1>1. CASE t \in GetToken
  BY <1>1 DEF Token, GetToken
<1>2. CASE t \in NtfToken
  BY <1>2 DEF Token, NtfToken, GetToken
<1> QED BY <1>1, <1>2 DEF Token

LEMMA TokenKnown ==
  ASSUME NEW d \in Daemons, NEW t \in Token(d), NEW x \in BOOLEAN
  PROVE  [t EXCEPT !.known = x] \in Token(d)
<1>1. CASE t \in GetToken
  BY <1>1 DEF Token, GetToken
<1>2. CASE t \in NtfToken
  BY <1>2 DEF Token, NtfToken, GetToken
<1> QED BY <1>1, <1>2 DEF Token

(***************************************************************************)
(* When all queues but one end stay as they are.                           *)
(***************************************************************************)
LEMMA PacketsChange ==
  ASSUME PacketsInv, NEW d \in Daemons, NEW u \in Seq(Token(d)), NEW w \in Seq(Token(d)),
         up' = [up EXCEPT ![d] = u], down' = [down EXCEPT ![d] = w]
  PROVE  PacketsInv'
  BY DEF PacketsInv

LEMMA PacketsSame ==
  ASSUME PacketsInv, UNCHANGED <<up, down>>
  PROVE  PacketsInv'
  BY DEF PacketsInv

LEMMA TellKeeps ==
  ASSUME PacketsInv, NEW d \in Daemons, up[d] # <<>>, NEW t \in Token(d), NEW m \in Msg, Tell(d, t, m)
  PROVE  PacketsInv'
<1>1. up[d] \in Seq(Token(d)) /\ down[d] \in Seq(Token(d))
  BY DEF PacketsInv
<1>2. [t EXCEPT !.msg = m] \in Token(d)
  BY TokenMsg
<1>3. Tail(up[d]) \in Seq(Token(d)) /\ Append(down[d], [t EXCEPT !.msg = m]) \in Seq(Token(d))
  BY <1>1, <1>2, HeadTailProperties
<1> QED BY <1>3, PacketsChange DEF Tell

LEMMA AnswerKeeps ==
  ASSUME PacketsInv, NEW d \in Daemons, down[d] # <<>>, NEW m \in Msg, Answer(d, Head(down[d]), m)
  PROVE  PacketsInv'
<1>1. up[d] \in Seq(Token(d)) /\ down[d] \in Seq(Token(d))
  BY DEF PacketsInv
<1>2. [Head(down[d]) EXCEPT !.msg = m] \in Token(d) /\ Tail(down[d]) \in Seq(Token(d))
  BY <1>1, TokenMsg, HeadTailProperties
<1>3. Append(up[d], [Head(down[d]) EXCEPT !.msg = m]) \in Seq(Token(d))
  BY <1>1, <1>2
<1> QED BY <1>2, <1>3, PacketsChange DEF Answer

LEMMA TakenDownKeeps ==
  ASSUME PacketsInv, NEW d \in Daemons, down[d] # <<>>,
         down' = [down EXCEPT ![d] = Tail(@)], up' = up
  PROVE  PacketsInv'
<1>1. Tail(down[d]) \in Seq(Token(d)) /\ up[d] \in Seq(Token(d)) /\ up = [up EXCEPT ![d] = up[d]]
  BY HeadTailProperties DEF PacketsInv
<1> QED BY <1>1, PacketsChange

LEMMA ForgottenIs ==
  ASSUME NEW d \in Daemons, NEW s \in Seq(Token(d))
  PROVE  Forgotten(s) \in Seq(Token(d))
<1>1. Len(s) \in Nat /\ DOMAIN s = 1..Len(s) /\ \A k \in 1..Len(s) : s[k] \in Token(d)
  BY LenProperties, ElementOfSeq
<1> DEFINE F(k) == [s[k] EXCEPT !.known = @ /\ s[k].kind = "notify" /\ s[k].msg = "start"]
<1>2. \A k \in 1..Len(s) : F(k) \in Token(d)
  <2> TAKE k \in 1..Len(s)
  <2> DEFINE x == s[k].known /\ s[k].kind = "notify" /\ s[k].msg = "start"
  <2>1. s[k] \in Token(d) /\ x \in BOOLEAN
    BY <1>1
  <2>2. F(k) = [s[k] EXCEPT !.known = x]
    OBVIOUS
  <2> HIDE DEF x
  <2>3. [s[k] EXCEPT !.known = x] \in Token(d)
    BY <2>1, TokenKnown
  <2> QED BY <2>2, <2>3
<1>3. Forgotten(s) = [k \in 1..Len(s) |-> F(k)]
  BY <1>1 DEF Forgotten
<1> HIDE DEF F
<1>4. Forgotten(s) \in [1..Len(s) -> Token(d)]
  BY <1>2, <1>3
<1> QED BY <1>1, <1>4, SeqDef

LEMMA NotifyToken ==
  ASSUME NotifyInv, NEW d \in Users
  PROVE  LET n == NewToken("notify", changes, SlotOf(d))
         IN  n \in Token(d) /\ n.kind = "notify" /\ n.msg = "start" /\ n.left = changes /\ n.got = <<>>
<1> DEFINE n == NewToken("notify", changes, SlotOf(d))
<1>1. SlotOf(d) \in Nat \ {0} /\ SlotOf(d) <= Len(slots) /\ slots[SlotOf(d)] = d
  BY SlotIs DEF NotifyInv
<1>2. changes \in Seq(Change) /\ slots \in Seq(Daemons) /\ <<>> \in Seq(Change)
  BY DEF NotifyInv, ConfigInv, UsersInv
<1>3. n \in NtfToken /\ n.slot = SlotOf(d) /\ n.users = slots
  BY <1>1, <1>2 DEF NewToken, NtfToken, Msg
<1>4. n.kind = "notify" /\ n.msg = "start" /\ n.left = changes /\ n.got = <<>>
  BY DEF NewToken
<1> QED  BY <1>1, <1>3, <1>4 DEF Token

(***************************************************************************)
(* notify_user: the slot is the user's.                                    *)
(***************************************************************************)
LEMMA NotifyKeeps ==
  ASSUME NotifyInv, Notify, up' = up
  PROVE  PacketsInv'
<1> DEFINE N(d) == NewToken("notify", changes, SlotOf(d))
<1>1. \A d \in Daemons : up[d] \in Seq(Token(d)) /\ down[d] \in Seq(Token(d))
  BY DEF NotifyInv, PacketsInv
<1>2. \A d \in Users : N(d) \in Token(d)
  BY NotifyToken
<1>3. \A d \in Daemons : down'[d] = IF d \in Users THEN Append(down[d], N(d)) ELSE down[d]
  BY DEF Notify
<1>4. DOMAIN down' = Daemons /\ down' = [d \in Daemons |-> down'[d]]
  BY DEF Notify
<1> HIDE DEF N
<1>5. \A d \in Daemons : down'[d] \in Seq(Token(d))
  <2> TAKE d \in Daemons
  <2>1. CASE d \in Users
    <3>1. down[d] \in Seq(Token(d)) /\ N(d) \in Token(d) /\ down'[d] = Append(down[d], N(d))
      BY <1>1, <1>2, <1>3, <2>1
    <3> QED BY <3>1
  <2>2. CASE d \notin Users
    BY <1>1, <1>3, <2>2
  <2> QED BY <2>1, <2>2
<1>6. down' \in [Daemons -> UNION {Seq(Token(d)) : d \in Daemons}]
  BY <1>4, <1>5
<1> QED BY <1>1, <1>5, <1>6 DEF NotifyInv, PacketsInv
-----------------------------------------------------------------------------
(* The invariant. *)

SameConfig == UNCHANGED <<committed, version, changes>>
SameUsers == UNCHANGED <<slots, size>>

LEMMA ConfigSame == ASSUME ConfigInv, SameConfig PROVE ConfigInv'
  BY DEF ConfigInv, SameConfig

LEMMA UsersSame == ASSUME UsersInv, SameUsers PROVE UsersInv' /\ Users' = Users
  BY DEF UsersInv, SameUsers, Users

LEMMA CommittingKeeps ==
  ASSUME NotifyInv, NEW s \in Commits, Committing(s)
  PROVE  NotifyInv' /\ Users' = Users
<1>1. ASSUME NEW I \in Edits, Commit(s, I) PROVE NotifyInv' /\ Users' = Users
  <2>1. SameUsers /\ UNCHANGED <<up, down>>
    BY <1>1 DEF Commit, SameUsers
  <2>2. /\ version < MaxVersion /\ version' = version + 1 /\ changes' = changes \o NewValues(I)
        /\ committed' = [i \in Items |-> IF i \in I THEN version + 1 ELSE committed[i]]
    BY <1>1 DEF Commit
  <2>3. NewValues(I) \in Seq(Change) /\ changes \in Seq(Change)
    BY <2>2, NewValuesAre DEF NotifyInv, ConfigInv
  <2>4. changes' \in Seq(Change)
    BY <2>2, <2>3, ConcatProperties
  <2>5. ConfigInv'
    BY <2>2, <2>4, NotifyAssumption DEF NotifyInv, ConfigInv
  <2> QED BY <2>1, <2>5, UsersSame, PacketsSame DEF NotifyInv
<1>2. CASE StreamDone(s)
  <2>1. SameUsers /\ up' = up /\ committed' = committed /\ version' = version /\ changes' = <<>>
    BY <1>2 DEF StreamDone, SameUsers, configVars
  <2>2. ConfigInv'
    BY <2>1 DEF NotifyInv, ConfigInv
  <2>3. PacketsInv'
    <3>1. CASE ready
      BY <1>2, <2>1, <3>1, NotifyKeeps DEF StreamDone
    <3>2. CASE ~ready
      BY <1>2, <2>1, <3>2, PacketsSame DEF StreamDone, NotifyInv
    <3> QED BY <3>1, <3>2
  <2> QED BY <2>1, <2>2, <2>3, UsersSame DEF NotifyInv
<1> QED BY <1>1, <1>2 DEF Committing

LEMMA RequestToken ==
  ASSUME NotifyInv, NEW d \in Daemons
  PROVE  LET t == [NewToken("get", <<>>, 0) EXCEPT !.users = <<>>]
         IN  t \in Token(d) /\ t.kind = "get" /\ t.msg = "start" /\ t.got = <<>>
<1> DEFINE n == NewToken("get", <<>>, 0)
<1>1. <<>> \in Seq(Items) /\ <<>> \in Seq(Change)
  BY EmptySeq
<1>2. /\ n \in [kind : {"get"}, msg : Msg, left : Seq(Items), got : Seq(Change),
                slot : {0}, users : Seq(Daemons), known : BOOLEAN]
      /\ n.msg = "start" /\ n.got = <<>>
  BY <1>1 DEF NewToken, Msg, NotifyInv, UsersInv
<1> HIDE DEF n
<1>3. [n EXCEPT !.users = <<>>] \in GetToken
  BY <1>2 DEF GetToken
<1> QED  BY <1>2, <1>3 DEF n, Token

\* Nothing changes for the others, unless they miss something.
Apart(d) ==
    /\ SameConfig /\ log' = log
    /\ \A e \in Daemons \ {d} :
          /\ up'[e] = up[e] /\ down'[e] = down[e]
          /\ phase'[e] = phase[e] /\ snap'[e] = snap[e] /\ copy'[e] = copy[e]
          /\ \/ state'[e] = "missed"
             \/ state'[e] = state[e] /\ (e \in Users => e \in Users')

LEMMA RequestKeeps ==
  ASSUME NotifyInv, NEW d \in Daemons, Request(d)
  PROVE  NotifyInv' /\ Users' = Users
<1> DEFINE t == [NewToken("get", <<>>, 0) EXCEPT !.users = <<>>]
<1>1. SameConfig /\ SameUsers /\ down' = down /\ up' = [up EXCEPT ![d] = Append(@, t)]
  BY DEF Request, SameConfig, SameUsers, configVars, notifyVars
<1>2. t \in Token(d)
  BY RequestToken
<1> HIDE DEF t
<1>3. up[d] \in Seq(Token(d)) /\ down[d] \in Seq(Token(d)) /\ down = [down EXCEPT ![d] = down[d]]
  BY DEF NotifyInv, PacketsInv
<1>4. Append(up[d], t) \in Seq(Token(d))
  BY <1>2, <1>3
<1>5. PacketsInv'
  BY <1>1, <1>3, <1>4, PacketsChange DEF NotifyInv
<1> QED BY <1>1, <1>5, ConfigSame, UsersSame DEF NotifyInv

LEMMA HeadUp ==
  ASSUME PacketsInv, NEW d \in Daemons, up[d] # <<>>
  PROVE  Head(up[d]) \in Token(d)
<1>1. up[d] \in Seq(Token(d))
  BY DEF PacketsInv
<1> QED BY <1>1, HeadTailProperties

LEMMA GetStartKeeps ==
  ASSUME NotifyInv, NEW d \in Daemons, GetStart(d)
  PROVE  NotifyInv' /\ Users' = Users \cup {d}
<1> DEFINE t == [Head(up[d]) EXCEPT !.left = SetToSeq(Items)]
<1>1. /\ up[d] # <<>> /\ Head(up[d]).kind = "get" /\ Tell(d, t, "item") /\ Reg(d) /\ SameConfig
  BY DEF GetStart, Arrived, SameConfig, configVars
<1>2. Head(up[d]) \in GetToken
  BY <1>1, HeadUp DEF NotifyInv, Token, NtfToken
<1>3. t \in Token(d)
  BY <1>2, ItemsInOrder DEF Token, GetToken
<1> HIDE DEF t
<1>4. PacketsInv'
  BY <1>1, <1>3, TellKeeps DEF NotifyInv, Msg
<1> QED BY <1>1, <1>4, ConfigSame, RegIs DEF NotifyInv

LEMMA GetNextKeeps ==
  ASSUME NotifyInv, NEW d \in Daemons, GetNext(d)
  PROVE  NotifyInv' /\ Users' = Users
<1> DEFINE t == Head(up[d])
           e == [item |-> Head(t.left), value |-> committed[Head(t.left)]]
           x == [t EXCEPT !.left = Tail(@), !.got = Append(@, e)]
<1>1. /\ up[d] # <<>> /\ t.kind = "get" /\ SameConfig /\ SameUsers
      /\ IF t.left = <<>> THEN Tell(d, t, "end") ELSE Tell(d, x, "item")
  BY DEF GetNext, Arrived, SameConfig, SameUsers, configVars, notifyVars
<1>2. t \in Token(d) /\ t \in GetToken
  BY <1>1, HeadUp DEF NotifyInv, Token, NtfToken
<1> HIDE DEF t
<1>3. CASE t.left = <<>>
  <2>1. PacketsInv'
    BY <1>1, <1>2, <1>3, TellKeeps DEF NotifyInv, Msg
  <2> QED BY <1>1, <2>1, ConfigSame, UsersSame DEF NotifyInv
<1>4. CASE t.left # <<>>
  <2>1. t.left \in Seq(Items) /\ t.got \in Seq(Change)
    BY <1>2 DEF GetToken
  <2>2. Head(t.left) \in Items /\ Tail(t.left) \in Seq(Items)
    BY <1>4, <2>1, HeadTailProperties
  <2>3. e \in Change
    BY <2>2 DEF NotifyInv, ConfigInv, Change
  <2> HIDE DEF e
  <2>4. Append(t.got, e) \in Seq(Change)
    BY <2>1, <2>3
  <2>5. x \in Token(d)
    BY <1>2, <2>2, <2>4 DEF Token, GetToken
  <2> HIDE DEF x
  <2>6. PacketsInv'
    BY <1>1, <1>4, <2>5, TellKeeps DEF NotifyInv, Msg
  <2> QED BY <1>1, <2>6, ConfigSame, UsersSame DEF NotifyInv
<1> QED BY <1>3, <1>4

LEMMA NtfNextKeeps ==
  ASSUME NotifyInv, NEW d \in Daemons, NtfNext(d)
  PROVE  NotifyInv' /\ Users' = Users
<1> DEFINE t == Head(up[d])
           x == [t EXCEPT !.left = Tail(@), !.got = Append(@, Head(t.left))]
<1>1. /\ up[d] # <<>> /\ t.kind = "notify" /\ SameConfig /\ SameUsers
      /\ IF t.left = <<>> THEN Tell(d, t, "end") ELSE Tell(d, x, "item")
  BY DEF NtfNext, Arrived, SameConfig, SameUsers, configVars, notifyVars
<1>2. t \in Token(d) /\ t \in NtfToken /\ t.slot <= Len(t.users) /\ t.users[t.slot] = d
  BY <1>1, HeadUp DEF NotifyInv, Token, GetToken
<1> HIDE DEF t
<1>3. CASE t.left = <<>>
  <2>1. PacketsInv'
    BY <1>1, <1>2, <1>3, TellKeeps DEF NotifyInv, Msg
  <2> QED BY <1>1, <2>1, ConfigSame, UsersSame DEF NotifyInv
<1>4. CASE t.left # <<>>
  <2>1. t.left \in Seq(Change) /\ t.got \in Seq(Change)
    BY <1>2 DEF NtfToken
  <2>2. Head(t.left) \in Change /\ Tail(t.left) \in Seq(Change)
    BY <1>4, <2>1, HeadTailProperties
  <2>3. Append(t.got, Head(t.left)) \in Seq(Change)
    BY <2>1, <2>2
  <2>4. x \in NtfToken /\ x.slot = t.slot /\ x.users = t.users
    BY <1>2, <2>2, <2>3 DEF NtfToken
  <2>5. x \in Token(d)
    BY <1>2, <2>4 DEF Token
  <2> HIDE DEF x
  <2>6. PacketsInv'
    BY <1>1, <1>4, <2>5, TellKeeps DEF NotifyInv, Msg
  <2> QED BY <1>1, <2>6, ConfigSame, UsersSame DEF NotifyInv
<1> QED BY <1>3, <1>4

(***************************************************************************)
(* The other steps of a request and of a notification send, answer or take *)
(* a packet at most.                                                       *)
(***************************************************************************)
LEMMA SameKeeps ==
  ASSUME NotifyInv, SameConfig, SameUsers, PacketsInv'
  PROVE  NotifyInv' /\ Users' = Users
  BY ConfigSame, UsersSame DEF NotifyInv

LEMMA RegisteringKeeps ==
  ASSUME NotifyInv, NEW d \in Daemons, Registering(d), ~GetStart(d)
  PROVE  NotifyInv' /\ Users' = Users
<1> USE DEF configVars, notifyVars
<1>1. CASE GetItem(d)
  <2>1. down[d] # <<>> /\ Answer(d, Head(down[d]), "continue") /\ SameConfig /\ SameUsers
    BY <1>1 DEF GetItem, Received, SameConfig, SameUsers
  <2> QED BY <2>1, AnswerKeeps, SameKeeps DEF NotifyInv, Msg
<1>2. CASE GetEnd(d)
  <2>1. down[d] # <<>> /\ down' = [down EXCEPT ![d] = Tail(@)] /\ up' = up /\ SameConfig /\ SameUsers
    BY <1>2 DEF GetEnd, Received, SameConfig, SameUsers
  <2> QED BY <2>1, TakenDownKeeps, SameKeeps DEF NotifyInv
<1>3. CASE Merge(d) \/ SetHandler(d)
  <2>1. UNCHANGED <<up, down>> /\ SameConfig /\ SameUsers
    BY <1>3 DEF Merge, SetHandler, SameConfig, SameUsers
  <2> QED BY <2>1, PacketsSame, SameKeeps DEF NotifyInv
<1> QED BY <1>1, <1>2, <1>3, RequestKeeps, GetNextKeeps DEF Registering

LEMMA NotifyingKeeps ==
  ASSUME NotifyInv, NEW d \in Daemons, Notifying(d), ~NtfError(d)
  PROVE  NotifyInv' /\ Users' = Users
<1> USE DEF configVars, notifyVars
<1>1. CASE NtfStart(d)
  <2>1. down[d] # <<>> /\ SameConfig /\ SameUsers
    BY <1>1 DEF NtfStart, Received, SameConfig, SameUsers
  <2>2. CASE handler[d]
    BY <1>1, <2>1, <2>2, AnswerKeeps, SameKeeps DEF NtfStart, NotifyInv, Msg
  <2>3. CASE ~handler[d]
    BY <1>1, <2>1, <2>3, TakenDownKeeps, SameKeeps DEF NtfStart, NotifyInv
  <2> QED BY <2>2, <2>3
<1>2. CASE NtfItem(d)
  <2>1. down[d] # <<>> /\ Answer(d, Head(down[d]), "continue") /\ SameConfig /\ SameUsers
    BY <1>2 DEF NtfItem, Received, SameConfig, SameUsers
  <2> QED BY <2>1, AnswerKeeps, SameKeeps DEF NotifyInv, Msg
<1>3. CASE NtfEnd(d)
  <2>1. down[d] # <<>> /\ down' = [down EXCEPT ![d] = Tail(@)] /\ up' = up /\ SameConfig /\ SameUsers
    BY <1>3 DEF NtfEnd, Received, SameConfig, SameUsers
  <2> QED BY <2>1, TakenDownKeeps, SameKeeps DEF NotifyInv
<1> QED BY <1>1, <1>2, <1>3, NtfNextKeeps DEF Notifying

LEMMA FailingKeeps ==
  ASSUME NotifyInv, NEW d \in Daemons, Failing(d)
  PROVE  NotifyInv' /\ Users' = Users
<1> USE DEF configVars, notifyVars
<1>1. CASE Refuse(d)
  <2>1. down[d] # <<>> /\ SameConfig /\ SameUsers
    BY <1>1 DEF Refuse, SameConfig, SameUsers
  <2>2. CASE Head(down[d]).kind = "notify"
    BY <1>1, <2>1, <2>2, AnswerKeeps, SameKeeps DEF Refuse, NotifyInv, Msg
  <2>3. CASE Head(down[d]).kind # "notify"
    BY <1>1, <2>1, <2>3, TakenDownKeeps, SameKeeps DEF Refuse, NotifyInv
  <2> QED BY <2>2, <2>3
<1>2. CASE Reconnect(d)
  <2>1. UNCHANGED <<up, down>> /\ SameConfig /\ SameUsers
    BY <1>2 DEF Reconnect, SameConfig, SameUsers
  <2> QED BY <2>1, PacketsSame, SameKeeps DEF NotifyInv
<1>3. ASSUME NEW ends \in BOOLEAN, NEW lost \in BOOLEAN, Lose(d, ends, lost)
      PROVE  NotifyInv' /\ Users' = Users
  <2> DEFINE u == IF lost THEN <<>> ELSE Forgotten(up[d])
             w == IF lost THEN <<>> ELSE Forgotten(down[d])
  <2>1. /\ SameConfig /\ SameUsers
        /\ up' = [up EXCEPT ![d] = u] /\ down' = [down EXCEPT ![d] = w]
    BY <1>3 DEF Lose, SameConfig, SameUsers
  <2>2. u \in Seq(Token(d)) /\ w \in Seq(Token(d))
    BY ForgottenIs, EmptySeq DEF NotifyInv, PacketsInv
  <2> HIDE DEF u, w
  <2>3. PacketsInv'
    BY <2>1, <2>2, PacketsChange DEF NotifyInv
  <2> QED BY <2>1, <2>3, SameKeeps
<1> QED BY <1>1, <1>2, <1>3 DEF Failing

(***************************************************************************)
(* NtfyUsrStreamDone unregisters who failed, if the vector is as it was.   *)
(***************************************************************************)
LEMMA NtfErrorKeeps ==
  ASSUME NotifyInv, NEW d \in Daemons, NtfError(d)
  PROVE  /\ NotifyInv' /\ HasFailed(d)
         /\ Head(up[d]).users = slots => Users \ {d} \subseteq Users'
<1> DEFINE t == Head(up[d])
           left == IF Len(t.users) = Len(slots) THEN {slots[t.slot]} ELSE Daemons
<1>1. /\ up[d] # <<>> /\ t.kind = "notify" /\ t.msg = "error" /\ SameConfig
      /\ up' = [up EXCEPT ![d] = Tail(@)] /\ down' = down
      /\ \E e \in left : slots' = Unreg(e).slots /\ size' = Unreg(e).size
  BY DEF NtfError, Arrived, SameConfig, configVars
<1>2. t \in NtfToken /\ t.users[t.slot] = d
  BY <1>1, HeadUp DEF NotifyInv, Token, GetToken
<1>3. PacketsInv'
  <2>1. Tail(up[d]) \in Seq(Token(d)) /\ down[d] \in Seq(Token(d)) /\ down = [down EXCEPT ![d] = down[d]]
    BY <1>1, HeadTailProperties DEF NotifyInv, PacketsInv
  <2> QED BY <1>1, <2>1, PacketsChange DEF NotifyInv
<1>4. HasFailed(d)
  BY <1>1 DEF HasFailed
<1> HIDE DEF t
<1>5. PICK e \in left : slots' = Unreg(e).slots /\ size' = Unreg(e).size
  BY <1>1
<1>6. UsersInv' /\ Users' = Users \ {e}
  <2>1. UsersInv
    BY DEF NotifyInv
  <2>2. /\ slots' \in Seq(Daemons) /\ Len(slots') = Len(slots) /\ size' \in 0..Len(slots)
        /\ \A j, k \in 1..size' : slots'[j] = slots'[k] => j = k
        /\ {slots'[j] : j \in 1..size'} = Users \ {e}
    BY <1>5, <2>1, UnregIs
  <2> QED BY <2>2 DEF UsersInv, Users
<1>7. t.users = slots => e = d
  BY <1>2, <1>5
<1> QED BY <1>1, <1>3, <1>4, <1>6, <1>7, ConfigSame DEF NotifyInv, t

LEMMA InitIs == ASSUME Init PROVE NotifyInv
<1>1. /\ <<>> \in Seq(Change) /\ <<>> \in Seq(Daemons) /\ Len(<<>>) = 0
      /\ \A d \in Daemons : <<>> \in Seq(Token(d))
  BY EmptySeq
<1>2. ConfigInv
  BY <1>1, NotifyAssumption DEF Init, Initial, ConfigInv
<1>3. UsersInv
  BY <1>1 DEF Init, UsersInv
<1>4. PacketsInv
  BY <1>1 DEF Init, PacketsInv
<1> QED BY <1>2, <1>3, <1>4 DEF NotifyInv

LEMMA StepKeeps == ASSUME NotifyInv, [Next]_vars PROVE NotifyInv'
<1>1. CASE UNCHANGED vars
  <2>1. UNCHANGED <<up, down>> /\ SameConfig /\ SameUsers
    BY <1>1 DEF vars, configVars, notifyVars, SameConfig, SameUsers
  <2> QED BY <2>1, PacketsSame, SameKeeps DEF NotifyInv
<1>2. CASE Next
  BY <1>2, CommittingKeeps, RegisteringKeeps, GetStartKeeps, NotifyingKeeps, NtfErrorKeeps, FailingKeeps DEF Next
<1> QED BY <1>1, <1>2

(***************************************************************************)
(* The users are distinct, and a notification on its way names its         *)
(* daemon's slot, in every reachable state.                                *)
(***************************************************************************)
THEOREM Invariance == Spec => []NotifyInv
  BY InitIs, StepKeeps, PTL DEF Spec

(***************************************************************************)
(* A daemon is unregistered for a failure of its own, unless the users     *)
(* have moved: process_get and NtfyUsrStreamDone remove nobody else.       *)
(***************************************************************************)
THEOREM FaultlessStay == Spec => StaysListed
<1> DEFINE A == \A d \in Users : d \in Users' \/ HasFailed(d)
                          \/ \E e \in Daemons : HasFailed(e) /\ Head(up[e]).users # slots
<1>1. ASSUME NotifyInv, [Next]_vars PROVE A
  <2>1. ASSUME Users \subseteq Users' PROVE A
    BY <2>1
  <2>2. ASSUME NEW d \in Daemons, NtfError(d) PROVE A
    BY <1>1, <2>2, NtfErrorKeeps
  <2>3. CASE UNCHANGED vars
    BY <2>1, <2>3 DEF vars, notifyVars, Users
  <2> HIDE DEF A
  <2>4. CASE Next
    BY <1>1, <2>1, <2>2, <2>4, CommittingKeeps, RegisteringKeeps, GetStartKeeps, NotifyingKeeps, FailingKeeps DEF Next
  <2> QED BY <1>1, <2>3, <2>4
<1> HIDE DEF A
<1>2. NotifyInv /\ [Next]_vars => [A]_vars
  BY <1>1
<1>3. Spec => [][A]_vars
  BY <1>2, Invariance, PTL DEF Spec
<1> QED BY <1>3 DEF A, StaysListed

(***************************************************************************)
(* prepare_notifications marks what StreamDone will send: nothing that was *)
(* collected is forgotten while a stream is open, nor without one.         *)
(***************************************************************************)
THEOREM CollectedIsSent == Spec => []ReadyIsOwed
<1>1. ASSUME Init PROVE ReadyIsOwed
  BY <1>1 DEF Init, ReadyIsOwed
<1>2. ASSUME ReadyIsOwed, [Next]_vars PROVE ReadyIsOwed'
  <2>1. ASSUME NEW s \in Commits, Committing(s) PROVE ReadyIsOwed'
    BY <1>2, <2>1 DEF Committing, Commit, StreamDone, ReadyIsOwed
  <2>2. ASSUME NEW d \in Daemons, Registering(d) \/ Notifying(d) \/ Failing(d)
        PROVE  changes' = changes /\ ready' = ready /\ owing' = owing
    BY <2>2 DEF Registering, Request, GetStart, GetNext, GetItem, GetEnd, Merge, SetHandler,
                Notifying, NtfStart, NtfNext, NtfItem, NtfEnd, NtfError,
                Failing, Refuse, Reconnect, Lose, notifyVars
  <2>3. CASE UNCHANGED vars
    BY <1>2, <2>3 DEF vars, notifyVars, ReadyIsOwed
  <2> QED BY <1>2, <2>1, <2>2, <2>3 DEF Next, ReadyIsOwed
<1> QED BY <1>1, <1>2, PTL DEF Spec
=============================================================================
