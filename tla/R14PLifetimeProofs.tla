------------------------- MODULE R14PLifetimeProofs -------------------------
(***************************************************************************)
(* Proofs about R14PLifetime, for any number of reconnections and routing  *)
(* clients.  What is known of the threads needs PromptCount; what is known *)
(* of the references needs packets to one daemon at a time.                *)
(***************************************************************************)
EXTENDS R14PLifetime, FiniteSetTheorems, TLAPS

One(b) == IF b THEN 1 ELSE 0

ExitLeaves == exit_pc \in {"remove", "drain", "drained"}

\* The count is that of the running threads, but for those that are not
\* counted yet and an exit thread that has counted itself out.
CountInv ==
    thread_count + One(uncounted) + One(in_pc = "count") + One(ExitLeaves) = Cardinality(running)

\* Which threads can be running.
ThreadInv ==
    /\ running \subseteq {Order[i] : i \in 1..started} \cup RegThreads \cup {"exit"}
    /\ started = 0 => running = {}
    /\ in_pc # "loop" => started = Len(Order)
    /\ in_pc = "count" => "in" \in running
    /\ "exit" \in running \/ exit_pc # "wait" => in_pc = "end"
    /\ exit_pc # "wait" => ~uncounted
    /\ \A r \in RegThreads : signal[r] = "none" => r \notin running
    /\ ExitLeaves => running = {"exit"}
    /\ exit_pc = "done" => running = {}

\* Where the object is, and who knows.
ListInv ==
    /\ client = "none" <=> creator = "none"
    /\ creator = "none" => started = 0 /\ ~uncounted
    /\ creator \in {"register", "wait", "failed"} => client = "unlisted"
    /\ creator = "threads" => client = "unlisted" \/ ~Outbound
    /\ client = "removed" <=> exit_pc \in {"drain", "drained"}
    /\ client = "freed" <=> exit_pc = "done"
    /\ counted <=> client \in {"unlisted", "listed", "removed"}
    /\ session = "gone" => ~counted

\* Who has a reference.
RefInv ==
    /\ borrowers = {}
    /\ ref_counter = Cardinality(holders) + One(client \notin {"removed", "freed"})
    /\ exit_pc \in {"drained", "done"} => holders = {}
-----------------------------------------------------------------------------
(* Facts about the constants and the counters. *)

LEMMA OrderIs ==
    /\ Len(Order) \in {3, 4}
    /\ \A i \in 1..Len(Order) : Order[i] \in {"in", "out", "timeout", "reg"}
    /\ \A i, j \in 1..Len(Order) : Order[i] = Order[j] => i = j
    /\ Order[Len(Order)] = "in"
<1>1. CASE Outbound
  BY <1>1 DEF Order
<1>2. CASE ~Outbound
  BY <1>2 DEF Order
<1>3. QED  BY <1>1, <1>2

LEMMA Sizes ==
    /\ IsFiniteSet(Threads) /\ Cardinality(Threads) \in Nat
    /\ IsFiniteSet(Routers) /\ Cardinality(Routers) \in Nat
    /\ WORD \in Nat /\ WORD > Cardinality(Threads) + 1 /\ WORD > Cardinality(Routers) + 2
<1> DEFINE Fixed == {"in", "out", "timeout", "exit", "reg"}
<1>1. IsFiniteSet(Fixed)
  <2>1. IsFiniteSet({"in"} \cup {"out"} \cup {"timeout"} \cup {"exit"} \cup {"reg"})
    BY FS_Singleton, FS_Union
  <2>2. Fixed = {"in"} \cup {"out"} \cup {"timeout"} \cup {"exit"} \cup {"reg"}
    OBVIOUS
  <2>3. QED  BY <2>1, <2>2
<1>2. IsFiniteSet(Fixed \cup RegThreads)
  BY <1>1, LifetimeAssumption, FS_Union
<1>3. Threads = Fixed \cup RegThreads
  BY DEF Threads
<1>4. QED
  BY <1>2, <1>3, LifetimeAssumption, FS_CardinalityType

LEMMA Up == \A n \in Nat : n < WORD - 1 => inc(n) = n + 1
BY Sizes DEF inc

LEMMA Down == \A n \in Nat : n > 0 => dec(n) = n - 1
BY DEF dec

(***************************************************************************)
(* Adding and removing an element, and the bound of a set of threads.      *)
(***************************************************************************)
LEMMA Elements ==
    ASSUME NEW S, IsFiniteSet(S)
    PROVE  /\ Cardinality(S) \in Nat
           /\ \A e : e \notin S => Cardinality(S \cup {e}) = Cardinality(S) + 1
           /\ \A e \in S : Cardinality(S \ {e}) = Cardinality(S) - 1
BY FS_CardinalityType, FS_AddElement, FS_RemoveElement

LEMMA RunningSize ==
    ASSUME NEW T, T \subseteq Threads
    PROVE  IsFiniteSet(T) /\ Cardinality(T) \in Nat /\ Cardinality(T) < WORD - 1
<1>1. IsFiniteSet(T) /\ Cardinality(T) <= Cardinality(Threads)
  BY Sizes, FS_Subset
<1>2. QED
  BY <1>1, Sizes, FS_CardinalityType

LEMMA HoldersSize ==
    ASSUME NEW T, T \subseteq Routers
    PROVE  IsFiniteSet(T) /\ Cardinality(T) \in Nat /\ Cardinality(T) < WORD - 2
<1>1. IsFiniteSet(T) /\ Cardinality(T) <= Cardinality(Routers)
  BY Sizes, FS_Subset
<1>2. QED
  BY <1>1, Sizes, FS_CardinalityType
-----------------------------------------------------------------------------
(* Types. *)

LEMMA Members ==
    /\ {"in", "out", "timeout", "exit", "reg"} \subseteq Threads /\ RegThreads \subseteq Threads
    /\ "creator" \in Waiters /\ RegThreads \subseteq Waiters
BY DEF Threads, Waiters

FlagsOK ==
    /\ uncounted \in BOOLEAN /\ active \in BOOLEAN
    /\ registered \in BOOLEAN /\ counted \in BOOLEAN

PlacesOK ==
    /\ creator \in {"none", "threads", "register", "wait", "done", "failed"}
    /\ started \in 0..Len(Order)
    /\ running \subseteq Threads
    /\ in_pc \in {"loop", "count", "end"}
    /\ exit_pc \in {"wait", "remove", "drain", "drained", "done"}
    /\ signal \in [Waiters -> {"none", "stream", "closing", "posted", "lost", "done"}]
    /\ reg_stream \in {"none", "armed", "open", "done"}
    /\ holders \subseteq Routers /\ borrowers \subseteq Routers
    /\ client \in {"none", "unlisted", "listed", "removed", "freed"}
    /\ session \in {"open", "closing", "gone"}

Words == 0..(WORD - 1)

CountersOK == thread_count \in Words /\ ref_counter \in Words

LEMMA WordType == \A n \in Words : inc(n) \in Words /\ dec(n) \in Words
BY Sizes DEF inc, dec, Words

LEMMA TypeParts == TypeOK <=> FlagsOK /\ PlacesOK /\ CountersOK
BY DEF TypeOK, FlagsOK, PlacesOK, CountersOK, Words

LEMMA InitTypeOK == Init => TypeOK
<1>1. Init => FlagsOK
  BY DEF Init, FlagsOK
<1>2. Init => PlacesOK
  BY OrderIs DEF Init, PlacesOK
<1>3. Init => CountersOK
  BY Sizes DEF Init, CountersOK, Words
<1>4. QED  BY <1>1, <1>2, <1>3, TypeParts

LEMMA NextCounters == CountersOK /\ [Next]_vars => CountersOK'
<1> SUFFICES ASSUME CountersOK, [Next]_vars PROVE CountersOK'
  OBVIOUS
<1> USE DEF CountersOK, creatorVars, threadVars, regVars, refVars, listVars
<1>1. CASE Create
  BY <1>1 DEF Create
<1>2. CASE StartThread
  BY <1>2 DEF StartThread
<1>3. CASE CountThread
  BY <1>3, WordType DEF CountThread
<1>4. CASE Created \/ ConnectUnregistered
  BY <1>4 DEF Created, ConnectUnregistered
<1>5. CASE Connect
  BY <1>5 DEF Connect
<1>6. CASE Connected
  BY <1>6 DEF Connected
<1>7. CASE LoopEnds("out") \/ LoopEnds("timeout")
  BY <1>7, WordType DEF LoopEnds, End
<1>8. CASE InLost
  BY <1>8 DEF InLost
<1>9. CASE InCount
  BY <1>9, WordType DEF InCount
<1>10. CASE InStartsExit
  BY <1>10, WordType DEF InStartsExit
<1>11. CASE InEnds
  BY <1>11, WordType DEF InEnds, End
<1>12. ASSUME NEW r \in RegThreads, InReconnected(r) PROVE CountersOK'
  BY <1>12 DEF InReconnected
<1>13. ASSUME NEW r \in RegThreads, RegEnds(r) PROVE CountersOK'
  BY <1>13, WordType DEF RegEnds, End
<1>14. ASSUME NEW w \in Waiters, RegResult(w) PROVE CountersOK'
  BY <1>14 DEF RegResult
<1>15. ASSUME NEW w \in Waiters, RegSent(w) PROVE CountersOK'
  BY <1>15 DEF RegSent
<1>16. ASSUME NEW w \in Waiters, RegUnsent(w) PROVE CountersOK'
  BY <1>16 DEF RegUnsent
<1>17. ASSUME NEW w \in Waiters, RegTimeout(w) PROVE CountersOK'
  BY <1>17 DEF RegTimeout
<1>18. CASE RegNew
  BY <1>18 DEF RegNew
<1>19. CASE RegDone
  BY <1>19 DEF RegDone
<1>20. CASE RegLoopEnds
  BY <1>20, WordType DEF RegLoopEnds, End
<1>21. CASE ExitWaits
  BY <1>21, WordType DEF ExitWaits
<1>22. CASE ExitUnlists
  BY <1>22, WordType DEF ExitUnlists
<1>23. CASE ExitDrains
  BY <1>23 DEF ExitDrains
<1>24. CASE ExitDestroys
  BY <1>24 DEF ExitDestroys
<1>25. ASSUME NEW w \in Routers, Routing(w) PROVE CountersOK'
  BY <1>25, WordType DEF Routing, FindRoute, FindRouteAll, Routed
<1>26. CASE RoutedToSelf
  BY <1>26, WordType DEF RoutedToSelf
<1>27. CASE Disconnect
  BY <1>27 DEF Disconnect
<1>28. CASE DestroySession
  BY <1>28 DEF DestroySession
<1>29. CASE DestroyReturns
  BY <1>29 DEF DestroyReturns
<1>30. CASE UNCHANGED vars
  BY <1>30 DEF vars
<1>31. QED
  BY <1>1, <1>2, <1>3, <1>4, <1>5, <1>6, <1>7, <1>8, <1>9, <1>10, <1>11,
     <1>12, <1>13, <1>14, <1>15, <1>16, <1>17, <1>18, <1>19, <1>20, <1>21,
     <1>22, <1>23, <1>24, <1>25, <1>26, <1>27, <1>28, <1>29, <1>30
     DEF Next, CreatorStep, InStep, ExitStep, Waiting

LEMMA NextFlags == FlagsOK /\ [Next]_vars => FlagsOK'
<1> SUFFICES ASSUME FlagsOK, [Next]_vars PROVE FlagsOK'
  OBVIOUS
<1> USE DEF FlagsOK, creatorVars, threadVars, regVars, refVars, listVars
<1>1. CASE Create
  BY <1>1 DEF Create
<1>2. CASE StartThread
  BY <1>2 DEF StartThread
<1>3. CASE CountThread
  BY <1>3 DEF CountThread
<1>4. CASE Created \/ ConnectUnregistered
  BY <1>4 DEF Created, ConnectUnregistered
<1>5. CASE Connect
  BY <1>5 DEF Connect
<1>6. CASE Connected
  BY <1>6 DEF Connected
<1>7. CASE LoopEnds("out") \/ LoopEnds("timeout")
  BY <1>7 DEF LoopEnds, End
<1>8. CASE InLost
  BY <1>8 DEF InLost
<1>9. CASE InCount
  BY <1>9 DEF InCount
<1>10. CASE InStartsExit
  BY <1>10 DEF InStartsExit
<1>11. CASE InEnds
  BY <1>11 DEF InEnds, End
<1>12. ASSUME NEW r \in RegThreads, InReconnected(r) PROVE FlagsOK'
  BY <1>12 DEF InReconnected
<1>13. ASSUME NEW r \in RegThreads, RegEnds(r) PROVE FlagsOK'
  BY <1>13 DEF RegEnds, End
<1>14. ASSUME NEW w \in Waiters, RegResult(w) PROVE FlagsOK'
  BY <1>14 DEF RegResult
<1>15. ASSUME NEW w \in Waiters, RegSent(w) PROVE FlagsOK'
  BY <1>15 DEF RegSent
<1>16. ASSUME NEW w \in Waiters, RegUnsent(w) PROVE FlagsOK'
  BY <1>16 DEF RegUnsent
<1>17. ASSUME NEW w \in Waiters, RegTimeout(w) PROVE FlagsOK'
  BY <1>17 DEF RegTimeout
<1>18. CASE RegNew
  BY <1>18 DEF RegNew
<1>19. CASE RegDone
  BY <1>19 DEF RegDone
<1>20. CASE RegLoopEnds
  BY <1>20 DEF RegLoopEnds, End
<1>21. CASE ExitWaits
  BY <1>21 DEF ExitWaits
<1>22. CASE ExitUnlists
  BY <1>22 DEF ExitUnlists
<1>23. CASE ExitDrains
  BY <1>23 DEF ExitDrains
<1>24. CASE ExitDestroys
  BY <1>24 DEF ExitDestroys
<1>25. ASSUME NEW w \in Routers, Routing(w) PROVE FlagsOK'
  BY <1>25 DEF Routing, FindRoute, FindRouteAll, Routed
<1>26. CASE RoutedToSelf
  BY <1>26 DEF RoutedToSelf
<1>27. CASE Disconnect
  BY <1>27 DEF Disconnect
<1>28. CASE DestroySession
  BY <1>28 DEF DestroySession
<1>29. CASE DestroyReturns
  BY <1>29 DEF DestroyReturns
<1>30. CASE UNCHANGED vars
  BY <1>30 DEF vars
<1>31. QED
  BY <1>1, <1>2, <1>3, <1>4, <1>5, <1>6, <1>7, <1>8, <1>9, <1>10, <1>11,
     <1>12, <1>13, <1>14, <1>15, <1>16, <1>17, <1>18, <1>19, <1>20, <1>21,
     <1>22, <1>23, <1>24, <1>25, <1>26, <1>27, <1>28, <1>29, <1>30
     DEF Next, CreatorStep, InStep, ExitStep, Waiting

LEMMA NextPlaces == PlacesOK /\ [Next]_vars => PlacesOK'
<1> SUFFICES ASSUME PlacesOK, [Next]_vars PROVE PlacesOK'
  OBVIOUS
<1> USE DEF PlacesOK, creatorVars, threadVars, regVars, refVars, listVars
<1>1. CASE Create
  BY <1>1 DEF Create
<1>2. CASE StartThread
  BY <1>2, Members, OrderIs DEF StartThread
<1>3. CASE CountThread
  BY <1>3 DEF CountThread
<1>4. CASE Created \/ ConnectUnregistered
  BY <1>4 DEF Created, ConnectUnregistered
<1>5. CASE Connect
  BY <1>5, Members DEF Connect
<1>6. CASE Connected
  BY <1>6 DEF Connected
<1>7. CASE LoopEnds("out") \/ LoopEnds("timeout")
  BY <1>7 DEF LoopEnds, End
<1>8. CASE InLost
  BY <1>8 DEF InLost
<1>9. CASE InCount
  BY <1>9 DEF InCount
<1>10. CASE InStartsExit
  BY <1>10, Members DEF InStartsExit
<1>11. CASE InEnds
  BY <1>11 DEF InEnds, End
<1>12. ASSUME NEW r \in RegThreads, InReconnected(r) PROVE PlacesOK'
  BY <1>12, Members DEF InReconnected
<1>13. ASSUME NEW r \in RegThreads, RegEnds(r) PROVE PlacesOK'
  BY <1>13, Members DEF RegEnds, End
<1>14. ASSUME NEW w \in Waiters, RegResult(w) PROVE PlacesOK'
  BY <1>14 DEF RegResult
<1>15. ASSUME NEW w \in Waiters, RegSent(w) PROVE PlacesOK'
  BY <1>15 DEF RegSent
<1>16. ASSUME NEW w \in Waiters, RegUnsent(w) PROVE PlacesOK'
  BY <1>16 DEF RegUnsent
<1>17. ASSUME NEW w \in Waiters, RegTimeout(w) PROVE PlacesOK'
  BY <1>17 DEF RegTimeout
<1>18. CASE RegNew
  BY <1>18 DEF RegNew
<1>19. CASE RegDone
  BY <1>19 DEF RegDone
<1>20. CASE RegLoopEnds
  BY <1>20 DEF RegLoopEnds, End
<1>21. CASE ExitWaits
  BY <1>21 DEF ExitWaits
<1>22. CASE ExitUnlists
  BY <1>22 DEF ExitUnlists
<1>23. CASE ExitDrains
  BY <1>23 DEF ExitDrains
<1>24. CASE ExitDestroys
  BY <1>24 DEF ExitDestroys
<1>25. ASSUME NEW w \in Routers, Routing(w) PROVE PlacesOK'
  BY <1>25 DEF Routing, FindRoute, FindRouteAll, Routed
<1>26. CASE RoutedToSelf
  BY <1>26 DEF RoutedToSelf
<1>27. CASE Disconnect
  BY <1>27 DEF Disconnect
<1>28. CASE DestroySession
  BY <1>28 DEF DestroySession
<1>29. CASE DestroyReturns
  BY <1>29 DEF DestroyReturns
<1>30. CASE UNCHANGED vars
  BY <1>30 DEF vars
<1>31. QED
  BY <1>1, <1>2, <1>3, <1>4, <1>5, <1>6, <1>7, <1>8, <1>9, <1>10, <1>11,
     <1>12, <1>13, <1>14, <1>15, <1>16, <1>17, <1>18, <1>19, <1>20, <1>21,
     <1>22, <1>23, <1>24, <1>25, <1>26, <1>27, <1>28, <1>29, <1>30
     DEF Next, CreatorStep, InStep, ExitStep, Waiting

LEMMA NextTypeOK == TypeOK /\ [Next]_vars => TypeOK'
<1>1. (TypeOK <=> FlagsOK /\ PlacesOK /\ CountersOK)'
  BY TypeParts, PTL
<1>2. QED  BY <1>1, TypeParts, NextFlags, NextPlaces, NextCounters

-----------------------------------------------------------------------------
(* Where the object is. *)

LEMMA InitListInv == Init => ListInv
BY DEF Init, ListInv

LEMMA NextListInv == ListInv /\ [Next]_vars => ListInv'
<1> SUFFICES ASSUME ListInv, [Next]_vars PROVE ListInv'
  OBVIOUS
<1> USE DEF ListInv, creatorVars, threadVars, regVars, refVars, listVars
<1>1. CASE Create
  BY <1>1 DEF Create
<1>2. CASE StartThread
  BY <1>2 DEF StartThread
<1>3. CASE CountThread
  BY <1>3 DEF CountThread
<1>4. CASE Created \/ ConnectUnregistered
  BY <1>4 DEF Created, ConnectUnregistered
<1>5. CASE Connect
  BY <1>5 DEF Connect
<1>6. CASE Connected
  BY <1>6 DEF Connected
<1>7. CASE LoopEnds("out") \/ LoopEnds("timeout")
  BY <1>7 DEF LoopEnds, End
<1>8. CASE InLost
  BY <1>8 DEF InLost
<1>9. CASE InCount
  BY <1>9 DEF InCount
<1>10. CASE InStartsExit
  BY <1>10 DEF InStartsExit
<1>11. CASE InEnds
  BY <1>11 DEF InEnds, End
<1>12. ASSUME NEW r \in RegThreads, InReconnected(r) PROVE ListInv'
  BY <1>12 DEF InReconnected
<1>13. ASSUME NEW r \in RegThreads, RegEnds(r) PROVE ListInv'
  BY <1>13 DEF RegEnds, End
<1>14. ASSUME NEW w \in Waiters, RegResult(w) PROVE ListInv'
  BY <1>14 DEF RegResult
<1>15. ASSUME NEW w \in Waiters, RegSent(w) PROVE ListInv'
  BY <1>15 DEF RegSent
<1>16. ASSUME NEW w \in Waiters, RegUnsent(w) PROVE ListInv'
  BY <1>16 DEF RegUnsent
<1>17. ASSUME NEW w \in Waiters, RegTimeout(w) PROVE ListInv'
  BY <1>17 DEF RegTimeout
<1>18. CASE RegNew
  BY <1>18 DEF RegNew
<1>19. CASE RegDone
  BY <1>19 DEF RegDone
<1>20. CASE RegLoopEnds
  BY <1>20 DEF RegLoopEnds, End
<1>21. CASE ExitWaits
  BY <1>21 DEF ExitWaits
<1>22. CASE ExitUnlists
  BY <1>22 DEF ExitUnlists
<1>23. CASE ExitDrains
  BY <1>23 DEF ExitDrains
<1>24. CASE ExitDestroys
  BY <1>24 DEF ExitDestroys
<1>25. ASSUME NEW w \in Routers, Routing(w) PROVE ListInv'
  BY <1>25 DEF Routing, FindRoute, FindRouteAll, Routed
<1>26. CASE RoutedToSelf
  BY <1>26 DEF RoutedToSelf
<1>27. CASE Disconnect
  BY <1>27 DEF Disconnect
<1>28. CASE DestroySession
  BY <1>28 DEF DestroySession
<1>29. CASE DestroyReturns
  BY <1>29 DEF DestroyReturns
<1>30. CASE UNCHANGED vars
  BY <1>30 DEF vars
<1>31. QED
  BY <1>1, <1>2, <1>3, <1>4, <1>5, <1>6, <1>7, <1>8, <1>9, <1>10, <1>11,
     <1>12, <1>13, <1>14, <1>15, <1>16, <1>17, <1>18, <1>19, <1>20, <1>21,
     <1>22, <1>23, <1>24, <1>25, <1>26, <1>27, <1>28, <1>29, <1>30
     DEF Next, CreatorStep, InStep, ExitStep, Waiting

-----------------------------------------------------------------------------
(* The threads and their count. *)

ThreadsIInv == TypeOK /\ CountInv /\ ThreadInv

LEMMA OneType == \A b : One(b) \in {0, 1}
BY DEF One

LEMMA CountBounds ==
    ASSUME TypeOK, CountInv
    PROVE  /\ IsFiniteSet(running) /\ Cardinality(running) \in Nat
           /\ Cardinality(running) < WORD - 1
           /\ thread_count \in Nat /\ thread_count < WORD - 1
<1>1. IsFiniteSet(running) /\ Cardinality(running) \in Nat /\ Cardinality(running) < WORD - 1
  BY RunningSize DEF TypeOK
<1>2. thread_count \in Nat
  BY Sizes DEF TypeOK
<1>3. QED
  BY <1>1, <1>2, OneType, Sizes DEF CountInv

(* A thread that ends, and is counted, leaves the count right.              *)
LEMMA EndCount ==
    ASSUME ThreadsIInv, PromptCount, NEW t, End(t), t # "exit",
           in_pc = "count" => t # "in", UNCHANGED <<uncounted, in_pc, exit_pc>>
    PROVE  CountInv'
<1>1. /\ IsFiniteSet(running) /\ Cardinality(running) \in Nat /\ thread_count \in Nat
      /\ Cardinality(running \ {t}) \in Nat
      /\ Cardinality(running \ {t}) = Cardinality(running) - 1
  BY CountBounds, Elements, FS_RemoveElement, FS_CardinalityType DEF ThreadsIInv, End
<1>2. in_pc = "count" => Cardinality(running \ {t}) # 0
  BY <1>1, FS_RemoveElement, FS_EmptySet DEF ThreadsIInv, ThreadInv
<1>3. ~uncounted /\ ~ExitLeaves
  BY DEF End, ThreadsIInv, ThreadInv
<1>4. thread_count + One(in_pc = "count") = Cardinality(running)
  BY <1>1, <1>3, OneType DEF ThreadsIInv, CountInv, One
<1>5. thread_count > 0
  BY <1>1, <1>2, <1>4 DEF One
<1>6. thread_count' = thread_count - 1
  BY <1>1, <1>5, Down DEF End
<1>7. thread_count' + One(in_pc = "count") = Cardinality(running')
  BY <1>1, <1>4, <1>6, OneType DEF End
<1>8. ~uncounted' /\ ~ExitLeaves' /\ in_pc' = in_pc
  BY <1>3 DEF ExitLeaves
<1>9. QED
  BY <1>1, <1>6, <1>7, <1>8, OneType DEF CountInv, One

(* The thread that is started next is not running.                          *)
LEMMA NextThread ==
    ASSUME TypeOK, ThreadInv, started < Len(Order)
    PROVE  Order[started + 1] \notin running /\ in_pc = "loop" /\ exit_pc = "wait"
<1>1. started \in Nat /\ started + 1 \in 1..Len(Order)
  BY OrderIs DEF TypeOK
<1>2. \A i \in 1..started : Order[i] # Order[started + 1]
  BY <1>1, OrderIs
<1>3. Order[started + 1] \notin RegThreads \cup {"exit"}
  BY <1>1, OrderIs, LifetimeAssumption
<1>4. QED
  BY <1>1, <1>2, <1>3, OrderIs DEF ThreadInv

LEMMA NextCountInv ==
    ASSUME PromptCount, ThreadsIInv, [Next]_vars
    PROVE  CountInv'
<1> USE DEF ThreadsIInv, creatorVars, threadVars, regVars, refVars, listVars
<1>1. CASE Create
  BY <1>1 DEF Create, CountInv, ExitLeaves
<1>2. CASE StartThread
  <2>1. Order[started + 1] \notin running
    BY <1>2, NextThread DEF StartThread
  <2>2. Cardinality(running') = Cardinality(running) + 1
    BY <1>2, <2>1, CountBounds, FS_AddElement DEF StartThread
  <2>3. ~uncounted /\ uncounted' /\ UNCHANGED <<thread_count, in_pc, exit_pc>>
    BY <1>2 DEF StartThread
  <2>4. QED
    BY <2>2, <2>3, CountBounds, OneType DEF CountInv, ExitLeaves, One
<1>3. CASE CountThread
  <2>1. thread_count' = thread_count + 1
    BY <1>3, CountBounds, Up DEF CountThread
  <2>2. uncounted /\ ~uncounted' /\ UNCHANGED <<running, in_pc, exit_pc>>
    BY <1>3 DEF CountThread
  <2>3. QED
    BY <2>1, <2>2, CountBounds, OneType DEF CountInv, ExitLeaves, One
<1>4. CASE Created \/ ConnectUnregistered
  BY <1>4 DEF Created, ConnectUnregistered, CountInv, ExitLeaves
<1>5. CASE Connect
  BY <1>5 DEF Connect, CountInv, ExitLeaves
<1>6. CASE Connected
  BY <1>6 DEF Connected, CountInv, ExitLeaves
<1>7. CASE LoopEnds("out") \/ LoopEnds("timeout")
  BY <1>7, EndCount DEF LoopEnds
<1>8. CASE InLost
  BY <1>8 DEF InLost, CountInv, ExitLeaves
<1>9. CASE InCount
  <2>1. thread_count' = thread_count + 1
    BY <1>9, CountBounds, Up DEF InCount
  <2>2. in_pc = "count" /\ in_pc' = "loop" /\ UNCHANGED <<running, uncounted, exit_pc>>
    BY <1>9 DEF InCount
  <2>3. QED
    BY <2>1, <2>2, CountBounds, OneType DEF CountInv, ExitLeaves, One
<1>10. CASE InStartsExit
  <2>1. "exit" \notin running
    BY <1>10 DEF InStartsExit, ThreadInv
  <2>2. Cardinality(running') = Cardinality(running) + 1
    BY <1>10, <2>1, CountBounds, FS_AddElement DEF InStartsExit
  <2>3. thread_count' = thread_count + 1
    BY <1>10, CountBounds, Up DEF InStartsExit
  <2>4. in_pc = "loop" /\ in_pc' = "end" /\ UNCHANGED <<uncounted, exit_pc>>
    BY <1>10 DEF InStartsExit, creatorVars
  <2>5. QED
    BY <2>2, <2>3, <2>4, CountBounds, OneType DEF CountInv, ExitLeaves, One
<1>11. CASE InEnds
  BY <1>11, EndCount DEF InEnds
<1>12. ASSUME NEW r \in RegThreads, InReconnected(r) PROVE CountInv'
  <2>1. r \notin running
    BY <1>12 DEF InReconnected, ThreadInv
  <2>2. Cardinality(running') = Cardinality(running) + 1
    BY <1>12, <2>1, CountBounds, FS_AddElement DEF InReconnected
  <2>3. in_pc = "loop" /\ in_pc' = "count" /\ UNCHANGED <<thread_count, uncounted, exit_pc>>
    BY <1>12 DEF InReconnected, creatorVars
  <2>4. QED
    BY <2>2, <2>3, CountBounds, OneType DEF CountInv, ExitLeaves, One
<1>13. ASSUME NEW r \in RegThreads, RegEnds(r) PROVE CountInv'
  <2>1. r # "in" /\ r # "exit"
    BY LifetimeAssumption
  <2>2. QED
    BY <1>13, <2>1, EndCount DEF RegEnds
<1>14. ASSUME NEW w \in Waiters, RegResult(w) PROVE CountInv'
  BY <1>14 DEF RegResult, CountInv, ExitLeaves
<1>15. ASSUME NEW w \in Waiters, RegSent(w) PROVE CountInv'
  BY <1>15 DEF RegSent, CountInv, ExitLeaves
<1>16. ASSUME NEW w \in Waiters, RegUnsent(w) PROVE CountInv'
  BY <1>16 DEF RegUnsent, CountInv, ExitLeaves
<1>17. ASSUME NEW w \in Waiters, RegTimeout(w) PROVE CountInv'
  BY <1>17 DEF RegTimeout, CountInv, ExitLeaves
<1>18. CASE RegNew
  BY <1>18 DEF RegNew, CountInv, ExitLeaves
<1>19. CASE RegDone
  BY <1>19 DEF RegDone, CountInv, ExitLeaves
<1>20. CASE RegLoopEnds
  BY <1>20, EndCount DEF RegLoopEnds
<1>21. CASE ExitWaits
  <2>1. ~uncounted /\ in_pc = "end" /\ exit_pc = "wait" /\ "exit" \in running /\ thread_count <= 1
    BY <1>21 DEF ExitWaits, ThreadInv
  <2>2. thread_count = Cardinality(running) /\ Cardinality(running) # 0
    BY <2>1, CountBounds, FS_EmptySet DEF CountInv, One, ExitLeaves
  <2>3. thread_count' = 0 /\ thread_count = 1
    BY <1>21, <2>1, <2>2, CountBounds, Down DEF ExitWaits
  <2>4. ExitLeaves' /\ UNCHANGED <<running, in_pc, uncounted>>
    BY <1>21 DEF ExitWaits, ExitLeaves, creatorVars
  <2>5. Cardinality(running') = 1 /\ ~uncounted' /\ in_pc' = "end"
    BY <2>1, <2>2, <2>3, <2>4
  <2>6. QED
    BY <2>3, <2>4, <2>5 DEF CountInv, One
<1>22. CASE ExitUnlists
  <2>1. ExitLeaves /\ ExitLeaves' /\ UNCHANGED <<running, thread_count, in_pc, uncounted>>
    BY <1>22 DEF ExitUnlists, ExitLeaves, creatorVars, threadVars
  <2>2. QED
    BY <2>1 DEF CountInv
<1>23. CASE ExitDrains
  <2>1. ExitLeaves /\ ExitLeaves' /\ UNCHANGED <<running, thread_count, in_pc, uncounted>>
    BY <1>23 DEF ExitDrains, ExitLeaves, creatorVars, threadVars
  <2>2. QED
    BY <2>1 DEF CountInv
<1>24. CASE ExitDestroys
  <2>1. in_pc = "end" /\ ~uncounted /\ running = {"exit"}
    BY <1>24 DEF ExitDestroys, ThreadInv, ExitLeaves
  <2>2. running' = {} /\ thread_count' = 0 /\ in_pc' = "end" /\ ~uncounted' /\ exit_pc' = "done"
    BY <1>24, <2>1 DEF ExitDestroys, creatorVars
  <2>3. Cardinality({}) = 0
    BY FS_EmptySet
  <2>4. QED
    BY <2>2, <2>3 DEF CountInv, One, ExitLeaves
<1>25. ASSUME NEW w \in Routers, Routing(w) PROVE CountInv'
  BY <1>25 DEF Routing, FindRoute, FindRouteAll, Routed, CountInv, ExitLeaves
<1>26. CASE RoutedToSelf
  BY <1>26 DEF RoutedToSelf, CountInv, ExitLeaves
<1>27. CASE Disconnect
  BY <1>27 DEF Disconnect, CountInv, ExitLeaves
<1>28. CASE DestroySession
  BY <1>28 DEF DestroySession, CountInv, ExitLeaves
<1>29. CASE DestroyReturns
  BY <1>29 DEF DestroyReturns, CountInv, ExitLeaves
<1>30. CASE UNCHANGED vars
  BY <1>30 DEF vars, CountInv, ExitLeaves
<1>31. QED
  BY <1>1, <1>2, <1>3, <1>4, <1>5, <1>6, <1>7, <1>8, <1>9, <1>10, <1>11,
     <1>12, <1>13, <1>14, <1>15, <1>16, <1>17, <1>18, <1>19, <1>20, <1>21,
     <1>22, <1>23, <1>24, <1>25, <1>26, <1>27, <1>28, <1>29, <1>30
     DEF Next, CreatorStep, InStep, ExitStep, Waiting

(* IN is the last to be started.                                            *)
LEMMA InIsLast ==
    ASSUME TypeOK, ThreadInv, "in" \in running
    PROVE  started = Len(Order)
<1>1. "in" \notin RegThreads \cup {"exit"}
  BY LifetimeAssumption
<1>2. PICK i \in 1..started : Order[i] = "in"
  BY <1>1 DEF ThreadInv
<1>3. QED
  BY <1>2, OrderIs DEF TypeOK

(* The exit thread is alone when it goes on.                                *)
LEMMA ExitIsAlone ==
    ASSUME ThreadsIInv, PromptCount, ExitWaits
    PROVE  running = {"exit"}
<1>1. ~uncounted /\ in_pc = "end" /\ exit_pc = "wait" /\ "exit" \in running /\ thread_count <= 1
  BY DEF ThreadsIInv, ExitWaits, ThreadInv
<1>2. Cardinality(running) <= 1
  BY <1>1, CountBounds DEF ThreadsIInv, CountInv, One, ExitLeaves
<1>3. /\ IsFiniteSet(running \ {"exit"})
      /\ Cardinality(running \ {"exit"}) = Cardinality(running) - 1
      /\ Cardinality(running \ {"exit"}) \in Nat
  BY <1>1, CountBounds, FS_RemoveElement, FS_CardinalityType DEF ThreadsIInv
<1>4. running \ {"exit"} = {}
  BY <1>2, <1>3, CountBounds, FS_EmptySet DEF ThreadsIInv
<1>5. QED  BY <1>1, <1>4

LEMMA NextThreadInv ==
    ASSUME PromptCount, ThreadsIInv, [Next]_vars
    PROVE  ThreadInv'
<1> USE DEF ThreadsIInv, TypeOK, ThreadInv, creatorVars, threadVars, regVars, refVars, listVars
<1>1. CASE Create
  BY <1>1 DEF Create, ExitLeaves
<1>2. CASE StartThread
  <2>1. started \in Nat /\ started + 1 \in 1..Len(Order)
    BY <1>2, OrderIs DEF StartThread
  <2>2. Order[started + 1] \notin RegThreads \cup {"exit"}
    BY <2>1, OrderIs, LifetimeAssumption
  <2>3. /\ in_pc = "loop" /\ exit_pc = "wait" /\ "exit" \notin running
        /\ UNCHANGED <<in_pc, exit_pc, signal>>
    BY <1>2, NextThread DEF StartThread
  <2>4. running' \subseteq {Order[i] : i \in 1..started'} \cup RegThreads \cup {"exit"}
    BY <1>2, <2>1 DEF StartThread
  <2>5. QED
    BY <1>2, <2>2, <2>3, <2>4 DEF StartThread, ExitLeaves
<1>3. CASE CountThread
  BY <1>3 DEF CountThread, ExitLeaves
<1>4. CASE Created \/ ConnectUnregistered
  BY <1>4 DEF Created, ConnectUnregistered, ExitLeaves
<1>5. CASE Connect
  BY <1>5 DEF Connect, ExitLeaves
<1>6. CASE Connected
  BY <1>6 DEF Connected, ExitLeaves
<1>7. CASE LoopEnds("out") \/ LoopEnds("timeout")
  BY <1>7 DEF LoopEnds, End, ExitLeaves
<1>8. CASE InLost
  BY <1>8 DEF InLost, ExitLeaves
<1>9. CASE InCount
  BY <1>9 DEF InCount, ExitLeaves
<1>10. CASE InStartsExit
  <2>1. started = Len(Order) /\ started' = started /\ exit_pc = "wait" /\ exit_pc' = "wait"
    BY <1>10, InIsLast DEF InStartsExit
  <2>2. \A r \in RegThreads : r # "exit"
    BY LifetimeAssumption
  <2>3. QED
    BY <1>10, <2>1, <2>2 DEF InStartsExit, ExitLeaves
<1>11. CASE InEnds
  BY <1>11 DEF InEnds, End, ExitLeaves
<1>12. ASSUME NEW r \in RegThreads, InReconnected(r) PROVE ThreadInv'
  <2>1. started = Len(Order) /\ started' = started
    BY <1>12, InIsLast DEF InReconnected
  <2>2. exit_pc = "wait" /\ exit_pc' = "wait" /\ "exit" \notin running /\ r # "exit"
    BY <1>12, LifetimeAssumption DEF InReconnected
  <2>3. \A q \in RegThreads : signal'[q] = "none" => q # r /\ signal[q] = "none"
    BY <1>12, Members DEF InReconnected
  <2>4. QED
    BY <1>12, <2>1, <2>2, <2>3 DEF InReconnected, ExitLeaves
<1>13. ASSUME NEW r \in RegThreads, RegEnds(r) PROVE ThreadInv'
  <2>1. \A q \in RegThreads : signal'[q] = "none" => signal[q] = "none"
    BY <1>13, Members DEF RegEnds
  <2>2. ~ExitLeaves /\ exit_pc # "done" /\ UNCHANGED <<exit_pc, in_pc, uncounted, started>>
    BY <1>13, LifetimeAssumption DEF RegEnds, End, ExitLeaves
  <2>3. r # "in" /\ running' = running \ {r}
    BY <1>13, LifetimeAssumption DEF RegEnds, End
  <2>4. QED
    BY <1>13, <2>1, <2>2, <2>3 DEF ExitLeaves
<1>14. ASSUME NEW w \in Waiters, RegResult(w) PROVE ThreadInv'
  BY <1>14 DEF RegResult, ExitLeaves
<1>15. ASSUME NEW w \in Waiters, RegSent(w) PROVE ThreadInv'
  BY <1>15 DEF RegSent, ExitLeaves
<1>16. ASSUME NEW w \in Waiters, RegUnsent(w) PROVE ThreadInv'
  BY <1>16 DEF RegUnsent, ExitLeaves
<1>17. ASSUME NEW w \in Waiters, RegTimeout(w) PROVE ThreadInv'
  BY <1>17 DEF RegTimeout, ExitLeaves
<1>18. CASE RegNew
  BY <1>18 DEF RegNew, ExitLeaves
<1>19. CASE RegDone
  BY <1>19 DEF RegDone, ExitLeaves
<1>20. CASE RegLoopEnds
  BY <1>20 DEF RegLoopEnds, End, ExitLeaves
<1>21. CASE ExitWaits
  <2>1. running = {"exit"} /\ in_pc = "end" /\ ~uncounted
    BY <1>21, ExitIsAlone DEF ExitWaits
  <2>2. exit_pc' = "remove" /\ UNCHANGED <<running, in_pc, uncounted, started, signal>>
    BY <1>21 DEF ExitWaits
  <2>3. QED
    BY <2>1, <2>2 DEF ExitLeaves
<1>22. CASE ExitUnlists
  BY <1>22 DEF ExitUnlists, ExitLeaves
<1>23. CASE ExitDrains
  BY <1>23 DEF ExitDrains, ExitLeaves
<1>24. CASE ExitDestroys
  BY <1>24 DEF ExitDestroys, ExitLeaves
<1>25. ASSUME NEW w \in Routers, Routing(w) PROVE ThreadInv'
  BY <1>25 DEF Routing, FindRoute, FindRouteAll, Routed, ExitLeaves
<1>26. CASE RoutedToSelf
  BY <1>26 DEF RoutedToSelf, ExitLeaves
<1>27. CASE Disconnect
  BY <1>27 DEF Disconnect, ExitLeaves
<1>28. CASE DestroySession
  BY <1>28 DEF DestroySession, ExitLeaves
<1>29. CASE DestroyReturns
  BY <1>29 DEF DestroyReturns, ExitLeaves
<1>30. CASE UNCHANGED vars
  BY <1>30 DEF vars, ExitLeaves
<1>31. QED
  BY <1>1, <1>2, <1>3, <1>4, <1>5, <1>6, <1>7, <1>8, <1>9, <1>10, <1>11,
     <1>12, <1>13, <1>14, <1>15, <1>16, <1>17, <1>18, <1>19, <1>20, <1>21,
     <1>22, <1>23, <1>24, <1>25, <1>26, <1>27, <1>28, <1>29, <1>30
     DEF Next, CreatorStep, InStep, ExitStep, Waiting

-----------------------------------------------------------------------------
(* The references. *)

RefsIInv == TypeOK /\ ListInv /\ RefInv

LEMMA RefBounds ==
    ASSUME TypeOK, RefInv
    PROVE  /\ IsFiniteSet(holders) /\ Cardinality(holders) \in Nat
           /\ Cardinality(holders) < WORD - 2
           /\ ref_counter \in Nat /\ ref_counter < WORD - 1
<1>1. IsFiniteSet(holders) /\ Cardinality(holders) \in Nat /\ Cardinality(holders) < WORD - 2
  BY HoldersSize DEF TypeOK
<1>2. QED
  BY <1>1, OneType, Sizes DEF TypeOK, RefInv

LEMMA NextRefInv ==
    ASSUME ~DestinationAll, ~SameType, RefsIInv, [Next]_vars
    PROVE  RefInv'
<1> USE DEF RefsIInv, creatorVars, threadVars, regVars, refVars, listVars
<1>1. CASE Create
  <2>1. client = "none" /\ client' \in {"unlisted", "listed"}
        /\ UNCHANGED <<exit_pc, ref_counter, holders, borrowers>>
    BY <1>1 DEF Create, ListInv, threadVars, refVars
  <2>2. QED
    BY <2>1 DEF RefInv, One
<1>2. CASE StartThread
  BY <1>2 DEF StartThread, RefInv
<1>3. CASE CountThread
  BY <1>3 DEF CountThread, RefInv
<1>4. CASE Created \/ ConnectUnregistered
  <2>1. \/ client \notin {"removed", "freed"} /\ client' \notin {"removed", "freed"}
        \/ client' = client
    BY <1>4 DEF Created, ConnectUnregistered, ListInv, listVars
  <2>2. UNCHANGED <<exit_pc, ref_counter, holders, borrowers>>
    BY <1>4 DEF Created, ConnectUnregistered, threadVars, refVars
  <2>3. QED
    BY <2>1, <2>2 DEF RefInv, One
<1>5. CASE Connect
  BY <1>5 DEF Connect, RefInv
<1>6. CASE Connected
  <2>1. \/ client \notin {"removed", "freed"} /\ client' \notin {"removed", "freed"}
        \/ client' = client
    BY <1>6 DEF Connected, ListInv, listVars
  <2>2. UNCHANGED <<exit_pc, ref_counter, holders, borrowers>>
    BY <1>6 DEF Connected, threadVars, refVars
  <2>3. QED
    BY <2>1, <2>2 DEF RefInv, One
<1>7. CASE LoopEnds("out") \/ LoopEnds("timeout")
  BY <1>7 DEF LoopEnds, End, RefInv
<1>8. CASE InLost
  BY <1>8 DEF InLost, RefInv
<1>9. CASE InCount
  BY <1>9 DEF InCount, RefInv
<1>10. CASE InStartsExit
  BY <1>10 DEF InStartsExit, RefInv
<1>11. CASE InEnds
  BY <1>11 DEF InEnds, End, RefInv
<1>12. ASSUME NEW r \in RegThreads, InReconnected(r) PROVE RefInv'
  BY <1>12 DEF InReconnected, RefInv
<1>13. ASSUME NEW r \in RegThreads, RegEnds(r) PROVE RefInv'
  BY <1>13 DEF RegEnds, End, RefInv
<1>14. ASSUME NEW w \in Waiters, RegResult(w) PROVE RefInv'
  BY <1>14 DEF RegResult, RefInv
<1>15. ASSUME NEW w \in Waiters, RegSent(w) PROVE RefInv'
  BY <1>15 DEF RegSent, RefInv
<1>16. ASSUME NEW w \in Waiters, RegUnsent(w) PROVE RefInv'
  BY <1>16 DEF RegUnsent, RefInv
<1>17. ASSUME NEW w \in Waiters, RegTimeout(w) PROVE RefInv'
  BY <1>17 DEF RegTimeout, RefInv
<1>18. CASE RegNew
  BY <1>18 DEF RegNew, RefInv
<1>19. CASE RegDone
  BY <1>19 DEF RegDone, RefInv
<1>20. CASE RegLoopEnds
  BY <1>20 DEF RegLoopEnds, End, RefInv
<1>21. CASE ExitWaits
  BY <1>21 DEF ExitWaits, RefInv
<1>22. CASE ExitUnlists
  <2>1. client = "listed" /\ client' = "removed" /\ UNCHANGED <<holders, borrowers>>
    BY <1>22 DEF ExitUnlists
  <2>2. ref_counter = Cardinality(holders) + 1 /\ ref_counter > 0
    BY <2>1, RefBounds DEF RefInv, One
  <2>3. ref_counter' = Cardinality(holders)
    BY <1>22, <2>2, RefBounds, Down DEF ExitUnlists
  <2>4. exit_pc' \in {"drained", "done"} => holders = {}
    BY <1>22, <2>3, RefBounds, FS_EmptySet DEF ExitUnlists
  <2>5. QED
    BY <2>1, <2>3, <2>4, RefBounds DEF RefInv, One
<1>23. CASE ExitDrains
  <2>1. client = "removed" /\ UNCHANGED <<client, holders, borrowers, ref_counter>>
    BY <1>23 DEF ExitDrains, ListInv
  <2>2. Cardinality(holders) = 0
    BY <1>23, <2>1, RefBounds DEF ExitDrains, RefInv, One
  <2>3. holders = {}
    BY <2>2, RefBounds, FS_EmptySet
  <2>4. QED
    BY <2>1, <2>3 DEF RefInv
<1>24. CASE ExitDestroys
  <2>1. exit_pc = "drained" /\ client = "removed" /\ client' = "freed"
        /\ UNCHANGED <<ref_counter, holders, borrowers>>
    BY <1>24 DEF ExitDestroys, ListInv, refVars
  <2>2. QED
    BY <2>1 DEF RefInv, One
<1>25. ASSUME NEW w \in Routers, Routing(w) PROVE RefInv'
  <2>1. CASE FindRoute(w)
    <3>1. w \notin holders /\ holders' = holders \cup {w} /\ client = "listed"
          /\ UNCHANGED <<client, exit_pc, borrowers>>
      BY <2>1 DEF FindRoute, Routable
    <3>2. Cardinality(holders') = Cardinality(holders) + 1
      BY <3>1, RefBounds, FS_AddElement
    <3>3. ref_counter' = ref_counter + 1
      BY <2>1, RefBounds, Up DEF FindRoute
    <3>4. exit_pc \notin {"drained", "done"}
      BY <3>1 DEF ListInv
    <3>5. QED
      BY <3>1, <3>2, <3>3, <3>4, RefBounds DEF RefInv, One
  <2>2. CASE Routed(w)
    <3>1. w \in holders /\ holders' = holders \ {w} /\ borrowers' = {}
          /\ UNCHANGED <<client, exit_pc>>
      BY <2>2 DEF Routed, RefInv
    <3>2. Cardinality(holders') = Cardinality(holders) - 1 /\ Cardinality(holders') \in Nat
      BY <3>1, RefBounds, FS_RemoveElement, FS_CardinalityType
    <3>3. ref_counter > 0
      BY <3>2, RefBounds, OneType DEF RefInv
    <3>4. ref_counter' = ref_counter - 1
      BY <2>2, <3>3, RefBounds, Down DEF Routed
    <3>5. QED
      BY <3>1, <3>2, <3>4, RefBounds, OneType DEF RefInv
  <2>3. ~FindRouteAll(w)
    BY DEF FindRouteAll
  <2>4. QED
    BY <1>25, <2>1, <2>2, <2>3 DEF Routing
<1>26. CASE RoutedToSelf
  BY <1>26 DEF RoutedToSelf
<1>27. CASE Disconnect
  BY <1>27 DEF Disconnect, RefInv
<1>28. CASE DestroySession
  BY <1>28 DEF DestroySession, RefInv
<1>29. CASE DestroyReturns
  BY <1>29 DEF DestroyReturns, RefInv
<1>30. CASE UNCHANGED vars
  BY <1>30 DEF vars, RefInv
<1>31. QED
  BY <1>1, <1>2, <1>3, <1>4, <1>5, <1>6, <1>7, <1>8, <1>9, <1>10, <1>11,
     <1>12, <1>13, <1>14, <1>15, <1>16, <1>17, <1>18, <1>19, <1>20, <1>21,
     <1>22, <1>23, <1>24, <1>25, <1>26, <1>27, <1>28, <1>29, <1>30
     DEF Next, CreatorStep, InStep, ExitStep, Waiting

-----------------------------------------------------------------------------
(* Theorems. *)

(* The state keeps its types: the counters are counters of a word even when *)
(* they wrap.                                                               *)
THEOREM TypeCorrect == Spec => []TypeOK
BY InitTypeOK, NextTypeOK, PTL DEF Spec

(* An object is on the list, freed and counted in the session as its own    *)
(* threads and its creator believe it to be (ListInv), whatever goes wrong. *)
THEOREM ListInvariance == Spec => []ListInv
BY InitListInv, NextListInv, PTL DEF Spec

(* The count of the threads is exact (CountInv), once they are counted in   *)
(* time: this is what exit_loop and the destructor rely on.                 *)
THEOREM ThreadsInvariance ==
    ASSUME PromptCount
    PROVE  Spec => []ThreadsIInv
<1>1. Init => ThreadsIInv
  <2>1. Init => CountInv
    BY FS_EmptySet DEF Init, CountInv, One, ExitLeaves
  <2>2. Init => ThreadInv
    BY DEF Init, ThreadInv, ExitLeaves
  <2>3. QED
    BY <2>1, <2>2, InitTypeOK DEF ThreadsIInv
<1>2. ThreadsIInv /\ [Next]_vars => ThreadsIInv'
  BY NextTypeOK, NextCountInv, NextThreadInv DEF ThreadsIInv
<1>3. QED  BY <1>1, <1>2, PTL DEF Spec

(* A client is destroyed after the last of its threads has ended, however   *)
(* many reconnections have started one (exit_loop, ~R14PClient).            *)
THEOREM ThreadsEndFirst ==
    ASSUME PromptCount
    PROVE  Spec => []NoThreadOutlives
<1>1. ThreadsIInv /\ ListInv => NoThreadOutlives
  BY DEF ThreadsIInv, ThreadInv, ListInv, NoThreadOutlives
<1>2. QED  BY <1>1, ThreadsInvariance, ListInvariance, PTL

(* destroy_session deletes the session after its client and the client's    *)
(* threads, even one that was accepted too late.                            *)
THEOREM SessionEndsLast ==
    ASSUME PromptCount
    PROVE  Spec => []SessionOutlives
<1>1. ThreadsIInv /\ ListInv => SessionOutlives
  <2> SUFFICES ASSUME ThreadsIInv, ListInv, session = "gone"
               PROVE  client \in {"none", "freed"} /\ running = {}
    BY DEF SessionOutlives
  <2>1. client \in {"none", "freed"}
    BY DEF ThreadsIInv, TypeOK, ListInv
  <2>2. CASE client = "freed"
    BY <2>2 DEF ThreadsIInv, ThreadInv, ListInv
  <2>3. CASE client = "none"
    BY <2>3 DEF ThreadsIInv, ThreadInv, ListInv
  <2>4. QED  BY <2>1, <2>2, <2>3
<1>2. QED  BY <1>1, ThreadsInvariance, ListInvariance, PTL

(* A client is destroyed after the last router has let it go, however many  *)
(* there are, as long as references are what find_route takes               *)
(* (remove_client).                                                         *)
THEOREM RoutesEndFirst ==
    ASSUME ~DestinationAll, ~SameType
    PROVE  Spec => []NoRouteOutlives
<1>1. Init => RefsIInv
  <2>1. Init => RefInv
    BY FS_EmptySet DEF Init, RefInv, One
  <2>2. QED
    BY <2>1, InitTypeOK, InitListInv DEF RefsIInv
<1>2. RefsIInv /\ [Next]_vars => RefsIInv'
  BY NextTypeOK, NextListInv, NextRefInv DEF RefsIInv
<1>3. RefsIInv => NoRouteOutlives
  BY DEF RefsIInv, RefInv, ListInv, NoRouteOutlives
<1>4. QED  BY <1>1, <1>2, <1>3, PTL DEF Spec

=============================================================================
