------------------------------ MODULE WRRProofs ------------------------------
(***************************************************************************)
(* Proofs about WRR, for any number of nodes, clients and weights: first   *)
(* what its recursive functions compute (gcd, the fold of it over the      *)
(* weights, and the table after k packets), then what each operation does  *)
(* to a table, then what the items of a table are given by run() packet by *)
(* packet, then the invariant of the table and its clients, and last the   *)
(* shares of a table that has only grown.                                  *)
(***************************************************************************)
EXTENDS WRR, FiniteSetTheorems, WellFoundedInduction, TLAPS

-----------------------------------------------------------------------------
(* Induction takes the form of the least counterexample. *)
LEMMA LeastIs ==
    ASSUME NEW S \in SUBSET Nat, S # {}
    PROVE  \E x \in S : \A y \in S : x <= y
<1>1. PICK x \in S : \A y \in S : ~(<<y, x>> \in OpToRel(<, Nat))
  BY NatLessThanWellFounded, WFMin
<1>2. \A y \in S : ~(y < x)
  BY <1>1 DEF OpToRel
<1>3. QED  BY <1>2

(* A bounded set of numbers has a maximum, a set of numbers a minimum. *)
LEMMA MaxIs ==
    ASSUME NEW n \in Nat, NEW K \in SUBSET (0..n), K # {}
    PROVE  Max(K) \in K /\ \A k \in K : k <= Max(K)
<1> DEFINE D == {n - k : k \in K}
<1>1. D \in SUBSET Nat /\ D # {}
  <2>1. ASSUME NEW k \in K PROVE n - k \in Nat
    <3>1. k \in 0..n
      OBVIOUS
    <3>2. QED  BY <3>1
  <2>2. QED  BY <2>1
<1>2. PICK x \in D : \A y \in D : x <= y
  BY <1>1, LeastIs
<1>3. PICK m \in K : x = n - m
  OBVIOUS
<1>4. m \in 0..n /\ K \subseteq 0..n
  OBVIOUS
<1>5. \A k \in K : m >= k
  <2> SUFFICES ASSUME NEW k \in K PROVE m >= k
    OBVIOUS
  <2>1. n - m <= n - k
    BY <1>2, <1>3
  <2>2. QED  BY <1>4, <2>1
<1>6. Max(K) \in K /\ \A k \in K : Max(K) >= k
  BY <1>5 DEF Max
<1>7. QED  BY <1>4, <1>6

LEMMA MinIs ==
    ASSUME NEW K \in SUBSET Nat, K # {}
    PROVE  Min(K) \in K /\ \A k \in K : Min(K) <= k
<1>1. PICK x \in K : \A y \in K : x <= y
  BY LeastIs
<1>2. QED  BY <1>1 DEF Min

\* d divides x.
Divides(d, x) == \E q \in Nat : x = q * d

CommonDivisors(m, n) == {d \in 1..n : Divides(d, m) /\ Divides(d, n)}

(* Division with a rest, and what it keeps of the divisors. *)
LEMMA RestIs ==
    ASSUME NEW m \in Nat, NEW n \in Nat, n > 0
    PROVE  /\ m = n * (m \div n) + (m % n)
           /\ m \div n \in Nat /\ m % n \in 0..(n - 1)
OBVIOUS

LEMMA RestDivides ==
    ASSUME NEW m \in Nat, NEW n \in Nat, n > 0, NEW d \in Nat, d > 0, Divides(d, n)
    PROVE  Divides(d, m) <=> Divides(d, m % n)
<1> DEFINE q == m \div n
           r == m % n
<1>1. m = n * q + r /\ q \in Nat /\ r \in Nat
  BY RestIs
<1>2. PICK b \in Nat : n = b * d
  BY DEF Divides
<1> HIDE DEF q, r
<1>3. m = b * q * d + r
  BY <1>1, <1>2
<1>4. ASSUME NEW c \in Nat, r = c * d PROVE Divides(d, m)
  <2>1. m = (b * q + c) * d /\ b * q + c \in Nat
    BY <1>1, <1>3, <1>4
  <2>2. QED  BY <2>1 DEF Divides
<1>5. ASSUME NEW a \in Nat, m = a * d PROVE Divides(d, r)
  <2> DEFINE c == a - b * q
  <2>1. c \in Int
    BY <1>1
  <2>2. r = c * d
    BY <1>1, <1>3, <1>5
  <2> HIDE DEF c
  <2>3. c >= 0
    BY <1>1, <2>1, <2>2
  <2>4. QED  BY <2>1, <2>2, <2>3 DEF Divides
<1>6. QED  BY <1>4, <1>5 DEF Divides, r

LEMMA DivisorBound ==
    ASSUME NEW d \in Nat, d > 0, NEW x \in Nat, x > 0, Divides(d, x)
    PROVE  d <= x
<1>1. PICK q \in Nat : x = q * d
  BY DEF Divides
<1>2. q >= 1
  BY <1>1
<1>3. q * d >= d
  BY <1>2
<1>4. QED  BY <1>1, <1>3

LEMMA RestHasSame ==
    ASSUME NEW m \in Nat, NEW n \in Nat, n > 0, m % n > 0
    PROVE  CommonDivisors(n, m % n) = CommonDivisors(m, n)
<1> DEFINE r == m % n
<1>1. r \in Nat /\ r > 0 /\ r < n
  BY RestIs
<1>2. ASSUME NEW d \in 1..n, Divides(d, n) PROVE Divides(d, m) <=> Divides(d, r)
  BY <1>2, RestDivides
<1>3. ASSUME NEW d \in 1..n, Divides(d, r) PROVE d <= r
  BY <1>1, <1>3, DivisorBound
<1> HIDE DEF r
<1>4. QED  BY <1>1, <1>2, <1>3 DEF CommonDivisors, r

(* A common divisor of m and n is at most n, so there is a greatest. *)
LEMMA CommonDivisorsMax ==
    ASSUME NEW m \in Nat, NEW n \in Nat, n > 0
    PROVE  /\ Max(CommonDivisors(m, n)) \in CommonDivisors(m, n)
           /\ m % n = 0 => Max(CommonDivisors(m, n)) = n
<1> DEFINE D == CommonDivisors(m, n)
<1>1. n = 1 * n /\ m = m * 1 /\ n = n * 1
  OBVIOUS
<1>2. Divides(n, n) /\ Divides(1, m) /\ Divides(1, n)
  BY <1>1 DEF Divides
<1>3. D \in SUBSET (0..n) /\ 1 \in D
  BY <1>2 DEF CommonDivisors
<1>4. Max(D) \in D /\ \A d \in D : d <= Max(D)
  BY <1>3, MaxIs
<1>5. ASSUME m % n = 0 PROVE Max(D) = n
  <2>1. 0 = 0 * n
    OBVIOUS
  <2>2. Divides(n, m % n)
    BY <1>5, <2>1 DEF Divides
  <2>3. n \in D
    <3>1. Divides(n, m)
      BY <1>2, <2>2, RestDivides
    <3>2. QED  BY <1>2, <3>1 DEF CommonDivisors
  <2>4. Max(D) \in 0..n /\ n <= Max(D)
    BY <1>3, <1>4, <2>3
  <2>5. QED  BY <2>4
<1>6. QED  BY <1>4, <1>5

(* The reference definition: the greatest of the common divisors. *)
Greatest(m, n) == IF n = 0 THEN m ELSE Max(CommonDivisors(m, n))

(* It takes the step of gcd. *)
LEMMA GreatestSteps ==
    ASSUME NEW m \in Nat, NEW n \in Nat, n > 0
    PROVE  m % n \in Nat /\ m % n < n /\ Greatest(m, n) = Greatest(n, m % n)
<1>1. m % n \in 0..(n - 1)
  BY RestIs
<1>2. CASE m % n = 0
  BY <1>1, <1>2, CommonDivisorsMax DEF Greatest
<1>3. CASE m % n > 0
  BY <1>1, <1>3, RestHasSame DEF Greatest
<1>4. QED  BY <1>1, <1>2, <1>3

(* The function that gcd chooses exists. *)
LEMMA GcdIs ==
    \A m, n \in Nat : gcd[<<m, n>>] = IF n = 0 THEN m ELSE gcd[<<n, m % n>>]
<1> DEFINE IsGcd(g) == g = [p \in Nat \X Nat |-> IF p[2] = 0 THEN p[1]
                                                ELSE g[<<p[2], p[1] % p[2]>>]]
           h == [p \in Nat \X Nat |-> Greatest(p[1], p[2])]
<1>1. gcd = CHOOSE g : IsGcd(g)
  BY DEF gcd
<1>2. IsGcd(h)
  <2>1. \A m, n \in Nat : h[<<m, n>>] = Greatest(m, n)
    OBVIOUS
  <2>2. \A m, n \in Nat : Greatest(m, n) = IF n = 0 THEN m ELSE h[<<n, m % n>>]
    BY <2>1, GreatestSteps DEF Greatest
  <2>3. \A p \in Nat \X Nat : Greatest(p[1], p[2]) = IF p[2] = 0 THEN p[1]
                                                      ELSE h[<<p[2], p[1] % p[2]>>]
    BY <2>2
  <2>4. QED  BY <2>3
<1> HIDE DEF h
<1>3. \E g : IsGcd(g)
  BY <1>2
<1> HIDE DEF IsGcd
<1>4. IsGcd(gcd)
  BY <1>1, <1>3
<1>5. gcd = [p \in Nat \X Nat |-> IF p[2] = 0 THEN p[1] ELSE gcd[<<p[2], p[1] % p[2]>>]]
  BY <1>4 DEF IsGcd
<1>6. QED  BY <1>5

(* WRR::gcd is the greatest common divisor: Euclid's recursion ends, with  *)
(* the rest it is called with always smaller, and keeps the divisors.      *)
THEOREM GcdIsGreatest == \A m, n \in Nat : gcd[<<m, n>>] = Greatest(m, n)
<1> DEFINE B == {n \in Nat : \E m \in Nat : gcd[<<m, n>>] # Greatest(m, n)}
<1>1. CASE B = {}
  BY <1>1
<1>2. CASE B # {}
  <2>1. PICK n \in B : \A k \in B : n <= k
    BY <1>2, LeastIs
  <2>2. PICK m \in Nat : gcd[<<m, n>>] # Greatest(m, n)
    OBVIOUS
  <2>3. n \in Nat /\ n > 0
    <3>1. n \in Nat
      OBVIOUS
    <3>2. n # 0
      BY <2>2, GcdIs DEF Greatest
    <3>3. QED  BY <3>1, <3>2
  <2>4. m % n \in Nat /\ m % n < n /\ Greatest(m, n) = Greatest(n, m % n)
    BY <2>3, GreatestSteps
  <2>5. m % n \notin B
    BY <2>1, <2>3, <2>4
  <2>6. gcd[<<m, n>>] = gcd[<<n, m % n>>]
    BY <2>3, GcdIs
  <2>7. gcd[<<n, m % n>>] = Greatest(n, m % n)
    BY <2>3, <2>4, <2>5
  <2>8. QED  BY <2>2, <2>4, <2>6, <2>7
<1>3. QED  BY <1>1, <1>2

(* Divisors of a divisor. *)
LEMMA DividesThrough ==
    ASSUME NEW a \in Nat, NEW b, NEW c, Divides(a, b), Divides(b, c)
    PROVE  Divides(a, c)
<1>1. PICK p \in Nat : b = p * a
  BY DEF Divides
<1>2. PICK q \in Nat : c = q * b
  BY DEF Divides
<1>3. c = (q * p) * a /\ q * p \in Nat
  BY <1>1, <1>2
<1>4. QED  BY <1>3 DEF Divides

(* Each number divides itself and 0, and 0 divides only 0. *)
LEMMA Dividing ==
    ASSUME NEW d \in Nat
    PROVE  /\ Divides(d, d) /\ Divides(d, 0)
           /\ \A x \in Nat : Divides(0, x) => x = 0
<1>1. d = 1 * d /\ 0 = 0 * d
  OBVIOUS
<1>2. \A x \in Nat : Divides(0, x) => x = 0
  BY DEF Divides
<1>3. QED  BY <1>1, <1>2 DEF Divides

(* gcd divides both of its numbers. *)
LEMMA GcdDivides ==
    ASSUME NEW m \in Nat, NEW n \in Nat
    PROVE  /\ gcd[<<m, n>>] \in Nat
           /\ Divides(gcd[<<m, n>>], m) /\ Divides(gcd[<<m, n>>], n)
<1>1. CASE n = 0
  <2>1. gcd[<<m, n>>] = m
    BY <1>1, GcdIs
  <2>2. QED  BY <1>1, <2>1, Dividing
<1>2. CASE n > 0
  <2>1. gcd[<<m, n>>] \in CommonDivisors(m, n)
    BY <1>2, GcdIsGreatest, CommonDivisorsMax DEF Greatest
  <2>2. QED  BY <2>1 DEF CommonDivisors
<1>3. QED  BY <1>1, <1>2

(* What divides both numbers divides their gcd. *)
LEMMA GcdIsMultiple ==
    ASSUME NEW d \in Nat, d > 0
    PROVE  \A m, n \in Nat : Divides(d, m) /\ Divides(d, n) => Divides(d, gcd[<<m, n>>])
<1> DEFINE Good(n) == \A m \in Nat : Divides(d, m) /\ Divides(d, n) => Divides(d, gcd[<<m, n>>])
           B == {n \in Nat : ~Good(n)}
<1>1. SUFFICES ASSUME B # {} PROVE FALSE
  OBVIOUS
<1>2. PICK n \in B : \A k \in B : n <= k
  BY <1>1, LeastIs
<1>3. PICK m \in Nat : Divides(d, m) /\ Divides(d, n) /\ ~Divides(d, gcd[<<m, n>>])
  OBVIOUS
<1>4. n \in Nat
  OBVIOUS
<1>5. n > 0
  <2>1. n = 0 => gcd[<<m, n>>] = m
    BY <1>4, GcdIs
  <2>2. QED  BY <1>3, <1>4, <2>1
<1>6. gcd[<<m, n>>] = gcd[<<n, m % n>>]
  BY <1>4, <1>5, GcdIs
<1>7. m % n \in Nat /\ m % n < n
  BY <1>4, <1>5, RestIs
<1>8. Divides(d, m % n)
  BY <1>3, <1>4, <1>5, RestDivides
<1>9. Good(m % n)
  <2> HIDE DEF Good
  <2>1. m % n \notin B
    BY <1>2, <1>4, <1>7
  <2>2. QED  BY <1>7, <2>1
<1>10. QED  BY <1>3, <1>4, <1>6, <1>8, <1>9

-----------------------------------------------------------------------------
(* The recursion by which FoldLeft combines the weights at the positions S. *)
FoldOver(iter, g, weights, S) ==
    iter = [s \in SUBSET S |-> IF s = {} THEN g ELSE gcd[<<iter[s \ {Max(s)}], weights[Max(s)]>>]]

(* GcdOf is what its fold over the weights is defined to be. *)
LEMMA GcdOfIs ==
    ASSUME NEW weights, weights # <<>>
    PROVE  GcdOf(weights) =
             (CHOOSE iter : FoldOver(iter, Head(weights), Tail(weights), DOMAIN Tail(weights)))
                 [DOMAIN Tail(weights)]
BY Zenon DEF GcdOf, FoldLeft, MapThenFoldSet, FoldOver

LEMMA WithoutMax ==
    ASSUME NEW k \in Nat, k > 0, NEW s \in SUBSET (1..k), s # {}
    PROVE  /\ Max(s) \in s /\ Max(s) \in 1..k
           /\ s \ {Max(s)} \in SUBSET (1..(k - 1))
<1>1. s \in SUBSET (0..k)
  OBVIOUS
<1>2. Max(s) \in s /\ \A i \in s : i <= Max(s)
  BY <1>1, MaxIs
<1>3. ASSUME NEW i \in s \ {Max(s)} PROVE i \in 1..(k - 1)
  <2>1. i \in 1..k /\ Max(s) \in 1..k /\ i <= Max(s) /\ i # Max(s)
    BY <1>2
  <2>2. QED  BY <2>1
<1>4. QED  BY <1>2, <1>3

(* There is such a function, so the one chosen is it. *)
LEMMA FoldExists ==
    ASSUME NEW g, NEW weights, NEW n \in Nat
    PROVE  \E iter : FoldOver(iter, g, weights, 1..n)
<1> DEFINE Q == {k \in Nat : ~\E iter : FoldOver(iter, g, weights, 1..k)}
<1> SUFFICES ASSUME Q # {} PROVE FALSE
  OBVIOUS
<1>1. PICK k \in Q : \A j \in Q : k <= j
  BY LeastIs
<1>2. CASE k = 0
  <2> DEFINE iter == [s \in SUBSET (1..0) |-> g]
  <2>1. FoldOver(iter, g, weights, 1..0)
    <3>1. \A s \in SUBSET (1..0) : s = {}
      OBVIOUS
    <3>2. QED  BY <3>1 DEF FoldOver
  <2>2. QED  BY <1>2, <2>1
<1>3. CASE k # 0
  <2>1. k \in Nat /\ k > 0 /\ k - 1 \in Nat /\ k - 1 < k
    BY <1>3
  <2>2. k - 1 \notin Q
    BY <1>1, <2>1
  <2>3. PICK f : FoldOver(f, g, weights, 1..(k - 1))
    BY <2>1, <2>2
  <2> DEFINE Value(s) == IF s = {} THEN g ELSE gcd[<<f[s \ {Max(s)}], weights[Max(s)]>>]
             iter == [s \in SUBSET (1..k) |-> Value(s)]
  <2>4. \A s \in SUBSET (1..(k - 1)) : f[s] = Value(s)
    BY <2>3 DEF FoldOver
  <2>5. \A s \in SUBSET (1..(k - 1)) : s \in SUBSET (1..k)
    BY <2>1
  <2>6. \A s \in SUBSET (1..(k - 1)) : iter[s] = f[s]
    BY <2>4, <2>5
  <2>7. \A s \in SUBSET (1..k) : s # {} => iter[s \ {Max(s)}] = f[s \ {Max(s)}]
    BY <2>1, <2>6, WithoutMax
  <2> HIDE DEF iter
  <2>8. \A s \in SUBSET (1..k) :
            Value(s) = IF s = {} THEN g ELSE gcd[<<iter[s \ {Max(s)}], weights[Max(s)]>>]
    BY <2>7
  <2>9. FoldOver(iter, g, weights, 1..k)
    BY <2>8 DEF FoldOver, iter
  <2>10. QED  BY <2>9
<1>4. QED  BY <1>2, <1>3

(* The fold is the greatest common divisor of what it was made of. *)
FoldDivides(x, g, weights, s) ==
    /\ x \in Nat
    /\ Divides(x, g)
    /\ \A i \in s : Divides(x, weights[i])
    /\ \A d \in Nat \ {0} :
          Divides(d, g) /\ (\A i \in s : Divides(d, weights[i])) => Divides(d, x)

(* The fold of gcd over the weights is a common divisor of them that every *)
(* common divisor divides.                                                 *)
LEMMA FoldsDivide ==
    ASSUME NEW g \in Nat, NEW n \in Nat, NEW weights \in [1..n -> Nat],
           NEW iter, FoldOver(iter, g, weights, 1..n)
    PROVE  FoldDivides(iter[1..n], g, weights, 1..n)
<1> DEFINE Q == {k \in 0..n : ~\A s \in SUBSET (1..k) : FoldDivides(iter[s], g, weights, s)}
<1>1. CASE Q = {}
  <2>1. n \in 0..n
    OBVIOUS
  <2>2. \A s \in SUBSET (1..n) : FoldDivides(iter[s], g, weights, s)
    BY <1>1, <2>1
  <2>3. QED  BY <2>2
<1>2. CASE Q # {}
  <2>1. PICK k \in Q : \A j \in Q : k <= j
    <3>1. Q \in SUBSET Nat
      OBVIOUS
    <3>2. QED  BY <1>2, <3>1, LeastIs
  <2>2. PICK s \in SUBSET (1..k) : ~FoldDivides(iter[s], g, weights, s)
    OBVIOUS
  <2>3. k \in 0..n /\ s \in SUBSET (1..n) /\ 1..k \subseteq 1..n
    <3>1. k \in 0..n
      OBVIOUS
    <3>2. QED  BY <3>1
  <2>4. iter[s] = IF s = {} THEN g ELSE gcd[<<iter[s \ {Max(s)}], weights[Max(s)]>>]
    BY <2>3 DEF FoldOver
  <2>5. s # {}
    BY <2>2, <2>4, Dividing DEF FoldDivides
  <2>6. k \in Nat /\ k > 0 /\ k - 1 \in 0..n /\ k - 1 < k
    <3>1. PICK i \in s : TRUE
      BY <2>5
    <3>2. i \in 1..k
      OBVIOUS
    <3>3. QED  BY <2>3, <3>2
  <2> DEFINE m == Max(s)
             t == s \ {m}
  <2>7. m \in s /\ m \in 1..n /\ t \in SUBSET (1..(k - 1)) /\ s = t \cup {m}
    <3>1. m \in s /\ m \in 1..k /\ t \in SUBSET (1..(k - 1))
      BY <2>5, <2>6, WithoutMax
    <3> HIDE DEF m
    <3>2. QED  BY <2>3, <3>1
  <2>8. k - 1 \notin Q
    <3>1. \A j \in Q : k <= j
      BY <2>1
    <3> HIDE DEF Q
    <3>2. QED  BY <2>6, <3>1
  <2>9. FoldDivides(iter[t], g, weights, t)
    BY <2>6, <2>7, <2>8
  <2>10. iter[s] = gcd[<<iter[t], weights[m]>>]
    BY <2>4, <2>5
  <2> HIDE DEF Q, m, t
  <2> DEFINE x == iter[t]
             w == weights[m]
             y == gcd[<<x, w>>]
  <2>11. x \in Nat /\ w \in Nat
    BY <2>7, <2>9 DEF FoldDivides
  <2>12. y \in Nat /\ Divides(y, x) /\ Divides(y, w)
    BY <2>11, GcdDivides
  <2>13. Divides(x, g) /\ \A i \in t : Divides(x, weights[i])
    BY <2>9 DEF FoldDivides
  <2> HIDE DEF x, y
  <2>14. Divides(y, g) /\ \A i \in t : Divides(y, weights[i])
    BY <2>12, <2>13, DividesThrough
  <2>15. ASSUME NEW d \in Nat \ {0}, Divides(d, g), \A i \in s : Divides(d, weights[i])
         PROVE  Divides(d, y)
    <3>1. Divides(d, x)
      BY <2>7, <2>9, <2>15 DEF FoldDivides, x
    <3>2. Divides(d, w)
      BY <2>7, <2>15
    <3>3. QED  BY <2>11, <3>1, <3>2, GcdIsMultiple DEF y
  <2>16. FoldDivides(y, g, weights, s)
    <3>1. \A i \in s : Divides(y, weights[i])
      BY <2>7, <2>12, <2>14
    <3>2. QED  BY <2>12, <2>14, <2>15, <3>1 DEF FoldDivides
  <2>17. QED  BY <2>2, <2>10, <2>16 DEF x, y
<1>3. QED  BY <1>1, <1>2

(* The gcd that recalc() sets is the greatest common divisor of all the    *)
(* weights of the table: it divides each, and what divides each divides    *)
(* it.                                                                     *)
THEOREM GcdOfDivides ==
    ASSUME NEW weights \in Seq(Nat)
    PROVE  /\ GcdOf(weights) \in Nat
           /\ \A i \in DOMAIN weights : Divides(GcdOf(weights), weights[i])
           /\ \A d \in Nat \ {0} : (\A i \in DOMAIN weights : Divides(d, weights[i]))
                                       => Divides(d, GcdOf(weights))
<1>1. CASE weights = <<>>
  BY <1>1, Dividing DEF GcdOf
<1>2. CASE weights # <<>>
  <2> DEFINE g == Head(weights)
             r == Tail(weights)
             n == Len(r)
             iter == CHOOSE f : FoldOver(f, g, r, DOMAIN r)
  <2>1. g \in Nat /\ n \in Nat /\ DOMAIN r = 1..n /\ r \in [1..n -> Nat]
    <3>1. g \in Nat /\ r \in Seq(Nat)
      BY <1>2
    <3> HIDE DEF g, r
    <3>2. QED  BY <3>1
  <2>2. /\ g = weights[1] /\ DOMAIN weights = 1..(n + 1)
        /\ \A i \in 1..n : r[i] = weights[i + 1]
    BY <1>2
  <2> HIDE DEF g, r, n
  <2>3. FoldOver(iter, g, r, 1..n)
    BY <2>1, FoldExists
  <2>4. GcdOf(weights) = iter[1..n]
    BY <1>2, <2>1, GcdOfIs DEF g, r
  <2> HIDE DEF iter
  <2> DEFINE x == iter[1..n]
  <2>5. FoldDivides(x, g, r, 1..n)
    BY <2>1, <2>3, FoldsDivide
  <2> HIDE DEF x
  <2>6. \A i \in 2..(n + 1) : i - 1 \in 1..n /\ r[i - 1] = weights[i]
    BY <2>1, <2>2
  <2>7. ASSUME NEW i \in 1..(n + 1) PROVE Divides(x, weights[i])
    <3>1. CASE i = 1
      BY <2>2, <2>5, <3>1 DEF FoldDivides
    <3>2. CASE i # 1
      <4>1. i \in 2..(n + 1)
        BY <2>1, <3>2
      <4>2. QED  BY <2>5, <2>6, <4>1 DEF FoldDivides
    <3>3. QED  BY <3>1, <3>2
  <2>8. ASSUME NEW d \in Nat \ {0}, \A i \in DOMAIN weights : Divides(d, weights[i])
        PROVE  Divides(d, x)
    <3>1. 1 \in DOMAIN weights /\ \A i \in 1..n : i + 1 \in DOMAIN weights
      BY <2>1, <2>2
    <3>2. Divides(d, g) /\ \A i \in 1..n : Divides(d, r[i])
      BY <2>2, <2>8, <3>1
    <3>3. QED  BY <2>5, <3>2 DEF FoldDivides
  <2>9. x \in Nat
    BY <2>5 DEF FoldDivides
  <2>10. QED  BY <2>2, <2>4, <2>7, <2>8, <2>9 DEF x
<1>3. QED  BY <1>1, <1>2

(* so it is at most each weight that is not 0. *)
LEMMA GcdOfBounds ==
    ASSUME NEW weights \in Seq(Nat)
    PROVE  /\ GcdOf(weights) \in Nat
           /\ \A i \in DOMAIN weights : weights[i] > 0 => GcdOf(weights) \in 1..weights[i]
<1> DEFINE x == GcdOf(weights)
<1>1. x \in Nat /\ \A i \in DOMAIN weights : weights[i] \in Nat /\ Divides(x, weights[i])
  BY GcdOfDivides
<1> HIDE DEF x
<1>2. ASSUME NEW i \in DOMAIN weights, weights[i] > 0 PROVE x \in 1..weights[i]
  <2>1. x # 0
    BY <1>1, <1>2, Dividing
  <2>2. x <= weights[i]
    BY <1>1, <1>2, <2>1, DivisorBound
  <2>3. QED  BY <1>1, <2>1, <2>2
<1>3. QED  BY <1>1, <1>2 DEF x
-----------------------------------------------------------------------------
(* The tables after 0, 1, 2, ... packets. *)
FirstOf(w) == [wrr |-> w, at |-> -1]

Step(f, w, n) == IF n = 0 THEN FirstOf(w) ELSE run(f[n - 1].wrr)

\* The first k + 1 tables.
IsStart(f, w, k) == f = [n \in 0..k |-> Step(f, w, n)]

(* There is a start of every length, *)
LEMMA StartExists ==
    ASSUME NEW w, NEW k \in Nat
    PROVE  \E f : IsStart(f, w, k)
<1> DEFINE Q == {j \in Nat : ~\E f : IsStart(f, w, j)}
<1> SUFFICES ASSUME Q # {} PROVE FALSE
  OBVIOUS
<1>1. PICK j \in Q : \A i \in Q : j <= i
  BY LeastIs
<1>2. CASE j = 0
  <2> DEFINE f == [n \in 0..0 |-> FirstOf(w)]
  <2>1. \A n \in 0..0 : n = 0 /\ Step(f, w, n) = FirstOf(w)
    BY DEF Step
  <2> HIDE DEF f
  <2>2. f = [n \in 0..0 |-> Step(f, w, n)]
    BY <2>1 DEF f
  <2>3. QED  BY <1>2, <2>2 DEF IsStart
<1>3. CASE j # 0
  <2>1. j \in Nat /\ j - 1 \in Nat /\ j - 1 < j
    BY <1>3
  <2>2. PICK f : IsStart(f, w, j - 1)
    BY <1>1, <2>1
  <2> DEFINE h == [n \in 0..j |-> Step(f, w, n)]
  <2>3. \A n \in 0..(j - 1) : f[n] = Step(f, w, n) /\ h[n] = f[n]
    BY <2>1, <2>2 DEF IsStart
  <2> HIDE DEF h
  <2>4. \A n \in 0..j : Step(h, w, n) = Step(f, w, n)
    <3> SUFFICES ASSUME NEW n \in 0..j, n # 0 PROVE h[n - 1] = f[n - 1]
      BY DEF Step
    <3>1. n - 1 \in 0..(j - 1)
      BY <2>1
    <3>2. QED  BY <2>3, <3>1
  <2>5. h = [n \in 0..j |-> Step(h, w, n)]
    BY <2>4 DEF h
  <2>6. QED  BY <2>5 DEF IsStart
<1>4. QED  BY <1>2, <1>3

(* and a longer one begins with the shorter. *)
LEMMA StartsAgree ==
    ASSUME NEW w, NEW k \in Nat, NEW f, IsStart(f, w, k), NEW h, IsStart(h, w, k + 1)
    PROVE  f[k] = h[k]
<1> DEFINE Q == {n \in 0..k : f[n] # h[n]}
<1> SUFFICES ASSUME Q # {} PROVE FALSE
  <2>1. k \in 0..k
    OBVIOUS
  <2>2. QED  BY <2>1
<1>1. Q \in SUBSET Nat
  OBVIOUS
<1>2. PICK n \in Q : \A i \in Q : n <= i
  BY <1>1, LeastIs
<1>3. n \in 0..k /\ n \in 0..(k + 1) /\ f[n] # h[n]
  OBVIOUS
<1>4. f[n] = Step(f, w, n) /\ h[n] = Step(h, w, n)
  BY <1>3 DEF IsStart
<1>5. n # 0
  BY <1>3, <1>4 DEF Step
<1>6. n - 1 \in 0..k /\ n - 1 < n
  BY <1>3, <1>5
<1>7. n - 1 \notin Q
  BY <1>2, <1>3, <1>6
<1>8. f[n - 1] = h[n - 1]
  BY <1>6, <1>7
<1>9. QED  BY <1>3, <1>4, <1>5, <1>8 DEF Step

(* After is the sequence of tables it is meant to be. *)
LEMMA AfterSteps ==
    ASSUME NEW w
    PROVE  /\ After(w, 0) = FirstOf(w)
           /\ \A k \in Nat : After(w, k + 1) = run(After(w, k).wrr)
<1> DEFINE IsAfter(a) == a = [n \in Nat |-> Step(a, w, n)]
           F(n) == CHOOSE f : IsStart(f, w, n)
           a == [n \in Nat |-> F(n)[n]]
<1>1. \A n \in Nat : IsStart(F(n), w, n)
  BY StartExists
<1> HIDE DEF F
<1>2. ASSUME NEW n \in Nat PROVE a[n] = Step(a, w, n)
  <2>1. F(n)[n] = Step(F(n), w, n)
    <3>1. IsStart(F(n), w, n) /\ n \in 0..n
      BY <1>1
    <3>2. QED  BY <3>1 DEF IsStart
  <2>2. CASE n = 0
    BY <2>1, <2>2 DEF Step
  <2>3. CASE n # 0
    <3>1. n - 1 \in Nat /\ n = (n - 1) + 1
      BY <2>3
    <3>2. F(n - 1)[n - 1] = F(n)[n - 1]
      BY <1>1, <3>1, StartsAgree
    <3>3. a[n - 1] = F(n)[n - 1]
      BY <3>1, <3>2
    <3> HIDE DEF a
    <3>4. Step(F(n), w, n) = Step(a, w, n)
      BY <2>3, <3>3 DEF Step
    <3>5. QED  BY <2>1, <3>4 DEF a
  <2>4. QED  BY <2>2, <2>3
<1>3. IsAfter(a)
  <2>1. a = [n \in Nat |-> a[n]]
    OBVIOUS
  <2> HIDE DEF a
  <2>2. QED  BY <1>2, <2>1
<1> DEFINE b == CHOOSE f : IsAfter(f)
<1>4. IsAfter(b)
  <2> HIDE DEF a, IsAfter
  <2>1. \E f : IsAfter(f)
    BY <1>3
  <2>2. QED  BY <2>1
<1>5. \A k : After(w, k) = b[k]
  BY DEF After, Step, FirstOf
<1> HIDE DEF b
<1>6. b[0] = Step(b, w, 0) /\ \A k \in Nat : b[k + 1] = Step(b, w, k + 1)
  BY <1>4
<1>7. QED  BY <1>5, <1>6 DEF Step
-----------------------------------------------------------------------------
(* The weights of a table have a bound, so w_max is one of them. *)
LEMMA WeightsBounded ==
    ASSUME NEW weights \in Seq(Nat)
    PROVE  \E n \in Nat : \A i \in DOMAIN weights : weights[i] <= n
<1> DEFINE l == Len(weights)
           Bounded(k) == \E n \in Nat : \A i \in 1..k : weights[i] <= n
<1>1. l \in Nat /\ DOMAIN weights = 1..l /\ \A i \in 1..l : weights[i] \in Nat
  OBVIOUS
<1> HIDE DEF l
<1>2. Bounded(0)
  OBVIOUS
<1>3. ASSUME NEW k \in 1..l, Bounded(k - 1) PROVE Bounded(k)
  <2>1. PICK n \in Nat : \A i \in 1..(k - 1) : weights[i] <= n
    BY <1>3
  <2>2. weights[k] \in Nat
    BY <1>1
  <2>3. n + weights[k] \in Nat
    BY <2>2
  <2>4. ASSUME NEW i \in 1..k PROVE weights[i] <= n + weights[k]
    <3>1. weights[i] \in Nat
      BY <1>1
    <3>2. CASE i = k
      BY <2>2, <3>2
    <3>3. CASE i # k
      <4>1. weights[i] <= n
        BY <1>1, <2>1, <3>3
      <4>2. QED  BY <2>2, <3>1, <4>1
    <3>4. QED  BY <3>2, <3>3
  <2>5. QED  BY <2>3, <2>4
<1> HIDE DEF Bounded
<1>4. Bounded(l)
  <2> DEFINE Q == {k \in 0..l : ~Bounded(k)}
  <2> SUFFICES ASSUME Q # {} PROVE FALSE
    <3>1. l \in 0..l
      BY <1>1
    <3>2. QED  BY <3>1
  <2>1. Q \in SUBSET Nat
    BY <1>1
  <2>2. PICK k \in Q : \A j \in Q : k <= j
    BY <2>1, LeastIs
  <2>3. k \in 1..l /\ k - 1 \in 0..l /\ k - 1 < k /\ ~Bounded(k)
    BY <1>1, <1>2
  <2>4. QED  BY <1>3, <2>2, <2>3
<1>5. QED  BY <1>1, <1>4 DEF Bounded

LEMMA MaxOfWeights ==
    ASSUME NEW weights \in Seq(Nat)
    PROVE  LET m == Max({0} \cup ToSet(weights))
           IN  /\ m \in Nat
               /\ \A i \in DOMAIN weights : weights[i] <= m
               /\ m # 0 => \E i \in DOMAIN weights : weights[i] = m
<1> DEFINE K == {0} \cup {weights[i] : i \in DOMAIN weights}
<1>1. \A i \in DOMAIN weights : weights[i] \in Nat
  OBVIOUS
<1>2. PICK n \in Nat : \A i \in DOMAIN weights : weights[i] <= n
  BY WeightsBounded
<1>3. K \in SUBSET (0..n) /\ K # {}
  BY <1>1, <1>2
<1>4. Max(K) \in K /\ \A k \in K : k <= Max(K)
  BY <1>3, MaxIs
<1>5. Max(K) \in 0..n
  BY <1>3, <1>4
<1>6. {0} \cup ToSet(weights) = K
  BY DEF ToSet
<1> DEFINE m == Max(K)
<1>7. m \in Nat /\ (\A i \in DOMAIN weights : weights[i] <= m)
      /\ (m # 0 => \E i \in DOMAIN weights : weights[i] = m)
  <2>1. \A i \in DOMAIN weights : weights[i] \in K
    OBVIOUS
  <2>2. m # 0 => \E i \in DOMAIN weights : weights[i] = m
    BY <1>4
  <2> HIDE DEF K
  <2>3. QED  BY <1>4, <1>5, <2>1, <2>2
<1> HIDE DEF K
<1>8. QED  BY <1>6, <1>7
-----------------------------------------------------------------------------
(* A table: a record of the right fields, with one item for a node. *)
IsRecord(w) == w = [items |-> w.items, w_gcd |-> w.w_gcd, w_max |-> w.w_max,
                    index |-> w.index, cw |-> w.cw]

HasNumbers(w) == /\ w.w_gcd \in Nat /\ w.w_max \in Nat
                 /\ w.index \in Nat \cup {-1} /\ w.cw \in Nat

IsTable(w) ==
    /\ IsRecord(w)
    /\ HasNumbers(w)
    /\ w.items \in Seq(ItemType)
    /\ \A i, j \in DOMAIN w.items : w.items[i].id = w.items[j].id => i = j

(* The gcd and the maximum of a table are those of its weights. *)
Exact(w) ==
    /\ w.w_gcd = GcdOf(WeightsOf(w))
    /\ w.w_max = Max({0} \cup ToSet(WeightsOf(w)))

(* A table that is where the other was. *)
SamePlace(w, u) == u.index = w.index /\ u.cw = w.cw

(* The table at another position. *)
AtPosition(w, index, cw) == [w EXCEPT !.index = index, !.cw = cw]

(* The item that update_client leaves for a client. *)
Updated(item, client) ==
    [id |-> item.id, item |-> client,
     weight |-> IF client = NoClient THEN 0
                ELSE IF item.weight > 0 THEN item.weight ELSE item.old_weight,
     old_weight |-> IF client = NoClient /\ item.weight > 0 THEN item.weight
                    ELSE item.old_weight]

(* u is w with the client of one node replaced. *)
IsUpdate(w, u, client, id) ==
    /\ IsTable(u)
    /\ DOMAIN u.items = DOMAIN w.items
    /\ \A i \in DOMAIN w.items :
          u.items[i] = IF w.items[i].id = id THEN Updated(w.items[i], client) ELSE w.items[i]
    /\ Exact(w) => Exact(u)
    /\ SamePlace(w, u)
-----------------------------------------------------------------------------
(* The operations on a table. *)

LEMMA PutGcd ==
    ASSUME NEW w, IsRecord(w), NEW g, NEW m
    PROVE  [w EXCEPT !.w_gcd = g, !.w_max = m] =
               [items |-> w.items, w_gcd |-> g, w_max |-> m, index |-> w.index, cw |-> w.cw]
<1>1. PICK v : v = [w EXCEPT !.w_gcd = g]
  OBVIOUS
<1>2. [w EXCEPT !.w_gcd = g, !.w_max = m] = [v EXCEPT !.w_max = m]
  BY <1>1, Zenon
<1>3. v = [items |-> w.items, w_gcd |-> g, w_max |-> w.w_max, index |-> w.index, cw |-> w.cw]
  BY <1>1 DEF IsRecord
<1>4. [v EXCEPT !.w_max = m] =
          [items |-> w.items, w_gcd |-> g, w_max |-> m, index |-> w.index, cw |-> w.cw]
  BY <1>3
<1>5. QED  BY <1>2, <1>4

LEMMA PutIndex ==
    ASSUME NEW w, IsRecord(w), NEW index, NEW cw
    PROVE  [w EXCEPT !.index = index, !.cw = cw] =
               [items |-> w.items, w_gcd |-> w.w_gcd, w_max |-> w.w_max,
                index |-> index, cw |-> cw]
<1>1. PICK v : v = [w EXCEPT !.index = index]
  OBVIOUS
<1>2. [w EXCEPT !.index = index, !.cw = cw] = [v EXCEPT !.cw = cw]
  BY <1>1, Zenon
<1>3. v = [items |-> w.items, w_gcd |-> w.w_gcd, w_max |-> w.w_max, index |-> index, cw |-> w.cw]
  BY <1>1 DEF IsRecord
<1>4. [v EXCEPT !.cw = cw] =
          [items |-> w.items, w_gcd |-> w.w_gcd, w_max |-> w.w_max, index |-> index, cw |-> cw]
  BY <1>3
<1>5. QED  BY <1>2, <1>4

(* recalc leaves a table exact. *)
LEMMA RecalcIs ==
    ASSUME NEW w, IsRecord(w)
    PROVE  recalc(w) = [items |-> w.items, w_gcd |-> GcdOf(WeightsOf(w)),
                        w_max |-> Max({0} \cup ToSet(WeightsOf(w))),
                        index |-> w.index, cw |-> w.cw]
BY PutGcd DEF recalc

LEMMA ExactTables == ASSUME NEW w, IsRecord(w) PROVE recalc(w) = w <=> Exact(w)
<1> DEFINE g == GcdOf(WeightsOf(w))
           m == Max({0} \cup ToSet(WeightsOf(w)))
<1>1. recalc(w) = [items |-> w.items, w_gcd |-> g, w_max |-> m, index |-> w.index, cw |-> w.cw]
  BY RecalcIs
<1>2. Exact(w) <=> w.w_gcd = g /\ w.w_max = m
  BY DEF Exact
<1> HIDE DEF g, m
<1>3. QED  BY <1>1, <1>2 DEF IsRecord

(* The weights are all that the gcd and the maximum depend on. *)
LEMMA SameWeights ==
    ASSUME NEW w, NEW u, DOMAIN u.items = DOMAIN w.items,
           \A i \in DOMAIN w.items : u.items[i].weight = w.items[i].weight
    PROVE  WeightsOf(u) = WeightsOf(w)
BY DEF WeightsOf

LEMMA WeightsAre ==
    ASSUME NEW w, IsTable(w)
    PROVE  /\ WeightsOf(w) \in Seq(Nat) /\ DOMAIN WeightsOf(w) = DOMAIN w.items
           /\ \A i \in DOMAIN w.items : WeightsOf(w)[i] = w.items[i].weight
<1>1. w.items \in Seq(ItemType) /\ DOMAIN w.items = 1..Len(w.items) /\ Len(w.items) \in Nat
  BY DEF IsTable
<1>2. ASSUME NEW i \in 1..Len(w.items) PROVE w.items[i].weight \in Nat
  <2>1. w.items[i] \in ItemType
    BY <1>1
  <2>2. QED  BY <2>1 DEF ItemType
<1>3. QED  BY <1>1, <1>2 DEF WeightsOf

LEMMA RecalcIsExact ==
    ASSUME NEW w, IsTable(w)
    PROVE  /\ IsTable(recalc(w)) /\ Exact(recalc(w))
           /\ recalc(w).items = w.items /\ SamePlace(w, recalc(w))
<1> DEFINE g == GcdOf(WeightsOf(w))
           m == Max({0} \cup ToSet(WeightsOf(w)))
           r == recalc(w)
<1>1. r = [items |-> w.items, w_gcd |-> g, w_max |-> m, index |-> w.index, cw |-> w.cw]
  BY RecalcIs DEF IsTable
<1>2. WeightsOf(r) = WeightsOf(w)
  <2> HIDE DEF g, m, r
  <2>1. r.items = w.items
    BY <1>1
  <2>2. QED  BY <2>1, SameWeights
<1>3. Exact(r)
  <2>1. r.w_gcd = g /\ r.w_max = m
    <3> HIDE DEF g, m, r
    <3>1. QED  BY <1>1
  <2>2. QED  BY <1>2, <2>1 DEF Exact
<1>4. IsTable(r) /\ r.items = w.items /\ SamePlace(w, r)
  <2>1. g \in Nat /\ m \in Nat
    BY WeightsAre, GcdOfBounds, MaxOfWeights
  <2> HIDE DEF g, m, r
  <2>2. r.items = w.items /\ IsRecord(r) /\ HasNumbers(r)
    BY <1>1, <2>1 DEF IsTable, IsRecord, HasNumbers
  <2>3. SamePlace(w, r)
    BY <1>1 DEF SamePlace
  <2>4. QED  BY <2>2, <2>3 DEF IsTable
<1>5. QED  BY <1>3, <1>4

(* The item of a node, if there is one. *)
LEMMA GetFinds ==
    ASSUME NEW w, IsTable(w), NEW id
    PROVE  /\ Get(w, id) \in DOMAIN w.items \cup {0}
           /\ Get(w, id) # 0 => w.items[Get(w, id)].id = id
           /\ \A i \in DOMAIN w.items : w.items[i].id = id => i = Get(w, id)
<1> DEFINE I == {i \in 1..Len(w.items) : w.items[i].id = id}
<1>1. Get(w, id) = IF I # {} THEN Min(I) ELSE 0
  BY DEF Get, SelectInSeq
<1>2. DOMAIN w.items = 1..Len(w.items)
  BY DEF IsTable
<1>3. CASE I = {}
  BY <1>1, <1>2, <1>3
<1>4. ASSUME NEW i \in I  PROVE I = {i} /\ Min(I) = i
  <2>1. I = {i}
    BY <1>2, <1>4 DEF IsTable
  <2>2. i \in Nat
    BY <1>4
  <2>3. QED  BY <2>1, <2>2 DEF Min
<1>5. CASE I # {}
  <2>1. PICK i \in I : TRUE
    BY <1>5
  <2>2. Get(w, id) = i
    BY <1>1, <1>4, <1>5, <2>1
  <2>3. QED  BY <1>2, <1>4, <2>1, <2>2
<1>6. QED  BY <1>3, <1>5


(* The items replaced, the rest of the table kept. *)
LEMMA PutItems ==
    ASSUME NEW w, IsRecord(w), NEW s
    PROVE  [w EXCEPT !.items = s] =
               [items |-> s, w_gcd |-> w.w_gcd, w_max |-> w.w_max, index |-> w.index, cw |-> w.cw]
BY DEF IsRecord

LEMMA SameNumbers ==
    ASSUME NEW w, IsTable(w), NEW s, NEW u,
           u = [items |-> s, w_gcd |-> w.w_gcd, w_max |-> w.w_max, index |-> w.index, cw |-> w.cw]
    PROVE  /\ u.items = s /\ u.w_gcd = w.w_gcd /\ u.w_max = w.w_max
           /\ IsRecord(u) /\ HasNumbers(u) /\ SamePlace(w, u)
BY DEF IsTable, IsRecord, HasNumbers, SamePlace

LEMMA OneItemPut ==
    ASSUME NEW w, IsTable(w), NEW i \in DOMAIN w.items,
           NEW item \in ItemType, item.id = w.items[i].id
    PROVE  LET u == [w EXCEPT !.items = [w.items EXCEPT ![i] = item]]
           IN  /\ IsTable(u)
               /\ u.items = [w.items EXCEPT ![i] = item]
               /\ u.w_gcd = w.w_gcd /\ u.w_max = w.w_max /\ SamePlace(w, u)
<1> DEFINE s == [w.items EXCEPT ![i] = item]
           u == [w EXCEPT !.items = s]
<1>1. s \in Seq(ItemType) /\ DOMAIN s = DOMAIN w.items
  BY DEF IsTable
<1>2. \A j \in DOMAIN s : s[j].id = w.items[j].id
  BY DEF IsTable
<1>3. \A j, k \in DOMAIN s : s[j].id = s[k].id => j = k
  BY <1>1, <1>2 DEF IsTable
<1>4. u = [items |-> s, w_gcd |-> w.w_gcd, w_max |-> w.w_max, index |-> w.index, cw |-> w.cw]
  BY PutItems DEF IsTable
<1> HIDE DEF s, u
<1>5. /\ u.items = s /\ IsRecord(u) /\ HasNumbers(u)
      /\ u.w_gcd = w.w_gcd /\ u.w_max = w.w_max /\ SamePlace(w, u)
  BY <1>4, SameNumbers
<1>6. IsTable(u)
  BY <1>1, <1>3, <1>5 DEF IsTable
<1>7. QED  BY <1>5, <1>6 DEF s, u

(* On and Off change the weights of an item alone. *)
LEMMA OnOff ==
    ASSUME NEW item \in ItemType
    PROVE  /\ On(item) \in ItemType /\ On(item).id = item.id
           /\ On(item) = [id |-> item.id, item |-> item.item,
                          weight |-> IF item.weight > 0 THEN item.weight ELSE item.old_weight,
                          old_weight |-> item.old_weight]
           /\ Off(item) \in ItemType /\ Off(item).id = item.id
           /\ Off(item) = [id |-> item.id, item |-> item.item, weight |-> 0,
                           old_weight |-> IF item.weight > 0 THEN item.weight
                                          ELSE item.old_weight]
<1>1. item = [id |-> item.id, item |-> item.item, weight |-> item.weight,
              old_weight |-> item.old_weight]
  BY DEF ItemType
<1>2. item.id \in Nodes /\ item.item \in Clients \cup {NoClient}
      /\ item.weight \in Nat /\ item.old_weight \in Nat
  BY DEF ItemType
<1>3. /\ On(item) \in ItemType
      /\ On(item) = [id |-> item.id, item |-> item.item,
                     weight |-> IF item.weight > 0 THEN item.weight ELSE item.old_weight,
                     old_weight |-> item.old_weight]
  <2>1. CASE item.weight > 0
    BY <1>1, <1>2, <2>1 DEF On
  <2>2. CASE ~(item.weight > 0)
    BY <1>1, <1>2, <2>2 DEF On, ItemType
  <2>3. QED  BY <2>1, <2>2
<1>4. CASE item.weight = 0
  BY <1>1, <1>2, <1>4, <1>3 DEF Off
<1>5. CASE item.weight # 0
  <2>1. PICK v : v = [item EXCEPT !.old_weight = item.weight]
    OBVIOUS
  <2>2. Off(item) = [v EXCEPT !.weight = 0]
    BY <1>5, <2>1, Zenon DEF Off
  <2>3. v = [id |-> item.id, item |-> item.item, weight |-> item.weight,
             old_weight |-> item.weight]
    BY <1>1, <2>1
  <2>4. Off(item) = [id |-> item.id, item |-> item.item, weight |-> 0,
                     old_weight |-> item.weight]
    BY <2>2, <2>3
  <2>5. QED  BY <1>2, <1>3, <1>5, <2>4 DEF ItemType
<1>6. QED  BY <1>3, <1>4, <1>5


(* An item that is switched: enable and disable of one item. *)
LEMMA Switches ==
    ASSUME NEW w, IsTable(w), NEW i \in DOMAIN w.items,
           NEW item \in ItemType, item.id = w.items[i].id
    PROVE  LET u == recalc([w EXCEPT !.items[i] = item])
           IN  /\ IsTable(u) /\ Exact(u) /\ SamePlace(w, u)
               /\ u.items = [w.items EXCEPT ![i] = item]
<1> DEFINE v == [w EXCEPT !.items[i] = item]
<1>1. v = [w EXCEPT !.items = [w.items EXCEPT ![i] = item]]
  OBVIOUS
<1>2. IsTable(v) /\ v.items = [w.items EXCEPT ![i] = item] /\ SamePlace(w, v)
  BY <1>1, OneItemPut
<1> HIDE DEF v
<1>3. /\ IsTable(recalc(v)) /\ Exact(recalc(v)) /\ SamePlace(w, recalc(v))
      /\ recalc(v).items = [w.items EXCEPT ![i] = item]
  BY <1>2, RecalcIsExact DEF SamePlace
<1>4. QED  BY <1>3 DEF v

LEMMA Enables ==
    ASSUME NEW w, IsTable(w), NEW i \in DOMAIN w.items
    PROVE  /\ IsTable(enable(w, i)) /\ (Exact(w) => Exact(enable(w, i)))
           /\ SamePlace(w, enable(w, i))
           /\ enable(w, i).items = [w.items EXCEPT ![i] = On(w.items[i])]
<1> DEFINE item == w.items[i]
<1>1. item \in ItemType
  BY DEF IsTable
<1>2. On(item) \in ItemType /\ On(item).id = item.id
  BY <1>1, OnOff, Zenon
<1>3. CASE item.weight > 0
  <2>1. enable(w, i) = w /\ On(item) = item
    BY <1>3 DEF enable, On
  <2>2. QED  BY <2>1 DEF IsTable, SamePlace
<1>4. CASE ~(item.weight > 0)
  <2>1. [w EXCEPT !.items[i] = On(@)] = [w EXCEPT !.items[i] = On(item)]
    OBVIOUS
  <2>2. enable(w, i) = recalc([w EXCEPT !.items[i] = On(item)])
    BY <1>4, <2>1 DEF enable
  <2>3. QED  BY <1>2, <2>2, Switches
<1>5. QED  BY <1>3, <1>4

LEMMA Disables ==
    ASSUME NEW w, IsTable(w), NEW i \in DOMAIN w.items
    PROVE  /\ IsTable(disable(w, i)) /\ (Exact(w) => Exact(disable(w, i)))
           /\ SamePlace(w, disable(w, i))
           /\ disable(w, i).items = [w.items EXCEPT ![i] = Off(w.items[i])]
<1> DEFINE item == w.items[i]
<1>1. item \in ItemType
  BY DEF IsTable
<1>2. Off(item) \in ItemType /\ Off(item).id = item.id
  BY <1>1, OnOff, Zenon
<1>3. CASE item.weight = 0
  <2>1. disable(w, i) = w /\ Off(item) = item
    BY <1>3 DEF disable, Off
  <2>2. QED  BY <2>1 DEF IsTable, SamePlace
<1>4. CASE item.weight # 0
  <2>1. [w EXCEPT !.items[i] = Off(@)] = [w EXCEPT !.items[i] = Off(item)]
    OBVIOUS
  <2>2. disable(w, i) = recalc([w EXCEPT !.items[i] = Off(item)])
    BY <1>4, <2>1 DEF disable
  <2>3. QED  BY <1>2, <2>2, Switches
<1>5. QED  BY <1>3, <1>4

(* update_client gives the item of the node to the client, or takes it away. *)
LEMMA Updates ==
    ASSUME NEW w, IsTable(w), NEW client \in Clients \cup {NoClient}, NEW id
    PROVE  IsUpdate(w, update_client(w, client, id), client, id)
<1> DEFINE i == Get(w, id)
           moved == [w.items[i] EXCEPT !.item = client]
           v == [w EXCEPT !.items[i].item = client]
<1>1. CASE i = 0
  <2>1. \A j \in DOMAIN w.items : w.items[j].id # id
    BY <1>1, GetFinds DEF IsTable
  <2>2. update_client(w, client, id) = w
    BY <1>1 DEF update_client
  <2>3. QED  BY <2>1, <2>2 DEF IsUpdate, SamePlace
<1>2. CASE i # 0
  <2>1. /\ i \in DOMAIN w.items /\ w.items[i].id = id
        /\ \A j \in DOMAIN w.items : w.items[j].id = id => j = i
    BY <1>2, GetFinds
  <2>2. w.items[i] \in ItemType
    BY <2>1 DEF IsTable
  <2>3. moved \in ItemType
    BY <2>2 DEF ItemType
  <2>4. moved = [id |-> id, item |-> client, weight |-> w.items[i].weight,
                 old_weight |-> w.items[i].old_weight]
    BY <2>1, <2>2 DEF ItemType
  <2>5. v = [w EXCEPT !.items = [w.items EXCEPT ![i] = moved]]
    OBVIOUS
  <2>6. /\ IsTable(v) /\ v.items = [w.items EXCEPT ![i] = moved]
        /\ v.w_gcd = w.w_gcd /\ v.w_max = w.w_max /\ SamePlace(w, v)
    BY <2>1, <2>3, <2>4, <2>5, OneItemPut
  <2>7. Exact(w) => Exact(v)
    <3>1. WeightsOf(v) = WeightsOf(w)
      <4> HIDE DEF v, moved
      <4>1. DOMAIN v.items = DOMAIN w.items
        BY <2>6
      <4>2. \A j \in DOMAIN w.items : v.items[j].weight = w.items[j].weight
        BY <2>1, <2>4, <2>6
      <4>3. QED  BY <4>1, <4>2, SameWeights
    <3>2. QED  BY <3>1, <2>6 DEF Exact
  <2>8. i \in DOMAIN v.items /\ v.items[i] = moved
    BY <2>1, <2>6
  <2>9. update_client(w, client, id) =
            IF client = NoClient THEN disable(v, i) ELSE enable(v, i)
    BY <1>2 DEF update_client
  <2>10. w.items[i].weight \in Nat
    BY <2>2 DEF ItemType
  <2> HIDE DEF v, moved, i
  <2>11. CASE client = NoClient
    <3> DEFINE u == disable(v, i)
    <3>1. /\ IsTable(u) /\ (Exact(v) => Exact(u)) /\ SamePlace(v, u)
          /\ u.items = [v.items EXCEPT ![i] = Off(moved)]
      BY <2>6, <2>8, Disables
    <3>2. Off(moved) = Updated(w.items[i], client)
      BY <2>1, <2>3, <2>4, <2>11, OnOff DEF Updated
    <3>3. u = update_client(w, client, id)
      BY <2>9, <2>11
    <3> HIDE DEF u
    <3>4. IsUpdate(w, u, client, id)
      <4>1. SamePlace(w, u)
        BY <2>6, <3>1 DEF SamePlace
      <4>2. QED  BY <2>1, <2>6, <2>7, <3>1, <3>2, <4>1 DEF IsUpdate
    <3>5. QED  BY <3>3, <3>4
  <2>12. CASE client # NoClient
    <3> DEFINE u == enable(v, i)
    <3>1. /\ IsTable(u) /\ (Exact(v) => Exact(u)) /\ SamePlace(v, u)
          /\ u.items = [v.items EXCEPT ![i] = On(moved)]
      BY <2>6, <2>8, Enables
    <3>2. On(moved) = Updated(w.items[i], client)
      BY <2>1, <2>3, <2>4, <2>12, OnOff DEF Updated
    <3>3. u = update_client(w, client, id)
      BY <2>9, <2>12
    <3> HIDE DEF u
    <3>4. IsUpdate(w, u, client, id)
      <4>1. SamePlace(w, u)
        BY <2>6, <3>1 DEF SamePlace
      <4>2. QED  BY <2>1, <2>6, <2>7, <3>1, <3>2, <4>1 DEF IsUpdate
    <3>5. QED  BY <3>3, <3>4
  <2>13. QED  BY <2>11, <2>12
<1>3. QED  BY <1>1, <1>2


(* The fields of the items after an update. *)
LEMMA UpdatedFields ==
    ASSUME NEW w, IsTable(w), NEW u, NEW client \in Clients \cup {NoClient}, NEW id,
           IsUpdate(w, u, client, id), NEW i \in DOMAIN w.items
    PROVE  /\ u.items[i].id = w.items[i].id
           /\ w.items[i].id # id => u.items[i] = w.items[i]
           /\ w.items[i].id = id =>
                /\ u.items[i].item = client
                /\ u.items[i].weight =
                       IF client = NoClient THEN 0
                       ELSE IF w.items[i].weight > 0 THEN w.items[i].weight
                       ELSE w.items[i].old_weight
                /\ u.items[i].old_weight =
                       IF client = NoClient /\ w.items[i].weight > 0 THEN w.items[i].weight
                       ELSE w.items[i].old_weight
<1>1. w.items[i] \in ItemType
  BY DEF IsTable
<1>2. u.items[i] = IF w.items[i].id = id THEN Updated(w.items[i], client) ELSE w.items[i]
  BY DEF IsUpdate
<1>3. CASE w.items[i].id = id
  <2>1. u.items[i] = Updated(w.items[i], client)
    BY <1>2, <1>3
  <2>2. QED  BY <1>3, <2>1 DEF Updated
<1>4. CASE w.items[i].id # id
  BY <1>2, <1>4
<1>5. QED  BY <1>3, <1>4

(* A node that is added where it was not. *)
LEMMA Adds ==
    ASSUME NEW w, IsTable(w), NEW client \in Clients \cup {NoClient},
           NEW id \in Nodes, NEW weight \in Nat, Get(w, id) = 0
    PROVE  LET u    == add_node(w, client, id, weight)
               item == [id |-> id, item |-> client, weight |-> weight, old_weight |-> weight]
           IN  /\ IsTable(u) /\ Exact(u) /\ SamePlace(w, u)
               /\ DOMAIN u.items = 1..(Len(w.items) + 1)
               /\ \A i \in DOMAIN w.items : u.items[i] = w.items[i] /\ w.items[i].id # id
               /\ u.items[Len(w.items) + 1] = Updated(item, client)
<1> DEFINE n == Len(w.items)
           item == [id |-> id, item |-> client, weight |-> weight, old_weight |-> weight]
           s == Append(w.items, item)
           v == [w EXCEPT !.items = s]
           added == recalc(v)
           Switched(x) == IF client # NoClient THEN On(x) ELSE Off(x)
           t == [i \in DOMAIN s |-> IF s[i].id = id THEN Switched(s[i]) ELSE s[i]]
           x == [added EXCEPT !.items = t]
<1>1. n \in Nat /\ DOMAIN w.items = 1..n /\ w.items \in Seq(ItemType) /\ item \in ItemType
  BY DEF IsTable, ItemType
<1>2. \A i \in DOMAIN w.items : w.items[i].id # id
  BY <1>1, GetFinds
<1>3. /\ s \in Seq(ItemType) /\ DOMAIN s = 1..(n + 1)
      /\ \A i \in 1..n : s[i] = w.items[i]
      /\ s[n + 1] = item
  BY <1>1
<1>4. \A i, j \in DOMAIN s : s[i].id = s[j].id => i = j
  <2>1. item.id = id
    OBVIOUS
  <2> HIDE DEF s, n, item
  <2>2. QED  BY <1>1, <1>2, <1>3, <2>1 DEF IsTable
<1>5. IsTable(v) /\ v.items = s /\ SamePlace(w, v)
  <2>1. v = [items |-> s, w_gcd |-> w.w_gcd, w_max |-> w.w_max, index |-> w.index, cw |-> w.cw]
    BY PutItems DEF IsTable
  <2> HIDE DEF s, v, item, n
  <2>2. v.items = s /\ IsRecord(v) /\ HasNumbers(v) /\ SamePlace(w, v)
    BY <2>1, SameNumbers
  <2>3. QED  BY <1>3, <1>4, <2>2 DEF IsTable
<1>6. IsTable(added) /\ added.items = s /\ SamePlace(w, added)
  <2> HIDE DEF v
  <2>1. QED  BY <1>5, RecalcIsExact DEF SamePlace
<1>7. Switched(item) = Updated(item, client) /\ Switched(item) \in ItemType
      /\ Switched(item).id = id
  <2>1. Switched(item) = Updated(item, client)
    BY <1>1, OnOff DEF Updated
  <2>2. Switched(item) \in ItemType
    BY <1>1, OnOff, Zenon
  <2>3. Updated(item, client).id = id
    BY DEF Updated
  <2>4. QED  BY <2>1, <2>2, <2>3, Zenon
<1>8. /\ DOMAIN t = 1..(n + 1)
      /\ \A i \in 1..n : t[i] = w.items[i]
      /\ t[n + 1] = Switched(item)
  <2>1. item.id = id
    OBVIOUS
  <2> HIDE DEF s, n, item, Switched
  <2>2. QED  BY <1>1, <1>2, <1>3, <2>1
<1>9. t \in Seq(ItemType) /\ \A i, j \in DOMAIN t : t[i].id = t[j].id => i = j
  <2> HIDE DEF t, n, item, Switched
  <2>1. \A i \in 1..(n + 1) : t[i] \in ItemType
    BY <1>1, <1>7, <1>8
  <2>2. \A i, j \in 1..(n + 1) : t[i].id = t[j].id => i = j
    <3>1. n \in Nat /\ DOMAIN w.items = 1..n
      BY <1>1
    <3>2. \A i, j \in 1..n : t[i].id = t[j].id => i = j
      BY <1>8, <3>1 DEF IsTable
    <3>3. \A i \in 1..n : t[i].id # t[n + 1].id
      BY <1>2, <1>7, <1>8, <3>1
    <3>4. \A i \in 1..(n + 1) : i \in 1..n \/ i = n + 1
      BY <3>1
    <3>5. QED  BY <3>2, <3>3, <3>4, Zenon
  <2>3. t \in [1..(n + 1) -> ItemType]
    <3>1. t = [i \in 1..(n + 1) |-> t[i]]
      BY <1>8 DEF t
    <3>2. QED  BY <2>1, <3>1
  <2>4. QED  BY <1>1, <1>8, <2>2, <2>3
<1>10. IsTable(x) /\ x.items = t /\ SamePlace(w, x)
  <2>1. IsRecord(added)
    BY <1>6 DEF IsTable
  <2> HIDE DEF t, added
  <2>2. x = [items |-> t, w_gcd |-> added.w_gcd, w_max |-> added.w_max,
             index |-> added.index, cw |-> added.cw]
    BY <2>1, PutItems
  <2> HIDE DEF x
  <2>3. x.items = t /\ IsRecord(x) /\ HasNumbers(x) /\ SamePlace(added, x)
    BY <1>6, <2>2, SameNumbers
  <2>4. SamePlace(w, x)
    BY <1>6, <2>3 DEF SamePlace
  <2>5. QED  BY <1>9, <2>3, <2>4 DEF IsTable
<1>11. add_node(w, client, id, weight) = recalc(x)
  <2>1. add_node(w, client, id, weight) = switch(added, id, client # NoClient)
    BY DEF add_node
  <2>2. switch(added, id, client # NoClient) =
            recalc([added EXCEPT !.items =
                [i \in DOMAIN added.items |->
                    IF added.items[i].id = id THEN Switched(added.items[i])
                    ELSE added.items[i]]])
    BY DEF switch
  <2> HIDE DEF added, s
  <2>3. QED  BY <1>6, <2>1, <2>2
<1>12. /\ IsTable(recalc(x)) /\ Exact(recalc(x)) /\ SamePlace(w, recalc(x))
       /\ recalc(x).items = t
  <2> HIDE DEF x, t
  <2>1. QED  BY <1>10, RecalcIsExact DEF SamePlace
<1> HIDE DEF x, t, Switched, added, v, s
<1>13. QED  BY <1>1, <1>2, <1>7, <1>8, <1>11, <1>12

(* A node that is removed: what is left was there, without the node. *)
LEMMA Removes ==
    ASSUME NEW w, IsTable(w), NEW id, Get(w, id) # 0
    PROVE  LET u == remove(w, id)
           IN  /\ IsTable(u) /\ Exact(u)
               /\ \A j \in DOMAIN u.items :
                     /\ u.items[j].id # id
                     /\ \E k \in DOMAIN w.items : u.items[j] = w.items[k]
<1> DEFINE i == Get(w, id)
           n == Len(w.items)
           s == RemoveAt(w.items, i)
           v == [w EXCEPT !.items = s]
           At(j) == IF j < i THEN j ELSE j + 1
<1>1. /\ i \in DOMAIN w.items
      /\ \A j \in DOMAIN w.items : w.items[j].id = id => j = i
  BY GetFinds
<1>2. n \in Nat /\ DOMAIN w.items = 1..n /\ w.items \in Seq(ItemType)
  BY DEF IsTable
<1> HIDE DEF i
<1>3. s \in Seq(ItemType) /\ Len(s) = n - 1 /\ \A j \in 1..(n - 1) : s[j] = w.items[At(j)]
  <2> DEFINE a == SubSeq(w.items, 1, i - 1)
             b == SubSeq(w.items, i + 1, n)
  <2>1. i \in 1..n
    BY <1>1, <1>2
  <2>2. a \in Seq(ItemType) /\ Len(a) = i - 1 /\ \A j \in 1..(i - 1) : a[j] = w.items[j]
    BY <1>2, <2>1
  <2>3. b \in Seq(ItemType) /\ Len(b) = n - i /\ \A j \in 1..(n - i) : b[j] = w.items[i + j]
    BY <1>2, <2>1
  <2>4. s = a \o b
    BY DEF RemoveAt
  <2> HIDE DEF a, b, s, n
  <2>5. s \in Seq(ItemType) /\ Len(s) = n - 1
    BY <1>2, <2>1, <2>2, <2>3, <2>4
  <2>6. \A j \in 1..(i - 1) : s[j] = w.items[j]
    BY <1>2, <2>1, <2>2, <2>3, <2>4
  <2>7. ASSUME NEW j \in i..(n - 1)  PROVE s[j] = w.items[j + 1]
    <3>1. j - (i - 1) \in 1..(n - i) /\ j \in Len(a) + 1..Len(a) + Len(b)
      BY <1>2, <2>1, <2>2, <2>3, <2>7
    <3>2. s[j] = b[j - (i - 1)]
      BY <1>2, <2>1, <2>2, <2>3, <2>4, <3>1
    <3>3. b[j - (i - 1)] = w.items[i + (j - (i - 1))] /\ i + (j - (i - 1)) = j + 1
      BY <1>2, <2>1, <2>3, <2>7, <3>1
    <3>4. QED  BY <3>2, <3>3
  <2>8. QED  BY <1>2, <2>1, <2>5, <2>6, <2>7
<1>4. DOMAIN s = 1..(n - 1)
  BY <1>2, <1>3
<1> HIDE DEF s
<1>5. \A j \in 1..(n - 1) : At(j) \in DOMAIN w.items /\ At(j) # i
  BY <1>1, <1>2
<1>6. \A j, k \in 1..(n - 1) : At(j) = At(k) => j = k
  BY <1>1, <1>2
<1> HIDE DEF At, n
<1>7. \A j, k \in DOMAIN s : s[j].id = s[k].id => j = k
  BY <1>3, <1>4, <1>5, <1>6 DEF IsTable
<1>8. \A j \in DOMAIN s : s[j].id # id /\ \E k \in DOMAIN w.items : s[j] = w.items[k]
  BY <1>1, <1>3, <1>4, <1>5
<1>9. IsTable(v) /\ v.items = s
  <2>1. v = [items |-> s, w_gcd |-> w.w_gcd, w_max |-> w.w_max, index |-> w.index, cw |-> w.cw]
    BY PutItems DEF IsTable
  <2> HIDE DEF v
  <2>2. v.items = s /\ IsRecord(v) /\ HasNumbers(v)
    BY <2>1, SameNumbers
  <2>3. QED  BY <1>3, <1>7, <2>2 DEF IsTable
<1>10. remove(w, id) = recalc(v)
  BY DEF remove, s, i
<1> HIDE DEF v
<1>11. IsTable(recalc(v)) /\ Exact(recalc(v)) /\ recalc(v).items = s
  BY <1>9, RecalcIsExact
<1>12. QED  BY <1>8, <1>10, <1>11

(* The positions that run() looks at before and after it lowers the        *)
(* current weight.                                                         *)
Ahead(w) == IF (w.index + 1) % Len(w.items) = 0 THEN {}
            ELSE ((w.index + 1) % Len(w.items))..(Len(w.items) - 1)

Behind(w) == (0..(Len(w.items) - 1)) \ Ahead(w)

AheadHits(w) == Hits(w, Ahead(w), w.cw)

BehindHits(w) == Hits(w, Behind(w), Lowered(w))

(* What run() finds, and where it leaves the table. *)
LEMMA RunCases ==
    ASSUME NEW w
    PROVE  /\ Len(w.items) = 0 => run(w) = [wrr |-> w, at |-> -1]
           /\ Len(w.items) # 0 /\ AheadHits(w) # {} =>
                /\ run(w).at = Min(AheadHits(w))
                /\ run(w).wrr = AtPosition(w, Min(AheadHits(w)), w.cw)
           /\ Len(w.items) # 0 /\ AheadHits(w) = {} /\ Lowered(w) = 0 =>
                run(w).at = -1 /\ run(w).wrr = AtPosition(w, 0, 0)
           /\ Len(w.items) # 0 /\ AheadHits(w) = {} /\ Lowered(w) # 0 /\ BehindHits(w) # {} =>
                /\ run(w).at = Min(BehindHits(w))
                /\ run(w).wrr = AtPosition(w, Min(BehindHits(w)), Lowered(w))
           /\ Len(w.items) # 0 /\ AheadHits(w) = {} /\ Lowered(w) # 0 /\ BehindHits(w) = {} =>
                /\ run(w).at = -1
                /\ run(w).wrr = AtPosition(w, (w.index + Len(w.items)) % Len(w.items), Lowered(w))
<1> DEFINE n == Len(w.items)
           Result(index, weight, at) ==
               [wrr |-> [w EXCEPT !.index = index, !.cw = weight], at |-> at]
           hits == AheadHits(w)
           later == BehindHits(w)
           cw == Lowered(w)
<1>1. run(w) = IF n = 0           THEN [wrr |-> w, at |-> -1]
               ELSE IF hits # {}  THEN Result(Min(hits), w.cw, Min(hits))
               ELSE IF cw = 0     THEN Result(0, 0, -1)
               ELSE IF later # {} THEN Result(Min(later), cw, Min(later))
               ELSE Missed(w, cw)
  BY Zenon DEF run, AheadHits, BehindHits, Ahead, Behind
<1>2. /\ \A index, weight, at : Result(index, weight, at).wrr = AtPosition(w, index, weight)
      /\ \A index, weight, at : Result(index, weight, at).at = at
  BY Zenon DEF AtPosition
<1>3. Missed(w, cw).wrr = AtPosition(w, (w.index + n) % n, cw) /\ Missed(w, cw).at = -1
  BY Zenon DEF Missed, AtPosition
<1> HIDE DEF n, Result, hits, later, cw
<1>4. n = 0 => run(w) = [wrr |-> w, at |-> -1]
  BY <1>1
<1>5. n # 0 /\ hits # {} =>
          run(w).at = Min(hits) /\ run(w).wrr = AtPosition(w, Min(hits), w.cw)
  <2> SUFFICES ASSUME n # 0, hits # {}
               PROVE  run(w).at = Min(hits) /\ run(w).wrr = AtPosition(w, Min(hits), w.cw)
    OBVIOUS
  <2>1. run(w) = Result(Min(hits), w.cw, Min(hits))
    BY <1>1
  <2>2. run(w).wrr = AtPosition(w, Min(hits), w.cw)
    BY <1>2, <2>1
  <2>3. run(w).at = Min(hits)
    BY <1>2, <2>1
  <2>4. QED  BY <2>2, <2>3
<1>6. n # 0 /\ hits = {} /\ cw = 0 => run(w).at = -1 /\ run(w).wrr = AtPosition(w, 0, 0)
  <2> SUFFICES ASSUME n # 0, hits = {}, cw = 0
               PROVE  run(w).at = -1 /\ run(w).wrr = AtPosition(w, 0, 0)
    OBVIOUS
  <2>1. run(w) = Result(0, 0, -1)
    BY <1>1
  <2>2. run(w).wrr = AtPosition(w, 0, 0)
    BY <1>2, <2>1
  <2>3. run(w).at = -1
    BY <1>2, <2>1
  <2>4. QED  BY <2>2, <2>3
<1>7. n # 0 /\ hits = {} /\ cw # 0 /\ later # {} =>
          run(w).at = Min(later) /\ run(w).wrr = AtPosition(w, Min(later), cw)
  <2> SUFFICES ASSUME n # 0, hits = {}, cw # 0, later # {}
               PROVE  run(w).at = Min(later) /\ run(w).wrr = AtPosition(w, Min(later), cw)
    OBVIOUS
  <2>1. run(w) = Result(Min(later), cw, Min(later))
    BY <1>1
  <2>2. run(w).wrr = AtPosition(w, Min(later), cw)
    BY <1>2, <2>1
  <2>3. run(w).at = Min(later)
    BY <1>2, <2>1
  <2>4. QED  BY <2>2, <2>3
<1>8. n # 0 /\ hits = {} /\ cw # 0 /\ later = {} =>
          run(w).at = -1 /\ run(w).wrr = AtPosition(w, (w.index + n) % n, cw)
  <2> SUFFICES ASSUME n # 0, hits = {}, cw # 0, later = {}
               PROVE  run(w).at = -1 /\ run(w).wrr = AtPosition(w, (w.index + n) % n, cw)
    OBVIOUS
  <2>1. run(w) = Missed(w, cw)
    BY <1>1
  <2>2. QED  BY <1>3, <2>1, Zenon
<1>9. QED  BY <1>4, <1>5, <1>6, <1>7, <1>8, Zenon DEF n, hits, later, cw

(* Positions count from 0. *)
LEMMA PositionsAre ==
    ASSUME NEW w, IsTable(w), Len(w.items) # 0
    PROVE  /\ Len(w.items) \in Nat /\ DOMAIN w.items = 1..Len(w.items)
           /\ Ahead(w) \subseteq 0..(Len(w.items) - 1)
           /\ Behind(w) \subseteq 0..(Len(w.items) - 1)
           /\ 0..(Len(w.items) - 1) = Ahead(w) \cup Behind(w)
           /\ (w.index + Len(w.items)) % Len(w.items) \in Nat
           /\ Lowered(w) \in Nat
<1> DEFINE n == Len(w.items)
           m == w.index + 1
<1>1. n \in Nat /\ n > 0 /\ DOMAIN w.items = 1..n /\ m \in Nat
      /\ w.index \in Nat \cup {-1} /\ w.index + n \in Nat
  BY DEF IsTable, HasNumbers
<1> HIDE DEF n, m
<1>2. m % n \in 0..(n - 1) /\ (w.index + n) % n \in 0..(n - 1)
  BY <1>1, RestIs
<1>3. Ahead(w) \subseteq 0..(n - 1)
  <2>1. \A i \in 0..(n - 1) : i..(n - 1) \subseteq 0..(n - 1)
    BY <1>1
  <2>2. Ahead(w) = IF m % n = 0 THEN {} ELSE (m % n)..(n - 1)
    BY DEF Ahead, m, n
  <2>3. QED  BY <1>2, <2>1, <2>2
<1>4. Behind(w) = (0..(n - 1)) \ Ahead(w)
  BY DEF Behind, n
<1>5. Lowered(w) \in Nat
  BY DEF Lowered, IsTable, HasNumbers
<1>6. QED  BY <1>1, <1>2, <1>3, <1>4, <1>5 DEF n

(* A packet changes where the table is, and nothing else. *)
LEMMA Moves ==
    ASSUME NEW w, IsTable(w), NEW index \in Nat \cup {-1}, NEW cw \in Nat
    PROVE  LET u == AtPosition(w, index, cw)
           IN  /\ IsTable(u) /\ (Exact(w) => Exact(u))
               /\ u.items = w.items /\ u.w_gcd = w.w_gcd /\ u.w_max = w.w_max
               /\ u.cw = cw
<1> DEFINE u == AtPosition(w, index, cw)
<1>1. u = [items |-> w.items, w_gcd |-> w.w_gcd, w_max |-> w.w_max,
           index |-> index, cw |-> cw]
  BY PutIndex DEF IsTable, AtPosition
<1> HIDE DEF u
<1>2. /\ u.items = w.items /\ IsRecord(u) /\ HasNumbers(u)
      /\ u.w_gcd = w.w_gcd /\ u.w_max = w.w_max /\ u.cw = cw
  BY <1>1 DEF IsTable, IsRecord, HasNumbers
<1>3. WeightsOf(u) = WeightsOf(w)
  BY <1>2, SameWeights
<1>4. IsTable(u) /\ (Exact(w) => Exact(u))
  BY <1>2, <1>3 DEF IsTable, Exact
<1>5. QED  BY <1>2, <1>4 DEF u

(* A packet leaves the table exact. *)
LEMMA Runs ==
    ASSUME NEW w, IsTable(w)
    PROVE  /\ IsTable(run(w).wrr) /\ (Exact(w) => Exact(run(w).wrr))
           /\ run(w).wrr.items = w.items
           /\ run(w).wrr.w_gcd = w.w_gcd /\ run(w).wrr.w_max = w.w_max
<1> DEFINE Kept(u) == /\ IsTable(u) /\ (Exact(w) => Exact(u)) /\ u.items = w.items
                      /\ u.w_gcd = w.w_gcd /\ u.w_max = w.w_max
<1>1. ASSUME NEW index \in Nat \cup {-1}, NEW cw \in Nat
      PROVE  Kept(AtPosition(w, index, cw))
  BY Moves
<1>2. CASE Len(w.items) = 0
  <2>1. run(w).wrr = w
    BY <1>2, RunCases
  <2>2. QED  BY <2>1
<1>3. CASE Len(w.items) # 0
  <2>1. /\ AheadHits(w) \in SUBSET Nat /\ BehindHits(w) \in SUBSET Nat
        /\ w.cw \in Nat /\ Lowered(w) \in Nat /\ 0 \in Nat
        /\ (w.index + Len(w.items)) % Len(w.items) \in Nat
    BY <1>3, PositionsAre DEF AheadHits, BehindHits, Hits, IsTable, HasNumbers
  <2>2. \E index, cw \in Nat : run(w).wrr = AtPosition(w, index, cw)
    <3>1. CASE AheadHits(w) # {}
      BY <1>3, <2>1, <3>1, MinIs, RunCases
    <3>2. CASE AheadHits(w) = {} /\ Lowered(w) = 0
      BY <1>3, <3>2, RunCases
    <3>3. CASE AheadHits(w) = {} /\ Lowered(w) # 0 /\ BehindHits(w) # {}
      BY <1>3, <2>1, <3>3, MinIs, RunCases
    <3>4. CASE AheadHits(w) = {} /\ Lowered(w) # 0 /\ BehindHits(w) = {}
      BY <1>3, <2>1, <3>4, RunCases
    <3>5. QED  BY <3>1, <3>2, <3>3, <3>4
  <2> HIDE DEF Kept
  <2>3. Kept(run(w).wrr)
    <3>1. PICK index \in Nat, cw \in Nat : run(w).wrr = AtPosition(w, index, cw)
      BY <2>2
    <3>2. Kept(AtPosition(w, index, cw))
      BY <1>1
    <3>3. QED  BY <3>1, <3>2
  <2>4. QED  BY <2>3 DEF Kept
<1>4. QED  BY <1>2, <1>3

(* In an exact table with a weight, the gcd bounds the weights from below  *)
(* and the maximum is one of them.                                         *)
LEMMA ExactNumbers ==
    ASSUME NEW w, IsTable(w), Exact(w), NEW e \in DOMAIN w.items, w.items[e].weight > 0
    PROVE  /\ w.w_gcd \in Nat \ {0}
           /\ \A i \in DOMAIN w.items : w.items[i].weight > 0 => w.w_gcd <= w.items[i].weight
           /\ \E i \in DOMAIN w.items : w.items[i].weight = w.w_max /\ w.items[i].weight > 0
<1> DEFINE weights == WeightsOf(w)
<1>1. /\ weights \in Seq(Nat) /\ DOMAIN weights = DOMAIN w.items
      /\ \A i \in DOMAIN w.items : weights[i] = w.items[i].weight /\ weights[i] \in Nat
  <2>1. /\ weights \in Seq(Nat) /\ DOMAIN weights = DOMAIN w.items
        /\ \A i \in DOMAIN w.items : weights[i] = w.items[i].weight
    BY WeightsAre
  <2> HIDE DEF weights
  <2>2. \A i \in DOMAIN weights : weights[i] \in Nat
    BY <2>1
  <2>3. QED  BY <2>1, <2>2
<1>2. w.w_gcd = GcdOf(weights) /\ w.w_max = Max({0} \cup ToSet(weights))
  BY DEF Exact
<1> HIDE DEF weights
<1>3. /\ w.w_gcd \in Nat
      /\ \A i \in DOMAIN weights : weights[i] > 0 => w.w_gcd \in 1..weights[i]
  BY <1>1, <1>2, GcdOfBounds
<1>4. /\ w.w_max \in Nat
      /\ \A i \in DOMAIN weights : weights[i] <= w.w_max
      /\ w.w_max # 0 => \E i \in DOMAIN weights : weights[i] = w.w_max
  BY <1>1, <1>2, MaxOfWeights
<1>5. weights[e] > 0 /\ weights[e] \in Nat /\ w.w_max > 0
  BY <1>1, <1>4
<1>6. w.w_gcd \in Nat \ {0}
  BY <1>1, <1>3, <1>5
<1>7. \A i \in DOMAIN w.items : w.items[i].weight > 0 => w.w_gcd <= w.items[i].weight
  BY <1>1, <1>3
<1>8. \E i \in DOMAIN w.items : w.items[i].weight = w.w_max /\ w.items[i].weight > 0
  <2>1. w.w_max # 0
    BY <1>5
  <2>2. PICK i \in DOMAIN weights : weights[i] = w.w_max
    BY <1>4, <2>1
  <2>3. i \in DOMAIN w.items /\ w.items[i].weight = w.w_max
    BY <1>1, <2>2
  <2>4. QED  BY <1>5, <2>3
<1>9. QED  BY <1>6, <1>7, <1>8

(* A packet that finds no item lowers the current weight by the gcd, and   *)
(* one that starts from a current weight of at most the gcd finds one.     *)
LEMMA RunLowers ==
    ASSUME NEW w, IsTable(w), Exact(w), NEW e \in DOMAIN w.items, w.items[e].weight > 0,
           run(w).at = -1
    PROVE  w.cw > w.w_gcd /\ run(w).wrr.cw = w.cw - w.w_gcd
<1> DEFINE n == Len(w.items)
<1>1. n # 0
  BY DEF IsTable
<1>2. /\ n \in Nat /\ DOMAIN w.items = 1..n
      /\ Ahead(w) \subseteq 0..(n - 1) /\ Behind(w) \subseteq 0..(n - 1)
      /\ 0..(n - 1) = Ahead(w) \cup Behind(w)
      /\ (w.index + n) % n \in Nat /\ Lowered(w) \in Nat
  BY <1>1, PositionsAre
<1>3. w.w_gcd \in Nat \ {0} /\ w.w_max \in Nat /\ w.cw \in Nat
  BY ExactNumbers DEF IsTable, HasNumbers
<1>4. \A i \in 1..n : w.items[i].weight \in Nat
  <2>1. ASSUME NEW i \in 1..n PROVE w.items[i].weight \in Nat
    <3>1. w.items[i] \in ItemType
      BY <1>2 DEF IsTable
    <3>2. QED  BY <3>1 DEF ItemType
  <2>2. QED  BY <2>1
<1>5. AheadHits(w) \in SUBSET Nat /\ BehindHits(w) \in SUBSET Nat
  BY <1>2 DEF AheadHits, BehindHits, Hits
<1>6. AheadHits(w) = {}
  <2> SUFFICES ASSUME AheadHits(w) # {} PROVE FALSE
    OBVIOUS
  <2>1. run(w).at = Min(AheadHits(w)) /\ Min(AheadHits(w)) \in Nat
    BY <1>1, <1>5, MinIs, RunCases
  <2>2. QED  BY <2>1
<1>7. PICK m \in 1..n : w.items[m].weight = w.w_max /\ w.items[m].weight > 0
  BY <1>2, ExactNumbers
<1>8. Lowered(w) # 0
  BY <1>3, <1>7 DEF Lowered
<1>9. BehindHits(w) = {}
  <2> SUFFICES ASSUME BehindHits(w) # {} PROVE FALSE
    OBVIOUS
  <2>1. run(w).at = Min(BehindHits(w)) /\ Min(BehindHits(w)) \in Nat
    BY <1>1, <1>5, <1>6, <1>8, MinIs, RunCases
  <2>2. QED  BY <2>1
<1>10. w.cw > w.w_gcd
  <2> SUFFICES ASSUME w.cw <= w.w_gcd PROVE FALSE
    BY <1>3
  <2>1. Lowered(w) = w.w_max
    BY <1>3 DEF Lowered
  <2>2. m - 1 \in 0..(n - 1) /\ (m - 1) + 1 = m
    BY <1>2, <1>7
  <2>3. CASE m - 1 \in Ahead(w)
    <3>1. w.w_gcd <= w.items[m].weight
      BY <1>2, <1>7, ExactNumbers
    <3>2. w.items[m].weight >= w.cw
      BY <1>2, <1>3, <1>4, <3>1
    <3>3. m - 1 \in AheadHits(w)
      BY <1>7, <2>2, <2>3, <3>2 DEF AheadHits, Hits
    <3>4. QED  BY <1>6, <3>3
  <2>4. CASE m - 1 \in Behind(w)
    <3>1. w.items[m].weight >= Lowered(w)
      BY <1>3, <1>7, <2>1
    <3>2. m - 1 \in BehindHits(w)
      BY <1>7, <2>2, <2>4, <3>1 DEF BehindHits, Hits
    <3>3. QED  BY <1>9, <3>2
  <2>5. QED  BY <1>2, <2>2, <2>3, <2>4
<1>11. Lowered(w) = w.cw - w.w_gcd
  BY <1>3, <1>10 DEF Lowered
<1>12. run(w).wrr = AtPosition(w, (w.index + n) % n, Lowered(w))
  BY <1>1, <1>6, <1>8, <1>9, RunCases
<1> DEFINE k == (w.index + n) % n
<1>13. AtPosition(w, k, Lowered(w)).cw = Lowered(w)
  <2>1. k \in Nat \cup {-1} /\ Lowered(w) \in Nat
    BY <1>2
  <2> HIDE DEF k
  <2>2. QED  BY <2>1, Moves
<1>14. QED  BY <1>10, <1>11, <1>12, <1>13

(* A table that routes nothing lowers its current weight with each packet. *)
LEMMA MissesLower ==
    ASSUME NEW w, IsTable(w), Exact(w), NEW e \in DOMAIN w.items, w.items[e].weight > 0,
           NEW K \in Nat, \A k \in 1..K : After(w, k).at = -1
    PROVE  \A k \in 1..K : w.cw - (k - 1) * w.w_gcd > w.w_gcd
<1> DEFINE g == w.w_gcd
           u(k) == After(w, k).wrr
           Low(k) == /\ IsTable(u(k)) /\ Exact(u(k)) /\ u(k).items = w.items
                     /\ u(k).w_gcd = g /\ u(k).cw = w.cw - k * g
<1>1. g \in Nat /\ w.cw \in Nat
  BY DEF IsTable, HasNumbers
<1> HIDE DEF g
<1>2. Low(0)
  <2>1. u(0) = w
    BY AfterSteps DEF FirstOf
  <2>2. w.cw = w.cw - 0 * g
    BY <1>1
  <2> HIDE DEF u
  <2>3. QED  BY <2>1, <2>2 DEF g
<1>3. ASSUME NEW k \in 1..K, Low(k - 1)
      PROVE  Low(k) /\ u(k - 1).cw > g
  <2>1. k - 1 \in Nat /\ k = (k - 1) + 1
    OBVIOUS
  <2>2. After(w, k) = run(u(k - 1))
    BY <2>1, AfterSteps
  <2>3. run(u(k - 1)).at = -1
    BY <2>2
  <2>4. u(k) = run(u(k - 1)).wrr
    BY <2>2
  <2> HIDE DEF u
  <2>5. u(k - 1).cw > u(k - 1).w_gcd /\ u(k).cw = u(k - 1).cw - u(k - 1).w_gcd
    BY <1>3, <2>3, <2>4, RunLowers
  <2>6. IsTable(u(k)) /\ Exact(u(k)) /\ u(k).items = w.items /\ u(k).w_gcd = g
    BY <1>3, <2>4, Runs
  <2>7. (w.cw - (k - 1) * g) - g = w.cw - k * g
    BY <1>1
  <2>8. QED  BY <1>3, <2>5, <2>6, <2>7
<1> HIDE DEF u
<1>4. \A k \in 0..K : Low(k)
  <2> DEFINE Q == {k \in 0..K : ~Low(k)}
  <2> HIDE DEF Low
  <2> SUFFICES ASSUME Q # {} PROVE FALSE
    OBVIOUS
  <2>1. Q \in SUBSET Nat
    OBVIOUS
  <2>2. PICK k \in Q : \A j \in Q : k <= j
    BY <2>1, LeastIs
  <2>3. k \in 1..K /\ k - 1 \in 0..K /\ k - 1 < k /\ ~Low(k)
    BY <1>2, <2>2
  <2>4. Low(k - 1)
    BY <2>2, <2>3
  <2>5. QED  BY <1>3, <2>3, <2>4
<1>5. ASSUME NEW k \in 1..K PROVE w.cw - (k - 1) * g > g
  <2>1. k - 1 \in 0..K
    OBVIOUS
  <2>2. Low(k - 1)
    BY <1>4, <2>1
  <2>3. QED  BY <1>3, <2>2
<1>6. QED  BY <1>5 DEF g

(* As many packets as it takes to lower the current weight to the gcd find *)
(* an item.                                                                *)
LEMMA HitsAgain ==
    ASSUME NEW w, IsTable(w), Exact(w), NEW e \in DOMAIN w.items, w.items[e].weight > 0
    PROVE  \E k \in 1..(w.cw \div w.w_gcd + 1) : After(w, k).at # -1
<1> DEFINE q == w.cw \div w.w_gcd
<1>1. w.w_gcd \in Nat /\ w.w_gcd > 0 /\ w.cw \in Nat
  BY ExactNumbers DEF IsTable, HasNumbers
<1>2. w.cw = w.w_gcd * q + (w.cw % w.w_gcd) /\ q \in Nat /\ w.cw % w.w_gcd \in 0..(w.w_gcd - 1)
  BY <1>1, RestIs
<1> HIDE DEF q
<1>3. SUFFICES ASSUME \A k \in 1..(q + 1) : After(w, k).at = -1 PROVE FALSE
  BY DEF q
<1>4. q + 1 \in Nat /\ q + 1 \in 1..(q + 1)
  BY <1>2
<1>5. w.cw - ((q + 1) - 1) * w.w_gcd > w.w_gcd
  BY <1>3, <1>4, MissesLower
<1>6. (q + 1) - 1 = q /\ q * w.w_gcd = w.w_gcd * q
  BY <1>1, <1>2
<1>7. w.cw - w.w_gcd * q > w.w_gcd
  BY <1>5, <1>6
<1>8. QED  BY <1>1, <1>2, <1>7
-----------------------------------------------------------------------------
(* The recursion by which FoldLeft adds the numbers at the positions S. *)
SumOver(iter, f, S) ==
    iter = [s \in SUBSET S |-> IF s = {} THEN 0 ELSE iter[s \ {Max(s)}] + f[Max(s)]]

\* The sums of the first 0, 1, ..., n of the numbers f.
Sums(p, f, n) == /\ p \in [0..n -> Nat] /\ p[0] = 0
                 /\ \A m \in 1..n : p[m] = p[m - 1] + f[m]

\* The numbers f[1] .. f[n] add up to total.
AddUp(f, n, total) == \E p : Sums(p, f, n) /\ p[n] = total

\* The sum at m.
SumAt(p, f, m) == /\ m \in Nat /\ m - 1 \in Nat /\ p[m - 1] \in Nat /\ f[m] \in Nat
                  /\ p[m] = p[m - 1] + f[m]

(* The partial sums are numbers. *)
LEMMA SumsAre ==
    ASSUME NEW n \in Nat, NEW f \in [1..n -> Nat], NEW p, Sums(p, f, n)
    PROVE  /\ p[0] = 0 /\ \A m \in 0..n : p[m] \in Nat
           /\ \A m \in 1..n : SumAt(p, f, m)
<1>1. \A m \in 0..n : p[m] \in Nat
  BY DEF Sums
<1>2. \A m \in 1..n : m \in Nat /\ m - 1 \in 0..n /\ m - 1 \in Nat
  OBVIOUS
<1>3. \A m \in 1..n : f[m] \in Nat
  OBVIOUS
<1>4. p[0] = 0 /\ \A m \in 1..n : p[m] = p[m - 1] + f[m]
  BY DEF Sums
<1>5. QED  BY <1>1, <1>2, <1>3, <1>4 DEF SumAt

(* Sums of larger numbers are larger. *)
LEMMA SumOrder ==
    ASSUME NEW a \in Nat, NEW b \in Nat, NEW x \in Nat, NEW y \in Nat, a <= b, x <= y
    PROVE  a + x <= b + y /\ (a < b \/ x < y => a + x < b + y)
OBVIOUS

(* FoldLeft adds by that recursion. *)
LEMMA FoldIs ==
    ASSUME NEW f
    PROVE  FoldLeft(+, 0, f) = (CHOOSE iter : SumOver(iter, f, DOMAIN f))[DOMAIN f]
BY Zenon DEF FoldLeft, MapThenFoldSet, SumOver

(* The recursion has a function that satisfies it. *)
LEMMA SumExists ==
    ASSUME NEW f, NEW n \in Nat
    PROVE  \E iter : SumOver(iter, f, 1..n)
<1> DEFINE Q == {k \in Nat : ~\E iter : SumOver(iter, f, 1..k)}
<1> SUFFICES ASSUME Q # {} PROVE FALSE
  OBVIOUS
<1>1. PICK k \in Q : \A j \in Q : k <= j
  BY LeastIs
<1>2. CASE k = 0
  <2> DEFINE iter == [s \in SUBSET (1..0) |-> 0]
  <2>1. SumOver(iter, f, 1..0)
    <3>1. \A s \in SUBSET (1..0) : s = {}
      OBVIOUS
    <3>2. QED  BY <3>1 DEF SumOver
  <2>2. QED  BY <1>2, <2>1
<1>3. CASE k # 0
  <2>1. k \in Nat /\ k > 0 /\ k - 1 \in Nat /\ k - 1 < k
    BY <1>3
  <2>2. k - 1 \notin Q
    BY <1>1, <2>1
  <2>3. PICK h : SumOver(h, f, 1..(k - 1))
    BY <2>1, <2>2
  <2> DEFINE Value(s) == IF s = {} THEN 0 ELSE h[s \ {Max(s)}] + f[Max(s)]
             iter == [s \in SUBSET (1..k) |-> Value(s)]
  <2>4. \A s \in SUBSET (1..(k - 1)) : h[s] = Value(s)
    BY <2>3 DEF SumOver
  <2>5. \A s \in SUBSET (1..(k - 1)) : s \in SUBSET (1..k)
    BY <2>1
  <2>6. \A s \in SUBSET (1..(k - 1)) : iter[s] = h[s]
    BY <2>4, <2>5
  <2>7. \A s \in SUBSET (1..k) : s # {} => iter[s \ {Max(s)}] = h[s \ {Max(s)}]
    BY <2>1, <2>6, WithoutMax
  <2> HIDE DEF iter
  <2>8. \A s \in SUBSET (1..k) :
            Value(s) = IF s = {} THEN 0 ELSE iter[s \ {Max(s)}] + f[Max(s)]
    BY <2>7
  <2>9. SumOver(iter, f, 1..k)
    BY <2>8 DEF SumOver, iter
  <2>10. QED  BY <2>9
<1>4. QED  BY <1>2, <1>3

(* What FoldLeft adds up is the last of the partial sums. *)
LEMMA FoldAddsUp ==
    ASSUME NEW f, NEW n \in Nat, f \in [1..n -> Nat]
    PROVE  FoldLeft(+, 0, f) \in Nat /\ AddUp(f, n, FoldLeft(+, 0, f))
<1> DEFINE iter == CHOOSE h : SumOver(h, f, DOMAIN f)
           p == [m \in 0..n |-> iter[1..m]]
<1>1. SumOver(iter, f, 1..n)
  <2>1. DOMAIN f = 1..n
    OBVIOUS
  <2>2. QED  BY <2>1, SumExists
<1>2. FoldLeft(+, 0, f) = iter[1..n]
  BY FoldIs
<1> HIDE DEF iter
<1>3. \A m \in 0..n : p[m] = iter[1..m]
  OBVIOUS
<1>4. p[0] = 0
  <2>1. 1..0 = {} /\ {} \in SUBSET (1..n) /\ 0 \in 0..n
    OBVIOUS
  <2>2. iter[{}] = 0
    BY <1>1, <2>1 DEF SumOver
  <2> HIDE DEF p
  <2>3. QED  BY <1>3, <2>1, <2>2
<1>5. ASSUME NEW m \in 1..n PROVE p[m] = p[m - 1] + f[m]
  <2>1. (1..m) \in SUBSET (1..n) /\ 1..m # {} /\ m - 1 \in 0..n /\ m \in 0..n /\ m \in Nat
    OBVIOUS
  <2>2. Max(1..m) = m
    <3>1. (1..m) \in SUBSET (0..n) /\ m \in 1..m
      BY <2>1
    <3>2. Max(1..m) \in 1..m /\ \A k \in 1..m : k <= Max(1..m)
      BY <2>1, <3>1, MaxIs
    <3>3. QED  BY <2>1, <3>1, <3>2
  <2>3. (1..m) \ {m} = 1..(m - 1)
    BY <2>1
  <2>4. iter[1..m] = iter[(1..m) \ {Max(1..m)}] + f[Max(1..m)]
    BY <1>1, <2>1 DEF SumOver
  <2> HIDE DEF p
  <2>5. QED  BY <1>3, <2>1, <2>2, <2>3, <2>4
<1>6. \A m \in 0..n : p[m] \in Nat
  <2> DEFINE Q == {m \in 0..n : p[m] \notin Nat}
  <2> HIDE DEF p
  <2> SUFFICES ASSUME Q # {} PROVE FALSE
    OBVIOUS
  <2>1. Q \in SUBSET Nat
    OBVIOUS
  <2>2. PICK m \in Q : \A j \in Q : m <= j
    BY <2>1, LeastIs
  <2>3. m \in 1..n /\ m - 1 \in 0..n /\ m - 1 < m
    BY <1>4
  <2>4. p[m - 1] \in Nat
    BY <2>2, <2>3
  <2>5. f[m] \in Nat
    BY <2>3
  <2>6. QED  BY <1>5, <2>3, <2>4, <2>5
<1>7. p \in [0..n -> Nat]
  BY <1>6
<1>8. Sums(p, f, n)
  <2> HIDE DEF p
  <2>1. QED  BY <1>4, <1>5, <1>7 DEF Sums
<1>9. p[n] = FoldLeft(+, 0, f) /\ n \in 0..n
  <2>1. n \in 0..n
    OBVIOUS
  <2> HIDE DEF p
  <2>2. QED  BY <1>2, <1>3, <2>1
<1> HIDE DEF p
<1>10. QED  BY <1>6, <1>8, <1>9 DEF AddUp

(* Zeros add up to 0. *)
LEMMA AddUpZero ==
    ASSUME NEW n \in Nat
    PROVE  AddUp([j \in 1..n |-> 0], n, 0)
<1> DEFINE p == [m \in 0..n |-> 0]
<1>1. Sums(p, [j \in 1..n |-> 0], n) /\ p[n] = 0
  BY DEF Sums
<1>2. QED  BY <1>1 DEF AddUp

(* One number is increased by one, and so is the sum. *)
LEMMA AddUpMore ==
    ASSUME NEW n \in Nat, NEW f \in [1..n -> Nat], NEW h \in [1..n -> Nat], NEW total \in Nat,
           AddUp(f, n, total), NEW j \in 1..n, h[j] = f[j] + 1,
           \A i \in 1..n : i # j => h[i] = f[i]
    PROVE  AddUp(h, n, total + 1)
<1>1. PICK p : Sums(p, f, n) /\ p[n] = total
  BY DEF AddUp
<1>2. /\ p[0] = 0 /\ \A m \in 0..n : p[m] \in Nat
      /\ \A m \in 1..n : SumAt(p, f, m)
  BY <1>1, SumsAre
<1> DEFINE q == [m \in 0..n |-> IF m < j THEN p[m] ELSE p[m] + 1]
<1>3. \A m \in 0..n : q[m] = IF m < j THEN p[m] ELSE p[m] + 1
  OBVIOUS
<1>4. q = [m \in 0..n |-> q[m]]
  OBVIOUS
<1> HIDE DEF q
<1>5. ASSUME NEW m \in 0..n PROVE q[m] \in Nat
  <2>1. p[m] \in Nat /\ p[m] + 1 \in Nat
    BY <1>2
  <2>2. q[m] = p[m] \/ q[m] = p[m] + 1
    BY <1>3
  <2>3. QED  BY <2>1, <2>2
<1>6. q \in [0..n -> Nat]
  BY <1>4, <1>5
<1>7. q[0] = 0 /\ q[n] = total + 1
  <2>1. 0 \in 0..n /\ 0 < j /\ n \in 0..n /\ ~(n < j)
    OBVIOUS
  <2>2. QED  BY <1>1, <1>2, <1>3, <2>1
<1>8. ASSUME NEW m \in 1..n PROVE q[m] = q[m - 1] + h[m]
  <2>1. /\ m \in Nat /\ m - 1 \in 0..n /\ m \in 0..n
        /\ p[m] = p[m - 1] + f[m] /\ p[m - 1] \in Nat /\ f[m] \in Nat
    BY <1>2 DEF SumAt
  <2>2. /\ q[m] = IF m < j THEN p[m] ELSE p[m] + 1
        /\ q[m - 1] = IF m - 1 < j THEN p[m - 1] ELSE p[m - 1] + 1
    BY <1>3, <2>1
  <2>3. h[m] = IF m = j THEN f[m] + 1 ELSE f[m]
    OBVIOUS
  <2>4. m < j => m - 1 < j
    BY <2>1
  <2>5. m > j => ~(m < j) /\ ~(m - 1 < j) /\ m # j
    BY <2>1
  <2>6. m = j => ~(m < j) /\ m - 1 < j
    BY <2>1
  <2>7. m < j \/ m = j \/ m > j
    BY <2>1
  <2>8. \A a, b \in Nat : (a + b) + 1 = a + (b + 1) /\ (a + b) + 1 = (a + 1) + b
    OBVIOUS
  <2>9. (p[m - 1] + f[m]) + 1 = p[m - 1] + (f[m] + 1)
    BY ONLY <2>8, <2>1, Zenon
  <2>10. (p[m - 1] + f[m]) + 1 = (p[m - 1] + 1) + f[m]
    BY ONLY <2>8, <2>1, Zenon
  <2>11. CASE m < j
    <3>1. q[m] = p[m] /\ q[m - 1] = p[m - 1] /\ h[m] = f[m]
      BY <2>1, <2>2, <2>3, <2>4, <2>11
    <3>2. QED  BY <2>1, <3>1
  <2>12. CASE m = j
    <3>1. q[m] = p[m] + 1 /\ q[m - 1] = p[m - 1] /\ h[m] = f[m] + 1
      BY <2>2, <2>3, <2>6, <2>12
    <3>2. QED  BY ONLY <2>1, <2>9, <3>1, Zenon
  <2>13. CASE m > j
    <3>1. q[m] = p[m] + 1 /\ q[m - 1] = p[m - 1] + 1 /\ h[m] = f[m]
      BY <2>2, <2>3, <2>5, <2>13
    <3>2. QED  BY ONLY <2>1, <2>10, <3>1, Zenon
  <2>14. QED  BY <2>7, <2>11, <2>12, <2>13
<1>9. Sums(q, h, n)
  BY <1>8, <1>6, <1>7 DEF Sums
<1>10. QED  BY <1>9, <1>7 DEF AddUp

(* Numbers that are not larger and have the same sum are the same. *)
LEMMA AddUpSame ==
    ASSUME NEW n \in Nat, NEW f \in [1..n -> Nat], NEW h \in [1..n -> Nat], NEW total \in Nat,
           AddUp(f, n, total), AddUp(h, n, total),
           \A i \in 1..n : f[i] <= h[i]
    PROVE  \A i \in 1..n : f[i] = h[i]
<1>1. PICK p : Sums(p, f, n) /\ p[n] = total
  BY DEF AddUp
<1>2. PICK q : Sums(q, h, n) /\ q[n] = total
  BY DEF AddUp
<1> SUFFICES ASSUME NEW i \in 1..n, f[i] # h[i] PROVE FALSE
  OBVIOUS
<1>3. /\ p[0] = 0 /\ \A m \in 0..n : p[m] \in Nat
      /\ \A m \in 1..n : SumAt(p, f, m)
  BY <1>1, SumsAre
<1>4. /\ q[0] = 0 /\ \A m \in 0..n : q[m] \in Nat
      /\ \A m \in 1..n : SumAt(q, h, m)
  BY <1>2, SumsAre
<1> DEFINE Less(m) == p[m] <= q[m] /\ (m >= i => p[m] < q[m])
           Q == {m \in 0..n : ~Less(m)}
<1>5. ASSUME NEW m \in 1..n, Less(m - 1) PROVE Less(m)
  <2>1. p[m] = p[m - 1] + f[m] /\ m \in Nat /\ p[m - 1] \in Nat /\ f[m] \in Nat
    BY <1>3 DEF SumAt
  <2>2. q[m] = q[m - 1] + h[m] /\ q[m - 1] \in Nat /\ h[m] \in Nat
    BY <1>4 DEF SumAt
  <2>3. f[m] <= h[m]
    OBVIOUS
  <2>4. m = i => f[m] < h[m]
    BY <2>1, <2>2, <2>3
  <2>5. p[m - 1] <= q[m - 1] /\ (m - 1 >= i => p[m - 1] < q[m - 1])
    BY <1>5
  <2>6. /\ p[m - 1] + f[m] <= q[m - 1] + h[m]
        /\ p[m - 1] < q[m - 1] \/ f[m] < h[m] => p[m - 1] + f[m] < q[m - 1] + h[m]
    BY <2>1, <2>2, <2>3, <2>5, SumOrder
  <2>7. m >= i => m = i \/ m - 1 >= i
    BY <2>1
  <2>8. QED  BY <2>1, <2>2, <2>4, <2>5, <2>6, <2>7
<1>6. Less(0)
  <2>1. ~(0 >= i)
    OBVIOUS
  <2>2. QED  BY <1>3, <1>4, <2>1
<1>7. n \in Q
  <2>1. n \in 0..n /\ n >= i
    OBVIOUS
  <2>2. p[n] = q[n] /\ p[n] \in Nat
    BY <1>1, <1>2
  <2>3. ~(p[n] < q[n])
    BY <2>2
  <2>4. QED  BY <2>1, <2>3
<1> HIDE DEF Less
<1>8. Q \in SUBSET Nat /\ Q # {}
  <2>1. Q \in SUBSET Nat
    OBVIOUS
  <2>2. Q # {}
    BY <1>7
  <2>3. QED  BY <2>1, <2>2
<1>9. PICK m \in Q : \A j \in Q : m <= j
  BY <1>8, LeastIs
<1>10. m \in 1..n /\ m - 1 \in 0..n /\ m - 1 < m /\ ~Less(m)
  BY <1>6
<1>11. Less(m - 1)
  BY <1>9, <1>10
<1>12. QED  BY <1>5, <1>10, <1>11

(* The quotient of a multiple. *)
LEMMA Quotient ==
    ASSUME NEW g \in Nat, g > 0, NEW a \in Nat, NEW d \in Nat, NEW r \in 0..(g - 1),
           g * a = g * d + r
    PROVE  d = a
<1>1. ASSUME NEW x \in Nat, NEW y \in Nat, x > y PROVE g * x >= g * y + g
  <2> DEFINE z == x - y - 1
  <2>1. z \in Nat /\ x = y + z + 1
    BY <1>1
  <2> HIDE DEF z
  <2>2. g * x = g * y + g * z + g /\ g * z \in Nat
    BY <2>1
  <2>3. g * x \in Nat /\ g * y \in Nat
    OBVIOUS
  <2>4. QED  BY <2>2, <2>3
<1>2. g * a \in Nat /\ g * d \in Nat
  OBVIOUS
<1>3. ~(a > d)
  <2> SUFFICES ASSUME a > d PROVE FALSE
    OBVIOUS
  <2>1. g * a >= g * d + g
    BY <1>1
  <2>2. QED  BY <1>2, <2>1
<1>4. ~(d > a)
  <2> SUFFICES ASSUME d > a PROVE FALSE
    OBVIOUS
  <2>1. g * d >= g * a + g
    BY <1>1
  <2>2. QED  BY <1>2, <2>1
<1>5. QED  BY <1>3, <1>4

(* Multiples of g add up to g times the sum of the quotients. *)
LEMMA AddUpTimes ==
    ASSUME NEW n \in Nat, NEW f \in [1..n -> Nat], NEW h \in [1..n -> Nat], NEW g \in Nat,
           g > 0, NEW total \in Nat, AddUp(h, n, total), \A i \in 1..n : h[i] = g * f[i]
    PROVE  total \div g \in Nat /\ AddUp(f, n, total \div g)
<1>1. PICK p : Sums(p, h, n) /\ p[n] = total
  BY DEF AddUp
<1>2. FoldLeft(+, 0, f) \in Nat /\ AddUp(f, n, FoldLeft(+, 0, f))
  BY FoldAddsUp
<1>3. PICK q : Sums(q, f, n) /\ q[n] = FoldLeft(+, 0, f)
  BY <1>2 DEF AddUp
<1>4. \A m \in 1..n : SumAt(p, h, m)
  BY <1>1, SumsAre
<1>5. \A m \in 1..n : SumAt(q, f, m)
  BY <1>3, SumsAre
<1> DEFINE Good(m) == p[m] = g * q[m]
           Q == {m \in 0..n : ~Good(m)}
<1>6. ASSUME NEW m \in 1..n, Good(m - 1) PROVE Good(m)
  <2>1. p[m] = p[m - 1] + h[m] /\ p[m - 1] = g * q[m - 1] /\ h[m] = g * f[m]
    BY <1>4, <1>6 DEF SumAt
  <2>2. q[m] = q[m - 1] + f[m] /\ q[m - 1] \in Nat /\ f[m] \in Nat
    BY <1>5 DEF SumAt
  <2>3. \A a, b \in Nat : g * (a + b) = g * a + g * b
    OBVIOUS
  <2>4. g * (q[m - 1] + f[m]) = g * q[m - 1] + g * f[m]
    BY <2>2, <2>3
  <2>5. QED  BY <2>1, <2>2, <2>4
<1>7. Good(0)
  <2>1. p[0] = 0
    BY <1>1 DEF Sums
  <2>2. q[0] = 0
    BY <1>3 DEF Sums
  <2>3. g * 0 = 0
    OBVIOUS
  <2>4. QED  BY <2>1, <2>2, <2>3
<1>8. Q = {}
  <2> HIDE DEF Good
  <2> SUFFICES ASSUME Q # {} PROVE FALSE
    OBVIOUS
  <2>1. Q \in SUBSET Nat
    OBVIOUS
  <2>2. PICK m \in Q : \A j \in Q : m <= j
    BY <2>1, LeastIs
  <2>3. m \in 1..n /\ m - 1 \in 0..n /\ m - 1 < m /\ ~Good(m)
    BY <1>7
  <2>4. Good(m - 1)
    BY <2>2, <2>3
  <2>5. QED  BY <1>6, <2>3, <2>4
<1>9. total = g * q[n] /\ q[n] \in Nat
  <2>1. n \in 0..n
    OBVIOUS
  <2>2. Good(n)
    BY <1>8, <2>1
  <2>3. q[n] \in Nat
    BY <1>3, <2>1, SumsAre
  <2>4. QED  BY <1>1, <2>2, <2>3
<1> DEFINE d == total \div g
           r == total % g
<1>10. total = g * d + r /\ d \in Nat /\ r \in 0..(g - 1)
  BY RestIs
<1> HIDE DEF d, r
<1>11. d = q[n]
  <2>1. g * q[n] = g * d + r
    BY <1>9, <1>10
  <2>2. QED  BY <1>9, <1>10, <2>1, Quotient
<1>12. QED  BY <1>2, <1>3, <1>10, <1>11 DEF d

(* The weights in units of their gcd. *)
InUnits(w, v, M) ==
    /\ v \in [1..Len(w.items) -> 0..M] /\ M \in Nat \ {0}
    /\ w.w_gcd \in Nat \ {0} /\ w.w_max = M * w.w_gcd
    /\ \A i \in 1..Len(w.items) : w.items[i].weight = v[i] * w.w_gcd
    /\ \E i \in 1..Len(w.items) : v[i] = M

(* The table is at level L of the weights, after position E; before the   *)
(* first packet, as after a round.                                         *)
AtLevel(w, M, L, E) ==
    /\ L \in 1..M /\ E \in 0..(Len(w.items) - 1)
    /\ w.cw = L * w.w_gcd \/ (w.cw = 0 /\ L = 1)
    /\ E = IF w.index = -1 THEN Len(w.items) - 1 ELSE w.index

(* What an item was given since the level was the maximum. *)
Given(v, L, E, i) == (IF v[i] > L THEN v[i] - L ELSE 0)
                        + (IF i <= E + 1 /\ v[i] >= L THEN 1 ELSE 0)

(* The position of the next packet *)
NextAt(v, M, L, E, L2, E2) ==
    \/ /\ L2 = L /\ E2 > E /\ v[E2 + 1] >= L
       /\ \A i \in DOMAIN v : i > E + 1 /\ v[i] >= L => i >= E2 + 1
    \/ /\ \A i \in DOMAIN v : v[i] >= L => i <= E + 1
       /\ L2 = IF L > 1 THEN L - 1 ELSE M
       /\ E2 <= E /\ v[E2 + 1] >= L2
       /\ \A i \in DOMAIN v : v[i] >= L2 /\ i <= E + 1 => i >= E2 + 1

(* Multiples are ordered as their factors are. *)
LEMMA TimesOrder ==
    ASSUME NEW g \in Nat \ {0}, NEW a \in Nat, NEW b \in Nat
    PROVE  a * g \in Nat /\ (a * g >= b * g <=> a >= b)
<1>1. a * g \in Nat /\ b * g \in Nat /\ g > 0
  OBVIOUS
<1>2. ASSUME a >= b PROVE a * g >= b * g
  <2> DEFINE c == a - b
  <2>1. c \in Nat /\ a = b + c
    BY <1>2
  <2> HIDE DEF c
  <2>2. a * g = b * g + c * g /\ c * g \in Nat
    BY <2>1
  <2>3. QED  BY <1>1, <2>2
<1>3. ASSUME ~(a >= b) PROVE ~(a * g >= b * g)
  <2> DEFINE c == b - a - 1
  <2>1. c \in Nat /\ b = a + 1 + c
    BY <1>3
  <2> HIDE DEF c
  <2>2. b * g = a * g + g + c * g /\ c * g \in Nat
    BY <2>1
  <2>3. QED  BY <1>1, <2>2
<1>4. QED  BY <1>1, <1>2, <1>3

(* What run() looks at, in units. *)
LEMMA LooksAt ==
    ASSUME NEW w, IsTable(w), NEW v, NEW M, NEW L, NEW E, InUnits(w, v, M), AtLevel(w, M, L, E)
    PROVE  /\ Len(w.items) \in Nat \ {0}
           /\ Ahead(w) = (E + 1)..(Len(w.items) - 1)
           /\ Behind(w) = 0..E
           /\ Lowered(w) = (IF L > 1 THEN L - 1 ELSE M) * w.w_gcd
           /\ AheadHits(w) = {p \in (E + 1)..(Len(w.items) - 1) : v[p + 1] >= L}
           /\ L > 1 => BehindHits(w) = {p \in 0..E : v[p + 1] >= L - 1}
           /\ L = 1 => BehindHits(w) = {p \in 0..E : v[p + 1] >= M}
<1> DEFINE n == Len(w.items)
           g == w.w_gcd
           x == w.index
           L2 == IF L > 1 THEN L - 1 ELSE M
<1>1. n \in Nat /\ M \in Nat \ {0} /\ L \in 1..M /\ E \in 0..(n - 1) /\ g \in Nat \ {0}
      /\ x \in Nat \cup {-1} /\ w.cw \in Nat /\ w.w_max = M * g
      /\ (w.cw = L * g \/ (w.cw = 0 /\ L = 1))
      /\ E = IF x = -1 THEN n - 1 ELSE x
  BY DEF IsTable, HasNumbers, InUnits, AtLevel
<1>2. /\ \A i \in 1..n : v[i] \in 0..M /\ w.items[i].weight = v[i] * g
  BY DEF InUnits
<1>3. Ahead(w) = IF (x + 1) % n = 0 THEN {} ELSE ((x + 1) % n)..(n - 1)
  BY DEF Ahead
<1>4. Behind(w) = (0..(n - 1)) \ Ahead(w)
  BY DEF Behind
<1>5. Lowered(w) = IF w.cw - g <= 0 THEN w.w_max ELSE w.cw - g
  BY DEF Lowered
<1>6. AheadHits(w) = {p \in Ahead(w) : w.items[p + 1].weight > 0 /\ w.items[p + 1].weight >= w.cw}
  BY DEF AheadHits, Hits
<1>7. BehindHits(w) = {p \in Behind(w) : w.items[p + 1].weight > 0
                                          /\ w.items[p + 1].weight >= Lowered(w)}
  BY DEF BehindHits, Hits
<1> HIDE DEF n, g, x
<1>8. Ahead(w) = (E + 1)..(n - 1)
  <2>1. CASE E = n - 1
    <3>1. x + 1 = 0 \/ x + 1 = n
      BY <1>1, <2>1
    <3>2. 0 % n = 0 /\ n % n = 0
      BY <1>1
    <3>3. (x + 1) % n = 0
      BY <3>1, <3>2
    <3>4. (E + 1)..(n - 1) = {}
      BY <1>1, <2>1
    <3>5. QED  BY <1>3, <3>3, <3>4
  <2>2. CASE E # n - 1
    <3>1. x = E /\ x + 1 \in 1..(n - 1)
      BY <1>1, <2>2
    <3>2. (x + 1) % n = x + 1
      BY <1>1, <3>1
    <3>3. (x + 1) % n # 0
      BY <3>1, <3>2
    <3>4. QED  BY <1>3, <3>1, <3>2, <3>3
  <2>3. QED  BY <2>1, <2>2
<1>9. Behind(w) = 0..E
  BY <1>1, <1>4, <1>8
<1>10. L2 \in 1..M /\ (L > 1 => L2 = L - 1) /\ (L = 1 => L2 = M)
  BY <1>1
<1>11. Lowered(w) = L2 * g
  <2>1. CASE L = 1
    <3>1. w.cw - g <= 0
      BY <1>1, <2>1
    <3>2. QED  BY <1>1, <1>5, <1>10, <2>1, <3>1
  <2>2. CASE L > 1
    <3>1. w.cw = L * g /\ L * g - g = (L - 1) * g
      BY <1>1, <2>2
    <3>2. L - 1 \in Nat /\ L - 1 >= 1
      BY <1>1, <2>2
    <3>3. (L - 1) * g >= 1 * g
      BY <1>1, <3>2, TimesOrder
    <3>4. 1 * g = g
      BY <1>1
    <3>5. ~(w.cw - g <= 0)
      BY <1>1, <3>1, <3>3, <3>4
    <3>6. QED  BY <1>5, <1>10, <2>2, <3>1, <3>5
  <2>3. QED  BY <1>1, <2>1, <2>2
<1> HIDE DEF L2
<1>12. ASSUME NEW i \in 1..n, NEW k \in 1..M
       PROVE  (w.items[i].weight > 0 /\ w.items[i].weight >= k * g) <=> v[i] >= k
  <2>1. v[i] \in Nat /\ k \in Nat /\ 1 \in Nat
    BY <1>1, <1>2
  <2>2. w.items[i].weight = v[i] * g /\ v[i] * g \in Nat /\ k * g \in Nat
    BY <1>1, <1>2, <2>1, TimesOrder
  <2>3. v[i] * g >= k * g <=> v[i] >= k
    BY <1>1, <2>1, TimesOrder
  <2>4. k * g >= 1 * g
    <3>1. k >= 1
      BY <1>1
    <3>2. QED  BY <1>1, <2>1, <3>1, TimesOrder
  <2>5. 1 * g = g /\ g > 0
    BY <1>1
  <2>6. v[i] * g >= k * g => v[i] * g > 0
    <3> DEFINE a == v[i] * g
               b == k * g
    <3>1. a \in Nat /\ b \in Nat /\ b >= g /\ g > 0 /\ g \in Nat
      BY <1>1, <2>2, <2>4, <2>5
    <3> HIDE DEF a, b
    <3>2. a >= b => a > 0
      BY <3>1
    <3>3. QED  BY <3>2 DEF a, b
  <2>7. QED  BY <2>2, <2>3, <2>6
<1>13. \A i \in 1..n : (w.items[i].weight > 0 /\ w.items[i].weight >= w.cw) <=> v[i] >= L
  <2>1. CASE w.cw = L * g
    BY <1>1, <1>12, <2>1
  <2>2. CASE w.cw = 0 /\ L = 1
    <3> SUFFICES ASSUME NEW i \in 1..n
                 PROVE  (w.items[i].weight > 0 /\ w.items[i].weight >= 0) <=> v[i] >= 1
      BY <2>2
    <3>1. v[i] \in Nat
      BY <1>2
    <3>2. w.items[i].weight = v[i] * g /\ v[i] * g \in Nat
      BY <1>1, <1>2, <3>1, TimesOrder
    <3>3. v[i] * g >= 1 * g <=> v[i] >= 1
      BY <1>1, <3>1, TimesOrder
    <3>4. 1 * g = g /\ g > 0
      BY <1>1
    <3>5. v[i] = 0 => v[i] * g = 0
      BY <1>1
    <3>6. QED  BY <1>1, <3>1, <3>2, <3>3, <3>4, <3>5
  <2>3. QED  BY <1>1, <2>1, <2>2
<1>14. \A p \in 0..(n - 1) : p + 1 \in 1..n
  BY <1>1
<1>15. (E + 1)..(n - 1) \subseteq 0..(n - 1) /\ 0..E \subseteq 0..(n - 1)
  BY <1>1
<1>16. AheadHits(w) = {p \in (E + 1)..(n - 1) : v[p + 1] >= L}
  BY <1>6, <1>8, <1>13, <1>14, <1>15
<1>17. BehindHits(w) = {p \in 0..E : v[p + 1] >= L2}
  <2>1. \A i \in 1..n : (w.items[i].weight > 0 /\ w.items[i].weight >= Lowered(w)) <=> v[i] >= L2
    BY <1>10, <1>11, <1>12
  <2>2. QED  BY <1>7, <1>9, <1>14, <1>15, <2>1
<1>18. n \in Nat \ {0}
  BY <1>1
<1>19. L > 1 => BehindHits(w) = {p \in 0..E : v[p + 1] >= L - 1}
  BY <1>10, <1>17
<1>20. L = 1 => BehindHits(w) = {p \in 0..E : v[p + 1] >= M}
  BY <1>10, <1>17
<1>21. QED  BY <1>8, <1>9, <1>11, <1>16, <1>18, <1>19, <1>20 DEF n, g, L2

(* so a packet goes to the next position. *)
LEMMA RunMoves ==
    ASSUME NEW w, IsTable(w), NEW v, NEW M, NEW L, NEW E, InUnits(w, v, M), AtLevel(w, M, L, E)
    PROVE  \E L2 \in 1..M, E2 \in 0..(Len(w.items) - 1) :
              /\ NextAt(v, M, L, E, L2, E2)
              /\ run(w).at = E2
              /\ InUnits(run(w).wrr, v, M) /\ AtLevel(run(w).wrr, M, L2, E2)
<1> DEFINE n == Len(w.items)
           g == w.w_gcd
           u(index, cw) == AtPosition(w, index, cw)
<1>1. /\ n \in Nat \ {0} /\ M \in Nat \ {0} /\ L \in 1..M /\ E \in 0..(n - 1)
      /\ g \in Nat \ {0} /\ w.cw \in Nat
  BY LooksAt DEF InUnits, AtLevel, IsTable, HasNumbers
<1>2. DOMAIN v = 1..n /\ \A i \in 1..n : v[i] \in 0..M
  BY DEF InUnits
<1>3. PICK m \in 1..n : v[m] = M
  BY DEF InUnits
<1>4. /\ AheadHits(w) = {p \in (E + 1)..(n - 1) : v[p + 1] >= L}
      /\ Lowered(w) = (IF L > 1 THEN L - 1 ELSE M) * g
      /\ L > 1 => BehindHits(w) = {p \in 0..E : v[p + 1] >= L - 1}
      /\ L = 1 => BehindHits(w) = {p \in 0..E : v[p + 1] >= M}
  BY LooksAt
<1>5. ASSUME NEW index \in 0..(n - 1), NEW cw \in Nat
      PROVE  /\ InUnits(u(index, cw), v, M)
             /\ u(index, cw).index = index /\ u(index, cw).cw = cw
             /\ Len(u(index, cw).items) = n /\ u(index, cw).w_gcd = g
  <2> DEFINE t == u(index, cw)
  <2>1. index \in Nat \cup {-1}
    BY <1>1
  <2>2. /\ t.items = w.items /\ t.w_gcd = w.w_gcd /\ t.w_max = w.w_max /\ t.cw = cw
    BY <2>1, Moves
  <2>3. t.index = index
    <3>1. t = [items |-> w.items, w_gcd |-> w.w_gcd, w_max |-> w.w_max,
               index |-> index, cw |-> cw]
      BY PutIndex DEF IsTable, AtPosition
    <3> HIDE DEF t
    <3>2. QED  BY <3>1
  <2> HIDE DEF t
  <2>4. InUnits(t, v, M)
    BY <2>2 DEF InUnits
  <2>5. QED  BY <2>2, <2>3, <2>4 DEF t
<1> HIDE DEF n, g, u
<1>6. ASSUME NEW L2 \in 1..M, NEW E2 \in 0..(n - 1), NEW cw \in Nat,
             cw = L2 * g \/ (cw = 0 /\ L2 = 1)
      PROVE  InUnits(u(E2, cw), v, M) /\ AtLevel(u(E2, cw), M, L2, E2)
  <2>1. E2 # -1
    BY <1>1
  <2>2. QED  BY <1>5, <1>6, <2>1 DEF AtLevel
<1>7. CASE AheadHits(w) # {}
  <2> DEFINE H == AheadHits(w)
             E2 == Min(H)
  <2>1. H \in SUBSET Nat
    BY <1>1, <1>4
  <2>2. E2 \in H /\ \A p \in H : E2 <= p
    BY <1>7, <2>1, MinIs
  <2>3. run(w).at = E2 /\ run(w).wrr = u(E2, w.cw)
    BY <1>1, <1>7, RunCases DEF n, u
  <2>4. H = {p \in (E + 1)..(n - 1) : v[p + 1] >= L}
    BY <1>4
  <2> HIDE DEF H, E2
  <2>5. E2 \in (E + 1)..(n - 1) /\ v[E2 + 1] >= L
    BY <2>2, <2>4
  <2>6. E2 \in 0..(n - 1) /\ E2 > E
    BY <1>1, <2>5
  <2>7. ASSUME NEW i \in DOMAIN v, i > E + 1, v[i] >= L PROVE i >= E2 + 1
    <3>1. i - 1 \in (E + 1)..(n - 1) /\ (i - 1) + 1 = i
      BY <1>1, <1>2, <2>7
    <3>2. i - 1 \in H
      BY <2>4, <2>7, <3>1
    <3>3. QED  BY <1>1, <1>2, <2>2, <2>6, <3>2
  <2>8. NextAt(v, M, L, E, L, E2)
    BY <2>5, <2>6, <2>7 DEF NextAt
  <2>9. InUnits(u(E2, w.cw), v, M) /\ AtLevel(u(E2, w.cw), M, L, E2)
    <3>1. w.cw = L * g \/ (w.cw = 0 /\ L = 1)
      BY DEF AtLevel, g
    <3>2. QED  BY <1>1, <1>6, <2>6, <3>1
  <2>10. QED  BY <1>1, <2>3, <2>6, <2>8, <2>9 DEF n
<1>8. CASE AheadHits(w) = {}
  <2> DEFINE L2 == IF L > 1 THEN L - 1 ELSE M
             H == BehindHits(w)
             E2 == Min(H)
  <2>1. L2 \in 1..M /\ Lowered(w) = L2 * g /\ L2 <= M
    BY <1>1, <1>4
  <2>2. H = {p \in 0..E : v[p + 1] >= L2}
    <3>1. L > 1 \/ L = 1
      BY <1>1
    <3>2. QED  BY <1>4, <3>1
  <2>3. ASSUME NEW i \in DOMAIN v, v[i] >= L PROVE i <= E + 1
    <3> SUFFICES ASSUME i > E + 1 PROVE FALSE
      BY <1>1, <1>2
    <3>1. i - 1 \in (E + 1)..(n - 1) /\ (i - 1) + 1 = i
      BY <1>1, <1>2
    <3>2. i - 1 \in AheadHits(w)
      BY <1>4, <2>3, <3>1
    <3>3. QED  BY <1>8, <3>2
  <2> HIDE DEF L2
  <2>4. m - 1 \in H
    <3>1. m <= E + 1
      <4>1. m \in DOMAIN v /\ v[m] >= L
        BY <1>1, <1>2, <1>3
      <4>2. QED  BY <2>3, <4>1
    <3>2. m - 1 \in 0..E /\ (m - 1) + 1 = m
      BY <1>1, <3>1
    <3>3. v[m] >= L2
      BY <1>1, <1>3, <2>1
    <3> HIDE DEF H
    <3>4. QED  BY <2>2, <3>2, <3>3
  <2>5. H \in SUBSET Nat
    BY <1>1, <2>2
  <2>6. E2 \in H /\ \A p \in H : E2 <= p
    BY <2>4, <2>5, MinIs
  <2>7. Lowered(w) # 0 /\ Lowered(w) \in Nat
    <3>1. L2 * g \in Nat /\ L2 * g >= 1 * g /\ 1 * g = g
      BY <1>1, <2>1, TimesOrder
    <3> DEFINE x == L2 * g
    <3>2. x \in Nat /\ x >= g /\ g > 0 /\ g \in Nat
      BY <1>1, <3>1
    <3>3. Lowered(w) = x
      BY <2>1
    <3> HIDE DEF x
    <3>4. QED  BY <3>2, <3>3
  <2>8. run(w).at = E2 /\ run(w).wrr = u(E2, Lowered(w))
    BY <1>1, <1>8, <2>4, <2>7, RunCases DEF n, u
  <2> HIDE DEF H, E2
  <2>9. E2 \in 0..E /\ v[E2 + 1] >= L2
    BY <2>2, <2>6
  <2>10. E2 \in 0..(n - 1) /\ E2 <= E
    BY <1>1, <2>9
  <2>11. ASSUME NEW i \in DOMAIN v, v[i] >= L2, i <= E + 1 PROVE i >= E2 + 1
    <3>1. i - 1 \in 0..E /\ (i - 1) + 1 = i
      BY <1>1, <1>2, <2>11
    <3>2. i - 1 \in H
      BY <2>2, <2>11, <3>1
    <3>3. QED  BY <1>1, <1>2, <2>6, <2>10, <3>2
  <2>12. NextAt(v, M, L, E, L2, E2)
    BY <2>3, <2>9, <2>10, <2>11 DEF NextAt, L2
  <2>13. InUnits(u(E2, Lowered(w)), v, M) /\ AtLevel(u(E2, Lowered(w)), M, L2, E2)
    BY <1>6, <2>1, <2>7, <2>10
  <2>14. QED  BY <2>1, <2>8, <2>10, <2>12, <2>13 DEF n
<1>9. QED  BY <1>7, <1>8

(* It is at most the weight. *)
GivenInRange(v, L, E, i) ==
    /\ v[i] \in Nat /\ Given(v, L, E, i) \in 0..v[i]
    /\ v[i] < L => Given(v, L, E, i) = 0
    /\ v[i] >= L /\ i <= E + 1 => Given(v, L, E, i) = v[i] - L + 1
    /\ v[i] >= L /\ i > E + 1 => Given(v, L, E, i) = v[i] - L

(* What was given is at most the item's weight in units. *)
LEMMA GivenIs ==
    ASSUME NEW M \in Nat, NEW n \in Nat, NEW v \in [1..n -> 0..M], NEW L \in 1..M,
           NEW E \in 0..(n - 1)
    PROVE  \A i \in 1..n : GivenInRange(v, L, E, i)
<1> TAKE i \in 1..n
<1>1. v[i] \in 0..M /\ i \in Nat /\ E \in Nat /\ L \in Nat /\ L > 0
  OBVIOUS
<1>2. CASE v[i] < L
  BY <1>1, <1>2 DEF Given, GivenInRange
<1>3. CASE v[i] >= L /\ i <= E + 1
  BY <1>1, <1>3 DEF Given, GivenInRange
<1>4. CASE v[i] >= L /\ i > E + 1
  BY <1>1, <1>4 DEF Given, GivenInRange
<1>5. QED  BY <1>1, <1>2, <1>3, <1>4

\* From one position to another E2 was given one, in r rounds more.
GivesOne(v, L, E, L2, E2, r) ==
    \A i \in DOMAIN v : Given(v, L2, E2, i) + r * v[i] =
                           Given(v, L, E, i) + (IF i = E2 + 1 THEN 1 ELSE 0)

(* The item of the next packet is given one more, and the others nothing;  *)
(* when the level starts again, every item has been given its weight.      *)
LEMMA NextGives ==
    ASSUME NEW M \in Nat, NEW n \in Nat, NEW v \in [1..n -> 0..M], NEW L \in 1..M,
           NEW E \in 0..(n - 1), NEW L2 \in 1..M, NEW E2 \in 0..(n - 1),
           NextAt(v, M, L, E, L2, E2)
    PROVE  \E r \in {0, 1} : GivesOne(v, L, E, L2, E2, r)
<1>1. DOMAIN v = 1..n
  OBVIOUS
<1>2. \A i \in 1..n : v[i] \in 0..M /\ v[i] \in Nat
  OBVIOUS
<1>3. \A i \in 1..n : GivenInRange(v, L, E, i) /\ GivenInRange(v, L2, E2, i)
  BY GivenIs
<1>4. CASE /\ L2 = L /\ E2 > E /\ v[E2 + 1] >= L
           /\ \A i \in DOMAIN v : i > E + 1 /\ v[i] >= L => i >= E2 + 1
  <2>1. ASSUME NEW i \in 1..n
        PROVE  Given(v, L2, E2, i) = Given(v, L, E, i) + (IF i = E2 + 1 THEN 1 ELSE 0)
    <3>1. CASE i = E2 + 1
      <4>1. v[i] >= L /\ i > E + 1 /\ i <= E2 + 1 /\ v[i] \in Nat
        BY <1>2, <1>4, <3>1
      <4>2. Given(v, L2, E2, i) = v[i] - L + 1 /\ Given(v, L, E, i) = v[i] - L
        BY <1>4, <4>1, <1>3 DEF GivenInRange
      <4>3. QED  BY <3>1, <4>1, <4>2
    <3>2. CASE i # E2 + 1 /\ v[i] < L
      <4>1. Given(v, L2, E2, i) = 0 /\ Given(v, L, E, i) = 0
        BY <1>4, <3>2, <1>3 DEF GivenInRange
      <4>2. QED  BY <3>2, <4>1
    <3>3. CASE i # E2 + 1 /\ v[i] >= L
      <4>1. (i <= E + 1 /\ i <= E2 + 1) \/ (i > E + 1 /\ i > E2 + 1)
        BY <1>4, <3>3
      <4>2. GivenInRange(v, L, E, i) /\ GivenInRange(v, L2, E2, i) /\ L2 = L
        BY <1>3, <1>4
      <4>3. CASE i <= E + 1 /\ i <= E2 + 1
        <5>1. Given(v, L, E, i) = v[i] - L + 1 /\ Given(v, L2, E2, i) = v[i] - L + 1
          BY <3>3, <4>2, <4>3 DEF GivenInRange
        <5>2. QED  BY <1>2, <3>3, <5>1
      <4>4. CASE i > E + 1 /\ i > E2 + 1
        <5>1. Given(v, L, E, i) = v[i] - L /\ Given(v, L2, E2, i) = v[i] - L
          BY <3>3, <4>2, <4>4 DEF GivenInRange
        <5>2. QED  BY <1>2, <3>3, <5>1
      <4>5. QED  BY <4>1, <4>3, <4>4
    <3>4. QED  BY <1>2, <3>1, <3>2, <3>3
  <2>2. ASSUME NEW i \in 1..n
        PROVE  Given(v, L2, E2, i) + 0 * v[i] = Given(v, L2, E2, i)
    <3>1. Given(v, L2, E2, i) \in Nat /\ v[i] \in Nat
      BY <1>2, <1>3 DEF GivenInRange
    <3>2. QED  BY <3>1
  <2>3. GivesOne(v, L, E, L2, E2, 0)
    BY <1>1, <2>1, <2>2 DEF GivesOne
  <2>4. QED  BY <2>3
<1>5. CASE /\ \A i \in DOMAIN v : v[i] >= L => i <= E + 1
           /\ L2 = IF L > 1 THEN L - 1 ELSE M
           /\ E2 <= E /\ v[E2 + 1] >= L2
           /\ \A i \in DOMAIN v : v[i] >= L2 /\ i <= E + 1 => i >= E2 + 1
  <2> DEFINE one(i) == IF i = E2 + 1 THEN 1 ELSE 0
  <2>1. ASSUME NEW i \in 1..n
        PROVE  Given(v, L, E, i) = IF v[i] >= L THEN v[i] - L + 1 ELSE 0
    <3>1. GivenInRange(v, L, E, i) /\ v[i] \in Nat /\ L \in Nat
      BY <1>2, <1>3
    <3>2. CASE v[i] >= L
      <4>1. i <= E + 1
        BY <1>5, <3>2
      <4>2. QED  BY <3>1, <3>2, <4>1 DEF GivenInRange
    <3>3. CASE v[i] < L
      <4>1. Given(v, L, E, i) = 0
        BY <3>1, <3>3 DEF GivenInRange
      <4>2. ~(v[i] >= L)
        BY <3>1, <3>3
      <4>3. QED  BY <4>1, <4>2
    <3>4. QED  BY <3>1, <3>2, <3>3
  <2>2. ASSUME NEW i \in 1..n
        PROVE  Given(v, L2, E2, i) = (IF v[i] > L2 THEN v[i] - L2 ELSE 0) + one(i)
    <3>1. CASE v[i] < L2
      <4>1. i # E2 + 1
        <5>1. v[E2 + 1] >= L2 /\ L2 \in Nat
          BY <1>5
        <5>2. v[i] \in Nat
          BY <1>2
        <5>3. QED  BY <3>1, <5>1, <5>2
      <4>2. QED  BY <1>2, <3>1, <4>1, <1>3 DEF GivenInRange
    <3>2. CASE v[i] >= L2 /\ i <= E2 + 1
      <4>1. i = E2 + 1
        BY <1>5, <3>2
      <4>2. Given(v, L2, E2, i) = v[i] - L2 + 1
        BY <3>2, <1>3 DEF GivenInRange
      <4>3. v[i] > L2 \/ v[i] = L2
        BY <1>2, <3>2
      <4>4. QED  BY <1>2, <4>1, <4>2, <4>3
    <3>3. CASE v[i] >= L2 /\ i > E2 + 1
      <4>1. i # E2 + 1
        BY <3>3
      <4>2. Given(v, L2, E2, i) = v[i] - L2
        BY <3>3, <1>3 DEF GivenInRange
      <4>3. v[i] > L2 \/ v[i] = L2
        BY <1>2, <3>3
      <4>4. QED  BY <1>2, <4>1, <4>2, <4>3
    <3>4. QED  BY <1>2, <3>1, <3>2, <3>3
  <2>3. \A i \in 1..n : one(i) \in 0..1
    OBVIOUS
  <2> HIDE DEF one
  <2>4. CASE L > 1
    <3>1. ASSUME NEW i \in 1..n
          PROVE  Given(v, L2, E2, i) + 0 * v[i] = Given(v, L, E, i) + one(i)
      <4>1. L2 = L - 1 /\ v[i] \in Nat /\ one(i) \in 0..1
        BY <1>2, <1>5, <2>3, <2>4
      <4>2. (IF v[i] > L2 THEN v[i] - L2 ELSE 0) = IF v[i] >= L THEN v[i] - L + 1 ELSE 0
        BY <4>1
      <4>3. Given(v, L2, E2, i) = Given(v, L, E, i) + one(i)
        BY <2>1, <2>2, <4>2
      <4>4. 0 * v[i] = 0 /\ Given(v, L2, E2, i) \in Nat
        BY <4>1, <1>3 DEF GivenInRange
      <4>5. QED  BY <4>3, <4>4
    <3>2. GivesOne(v, L, E, L2, E2, 0)
      BY <1>1, <3>1 DEF GivesOne, one
    <3>3. QED  BY <3>2
  <2>5. CASE L = 1
    <3>1. ASSUME NEW i \in 1..n
          PROVE  Given(v, L2, E2, i) + 1 * v[i] = Given(v, L, E, i) + one(i)
      <4>1. L2 = M /\ v[i] \in 0..M /\ v[i] \in Nat /\ one(i) \in 0..1
        BY <1>2, <1>5, <2>3, <2>5
      <4>2. Given(v, L2, E2, i) = one(i)
        <5>1. ~(v[i] > L2)
          BY <4>1
        <5>2. QED  BY <2>2, <4>1, <5>1
      <4>3. Given(v, L, E, i) = v[i]
        <5>1. v[i] >= L \/ v[i] = 0
          BY <2>5, <4>1
        <5>2. QED  BY <2>1, <2>5, <4>1, <5>1
      <4>4. QED  BY <4>1, <4>2, <4>3
    <3>2. GivesOne(v, L, E, L2, E2, 1)
      BY <1>1, <3>1 DEF GivesOne, one
    <3>3. QED  BY <3>2
  <2>6. QED  BY <2>4, <2>5
<1>6. QED  BY <1>4, <1>5 DEF NextAt

(* At one of two positions no item was given less than at the other. *)
LEMMA GivenChain ==
    ASSUME NEW M \in Nat, NEW n \in Nat, NEW v \in [1..n -> 0..M], NEW L \in 1..M,
           NEW E \in 0..(n - 1), NEW L2 \in 1..M, NEW E2 \in 0..(n - 1)
    PROVE  \/ \A i \in 1..n : Given(v, L, E, i) <= Given(v, L2, E2, i)
           \/ \A i \in 1..n : Given(v, L2, E2, i) <= Given(v, L, E, i)
<1>1. /\ \A a \in 1..M, x \in 0..(n - 1), i \in 1..n : GivenInRange(v, a, x, i)
  BY GivenIs
<1>2. ASSUME NEW a \in 1..M, NEW b \in 1..M, NEW x \in 0..(n - 1), NEW y \in 0..(n - 1),
             a < b \/ (a = b /\ y <= x), NEW i \in 1..n
      PROVE  Given(v, b, y, i) <= Given(v, a, x, i)
  <2>1. GivenInRange(v, a, x, i) /\ GivenInRange(v, b, y, i)
    BY <1>1
  <2>2. v[i] \in Nat /\ Given(v, a, x, i) \in Nat
    BY <2>1 DEF GivenInRange
  <2>3. CASE v[i] < b
    <3>1. Given(v, b, y, i) = 0
      BY <2>3, <2>1 DEF GivenInRange
    <3>2. QED  BY <2>2, <3>1
  <2>4. CASE v[i] >= b /\ a < b
    <3>1. v[i] >= a
      BY <2>2, <2>4
    <3>2. Given(v, a, x, i) \in {v[i] - a, v[i] - a + 1}
      BY <2>2, <3>1, <2>1 DEF GivenInRange
    <3>3. Given(v, b, y, i) \in {v[i] - b, v[i] - b + 1}
      BY <2>2, <2>4, <2>1 DEF GivenInRange
    <3>4. QED  BY <2>2, <2>4, <3>2, <3>3
  <2>5. CASE v[i] >= b /\ a = b /\ y <= x
    <3>1. CASE i <= y + 1
      <4>1. i <= x + 1 /\ v[i] >= a
        BY <2>5, <3>1
      <4>2. Given(v, a, x, i) = v[i] - a + 1 /\ Given(v, b, y, i) = v[i] - b + 1
        BY <2>5, <3>1, <4>1, <2>1 DEF GivenInRange
      <4>3. QED  BY <2>2, <2>5, <4>2
    <3>2. CASE i > y + 1
      <4>1. Given(v, a, x, i) \in {v[i] - a, v[i] - a + 1}
        BY <2>2, <2>5, <2>1 DEF GivenInRange
      <4>2. Given(v, b, y, i) = v[i] - b
        BY <2>5, <3>2, <2>1 DEF GivenInRange
      <4>3. QED  BY <2>2, <2>5, <4>1, <4>2
    <3>3. QED  BY <3>1, <3>2
  <2>6. QED  BY <1>2, <2>2, <2>3, <2>4, <2>5
<1>3. CASE L < L2 \/ (L = L2 /\ E2 <= E)
  BY <1>2, <1>3
<1>4. CASE L2 < L \/ (L2 = L /\ E <= E2)
  BY <1>2, <1>4
<1>5. QED  BY <1>3, <1>4

\* The packets among the first k that went to position i - 1.
PacketsOf(w, k, i) == {m \in 1..k : After(w, m).at = i - 1}

Count(w, k) == [i \in DOMAIN w.items |-> Cardinality(PacketsOf(w, k, i))]

(* An item's packets among the next k can be counted. *)
LEMMA PacketsFinite ==
    ASSUME NEW w, NEW k \in Nat, NEW i
    PROVE  IsFiniteSet(PacketsOf(w, k, i)) /\ Cardinality(PacketsOf(w, k, i)) \in Nat
<1>1. IsFiniteSet(1..k)
  BY FS_Interval
<1>2. PacketsOf(w, k, i) \subseteq 1..k
  BY DEF PacketsOf
<1>3. QED  BY <1>1, <1>2, FS_Subset, FS_CardinalityType

(* The next packet is one more for its item. *)
LEMMA Counts ==
    ASSUME NEW w, NEW k \in Nat, NEW i
    PROVE  /\ Cardinality(PacketsOf(w, 0, i)) = 0
           /\ Cardinality(PacketsOf(w, k + 1, i)) =
                  Cardinality(PacketsOf(w, k, i)) + (IF After(w, k + 1).at = i - 1 THEN 1 ELSE 0)
<1> DEFINE S == PacketsOf(w, k, i)
           T == PacketsOf(w, k + 1, i)
<1>1. Cardinality(PacketsOf(w, 0, i)) = 0
  <2>1. PacketsOf(w, 0, i) = {}
    BY DEF PacketsOf
  <2>2. QED  BY <2>1, FS_EmptySet
<1>2. IsFiniteSet(S) /\ Cardinality(S) \in Nat
  BY PacketsFinite
<1>3. 1..(k + 1) = (1..k) \cup {k + 1} /\ k + 1 \notin 1..k
  OBVIOUS
<1>4. CASE After(w, k + 1).at = i - 1
  <2>1. T = S \cup {k + 1} /\ k + 1 \notin S
    BY <1>3, <1>4 DEF PacketsOf
  <2> HIDE DEF S, T
  <2>2. Cardinality(T) = Cardinality(S) + 1
    BY <1>2, <2>1, FS_AddElement
  <2>3. QED  BY <1>1, <1>4, <2>2 DEF S, T
<1>5. CASE After(w, k + 1).at # i - 1
  <2>1. T = S
    BY <1>3, <1>5 DEF PacketsOf
  <2> HIDE DEF S, T
  <2>2. Cardinality(T) = Cardinality(S) + 0
    BY <1>2, <2>1
  <2>3. QED  BY <1>1, <1>5, <2>2 DEF S, T
<1>6. QED  BY <1>4, <1>5

(* After k packets: R rounds, and what was given since is known from the  *)
(* level and the position.                                                *)
Rounds(w, v, M, L, E, k, R, L2, E2) ==
    LET u == After(w, k).wrr
    IN  /\ IsTable(u) /\ u.items = w.items /\ R \in Nat
        /\ InUnits(u, v, M) /\ AtLevel(u, M, L2, E2)
        /\ AddUp(Count(w, k), Len(w.items), k)
        /\ \A i \in 1..Len(w.items) :
              Count(w, k)[i] + Given(v, L, E, i) = Given(v, L2, E2, i) + R * v[i]

(* After any number of packets the table is at a level again. *)
LEMMA RoundsGoOn ==
    ASSUME NEW w, IsTable(w), NEW v, NEW M, NEW L, NEW E, InUnits(w, v, M), AtLevel(w, M, L, E),
           NEW K \in Nat
    PROVE  \E R, L2, E2 : Rounds(w, v, M, L, E, K, R, L2, E2)
<1> DEFINE n == Len(w.items)
           Good(k) == \E R, L2, E2 : Rounds(w, v, M, L, E, k, R, L2, E2)
<1>1. /\ n \in Nat /\ DOMAIN w.items = 1..n /\ M \in Nat \ {0} /\ v \in [1..n -> 0..M]
      /\ L \in 1..M /\ E \in 0..(n - 1)
  BY LooksAt DEF InUnits, AtLevel, IsTable
<1>2. \A k \in Nat : Count(w, k) \in [1..n -> Nat]
  BY <1>1, PacketsFinite DEF Count
<1>3. \A k \in Nat, i \in 1..n : Count(w, k)[i] = Cardinality(PacketsOf(w, k, i))
  BY <1>1 DEF Count
<1> HIDE DEF n
<1>4. Good(0)
  <2>1. After(w, 0).wrr = w
    BY AfterSteps DEF FirstOf
  <2>2. \A i \in 1..n : Count(w, 0)[i] = 0
    BY <1>3, Counts
  <2>3. Count(w, 0) = [i \in 1..n |-> 0]
    BY <1>2, <2>2
  <2>4. AddUp(Count(w, 0), n, 0)
    BY <1>1, <2>3, AddUpZero
  <2>5. ASSUME NEW i \in 1..n
        PROVE  Count(w, 0)[i] + Given(v, L, E, i) = Given(v, L, E, i) + 0 * v[i]
    <3>1. GivenInRange(v, L, E, i)
      BY <1>1, GivenIs
    <3>2. v[i] \in Nat /\ Given(v, L, E, i) \in Nat
      BY <3>1 DEF GivenInRange
    <3>3. QED  BY <2>2, <3>2
  <2>6. Rounds(w, v, M, L, E, 0, 0, L, E)
    BY <2>1, <2>4, <2>5 DEF Rounds, n
  <2>7. QED  BY <2>6
<1>5. ASSUME NEW k \in Nat, Good(k) PROVE Good(k + 1)
  <2>1. PICK R, L2, E2 : Rounds(w, v, M, L, E, k, R, L2, E2)
    BY <1>5
  <2> DEFINE u == After(w, k).wrr
             t == After(w, k + 1).wrr
             j == After(w, k + 1).at
             C == Count(w, k)
             D == Count(w, k + 1)
  <2>2. /\ IsTable(u) /\ u.items = w.items /\ InUnits(u, v, M) /\ AtLevel(u, M, L2, E2)
        /\ AddUp(C, n, k)
        /\ R \in Nat
        /\ \A i \in 1..n : C[i] + Given(v, L, E, i) = Given(v, L2, E2, i) + R * v[i]
    BY <2>1 DEF Rounds, n
  <2>3. t = run(u).wrr /\ j = run(u).at
    BY AfterSteps
  <2>4. C \in [1..n -> Nat] /\ D \in [1..n -> Nat]
    BY <1>2
  <2>5. \A i \in 1..n : D[i] = C[i] + (IF j = i - 1 THEN 1 ELSE 0)
    BY <1>3, Counts
  <2> HIDE DEF u, t, j, C, D
  <2>6. L2 \in 1..M /\ E2 \in 0..(n - 1)
    BY <2>2 DEF AtLevel, n
  <2>7. PICK L3 \in 1..M, E3 \in 0..(n - 1) :
            /\ NextAt(v, M, L2, E2, L3, E3) /\ j = E3
            /\ InUnits(t, v, M) /\ AtLevel(t, M, L3, E3)
    BY <2>2, <2>3, RunMoves DEF n
  <2>8. IsTable(t) /\ t.items = w.items
    BY <2>2, <2>3, Runs
  <2>9. \A i \in 1..n : j = i - 1 <=> i = E3 + 1
    BY <1>1, <2>7
  <2>10. PICK r \in {0, 1} : GivesOne(v, L2, E2, L3, E3, r)
    <3>1. /\ M \in Nat /\ n \in Nat /\ v \in [1..n -> 0..M] /\ L2 \in 1..M
          /\ E2 \in 0..(n - 1) /\ L3 \in 1..M /\ E3 \in 0..(n - 1)
          /\ NextAt(v, M, L2, E2, L3, E3)
      BY <1>1, <2>6, <2>7
    <3>2. QED  BY <3>1, NextGives
  <2>11. AddUp(D, n, k + 1)
    <3>1. E3 + 1 \in 1..n
      BY <1>1, <2>7
    <3>2. D[E3 + 1] = C[E3 + 1] + 1 /\ \A i \in 1..n : i # E3 + 1 => D[i] = C[i]
      <4>1. \A i \in 1..n : C[i] \in Nat
        BY <2>4
      <4>2. QED  BY <2>5, <2>9, <3>1, <4>1
    <3>3. QED  BY <1>1, <2>2, <2>4, <3>1, <3>2, AddUpMore
  <2>12. ASSUME NEW i \in 1..n
         PROVE  D[i] + Given(v, L, E, i) = Given(v, L3, E3, i) + (R + r) * v[i]
    <3>1. GivenInRange(v, L, E, i) /\ GivenInRange(v, L2, E2, i) /\ GivenInRange(v, L3, E3, i)
      BY <1>1, <2>6, <2>7, GivenIs
    <3> DEFINE a == Given(v, L, E, i)
               b == Given(v, L2, E2, i)
               c == Given(v, L3, E3, i)
               one == IF i = E3 + 1 THEN 1 ELSE 0
               x == v[i]
               p == R * x
               q == r * x
    <3>2. a \in Nat /\ b \in Nat /\ c \in Nat /\ x \in Nat
      BY <3>1 DEF GivenInRange
    <3>3. C[i] \in Nat /\ D[i] = C[i] + one /\ one \in Nat
      BY <2>4, <2>5, <2>9
    <3>4. C[i] + a = b + p /\ c + q = b + one
      <4>1. i \in DOMAIN v
        BY <1>1
      <4>2. QED  BY <2>2, <2>10, <4>1 DEF GivesOne
    <3> HIDE DEF a, b, c, one, x
    <3>5. p \in Nat /\ q \in Nat /\ (R + r) * x = p + q
      BY <2>2, <3>2
    <3> HIDE DEF p, q
    <3> DEFINE s == C[i]
               d == D[i]
    <3>6. s \in Nat /\ d = s + one /\ s + a = b + p
      BY <3>3, <3>4
    <3> HIDE DEF s, d
    <3>7. d + a = c + (p + q)
      BY <3>2, <3>3, <3>4, <3>5, <3>6
    <3>8. QED  BY <3>5, <3>7 DEF a, c, x, d
  <2>13. R + r \in Nat
    BY <2>2
  <2>14. Rounds(w, v, M, L, E, k + 1, R + r, L3, E3)
    BY <2>7, <2>8, <2>11, <2>12, <2>13 DEF Rounds, n, t, D
  <2>15. QED  BY <2>14
<1> HIDE DEF Good
<1>6. Good(K)
  <2> DEFINE Q == {k \in Nat : ~Good(k)}
  <2> SUFFICES ASSUME Q # {} PROVE FALSE
    OBVIOUS
  <2>1. PICK k \in Q : \A m \in Q : k <= m
    BY LeastIs
  <2>2. k \in Nat /\ k # 0
    BY <1>4
  <2>3. k - 1 \in Nat /\ k - 1 < k /\ (k - 1) + 1 = k
    BY <2>2
  <2>4. Good(k - 1)
    BY <2>1, <2>3
  <2>5. Good(k)
    BY <1>5, <2>3, <2>4
  <2>6. QED  BY <2>5
<1>7. QED  BY <1>6 DEF Good

(* The current weight is a multiple of the gcd, up to the maximum, and the *)
(* table is at one of its items or at none.                                *)
Aligned(w) == /\ Divides(w.w_gcd, w.cw) /\ w.cw <= w.w_max
              /\ w.index < Len(w.items)

(* An aligned table is at a level. *)
LEMMA AlignedLevel ==
    ASSUME NEW w, IsTable(w), Exact(w), Aligned(w), NEW e \in DOMAIN w.items, w.items[e].weight > 0
    PROVE  \E v, M, L, E : InUnits(w, v, M) /\ AtLevel(w, M, L, E)
<1> DEFINE n == Len(w.items)
           g == w.w_gcd
           weight(i) == w.items[i].weight
           weights == WeightsOf(w)
           Q(i) == CHOOSE q \in Nat : weight(i) = q * g
           v == [i \in 1..n |-> Q(i)]
<1>1. /\ n \in Nat \ {0} /\ DOMAIN w.items = 1..n
      /\ w.w_max \in Nat /\ w.cw \in Nat /\ w.index \in Nat \cup {-1}
  BY DEF IsTable, HasNumbers
<1>2. /\ weights \in Seq(Nat) /\ DOMAIN weights = 1..n
      /\ \A i \in 1..n : weights[i] = weight(i)
  BY <1>1, WeightsAre
<1>3. g = GcdOf(weights) /\ w.w_max = Max({0} \cup ToSet(weights))
  BY DEF Exact
<1>4. g \in Nat \ {0} /\ \E i \in 1..n : weight(i) = w.w_max /\ weight(i) > 0
  BY <1>1, ExactNumbers
<1> HIDE DEF g, weight, weights
<1>5. \A i \in 1..n : Divides(g, weight(i))
  BY <1>2, <1>3, GcdOfDivides
<1>6. \A i \in 1..n : weight(i) <= w.w_max
  BY <1>2, <1>3, MaxOfWeights
<1>7. \A i \in 1..n : Q(i) \in Nat /\ weight(i) = Q(i) * g
  BY <1>5 DEF Divides
<1> HIDE DEF Q
<1>8. \A i \in 1..n : v[i] \in Nat /\ weight(i) = v[i] * g
  BY <1>7
<1>9. PICK m \in 1..n : weight(m) = w.w_max /\ weight(m) > 0
  BY <1>4
<1> HIDE DEF v
<1> DEFINE M == v[m]
<1>10. M \in Nat \ {0} /\ w.w_max = M * g
  <2>1. 0 * g = 0
    BY <1>4
  <2>2. v[m] # 0
    <3>1. weight(m) = v[m] * g /\ weight(m) # 0
      BY <1>8, <1>9
    <3>2. QED  BY <2>1, <3>1
  <2>3. QED  BY <1>8, <1>9, <2>2
<1>11. ASSUME NEW i \in 1..n PROVE v[i] \in 0..M
  <2>1. v[i] \in Nat /\ M \in Nat /\ weight(i) = v[i] * g /\ weight(i) <= M * g
    BY <1>6, <1>8, <1>10
  <2>2. v[i] * g \in Nat /\ M * g \in Nat /\ (M * g >= v[i] * g <=> M >= v[i])
    BY <1>4, <2>1, TimesOrder
  <2> HIDE DEF M
  <2> DEFINE a == v[i] * g
             b == M * g
  <2>3. a \in Nat /\ b \in Nat /\ a <= b
    BY <2>1, <2>2
  <2> HIDE DEF a, b
  <2>4. b >= a
    BY <2>3
  <2>5. M >= v[i]
    BY <2>2, <2>4 DEF a, b
  <2>6. QED  BY <2>1, <2>5
<1>12. InUnits(w, v, M)
  <2>1. v \in [1..n -> 0..M]
    <3>1. v = [i \in 1..n |-> v[i]]
      BY DEF v
    <3> HIDE DEF M
    <3>2. QED  BY <1>11, <3>1
  <2>2. \A i \in 1..n : w.items[i].weight = v[i] * g
    BY <1>8 DEF weight
  <2>3. \E i \in 1..n : v[i] = M
    OBVIOUS
  <2> HIDE DEF n
  <2>4. QED  BY <1>4, <1>10, <2>1, <2>2, <2>3 DEF InUnits, n, g
<1>13. PICK q \in Nat : w.cw = q * g
  BY DEF Aligned, Divides, g
<1> DEFINE L == IF q = 0 THEN 1 ELSE q
           E == IF w.index = -1 THEN n - 1 ELSE w.index
<1>14. L \in 1..M
  <2>1. q * g <= M * g
    BY <1>10, <1>13 DEF Aligned
  <2>2. q * g \in Nat /\ M * g \in Nat /\ (M * g >= q * g <=> M >= q)
    BY <1>4, <1>10, TimesOrder
  <2> DEFINE a == q * g
             b == M * g
  <2>3. a \in Nat /\ b \in Nat /\ a <= b
    BY <2>1, <2>2
  <2> HIDE DEF a, b, M
  <2>4. b >= a
    BY <2>3
  <2>5. M >= q
    BY <2>2, <2>4 DEF a, b
  <2>6. QED  BY <1>10, <2>5
<1>15. E \in 0..(n - 1)
  BY <1>1 DEF Aligned
<1>16. w.cw = L * g \/ (w.cw = 0 /\ L = 1)
  <2>1. 0 * g = 0
    BY <1>4
  <2>2. QED  BY <1>13, <2>1
<1> HIDE DEF L, M
<1>17. AtLevel(w, M, L, E)
  BY <1>14, <1>15, <1>16 DEF AtLevel, g
<1>18. QED  BY <1>12, <1>17

(* In as many packets as the weights have units, each item is given its    *)
(* units: it cannot be that some are given more and others less.           *)
LEMMA UnitsAreShared ==
    ASSUME NEW w, IsTable(w), NEW v, NEW M, NEW L, NEW E, InUnits(w, v, M), AtLevel(w, M, L, E),
           NEW K \in Nat, AddUp(v, Len(w.items), K)
    PROVE  \A i \in 1..Len(w.items) : Count(w, K)[i] = v[i]
<1> DEFINE n == Len(w.items)
           C == Count(w, K)
<1>1. /\ n \in Nat /\ DOMAIN w.items = 1..n /\ M \in Nat /\ v \in [1..n -> 0..M]
      /\ L \in 1..M /\ E \in 0..(n - 1)
  BY LooksAt DEF InUnits, AtLevel, IsTable
<1>2. PICK R, L2, E2 : Rounds(w, v, M, L, E, K, R, L2, E2)
  BY RoundsGoOn
<1>3. /\ L2 \in 1..M /\ E2 \in 0..(n - 1) /\ R \in Nat
      /\ AddUp(C, n, K)
      /\ \A i \in 1..n : C[i] + Given(v, L, E, i) = Given(v, L2, E2, i) + R * v[i]
  BY <1>2 DEF Rounds, AtLevel
<1>4. C \in [1..n -> Nat] /\ v \in [1..n -> Nat]
  BY <1>1, PacketsFinite DEF Count
<1> HIDE DEF n, C
<1> DEFINE a(i) == Given(v, L, E, i)
           b(i) == Given(v, L2, E2, i)
<1>5. \A i \in 1..n : C[i] \in Nat /\ v[i] \in Nat
  BY <1>4
<1>6. \A i \in 1..n : a(i) \in 0..v[i] /\ b(i) \in 0..v[i]
  <2>1. \A i \in 1..n : GivenInRange(v, L, E, i)
    BY <1>1, GivenIs
  <2>2. \A i \in 1..n : GivenInRange(v, L2, E2, i)
    BY <1>1, <1>3, GivenIs
  <2>3. QED  BY <2>1, <2>2 DEF GivenInRange
<1>7. (\A i \in 1..n : a(i) <= b(i)) \/ (\A i \in 1..n : b(i) <= a(i))
  BY <1>1, <1>3, GivenChain
<1>8. \A i \in 1..n : C[i] + a(i) = b(i) + R * v[i]
  BY <1>3
<1> HIDE DEF a, b
<1>9. (\A i \in 1..n : C[i] <= v[i]) \/ (\A i \in 1..n : v[i] <= C[i])
  <2>1. CASE R = 0
    <3>1. ASSUME NEW i \in 1..n PROVE C[i] <= v[i]
      <4> DEFINE c == C[i]
                 x == v[i]
      <4>1. c \in Nat /\ x \in Nat /\ a(i) \in 0..x /\ b(i) \in 0..x /\ c + a(i) = b(i) + 0 * x
        BY <1>5, <1>6, <1>8, <2>1
      <4> HIDE DEF c, x
      <4>2. c <= x
        BY <4>1
      <4>3. QED  BY <4>2 DEF c, x
    <3>2. QED  BY <3>1
  <2>2. CASE R = 1
    <3>1. ASSUME NEW i \in 1..n
          PROVE  /\ a(i) <= b(i) => v[i] <= C[i]
                 /\ b(i) <= a(i) => C[i] <= v[i]
      <4> DEFINE c == C[i]
                 x == v[i]
      <4>1. c \in Nat /\ x \in Nat /\ a(i) \in 0..x /\ b(i) \in 0..x /\ c + a(i) = b(i) + 1 * x
        BY <1>5, <1>6, <1>8, <2>2
      <4> HIDE DEF c, x
      <4>2. (a(i) <= b(i) => x <= c) /\ (b(i) <= a(i) => c <= x)
        BY <4>1
      <4>3. QED  BY <4>2 DEF c, x
    <3>2. QED  BY <1>7, <3>1
  <2>3. CASE R >= 2
    <3>1. ASSUME NEW i \in 1..n PROVE v[i] <= C[i]
      <4> DEFINE c == C[i]
                 x == v[i]
                 s == R - 2
      <4>1. c \in Nat /\ x \in Nat /\ a(i) \in 0..x /\ b(i) \in 0..x /\ c + a(i) = b(i) + R * x
        BY <1>5, <1>6, <1>8
      <4>2. s \in Nat /\ R = s + 2
        BY <1>3, <2>3
      <4> HIDE DEF c, x, s
      <4>3. R * x = s * x + x + x /\ s * x \in Nat
        BY <4>1, <4>2
      <4>4. x <= c
        BY <4>1, <4>3
      <4>5. QED  BY <4>4 DEF c, x
    <3>2. QED  BY <3>1
  <2>4. R = 0 \/ R = 1 \/ R >= 2
    BY <1>3
  <2>5. QED  BY <2>1, <2>2, <2>3, <2>4
<1>10. \A i \in 1..n : C[i] = v[i]
  <2>1. n \in Nat /\ AddUp(C, n, K) /\ AddUp(v, n, K)
    BY <1>1, <1>3 DEF n
  <2>2. CASE \A i \in 1..n : C[i] <= v[i]
    BY <1>4, <2>1, <2>2, AddUpSame
  <2>3. CASE \A i \in 1..n : v[i] <= C[i]
    BY <1>4, <2>1, <2>3, AddUpSame
  <2>4. QED  BY <1>9, <2>2, <2>3
<1>11. QED  BY <1>10 DEF n, C

(* The elements of a sequence of numbers are numbers. *)
LEMMA NumbersOf == \A s \in Seq(Nat) : \A i \in DOMAIN s : s[i] \in Nat
OBVIOUS

(* The shares of an aligned table. *)
LEMMA AlignedSharesFairly ==
    ASSUME NEW w, IsTable(w), Exact(w), Aligned(w), NEW e \in DOMAIN w.items, w.items[e].weight > 0
    PROVE  SharesFairly(w)
<1> DEFINE n == Len(w.items)
           g == w.w_gcd
           weights == WeightsOf(w)
           total == FoldLeft(+, 0, weights)
           K == total \div g
<1>1. PICK v, M, L, E : InUnits(w, v, M) /\ AtLevel(w, M, L, E)
  BY AlignedLevel
<1>2. /\ n \in Nat /\ DOMAIN w.items = 1..n /\ M \in Nat /\ v \in [1..n -> 0..M]
      /\ g \in Nat \ {0} /\ \A i \in 1..n : w.items[i].weight = v[i] * g
  BY <1>1, LooksAt DEF InUnits, IsTable
<1>3. weights \in [1..n -> Nat] /\ \A i \in 1..n : weights[i] = w.items[i].weight
  <2>1. /\ weights \in Seq(Nat) /\ DOMAIN weights = 1..n
        /\ \A i \in 1..n : weights[i] = w.items[i].weight
    BY <1>2, WeightsAre
  <2>2. weights = [i \in 1..n |-> weights[i]]
    BY <1>2 DEF WeightsOf
  <2> HIDE DEF weights, n
  <2>3. \A i \in DOMAIN weights : weights[i] \in Nat
    BY <2>1, NumbersOf
  <2>4. QED  BY <2>1, <2>2, <2>3
<1> HIDE DEF weights
<1>4. total \in Nat /\ AddUp(weights, n, total)
  BY <1>2, <1>3, FoldAddsUp
<1> HIDE DEF total, n, g
<1>5. K \in Nat /\ AddUp(v, n, K)
  <2>1. v \in [1..n -> Nat]
    BY <1>2
  <2>2. \A i \in 1..n : v[i] \in Nat /\ weights[i] = g * v[i]
    <3>1. \A i \in 1..n : v[i] \in Nat
      BY <2>1
    <3>2. \A i \in 1..n : v[i] * g = g * v[i]
      BY <1>2, <3>1
    <3>3. QED  BY <1>2, <1>3, <3>1, <3>2
  <2>3. n \in Nat /\ g \in Nat /\ g > 0 /\ \A i \in 1..n : weights[i] = g * v[i]
    BY <1>2, <2>2
  <2>4. QED  BY <1>3, <1>4, <2>1, <2>3, AddUpTimes
<1> HIDE DEF K
<1>6. \A i \in 1..n : Count(w, K)[i] = v[i]
  BY <1>1, <1>5, UnitsAreShared DEF n
<1>7. \A i \in 1..n : Cardinality(PacketsOf(w, K, i)) * g = w.items[i].weight
  BY <1>2, <1>6 DEF Count
<1>8. QED  BY <1>2, <1>7, Zenon DEF SharesFairly, PacketsOf, K, total, weights, g
-----------------------------------------------------------------------------
(* The invariant. *)

ClientsOK ==
    /\ status \in [Clients -> {"away", "named", "registered", "served", "lost"}]
    /\ inactive \subseteq {c \in Clients : status[c] # "away"}
    /\ NodeOf \in [Clients -> Nodes \cup {NoClient}]
    /\ \A c \in Clients : NodeOf[c] = NoClient <=> status[c] = "away"
    /\ conf \in [Nodes -> Nat]
    /\ reweighted \subseteq Nodes /\ overlapped \subseteq Nodes

\* Two clients of one node are on record.
OverlapsKnown ==
    \A c, d \in Clients : c # d /\ NodeOf[c] = NodeOf[d] /\ NodeOf[c] # NoClient
                              => NodeOf[c] \in overlapped

\* An item belongs to its node's client, and an item without one has no weight.
ItemsOK ==
    \A i \in DOMAIN wrr.items :
        /\ wrr.items[i].item # NoClient => NodeOf[wrr.items[i].item] = wrr.items[i].id
        /\ wrr.items[i].weight > 0 => wrr.items[i].item # NoClient

\* What disabling takes away can be given back.
WeightsKept ==
    \A i \in DOMAIN wrr.items :
        wrr.items[i].id \notin reweighted =>
            /\ wrr.items[i].old_weight = conf[wrr.items[i].id]
            /\ wrr.items[i].weight \in {0, conf[wrr.items[i].id]}

TableOK ==
    /\ IsTable(wrr)
    /\ configured \in BOOLEAN
    /\ ~configured => wrr.items = <<>>
    /\ reweighted = {} => Exact(wrr)

IInv == /\ TableOK /\ ClientsOK /\ OverlapsKnown
        /\ ItemsOK /\ WeightsKept /\ RegisteredIsEnabled
-----------------------------------------------------------------------------
(* The items of the table. *)
LEMMA ItemFields ==
    ASSUME IInv, NEW i \in DOMAIN wrr.items
    PROVE  /\ wrr.items[i] \in ItemType
           /\ wrr.items[i].id \in Nodes
           /\ wrr.items[i].item \in Clients \cup {NoClient}
           /\ wrr.items[i].weight \in Nat /\ wrr.items[i].old_weight \in Nat
<1>1. wrr.items[i] \in ItemType
  BY DEF IInv, TableOK, IsTable
<1>2. QED  BY <1>1 DEF ItemType

LEMMA NewIsExact == IsTable(NewWRR) /\ Exact(NewWRR) /\ NewWRR.items = <<>>
<1>1. NewWRR = [items |-> <<>>, w_gcd |-> 0, w_max |-> 0, index |-> -1, cw |-> 0]
  BY DEF NewWRR
<1>2. NewWRR.items = <<>> /\ NewWRR.w_gcd = 0 /\ NewWRR.w_max = 0 /\ IsRecord(NewWRR)
  BY <1>1 DEF IsRecord
<1>3. IsTable(NewWRR)
  <2>1. HasNumbers(NewWRR)
    BY <1>1 DEF HasNumbers
  <2>2. QED  BY <1>2, <2>1 DEF IsTable
<1>4. WeightsOf(NewWRR) = <<>>
  BY <1>2 DEF WeightsOf
<1>5. {0} \cup ToSet(WeightsOf(NewWRR)) = {0}
  BY <1>4 DEF ToSet
<1>6. Max({0}) = 0
  BY DEF Max
<1>7. Exact(NewWRR)
  BY <1>2, <1>4, <1>5, <1>6 DEF Exact, GcdOf
<1>8. QED  BY <1>2, <1>3, <1>7

LEMMA InitInvariant == Init => IInv
<1> SUFFICES ASSUME Init PROVE IInv
  OBVIOUS
<1>1. TableOK
  BY NewIsExact DEF Init, TableOK
<1>2. ClientsOK
  BY WRRAssumption DEF Init, ClientsOK
<1>3. OverlapsKnown
  BY DEF Init, OverlapsKnown
<1>4. ItemsOK /\ WeightsKept /\ RegisteredIsEnabled
  BY NewIsExact DEF Init, ItemsOK, WeightsKept, RegisteredIsEnabled
<1>5. QED  BY <1>1, <1>2, <1>3, <1>4 DEF IInv

(* Steps of a client that leave the table alone. *)
LEMMA ConnectInvariant ==
    ASSUME IInv, NEW c \in Clients, NEW id \in Nodes, Connect(c, id) PROVE IInv'
<1>1. /\ status[c] = "away" /\ NodeOf[c] = NoClient
      /\ status' = [status EXCEPT ![c] = "named"]
      /\ NodeOf' = [NodeOf EXCEPT ![c] = id]
      /\ overlapped' = IF \E d \in Clients : NodeOf[d] = id
                       THEN overlapped \cup {id} ELSE overlapped
      /\ UNCHANGED <<configured, wrr, conf, inactive, reweighted>>
  BY DEF IInv, ClientsOK, Connect, Goto
<1>2. TableOK'
  BY <1>1 DEF IInv, TableOK, Exact
<1>3. ClientsOK'
  BY <1>1, WRRAssumption DEF IInv, ClientsOK
<1>4. OverlapsKnown'
  BY <1>1 DEF IInv, ClientsOK, OverlapsKnown
<1>5. \A i \in DOMAIN wrr.items :
          /\ wrr.items[i].id \in Nodes
          /\ wrr.items[i].item \in Clients \cup {NoClient}
          /\ wrr.items[i].item # c
  BY <1>1, ItemFields, WRRAssumption DEF IInv, ItemsOK
<1>6. ItemsOK'
  BY <1>1, <1>5 DEF IInv, ItemsOK, ClientsOK
<1>7. WeightsKept'
  BY <1>1 DEF IInv, WeightsKept
<1>8. RegisteredIsEnabled'
  BY <1>1 DEF IInv, ClientsOK, RegisteredIsEnabled
<1>9. QED  BY <1>2, <1>3, <1>4, <1>6, <1>7, <1>8 DEF IInv

LEMMA StatusInvariant ==
    ASSUME IInv, NEW c \in Clients, NEW s \in {"registered", "lost"},
           status[c] # "away", status' = [status EXCEPT ![c] = s],
           inactive' \subseteq inactive \cup {c},
           UNCHANGED <<configured, wrr, conf, NodeOf, overlapped, reweighted>>
    PROVE  IInv'
<1>1. TableOK'
  BY DEF IInv, TableOK, Exact
<1>2. ClientsOK'
  BY DEF IInv, ClientsOK
<1>3. OverlapsKnown' /\ ItemsOK' /\ WeightsKept'
  BY DEF IInv, OverlapsKnown, ItemsOK, WeightsKept
<1>4. RegisteredIsEnabled'
  BY DEF IInv, ClientsOK, RegisteredIsEnabled
<1>5. QED  BY <1>1, <1>2, <1>3, <1>4 DEF IInv

LEMMA DisconnectInvariant ==
    ASSUME IInv, NEW c \in Clients, Disconnect(c) PROVE IInv'
<1>1. /\ status[c] # "away" /\ inactive' = inactive \cup {c}
      /\ UNCHANGED <<configured, wrr, conf, status, NodeOf, overlapped, reweighted>>
  BY DEF Disconnect
<1>2. TableOK'
  BY <1>1 DEF IInv, TableOK, Exact
<1>3. ClientsOK'
  BY <1>1 DEF IInv, ClientsOK
<1>4. OverlapsKnown' /\ ItemsOK' /\ WeightsKept' /\ RegisteredIsEnabled'
  BY <1>1 DEF IInv, OverlapsKnown, ItemsOK, WeightsKept, RegisteredIsEnabled
<1>5. QED  BY <1>2, <1>3, <1>4 DEF IInv

(* A client takes its node's item: the weight it finds there, or that was *)
(* kept for it, is the configured one.                                    *)
LEMMA RegisterInvariant ==
    ASSUME IInv, NEW c \in Clients, Register(c) PROVE IInv'
<1> DEFINE id == NodeOf[c]
<1>1. /\ status[c] = "registered"
      /\ status' = [status EXCEPT ![c] = "served"]
      /\ wrr' = IF configured THEN update_client(wrr, c, id) ELSE wrr
      /\ UNCHANGED <<configured, conf, inactive, NodeOf, overlapped, reweighted>>
  BY DEF Register, Goto
<1>2. ClientsOK' /\ id \in Nodes /\ c # NoClient
  BY <1>1, WRRAssumption DEF IInv, ClientsOK
<1>3. OverlapsKnown'
  BY <1>1 DEF IInv, OverlapsKnown
<1>4. CASE ~configured
  <2>1. wrr' = wrr /\ wrr.items = <<>>
    BY <1>1, <1>4 DEF IInv, TableOK
  <2>2. TableOK'
    BY <1>1, <2>1 DEF IInv, TableOK, Exact
  <2>3. ItemsOK' /\ WeightsKept' /\ RegisteredIsEnabled'
    BY <2>1 DEF ItemsOK, WeightsKept, RegisteredIsEnabled
  <2>4. QED  BY <1>2, <1>3, <2>2, <2>3 DEF IInv
<1>5. CASE configured
  <2>1. IsUpdate(wrr, wrr', c, id)
    BY <1>1, <1>5, Updates DEF IInv, TableOK
  <2>2. /\ DOMAIN wrr'.items = DOMAIN wrr.items
        /\ \A i \in DOMAIN wrr.items :
              /\ wrr.items[i].weight \in Nat /\ wrr.items[i].old_weight \in Nat
              /\ wrr'.items[i].id = wrr.items[i].id
              /\ wrr.items[i].id # id => wrr'.items[i] = wrr.items[i]
              /\ wrr.items[i].id = id =>
                   /\ wrr'.items[i].item = c
                   /\ wrr'.items[i].weight = IF wrr.items[i].weight > 0 THEN wrr.items[i].weight
                                             ELSE wrr.items[i].old_weight
                   /\ wrr'.items[i].old_weight = wrr.items[i].old_weight
    <3>1. IsTable(wrr) /\ DOMAIN wrr'.items = DOMAIN wrr.items
      BY <2>1 DEF IInv, TableOK, IsUpdate
    <3>2. c \in Clients \cup {NoClient}
      OBVIOUS
    <3>3. ASSUME NEW i \in DOMAIN wrr.items
          PROVE  /\ wrr'.items[i].id = wrr.items[i].id
                 /\ wrr.items[i].id # id => wrr'.items[i] = wrr.items[i]
                 /\ wrr.items[i].id = id =>
                      /\ wrr'.items[i].item = c
                      /\ wrr'.items[i].weight =
                             IF c = NoClient THEN 0
                             ELSE IF wrr.items[i].weight > 0 THEN wrr.items[i].weight
                             ELSE wrr.items[i].old_weight
                      /\ wrr'.items[i].old_weight =
                             IF c = NoClient /\ wrr.items[i].weight > 0 THEN wrr.items[i].weight
                             ELSE wrr.items[i].old_weight
      <4> HIDE DEF id
      <4>1. QED  BY <2>1, <3>1, <3>2, <3>3, UpdatedFields
    <3>4. QED  BY <1>2, <3>1, <3>3, ItemFields
  <2>3. TableOK'
    BY <1>1, <1>5, <2>1 DEF IInv, TableOK, IsUpdate
  <2>4. ItemsOK'
    BY <1>1, <1>2, <2>2 DEF IInv, ItemsOK
  <2>5. WeightsKept'
    BY <1>1, <1>2, <2>2 DEF IInv, WeightsKept
  <2>6. ASSUME NEW d \in Clients, NEW i \in DOMAIN wrr.items,
               status'[d] = "served", wrr'.items[i].id = NodeOf[d],
               NodeOf[d] \notin overlapped \cup reweighted
        PROVE  wrr'.items[i].item = d /\ wrr'.items[i].weight = conf[NodeOf[d]]
    <3>1. wrr.items[i].id = NodeOf[d]
      BY <2>2, <2>6
    <3>2. CASE d = c
      BY <1>2, <2>2, <2>6, <3>1, <3>2 DEF IInv, WeightsKept
    <3>3. CASE d # c
      <4>1. NodeOf[d] # id
        BY <1>2, <2>6, <3>3, WRRAssumption DEF IInv, OverlapsKnown
      <4>2. status[d] = "served" /\ wrr'.items[i] = wrr.items[i]
        BY <1>1, <2>2, <2>6, <3>1, <3>3, <4>1 DEF IInv, ClientsOK
      <4>3. QED  BY <2>6, <3>1, <4>2 DEF IInv, RegisteredIsEnabled
    <3>4. QED  BY <3>2, <3>3
  <2>7. RegisteredIsEnabled'
    BY <1>1, <2>1, <2>6 DEF RegisteredIsEnabled, IsUpdate
  <2>8. QED  BY <1>2, <1>3, <2>3, <2>4, <2>5, <2>7 DEF IInv
<1>6. QED  BY <1>4, <1>5

(* A client that is removed leaves no item, and takes its node's weight.  *)
LEMMA RemoveClientInvariant ==
    ASSUME IInv, NEW c \in Clients, RemoveClient(c) PROVE IInv'
<1> DEFINE id == NodeOf[c]
<1>1. /\ status[c] # "away"
      /\ status' = [status EXCEPT ![c] = "away"]
      /\ inactive' = inactive \ {c}
      /\ NodeOf' = [NodeOf EXCEPT ![c] = NoClient]
      /\ wrr' = IF configured THEN update_client(wrr, NoClient, id) ELSE wrr
      /\ overlapped' = overlapped \cap {NodeOf[d] : d \in Clients \ {c}}
      /\ UNCHANGED <<configured, conf, reweighted>>
  BY DEF RemoveClient, Goto
<1>2. ClientsOK'
  BY <1>1, WRRAssumption DEF IInv, ClientsOK
<1>3. id \in Nodes /\ id # NoClient
  BY <1>1 DEF IInv, ClientsOK
<1>4. OverlapsKnown'
  <2>1. SUFFICES ASSUME NEW d \in Clients, NEW e \in Clients, d # e,
                        NodeOf'[d] = NodeOf'[e], NodeOf'[d] # NoClient
                 PROVE  NodeOf'[d] \in overlapped'
    BY DEF OverlapsKnown
  <2>2. d # c /\ e # c /\ NodeOf'[d] = NodeOf[d] /\ NodeOf'[e] = NodeOf[e]
    BY <1>1, <2>1 DEF IInv, ClientsOK
  <2>3. NodeOf[d] \in overlapped
    BY <2>1, <2>2 DEF IInv, OverlapsKnown
  <2>4. QED  BY <1>1, <2>2, <2>3
<1>5. CASE ~configured
  <2>1. wrr' = wrr /\ wrr.items = <<>>
    BY <1>1, <1>5 DEF IInv, TableOK
  <2>2. TableOK'
    BY <1>1, <2>1 DEF IInv, TableOK, Exact
  <2>3. ItemsOK' /\ WeightsKept' /\ RegisteredIsEnabled'
    BY <2>1 DEF ItemsOK, WeightsKept, RegisteredIsEnabled
  <2>4. QED  BY <1>2, <1>4, <2>2, <2>3 DEF IInv
<1>6. CASE configured
  <2>1. IsUpdate(wrr, wrr', NoClient, id)
    BY <1>1, <1>6, Updates DEF IInv, TableOK
  <2>2. /\ DOMAIN wrr'.items = DOMAIN wrr.items
        /\ \A i \in DOMAIN wrr.items :
              /\ wrr.items[i].item \in Clients \cup {NoClient}
              /\ wrr.items[i].weight \in Nat /\ wrr.items[i].old_weight \in Nat
              /\ wrr'.items[i].id = wrr.items[i].id
              /\ wrr.items[i].id # id => wrr'.items[i] = wrr.items[i]
              /\ wrr.items[i].id = id =>
                   /\ wrr'.items[i].item = NoClient
                   /\ wrr'.items[i].weight = 0
                   /\ wrr'.items[i].old_weight =
                          IF wrr.items[i].weight > 0 THEN wrr.items[i].weight
                          ELSE wrr.items[i].old_weight
    <3>1. IsTable(wrr) /\ DOMAIN wrr'.items = DOMAIN wrr.items
      BY <2>1 DEF IInv, TableOK, IsUpdate
    <3>2. NoClient \in Clients \cup {NoClient}
      OBVIOUS
    <3>3. ASSUME NEW i \in DOMAIN wrr.items
          PROVE  /\ wrr'.items[i].id = wrr.items[i].id
                 /\ wrr.items[i].id # id => wrr'.items[i] = wrr.items[i]
                 /\ wrr.items[i].id = id =>
                      /\ wrr'.items[i].item = NoClient
                      /\ wrr'.items[i].weight = 0
                      /\ wrr'.items[i].old_weight =
                             IF wrr.items[i].weight > 0 THEN wrr.items[i].weight
                             ELSE wrr.items[i].old_weight
      <4>1. IsUpdate(wrr, wrr', NoClient, id)
        BY <2>1
      <4> HIDE DEF id
      <4>2. QED  BY <3>1, <3>2, <3>3, <4>1, UpdatedFields
    <3>4. QED  BY <3>1, <3>3, ItemFields
  <2>3. TableOK'
    BY <1>1, <1>6, <2>1 DEF IInv, TableOK, IsUpdate
  <2>4. ItemsOK'
    <3>1. SUFFICES ASSUME NEW i \in DOMAIN wrr.items
                   PROVE  /\ wrr'.items[i].item # NoClient
                                => NodeOf'[wrr'.items[i].item] = wrr'.items[i].id
                          /\ wrr'.items[i].weight > 0 => wrr'.items[i].item # NoClient
      BY <2>2 DEF ItemsOK
    <3>2. CASE wrr.items[i].id = id
      BY <2>2, <3>1, <3>2
    <3>3. CASE wrr.items[i].id # id
      <4>1. wrr'.items[i] = wrr.items[i]
        BY <2>2, <3>1, <3>3
      <4>2. wrr.items[i].item # c
        BY <1>1, <1>3, <3>1, <3>3, WRRAssumption DEF IInv, ItemsOK
      <4>3. QED
        BY <1>1, <2>2, <3>1, <4>1, <4>2 DEF IInv, ItemsOK, ClientsOK
    <3>4. QED  BY <3>2, <3>3
  <2>5. WeightsKept'
    BY <1>1, <2>2 DEF IInv, WeightsKept
  <2>6. ASSUME NEW d \in Clients, NEW i \in DOMAIN wrr.items,
               status'[d] = "served", wrr'.items[i].id = NodeOf'[d],
               NodeOf'[d] \notin overlapped' \cup reweighted
        PROVE  wrr'.items[i].item = d /\ wrr'.items[i].weight = conf[NodeOf'[d]]
    <3>1. d # c /\ status[d] = "served" /\ NodeOf'[d] = NodeOf[d]
      BY <1>1, <2>6 DEF IInv, ClientsOK
    <3>2. NodeOf[d] \notin overlapped
      BY <1>1, <2>6, <3>1
    <3>3. NodeOf[d] # id
      BY <1>3, <3>1, <3>2 DEF IInv, OverlapsKnown
    <3>4. wrr.items[i].id = NodeOf[d]
      BY <2>2, <2>6, <3>1
    <3>5. wrr'.items[i] = wrr.items[i]
      BY <2>2, <3>3, <3>4
    <3>6. QED  BY <2>6, <3>1, <3>2, <3>4, <3>5 DEF IInv, RegisteredIsEnabled
  <2>7. RegisteredIsEnabled'
    BY <1>1, <2>1, <2>6 DEF RegisteredIsEnabled, IsUpdate
  <2>8. QED  BY <1>2, <1>4, <2>3, <2>4, <2>5, <2>7 DEF IInv
<1>7. QED  BY <1>5, <1>6

(* A node that is added is given to its registered client. *)
LEMMA AddNodeInvariant ==
    ASSUME IInv, NEW id \in Nodes, NEW weight \in Weights, AddNode(id, weight) PROVE IInv'
<1>1. PICK c \in IF RegisteredClients(id) = {} THEN {NoClient} ELSE RegisteredClients(id) :
          wrr' = add_node(wrr, c, id, weight)
  BY DEF AddNode
<1>2. /\ Get(wrr, id) = 0 /\ configured' = TRUE
      /\ conf' = [conf EXCEPT ![id] = weight]
      /\ UNCHANGED <<status, inactive, NodeOf, overlapped, reweighted>>
  BY DEF AddNode, clientVars
<1>3. c \in Clients \cup {NoClient} /\ (c # NoClient => NodeOf[c] = id)
  BY <1>1 DEF RegisteredClients
<1>4. \A d \in Clients : status[d] = "served" /\ NodeOf[d] = id /\ id \notin overlapped => d = c
  <2>1. SUFFICES ASSUME NEW d \in Clients, status[d] = "served", NodeOf[d] = id,
                        id \notin overlapped
                 PROVE  d = c
    OBVIOUS
  <2>2. d \in RegisteredClients(id)
    BY <2>1 DEF RegisteredClients, Registered
  <2>3. c \in Clients /\ NodeOf[c] = id
    BY <1>1, <2>2 DEF RegisteredClients
  <2>4. id # NoClient
    BY WRRAssumption
  <2>5. QED  BY <2>1, <2>3, <2>4 DEF IInv, OverlapsKnown
<1> DEFINE n == Len(wrr.items)
           item == [id |-> id, item |-> c, weight |-> weight, old_weight |-> weight]
<1>5. weight \in Nat
  BY WRRAssumption
<1>6. /\ IsTable(wrr') /\ Exact(wrr')
      /\ DOMAIN wrr'.items = 1..(n + 1)
      /\ \A i \in DOMAIN wrr.items : wrr'.items[i] = wrr.items[i] /\ wrr.items[i].id # id
      /\ wrr'.items[n + 1] = Updated(item, c)
  BY <1>1, <1>2, <1>3, <1>5, Adds DEF IInv, TableOK
<1>7. /\ wrr'.items[n + 1].id = id /\ wrr'.items[n + 1].item = c
      /\ wrr'.items[n + 1].old_weight = weight
      /\ wrr'.items[n + 1].weight = IF c = NoClient THEN 0 ELSE weight
  BY <1>5, <1>6 DEF Updated
<1>8. /\ n \in Nat /\ DOMAIN wrr.items = 1..n
      /\ \A i \in DOMAIN wrr.items : wrr.items[i] \in ItemType
  BY DEF IInv, TableOK, IsTable
<1>9. \A i \in DOMAIN wrr'.items : i = n + 1 \/ i \in DOMAIN wrr.items
  BY <1>6, <1>8
<1> HIDE DEF n, item
<1>10. TableOK'
  BY <1>2, <1>6 DEF IInv, TableOK
<1>11. ClientsOK'
  BY <1>2, <1>5 DEF IInv, ClientsOK
<1>12. OverlapsKnown'
  BY <1>2 DEF IInv, OverlapsKnown
<1>13. ItemsOK'
  BY <1>2, <1>3, <1>6, <1>7, <1>9 DEF IInv, ItemsOK
<1>14. \A i \in DOMAIN wrr.items : wrr.items[i].id \in Nodes
  BY <1>8 DEF ItemType
<1>15. conf'[id] = weight /\ \A m \in Nodes \ {id} : conf'[m] = conf[m]
  BY <1>2 DEF IInv, ClientsOK
<1>16. WeightsKept'
  BY <1>2, <1>6, <1>7, <1>9, <1>14, <1>15 DEF IInv, WeightsKept
<1>17. RegisteredIsEnabled'
  <2>1. SUFFICES ASSUME NEW d \in Clients, NEW i \in DOMAIN wrr'.items,
                        status[d] = "served", wrr'.items[i].id = NodeOf[d],
                        NodeOf[d] \notin overlapped \cup reweighted
                 PROVE  wrr'.items[i].item = d /\ wrr'.items[i].weight = conf'[NodeOf[d]]
    BY <1>2 DEF RegisteredIsEnabled
  <2>2. CASE i = n + 1
    BY <1>4, <1>7, <1>15, <2>1, <2>2, WRRAssumption
  <2>3. CASE i \in DOMAIN wrr.items
    BY <1>6, <1>14, <1>15, <2>1, <2>3 DEF IInv, RegisteredIsEnabled
  <2>4. QED  BY <1>9, <2>2, <2>3
<1>18. QED  BY <1>10, <1>11, <1>12, <1>13, <1>16, <1>17 DEF IInv

LEMMA RemoveNodeInvariant ==
    ASSUME IInv, NEW id \in Nodes, RemoveNode(id) PROVE IInv'
<1>1. /\ Get(wrr, id) # 0 /\ wrr' = remove(wrr, id)
      /\ conf' = [conf EXCEPT ![id] = 0]
      /\ reweighted' = reweighted \ {id}
      /\ UNCHANGED <<configured, status, inactive, NodeOf, overlapped>>
  BY DEF RemoveNode, clientVars
<1>2. /\ IsTable(wrr') /\ Exact(wrr')
      /\ \A j \in DOMAIN wrr'.items :
            /\ wrr'.items[j].id # id
            /\ \E k \in DOMAIN wrr.items : wrr'.items[j] = wrr.items[k]
  BY <1>1, Removes DEF IInv, TableOK
<1>3. configured
  BY <1>1, GetFinds DEF IInv, TableOK
<1>4. TableOK'
  BY <1>1, <1>2, <1>3 DEF IInv, TableOK
<1>5. ClientsOK' /\ OverlapsKnown'
  BY <1>1 DEF IInv, ClientsOK, OverlapsKnown
<1>6. ItemsOK'
  BY <1>1, <1>2 DEF IInv, ItemsOK
<1>7. \A k \in DOMAIN wrr.items : wrr.items[k].id # id =>
          /\ conf'[wrr.items[k].id] = conf[wrr.items[k].id]
          /\ wrr.items[k].id \in reweighted' <=> wrr.items[k].id \in reweighted
  <2> SUFFICES ASSUME NEW k \in DOMAIN wrr.items, wrr.items[k].id # id
               PROVE  /\ conf'[wrr.items[k].id] = conf[wrr.items[k].id]
                      /\ wrr.items[k].id \in reweighted' <=> wrr.items[k].id \in reweighted
    OBVIOUS
  <2>1. wrr.items[k].id \in Nodes
    BY ItemFields
  <2>2. conf \in [Nodes -> Nat]
    BY DEF IInv, ClientsOK
  <2>3. QED  BY <1>1, <2>1, <2>2
<1>8. WeightsKept'
  BY <1>2, <1>7 DEF IInv, WeightsKept
<1>9. RegisteredIsEnabled'
  BY <1>1, <1>2, <1>7 DEF IInv, RegisteredIsEnabled
<1>10. QED  BY <1>4, <1>5, <1>6, <1>8, <1>9 DEF IInv

LEMMA RemoveTypeInvariant == ASSUME IInv, RemoveType PROVE IInv'
<1>1. /\ wrr' = NewWRR /\ configured' = FALSE
      /\ conf' = [id \in Nodes |-> 0] /\ reweighted' = {}
      /\ UNCHANGED <<status, inactive, NodeOf, overlapped>>
  BY DEF RemoveType, clientVars
<1>2. wrr'.items = <<>> /\ TableOK'
  BY <1>1, NewIsExact DEF TableOK
<1>3. ClientsOK' /\ OverlapsKnown'
  BY <1>1 DEF IInv, ClientsOK, OverlapsKnown
<1>4. ItemsOK' /\ WeightsKept' /\ RegisteredIsEnabled'
  BY <1>2 DEF ItemsOK, WeightsKept, RegisteredIsEnabled
<1>5. QED  BY <1>2, <1>3, <1>4 DEF IInv

(* A changed weight is on record; the other nodes keep theirs. *)
LEMMA SetWeightInvariant ==
    ASSUME IInv, NEW id \in Nodes, NEW weight \in Nat, SetWeight(id, weight) PROVE IInv'
<1> DEFINE i == Get(wrr, id)
           item == [wrr.items[i] EXCEPT !.weight = weight]
           written == [wrr EXCEPT !.items[i].weight = weight]
<1>1. /\ i # 0
      /\ conf' = [conf EXCEPT ![id] = weight]
      /\ wrr' = IF wrr.items[i].item = NoClient THEN wrr
                ELSE update_client(written, wrr.items[i].item, id)
      /\ reweighted' = reweighted \cup {id}
      /\ UNCHANGED <<configured, status, inactive, NodeOf, overlapped>>
  BY DEF SetWeight, clientVars
<1>2. /\ i \in DOMAIN wrr.items /\ wrr.items[i].id = id
      /\ \A j \in DOMAIN wrr.items : wrr.items[j].id = id => j = i
      /\ \A j \in DOMAIN wrr.items : wrr.items[j] \in ItemType
  BY <1>1, GetFinds DEF IInv, TableOK, IsTable
<1>3. /\ item \in ItemType /\ item.id = id /\ item.item = wrr.items[i].item
      /\ item.weight = weight
  BY <1>2 DEF ItemType
<1>4. IsTable(written) /\ written.items = [wrr.items EXCEPT ![i] = item]
  <2>1. written = [wrr EXCEPT !.items = [wrr.items EXCEPT ![i] = item]]
    OBVIOUS
  <2>2. item.id = wrr.items[i].id
    BY <1>2, <1>3
  <2>3. IsTable(wrr)
    BY DEF IInv, TableOK
  <2> HIDE DEF item, i
  <2>4. LET u == [wrr EXCEPT !.items = [wrr.items EXCEPT ![i] = item]]
        IN  IsTable(u) /\ u.items = [wrr.items EXCEPT ![i] = item]
    BY <1>2, <1>3, <2>2, <2>3, OneItemPut
  <2> HIDE DEF written
  <2>5. QED  BY <2>1, <2>4
<1> HIDE DEF item, written, i
<1>5. /\ IsTable(wrr') /\ DOMAIN wrr'.items = DOMAIN wrr.items
      /\ \A j \in DOMAIN wrr.items : j # i => wrr'.items[j] = wrr.items[j]
      /\ wrr'.items[i].id = id
      /\ wrr'.items[i].item = wrr.items[i].item
      /\ wrr'.items[i].weight > 0 => wrr'.items[i].item # NoClient
  <2>1. CASE wrr.items[i].item = NoClient
    BY <1>1, <1>2, <2>1 DEF IInv, TableOK, ItemsOK
  <2>2. CASE wrr.items[i].item # NoClient
    <3>1. wrr.items[i].item \in Clients \cup {NoClient}
      BY <1>2 DEF ItemType
    <3>2. IsUpdate(written, wrr', wrr.items[i].item, id)
      BY <1>1, <1>4, <2>2, <3>1, Updates
    <3>3. DOMAIN written.items = DOMAIN wrr.items /\ written.items[i] = item
          /\ \A j \in DOMAIN wrr.items : j # i => written.items[j] = wrr.items[j]
      BY <1>2, <1>4
    <3>4. /\ \A j \in DOMAIN wrr.items : wrr'.items[j].id = written.items[j].id
          /\ \A j \in DOMAIN wrr.items :
                written.items[j].id # id => wrr'.items[j] = written.items[j]
          /\ wrr'.items[i].item = wrr.items[i].item
      <4>1. ASSUME NEW j \in DOMAIN wrr.items
            PROVE  /\ wrr'.items[j].id = written.items[j].id
                   /\ written.items[j].id # id => wrr'.items[j] = written.items[j]
                   /\ written.items[j].id = id => wrr'.items[j].item = wrr.items[i].item
        <5> DEFINE client == wrr.items[i].item
        <5>1. client \in Clients \cup {NoClient} /\ IsUpdate(written, wrr', client, id)
          BY <3>1, <3>2
        <5>2. IsTable(written) /\ j \in DOMAIN written.items
          BY <1>4, <3>3, <4>1
        <5> HIDE DEF client
        <5>3. /\ wrr'.items[j].id = written.items[j].id
              /\ written.items[j].id # id => wrr'.items[j] = written.items[j]
              /\ written.items[j].id = id => wrr'.items[j].item = client
          BY <5>1, <5>2, UpdatedFields
        <5>4. QED  BY <5>3 DEF client
      <4>2. i \in DOMAIN wrr.items /\ written.items[i].id = id
        BY <1>2, <1>3, <3>3
      <4>3. wrr'.items[i].item = wrr.items[i].item
        BY <4>1, <4>2
      <4>4. QED  BY <4>1, <4>3
    <3>5. QED  BY <1>2, <1>3, <2>2, <3>2, <3>3, <3>4 DEF IsUpdate
  <2>3. QED  BY <2>1, <2>2
<1>6. configured
  BY <1>2 DEF IInv, TableOK
<1>7. TableOK'
  BY <1>1, <1>5, <1>6 DEF IInv, TableOK
<1>8. ClientsOK' /\ OverlapsKnown'
  BY <1>1 DEF IInv, ClientsOK, OverlapsKnown
<1>9. ItemsOK'
  <2>1. SUFFICES ASSUME NEW j \in DOMAIN wrr.items
                 PROVE  /\ wrr'.items[j].item # NoClient
                              => NodeOf[wrr'.items[j].item] = wrr'.items[j].id
                        /\ wrr'.items[j].weight > 0 => wrr'.items[j].item # NoClient
    BY <1>1, <1>5 DEF ItemsOK
  <2>2. QED  BY <1>2, <1>5, <2>1 DEF IInv, ItemsOK
<1>10. \A j \in DOMAIN wrr.items : wrr.items[j].id # id =>
          /\ j # i /\ wrr'.items[j] = wrr.items[j]
          /\ conf'[wrr.items[j].id] = conf[wrr.items[j].id]
  BY <1>1, <1>2, <1>5 DEF IInv, ClientsOK, ItemType
<1>11. \A j \in DOMAIN wrr.items : wrr'.items[j].id = wrr.items[j].id
  BY <1>2, <1>5
<1>12. WeightsKept'
  <2>1. SUFFICES ASSUME NEW j \in DOMAIN wrr.items, wrr.items[j].id \notin reweighted'
                 PROVE  /\ wrr'.items[j].old_weight = conf'[wrr.items[j].id]
                        /\ wrr'.items[j].weight \in {0, conf'[wrr.items[j].id]}
    BY <1>5, <1>11 DEF WeightsKept
  <2>2. wrr.items[j].id # id /\ wrr.items[j].id \notin reweighted
    BY <1>1, <2>1
  <2>3. wrr'.items[j] = wrr.items[j] /\ conf'[wrr.items[j].id] = conf[wrr.items[j].id]
    BY <1>10, <2>1, <2>2
  <2>4. QED  BY <2>1, <2>2, <2>3 DEF IInv, WeightsKept
<1>13. RegisteredIsEnabled'
  <2>1. SUFFICES ASSUME NEW d \in Clients, NEW j \in DOMAIN wrr.items, status[d] = "served",
                        wrr.items[j].id = NodeOf[d],
                        NodeOf[d] \notin overlapped \cup reweighted'
                 PROVE  wrr'.items[j].item = d /\ wrr'.items[j].weight = conf'[NodeOf[d]]
    <3>1. DOMAIN wrr'.items = DOMAIN wrr.items
      BY <1>5
    <3>2. UNCHANGED <<status, NodeOf, overlapped>>
      BY <1>1
    <3>3. QED  BY <1>11, <3>1, <3>2 DEF RegisteredIsEnabled
  <2>2. wrr.items[j].id # id /\ NodeOf[d] \notin reweighted
    BY <1>1, <2>1
  <2>3. wrr'.items[j] = wrr.items[j] /\ conf'[NodeOf[d]] = conf[NodeOf[d]]
    BY <1>10, <2>1, <2>2
  <2>4. QED  BY <2>1, <2>2, <2>3 DEF IInv, RegisteredIsEnabled
<1>14. QED  BY <1>7, <1>8, <1>9, <1>12, <1>13 DEF IInv

LEMMA RouteInvariant == ASSUME IInv, Route PROVE IInv'
<1>1. /\ wrr' = run(wrr).wrr
      /\ UNCHANGED <<configured, conf, status, inactive, NodeOf, overlapped, reweighted>>
  BY DEF Route, clientVars
<1>2. IsTable(wrr') /\ (Exact(wrr) => Exact(wrr')) /\ wrr'.items = wrr.items
  BY <1>1, Runs DEF IInv, TableOK
<1>3. TableOK'
  BY <1>1, <1>2 DEF IInv, TableOK
<1>4. ClientsOK' /\ OverlapsKnown'
  BY <1>1 DEF IInv, ClientsOK, OverlapsKnown
<1>5. ItemsOK' /\ WeightsKept' /\ RegisteredIsEnabled'
  BY <1>1, <1>2 DEF IInv, ItemsOK, WeightsKept, RegisteredIsEnabled
<1>6. QED  BY <1>3, <1>4, <1>5 DEF IInv

LEMMA StutterInvariant == ASSUME IInv, UNCHANGED vars PROVE IInv'
<1>1. UNCHANGED <<configured, wrr, conf, status, inactive, NodeOf, overlapped, reweighted>>
  BY DEF vars, clientVars
<1>2. TableOK'
  BY <1>1 DEF IInv, TableOK, Exact
<1>3. (ClientsOK /\ OverlapsKnown /\ ItemsOK /\ WeightsKept /\ RegisteredIsEnabled)'
  BY <1>1 DEF IInv, ClientsOK, OverlapsKnown, ItemsOK, WeightsKept, RegisteredIsEnabled
<1>4. QED  BY <1>2, <1>3 DEF IInv
-----------------------------------------------------------------------------
(* The invariant holds for the table and the clients that register,        *)
(* leave and return while nodes are added, removed and reweighted.         *)
THEOREM Invariance == Spec => []IInv
<1>1. Init => IInv
  BY InitInvariant
<1>2. IInv /\ [Next]_vars => IInv'
  <2> SUFFICES ASSUME IInv, [Next]_vars PROVE IInv'
    OBVIOUS
  <2>1. CASE UNCHANGED vars
    BY <2>1, StutterInvariant
  <2>2. CASE Route
    BY <2>2, RouteInvariant
  <2>3. CASE ConfigStep
    <3>1. CASE RemoveType
      BY <3>1, RemoveTypeInvariant
    <3>2. ASSUME NEW id \in Nodes, RemoveNode(id) PROVE IInv'
      BY <3>2, RemoveNodeInvariant
    <3>3. ASSUME NEW id \in Nodes, DeleteWeight(id) PROVE IInv'
      BY <3>3, SetWeightInvariant DEF DeleteWeight
    <3>4. ASSUME NEW id \in Nodes, NEW weight \in Weights, AddNode(id, weight) PROVE IInv'
      BY <3>4, AddNodeInvariant
    <3>5. ASSUME NEW id \in Nodes, NEW weight \in Weights, ModifyWeight(id, weight)
          PROVE  IInv'
      BY <3>5, SetWeightInvariant, WRRAssumption DEF ModifyWeight
    <3>6. QED  BY <2>3, <3>1, <3>2, <3>3, <3>4, <3>5 DEF ConfigStep
  <2>4. ASSUME NEW c \in Clients, ClientStep(c) PROVE IInv'
    <3>1. ASSUME NEW id \in Nodes, Connect(c, id) PROVE IInv'
      BY <3>1, ConnectInvariant
    <3>2. CASE SetRegistered(c)
      <4>1. /\ status[c] # "away" /\ status' = [status EXCEPT ![c] = "registered"]
            /\ inactive' \subseteq inactive \cup {c}
            /\ UNCHANGED <<configured, wrr, conf, NodeOf, overlapped, reweighted>>
        BY <3>2 DEF SetRegistered, Goto
      <4>2. QED  BY <4>1, StatusInvariant
    <3>3. CASE Register(c)
      BY <3>3, RegisterInvariant
    <3>4. CASE Disconnect(c)
      BY <3>4, DisconnectInvariant
    <3>5. CASE Lose(c)
      <4>1. /\ status[c] # "away" /\ status' = [status EXCEPT ![c] = "lost"]
            /\ inactive' \subseteq inactive \cup {c}
            /\ UNCHANGED <<configured, wrr, conf, NodeOf, overlapped, reweighted>>
        BY <3>5 DEF Lose, Goto
      <4>2. QED  BY <4>1, StatusInvariant
    <3>6. CASE RemoveClient(c)
      BY <3>6, RemoveClientInvariant
    <3>7. QED  BY <2>4, <3>1, <3>2, <3>3, <3>4, <3>5, <3>6 DEF ClientStep
  <2>5. QED  BY <2>1, <2>2, <2>3, <2>4 DEF Next
<1>3. QED  BY <1>1, <1>2, PTL DEF Spec

(* find_route never takes a removed client from the table, and an item     *)
(* that run() may return has a client.                                     *)
THEOREM TableIsAlive == Spec => []ItemsAreAlive
<1>1. IInv => ItemsAreAlive
  <2>1. SUFFICES ASSUME IInv, NEW i \in DOMAIN wrr.items
                 PROVE  /\ wrr.items[i].item \in
                               {NoClient} \cup {c \in Clients : status[c] # "away"}
                        /\ wrr.items[i].weight > 0 => wrr.items[i].item # NoClient
    BY DEF ItemsAreAlive
  <2>2. wrr.items[i] \in ItemType
    BY <2>1 DEF IInv, TableOK, IsTable
  <2>3. wrr.items[i].id \in Nodes /\ wrr.items[i].item \in Clients \cup {NoClient}
    BY <2>2 DEF ItemType
  <2>4. QED  BY <2>1, <2>3, WRRAssumption DEF IInv, ItemsOK, ClientsOK
<1>2. QED  BY <1>1, Invariance, PTL

(* A registered daemon is in the table with its configured weight, unless  *)
(* its connections overlapped or its weight was changed.                   *)
THEOREM RegisteredAreEnabled == Spec => []RegisteredIsEnabled
<1>1. IInv => RegisteredIsEnabled
  BY DEF IInv
<1>2. QED  BY <1>1, Invariance, PTL

(* The gcd and the maximum are those of the current weights, as long as no *)
(* weight is changed: every operation that changes a weight recalculates.  *)
THEOREM GcdFollows == Spec => []Recalculated
<1>1. IInv => Recalculated
  BY ExactTables DEF IInv, TableOK, IsTable, Recalculated
<1>2. QED  BY <1>1, Invariance, PTL

(* Every variable keeps its type: the table has one item for a node, its   *)
(* gcd, maximum and current weight are natural numbers, whatever is added, *)
(* removed, reweighted or routed in between.                               *)
THEOREM TypeCorrect == Spec => []TypeOK
<1>1. Init => shrunk \in BOOLEAN
  BY DEF Init
<1>2. IInv /\ shrunk \in BOOLEAN /\ [Next]_vars => (shrunk \in BOOLEAN)'
  <2> SUFFICES ASSUME IInv, shrunk \in BOOLEAN, [Next]_vars PROVE shrunk' \in BOOLEAN
    OBVIOUS
  <2>1. configured \in BOOLEAN
    BY DEF IInv, TableOK
  <2>2. CASE UNCHANGED vars
    BY <2>2 DEF vars
  <2>3. CASE Route
    BY <2>3 DEF Route
  <2>4. CASE ConfigStep
    BY <2>4 DEF ConfigStep, RemoveNode, DeleteWeight, AddNode, ModifyWeight, SetWeight,
                RemoveType
  <2>5. ASSUME NEW c \in Clients, ClientStep(c) PROVE shrunk' \in BOOLEAN
    BY <2>1, <2>5 DEF ClientStep, Connect, SetRegistered, Register, Disconnect, Lose,
                      RemoveClient
  <2>6. QED  BY <2>2, <2>3, <2>4, <2>5 DEF Next
<1>3. IInv /\ shrunk \in BOOLEAN => TypeOK
  BY DEF IInv, TableOK, IsTable, HasNumbers, ClientsOK, TypeOK
<1>4. QED  BY <1>1, <1>2, <1>3, Invariance, PTL DEF Spec

(* Packets do not stay without a route while a node is enabled: each one   *)
(* that finds no item lowers the current weight by the gcd, and as many as *)
(* it takes to come down to the gcd are enough.  This needs a gcd that is  *)
(* at most every weight, hence the recalculation, and a maximum that is    *)
(* one of the weights.                                                     *)
THEOREM PacketsFindARoute == Spec => []RoutedAgain
<1>1. IInv => RoutedAgain
  <2>1. SUFFICES ASSUME IInv, NEW e \in DOMAIN wrr.items, wrr.items[e].weight > 0,
                        reweighted = {}
                 PROVE  \E k \in 1..(wrr.cw \div wrr.w_gcd + 1) : After(wrr, k).at # -1
    BY DEF RoutedAgain, Enabled
  <2>2. IsTable(wrr) /\ Exact(wrr)
    BY <2>1 DEF IInv, TableOK
  <2>3. QED  BY <2>1, <2>2, HitsAgain
<1>2. QED  BY <1>1, Invariance, PTL
-----------------------------------------------------------------------------
(* u has the items of w, at the same place; the weights of w are kept, and *)
(* items without one may have got one.                                     *)
Grows(w, u) ==
    /\ IsTable(u) /\ Exact(u) /\ SamePlace(w, u)
    /\ Len(w.items) <= Len(u.items)
    /\ \A i \in DOMAIN w.items :
          w.items[i].weight > 0 => u.items[i].weight = w.items[i].weight

(* A table that grows stays aligned: a weight that comes to the others can *)
(* only make the gcd a divisor of what it was, and the maximum larger.     *)
LEMMA GrowsAligned ==
    ASSUME NEW w, IsTable(w), Exact(w), Aligned(w), NEW u, Grows(w, u)
    PROVE  Aligned(u)
<1> DEFINE W == WeightsOf(w)
           U == WeightsOf(u)
           g == w.w_gcd
           h == u.w_gcd
<1>1. /\ W \in Seq(Nat) /\ DOMAIN W = DOMAIN w.items
      /\ \A i \in DOMAIN w.items : W[i] = w.items[i].weight
  BY WeightsAre
<1>2. /\ U \in Seq(Nat) /\ DOMAIN U = DOMAIN u.items
      /\ \A i \in DOMAIN u.items : U[i] = u.items[i].weight
  BY WeightsAre DEF Grows
<1>3. /\ g = GcdOf(W) /\ w.w_max = Max({0} \cup ToSet(W))
      /\ h = GcdOf(U) /\ u.w_max = Max({0} \cup ToSet(U))
  BY DEF Exact, Grows
<1>4. DOMAIN w.items \subseteq DOMAIN u.items
  <2>1. /\ DOMAIN w.items = 1..Len(w.items) /\ Len(w.items) \in Nat
        /\ DOMAIN u.items = 1..Len(u.items) /\ Len(u.items) \in Nat
    BY DEF IsTable, Grows
  <2>2. Len(w.items) <= Len(u.items)
    BY DEF Grows
  <2>3. QED  BY <2>1, <2>2
<1>5. \A i \in DOMAIN W : i \in DOMAIN U /\ W[i] \in Nat /\ (W[i] > 0 => U[i] = W[i])
  <2> HIDE DEF W, U
  <2>1. \A i \in DOMAIN W : W[i] \in Nat
    BY <1>1
  <2>2. QED  BY <1>1, <1>2, <1>4, <2>1 DEF Grows
<1> HIDE DEF W, U, g, h
<1>6. h \in Nat /\ g \in Nat /\ \A i \in DOMAIN U : Divides(h, U[i])
  BY <1>1, <1>2, <1>3, GcdOfDivides
<1>7. /\ w.w_max \in Nat /\ u.w_max \in Nat
      /\ w.w_max # 0 => \E i \in DOMAIN W : W[i] = w.w_max
      /\ \A i \in DOMAIN U : U[i] <= u.w_max
  BY <1>1, <1>2, <1>3, MaxOfWeights
<1>8. \A i \in DOMAIN W : Divides(h, W[i])
  <2> SUFFICES ASSUME NEW i \in DOMAIN W PROVE Divides(h, W[i])
    OBVIOUS
  <2>1. CASE W[i] > 0
    BY <1>5, <1>6, <2>1
  <2>2. CASE W[i] = 0
    BY <1>6, <2>2, Dividing
  <2>3. QED  BY <1>5, <2>1, <2>2
<1>9. /\ u.cw = w.cw /\ u.index = w.index /\ w.cw \in Nat
      /\ w.index \in Nat \cup {-1} /\ Divides(g, w.cw) /\ w.cw <= w.w_max
      /\ w.index < Len(w.items) /\ Len(w.items) <= Len(u.items)
      /\ Len(w.items) \in Nat /\ Len(u.items) \in Nat
  BY DEF Grows, SamePlace, Aligned, IsTable, HasNumbers, g
<1>10. w.w_max <= u.w_max
  <2>1. CASE w.w_max = 0
    BY <1>7, <2>1
  <2>2. CASE w.w_max # 0
    <3>1. PICK i \in DOMAIN W : W[i] = w.w_max
      BY <1>7, <2>2
    <3>2. W[i] > 0 /\ i \in DOMAIN U /\ U[i] = W[i]
      BY <1>5, <1>7, <2>2, <3>1
    <3>3. QED  BY <1>7, <3>1, <3>2
  <2>3. QED  BY <2>1, <2>2
<1>11. Divides(h, w.cw)
  <2>1. CASE h # 0
    <3>1. Divides(h, g)
      BY <1>1, <1>3, <1>6, <1>8, <2>1, GcdOfDivides
    <3>2. QED  BY <1>6, <1>9, <3>1, DividesThrough
  <2>2. CASE h = 0
    <3>1. \A i \in DOMAIN W : W[i] = 0
      BY <1>5, <1>8, <2>2, Dividing
    <3>2. w.cw = 0
      BY <1>7, <1>9, <3>1
    <3>3. QED  BY <1>6, <3>2, Dividing
  <2>3. QED  BY <2>1, <2>2
<1>12. u.cw <= u.w_max /\ u.index < Len(u.items)
  BY <1>7, <1>9, <1>10
<1>13. QED  BY <1>9, <1>11, <1>12 DEF Aligned, h

(* A packet leaves a table aligned. *)
LEMMA RunsAligned ==
    ASSUME NEW w, IsTable(w), Exact(w), Aligned(w)
    PROVE  Aligned(run(w).wrr)
<1> DEFINE n == Len(w.items)
<1>1. CASE \E e \in DOMAIN w.items : w.items[e].weight > 0
  <2>1. PICK v, M, L, E : InUnits(w, v, M) /\ AtLevel(w, M, L, E)
    BY <1>1, AlignedLevel
  <2>2. PICK L2 \in 1..M, E2 \in 0..(n - 1) :
            InUnits(run(w).wrr, v, M) /\ AtLevel(run(w).wrr, M, L2, E2)
    BY <2>1, RunMoves
  <2> DEFINE u == run(w).wrr
             g == u.w_gcd
  <2>3. u.items = w.items /\ IsTable(u)
    BY Runs
  <2> HIDE DEF u
  <2>4. /\ g \in Nat \ {0} /\ M \in Nat \ {0} /\ u.w_max = M * g
        /\ u.cw = L2 * g \/ u.cw = 0
        /\ u.index = -1 \/ u.index = E2
        /\ n \in Nat
    BY <2>2, <2>3 DEF InUnits, AtLevel, IsTable, HasNumbers, u
  <2> HIDE DEF g, n
  <2>5. PICK l \in 0..M : u.cw = l * g
    <3>1. 0 * g = 0 /\ 0 \in 0..M /\ L2 \in 0..M
      BY <2>4
    <3>2. QED  BY <2>4, <3>1
  <2>6. l * g <= M * g
    <3>1. M * g >= l * g /\ M * g \in Nat /\ l * g \in Nat
      BY <2>4, <2>5, TimesOrder
    <3>2. QED  BY <3>1
  <2>7. Divides(g, u.cw)
    BY <2>4, <2>5 DEF Divides
  <2>8. u.index < Len(u.items)
    BY <2>3, <2>4 DEF n
  <2>9. QED  BY <2>4, <2>5, <2>6, <2>7, <2>8 DEF Aligned, u, g
<1>2. CASE ~\E e \in DOMAIN w.items : w.items[e].weight > 0
  <2>1. w.w_max = 0
    <3>1. /\ WeightsOf(w) \in Seq(Nat) /\ DOMAIN WeightsOf(w) = DOMAIN w.items
          /\ \A i \in DOMAIN w.items : WeightsOf(w)[i] = w.items[i].weight
      BY WeightsAre
    <3> DEFINE W == WeightsOf(w)
    <3>2. w.w_max = Max({0} \cup ToSet(W))
      BY DEF Exact
    <3> HIDE DEF W
    <3>3. w.w_max \in Nat /\ (w.w_max # 0 => \E i \in DOMAIN W : W[i] = w.w_max)
      BY <3>1, <3>2, MaxOfWeights DEF W
    <3>4. QED  BY <1>2, <3>1, <3>3 DEF W
  <2>2. w.cw = 0 /\ w.w_gcd \in Nat
    BY <2>1 DEF Aligned, IsTable, HasNumbers
  <2>3. CASE n = 0
    <3>1. run(w).wrr = w
      BY <2>3, RunCases
    <3>2. QED  BY <3>1
  <2>4. CASE n # 0
    <3>1. AheadHits(w) = {}
      BY <1>2, <2>4, PositionsAre DEF AheadHits, Hits
    <3>2. Lowered(w) = 0
      BY <2>1, <2>2 DEF Lowered
    <3>3. run(w).wrr = AtPosition(w, 0, 0)
      BY <2>4, <3>1, <3>2, RunCases
    <3> DEFINE u == AtPosition(w, 0, 0)
    <3>4. u = [items |-> w.items, w_gcd |-> w.w_gcd, w_max |-> w.w_max, index |-> 0, cw |-> 0]
      BY PutIndex DEF IsTable, AtPosition
    <3> HIDE DEF u
    <3>5. u.items = w.items /\ u.w_gcd = w.w_gcd /\ u.w_max = 0 /\ u.index = 0 /\ u.cw = 0
      BY <2>1, <3>4
    <3>6. Divides(u.w_gcd, 0)
      BY <2>2, <3>5, Dividing
    <3>7. 0 < Len(u.items)
      BY <2>4, <3>5 DEF IsTable
    <3>8. QED  BY <3>3, <3>5, <3>6, <3>7 DEF Aligned, u
  <2>5. QED  BY <2>3, <2>4
<1>3. QED  BY <1>1, <1>2

(* The strengthening of the invariant that the shares need. *)
GrownIsAligned ==
    /\ ~configured => wrr = NewWRR /\ reweighted = {}
    /\ ~shrunk => reweighted = {} /\ Aligned(wrr)

(* A new table is aligned. *)
LEMMA NewIsAligned == Aligned(NewWRR)
<1>1. /\ NewWRR.w_gcd = 0 /\ NewWRR.cw = 0 /\ NewWRR.w_max = 0
      /\ NewWRR.index = -1 /\ NewWRR.items = <<>>
  BY DEF NewWRR
<1>2. Divides(0, 0) /\ Len(<<>>) = 0
  BY Dividing
<1>3. QED  BY <1>1, <1>2 DEF Aligned

(* A step after which the table has grown leaves it aligned. *)
LEMMA GrowsInvariant ==
    ASSUME IInv, GrownIsAligned, ~shrunk, Grows(wrr, wrr')
    PROVE  Aligned(wrr')
<1>1. IsTable(wrr) /\ Exact(wrr) /\ Aligned(wrr)
  BY DEF IInv, TableOK, GrownIsAligned
<1>2. QED  BY <1>1, GrowsAligned

\* A daemon that registers gives its item a weight.
LEMMA RegisterGrows ==
    ASSUME IInv, GrownIsAligned, ~shrunk, configured, NEW c \in Clients, Register(c)
    PROVE  Grows(wrr, wrr')
<1>1. wrr' = update_client(wrr, c, NodeOf[c])
  BY DEF Register
<1>2. IsTable(wrr) /\ Exact(wrr)
  BY DEF IInv, TableOK, GrownIsAligned
<1>3. c # NoClient /\ c \in Clients \cup {NoClient}
  BY WRRAssumption
<1>4. IsUpdate(wrr, wrr', c, NodeOf[c])
  BY <1>1, <1>2, <1>3, Updates
<1>5. ASSUME NEW i \in DOMAIN wrr.items, wrr.items[i].weight > 0
      PROVE  wrr'.items[i].weight = wrr.items[i].weight
  <2>1. /\ wrr.items[i].id # NodeOf[c] => wrr'.items[i] = wrr.items[i]
        /\ wrr.items[i].id = NodeOf[c] =>
              wrr'.items[i].weight = IF c = NoClient THEN 0
                                     ELSE IF wrr.items[i].weight > 0 THEN wrr.items[i].weight
                                     ELSE wrr.items[i].old_weight
    BY <1>2, <1>3, <1>4, UpdatedFields
  <2>2. QED  BY <1>3, <1>5, <2>1
<1>6. IsTable(wrr') /\ Exact(wrr') /\ SamePlace(wrr, wrr') /\ DOMAIN wrr'.items = DOMAIN wrr.items
  BY <1>2, <1>4 DEF IsUpdate
<1>7. Len(wrr.items) <= Len(wrr'.items)
  <2>1. /\ DOMAIN wrr.items = 1..Len(wrr.items) /\ Len(wrr.items) \in Nat
        /\ DOMAIN wrr'.items = 1..Len(wrr'.items) /\ Len(wrr'.items) \in Nat
    BY <1>2, <1>6 DEF IsTable
  <2>2. QED  BY <1>6, <2>1
<1>8. QED  BY <1>5, <1>6, <1>7 DEF Grows

\* A node that is added is appended.
LEMMA AddNodeGrows ==
    ASSUME IInv, NEW id \in Nodes, NEW weight \in Weights, AddNode(id, weight)
    PROVE  Grows(wrr, wrr')
<1>1. PICK c \in Clients \cup {NoClient} : wrr' = add_node(wrr, c, id, weight)
  BY DEF AddNode, RegisteredClients
<1>2. IsTable(wrr) /\ Get(wrr, id) = 0 /\ weight \in Nat
  BY WRRAssumption DEF IInv, TableOK, AddNode
<1>3. /\ IsTable(wrr') /\ Exact(wrr') /\ SamePlace(wrr, wrr')
      /\ DOMAIN wrr'.items = 1..(Len(wrr.items) + 1)
      /\ \A i \in DOMAIN wrr.items : wrr'.items[i] = wrr.items[i]
  <2> DEFINE n == Len(wrr.items)
             item == [id |-> id, item |-> c, weight |-> weight, old_weight |-> weight]
  <2>1. /\ IsTable(wrr') /\ Exact(wrr') /\ SamePlace(wrr, wrr')
        /\ DOMAIN wrr'.items = 1..(n + 1)
        /\ \A i \in DOMAIN wrr.items : wrr'.items[i] = wrr.items[i] /\ wrr.items[i].id # id
        /\ wrr'.items[n + 1] = Updated(item, c)
    BY <1>1, <1>2, Adds
  <2>2. QED  BY <2>1
<1>4. Len(wrr.items) <= Len(wrr'.items)
  <2>1. /\ Len(wrr.items) \in Nat
        /\ DOMAIN wrr'.items = 1..Len(wrr'.items) /\ Len(wrr'.items) \in Nat
    BY <1>2, <1>3 DEF IsTable
  <2>2. QED  BY <1>3, <2>1
<1>5. QED  BY <1>3, <1>4 DEF Grows

(* Every step keeps a table that has only grown aligned. *)
LEMMA GrownIsKept == IInv /\ GrownIsAligned /\ [Next]_vars => GrownIsAligned'
<1> SUFFICES ASSUME IInv, GrownIsAligned, [Next]_vars PROVE GrownIsAligned'
  OBVIOUS
<1>1. CASE UNCHANGED <<configured, wrr, shrunk, reweighted>>
  BY <1>1 DEF GrownIsAligned, Aligned
<1>2. CASE UNCHANGED vars
  BY <1>1, <1>2 DEF vars
<1>3. CASE Route
  <2>1. wrr' = run(wrr).wrr /\ configured /\ UNCHANGED <<configured, shrunk, reweighted>>
    BY <1>3 DEF Route
  <2>2. ASSUME ~shrunk PROVE Aligned(wrr')
    <3>1. IsTable(wrr) /\ Exact(wrr) /\ Aligned(wrr)
      BY <2>2 DEF IInv, TableOK, GrownIsAligned
    <3>2. QED  BY <2>1, <3>1, RunsAligned
  <2>3. QED  BY <2>1, <2>2 DEF GrownIsAligned
<1>4. CASE RemoveType
  BY <1>4, NewIsAligned DEF RemoveType, GrownIsAligned
<1>5. ASSUME NEW id \in Nodes, Get(wrr, id) # 0 PROVE configured
  BY <1>5, GetFinds DEF IInv, TableOK
<1>6. ASSUME NEW id \in Nodes, RemoveNode(id) PROVE GrownIsAligned'
  BY <1>5, <1>6 DEF RemoveNode, GrownIsAligned
<1>7. ASSUME NEW id \in Nodes, NEW weight, SetWeight(id, weight) PROVE GrownIsAligned'
  BY <1>5, <1>7 DEF SetWeight, GrownIsAligned
<1>8. ASSUME NEW id \in Nodes, NEW weight \in Weights, AddNode(id, weight)
      PROVE  GrownIsAligned'
  <2>1. configured' /\ UNCHANGED <<shrunk, reweighted>>
    BY <1>8 DEF AddNode
  <2>2. ~shrunk => Aligned(wrr')
    BY <1>8, AddNodeGrows, GrowsInvariant
  <2>3. QED  BY <2>1, <2>2 DEF GrownIsAligned
<1>9. ASSUME NEW c \in Clients, Register(c) PROVE GrownIsAligned'
  <2>1. UNCHANGED <<configured, shrunk, reweighted>> /\ (~configured => wrr' = wrr)
    BY <1>9 DEF Register
  <2>2. CASE configured
    <3>1. ~shrunk => Aligned(wrr')
      BY <1>9, <2>2, RegisterGrows, GrowsInvariant
    <3>2. QED  BY <2>1, <2>2, <3>1 DEF GrownIsAligned
  <2>3. CASE ~configured
    BY <1>1, <2>1, <2>3
  <2>4. QED  BY <2>2, <2>3
<1>10. ASSUME NEW c \in Clients, RemoveClient(c) PROVE GrownIsAligned'
  <2>1. /\ UNCHANGED <<configured, reweighted>> /\ shrunk' = configured
        /\ ~configured => wrr' = wrr
    BY <1>10 DEF RemoveClient
  <2>2. QED  BY <2>1, NewIsAligned DEF GrownIsAligned
<1>11. ASSUME NEW c \in Clients, ClientStep(c) PROVE GrownIsAligned'
  <2>1. ASSUME NEW id \in Nodes, Connect(c, id) PROVE GrownIsAligned'
    BY <1>1, <2>1 DEF Connect
  <2>2. CASE SetRegistered(c) \/ Disconnect(c) \/ Lose(c)
    BY <1>1, <2>2 DEF SetRegistered, Disconnect, Lose
  <2>3. QED  BY <1>9, <1>10, <1>11, <2>1, <2>2 DEF ClientStep
<1>12. CASE ConfigStep
  BY <1>4, <1>6, <1>7, <1>8, <1>12 DEF ConfigStep, DeleteWeight, ModifyWeight
<1>13. QED  BY <1>2, <1>3, <1>11, <1>12 DEF Next

(* While nothing changes, run() gives every node of a table that has only  *)
(* grown its share of any Sum(weights)/gcd packets in a row, wherever the  *)
(* packets before left off.  The argument: the current weight is always a  *)
(* multiple of the gcd; what each item was given since the current weight  *)
(* was last the maximum is a function of where the table is; of two such   *)
(* functions one is nowhere less than the other, so if all packets went to *)
(* an item, and they are as many as the units, each has its own.           *)
THEOREM SharesAreFair == Spec => []FairShare
<1>1. Init => GrownIsAligned
  BY NewIsAligned DEF Init, GrownIsAligned
<1>2. IInv /\ GrownIsAligned => FairShare
  <2>1. SUFFICES ASSUME IInv, GrownIsAligned, ~shrunk,
                        NEW e \in DOMAIN wrr.items, wrr.items[e].weight > 0
                 PROVE  SharesFairly(wrr)
    BY DEF FairShare, Enabled
  <2>2. IsTable(wrr) /\ Exact(wrr) /\ Aligned(wrr)
    BY <2>1 DEF IInv, TableOK, GrownIsAligned
  <2>3. QED  BY <2>1, <2>2, AlignedSharesFairly
<1>3. QED  BY <1>1, <1>2, GrownIsKept, Invariance, PTL DEF Spec
=============================================================================
