------------------------------ MODULE CodeFacts ------------------------------
(***************************************************************************)
(* What the other proof modules need of numbers: least elements and        *)
(* induction for sets of natural numbers, stated for sets rather than      *)
(* predicates, quotients, the existence of recursive functions, and sums;  *)
(* and of the codes of BitCodes: how long they are, and that wherever they *)
(* stand in a stream they are read back as the numbers they were made of.  *)
(***************************************************************************)
EXTENDS BitCodes, SequenceTheorems, WellFoundedInduction, TLAPS

(***************************************************************************)
(* A non-empty set of natural numbers has a least element.                 *)
(***************************************************************************)
LEMMA LeastNatural ==
  ASSUME NEW T \in SUBSET Nat, T # {}
  PROVE  \E m \in T : \A n \in T : m <= n
<1>1. \E m \in T : \A n \in T : ~ (<<n, m>> \in OpToRel(<, Nat))
  BY NatLessThanWellFounded, WFMin, Zenon
<1>2. PICK m \in T : \A n \in T : ~ (<<n, m>> \in OpToRel(<, Nat))
  BY <1>1
<1>3. ASSUME NEW n \in T PROVE m <= n
  <2>1. n \in Nat /\ m \in Nat
    OBVIOUS
  <2>2. ~ (n < m)
    BY <1>2, <2>1 DEF OpToRel
  <2>. QED BY <2>1, <2>2
<1>. QED BY <1>3

(***************************************************************************)
(* Induction: a set that holds 0 and is closed under successor holds every *)
(* natural number.                                                         *)
(***************************************************************************)
LEMMA SetInduction ==
  ASSUME NEW S, 0 \in S, \A n \in Nat : n \in S => n + 1 \in S
  PROVE  Nat \subseteq S
<1>. SUFFICES ASSUME Nat \ S # {} PROVE FALSE
  OBVIOUS
<1>1. PICK m \in Nat \ S : \A n \in Nat \ S : m <= n
  <2>. Nat \ S \in SUBSET Nat
    OBVIOUS
  <2>. QED BY LeastNatural
<1>2. m # 0 /\ m - 1 \in Nat
  OBVIOUS
<1>3. m - 1 \in S
  BY <1>1, <1>2
<1>4. m - 1 + 1 \in S
  BY <1>2, <1>3
<1>. QED BY <1>4

(***************************************************************************)
(* A quotient reaches c exactly if the dividend reaches c times the        *)
(* divisor.                                                                *)
(***************************************************************************)
LEMMA QuotientReaches ==
  ASSUME NEW a \in Int, NEW b \in Nat \ {0}, NEW c \in Int
  PROVE  a \div b >= c <=> a >= c * b
<1>. DEFINE q == a \div b
<1>1. q \in Int /\ q * b <= a /\ a < q * b + b
  OBVIOUS
<1>2. ASSUME q >= c PROVE a >= c * b
  <2>1. PICK k \in Nat : q = c + k
    <3>1. q - c \in Nat /\ q = c + (q - c)
      BY <1>1, <1>2
    <3>. QED BY <3>1
  <2>2. q * b = c * b + k * b
    BY <2>1
  <2>3. k * b \in Nat
    BY <2>1
  <2>4. q * b \in Int /\ c * b \in Int
    BY <1>1
  <2>. QED BY <1>1, <2>2, <2>3, <2>4
<1>3. ASSUME a >= c * b, ~(q >= c) PROVE FALSE
  <2>1. PICK k \in Nat : c = q + 1 + k
    <3>1. c - q - 1 \in Nat /\ c = q + 1 + (c - q - 1)
      BY <1>1, <1>3
    <3>. QED BY <3>1
  <2>2. c * b = q * b + b + k * b
    BY <1>1, <2>1
  <2>3. k * b \in Nat
    BY <2>1
  <2>4. q * b \in Int /\ c * b \in Int
    BY <1>1
  <2>. QED BY <1>1, <1>3, <2>2, <2>3, <2>4
<1>. QED BY <1>2, <1>3

-----------------------------------------------------------------------------
\* Recursive functions.

\* What g is if it is defined by recursion from x0 by D.
Recurs(g, x0, D) ==
  g[0] = x0 /\ \A i \in Nat : g[i + 1] = D[<<g[i], i + 1>>]
RecursUpTo(g, n, x0, D) ==
  g = [i \in 0 .. n |-> IF i = 0 THEN x0 ELSE D[<<g[i - 1], i>>]]

\* The first n steps of the recursion.
Unfolds(g, n, x0, D) ==
  /\ g[0] = x0
  /\ \A i \in 1 .. n : g[i] = D[<<g[i - 1], i>>]

LEMMA UnfoldsFor ==
  ASSUME NEW S, NEW x0 \in S, NEW D \in [S \X Nat -> S], NEW n \in Nat
  PROVE  \E g \in [0 .. n -> S] : Unfolds(g, n, x0, D)
<1>. DEFINE T == {m \in Nat : \E g \in [0 .. m -> S] : Unfolds(g, m, x0, D)}
<1>1. 0 \in T
  <2>1. [i \in 0 .. 0 |-> x0] \in [0 .. 0 -> S]
    OBVIOUS
  <2>2. Unfolds([i \in 0 .. 0 |-> x0], 0, x0, D)
    BY DEF Unfolds
  <2>. QED BY <2>1, <2>2
<1>2. ASSUME NEW m \in Nat, m \in T PROVE m + 1 \in T
  <2>1. PICK g \in [0 .. m -> S] : Unfolds(g, m, x0, D)
    BY <1>2
  <2>. DEFINE h == [i \in 0 .. m + 1 |-> IF i <= m THEN g[i] ELSE D[<<g[m], m + 1>>]]
  <2>2. g[m] \in S /\ <<g[m], m + 1>> \in S \X Nat
    OBVIOUS
  <2>3. h \in [0 .. m + 1 -> S]
    BY <2>2
  <2>4. h[0] = x0
    BY <2>1 DEF Unfolds
  <2>5. ASSUME NEW i \in 1 .. m + 1 PROVE h[i] = D[<<h[i - 1], i>>]
    <3>1. CASE i <= m
      <4>1. i \in 1 .. m /\ i - 1 \in 0 .. m /\ i \in 0 .. m
        BY <3>1
      <4>2. h[i] = g[i] /\ h[i - 1] = g[i - 1]
        BY <4>1
      <4>. QED BY <4>1, <4>2, <2>1 DEF Unfolds
    <3>2. CASE ~(i <= m)
      <4>1. i = m + 1 /\ i - 1 = m
        BY <3>2
      <4>. QED BY <4>1
    <3>. QED BY <3>1, <3>2
  <2>6. Unfolds(h, m + 1, x0, D)
    BY <2>4, <2>5 DEF Unfolds
  <2>. QED BY <2>3, <2>6
<1>3. Nat \subseteq T
  <2>. HIDE DEF T
  <2>. QED BY <1>1, <1>2, SetInduction
<1>. QED BY <1>3

LEMMA UnfoldsAlike ==
  ASSUME NEW x0, NEW D, NEW g, NEW h, NEW m \in Nat, NEW n \in Nat, m <= n,
         Unfolds(g, m, x0, D), Unfolds(h, n, x0, D)
  PROVE  \A i \in 0 .. m : g[i] = h[i]
<1>. DEFINE T == {i \in Nat : i <= m => g[i] = h[i]}
<1>1. 0 \in T
  BY DEF Unfolds
<1>2. ASSUME NEW i \in Nat, i \in T PROVE i + 1 \in T
  <2>. SUFFICES ASSUME i + 1 <= m PROVE g[i + 1] = h[i + 1]
    OBVIOUS
  <2>1. i + 1 \in 1 .. m /\ i + 1 \in 1 .. n /\ (i + 1) - 1 = i /\ g[i] = h[i]
    BY <1>2
  <2>. QED BY <2>1 DEF Unfolds
<1>3. Nat \subseteq T
  <2>. HIDE DEF T
  <2>. QED BY <1>1, <1>2, SetInduction
<1>. QED BY <1>3

(***************************************************************************)
(* A function on the natural numbers may be defined by recursion.          *)
(***************************************************************************)
LEMMA RecursionOnNat ==
  ASSUME NEW S, NEW x0 \in S, NEW D \in [S \X Nat -> S]
  PROVE  \E g \in [Nat -> S] : Recurs(g, x0, D)
<1>. DEFINE G(n) == CHOOSE g \in [0 .. n -> S] : Unfolds(g, n, x0, D)
            f == [n \in Nat |-> G(n)[n]]
<1>1. \A n \in Nat : G(n) \in [0 .. n -> S] /\ Unfolds(G(n), n, x0, D)
  BY UnfoldsFor
<1>. HIDE DEF G
<1>2. f \in [Nat -> S]
  BY <1>1
<1>3. f[0] = x0
  BY <1>1 DEF Unfolds
<1>4. ASSUME NEW i \in Nat PROVE f[i + 1] = D[<<f[i], i + 1>>]
  <2>1. i + 1 \in Nat /\ i <= i + 1 /\ i \in 0 .. i /\ i + 1 \in 1 .. i + 1
    OBVIOUS
  <2>2. G(i)[i] = G(i + 1)[i]
    BY <1>1, <2>1, UnfoldsAlike
  <2>3. G(i + 1)[i + 1] = D[<<G(i + 1)[(i + 1) - 1], i + 1>>]
    BY <1>1, <2>1 DEF Unfolds
  <2>. QED BY <2>1, <2>2, <2>3
<1>5. Recurs(f, x0, D)
  <2>. HIDE DEF f
  <2>. QED BY <1>3, <1>4 DEF Recurs
<1>. QED BY <1>2, <1>5

(***************************************************************************)
(* So may one on the numbers up to n.                                      *)
(***************************************************************************)
LEMMA RecursionUpTo ==
  ASSUME NEW S, NEW x0 \in S, NEW n \in Nat, NEW D \in [S \X (1 .. n) -> S]
  PROVE  \E g \in [0 .. n -> S] : RecursUpTo(g, n, x0, D)
<1>. DEFINE E == [a \in S \X Nat |-> IF a[2] \in 1 .. n THEN D[a] ELSE x0]
<1>1. E \in [S \X Nat -> S]
  <2>1. ASSUME NEW a \in S \X Nat PROVE (IF a[2] \in 1 .. n THEN D[a] ELSE x0) \in S
    <3>1. CASE a[2] \in 1 .. n
      <4>1. a \in S \X (1 .. n)
        BY <3>1
      <4>. QED BY <3>1, <4>1
    <3>2. CASE a[2] \notin 1 .. n
      BY <3>2
    <3>. QED BY <3>1, <3>2
  <2>. QED BY <2>1
<1>2. PICK g \in [0 .. n -> S] : Unfolds(g, n, x0, E)
  <2>. HIDE DEF E
  <2>. QED BY <1>1, UnfoldsFor
<1>3. ASSUME NEW i \in 1 .. n PROVE g[i] = D[<<g[i - 1], i>>]
  <2>1. g[i - 1] \in S /\ <<g[i - 1], i>> \in S \X Nat /\ <<g[i - 1], i>>[2] = i
    OBVIOUS
  <2>2. g[i] = E[<<g[i - 1], i>>]
    BY <1>2 DEF Unfolds
  <2>. QED BY <2>1, <2>2
<1>4. g[0] = x0
  BY <1>2 DEF Unfolds
<1>5. g = [i \in 0 .. n |-> IF i = 0 THEN x0 ELSE D[<<g[i - 1], i>>]]
  <2>1. \A i \in 0 .. n : g[i] = IF i = 0 THEN x0 ELSE D[<<g[i - 1], i>>]
    BY <1>3, <1>4
  <2>. QED BY <2>1
<1>. QED BY <1>5 DEF RecursUpTo

(***************************************************************************)
(* Sums: the function by which they are defined, and that sequences which  *)
(* agree on their first elements have the same sums there.                 *)
(***************************************************************************)
PartialSums(s, n) ==
  LET sum[i \in 0 .. n] == IF i = 0 THEN 0 ELSE sum[i - 1] + s[i] IN sum

LEMMA PartialSumsUnfold ==
  ASSUME NEW n \in Nat, NEW s, \A i \in 1 .. n : s[i] \in Int
  PROVE  /\ PartialSums(s, n) \in [0 .. n -> Int]
         /\ PartialSums(s, n)[0] = 0
         /\ \A i \in 1 .. n : PartialSums(s, n)[i] = PartialSums(s, n)[i - 1] + s[i]
<1>. DEFINE Q(g) == g = [i \in 0 .. n |-> IF i = 0 THEN 0 ELSE g[i - 1] + s[i]]
            D == [a \in Int \X (1 .. n) |-> a[1] + s[a[2]]]
            p == PartialSums(s, n)
<1>1. D \in [Int \X (1 .. n) -> Int]
  OBVIOUS
<1>2. PICK g \in [0 .. n -> Int] : RecursUpTo(g, n, 0, D)
  <2>1. 0 \in Int
    OBVIOUS
  <2>. HIDE DEF D
  <2>. QED BY <1>1, <2>1, RecursionUpTo, Zenon
<1>3. \E h : Q(h)
  <2>1. ASSUME NEW i \in 0 .. n PROVE g[i] = IF i = 0 THEN 0 ELSE g[i - 1] + s[i]
    <3>1. CASE i = 0
      BY <3>1, <1>2 DEF RecursUpTo
    <3>2. CASE i # 0
      <4>1. g[i - 1] \in Int /\ i \in 1 .. n /\ <<g[i - 1], i>> \in Int \X (1 .. n)
        BY <3>2
      <4>2. D[<<g[i - 1], i>>] = g[i - 1] + s[i]
        BY <4>1
      <4>3. g[i] = D[<<g[i - 1], i>>]
        <5>. HIDE DEF D
        <5>. QED BY <3>2, <1>2 DEF RecursUpTo
      <4>. QED BY <3>2, <4>2, <4>3
    <3>. QED BY <3>1, <3>2
  <2>2. Q(g)
    BY <2>1
  <2>. HIDE DEF Q
  <2>. QED BY <2>2
<1>4. p = CHOOSE h : Q(h)
  BY DEF PartialSums
<1>5. Q(p)
  <2>. HIDE DEF Q, p
  <2>. QED BY <1>3, <1>4
<1>. HIDE DEF p
<1>6. p[0] = 0 /\ \A i \in 1 .. n : p[i] = p[i - 1] + s[i]
  BY <1>5
<1>7. ASSUME NEW i \in 0 .. n PROVE p[i] \in Int
  <2>. DEFINE T == {k \in Nat : k <= n => p[k] \in Int}
  <2>1. 0 \in T
    BY <1>6
  <2>2. ASSUME NEW k \in Nat, k \in T PROVE k + 1 \in T
    <3>1. CASE k + 1 <= n
      <4>1. k + 1 \in 1 .. n /\ (k + 1) - 1 = k /\ p[k] \in Int
        BY <3>1, <2>2
      <4>2. p[k + 1] = p[k] + s[k + 1]
        BY <4>1, <1>6
      <4>. QED BY <4>1, <4>2
    <3>. QED BY <3>1
  <2>3. Nat \subseteq T
    <3>. HIDE DEF T
    <3>. QED BY <2>1, <2>2, SetInduction
  <2>. QED BY <2>3
<1>8. p \in [0 .. n -> Int]
  <2>1. p = [i \in 0 .. n |-> p[i]]
    BY <1>5
  <2>. QED BY <2>1, <1>7
<1>. QED BY <1>6, <1>8 DEF p

(***************************************************************************)
(* Sequences that agree on their first elements have the same sums there.  *)
(***************************************************************************)
LEMMA PartialSumsAlike ==
  ASSUME NEW n \in Nat, NEW m \in Nat, n <= m, NEW s, NEW t,
         \A i \in 1 .. n : s[i] \in Int /\ s[i] = t[i], \A i \in 1 .. m : t[i] \in Int
  PROVE  \A i \in 0 .. n : PartialSums(s, n)[i] = PartialSums(t, m)[i]
<1>. DEFINE T == {i \in Nat : i <= n => PartialSums(s, n)[i] = PartialSums(t, m)[i]}
<1>1. 0 \in T
  BY PartialSumsUnfold
<1>2. ASSUME NEW i \in Nat, i \in T PROVE i + 1 \in T
  <2>. SUFFICES ASSUME i + 1 <= n
                PROVE  PartialSums(s, n)[i + 1] = PartialSums(t, m)[i + 1]
    OBVIOUS
  <2>1. i + 1 \in 1 .. n /\ i + 1 \in 1 .. m /\ (i + 1) - 1 = i
    OBVIOUS
  <2>2. PartialSums(s, n)[i] = PartialSums(t, m)[i] /\ s[i + 1] = t[i + 1]
    BY <1>2, <2>1
  <2>3. PartialSums(s, n)[i + 1] = PartialSums(s, n)[(i + 1) - 1] + s[i + 1]
    BY <2>1, PartialSumsUnfold
  <2>4. PartialSums(t, m)[i + 1] = PartialSums(t, m)[(i + 1) - 1] + t[i + 1]
    BY <2>1, PartialSumsUnfold
  <2>. QED BY <2>1, <2>2, <2>3, <2>4
<1>3. Nat \subseteq T
  <2>. HIDE DEF T
  <2>. QED BY <1>1, <1>2, SetInduction
<1>. QED BY <1>3
-----------------------------------------------------------------------------
\* Powers of two, and the logarithms the shift loops count.

LEMMA Pow2Unfolds ==
  Pow2 \in [Nat -> Nat \ {0}] /\ Pow2[0] = 1 /\ \A k \in Nat : Pow2[k + 1] = 2 * Pow2[k]
<1>. DEFINE Q(g) == g = [k \in Nat |-> IF k = 0 THEN 1 ELSE 2 * g[k - 1]]
            S == Nat \ {0}
            D == [a \in S \X Nat |-> 2 * a[1]]
<1>1. D \in [S \X Nat -> S] /\ 1 \in S
  OBVIOUS
<1>2. PICK g \in [Nat -> S] : Recurs(g, 1, D)
  <2>. HIDE DEF S, D
  <2>. QED BY <1>1, RecursionOnNat
<1>3. ASSUME NEW i \in Nat PROVE g[i + 1] = 2 * g[i]
  <2>1. <<g[i], i + 1>> \in (Nat \ {0}) \X Nat
    OBVIOUS
  <2>2. D[<<g[i], i + 1>>] = 2 * g[i]
    BY <2>1
  <2>. QED BY <1>2, <2>2 DEF Recurs
<1>4. \E h : Q(h)
  <2>1. \A k \in Nat : g[k] = IF k = 0 THEN 1 ELSE 2 * g[k - 1]
    <3>1. ASSUME NEW k \in Nat, k # 0 PROVE g[k] = 2 * g[k - 1]
      <4>1. k - 1 \in Nat /\ (k - 1) + 1 = k
        BY <3>1
      <4>. QED BY <4>1, <1>3
    <3>. QED BY <3>1, <1>2 DEF Recurs
  <2>. QED BY <2>1
<1>5. Pow2 = CHOOSE h : Q(h)
  BY DEF Pow2
<1>6. Q(Pow2)
  <2>. HIDE DEF Q
  <2>. QED BY <1>4, <1>5
<1>7. Pow2[0] = 1 /\ \A k \in Nat : Pow2[k + 1] = 2 * Pow2[k]
  <2>1. \A k \in Nat : k + 1 \in Nat /\ k + 1 # 0 /\ (k + 1) - 1 = k
    OBVIOUS
  <2>2. \A k \in Nat : Pow2[k] = IF k = 0 THEN 1 ELSE 2 * Pow2[k - 1]
    BY <1>6
  <2>. QED BY <2>1, <2>2
<1>8. \A k \in Nat : Pow2[k] \in Nat \ {0}
  <2>. DEFINE T == {k \in Nat : Pow2[k] \in Nat \ {0}}
  <2>1. 0 \in T
    BY <1>7
  <2>2. \A k \in Nat : k \in T => k + 1 \in T
    BY <1>7
  <2>3. Nat \subseteq T
    <3>. HIDE DEF T
    <3>. QED BY <2>1, <2>2, SetInduction
  <2>. QED BY <2>3
<1>. QED BY <1>6, <1>7, <1>8

LEMMA Pow2Grows ==
  /\ \A k \in Nat : k < Pow2[k]
  /\ \A k, m \in Nat : k <= m => Pow2[k] <= Pow2[m]
<1>1. \A k \in Nat : k < Pow2[k]
  <2>. DEFINE T == {k \in Nat : k < Pow2[k]}
  <2>1. 0 \in T
    BY Pow2Unfolds
  <2>2. \A k \in Nat : k \in T => k + 1 \in T
    BY Pow2Unfolds
  <2>3. Nat \subseteq T
    <3>. HIDE DEF T
    <3>. QED BY <2>1, <2>2, SetInduction
  <2>. QED BY <2>3
<1>2. ASSUME NEW k \in Nat PROVE \A m \in Nat : k <= m => Pow2[k] <= Pow2[m]
  <2>. DEFINE T == {n \in Nat : Pow2[k] <= Pow2[k + n]}
  <2>1. 0 \in T
    BY Pow2Unfolds
  <2>2. ASSUME NEW n \in Nat, n \in T PROVE n + 1 \in T
    <3>1. Pow2[(k + n) + 1] = 2 * Pow2[k + n] /\ Pow2[k + n] \in Nat /\ Pow2[k] \in Nat
      BY Pow2Unfolds
    <3>. QED BY <2>2, <3>1
  <2>3. Nat \subseteq T
    <3>. HIDE DEF T
    <3>. QED BY <2>1, <2>2, SetInduction
  <2>4. ASSUME NEW m \in Nat, k <= m PROVE Pow2[k] <= Pow2[m]
    <3>1. m - k \in Nat /\ k + (m - k) = m
      BY <2>4
    <3>. QED BY <3>1, <2>3
  <2>. QED BY <2>4
<1>. QED BY <1>1, <1>2

(***************************************************************************)
(* CEILLOG_2: the least k whose power reaches x.                           *)
(***************************************************************************)
LEMMA CeilLogRight ==
  ASSUME NEW x \in Nat \ {0}
  PROVE  /\ CeilLog(x) \in Nat /\ Pow2[CeilLog(x)] >= x
         /\ CeilLog(x) > 0 => Pow2[CeilLog(x) - 1] < x
<1>. DEFINE T == {k \in Nat : Pow2[k] >= x}
            P(k) == Pow2[k] >= x /\ (k > 0 => Pow2[k - 1] < x)
<1>1. x \in T
  BY Pow2Grows, Pow2Unfolds
<1>2. PICK m \in T : \A n \in T : m <= n
  BY <1>1, LeastNatural
<1>3. m \in 0 .. x /\ P(m)
  <2>1. m \in Nat /\ m <= x
    BY <1>1, <1>2
  <2>2. ASSUME m > 0 PROVE Pow2[m - 1] < x
    <3>1. m - 1 \in Nat /\ ~(m - 1 \in T)
      BY <2>1, <2>2, <1>2
    <3>. QED BY <3>1, Pow2Unfolds
  <2>. QED BY <2>1, <2>2, <1>2
<1>4. CeilLog(x) = CHOOSE k \in 0 .. x : P(k)
  BY DEF CeilLog
<1>5. CeilLog(x) \in 0 .. x /\ P(CeilLog(x))
  <2>. HIDE DEF P
  <2>. QED BY <1>3, <1>4
<1>. QED BY <1>5

(***************************************************************************)
(* FLOORLOG_2: the greatest k whose power does not exceed x.               *)
(***************************************************************************)
LEMMA FloorLogRight ==
  ASSUME NEW x \in Nat \ {0}
  PROVE  /\ FloorLog(x) \in Nat /\ Pow2[FloorLog(x)] <= x
         /\ x < Pow2[FloorLog(x) + 1]
<1>. DEFINE T == {k \in Nat : x < Pow2[k]}
            P(k) == Pow2[k] <= x /\ x < Pow2[k + 1]
<1>1. x \in T
  BY Pow2Grows
<1>2. PICK m \in T : \A n \in T : m <= n
  BY <1>1, LeastNatural
<1>3. m # 0
  BY <1>2, Pow2Unfolds
<1>4. m - 1 \in 0 .. x /\ P(m - 1)
  <2>1. m \in Nat /\ m <= x /\ m - 1 \in Nat /\ (m - 1) + 1 = m
    BY <1>1, <1>2, <1>3
  <2>2. ~(m - 1 \in T)
    BY <2>1, <1>2
  <2>. QED BY <2>1, <2>2, <1>2, Pow2Unfolds
<1>5. FloorLog(x) = CHOOSE k \in 0 .. x : P(k)
  BY DEF FloorLog
<1>6. FloorLog(x) \in 0 .. x /\ P(FloorLog(x))
  <2>. HIDE DEF P
  <2>. QED BY <1>4, <1>5
<1>. QED BY <1>6
LEMMA Pow2OfSum ==
  ASSUME NEW m \in Nat, NEW n \in Nat PROVE Pow2[m + n] = Pow2[m] * Pow2[n]
<1>. DEFINE T == {k \in Nat : Pow2[m + k] = Pow2[m] * Pow2[k]}
<1>1. 0 \in T
  BY Pow2Unfolds
<1>2. ASSUME NEW k \in Nat, k \in T PROVE k + 1 \in T
  <2>0. m + k \in Nat /\ m + (k + 1) = (m + k) + 1
    OBVIOUS
  <2>1. Pow2[m + (k + 1)] = 2 * Pow2[m + k] /\ Pow2[k + 1] = 2 * Pow2[k]
    BY <2>0, Pow2Unfolds
  <2>2. Pow2[m] \in Nat /\ Pow2[k] \in Nat
    BY Pow2Unfolds
  <2>3. \A u, v \in Nat : 2 * (u * v) = u * (2 * v)
    OBVIOUS
  <2>. QED BY <1>2, <2>1, <2>2, <2>3
<1>3. Nat \subseteq T
  <2>. HIDE DEF T
  <2>. QED BY <1>1, <1>2, SetInduction
<1>. QED BY <1>3

-----------------------------------------------------------------------------
\* The block code.

LEMMA ThreshRight ==
  ASSUME NEW b \in Nat \ {0}
  PROVE  CeilLog(b) \in Nat /\ Thresh(b) \in 0 .. b - 1
<1>. DEFINE c == CeilLog(b)
<1>1. c \in Nat /\ Pow2[c] >= b /\ (c > 0 => Pow2[c - 1] < b)
  BY CeilLogRight
<1>2. CASE c = 0
  BY <1>1, <1>2, Pow2Unfolds DEF Thresh
<1>3. CASE c # 0
  <2>1. c - 1 \in Nat /\ (c - 1) + 1 = c
    BY <1>1, <1>3
  <2>2. Pow2[c] = 2 * Pow2[c - 1] /\ Pow2[c - 1] \in Nat
    BY <2>1, Pow2Unfolds
  <2>3. Thresh(b) = Pow2[c] - b
    BY DEF Thresh
  <2>. QED BY <1>1, <1>3, <2>1, <2>2, <2>3
<1>. QED BY <1>2, <1>3

(***************************************************************************)
(* What a gap costs beyond the bits every gap costs is in proportion to    *)
(* how far it exceeds the threshold.                                       *)
(***************************************************************************)
LEMMA BlockLengthRight ==
  ASSUME NEW b \in Nat \ {0}, NEW x \in Nat \ {0}
  PROVE  /\ BblockLength(x, b) \in Int
         /\ b * (BblockLength(x, b) - (1 + CeilLog(b))) <= x - (Thresh(b) + 1)
<1>. DEFINE q == (x - 1) \div b
            r == (x - 1) % b
            T == Thresh(b)
            c == CeilLog(b)
<1>1. c \in Nat /\ T \in 0 .. b - 1
  BY ThreshRight
<1>2. q \in Int /\ r \in 0 .. b - 1 /\ x - 1 = b * q + r
  OBVIOUS
<1>3. BblockLength(x, b) = (q + 1) + (IF r < T THEN c - 1 ELSE c)
  BY <1>2 DEF BblockLength, UnaryLength, BinaryBits
<1>. HIDE DEF q, r, T, c
<1>4. CASE r < T
  <2>1. BblockLength(x, b) - (1 + c) = q - 1
    BY <1>1, <1>2, <1>3, <1>4
  <2>2. b * (q - 1) = b * q - b
    BY <1>2
  <2>3. b * q \in Int
    BY <1>2
  <2>. QED BY <1>1, <1>2, <1>3, <1>4, <2>1, <2>2, <2>3 DEF T, c
<1>5. CASE ~(r < T)
  <2>1. BblockLength(x, b) - (1 + c) = q
    BY <1>1, <1>2, <1>3, <1>5
  <2>2. b * q \in Int
    BY <1>2
  <2>. QED BY <1>1, <1>2, <1>3, <1>5, <2>1, <2>2 DEF T, c
<1>. QED BY <1>4, <1>5

(***************************************************************************)
(* BIO_Bblock_Bound: k gaps with the given sum, coded in so many bits, and *)
(* p - k more that are at least 1 each, fit what is reserved for p gaps    *)
(* with a sum of at most n.                                                *)
(***************************************************************************)
LEMMA BlockBoundHolds ==
  ASSUME NEW b \in Nat \ {0}, NEW n \in Nat, NEW p \in Nat, NEW k \in 0 .. p,
         NEW sum \in Nat, sum + (p - k) <= n, NEW bits \in Int,
         b * (bits - k * (1 + CeilLog(b))) <= sum - k * (Thresh(b) + 1)
  PROVE  BblockBoundB(n, p, b) \in Int /\ bits <= BblockBoundB(n, p, b)
<1>. DEFINE T == Thresh(b)
            c == CeilLog(b)
            more == p - k
            q == bits - p * (1 + c)
            x == n - p * (T + 1)
<1>1. c \in Nat /\ T \in 0 .. b - 1
  BY ThreshRight
<1>. HIDE DEF T, c
<1>2. more \in Nat /\ p = k + more
  OBVIOUS
<1>. HIDE DEF more
<1>3. q \in Int /\ x \in Int
  BY <1>1
<1>4. b * q <= x
  <2>1. q = (bits - k * (1 + c)) - more * (1 + c)
    BY <1>1, <1>2
  <2>2. b * q = b * (bits - k * (1 + c)) - b * (more * (1 + c))
    <3>1. bits - k * (1 + c) \in Int /\ more * (1 + c) \in Int
      BY <1>1, <1>2
    <3>. QED BY <2>1, <3>1
  <2>3. b * (more * (1 + c)) = more * b + more * (b * c)
    BY <1>1, <1>2
  <2>4. b * c \in Nat /\ more * (b * c) \in Nat
    BY <1>1, <1>2
  <2>5. more * b >= more * T + more
    <3>1. PICK d \in Nat : b = T + 1 + d
      <4>1. b - T - 1 \in Nat /\ b = T + 1 + (b - T - 1)
        BY <1>1
      <4>. QED BY <4>1
    <3>2. more * b = more * T + more + more * d /\ more * d \in Nat
      BY <3>1, <1>1, <1>2
    <3>3. more * T \in Int
      BY <1>1, <1>2
    <3>. QED BY <3>2, <3>3, <1>2
  <2>6. x >= (sum - k * (T + 1)) - more * T
    <3>1. p * (T + 1) = k * (T + 1) + more * T + more
      BY <1>1, <1>2
    <3>2. k * (T + 1) \in Int /\ more * T \in Int
      BY <1>1, <1>2
    <3>. QED BY <3>1, <3>2, <1>2
  <2>7. b * (bits - k * (1 + c)) \in Int /\ k * (T + 1) \in Int /\ more * T \in Int
        /\ more * b \in Int
    BY <1>1, <1>2
  <2>8. b * (bits - k * (1 + c)) <= sum - k * (T + 1)
    BY DEF T, c
  <2>. QED BY <1>2, <1>3, <2>2, <2>3, <2>4, <2>5, <2>6, <2>7, <2>8
<1>. HIDE DEF q, x
<1>5. CDiv(x, b) \in Int /\ q <= CDiv(x, b)
  <2>1. CASE x >= 0
    <3>1. x \div b >= q <=> x >= q * b
      BY <1>3, QuotientReaches
    <3>. QED BY <3>1, <2>1, <1>3, <1>4 DEF CDiv
  <2>2. CASE ~(x >= 0)
    <3>1. -x \in Int /\ -q + 1 \in Int
      BY <1>3
    <3>2. (-x) \div b >= -q + 1 <=> -x >= (-q + 1) * b
      BY <3>1, QuotientReaches
    <3>3. (-q + 1) * b = b - b * q /\ b * q \in Int
      BY <1>3
    <3>4. (-x) \div b \in Int
      BY <3>1
    <3>. QED BY <3>2, <3>3, <3>4, <2>2, <1>3, <1>4 DEF CDiv
  <2>. QED BY <2>1, <2>2
<1>6. BblockBoundB(n, p, b) = p * (1 + c) + CDiv(x, b)
  BY DEF BblockBoundB, x, c, T
<1>7. bits = p * (1 + c) + q /\ p * (1 + c) \in Int
  BY <1>1 DEF q
<1>. QED BY <1>3, <1>5, <1>6, <1>7

LEMMA BlockSizesRight ==
  ASSUME NEW n \in Nat, NEW p \in Nat \ {0}, p <= n
  PROVE  BblockInitW(n, p) \in Nat \ {0} /\ BblockInit(n, p) \in Nat \ {0}
<1>1. BblockInitW(n, p) \in Nat \ {0}
  <2>. DEFINE x == (n - p) \div p
  <2>1. x \in Nat
    OBVIOUS
  <2>2. CASE x = 0
    BY <2>2 DEF BblockInitW
  <2>3. CASE x # 0
    <3>1. FloorLog(x) \in Nat
      BY <2>1, <2>3, FloorLogRight
    <3>. QED BY <2>3, <3>1, Pow2Unfolds DEF BblockInitW
  <2>. QED BY <2>2, <2>3
<1>2. BblockInit(n, p) \in Nat \ {0}
  <2>1. 5000000 * p + 6931471 * n \in Nat /\ 10000000 * p \in Nat \ {0}
    OBVIOUS
  <2>2. \A x \in Nat, y \in Nat \ {0} : x \div y \in Nat
    OBVIOUS
  <2>. QED BY <2>1, <2>2 DEF BblockInit
<1>. QED BY <1>1, <1>2

-----------------------------------------------------------------------------
\* Codes in a stream.

\* The code c stands in the stream s from position pos.
Stands(c, s, pos) ==
  /\ c \in Seq({0, 1}) /\ s \in Seq({0, 1}) /\ pos \in Nat \ {0}
  /\ pos - 1 + Len(c) <= Len(s)
  /\ \A i \in 1 .. Len(c) : s[(pos - 1) + i] = c[i]

LEMMA StandsInParts ==
  ASSUME NEW c \in Seq({0, 1}), NEW d \in Seq({0, 1}), NEW s, NEW pos, Stands(c \o d, s, pos)
  PROVE  Stands(c, s, pos) /\ Stands(d, s, pos + Len(c))
<1>1. Len(c) \in Nat /\ Len(d) \in Nat /\ Len(c \o d) = Len(c) + Len(d) /\ Len(s) \in Nat
  BY DEF Stands
<1>2. \A i \in 1 .. Len(c) : i \in 1 .. Len(c \o d) /\ (c \o d)[i] = c[i]
  BY <1>1
<1>3. \A i \in 1 .. Len(d) : Len(c) + i \in 1 .. Len(c \o d) /\ (c \o d)[Len(c) + i] = d[i]
  BY <1>1
<1>4. Stands(c, s, pos)
  BY <1>1, <1>2 DEF Stands
<1>5. pos \in Nat \ {0} /\ pos + Len(c) \in Nat \ {0}
  BY <1>1 DEF Stands
<1>6. ASSUME NEW i \in 1 .. Len(d) PROVE s[((pos + Len(c)) - 1) + i] = d[i]
  <2>1. ((pos + Len(c)) - 1) + i = (pos - 1) + (Len(c) + i)
    BY <1>1, <1>5
  <2>. QED BY <1>3, <2>1 DEF Stands
<1>7. (pos + Len(c)) - 1 + Len(d) <= Len(s)
  BY <1>1, <1>5 DEF Stands
<1>8. Stands(d, s, pos + Len(c))
  BY <1>5, <1>6, <1>7 DEF Stands
<1>. QED BY <1>4, <1>8

LEMMA StandsInLonger ==
  ASSUME NEW c, NEW s, NEW pos, NEW t \in Seq({0, 1}), Stands(c, s, pos)
  PROVE  Stands(c, s \o t, pos)
<1>1. s \in Seq({0, 1}) /\ c \in Seq({0, 1}) /\ pos \in Nat \ {0} /\ pos - 1 + Len(c) <= Len(s)
      /\ Len(c) \in Nat /\ Len(s) \in Nat /\ Len(t) \in Nat
  BY DEF Stands
<1>2. s \o t \in Seq({0, 1}) /\ Len(s \o t) = Len(s) + Len(t)
  BY <1>1
<1>3. \A i \in 1 .. Len(s) : (s \o t)[i] = s[i]
  BY <1>1
<1>4. \A i \in 1 .. Len(c) : (pos - 1) + i \in 1 .. Len(s)
  BY <1>1
<1>. QED BY <1>1, <1>2, <1>3, <1>4 DEF Stands

LEMMA StandsAtEnd ==
  ASSUME NEW c \in Seq({0, 1}), NEW s \in Seq({0, 1})
  PROVE  Stands(c, s \o c, Len(s) + 1)
<1>1. Len(s) \in Nat /\ Len(c) \in Nat /\ s \o c \in Seq({0, 1}) /\ Len(s \o c) = Len(s) + Len(c)
  OBVIOUS
<1>2. \A i \in 1 .. Len(c) : (s \o c)[Len(s) + i] = c[i]
  BY <1>1
<1>3. (Len(s) + 1) - 1 = Len(s)
  BY <1>1
<1>. QED BY <1>1, <1>2, <1>3 DEF Stands

-----------------------------------------------------------------------------
\* Division.

LEMMA QuotientIs ==
  ASSUME NEW a \in Nat, NEW b \in Nat \ {0}, NEW q \in Nat, NEW r \in Nat, r < b, a = q * b + r
  PROVE  a \div b = q /\ a % b = r
<1>1. a \div b \in Int /\ q * b \in Int
  OBVIOUS
<1>2. a \div b >= q
  BY <1>1, QuotientReaches
<1>3. ~(a \div b >= q + 1)
  <2>1. (q + 1) * b = q * b + b
    OBVIOUS
  <2>. QED BY <1>1, <2>1, QuotientReaches
<1>4. a \div b = q
  BY <1>1, <1>2, <1>3
<1>5. a = b * (a \div b) + (a % b) /\ a % b \in Int
  OBVIOUS
<1>. QED BY <1>1, <1>4, <1>5

LEMMA QuotientOf ==
  ASSUME NEW a \in Nat, NEW b \in Nat \ {0}
  PROVE  a \div b \in Nat /\ a % b \in Nat /\ a % b < b /\ a = (a \div b) * b + (a % b)
<1>1. a \div b \in Int /\ a % b \in 0 .. b - 1 /\ a = b * (a \div b) + (a % b)
  OBVIOUS
<1>2. a \div b >= 0
  BY QuotientReaches
<1>. QED BY <1>1, <1>2

\* A number is halved by dropping its last bit.
LEMMA QuotientHalved ==
  ASSUME NEW v \in Nat, NEW b \in Nat \ {0}
  PROVE  v \div b = 2 * (v \div (2 * b)) + ((v \div b) % 2)
<1>. DEFINE w == v \div b
<1>1. w \in Nat /\ v % b \in Nat /\ v % b < b /\ v = w * b + (v % b)
  BY QuotientOf
<1>2. w \div 2 \in Nat /\ w % 2 \in {0, 1} /\ w = (w \div 2) * 2 + (w % 2)
  BY <1>1
<1>. HIDE DEF w
<1>3. PICK h \in Nat : h = w \div 2
  BY <1>2
<1>4. PICK l \in {0, 1} : l = w % 2
  BY <1>2
<1>5. PICK r \in Nat : r = v % b /\ r < b
  BY <1>1
<1>6. v = h * (2 * b) + (l * b + r)
  <2>1. w = 2 * h + l
    BY <1>2, <1>3, <1>4
  <2>2. w * b = h * (2 * b) + l * b
    BY <2>1
  <2>3. h * (2 * b) \in Int /\ l * b \in Int
    OBVIOUS
  <2>4. v = w * b + r
    BY <1>1, <1>5
  <2>. QED BY <2>2, <2>3, <2>4
<1>7. l * b + r \in Nat /\ l * b + r < 2 * b
  <2>1. CASE l = 0
    BY <2>1, <1>5
  <2>2. CASE l = 1
    BY <2>2, <1>5
  <2>. QED BY <2>1, <2>2
<1>8. v \div (2 * b) = h
  BY <1>6, <1>7, QuotientIs
<1>. QED BY <1>2, <1>3, <1>8 DEF w

-----------------------------------------------------------------------------
\* Numbers.

LEMMA BitsAreBits ==
  ASSUME NEW v \in Nat, NEW n \in Nat
  PROVE  /\ Bits(v, n) \in Seq({0, 1}) /\ Len(Bits(v, n)) = n
         /\ \A i \in 1 .. n : Bits(v, n)[i] = (v \div Pow2[n - i]) % 2
<1>1. ASSUME NEW i \in 1 .. n PROVE (v \div Pow2[n - i]) % 2 \in {0, 1}
  <2>1. n - i \in Nat
    OBVIOUS
  <2>2. Pow2[n - i] \in Nat \ {0}
    BY <2>1, Pow2Unfolds
  <2>3. v \div Pow2[n - i] \in Nat
    BY <2>2, QuotientOf
  <2>. QED BY <2>3
<1>2. Bits(v, n) \in [1 .. n -> {0, 1}]
  BY <1>1 DEF Bits
<1>. QED BY <1>2 DEF Bits

LEMMA ZerosAreBits ==
  ASSUME NEW n \in Nat
  PROVE  /\ Zeros(n) \in Seq({0, 1}) /\ Len(Zeros(n)) = n
         /\ \A i \in 1 .. n : Zeros(n)[i] = 0
<1>1. Zeros(n) \in [1 .. n -> {0, 1}]
  BY DEF Zeros
<1>. QED BY <1>1 DEF Zeros

\* The value of each prefix of n bits.
Values(s, pos, n) ==
  LET value[i \in 0 .. n] ==
        IF i = 0 THEN 0 ELSE 2 * value[i - 1] + s[pos + i - 1]
  IN value

LEMMA ValuesUnfold ==
  ASSUME NEW n \in Nat, NEW s, NEW pos, \A i \in 1 .. n : s[pos + i - 1] \in Int
  PROVE  /\ Values(s, pos, n) \in [0 .. n -> Int]
         /\ Values(s, pos, n)[0] = 0
         /\ \A i \in 1 .. n :
              Values(s, pos, n)[i] = 2 * Values(s, pos, n)[i - 1] + s[pos + i - 1]
<1>. DEFINE Q(g) == g = [i \in 0 .. n |-> IF i = 0 THEN 0 ELSE 2 * g[i - 1] + s[pos + i - 1]]
            D == [a \in Int \X (1 .. n) |-> 2 * a[1] + s[pos + a[2] - 1]]
            p == Values(s, pos, n)
<1>1. D \in [Int \X (1 .. n) -> Int]
  OBVIOUS
<1>2. PICK g \in [0 .. n -> Int] : RecursUpTo(g, n, 0, D)
  <2>1. 0 \in Int
    OBVIOUS
  <2>. HIDE DEF D
  <2>. QED BY <1>1, <2>1, RecursionUpTo, Zenon
<1>3. \E h \in [0 .. n -> Int] : Q(h)
  <2>1. ASSUME NEW i \in 0 .. n PROVE g[i] = IF i = 0 THEN 0 ELSE 2 * g[i - 1] + s[pos + i - 1]
    <3>1. CASE i = 0
      BY <3>1, <1>2 DEF RecursUpTo
    <3>2. CASE i # 0
      <4>1. g[i - 1] \in Int /\ i \in 1 .. n /\ <<g[i - 1], i>> \in Int \X (1 .. n)
        BY <3>2
      <4>2. D[<<g[i - 1], i>>] = 2 * g[i - 1] + s[pos + i - 1]
        BY <4>1
      <4>3. g[i] = D[<<g[i - 1], i>>]
        <5>. HIDE DEF D
        <5>. QED BY <3>2, <1>2 DEF RecursUpTo
      <4>. QED BY <3>2, <4>2, <4>3
    <3>. QED BY <3>1, <3>2
  <2>2. Q(g)
    BY <2>1
  <2>. HIDE DEF Q
  <2>. QED BY <2>2
<1>4. p = CHOOSE h : Q(h)
  BY DEF Values
<1>5. Q(p)
  <2>. HIDE DEF Q, p
  <2>. QED BY <1>3, <1>4
<1>. HIDE DEF p
<1>6. p[0] = 0 /\ \A i \in 1 .. n : p[i] = 2 * p[i - 1] + s[pos + i - 1]
  BY <1>5
<1>7. ASSUME NEW i \in 0 .. n PROVE p[i] \in Int
  <2>. DEFINE T == {k \in Nat : k <= n => p[k] \in Int}
  <2>1. 0 \in T
    BY <1>6
  <2>2. ASSUME NEW k \in Nat, k \in T PROVE k + 1 \in T
    <3>1. CASE k + 1 <= n
      <4>1. k + 1 \in 1 .. n /\ (k + 1) - 1 = k /\ p[k] \in Int
        BY <3>1, <2>2
      <4>2. p[k + 1] = 2 * p[k] + s[pos + (k + 1) - 1]
        BY <4>1, <1>6
      <4>3. s[pos + (k + 1) - 1] \in Int
        BY <4>1
      <4>. QED BY <4>1, <4>2, <4>3
    <3>. QED BY <3>1
  <2>3. Nat \subseteq T
    <3>. HIDE DEF T
    <3>. QED BY <2>1, <2>2, SetInduction
  <2>. QED BY <2>3
<1>8. p \in [0 .. n -> Int]
  <2>1. p = [i \in 0 .. n |-> p[i]]
    BY <1>5
  <2>. QED BY <2>1, <1>7
<1>. QED BY <1>6, <1>8 DEF p

LEMMA NumberIsValue ==
  ASSUME NEW s, NEW pos, NEW n PROVE Number(s, pos, n) = Values(s, pos, n)[n]
BY DEF Number, Values

(***************************************************************************)
(* The first m of the n bits of a number are the number without its last   *)
(* n - m bits.                                                             *)
(***************************************************************************)
LEMMA NumberRight ==
  ASSUME NEW n \in Nat, NEW m \in 0 .. n, NEW v \in Nat, v < Pow2[n],
         NEW s, NEW pos, Stands(Bits(v, n), s, pos)
  PROVE  Number(s, pos, m) = v \div Pow2[n - m]
<1>1. ASSUME NEW i \in 1 .. m PROVE s[pos + i - 1] = (v \div Pow2[n - i]) % 2
  <2>1. pos + i - 1 = (pos - 1) + i /\ i \in 1 .. n
    BY DEF Stands
  <2>2. Len(Bits(v, n)) = n /\ Bits(v, n)[i] = (v \div Pow2[n - i]) % 2
    BY <2>1, BitsAreBits
  <2>. QED BY <2>1, <2>2 DEF Stands
<1>2. ASSUME NEW i \in 1 .. m PROVE s[pos + i - 1] \in Int
  <2>1. n - i \in Nat
    OBVIOUS
  <2>2. v \div Pow2[n - i] \in Nat
    BY <2>1, Pow2Unfolds, QuotientOf
  <2>. QED BY <1>1, <2>2
<1>. DEFINE g == Values(s, pos, m)
            T == {i \in Nat : i <= m => g[i] = v \div Pow2[n - i]}
<1>3. g[0] = 0 /\ \A i \in 1 .. m : g[i] = 2 * g[i - 1] + s[pos + i - 1]
  BY <1>2, ValuesUnfold
<1>. HIDE DEF g
<1>4. 0 \in T
  <2>1. v \div Pow2[n] = 0
    <3>1. v = 0 * Pow2[n] + v /\ Pow2[n] \in Nat \ {0} /\ 0 \in Nat
      BY Pow2Unfolds
    <3>. QED BY <3>1, QuotientIs
  <2>2. n - 0 = n
    OBVIOUS
  <2>. QED BY <1>3, <2>1, <2>2
<1>5. ASSUME NEW i \in Nat, i \in T PROVE i + 1 \in T
  <2>. SUFFICES ASSUME i + 1 <= m PROVE g[i + 1] = v \div Pow2[n - (i + 1)]
    OBVIOUS
  <2>1. i + 1 \in 1 .. m /\ (i + 1) - 1 = i /\ n - (i + 1) \in Nat
        /\ n - i = (n - (i + 1)) + 1
    OBVIOUS
  <2>2. g[i + 1] = 2 * g[i] + ((v \div Pow2[n - (i + 1)]) % 2)
    <3>1. g[i + 1] = 2 * g[i] + s[pos + (i + 1) - 1]
      BY <1>3, <2>1
    <3>2. s[pos + (i + 1) - 1] = (v \div Pow2[n - (i + 1)]) % 2
      BY <1>1, <2>1
    <3>. QED BY <3>1, <3>2
  <2>3. Pow2[n - i] = 2 * Pow2[n - (i + 1)] /\ Pow2[n - (i + 1)] \in Nat \ {0}
    BY <2>1, Pow2Unfolds
  <2>4. g[i] = v \div (2 * Pow2[n - (i + 1)])
    BY <1>5, <2>3
  <2>. QED BY <2>2, <2>3, <2>4, QuotientHalved
<1>6. m \in T
  <2>1. Nat \subseteq T
    <3>. HIDE DEF T
    <3>. QED BY <1>4, <1>5, SetInduction
  <2>. QED BY <2>1
<1>. QED BY <1>6, NumberIsValue DEF g

\* A number above the n bits that are written leaves its upper bits out.
LEMMA BitsLow ==
  ASSUME NEW v \in Nat, NEW n \in Nat PROVE Bits(v + Pow2[n], n) = Bits(v, n)
<1>1. ASSUME NEW i \in 1 .. n
      PROVE  ((v + Pow2[n]) \div Pow2[n - i]) % 2 = (v \div Pow2[n - i]) % 2
  <2>. DEFINE b == Pow2[n - i]
              h == Pow2[i - 1]
              q == v \div b
              r == v % b
  <2>1. n - i \in Nat /\ i - 1 \in Nat /\ n = (n - i) + i /\ i \in Nat /\ i = (i - 1) + 1
    OBVIOUS
  <2>2. b \in Nat \ {0} /\ h \in Nat /\ Pow2[n] = b * Pow2[i] /\ Pow2[i] = 2 * h
    BY <2>1, Pow2Unfolds, Pow2OfSum
  <2>3. q \in Nat /\ r \in Nat /\ r < b /\ v = q * b + r
    BY <2>2, QuotientOf
  <2>. HIDE DEF b, h, q, r
  <2>4. v + Pow2[n] = (q + 2 * h) * b + r
    <3>1. (q + 2 * h) * b = q * b + b * (2 * h) /\ q * b \in Int /\ b * (2 * h) \in Int
      BY <2>2, <2>3
    <3>. QED BY <2>2, <2>3, <3>1
  <2>5. v + Pow2[n] \in Nat /\ q + 2 * h \in Nat
    BY <2>2, <2>3, Pow2Unfolds
  <2>6. (v + Pow2[n]) \div b = q + 2 * h
    BY <2>2, <2>3, <2>4, <2>5, QuotientIs
  <2>7. (q + 2 * h) % 2 = q % 2
    BY <2>2, <2>3
  <2>. QED BY <2>6, <2>7 DEF b, q
<1>2. \A i \in 1 .. n : Bits(v + Pow2[n], n)[i] = Bits(v, n)[i]
  BY <1>1 DEF Bits
<1>. QED BY <1>1 DEF Bits

\* The zeros before a one are counted.
LEMMA ZeroRunRight ==
  ASSUME NEW s \in Seq({0, 1}), NEW pos \in Nat \ {0}, NEW n \in Nat, pos + n <= Len(s),
         \A i \in 1 .. n : s[(pos - 1) + i] = 0, s[pos + n] = 1
  PROVE  ZeroRun(s, pos) = n
<1>. DEFINE P(z) == s[pos + z] = 1 /\ \A i \in 0 .. z - 1 : s[pos + i] = 0
<1>1. Len(s) \in Nat /\ n \in 0 .. Len(s) - pos
  OBVIOUS
<1>2. \A i \in 0 .. n - 1 : s[pos + i] = 0
  <2>1. \A i \in 0 .. n - 1 : i + 1 \in 1 .. n /\ (pos - 1) + (i + 1) = pos + i
    OBVIOUS
  <2>. QED BY <2>1
<1>3. P(n)
  BY <1>2
<1>4. ASSUME NEW z \in 0 .. Len(s) - pos, P(z) PROVE z = n
  <2>1. CASE z < n
    <3>1. z \in 0 .. n - 1
      BY <2>1
    <3>2. s[pos + z] = 0
      BY <3>1, <1>2
    <3>3. s[pos + z] = 1
      BY <1>4
    <3>. QED BY <3>2, <3>3
  <2>2. CASE z > n
    <3>1. n \in 0 .. z - 1
      BY <2>2
    <3>2. s[pos + n] = 0
      BY <3>1, <1>4
    <3>. QED BY <3>2
  <2>. QED BY <2>1, <2>2, <1>1
<1>5. ZeroRun(s, pos) = CHOOSE z \in 0 .. Len(s) - pos : P(z)
  BY DEF ZeroRun
<1>. HIDE DEF P
<1>. QED BY <1>1, <1>3, <1>4, <1>5

-----------------------------------------------------------------------------
\* Each code is read back, and is as long as its length macro says.

\* Decoding s from pos gives x and goes on after n bits.
Reads(d, x, pos, n) == d.x = x /\ d.pos = pos + n

LEMMA UnaryIsRead ==
  ASSUME NEW x \in Nat \ {0}
  PROVE  /\ Unary(x) \in Seq({0, 1}) /\ Len(Unary(x)) = x /\ UnaryLength(x) = x
         /\ \A s, pos : Stands(Unary(x), s, pos) => Reads(UnaryDecode(s, pos), x, pos, x)
<1>1. x - 1 \in Nat
  OBVIOUS
<1>2. /\ Zeros(x - 1) \in Seq({0, 1}) /\ Len(Zeros(x - 1)) = x - 1
      /\ \A i \in 1 .. x - 1 : Zeros(x - 1)[i] = 0
  BY <1>1, ZerosAreBits
<1>3. /\ Unary(x) \in Seq({0, 1}) /\ Len(Unary(x)) = x /\ Unary(x)[x] = 1
      /\ \A i \in 1 .. x - 1 : Unary(x)[i] = 0
  BY <1>2 DEF Unary
<1>4. ASSUME NEW s, NEW pos, Stands(Unary(x), s, pos)
      PROVE  Reads(UnaryDecode(s, pos), x, pos, x)
  <2>1. s \in Seq({0, 1}) /\ pos \in Nat \ {0} /\ pos - 1 + x <= Len(s) /\ Len(s) \in Nat
        /\ \A i \in 1 .. x : s[(pos - 1) + i] = Unary(x)[i]
    BY <1>3, <1>4 DEF Stands
  <2>2. x \in 1 .. x /\ pos + (x - 1) = (pos - 1) + x /\ pos + (x - 1) <= Len(s)
        /\ \A i \in 1 .. x - 1 : i \in 1 .. x
    BY <2>1
  <2>3. s[pos + (x - 1)] = 1 /\ \A i \in 1 .. x - 1 : s[(pos - 1) + i] = 0
    BY <1>3, <2>1, <2>2
  <2>4. ZeroRun(s, pos) = x - 1
    BY <1>1, <2>1, <2>2, <2>3, ZeroRunRight
  <2>. QED BY <2>1, <2>4 DEF UnaryDecode, Reads
<1>. QED BY <1>3, <1>4 DEF UnaryLength

LEMMA GammaIsRead ==
  ASSUME NEW x \in Nat \ {0}
  PROVE  /\ Gamma(x) \in Seq({0, 1}) /\ Len(Gamma(x)) = GammaLength(x)
         /\ GammaLength(x) \in Nat \ {0}
         /\ \A s, pos : Stands(Gamma(x), s, pos) =>
              Reads(GammaDecode(s, pos), x, pos, GammaLength(x))
<1>. DEFINE n == FloorLog(x)
<1>1. n \in Nat /\ Pow2[n] <= x /\ x < Pow2[n + 1]
  BY FloorLogRight
<1>2. GammaLength(x) = 2 * n + 1 /\ Gamma(x) = Zeros(n) \o Bits(x, n + 1)
  BY DEF GammaLength, Gamma
<1>. HIDE DEF n
<1>3. Pow2[n] \in Nat \ {0} /\ Pow2[n + 1] = 2 * Pow2[n]
  BY <1>1, Pow2Unfolds
<1>4. /\ Zeros(n) \in Seq({0, 1}) /\ Len(Zeros(n)) = n
      /\ \A i \in 1 .. n : Zeros(n)[i] = 0
  BY <1>1, ZerosAreBits
<1>5. /\ Bits(x, n + 1) \in Seq({0, 1}) /\ Len(Bits(x, n + 1)) = n + 1
      /\ Bits(x, n + 1)[1] = (x \div Pow2[n + 1 - 1]) % 2
  BY <1>1, BitsAreBits
<1>6. Bits(x, n + 1)[1] = 1
  <2>1. x \div Pow2[n] = 1
    <3>1. x - Pow2[n] \in Nat /\ x - Pow2[n] < Pow2[n] /\ x = 1 * Pow2[n] + (x - Pow2[n])
          /\ 1 \in Nat
      BY <1>1, <1>3
    <3>. QED BY <1>3, <3>1, QuotientIs
  <2>2. n + 1 - 1 = n
    BY <1>1
  <2>. QED BY <1>5, <2>1, <2>2
<1>7. Gamma(x) \in Seq({0, 1}) /\ Len(Gamma(x)) = GammaLength(x)
  <2>1. \A u, v \in Seq({0, 1}) : u \o v \in Seq({0, 1}) /\ Len(u \o v) = Len(u) + Len(v)
    OBVIOUS
  <2>2. Gamma(x) \in Seq({0, 1}) /\ Len(Gamma(x)) = n + (n + 1)
    BY <1>2, <1>4, <1>5, <2>1
  <2>. QED BY <1>1, <1>2, <2>2
<1>8. ASSUME NEW s, NEW pos, Stands(Gamma(x), s, pos)
      PROVE  Reads(GammaDecode(s, pos), x, pos, GammaLength(x))
  <2>1. Stands(Zeros(n), s, pos) /\ Stands(Bits(x, n + 1), s, pos + n)
    BY <1>2, <1>4, <1>5, <1>8, StandsInParts
  <2>2. s \in Seq({0, 1}) /\ pos \in Nat \ {0} /\ (pos + n) - 1 + (n + 1) <= Len(s)
        /\ Len(s) \in Nat /\ \A i \in 1 .. n : s[(pos - 1) + i] = 0
    <3>1. s \in Seq({0, 1}) /\ pos \in Nat \ {0} /\ Len(s) \in Nat
      BY <2>1 DEF Stands
    <3>2. (pos + n) - 1 + (n + 1) <= Len(s)
      BY <1>5, <2>1 DEF Stands
    <3>3. \A i \in 1 .. n : s[(pos - 1) + i] = Zeros(n)[i]
      BY <1>4, <2>1 DEF Stands
    <3>. QED BY <1>4, <3>1, <3>2, <3>3
  <2>3. s[pos + n] = 1
    <3>1. 1 \in 1 .. n + 1 /\ ((pos + n) - 1) + 1 = pos + n
      BY <1>1, <2>2
    <3>2. s[((pos + n) - 1) + 1] = Bits(x, n + 1)[1]
      BY <1>5, <2>1, <3>1 DEF Stands
    <3>. QED BY <1>6, <3>1, <3>2
  <2>4. ZeroRun(s, pos) = n
    <3>1. pos + n <= Len(s)
      BY <1>1, <2>2
    <3>. QED BY <1>1, <2>2, <2>3, <3>1, ZeroRunRight
  <2>5. Number(s, pos + n, n + 1) = x
    <3>1. n + 1 \in Nat /\ n + 1 \in 0 .. n + 1 /\ (n + 1) - (n + 1) = 0 /\ x \in Nat
      BY <1>1
    <3>2. Number(s, pos + n, n + 1) = x \div Pow2[(n + 1) - (n + 1)]
      BY <1>1, <2>1, <3>1, NumberRight
    <3>3. x = x * 1 + 0 /\ 0 < 1 /\ Pow2[0] = 1 /\ 1 \in Nat \ {0} /\ 0 \in Nat
      BY Pow2Unfolds
    <3>4. x \div 1 = x
      BY <3>1, <3>3, QuotientIs
    <3>. QED BY <3>1, <3>2, <3>3, <3>4
  <2>6. pos + 2 * n + 1 = pos + (2 * n + 1)
    BY <1>1, <2>2
  <2>. QED BY <1>2, <2>4, <2>5, <2>6 DEF GammaDecode, Reads
<1>9. GammaLength(x) \in Nat \ {0}
  BY <1>1, <1>2
<1>. QED BY <1>7, <1>8, <1>9

\* What the n bits of a number say once Thresh has been looked at.
LEMMA BinaryIsRead ==
  ASSUME NEW b \in Nat \ {0}, NEW x \in 1 .. b
  PROVE  /\ Binary(x, b) \in Seq({0, 1}) /\ Len(Binary(x, b)) = BinaryBits(x, b)
         /\ BinaryBits(x, b) \in Nat
         /\ \A s, pos : Stands(Binary(x, b), s, pos) =>
              Reads(BinaryDecode(s, pos, b), x, pos, BinaryBits(x, b))
<1>. DEFINE c == CeilLog(b)
            T == Thresh(b)
<1>1. c \in Nat /\ T \in 0 .. b - 1 /\ T = Pow2[c] - b /\ Pow2[c] \in Nat
      /\ Pow2[c] >= b /\ (c > 0 => Pow2[c - 1] < b)
  BY ThreshRight, CeilLogRight, Pow2Unfolds DEF Thresh
<1>2. BinaryBits(x, b) = IF x - 1 < T THEN c - 1 ELSE c
  BY DEF BinaryBits
<1>3. Binary(x, b) = Bits(IF x - 1 < T THEN x - 1 ELSE x - 1 + T, BinaryBits(x, b))
  BY DEF Binary
<1>4. ASSUME NEW s, NEW pos
      PROVE  BinaryDecode(s, pos, b) =
        IF b = 1 THEN [x |-> 1, pos |-> pos]
        ELSE IF Number(s, pos, c - 1) < T
             THEN [x |-> Number(s, pos, c - 1) + 1, pos |-> pos + (c - 1)]
             ELSE [x |-> Number(s, pos, c - 1 + 1) - T + 1, pos |-> pos + (c - 1) + 1]
  BY DEF BinaryDecode
<1>. HIDE DEF c, T
<1>5. CASE b = 1
  <2>1. c = 0
    <3>1. CASE c > 0
      <4>1. c - 1 \in Nat
        BY <1>1, <3>1
      <4>. QED BY <1>1, <1>5, <3>1, <4>1, Pow2Unfolds
    <3>. QED BY <3>1, <1>1
  <2>2. x = 1 /\ T = 0
    BY <1>1, <1>5
  <2>3. BinaryBits(x, b) = 0 /\ Binary(x, b) = Bits(0, 0)
    BY <1>2, <1>3, <2>1, <2>2
  <2>4. Bits(0, 0) \in Seq({0, 1}) /\ Len(Bits(0, 0)) = 0
    BY BitsAreBits
  <2>5. ASSUME NEW s, NEW pos, Stands(Binary(x, b), s, pos)
        PROVE  Reads(BinaryDecode(s, pos, b), x, pos, BinaryBits(x, b))
    <3>1. pos \in Nat
      BY <2>5 DEF Stands
    <3>. QED BY <1>4, <1>5, <2>2, <2>3, <3>1 DEF Reads
  <2>. QED BY <2>3, <2>4, <2>5
<1>6. CASE b # 1
  <2>1. c # 0
    BY <1>1, <1>6, Pow2Unfolds
  <2>2. c - 1 \in Nat /\ (c - 1) + 1 = c /\ c - 1 + 1 = c
    BY <1>1, <2>1
  <2>3. Pow2[c] = 2 * Pow2[c - 1] /\ Pow2[c - 1] \in Nat /\ Pow2[c - 1] < b
    BY <1>1, <2>1, <2>2, Pow2Unfolds
  <2>4. T <= Pow2[c - 1]
    BY <1>1, <2>3
  <2>5. CASE x - 1 < T
    <3>1. BinaryBits(x, b) = c - 1 /\ Binary(x, b) = Bits(x - 1, c - 1) /\ x - 1 \in Nat
      BY <1>2, <1>3, <2>5
    <3>2. ASSUME NEW s, NEW pos, Stands(Binary(x, b), s, pos)
          PROVE  Reads(BinaryDecode(s, pos, b), x, pos, BinaryBits(x, b))
      <4>1. c - 1 \in 0 .. c - 1 /\ (c - 1) - (c - 1) = 0 /\ x - 1 < Pow2[c - 1]
        BY <1>1, <2>2, <2>3, <2>4, <2>5
      <4>2. Number(s, pos, c - 1) = (x - 1) \div Pow2[(c - 1) - (c - 1)]
        BY <2>2, <3>1, <3>2, <4>1, NumberRight
      <4>3. x - 1 = (x - 1) * 1 + 0 /\ 0 < 1 /\ Pow2[0] = 1 /\ 1 \in Nat \ {0} /\ 0 \in Nat
        BY Pow2Unfolds
      <4>4. (x - 1) \div 1 = x - 1
        BY <3>1, <4>3, QuotientIs
      <4>5. Number(s, pos, c - 1) = x - 1
        BY <4>1, <4>2, <4>3, <4>4
      <4>. QED BY <1>4, <1>6, <2>5, <3>1, <4>5 DEF Reads
    <3>. QED BY <2>2, <3>1, <3>2, BitsAreBits
  <2>6. CASE ~(x - 1 < T)
    <3>1. BinaryBits(x, b) = c /\ Binary(x, b) = Bits(x - 1 + T, c) /\ x - 1 + T \in Nat
      BY <1>1, <1>2, <1>3, <2>6
    <3>2. ASSUME NEW s, NEW pos, Stands(Binary(x, b), s, pos)
          PROVE  Reads(BinaryDecode(s, pos, b), x, pos, BinaryBits(x, b))
      <4>1. c - 1 \in 0 .. c /\ c \in 0 .. c /\ c - (c - 1) = 1 /\ c - c = 0
            /\ x - 1 + T < Pow2[c]
        BY <1>1, <2>2
      <4>2. Number(s, pos, c - 1) = (x - 1 + T) \div Pow2[c - (c - 1)]
        BY <1>1, <3>1, <3>2, <4>1, NumberRight
      <4>3. Number(s, pos, c) = (x - 1 + T) \div Pow2[c - c]
        BY <1>1, <3>1, <3>2, <4>1, NumberRight
      <4>4. Pow2[1] = 2 /\ Pow2[0] = 1
        <5>1. 0 + 1 = 1 /\ 0 \in Nat
          OBVIOUS
        <5>2. Pow2[0 + 1] = 2 * Pow2[0] /\ Pow2[0] = 1
          BY <5>1, Pow2Unfolds
        <5>. QED BY <5>1, <5>2
      <4>5. ~((x - 1 + T) \div 2 < T)
        BY <1>1, <2>6, <3>1
      <4>6. (x - 1 + T) \div 1 = x - 1 + T
        BY <3>1
      <4>7. Number(s, pos, c) - T + 1 = x
        BY <1>1, <3>1, <4>1, <4>3, <4>4, <4>6
      <4>8. pos \in Nat /\ pos + (c - 1) + 1 = pos + c
        BY <1>1, <3>2 DEF Stands
      <4>. QED BY <1>4, <1>6, <2>2, <3>1, <4>1, <4>2, <4>4, <4>5, <4>7, <4>8 DEF Reads
    <3>. QED BY <1>1, <3>1, <3>2, BitsAreBits
  <2>. QED BY <2>5, <2>6
<1>. QED BY <1>5, <1>6

(***************************************************************************)
(* DELTA_ENCODE hands the binary code a number above its block size, of    *)
(* which the code keeps the low bits.                                      *)
(***************************************************************************)
LEMMA BinaryOfPower ==
  ASSUME NEW n \in Nat, NEW x \in Nat, Pow2[n] <= x, x < 2 * Pow2[n]
  PROVE  /\ Binary(x + 1, Pow2[n]) = Binary(x - Pow2[n] + 1, Pow2[n])
         /\ BinaryBits(x + 1, Pow2[n]) = BinaryBits(x - Pow2[n] + 1, Pow2[n])
         /\ x - Pow2[n] + 1 \in 1 .. Pow2[n]
<1>. DEFINE b == Pow2[n]
            y == x - b
            c == CeilLog(b)
<1>1. b \in Nat \ {0} /\ y \in Nat /\ y < b /\ y + b = x
  BY Pow2Unfolds
<1>2. c \in Nat /\ Thresh(b) = Pow2[c] - b /\ Thresh(b) >= 0 /\ Pow2[c] >= b
      /\ (c > 0 => Pow2[c - 1] < b)
  BY <1>1, CeilLogRight, ThreshRight DEF Thresh
<1>3. c = n
  <2>. HIDE DEF c
  <2>1. CASE c < n
    <3>1. c + 1 \in Nat /\ c + 1 <= n
      BY <1>2, <2>1
    <3>2. Pow2[c + 1] <= Pow2[n] /\ Pow2[c + 1] = 2 * Pow2[c] /\ Pow2[c] \in Nat \ {0}
      BY <1>2, <3>1, Pow2Grows, Pow2Unfolds
    <3>. QED BY <1>1, <1>2, <3>2
  <2>2. CASE c > n
    <3>1. c - 1 \in Nat /\ n <= c - 1 /\ c > 0
      BY <1>2, <2>2
    <3>2. Pow2[n] <= Pow2[c - 1]
      BY <3>1, Pow2Grows
    <3>3. Pow2[n] \in Nat /\ Pow2[c - 1] \in Nat
      BY <3>1, Pow2Unfolds
    <3>. QED BY <1>2, <3>1, <3>2, <3>3
  <2>. QED BY <1>2, <2>1, <2>2
<1>4. Thresh(b) = 0
  BY <1>1, <1>2, <1>3
<1>. HIDE DEF b, y, c
<1>5. x + 1 - 1 = x /\ y + 1 - 1 = y /\ x + 0 = x /\ y + 0 = y
  BY <1>1
<1>6. BinaryBits(x + 1, b) = n /\ BinaryBits(y + 1, b) = n
  BY <1>1, <1>3, <1>4, <1>5 DEF BinaryBits, c
<1>7. Binary(x + 1, b) = Bits(x, n) /\ Binary(y + 1, b) = Bits(y, n)
  BY <1>1, <1>4, <1>5, <1>6 DEF Binary
<1>8. Bits(x, n) = Bits(y, n)
  <2>1. Bits(y + Pow2[n], n) = Bits(y, n)
    BY <1>1, BitsLow
  <2>. QED BY <2>1, <1>1 DEF b
<1>. QED BY <1>1, <1>6, <1>7, <1>8 DEF b, y

LEMMA DeltaIsRead ==
  ASSUME NEW x \in Nat \ {0}
  PROVE  /\ Delta(x) \in Seq({0, 1}) /\ Len(Delta(x)) = DeltaLength(x)
         /\ DeltaLength(x) \in Nat
         /\ \A s, pos : Stands(Delta(x), s, pos) =>
              Reads(DeltaDecode(s, pos), x, pos, DeltaLength(x))
<1>. DEFINE n == FloorLog(x)
            b == Pow2[n]
            y == x - b + 1
            g == GammaLength(n + 1)
            m == BinaryBits(y, b)
<1>1. n \in Nat /\ b <= x /\ x < 2 * b /\ b \in Nat \ {0}
  <2>1. n \in Nat /\ b <= x /\ x < Pow2[n + 1]
    BY FloorLogRight
  <2>. HIDE DEF n
  <2>. QED BY <2>1, Pow2Unfolds
<1>2. Delta(x) = Gamma(n + 1) \o Binary(x + 1, b) /\ DeltaLength(x) = g + BinaryBits(x + 1, b)
  BY DEF Delta, DeltaLength
<1>. HIDE DEF n
<1>3. Binary(x + 1, b) = Binary(y, b) /\ BinaryBits(x + 1, b) = m /\ y \in 1 .. b
  BY <1>1, BinaryOfPower
<1>. HIDE DEF b
<1>4. /\ Gamma(n + 1) \in Seq({0, 1}) /\ Len(Gamma(n + 1)) = g /\ g \in Nat \ {0}
      /\ \A s, pos : Stands(Gamma(n + 1), s, pos) =>
           Reads(GammaDecode(s, pos), n + 1, pos, g)
  <2>1. n + 1 \in Nat \ {0}
    BY <1>1
  <2>. QED BY <2>1, GammaIsRead
<1>5. /\ Binary(y, b) \in Seq({0, 1}) /\ Len(Binary(y, b)) = m /\ m \in Nat
      /\ \A s, pos : Stands(Binary(y, b), s, pos) =>
           Reads(BinaryDecode(s, pos, b), y, pos, m)
  BY <1>1, <1>3, BinaryIsRead
<1>. HIDE DEF y, g, m
<1>6. \A u, v \in Seq({0, 1}) : u \o v \in Seq({0, 1}) /\ Len(u \o v) = Len(u) + Len(v)
  OBVIOUS
<1>7. Delta(x) = Gamma(n + 1) \o Binary(y, b) /\ DeltaLength(x) = g + m
  BY <1>2, <1>3
<1>8. ASSUME NEW s, NEW pos, Stands(Delta(x), s, pos)
      PROVE  Reads(DeltaDecode(s, pos), x, pos, DeltaLength(x))
  <2>1. Stands(Gamma(n + 1), s, pos) /\ Stands(Binary(y, b), s, pos + g)
    BY <1>4, <1>5, <1>7, <1>8, StandsInParts
  <2>2. GammaDecode(s, pos).x = n + 1 /\ GammaDecode(s, pos).pos = pos + g
    BY <1>4, <2>1 DEF Reads
  <2>3. BinaryDecode(s, pos + g, b).x = y /\ BinaryDecode(s, pos + g, b).pos = pos + g + m
    BY <1>5, <2>1 DEF Reads
  <2>4. n + 1 - 1 = n /\ Pow2[n] = b
    BY <1>1 DEF b
  <2>5. /\ DeltaDecode(s, pos).x = y - 1 + b
        /\ DeltaDecode(s, pos).pos = pos + g + m
    <3>1. LET G == GammaDecode(s, pos)
              R == BinaryDecode(s, G.pos, Pow2[G.x - 1])
          IN DeltaDecode(s, pos) = [x |-> R.x - 1 + Pow2[G.x - 1], pos |-> R.pos]
      BY DEF DeltaDecode
    <3>2. Pow2[GammaDecode(s, pos).x - 1] = b
      <4>1. GammaDecode(s, pos).x - 1 = n
        BY <1>1, <2>2
      <4>. QED BY <2>4, <4>1
    <3>3. BinaryDecode(s, GammaDecode(s, pos).pos, b) = BinaryDecode(s, pos + g, b)
      BY <2>2
    <3>. QED BY <2>3, <3>1, <3>2, <3>3
  <2>6. y - 1 + b = x
    BY <1>1 DEF y
  <2>7. pos \in Nat /\ pos + g + m = pos + (g + m)
    BY <1>4, <1>5, <1>8 DEF Stands
  <2>. QED BY <1>7, <2>5, <2>6, <2>7 DEF Reads
<1>9. Delta(x) \in Seq({0, 1}) /\ Len(Delta(x)) = DeltaLength(x)
  BY <1>4, <1>5, <1>6, <1>7
<1>10. DeltaLength(x) \in Nat
  BY <1>4, <1>5, <1>7
<1>. QED BY <1>8, <1>9, <1>10

LEMMA BblockIsRead ==
  ASSUME NEW b \in Nat \ {0}, NEW x \in Nat \ {0}
  PROVE  /\ Bblock(x, b) \in Seq({0, 1}) /\ Len(Bblock(x, b)) = BblockLength(x, b)
         /\ BblockLength(x, b) \in Nat \ {0}
         /\ \A s, pos : Stands(Bblock(x, b), s, pos) =>
              Reads(BblockDecode(s, pos, b), x, pos, BblockLength(x, b))
<1>. DEFINE q == (x - 1) \div b
            r == (x - 1) % b
            m == BinaryBits(r + 1, b)
<1>1. x - 1 \in Nat
  OBVIOUS
<1>2. q \in Nat /\ r \in Nat /\ r < b /\ x - 1 = q * b + r
  BY <1>1, QuotientOf
<1>3. Bblock(x, b) = Unary(q + 1) \o Binary(r + 1, b) /\ BblockLength(x, b) = (q + 1) + m
  BY DEF Bblock, BblockLength, UnaryLength
<1>. HIDE DEF q, r
<1>4. /\ Unary(q + 1) \in Seq({0, 1}) /\ Len(Unary(q + 1)) = q + 1
      /\ \A s, pos : Stands(Unary(q + 1), s, pos) =>
           Reads(UnaryDecode(s, pos), q + 1, pos, q + 1)
  <2>1. q + 1 \in Nat \ {0}
    BY <1>2
  <2>. QED BY <2>1, UnaryIsRead
<1>5. /\ Binary(r + 1, b) \in Seq({0, 1}) /\ Len(Binary(r + 1, b)) = m /\ m \in Nat
      /\ \A s, pos : Stands(Binary(r + 1, b), s, pos) =>
           Reads(BinaryDecode(s, pos, b), r + 1, pos, m)
  <2>1. r + 1 \in 1 .. b
    BY <1>2
  <2>. QED BY <2>1, BinaryIsRead
<1>. HIDE DEF m
<1>6. \A u, v \in Seq({0, 1}) : u \o v \in Seq({0, 1}) /\ Len(u \o v) = Len(u) + Len(v)
  OBVIOUS
<1>7. ASSUME NEW s, NEW pos, Stands(Bblock(x, b), s, pos)
      PROVE  Reads(BblockDecode(s, pos, b), x, pos, BblockLength(x, b))
  <2>1. Stands(Unary(q + 1), s, pos) /\ Stands(Binary(r + 1, b), s, pos + (q + 1))
    BY <1>3, <1>4, <1>5, <1>7, StandsInParts
  <2>2. UnaryDecode(s, pos).x = q + 1 /\ UnaryDecode(s, pos).pos = pos + (q + 1)
    BY <1>4, <2>1 DEF Reads
  <2>3. /\ BinaryDecode(s, pos + (q + 1), b).x = r + 1
        /\ BinaryDecode(s, pos + (q + 1), b).pos = pos + (q + 1) + m
    BY <1>5, <2>1 DEF Reads
  <2>4. /\ BblockDecode(s, pos, b).x = ((q + 1) - 1) * b + (r + 1)
        /\ BblockDecode(s, pos, b).pos = pos + (q + 1) + m
    <3>1. LET Q == UnaryDecode(s, pos)
              R == BinaryDecode(s, Q.pos, b)
          IN BblockDecode(s, pos, b) = [x |-> (Q.x - 1) * b + R.x, pos |-> R.pos]
      BY DEF BblockDecode
    <3>2. BinaryDecode(s, UnaryDecode(s, pos).pos, b) = BinaryDecode(s, pos + (q + 1), b)
      BY <2>2
    <3>3. UnaryDecode(s, pos).x - 1 = (q + 1) - 1
      BY <1>2, <2>2
    <3>. QED BY <2>3, <3>1, <3>2, <3>3
  <2>5. (q + 1) - 1 = q /\ q * b \in Int
    BY <1>2
  <2>6. q * b + (r + 1) = x
    BY <1>2, <2>5
  <2>7. pos \in Nat /\ pos + (q + 1) + m = pos + ((q + 1) + m)
    BY <1>2, <1>5, <1>7 DEF Stands
  <2>. QED BY <1>3, <2>4, <2>5, <2>6, <2>7 DEF Reads
<1>8. Bblock(x, b) \in Seq({0, 1}) /\ Len(Bblock(x, b)) = BblockLength(x, b)
  BY <1>3, <1>4, <1>5, <1>6
<1>9. BblockLength(x, b) \in Nat \ {0}
  BY <1>2, <1>3, <1>5
<1>. QED BY <1>7, <1>8, <1>9
-----------------------------------------------------------------------------
\* Blocks of postings.

\* Where the block that posting n is in ends, had it k postings.
BlockEnd(n, k) == n - (n % k) + k

LEMMA BlockFacts ==
  ASSUME NEW k \in Nat \ {0}, NEW n \in Nat
  PROVE  /\ n % k \in 0 .. k - 1 /\ n - (n % k) \in Nat
         /\ BlockEnd(n, k) \in Nat /\ BlockEnd(n, k) > n
         /\ BlockEnd(n, k) % k = 0 /\ (n - (n % k)) % k = 0
         /\ (n + 1) % k = IF n % k = k - 1 THEN 0 ELSE (n % k) + 1
         /\ n % k = k - 1 <=> BlockEnd(n, k) = n + 1
         /\ n % k # k - 1 => BlockEnd(n + 1, k) = BlockEnd(n, k)
<1>. DEFINE q == n \div k
            r == n % k
<1>1. q \in Nat /\ r \in Nat /\ r < k /\ n = q * k + r
  BY QuotientOf
<1>. HIDE DEF q, r
<1>2. q * k \in Nat /\ (q + 1) * k = q * k + k
  BY <1>1
<1>3. PICK z \in Nat : z = q * k
  BY <1>2
<1>4. BlockEnd(n, k) = (q + 1) * k /\ BlockEnd(n, k) = z + k /\ n - r = z /\ n = z + r
  <2>1. BlockEnd(n, k) = n - r + k
    BY DEF BlockEnd, r
  <2>2. n = z + r
    BY <1>1, <1>3
  <2>. QED BY <1>1, <1>2, <1>3, <2>1, <2>2
<1>5. z % k = 0 /\ (z + k) % k = 0
  <2>1. z = q * k + 0 /\ z + k = (q + 1) * k + 0 /\ 0 < k /\ 0 \in Nat /\ q + 1 \in Nat
    BY <1>1, <1>2, <1>3
  <2>. QED BY <1>1, <2>1, QuotientIs
<1>6. (n + 1) % k = IF r = k - 1 THEN 0 ELSE r + 1
  <2>1. CASE r = k - 1
    <3>1. n + 1 = z + k
      BY <1>1, <1>4, <2>1
    <3>. QED BY <1>5, <2>1, <3>1
  <2>2. CASE r # k - 1
    <3>1. n + 1 = q * k + (r + 1) /\ r + 1 \in Nat /\ r + 1 < k
      BY <1>1, <1>2, <2>2
    <3>2. (n + 1) % k = r + 1
      BY <1>1, <3>1, QuotientIs
    <3>. QED BY <2>2, <3>2
  <2>. QED BY <2>1, <2>2
<1>7. r # k - 1 => BlockEnd(n + 1, k) = z + k
  BY <1>1, <1>4, <1>6 DEF BlockEnd
<1>. QED BY <1>1, <1>4, <1>5, <1>6, <1>7 DEF r

\* The t-th posting of a block.
LEMMA InBlock ==
  ASSUME NEW k \in Nat \ {0}, NEW n \in Nat, n % k = 0, NEW t \in 0 .. k - 1
  PROVE  (n + t) % k = t /\ BlockEnd(n + t, k) = n + k
<1>. DEFINE q == n \div k
<1>1. q \in Nat /\ n = q * k + (n % k)
  BY QuotientOf
<1>. HIDE DEF q
<1>2. q * k \in Nat /\ n + t = q * k + t /\ t \in Nat /\ t < k
  BY <1>1
<1>3. (n + t) % k = t
  <2>1. n + t \in Nat
    OBVIOUS
  <2>. QED BY <1>1, <1>2, <2>1, QuotientIs
<1>. QED BY <1>2, <1>3 DEF BlockEnd
=============================================================================
