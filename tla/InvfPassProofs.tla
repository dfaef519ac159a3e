--------------------------- MODULE InvfPassProofs ---------------------------
(***************************************************************************)
(* The two passes of inversion, for every text and wherever it is cut.     *)
(***************************************************************************)
EXTENDS InvfPass2, CodeFacts, FiniteSetTheorems

-----------------------------------------------------------------------------
\* Sums.

LEMMA SumToIsPartial ==
  ASSUME NEW s, NEW n PROVE SumTo(s, n) = PartialSums(s, n)[n]
BY DEF SumTo, PartialSums

LEMMA SumAlike ==
  ASSUME NEW n \in Nat, NEW s, NEW t, \A i \in 1 .. n : s[i] \in Int /\ s[i] = t[i]
  PROVE  SumTo(s, n) = SumTo(t, n)
<1>1. \A i \in 1 .. n : t[i] \in Int
  OBVIOUS
<1>2. n \in 0 .. n
  OBVIOUS
<1>3. PartialSums(s, n)[n] = PartialSums(t, n)[n]
  BY <1>1, <1>2, PartialSumsAlike
<1>. QED BY <1>3, SumToIsPartial

LEMMA SumNone == \A s : SumTo(s, 0) = 0
<1>. TAKE s
<1>1. \A i \in 1 .. 0 : s[i] \in Int
  OBVIOUS
<1>. QED BY <1>1, PartialSumsUnfold, SumToIsPartial

LEMMA SumOneMore ==
  ASSUME NEW n \in Nat, NEW s, \A i \in 1 .. n + 1 : s[i] \in Int
  PROVE  SumTo(s, n + 1) = SumTo(s, n) + s[n + 1]
<1>1. n + 1 \in Nat /\ n <= n + 1 /\ n \in 0 .. n /\ n + 1 \in 1 .. n + 1 /\ (n + 1) - 1 = n
      /\ \A i \in 1 .. n : i \in 1 .. n + 1
  OBVIOUS
<1>2. PartialSums(s, n)[n] = PartialSums(s, n + 1)[n]
  BY <1>1, PartialSumsAlike
<1>3. PartialSums(s, n + 1)[n + 1] = PartialSums(s, n + 1)[(n + 1) - 1] + s[n + 1]
  BY <1>1, PartialSumsUnfold
<1>. QED BY <1>1, <1>2, <1>3, SumToIsPartial

LEMMA SumType ==
  ASSUME NEW n \in Nat, NEW s, \A i \in 1 .. n : s[i] \in Int
  PROVE  SumTo(s, n) \in Int
<1>1. n \in 0 .. n
  OBVIOUS
<1>. QED BY <1>1, PartialSumsUnfold, SumToIsPartial

(***************************************************************************)
(* Sums of natural numbers grow.                                           *)
(***************************************************************************)
LEMMA SumsGrow ==
  ASSUME NEW n \in Nat, NEW s, \A i \in 1 .. n : s[i] \in Nat
  PROVE  /\ \A m \in 0 .. n : SumTo(s, m) \in Nat /\ SumTo(s, m) <= SumTo(s, n)
<1>1. ASSUME NEW m \in 0 .. n PROVE SumTo(s, m) \in Nat
  <2>. DEFINE T == {k \in Nat : k <= n => SumTo(s, k) \in Nat}
  <2>1. 0 \in T
    BY SumNone
  <2>2. ASSUME NEW k \in Nat, k \in T PROVE k + 1 \in T
    <3>. SUFFICES ASSUME k + 1 <= n PROVE SumTo(s, k + 1) \in Nat
      OBVIOUS
    <3>1. \A i \in 1 .. k + 1 : s[i] \in Int
      OBVIOUS
    <3>2. SumTo(s, k + 1) = SumTo(s, k) + s[k + 1]
      BY <3>1, SumOneMore
    <3>3. s[k + 1] \in Nat /\ SumTo(s, k) \in Nat
      BY <2>2
    <3>. QED BY <3>2, <3>3
  <2>3. Nat \subseteq T
    <3>. HIDE DEF T
    <3>. QED BY <2>1, <2>2, SetInduction
  <2>. QED BY <2>3
<1>2. ASSUME NEW m \in 0 .. n PROVE SumTo(s, m) <= SumTo(s, n)
  <2>. DEFINE T == {k \in Nat : m + k <= n => SumTo(s, m) <= SumTo(s, m + k)}
  <2>1. 0 \in T
    BY <1>1
  <2>2. ASSUME NEW k \in Nat, k \in T PROVE k + 1 \in T
    <3>. SUFFICES ASSUME m + (k + 1) <= n PROVE SumTo(s, m) <= SumTo(s, m + (k + 1))
      OBVIOUS
    <3>1. m + k \in Nat /\ (m + k) + 1 = m + (k + 1) /\ m + k \in 0 .. n
          /\ \A i \in 1 .. (m + k) + 1 : s[i] \in Int
      OBVIOUS
    <3>2. SumTo(s, (m + k) + 1) = SumTo(s, m + k) + s[(m + k) + 1]
      BY <3>1, SumOneMore
    <3>3. s[(m + k) + 1] \in Nat /\ SumTo(s, m) <= SumTo(s, m + k)
          /\ SumTo(s, m) \in Nat /\ SumTo(s, m + k) \in Nat
      BY <2>2, <3>1, <1>1
    <3>. QED BY <3>1, <3>2, <3>3
  <2>3. Nat \subseteq T
    <3>. HIDE DEF T
    <3>. QED BY <2>1, <2>2, SetInduction
  <2>4. n - m \in Nat /\ m + (n - m) = n
    OBVIOUS
  <2>. QED BY <2>3, <2>4
<1>. QED BY <1>1, <1>2

-----------------------------------------------------------------------------
\* Powers.

LEMMA PowerUnfolds ==
  ASSUME NEW x \in Nat
  PROVE  /\ \A n \in Nat : Power(x, n) \in Nat
         /\ Power(x, 0) = 1
         /\ \A n \in Nat : Power(x, n + 1) = x * Power(x, n)
<1>. DEFINE Q(g) == g = [i \in Nat |-> IF i = 0 THEN 1 ELSE x * g[i - 1]]
            D == [a \in Nat \X Nat |-> x * a[1]]
            p == CHOOSE h : Q(h)
<1>1. D \in [Nat \X Nat -> Nat] /\ 1 \in Nat
  OBVIOUS
<1>2. PICK g \in [Nat -> Nat] : Recurs(g, 1, D)
  <2>. HIDE DEF D
  <2>. QED BY <1>1, RecursionOnNat
<1>3. ASSUME NEW i \in Nat PROVE g[i + 1] = x * g[i]
  <2>1. <<g[i], i + 1>> \in Nat \X Nat
    OBVIOUS
  <2>2. D[<<g[i], i + 1>>] = x * g[i]
    BY <2>1
  <2>. QED BY <1>2, <2>2 DEF Recurs
<1>4. Q(g)
  <2>1. \A k \in Nat : g[k] = IF k = 0 THEN 1 ELSE x * g[k - 1]
    <3>1. ASSUME NEW k \in Nat, k # 0 PROVE g[k] = x * g[k - 1]
      <4>1. k - 1 \in Nat /\ (k - 1) + 1 = k
        BY <3>1
      <4>. QED BY <4>1, <1>3
    <3>. QED BY <3>1, <1>2 DEF Recurs
  <2>. QED BY <2>1
<1>5. Q(p)
  <2>. HIDE DEF Q
  <2>. QED BY <1>4
<1>6. \A n \in Nat : Power(x, n) = p[n]
  BY DEF Power
<1>. HIDE DEF p
<1>7. p[0] = 1 /\ \A k \in Nat : p[k + 1] = x * p[k]
  <2>1. \A k \in Nat : k + 1 \in Nat /\ k + 1 # 0 /\ (k + 1) - 1 = k
    OBVIOUS
  <2>2. \A k \in Nat : p[k] = IF k = 0 THEN 1 ELSE x * p[k - 1]
    BY <1>5
  <2>. QED BY <2>1, <2>2
<1>8. \A k \in Nat : p[k] \in Nat
  <2>. DEFINE T == {k \in Nat : p[k] \in Nat}
  <2>1. 0 \in T
    BY <1>7
  <2>2. \A k \in Nat : k \in T => k + 1 \in T
    BY <1>7
  <2>3. Nat \subseteq T
    <3>. HIDE DEF T
    <3>. QED BY <2>1, <2>2, SetInduction
  <2>. QED BY <2>3
<1>. QED BY <1>6, <1>7, <1>8

LEMMA PowersPositive ==
  ASSUME NEW x \in Nat \ {0}, NEW n \in Nat PROVE Power(x, n) \in Nat \ {0}
<1>. DEFINE T == {k \in Nat : Power(x, k) \in Nat \ {0}}
<1>1. 0 \in T
  BY PowerUnfolds
<1>2. ASSUME NEW k \in Nat, k \in T PROVE k + 1 \in T
  <2>1. Power(x, k + 1) = x * Power(x, k)
    BY PowerUnfolds
  <2>2. \A y \in Nat \ {0} : x * y \in Nat \ {0}
    OBVIOUS
  <2>. QED BY <1>2, <2>1, <2>2
<1>3. Nat \subseteq T
  <2>. HIDE DEF T
  <2>. QED BY <1>1, <1>2, SetInduction
<1>. QED BY <1>3

LEMMA PowerOfProduct ==
  ASSUME NEW x \in Nat, NEW y \in Nat, NEW n \in Nat
  PROVE  Power(x * y, n) = Power(x, n) * Power(y, n)
<1>. DEFINE T == {k \in Nat : Power(x * y, k) = Power(x, k) * Power(y, k)}
<1>0. x * y \in Nat
  OBVIOUS
<1>1. 0 \in T
  BY <1>0, PowerUnfolds
<1>2. ASSUME NEW k \in Nat, k \in T PROVE k + 1 \in T
  <2>1. /\ Power(x * y, k + 1) = (x * y) * Power(x * y, k)
        /\ Power(x, k + 1) = x * Power(x, k) /\ Power(y, k + 1) = y * Power(y, k)
    BY <1>0, PowerUnfolds
  <2>2. Power(x, k) \in Nat /\ Power(y, k) \in Nat
    BY PowerUnfolds
  <2>3. \A u, v \in Nat : (x * y) * (u * v) = (x * u) * (y * v)
    OBVIOUS
  <2>. QED BY <1>2, <2>1, <2>2, <2>3
<1>3. Nat \subseteq T
  <2>. HIDE DEF T
  <2>. QED BY <1>1, <1>2, SetInduction
<1>. QED BY <1>3

LEMMA PowerOfSum ==
  ASSUME NEW x \in Nat, NEW m \in Nat, NEW n \in Nat
  PROVE  Power(x, m + n) = Power(x, m) * Power(x, n)
<1>. DEFINE T == {k \in Nat : Power(x, m + k) = Power(x, m) * Power(x, k)}
<1>1. 0 \in T
  BY PowerUnfolds
<1>2. ASSUME NEW k \in Nat, k \in T PROVE k + 1 \in T
  <2>0. m + k \in Nat /\ m + (k + 1) = (m + k) + 1
    OBVIOUS
  <2>1. Power(x, m + (k + 1)) = x * Power(x, m + k) /\ Power(x, k + 1) = x * Power(x, k)
    BY <2>0, PowerUnfolds
  <2>2. Power(x, m) \in Nat /\ Power(x, k) \in Nat
    BY PowerUnfolds
  <2>3. \A u, v \in Nat : x * (u * v) = u * (x * v)
    OBVIOUS
  <2>. QED BY <1>2, <2>1, <2>2, <2>3
<1>3. Nat \subseteq T
  <2>. HIDE DEF T
  <2>. QED BY <1>1, <1>2, SetInduction
<1>. QED BY <1>3

LEMMA ProductsGrow ==
  ASSUME NEW a \in Nat, NEW b \in Nat, NEW c \in Nat, NEW d \in Nat, a <= b, c <= d
  PROVE  a * c <= b * d
<1>1. PICK e \in Nat : b = a + e
  <2>1. b - a \in Nat /\ b = a + (b - a)
    OBVIOUS
  <2>. QED BY <2>1
<1>2. PICK f \in Nat : d = c + f
  <2>1. d - c \in Nat /\ d = c + (d - c)
    OBVIOUS
  <2>. QED BY <2>1
<1>3. b * d = a * c + a * f + e * c + e * f
  BY <1>1, <1>2
<1>4. a * f \in Nat /\ e * c \in Nat /\ e * f \in Nat /\ a * c \in Nat
  OBVIOUS
<1>. QED BY <1>3, <1>4

LEMMA PowersGrow ==
  ASSUME NEW x \in Nat, NEW y \in Nat, x <= y, NEW n \in Nat
  PROVE  Power(x, n) <= Power(y, n)
<1>. DEFINE T == {k \in Nat : Power(x, k) <= Power(y, k)}
<1>1. 0 \in T
  BY PowerUnfolds
<1>2. ASSUME NEW k \in Nat, k \in T PROVE k + 1 \in T
  <2>1. Power(x, k + 1) = x * Power(x, k) /\ Power(y, k + 1) = y * Power(y, k)
    BY PowerUnfolds
  <2>2. Power(x, k) \in Nat /\ Power(y, k) \in Nat /\ Power(x, k) <= Power(y, k)
    BY <1>2, PowerUnfolds
  <2>3. x * Power(x, k) <= y * Power(y, k)
    BY <2>2, ProductsGrow
  <2>. QED BY <2>1, <2>3
<1>3. Nat \subseteq T
  <2>. HIDE DEF T
  <2>. QED BY <1>1, <1>2, SetInduction
<1>. QED BY <1>3

-----------------------------------------------------------------------------
\* The mean of numbers, none of them a fraction.

LEMMA Squares == \A x, y \in Int : (y - x) * (y - x) \in Nat
<1>. TAKE x, y \in Int
<1>. DEFINE z == y - x
<1>1. z \in Int
  OBVIOUS
<1>2. \A v \in Int : v >= 0 => v * v \in Nat
  OBVIOUS
<1>3. \A v \in Int : v < 0 => (-v) * (-v) \in Nat /\ (-v) * (-v) = v * v
  OBVIOUS
<1>. QED BY <1>1, <1>2, <1>3

(***************************************************************************)
(* Bernoulli's inequality, without fractions.                              *)
(***************************************************************************)
LEMMA Bernoulli ==
  ASSUME NEW X \in Nat, NEW Y \in Nat, NEW n \in Nat
  PROVE  Power(X, n) * ((n + 1) * Y - n * X) <= Power(Y, n + 1)
<1>. DEFINE P(k) == Power(X, k) * ((k + 1) * Y - k * X) <= Power(Y, k + 1)
            T == {k \in Nat : P(k)}
<1>1. 0 \in T
  <2>1. Power(X, 0) = 1 /\ Power(Y, 0 + 1) = Y * Power(Y, 0) /\ Power(Y, 0) = 1
    BY PowerUnfolds
  <2>2. (0 + 1) * Y - 0 * X = Y
    OBVIOUS
  <2>. QED BY <2>1, <2>2
<1>2. ASSUME NEW k \in Nat, k \in T PROVE k + 1 \in T
  <2>. DEFINE u == Power(X, k)
              d == (k + 1) * Y - k * X
              e == ((k + 1) + 1) * Y - (k + 1) * X
              s == (Y - X) * (Y - X)
  <2>1. u \in Nat /\ Power(X, k + 1) = X * u
    BY PowerUnfolds
  <2>2. Power(Y, (k + 1) + 1) = Y * Power(Y, k + 1) /\ Power(Y, k + 1) \in Nat
    BY PowerUnfolds
  <2>3. u * d <= Power(Y, k + 1)
    BY <1>2
  <2>4. d \in Int /\ e \in Int /\ s \in Nat
    BY Squares
  <2>5. Y * (u * d) <= Y * Power(Y, k + 1)
    <3>. HIDE DEF u, d
    <3>1. u * d \in Int
      BY <2>1, <2>4
    <3>2. PICK f \in Nat : Power(Y, k + 1) = u * d + f
      <4>1. Power(Y, k + 1) - u * d \in Nat
        BY <2>2, <2>3, <3>1
      <4>2. Power(Y, k + 1) = u * d + (Power(Y, k + 1) - u * d)
        BY <2>2, <3>1
      <4>. QED BY <4>1, <4>2
    <3>3. Y * (u * d + f) = Y * (u * d) + Y * f /\ Y * f \in Nat /\ Y * (u * d) \in Int
      BY <3>1
    <3>. QED BY <3>2, <3>3
  <2>6. Y * d = X * e + (k + 1) * s
    OBVIOUS
  <2>7. Y * (u * d) = (X * u) * e + u * ((k + 1) * s)
    <3>. HIDE DEF u, d, e, s
    <3>1. Y * (u * d) = u * (Y * d) /\ (X * u) * e = u * (X * e)
      BY <2>1, <2>4
    <3>2. u * (X * e + (k + 1) * s) = u * (X * e) + u * ((k + 1) * s)
      <4>1. X * e \in Int /\ (k + 1) * s \in Int
        BY <2>4
      <4>. QED BY <4>1, <2>1
    <3>. QED BY <2>6, <3>1, <3>2
  <2>8. u * ((k + 1) * s) \in Nat /\ (X * u) * e \in Int
    <3>. HIDE DEF u, d, e, s
    <3>1. (k + 1) * s \in Nat
      BY <2>4
    <3>. QED BY <2>1, <2>4, <3>1
  <2>9. (X * u) * e <= Y * Power(Y, k + 1)
    <3>. HIDE DEF u, d, e, s
    <3>1. Y * Power(Y, k + 1) \in Int
      BY <2>2
    <3>. QED BY <2>5, <2>7, <2>8, <3>1
  <2>. QED BY <2>1, <2>2, <2>9
<1>3. Nat \subseteq T
  <2>. HIDE DEF T
  <2>. QED BY <1>1, <1>2, SetInduction
<1>. QED BY <1>3

LEMMA Cancels ==
  ASSUME NEW c \in Nat \ {0}, NEW x \in Int, NEW y \in Int, c * x <= c * y
  PROVE  x <= y
<1>. SUFFICES ASSUME x > y PROVE FALSE
  OBVIOUS
<1>1. PICK d \in Nat : x = y + 1 + d
  <2>1. x - y - 1 \in Nat /\ x = y + 1 + (x - y - 1)
    OBVIOUS
  <2>. QED BY <2>1
<1>2. c * x = c * y + c + c * d /\ c * d \in Nat /\ c * y \in Int
  BY <1>1
<1>. QED BY <1>2

(***************************************************************************)
(* The mean of m numbers is no less than their geometric mean: one more.   *)
(***************************************************************************)
LEMMA MeanGrows ==
  ASSUME NEW m \in Nat, NEW S \in Nat, NEW a \in Nat \ {0}, NEW v \in Nat,
         Power(m, m) * v <= Power(S, m)
  PROVE  Power(m + 1, m + 1) * (v * a) <= Power(S + a, m + 1)
<1>. DEFINE A == Power(m, m)
            B == Power(S, m)
            C == Power(m + 1, m)
            D == Power(S + a, m + 1)
<1>1. A \in Nat /\ B \in Nat /\ C \in Nat /\ D \in Nat /\ Power(m + 1, m + 1) = (m + 1) * C
  <2>1. m + 1 \in Nat /\ S + a \in Nat
    OBVIOUS
  <2>. QED BY <2>1, PowerUnfolds
<1>2. CASE m = 0
  <2>1. A = 1 /\ B = 1 /\ C = 1
    BY <1>2, PowerUnfolds
  <2>2. D = (S + a) * Power(S + a, 0) /\ Power(S + a, 0) = 1
    <3>1. S + a \in Nat
      OBVIOUS
    <3>. QED BY <3>1, <1>2, PowerUnfolds
  <2>3. v * a <= a /\ v * a \in Nat
    <3>1. v = 0 \/ v = 1
      BY <2>1
    <3>. QED BY <3>1
  <2>4. Power(m + 1, m + 1) = 1 /\ D = S + a
    BY <1>1, <1>2, <2>1, <2>2
  <2>5. Power(m + 1, m + 1) * (v * a) = v * a
    BY <2>3, <2>4
  <2>. QED BY <2>3, <2>4, <2>5
<1>3. CASE m # 0
  <2>. DEFINE X == S * (m + 1)
              Y == (S + a) * m
              g == (m + 1) * a
  <2>1. /\ m + 1 \in Nat /\ S + a \in Nat /\ X \in Nat /\ Y \in Nat /\ g \in Nat
        /\ (m + 1) * Y - m * X = m * g
    OBVIOUS
  <2>2. Power(X, m) = B * C
    BY PowerOfProduct
  <2>3. Power(Y, m + 1) = D * (m * A)
    BY <2>1, PowerOfProduct, PowerUnfolds
  <2>4. Power(X, m) * (m * g) <= Power(Y, m + 1)
    <3>. HIDE DEF g
    <3>. QED BY <2>1, Bernoulli
  <2>. HIDE DEF A, B, C, D, X, Y, g
  <2>5. (B * C) * g <= D * A
    <3>1. (B * C) * (m * g) = m * ((B * C) * g) /\ D * (m * A) = m * (D * A)
      BY <1>1, <2>1
    <3>2. (B * C) * g \in Int /\ D * A \in Int
      BY <1>1, <2>1
    <3>. QED BY <1>3, <2>2, <2>3, <2>4, <3>1, <3>2, Cancels
  <2>6. (A * v) * (C * g) <= B * (C * g)
    <3>1. C * g \in Nat /\ A * v \in Nat /\ A * v <= B
      BY <1>1, <2>1 DEF A, B
    <3>. QED BY <3>1, <1>1, ProductsGrow
  <2>7. A * (((m + 1) * C) * (v * a)) <= A * D
    <3>1. A * (((m + 1) * C) * (v * a)) = (A * v) * (C * g)
      BY <1>1 DEF g
    <3>2. B * (C * g) = (B * C) * g /\ D * A = A * D
      BY <1>1, <2>1
    <3>3. (A * v) * (C * g) \in Int /\ (B * C) * g \in Int /\ A * D \in Int
      BY <1>1, <2>1
    <3>. QED BY <3>1, <3>2, <3>3, <2>5, <2>6
  <2>8. A \in Nat \ {0}
    BY <1>3, PowersPositive DEF A
  <2>9. ((m + 1) * C) * (v * a) <= D
    <3>1. ((m + 1) * C) * (v * a) \in Int
      BY <1>1
    <3>. QED BY <3>1, <2>7, <2>8, <1>1, Cancels
  <2>. QED BY <2>9, <1>1 DEF D
<1>. QED BY <1>2, <1>3

\* How many bits less than twice their number the codes of c take.
Logs(c) == [i \in DOMAIN c |-> FloorLog(c[i])]

LEMMA LogsBounded ==
  ASSUME NEW p \in Nat, NEW c \in [1 .. p -> Nat \ {0}]
  PROVE  /\ SumTo(c, p) \in Nat /\ SumTo(Logs(c), p) \in Nat
         /\ Power(p, p) * Pow2[SumTo(Logs(c), p)] <= Power(SumTo(c, p), p)
<1>. DEFINE S(n) == SumTo(c, n)
            E(n) == SumTo(Logs(c), n)
            T == {n \in Nat : n <= p => /\ S(n) \in Nat /\ E(n) \in Nat
                                        /\ Power(n, n) * Pow2[E(n)] <= Power(S(n), n)}
<1>1. 0 \in T
  <2>1. S(0) = 0 /\ E(0) = 0
    BY SumNone
  <2>2. Power(0, 0) = 1 /\ Pow2[0] = 1
    BY PowerUnfolds, Pow2Unfolds
  <2>. QED BY <2>1, <2>2
<1>2. ASSUME NEW n \in Nat, n \in T PROVE n + 1 \in T
  <2>. SUFFICES ASSUME n + 1 <= p
                PROVE  /\ S(n + 1) \in Nat /\ E(n + 1) \in Nat
                       /\ Power(n + 1, n + 1) * Pow2[E(n + 1)] <= Power(S(n + 1), n + 1)
    OBVIOUS
  <2>. DEFINE a == c[n + 1]
              l == FloorLog(a)
  <2>1. n + 1 \in 1 .. p /\ a \in Nat \ {0}
    OBVIOUS
  <2>2. l \in Nat /\ Pow2[l] <= a /\ Pow2[l] \in Nat
    BY <2>1, FloorLogRight, Pow2Unfolds
  <2>3. S(n + 1) = S(n) + a
    <3>1. \A i \in 1 .. n + 1 : c[i] \in Int
      OBVIOUS
    <3>. QED BY <3>1, SumOneMore
  <2>4. E(n + 1) = E(n) + l
    <3>1. ASSUME NEW i \in 1 .. n + 1 PROVE Logs(c)[i] \in Int
      <4>1. i \in DOMAIN c /\ c[i] \in Nat \ {0}
        OBVIOUS
      <4>. QED BY <4>1, FloorLogRight DEF Logs
    <3>2. Logs(c)[n + 1] = l
      BY <2>1 DEF Logs
    <3>. QED BY <3>1, <3>2, SumOneMore
  <2>5. S(n) \in Nat /\ E(n) \in Nat /\ Power(n, n) * Pow2[E(n)] <= Power(S(n), n)
    BY <1>2
  <2>. HIDE DEF S, E, a, l, T
  <2>6. Pow2[E(n)] \in Nat /\ Pow2[E(n) + l] = Pow2[E(n)] * Pow2[l]
    BY <2>2, <2>5, Pow2Unfolds, Pow2OfSum
  <2>7. Power(n + 1, n + 1) * (Pow2[E(n)] * a) <= Power(S(n) + a, n + 1)
    BY <2>1, <2>5, <2>6, MeanGrows
  <2>. DEFINE P == Power(n + 1, n + 1)
              u == Pow2[E(n)]
              v == Pow2[l]
  <2>8. P \in Nat /\ u * v \in Nat /\ u * a \in Nat /\ u * v <= u * a
    <3>1. n + 1 \in Nat
      OBVIOUS
    <3>2. P \in Nat
      BY <3>1, PowerUnfolds
    <3>. HIDE DEF u, v, P
    <3>3. u \in Nat /\ v \in Nat /\ a \in Nat /\ v <= a
      BY <2>1, <2>2, <2>6 DEF u, v
    <3>4. u * v <= u * a
      BY <3>3, ProductsGrow
    <3>. QED BY <3>2, <3>3, <3>4
  <2>9. P * (u * v) <= Power(S(n) + a, n + 1)
    <3>1. S(n) + a \in Nat /\ n + 1 \in Nat
      BY <2>1, <2>5
    <3>2. Power(S(n) + a, n + 1) \in Nat
      BY <3>1, PowerUnfolds
    <3>. DEFINE x == u * v
                y == u * a
    <3>3. P * y <= Power(S(n) + a, n + 1)
      BY <2>7
    <3>. HIDE DEF P, x, y
    <3>4. P \in Nat /\ x \in Nat /\ y \in Nat /\ x <= y
      BY <2>8 DEF x, y
    <3>5. P * x <= P * y /\ P * x \in Nat /\ P * y \in Nat
      BY <3>4, ProductsGrow
    <3>6. P * x <= Power(S(n) + a, n + 1)
      BY <3>2, <3>3, <3>5
    <3>. QED BY <3>6 DEF x
  <2>10. S(n + 1) \in Nat /\ E(n + 1) \in Nat
    BY <2>1, <2>2, <2>3, <2>4, <2>5
  <2>11. Power(n + 1, n + 1) * Pow2[E(n + 1)] <= Power(S(n + 1), n + 1)
    BY <2>3, <2>4, <2>6, <2>9
  <2>. QED BY <2>10, <2>11
<1>3. Nat \subseteq T
  <2>. HIDE DEF T
  <2>. QED BY <1>1, <1>2, SetInduction
<1>. QED BY <1>3

\* The bits of the gamma code of each of c.
Gammas(c) == [i \in DOMAIN c |-> GammaLength(c[i])]

LEMMA GammasAreLogs ==
  ASSUME NEW p \in Nat, NEW c \in [1 .. p -> Nat \ {0}]
  PROVE  SumTo(Gammas(c), p) = 2 * SumTo(Logs(c), p) + p
<1>. DEFINE T == {n \in Nat : n <= p => SumTo(Gammas(c), n) = 2 * SumTo(Logs(c), n) + n}
<1>1. 0 \in T
  BY SumNone
<1>2. ASSUME NEW n \in Nat, n \in T PROVE n + 1 \in T
  <2>. SUFFICES ASSUME n + 1 <= p
                PROVE  SumTo(Gammas(c), n + 1) = 2 * SumTo(Logs(c), n + 1) + (n + 1)
    OBVIOUS
  <2>1. \A i \in 1 .. p : /\ c[i] \in Nat \ {0} /\ Logs(c)[i] = FloorLog(c[i])
                          /\ Gammas(c)[i] = 2 * FloorLog(c[i]) + 1
    BY DEF Logs, Gammas, GammaLength
  <2>2. \A i \in 1 .. p : Logs(c)[i] \in Int /\ Gammas(c)[i] = 2 * Logs(c)[i] + 1
    <3>1. \A i \in 1 .. p : FloorLog(c[i]) \in Int
      BY <2>1, FloorLogRight
    <3>. QED BY <2>1, <3>1
  <2>3. \A i \in 1 .. n + 1 : Logs(c)[i] \in Int /\ Gammas(c)[i] \in Int
    BY <2>2
  <2>4. /\ SumTo(Gammas(c), n + 1) = SumTo(Gammas(c), n) + Gammas(c)[n + 1]
        /\ SumTo(Logs(c), n + 1) = SumTo(Logs(c), n) + Logs(c)[n + 1]
    BY <2>3, SumOneMore
  <2>5. SumTo(Logs(c), n) \in Int
    <3>1. \A i \in 1 .. n : Logs(c)[i] \in Int
      BY <2>2
    <3>. QED BY <3>1, SumType
  <2>6. n + 1 \in 1 .. p
    OBVIOUS
  <2>. QED BY <1>2, <2>2, <2>4, <2>5, <2>6, SMTT(30)
<1>3. Nat \subseteq T
  <2>. HIDE DEF T
  <2>. QED BY <1>1, <1>2, SetInduction
<1>. QED BY <1>3

LEMMA PowersBelowPow2 ==
  ASSUME NEW w \in Nat, NEW n \in Nat
  PROVE  w * n \in Nat /\ Power(w, n) <= Pow2[w * n]
<1>. DEFINE T == {k \in Nat : Power(w, k) <= Pow2[w * k]}
<1>1. 0 \in T
  BY PowerUnfolds, Pow2Unfolds
<1>2. ASSUME NEW k \in Nat, k \in T PROVE k + 1 \in T
  <2>1. w * k \in Nat /\ w * (k + 1) = w + w * k
    OBVIOUS
  <2>2. Pow2[w + w * k] = Pow2[w] * Pow2[w * k] /\ Power(w, k + 1) = w * Power(w, k)
    BY <2>1, Pow2OfSum, PowerUnfolds
  <2>3. /\ Power(w, k) \in Nat /\ Pow2[w * k] \in Nat /\ Pow2[w] \in Nat
        /\ Power(w, k) <= Pow2[w * k] /\ w <= Pow2[w]
    BY <1>2, <2>1, Pow2Unfolds, Pow2Grows, PowerUnfolds
  <2>4. w * Power(w, k) <= Pow2[w] * Pow2[w * k]
    BY <2>3, ProductsGrow
  <2>. QED BY <2>1, <2>2, <2>4
<1>3. Nat \subseteq T
  <2>. HIDE DEF T
  <2>. QED BY <1>1, <1>2, SetInduction
<1>4. w * n \in Nat
  OBVIOUS
<1>. QED BY <1>3, <1>4

LEMMA OnesAdded ==
  ASSUME NEW k \in Nat, NEW S \in Nat, NEW v \in Nat, Power(k, k) * v <= Power(S, k),
         NEW n \in Nat
  PROVE  Power(k + n, k + n) * v <= Power(S + n, k + n)
<1>. DEFINE T == {j \in Nat : Power(k + j, k + j) * v <= Power(S + j, k + j)}
<1>1. 0 \in T
  OBVIOUS
<1>2. ASSUME NEW j \in Nat, j \in T PROVE j + 1 \in T
  <2>1. k + j \in Nat /\ S + j \in Nat /\ (k + j) + 1 = k + (j + 1)
        /\ (S + j) + 1 = S + (j + 1) /\ 1 \in Nat \ {0}
    OBVIOUS
  <2>2. Power((k + j) + 1, (k + j) + 1) * (v * 1) <= Power((S + j) + 1, (k + j) + 1)
    BY <1>2, <2>1, MeanGrows
  <2>3. v * 1 = v
    OBVIOUS
  <2>. QED BY <2>1, <2>2, <2>3
<1>3. Nat \subseteq T
  <2>. HIDE DEF T
  <2>. QED BY <1>1, <1>2, SetInduction
<1>. QED BY <1>3

(***************************************************************************)
(* BIO_Gamma_Bound: k counts and p - k more that are at least 1 each, with *)
(* a sum of at most w, fit what is reserved for p counts with sum w.       *)
(***************************************************************************)
LEMMA GammaBoundHolds ==
  ASSUME NEW p \in Nat \ {0}, NEW w \in Nat, p <= w, NEW k \in 0 .. p,
         NEW c \in [1 .. k -> Nat \ {0}], SumTo(c, k) + (p - k) <= w
  PROVE  GammaBound(w, p) \in Int /\ SumTo(Gammas(c), k) <= GammaBound(w, p)
<1>. DEFINE S == SumTo(c, k)
            E == SumTo(Logs(c), k)
            v == Pow2[E]
            most == Power(w, 2 * p)
            least == Power(p, 2 * p)
            Right(n) == Pow2[n] * least <= most /\ most < Pow2[n + 1] * least
<1>1. S \in Nat /\ E \in Nat /\ Power(k, k) * v <= Power(S, k)
  BY LogsBounded
<1>2. SumTo(Gammas(c), k) = 2 * E + k
  BY GammasAreLogs
<1>3. v \in Nat /\ 2 * E \in Nat /\ Pow2[2 * E] = v * v
  <2>. HIDE DEF E
  <2>1. 2 * E = E + E
    BY <1>1
  <2>. QED BY <1>1, <2>1, Pow2Unfolds, Pow2OfSum
<1>. HIDE DEF S, E, v
<1>4. Power(p, p) * v <= Power(w, p)
  <2>1. p - k \in Nat /\ k + (p - k) = p /\ S + (p - k) \in Nat /\ S + (p - k) <= w
    BY <1>1 DEF S
  <2>2. Power(p, p) * v <= Power(S + (p - k), p)
    <3>1. k \in Nat /\ p - k \in Nat
      BY <2>1
    <3>2. Power(k + (p - k), k + (p - k)) * v <= Power(S + (p - k), k + (p - k))
      BY <1>1, <1>3, <3>1, OnesAdded
    <3>. QED BY <2>1, <3>2
  <2>3. Power(S + (p - k), p) <= Power(w, p)
    BY <2>1, PowersGrow
  <2>4. Power(p, p) * v \in Int /\ Power(S + (p - k), p) \in Int /\ Power(w, p) \in Int
    <3>1. Power(p, p) \in Nat /\ Power(S + (p - k), p) \in Nat /\ Power(w, p) \in Nat
      BY <2>1, PowerUnfolds
    <3>. QED BY <3>1, <1>3
  <2>. QED BY <2>2, <2>3, <2>4
<1>5. most \in Nat /\ least \in Nat \ {0} /\ Pow2[2 * E] * least <= most
  <2>1. 2 * p = p + p /\ 2 * p \in Nat
    OBVIOUS
  <2>2. most = Power(w, p) * Power(w, p) /\ least = Power(p, p) * Power(p, p)
    <3>1. Power(w, p + p) = Power(w, p) * Power(w, p) /\ Power(p, p + p) = Power(p, p) * Power(p, p)
      BY PowerOfSum
    <3>. QED BY <2>1, <3>1
  <2>. DEFINE a == Power(p, p)
              b == Power(w, p)
  <2>3. a \in Nat /\ b \in Nat /\ most \in Nat /\ least \in Nat \ {0}
    BY <2>1, PowerUnfolds, PowersPositive
  <2>4. (v * v) * (a * a) = (a * v) * (a * v)
    <3>. HIDE DEF a
    <3>. QED BY <1>3, <2>3
  <2>5. (a * v) * (a * v) <= b * b
    <3>. HIDE DEF a, b
    <3>1. a * v \in Nat /\ a * v <= b
      BY <1>3, <1>4, <2>3 DEF a, b
    <3>. QED BY <3>1, <2>3, ProductsGrow
  <2>. QED BY <1>3, <2>2, <2>3, <2>4, <2>5
<1>6. \E n \in 0 .. 2 * w * p : Right(n)
  <2>. DEFINE T == {n \in Nat : most < Pow2[n + 1] * least}
              m == 2 * w * p
  <2>1. m \in Nat /\ m = w * (2 * p)
    OBVIOUS
  <2>2. most <= Pow2[m] /\ Pow2[m] \in Nat \ {0} /\ Pow2[m + 1] = 2 * Pow2[m]
    <3>1. 2 * p \in Nat
      OBVIOUS
    <3>2. most <= Pow2[w * (2 * p)]
      BY <3>1, PowersBelowPow2
    <3>. QED BY <3>2, <2>1, Pow2Unfolds
  <2>3. m \in T
    <3>. HIDE DEF most, least, m
    <3>1. PICK l \in Nat : least = 1 + l
      <4>1. least - 1 \in Nat /\ least = 1 + (least - 1)
        BY <1>5
      <4>. QED BY <4>1
    <3>2. Pow2[m + 1] * least = 2 * Pow2[m] + (2 * Pow2[m]) * l /\ (2 * Pow2[m]) * l \in Nat
      <4>. DEFINE x == Pow2[m]
      <4>1. x \in Nat /\ Pow2[m + 1] = 2 * x
        BY <2>2
      <4>. HIDE DEF x
      <4>2. (2 * x) * (1 + l) = 2 * x + (2 * x) * l /\ (2 * x) * l \in Nat
        BY <4>1
      <4>. QED BY <3>1, <4>1, <4>2 DEF x
    <3>3. most < 2 * Pow2[m] + (2 * Pow2[m]) * l
      <4>. DEFINE x == Pow2[m]
                  y == (2 * x) * l
      <4>1. x \in Nat \ {0} /\ most <= x /\ y \in Nat
        BY <2>2, <3>2
      <4>. HIDE DEF x, y
      <4>2. most < 2 * x + y
        BY <4>1, <1>5
      <4>. QED BY <4>2 DEF x, y
    <3>. QED BY <2>1, <3>2, <3>3
  <2>4. PICK n \in T : \A j \in T : n <= j
    <3>1. T \in SUBSET Nat /\ T # {}
      BY <2>3
    <3>. HIDE DEF T
    <3>. QED BY <3>1, LeastNatural
  <2>5. n \in 0 .. m
    <3>. HIDE DEF m, most, least
    <3>. QED BY <2>1, <2>3, <2>4
  <2>6. Pow2[n] * least <= most
    <3>1. CASE n = 0
      <4>1. 2 * p \in Nat
        OBVIOUS
      <4>2. least <= most
        BY <4>1, PowersGrow
      <4>3. Pow2[0] * least = least
        BY <1>5, Pow2Unfolds
      <4>. QED BY <3>1, <4>2, <4>3
    <3>2. CASE n # 0
      <4>1. n - 1 \in Nat /\ (n - 1) + 1 = n /\ ~(n - 1 \in T)
        <5>1. n \in Nat
          BY <2>4
        <5>2. n - 1 \in Nat /\ (n - 1) + 1 = n /\ ~(n <= n - 1)
          BY <3>2, <5>1
        <5>. HIDE DEF T
        <5>. QED BY <2>4, <5>2
      <4>2. ~(most < Pow2[n] * least)
        <5>. HIDE DEF most, least
        <5>. QED BY <4>1
      <4>3. Pow2[n] * least \in Int /\ most \in Int
        <5>1. Pow2[n] \in Nat /\ least \in Nat
          BY <1>5, Pow2Unfolds
        <5>. QED BY <5>1, <1>5
      <4>. QED BY <4>2, <4>3
    <3>. QED BY <3>1, <3>2
  <2>7. Right(n)
    BY <2>4, <2>6
  <2>. QED BY <2>5, <2>7
<1>7. PICK n \in 0 .. 2 * w * p : Right(n) /\ GammaBound(w, p) = p + n
  <2>. DEFINE n == CHOOSE j \in 0 .. 2 * w * p : Right(j)
  <2>1. GammaBound(w, p) = p + n
    BY DEF GammaBound
  <2>2. n \in 0 .. 2 * w * p /\ Right(n)
    <3>. HIDE DEF Right
    <3>. QED BY <1>6
  <2>. QED BY <2>1, <2>2
<1>8. 2 * E <= n
  <2>. SUFFICES ASSUME n < 2 * E PROVE FALSE
    BY <1>3, <1>7
  <2>1. n + 1 \in Nat /\ n + 1 <= 2 * E
    BY <1>3, <1>7
  <2>2. Pow2[n + 1] <= Pow2[2 * E] /\ Pow2[n + 1] \in Nat /\ Pow2[2 * E] \in Nat
    BY <1>3, <2>1, Pow2Grows, Pow2Unfolds
  <2>. HIDE DEF most, least
  <2>3. Pow2[n + 1] * least <= Pow2[2 * E] * least
    BY <2>2, <1>5, ProductsGrow
  <2>4. Pow2[n + 1] * least \in Int /\ Pow2[2 * E] * least \in Int
    BY <2>2, <1>5, SMTT(30)
  <2>. QED BY <1>5, <1>7, <2>3, <2>4
<1>. QED BY <1>1, <1>2, <1>3, <1>7, <1>8

-----------------------------------------------------------------------------
\* Documents and occurrences of a word in a part of the text.

DocsWith(w, t, n) == SumTo([d \in DOMAIN t |-> IF w \in InDoc(t[d]) THEN 1 ELSE 0], n)
OccsOf(w, t, n) == SumTo([d \in DOMAIN t |-> Occurrences(w, t[d])], n)

\* The same in the documents from a + 1 to b.
DocsIn(w, t, a, b) == DocsWith(w, t, b) - DocsWith(w, t, a)
OccsIn(w, t, a, b) == OccsOf(w, t, b) - OccsOf(w, t, a)

LEMMA OccurrencesRight ==
  ASSUME NEW w, NEW doc \in Documents
  PROVE  Occurrences(w, doc) \in Nat /\ (Occurrences(w, doc) = 0 <=> w \notin InDoc(doc))
<1>. DEFINE S == {i \in DOMAIN doc : doc[i] = w}
<1>1. DOMAIN doc = 1 .. Len(doc) /\ Len(doc) \in Nat
  BY Pass1Constants
<1>2. IsFiniteSet(S)
  <2>1. IsFiniteSet(1 .. Len(doc))
    BY <1>1, FS_Interval
  <2>2. S \subseteq 1 .. Len(doc)
    BY <1>1
  <2>. QED BY <2>1, <2>2, FS_Subset
<1>3. Cardinality(S) \in Nat /\ (Cardinality(S) = 0 <=> S = {})
  BY <1>2, FS_CardinalityType, FS_EmptySet
<1>4. S = {} <=> w \notin InDoc(doc)
  BY DEF InDoc, Range
<1>. QED BY <1>3, <1>4 DEF Occurrences

LEMMA CountsRight ==
  ASSUME NEW w, NEW t \in Seq(Documents)
  PROVE  /\ DocsWith(w, t, 0) = 0 /\ OccsOf(w, t, 0) = 0
         /\ \A n \in 0 .. Len(t) : DocsWith(w, t, n) \in Nat /\ OccsOf(w, t, n) \in Nat
         /\ \A n \in 0 .. Len(t) : n < Len(t) =>
              /\ DocsWith(w, t, n + 1) =
                   DocsWith(w, t, n) + (IF w \in InDoc(t[n + 1]) THEN 1 ELSE 0)
              /\ OccsOf(w, t, n + 1) = OccsOf(w, t, n) + Occurrences(w, t[n + 1])
<1>. DEFINE one == [d \in DOMAIN t |-> IF w \in InDoc(t[d]) THEN 1 ELSE 0]
            all == [d \in DOMAIN t |-> Occurrences(w, t[d])]
<1>1. Len(t) \in Nat /\ DOMAIN t = 1 .. Len(t) /\ \A d \in 1 .. Len(t) : t[d] \in Documents
  OBVIOUS
<1>2. \A d \in 1 .. Len(t) : one[d] \in Nat /\ all[d] \in Nat
  BY <1>1, OccurrencesRight
<1>3. \A n \in Nat : DocsWith(w, t, n) = SumTo(one, n) /\ OccsOf(w, t, n) = SumTo(all, n)
  BY DEF DocsWith, OccsOf
<1>4. ASSUME NEW n \in 0 .. Len(t), n < Len(t)
      PROVE  /\ DocsWith(w, t, n + 1) =
                  DocsWith(w, t, n) + (IF w \in InDoc(t[n + 1]) THEN 1 ELSE 0)
             /\ OccsOf(w, t, n + 1) = OccsOf(w, t, n) + Occurrences(w, t[n + 1])
  <2>1. n \in Nat /\ n + 1 \in Nat /\ n + 1 \in 1 .. Len(t)
    BY <1>1, <1>4
  <2>2. one[n + 1] = (IF w \in InDoc(t[n + 1]) THEN 1 ELSE 0)
        /\ all[n + 1] = Occurrences(w, t[n + 1])
    BY <1>1, <2>1
  <2>3. \A i \in 1 .. n + 1 : one[i] \in Int /\ all[i] \in Int
    BY <1>1, <1>2, <2>1
  <2>. HIDE DEF one, all
  <2>4. SumTo(one, n + 1) = SumTo(one, n) + one[n + 1] /\ SumTo(all, n + 1) = SumTo(all, n) + all[n + 1]
    BY <2>1, <2>3, SumOneMore
  <2>. QED BY <1>3, <2>1, <2>2, <2>4
<1>5. ASSUME NEW n \in 0 .. Len(t) PROVE SumTo(one, n) \in Nat /\ SumTo(all, n) \in Nat
  <2>. HIDE DEF one, all
  <2>. QED BY <1>1, <1>2, SumsGrow
<1>6. SumTo(one, 0) = 0 /\ SumTo(all, 0) = 0
  BY SumNone
<1>7. \A n \in 0 .. Len(t) : DocsWith(w, t, n) \in Nat /\ OccsOf(w, t, n) \in Nat
  <2>. HIDE DEF one, all
  <2>. QED BY <1>3, <1>5
<1>8. DocsWith(w, t, 0) = 0 /\ OccsOf(w, t, 0) = 0
  BY <1>3, <1>6
<1>. HIDE DEF one, all
<1>. QED BY <1>4, <1>7, <1>8

LEMMA CountsKept ==
  ASSUME NEW w, NEW t \in Seq(Documents), NEW doc \in Documents, NEW n \in 0 .. Len(t)
  PROVE  /\ DocsWith(w, Append(t, doc), n) = DocsWith(w, t, n)
         /\ OccsOf(w, Append(t, doc), n) = OccsOf(w, t, n)
<1>. DEFINE u == Append(t, doc)
            one(s) == [d \in DOMAIN s |-> IF w \in InDoc(s[d]) THEN 1 ELSE 0]
            all(s) == [d \in DOMAIN s |-> Occurrences(w, s[d])]
<1>1. \A d \in 1 .. n : d \in DOMAIN t /\ d \in DOMAIN u /\ t[d] = u[d] /\ t[d] \in Documents
  OBVIOUS
<1>2. \A d \in 1 .. n : one(t)[d] = one(u)[d] /\ all(t)[d] = all(u)[d]
                        /\ one(t)[d] \in Int /\ all(t)[d] \in Int
  <2>. HIDE DEF u
  <2>. QED BY <1>1, OccurrencesRight
<1>. HIDE DEF u
<1>3. n \in Nat
  OBVIOUS
<1>4. SumTo(one(t), n) = SumTo(one(u), n) /\ SumTo(all(t), n) = SumTo(all(u), n)
  <2>. HIDE DEF one, all
  <2>. QED BY <1>2, <1>3, SumAlike
<1>. QED BY <1>4 DEF DocsWith, OccsOf, u

(***************************************************************************)
(* A word is in no more documents than there are, and occurs at least once *)
(* in each it is in.                                                       *)
(***************************************************************************)
LEMMA CountsGrow ==
  ASSUME NEW w, NEW t \in Seq(Documents), NEW a \in 0 .. Len(t), NEW b \in a .. Len(t)
  PROVE  /\ DocsIn(w, t, a, b) \in 0 .. b - a
         /\ OccsIn(w, t, a, b) \in Nat
         /\ DocsIn(w, t, a, b) <= OccsIn(w, t, a, b)
         /\ DocsIn(w, t, a, b) = 0 => OccsIn(w, t, a, b) = 0
<1>. DEFINE D(n) == DocsIn(w, t, a, n)
            O(n) == OccsIn(w, t, a, n)
            P(n) == D(n) \in 0 .. n - a /\ O(n) \in Nat /\ D(n) <= O(n) /\ (D(n) = 0 => O(n) = 0)
            T == {j \in Nat : a + j <= Len(t) => P(a + j)}
<1>1. 0 \in T
  <2>1. DocsWith(w, t, a) \in Nat /\ OccsOf(w, t, a) \in Nat
    BY CountsRight
  <2>. QED BY <2>1 DEF DocsIn, OccsIn
<1>2. ASSUME NEW j \in Nat, j \in T PROVE j + 1 \in T
  <2>. SUFFICES ASSUME a + (j + 1) <= Len(t) PROVE P(a + (j + 1))
    OBVIOUS
  <2>. DEFINE n == a + j
  <2>1. n \in 0 .. Len(t) /\ n < Len(t) /\ n + 1 = a + (j + 1) /\ n + 1 \in 0 .. Len(t)
        /\ n + 1 \in DOMAIN t /\ P(n)
    BY <1>2
  <2>. HIDE DEF n
  <2>. DEFINE x == IF w \in InDoc(t[n + 1]) THEN 1 ELSE 0
              y == Occurrences(w, t[n + 1])
  <2>2. /\ DocsWith(w, t, n + 1) = DocsWith(w, t, n) + x
        /\ OccsOf(w, t, n + 1) = OccsOf(w, t, n) + y
    BY <2>1, CountsRight
  <2>3. y \in Nat /\ x \in {0, 1} /\ (y = 0 <=> x = 0)
    <3>1. t[n + 1] \in Documents
      BY <2>1
    <3>. QED BY <3>1, OccurrencesRight
  <2>4. /\ DocsWith(w, t, n) \in Nat /\ OccsOf(w, t, n) \in Nat
        /\ DocsWith(w, t, a) \in Nat /\ OccsOf(w, t, a) \in Nat
    BY <2>1, CountsRight
  <2>. HIDE DEF x, y
  <2>5. D(n + 1) = D(n) + x /\ O(n + 1) = O(n) + y
    BY <2>2, <2>3, <2>4 DEF DocsIn, OccsIn
  <2>6. P(n + 1)
    <3>. HIDE DEF D, O
    <3>. QED BY <2>1, <2>3, <2>5, SMTT(30)
  <2>. QED BY <2>1, <2>6
<1>3. Nat \subseteq T
  <2>. HIDE DEF T
  <2>. QED BY <1>1, <1>2, SetInduction
<1>4. b - a \in Nat /\ a + (b - a) = b /\ b <= Len(t)
  OBVIOUS
<1>5. P(b)
  BY <1>3, <1>4
<1>. QED BY <1>5

-----------------------------------------------------------------------------
\* The words in the order they occurred.

LEMMA RangeOfAppend ==
  ASSUME NEW S, NEW s \in Seq(S), NEW e
  PROVE  Range(Append(s, e)) = Range(s) \cup {e}
<1>. DEFINE u == Append(s, e)
<1>1. Len(s) \in Nat /\ DOMAIN s = 1 .. Len(s)
  OBVIOUS
<1>2. DOMAIN u = 1 .. Len(s) + 1 /\ u[Len(s) + 1] = e /\ \A i \in 1 .. Len(s) : u[i] = s[i]
  OBVIOUS
<1>. HIDE DEF u
<1>3. 1 .. Len(s) + 1 = (1 .. Len(s)) \cup {Len(s) + 1}
  BY <1>1
<1>4. \A x : x \in Range(u) <=> x \in Range(s) \/ x = e
  BY <1>1, <1>2, <1>3 DEF Range
<1>. QED BY <1>4 DEF u

LEMMA RangeOfConcat ==
  ASSUME NEW S, NEW s \in Seq(S), NEW t \in Seq(S)
  PROVE  Range(s \o t) = Range(s) \cup Range(t)
<1>. DEFINE u == s \o t
<1>1. Len(s) \in Nat /\ Len(t) \in Nat /\ DOMAIN s = 1 .. Len(s) /\ DOMAIN t = 1 .. Len(t)
  OBVIOUS
<1>2. /\ DOMAIN u = 1 .. Len(s) + Len(t)
      /\ \A i \in 1 .. Len(s) : u[i] = s[i]
      /\ \A i \in 1 .. Len(t) : u[Len(s) + i] = t[i]
  OBVIOUS
<1>. HIDE DEF u
<1>3. ASSUME NEW i \in DOMAIN u PROVE u[i] \in Range(s) \cup Range(t)
  <2>1. CASE i <= Len(s)
    BY <1>1, <1>2, <2>1 DEF Range
  <2>2. CASE i > Len(s)
    <3>1. i - Len(s) \in 1 .. Len(t) /\ Len(s) + (i - Len(s)) = i
      BY <1>1, <1>2, <2>2
    <3>2. u[i] = t[i - Len(s)]
      BY <1>2, <3>1
    <3>. QED BY <1>1, <3>1, <3>2 DEF Range
  <2>. QED BY <1>1, <1>2, <2>1, <2>2
<1>4. ASSUME NEW i \in DOMAIN s PROVE s[i] \in Range(u)
  <2>1. i \in DOMAIN u /\ u[i] = s[i]
    BY <1>1, <1>2
  <2>. QED BY <2>1 DEF Range
<1>5. ASSUME NEW i \in DOMAIN t PROVE t[i] \in Range(u)
  <2>1. Len(s) + i \in DOMAIN u /\ u[Len(s) + i] = t[i]
    BY <1>1, <1>2
  <2>. QED BY <2>1 DEF Range
<1>6. \A x \in Range(u) : x \in Range(s) \cup Range(t)
  BY <1>3 DEF Range
<1>7. \A x \in Range(s) \cup Range(t) : x \in Range(u)
  BY <1>4, <1>5 DEF Range
<1>. QED BY <1>6, <1>7 DEF u

LEMMA NewWordsRight ==
  ASSUME first_occr \in Seq(Words), NEW doc \in Documents
  PROVE  NewWords(doc) \in Seq(Words) /\ Known \cup Range(NewWords(doc)) = Known \cup InDoc(doc)
<1>. DEFINE n == Len(doc)
            Grown(s, x) == IF x \in Known \cup Range(s) THEN s ELSE Append(s, x)
            Q(g) == g = [i \in 0 .. n |->
                           IF i = 0 THEN <<>>
                           ELSE IF doc[i] \in Known \cup Range(g[i - 1]) THEN g[i - 1]
                           ELSE Append(g[i - 1], doc[i])]
            D == [a \in Seq(Words) \X (1 .. n) |-> Grown(a[1], doc[a[2]])]
            p == CHOOSE h : Q(h)
<1>1. n \in Nat /\ DOMAIN doc = 1 .. n /\ \A i \in 1 .. n : doc[i] \in Words
  BY Pass1Constants
<1>. HIDE DEF n
<1>2. \A s \in Seq(Words), x \in Words : Grown(s, x) \in Seq(Words)
  <2>1. \A s \in Seq(Words), x \in Words : Append(s, x) \in Seq(Words)
    OBVIOUS
  <2>. QED BY <2>1
<1>3. D \in [Seq(Words) \X (1 .. n) -> Seq(Words)]
  <2>1. \A a \in Seq(Words) \X (1 .. n) : a[1] \in Seq(Words) /\ doc[a[2]] \in Words
    BY <1>1
  <2>. HIDE DEF Grown
  <2>. QED BY <1>2, <2>1
<1>4. PICK g \in [0 .. n -> Seq(Words)] : RecursUpTo(g, n, <<>>, D)
  <2>1. <<>> \in Seq(Words)
    OBVIOUS
  <2>. HIDE DEF D
  <2>. QED BY <1>1, <1>3, <2>1, RecursionUpTo, Zenon
<1>5. Q(g)
  <2>1. ASSUME NEW i \in 0 .. n, i # 0 PROVE g[i] = Grown(g[i - 1], doc[i])
    <3>1. i - 1 \in 0 .. n /\ i \in 1 .. n
      BY <1>1, <2>1
    <3>2. <<g[i - 1], i>> \in Seq(Words) \X (1 .. n)
      BY <3>1
    <3>3. D[<<g[i - 1], i>>] = Grown(g[i - 1], doc[i])
      <4>. HIDE DEF Grown
      <4>. QED BY <3>2
    <3>4. g[i] = D[<<g[i - 1], i>>]
      <4>. HIDE DEF D, Grown
      <4>. QED BY <1>4, <2>1 DEF RecursUpTo
    <3>. QED BY <3>3, <3>4
  <2>2. g = [i \in 0 .. n |-> IF i = 0 THEN <<>> ELSE Grown(g[i - 1], doc[i])]
    <3>1. \A i \in 0 .. n : g[i] = IF i = 0 THEN <<>> ELSE Grown(g[i - 1], doc[i])
      <4>1. 0 \in 0 .. n => g[0] = <<>>
        <5>. HIDE DEF D, Grown
        <5>. QED BY <1>4 DEF RecursUpTo
      <4>. HIDE DEF Grown
      <4>. QED BY <2>1, <4>1
    <3>. HIDE DEF Grown
    <3>. QED BY <3>1
  <2>. QED BY <2>2
<1>6. Q(p)
  <2>. HIDE DEF Q
  <2>. QED BY <1>5
<1>7. NewWords(doc) = p[n]
  BY DEF NewWords, n
<1>. HIDE DEF p
<1>8. p[0] = <<>> /\ \A i \in 1 .. n : p[i] = Grown(p[i - 1], doc[i])
  <2>1. \A i \in 0 .. n : p[i] = IF i = 0 THEN <<>> ELSE Grown(p[i - 1], doc[i])
    BY <1>6, Zenon
  <2>. HIDE DEF Grown
  <2>. QED BY <1>1, <2>1
<1>. HIDE DEF Grown
<1>. DEFINE Read(i) == {doc[j] : j \in 1 .. i}
            T == {i \in Nat : i <= n => p[i] \in Seq(Words) /\ Known \cup Range(p[i]) = Known \cup Read(i)}
<1>9. 0 \in T
  <2>1. Range(<<>>) = {} /\ Read(0) = {} /\ <<>> \in Seq(Words)
    BY DEF Range
  <2>. QED BY <1>8, <2>1
<1>10. ASSUME NEW i \in Nat, i \in T PROVE i + 1 \in T
  <2>. SUFFICES ASSUME i + 1 <= n
                PROVE  /\ p[i + 1] \in Seq(Words)
                       /\ Known \cup Range(p[i + 1]) = Known \cup Read(i + 1)
    OBVIOUS
  <2>. DEFINE x == doc[i + 1]
  <2>1. i + 1 \in 1 .. n /\ (i + 1) - 1 = i /\ i <= n
    BY <1>1
  <2>2. p[i + 1] = Grown(p[i], x) /\ x \in Words
    BY <1>1, <1>8, <2>1
  <2>3. p[i] \in Seq(Words) /\ Known \cup Range(p[i]) = Known \cup Read(i)
    BY <1>10, <2>1
  <2>4. Read(i + 1) = Read(i) \cup {x}
    <3>1. 1 .. i + 1 = (1 .. i) \cup {i + 1}
      OBVIOUS
    <3>. QED BY <3>1
  <2>5. p[i + 1] \in Seq(Words)
    BY <1>2, <2>2, <2>3
  <2>6. Known \cup Range(Grown(p[i], x)) = (Known \cup Range(p[i])) \cup {x}
    <3>1. Range(Append(p[i], x)) = Range(p[i]) \cup {x}
      BY <2>3, RangeOfAppend
    <3>. HIDE DEF x
    <3>. QED BY <3>1 DEF Grown
  <2>. HIDE DEF Read, x
  <2>. QED BY <2>2, <2>3, <2>4, <2>5, <2>6
<1>11. Nat \subseteq T
  <2>. HIDE DEF T
  <2>. QED BY <1>9, <1>10, SetInduction
<1>12. p[n] \in Seq(Words) /\ Known \cup Range(p[n]) = Known \cup Read(n)
  BY <1>1, <1>11
<1>13. Read(n) = InDoc(doc)
  BY <1>1 DEF InDoc, Range
<1>. QED BY <1>7, <1>12, <1>13

-----------------------------------------------------------------------------
\* The chunk file.

LEMMA RegionBitsRight ==
  ASSUME NEW n \in Nat, NEW p \in 0 .. n, NEW m \in Nat
  PROVE  /\ p > 0 => BblockBound(n, p) \in Nat
         /\ RegionBits(n, p, m) \in Nat
<1>1. CASE p = 0
  BY <1>1, Pass1Constants DEF RegionBits
<1>2. CASE p # 0
  <2>. DEFINE b == BblockInitW(n, p)
  <2>1. p \in Nat \ {0} /\ b \in Nat \ {0}
    BY <1>2, BlockSizesRight
  <2>2. BblockBoundB(n, p, b) \in Int /\ 0 <= BblockBoundB(n, p, b)
    <3>1. CeilLog(b) \in Nat /\ Thresh(b) \in Nat
      BY <2>1, ThreshRight
    <3>2. b * (0 - 0 * (1 + CeilLog(b))) <= 0 - 0 * (Thresh(b) + 1)
      BY <2>1, <3>1
    <3>3. 0 \in 0 .. p /\ 0 \in Nat /\ 0 + (p - 0) <= n /\ 0 \in Int /\ p \in Nat
      BY <2>1
    <3>. HIDE DEF b
    <3>. QED BY <2>1, <3>2, <3>3, BlockBoundHolds
  <2>3. BblockBound(n, p) \in Nat
    BY <2>2 DEF BblockBound
  <2>. QED BY <2>3, Pass1Constants DEF RegionBits
<1>. QED BY <1>1, <1>2

LEMMA MaxOfTwo ==
  ASSUME NEW a \in Int, NEW b \in Int
  PROVE  Max({a, b}) \in {a, b} /\ Max({a, b}) >= a /\ Max({a, b}) >= b
<1>1. \E x \in {a, b} : \A y \in {a, b} : x >= y
  <2>1. CASE a >= b
    BY <2>1
  <2>2. CASE ~(a >= b)
    BY <2>2
  <2>. QED BY <2>1, <2>2
<1>. QED BY <1>1 DEF Max

DocCounts(t, a, b) == [w \in Words |-> DocsIn(w, t, a, b)]
OccCounts(t, a, b) == [w \in Words |-> OccsIn(w, t, a, b)]

ChunkDescriptions == [docs : Nat \ {0}, mem : Int, counts : Seq(Int \X Int)]

\* Documents in the first i chunks.
ChunkEnd(cs, i) == SumTo([c \in DOMAIN cs |-> cs[c].docs], i)

\* d describes the documents of t that follow document a; the words that have
\* occurred so far are the first of order.
Describes(d, t, order, a) ==
  /\ a + d.docs <= Len(t)
  /\ d.mem = mem_reqd(d.docs, DocCounts(t, a, a + d.docs), OccCounts(t, a, a + d.docs))
  /\ Len(d.counts) <= Len(order)
  /\ \A j \in 1 .. Len(d.counts) :
       d.counts[j] = <<OccsIn(order[j], t, a, a + d.docs), DocsIn(order[j], t, a, a + d.docs)>>
  /\ \A w \in Words : DocsIn(w, t, a, a + d.docs) > 0 =>
       \E j \in 1 .. Len(d.counts) : order[j] = w

AllDescribed(cs, t, order, most) ==
  \A i \in DOMAIN cs : Describes(cs[i], t, order, ChunkEnd(cs, i - 1)) /\ cs[i].mem <= most

ChunksRight == AllDescribed(chunks, text, first_occr, max_mem)

Collected == Len(text) - lcallnum

\* What the first pass has counted is what is in the text.
Pass1Right ==
  /\ text \in Seq(Documents) /\ first_occr \in Seq(Words)
  /\ chunks \in Seq(ChunkDescriptions)
  /\ lcallnum \in Nat /\ max_mem \in Nat /\ ended \in BOOLEAN
  /\ fcnt = DocCounts(text, 0, Len(text)) /\ wcnt = OccCounts(text, 0, Len(text))
  /\ \A w \in Words : w \in Known <=> DocsIn(w, text, 0, Len(text)) > 0
  /\ ~ended => /\ Collected = ChunkEnd(chunks, Len(chunks))
               /\ lfcnt = DocCounts(text, Collected, Len(text))
               /\ lwcnt = OccCounts(text, Collected, Len(text))
  /\ ended => ChunkEnd(chunks, Len(chunks)) = Len(text) /\ first_occr # <<>>
  /\ ChunksRight

LEMMA ChunkTypes ==
  \A d \in ChunkDescriptions :
    d.docs \in Nat \ {0} /\ d.mem \in Int /\ d.counts \in Seq(Int \X Int) /\ Len(d.counts) \in Nat
BY DEF ChunkDescriptions

LEMMA ChunkEndRight ==
  ASSUME NEW cs \in Seq(ChunkDescriptions)
  PROVE  /\ ChunkEnd(cs, 0) = 0
         /\ \A i \in 0 .. Len(cs) : ChunkEnd(cs, i) \in Nat
         /\ \A i \in DOMAIN cs : /\ i - 1 \in 0 .. Len(cs)
                                 /\ ChunkEnd(cs, i) = ChunkEnd(cs, i - 1) + cs[i].docs
         /\ \A i \in 0 .. Len(cs) : ChunkEnd(cs, i) <= ChunkEnd(cs, Len(cs))
<1>. DEFINE s == [c \in DOMAIN cs |-> cs[c].docs]
<1>1. Len(cs) \in Nat /\ DOMAIN cs = 1 .. Len(cs) /\ \A i \in 1 .. Len(cs) : s[i] \in Nat /\ s[i] = cs[i].docs
  <2>1. Len(cs) \in Nat /\ DOMAIN cs = 1 .. Len(cs)
    OBVIOUS
  <2>2. ASSUME NEW i \in 1 .. Len(cs) PROVE s[i] \in Nat /\ s[i] = cs[i].docs
    <3>1. cs[i] \in ChunkDescriptions /\ i \in DOMAIN cs
      OBVIOUS
    <3>2. cs[i].docs \in Nat
      BY <3>1, ChunkTypes
    <3>. QED BY <3>1, <3>2
  <2>. QED BY <2>1, <2>2
<1>2. \A i \in Nat : ChunkEnd(cs, i) = SumTo(s, i)
  BY DEF ChunkEnd
<1>. HIDE DEF s
<1>3. \A i \in 0 .. Len(cs) : SumTo(s, i) \in Nat /\ SumTo(s, i) <= SumTo(s, Len(cs))
  BY <1>1, SumsGrow
<1>4. ASSUME NEW i \in 1 .. Len(cs) PROVE SumTo(s, i) = SumTo(s, i - 1) + s[i]
  <2>1. i - 1 \in Nat /\ (i - 1) + 1 = i /\ \A j \in 1 .. i : s[j] \in Int
    BY <1>1
  <2>2. SumTo(s, (i - 1) + 1) = SumTo(s, i - 1) + s[(i - 1) + 1]
    BY <2>1, SumOneMore
  <2>. QED BY <2>1, <2>2
<1>5. SumTo(s, 0) = 0
  BY SumNone
<1>6. \A i \in 1 .. Len(cs) : i - 1 \in 0 .. Len(cs) /\ i - 1 \in Nat /\ i \in Nat
  BY <1>1
<1>. QED BY <1>1, <1>2, <1>3, <1>4, <1>5, <1>6

LEMMA ChunkEndKept ==
  ASSUME NEW cs \in Seq(ChunkDescriptions), NEW d \in ChunkDescriptions, NEW i \in 0 .. Len(cs)
  PROVE  ChunkEnd(Append(cs, d), i) = ChunkEnd(cs, i)
<1>. DEFINE ds == Append(cs, d)
            s(q) == [c \in DOMAIN q |-> q[c].docs]
<1>1. \A c \in 1 .. i : c \in DOMAIN cs /\ c \in DOMAIN ds /\ cs[c] = ds[c] /\ cs[c].docs \in Int
  <2>1. \A c \in 1 .. i : c \in DOMAIN cs /\ c \in DOMAIN ds /\ cs[c] = ds[c]
                         /\ cs[c] \in ChunkDescriptions
    OBVIOUS
  <2>. QED BY <2>1, ChunkTypes
<1>. HIDE DEF ds
<1>2. \A c \in 1 .. i : s(cs)[c] \in Int /\ s(cs)[c] = s(ds)[c]
  BY <1>1
<1>3. SumTo(s(cs), i) = SumTo(s(ds), i)
  <2>1. i \in Nat
    OBVIOUS
  <2>. HIDE DEF s
  <2>. QED BY <1>2, <2>1, SumAlike
<1>. QED BY <1>3 DEF ChunkEnd, ds

LEMMA ReadCounts ==
  ASSUME NEW t \in Seq(Documents), NEW doc \in Documents, NEW a \in 0 .. Len(t)
  PROVE  /\ DocCounts(Append(t, doc), a, Len(t) + 1) =
              [w \in Words |-> DocCounts(t, a, Len(t))[w] + (IF w \in InDoc(doc) THEN 1 ELSE 0)]
         /\ OccCounts(Append(t, doc), a, Len(t) + 1) =
              [w \in Words |-> OccCounts(t, a, Len(t))[w] + Occurrences(w, doc)]
<1>. DEFINE u == Append(t, doc)
            n == Len(t)
<1>1. u \in Seq(Documents) /\ Len(u) = n + 1 /\ u[n + 1] = doc /\ n \in 0 .. n /\ n \in 0 .. Len(u)
      /\ n < Len(u) /\ n \in Nat
  OBVIOUS
<1>2. ASSUME NEW w \in Words
      PROVE  /\ DocsIn(w, u, a, n + 1) = DocsIn(w, t, a, n) + (IF w \in InDoc(doc) THEN 1 ELSE 0)
             /\ OccsIn(w, u, a, n + 1) = OccsIn(w, t, a, n) + Occurrences(w, doc)
  <2>1. /\ DocsWith(w, u, n + 1) = DocsWith(w, u, n) + (IF w \in InDoc(doc) THEN 1 ELSE 0)
        /\ OccsOf(w, u, n + 1) = OccsOf(w, u, n) + Occurrences(w, doc)
    <3>. HIDE DEF u, n
    <3>. QED BY <1>1, CountsRight
  <2>2. /\ DocsWith(w, u, n) = DocsWith(w, t, n) /\ OccsOf(w, u, n) = OccsOf(w, t, n)
        /\ DocsWith(w, u, a) = DocsWith(w, t, a) /\ OccsOf(w, u, a) = OccsOf(w, t, a)
    BY <1>1, CountsKept
  <2>3. /\ DocsWith(w, t, n) \in Nat /\ OccsOf(w, t, n) \in Nat
        /\ DocsWith(w, t, a) \in Nat /\ OccsOf(w, t, a) \in Nat /\ Occurrences(w, doc) \in Nat
    BY <1>1, CountsRight, OccurrencesRight
  <2>. HIDE DEF u, n
  <2>. QED BY <2>1, <2>2, <2>3 DEF DocsIn, OccsIn
<1>. HIDE DEF u
<1>. QED BY <1>2 DEF DocCounts, OccCounts, u

LEMMA PartKept ==
  ASSUME NEW t \in Seq(Documents), NEW doc \in Documents, NEW a \in 0 .. Len(t), NEW b \in 0 .. Len(t)
  PROVE  /\ \A w : DocsIn(w, Append(t, doc), a, b) = DocsIn(w, t, a, b)
         /\ \A w : OccsIn(w, Append(t, doc), a, b) = OccsIn(w, t, a, b)
         /\ DocCounts(Append(t, doc), a, b) = DocCounts(t, a, b)
         /\ OccCounts(Append(t, doc), a, b) = OccCounts(t, a, b)
<1>1. \A w : DocsIn(w, Append(t, doc), a, b) = DocsIn(w, t, a, b)
  BY CountsKept DEF DocsIn
<1>2. \A w : OccsIn(w, Append(t, doc), a, b) = OccsIn(w, t, a, b)
  BY CountsKept DEF OccsIn
<1>. QED BY <1>1, <1>2 DEF DocCounts, OccCounts

LEMMA DescribesKept ==
  ASSUME NEW t \in Seq(Documents), NEW doc \in Documents, NEW a \in Nat,
         NEW d \in ChunkDescriptions,
         NEW order \in Seq(Words), NEW more \in Seq(Words), Describes(d, t, order, a)
  PROVE  Describes(d, Append(t, doc), order \o more, a)
<1>. DEFINE b == a + d.docs
            u == Append(t, doc)
            o == order \o more
<1>1. d.docs \in Nat /\ b \in 0 .. Len(t) /\ a \in 0 .. Len(t) /\ Len(u) = Len(t) + 1
      /\ Len(d.counts) \in Nat
  BY DEF Describes, ChunkDescriptions
<1>2. /\ \A w : DocsIn(w, u, a, b) = DocsIn(w, t, a, b)
      /\ \A w : OccsIn(w, u, a, b) = OccsIn(w, t, a, b)
      /\ DocCounts(u, a, b) = DocCounts(t, a, b)
      /\ OccCounts(u, a, b) = OccCounts(t, a, b)
  <2>. HIDE DEF b
  <2>. QED BY <1>1, PartKept
<1>3. /\ Len(o) \in Nat /\ Len(order) \in Nat /\ Len(order) <= Len(o)
      /\ \A j \in 1 .. Len(order) : o[j] = order[j]
  OBVIOUS
<1>4. Len(d.counts) <= Len(order) /\ \A j \in 1 .. Len(d.counts) : o[j] = order[j]
  <2>1. Len(d.counts) <= Len(order)
    BY DEF Describes
  <2>. HIDE DEF o
  <2>. QED BY <1>1, <1>3, <2>1
<1>. HIDE DEF u, o
<1>5. Len(d.counts) <= Len(o) /\ a + d.docs <= Len(u)
  BY <1>1, <1>3, <1>4
<1>6. d.mem = mem_reqd(d.docs, DocCounts(u, a, a + d.docs), OccCounts(u, a, a + d.docs))
  BY <1>2 DEF Describes
<1>7. ASSUME NEW j \in 1 .. Len(d.counts)
      PROVE  d.counts[j] = <<OccsIn(o[j], u, a, a + d.docs), DocsIn(o[j], u, a, a + d.docs)>>
  BY <1>2, <1>4 DEF Describes
<1>8. ASSUME NEW w \in Words, DocsIn(w, u, a, a + d.docs) > 0
      PROVE  \E j \in 1 .. Len(d.counts) : o[j] = w
  <2>1. DocsIn(w, t, a, a + d.docs) > 0
    BY <1>2, <1>8
  <2>2. PICK j \in 1 .. Len(d.counts) : order[j] = w
    BY <2>1 DEF Describes
  <2>. QED BY <1>4, <2>2
<1>. QED BY <1>5, <1>6, <1>7, <1>8 DEF Describes, u, o

LEMMA MemoryRight ==
  ASSUME NEW n \in Nat, NEW f \in [Words -> 0 .. n], NEW m \in [Words -> Nat]
  PROVE  mem_reqd(n, f, m) \in Nat
<1>. DEFINE s == [w \in Words |-> RegionBits(n, f[w], m[w])]
<1>1. \A w \in 1 .. NumWords : s[w] \in Nat
  BY RegionBitsRight DEF Words
<1>2. NumWords \in 0 .. NumWords /\ NumWords \in Nat
  BY Pass1Constants
<1>3. SumTo(s, NumWords) \in Nat
  <2>. HIDE DEF s
  <2>. QED BY <1>1, <1>2, SumsGrow
<1>4. \A x \in Nat : (x + 7) \div 8 \in Nat
  OBVIOUS
<1>. QED BY <1>3, <1>4 DEF mem_reqd, Bytes

LEMMA CountTypes ==
  ASSUME NEW t \in Seq(Documents), NEW a \in 0 .. Len(t), NEW b \in a .. Len(t)
  PROVE  /\ DocCounts(t, a, b) \in [Words -> 0 .. b - a]
         /\ OccCounts(t, a, b) \in [Words -> Nat]
BY CountsGrow DEF DocCounts, OccCounts

LEMMA NewDescription ==
  ASSUME NEW t \in Seq(Documents), NEW order \in Seq(Words), NEW a \in 0 .. Len(t), a < Len(t),
         \A w \in Words : DocsIn(w, t, 0, Len(t)) > 0 => w \in Range(order),
         NEW f, f = DocCounts(t, a, Len(t)), NEW n, n = OccCounts(t, a, Len(t)),
         NEW docs, docs = Len(t) - a,
         NEW d, d = [docs |-> docs, mem |-> mem_reqd(docs, f, n),
                     counts |-> [i \in 1 .. Len(order) |-> <<n[order[i]], f[order[i]]>>]]
  PROVE  d \in ChunkDescriptions /\ Describes(d, t, order, a) /\ d.mem \in Nat
<1>1. Len(t) \in Nat /\ Len(t) \in a .. Len(t) /\ docs \in Nat \ {0} /\ a + docs = Len(t)
  OBVIOUS
<1>2. f \in [Words -> 0 .. docs] /\ n \in [Words -> Nat]
  BY <1>1, CountTypes
<1>3. mem_reqd(docs, f, n) \in Nat
  BY <1>1, <1>2, MemoryRight
<1>4. Len(order) \in Nat /\ \A i \in 1 .. Len(order) : order[i] \in Words
  OBVIOUS
<1>5. ASSUME NEW i \in 1 .. Len(order) PROVE <<n[order[i]], f[order[i]]>> \in Int \X Int
  BY <1>1, <1>2, <1>4
<1>6. d.counts \in Seq(Int \X Int) /\ Len(d.counts) = Len(order)
  BY <1>4, <1>5
<1>7. d \in ChunkDescriptions
  BY <1>1, <1>3, <1>6 DEF ChunkDescriptions
<1>8. \A w \in Words : f[w] = DocsIn(w, t, a, Len(t)) /\ n[w] = OccsIn(w, t, a, Len(t))
  BY DEF DocCounts, OccCounts
<1>9. ASSUME NEW j \in 1 .. Len(d.counts)
      PROVE  d.counts[j] = <<OccsIn(order[j], t, a, Len(t)), DocsIn(order[j], t, a, Len(t))>>
  <2>1. j \in 1 .. Len(order)
    BY <1>6
  <2>2. d.counts[j] = <<n[order[j]], f[order[j]]>>
    BY <2>1
  <2>. QED BY <1>4, <1>8, <2>1, <2>2
<1>10. ASSUME NEW w \in Words, DocsIn(w, t, a, Len(t)) > 0
       PROVE  \E j \in 1 .. Len(d.counts) : order[j] = w
  <2>1. /\ DocsWith(w, t, a) \in Nat /\ DocsWith(w, t, 0) = 0 /\ DocsWith(w, t, Len(t)) \in Nat
    <3>1. Len(t) \in 0 .. Len(t)
      BY <1>1
    <3>. QED BY <3>1, CountsRight
  <2>2. DocsIn(w, t, 0, Len(t)) > 0
    BY <1>10, <2>1 DEF DocsIn
  <2>3. w \in Range(order)
    BY <2>2
  <2>. QED BY <1>6, <2>3 DEF Range
<1>11. d.docs = docs /\ d.mem = mem_reqd(docs, f, n)
  OBVIOUS
<1>12. a + d.docs = Len(t)
  BY <1>1, <1>11
<1>13. Describes(d, t, order, a)
  <2>1. d.mem = mem_reqd(d.docs, DocCounts(t, a, a + d.docs), OccCounts(t, a, a + d.docs))
    BY <1>11, <1>12
  <2>2. a + d.docs <= Len(t) /\ Len(d.counts) <= Len(order)
    BY <1>1, <1>4, <1>6, <1>12
  <2>3. \A j \in 1 .. Len(d.counts) :
          d.counts[j] = <<OccsIn(order[j], t, a, a + d.docs), DocsIn(order[j], t, a, a + d.docs)>>
    BY <1>9, <1>12
  <2>4. \A w \in Words : DocsIn(w, t, a, a + d.docs) > 0 =>
          \E j \in 1 .. Len(d.counts) : order[j] = w
    BY <1>10, <1>12
  <2>. QED BY <2>1, <2>2, <2>3, <2>4, Zenon DEF Describes
<1>. QED BY <1>3, <1>7, <1>11, <1>13

LEMMA ChunkAdded ==
  ASSUME NEW cs \in Seq(ChunkDescriptions), NEW d \in ChunkDescriptions, NEW t, NEW order,
         NEW m \in Int, NEW mm \in Int, m <= mm, d.mem <= mm,
         AllDescribed(cs, t, order, m),
         Describes(d, t, order, ChunkEnd(cs, Len(cs))),
         NEW ds, ds = Append(cs, d)
  PROVE  /\ ds \in Seq(ChunkDescriptions)
         /\ ChunkEnd(ds, Len(ds)) = ChunkEnd(cs, Len(cs)) + d.docs
         /\ AllDescribed(ds, t, order, mm)
<1>1. /\ ds \in Seq(ChunkDescriptions) /\ Len(cs) \in Nat /\ Len(ds) = Len(cs) + 1
      /\ DOMAIN ds = 1 .. Len(cs) + 1 /\ ds[Len(ds)] = d
      /\ \A i \in 1 .. Len(cs) : ds[i] = cs[i] /\ i \in DOMAIN cs /\ i - 1 \in 0 .. Len(cs)
      /\ Len(ds) \in DOMAIN ds /\ Len(ds) - 1 = Len(cs) /\ Len(cs) \in 0 .. Len(cs)
  OBVIOUS
<1>2. \A i \in 0 .. Len(cs) : ChunkEnd(ds, i) = ChunkEnd(cs, i)
  BY ChunkEndKept
<1>3. ChunkEnd(ds, Len(ds)) = ChunkEnd(cs, Len(cs)) + d.docs
  <2>1. ChunkEnd(ds, Len(ds)) = ChunkEnd(ds, Len(ds) - 1) + ds[Len(ds)].docs
    BY <1>1, ChunkEndRight
  <2>. QED BY <1>1, <1>2, <2>1
<1>4. ASSUME NEW i \in DOMAIN ds
      PROVE  Describes(ds[i], t, order, ChunkEnd(ds, i - 1)) /\ ds[i].mem <= mm
  <2>1. CASE i \in 1 .. Len(cs)
    <3>1. ds[i] = cs[i] /\ ChunkEnd(ds, i - 1) = ChunkEnd(cs, i - 1) /\ cs[i].mem <= m
          /\ Describes(cs[i], t, order, ChunkEnd(cs, i - 1))
      BY <1>1, <1>2, <2>1 DEF AllDescribed
    <3>2. cs[i].mem \in Int
      <4>1. cs[i] \in ChunkDescriptions
        BY <2>1
      <4>. QED BY <4>1, ChunkTypes
    <3>. QED BY <3>1, <3>2
  <2>2. CASE i = Len(ds)
    <3>1. ds[i] = d /\ ChunkEnd(ds, i - 1) = ChunkEnd(cs, Len(cs))
      BY <1>1, <1>2, <2>2
    <3>. QED BY <3>1
  <2>3. i \in 1 .. Len(cs) \/ i = Len(ds)
    BY <1>1
  <2>. QED BY <2>1, <2>2, <2>3
<1>. QED BY <1>1, <1>3, <1>4 DEF AllDescribed

-----------------------------------------------------------------------------
\* The first pass.

LEMMA Pass1Begins == Pass1Init => Pass1Right
<1>. SUFFICES ASSUME Pass1Init PROVE Pass1Right
  OBVIOUS
<1>. USE DEF Pass1Init
<1>1. text \in Seq(Documents) /\ Len(text) = 0 /\ first_occr \in Seq(Words)
      /\ chunks \in Seq(ChunkDescriptions) /\ Len(chunks) = 0 /\ 0 \in 0 .. Len(text)
  OBVIOUS
<1>2. ChunkEnd(chunks, 0) = 0
  BY <1>1, ChunkEndRight
<1>3. \A w : DocsIn(w, text, 0, 0) = 0 /\ OccsIn(w, text, 0, 0) = 0
  <2>1. \A w : DocsWith(w, text, 0) = 0 /\ OccsOf(w, text, 0) = 0
    BY <1>1, CountsRight
  <2>. QED BY <2>1 DEF DocsIn, OccsIn
<1>4. DocCounts(text, 0, 0) = [w \in Words |-> 0] /\ OccCounts(text, 0, 0) = [w \in Words |-> 0]
  BY <1>3 DEF DocCounts, OccCounts
<1>5. Known = {} /\ DOMAIN chunks = {}
  BY DEF Known, Range
<1>6. Collected = 0
  BY <1>1 DEF Collected
<1>7. ChunksRight
  BY <1>5 DEF ChunksRight, AllDescribed
<1>8. \A w \in Words : w \in Known <=> DocsIn(w, text, 0, Len(text)) > 0
  BY <1>1, <1>3, <1>5
<1>. QED BY <1>1, <1>2, <1>4, <1>6, <1>7, <1>8 DEF Pass1Right

LEMMA NothingInEmptyPart ==
  ASSUME NEW t \in Seq(Documents), NEW a \in 0 .. Len(t)
  PROVE  DocCounts(t, a, a) = [w \in Words |-> 0] /\ OccCounts(t, a, a) = [w \in Words |-> 0]
<1>1. \A w : DocsWith(w, t, a) \in Nat /\ OccsOf(w, t, a) \in Nat
  BY CountsRight
<1>2. \A w : DocsIn(w, t, a, a) = 0 /\ OccsIn(w, t, a, a) = 0
  BY <1>1 DEF DocsIn, OccsIn
<1>. QED BY <1>2 DEF DocCounts, OccCounts

LEMMA DocumentKeepsPass1Right ==
  ASSUME Pass1Right, ~ended, NEW doc \in Documents, process_doc(doc), ended' = ended
  PROVE  Pass1Right'
<1>. DEFINE t == text
            u == Append(text, doc)
            order == first_occr \o NewWords(doc)
            a == Collected
            f == [w \in Words |-> lfcnt[w] + (IF w \in InDoc(doc) THEN 1 ELSE 0)]
            n == [w \in Words |-> lwcnt[w] + Occurrences(w, doc)]
            docs == lcallnum + 1
            mem == mem_reqd(docs, f, n)
            d == [docs |-> docs, mem |-> mem,
                  counts |-> [i \in 1 .. Len(order) |-> <<n[order[i]], f[order[i]]>>]]
<1>1. /\ text' = u /\ first_occr' = order
      /\ fcnt' = [w \in Words |-> fcnt[w] + (IF w \in InDoc(doc) THEN 1 ELSE 0)]
      /\ wcnt' = [w \in Words |-> wcnt[w] + Occurrences(w, doc)]
  BY DEF process_doc
<1>2. /\ t \in Seq(Documents) /\ first_occr \in Seq(Words) /\ chunks \in Seq(ChunkDescriptions)
      /\ lcallnum \in Nat /\ max_mem \in Nat
      /\ fcnt = DocCounts(t, 0, Len(t)) /\ wcnt = OccCounts(t, 0, Len(t))
      /\ \A w \in Words : w \in Known <=> DocsIn(w, t, 0, Len(t)) > 0
      /\ a = ChunkEnd(chunks, Len(chunks))
      /\ lfcnt = DocCounts(t, a, Len(t)) /\ lwcnt = OccCounts(t, a, Len(t))
      /\ ChunksRight
  BY DEF Pass1Right
<1>3. NewWords(doc) \in Seq(Words) /\ Known \cup Range(NewWords(doc)) = Known \cup InDoc(doc)
  BY <1>2, NewWordsRight
<1>4. /\ Len(t) \in Nat /\ u \in Seq(Documents) /\ Len(u) = Len(t) + 1 /\ order \in Seq(Words)
  BY <1>2, <1>3
<1>5. Len(chunks) \in 0 .. Len(chunks) /\ a \in Nat
  <2>1. Len(chunks) \in 0 .. Len(chunks)
    BY <1>2
  <2>. QED BY <1>2, <2>1, ChunkEndRight
<1>6. a \in 0 .. Len(t) /\ 0 \in 0 .. Len(t) /\ a + lcallnum = Len(t)
      /\ a \in 0 .. Len(u) /\ a < Len(u) /\ docs = Len(u) - a
  BY <1>2, <1>4, <1>5 DEF Collected
<1>7. f = DocCounts(u, a, Len(u)) /\ n = OccCounts(u, a, Len(u))
  <2>1. /\ DocCounts(u, a, Len(t) + 1) =
             [w \in Words |-> DocCounts(t, a, Len(t))[w] + (IF w \in InDoc(doc) THEN 1 ELSE 0)]
        /\ OccCounts(u, a, Len(t) + 1) =
             [w \in Words |-> OccCounts(t, a, Len(t))[w] + Occurrences(w, doc)]
    <3>. HIDE DEF a
    <3>. QED BY <1>2, <1>6, ReadCounts
  <2>. HIDE DEF a, u
  <2>. QED BY <1>2, <1>4, <2>1
<1>8. fcnt' = DocCounts(u, 0, Len(u)) /\ wcnt' = OccCounts(u, 0, Len(u))
  <2>1. /\ DocCounts(u, 0, Len(t) + 1) =
             [w \in Words |-> DocCounts(t, 0, Len(t))[w] + (IF w \in InDoc(doc) THEN 1 ELSE 0)]
        /\ OccCounts(u, 0, Len(t) + 1) =
             [w \in Words |-> OccCounts(t, 0, Len(t))[w] + Occurrences(w, doc)]
    BY <1>2, <1>6, ReadCounts
  <2>. HIDE DEF u
  <2>. QED BY <1>1, <1>2, <1>4, <2>1
<1>9. \A w \in Words : w \in Range(order) <=> DocsIn(w, u, 0, Len(u)) > 0
  <2>. TAKE w \in Words
  <2>1. Range(order) = Known \cup InDoc(doc)
    BY <1>2, <1>3, RangeOfConcat DEF Known
  <2>2. DocsIn(w, u, 0, Len(u)) = DocsIn(w, t, 0, Len(t)) + (IF w \in InDoc(doc) THEN 1 ELSE 0)
    <3>1. DocCounts(u, 0, Len(t) + 1) =
            [v \in Words |-> DocCounts(t, 0, Len(t))[v] + (IF v \in InDoc(doc) THEN 1 ELSE 0)]
      BY <1>2, <1>6, ReadCounts
    <3>. HIDE DEF u
    <3>. QED BY <3>1, <1>4 DEF DocCounts
  <2>3. DocsIn(w, t, 0, Len(t)) \in Nat
    <3>1. Len(t) \in 0 .. Len(t)
      BY <1>4
    <3>. QED BY <1>2, <1>6, <3>1, CountsGrow
  <2>. HIDE DEF u, order
  <2>. QED BY <1>2, <2>1, <2>2, <2>3
<1>10. AllDescribed(chunks, u, order, max_mem)
  <2>. SUFFICES \A i \in DOMAIN chunks :
                  /\ Describes(chunks[i], u, order, ChunkEnd(chunks, i - 1))
                  /\ chunks[i].mem <= max_mem
    BY Zenon DEF AllDescribed
  <2>. TAKE i \in DOMAIN chunks
  <2>1. chunks[i] \in ChunkDescriptions /\ ChunkEnd(chunks, i - 1) \in Nat
    BY <1>2, ChunkEndRight
  <2>2. Describes(chunks[i], t, first_occr, ChunkEnd(chunks, i - 1)) /\ chunks[i].mem <= max_mem
    BY <1>2 DEF ChunksRight, AllDescribed
  <2>. QED BY <1>2, <1>3, <2>1, <2>2, DescribesKept
<1>11. d \in ChunkDescriptions /\ Describes(d, u, order, a) /\ d.mem \in Nat
  <2>1. \A w \in Words : DocsIn(w, u, 0, Len(u)) > 0 => w \in Range(order)
    BY <1>9
  <2>. HIDE DEF u, order, a, f, n, docs
  <2>. QED BY <1>4, <1>6, <1>7, <2>1, NewDescription
<1>12. Known' = Range(order)
  BY <1>1 DEF Known
<1>13. CASE /\ lcallnum' = docs /\ lfcnt' = f /\ lwcnt' = n
            /\ chunks' = chunks /\ max_mem' = max_mem
  <2>1. lcallnum' = docs /\ lfcnt' = f /\ lwcnt' = n /\ chunks' = chunks /\ max_mem' = max_mem
    BY <1>13
  <2>2. Collected' = a
    <3>. HIDE DEF u, a, docs
    <3>. QED BY <1>1, <1>4, <1>6, <2>1 DEF Collected
  <2>3. ChunksRight'
    <3>. HIDE DEF u, order
    <3>. QED BY <1>1, <1>10, <2>1 DEF ChunksRight
  <2>4. docs \in Nat
    BY <1>2
  <2>. HIDE DEF u, order, a, f, n, docs
  <2>. QED BY <1>1, <1>2, <1>4, <1>7, <1>8, <1>9, <1>12, <2>1, <2>2, <2>3, <2>4 DEF Pass1Right
<1>14. CASE /\ chunks' = Append(chunks, d) /\ max_mem' = Max({mem, max_mem}) /\ lcallnum' = 0
            /\ lfcnt' = [w \in Words |-> 0] /\ lwcnt' = [w \in Words |-> 0]
  <2>1. /\ chunks' = Append(chunks, d) /\ max_mem' = Max({mem, max_mem}) /\ lcallnum' = 0
        /\ lfcnt' = [w \in Words |-> 0] /\ lwcnt' = [w \in Words |-> 0]
    BY <1>14
  <2>2. d.mem = mem /\ d.docs = docs
    OBVIOUS
  <2>3. max_mem' \in Nat /\ max_mem' >= max_mem /\ max_mem' >= mem /\ mem \in Nat
    <3>. HIDE DEF mem, d
    <3>1. mem \in Nat
      BY <1>11, <2>2
    <3>2. /\ Max({mem, max_mem}) \in {mem, max_mem}
          /\ Max({mem, max_mem}) >= mem /\ Max({mem, max_mem}) >= max_mem
      <4>1. mem \in Int /\ max_mem \in Int
        BY <1>2, <3>1
      <4>. QED BY <4>1, MaxOfTwo
    <3>. QED BY <1>2, <2>1, <3>1, <3>2
  <2>4. Collected' = Len(u)
    <3>. HIDE DEF u
    <3>. QED BY <1>1, <1>4, <2>1 DEF Collected
  <2>5. /\ chunks' \in Seq(ChunkDescriptions)
        /\ ChunkEnd(chunks', Len(chunks')) = ChunkEnd(chunks, Len(chunks)) + d.docs
        /\ AllDescribed(chunks', u, order, max_mem')
    <3>. HIDE DEF u, order, d, a, mem
    <3>1. max_mem \in Int /\ max_mem' \in Int /\ max_mem <= max_mem' /\ d.mem <= max_mem'
      BY <1>2, <2>2, <2>3
    <3>2. Describes(d, u, order, ChunkEnd(chunks, Len(chunks)))
      BY <1>2, <1>11
    <3>. QED BY <1>2, <1>10, <1>11, <2>1, <3>1, <3>2, ChunkAdded
  <2>. HIDE DEF u, order, a, f, n, docs, d, mem
  <2>6. ChunkEnd(chunks', Len(chunks')) = Len(u)
    BY <1>2, <1>4, <1>6, <2>2, <2>5
  <2>7. ChunksRight'
    BY <1>1, <2>5 DEF ChunksRight
  <2>8. lfcnt' = DocCounts(u, Len(u), Len(u)) /\ lwcnt' = OccCounts(u, Len(u), Len(u))
    <3>1. Len(u) \in 0 .. Len(u)
      BY <1>4
    <3>. QED BY <1>4, <2>1, <3>1, NothingInEmptyPart
  <2>. QED BY <1>1, <1>2, <1>4, <1>8, <1>9, <1>12, <2>1, <2>3, <2>4, <2>5, <2>6, <2>7, <2>8
       DEF Pass1Right
<1>15. \/ /\ lcallnum' = docs /\ lfcnt' = f /\ lwcnt' = n
          /\ chunks' = chunks /\ max_mem' = max_mem
       \/ /\ chunks' = Append(chunks, d) /\ max_mem' = Max({mem, max_mem}) /\ lcallnum' = 0
          /\ lfcnt' = [w \in Words |-> 0] /\ lwcnt' = [w \in Words |-> 0]
  <2>. DEFINE pointers == ptrcnt + PointersOf(doc)
  <2>1. \/ Collect(f, n, pointers, checknum)
        \/ Dump(mem, f, n)
        \/ Collect(f, n, pointers, NextCheck(mem, pointers))
    BY DEF process_doc
  <2>2. ASSUME NEW ps, NEW check, Collect(f, n, ps, check)
        PROVE  /\ lcallnum' = docs /\ lfcnt' = f /\ lwcnt' = n
               /\ chunks' = chunks /\ max_mem' = max_mem
    BY <2>2 DEF Collect
  <2>3. ASSUME Dump(mem, f, n)
        PROVE  /\ chunks' = Append(chunks, d) /\ max_mem' = Max({mem, max_mem}) /\ lcallnum' = 0
               /\ lfcnt' = [w \in Words |-> 0] /\ lwcnt' = [w \in Words |-> 0]
    BY <1>1, <2>3 DEF Dump, Description
  <2>. HIDE DEF d, mem, docs, f, n, pointers
  <2>. QED BY <2>1, <2>2, <2>3
<1>. QED BY <1>13, <1>14, <1>15

LEMMA EndKeepsPass1Right == Pass1Right /\ done_ivf_1 => Pass1Right'
<1>. SUFFICES ASSUME Pass1Right, done_ivf_1 PROVE Pass1Right'
  OBVIOUS
<1>. DEFINE a == Collected
            mem == mem_reqd(lcallnum, lfcnt, lwcnt)
            d == [docs |-> lcallnum, mem |-> mem,
                  counts |-> [i \in 1 .. Len(first_occr) |->
                                <<lwcnt[first_occr[i]], lfcnt[first_occr[i]]>>]]
<1>1. /\ ended' = TRUE /\ ~ended /\ first_occr # <<>>
      /\ UNCHANGED <<text, first_occr, fcnt, wcnt, lfcnt, lwcnt, lcallnum>>
  BY DEF done_ivf_1
<1>2. /\ text \in Seq(Documents) /\ first_occr \in Seq(Words) /\ chunks \in Seq(ChunkDescriptions)
      /\ lcallnum \in Nat /\ max_mem \in Nat
      /\ fcnt = DocCounts(text, 0, Len(text)) /\ wcnt = OccCounts(text, 0, Len(text))
      /\ \A w \in Words : w \in Known <=> DocsIn(w, text, 0, Len(text)) > 0
      /\ a = ChunkEnd(chunks, Len(chunks))
      /\ lfcnt = DocCounts(text, a, Len(text)) /\ lwcnt = OccCounts(text, a, Len(text))
      /\ ChunksRight
  BY <1>1 DEF Pass1Right
<1>3. Len(text) \in Nat /\ a \in Nat
  <2>1. Len(chunks) \in 0 .. Len(chunks)
    BY <1>2
  <2>. QED BY <1>2, <2>1, ChunkEndRight
<1>4. a \in 0 .. Len(text) /\ a + lcallnum = Len(text) /\ lcallnum = Len(text) - a
  BY <1>2, <1>3 DEF Collected
<1>5. Known' = Known
  BY <1>1 DEF Known
<1>6. CASE lcallnum = 0
  <2>1. chunks' = chunks /\ max_mem' = max_mem
    BY <1>6 DEF done_ivf_1
  <2>2. ChunksRight'
    BY <1>1, <1>2, <2>1 DEF ChunksRight
  <2>3. ChunkEnd(chunks', Len(chunks')) = Len(text)
    BY <1>2, <1>3, <1>4, <1>6, <2>1
  <2>. HIDE DEF a
  <2>. QED BY <1>1, <1>2, <1>5, <2>1, <2>2, <2>3 DEF Pass1Right
<1>7. CASE lcallnum # 0
  <2>1. chunks' = Append(chunks, d) /\ max_mem' = Max({mem, max_mem})
    BY <1>1, <1>7 DEF done_ivf_1, Description
  <2>2. d.mem = mem /\ d.docs = lcallnum
    OBVIOUS
  <2>3. d \in ChunkDescriptions /\ Describes(d, text, first_occr, a) /\ d.mem \in Nat
    <3>1. a < Len(text) /\ \A w \in Words : DocsIn(w, text, 0, Len(text)) > 0 => w \in Range(first_occr)
      <4>. HIDE DEF a
      <4>1. a < Len(text)
        BY <1>2, <1>3, <1>4, <1>7
      <4>2. \A w \in Words : DocsIn(w, text, 0, Len(text)) > 0 => w \in Range(first_occr)
        BY <1>2 DEF Known
      <4>. QED BY <4>1, <4>2
    <3>. HIDE DEF a
    <3>. QED BY <1>2, <1>4, <3>1, NewDescription, ZenonT(60)
  <2>4. max_mem' \in Nat /\ max_mem' >= max_mem /\ max_mem' >= mem /\ mem \in Nat
    <3>. HIDE DEF mem, d
    <3>1. mem \in Nat
      BY <2>2, <2>3
    <3>2. /\ Max({mem, max_mem}) \in {mem, max_mem}
          /\ Max({mem, max_mem}) >= mem /\ Max({mem, max_mem}) >= max_mem
      <4>1. mem \in Int /\ max_mem \in Int
        BY <1>2, <3>1
      <4>. QED BY <4>1, MaxOfTwo
    <3>. QED BY <1>2, <2>1, <3>1, <3>2
  <2>. HIDE DEF a, d, mem
  <2>5. /\ chunks' \in Seq(ChunkDescriptions)
        /\ ChunkEnd(chunks', Len(chunks')) = ChunkEnd(chunks, Len(chunks)) + d.docs
        /\ AllDescribed(chunks', text, first_occr, max_mem')
    <3>1. AllDescribed(chunks, text, first_occr, max_mem)
      BY <1>2 DEF ChunksRight
    <3>2. max_mem \in Int /\ max_mem' \in Int /\ max_mem <= max_mem' /\ d.mem <= max_mem'
      BY <1>2, <2>2, <2>4
    <3>3. Describes(d, text, first_occr, ChunkEnd(chunks, Len(chunks)))
      BY <1>2, <2>3
    <3>. QED BY <1>2, <2>1, <2>3, <3>1, <3>2, <3>3, ChunkAdded
  <2>6. ChunkEnd(chunks', Len(chunks')) = Len(text)
    BY <1>2, <1>3, <1>4, <2>2, <2>5
  <2>7. ChunksRight'
    BY <1>1, <2>5 DEF ChunksRight
  <2>. QED BY <1>1, <1>2, <1>5, <2>4, <2>5, <2>6, <2>7 DEF Pass1Right
<1>. QED BY <1>6, <1>7

(***************************************************************************)
(* The first pass.                                                         *)
(***************************************************************************)
LEMMA Pass1Goes == Pass1Right /\ [Pass1Next]_pass1 => Pass1Right'
<1>. SUFFICES ASSUME Pass1Right, [Pass1Next]_pass1 PROVE Pass1Right'
  OBVIOUS
<1>1. CASE ReadDocument
  BY <1>1, DocumentKeepsPass1Right DEF ReadDocument
<1>2. CASE done_ivf_1
  BY <1>2, EndKeepsPass1Right
<1>3. CASE UNCHANGED pass1
  BY <1>3 DEF pass1, Pass1Right, ChunksRight, Known, Collected
<1>. QED BY <1>1, <1>2, <1>3 DEF Pass1Next

-----------------------------------------------------------------------------
\* The regions of a chunk.

LEMMA ListedRight ==
  ASSUME text \in Seq(Documents), first_occr \in Seq(Words), NEW a \in Nat,
         NEW d \in ChunkDescriptions, Describes(d, text, first_occr, a)
  PROVE  /\ Listed(d) = DocCounts(text, a, a + d.docs)
         /\ Occurring(d) = OccCounts(text, a, a + d.docs)
<1>. DEFINE b == a + d.docs
<1>1. a \in 0 .. Len(text) /\ b \in a .. Len(text)
  <2>1. d.docs \in Nat /\ b <= Len(text) /\ Len(text) \in Nat
    BY ChunkTypes DEF Describes
  <2>. QED BY <2>1
<1>2. ASSUME NEW w \in Words
      PROVE  Listed(d)[w] = DocsIn(w, text, a, b) /\ Occurring(d)[w] = OccsIn(w, text, a, b)
  <2>. DEFINE at == {i \in 1 .. Len(d.counts) : first_occr[i] = w}
              n == IF at = {} THEN <<0, 0>> ELSE d.counts[CHOOSE i \in at : TRUE]
              D == DocsIn(w, text, a, b)
              O == OccsIn(w, text, a, b)
  <2>1. D \in Nat /\ O \in Nat /\ D <= O /\ (D = 0 => O = 0)
    BY <1>1, CountsGrow
  <2>2. n = <<O, D>>
    <3>1. CASE at = {}
      <4>1. D = 0
        BY <2>1, <3>1 DEF Describes
      <4>. QED BY <2>1, <3>1, <4>1
    <3>2. CASE at # {}
      <4>1. PICK i \in at : n = d.counts[i]
        BY <3>2
      <4>2. d.counts[i] = <<OccsIn(first_occr[i], text, a, b), DocsIn(first_occr[i], text, a, b)>>
        BY DEF Describes
      <4>. QED BY <4>1, <4>2
    <3>. QED BY <3>1, <3>2
  <2>3. Listed(d)[w] = (IF n[1] >= 2 THEN n[2] ELSE n[1])
    BY DEF Listed
  <2>4. Occurring(d)[w] = n[1]
    <3>1. Occurring(d)[w] = IF at = {} THEN 0 ELSE d.counts[CHOOSE i \in at : TRUE][1]
      BY DEF Occurring
    <3>. QED BY <3>1
  <2>. HIDE DEF n, D, O
  <2>. QED BY <2>1, <2>2, <2>3, <2>4 DEF D, O
<1>3. Listed(d) = [w \in Words |-> Listed(d)[w]] /\ Occurring(d) = [w \in Words |-> Occurring(d)[w]]
  BY DEF Listed, Occurring
<1>. QED BY <1>2, <1>3 DEF DocCounts, OccCounts

Regions == [Words -> [start : Nat, end : Nat, b : Nat \ {0}]]

\* p and n may be the numbers of postings and of occurrences in docs documents.
MayCount(docs, p, n) ==
  /\ p \in [Words -> 0 .. docs] /\ n \in [Words -> Nat]
  /\ \A w \in Words : p[w] <= n[w] /\ (p[w] = 0 => n[w] = 0)

LEMMA LayoutRight ==
  ASSUME NEW docs \in Nat, NEW p, NEW n, MayCount(docs, p, n),
         NEW r, r = Layout(docs, p, n)
  PROVE  /\ r \in Regions
         /\ \A w \in Words :
              /\ r[w].end = r[w].start + RegionBits(docs, p[w], n[w])
              /\ r[w].b = IF p[w] = 0 THEN 1 ELSE BblockInitW(docs, p[w])
              /\ r[w].end <= r[NumWords].end
              /\ Bytes(r[NumWords].end) = mem_reqd(docs, p, n)
<1>. USE DEF MayCount
<1>. DEFINE size == [w \in Words |->
              IF n[w] = 0 THEN 0
              ELSE BblockBound(docs, p[w]) + (IF InvfLevel >= 2 THEN n[w] ELSE 0)]
            bits == [w \in Words |-> RegionBits(docs, p[w], n[w])]
<1>1. r = [w \in Words |-> [start |-> SumTo(size, w - 1), end |-> SumTo(size, w),
                            b |-> IF n[w] = 0 THEN 1 ELSE BblockInitW(docs, p[w])]]
  BY DEF Layout
<1>2. NumWords \in Nat /\ Words = 1 .. NumWords
  BY Pass1Constants DEF Words
<1>3. ASSUME NEW w \in Words PROVE size[w] = bits[w] /\ bits[w] \in Nat
  <2>1. p[w] \in 0 .. docs /\ n[w] \in Nat /\ (p[w] = 0 <=> n[w] = 0)
    OBVIOUS
  <2>2. bits[w] \in Nat
    BY <2>1, RegionBitsRight
  <2>3. bits[w] = (IF p[w] > 0 THEN BblockBound(docs, p[w]) ELSE 0)
                    + (IF InvfLevel >= 2 THEN n[w] ELSE 0)
    BY DEF RegionBits
  <2>4. CASE n[w] = 0
    <3>1. bits[w] = 0
      BY <2>1, <2>3, <2>4
    <3>. QED BY <2>2, <2>4, <3>1
  <2>5. CASE n[w] # 0
    <3>1. bits[w] = BblockBound(docs, p[w]) + (IF InvfLevel >= 2 THEN n[w] ELSE 0)
      BY <2>1, <2>3, <2>5
    <3>. QED BY <2>2, <2>5, <3>1
  <2>. QED BY <2>4, <2>5
<1>4. size = bits
  BY <1>3
<1>. HIDE DEF size
<1>5. \A w \in 1 .. NumWords : size[w] \in Nat /\ size[w] = RegionBits(docs, p[w], n[w])
  BY <1>2, <1>3, <1>4
<1>6. \A m \in 0 .. NumWords : SumTo(size, m) \in Nat /\ SumTo(size, m) <= SumTo(size, NumWords)
  BY <1>2, <1>5, SumsGrow
<1>7. ASSUME NEW w \in Words PROVE SumTo(size, w) = SumTo(size, w - 1) + size[w]
  <2>1. w - 1 \in Nat /\ (w - 1) + 1 = w /\ \A i \in 1 .. w : size[i] \in Int
    BY <1>2, <1>5
  <2>2. SumTo(size, (w - 1) + 1) = SumTo(size, w - 1) + size[(w - 1) + 1]
    BY <2>1, SumOneMore
  <2>. QED BY <2>1, <2>2
<1>8. ASSUME NEW w \in Words
      PROVE  /\ w - 1 \in 0 .. NumWords /\ w \in 0 .. NumWords
             /\ r[w].start = SumTo(size, w - 1) /\ r[w].end = SumTo(size, w)
             /\ r[w].b = (IF p[w] = 0 THEN 1 ELSE BblockInitW(docs, p[w]))
             /\ r[w].b \in Nat \ {0}
  <2>1. w - 1 \in 0 .. NumWords /\ w \in 0 .. NumWords
    BY <1>2
  <2>2. p[w] \in 0 .. docs /\ n[w] \in Nat /\ (p[w] = 0 <=> n[w] = 0)
    OBVIOUS
  <2>3. r[w].b = (IF p[w] = 0 THEN 1 ELSE BblockInitW(docs, p[w]))
    BY <1>1, <2>2
  <2>4. r[w].b \in Nat \ {0}
    <3>1. CASE p[w] = 0
      BY <2>3, <3>1
    <3>2. CASE p[w] # 0
      <4>1. p[w] \in Nat \ {0} /\ p[w] <= docs
        BY <2>2, <3>2
      <4>. QED BY <2>3, <3>2, <4>1, BlockSizesRight
    <3>. QED BY <3>1, <3>2
  <2>. QED BY <1>1, <2>1, <2>3, <2>4
<1>9. r \in Regions
  <2>1. ASSUME NEW w \in Words PROVE r[w] \in [start : Nat, end : Nat, b : Nat \ {0}]
    <3>1. w - 1 \in 0 .. NumWords /\ w \in 0 .. NumWords /\ r[w].b \in Nat \ {0}
      BY <1>8
    <3>2. SumTo(size, w - 1) \in Nat /\ SumTo(size, w) \in Nat
      BY <1>6, <3>1
    <3>3. r[w] = [start |-> SumTo(size, w - 1), end |-> SumTo(size, w),
                  b |-> IF n[w] = 0 THEN 1 ELSE BblockInitW(docs, p[w])]
      BY <1>1
    <3>. QED BY <3>1, <3>2, <3>3
  <2>2. r = [w \in Words |-> r[w]]
    BY <1>1
  <2>. QED BY <2>1, <2>2 DEF Regions
<1>10. ASSUME NEW w \in Words
       PROVE  /\ r[w].end = r[w].start + RegionBits(docs, p[w], n[w])
              /\ r[w].end <= r[NumWords].end
              /\ Bytes(r[NumWords].end) = mem_reqd(docs, p, n)
  <2>1. NumWords \in Words
    BY <1>2
  <2>2. r[w].start = SumTo(size, w - 1) /\ r[w].end = SumTo(size, w)
        /\ r[NumWords].end = SumTo(size, NumWords)
    BY <1>8, <2>1
  <2>3. mem_reqd(docs, p, n) = Bytes(SumTo(size, NumWords))
    BY <1>4 DEF mem_reqd
  <2>. QED BY <1>2, <1>5, <1>6, <1>7, <1>8, <2>2, <2>3
<1>. QED BY <1>8, <1>9, <1>10

\* k gaps with the given sum take so many bits in the block code, in so far as
\* it matters for the bound.
Coded(b, k, sum, bits) ==
  b * (bits - k * (1 + CeilLog(b))) <= sum - k * (Thresh(b) + 1)

LEMMA CodedNone == \A b \in Nat \ {0} : Coded(b, 0, 0, 0)
<1>. TAKE b \in Nat \ {0}
<1>1. CeilLog(b) \in Nat /\ Thresh(b) \in Nat
  BY ThreshRight
<1>. QED BY <1>1 DEF Coded

LEMMA CodedMore ==
  ASSUME NEW b \in Nat \ {0}, NEW k \in Nat, NEW sum \in Nat, NEW bits \in Int,
         Coded(b, k, sum, bits), NEW x \in Nat \ {0}
  PROVE  Coded(b, k + 1, sum + x, bits + BblockLength(x, b))
<1>. DEFINE T == Thresh(b) + 1
            c == 1 + CeilLog(b)
            l == BblockLength(x, b)
<1>1. c \in Nat /\ T \in Nat
  BY ThreshRight
<1>2. l \in Int /\ b * (l - c) <= x - T
  BY BlockLengthRight
<1>3. b * (bits - k * c) <= sum - k * T
  BY DEF Coded
<1>. HIDE DEF T, c, l
<1>4. (bits + l) - (k + 1) * c = (bits - k * c) + (l - c) /\ (k + 1) * T = k * T + T
  BY <1>1, <1>2
<1>5. b * ((bits - k * c) + (l - c)) = b * (bits - k * c) + b * (l - c)
  <2>1. bits - k * c \in Int /\ l - c \in Int
    BY <1>1, <1>2
  <2>. QED BY <2>1
<1>6. b * (bits - k * c) \in Int /\ b * (l - c) \in Int /\ k * T \in Int
  BY <1>1, <1>2
<1>7. b * ((bits + l) - (k + 1) * c) <= (sum + x) - (k + 1) * T
  BY <1>1, <1>2, <1>3, <1>4, <1>5, <1>6
<1>. QED BY <1>7 DEF Coded, T, c, l

LEMMA CodedFits ==
  ASSUME NEW b \in Nat \ {0}, NEW n \in Nat, NEW p \in Nat, NEW k \in 0 .. p,
         NEW sum \in Nat, sum + (p - k) <= n, NEW bits \in Int, Coded(b, k, sum, bits)
  PROVE  BblockBoundB(n, p, b) \in Int /\ bits <= BblockBoundB(n, p, b)
<1>1. b * (bits - k * (1 + CeilLog(b))) <= sum - k * (Thresh(b) + 1)
  BY DEF Coded
<1>. QED BY <1>1, BlockBoundHolds

-----------------------------------------------------------------------------
\* Lists of postings.

\* u is s, of m numbers, followed by t, of n.
Joined(u, s, m, t, n) ==
  /\ \A i \in 1 .. m : s[i] \in Int /\ u[i] = s[i]
  /\ \A i \in 1 .. n : t[i] \in Int /\ u[m + i] = t[i]

LEMMA SumOfBoth ==
  ASSUME NEW m \in Nat, NEW n \in Nat, NEW s, NEW t, NEW u, Joined(u, s, m, t, n)
  PROVE  \A k \in 0 .. n : SumTo(u, m + k) = SumTo(s, m) + SumTo(t, k)
<1>. USE DEF Joined
<1>. DEFINE T == {k \in Nat : k <= n => SumTo(u, m + k) = SumTo(s, m) + SumTo(t, k)}
<1>1. SumTo(s, m) \in Int
  <2>1. \A i \in 1 .. m : s[i] \in Int
    OBVIOUS
  <2>. QED BY <2>1, SumType
<1>2. 0 \in T
  <2>1. SumTo(s, m) = SumTo(u, m)
    BY SumAlike
  <2>2. SumTo(t, 0) = 0
    BY SumNone
  <2>. QED BY <1>1, <2>1, <2>2
<1>3. ASSUME NEW k \in Nat, k \in T PROVE k + 1 \in T
  <2>. SUFFICES ASSUME k + 1 <= n PROVE SumTo(u, m + (k + 1)) = SumTo(s, m) + SumTo(t, k + 1)
    OBVIOUS
  <2>1. \A i \in 1 .. k + 1 : t[i] \in Int
    OBVIOUS
  <2>2. ASSUME NEW i \in 1 .. (m + k) + 1 PROVE u[i] \in Int
    <3>1. CASE i <= m
      BY <3>1
    <3>2. CASE i > m
      <4>1. i - m \in 1 .. n /\ m + (i - m) = i
        BY <3>2
      <4>. QED BY <4>1
    <3>. QED BY <3>1, <3>2
  <2>3. m + k \in Nat /\ m + (k + 1) = (m + k) + 1 /\ k + 1 \in 1 .. n
    OBVIOUS
  <2>4. SumTo(u, (m + k) + 1) = SumTo(u, m + k) + u[(m + k) + 1]
    BY <2>2, <2>3, SumOneMore
  <2>5. SumTo(t, k + 1) = SumTo(t, k) + t[k + 1]
    BY <2>1, SumOneMore
  <2>6. SumTo(t, k) \in Int
    <3>1. \A i \in 1 .. k : t[i] \in Int
      BY <2>1
    <3>. QED BY <3>1, SumType
  <2>7. u[(m + k) + 1] = t[k + 1] /\ t[k + 1] \in Int
    BY <2>1, <2>3
  <2>. QED BY <1>1, <1>3, <2>3, <2>4, <2>5, <2>6, <2>7
<1>4. Nat \subseteq T
  <2>. HIDE DEF T
  <2>. QED BY <1>2, <1>3, SetInduction
<1>. QED BY <1>4

LEMMA GapsRight ==
  ASSUME NEW l \in Seq(Nat \X Nat)
  PROVE  /\ Document(l, 0) = 0 /\ Gaps(l) \in Nat
         /\ \A k \in 0 .. Len(l) : Document(l, k) \in Nat /\ Document(l, k) <= Gaps(l)
         /\ \A k \in 1 .. Len(l) : Document(l, k) = Document(l, k - 1) + l[k][1]
<1>. DEFINE s == [m \in DOMAIN l |-> l[m][1]]
<1>1. Len(l) \in Nat /\ DOMAIN l = 1 .. Len(l) /\ \A i \in 1 .. Len(l) : l[i] \in Nat \X Nat
  OBVIOUS
<1>2. \A i \in 1 .. Len(l) : s[i] \in Nat /\ s[i] = l[i][1]
  BY <1>1
<1>3. \A k \in Nat : Document(l, k) = SumTo(s, k)
  BY DEF Document
<1>. HIDE DEF s
<1>4. \A k \in 0 .. Len(l) : SumTo(s, k) \in Nat /\ SumTo(s, k) <= SumTo(s, Len(l))
  BY <1>1, <1>2, SumsGrow
<1>5. ASSUME NEW k \in 1 .. Len(l) PROVE SumTo(s, k) = SumTo(s, k - 1) + s[k]
  <2>1. k - 1 \in Nat /\ (k - 1) + 1 = k /\ \A i \in 1 .. k : s[i] \in Int
    BY <1>1, <1>2
  <2>2. SumTo(s, (k - 1) + 1) = SumTo(s, k - 1) + s[(k - 1) + 1]
    BY <2>1, SumOneMore
  <2>. QED BY <2>1, <2>2
<1>6. SumTo(s, 0) = 0
  BY SumNone
<1>7. Len(l) \in 0 .. Len(l) /\ \A k \in 1 .. Len(l) : k \in Nat /\ k - 1 \in Nat
  BY <1>1
<1>. QED BY <1>1, <1>2, <1>3, <1>4, <1>5, <1>6, <1>7 DEF Gaps

LEMMA ConcatFacts ==
  ASSUME NEW S, NEW l \in Seq(S), NEW r \in Seq(S)
  PROVE  /\ Len(l) \in Nat /\ Len(r) \in Nat /\ Len(l \o r) = Len(l) + Len(r)
         /\ \A i \in 1 .. Len(l) : i \in DOMAIN l /\ i \in DOMAIN (l \o r)
                                   /\ (l \o r)[i] = l[i] /\ l[i] \in S
         /\ \A i \in 1 .. Len(r) : i \in DOMAIN r /\ Len(l) + i \in DOMAIN (l \o r)
                                   /\ (l \o r)[Len(l) + i] = r[i] /\ r[i] \in S
<1>1. Len(l) \in Nat /\ Len(r) \in Nat /\ Len(l \o r) = Len(l) + Len(r)
  OBVIOUS
<1>2. ASSUME NEW i \in 1 .. Len(l)
      PROVE  i \in DOMAIN l /\ i \in DOMAIN (l \o r) /\ (l \o r)[i] = l[i] /\ l[i] \in S
  OBVIOUS
<1>3. ASSUME NEW i \in 1 .. Len(r)
      PROVE  i \in DOMAIN r /\ Len(l) + i \in DOMAIN (l \o r) /\ (l \o r)[Len(l) + i] = r[i]
             /\ r[i] \in S
  OBVIOUS
<1>. QED BY <1>1, <1>2, <1>3

LEMMA GapsOfBoth ==
  ASSUME NEW l \in Seq(Nat \X Nat), NEW r \in Seq(Nat \X Nat)
  PROVE  /\ \A k \in 0 .. Len(l) : Document(l \o r, k) = Document(l, k)
         /\ \A k \in 0 .. Len(r) : Document(l \o r, Len(l) + k) = Gaps(l) + Document(r, k)
         /\ Gaps(l \o r) = Gaps(l) + Gaps(r)
<1>. DEFINE u == l \o r
            s(q) == [m \in DOMAIN q |-> q[m][1]]
<1>1. /\ Len(l) \in Nat /\ Len(r) \in Nat /\ Len(u) = Len(l) + Len(r)
      /\ \A i \in 1 .. Len(l) : i \in DOMAIN l /\ i \in DOMAIN u /\ u[i] = l[i] /\ l[i] \in Nat \X Nat
      /\ \A i \in 1 .. Len(r) : i \in DOMAIN r /\ Len(l) + i \in DOMAIN u /\ u[Len(l) + i] = r[i]
                                /\ r[i] \in Nat \X Nat
  <2>. DEFINE S == Nat \X Nat
  <2>1. l \in Seq(S) /\ r \in Seq(S)
    OBVIOUS
  <2>. HIDE DEF S
  <2>2. /\ Len(l) \in Nat /\ Len(r) \in Nat /\ Len(u) = Len(l) + Len(r)
        /\ \A i \in 1 .. Len(l) : i \in DOMAIN l /\ i \in DOMAIN u /\ u[i] = l[i] /\ l[i] \in S
        /\ \A i \in 1 .. Len(r) : i \in DOMAIN r /\ Len(l) + i \in DOMAIN u /\ u[Len(l) + i] = r[i]
                                  /\ r[i] \in S
    BY ONLY <2>1, ConcatFacts, Zenon
  <2>. QED BY ONLY <2>2, Zenon DEF S
<1>. HIDE DEF u
<1>2. ASSUME NEW i \in 1 .. Len(l) PROVE s(l)[i] \in Int /\ s(u)[i] = s(l)[i]
  <2>1. i \in DOMAIN l /\ i \in DOMAIN u /\ u[i] = l[i] /\ l[i] \in Nat \X Nat
    BY <1>1
  <2>2. s(l)[i] = l[i][1] /\ s(u)[i] = u[i][1]
    BY <2>1
  <2>. QED BY <2>1, <2>2
<1>3. ASSUME NEW i \in 1 .. Len(r) PROVE s(r)[i] \in Int /\ s(u)[Len(l) + i] = s(r)[i]
  <2>1. i \in DOMAIN r /\ Len(l) + i \in DOMAIN u /\ u[Len(l) + i] = r[i] /\ r[i] \in Nat \X Nat
    BY <1>1
  <2>2. s(r)[i] = r[i][1] /\ s(u)[Len(l) + i] = u[Len(l) + i][1]
    BY <2>1
  <2>. QED BY <2>1, <2>2
<1>4. \A q, k : Document(q, k) = SumTo(s(q), k)
  BY DEF Document
<1>. HIDE DEF s
<1>5. \A k \in 0 .. Len(r) : SumTo(s(u), Len(l) + k) = SumTo(s(l), Len(l)) + SumTo(s(r), k)
  <2>. DEFINE m == Len(l)
              n == Len(r)
              sl == s(l)
              sr == s(r)
              su == s(u)
  <2>1. m \in Nat /\ n \in Nat /\ Joined(su, sl, m, sr, n)
    BY <1>1, <1>2, <1>3 DEF Joined
  <2>. HIDE DEF m, n, sl, sr, su
  <2>2. \A k \in 0 .. n : SumTo(su, m + k) = SumTo(sl, m) + SumTo(sr, k)
    BY <2>1, SumOfBoth
  <2>. QED BY <2>2 DEF m, n, sl, sr, su
<1>6. ASSUME NEW k \in 0 .. Len(l) PROVE SumTo(s(u), k) = SumTo(s(l), k)
  <2>1. k \in Nat /\ \A i \in 1 .. k : s(l)[i] \in Int /\ s(l)[i] = s(u)[i]
    BY <1>1, <1>2
  <2>2. SumTo(s(l), k) = SumTo(s(u), k)
    BY <2>1, SumAlike
  <2>. QED BY <2>2
<1>7. Len(r) \in 0 .. Len(r)
  BY <1>1
<1>. QED BY <1>1, <1>4, <1>5, <1>6, <1>7 DEF Gaps, u

\* What a posting records of a document with the word.
Count(w, doc) == IF InvfLevel >= 2 THEN Occurrences(w, doc) ELSE 1

\* The k-th posting of list is that of the k-th document of t with w after the
\* first a, and there is one for each up to document b.
Lists(list, w, t, a, b) ==
  /\ list \in Seq(Nat \X Nat)
  /\ Len(list) = DocsIn(w, t, a, b)
  /\ \A k \in 1 .. Len(list) :
       /\ list[k][1] > 0
       /\ a + Document(list, k) \in a .. b
       /\ w \in InDoc(t[a + Document(list, k)])
       /\ DocsIn(w, t, a, a + Document(list, k)) = k
       /\ list[k][2] = Count(w, t[a + Document(list, k)])

LEMMA ListsNone ==
  ASSUME NEW w, NEW t \in Seq(Documents), NEW a \in 0 .. Len(t)
  PROVE  Lists(<<>>, w, t, a, a)
<1>1. DocsWith(w, t, a) \in Nat
  BY CountsRight
<1>2. Len(<<>>) = 0 /\ <<>> \in Seq(Nat \X Nat)
  OBVIOUS
<1>. QED BY <1>1, <1>2 DEF Lists, DocsIn

LEMMA DocsInMore ==
  ASSUME NEW w, NEW t \in Seq(Documents), NEW a \in 0 .. Len(t), NEW b \in a .. Len(t), b < Len(t)
  PROVE  /\ DocsIn(w, t, a, b + 1) = DocsIn(w, t, a, b) + (IF w \in InDoc(t[b + 1]) THEN 1 ELSE 0)
         /\ OccsIn(w, t, a, b + 1) = OccsIn(w, t, a, b) + Occurrences(w, t[b + 1])
         /\ DocsIn(w, t, a, b) \in Nat /\ OccsIn(w, t, a, b) \in Nat
<1>1. b \in 0 .. Len(t)
  OBVIOUS
<1>2. /\ DocsWith(w, t, a) \in Nat /\ DocsWith(w, t, b) \in Nat
      /\ OccsOf(w, t, a) \in Nat /\ OccsOf(w, t, b) \in Nat
      /\ DocsWith(w, t, b + 1) = DocsWith(w, t, b) + (IF w \in InDoc(t[b + 1]) THEN 1 ELSE 0)
      /\ OccsOf(w, t, b + 1) = OccsOf(w, t, b) + Occurrences(w, t[b + 1])
  BY <1>1, CountsRight
<1>3. Occurrences(w, t[b + 1]) \in Nat
  <2>1. t[b + 1] \in Documents
    BY <1>1
  <2>. QED BY <2>1, OccurrencesRight
<1>4. DocsIn(w, t, a, b) \in Nat /\ OccsIn(w, t, a, b) \in Nat
  BY CountsGrow
<1>. QED BY <1>2, <1>3, <1>4, SMTT(30) DEF DocsIn, OccsIn

LEMMA ListsSkip ==
  ASSUME NEW w, NEW t \in Seq(Documents), NEW a \in 0 .. Len(t), NEW b \in a .. Len(t), b < Len(t),
         w \notin InDoc(t[b + 1]), NEW l, Lists(l, w, t, a, b)
  PROVE  Lists(l, w, t, a, b + 1)
<1>1. DocsIn(w, t, a, b + 1) = DocsIn(w, t, a, b)
  BY DocsInMore
<1>2. \A e \in a .. b : e \in a .. b + 1
  OBVIOUS
<1>. QED BY <1>1, <1>2 DEF Lists

LEMMA ListsOneMore ==
  ASSUME NEW w, NEW t \in Seq(Documents), NEW a \in 0 .. Len(t), NEW b \in a .. Len(t), b < Len(t),
         w \in InDoc(t[b + 1]), NEW l, Lists(l, w, t, a, b),
         NEW x \in Nat, x > 0, a + Gaps(l) + x = b + 1
  PROVE  /\ Lists(Append(l, <<x, Count(w, t[b + 1])>>), w, t, a, b + 1)
         /\ Gaps(Append(l, <<x, Count(w, t[b + 1])>>)) = Gaps(l) + x
<1>. DEFINE e == <<x, Count(w, t[b + 1])>>
            m == Append(l, e)
<1>1. Count(w, t[b + 1]) \in Nat
  <2>1. t[b + 1] \in Documents
    OBVIOUS
  <2>. QED BY <2>1, OccurrencesRight, Pass1Constants DEF Count
<1>2. l \in Seq(Nat \X Nat) /\ <<e>> \in Seq(Nat \X Nat) /\ m \in Seq(Nat \X Nat) /\ m = l \o <<e>>
  <2>1. e \in Nat \X Nat /\ l \in Seq(Nat \X Nat)
    BY <1>1 DEF Lists
  <2>. HIDE DEF e
  <2>2. <<e>> \in Seq(Nat \X Nat) /\ Append(l, e) \in Seq(Nat \X Nat)
    BY <2>1
  <2>3. Append(l, e) = l \o <<e>>
    BY <2>1, AppendIsConcat
  <2>. QED BY <2>1, <2>2, <2>3 DEF e
<1>3. /\ Len(l) \in Nat /\ Len(<<e>>) = 1 /\ Len(m) = Len(l) + 1 /\ m[Len(l) + 1] = e
      /\ \A k \in 1 .. Len(l) : m[k] = l[k]
  BY <1>2
<1>4. Gaps(<<e>>) = x
  <2>1. Document(<<e>>, 1) = Document(<<e>>, 1 - 1) + <<e>>[1][1] /\ Document(<<e>>, 0) = 0
    <3>1. 1 \in 1 .. Len(<<e>>)
      BY <1>3
    <3>. HIDE DEF e
    <3>. QED BY <1>2, <3>1, GapsRight
  <2>. QED BY <1>3, <2>1 DEF Gaps
<1>. HIDE DEF e, m
<1>5. /\ \A k \in 0 .. Len(l) : Document(m, k) = Document(l, k)
      /\ Gaps(m) = Gaps(l) + x
  <2>1. /\ \A k \in 0 .. Len(l) : Document(l \o <<e>>, k) = Document(l, k)
        /\ Gaps(l \o <<e>>) = Gaps(l) + Gaps(<<e>>)
    BY <1>2, GapsOfBoth, ZenonT(60)
  <2>. QED BY <1>2, <1>4, <2>1
<1>6. Gaps(l) \in Nat /\ a + Gaps(m) = b + 1 /\ Document(m, Len(l) + 1) = Gaps(m)
  <2>1. Gaps(l) \in Nat
    BY <1>2, GapsRight
  <2>. QED BY <1>3, <1>5, <2>1 DEF Gaps
<1>7. DocsIn(w, t, a, b + 1) = DocsIn(w, t, a, b) + 1
  BY DocsInMore
<1>8. Len(m) = DocsIn(w, t, a, b + 1)
  BY <1>3, <1>7 DEF Lists
<1>9. ASSUME NEW k \in 1 .. Len(m)
      PROVE  /\ m[k][1] > 0
             /\ a + Document(m, k) \in a .. b + 1
             /\ w \in InDoc(t[a + Document(m, k)])
             /\ DocsIn(w, t, a, a + Document(m, k)) = k
             /\ m[k][2] = Count(w, t[a + Document(m, k)])
  <2>1. CASE k \in 1 .. Len(l)
    <3>1. m[k] = l[k] /\ Document(m, k) = Document(l, k)
      <4>1. k \in 0 .. Len(l)
        BY <2>1
      <4>. QED BY <1>3, <1>5, <2>1, <4>1
    <3>2. a + Document(l, k) \in a .. b
      BY <2>1 DEF Lists
    <3>3. a + Document(l, k) \in a .. b + 1
      BY <3>2
    <3>. QED BY <2>1, <3>1, <3>3 DEF Lists
  <2>2. CASE k = Len(l) + 1
    <3>1. m[k] = e /\ a + Document(m, k) = b + 1 /\ k = Len(m)
      BY <1>3, <1>6, <2>2
    <3>2. b + 1 \in a .. b + 1
      OBVIOUS
    <3>3. e[1] = x /\ e[2] = Count(w, t[b + 1])
      BY DEF e
    <3>. QED BY <1>8, <3>1, <3>2, <3>3
  <2>. QED BY <1>3, <2>1, <2>2
<1>10. Lists(m, w, t, a, b + 1)
  BY <1>2, <1>8, <1>9 DEF Lists
<1>. QED BY <1>5, <1>10 DEF m, e

-----------------------------------------------------------------------------
\* The postings of a word in memory.

LEMMA PartsAdd ==
  ASSUME NEW w, NEW t \in Seq(Documents), NEW a \in 0 .. Len(t), NEW c \in a .. Len(t),
         NEW b \in c .. Len(t)
  PROVE  /\ DocsIn(w, t, a, b) = DocsIn(w, t, a, c) + DocsIn(w, t, c, b)
         /\ OccsIn(w, t, a, b) = OccsIn(w, t, a, c) + OccsIn(w, t, c, b)
         /\ DocsIn(w, t, a, c) \in 0 .. c - a /\ DocsIn(w, t, c, b) \in 0 .. b - c
         /\ OccsIn(w, t, a, c) \in Nat /\ OccsIn(w, t, c, b) \in Nat
         /\ DocsIn(w, t, c, b) <= OccsIn(w, t, c, b)
<1>1. c \in 0 .. Len(t) /\ b \in 0 .. Len(t)
  OBVIOUS
<1>2. /\ DocsWith(w, t, a) \in Nat /\ DocsWith(w, t, b) \in Nat /\ DocsWith(w, t, c) \in Nat
      /\ OccsOf(w, t, a) \in Nat /\ OccsOf(w, t, b) \in Nat /\ OccsOf(w, t, c) \in Nat
  BY <1>1, CountsRight
<1>3. DocsIn(w, t, a, c) \in 0 .. c - a /\ OccsIn(w, t, a, c) \in Nat
  BY CountsGrow
<1>4. /\ DocsIn(w, t, c, b) \in 0 .. b - c /\ OccsIn(w, t, c, b) \in Nat
      /\ DocsIn(w, t, c, b) <= OccsIn(w, t, c, b)
  BY <1>1, CountsGrow
<1>5. /\ DocsIn(w, t, a, b) = DocsIn(w, t, a, c) + DocsIn(w, t, c, b)
      /\ OccsIn(w, t, a, b) = OccsIn(w, t, a, c) + OccsIn(w, t, c, b)
  BY <1>2 DEF DocsIn, OccsIn
<1>. QED BY <1>3, <1>4, <1>5

\* The bits of the counts of n occurrences.
CountBits(n) == IF InvfLevel >= 2 THEN n ELSE 0

\* Of the chunk that follows document a of t, the documents up to c are coded:
\* m holds the postings of w, the last of them of document l, and the next one
\* goes to bit q of region r.
WordRight(w, t, a, c, r, q, l, m) ==
  /\ Lists(m, w, t, a, c)
  /\ l \in a .. c /\ Gaps(m) = l - a
  /\ q \in Int
  /\ Coded(r.b, DocsIn(w, t, a, c), l - a, q - r.start - CountBits(OccsIn(w, t, a, c)))

LEMMA WordBegins ==
  ASSUME NEW w, NEW t \in Seq(Documents), NEW a \in 0 .. Len(t),
         NEW r \in [start : Nat, end : Nat, b : Nat \ {0}]
  PROVE  WordRight(w, t, a, a, r, r.start, a, <<>>)
<1>1. Lists(<<>>, w, t, a, a)
  BY ListsNone
<1>2. Gaps(<<>>) = 0
  <2>1. <<>> \in Seq(Nat \X Nat) /\ Len(<<>>) = 0
    OBVIOUS
  <2>. QED BY <2>1, GapsRight DEF Gaps
<1>3. DocsIn(w, t, a, a) = 0 /\ OccsIn(w, t, a, a) = 0
  <2>1. DocsWith(w, t, a) \in Nat /\ OccsOf(w, t, a) \in Nat
    BY CountsRight
  <2>. QED BY <2>1 DEF DocsIn, OccsIn
<1>4. a - a = 0 /\ r.start - r.start - CountBits(0) = 0 /\ r.start \in Int /\ a \in a .. a
  BY DEF CountBits
<1>5. Coded(r.b, 0, 0, 0)
  BY CodedNone
<1>. QED BY <1>1, <1>2, <1>3, <1>4, <1>5 DEF WordRight

LEMMA WordSkips ==
  ASSUME NEW w, NEW t \in Seq(Documents), NEW a \in 0 .. Len(t), NEW c \in a .. Len(t),
         c < Len(t), Occurrences(w, t[c + 1]) = 0,
         NEW r, NEW q, NEW l, NEW m, WordRight(w, t, a, c, r, q, l, m)
  PROVE  WordRight(w, t, a, c + 1, r, q, l, m)
<1>1. w \notin InDoc(t[c + 1])
  <2>1. t[c + 1] \in Documents
    OBVIOUS
  <2>. QED BY <2>1, OccurrencesRight
<1>2. DocsIn(w, t, a, c + 1) = DocsIn(w, t, a, c) /\ OccsIn(w, t, a, c + 1) = OccsIn(w, t, a, c)
  BY <1>1, DocsInMore
<1>3. Lists(m, w, t, a, c + 1)
  BY <1>1, ListsSkip DEF WordRight
<1>4. l \in a .. c + 1
  BY DEF WordRight
<1>. QED BY <1>2, <1>3, <1>4 DEF WordRight

LEMMA WordGoesOn ==
  ASSUME NEW w, NEW t \in Seq(Documents), NEW a \in 0 .. Len(t), NEW c \in a .. Len(t),
         c < Len(t), NEW n \in Nat, n = Occurrences(w, t[c + 1]), n > 0,
         NEW r \in [start : Nat, end : Nat, b : Nat \ {0}], NEW q, NEW l, NEW m,
         WordRight(w, t, a, c, r, q, l, m)
  PROVE  WordRight(w, t, a, c + 1, r,
                   q + (BblockLength(c + 1 - l, r.b) + (IF InvfLevel >= 2 THEN n ELSE 0)),
                   c + 1, Append(m, <<c + 1 - l, IF InvfLevel >= 2 THEN n ELSE 1>>))
<1>. DEFINE x == c + 1 - l
            k == DocsIn(w, t, a, c)
            o == OccsIn(w, t, a, c)
            len == BblockLength(x, r.b)
<1>1. w \in InDoc(t[c + 1])
  <2>1. t[c + 1] \in Documents
    OBVIOUS
  <2>. QED BY <2>1, OccurrencesRight
<1>2. /\ DocsIn(w, t, a, c + 1) = k + 1 /\ OccsIn(w, t, a, c + 1) = o + n
      /\ k \in Nat /\ o \in Nat
  BY <1>1, DocsInMore
<1>3. /\ Lists(m, w, t, a, c) /\ l \in a .. c /\ Gaps(m) = l - a /\ q \in Int
      /\ Coded(r.b, k, l - a, q - r.start - CountBits(o))
  BY DEF WordRight
<1>4. x \in Nat \ {0} /\ x > 0 /\ a + Gaps(m) + x = c + 1 /\ l - a \in Nat /\ (l - a) + x = c + 1 - a
  BY <1>3
<1>5. Count(w, t[c + 1]) = IF InvfLevel >= 2 THEN n ELSE 1
  BY DEF Count
<1>. HIDE DEF x
<1>6. /\ Lists(Append(m, <<x, Count(w, t[c + 1])>>), w, t, a, c + 1)
      /\ Gaps(Append(m, <<x, Count(w, t[c + 1])>>)) = Gaps(m) + x
  <2>1. w \in InDoc(t[c + 1]) /\ Lists(m, w, t, a, c) /\ x \in Nat /\ x > 0
        /\ a + Gaps(m) + x = c + 1
    BY <1>1, <1>3, <1>4
  <2>. HIDE DEF k, o, len
  <2>. QED BY <2>1, ListsOneMore
<1>13. r.start \in Nat /\ r.b \in Nat \ {0}
  OBVIOUS
<1>7. len \in Int
  BY <1>4, <1>13, BlockLengthRight
<1>8. Coded(r.b, k + 1, (l - a) + x, (q - r.start - CountBits(o)) + len)
  <2>. DEFINE bits == q - r.start - CountBits(o)
              b == r.b
              sum == l - a
  <2>1. CountBits(o) \in Int
    BY <1>2 DEF CountBits
  <2>2. bits \in Int /\ b \in Nat \ {0} /\ sum \in Nat /\ k \in Nat /\ x \in Nat \ {0}
    <3>1. bits \in Int
      <4>1. q \in Int
        BY <1>3
      <4>. HIDE DEF o
      <4>. QED BY <1>13, <2>1, <4>1
    <3>2. b \in Nat \ {0}
      BY <1>13
    <3>3. sum \in Nat /\ x \in Nat \ {0}
      BY <1>4
    <3>4. k \in Nat
      BY <1>2
    <3>. QED BY <3>1, <3>2, <3>3, <3>4
  <2>3. Coded(b, k, sum, bits)
    BY <1>3
  <2>. HIDE DEF bits, b, sum, k, len
  <2>4. Coded(b, k + 1, sum + x, bits + BblockLength(x, b))
    BY <2>2, <2>3, CodedMore
  <2>. QED BY <2>4 DEF bits, b, sum, len
<1>9. (q + (len + (IF InvfLevel >= 2 THEN n ELSE 0))) - r.start - CountBits(o + n)
        = (q - r.start - CountBits(o)) + len
  <2>. HIDE DEF len, o
  <2>1. /\ CountBits(o + n) = CountBits(o) + (IF InvfLevel >= 2 THEN n ELSE 0)
        /\ CountBits(o) \in Int /\ (IF InvfLevel >= 2 THEN n ELSE 0) \in Int
    BY <1>2 DEF CountBits
  <2>2. q \in Int
    BY <1>3
  <2>3. r.start \in Int
    BY <1>13
  <2>4. len \in Int
    BY <1>7
  <2>5. ASSUME NEW z \in Int, NEW s \in Int, NEW y \in Int
        PROVE (q + (len + z)) - s - (y + z) = (q - s - y) + len
    BY <2>2, <2>4
  <2>. QED BY <2>1, <2>3, <2>5
<1>10. q + (len + (IF InvfLevel >= 2 THEN n ELSE 0)) \in Int
  <2>. HIDE DEF len
  <2>1. q \in Int
    BY <1>3
  <2>2. len \in Int /\ (IF InvfLevel >= 2 THEN n ELSE 0) \in Int
    BY <1>7
  <2>. QED BY <2>1, <2>2
<1>11. c + 1 \in a .. c + 1
  OBVIOUS
<1>. HIDE DEF k, o, len
<1>12. Gaps(Append(m, <<x, Count(w, t[c + 1])>>)) = c + 1 - a
  BY <1>3, <1>4, <1>6
<1>. QED BY <1>2, <1>4, <1>5, <1>6, <1>8, <1>9, <1>10, <1>11, <1>12 DEF WordRight, x, k, o, len

LEMMA CodedZero ==
  ASSUME NEW bits \in Int, Coded(1, 0, 0, bits)
  PROVE  bits <= 0
<1>1. CeilLog(1) \in Nat /\ Thresh(1) \in Int
  BY CeilLogRight, ThreshRight
<1>. QED BY <1>1 DEF Coded

(***************************************************************************)
(* However the postings of a chunk are spread over its documents, those of *)
(* a word stay in its region.                                              *)
(***************************************************************************)
LEMMA WordFits ==
  ASSUME NEW w \in Words, NEW t \in Seq(Documents), NEW a \in 0 .. Len(t), NEW docs \in Nat,
         a + docs <= Len(t), NEW c \in a .. a + docs,
         NEW r, r = Layout(docs, DocCounts(t, a, a + docs), OccCounts(t, a, a + docs)),
         NEW q, NEW l, NEW m, WordRight(w, t, a, c, r[w], q, l, m)
  PROVE  q <= r[w].end /\ r[w].end <= 8 * mem_reqd(docs, DocCounts(t, a, a + docs), OccCounts(t, a, a + docs))
<1>. DEFINE e == a + docs
            p == DocsIn(w, t, a, e)
            k == DocsIn(w, t, a, c)
            o == OccsIn(w, t, a, c)
            dc == DocCounts(t, a, e)
            oc == OccCounts(t, a, e)
<1>1. c \in a .. Len(t) /\ e \in c .. Len(t) /\ e \in a .. Len(t) /\ e - a = docs
  OBVIOUS
<1>2. /\ p = k + DocsIn(w, t, c, e) /\ OccsIn(w, t, a, e) = o + OccsIn(w, t, c, e)
      /\ k \in Nat /\ DocsIn(w, t, c, e) \in 0 .. e - c /\ o \in Nat /\ OccsIn(w, t, c, e) \in Nat
      /\ DocsIn(w, t, a, c) = 0 => OccsIn(w, t, a, c) = 0
  <2>. HIDE DEF e
  <2>. QED BY <1>1, PartsAdd, CountsGrow
<1>3. /\ MayCount(docs, dc, oc)
      /\ dc[w] = p /\ oc[w] = OccsIn(w, t, a, e)
  <2>. HIDE DEF e
  <2>1. dc \in [Words -> 0 .. docs] /\ oc \in [Words -> Nat]
    BY <1>1, CountTypes
  <2>2. ASSUME NEW v \in Words PROVE dc[v] <= oc[v] /\ (dc[v] = 0 => oc[v] = 0)
    BY <1>1, CountsGrow DEF DocCounts, OccCounts
  <2>. QED BY <2>1, <2>2 DEF DocCounts, OccCounts, MayCount
<1>4. /\ r \in Regions
      /\ r[w].end = r[w].start + RegionBits(docs, p, OccsIn(w, t, a, e))
      /\ r[w].b = IF p = 0 THEN 1 ELSE BblockInitW(docs, p)
      /\ r[w].end <= r[NumWords].end
      /\ Bytes(r[NumWords].end) = mem_reqd(docs, dc, oc)
  <2>. HIDE DEF dc, oc, e, p
  <2>1. r = Layout(docs, dc, oc)
    BY DEF dc, oc, e
  <2>. QED BY <1>3, <2>1, LayoutRight
<1>5. /\ l \in a .. c /\ q \in Int
      /\ Coded(r[w].b, k, l - a, q - r[w].start - CountBits(o))
  BY DEF WordRight
<1>6. NumWords \in Words /\ r[w] \in [start : Nat, end : Nat, b : Nat \ {0}]
      /\ r[w].start \in Nat /\ r[w].end \in Nat /\ r[w].b \in Nat \ {0}
      /\ r[NumWords].end \in Nat
  <2>1. NumWords \in Words
    BY Pass1Constants DEF Words
  <2>. QED BY <1>4, <2>1 DEF Regions
<1>7. k \in 0 .. p /\ (l - a) + (p - k) <= docs /\ l - a \in Nat /\ p \in Nat
      /\ CountBits(o) <= CountBits(OccsIn(w, t, a, e)) /\ CountBits(o) \in Nat
      /\ CountBits(OccsIn(w, t, a, e)) \in Nat
  <2>. DEFINE y == DocsIn(w, t, c, e)
              z == OccsIn(w, t, c, e)
              oe == OccsIn(w, t, a, e)
  <2>1. p = k + y /\ y \in Nat /\ y <= e - c /\ k \in Nat /\ oe = o + z /\ o \in Nat /\ z \in Nat
    BY <1>1, <1>2
  <2>2. a \in Nat /\ c \in Nat /\ e \in Nat /\ l \in a .. c /\ e - a = docs
    BY <1>1, <1>5
  <2>. HIDE DEF y, z, oe, p, k, o, e
  <2>3. k \in 0 .. p /\ (l - a) + (p - k) <= docs /\ l - a \in Nat /\ p \in Nat
    BY <2>1, <2>2
  <2>4. CountBits(o) <= CountBits(oe) /\ CountBits(o) \in Nat /\ CountBits(oe) \in Nat
    BY <2>1 DEF CountBits
  <2>. QED BY <2>3, <2>4 DEF oe
<1>8. RegionBits(docs, p, OccsIn(w, t, a, e)) =
        (IF p > 0 THEN BblockBound(docs, p) ELSE 0) + CountBits(OccsIn(w, t, a, e))
  BY DEF RegionBits, CountBits
<1>. HIDE DEF e, p, k, o
<1>9. ASSUME p > 0 PROVE q <= r[w].end
  <2>1. q - r[w].start - CountBits(o) \in Int /\ r[w].b \in Nat \ {0}
    <3>1. q \in Int /\ r[w].start \in Int /\ CountBits(o) \in Int
      BY <1>5, <1>6, <1>7
    <3>. QED BY <1>6, <3>1
  <2>2. /\ BblockBoundB(docs, p, r[w].b) \in Int
        /\ q - r[w].start - CountBits(o) <= BblockBoundB(docs, p, r[w].b)
    BY <1>5, <1>7, <2>1, CodedFits
  <2>3. BblockBoundB(docs, p, r[w].b) = BblockBound(docs, p)
    BY <1>4, <1>9 DEF BblockBound
  <2>4. RegionBits(docs, p, OccsIn(w, t, a, e)) = BblockBound(docs, p) + CountBits(OccsIn(w, t, a, e))
    BY <1>8, <1>9
  <2>5. q <= r[w].end
    <3>1. r[w].end = r[w].start + (BblockBound(docs, p) + CountBits(OccsIn(w, t, a, e)))
      BY <1>4, <2>4
    <3>2. q \in Int /\ r[w].start \in Int /\ CountBits(o) \in Int /\ CountBits(OccsIn(w, t, a, e)) \in Int
          /\ BblockBound(docs, p) \in Int
      BY <1>5, <1>6, <1>7, <2>2, <2>3
    <3>3. q - r[w].start - CountBits(o) <= BblockBound(docs, p)
      BY <2>2, <2>3
    <3>4. CountBits(o) <= CountBits(OccsIn(w, t, a, e))
      BY <1>7
    <3>. QED BY <3>1, <3>2, <3>3, <3>4
  <2>. QED BY <2>5
<1>10. ASSUME p = 0 PROVE q <= r[w].end
  <2>1. k = 0 /\ o = 0
    BY <1>2, <1>7, <1>10 DEF k, o
  <2>2. r[w].b = 1
    BY <1>4, <1>10
  <2>3. q - r[w].start - CountBits(o) <= l - a /\ l = a
    <3>1. Len(m) = 0 /\ Gaps(m) = l - a /\ m \in Seq(Nat \X Nat)
      BY <2>1 DEF WordRight, Lists, k
    <3>2. Document(m, 0) = 0
      BY <3>1, GapsRight
    <3>3. l = a
      BY <1>5, <3>1, <3>2 DEF Gaps
    <3>. QED BY <1>5, <1>6, <1>7, <2>1, <2>2, <3>3, CodedZero
  <2>4. q <= r[w].end
    <3>1. r[w].end = r[w].start + CountBits(OccsIn(w, t, a, e))
      BY <1>4, <1>6, <1>7, <1>8, <1>10
    <3>2. q \in Int /\ r[w].start \in Int /\ CountBits(o) \in Int /\ CountBits(OccsIn(w, t, a, e)) \in Int
      BY <1>5, <1>6, <1>7, SMTT(30)
    <3>3. q - r[w].start - CountBits(o) <= 0
      BY <2>3, <1>5
    <3>4. CountBits(o) <= CountBits(OccsIn(w, t, a, e))
      BY <1>7
    <3>. QED BY <3>1, <3>2, <3>3, <3>4, SMTT(30)
  <2>. QED BY <2>4
<1>11. r[w].end <= 8 * mem_reqd(docs, dc, oc)
  <2>1. r[w].end \in Int /\ r[NumWords].end \in Int /\ r[w].end <= r[NumWords].end
        /\ mem_reqd(docs, dc, oc) = Bytes(r[NumWords].end)
    BY <1>4, <1>6
  <2>2. \A z \in Int : Bytes(z) \in Int /\ z <= 8 * Bytes(z)
    BY DEF Bytes
  <2>3. Bytes(r[NumWords].end) \in Int /\ r[NumWords].end <= 8 * Bytes(r[NumWords].end)
    BY <2>1, <2>2
  <2>. HIDE DEF dc, oc
  <2>. QED BY <2>1, <2>3
<1>. QED BY <1>7, <1>9, <1>10, <1>11 DEF dc, oc, e

-----------------------------------------------------------------------------
\* The second pass: the chunk in memory.

ChunkStart == ChunkEnd(chunks, chunk - 1)

\* Regions for the documents of d, which follow document a of t.
RegionsOf(d, t, a) == Layout(d.docs, DocCounts(t, a, a + d.docs), OccCounts(t, a, a + d.docs))

\* The second pass is in step with the chunk file.
CountersRight ==
  /\ ChunkLimit \in Nat \cup {-1}
  /\ chunk \in 0 .. Len(chunks) /\ callnum \in Nat /\ docs_left \in Nat
  /\ ChunkLimit >= 0 => ended
  /\ ChunkLimit = -1 => chunk = 0
  /\ callnum + docs_left = ChunkEnd(chunks, chunk)
  /\ chunk > 0 => docs_left <= chunks[chunk].docs

\* What is in memory is the postings of the documents of the chunk so far.
RegionsRight ==
  /\ chunk = 0 => BufToUse = 0 /\ \A w \in Words : ptr[w] = 0 /\ region[w].end = 0
  /\ chunk > 0 =>
       /\ BufToUse = chunks[chunk].mem
       /\ region = RegionsOf(chunks[chunk], text, ChunkStart)
       /\ \A w \in Words :
            WordRight(w, text, ChunkStart, callnum, region[w], ptr[w], last[w], memory[w])

LEMMA ChunkFacts ==
  ASSUME Pass1Right, ended, NEW i \in 1 .. Len(chunks)
  PROVE  /\ chunks[i] \in ChunkDescriptions /\ chunks[i].docs \in Nat \ {0}
         /\ i - 1 \in 0 .. Len(chunks)
         /\ ChunkEnd(chunks, i - 1) \in 0 .. Len(text)
         /\ ChunkEnd(chunks, i) = ChunkEnd(chunks, i - 1) + chunks[i].docs
         /\ ChunkEnd(chunks, i) \in 0 .. Len(text)
         /\ Describes(chunks[i], text, first_occr, ChunkEnd(chunks, i - 1))
         /\ chunks[i].mem <= max_mem
<1>1. /\ chunks \in Seq(ChunkDescriptions) /\ ChunkEnd(chunks, Len(chunks)) = Len(text)
      /\ AllDescribed(chunks, text, first_occr, max_mem)
  BY DEF Pass1Right, ChunksRight
<1>2. i \in DOMAIN chunks /\ i \in 0 .. Len(chunks) /\ chunks[i] \in ChunkDescriptions
  BY <1>1
<1>3. chunks[i].docs \in Nat \ {0}
  BY <1>2, ChunkTypes
<1>4. /\ i - 1 \in 0 .. Len(chunks)
      /\ ChunkEnd(chunks, i) = ChunkEnd(chunks, i - 1) + chunks[i].docs
      /\ ChunkEnd(chunks, i) \in Nat /\ ChunkEnd(chunks, i) <= Len(text)
  BY <1>1, <1>2, ChunkEndRight
<1>5. ChunkEnd(chunks, i - 1) \in Nat /\ ChunkEnd(chunks, i - 1) <= Len(text)
  BY <1>1, <1>4, ChunkEndRight
<1>6. Describes(chunks[i], text, first_occr, ChunkEnd(chunks, i - 1)) /\ chunks[i].mem <= max_mem
  BY <1>1, <1>2 DEF AllDescribed
<1>7. Len(text) \in Nat
  BY DEF Pass1Right
<1>. QED BY <1>2, <1>3, <1>4, <1>5, <1>6, <1>7

LEMMA CountsArePossible ==
  ASSUME NEW t \in Seq(Documents), NEW a \in 0 .. Len(t), NEW docs \in Nat, a + docs <= Len(t)
  PROVE  MayCount(docs, DocCounts(t, a, a + docs), OccCounts(t, a, a + docs))
<1>. DEFINE e == a + docs
            dc == DocCounts(t, a, e)
            oc == OccCounts(t, a, e)
<1>1. e \in a .. Len(t) /\ e - a = docs
  OBVIOUS
<1>. HIDE DEF e
<1>2. dc \in [Words -> 0 .. docs] /\ oc \in [Words -> Nat]
  BY <1>1, CountTypes
<1>3. ASSUME NEW v \in Words PROVE dc[v] <= oc[v] /\ (dc[v] = 0 => oc[v] = 0)
  BY <1>1, CountsGrow DEF DocCounts, OccCounts
<1>4. MayCount(docs, dc, oc)
  <2>. HIDE DEF dc, oc
  <2>. QED BY <1>2, <1>3 DEF MayCount
<1>. QED BY <1>4 DEF e

\* Documents that are left are in a chunk that is left.
LEMMA ChunksLeft ==
  ASSUME Pass1Right, CountersRight, ChunkLimit >= 0, docs_left = 0
  PROVE  /\ callnum = ChunkEnd(chunks, chunk) /\ Len(chunks) \in Nat /\ ended
         /\ callnum < N => chunk < Len(chunks)
         /\ callnum <= N
         /\ chunk < Len(chunks) =>
              chunk + 1 \in 1 .. Len(chunks) /\ next_docs_left = chunks[chunk + 1].docs
         /\ next_docs_left = 0 => callnum = N
<1>1. /\ callnum \in Nat /\ callnum + docs_left = ChunkEnd(chunks, chunk)
      /\ chunk \in 0 .. Len(chunks) /\ ended
  BY DEF CountersRight
<1>2. callnum = ChunkEnd(chunks, chunk)
  BY <1>1
<1>3. chunks \in Seq(ChunkDescriptions) /\ ChunkEnd(chunks, Len(chunks)) = N /\ N \in Nat
  BY <1>1 DEF Pass1Right, N
<1>4. Len(chunks) \in Nat
  BY <1>3
<1>5. callnum <= N
  BY <1>1, <1>2, <1>3, ChunkEndRight
<1>6. callnum < N => chunk < Len(chunks)
  BY <1>1, <1>2, <1>3, <1>4
<1>7. chunk < Len(chunks) => /\ chunk + 1 \in 1 .. Len(chunks) /\ next_docs_left = chunks[chunk + 1].docs
  BY <1>1, <1>4 DEF next_docs_left
<1>8. ASSUME next_docs_left = 0 PROVE callnum = N
  <2>1. ~(chunk < Len(chunks))
    <3>1. SUFFICES ASSUME chunk < Len(chunks) PROVE FALSE
      OBVIOUS
    <3>2. chunk + 1 \in 1 .. Len(chunks) /\ chunks[chunk + 1].docs = 0
      BY <1>7, <1>8, <3>1
    <3>3. chunks[chunk + 1].docs \in Nat \ {0}
      BY <1>1, <3>2, ChunkFacts
    <3>. QED BY <3>2, <3>3
  <2>. QED BY <1>1, <1>3, <1>4, <1>5, <1>6, <2>1
<1>. QED BY <1>1, <1>2, <1>4, <1>5, <1>6, <1>7, <1>8

(***************************************************************************)
(* LoadCounts finds the next description, and the memory the first pass    *)
(* said it needs is the memory it does need.                               *)
(***************************************************************************)
LEMMA UsableChunk ==
  ASSUME Pass1Right, CountersRight, ChunkLimit >= 0, docs_left = 0, chunk < Len(chunks)
  PROVE  /\ ChunkIsUsable
         /\ Listed(chunks[chunk + 1]) = DocCounts(text, callnum, callnum + chunks[chunk + 1].docs)
         /\ Occurring(chunks[chunk + 1]) = OccCounts(text, callnum, callnum + chunks[chunk + 1].docs)
<1>. DEFINE d == chunks[chunk + 1]
            e == callnum + d.docs
            dc == DocCounts(text, callnum, e)
            oc == OccCounts(text, callnum, e)
            r == Layout(d.docs, dc, oc)
<1>1. /\ chunk + 1 \in 1 .. Len(chunks) /\ next_docs_left = d.docs
      /\ callnum = ChunkEnd(chunks, chunk) /\ ended /\ chunk \in Nat
  BY ChunksLeft DEF CountersRight
<1>2. (chunk + 1) - 1 = chunk
  BY <1>1
<1>3. /\ d \in ChunkDescriptions /\ d.docs \in Nat \ {0}
      /\ callnum \in 0 .. Len(text) /\ Describes(d, text, first_occr, callnum)
      /\ e = ChunkEnd(chunks, chunk + 1) /\ e \in 0 .. Len(text)
  <2>1. /\ d \in ChunkDescriptions /\ d.docs \in Nat \ {0}
        /\ ChunkEnd(chunks, (chunk + 1) - 1) \in 0 .. Len(text)
        /\ ChunkEnd(chunks, chunk + 1) = ChunkEnd(chunks, (chunk + 1) - 1) + d.docs
        /\ ChunkEnd(chunks, chunk + 1) \in 0 .. Len(text)
        /\ Describes(d, text, first_occr, ChunkEnd(chunks, (chunk + 1) - 1))
    BY <1>1, ChunkFacts
  <2>. HIDE DEF d
  <2>. QED BY <1>1, <1>2, <2>1
<1>4. text \in Seq(Documents) /\ first_occr \in Seq(Words) /\ Len(text) \in Nat
  BY DEF Pass1Right
<1>5. Listed(d) = dc /\ Occurring(d) = oc
  <2>. HIDE DEF d
  <2>. QED BY <1>3, <1>4, ListedRight
<1>6. e \in callnum .. Len(text) /\ e - callnum = d.docs
  <2>. HIDE DEF d
  <2>. QED BY <1>3, <1>4
<1>7. MayCount(d.docs, dc, oc)
  <2>1. d.docs \in Nat /\ callnum + d.docs <= Len(text)
    BY <1>3, <1>4
  <2>. HIDE DEF d
  <2>. QED BY <1>3, <1>4, <2>1, CountsArePossible
<1>8. NumWords \in Words
  <2>1. first_occr \in Seq(Words) /\ first_occr # <<>>
    BY <1>1 DEF Pass1Right
  <2>2. Words # {}
    BY <2>1
  <2>. QED BY <2>2, Pass1Constants DEF Words
<1>9. Bytes(r[NumWords].end) = mem_reqd(d.docs, dc, oc)
  <2>1. d.docs \in Nat
    BY <1>3
  <2>2. r = Layout(d.docs, dc, oc)
    OBVIOUS
  <2>. HIDE DEF d, e, dc, oc, r
  <2>. QED BY <1>7, <1>8, <2>1, <2>2, LayoutRight
<1>10. mem_reqd(d.docs, dc, oc) = d.mem /\ d.mem \in Int
  BY <1>3, ChunkTypes DEF Describes
<1>11. d.docs > 0
  BY <1>3
<1>. HIDE DEF dc, oc
<1>12. ChunkIsUsable
  <2>1. Bytes(Layout(d.docs, Listed(d), Occurring(d))[NumWords].end) <= d.mem
    <3>. HIDE DEF d
    <3>. QED BY <1>5, <1>9, <1>10
  <2>2. next_docs_left > 0
    BY <1>1, <1>11
  <2>. QED BY <2>1, <2>2 DEF ChunkIsUsable
<1>. QED BY <1>5, <1>12 DEF dc, oc

(***************************************************************************)
(* Neither FatalError of LoadCounts is reached.                            *)
(***************************************************************************)
LEMMA NeverFatalHolds ==
  ASSUME Pass1Right, CountersRight
  PROVE  NeverFatal
BY ChunksLeft, UsableChunk DEF NeverFatal

LEMMA ChunkInMemory ==
  ASSUME Pass1Right, CountersRight, chunk > 0
  PROVE  /\ chunks[chunk].docs \in Nat \ {0} /\ ChunkStart \in 0 .. Len(text) /\ ended
         /\ ChunkStart + chunks[chunk].docs = ChunkEnd(chunks, chunk)
         /\ ChunkStart + chunks[chunk].docs <= Len(text)
         /\ callnum \in ChunkStart .. ChunkStart + chunks[chunk].docs
         /\ chunks[chunk].mem =
              mem_reqd(chunks[chunk].docs,
                       DocCounts(text, ChunkStart, ChunkStart + chunks[chunk].docs),
                       OccCounts(text, ChunkStart, ChunkStart + chunks[chunk].docs))
         /\ chunks[chunk].mem <= max_mem
<1>. DEFINE d == chunks[chunk]
            a == ChunkStart
<1>1. /\ chunk \in 1 .. Len(chunks) /\ callnum \in Nat /\ docs_left \in Nat /\ ended
      /\ callnum + docs_left = ChunkEnd(chunks, chunk) /\ docs_left <= d.docs
  BY DEF CountersRight
<1>2. /\ d.docs \in Nat \ {0} /\ a \in 0 .. Len(text)
      /\ ChunkEnd(chunks, chunk) = a + d.docs
      /\ ChunkEnd(chunks, chunk) \in 0 .. Len(text)
      /\ Describes(d, text, first_occr, a) /\ d.mem <= max_mem
  BY <1>1, ChunkFacts DEF ChunkStart
<1>3. Len(text) \in Nat
  BY DEF Pass1Right
<1>. HIDE DEF d, a
<1>4. callnum \in a .. a + d.docs /\ a + d.docs <= Len(text)
  BY <1>1, <1>2, <1>3
<1>5. d.mem = mem_reqd(d.docs, DocCounts(text, a, a + d.docs), OccCounts(text, a, a + d.docs))
  BY <1>2 DEF Describes
<1>. QED BY <1>1, <1>2, <1>4, <1>5 DEF d, a

(***************************************************************************)
(* The regions in memory hold what is written to them, and the buffer      *)
(* holds the regions.                                                      *)
(***************************************************************************)
LEMMA MemoryHolds ==
  ASSUME Pass1Right, CountersRight, RegionsRight
  PROVE  /\ \A w \in Words : ptr[w] <= region[w].end /\ region[w].end <= 8 * BufToUse
         /\ BufToUse <= max_mem
<1>. DEFINE d == chunks[chunk]
            a == ChunkStart
            dc == DocCounts(text, a, a + d.docs)
            oc == OccCounts(text, a, a + d.docs)
<1>1. chunk \in Nat /\ text \in Seq(Documents) /\ max_mem \in Nat
  BY DEF CountersRight, Pass1Right
<1>2. CASE chunk = 0
  BY <1>1, <1>2 DEF RegionsRight
<1>3. CASE chunk > 0
  <2>1. /\ d.docs \in Nat /\ a \in 0 .. Len(text) /\ a + d.docs <= Len(text)
        /\ callnum \in a .. a + d.docs
        /\ d.mem = mem_reqd(d.docs, dc, oc) /\ d.mem <= max_mem
    BY <1>3, ChunkInMemory
  <2>2. /\ BufToUse = d.mem /\ region = Layout(d.docs, dc, oc)
        /\ \A w \in Words : WordRight(w, text, a, callnum, region[w], ptr[w], last[w], memory[w])
    BY <1>3 DEF RegionsRight, RegionsOf
  <2>. HIDE DEF a, d
  <2>3. ASSUME NEW w \in Words
        PROVE  ptr[w] <= region[w].end /\ region[w].end <= 8 * mem_reqd(d.docs, dc, oc)
    <3>1. WordRight(w, text, a, callnum, region[w], ptr[w], last[w], memory[w])
      BY <2>2
    <3>. QED BY <1>1, <2>1, <2>2, <3>1, WordFits
  <2>. HIDE DEF dc, oc
  <2>. QED BY <2>1, <2>2, <2>3
<1>. QED BY <1>1, <1>2, <1>3

LEMMA Pass2Begins == InvfInit => CountersRight /\ RegionsRight
<1>. SUFFICES ASSUME InvfInit PROVE CountersRight /\ RegionsRight
  OBVIOUS
<1>1. /\ chunks = <<>> /\ ChunkLimit = -1 /\ callnum = 0 /\ docs_left = 0 /\ chunk = 0
      /\ BufToUse = 0 /\ \A w \in Words : ptr[w] = 0 /\ region[w].end = 0
  BY DEF InvfInit, Pass1Init, Pass2Init
<1>2. <<>> \in Seq(ChunkDescriptions) /\ Len(<<>>) = 0
  OBVIOUS
<1>3. ChunkEnd(chunks, 0) = 0
  BY <1>1, <1>2, ChunkEndRight
<1>4. CountersRight
  BY <1>1, <1>2, <1>3 DEF CountersRight
<1>. QED BY <1>1, <1>4 DEF RegionsRight

LEMMA Pass1KeepsPass2 ==
  ASSUME Pass1Right, Pass1Right', CountersRight, RegionsRight, Pass1Next, UNCHANGED pass2
  PROVE  CountersRight' /\ RegionsRight'
<1>1. ~ended
  BY DEF Pass1Next, ReadDocument, done_ivf_1
<1>2. ChunkLimit = -1 /\ chunk = 0 /\ callnum \in Nat /\ docs_left \in Nat
      /\ callnum + docs_left = ChunkEnd(chunks, 0) /\ chunks \in Seq(ChunkDescriptions)
  BY <1>1 DEF CountersRight, Pass1Right
<1>3. callnum + docs_left = 0
  BY <1>2, ChunkEndRight
<1>4. /\ ChunkLimit' = ChunkLimit /\ chunk' = chunk /\ callnum' = callnum /\ docs_left' = docs_left
      /\ BufToUse' = BufToUse /\ ptr' = ptr /\ region' = region
  BY DEF pass2, memvars
<1>5. chunks' \in Seq(ChunkDescriptions)
  BY DEF Pass1Right
<1>6. ChunkEnd(chunks', 0) = 0 /\ 0 \in 0 .. Len(chunks')
  BY <1>5, ChunkEndRight
<1>7. CountersRight'
  BY <1>2, <1>3, <1>4, <1>6 DEF CountersRight
<1>8. RegionsRight'
  BY <1>2, <1>4 DEF RegionsRight
<1>. QED BY <1>7, <1>8

LEMMA StartKeepsPass2 ==
  ASSUME CountersRight, RegionsRight, init_ivf_2
  PROVE  CountersRight' /\ RegionsRight'
<1>1. /\ ended /\ ChunkLimit = -1 /\ ChunkLimit' \in Nat
      /\ text' = text /\ chunks' = chunks /\ ended' = ended
      /\ chunk' = chunk /\ callnum' = callnum /\ docs_left' = docs_left
      /\ BufToUse' = BufToUse /\ ptr' = ptr /\ region' = region
  BY Pass2Constants DEF init_ivf_2, pass1, memvars
<1>2. chunk = 0
  BY <1>1 DEF CountersRight
<1>3. CountersRight'
  BY <1>1, <1>2 DEF CountersRight
<1>4. RegionsRight'
  BY <1>1, <1>2 DEF RegionsRight
<1>. QED BY <1>3, <1>4

LEMMA LoadKeepsPass2 ==
  ASSUME Pass1Right, CountersRight, RegionsRight, LoadCounts
  PROVE  CountersRight' /\ RegionsRight'
<1>. DEFINE d == chunks[chunk + 1]
            dc == DocCounts(text, callnum, callnum + d.docs)
            oc == OccCounts(text, callnum, callnum + d.docs)
<1>1. /\ ChunkLimit >= 0 /\ callnum < N /\ docs_left = 0
      /\ region' = Layout(d.docs, Listed(d), Occurring(d))
      /\ ptr' = [w \in Words |-> region'[w].start]
      /\ last' = [w \in Words |-> callnum]
      /\ memory' = [w \in Words |-> <<>>]
      /\ docs_left' = d.docs /\ BufToUse' = d.mem /\ chunk' = chunk + 1
      /\ text' = text /\ chunks' = chunks /\ ended' = ended
      /\ ChunkLimit' = ChunkLimit /\ callnum' = callnum
  BY DEF LoadCounts, pass1
<1>2. /\ chunk < Len(chunks) /\ chunk + 1 \in 1 .. Len(chunks) /\ ended
      /\ callnum = ChunkEnd(chunks, chunk)
  BY <1>1, ChunksLeft
<1>3. chunk \in Nat /\ callnum \in Nat /\ ChunkLimit \in Nat \cup {-1} /\ (chunk + 1) - 1 = chunk
  BY DEF CountersRight
<1>4. /\ d.docs \in Nat \ {0} /\ callnum \in 0 .. Len(text)
      /\ ChunkEnd(chunks, chunk + 1) = callnum + d.docs
      /\ callnum + d.docs \in 0 .. Len(text)
  BY <1>2, <1>3, ChunkFacts
<1>5. Listed(d) = dc /\ Occurring(d) = oc
  BY <1>1, <1>2, UsableChunk
<1>6. CountersRight'
  <2>. HIDE DEF d
  <2>. QED BY <1>1, <1>2, <1>3, <1>4 DEF CountersRight, d
<1>7. ChunkStart' = callnum
  BY <1>1, <1>2, <1>3 DEF ChunkStart
<1>8. region' = RegionsOf(d, text, callnum)
  BY <1>1, <1>5 DEF RegionsOf
<1>9. text \in Seq(Documents) /\ Len(text) \in Nat
  BY DEF Pass1Right
<1>10. region' \in Regions
  <2>1. d.docs \in Nat
    BY <1>4
  <2>5. callnum + d.docs <= Len(text)
    BY <1>3, <1>4, <1>9
  <2>3. MayCount(d.docs, dc, oc)
    BY <1>4, <1>9, <2>5, CountsArePossible
  <2>4. region' = Layout(d.docs, dc, oc)
    BY <1>1, <1>5
  <2>. HIDE DEF d, dc, oc
  <2>. QED BY <2>1, <2>3, <2>4, LayoutRight
<1>11. ASSUME NEW w \in Words
       PROVE  WordRight(w, text, callnum, callnum, region'[w], ptr'[w], last'[w], memory'[w])
  <2>1. region'[w] \in [start : Nat, end : Nat, b : Nat \ {0}]
    BY <1>10 DEF Regions
  <2>2. ptr'[w] = region'[w].start /\ last'[w] = callnum /\ memory'[w] = <<>>
    BY <1>1
  <2>. HIDE DEF d
  <2>3. WordRight(w, text, callnum, callnum, region'[w], region'[w].start, callnum, <<>>)
    BY <1>4, <1>9, <2>1, WordBegins
  <2>. QED BY <2>2, <2>3
<1>12. RegionsRight'
  <2>1. chunk' > 0 /\ chunk' # 0 /\ chunks'[chunk'] = d
    BY <1>1, <1>3
  <2>. HIDE DEF d
  <2>2. RegionsOf(chunks'[chunk'], text', ChunkStart') = RegionsOf(d, text, callnum)
    BY <1>1, <1>7, <2>1
  <2>. QED BY <1>1, <1>7, <1>8, <1>11, <2>1, <2>2 DEF RegionsRight
<1>. QED BY <1>6, <1>12

LEMMA DocumentKeepsPass2 ==
  ASSUME Pass1Right, CountersRight, RegionsRight, process_doc_2
  PROVE  CountersRight' /\ RegionsRight'
<1>. DEFINE doc == text[callnum + 1]
            a == ChunkStart
            d == chunks[chunk]
<1>1. /\ ChunkLimit >= 0 /\ docs_left > 0
      /\ callnum' = callnum + 1 /\ docs_left' = docs_left - 1
      /\ ptr' = [w \in Words |->
           IF Occurrences(w, doc) > 0
           THEN ptr[w] + (BblockLength(callnum + 1 - last[w], region[w].b)
                            + (IF InvfLevel >= 2 THEN Occurrences(w, doc) ELSE 0))
           ELSE ptr[w]]
      /\ last' = [w \in Words |-> IF Occurrences(w, doc) > 0 THEN callnum + 1 ELSE last[w]]
      /\ memory' = [w \in Words |->
           IF Occurrences(w, doc) = 0 THEN memory[w]
           ELSE Append(memory[w], <<callnum + 1 - last[w],
                                    IF InvfLevel >= 2 THEN Occurrences(w, doc) ELSE 1>>)]
      /\ text' = text /\ chunks' = chunks /\ ended' = ended
      /\ ChunkLimit' = ChunkLimit /\ chunk' = chunk /\ BufToUse' = BufToUse /\ region' = region
  BY DEF process_doc_2, pass1
<1>2. /\ callnum \in Nat /\ docs_left \in Nat /\ callnum + docs_left = ChunkEnd(chunks, chunk)
      /\ chunk \in 0 .. Len(chunks) /\ ended /\ (chunk > 0 => docs_left <= d.docs)
      /\ ChunkLimit \in Nat \cup {-1}
  BY <1>1 DEF CountersRight
<1>3. text \in Seq(Documents) /\ Len(text) \in Nat /\ chunks \in Seq(ChunkDescriptions)
  BY DEF Pass1Right
<1>4. chunk > 0
  <2>1. ChunkEnd(chunks, 0) = 0
    BY <1>3, ChunkEndRight
  <2>. QED BY <1>1, <1>2, <2>1
<1>5. /\ d.docs \in Nat \ {0} /\ a \in 0 .. Len(text) /\ a + d.docs = ChunkEnd(chunks, chunk)
      /\ a + d.docs <= Len(text) /\ callnum \in a .. a + d.docs
  BY <1>4, ChunkInMemory
<1>. HIDE DEF a, d
<1>6. callnum \in a .. Len(text) /\ callnum < Len(text)
  BY <1>1, <1>2, <1>3, <1>5
<1>7. CountersRight'
  BY <1>1, <1>2, <1>4, <1>5 DEF CountersRight, d
<1>8. ChunkStart' = a
  BY <1>1 DEF ChunkStart, a
<1>9. region \in Regions
  <2>1. d.docs \in Nat
    BY <1>5
  <2>2. MayCount(d.docs, DocCounts(text, a, a + d.docs), OccCounts(text, a, a + d.docs))
    BY <1>3, <1>5, <2>1, CountsArePossible
  <2>3. region = Layout(d.docs, DocCounts(text, a, a + d.docs), OccCounts(text, a, a + d.docs))
    BY <1>4 DEF RegionsRight, RegionsOf, a, d
  <2>. QED BY <2>1, <2>2, <2>3, LayoutRight
<1>10. ASSUME NEW w \in Words
       PROVE  WordRight(w, text, a, callnum + 1, region[w], ptr'[w], last'[w], memory'[w])
  <2>1. WordRight(w, text, a, callnum, region[w], ptr[w], last[w], memory[w])
    BY <1>4 DEF RegionsRight, a
  <2>2. doc \in Documents
    BY <1>2, <1>3, <1>6
  <2>3. Occurrences(w, doc) \in Nat
    BY <2>2, OccurrencesRight
  <2>4. region[w] \in [start : Nat, end : Nat, b : Nat \ {0}]
    BY <1>9 DEF Regions
  <2>5. CASE Occurrences(w, doc) = 0
    <3>1. ptr'[w] = ptr[w] /\ last'[w] = last[w] /\ memory'[w] = memory[w]
      BY <1>1, <2>5
    <3>2. WordRight(w, text, a, callnum + 1, region[w], ptr[w], last[w], memory[w])
      BY <1>3, <1>5, <1>6, <2>1, <2>5, WordSkips
    <3>. QED BY <3>1, <3>2
  <2>6. CASE Occurrences(w, doc) > 0
    <3>. DEFINE n == Occurrences(w, doc)
    <3>1. /\ ptr'[w] = ptr[w] + (BblockLength(callnum + 1 - last[w], region[w].b)
                                   + (IF InvfLevel >= 2 THEN n ELSE 0))
          /\ last'[w] = callnum + 1
          /\ memory'[w] = Append(memory[w], <<callnum + 1 - last[w],
                                              IF InvfLevel >= 2 THEN n ELSE 1>>)
      BY <1>1, <2>3, <2>6
    <3>2. n = Occurrences(w, text[callnum + 1]) /\ n \in Nat /\ n > 0
      BY <2>3, <2>6
    <3>. HIDE DEF n, doc
    <3>3. WordRight(w, text, a, callnum + 1, region[w],
                    ptr[w] + (BblockLength(callnum + 1 - last[w], region[w].b)
                                + (IF InvfLevel >= 2 THEN n ELSE 0)),
                    callnum + 1, Append(memory[w], <<callnum + 1 - last[w],
                                                     IF InvfLevel >= 2 THEN n ELSE 1>>))
      BY <1>3, <1>5, <1>6, <2>1, <2>4, <3>2, WordGoesOn
    <3>. QED BY <3>1, <3>3
  <2>. QED BY <2>3, <2>5, <2>6
<1>11. RegionsRight'
  <2>1. chunk' > 0 /\ chunk' # 0 /\ chunks'[chunk'] = d
    BY <1>1, <1>2, <1>4 DEF d
  <2>2. BufToUse = d.mem /\ region = RegionsOf(d, text, a)
    BY <1>4 DEF RegionsRight, a, d
  <2>. HIDE DEF doc
  <2>. QED BY <1>1, <1>8, <1>10, <2>1, <2>2 DEF RegionsRight
<1>. QED BY <1>7, <1>11

-----------------------------------------------------------------------------
\* What is kept of the chunks until the merge.

Images == [region : Regions, memory : [Words -> Seq(Nat \X Nat)]]

SavedChunks ==
  [N : Nat, start_doc : Nat, params : [Words -> [p : Nat, delta : Int]], image : Images \cup {Unread}]

\* c is kept of the chunk that d describes, which follows document a of t.
SavedRight(c, d, t, a) ==
  /\ c.N = d.docs /\ c.start_doc = a
  /\ c.params = Parameters(DocCounts(t, a, a + d.docs), RegionsOf(d, t, a))

\* x is the memory after the last document of the chunk.
ImageRight(x, d, t, a) ==
  /\ x.region = RegionsOf(d, t, a)
  /\ \A w \in Words : Lists(x.memory[w], w, t, a, a + d.docs)

\* The chunks of data are the last of the first n of cs; the last of them may
\* still be in memory.
AllSaved(data, cs, n, t, done) ==
  \A c \in 1 .. Len(data) :
    LET i == (n - Len(data)) + c
    IN /\ SavedRight(data[c], cs[i], t, ChunkEnd(cs, i - 1))
       /\ done \/ c < Len(data) => ImageRight(data[c].image, cs[i], t, ChunkEnd(cs, i - 1))

DataRight ==
  /\ chunk_data \in Seq(SavedChunks) /\ disk_chunks \in Nat
  /\ Len(chunk_data) = disk_chunks + (IF docs_left > 0 THEN 1 ELSE 0)
  /\ Len(chunk_data) <= chunk
  /\ disk_chunks <= IF ChunkLimit = -1 THEN 0 ELSE ChunkLimit
  /\ AllSaved(chunk_data, chunks, chunk, text, docs_left = 0)

(***************************************************************************)
(* The table of chunks, which has two places more than chunks may wait on  *)
(* disk, never overflows.                                                  *)
(***************************************************************************)
LEMMA TablesHold ==
  ASSUME Pass1Right, CountersRight, RegionsRight, DataRight
  PROVE  TablesSuffice
<1>1. BufToUse <= max_mem
  BY MemoryHolds
<1>2. ChunkLimit \in Nat \cup {-1} /\ docs_left \in Nat
  BY DEF CountersRight
<1>3. /\ disk_chunks \in Nat /\ Len(chunk_data) = disk_chunks + (IF docs_left > 0 THEN 1 ELSE 0)
      /\ disk_chunks <= IF ChunkLimit = -1 THEN 0 ELSE ChunkLimit
  BY DEF DataRight
<1>4. Len(chunk_data) <= ChunkLimit + 2
  <2>1. CASE ChunkLimit = -1
    <3>1. disk_chunks = 0
      BY <1>3, <2>1
    <3>2. CASE docs_left > 0
      BY <1>3, <2>1, <3>1, <3>2
    <3>3. CASE ~(docs_left > 0)
      BY <1>3, <2>1, <3>1, <3>3
    <3>. QED BY <3>2, <3>3
  <2>2. CASE ChunkLimit # -1
    BY <1>2, <1>3, <2>2
  <2>. QED BY <2>1, <2>2
<1>5. disk_chunks = Len(chunk_data) - (IF docs_left > 0 THEN 1 ELSE 0)
  BY <1>3
<1>. QED BY <1>1, <1>4, <1>5 DEF TablesSuffice

LEMMA DataAdded ==
  ASSUME NEW data \in Seq(SavedChunks), NEW c \in SavedChunks, NEW cs, NEW n \in Nat, NEW t,
         AllSaved(data, cs, n, t, TRUE), SavedRight(c, cs[n + 1], t, ChunkEnd(cs, n))
  PROVE  AllSaved(Append(data, c), cs, n + 1, t, FALSE)
<1>. DEFINE more == Append(data, c)
            at(i) == (n - Len(data)) + i
<1>1. /\ Len(data) \in Nat /\ Len(more) = Len(data) + 1 /\ more[Len(data) + 1] = c
      /\ \A i \in 1 .. Len(data) : more[i] = data[i]
  OBVIOUS
<1>. HIDE DEF more
<1>2. ASSUME NEW i \in 1 .. Len(more)
      PROVE  /\ SavedRight(more[i], cs[at(i)], t, ChunkEnd(cs, at(i) - 1))
             /\ i < Len(more) => ImageRight(more[i].image, cs[at(i)], t, ChunkEnd(cs, at(i) - 1))
  <2>1. CASE i \in 1 .. Len(data)
    <3>1. more[i] = data[i]
      BY <1>1, <2>1
    <3>2. /\ SavedRight(data[i], cs[at(i)], t, ChunkEnd(cs, at(i) - 1))
          /\ ImageRight(data[i].image, cs[at(i)], t, ChunkEnd(cs, at(i) - 1))
      BY <2>1 DEF AllSaved
    <3>. HIDE DEF at
    <3>. QED BY <3>1, <3>2
  <2>2. CASE i = Len(data) + 1
    <3>1. at(i) = n + 1 /\ at(i) - 1 = n /\ more[i] = c /\ ~(i < Len(more))
      BY <1>1, <2>2
    <3>. HIDE DEF at
    <3>. QED BY <3>1
  <2>. QED BY <1>1, <2>1, <2>2
<1>3. AllSaved(more, cs, n + 1, t, FALSE)
  <2>. SUFFICES ASSUME NEW i \in 1 .. Len(more)
                PROVE  LET k == ((n + 1) - Len(more)) + i
                       IN /\ SavedRight(more[i], cs[k], t, ChunkEnd(cs, k - 1))
                          /\ FALSE \/ i < Len(more) =>
                               ImageRight(more[i].image, cs[k], t, ChunkEnd(cs, k - 1))
    BY DEF AllSaved
  <2>1. ((n + 1) - Len(more)) + i = at(i)
    BY <1>1
  <2>. HIDE DEF at
  <2>. QED BY <1>2, <2>1
<1>. QED BY <1>3 DEF more

LEMMA DataFilled ==
  ASSUME NEW data \in Seq(SavedChunks), Len(data) > 0, NEW cs, NEW n \in Nat, NEW t,
         NEW x \in Images, AllSaved(data, cs, n, t, FALSE),
         ImageRight(x, cs[n], t, ChunkEnd(cs, n - 1))
  PROVE  /\ [data EXCEPT ![Len(data)].image = x] \in Seq(SavedChunks)
         /\ Len([data EXCEPT ![Len(data)].image = x]) = Len(data)
         /\ AllSaved([data EXCEPT ![Len(data)].image = x], cs, n, t, TRUE)
<1>. DEFINE more == [data EXCEPT ![Len(data)].image = x]
            c == [data[Len(data)] EXCEPT !.image = x]
            at(i) == (n - Len(data)) + i
<1>1. /\ Len(data) \in 1 .. Len(data) /\ more = [data EXCEPT ![Len(data)] = c]
      /\ data[Len(data)] \in SavedChunks
  OBVIOUS
<1>2. /\ c \in SavedChunks /\ c.image = x /\ c.N = data[Len(data)].N
      /\ c.start_doc = data[Len(data)].start_doc /\ c.params = data[Len(data)].params
  BY <1>1 DEF SavedChunks
<1>3. /\ more \in Seq(SavedChunks) /\ Len(more) = Len(data) /\ more[Len(data)] = c
      /\ \A i \in 1 .. Len(data) : i # Len(data) => more[i] = data[i]
  <2>. HIDE DEF c
  <2>. QED BY <1>1, <1>2
<1>. HIDE DEF more, c
<1>4. ASSUME NEW i \in 1 .. Len(data)
      PROVE  /\ SavedRight(more[i], cs[at(i)], t, ChunkEnd(cs, at(i) - 1))
             /\ ImageRight(more[i].image, cs[at(i)], t, ChunkEnd(cs, at(i) - 1))
  <2>1. /\ SavedRight(data[i], cs[at(i)], t, ChunkEnd(cs, at(i) - 1))
        /\ i < Len(data) => ImageRight(data[i].image, cs[at(i)], t, ChunkEnd(cs, at(i) - 1))
    BY DEF AllSaved
  <2>2. CASE i # Len(data)
    <3>1. i < Len(data) /\ more[i] = data[i]
      BY <1>3, <2>2
    <3>. HIDE DEF at
    <3>. QED BY <2>1, <3>1
  <2>3. CASE i = Len(data)
    <3>1. at(i) = n /\ more[i] = c /\ data[i] = data[Len(data)]
      BY <1>3, <2>3
    <3>. HIDE DEF at
    <3>2. SavedRight(data[Len(data)], cs[n], t, ChunkEnd(cs, n - 1))
      BY <2>1, <3>1
    <3>3. SavedRight(c, cs[n], t, ChunkEnd(cs, n - 1))
      BY <1>2, <3>2 DEF SavedRight
    <3>. QED BY <1>2, <3>1, <3>3
  <2>. QED BY <2>2, <2>3
<1>5. AllSaved(more, cs, n, t, TRUE)
  BY <1>3, <1>4 DEF AllSaved
<1>. QED BY <1>3, <1>5 DEF more

LEMMA LargestOfSome ==
  ASSUME NEW n \in Nat, NEW S \in SUBSET (1 .. n), S # {}
  PROVE  Max(S) \in S /\ \A y \in S : y <= Max(S)
<1>. DEFINE T == {k \in Nat : \A Q \in SUBSET (1 .. k) : Q # {} => \E x \in Q : \A y \in Q : x >= y}
<1>1. 0 \in T
  <2>1. 1 .. 0 = {}
    OBVIOUS
  <2>. QED BY <2>1
<1>2. ASSUME NEW k \in Nat, k \in T PROVE k + 1 \in T
  <2>. SUFFICES ASSUME NEW Q \in SUBSET (1 .. k + 1), Q # {} PROVE \E x \in Q : \A y \in Q : x >= y
    OBVIOUS
  <2>1. CASE k + 1 \in Q
    <3>1. \A y \in Q : k + 1 >= y
      OBVIOUS
    <3>. QED BY <2>1, <3>1
  <2>2. CASE k + 1 \notin Q
    <3>1. Q \in SUBSET (1 .. k)
      BY <2>2
    <3>. QED BY <1>2, <3>1
  <2>. QED BY <2>1, <2>2
<1>3. Nat \subseteq T
  <2>. HIDE DEF T
  <2>. QED BY <1>1, <1>2, SetInduction
<1>4. \E x \in S : \A y \in S : x >= y
  BY <1>3
<1>5. Max(S) \in S /\ \A y \in S : Max(S) >= y
  BY <1>4 DEF Max
<1>. QED BY <1>5

LEMMA ParametersTyped ==
  ASSUME NEW p \in [Words -> Nat], NEW r \in Regions
  PROVE  Parameters(p, r) \in [Words -> [p : Nat, delta : Int]]
<1>. DEFINE before(w) == {v \in 1 .. w - 1 : p[v] > 0}
            delta(w) == IF p[w] = 0 \/ before(w) = {} THEN 0 ELSE r[w].start - r[Max(before(w))].start
<1>1. ASSUME NEW w \in Words PROVE delta(w) \in Int
  <2>1. CASE before(w) = {}
    BY <2>1
  <2>2. CASE before(w) # {}
    <3>1. w - 1 \in Nat /\ before(w) \in SUBSET (1 .. w - 1) /\ 1 .. w - 1 \subseteq Words
      BY Pass1Constants DEF Words
    <3>2. Max(before(w)) \in Words
      <4>. HIDE DEF before
      <4>1. Max(before(w)) \in before(w)
        BY <2>2, <3>1, LargestOfSome
      <4>. QED BY <3>1, <4>1
    <3>. HIDE DEF before
    <3>3. r[w].start \in Nat /\ r[Max(before(w))].start \in Nat
      BY <3>2 DEF Regions
    <3>. QED BY <3>3
  <2>. QED BY <2>1, <2>2
<1>2. Parameters(p, r) = [w \in Words |-> [p |-> p[w], delta |-> delta(w)]]
  BY DEF Parameters
<1>. HIDE DEF delta
<1>. QED BY <1>1, <1>2

LEMMA RegionsTyped ==
  ASSUME Pass1Right, ended, NEW i \in 1 .. Len(chunks)
  PROVE  RegionsOf(chunks[i], text, ChunkEnd(chunks, i - 1)) \in Regions
<1>. DEFINE d == chunks[i]
            a == ChunkEnd(chunks, i - 1)
            e == ChunkEnd(chunks, i)
<1>1. /\ d.docs \in Nat \ {0} /\ a \in 0 .. Len(text) /\ e = a + d.docs /\ e \in 0 .. Len(text)
  BY ChunkFacts
<1>2. text \in Seq(Documents) /\ Len(text) \in Nat
  BY DEF Pass1Right
<1>. HIDE DEF d, a, e
<1>3. d.docs \in Nat /\ a + d.docs <= Len(text)
  BY <1>1, <1>2
<1>4. MayCount(d.docs, DocCounts(text, a, a + d.docs), OccCounts(text, a, a + d.docs))
  BY <1>1, <1>2, <1>3, CountsArePossible
<1>5. RegionsOf(d, text, a) \in Regions
  BY <1>3, <1>4, LayoutRight DEF RegionsOf
<1>. QED BY <1>5 DEF a, d

LEMMA NoDataAtFirst ==
  ASSUME NEW cs, NEW n, NEW t, NEW done
  PROVE  <<>> \in Seq(SavedChunks) /\ Len(<<>>) = 0 /\ AllSaved(<<>>, cs, n, t, done)
<1>1. <<>> \in Seq(SavedChunks) /\ Len(<<>>) = 0
  OBVIOUS
<1>. QED BY <1>1 DEF AllSaved

LEMMA DataBegins == InvfInit => DataRight
<1>. SUFFICES ASSUME InvfInit PROVE DataRight
  OBVIOUS
<1>1. chunk_data = <<>> /\ disk_chunks = 0 /\ docs_left = 0 /\ chunk = 0 /\ ChunkLimit = -1
  BY DEF InvfInit, Pass2Init
<1>. QED BY <1>1, NoDataAtFirst DEF DataRight

LEMMA Pass1KeepsData ==
  ASSUME CountersRight, DataRight, Pass1Next, UNCHANGED pass2
  PROVE  DataRight'
<1>1. ~ended
  BY DEF Pass1Next, ReadDocument, done_ivf_1
<1>2. ChunkLimit = -1 /\ chunk = 0
  BY <1>1 DEF CountersRight
<1>3. /\ ChunkLimit' = ChunkLimit /\ chunk' = chunk /\ docs_left' = docs_left
      /\ chunk_data' = chunk_data /\ disk_chunks' = disk_chunks
  BY DEF pass2
<1>4. chunk_data = <<>>
  BY <1>2 DEF DataRight
<1>5. AllSaved(chunk_data', chunks', chunk', text', docs_left' = 0)
  BY <1>3, <1>4, NoDataAtFirst
<1>. QED BY <1>3, <1>5 DEF DataRight

LEMMA StartKeepsData ==
  ASSUME CountersRight, DataRight, init_ivf_2
  PROVE  DataRight'
<1>1. /\ ChunkLimit = -1 /\ ChunkLimit' \in Nat /\ chunk' = chunk /\ docs_left' = docs_left
      /\ chunk_data' = chunk_data /\ disk_chunks' = disk_chunks /\ text' = text /\ chunks' = chunks
  BY Pass2Constants DEF init_ivf_2, pass1
<1>2. disk_chunks = 0
  BY <1>1 DEF DataRight
<1>3. AllSaved(chunk_data', chunks', chunk', text', docs_left' = 0)
  BY <1>1 DEF DataRight
<1>4. disk_chunks' <= IF ChunkLimit' = -1 THEN 0 ELSE ChunkLimit'
  BY <1>1, <1>2
<1>. QED BY <1>1, <1>3, <1>4 DEF DataRight

LEMMA LoadKeepsData ==
  ASSUME Pass1Right, CountersRight, DataRight, LoadCounts
  PROVE  DataRight'
<1>. DEFINE d == chunks[chunk + 1]
            dc == DocCounts(text, callnum, callnum + d.docs)
            c == [N |-> d.docs, start_doc |-> callnum,
                  params |-> Parameters(Listed(d), region'), image |-> Unread]
<1>1. /\ ChunkLimit >= 0 /\ callnum < N /\ docs_left = 0
      /\ region' = Layout(d.docs, Listed(d), Occurring(d))
      /\ chunk_data' = Append(chunk_data, c)
      /\ docs_left' = d.docs /\ chunk' = chunk + 1
      /\ text' = text /\ chunks' = chunks
      /\ ChunkLimit' = ChunkLimit /\ disk_chunks' = disk_chunks
  BY DEF LoadCounts, pass1
<1>2. /\ chunk < Len(chunks) /\ chunk + 1 \in 1 .. Len(chunks) /\ ended
      /\ callnum = ChunkEnd(chunks, chunk)
  BY <1>1, ChunksLeft
<1>3. chunk \in Nat /\ callnum \in Nat /\ (chunk + 1) - 1 = chunk
  BY DEF CountersRight
<1>4. d.docs \in Nat \ {0} /\ callnum \in 0 .. Len(text) /\ callnum + d.docs \in 0 .. Len(text)
  BY <1>2, <1>3, ChunkFacts
<1>5. Listed(d) = dc /\ Occurring(d) = OccCounts(text, callnum, callnum + d.docs)
  BY <1>1, <1>2, UsableChunk
<1>6. region' = RegionsOf(d, text, callnum) /\ region' \in Regions
  <2>1. region' = RegionsOf(d, text, callnum)
    BY <1>1, <1>5 DEF RegionsOf
  <2>2. RegionsOf(d, text, callnum) \in Regions
    BY <1>2, <1>3, RegionsTyped
  <2>. QED BY <2>1, <2>2
<1>7. dc \in [Words -> Nat]
  <2>1. text \in Seq(Documents) /\ Len(text) \in Nat
    BY DEF Pass1Right
  <2>2. callnum + d.docs \in callnum .. Len(text)
    BY <1>3, <1>4, <2>1
  <2>3. dc \in [Words -> 0 .. (callnum + d.docs) - callnum]
    <3>. HIDE DEF d
    <3>. QED BY <1>4, <2>1, <2>2, CountTypes
  <2>4. \A k \in 0 .. (callnum + d.docs) - callnum : k \in Nat
    OBVIOUS
  <2>. HIDE DEF dc, d
  <2>. QED BY <2>3, <2>4
<1>. HIDE DEF d, dc
<1>8. c \in SavedChunks /\ SavedRight(c, d, text, callnum)
  <2>1. Parameters(dc, region') \in [Words -> [p : Nat, delta : Int]]
    BY <1>6, <1>7, ParametersTyped
  <2>2. c = [N |-> d.docs, start_doc |-> callnum, params |-> Parameters(dc, region'), image |-> Unread]
    BY <1>5
  <2>3. c \in SavedChunks
    BY <1>3, <1>4, <2>1, <2>2 DEF SavedChunks
  <2>4. SavedRight(c, d, text, callnum)
    BY <1>6, <2>2 DEF SavedRight, dc
  <2>. QED BY <2>3, <2>4
<1>. HIDE DEF c
<1>9. /\ chunk_data \in Seq(SavedChunks) /\ disk_chunks \in Nat
      /\ Len(chunk_data) = disk_chunks /\ Len(chunk_data) <= chunk
      /\ disk_chunks <= IF ChunkLimit = -1 THEN 0 ELSE ChunkLimit
      /\ AllSaved(chunk_data, chunks, chunk, text, TRUE)
  <2>1. ~(docs_left > 0)
    BY <1>1
  <2>2. AllSaved(chunk_data, chunks, chunk, text, TRUE)
    BY <1>1 DEF DataRight, AllSaved
  <2>3. /\ chunk_data \in Seq(SavedChunks) /\ disk_chunks \in Nat
        /\ Len(chunk_data) = disk_chunks + (IF docs_left > 0 THEN 1 ELSE 0)
        /\ Len(chunk_data) <= chunk
        /\ disk_chunks <= IF ChunkLimit = -1 THEN 0 ELSE ChunkLimit
    BY DEF DataRight
  <2>4. Len(chunk_data) = disk_chunks
    BY <2>1, <2>3
  <2>. QED BY <2>2, <2>3, <2>4
<1>10. AllSaved(chunk_data', chunks', chunk', text', docs_left' = 0)
  <2>1. AllSaved(Append(chunk_data, c), chunks, chunk + 1, text, FALSE)
    BY <1>2, <1>3, <1>8, <1>9, DataAdded DEF d
  <2>2. (docs_left' = 0) = FALSE
    BY <1>1, <1>4
  <2>. QED BY <1>1, <2>1, <2>2
<1>11. /\ chunk_data' \in Seq(SavedChunks) /\ Len(chunk_data') = Len(chunk_data) + 1
       /\ docs_left' > 0
  BY <1>1, <1>4, <1>8, <1>9
<1>12. Len(chunk_data') = disk_chunks' + (IF docs_left' > 0 THEN 1 ELSE 0) /\ Len(chunk_data') <= chunk'
  BY <1>1, <1>3, <1>9, <1>11
<1>. QED BY <1>1, <1>9, <1>10, <1>11, <1>12 DEF DataRight

-----------------------------------------------------------------------------
\* Reading a chunk back.

LEMMA RegionsInOrder ==
  ASSUME NEW docs \in Nat, NEW p, NEW n, MayCount(docs, p, n), NEW r, r = Layout(docs, p, n)
  PROVE  \A w \in Words : /\ w = 1 => r[w].start = 0
                          /\ w > 1 => w - 1 \in Words /\ r[w].start = r[w - 1].end
                          /\ p[w] = 0 => r[w].end = r[w].start
<1>. DEFINE size == [w \in Words |->
              IF n[w] = 0 THEN 0
              ELSE BblockBound(docs, p[w]) + (IF InvfLevel >= 2 THEN n[w] ELSE 0)]
<1>1. r = [w \in Words |-> [start |-> SumTo(size, w - 1), end |-> SumTo(size, w),
                            b |-> IF n[w] = 0 THEN 1 ELSE BblockInitW(docs, p[w])]]
  BY DEF Layout
<1>. HIDE DEF size
<1>6. r \in Regions
  BY LayoutRight
<1>7. \A w \in Words : r[w].end = r[w].start + RegionBits(docs, p[w], n[w])
  BY LayoutRight
<1>. TAKE w \in Words
<1>2. r[w].start = SumTo(size, w - 1)
  BY <1>1
<1>3. ASSUME w = 1 PROVE r[w].start = 0
  <2>1. w - 1 = 0
    BY <1>3
  <2>. QED BY <1>2, <2>1, SumNone
<1>4. ASSUME w > 1 PROVE w - 1 \in Words /\ r[w].start = r[w - 1].end
  <2>1. w - 1 \in Words
    BY <1>4, Pass1Constants DEF Words
  <2>. QED BY <1>1, <1>2, <2>1
<1>5. ASSUME p[w] = 0 PROVE r[w].end = r[w].start
  <2>1. /\ r \in Regions /\ r[w].end = r[w].start + RegionBits(docs, p[w], n[w])
    BY <1>6, <1>7
  <2>2. n[w] = 0
    BY <1>5 DEF MayCount
  <2>3. RegionBits(docs, p[w], n[w]) = 0
    BY <1>5, <2>2 DEF RegionBits
  <2>4. r[w].start \in Nat
    BY <2>1 DEF Regions
  <2>. QED BY <2>1, <2>3, <2>4
<1>. QED BY <1>3, <1>4, <1>5

\* The differences lead to the region of every word with postings.
LEMMA PositionsFound ==
  ASSUME NEW docs \in Nat, NEW p, NEW n, MayCount(docs, p, n), NEW r, r = Layout(docs, p, n),
         NEW w \in Words, p[w] > 0
  PROVE  SumTo([v \in Words |-> Parameters(p, r)[v].delta], w) = r[w].start
<1>. DEFINE D == [v \in Words |-> Parameters(p, r)[v].delta]
            B(k) == {v \in 1 .. k : p[v] > 0}
            T == {k \in Nat : k <= NumWords =>
                    /\ B(k) = {} => SumTo(D, k) = 0 /\ \A v \in 1 .. k : r[v].end = 0
                    /\ B(k) # {} => SumTo(D, k) = r[Max(B(k))].start}
<1>1. NumWords \in Nat /\ Words = 1 .. NumWords
  BY Pass1Constants DEF Words
<1>2. r \in Regions /\ p \in [Words -> Nat]
  BY LayoutRight DEF MayCount
<1>3. \A v \in Words : r[v].start \in Nat /\ r[v].end \in Nat /\ p[v] \in Nat
  BY <1>2 DEF Regions
<1>4. \A v \in Words : D[v] = IF p[v] = 0 \/ B(v - 1) = {} THEN 0
                              ELSE r[v].start - r[Max(B(v - 1))].start
  BY DEF Parameters
<1>5. \A v \in Words : D[v] \in Int
  <2>1. Parameters(p, r) \in [Words -> [p : Nat, delta : Int]]
    BY <1>2, ParametersTyped
  <2>. QED BY <2>1
<1>6. \A v \in Words : /\ v = 1 => r[v].start = 0
                       /\ v > 1 => v - 1 \in Words /\ r[v].start = r[v - 1].end
                       /\ p[v] = 0 => r[v].end = r[v].start
  BY RegionsInOrder
<1>. HIDE DEF D
<1>7. 0 \in T
  <2>1. B(0) = {} /\ 1 .. 0 = {}
    OBVIOUS
  <2>2. SumTo(D, 0) = 0
    BY SumNone
  <2>. QED BY <2>1, <2>2
<1>8. ASSUME NEW k \in Nat, k \in T PROVE k + 1 \in T
  <2>. SUFFICES ASSUME k + 1 <= NumWords
                PROVE  /\ B(k + 1) = {} => SumTo(D, k + 1) = 0 /\ \A v \in 1 .. k + 1 : r[v].end = 0
                       /\ B(k + 1) # {} => SumTo(D, k + 1) = r[Max(B(k + 1))].start
    OBVIOUS
  <2>. DEFINE v == k + 1
  <2>1. v \in Words /\ v - 1 = k /\ k <= NumWords
    BY <1>1
  <2>2. SumTo(D, k + 1) = SumTo(D, k) + D[k + 1]
    <3>1. \A i \in 1 .. k + 1 : D[i] \in Int
      BY <1>1, <1>5
    <3>. QED BY <3>1, SumOneMore
  <2>3. /\ B(k) = {} => SumTo(D, k) = 0 /\ \A i \in 1 .. k : r[i].end = 0
        /\ B(k) # {} => SumTo(D, k) = r[Max(B(k))].start
    BY <1>8, <2>1
  <2>4. D[v] = IF p[v] = 0 \/ B(k) = {} THEN 0 ELSE r[v].start - r[Max(B(k))].start
    BY <1>4, <2>1
  <2>5. B(k) = {} => r[v].start = 0
    <3>1. CASE k = 0
      BY <1>6, <2>1, <3>1
    <3>2. CASE k # 0
      <4>1. v > 1 /\ k \in 1 .. k
        BY <3>2
      <4>. QED BY <1>6, <2>1, <2>3, <4>1
    <3>. QED BY <3>1, <3>2
  <2>6. B(k) # {} => Max(B(k)) \in Words
    <3>1. B(k) \in SUBSET (1 .. k) /\ 1 .. k \subseteq Words
      BY <1>1, <2>1
    <3>. HIDE DEF B
    <3>2. B(k) # {} => Max(B(k)) \in B(k)
      BY <3>1, LargestOfSome
    <3>. QED BY <3>1, <3>2
  <2>7. CASE p[v] = 0
    <3>1. B(k + 1) = B(k)
      BY <2>7
    <3>2. D[v] = 0 /\ r[v].end = r[v].start
      BY <1>6, <2>1, <2>4, <2>7
    <3>3. B(k) = {} => SumTo(D, k + 1) = 0 /\ \A i \in 1 .. k + 1 : r[i].end = 0
      BY <2>2, <2>3, <2>5, <3>2
    <3>4. B(k) # {} => SumTo(D, k + 1) = r[Max(B(k))].start
      <4>. HIDE DEF B
      <4>. QED BY <1>3, <2>2, <2>3, <2>6, <3>2
    <3>. HIDE DEF B
    <3>. QED BY <3>1, <3>3, <3>4
  <2>8. CASE p[v] > 0
    <3>1. v \in B(k + 1) /\ B(k + 1) \in SUBSET (1 .. k + 1) /\ k + 1 \in Nat
      BY <2>8
    <3>2. Max(B(k + 1)) = v
      <4>. HIDE DEF B
      <4>1. Max(B(k + 1)) \in B(k + 1) /\ v <= Max(B(k + 1))
        BY <3>1, LargestOfSome
      <4>2. Max(B(k + 1)) \in 1 .. k + 1
        BY <3>1, <4>1
      <4>. QED BY <4>1, <4>2
    <3>3. SumTo(D, k + 1) = r[v].start
      <4>. HIDE DEF B
      <4>1. CASE B(k) = {}
        BY <1>3, <2>1, <2>2, <2>3, <2>4, <2>5, <4>1
      <4>2. CASE B(k) # {}
        <5>1. r[v].start \in Nat /\ r[Max(B(k))].start \in Nat
          BY <1>3, <2>1, <2>6, <4>2
        <5>2. D[v] = r[v].start - r[Max(B(k))].start
          BY <2>4, <2>8, <4>2
        <5>. QED BY <2>2, <2>3, <4>2, <5>1, <5>2
      <4>. QED BY <4>1, <4>2
    <3>. HIDE DEF B
    <3>. QED BY <3>1, <3>2, <3>3
  <2>. QED BY <1>3, <2>1, <2>7, <2>8
<1>9. w \in T
  <2>. HIDE DEF T
  <2>1. Nat \subseteq T
    BY <1>7, <1>8, SetInduction
  <2>. QED BY <1>1, <2>1
<1>10. w \in B(w) /\ B(w) \in SUBSET (1 .. w) /\ w \in Nat /\ w <= NumWords
  BY <1>1
<1>11. Max(B(w)) = w
  <2>. HIDE DEF B
  <2>1. Max(B(w)) \in B(w) /\ w <= Max(B(w))
    BY <1>10, LargestOfSome
  <2>2. Max(B(w)) \in 1 .. w
    BY <1>10, <2>1
  <2>. QED BY <1>10, <2>1, <2>2
<1>12. SumTo(D, w) = r[Max(B(w))].start
  BY <1>9, <1>10
<1>. QED BY <1>11, <1>12 DEF D

\* The first gap taken from document z where it was taken from y.
Moved(l, y, z) == [l EXCEPT ![1][1] = @ + y - z]

LEMMA ListRead ==
  ASSUME NEW l \in Seq(Nat \X Nat)
  PROVE  SubSeq(l, 1, Len(l)) = l
<1>1. Len(l) \in Nat
  OBVIOUS
<1>. QED BY <1>1

(***************************************************************************)
(* The postings of a word in a saved chunk are found and read as they were *)
(* written.                                                                *)
(***************************************************************************)
LEMMA ReadsBack ==
  ASSUME NEW t \in Seq(Documents), NEW a \in 0 .. Len(t), NEW d \in ChunkDescriptions,
         a + d.docs <= Len(t), NEW c \in SavedChunks, SavedRight(c, d, t, a),
         ImageRight(c.image, d, t, a), NEW w \in Words, NEW disk_last
  PROVE  FromChunk(c, w, disk_last) =
           IF Len(c.image.memory[w]) = 0 THEN <<>>
           ELSE Moved(c.image.memory[w], a, disk_last)
<1>. DEFINE p == DocCounts(t, a, a + d.docs)
            n == OccCounts(t, a, a + d.docs)
            r == RegionsOf(d, t, a)
            m == c.image.memory[w]
            pos == SumTo([v \in Words |-> c.params[v].delta], w)
            read == ReadBack(c.image, w, pos, BblockInitW(c.N, c.params[w].p), c.params[w].p)
<1>1. d.docs \in Nat
  BY ChunkTypes
<1>2. MayCount(d.docs, p, n)
  BY <1>1, CountsArePossible
<1>3. r = Layout(d.docs, p, n)
  BY DEF RegionsOf
<1>4. /\ c.N = d.docs /\ c.start_doc = a /\ c.params = Parameters(p, r)
      /\ c.image.region = r /\ Lists(m, w, t, a, a + d.docs)
  BY DEF SavedRight, ImageRight
<1>5. c.params[w].p = p[w] /\ p[w] \in Nat /\ p[w] = Len(m) /\ m \in Seq(Nat \X Nat)
  <2>1. c.params[w].p = p[w]
    BY <1>4 DEF Parameters
  <2>2. p[w] \in Nat
    BY <1>2 DEF MayCount
  <2>3. Len(m) = p[w] /\ m \in Seq(Nat \X Nat)
    BY <1>4 DEF Lists, DocCounts
  <2>. QED BY <2>1, <2>2, <2>3
<1>6. FromChunk(c, w, disk_last) =
        IF c.params[w].p = 0 THEN <<>> ELSE [read EXCEPT ![1][1] = @ + c.start_doc - disk_last]
  BY DEF FromChunk
<1>. HIDE DEF p, n, r, m, pos, read
<1>7. ASSUME p[w] # 0 PROVE read = m
  <2>1. p[w] > 0
    BY <1>5, <1>7
  <2>2. SumTo([v \in Words |-> Parameters(p, r)[v].delta], w) = r[w].start
    BY <1>1, <1>2, <1>3, <2>1, PositionsFound
  <2>3. pos = r[w].start
    BY <1>4, <2>2 DEF pos
  <2>4. r[w].b = BblockInitW(d.docs, p[w])
    <3>1. r[w].b = IF p[w] = 0 THEN 1 ELSE BblockInitW(d.docs, p[w])
      BY <1>1, <1>2, <1>3, LayoutRight
    <3>. QED BY <1>7, <3>1
  <2>5. read = SubSeq(m, 1, Len(m))
    BY <1>4, <1>5, <2>3, <2>4 DEF read, m, ReadBack
  <2>. QED BY <1>5, <2>5, ListRead
<1>. QED BY <1>4, <1>5, <1>6, <1>7 DEF m, Moved

LEMMA FirstGapMoved ==
  ASSUME NEW l \in Seq(Nat \X Nat), Len(l) # 0, NEW y \in Int, NEW z \in Int, l[1][1] + y - z \in Nat
  PROVE  /\ Moved(l, y, z) \in Seq(Nat \X Nat)
         /\ Len(Moved(l, y, z)) = Len(l)
         /\ \A k \in 1 .. Len(l) :
              /\ Moved(l, y, z)[k][1] = IF k = 1 THEN l[1][1] + y - z ELSE l[k][1]
              /\ Moved(l, y, z)[k][2] = l[k][2]
              /\ Document(Moved(l, y, z), k) = Document(l, k) + y - z
<1>. DEFINE m == Moved(l, y, z)
            e == <<l[1][1] + y - z, l[1][2]>>
<1>1. /\ Len(l) \in Nat /\ 1 \in 1 .. Len(l) /\ DOMAIN l = 1 .. Len(l)
      /\ \A k \in 1 .. Len(l) : l[k] \in Nat \X Nat
  OBVIOUS
<1>2. e \in Nat \X Nat /\ e[1] = l[1][1] + y - z /\ e[2] = l[1][2]
  BY <1>1
<1>3. [l[1] EXCEPT ![1] = @ + y - z] = e
  BY <1>1
<1>4. m = [l EXCEPT ![1] = e]
  BY <1>1, <1>3 DEF Moved
<1>. HIDE DEF m, e
<1>5. m \in Seq(Nat \X Nat) /\ Len(m) = Len(l)
  BY <1>1, <1>2, <1>4
<1>6. m[1] = e /\ \A k \in 1 .. Len(l) : k # 1 => m[k] = l[k]
  BY <1>1, <1>4
<1>7. ASSUME NEW k \in 1 .. Len(l)
      PROVE  m[k][1] = (IF k = 1 THEN l[1][1] + y - z ELSE l[k][1]) /\ m[k][2] = l[k][2]
  BY <1>2, <1>6
<1>. DEFINE T == {k \in Nat : k + 1 <= Len(l) => Document(m, k + 1) = Document(l, k + 1) + y - z}
<1>8. /\ Document(l, 0) = 0 /\ Document(m, 0) = 0
      /\ \A k \in 1 .. Len(l) : /\ Document(l, k) = Document(l, k - 1) + l[k][1]
                                /\ Document(m, k) = Document(m, k - 1) + m[k][1]
                                /\ Document(l, k) \in Nat /\ Document(m, k) \in Nat
  <2>1. \A k \in 1 .. Len(l) : k \in 0 .. Len(l)
    OBVIOUS
  <2>. QED BY <1>5, <2>1, GapsRight
<1>9. 0 \in T
  <2>1. /\ Document(l, 1) = Document(l, 1 - 1) + l[1][1]
        /\ Document(m, 1) = Document(m, 1 - 1) + m[1][1]
    BY <1>1, <1>8
  <2>2. m[1][1] = l[1][1] + y - z /\ l[1][1] \in Nat
    BY <1>1, <1>7
  <2>. QED BY <1>8, <2>1, <2>2
<1>10. ASSUME NEW k \in Nat, k \in T PROVE k + 1 \in T
  <2>. SUFFICES ASSUME (k + 1) + 1 <= Len(l)
                PROVE  Document(m, (k + 1) + 1) = Document(l, (k + 1) + 1) + y - z
    OBVIOUS
  <2>1. (k + 1) + 1 \in 1 .. Len(l) /\ k + 1 \in 1 .. Len(l) /\ ((k + 1) + 1) - 1 = k + 1 /\ (k + 1) + 1 # 1
    BY <1>1
  <2>2. Document(m, k + 1) = Document(l, k + 1) + y - z
    BY <1>10, <1>1
  <2>3. /\ Document(l, (k + 1) + 1) = Document(l, k + 1) + l[(k + 1) + 1][1]
        /\ Document(m, (k + 1) + 1) = Document(m, k + 1) + m[(k + 1) + 1][1]
        /\ Document(l, k + 1) \in Nat
    BY <1>8, <2>1
  <2>4. m[(k + 1) + 1][1] = l[(k + 1) + 1][1] /\ l[(k + 1) + 1][1] \in Nat
    BY <1>1, <1>7, <2>1
  <2>. QED BY <2>2, <2>3, <2>4, SMTT(90)
<1>11. Nat \subseteq T
  <2>. HIDE DEF T
  <2>. QED BY <1>9, <1>10, SetInduction
<1>12. ASSUME NEW k \in 1 .. Len(l) PROVE Document(m, k) = Document(l, k) + y - z
  <2>1. k - 1 \in Nat /\ (k - 1) + 1 = k /\ k <= Len(l)
    BY <1>1
  <2>. QED BY <1>11, <2>1
<1>. QED BY <1>5, <1>7, <1>12 DEF m

LEMMA BothLists ==
  ASSUME NEW S, NEW l \in Seq(S), NEW s \in Seq(S)
  PROVE  /\ l \o s \in Seq(S) /\ Len(l \o s) = Len(l) + Len(s)
         /\ \A j \in 1 .. Len(l) : (l \o s)[j] = l[j]
         /\ \A j \in 1 .. Len(s) : (l \o s)[Len(l) + j] = s[j]
OBVIOUS

LEMMA LastDocument ==
  ASSUME NEW w, NEW t \in Seq(Documents), NEW a \in Nat, NEW b \in a .. Len(t),
         NEW l, Lists(l, w, t, a, b)
  PROVE  l \in Seq(Nat \X Nat) /\ Len(l) \in Nat /\ Gaps(l) \in 0 .. b - a
<1>1. l \in Seq(Nat \X Nat) /\ Len(l) \in Nat
  BY DEF Lists
<1>2. CASE Len(l) = 0
  <2>1. Gaps(l) = 0
    BY <1>1, <1>2, GapsRight DEF Gaps
  <2>. QED BY <1>1, <2>1
<1>3. CASE Len(l) # 0
  <2>1. Len(l) \in 1 .. Len(l)
    BY <1>1, <1>3
  <2>2. a + Document(l, Len(l)) \in a .. b
    BY <2>1 DEF Lists
  <2>3. Gaps(l) \in Nat
    BY <1>1, GapsRight
  <2>. QED BY <1>1, <2>2, <2>3 DEF Gaps
<1>. QED BY <1>2, <1>3

LEMMA ListsLonger ==
  ASSUME NEW w, NEW t \in Seq(Documents), NEW m \in Nat, NEW b \in m .. Len(t),
         NEW l, Lists(l, w, t, 0, m), NEW k, Lists(k, w, t, m, b), Len(k) = 0
  PROVE  Lists(l, w, t, 0, b)
<1>1. DocsIn(w, t, m, b) = 0
  BY DEF Lists
<1>2. DocsIn(w, t, 0, b) = DocsIn(w, t, 0, m)
  <2>1. 0 \in 0 .. Len(t) /\ m \in 0 .. Len(t)
    OBVIOUS
  <2>2. DocsIn(w, t, 0, b) = DocsIn(w, t, 0, m) + DocsIn(w, t, m, b)
    BY <2>1, PartsAdd
  <2>3. DocsIn(w, t, 0, m) \in Nat
    BY <2>1, CountsGrow
  <2>. QED BY <1>1, <2>2, <2>3
<1>3. \A e \in 0 .. m : e \in 0 .. b
  OBVIOUS
<1>. QED BY <1>2, <1>3 DEF Lists

(***************************************************************************)
(* The postings of two parts of the text, the first gap of the second      *)
(* taken from the last document of the first, are the postings of both.    *)
(***************************************************************************)
LEMMA ListsJoin ==
  ASSUME NEW w, NEW t \in Seq(Documents), NEW m \in Nat, NEW b \in m .. Len(t),
         NEW l, Lists(l, w, t, 0, m), NEW k, Lists(k, w, t, m, b), Len(k) # 0
  PROVE  Lists(l \o Moved(k, m, Gaps(l)), w, t, 0, b)
<1>. DEFINE g == Gaps(l)
            s == Moved(k, m, g)
            u == l \o s
<1>1. /\ l \in Seq(Nat \X Nat) /\ Len(l) \in Nat /\ g \in 0 .. m
      /\ k \in Seq(Nat \X Nat) /\ Len(k) \in Nat
  <2>1. 0 \in Nat /\ m \in 0 .. Len(t)
    OBVIOUS
  <2>. QED BY <2>1, LastDocument
<1>2. \A j \in 1 .. Len(k) :
        /\ k[j][1] > 0 /\ k[j] \in Nat \X Nat
        /\ m + Document(k, j) \in m .. b
        /\ w \in InDoc(t[m + Document(k, j)])
        /\ DocsIn(w, t, m, m + Document(k, j)) = j
        /\ k[j][2] = Count(w, t[m + Document(k, j)])
        /\ Document(k, j) \in Nat
  <2>1. \A j \in 1 .. Len(k) : Document(k, j) \in Nat /\ k[j] \in Nat \X Nat
    <3>1. \A j \in 1 .. Len(k) : j \in 0 .. Len(k) /\ k[j] \in Nat \X Nat
      BY <1>1
    <3>. QED BY <1>1, <3>1, GapsRight
  <2>. QED BY <2>1 DEF Lists
<1>. HIDE DEF g
<1>3. k[1][1] + m - g \in Nat /\ k[1][1] + m - g > 0
  <2>1. 1 \in 1 .. Len(k)
    BY <1>1
  <2>. DEFINE x == k[1][1]
  <2>2. x \in Nat /\ x > 0
    BY <1>2, <2>1
  <2>3. m \in Nat /\ g \in Nat /\ g <= m
    BY <1>1
  <2>. HIDE DEF x
  <2>4. x + m - g \in Nat /\ x + m - g > 0
    BY ONLY <2>2, <2>3
  <2>. QED BY <2>4 DEF x
<1>4. /\ s \in Seq(Nat \X Nat) /\ Len(s) = Len(k)
      /\ \A j \in 1 .. Len(k) : /\ s[j][1] = IF j = 1 THEN k[1][1] + m - g ELSE k[j][1]
                                /\ s[j][2] = k[j][2]
                                /\ Document(s, j) = Document(k, j) + m - g
  <2>1. m \in Int /\ g \in Int /\ k \in Seq(Nat \X Nat) /\ Len(k) # 0 /\ k[1][1] + m - g \in Nat
    BY <1>1, <1>3
  <2>2. s \in Seq(Nat \X Nat) /\ Len(s) = Len(k)
    BY <2>1, FirstGapMoved, SMTT(30)
  <2>3. ASSUME NEW j \in 1 .. Len(k)
        PROVE  /\ s[j][1] = IF j = 1 THEN k[1][1] + m - g ELSE k[j][1]
               /\ s[j][2] = k[j][2]
               /\ Document(s, j) = Document(k, j) + m - g
    BY ONLY <2>1, FirstGapMoved, SMTT(30) DEF s
  <2>. HIDE DEF s
  <2>. QED BY <2>2, <2>3
<1>. HIDE DEF s
<1>5. /\ u \in Seq(Nat \X Nat) /\ Len(u) = Len(l) + Len(k)
      /\ \A j \in 1 .. Len(l) : u[j] = l[j]
      /\ \A j \in 1 .. Len(k) : u[Len(l) + j] = s[j]
  <2>1. /\ l \o s \in Seq(Nat \X Nat) /\ Len(l \o s) = Len(l) + Len(s)
        /\ \A j \in 1 .. Len(l) : (l \o s)[j] = l[j]
        /\ \A j \in 1 .. Len(s) : (l \o s)[Len(l) + j] = s[j]
    <3>. DEFINE S == Nat \X Nat
    <3>1. l \in Seq(S) /\ s \in Seq(S)
      BY <1>1, <1>4
    <3>. HIDE DEF S
    <3>2. /\ l \o s \in Seq(S) /\ Len(l \o s) = Len(l) + Len(s)
          /\ \A j \in 1 .. Len(l) : (l \o s)[j] = l[j]
          /\ \A j \in 1 .. Len(s) : (l \o s)[Len(l) + j] = s[j]
      BY <3>1, BothLists
    <3>. QED BY <3>2 DEF S
  <2>. QED BY <1>4, <2>1
<1>6. /\ \A j \in 0 .. Len(l) : Document(u, j) = Document(l, j)
      /\ \A j \in 0 .. Len(s) : Document(u, Len(l) + j) = g + Document(s, j)
  BY <1>1, <1>4, GapsOfBoth DEF g
<1>. HIDE DEF u
<1>7. 0 \in 0 .. Len(t) /\ m \in 0 .. Len(t) /\ Len(t) \in Nat
  OBVIOUS
<1>8. Len(u) = DocsIn(w, t, 0, b)
  <2>1. DocsIn(w, t, 0, b) = DocsIn(w, t, 0, m) + DocsIn(w, t, m, b)
    BY <1>7, PartsAdd
  <2>. QED BY <1>5, <2>1 DEF Lists
<1>9. ASSUME NEW j \in 1 .. Len(u)
      PROVE  /\ u[j][1] > 0
             /\ 0 + Document(u, j) \in 0 .. b
             /\ w \in InDoc(t[0 + Document(u, j)])
             /\ DocsIn(w, t, 0, 0 + Document(u, j)) = j
             /\ u[j][2] = Count(w, t[0 + Document(u, j)])
  <2>1. CASE j <= Len(l)
    <3>1. j \in 1 .. Len(l) /\ j \in 0 .. Len(l)
      BY <1>1, <2>1
    <3>2. u[j] = l[j] /\ Document(u, j) = Document(l, j)
      BY <1>5, <1>6, <3>1
    <3>3. /\ l[j][1] > 0
          /\ 0 + Document(l, j) \in 0 .. m
          /\ w \in InDoc(t[0 + Document(l, j)])
          /\ DocsIn(w, t, 0, 0 + Document(l, j)) = j
          /\ l[j][2] = Count(w, t[0 + Document(l, j)])
      BY <3>1 DEF Lists
    <3>4. 0 + Document(l, j) \in 0 .. b
      BY <3>3
    <3>. QED BY <3>2, <3>3, <3>4
  <2>2. CASE j > Len(l)
    <3>. DEFINE i == j - Len(l)
                e == m + Document(k, i)
    <3>1. i \in 1 .. Len(k) /\ i \in 0 .. Len(s) /\ Len(l) + i = j
      <4>1. /\ Len(l) \in Nat /\ Len(k) \in Nat /\ Len(s) = Len(k) /\ Len(u) = Len(l) + Len(k)
            /\ j \in 1 .. Len(u)
        BY <1>1, <1>4, <1>5
      <4>. QED BY <2>2, <4>1
    <3>. HIDE DEF i
    <3>2. u[j] = s[i] /\ Document(u, j) = g + Document(s, i)
      BY <1>5, <1>6, <3>1
    <3>3. /\ e \in m .. b /\ w \in InDoc(t[e]) /\ DocsIn(w, t, m, e) = i
          /\ k[i][2] = Count(w, t[e]) /\ Document(k, i) \in Nat /\ k[i][1] > 0
      BY <1>2, <3>1
    <3>4. /\ s[i][1] = IF i = 1 THEN k[1][1] + m - g ELSE k[i][1]
          /\ s[i][2] = k[i][2] /\ Document(s, i) = Document(k, i) + m - g
      BY <1>4, <3>1
    <3>5. 0 + Document(u, j) = e
      BY <1>1, <3>2, <3>3, <3>4
    <3>. HIDE DEF e
    <3>6. DocsIn(w, t, 0, e) = j
      <4>1. e \in m .. Len(t)
        BY <3>3
      <4>2. DocsIn(w, t, 0, e) = DocsIn(w, t, 0, m) + DocsIn(w, t, m, e)
        BY <1>7, <4>1, PartsAdd
      <4>3. DocsIn(w, t, 0, m) = Len(l)
        BY DEF Lists
      <4>. QED BY <3>1, <3>3, <4>2, <4>3
    <3>7. s[i][1] > 0
      BY <1>3, <3>3, <3>4
    <3>8. e \in 0 .. b
      BY <3>3
    <3>. QED BY <3>2, <3>3, <3>4, <3>5, <3>6, <3>7, <3>8
  <2>. QED BY <1>1, <2>1, <2>2
<1>10. Lists(u, w, t, 0, b)
  BY <1>5, <1>8, <1>9 DEF Lists
<1>. QED BY <1>10 DEF u, s, g

LEMMA ConcatThree ==
  ASSUME NEW S, NEW l \in Seq(S), NEW s \in Seq(S), NEW z \in Seq(S)
  PROVE  l \o (s \o z) = (l \o s) \o z
BY ConcatAssociative, SMTT(30)

LEMMA NothingAdded ==
  ASSUME NEW S, NEW l \in Seq(S)
  PROVE  l \o <<>> = l /\ <<>> \in Seq(S)
OBVIOUS

LEMMA MovedIsList ==
  ASSUME NEW w, NEW t \in Seq(Documents), NEW m \in Nat, NEW b \in m .. Len(t),
         NEW l, Lists(l, w, t, 0, m), NEW k, Lists(k, w, t, m, b), Len(k) # 0
  PROVE  Moved(k, m, Gaps(l)) \in Seq(Nat \X Nat)
<1>1. k \in Seq(Nat \X Nat) /\ Gaps(l) \in 0 .. m
  <2>1. 0 \in Nat /\ m \in 0 .. Len(t)
    OBVIOUS
  <2>. QED BY <2>1, LastDocument
<1>2. k[1][1] + m - Gaps(l) \in Nat
  <2>1. 1 \in 1 .. Len(k) /\ k[1] \in Nat \X Nat
    BY <1>1
  <2>2. k[1][1] \in Nat
    BY <2>1
  <2>. QED BY <1>1, <2>2
<1>3. m \in Int /\ Gaps(l) \in Int
  BY <1>1
<1>. QED BY <1>1, <1>2, <1>3, FirstGapMoved

(***************************************************************************)
(* One chunk merged.                                                       *)
(***************************************************************************)
LEMMA ChunkMerged ==
  ASSUME NEW t \in Seq(Documents), NEW a \in 0 .. Len(t), NEW d \in ChunkDescriptions,
         a + d.docs <= Len(t), NEW c \in SavedChunks, SavedRight(c, d, t, a),
         ImageRight(c.image, d, t, a), NEW w \in Words,
         NEW l \in Seq(Nat \X Nat), NEW s \in Seq(Nat \X Nat), Lists(l \o s, w, t, 0, a)
  PROVE  /\ s \o FromChunk(c, w, Gaps(l) + Gaps(s)) \in Seq(Nat \X Nat)
         /\ Lists(l \o (s \o FromChunk(c, w, Gaps(l) + Gaps(s))), w, t, 0, a + d.docs)
<1>. DEFINE k == c.image.memory[w]
            b == a + d.docs
            g == Gaps(l) + Gaps(s)
            z == FromChunk(c, w, g)
            S == Nat \X Nat
<1>1. d.docs \in Nat
  BY ChunkTypes
<1>2. Lists(k, w, t, a, b) /\ k \in Seq(S)
  BY DEF ImageRight, Lists
<1>3. a \in Nat /\ b \in a .. Len(t)
  BY <1>1
<1>4. g = Gaps(l \o s)
  BY GapsOfBoth
<1>5. z = IF Len(k) = 0 THEN <<>> ELSE Moved(k, a, g)
  <2>. HIDE DEF g
  <2>. QED BY ReadsBack
<1>. HIDE DEF z, k, b, g
<1>6. z \in Seq(S) /\ Lists((l \o s) \o z, w, t, 0, b)
  <2>1. l \o s \in Seq(S)
    OBVIOUS
  <2>2. CASE Len(k) = 0
    <3>1. z = <<>>
      BY <1>5, <2>2
    <3>2. (l \o s) \o <<>> = l \o s /\ <<>> \in Seq(S)
      <4>. HIDE DEF S
      <4>. QED BY <2>1, NothingAdded
    <3>3. Lists(l \o s, w, t, 0, b)
      BY <1>2, <1>3, <2>2, ListsLonger
    <3>. QED BY <3>1, <3>2, <3>3
  <2>3. CASE Len(k) # 0
    <3>1. z = Moved(k, a, Gaps(l \o s))
      BY <1>4, <1>5, <2>3
    <3>2. Lists((l \o s) \o Moved(k, a, Gaps(l \o s)), w, t, 0, b)
      BY <1>2, <1>3, <2>3, ListsJoin
    <3>3. Moved(k, a, Gaps(l \o s)) \in Seq(S)
      BY <1>2, <1>3, <2>3, MovedIsList
    <3>. QED BY <3>1, <3>2, <3>3
  <2>. QED BY <2>2, <2>3
<1>7. l \o (s \o z) = (l \o s) \o z /\ s \o z \in Seq(S)
  <2>1. l \in Seq(S) /\ s \in Seq(S)
    OBVIOUS
  <2>. HIDE DEF S
  <2>2. z \in Seq(S)
    BY <1>6
  <2>3. s \o z \in Seq(S)
    BY <2>1, <2>2, BothLists
  <2>4. l \o (s \o z) = (l \o s) \o z
    BY <2>1, <2>2, ConcatThree, SMTT(30)
  <2>. QED BY <2>3, <2>4
<1>. QED BY <1>6, <1>7 DEF b, z, g

(***************************************************************************)
(* The merge of all chunks that wait: the list of a word goes on with its  *)
(* postings in them.                                                       *)
(***************************************************************************)
LEMMA MergedRight ==
  ASSUME Pass1Right, ended, NEW data \in Seq(SavedChunks), NEW n \in 0 .. Len(chunks),
         Len(data) <= n, AllSaved(data, chunks, n, text, TRUE), NEW w \in Words,
         NEW l, Lists(l, w, text, 0, ChunkEnd(chunks, n - Len(data)))
  PROVE  /\ Merged(data, w, Gaps(l)) \in Seq(Nat \X Nat)
         /\ Lists(l \o Merged(data, w, Gaps(l)), w, text, 0, ChunkEnd(chunks, n))
<1>. DEFINE S == Seq(Nat \X Nat)
            m == Len(data)
            From(s, i) == FromChunk(data[i], w, Gaps(l) + Gaps(s))
            E(i) == ChunkEnd(chunks, (n - m) + i)
            Right(s, i) == s \in S /\ Lists(l \o s, w, text, 0, E(i))
            Q(g) == g = [i \in 0 .. m |-> IF i = 0 THEN <<>>
                                          ELSE g[i - 1] \o FromChunk(data[i], w, Gaps(l) + Gaps(g[i - 1]))]
            D == [x \in S \X (1 .. m) |->
                    IF x[1] \o From(x[1], x[2]) \in S THEN x[1] \o From(x[1], x[2]) ELSE x[1]]
            p == CHOOSE h : Q(h)
<1>1. /\ chunks \in Seq(ChunkDescriptions) /\ text \in Seq(Documents) /\ Len(text) \in Nat
      /\ m \in Nat /\ n \in Nat /\ m <= n /\ Len(chunks) \in Nat
  BY DEF Pass1Right
<1>2. ASSUME NEW i \in 1 .. m, NEW s, Right(s, i - 1)
      PROVE  Right(s \o From(s, i), i)
  <2>. DEFINE j == (n - m) + i
              d == chunks[j]
              a == ChunkEnd(chunks, j - 1)
              c == data[i]
  <2>1. j \in 1 .. Len(chunks) /\ (n - m) + (i - 1) = j - 1 /\ c \in SavedChunks
    BY <1>1
  <2>2. SavedRight(c, d, text, a) /\ ImageRight(c.image, d, text, a)
    BY DEF AllSaved
  <2>. HIDE DEF j
  <2>3. /\ d \in ChunkDescriptions /\ d.docs \in Nat \ {0} /\ a \in 0 .. Len(text)
        /\ ChunkEnd(chunks, j) = a + d.docs /\ ChunkEnd(chunks, j) \in 0 .. Len(text)
    BY <2>1, ChunkFacts
  <2>4. l \in S /\ s \in S /\ Lists(l \o s, w, text, 0, a)
    BY <1>2, <2>1 DEF Lists
  <2>. HIDE DEF a, d, c
  <2>5. a + d.docs <= Len(text)
    BY <1>1, <2>3
  <2>6. /\ s \o FromChunk(c, w, Gaps(l) + Gaps(s)) \in S
        /\ Lists(l \o (s \o FromChunk(c, w, Gaps(l) + Gaps(s))), w, text, 0, a + d.docs)
    BY <1>1, <2>1, <2>2, <2>3, <2>4, <2>5, ChunkMerged
  <2>. QED BY <2>3, <2>6 DEF c, j
<1>3. Right(<<>>, 0)
  <2>1. l \in S
    BY DEF Lists
  <2>2. l \o <<>> = l /\ <<>> \in S
    <3>. DEFINE R == Nat \X Nat
    <3>1. l \in Seq(R)
      BY <2>1
    <3>. HIDE DEF R
    <3>2. l \o <<>> = l /\ <<>> \in Seq(R)
      BY <3>1, NothingAdded
    <3>. QED BY <3>2 DEF R
  <2>3. (n - m) + 0 = n - m
    BY <1>1
  <2>. QED BY <2>2, <2>3
<1>. HIDE DEF From, Right
<1>4. ASSUME NEW g, g[0] = <<>>, \A i \in 1 .. m : Right(g[i - 1], i - 1) => g[i] = g[i - 1] \o From(g[i - 1], i)
      PROVE  \A i \in 0 .. m : Right(g[i], i)
  <2>. DEFINE T == {i \in Nat : i <= m => Right(g[i], i)}
  <2>1. 0 \in T
    BY <1>3, <1>4
  <2>2. ASSUME NEW i \in Nat, i \in T PROVE i + 1 \in T
    <3>. SUFFICES ASSUME i + 1 <= m PROVE Right(g[i + 1], i + 1)
      OBVIOUS
    <3>1. i + 1 \in 1 .. m /\ (i + 1) - 1 = i /\ Right(g[i], i)
      BY <1>1, <2>2
    <3>2. g[i + 1] = g[i] \o From(g[i], i + 1)
      BY <1>4, <3>1
    <3>3. Right(g[i] \o From(g[i], i + 1), i + 1)
      BY <1>2, <3>1
    <3>. QED BY <3>2, <3>3
  <2>3. Nat \subseteq T
    <3>. HIDE DEF T
    <3>. QED BY <2>1, <2>2, SetInduction
  <2>. QED BY <1>1, <2>3
<1>5. D \in [S \X (1 .. m) -> S] /\ <<>> \in S
  <2>1. \A x \in S \X (1 .. m) : x[1] \in S
    OBVIOUS
  <2>2. <<>> \in S
    BY <1>3 DEF Right
  <2>. HIDE DEF S
  <2>. QED BY <2>1, <2>2
<1>6. PICK g \in [0 .. m -> S] : RecursUpTo(g, m, <<>>, D)
  <2>. HIDE DEF D, S
  <2>. QED BY <1>1, <1>5, RecursionUpTo, Zenon
<1>. HIDE DEF m
<1>7. /\ g[0] = <<>>
      /\ \A i \in 1 .. m : g[i] = IF g[i - 1] \o From(g[i - 1], i) \in S
                                  THEN g[i - 1] \o From(g[i - 1], i) ELSE g[i - 1]
  <2>1. 0 \in 0 .. m
    BY <1>1
  <2>2. \A i \in 0 .. m : g[i] = IF i = 0 THEN <<>> ELSE D[<<g[i - 1], i>>]
    <3>. HIDE DEF D, S
    <3>. QED BY <1>6 DEF RecursUpTo
  <2>3. ASSUME NEW i \in 1 .. m
        PROVE  g[i] = IF g[i - 1] \o From(g[i - 1], i) \in S
                      THEN g[i - 1] \o From(g[i - 1], i) ELSE g[i - 1]
    <3>1. i \in 0 .. m /\ i # 0 /\ i - 1 \in 0 .. m
      BY <1>1
    <3>2. g[i] = D[<<g[i - 1], i>>]
      <4>. HIDE DEF D, S
      <4>. QED BY <2>2, <3>1
    <3>3. g[i - 1] \in S
      <4>. HIDE DEF S
      <4>. QED BY <1>6, <3>1
    <3>. HIDE DEF S
    <3>4. <<g[i - 1], i>> \in S \X (1 .. m)
      BY <3>3
    <3>. QED BY <3>2, <3>4
  <2>4. g[0] = <<>>
    <3>. HIDE DEF D, S
    <3>. QED BY <2>1, <2>2
  <2>. QED BY <2>3, <2>4
<1>. HIDE DEF D
<1>8. \A i \in 0 .. m : Right(g[i], i)
  <2>1. ASSUME NEW i \in 1 .. m, Right(g[i - 1], i - 1) PROVE g[i] = g[i - 1] \o From(g[i - 1], i)
    <3>1. Right(g[i - 1] \o From(g[i - 1], i), i)
      BY <1>2, <2>1 DEF m
    <3>2. g[i - 1] \o From(g[i - 1], i) \in S
      BY <3>1 DEF Right
    <3>. HIDE DEF S
    <3>. QED BY <1>7, <3>2
  <2>. QED BY <1>4, <1>7, <2>1 DEF m
<1>9. Q(g)
  <2>1. ASSUME NEW i \in 0 .. m
        PROVE  g[i] = IF i = 0 THEN <<>> ELSE g[i - 1] \o FromChunk(data[i], w, Gaps(l) + Gaps(g[i - 1]))
    <3>1. CASE i = 0
      BY <1>7, <3>1
    <3>2. CASE i # 0
      <4>1. i \in 1 .. m /\ i - 1 \in 0 .. m
        BY <1>1, <3>2
      <4>2. Right(g[i - 1] \o From(g[i - 1], i), i)
        BY <1>2, <1>8, <4>1 DEF m
      <4>3. g[i - 1] \o From(g[i - 1], i) \in S
        BY <4>2 DEF Right
      <4>4. g[i] = g[i - 1] \o From(g[i - 1], i)
        <5>. HIDE DEF S
        <5>. QED BY <1>7, <4>1, <4>3
      <4>. QED BY <3>2, <4>4 DEF From
    <3>. QED BY <3>1, <3>2
  <2>. QED BY <1>6, <2>1
<1>10. Q(p)
  <2>. HIDE DEF Q
  <2>. QED BY <1>9
<1>11. Merged(data, w, Gaps(l)) = p[m]
  BY DEF Merged, m
<1>. HIDE DEF p
<1>12. p[0] = <<>> /\ \A i \in 1 .. m : p[i] = p[i - 1] \o From(p[i - 1], i)
  <2>1. \A i \in 0 .. m : p[i] = IF i = 0 THEN <<>>
                                ELSE p[i - 1] \o FromChunk(data[i], w, Gaps(l) + Gaps(p[i - 1]))
    BY <1>10, Zenon
  <2>2. 0 \in 0 .. m /\ \A i \in 1 .. m : i \in 0 .. m /\ i # 0
    BY <1>1
  <2>. QED BY <2>1, <2>2 DEF From
<1>13. Right(p[m], m)
  <2>1. m \in 0 .. m
    BY <1>1
  <2>2. \A i \in 0 .. m : Right(p[i], i)
    BY <1>4, <1>12 DEF m
  <2>. QED BY <2>1, <2>2
<1>14. (n - m) + m = n
  BY <1>1
<1>. QED BY <1>11, <1>13, <1>14 DEF Right

-----------------------------------------------------------------------------
\* The last document of a chunk.

\* The chunks that wait, the one in memory among them.
Waiting == [chunk_data EXCEPT ![Len(chunk_data)].image = [region |-> region, memory |-> memory']]

LEMMA MemoryIsList ==
  ASSUME NEW w, NEW t, NEW a, NEW c, NEW r, NEW q, NEW l, NEW m, WordRight(w, t, a, c, r, q, l, m)
  PROVE  m \in Seq(Nat \X Nat) /\ Lists(m, w, t, a, c)
BY DEF WordRight, Lists

LEMMA ChunkDone ==
  ASSUME Pass1Right, CountersRight, RegionsRight, DataRight, process_doc_2, docs_left = 1
  PROVE  /\ chunk \in 1 .. Len(chunks) /\ ended /\ Len(chunk_data) \in 1 .. chunk
         /\ Waiting \in Seq(SavedChunks) /\ Len(Waiting) = Len(chunk_data)
         /\ AllSaved(Waiting, chunks, chunk, text, TRUE)
         /\ disk_chunks \in Nat /\ Len(chunk_data) = disk_chunks + 1
<1>. DEFINE d == chunks[chunk]
            a == ChunkStart
            x == [region |-> region, memory |-> memory']
<1>1. CountersRight' /\ RegionsRight'
  BY DocumentKeepsPass2
<1>2. /\ ChunkLimit >= 0 /\ callnum' = callnum + 1 /\ docs_left' = docs_left - 1
      /\ text' = text /\ chunks' = chunks /\ chunk' = chunk /\ region' = region
      /\ memory' = [w \in Words |-> memory'[w]]
  BY DEF process_doc_2, pass1
<1>3. /\ chunk \in 0 .. Len(chunks) /\ callnum \in Nat /\ callnum + 1 = ChunkEnd(chunks, chunk)
      /\ ended
  BY <1>2 DEF CountersRight
<1>4. Len(chunk_data) = disk_chunks + 1 /\ disk_chunks \in Nat /\ Len(chunk_data) <= chunk
      /\ chunk_data \in Seq(SavedChunks)
  BY DEF DataRight
<1>5. chunk \in 1 .. Len(chunks) /\ Len(chunk_data) \in 1 .. chunk /\ chunk > 0 /\ chunk \in Nat
  BY <1>3, <1>4
<1>6. a + d.docs = callnum + 1
  BY <1>3, <1>5, ChunkInMemory
<1>7. ChunkStart' = a
  BY <1>2 DEF ChunkStart
<1>8. region = RegionsOf(d, text, a) /\ region \in Regions
  <2>1. region = RegionsOf(d, text, a)
    BY <1>5 DEF RegionsRight
  <2>2. RegionsOf(chunks[chunk], text, ChunkEnd(chunks, chunk - 1)) \in Regions
    BY <1>3, <1>5, RegionsTyped
  <2>. QED BY <2>1, <2>2 DEF ChunkStart
<1>. HIDE DEF a
<1>9. ASSUME NEW w \in Words PROVE memory'[w] \in Seq(Nat \X Nat) /\ Lists(memory'[w], w, text, a, a + d.docs)
  <2>1. WordRight(w, text, a, callnum + 1, region'[w], ptr'[w], last'[w], memory'[w])
    BY <1>1, <1>2, <1>5, <1>7 DEF RegionsRight
  <2>. HIDE DEF d
  <2>2. memory'[w] \in Seq(Nat \X Nat) /\ Lists(memory'[w], w, text, a, callnum + 1)
    BY <2>1, MemoryIsList
  <2>. QED BY <1>6, <2>2
<1>10. x \in Images
  <2>1. memory' \in [Words -> Seq(Nat \X Nat)]
    BY <1>2, <1>9
  <2>. QED BY <1>8, <2>1 DEF Images
<1>11. ImageRight(x, d, text, ChunkEnd(chunks, chunk - 1))
  <2>1. ChunkEnd(chunks, chunk - 1) = a
    BY DEF ChunkStart, a
  <2>2. x.region = RegionsOf(d, text, a) /\ x.memory = memory'
    BY <1>8
  <2>. HIDE DEF x, d
  <2>. QED BY <1>9, <2>1, <2>2 DEF ImageRight
<1>12. AllSaved(chunk_data, chunks, chunk, text, FALSE)
  <2>1. ~(docs_left = 0)
    OBVIOUS
  <2>. QED BY <2>1 DEF DataRight, AllSaved
<1>. HIDE DEF x, d
<1>13. /\ [chunk_data EXCEPT ![Len(chunk_data)].image = x] \in Seq(SavedChunks)
       /\ Len([chunk_data EXCEPT ![Len(chunk_data)].image = x]) = Len(chunk_data)
       /\ AllSaved([chunk_data EXCEPT ![Len(chunk_data)].image = x], chunks, chunk, text, TRUE)
  <2>1. Len(chunk_data) > 0
    BY <1>5
  <2>. QED BY <1>4, <1>5, <1>10, <1>11, <1>12, <2>1, DataFilled DEF d
<1>. QED BY <1>3, <1>4, <1>5, <1>13 DEF Waiting, x

LEMMA DocumentKeepsData ==
  ASSUME Pass1Right, CountersRight, RegionsRight, DataRight, process_doc_2
  PROVE  DataRight'
<1>1. /\ ChunkLimit >= 0 /\ docs_left > 0 /\ docs_left' = docs_left - 1
      /\ text' = text /\ chunks' = chunks /\ chunk' = chunk /\ ChunkLimit' = ChunkLimit
  BY DEF process_doc_2, pass1
<1>2. docs_left \in Nat /\ ChunkLimit \in Nat /\ chunk \in Nat
  BY <1>1 DEF CountersRight
<1>3. CASE docs_left # 1
  <2>1. chunk_data' = chunk_data /\ disk_chunks' = disk_chunks
    BY <1>3 DEF process_doc_2
  <2>2. docs_left' > 0 /\ ~(docs_left = 0) /\ ~(docs_left' = 0)
    BY <1>1, <1>2, <1>3
  <2>3. /\ chunk_data \in Seq(SavedChunks) /\ disk_chunks \in Nat
        /\ Len(chunk_data) = disk_chunks + (IF docs_left > 0 THEN 1 ELSE 0)
        /\ Len(chunk_data) <= chunk
        /\ disk_chunks <= IF ChunkLimit = -1 THEN 0 ELSE ChunkLimit
    BY DEF DataRight
  <2>4. AllSaved(chunk_data, chunks, chunk, text, docs_left' = 0)
    BY <2>2 DEF DataRight, AllSaved
  <2>5. Len(chunk_data') = disk_chunks' + (IF docs_left' > 0 THEN 1 ELSE 0)
    BY <1>1, <2>1, <2>2, <2>3
  <2>6. AllSaved(chunk_data', chunks', chunk', text', docs_left' = 0)
    BY <1>1, <2>1, <2>4
  <2>. QED BY <1>1, <2>1, <2>3, <2>5, <2>6 DEF DataRight
<1>4. CASE docs_left = 1
  <2>1. /\ Len(chunk_data) \in 1 .. chunk
        /\ Waiting \in Seq(SavedChunks) /\ Len(Waiting) = Len(chunk_data)
        /\ AllSaved(Waiting, chunks, chunk, text, TRUE)
        /\ disk_chunks \in Nat /\ Len(chunk_data) = disk_chunks + 1
    BY <1>4, ChunkDone
  <2>2. MergeIn(Waiting)
    BY <1>4 DEF process_doc_2, Waiting
  <2>3. docs_left' = 0 /\ ~(docs_left' > 0)
    BY <1>1, <1>4
  <2>4. CASE DiskMerge(Waiting)
    <3>1. chunk_data' = <<>> /\ disk_chunks' = 0
      BY <2>4 DEF DiskMerge
    <3>2. <<>> \in Seq(SavedChunks) /\ Len(<<>>) = 0
      OBVIOUS
    <3>3. AllSaved(chunk_data', chunks', chunk', text', docs_left' = 0)
      BY <3>1, NoDataAtFirst
    <3>4. Len(chunk_data') = disk_chunks' + (IF docs_left' > 0 THEN 1 ELSE 0)
      BY <2>3, <3>1, <3>2
    <3>. QED BY <1>1, <1>2, <3>1, <3>2, <3>3, <3>4 DEF DataRight
  <2>5. CASE disk_chunks # ChunkLimit /\ DumpChunk(Waiting)
    <3>1. chunk_data' = Waiting /\ disk_chunks' = disk_chunks + 1
      BY <2>5 DEF DumpChunk
    <3>2. disk_chunks <= IF ChunkLimit = -1 THEN 0 ELSE ChunkLimit
      BY DEF DataRight
    <3>3. disk_chunks' <= ChunkLimit /\ disk_chunks' \in Nat /\ ChunkLimit # -1
      BY <1>2, <2>1, <2>5, <3>1, <3>2
    <3>4. AllSaved(chunk_data', chunks', chunk', text', docs_left' = 0)
      BY <1>1, <2>1, <3>1 DEF AllSaved
    <3>5. Len(chunk_data') = disk_chunks' + (IF docs_left' > 0 THEN 1 ELSE 0)
      BY <2>1, <2>3, <3>1
    <3>6. Len(chunk_data') <= chunk' /\ chunk_data' \in Seq(SavedChunks)
      BY <1>1, <2>1, <3>1
    <3>. QED BY <1>1, <3>3, <3>4, <3>5, <3>6 DEF DataRight
  <2>. QED BY <2>2, <2>4, <2>5 DEF MergeIn
<1>. QED BY <1>3, <1>4

-----------------------------------------------------------------------------
\* The inverted file.

\* The document up to which the chunks are merged.
MergedTo == ChunkEnd(chunks, chunk - Len(chunk_data))

\* The inverted file holds the postings of the documents merged so far.
ListsRight ==
  \A w \in Words : Lists(invf[w], w, text, 0, MergedTo) /\ Disk_Last[w] = Gaps(invf[w])

LEMMA EmptyLists ==
  ASSUME NEW w, NEW t \in Seq(Documents), NEW u \in Seq(Documents), NEW l, Lists(l, w, t, 0, 0)
  PROVE  Lists(l, w, u, 0, 0)
<1>1. DocsIn(w, t, 0, 0) = 0 /\ DocsIn(w, u, 0, 0) = 0
  <2>1. DocsWith(w, t, 0) = 0 /\ DocsWith(w, u, 0) = 0
    BY CountsRight
  <2>. QED BY <2>1 DEF DocsIn
<1>2. l \in Seq(Nat \X Nat) /\ Len(l) = 0
  BY <1>1 DEF Lists
<1>. QED BY <1>1, <1>2 DEF Lists

LEMMA ChunkEndsGrow ==
  ASSUME NEW cs \in Seq(ChunkDescriptions), NEW j \in 0 .. Len(cs), NEW i \in 0 .. j
  PROVE  ChunkEnd(cs, i) <= ChunkEnd(cs, j)
<1>. DEFINE s == [c \in DOMAIN cs |-> cs[c].docs]
<1>1. DOMAIN cs = 1 .. Len(cs) /\ Len(cs) \in Nat /\ j \in Nat
  OBVIOUS
<1>2. \A k \in 1 .. j : s[k] \in Nat
  <2>1. ASSUME NEW k \in 1 .. j PROVE s[k] \in Nat
    <3>1. k \in DOMAIN cs /\ cs[k] \in ChunkDescriptions
      BY <1>1
    <3>. QED BY <3>1, ChunkTypes
  <2>. QED BY <2>1
<1>. HIDE DEF s
<1>3. SumTo(s, i) <= SumTo(s, j)
  BY <1>1, <1>2, SumsGrow
<1>. QED BY <1>3 DEF ChunkEnd, s

LEMMA MergedToRight ==
  ASSUME Pass1Right, CountersRight, DataRight
  PROVE  /\ chunk - Len(chunk_data) \in 0 .. Len(chunks) /\ MergedTo \in Nat
         /\ MergedTo <= callnum
         /\ ended => MergedTo \in 0 .. Len(text)
         /\ ChunkLimit = -1 => MergedTo = 0 /\ chunk_data = <<>>
<1>1. /\ chunk \in 0 .. Len(chunks) /\ callnum \in Nat /\ docs_left \in Nat
      /\ callnum + docs_left = ChunkEnd(chunks, chunk) /\ (ChunkLimit = -1 => chunk = 0)
      /\ chunk > 0 => docs_left <= chunks[chunk].docs
  BY DEF CountersRight
<1>2. /\ chunk_data \in Seq(SavedChunks) /\ Len(chunk_data) <= chunk /\ disk_chunks \in Nat
      /\ Len(chunk_data) = disk_chunks + (IF docs_left > 0 THEN 1 ELSE 0)
  BY DEF DataRight
<1>3. chunks \in Seq(ChunkDescriptions) /\ Len(text) \in Nat
      /\ (ended => ChunkEnd(chunks, Len(chunks)) = Len(text))
  BY DEF Pass1Right
<1>4. Len(chunk_data) \in Nat /\ chunk - Len(chunk_data) \in 0 .. Len(chunks)
  BY <1>1, <1>2, <1>3, SMTT(30)
<1>5. MergedTo \in Nat /\ MergedTo <= ChunkEnd(chunks, Len(chunks))
  BY <1>3, <1>4, ChunkEndRight DEF MergedTo
<1>6. MergedTo <= callnum
  <2>1. CASE Len(chunk_data) = 0
    <3>1. docs_left = 0
      BY <1>1, <1>2, <2>1
    <3>2. chunk - Len(chunk_data) = chunk
      BY <1>1, <2>1
    <3>. QED BY <1>1, <3>1, <3>2 DEF MergedTo
  <2>2. CASE Len(chunk_data) # 0
    <3>. DEFINE i == chunk - Len(chunk_data)
    <3>1. chunk \in 1 .. Len(chunks) /\ chunk \in DOMAIN chunks /\ i \in 0 .. chunk - 1 /\ chunk > 0
      BY <1>1, <1>2, <1>3, <1>4, <2>2
    <3>2. /\ chunk - 1 \in 0 .. Len(chunks)
          /\ ChunkEnd(chunks, chunk) = ChunkEnd(chunks, chunk - 1) + chunks[chunk].docs
      BY <1>3, <3>1, ChunkEndRight
    <3>3. ChunkEnd(chunks, i) <= ChunkEnd(chunks, chunk - 1)
      <4>. HIDE DEF i
      <4>. QED BY <1>3, <3>1, <3>2, ChunkEndsGrow
    <3>4. ChunkEnd(chunks, i) \in Nat /\ ChunkEnd(chunks, chunk - 1) \in Nat
      BY <1>3, <1>4, <3>2, ChunkEndRight
    <3>5. chunks[chunk].docs \in Nat
      BY <1>3, <3>1, ChunkTypes
    <3>. HIDE DEF i
    <3>. QED BY <1>1, <3>1, <3>2, <3>3, <3>4, <3>5, SMTT(30) DEF MergedTo, i
  <2>. QED BY <2>1, <2>2
<1>7. ChunkLimit = -1 => MergedTo = 0 /\ chunk_data = <<>>
  <2>. SUFFICES ASSUME ChunkLimit = -1 PROVE MergedTo = 0 /\ chunk_data = <<>>
    OBVIOUS
  <2>1. chunk = 0 /\ Len(chunk_data) = 0 /\ chunk - Len(chunk_data) = 0
    BY <1>1, <1>2, <1>4
  <2>2. ChunkEnd(chunks, 0) = 0
    BY <1>3, ChunkEndRight
  <2>. QED BY <1>2, <2>1, <2>2 DEF MergedTo
<1>. QED BY <1>3, <1>4, <1>5, <1>6, <1>7

HeadersRight(data, cs, n, t) ==
  \A c \in 1 .. Len(data) :
    LET i == (n - Len(data)) + c IN SavedRight(data[c], cs[i], t, ChunkEnd(cs, i - 1))

LEMMA SavedAt ==
  ASSUME NEW data, NEW cs, NEW n, NEW t, HeadersRight(data, cs, n, t), NEW c \in 1 .. Len(data)
  PROVE  SavedRight(data[c], cs[(n - Len(data)) + c], t, ChunkEnd(cs, ((n - Len(data)) + c) - 1))
<1>. DEFINE i == (n - Len(data)) + c
<1>1. SavedRight(data[c], cs[i], t, ChunkEnd(cs, i - 1))
  BY DEF HeadersRight
<1>. QED BY <1>1

LEMMA IndexedRight ==
  ASSUME Pass1Right, CountersRight, DataRight
  PROVE  Indexed = MergedTo
<1>1. /\ chunk \in 0 .. Len(chunks) /\ callnum \in Nat /\ docs_left \in Nat
      /\ callnum + docs_left = ChunkEnd(chunks, chunk)
  BY DEF CountersRight
<1>2. /\ chunk_data \in Seq(SavedChunks) /\ disk_chunks \in Nat
      /\ Len(chunk_data) = disk_chunks + (IF docs_left > 0 THEN 1 ELSE 0)
      /\ AllSaved(chunk_data, chunks, chunk, text, docs_left = 0)
  BY DEF DataRight
<1>3. CASE chunk_data = <<>>
  <2>1. Len(chunk_data) = 0
    BY <1>3
  <2>2. docs_left = 0 /\ chunk - Len(chunk_data) = chunk
    BY <1>1, <1>2, <2>1
  <2>3. MergedTo = callnum
    BY <1>1, <2>2 DEF MergedTo
  <2>. QED BY <1>3, <2>3 DEF Indexed
<1>4. CASE chunk_data # <<>>
  <2>1. 1 \in 1 .. Len(chunk_data) /\ Len(chunk_data) \in Nat
    BY <1>2, <1>4
  <2>2. ((chunk - Len(chunk_data)) + 1) - 1 = chunk - Len(chunk_data)
    BY <1>1, <2>1
  <2>3. SavedRight(chunk_data[1], chunks[(chunk - Len(chunk_data)) + 1], text,
                   ChunkEnd(chunks, ((chunk - Len(chunk_data)) + 1) - 1))
    <3>1. HeadersRight(chunk_data, chunks, chunk, text)
      BY DEF DataRight, AllSaved, HeadersRight
    <3>. QED BY <2>1, <3>1, SavedAt
  <2>4. chunk_data[1].start_doc = ChunkEnd(chunks, ((chunk - Len(chunk_data)) + 1) - 1)
    BY <2>3 DEF SavedRight
  <2>. QED BY <1>4, <2>2, <2>4 DEF Indexed, MergedTo
<1>. QED BY <1>3, <1>4

LEMMA ListsBegin == InvfInit => ListsRight
<1>. SUFFICES ASSUME InvfInit PROVE ListsRight
  OBVIOUS
<1>1. /\ text = <<>> /\ chunks = <<>> /\ chunk = 0 /\ chunk_data = <<>>
      /\ invf = [w \in Words |-> <<>>] /\ Disk_Last = [w \in Words |-> 0]
  BY DEF InvfInit, Pass1Init, Pass2Init
<1>2. MergedTo = 0
  <2>1. <<>> \in Seq(ChunkDescriptions) /\ Len(<<>>) = 0 /\ 0 - 0 = 0
    OBVIOUS
  <2>2. ChunkEnd(<<>>, 0) = 0
    BY <2>1, ChunkEndRight
  <2>. QED BY <1>1, <2>1, <2>2 DEF MergedTo
<1>3. Gaps(<<>>) = 0
  <2>1. <<>> \in Seq(Nat \X Nat) /\ Len(<<>>) = 0
    OBVIOUS
  <2>. QED BY <2>1, GapsRight DEF Gaps
<1>4. \A w \in Words : Lists(<<>>, w, <<>>, 0, 0)
  <2>1. <<>> \in Seq(Documents) /\ Len(<<>>) = 0 /\ 0 \in 0 .. 0
    OBVIOUS
  <2>. QED BY <2>1, ListsNone
<1>. QED BY <1>1, <1>2, <1>3, <1>4 DEF ListsRight

LEMMA Pass1KeepsLists ==
  ASSUME Pass1Right, Pass1Right', CountersRight, CountersRight', DataRight, DataRight', ListsRight,
         Pass1Next, UNCHANGED pass2
  PROVE  ListsRight' /\ MergedTo' = 0 /\ MergedTo = 0
<1>1. ~ended
  BY DEF Pass1Next, ReadDocument, done_ivf_1
<1>2. ChunkLimit = -1
  BY <1>1 DEF CountersRight
<1>3. ChunkLimit' = ChunkLimit /\ invf' = invf /\ Disk_Last' = Disk_Last
  BY DEF pass2, diskvars
<1>4. MergedTo = 0
  BY <1>2, MergedToRight
<1>5. MergedTo' = 0
  <2>1. ChunkLimit' = -1
    BY <1>2, <1>3
  <2>2. /\ chunk' \in 0 .. Len(chunks') /\ chunk' = 0
    BY <2>1 DEF CountersRight
  <2>3. chunk_data' = chunk_data /\ Len(chunk_data) = 0
    <3>1. chunk_data = <<>>
      BY <1>2, MergedToRight
    <3>. QED BY <3>1 DEF pass2
  <2>4. chunk' - Len(chunk_data') = 0
    BY <2>2, <2>3
  <2>5. chunks' \in Seq(ChunkDescriptions)
    BY DEF Pass1Right
  <2>6. ChunkEnd(chunks', 0) = 0
    BY <2>5, ChunkEndRight
  <2>. QED BY <2>4, <2>6 DEF MergedTo
<1>6. text \in Seq(Documents) /\ text' \in Seq(Documents)
  BY DEF Pass1Right
<1>7. ASSUME NEW w \in Words PROVE Lists(invf[w], w, text', 0, 0) /\ Disk_Last[w] = Gaps(invf[w])
  <2>1. Lists(invf[w], w, text, 0, 0) /\ Disk_Last[w] = Gaps(invf[w])
    BY <1>4 DEF ListsRight
  <2>. QED BY <1>6, <2>1, EmptyLists
<1>. QED BY <1>3, <1>4, <1>5, <1>7 DEF ListsRight

LEMMA SplitOff ==
  ASSUME NEW S, NEW l \in Seq(S), NEW z \in Seq(S)
  PROVE  SubSeq(l \o z, Len(l) + 1, Len(l \o z)) = z
<1>1. /\ Len(l) \in Nat /\ Len(z) \in Nat /\ l \o z \in Seq(S) /\ Len(l \o z) = Len(l) + Len(z)
      /\ \A j \in 1 .. Len(z) : (l \o z)[Len(l) + j] = z[j]
  OBVIOUS
<1>. DEFINE r == SubSeq(l \o z, Len(l) + 1, Len(l \o z))
<1>2. r \in Seq(S) /\ Len(r) = Len(z)
  <2>1. Len(l) + 1 \in 1 .. Len(l \o z) + 1
    BY <1>1
  <2>2. CASE Len(z) = 0
    <3>1. r = <<>>
      BY <1>1, <2>2
    <3>. QED BY <2>2, <3>1
  <2>3. CASE Len(z) > 0
    BY <1>1, <2>3
  <2>. QED BY <1>1, <2>2, <2>3
<1>3. \A j \in 1 .. Len(z) : r[j] = z[j]
  BY <1>1
<1>. HIDE DEF r
<1>4. r = z
  BY <1>2, <1>3, SeqEqual
<1>. QED BY <1>4 DEF r

LEMMA StartKeepsLists ==
  ASSUME ListsRight, init_ivf_2
  PROVE  ListsRight' /\ MergedTo' = MergedTo /\ invf' = invf
<1>1. /\ invf' = invf /\ Disk_Last' = Disk_Last /\ text' = text /\ chunks' = chunks
      /\ chunk' = chunk /\ chunk_data' = chunk_data
  BY DEF init_ivf_2, pass1
<1>2. MergedTo' = MergedTo
  BY <1>1 DEF MergedTo
<1>. QED BY <1>1, <1>2 DEF ListsRight

LEMMA LoadKeepsLists ==
  ASSUME CountersRight, DataRight, ListsRight, LoadCounts
  PROVE  ListsRight' /\ MergedTo' = MergedTo /\ invf' = invf
<1>1. /\ invf' = invf /\ Disk_Last' = Disk_Last /\ text' = text /\ chunks' = chunks
      /\ chunk' = chunk + 1 /\ Len(chunk_data') = Len(chunk_data) + 1
  <2>1. ASSUME NEW c, chunk_data' = Append(chunk_data, c) PROVE Len(chunk_data') = Len(chunk_data) + 1
    BY <2>1 DEF DataRight
  <2>2. \E c : chunk_data' = Append(chunk_data, c)
    BY DEF LoadCounts
  <2>. QED BY <2>1, <2>2 DEF LoadCounts, diskvars, pass1
<1>2. chunk' - Len(chunk_data') = chunk - Len(chunk_data)
  <2>1. chunk \in Int /\ Len(chunk_data) \in Int
    BY DEF CountersRight, DataRight
  <2>. QED BY <1>1, <2>1
<1>3. MergedTo' = MergedTo
  BY <1>1, <1>2 DEF MergedTo
<1>. QED BY <1>1, <1>3 DEF ListsRight

(***************************************************************************)
(* What a merge does to the list of a word.                                *)
(***************************************************************************)
LEMMA MergeRight ==
  ASSUME Pass1Right, CountersRight, RegionsRight, DataRight, ListsRight,
         process_doc_2, docs_left = 1, DiskMerge(Waiting), NEW w \in Words
  PROVE  LET new == Merged(Waiting, w, Disk_Last[w])
         IN /\ new \in Seq(Nat \X Nat) /\ invf[w] \in Seq(Nat \X Nat)
            /\ invf'[w] = invf[w] \o new
            /\ Lists(invf'[w], w, text, 0, ChunkEnd(chunks, chunk))
            /\ Disk_Last'[w] = Gaps(invf'[w])
            /\ Disk_Ptr'[w] = Disk_Ptr[w] + CodeBits(new, Disk_B[w])
<1>. DEFINE l == invf[w]
            z == Merged(Waiting, w, Disk_Last[w])
            S == Nat \X Nat
<1>1. /\ ended /\ Waiting \in Seq(SavedChunks) /\ Len(Waiting) = Len(chunk_data)
      /\ Len(Waiting) <= chunk /\ chunk \in 0 .. Len(chunks)
      /\ AllSaved(Waiting, chunks, chunk, text, TRUE)
  <2>1. chunks \in Seq(ChunkDescriptions)
    BY DEF Pass1Right
  <2>2. /\ chunk \in 1 .. Len(chunks) /\ ended /\ Len(chunk_data) \in 1 .. chunk
        /\ Waiting \in Seq(SavedChunks) /\ Len(Waiting) = Len(chunk_data)
        /\ AllSaved(Waiting, chunks, chunk, text, TRUE)
    BY ChunkDone
  <2>3. Len(Waiting) <= chunk /\ chunk \in 0 .. Len(chunks)
    BY <2>1, <2>2
  <2>. QED BY <2>2, <2>3
<1>2. /\ Lists(l, w, text, 0, ChunkEnd(chunks, chunk - Len(Waiting)))
      /\ Disk_Last[w] = Gaps(l)
  BY <1>1 DEF ListsRight, MergedTo
<1>3. l \in Seq(S)
  BY <1>2 DEF Lists
<1>4. /\ Merged(Waiting, w, Gaps(l)) \in Seq(Nat \X Nat)
      /\ Lists(l \o Merged(Waiting, w, Gaps(l)), w, text, 0, ChunkEnd(chunks, chunk))
  <2>. HIDE DEF l
  <2>. QED BY <1>1, <1>2, MergedRight
<1>5. z \in Seq(S) /\ Lists(l \o z, w, text, 0, ChunkEnd(chunks, chunk))
  BY <1>2, <1>4
<1>6. /\ invf'[w] = l \o z
      /\ Disk_Last'[w] = Disk_Last[w] + Gaps(SubSeq(invf'[w], Len(l) + 1, Len(invf'[w])))
      /\ Disk_Ptr'[w] = Disk_Ptr[w] + CodeBits(SubSeq(invf'[w], Len(l) + 1, Len(invf'[w])), Disk_B[w])
  BY DEF DiskMerge
<1>. HIDE DEF z, l
<1>7. SubSeq(l \o z, Len(l) + 1, Len(l \o z)) = z
  <2>. HIDE DEF S
  <2>. QED BY <1>3, <1>5, SplitOff
<1>8. Gaps(l \o z) = Gaps(l) + Gaps(z)
  BY <1>3, <1>5, GapsOfBoth
<1>. QED BY <1>2, <1>3, <1>5, <1>6, <1>7, <1>8 DEF l, z

LEMMA MergeReaches ==
  ASSUME Pass1Right, CountersRight, process_doc_2, DiskMerge(Waiting)
  PROVE  MergedTo' = ChunkEnd(chunks, chunk)
<1>1. chunks' = chunks /\ chunk' = chunk /\ chunk_data' = <<>>
  BY DEF process_doc_2, pass1, DiskMerge
<1>2. chunk \in Int
  BY DEF CountersRight
<1>3. chunk' - Len(chunk_data') = chunk
  BY <1>1, <1>2
<1>. QED BY <1>1, <1>3 DEF MergedTo

LEMMA DocumentKeepsLists ==
  ASSUME Pass1Right, CountersRight, RegionsRight, DataRight, ListsRight, process_doc_2
  PROVE  /\ ListsRight'
         /\ \/ MergedTo' = MergedTo /\ invf' = invf /\ Disk_Ptr' = Disk_Ptr
            \/ docs_left = 1 /\ DiskMerge(Waiting) /\ MergedTo' = ChunkEnd(chunks, chunk)
<1>1. text' = text /\ chunks' = chunks /\ chunk' = chunk
  BY DEF process_doc_2, pass1
<1>2. ASSUME UNCHANGED diskvars, Len(chunk_data') = Len(chunk_data)
      PROVE  ListsRight' /\ MergedTo' = MergedTo /\ invf' = invf /\ Disk_Ptr' = Disk_Ptr
  <2>1. invf' = invf /\ Disk_Last' = Disk_Last /\ Disk_Ptr' = Disk_Ptr
    BY <1>2 DEF diskvars
  <2>2. MergedTo' = MergedTo
    BY <1>1, <1>2 DEF MergedTo
  <2>. QED BY <1>1, <2>1, <2>2 DEF ListsRight
<1>3. CASE docs_left # 1
  <2>1. UNCHANGED diskvars /\ chunk_data' = chunk_data
    BY <1>3 DEF process_doc_2
  <2>. QED BY <1>2, <2>1
<1>4. CASE docs_left = 1
  <2>1. MergeIn(Waiting)
    BY <1>4 DEF process_doc_2, Waiting
  <2>2. CASE DumpChunk(Waiting)
    <3>1. UNCHANGED diskvars /\ chunk_data' = Waiting /\ Len(Waiting) = Len(chunk_data)
      BY <1>4, <2>2, ChunkDone DEF DumpChunk
    <3>. QED BY <1>2, <3>1
  <2>3. CASE DiskMerge(Waiting)
    <3>1. MergedTo' = ChunkEnd(chunks, chunk)
      BY <2>3, MergeReaches
    <3>2. ASSUME NEW w \in Words
          PROVE  Lists(invf'[w], w, text, 0, ChunkEnd(chunks, chunk)) /\ Disk_Last'[w] = Gaps(invf'[w])
      BY <1>4, <2>3, MergeRight
    <3>3. ListsRight'
      BY <1>1, <3>1, <3>2 DEF ListsRight
    <3>. QED BY <1>4, <2>3, <3>1, <3>3
  <2>. QED BY <2>1, <2>2, <2>3 DEF MergeIn
<1>. QED BY <1>3, <1>4

-----------------------------------------------------------------------------
\* The abstract index.

\* Two documents with w are one if they come after the same number of others.
LEMMA SameDocument ==
  ASSUME NEW w, NEW t \in Seq(Documents), NEW d \in 1 .. Len(t), NEW e \in 1 .. Len(t),
         w \in InDoc(t[d]), DocsIn(w, t, 0, d) = DocsIn(w, t, 0, e)
  PROVE  d <= e
<1>. SUFFICES ASSUME e < d PROVE FALSE
  OBVIOUS
<1>1. /\ d - 1 \in 0 .. Len(t) /\ d - 1 \in e .. Len(t) /\ e \in 0 .. Len(t) /\ 0 \in 0 .. Len(t)
      /\ (d - 1) + 1 = d /\ d - 1 < Len(t)
  OBVIOUS
<1>2. DocsIn(w, t, 0, (d - 1) + 1) = DocsIn(w, t, 0, d - 1) + (IF w \in InDoc(t[(d - 1) + 1]) THEN 1 ELSE 0)
  BY <1>1, DocsInMore
<1>3. DocsIn(w, t, 0, d) = DocsIn(w, t, 0, d - 1) + 1
  BY <1>1, <1>2
<1>4. /\ DocsIn(w, t, 0, d - 1) = DocsIn(w, t, 0, e) + DocsIn(w, t, e, d - 1)
      /\ DocsIn(w, t, 0, e) \in 0 .. e - 0 /\ DocsIn(w, t, e, d - 1) \in 0 .. (d - 1) - e
  BY <1>1, PartsAdd
<1>. QED BY <1>3, <1>4

LEMMA SeqFromFunction ==
  ASSUME NEW S, NEW n \in Nat, NEW e \in [1 .. n -> S]
  PROVE  e \in Seq(S) /\ Len(e) = n
OBVIOUS

LEMMA PostingsDecoded ==
  ASSUME NEW l \in Seq(Nat \X Nat)
  PROVE  /\ Decoded(l) \in Seq(Nat \X Nat) /\ Len(Decoded(l)) = Len(l)
         /\ \A k \in 1 .. Len(l) : Decoded(l)[k] = <<Document(l, k), l[k][2]>>
<1>1. Len(l) \in Nat /\ DOMAIN l = 1 .. Len(l) /\ \A k \in 1 .. Len(l) : l[k] \in Nat \X Nat
  OBVIOUS
<1>2. ASSUME NEW k \in 1 .. Len(l) PROVE <<Document(l, k), l[k][2]>> \in Nat \X Nat
  <2>1. Document(l, k) \in Nat
    BY <1>1, GapsRight
  <2>. QED BY <1>1, <2>1
<1>. DEFINE e == [k \in 1 .. Len(l) |-> <<Document(l, k), l[k][2]>>]
            S == Nat \X Nat
<1>3. Decoded(l) = e
  BY <1>1 DEF Decoded
<1>4. e \in [1 .. Len(l) -> S]
  BY <1>2
<1>5. \A k \in 1 .. Len(l) : e[k] = <<Document(l, k), l[k][2]>>
  OBVIOUS
<1>. HIDE DEF e, S
<1>6. e \in Seq(S) /\ Len(e) = Len(l)
  BY <1>1, <1>4, SeqFromFunction
<1>. QED BY <1>3, <1>5, <1>6 DEF S

(***************************************************************************)
(* The gaps and counts that the inverted file holds of a word stand for    *)
(* its documents and its occurrences in them.                              *)
(***************************************************************************)
LEMMA ListIsPostings ==
  ASSUME NEW w, NEW t \in Seq(Documents), NEW n \in 0 .. Len(t), NEW l, Lists(l, w, t, 0, n)
  PROVE  Index!ArePostings(Decoded(l), w, SubSeq(t, 1, n))
<1>. DEFINE docs == SubSeq(t, 1, n)
            D(k) == Document(l, k)
            r == Decoded(l)
            F == {<<d, Index!Frequency(w, docs[d])>> : d \in {e \in DOMAIN docs : w \in Index!Range(docs[e])}}
<1>1. DOMAIN docs = 1 .. n /\ \A d \in 1 .. n : docs[d] = t[d]
  OBVIOUS
<1>2. l \in Seq(Nat \X Nat) /\ Len(l) \in Nat /\ Len(l) = DocsIn(w, t, 0, n)
  BY DEF Lists
<1>3. \A k \in 1 .. Len(l) : D(k) \in Nat /\ D(k - 1) \in Nat /\ D(k) = D(k - 1) + l[k][1] /\ l[k] \in Nat \X Nat
  <2>1. \A k \in 1 .. Len(l) : k \in 0 .. Len(l) /\ k - 1 \in 0 .. Len(l) /\ l[k] \in Nat \X Nat
    BY <1>2
  <2>. QED BY <1>2, <2>1, GapsRight
<1>4. \A k \in 1 .. Len(l) :
        /\ D(k) \in 1 .. n /\ D(k - 1) < D(k) /\ w \in InDoc(t[D(k)]) /\ DocsIn(w, t, 0, D(k)) = k
        /\ l[k][2] = Count(w, t[D(k)])
  <2>1. ASSUME NEW k \in 1 .. Len(l)
        PROVE /\ D(k) \in 1 .. n /\ D(k - 1) < D(k) /\ w \in InDoc(t[D(k)]) /\ DocsIn(w, t, 0, D(k)) = k
              /\ l[k][2] = Count(w, t[D(k)])
    <3>1. /\ l[k][1] > 0 /\ 0 + D(k) \in 0 .. n /\ w \in InDoc(t[0 + D(k)])
          /\ DocsIn(w, t, 0, 0 + D(k)) = k /\ l[k][2] = Count(w, t[0 + D(k)])
      BY DEF Lists
    <3>2. D(k) \in Nat /\ D(k - 1) \in Nat /\ D(k) = D(k - 1) + l[k][1] /\ l[k][1] \in Nat
      BY <1>3
    <3>3. 0 + D(k) = D(k)
      BY <3>2
    <3>4. D(k) \in 1 .. n /\ D(k - 1) < D(k)
      BY <3>1, <3>2, <3>3
    <3>. QED BY <3>1, <3>3, <3>4
  <2>. QED BY <2>1
<1>5. /\ DOMAIN r = 1 .. Len(l) /\ Len(r) = Len(l)
      /\ \A k \in 1 .. Len(l) : r[k] = <<D(k), l[k][2]>>
  <2>. DEFINE S == Nat \X Nat
  <2>1. /\ r \in Seq(S) /\ Len(r) = Len(l)
        /\ \A k \in 1 .. Len(l) : r[k] = <<D(k), l[k][2]>>
    BY ONLY <1>2, PostingsDecoded, Zenon
  <2>. HIDE DEF S, r, D
  <2>2. DOMAIN r = 1 .. Len(l)
    BY <2>1
  <2>. QED BY <2>1, <2>2
<1>6. \A d : Index!Frequency(w, d) = Count(w, d)
  <2>1. \A S : Index!Cardinality(S) = Cardinality(S)
    BY DEF Index!Cardinality, Cardinality
  <2>. QED BY <2>1, Zenon DEF Index!Frequency, Count, Occurrences
<1>7. \A d : Index!Range(d) = InDoc(d)
  BY DEF Index!Range, InDoc, Range
<1>. HIDE DEF docs, r, D
<1>8. ASSUME NEW k \in 1 .. Len(l) PROVE r[k] \in F
  <2>1. D(k) \in DOMAIN docs /\ docs[D(k)] = t[D(k)] /\ w \in Index!Range(docs[D(k)])
    BY <1>1, <1>4, <1>7
  <2>2. r[k] = <<D(k), Index!Frequency(w, docs[D(k)])>>
    BY <1>4, <1>5, <1>6, <2>1
  <2>. QED BY <2>1, <2>2
<1>9. ASSUME NEW d \in DOMAIN docs, w \in Index!Range(docs[d])
      PROVE  \E k \in 1 .. Len(l) : r[k] = <<d, Index!Frequency(w, docs[d])>>
  <2>1. d \in 1 .. n /\ docs[d] = t[d] /\ w \in InDoc(t[d]) /\ n \in Nat /\ Len(t) \in Nat
    BY <1>1, <1>7, <1>9
  <2>. DEFINE k == DocsIn(w, t, 0, d)
  <2>2. /\ d \in 0 .. Len(t) /\ d - 1 \in 0 .. Len(t) /\ (d - 1) + 1 = d /\ d - 1 < Len(t)
        /\ 0 \in 0 .. Len(t) /\ n \in d .. Len(t)
    BY <2>1
  <2>3. /\ DocsIn(w, t, 0, n) = k + DocsIn(w, t, d, n)
        /\ k \in 0 .. d - 0 /\ DocsIn(w, t, d, n) \in 0 .. n - d
    BY <2>2, PartsAdd
  <2>4. k = DocsIn(w, t, 0, d - 1) + 1 /\ DocsIn(w, t, 0, d - 1) \in Nat
    <3>1. /\ DocsIn(w, t, 0, (d - 1) + 1) =
               DocsIn(w, t, 0, d - 1) + (IF w \in InDoc(t[(d - 1) + 1]) THEN 1 ELSE 0)
          /\ DocsIn(w, t, 0, d - 1) \in Nat
      BY <2>2, DocsInMore
    <3>. QED BY <2>1, <2>2, <3>1
  <2>5. k \in 1 .. Len(l)
    <3>1. k \in Int /\ k >= 1
      BY <2>4
    <3>2. DocsIn(w, t, d, n) \in Int /\ DocsIn(w, t, d, n) >= 0
      BY <2>1, <2>3
    <3>3. Len(l) = k + DocsIn(w, t, d, n)
      BY <1>2, <2>3
    <3>. HIDE DEF k
    <3>. QED BY <1>2, <3>1, <3>2, <3>3
  <2>6. D(k) \in 1 .. n /\ w \in InDoc(t[D(k)]) /\ DocsIn(w, t, 0, D(k)) = k
    BY <1>4, <2>5
  <2>7. D(k) = d
    <3>1. D(k) \in 1 .. Len(t) /\ d \in 1 .. Len(t)
      BY <2>1, <2>6
    <3>. DEFINE e == D(k)
    <3>2. e \in 1 .. Len(t) /\ w \in InDoc(t[e]) /\ DocsIn(w, t, 0, e) = DocsIn(w, t, 0, d)
      BY <2>6, <3>1
    <3>. HIDE DEF e
    <3>3. d <= e
      BY <2>1, <3>1, <3>2, SameDocument
    <3>4. e <= d
      BY <3>1, <3>2, SameDocument
    <3>5. e = d
      BY <3>1, <3>2, <3>3, <3>4
    <3>. QED BY <3>5 DEF e
  <2>8. r[k] = <<d, Index!Frequency(w, docs[d])>>
    BY <1>4, <1>5, <1>6, <2>1, <2>5, <2>7
  <2>. QED BY <2>5, <2>8
<1>10. {r[k] : k \in DOMAIN r} = F
  <2>1. \A x \in {r[k] : k \in DOMAIN r} : x \in F
    BY <1>5, <1>8
  <2>2. \A x \in F : x \in {r[k] : k \in DOMAIN r}
    <3>1. ASSUME NEW x \in F PROVE \E k \in DOMAIN r : x = r[k]
      <4>1. PICK d \in DOMAIN docs : w \in Index!Range(docs[d]) /\ x = <<d, Index!Frequency(w, docs[d])>>
        OBVIOUS
      <4>. QED BY <1>5, <1>9, <4>1
    <3>. QED BY <3>1
  <2>. QED BY <2>1, <2>2
<1>11. \A k \in 2 .. Len(r) : r[k - 1][1] < r[k][1]
  <2>1. ASSUME NEW k \in 2 .. Len(r) PROVE r[k - 1][1] < r[k][1]
    <3>1. k \in 1 .. Len(l) /\ k - 1 \in 1 .. Len(l)
      BY <1>2, <1>5
    <3>2. r[k][1] = D(k) /\ r[k - 1][1] = D(k - 1)
      BY <1>5, <3>1
    <3>. QED BY <1>4, <3>1, <3>2
  <2>. QED BY <2>1
<1>. QED BY <1>10, <1>11 DEF Index!ArePostings, docs, r

LEMMA MergeGoesOn ==
  ASSUME Pass1Right, CountersRight, RegionsRight, DataRight, process_doc_2, docs_left = 1
  PROVE  ChunkEnd(chunks, chunk) \in MergedTo + 1 .. Len(text)
<1>1. chunk \in 1 .. Len(chunks) /\ ended /\ Len(chunk_data) \in 1 .. chunk
  BY ChunkDone
<1>2. /\ chunks[chunk].docs \in Nat \ {0} /\ chunk - 1 \in 0 .. Len(chunks)
      /\ ChunkEnd(chunks, chunk - 1) \in 0 .. Len(text)
      /\ ChunkEnd(chunks, chunk) = ChunkEnd(chunks, chunk - 1) + chunks[chunk].docs
      /\ ChunkEnd(chunks, chunk) \in 0 .. Len(text)
  BY <1>1, ChunkFacts
<1>3. MergedTo \in Nat /\ MergedTo <= ChunkEnd(chunks, chunk - 1)
  <2>1. chunks \in Seq(ChunkDescriptions) /\ chunk \in Nat
    BY DEF Pass1Right, CountersRight
  <2>. DEFINE i == chunk - Len(chunk_data)
  <2>2. i \in 0 .. chunk - 1
    BY <1>1, <2>1
  <2>. HIDE DEF i
  <2>3. ChunkEnd(chunks, i) <= ChunkEnd(chunks, chunk - 1)
    BY <1>2, <2>1, <2>2, ChunkEndsGrow
  <2>. QED BY <2>3, MergedToRight DEF MergedTo, i
<1>4. Len(text) \in Nat
  BY DEF Pass1Right
<1>. QED BY <1>2, <1>3, <1>4

\* What holds in every state of the two passes.
InvfInv == Pass1Right /\ CountersRight /\ RegionsRight /\ DataRight /\ ListsRight

IndexedIsMerged == Indexed = MergedTo

LEMMA InvfBegins == InvfInit => InvfInv
<1>. SUFFICES ASSUME InvfInit PROVE InvfInv
  OBVIOUS
<1>1. Pass1Right
  BY Pass1Begins DEF InvfInit
<1>2. CountersRight /\ RegionsRight
  BY Pass2Begins
<1>3. DataRight
  BY DataBegins
<1>4. ListsRight
  BY ListsBegin
<1>. QED BY <1>1, <1>2, <1>3, <1>4 DEF InvfInv

LEMMA InvfGoes == InvfInv /\ [InvfNext]_invfVars => InvfInv'
<1>. SUFFICES ASSUME InvfInv, [InvfNext]_invfVars PROVE InvfInv'
  OBVIOUS
<1>. USE DEF InvfInv
<1>1. CASE Pass1Next /\ UNCHANGED pass2
  <2>1. Pass1Right'
    BY <1>1, Pass1Goes
  <2>2. CountersRight' /\ RegionsRight'
    BY <1>1, <2>1, Pass1KeepsPass2
  <2>3. DataRight'
    BY <1>1, Pass1KeepsData
  <2>4. ListsRight'
    BY <1>1, <2>1, <2>2, <2>3, Pass1KeepsLists
  <2>. QED BY <2>1, <2>2, <2>3, <2>4
<1>2. ASSUME UNCHANGED pass1 PROVE Pass1Right'
  BY <1>2, Pass1Goes
<1>3. CASE init_ivf_2
  <2>1. Pass1Right'
    BY <1>2, <1>3 DEF init_ivf_2
  <2>2. CountersRight' /\ RegionsRight'
    BY <1>3, StartKeepsPass2
  <2>3. DataRight'
    BY <1>3, StartKeepsData
  <2>4. ListsRight'
    BY <1>3, StartKeepsLists
  <2>. QED BY <2>1, <2>2, <2>3, <2>4
<1>4. CASE LoadCounts
  <2>1. Pass1Right'
    BY <1>2, <1>4 DEF LoadCounts
  <2>2. CountersRight' /\ RegionsRight'
    BY <1>4, LoadKeepsPass2
  <2>3. DataRight'
    BY <1>4, LoadKeepsData
  <2>4. ListsRight'
    BY <1>4, LoadKeepsLists
  <2>. QED BY <2>1, <2>2, <2>3, <2>4
<1>5. CASE process_doc_2
  <2>1. Pass1Right'
    BY <1>2, <1>5 DEF process_doc_2
  <2>2. CountersRight' /\ RegionsRight'
    BY <1>5, DocumentKeepsPass2
  <2>3. DataRight'
    BY <1>5, DocumentKeepsData
  <2>4. ListsRight'
    BY <1>5, DocumentKeepsLists
  <2>. QED BY <2>1, <2>2, <2>3, <2>4
<1>6. CASE UNCHANGED invfVars
  <2>1. Pass1Right'
    BY <1>2, <1>6 DEF invfVars
  <2>2. UNCHANGED pass1 /\ UNCHANGED pass2
    BY <1>6 DEF invfVars
  <2>3. /\ text' = text /\ chunks' = chunks /\ ended' = ended /\ ChunkLimit' = ChunkLimit
        /\ callnum' = callnum /\ docs_left' = docs_left /\ chunk' = chunk /\ BufToUse' = BufToUse
        /\ region' = region /\ ptr' = ptr /\ last' = last /\ memory' = memory
        /\ chunk_data' = chunk_data /\ disk_chunks' = disk_chunks
        /\ Disk_Last' = Disk_Last /\ invf' = invf
    BY <2>2 DEF pass1, pass2, memvars, diskvars
  <2>4. CountersRight'
    BY <2>3 DEF CountersRight
  <2>5. RegionsRight'
    BY <2>3 DEF RegionsRight, ChunkStart
  <2>6. DataRight'
    <3>1. AllSaved(chunk_data', chunks', chunk', text', docs_left' = 0)
      BY <2>3 DEF DataRight
    <3>. QED BY <2>3, <3>1 DEF DataRight
  <2>7. ListsRight'
    BY <2>3 DEF ListsRight, MergedTo
  <2>. QED BY <2>1, <2>4, <2>5, <2>6, <2>7
<1>. QED BY <1>1, <1>3, <1>4, <1>5, <1>6 DEF InvfNext

LEMMA IndexBegins == InvfInit => Index!Init
<1>. SUFFICES ASSUME InvfInit PROVE Index!Init
  OBVIOUS
<1>1. text = <<>> /\ ended = FALSE /\ chunk_data = <<>> /\ callnum = 0 /\ invf = [w \in Words |-> <<>>]
  BY DEF InvfInit, Pass1Init, Pass2Init
<1>2. Indexed = 0
  BY <1>1 DEF Indexed
<1>3. Decoded(<<>>) = <<>>
  <2>1. <<>> \in Seq(Nat \X Nat) /\ Len(<<>>) = 0
    OBVIOUS
  <2>2. Decoded(<<>>) \in Seq(Nat \X Nat) /\ Len(Decoded(<<>>)) = 0
    BY <2>1, PostingsDecoded
  <2>. QED BY <2>2
<1>4. [w \in Words |-> Decoded(invf[w])] = [w \in Words |-> <<>>]
  BY <1>1, <1>3
<1>. QED BY <1>1, <1>2, <1>4 DEF Index!Init

LEMMA IndexGoesOn ==
  ASSUME InvfInv, IndexedIsMerged, IndexedIsMerged', [InvfNext]_invfVars
  PROVE  [Index!Next]_(Index!vars)
<1>. USE DEF InvfInv
<1>. DEFINE index == [w \in Words |-> Decoded(invf[w])]
<1>1. ASSUME text' = text, ended' = ended, Indexed' = Indexed, invf' = invf
      PROVE  UNCHANGED Index!vars
  BY <1>1 DEF Index!vars
<1>2. ASSUME chunk_data' = chunk_data, callnum' = callnum PROVE Indexed' = Indexed
  BY <1>2 DEF Indexed
<1>3. CASE Pass1Next /\ UNCHANGED pass2
  <2>1. chunk_data' = chunk_data /\ callnum' = callnum /\ invf' = invf
    BY <1>3 DEF pass2, diskvars
  <2>2. Indexed' = Indexed /\ index' = index
    BY <1>2, <2>1
  <2>3. CASE ReadDocument
    <3>1. ~ended /\ ended' = ended /\ \E doc \in Documents : text' = Append(text, doc)
      BY <2>3 DEF ReadDocument, process_doc
    <3>2. Index!Collect
      BY <2>2, <3>1 DEF Index!Collect
    <3>. QED BY <3>2 DEF Index!Next
  <2>4. CASE done_ivf_1
    <3>1. ~ended /\ ended' = TRUE /\ text' = text
      BY <2>4 DEF done_ivf_1
    <3>2. Index!Close
      BY <2>2, <3>1 DEF Index!Close
    <3>. QED BY <3>2 DEF Index!Next
  <2>. QED BY <1>3, <2>3, <2>4 DEF Pass1Next
<1>4. CASE init_ivf_2
  <2>1. text' = text /\ ended' = ended /\ chunk_data' = chunk_data /\ callnum' = callnum /\ invf' = invf
    BY <1>4 DEF init_ivf_2, pass1
  <2>. QED BY <1>1, <1>2, <2>1
<1>5. CASE LoadCounts
  <2>1. text' = text /\ ended' = ended
    BY <1>5 DEF LoadCounts, pass1
  <2>2. MergedTo' = MergedTo /\ invf' = invf
    BY <1>5, LoadKeepsLists
  <2>. QED BY <1>1, <2>1, <2>2 DEF IndexedIsMerged
<1>6. CASE process_doc_2
  <2>1. text' = text /\ ended' = ended /\ text \in Seq(Documents)
    BY <1>6 DEF process_doc_2, pass1, Pass1Right
  <2>2. CASE MergedTo' = MergedTo /\ invf' = invf
    BY <1>1, <2>1, <2>2 DEF IndexedIsMerged
  <2>3. CASE docs_left = 1 /\ DiskMerge(Waiting) /\ MergedTo' = ChunkEnd(chunks, chunk)
    <3>. DEFINE n == ChunkEnd(chunks, chunk)
    <3>1. n \in Indexed + 1 .. Len(text) /\ Indexed' = n /\ ended /\ n \in 0 .. Len(text)
      <4>1. n \in MergedTo + 1 .. Len(text) /\ ended /\ MergedTo \in Nat
        BY <1>6, <2>3, MergeGoesOn, MergedToRight, ChunkDone
      <4>2. Indexed = MergedTo /\ Indexed' = n
        BY <2>3 DEF IndexedIsMerged
      <4>3. Len(text) \in Nat
        BY <2>1
      <4>. HIDE DEF n
      <4>. QED BY <4>1, <4>2, <4>3
    <3>2. ASSUME NEW w \in Words
          PROVE  /\ Decoded(invf'[w]) \in Seq(Nat \X Nat)
                 /\ Index!ArePostings(Decoded(invf'[w]), w, SubSeq(text, 1, n))
      <4>1. Lists(invf'[w], w, text, 0, n)
        BY <1>6, <2>3, MergeRight
      <4>. HIDE DEF n
      <4>2. invf'[w] \in Seq(Nat \X Nat)
        BY <4>1 DEF Lists
      <4>3. Decoded(invf'[w]) \in Seq(Nat \X Nat)
        BY <4>2, PostingsDecoded
      <4>. QED BY <2>1, <3>1, <4>1, <4>3, ListIsPostings
    <3>. HIDE DEF n
    <3>3. index' \in [Words -> Seq(Nat \X Nat)] /\ \A w \in Words : index'[w] = Decoded(invf'[w])
      BY <3>2
    <3>. HIDE DEF index
    <3>4. \A w \in Words : Index!ArePostings(index'[w], w, SubSeq(text, 1, n))
      BY <3>2, <3>3
    <3>5. Index!Extend
      BY <2>1, <3>1, <3>3, <3>4 DEF Index!Extend, index
    <3>. QED BY <3>5 DEF Index!Next
  <2>. QED BY <1>6, <2>2, <2>3, DocumentKeepsLists
<1>7. CASE UNCHANGED invfVars
  <2>1. text' = text /\ ended' = ended /\ chunk_data' = chunk_data /\ callnum' = callnum /\ invf' = invf
    BY <1>7 DEF invfVars, pass1, pass2, diskvars
  <2>. QED BY <1>1, <1>2, <2>1
<1>. QED BY <1>3, <1>4, <1>5, <1>6, <1>7 DEF InvfNext

LEMMA InvHolds == InvfSpec => [](InvfInv /\ IndexedIsMerged)
<1>1. InvfSpec => []InvfInv
  BY InvfBegins, InvfGoes, PTL DEF InvfSpec
<1>2. InvfInv => IndexedIsMerged
  BY IndexedRight DEF InvfInv, IndexedIsMerged
<1>. QED BY <1>1, <1>2, PTL

(***************************************************************************)
(* For every text, every place it may be cut into chunks and every number  *)
(* of chunks that may wait on disk, the two passes of inversion            *)
(* (ivf.pass1.c, ivf.pass2.c) are the abstract index: each merge leaves    *)
(* exactly the postings of the documents read so far.                      *)
(***************************************************************************)
THEOREM PassesInvertText == InvfSpec => TextInverted
<1>1. InvfInv /\ IndexedIsMerged /\ IndexedIsMerged' /\ [InvfNext]_invfVars => [Index!Next]_(Index!vars)
  BY IndexGoesOn
<1>. QED BY <1>1, InvHolds, IndexBegins, PTL DEF InvfSpec, TextInverted

-----------------------------------------------------------------------------
\* The bits of a list in the inverted file.

GapBits(l, b) == [n \in DOMAIN l |-> IF l[n][1] > 0 THEN BblockLength(l[n][1], b) ELSE 0]
CountsBits(l) == [n \in DOMAIN l |-> IF InvfLevel >= 2 /\ l[n][2] > 0 THEN GammaLength(l[n][2]) ELSE 0]
BitsOf(l, b) == [n \in DOMAIN l |-> GapBits(l, b)[n] + CountsBits(l)[n]]

LEMMA BitsTyped ==
  ASSUME NEW l \in Seq(Nat \X Nat), NEW b \in Nat \ {0}
  PROVE  \A n \in 1 .. Len(l) :
           /\ GapBits(l, b)[n] \in Int /\ CountsBits(l)[n] \in Int /\ BitsOf(l, b)[n] \in Int
           /\ l[n][1] > 0 => GapBits(l, b)[n] = BblockLength(l[n][1], b)
           /\ InvfLevel >= 2 /\ l[n][2] > 0 => CountsBits(l)[n] = GammaLength(l[n][2])
           /\ ~(InvfLevel >= 2) => CountsBits(l)[n] = 0
           /\ BitsOf(l, b)[n] = GapBits(l, b)[n] + CountsBits(l)[n]
<1>. TAKE n \in 1 .. Len(l)
<1>1. n \in DOMAIN l /\ l[n] \in Nat \X Nat
  OBVIOUS
<1>2. l[n][1] \in Nat /\ l[n][2] \in Nat
  BY <1>1
<1>3. /\ GapBits(l, b)[n] = IF l[n][1] > 0 THEN BblockLength(l[n][1], b) ELSE 0
      /\ CountsBits(l)[n] = IF InvfLevel >= 2 /\ l[n][2] > 0 THEN GammaLength(l[n][2]) ELSE 0
  BY <1>1 DEF GapBits, CountsBits
<1>4. ASSUME l[n][1] > 0 PROVE BblockLength(l[n][1], b) \in Int
  <2>1. l[n][1] \in Nat \ {0}
    BY <1>2, <1>4
  <2>. QED BY <2>1, BlockLengthRight
<1>5. ASSUME l[n][2] > 0 PROVE GammaLength(l[n][2]) \in Int
  <2>1. l[n][2] \in Nat \ {0}
    BY <1>2, <1>5
  <2>2. FloorLog(l[n][2]) \in Nat
    BY <2>1, FloorLogRight
  <2>. QED BY <2>2 DEF GammaLength
<1>6. GapBits(l, b)[n] \in Int /\ CountsBits(l)[n] \in Int
  BY <1>3, <1>4, <1>5
<1>7. BitsOf(l, b)[n] = GapBits(l, b)[n] + CountsBits(l)[n]
  BY <1>1 DEF BitsOf
<1>. QED BY <1>3, <1>6, <1>7

LEMMA CodeBitsAreBits ==
  ASSUME NEW l \in Seq(Nat \X Nat), NEW b PROVE CodeBits(l, b) = SumTo(BitsOf(l, b), Len(l))
<1>. DEFINE bits == [n \in DOMAIN l |->
                 (IF l[n][1] > 0 THEN BblockLength(l[n][1], b) ELSE 0)
                   + (IF InvfLevel >= 2 /\ l[n][2] > 0 THEN GammaLength(l[n][2]) ELSE 0)]
<1>1. CodeBits(l, b) = SumTo(bits, Len(l))
  BY DEF CodeBits
<1>2. bits = BitsOf(l, b)
  BY DEF BitsOf, GapBits, CountsBits
<1>. QED BY <1>1, <1>2

LEMMA CodeBitsNone == \A b : CodeBits(<<>>, b) = 0
<1>. TAKE b
<1>1. <<>> \in Seq(Nat \X Nat) /\ Len(<<>>) = 0
  OBVIOUS
<1>2. CodeBits(<<>>, b) = SumTo(BitsOf(<<>>, b), Len(<<>>))
  BY <1>1, CodeBitsAreBits
<1>. QED BY <1>1, <1>2, SumNone

LEMMA CodeBitsOfBoth ==
  ASSUME NEW l \in Seq(Nat \X Nat), NEW r \in Seq(Nat \X Nat), NEW b \in Nat \ {0}
  PROVE  CodeBits(l \o r, b) = CodeBits(l, b) + CodeBits(r, b)
<1>. DEFINE u == l \o r
            m == Len(l)
            n == Len(r)
            su == BitsOf(u, b)
            sl == BitsOf(l, b)
            sr == BitsOf(r, b)
            P(x) == (IF x[1] > 0 THEN BblockLength(x[1], b) ELSE 0)
                      + (IF InvfLevel >= 2 /\ x[2] > 0 THEN GammaLength(x[2]) ELSE 0)
<1>1. /\ m \in Nat /\ n \in Nat /\ u \in Seq(Nat \X Nat) /\ Len(u) = m + n
      /\ \A i \in 1 .. m : i \in DOMAIN l /\ i \in DOMAIN u /\ u[i] = l[i]
      /\ \A i \in 1 .. n : i \in DOMAIN r /\ m + i \in DOMAIN u /\ u[m + i] = r[i]
  OBVIOUS
<1>2. \A q, i : i \in DOMAIN q => BitsOf(q, b)[i] = P(q[i])
  BY DEF BitsOf, GapBits, CountsBits
<1>. HIDE DEF P
<1>. HIDE DEF u
<1>3. ASSUME NEW i \in 1 .. m PROVE sl[i] \in Int /\ su[i] = sl[i]
  <2>1. sl[i] \in Int
    BY BitsTyped
  <2>2. i \in DOMAIN l /\ i \in DOMAIN u /\ u[i] = l[i]
    BY <1>1
  <2>3. sl[i] = P(l[i]) /\ su[i] = P(u[i])
    BY ONLY <1>2, <2>2, Zenon
  <2>. QED BY ONLY <2>1, <2>2, <2>3, Zenon
<1>4. ASSUME NEW i \in 1 .. n PROVE sr[i] \in Int /\ su[m + i] = sr[i]
  <2>1. sr[i] \in Int
    BY BitsTyped
  <2>2. i \in DOMAIN r /\ m + i \in DOMAIN u /\ u[m + i] = r[i]
    BY <1>1
  <2>3. sr[i] = P(r[i]) /\ su[m + i] = P(u[m + i])
    BY ONLY <1>2, <2>2, Zenon
  <2>. QED BY ONLY <2>1, <2>2, <2>3, Zenon
<1>5. SumTo(su, m + n) = SumTo(sl, m) + SumTo(sr, n)
  <2>1. Joined(su, sl, m, sr, n) /\ n \in 0 .. n
    BY <1>1, <1>3, <1>4 DEF Joined
  <2>2. m \in Nat /\ n \in Nat
    BY <1>1
  <2>. HIDE DEF m, n, sl, sr, su
  <2>. QED BY <2>1, <2>2, SumOfBoth
<1>6. CodeBits(u, b) = SumTo(su, Len(u)) /\ CodeBits(l, b) = SumTo(sl, m) /\ CodeBits(r, b) = SumTo(sr, n)
  BY <1>1, CodeBitsAreBits
<1>. QED BY <1>1, <1>5, <1>6 DEF u

\* u is the sum of s and t, numbers all of them, up to place n.
Added(u, s, t, n) == \A i \in 1 .. n : s[i] \in Int /\ t[i] \in Int /\ u[i] = s[i] + t[i]

LEMMA SumOfSums ==
  ASSUME NEW n \in Nat, NEW u, NEW s, NEW t, Added(u, s, t, n)
  PROVE  SumTo(u, n) = SumTo(s, n) + SumTo(t, n) /\ SumTo(s, n) \in Int /\ SumTo(t, n) \in Int
<1>1. \A i \in 1 .. n : s[i] \in Int /\ t[i] \in Int /\ u[i] = s[i] + t[i] /\ u[i] \in Int
  BY DEF Added
<1>. DEFINE T == {k \in Nat : k <= n => SumTo(u, k) = SumTo(s, k) + SumTo(t, k)}
<1>2. 0 \in T
  BY SumNone
<1>3. ASSUME NEW k \in Nat, k \in T PROVE k + 1 \in T
  <2>. SUFFICES ASSUME k + 1 <= n PROVE SumTo(u, k + 1) = SumTo(s, k + 1) + SumTo(t, k + 1)
    OBVIOUS
  <2>1. \A i \in 1 .. k + 1 : s[i] \in Int /\ t[i] \in Int /\ u[i] \in Int
    BY <1>1
  <2>2. /\ SumTo(u, k + 1) = SumTo(u, k) + u[k + 1]
        /\ SumTo(s, k + 1) = SumTo(s, k) + s[k + 1]
        /\ SumTo(t, k + 1) = SumTo(t, k) + t[k + 1]
    BY <2>1, SumOneMore
  <2>3. SumTo(s, k) \in Int /\ SumTo(t, k) \in Int
    <3>1. \A i \in 1 .. k : s[i] \in Int /\ t[i] \in Int
      BY <2>1
    <3>. QED BY <3>1, SumType
  <2>4. k + 1 \in 1 .. n
    OBVIOUS
  <2>. QED BY <1>1, <1>3, <2>2, <2>3, <2>4
<1>4. Nat \subseteq T
  <2>. HIDE DEF T
  <2>. QED BY <1>2, <1>3, SetInduction
<1>5. SumTo(s, n) \in Int /\ SumTo(t, n) \in Int
  BY <1>1, SumType
<1>. QED BY <1>4, <1>5

LEMMA GapsCoded ==
  ASSUME NEW l \in Seq(Nat \X Nat), NEW b \in Nat \ {0}, \A k \in 1 .. Len(l) : l[k][1] > 0
  PROVE  SumTo(GapBits(l, b), Len(l)) \in Int
         /\ Coded(b, Len(l), Gaps(l), SumTo(GapBits(l, b), Len(l)))
<1>. DEFINE s == GapBits(l, b)
            T == {k \in Nat : k <= Len(l) => SumTo(s, k) \in Int /\ Coded(b, k, Document(l, k), SumTo(s, k))}
<1>1. Len(l) \in Nat /\ \A k \in 1 .. Len(l) : l[k] \in Nat \X Nat
  OBVIOUS
<1>2. /\ Document(l, 0) = 0
      /\ \A k \in 0 .. Len(l) : Document(l, k) \in Nat
      /\ \A k \in 1 .. Len(l) : Document(l, k) = Document(l, k - 1) + l[k][1]
  BY GapsRight
<1>3. \A k \in 1 .. Len(l) : s[k] \in Int /\ s[k] = BblockLength(l[k][1], b)
  BY BitsTyped
<1>. HIDE DEF s
<1>4. 0 \in T
  <2>1. SumTo(s, 0) = 0
    BY SumNone
  <2>. QED BY <1>2, <2>1, CodedNone
<1>5. ASSUME NEW k \in Nat, k \in T PROVE k + 1 \in T
  <2>. SUFFICES ASSUME k + 1 <= Len(l)
                PROVE  SumTo(s, k + 1) \in Int /\ Coded(b, k + 1, Document(l, k + 1), SumTo(s, k + 1))
    OBVIOUS
  <2>1. k + 1 \in 1 .. Len(l) /\ k \in 0 .. Len(l) /\ (k + 1) - 1 = k /\ k <= Len(l)
        /\ \A i \in 1 .. k + 1 : i \in 1 .. Len(l)
    BY <1>1
  <2>2. SumTo(s, k + 1) = SumTo(s, k) + s[k + 1]
    <3>1. \A i \in 1 .. k + 1 : s[i] \in Int
      BY <1>3, <2>1
    <3>. QED BY <3>1, SumOneMore
  <2>3. SumTo(s, k) \in Int /\ Coded(b, k, Document(l, k), SumTo(s, k)) /\ Document(l, k) \in Nat
    BY <1>2, <1>5, <2>1
  <2>4. l[k + 1][1] \in Nat \ {0}
    <3>1. l[k + 1] \in Nat \X Nat /\ l[k + 1][1] > 0
      BY <1>1, <2>1
    <3>. QED BY <3>1
  <2>5. Coded(b, k + 1, Document(l, k) + l[k + 1][1], SumTo(s, k) + BblockLength(l[k + 1][1], b))
    BY <2>3, <2>4, CodedMore
  <2>6. s[k + 1] \in Int /\ s[k + 1] = BblockLength(l[k + 1][1], b)
    BY <1>3, <2>1
  <2>7. Document(l, k + 1) = Document(l, k) + l[k + 1][1]
    BY <1>2, <2>1
  <2>8. SumTo(s, k + 1) \in Int
    BY <2>2, <2>3, <2>6
  <2>. QED BY <2>2, <2>5, <2>6, <2>7, <2>8
<1>6. Nat \subseteq T
  <2>. HIDE DEF T
  <2>. QED BY <1>4, <1>5, SetInduction
<1>. QED BY <1>1, <1>6 DEF Gaps, s

\* The postings of the first m documents, one by one.
OneByOne(l, w, t, m) ==
  /\ l \in Seq(Nat \X Nat) /\ Len(l) \in Nat /\ Len(l) = DocsIn(w, t, 0, m)
  /\ Document(l, 0) = 0
  /\ \A k \in 0 .. Len(l) : Document(l, k) \in 0 .. m /\ DocsIn(w, t, 0, Document(l, k)) = k
  /\ \A k \in 1 .. Len(l) :
       /\ Document(l, k) \in 1 .. m /\ Document(l, k - 1) < Document(l, k)
       /\ w \in InDoc(t[Document(l, k)])
       /\ l[k][1] \in Nat \ {0}
       /\ l[k][2] = Count(w, t[Document(l, k)])
       /\ Count(w, t[Document(l, k)]) \in Nat \ {0}

LEMMA ListFacts ==
  ASSUME NEW w, NEW t \in Seq(Documents), NEW m \in 0 .. Len(t), NEW l, Lists(l, w, t, 0, m)
  PROVE  OneByOne(l, w, t, m)
<1>1. l \in Seq(Nat \X Nat) /\ Len(l) \in Nat /\ Len(l) = DocsIn(w, t, 0, m)
  BY DEF Lists
<1>2. Document(l, 0) = 0 /\ \A k \in 0 .. Len(l) : Document(l, k) \in Nat
  BY <1>1, GapsRight
<1>3. ASSUME NEW k \in 1 .. Len(l)
      PROVE  /\ Document(l, k) \in 1 .. m /\ Document(l, k - 1) < Document(l, k)
             /\ w \in InDoc(t[Document(l, k)])
             /\ l[k][1] \in Nat \ {0}
             /\ l[k][2] = Count(w, t[Document(l, k)])
             /\ DocsIn(w, t, 0, Document(l, k)) = k
  <2>1. /\ l[k][1] > 0 /\ 0 + Document(l, k) \in 0 .. m /\ w \in InDoc(t[0 + Document(l, k)])
        /\ DocsIn(w, t, 0, 0 + Document(l, k)) = k /\ l[k][2] = Count(w, t[0 + Document(l, k)])
    BY DEF Lists
  <2>2. l[k] \in Nat \X Nat /\ k \in 0 .. Len(l) /\ k - 1 \in 0 .. Len(l)
    BY <1>1
  <2>3. /\ Document(l, k) \in Nat /\ Document(l, k - 1) \in Nat
        /\ Document(l, k) = Document(l, k - 1) + l[k][1]
    BY <1>1, <1>2, <2>2, GapsRight
  <2>4. 0 + Document(l, k) = Document(l, k) /\ l[k][1] \in Nat \ {0}
    BY <2>1, <2>2, <2>3
  <2>. QED BY <2>1, <2>3, <2>4
<1>4. ASSUME NEW k \in 1 .. Len(l) PROVE Count(w, t[Document(l, k)]) \in Nat \ {0}
  <2>1. t[Document(l, k)] \in Documents /\ w \in InDoc(t[Document(l, k)])
    BY <1>3
  <2>2. Occurrences(w, t[Document(l, k)]) \in Nat \ {0}
    BY <2>1, OccurrencesRight
  <2>. QED BY <2>2 DEF Count
<1>5. ASSUME NEW k \in 0 .. Len(l)
      PROVE  Document(l, k) \in 0 .. m /\ DocsIn(w, t, 0, Document(l, k)) = k
  <2>1. CASE k = 0
    <3>1. DocsIn(w, t, 0, 0) = 0
      <4>1. DocsWith(w, t, 0) \in Nat
        BY CountsRight
      <4>. QED BY <4>1 DEF DocsIn
    <3>. QED BY <1>2, <2>1, <3>1
  <2>2. CASE k # 0
    <3>1. k \in 1 .. Len(l)
      BY <2>2
    <3>2. Document(l, k) \in 1 .. m
      BY <1>3, <3>1
    <3>. QED BY <1>3, <3>1, <3>2
  <2>. QED BY <2>1, <2>2
<1>. QED BY <1>1, <1>2, <1>3, <1>4, <1>5 DEF OneByOne

\* Where no document has the word the word does not occur.
LEMMA NoOccurrence ==
  ASSUME NEW w, NEW t \in Seq(Documents), NEW c \in 0 .. Len(t), NEW b \in c .. Len(t),
         DocsIn(w, t, 0, c) = DocsIn(w, t, 0, b)
  PROVE  OccsIn(w, t, 0, c) = OccsIn(w, t, 0, b)
<1>1. 0 \in 0 .. Len(t) /\ c \in 0 .. Len(t)
  OBVIOUS
<1>2. /\ DocsIn(w, t, 0, b) = DocsIn(w, t, 0, c) + DocsIn(w, t, c, b)
      /\ OccsIn(w, t, 0, b) = OccsIn(w, t, 0, c) + OccsIn(w, t, c, b)
      /\ DocsIn(w, t, 0, c) \in 0 .. c - 0 /\ DocsIn(w, t, c, b) \in 0 .. b - c
      /\ OccsIn(w, t, 0, c) \in Nat
  BY <1>1, PartsAdd
<1>3. DocsIn(w, t, c, b) = 0
  BY <1>2
<1>4. OccsIn(w, t, c, b) = 0
  BY <1>3, CountsGrow
<1>. QED BY <1>2, <1>4

LEMMA SumOfNothing ==
  ASSUME NEW n \in Nat, NEW s, \A i \in 1 .. n : s[i] = 0
  PROVE  SumTo(s, n) = 0
<1>. DEFINE T == {k \in Nat : k <= n => SumTo(s, k) = 0}
<1>1. 0 \in T
  BY SumNone
<1>2. ASSUME NEW k \in Nat, k \in T PROVE k + 1 \in T
  <2>. SUFFICES ASSUME k + 1 <= n PROVE SumTo(s, k + 1) = 0
    OBVIOUS
  <2>1. \A i \in 1 .. k + 1 : s[i] \in Int
    OBVIOUS
  <2>2. SumTo(s, k + 1) = SumTo(s, k) + s[k + 1]
    BY <2>1, SumOneMore
  <2>3. s[k + 1] = 0
    OBVIOUS
  <2>. QED BY <1>2, <2>2, <2>3
<1>3. Nat \subseteq T
  <2>. HIDE DEF T
  <2>. QED BY <1>1, <1>2, SetInduction
<1>. QED BY <1>3

CountsOf(l) == [n \in 1 .. Len(l) |-> l[n][2]]

LEMMA CountsAddUp ==
  ASSUME NEW w, NEW t \in Seq(Documents), NEW m \in 0 .. Len(t), NEW l, Lists(l, w, t, 0, m),
         InvfLevel >= 2
  PROVE  SumTo(CountsOf(l), Len(l)) = OccsIn(w, t, 0, m)
<1>. DEFINE D(k) == Document(l, k)
            c == CountsOf(l)
            T == {k \in Nat : k <= Len(l) => SumTo(c, k) = OccsIn(w, t, 0, D(k))}
<1>1. /\ Len(l) \in Nat /\ Len(l) = DocsIn(w, t, 0, m)
      /\ D(0) = 0
      /\ \A k \in 0 .. Len(l) : D(k) \in 0 .. m /\ DocsIn(w, t, 0, D(k)) = k
      /\ \A k \in 1 .. Len(l) :
              /\ D(k) \in 1 .. m /\ D(k - 1) < D(k)
              /\ w \in InDoc(t[D(k)])
              /\ l[k][2] = Occurrences(w, t[D(k)])
              /\ Occurrences(w, t[D(k)]) \in Nat
  <2>1. \A d : Count(w, d) = Occurrences(w, d)
    BY DEF Count
  <2>2. OneByOne(l, w, t, m)
    BY ListFacts
  <2>. HIDE DEF c
  <2>. QED BY <2>1, <2>2 DEF OneByOne
<1>2. \A k \in 1 .. Len(l) : c[k] = l[k][2] /\ c[k] \in Int
  BY <1>1 DEF CountsOf
<1>. HIDE DEF D, c
<1>3. 0 \in T
  <2>1. SumTo(c, 0) = 0
    BY SumNone
  <2>2. OccsIn(w, t, 0, 0) = 0
    <3>1. OccsOf(w, t, 0) \in Nat
      BY CountsRight
    <3>. QED BY <3>1 DEF OccsIn
  <2>. QED BY <1>1, <2>1, <2>2
<1>4. ASSUME NEW k \in Nat, k \in T PROVE k + 1 \in T
  <2>. SUFFICES ASSUME k + 1 <= Len(l) PROVE SumTo(c, k + 1) = OccsIn(w, t, 0, D(k + 1))
    OBVIOUS
  <2>. DEFINE e == D(k)
              d == D(k + 1)
  <2>1. k \in 0 .. Len(l) /\ k + 1 \in 1 .. Len(l) /\ k + 1 \in 0 .. Len(l) /\ (k + 1) - 1 = k
        /\ k <= Len(l) /\ \A i \in 1 .. k + 1 : i \in 1 .. Len(l)
    BY <1>1
  <2>2. /\ e \in 0 .. m /\ DocsIn(w, t, 0, e) = k /\ d \in 1 .. m /\ e < d
        /\ DocsIn(w, t, 0, d) = k + 1 /\ w \in InDoc(t[d])
        /\ l[k + 1][2] = Occurrences(w, t[d])
    BY <1>1, <2>1
  <2>3. SumTo(c, k) = OccsIn(w, t, 0, e)
    BY <1>4, <2>1
  <2>4. SumTo(c, k + 1) = SumTo(c, k) + c[k + 1] /\ c[k + 1] = l[k + 1][2]
    <3>1. \A i \in 1 .. k + 1 : c[i] \in Int
      BY <1>2, <2>1
    <3>. QED BY <1>2, <2>1, <3>1, SumOneMore
  <2>. HIDE DEF e, d
  <2>5. /\ d - 1 \in 0 .. Len(t) /\ d - 1 < Len(t) /\ (d - 1) + 1 = d /\ 0 \in 0 .. Len(t)
        /\ e \in 0 .. Len(t) /\ d - 1 \in e .. Len(t)
    BY <2>2
  <2>6. /\ DocsIn(w, t, 0, (d - 1) + 1) = DocsIn(w, t, 0, d - 1) + (IF w \in InDoc(t[(d - 1) + 1]) THEN 1 ELSE 0)
        /\ OccsIn(w, t, 0, (d - 1) + 1) = OccsIn(w, t, 0, d - 1) + Occurrences(w, t[(d - 1) + 1])
        /\ DocsIn(w, t, 0, d - 1) \in Nat
    BY <2>5, DocsInMore
  <2>7. DocsIn(w, t, 0, d - 1) = k /\ OccsIn(w, t, 0, d) = OccsIn(w, t, 0, d - 1) + Occurrences(w, t[d])
    BY <2>2, <2>5, <2>6
  <2>8. OccsIn(w, t, 0, e) = OccsIn(w, t, 0, d - 1)
    BY <2>2, <2>5, <2>7, NoOccurrence
  <2>. QED BY <2>2, <2>3, <2>4, <2>7, <2>8 DEF d
<1>5. Nat \subseteq T
  <2>. HIDE DEF T
  <2>. QED BY <1>3, <1>4, SetInduction
<1>6. Len(l) \in 0 .. Len(l)
  BY <1>1
<1>7. SumTo(c, Len(l)) = OccsIn(w, t, 0, D(Len(l)))
  BY <1>1, <1>5
<1>8. OccsIn(w, t, 0, D(Len(l))) = OccsIn(w, t, 0, m)
  <2>. DEFINE e == D(Len(l))
  <2>1. e \in 0 .. m /\ DocsIn(w, t, 0, e) = DocsIn(w, t, 0, m)
    BY <1>1, <1>6
  <2>. HIDE DEF e
  <2>2. e \in 0 .. Len(t) /\ m \in e .. Len(t)
    BY <2>1
  <2>3. OccsIn(w, t, 0, e) = OccsIn(w, t, 0, m)
    BY <2>1, <2>2, NoOccurrence
  <2>. QED BY <2>3 DEF e
<1>. QED BY <1>7, <1>8 DEF c

(***************************************************************************)
(* The list of a word never takes more bits than the inverted file has     *)
(* for it, whatever part of the text has been merged.                      *)
(***************************************************************************)
LEMMA ListFits ==
  ASSUME NEW w, NEW t \in Seq(Documents), NEW m \in 0 .. Len(t), NEW l, Lists(l, w, t, 0, m),
         NEW b \in Nat \ {0}, NEW p \in Nat \ {0}, p = DocsIn(w, t, 0, Len(t)),
         NEW o, o = OccsIn(w, t, 0, Len(t))
  PROVE  CodeBits(l, b) <= BblockBoundB(Len(t), p, b) + (IF InvfLevel >= 2 THEN GammaBound(o, p) ELSE 0)
<1>. DEFINE k == Len(l)
            sg == GapBits(l, b)
            sc == CountsBits(l)
<1>1. /\ l \in Seq(Nat \X Nat) /\ k \in Nat /\ k = DocsIn(w, t, 0, m)
      /\ Document(l, k) \in 0 .. m
      /\ \A j \in 1 .. k : l[j][1] \in Nat \ {0} /\ l[j][2] \in Nat \ {0}
  <2>1. OneByOne(l, w, t, m)
    BY ListFacts
  <2>2. Len(l) \in 0 .. Len(l) /\ Len(l) \in Nat
    BY <2>1 DEF OneByOne
  <2>3. \A j \in 1 .. Len(l) : l[j][1] \in Nat \ {0} /\ l[j][2] \in Nat \ {0}
    BY <2>1 DEF OneByOne
  <2>. QED BY <2>1, <2>2, <2>3 DEF OneByOne
<1>2. Gaps(l) \in 0 .. m
  BY <1>1 DEF Gaps
<1>3. /\ p = k + DocsIn(w, t, m, Len(t)) /\ o = OccsIn(w, t, 0, m) + OccsIn(w, t, m, Len(t))
      /\ DocsIn(w, t, m, Len(t)) \in 0 .. Len(t) - m
      /\ OccsIn(w, t, 0, m) \in Nat /\ OccsIn(w, t, m, Len(t)) \in Nat
      /\ DocsIn(w, t, m, Len(t)) <= OccsIn(w, t, m, Len(t))
  <2>1. 0 \in 0 .. Len(t) /\ Len(t) \in m .. Len(t)
    OBVIOUS
  <2>. QED BY <1>1, <2>1, PartsAdd
<1>4. p <= o
  <2>1. 0 \in 0 .. Len(t) /\ Len(t) \in 0 .. Len(t)
    OBVIOUS
  <2>. QED BY <2>1, CountsGrow
<1>5. k \in 0 .. p /\ Gaps(l) + (p - k) <= Len(t) /\ o \in Nat /\ Len(t) \in Nat
  <2>. DEFINE x == DocsIn(w, t, m, Len(t))
  <2>1. x \in Nat /\ x <= Len(t) - m /\ Len(t) \in Nat /\ p = k + x /\ k \in Nat
    BY <1>1, <1>3
  <2>2. o \in Nat
    BY <1>3
  <2>3. Gaps(l) \in Nat /\ Gaps(l) <= m /\ m \in Nat
    BY <1>2
  <2>. HIDE DEF k, x
  <2>. QED BY <2>1, <2>2, <2>3
<1>. HIDE DEF k
<1>6. CodeBits(l, b) = SumTo(sg, k) + SumTo(sc, k)
  <2>1. CodeBits(l, b) = SumTo(BitsOf(l, b), k)
    BY <1>1, CodeBitsAreBits DEF k
  <2>2. Added(BitsOf(l, b), sg, sc, k)
    BY <1>1, BitsTyped DEF Added, k
  <2>. DEFINE u == BitsOf(l, b)
  <2>. HIDE DEF u, sg, sc
  <2>3. SumTo(u, k) = SumTo(sg, k) + SumTo(sc, k)
    BY <1>1, <2>2, SumOfSums DEF u
  <2>. QED BY <2>1, <2>3 DEF u
<1>7. SumTo(sg, k) \in Int /\ Coded(b, k, Gaps(l), SumTo(sg, k))
  <2>1. \A j \in 1 .. Len(l) : l[j][1] > 0
    BY <1>1 DEF k
  <2>. QED BY <1>1, <2>1, GapsCoded DEF k
<1>8. BblockBoundB(Len(t), p, b) \in Int /\ SumTo(sg, k) <= BblockBoundB(Len(t), p, b)
  <2>. HIDE DEF sg
  <2>. QED BY <1>2, <1>5, <1>7, CodedFits, SMTT(30)
<1>9. CASE InvfLevel >= 2
  <2>. DEFINE c == CountsOf(l)
  <2>1. c \in [1 .. k -> Nat \ {0}] /\ \A j \in 1 .. k : c[j] = l[j][2]
    BY <1>1 DEF CountsOf, k
  <2>2. SumTo(c, k) = OccsIn(w, t, 0, m)
    BY <1>9, CountsAddUp DEF k
  <2>. HIDE DEF c
  <2>3. SumTo(c, k) + (p - k) <= o
    <3>. DEFINE x == DocsIn(w, t, m, Len(t))
                y == OccsIn(w, t, m, Len(t))
    <3>1. x \in Nat /\ y \in Nat /\ x <= y /\ p = k + x /\ k \in Nat
      BY <1>1, <1>3
    <3>2. SumTo(c, k) \in Nat /\ o = SumTo(c, k) + y
      BY <1>3, <2>2
    <3>. HIDE DEF x, y
    <3>. QED BY <3>1, <3>2
  <2>4. GammaBound(o, p) \in Int /\ SumTo(Gammas(c), k) <= GammaBound(o, p)
    BY <1>4, <1>5, <2>1, <2>3, GammaBoundHolds
  <2>5. ASSUME NEW j \in 1 .. k PROVE sc[j] \in Int /\ sc[j] = Gammas(c)[j]
    <3>1. Gammas(c)[j] = GammaLength(c[j])
      BY <2>1 DEF Gammas
    <3>2. l[j][2] > 0
      BY <1>1, SMTT(30)
    <3>3. sc[j] \in Int /\ sc[j] = GammaLength(l[j][2])
      BY <1>1, <1>9, <3>2, BitsTyped, ZenonT(60) DEF k
    <3>. QED BY <2>1, <3>1, <3>3
  <2>. HIDE DEF sc
  <2>6. SumTo(sc, k) = SumTo(Gammas(c), k)
    BY <1>1, <2>5, SumAlike
  <2>7. SumTo(sc, k) \in Int
    BY <1>1, <2>5, SumType
  <2>. HIDE DEF sg
  <2>. QED BY <1>6, <1>7, <1>8, <1>9, <2>4, <2>6, <2>7
<1>10. CASE ~(InvfLevel >= 2)
  <2>1. ASSUME NEW j \in 1 .. k PROVE sc[j] = 0
    BY <1>1, <1>10, BitsTyped DEF k
  <2>. HIDE DEF sc
  <2>2. \A j \in 1 .. k : sc[j] = 0
    BY <2>1
  <2>3. SumTo(sc, k) = 0
    BY <1>1, <2>2, SumOfNothing
  <2>. HIDE DEF sg
  <2>. QED BY <1>6, <1>7, <1>8, <1>10, <2>3
<1>. QED BY <1>9, <1>10

-----------------------------------------------------------------------------
\* The regions of the inverted file.

\* What has been coded of each word stands at the start of its region.
DiskRight ==
  ChunkLimit >= 0 =>
    \A w \in Known : /\ Disk_B[w] = BblockInit(N, fcnt[w])
                     /\ Disk_Ptr[w] = DiskStart[w] + CodeBits(invf[w], Disk_B[w])

LEMMA KnownCounts ==
  ASSUME Pass1Right, NEW w \in Known
  PROVE  /\ w \in Words /\ fcnt[w] \in Nat \ {0} /\ fcnt[w] <= N /\ N \in Nat
         /\ fcnt[w] = DocsIn(w, text, 0, Len(text)) /\ wcnt[w] = OccsIn(w, text, 0, Len(text))
         /\ wcnt[w] \in Nat /\ fcnt[w] <= wcnt[w]
         /\ BblockInit(N, fcnt[w]) \in Nat \ {0}
<1>1. /\ text \in Seq(Documents) /\ first_occr \in Seq(Words) /\ Len(text) \in Nat
      /\ fcnt = DocCounts(text, 0, Len(text)) /\ wcnt = OccCounts(text, 0, Len(text))
      /\ \A v \in Words : v \in Known <=> DocsIn(v, text, 0, Len(text)) > 0
  BY DEF Pass1Right
<1>2. w \in Words
  BY <1>1 DEF Known, Range
<1>3. fcnt[w] = DocsIn(w, text, 0, Len(text)) /\ wcnt[w] = OccsIn(w, text, 0, Len(text))
  BY <1>1, <1>2 DEF DocCounts, OccCounts
<1>4. /\ DocsIn(w, text, 0, Len(text)) \in 0 .. Len(text) - 0 /\ OccsIn(w, text, 0, Len(text)) \in Nat
      /\ DocsIn(w, text, 0, Len(text)) <= OccsIn(w, text, 0, Len(text))
  <2>1. 0 \in 0 .. Len(text) /\ Len(text) \in 0 .. Len(text)
    BY <1>1
  <2>. QED BY <1>1, <2>1, CountsGrow
<1>5. fcnt[w] \in Nat \ {0} /\ fcnt[w] <= N /\ N \in Nat
  <2>1. DocsIn(w, text, 0, Len(text)) > 0
    BY <1>1, <1>2
  <2>. QED BY <1>1, <1>3, <1>4, <2>1 DEF N
<1>6. BblockInit(N, fcnt[w]) \in Nat \ {0}
  BY <1>5, BlockSizesRight
<1>. QED BY <1>2, <1>3, <1>4, <1>5, <1>6

LEMMA DiskBitsTyped ==
  ASSUME Pass1Right, NEW w \in Known
  PROVE  DiskBits(w) \in Int
<1>. DEFINE p == fcnt[w]
            b == BblockInit(N, p)
            o == wcnt[w]
<1>1. p \in Nat \ {0} /\ p <= N /\ N \in Nat /\ b \in Nat \ {0} /\ o \in Nat /\ p <= o
  BY KnownCounts
<1>. HIDE DEF p, b, o
<1>2. BblockBoundB(N, p, b) \in Int
  <2>1. Coded(b, 0, 0, 0) /\ 0 \in 0 .. p /\ 0 + (p - 0) <= N /\ p \in Nat
    BY <1>1, CodedNone
  <2>. QED BY <1>1, <2>1, CodedFits
<1>3. GammaBound(o, p) \in Int
  <2>. DEFINE c == [i \in 1 .. 0 |-> 1]
  <2>1. c \in [1 .. 0 -> Nat \ {0}] /\ 0 \in 0 .. p
    BY <1>1
  <2>. HIDE DEF c
  <2>2. SumTo(c, 0) + (p - 0) <= o
    <3>1. SumTo(c, 0) = 0
      BY SumNone
    <3>. QED BY <1>1, <3>1
  <2>. QED BY <1>1, <2>1, <2>2, GammaBoundHolds
<1>. QED BY <1>2, <1>3 DEF DiskBits, p, b, o

LEMMA DiskStartTyped ==
  ASSUME Pass1Right, NEW w \in Known
  PROVE  DiskStart[w] \in Int
<1>. DEFINE size == [v \in Words |-> IF v \in Known THEN 8 * Bytes(DiskBits(v)) ELSE 0]
<1>1. w \in Words
  BY KnownCounts
<1>2. DiskStart[w] = FirstBit + SumTo(size, w - 1)
  BY <1>1 DEF DiskStart
<1>3. w \in 1 .. NumWords /\ NumWords \in Nat /\ w - 1 \in Nat /\ \A i \in 1 .. w - 1 : i \in Words
  BY <1>1, Pass1Constants DEF Words
<1>4. ASSUME NEW i \in 1 .. w - 1 PROVE size[i] \in Int
  <2>1. i \in Words
    BY <1>3
  <2>2. CASE i \in Known
    <3>1. DiskBits(i) \in Int
      BY <2>2, DiskBitsTyped
    <3>2. Bytes(DiskBits(i)) \in Int
      BY <3>1 DEF Bytes
    <3>. QED BY <2>1, <2>2, <3>2
  <2>3. CASE i \notin Known
    BY <2>1, <2>3
  <2>. QED BY <2>2, <2>3
<1>. HIDE DEF size
<1>5. SumTo(size, w - 1) \in Int
  BY <1>3, <1>4, SumType
<1>. QED BY <1>2, <1>5 DEF FirstBit

LEMMA CodeBitsTyped ==
  ASSUME NEW l \in Seq(Nat \X Nat), NEW b \in Nat \ {0} PROVE CodeBits(l, b) \in Int
<1>1. Len(l) \in Nat /\ \A i \in 1 .. Len(l) : BitsOf(l, b)[i] \in Int
  BY BitsTyped
<1>. DEFINE s == BitsOf(l, b)
<1>2. SumTo(s, Len(l)) \in Int
  <2>. HIDE DEF s
  <2>. QED BY <1>1, SumType DEF s
<1>. QED BY <1>2, CodeBitsAreBits

(***************************************************************************)
(* No list of the inverted file reaches into the region of the next.       *)
(***************************************************************************)
LEMMA DiskHolds ==
  ASSUME Pass1Right, CountersRight, DataRight, ListsRight, DiskRight, ChunkLimit >= 0, NEW w \in Known
  PROVE  Disk_Ptr[w] <= DiskStart[w] + DiskBits(w)
<1>. DEFINE p == fcnt[w]
            b == BblockInit(N, p)
            o == wcnt[w]
<1>1. /\ w \in Words /\ p \in Nat \ {0} /\ b \in Nat \ {0}
      /\ p = DocsIn(w, text, 0, Len(text)) /\ o = OccsIn(w, text, 0, Len(text))
  BY KnownCounts
<1>2. Disk_Ptr[w] = DiskStart[w] + CodeBits(invf[w], b)
  BY DEF DiskRight
<1>3. text \in Seq(Documents) /\ MergedTo \in 0 .. Len(text)
  <2>1. ended
    BY DEF CountersRight
  <2>. QED BY <2>1, MergedToRight DEF Pass1Right
<1>4. Lists(invf[w], w, text, 0, MergedTo) /\ invf[w] \in Seq(Nat \X Nat)
  BY <1>1 DEF ListsRight, Lists
<1>. HIDE DEF p, b, o
<1>5. CodeBits(invf[w], b) <=
        BblockBoundB(Len(text), p, b) + (IF InvfLevel >= 2 THEN GammaBound(o, p) ELSE 0)
  <2>. DEFINE l == invf[w]
              m == MergedTo
  <2>1. m \in 0 .. Len(text) /\ Lists(l, w, text, 0, m)
    BY <1>3, <1>4
  <2>. HIDE DEF l, m
  <2>2. CodeBits(l, b) <= BblockBoundB(Len(text), p, b) + (IF InvfLevel >= 2 THEN GammaBound(o, p) ELSE 0)
    BY <1>1, <1>3, <2>1, ListFits
  <2>. QED BY <2>2 DEF l
<1>6. DiskBits(w) = BblockBoundB(Len(text), p, b) + (IF InvfLevel >= 2 THEN GammaBound(o, p) ELSE 0)
  BY DEF DiskBits, N, p, b, o
<1>7. DiskBits(w) \in Int /\ DiskStart[w] \in Int /\ CodeBits(invf[w], b) \in Int
  BY <1>1, <1>4, DiskBitsTyped, DiskStartTyped, CodeBitsTyped
<1>. QED BY <1>2, <1>5, <1>6, <1>7

LEMMA NotStarted ==
  ASSUME ChunkLimit = -1 PROVE DiskRight
BY DEF DiskRight

LEMMA DiskBegins == InvfInit => DiskRight
BY NotStarted DEF InvfInit, Pass2Init

LEMMA Pass1KeepsDisk ==
  ASSUME CountersRight, Pass1Next, UNCHANGED pass2
  PROVE  DiskRight'
<1>1. ~ended
  BY DEF Pass1Next, ReadDocument, done_ivf_1
<1>2. ChunkLimit = -1
  BY <1>1 DEF CountersRight
<1>3. ChunkLimit' = -1
  BY <1>2 DEF pass2
<1>. QED BY <1>3 DEF DiskRight

LEMMA LayoutKept ==
  ASSUME UNCHANGED pass1
  PROVE  DiskStart' = DiskStart /\ Known' = Known /\ N' = N /\ fcnt' = fcnt
<1>1. text' = text /\ first_occr' = first_occr /\ fcnt' = fcnt /\ wcnt' = wcnt
  BY DEF pass1
<1>2. Known' = Known /\ N' = N
  BY <1>1 DEF Known, N
<1>3. DiskStart' = DiskStart
  BY <1>1, <1>2 DEF DiskStart, DiskBits
<1>. QED BY <1>1, <1>2, <1>3

LEMMA DiskKept ==
  ASSUME DiskRight, UNCHANGED pass1, ChunkLimit' = ChunkLimit,
         Disk_Ptr' = Disk_Ptr, Disk_B' = Disk_B, invf' = invf
  PROVE  DiskRight'
BY LayoutKept DEF DiskRight

LEMMA StartKeepsDisk ==
  ASSUME Pass1Right, CountersRight, DataRight, ListsRight, init_ivf_2
  PROVE  DiskRight'
<1>1. /\ ChunkLimit = -1 /\ UNCHANGED pass1 /\ invf' = invf /\ Disk_Ptr' = DiskStart
      /\ Disk_B' = [w \in Words |-> IF w \in Known THEN BblockInit(N, fcnt[w]) ELSE 1]
  BY DEF init_ivf_2
<1>2. MergedTo = 0
  BY <1>1, MergedToRight
<1>3. ASSUME NEW w \in Known
      PROVE  /\ Disk_B'[w] = BblockInit(N, fcnt[w])
             /\ Disk_Ptr'[w] = DiskStart[w] + CodeBits(invf'[w], Disk_B'[w])
  <2>1. w \in Words
    BY KnownCounts
  <2>2. invf[w] = <<>>
    <3>1. Lists(invf[w], w, text, 0, 0)
      BY <1>2, <2>1 DEF ListsRight
    <3>2. DocsIn(w, text, 0, 0) = 0
      <4>1. text \in Seq(Documents)
        BY DEF Pass1Right
      <4>2. DocsWith(w, text, 0) = 0
        BY <4>1, CountsRight
      <4>. QED BY <4>2 DEF DocsIn
    <3>3. invf[w] \in Seq(Nat \X Nat) /\ Len(invf[w]) = 0
      BY <3>1, <3>2 DEF Lists
    <3>. QED BY <3>3
  <2>3. CodeBits(invf'[w], Disk_B'[w]) = 0
    BY <1>1, <2>2, CodeBitsNone
  <2>4. DiskStart[w] \in Int
    BY DiskStartTyped
  <2>5. Disk_B'[w] = BblockInit(N, fcnt[w])
    BY <1>1, <2>1
  <2>. QED BY <1>1, <2>3, <2>4, <2>5
<1>4. DiskStart' = DiskStart /\ Known' = Known /\ N' = N /\ fcnt' = fcnt
  BY <1>1, LayoutKept
<1>. QED BY <1>3, <1>4 DEF DiskRight

LEMMA DocumentKeepsDisk ==
  ASSUME Pass1Right, CountersRight, RegionsRight, DataRight, ListsRight, DiskRight, process_doc_2
  PROVE  DiskRight'
<1>1. UNCHANGED pass1 /\ ChunkLimit' = ChunkLimit /\ ChunkLimit >= 0
  BY DEF process_doc_2
<1>2. ASSUME UNCHANGED diskvars PROVE DiskRight'
  BY <1>1, <1>2, DiskKept DEF diskvars
<1>3. CASE docs_left # 1
  BY <1>2, <1>3 DEF process_doc_2
<1>4. CASE docs_left = 1
  <2>1. MergeIn(Waiting)
    BY <1>4 DEF process_doc_2, Waiting
  <2>2. CASE DumpChunk(Waiting)
    BY <1>2, <2>2 DEF DumpChunk
  <2>3. CASE DiskMerge(Waiting)
    <3>1. Disk_B' = Disk_B
      BY <2>3 DEF DiskMerge
    <3>2. ASSUME NEW w \in Known
          PROVE  /\ Disk_B'[w] = BblockInit(N, fcnt[w])
                 /\ Disk_Ptr'[w] = DiskStart[w] + CodeBits(invf'[w], Disk_B'[w])
      <4>. DEFINE l == invf[w]
                  z == Merged(Waiting, w, Disk_Last[w])
                  b == Disk_B[w]
      <4>1. w \in Words /\ BblockInit(N, fcnt[w]) \in Nat \ {0}
        BY KnownCounts
      <4>2. /\ z \in Seq(Nat \X Nat) /\ l \in Seq(Nat \X Nat) /\ invf'[w] = l \o z
            /\ Disk_Ptr'[w] = Disk_Ptr[w] + CodeBits(z, b)
        BY <1>4, <2>3, <4>1, MergeRight
      <4>3. b = BblockInit(N, fcnt[w]) /\ Disk_Ptr[w] = DiskStart[w] + CodeBits(l, b)
        BY <1>1 DEF DiskRight
      <4>4. b \in Nat \ {0}
        BY <4>1, <4>3
      <4>. HIDE DEF l, z, b
      <4>5. /\ CodeBits(l \o z, b) = CodeBits(l, b) + CodeBits(z, b)
            /\ CodeBits(l, b) \in Int /\ CodeBits(z, b) \in Int
        BY <4>2, <4>4, CodeBitsOfBoth, CodeBitsTyped
      <4>6. DiskStart[w] \in Int
        BY DiskStartTyped
      <4>7. Disk_Ptr'[w] = DiskStart[w] + CodeBits(l \o z, b)
        BY <4>2, <4>3, <4>5, <4>6
      <4>. QED BY <3>1, <4>2, <4>3, <4>7 DEF b
    <3>3. DiskStart' = DiskStart /\ Known' = Known /\ N' = N /\ fcnt' = fcnt
      BY <1>1, LayoutKept
    <3>. QED BY <3>2, <3>3 DEF DiskRight
  <2>. QED BY <2>1, <2>2, <2>3 DEF MergeIn
<1>. QED BY <1>3, <1>4

LEMMA DiskGoes == InvfInv /\ DiskRight /\ [InvfNext]_invfVars => DiskRight'
<1>. SUFFICES ASSUME InvfInv, DiskRight, [InvfNext]_invfVars PROVE DiskRight'
  OBVIOUS
<1>. USE DEF InvfInv
<1>1. CASE Pass1Next /\ UNCHANGED pass2
  BY <1>1, Pass1KeepsDisk
<1>2. CASE init_ivf_2
  BY <1>2, StartKeepsDisk
<1>3. CASE LoadCounts
  <2>1. /\ UNCHANGED pass1 /\ ChunkLimit' = ChunkLimit
        /\ Disk_Ptr' = Disk_Ptr /\ Disk_B' = Disk_B /\ invf' = invf
    BY <1>3 DEF LoadCounts, diskvars
  <2>. QED BY <2>1, DiskKept
<1>4. CASE process_doc_2
  BY <1>4, DocumentKeepsDisk
<1>5. CASE UNCHANGED invfVars
  <2>1. /\ UNCHANGED pass1 /\ ChunkLimit' = ChunkLimit
        /\ Disk_Ptr' = Disk_Ptr /\ Disk_B' = Disk_B /\ invf' = invf
    BY <1>5 DEF invfVars, pass2, diskvars
  <2>. QED BY <2>1, DiskKept
<1>. QED BY <1>1, <1>2, <1>3, <1>4, <1>5 DEF InvfNext

LEMMA RunsOutNever == InvfInv /\ DiskRight => NothingRunsOut
<1>. SUFFICES ASSUME InvfInv, DiskRight PROVE NothingRunsOut
  OBVIOUS
<1>. USE DEF InvfInv
<1>1. RegionsHold
  BY MemoryHolds, DiskHolds DEF RegionsHold
<1>2. TablesSuffice
  BY TablesHold
<1>3. NeverFatal
  BY NeverFatalHolds
<1>. QED BY <1>1, <1>2, <1>3 DEF NothingRunsOut

(***************************************************************************)
(* The second pass never runs out of what the first counted for it, for    *)
(* every text, every buffer size and every number of chunks that may wait: *)
(* a position in memory or in the inverted file, which nothing in          *)
(* ivf.pass2.c checks against the end of its region, stays within it, the  *)
(* buffer holds each chunk, the table of chunks has room for all of them,  *)
(* and neither FatalError of LoadCounts is reached.                        *)
(***************************************************************************)
THEOREM CountedIsEnough == InvfSpec => []NothingRunsOut
<1>1. InvfSpec => [](InvfInv /\ DiskRight)
  BY InvfBegins, InvfGoes, DiskBegins, DiskGoes, PTL DEF InvfSpec
<1>. QED BY <1>1, RunsOutNever, PTL
=============================================================================
