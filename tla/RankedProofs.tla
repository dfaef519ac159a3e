---------------------------- MODULE RankedProofs ----------------------------
(***************************************************************************)
(* For queries of any number of terms, lists of any length, skips of any   *)
(* size and any limit on accumulators: between two terms every accumulator *)
(* has the whole sum of its document, the accumulators are the documents   *)
(* of the terms begun below the limit, and the table they stand in is in   *)
(* order. What CosineGet takes from it has the cosine measure, and is the  *)
(* best there is.                                                          *)
(*                                                                         *)
(* The list of a term is laid out as mg_invf_rebuild writes it: the codes  *)
(* of posting m stand behind Start(t, v, m) codes, with a header before    *)
(* those of the first of a block. The cursor of a reader stands at such a  *)
(* place, knows the document there, and what the header said of the next   *)
(* block (AtPosting); a hop goes to where the next block starts.           *)
(*                                                                         *)
(* The table is taken as a bag of sums: what it has for a document (SumIn) *)
(* changes by the weight of the posting that is recorded, and not at all   *)
(* when entries are sorted, merged or packed. What it has is Due: the      *)
(* terms before the one at hand, and the first postings of that.           *)
(*                                                                         *)
(* When a table is full, postings of documents that have no accumulator    *)
(* are passed over. The table is in the order of its documents then, and   *)
(* the walk through it is never ahead of the list, so a hop, or the end of *)
(* the walk before the end of the list, passes over postings which give    *)
(* the documents of the table nothing (PassedOver). When it became full    *)
(* follows from the number of documents of the terms (SizeOf), which is    *)
(* what Admitted speaks of.                                                *)
(*                                                                         *)
(* What is made of the table comes after that. The sum of an accumulator   *)
(* is overwritten twice: by 0 when it goes to the heap, by its weight when *)
(* it is found too light or driven out. So the invariant says, of every    *)
(* accumulator in the heap, what its entry weighs (EntriesWeigh) and, of   *)
(* every other, what stands in place of its sum and that nothing in the    *)
(* heap weighs less than it could (RestWeighs). In an array some sums are  *)
(* 0: there are as many others as entries, so none of 0 is left in the     *)
(* heap at the end (NoneOfZero). Once the heap is turned over, what has    *)
(* been taken is laid out from both ends of Docs (Laid), has its measure,  *)
(* and is outweighed by nothing left (BestInv).                            *)
(***************************************************************************)
EXTENDS Ranked, CodeFacts, FiniteSetTheorems

-----------------------------------------------------------------------------
\* Sums of the first elements of a sequence.

Upto(f, m) == PartialSums(f, m)[m]

LEMMA UptoUnfolds ==
  ASSUME NEW N \in Nat, NEW f, \A x \in 1 .. N : f[x] \in Int
  PROVE  /\ Upto(f, 0) = 0
         /\ \A m \in 0 .. N : Upto(f, m) \in Int
         /\ \A m \in 0 .. N - 1 : Upto(f, m + 1) = Upto(f, m) + f[m + 1]
<1>1. Upto(f, 0) = 0
  <2>1. \A x \in 1 .. 0 : f[x] \in Int
    OBVIOUS
  <2>. QED BY <2>1, PartialSumsUnfold DEF Upto
<1>2. ASSUME NEW m \in 0 .. N PROVE Upto(f, m) \in Int
  <2>1. m \in Nat /\ m \in 0 .. m /\ \A x \in 1 .. m : f[x] \in Int
    OBVIOUS
  <2>2. PartialSums(f, m) \in [0 .. m -> Int]
    BY <2>1, PartialSumsUnfold
  <2>. QED BY <2>1, <2>2 DEF Upto
<1>3. ASSUME NEW m \in 0 .. N - 1 PROVE Upto(f, m + 1) = Upto(f, m) + f[m + 1]
  <2>1. /\ m \in Nat /\ m + 1 \in Nat /\ m <= m + 1 /\ m \in 0 .. m /\ m + 1 \in 1 .. m + 1
        /\ (m + 1) - 1 = m
        /\ \A x \in 1 .. m + 1 : f[x] \in Int
        /\ \A x \in 1 .. m : f[x] \in Int /\ f[x] = f[x]
    OBVIOUS
  <2>2. PartialSums(f, m + 1)[m + 1] = PartialSums(f, m + 1)[(m + 1) - 1] + f[m + 1]
    BY <2>1, PartialSumsUnfold
  <2>3. PartialSums(f, m)[m] = PartialSums(f, m + 1)[m]
    BY <2>1, PartialSumsAlike
  <2>. QED BY <2>1, <2>2, <2>3 DEF Upto
<1>. QED BY <1>1, <1>2, <1>3

LEMMA UptoAlike ==
  ASSUME NEW N \in Nat, NEW f, NEW g, \A x \in 1 .. N : f[x] \in Int /\ f[x] = g[x]
  PROVE  Upto(f, N) = Upto(g, N)
<1>1. N <= N /\ N \in 0 .. N /\ \A x \in 1 .. N : g[x] \in Int
  OBVIOUS
<1>. QED BY <1>1, PartialSumsAlike DEF Upto

LEMMA UptoZero ==
  ASSUME NEW N \in Nat, NEW f, \A x \in 1 .. N : f[x] = 0
  PROVE  Upto(f, N) = 0
<1>. DEFINE T == {m \in Nat : m <= N => Upto(f, m) = 0}
<1>1. \A x \in 1 .. N : f[x] \in Int
  OBVIOUS
<1>2. 0 \in T
  BY <1>1, UptoUnfolds
<1>3. ASSUME NEW m \in Nat, m \in T PROVE m + 1 \in T
  <2>. SUFFICES ASSUME m + 1 <= N PROVE Upto(f, m + 1) = 0
    OBVIOUS
  <2>1. m \in 0 .. N - 1 /\ m + 1 \in 1 .. N
    OBVIOUS
  <2>2. Upto(f, m + 1) = Upto(f, m) + f[m + 1]
    BY <1>1, <2>1, UptoUnfolds
  <2>. QED BY <1>3, <2>1, <2>2
<1>4. Nat \subseteq T
  <2>. HIDE DEF T
  <2>. QED BY <1>2, <1>3, SetInduction
<1>. QED BY <1>4

LEMMA UptoNat ==
  ASSUME NEW N \in Nat, NEW f, \A x \in 1 .. N : f[x] \in Nat
  PROVE  Upto(f, N) \in Nat
<1>. DEFINE T == {m \in Nat : m <= N => Upto(f, m) \in Nat}
<1>1. \A x \in 1 .. N : f[x] \in Int
  OBVIOUS
<1>2. 0 \in T
  BY <1>1, UptoUnfolds
<1>3. ASSUME NEW m \in Nat, m \in T PROVE m + 1 \in T
  <2>. SUFFICES ASSUME m + 1 <= N PROVE Upto(f, m + 1) \in Nat
    OBVIOUS
  <2>1. m \in 0 .. N - 1 /\ m + 1 \in 1 .. N
    OBVIOUS
  <2>2. Upto(f, m + 1) = Upto(f, m) + f[m + 1]
    BY <1>1, <2>1, UptoUnfolds
  <2>. QED BY <1>3, <2>1, <2>2
<1>4. Nat \subseteq T
  <2>. HIDE DEF T
  <2>. QED BY <1>2, <1>3, SetInduction
<1>. QED BY <1>4

\* One element grows by w.
LEMMA UptoGrows ==
  ASSUME NEW N \in Nat, NEW f, NEW g, NEW z \in 1 .. N, NEW w \in Int,
         \A x \in 1 .. N : f[x] \in Int,
         \A x \in 1 .. N : g[x] = IF x = z THEN f[x] + w ELSE f[x]
  PROVE  Upto(g, N) = Upto(f, N) + w
<1>. DEFINE T == {m \in Nat : m <= N => Upto(g, m) = Upto(f, m) + (IF m >= z THEN w ELSE 0)}
<1>1. \A x \in 1 .. N : g[x] \in Int
  OBVIOUS
<1>2. 0 \in T
  <2>1. Upto(g, 0) = 0 /\ Upto(f, 0) = 0
    BY <1>1, UptoUnfolds
  <2>. QED BY <2>1
<1>3. ASSUME NEW m \in Nat, m \in T PROVE m + 1 \in T
  <2>. SUFFICES ASSUME m + 1 <= N
                PROVE  Upto(g, m + 1) = Upto(f, m + 1) + (IF m + 1 >= z THEN w ELSE 0)
    OBVIOUS
  <2>1. m \in 0 .. N - 1 /\ m + 1 \in 1 .. N /\ m \in 0 .. N
    OBVIOUS
  <2>2. Upto(g, m + 1) = Upto(g, m) + g[m + 1] /\ Upto(f, m + 1) = Upto(f, m) + f[m + 1]
    BY <1>1, <2>1, UptoUnfolds
  <2>3. PICK a \in Int, b \in Int, c \in Int : a = Upto(f, m) /\ b = Upto(g, m) /\ c = f[m + 1]
    BY <1>1, <2>1, UptoUnfolds
  <2>4. b = a + (IF m >= z THEN w ELSE 0)
    BY <1>3, <2>1, <2>3
  <2>5. g[m + 1] = IF m + 1 = z THEN c + w ELSE c
    BY <2>1, <2>3
  <2>. QED BY <2>2, <2>3, <2>4, <2>5
<1>4. Nat \subseteq T
  <2>. HIDE DEF T
  <2>. QED BY <1>2, <1>3, SetInduction
<1>. QED BY <1>4

\* An element is put in.
LEMMA UptoInsert ==
  ASSUME NEW N \in Nat, NEW f, NEW g, NEW z \in 1 .. N + 1, NEW w \in Int,
         \A x \in 1 .. N : f[x] \in Int,
         \A x \in 1 .. N + 1 : g[x] = IF x < z THEN f[x] ELSE IF x = z THEN w ELSE f[x - 1]
  PROVE  Upto(g, N + 1) = Upto(f, N) + w
<1>. DEFINE T == {m \in Nat : m <= N =>
                    Upto(g, m + 1) = IF m + 1 >= z THEN Upto(f, m) + w ELSE Upto(f, m + 1)}
<1>1. \A x \in 1 .. N + 1 : g[x] \in Int
  <2>. TAKE x \in 1 .. N + 1
  <2>1. x < z => x \in 1 .. N
    OBVIOUS
  <2>2. x > z => x - 1 \in 1 .. N
    OBVIOUS
  <2>. QED BY <2>1, <2>2
<1>2. N + 1 \in Nat
  OBVIOUS
<1>3. Upto(g, 0) = 0 /\ Upto(f, 0) = 0
  BY <1>1, <1>2, UptoUnfolds
<1>4. ASSUME NEW m \in 0 .. N
      PROVE  Upto(g, m + 1) = Upto(g, m) + g[m + 1] /\ Upto(g, m) \in Int
  <2>1. m \in 0 .. (N + 1) - 1 /\ m \in 0 .. N + 1
    OBVIOUS
  <2>. QED BY <1>1, <1>2, <2>1, UptoUnfolds
<1>5. 0 \in T
  <2>1. 0 \in 0 .. N /\ 1 \in 1 .. N + 1 /\ 0 + 1 = 1
    OBVIOUS
  <2>2. Upto(g, 1) = 0 + g[1]
    BY <1>3, <1>4, <2>1
  <2>3. CASE z = 1
    BY <1>3, <2>1, <2>2, <2>3
  <2>4. CASE z # 1
    <3>1. 1 \in 1 .. N /\ 0 \in 0 .. N - 1 /\ g[1] = f[1]
      BY <2>1, <2>4
    <3>2. Upto(f, 1) = 0 + f[1]
      BY <1>3, <2>1, <3>1, UptoUnfolds
    <3>. QED BY <2>2, <2>4, <3>1, <3>2
  <2>. QED BY <2>3, <2>4
<1>6. ASSUME NEW m \in Nat, m \in T PROVE m + 1 \in T
  <2>. SUFFICES ASSUME m + 1 <= N
                PROVE  Upto(g, (m + 1) + 1) = IF (m + 1) + 1 >= z THEN Upto(f, m + 1) + w
                                              ELSE Upto(f, (m + 1) + 1)
    OBVIOUS
  <2>1. m \in 0 .. N - 1 /\ m + 1 \in 1 .. N /\ m \in 0 .. N /\ m + 1 \in 0 .. N
        /\ (m + 1) + 1 \in 1 .. N + 1 /\ ((m + 1) + 1) - 1 = m + 1
    OBVIOUS
  <2>2. PICK a \in Int, b \in Int, c \in Int : a = Upto(f, m) /\ b = Upto(g, m + 1) /\ c = f[m + 1]
    BY <1>4, <2>1, UptoUnfolds
  <2>3. Upto(g, (m + 1) + 1) = b + g[(m + 1) + 1] /\ Upto(f, m + 1) = a + c
    BY <1>4, <2>1, <2>2, UptoUnfolds
  <2>4. b = IF m + 1 >= z THEN a + w ELSE a + c
    BY <1>6, <2>1, <2>2, <2>3
  <2>5. CASE m + 1 >= z
    <3>1. g[(m + 1) + 1] = c
      BY <2>1, <2>2, <2>5
    <3>. QED BY <2>1, <2>2, <2>3, <2>4, <2>5, <3>1
  <2>6. CASE (m + 1) + 1 = z
    <3>1. g[(m + 1) + 1] = w
      BY <2>1, <2>6
    <3>. QED BY <2>1, <2>2, <2>3, <2>4, <2>6, <3>1
  <2>7. CASE (m + 1) + 1 < z
    <3>1. (m + 1) + 1 \in 1 .. N /\ m + 1 \in 0 .. N - 1
      BY <2>1, <2>7
    <3>2. g[(m + 1) + 1] = f[(m + 1) + 1]
      BY <2>1, <2>7
    <3>3. Upto(f, (m + 1) + 1) = (a + c) + f[(m + 1) + 1]
      BY <2>3, <3>1, UptoUnfolds
    <3>. QED BY <2>1, <2>2, <2>3, <2>4, <2>7, <3>1, <3>2, <3>3
  <2>. QED BY <2>1, <2>5, <2>6, <2>7
<1>7. Nat \subseteq T
  <2>. HIDE DEF T
  <2>. QED BY <1>5, <1>6, SetInduction
<1>8. N \in T
  BY <1>7
<1>. QED BY <1>8

LEMMA TotalIs == ASSUME NEW s, Len(s) \in Nat PROVE Total(s) = Upto(s, Len(s))
BY DEF Total, Upto, PartialSums

-----------------------------------------------------------------------------
\* Tables of accumulators.

Entries == [DocNum : Nat, Sum : Nat]
Numbers(q) == {q[x].DocNum : x \in DOMAIN q}
Ascending(q) == \A x, y \in DOMAIN q : x < y => q[x].DocNum < q[y].DocNum
Distinct(q) == \A x, y \in DOMAIN q : q[x].DocNum = q[y].DocNum => x = y

\* What an entry is to the sum of document d.
Part(e, d) == IF e.DocNum = d THEN e.Sum ELSE 0

LEMMA LeastPlace ==
  ASSUME NEW S \in SUBSET Nat, S # {}
  PROVE  Min(S) \in S /\ \A x \in S : Min(S) <= x
<1>. PICK x \in S : \A y \in S : x <= y
  BY LeastNatural
<1>. DEFINE Q(z) == z \in S /\ \A y \in S : z <= y
<1>1. \E z : Q(z)
  OBVIOUS
<1>2. Min(S) = CHOOSE z : Q(z)
  BY DEF Min
<1>. HIDE DEF Q
<1>3. Q(Min(S))
  BY <1>1, <1>2
<1>. QED BY <1>3 DEF Q

LEMMA AmountIs ==
  ASSUME NEW q \in Seq(Entries), NEW d
  PROVE  \E f : /\ SumIn(q, d) = Upto(f, Len(q))
                /\ f = [x \in DOMAIN q |-> Part(q[x], d)]
                /\ DOMAIN q = 1 .. Len(q) /\ Len(q) \in Nat
                /\ \A x \in 1 .. Len(q) : f[x] = Part(q[x], d) /\ f[x] \in Int
                /\ SumIn(q, d) \in Int
<1>. DEFINE f == [x \in DOMAIN q |-> Part(q[x], d)]
<1>1. DOMAIN q = 1 .. Len(q) /\ Len(q) \in Nat /\ \A x \in 1 .. Len(q) : q[x] \in Entries
  OBVIOUS
<1>2. \A x \in 1 .. Len(q) : f[x] = Part(q[x], d) /\ f[x] \in Int
  BY <1>1 DEF Part, Entries
<1>3. Len(f) = Len(q)
  <2>1. f \in Seq(Int)
    BY <1>1, <1>2
  <2>2. Len(f) \in Nat /\ DOMAIN f = 1 .. Len(f) /\ DOMAIN f = 1 .. Len(q)
    BY <1>1, <2>1
  <2>. QED BY <1>1, <2>2
<1>4. SumIn(q, d) = Total(f)
  BY DEF SumIn, Part
<1>5. Total(f) = Upto(f, Len(q))
  BY <1>1, <1>3, TotalIs
<1>6. Upto(f, Len(q)) \in Int
  BY <1>1, <1>2, UptoUnfolds
<1>7. f = [x \in DOMAIN q |-> Part(q[x], d)]
  OBVIOUS
<1>. HIDE DEF f
<1>. QED BY <1>1, <1>2, <1>4, <1>5, <1>6, <1>7

LEMMA SumOfNone == ASSUME NEW d PROVE SumIn(<<>>, d) = 0
<1>1. <<>> \in Seq(Entries) /\ Len(<<>>) = 0
  OBVIOUS
<1>2. PICK f : SumIn(<<>>, d) = Upto(f, 0)
  BY <1>1, AmountIs
<1>3. 0 \in Nat /\ \A x \in 1 .. 0 : f[x] = 0
  OBVIOUS
<1>. QED BY <1>2, <1>3, UptoZero

LEMMA SumOfOthers ==
  ASSUME NEW q \in Seq(Entries), NEW d, d \notin Numbers(q)
  PROVE  SumIn(q, d) = 0
<1>1. PICK f : /\ SumIn(q, d) = Upto(f, Len(q))
               /\ DOMAIN q = 1 .. Len(q) /\ Len(q) \in Nat
               /\ \A x \in 1 .. Len(q) : f[x] = Part(q[x], d)
  BY AmountIs
<1>2. \A x \in 1 .. Len(q) : f[x] = 0
  BY <1>1 DEF Part, Numbers
<1>. QED BY <1>1, <1>2, UptoZero

LEMMA AppendRight ==
  ASSUME NEW q \in Seq(Entries), NEW e \in Entries
  PROVE  /\ Append(q, e) \in Seq(Entries) /\ Len(Append(q, e)) = Len(q) + 1
         /\ Numbers(Append(q, e)) = Numbers(q) \cup {e.DocNum}
         /\ \A d : SumIn(Append(q, e), d) = SumIn(q, d) + Part(e, d)
<1>. DEFINE r == Append(q, e)
<1>1. r \in Seq(Entries) /\ Len(r) = Len(q) + 1 /\ Len(q) \in Nat
      /\ DOMAIN q = 1 .. Len(q) /\ DOMAIN r = 1 .. Len(q) + 1
      /\ r[Len(q) + 1] = e /\ \A x \in 1 .. Len(q) : r[x] = q[x]
  OBVIOUS
<1>. HIDE DEF r
<1>2. Numbers(r) = Numbers(q) \cup {e.DocNum}
  <2>1. \A x \in 1 .. Len(q) + 1 : x \in 1 .. Len(q) \/ x = Len(q) + 1
    BY <1>1
  <2>2. \A x \in 1 .. Len(q) : x \in 1 .. Len(q) + 1
    BY <1>1
  <2>3. Len(q) + 1 \in 1 .. Len(q) + 1
    BY <1>1
  <2>. QED BY <1>1, <2>1, <2>2, <2>3 DEF Numbers
<1>3. ASSUME NEW d PROVE SumIn(r, d) = SumIn(q, d) + Part(e, d)
  <2>1. PICK f : /\ SumIn(q, d) = Upto(f, Len(q))
                 /\ \A x \in 1 .. Len(q) : f[x] = Part(q[x], d) /\ f[x] \in Int
    BY AmountIs
  <2>2. PICK g : /\ SumIn(r, d) = Upto(g, Len(r))
                 /\ \A x \in 1 .. Len(r) : g[x] = Part(r[x], d) /\ g[x] \in Int
    BY <1>1, AmountIs
  <2>3. Len(q) + 1 \in Nat /\ \A x \in 1 .. Len(q) + 1 : g[x] = Part(r[x], d) /\ g[x] \in Int
    BY <1>1, <2>2
  <2>4. Len(q) \in 0 .. (Len(q) + 1) - 1 /\ Len(q) + 1 \in 1 .. Len(q) + 1
    BY <1>1
  <2>5. Upto(g, Len(q) + 1) = Upto(g, Len(q)) + g[Len(q) + 1]
    BY <2>3, <2>4, UptoUnfolds
  <2>6. \A x \in 1 .. Len(q) : f[x] \in Int /\ f[x] = g[x]
    <3>1. \A x \in 1 .. Len(q) : x \in 1 .. Len(q) + 1
      BY <1>1
    <3>. QED BY <1>1, <2>1, <2>3, <3>1
  <2>7. Upto(f, Len(q)) = Upto(g, Len(q))
    BY <1>1, <2>6, UptoAlike
  <2>8. g[Len(q) + 1] = Part(e, d)
    BY <1>1, <2>3, <2>4
  <2>. QED BY <1>1, <2>1, <2>2, <2>5, <2>7, <2>8
<1>. QED BY <1>1, <1>2, <1>3 DEF r

\* An entry's sum grows by w.
Grown(q, z, w) == [q EXCEPT ![z].Sum = @ + w]

LEMMA GrowRight ==
  ASSUME NEW q \in Seq(Entries), NEW z \in DOMAIN q, NEW w \in Nat,
         NEW r, r = Grown(q, z, w)
  PROVE  /\ r \in Seq(Entries) /\ Len(r) = Len(q) /\ DOMAIN r = DOMAIN q
         /\ \A x \in DOMAIN q : r[x].DocNum = q[x].DocNum
         /\ Numbers(r) = Numbers(q)
         /\ Ascending(q) => Ascending(r)
         /\ Distinct(q) => Distinct(r)
         /\ \A d : SumIn(r, d) = SumIn(q, d) + (IF q[z].DocNum = d THEN w ELSE 0)
<1>1. DOMAIN q = 1 .. Len(q) /\ Len(q) \in Nat /\ \A x \in DOMAIN q : q[x] \in Entries
  OBVIOUS
<1>2. /\ DOMAIN r = DOMAIN q
      /\ \A x \in DOMAIN q : r[x] = IF x = z THEN [q[z] EXCEPT !.Sum = @ + w] ELSE q[x]
  BY DEF Grown
<1>3. \A x \in DOMAIN q : r[x].DocNum = q[x].DocNum /\ r[x] \in Entries
      /\ r[x].Sum = IF x = z THEN q[x].Sum + w ELSE q[x].Sum
  BY <1>1, <1>2 DEF Entries
<1>4. r \in Seq(Entries) /\ Len(r) = Len(q)
  <2>0. r = [x \in DOMAIN q |-> r[x]]
    BY DEF Grown
  <2>1. r = [x \in 1 .. Len(q) |-> r[x]] /\ \A x \in 1 .. Len(q) : r[x] \in Entries
    BY <1>1, <1>3, <2>0
  <2>. QED BY <1>1, <1>2, <2>1
<1>5. Numbers(r) = Numbers(q)
  BY <1>2, <1>3 DEF Numbers
<1>6. (Ascending(q) => Ascending(r)) /\ (Distinct(q) => Distinct(r))
  BY <1>2, <1>3 DEF Ascending, Distinct
<1>7. ASSUME NEW d PROVE SumIn(r, d) = SumIn(q, d) + (IF q[z].DocNum = d THEN w ELSE 0)
  <2>1. PICK f : /\ SumIn(q, d) = Upto(f, Len(q))
                 /\ \A x \in 1 .. Len(q) : f[x] = Part(q[x], d) /\ f[x] \in Int
    BY AmountIs
  <2>2. PICK g : /\ SumIn(r, d) = Upto(g, Len(q))
                 /\ \A x \in 1 .. Len(q) : g[x] = Part(r[x], d) /\ g[x] \in Int
    <3>1. \E g : /\ SumIn(r, d) = Upto(g, Len(r))
                 /\ \A x \in 1 .. Len(r) : g[x] = Part(r[x], d) /\ g[x] \in Int
      BY ONLY <1>4, AmountIs
    <3>. QED BY <1>4, <3>1
  <2>3. CASE q[z].DocNum = d
    <3>1. \A x \in 1 .. Len(q) : g[x] = IF x = z THEN f[x] + w ELSE f[x]
      BY <1>1, <1>3, <2>1, <2>2, <2>3 DEF Part
    <3>2. z \in 1 .. Len(q) /\ \A x \in 1 .. Len(q) : f[x] \in Int
      BY <1>1, <2>1
    <3>3. Upto(g, Len(q)) = Upto(f, Len(q)) + w
      BY ONLY <1>1, <3>1, <3>2, w \in Int, UptoGrows
    <3>. QED BY <2>1, <2>2, <2>3, <3>3
  <2>4. CASE q[z].DocNum # d
    <3>1. \A x \in 1 .. Len(q) : f[x] \in Int /\ f[x] = g[x]
      BY <1>1, <1>3, <2>1, <2>2, <2>4 DEF Part
    <3>2. Upto(f, Len(q)) = Upto(g, Len(q)) /\ Upto(f, Len(q)) \in Int
      <4>1. \A x \in 1 .. Len(q) : f[x] \in Int
        BY <2>1
      <4>2. Upto(f, Len(q)) = Upto(g, Len(q))
        BY ONLY <1>1, <3>1, UptoAlike
      <4>3. Len(q) \in 0 .. Len(q)
        BY <1>1
      <4>4. Upto(f, Len(q)) \in Int
        BY ONLY <1>1, <4>1, <4>3, UptoUnfolds
      <4>. QED BY <4>2, <4>4
    <3>. QED BY <2>1, <2>2, <2>4, <3>2
  <2>. QED BY <2>3, <2>4
<1>. QED BY <1>2, <1>3, <1>4, <1>5, <1>6, <1>7

\* An entry is put in.
LEMMA InsertIs ==
  ASSUME NEW q \in Seq(Entries), NEW e \in Entries
  PROVE  \E z \in 1 .. Len(q) + 1 :
           /\ \A x \in 1 .. Len(q) : x < z => q[x].DocNum <= e.DocNum
           /\ z <= Len(q) => q[z].DocNum > e.DocNum
           /\ Insert(q, e) \in Seq(Entries) /\ Len(Insert(q, e)) = Len(q) + 1
           /\ \A x \in 1 .. Len(q) + 1 :
                Insert(q, e)[x] = IF x < z THEN q[x] ELSE IF x = z THEN e ELSE q[x - 1]
<1>. DEFINE S == {x \in DOMAIN q : q[x].DocNum > e.DocNum} \cup {Len(q) + 1}
<1>1. DOMAIN q = 1 .. Len(q) /\ Len(q) \in Nat /\ \A x \in DOMAIN q : q[x] \in Entries
  OBVIOUS
<1>2. S \in SUBSET Nat /\ S # {} /\ S \subseteq 1 .. Len(q) + 1
  BY <1>1
<1>3. PICK z : z = Min(S)
  OBVIOUS
<1>4. z \in S /\ \A x \in S : z <= x
  BY <1>2, <1>3, LeastPlace
<1>5. z \in 1 .. Len(q) + 1
  BY <1>2, <1>4
<1>6. \A x \in 1 .. Len(q) : x < z => q[x].DocNum <= e.DocNum
  <2>. TAKE x \in 1 .. Len(q)
  <2>. HAVE x < z
  <2>1. x \notin S
    <3>1. ~(z <= x)
      BY <1>1, <1>5
    <3>. QED BY <1>4, <3>1
  <2>2. ~(q[x].DocNum > e.DocNum)
    BY <1>1, <2>1
  <2>3. q[x].DocNum \in Nat /\ e.DocNum \in Nat
    BY <1>1 DEF Entries
  <2>. QED BY <2>2, <2>3
<1>7. z <= Len(q) => q[z].DocNum > e.DocNum
  BY <1>1, <1>4
<1>8. Insert(q, e) = (SubSeq(q, 1, z - 1) \o <<e>>) \o SubSeq(q, z, Len(q))
  BY <1>3 DEF Insert, InsertAt
<1>. HIDE DEF S
<1>9. PICK a \in Seq(Entries) : /\ a = SubSeq(q, 1, z - 1) /\ Len(a) = z - 1
                                /\ \A x \in 1 .. z - 1 : a[x] = q[x]
  <2>1. 1 \in Int /\ z - 1 \in 0 .. Len(q) /\ \A x \in 1 .. z - 1 : x \in 1 .. Len(q)
    BY <1>1, <1>5
  <2>2. SubSeq(q, 1, z - 1) \in Seq(Entries)
    BY <2>1
  <2>3. Len(SubSeq(q, 1, z - 1)) = z - 1 /\ \A x \in 1 .. z - 1 : SubSeq(q, 1, z - 1)[x] = q[x]
    BY <1>1, <1>5, <2>1
  <2>. QED BY <2>2, <2>3
<1>10. PICK b \in Seq(Entries) : /\ b = SubSeq(q, z, Len(q)) /\ Len(b) = (Len(q) + 1) - z
                                 /\ \A x \in 1 .. (Len(q) + 1) - z : b[x] = q[(x + z) - 1]
  <2>1. z \in 1 .. Len(q) + 1 /\ Len(q) \in Nat
    BY <1>1, <1>5
  <2>2. SubSeq(q, z, Len(q)) \in Seq(Entries)
    BY <2>1
  <2>3. Len(SubSeq(q, z, Len(q))) = (Len(q) + 1) - z
    BY <2>1
  <2>4. \A x \in 1 .. (Len(q) + 1) - z : SubSeq(q, z, Len(q))[x] = q[(x + z) - 1]
    BY <2>1
  <2>. QED BY <2>2, <2>3, <2>4
<1>11. PICK c \in Seq(Entries) : /\ c = a \o <<e>> /\ Len(c) = z
                                 /\ \A x \in 1 .. z : c[x] = IF x < z THEN q[x] ELSE e
  <2>1. a \o <<e>> \in Seq(Entries) /\ Len(a \o <<e>>) = z
    BY <1>5, <1>9
  <2>2. \A x \in 1 .. z : (a \o <<e>>)[x] = IF x < z THEN q[x] ELSE e
    BY <1>5, <1>9
  <2>. QED BY <2>1, <2>2
<1>12. c \o b \in Seq(Entries) /\ Len(c \o b) = Len(q) + 1
  <2>1. Len(c \o b) = Len(c) + Len(b) /\ c \o b \in Seq(Entries)
    OBVIOUS
  <2>2. z + ((Len(q) + 1) - z) = Len(q) + 1
    BY <1>1, <1>5
  <2>3. Len(c) + Len(b) = z + ((Len(q) + 1) - z)
    BY <1>10, <1>11
  <2>. QED BY <2>1, <2>2, <2>3
<1>13. \A x \in 1 .. Len(q) + 1 :
         (c \o b)[x] = IF x < z THEN q[x] ELSE IF x = z THEN e ELSE q[x - 1]
  <2>. TAKE x \in 1 .. Len(q) + 1
  <2>1. CASE x <= z
    <3>1. x \in 1 .. z /\ x \in 1 .. Len(c) + Len(b)
      BY <1>1, <1>5, <1>10, <1>11, <2>1
    <3>2. (c \o b)[x] = c[x]
      BY <1>11, <2>1, <3>1, ConcatProperties
    <3>3. c[x] = IF x < z THEN q[x] ELSE e
      BY <1>11, <3>1
    <3>. QED BY <1>5, <2>1, <3>2, <3>3
  <2>2. CASE x > z
    <3>1. x - z \in 1 .. (Len(q) + 1) - z /\ ((x - z) + z) - 1 = x - 1
      BY <1>1, <1>5, <2>2
    <3>0. x \in 1 .. Len(c) + Len(b) /\ ~(x <= Len(c))
      BY <1>1, <1>5, <1>10, <1>11, <2>2
    <3>2. (c \o b)[x] = b[x - z]
      BY <1>11, <3>0, ConcatProperties
    <3>3. b[x - z] = q[x - 1]
      BY <1>10, <3>1
    <3>4. ~(x < z) /\ x # z
      BY <1>1, <1>5, <2>2
    <3>. QED BY <3>2, <3>3, <3>4
  <2>3. x <= z \/ x > z
    BY <1>1, <1>5
  <2>. QED BY <2>1, <2>2, <2>3
<1>14. Insert(q, e) = c \o b
  BY <1>8, <1>9, <1>10, <1>11
<1>. QED BY <1>5, <1>6, <1>7, <1>12, <1>13, <1>14

LEMMA InsertRight ==
  ASSUME NEW q \in Seq(Entries), NEW e \in Entries
  PROVE  /\ Insert(q, e) \in Seq(Entries) /\ Len(Insert(q, e)) = Len(q) + 1
         /\ Numbers(Insert(q, e)) = Numbers(q) \cup {e.DocNum}
         /\ \A d : SumIn(Insert(q, e), d) = SumIn(q, d) + Part(e, d)
         /\ Ascending(q) /\ e.DocNum \notin Numbers(q) => Ascending(Insert(q, e))
<1>1. PICK N \in Nat : N = Len(q) /\ DOMAIN q = 1 .. N
  OBVIOUS
<1>2. PICK z \in 1 .. N + 1, r \in Seq(Entries) :
         /\ \A x \in 1 .. N : x < z => q[x].DocNum <= e.DocNum
         /\ z <= N => q[z].DocNum > e.DocNum
         /\ r = Insert(q, e) /\ Len(r) = N + 1
         /\ \A x \in 1 .. N + 1 : r[x] = IF x < z THEN q[x] ELSE IF x = z THEN e ELSE q[x - 1]
  <2>1. PICK z \in 1 .. Len(q) + 1 :
          /\ \A x \in 1 .. Len(q) : x < z => q[x].DocNum <= e.DocNum
          /\ z <= Len(q) => q[z].DocNum > e.DocNum
          /\ Insert(q, e) \in Seq(Entries) /\ Len(Insert(q, e)) = Len(q) + 1
          /\ \A x \in 1 .. Len(q) + 1 :
               Insert(q, e)[x] = IF x < z THEN q[x] ELSE IF x = z THEN e ELSE q[x - 1]
    BY InsertIs
  <2>2. PICK r \in Seq(Entries) : r = Insert(q, e)
    BY <2>1
  <2>. QED BY ONLY <1>1, <2>1, <2>2
<1>3. DOMAIN r = 1 .. N + 1 /\ \A x \in 1 .. N : q[x] \in Entries
  BY <1>1, <1>2
<1>4. ASSUME NEW x \in 1 .. N + 1, x > z PROVE x - 1 \in 1 .. N
  BY <1>4
<1>5. ASSUME NEW x \in 1 .. N + 1, x < z PROVE x \in 1 .. N
  BY <1>5
<1>6. Numbers(r) = Numbers(q) \cup {e.DocNum}
  <2>1. ASSUME NEW v \in Numbers(r) PROVE v \in Numbers(q) \cup {e.DocNum}
    <3>1. PICK x \in 1 .. N + 1 : v = r[x].DocNum
      BY <1>3 DEF Numbers
    <3>2. x < z \/ x = z \/ x > z
      OBVIOUS
    <3>. QED BY <1>1, <1>2, <1>4, <1>5, <3>1, <3>2 DEF Numbers
  <2>2. ASSUME NEW v \in Numbers(q) PROVE v \in Numbers(r)
    <3>1. PICK x \in 1 .. N : v = q[x].DocNum
      BY <1>1 DEF Numbers
    <3>2. CASE x < z
      <4>1. x \in 1 .. N + 1 /\ r[x] = q[x]
        BY <1>2, <3>2
      <4>. QED BY <1>3, <3>1, <4>1 DEF Numbers
    <3>3. CASE x >= z
      <4>1. x + 1 \in 1 .. N + 1 /\ r[x + 1] = q[x]
        <5>1. x + 1 \in 1 .. N + 1 /\ ~(x + 1 < z) /\ x + 1 # z /\ (x + 1) - 1 = x
          BY <3>3
        <5>. QED BY <1>2, <5>1
      <4>. QED BY <1>3, <3>1, <4>1 DEF Numbers
    <3>. QED BY <3>2, <3>3
  <2>3. e.DocNum \in Numbers(r)
    <3>1. r[z] = e
      BY <1>2
    <3>. QED BY <1>2, <1>3, <3>1 DEF Numbers
  <2>. QED BY <2>1, <2>2, <2>3
<1>7. ASSUME NEW d PROVE SumIn(r, d) = SumIn(q, d) + Part(e, d)
  <2>1. PICK f : /\ SumIn(q, d) = Upto(f, N)
                 /\ \A x \in 1 .. N : f[x] = Part(q[x], d) /\ f[x] \in Int
    BY <1>1, AmountIs
  <2>2. PICK g : /\ SumIn(r, d) = Upto(g, N + 1)
                 /\ \A x \in 1 .. N + 1 : g[x] = Part(r[x], d) /\ g[x] \in Int
    BY <1>2, AmountIs, SMTT(30)
  <2>3. \A x \in 1 .. N + 1 : g[x] = IF x < z THEN f[x] ELSE IF x = z THEN Part(e, d) ELSE f[x - 1]
    <3>. TAKE x \in 1 .. N + 1
    <3>1. CASE x < z
      BY <1>2, <1>5, <2>1, <2>2, <3>1
    <3>2. CASE x = z
      BY <1>2, <2>2, <3>2
    <3>3. CASE x > z
      BY <1>2, <1>4, <2>1, <2>2, <3>3
    <3>. QED BY <3>1, <3>2, <3>3
  <2>4. Part(e, d) \in Int
    BY DEF Part, Entries
  <2>5. \A x \in 1 .. N : f[x] \in Int
    BY <2>1
  <2>6. Upto(g, N + 1) = Upto(f, N) + Part(e, d)
    BY <2>3, <2>4, <2>5, UptoInsert
  <2>. QED BY <2>1, <2>2, <2>6
<1>8. ASSUME Ascending(q), e.DocNum \notin Numbers(q) PROVE Ascending(r)
  <2>. SUFFICES ASSUME NEW x \in 1 .. N + 1, NEW y \in 1 .. N + 1, x < y
                PROVE  r[x].DocNum < r[y].DocNum
    BY <1>3 DEF Ascending
  <2>1. \A m \in 1 .. N : q[m].DocNum \in Nat /\ q[m].DocNum # e.DocNum
    BY <1>1, <1>3, <1>8 DEF Numbers, Entries
  <2>2. e.DocNum \in Nat
    BY DEF Entries
  <2>3. \A a, b \in 1 .. N : a < b => q[a].DocNum < q[b].DocNum
    BY <1>1, <1>8 DEF Ascending
  <2>4. \A m \in 1 .. N : m < z => q[m].DocNum < e.DocNum
    BY <1>2, <2>1, <2>2
  <2>5. \A m \in 1 .. N : m >= z => e.DocNum < q[m].DocNum
    <3>. TAKE m \in 1 .. N
    <3>. HAVE m >= z
    <3>1. z \in 1 .. N /\ e.DocNum < q[z].DocNum
      <4>1. z \in 1 .. N
        OBVIOUS
      <4>. QED BY <1>2, <2>1, <2>2, <4>1
    <3>2. CASE m = z
      BY <3>1, <3>2
    <3>3. CASE m > z
      <4>1. q[z].DocNum < q[m].DocNum
        BY <2>3, <3>1, <3>3
      <4>. QED BY <2>1, <2>2, <3>1, <4>1
    <3>. QED BY <3>2, <3>3
  <2>6. CASE y < z
    <3>1. x \in 1 .. N /\ y \in 1 .. N /\ r[x] = q[x] /\ r[y] = q[y]
      BY <1>2, <1>5, <2>6
    <3>. QED BY <2>3, <3>1
  <2>7. CASE y = z
    <3>1. x \in 1 .. N /\ r[x] = q[x] /\ r[y] = e /\ x < z
      BY <1>2, <1>5, <2>7
    <3>. QED BY <2>4, <3>1
  <2>8. CASE y > z
    <3>1. y - 1 \in 1 .. N /\ r[y] = q[y - 1] /\ y - 1 >= z
      BY <1>2, <1>4, <2>8
    <3>2. CASE x < z
      <4>1. x \in 1 .. N /\ r[x] = q[x] /\ x < y - 1
        BY <1>2, <1>5, <3>1, <3>2
      <4>. QED BY <2>3, <3>1, <4>1
    <3>3. CASE x = z
      <4>1. r[x] = e
        BY <1>2, <3>3
      <4>. QED BY <2>5, <3>1, <4>1
    <3>4. CASE x > z
      <4>1. x - 1 \in 1 .. N /\ r[x] = q[x - 1] /\ x - 1 < y - 1
        BY <1>2, <1>4, <3>1, <3>4
      <4>. QED BY <2>3, <3>1, <4>1
    <3>. QED BY <3>2, <3>3, <3>4
  <2>. QED BY <2>6, <2>7, <2>8
<1>. QED BY <1>1, <1>2, <1>6, <1>7, <1>8

-----------------------------------------------------------------------------
\* Where a document stands, and what sorting and packing leave.

LEMMA GreatestPlace ==
  ASSUME NEW N \in Nat, NEW S \in SUBSET (1 .. N), S # {}
  PROVE  Max(S) \in S
<1>. DEFINE R == {N - x : x \in S}
            Q(z) == z \in S /\ \A y \in S : z >= y
<1>1. R \in SUBSET Nat /\ R # {}
  <2>1. \A x \in S : N - x \in Nat
    <3>. TAKE x \in S
    <3>1. x \in 1 .. N
      OBVIOUS
    <3>. QED BY <3>1
  <2>. QED BY <2>1
<1>2. PICK m \in R : \A v \in R : m <= v
  BY <1>1, LeastNatural
<1>3. PICK z \in S : m = N - z
  BY <1>2
<1>4. Q(z)
  <2>1. ASSUME NEW y \in S PROVE z >= y
    <3>1. N - y \in R /\ y \in 1 .. N /\ z \in 1 .. N
      OBVIOUS
    <3>2. N - z <= N - y
      BY <1>2, <1>3, <3>1
    <3>. QED BY <3>1, <3>2
  <2>. QED BY <2>1
<1>5. Max(S) = CHOOSE x : Q(x)
  BY DEF Max
<1>. HIDE DEF Q
<1>6. Q(Max(S))
  BY <1>4, <1>5
<1>. QED BY <1>6 DEF Q

\* Where a document stands in a table.
LEMMA PlaceRight ==
  ASSUME NEW q \in Seq(Entries), NEW d
  PROVE  /\ Place(q, d) # {} <=> d \in Numbers(q)
         /\ d \in Numbers(q) => Max(Place(q, d)) \in DOMAIN q /\ q[Max(Place(q, d))].DocNum = d
<1>1. Place(q, d) # {} <=> d \in Numbers(q)
  BY DEF Place, Numbers
<1>2. ASSUME d \in Numbers(q)
      PROVE  Max(Place(q, d)) \in DOMAIN q /\ q[Max(Place(q, d))].DocNum = d
  <2>1. Len(q) \in Nat /\ Place(q, d) \in SUBSET (1 .. Len(q)) /\ Place(q, d) # {}
    BY <1>1, <1>2 DEF Place
  <2>2. Max(Place(q, d)) \in Place(q, d)
    BY <2>1, GreatestPlace
  <2>. QED BY <2>2 DEF Place
<1>. QED BY <1>1, <1>2

LEMMA AscendingDistinct ==
  ASSUME NEW q \in Seq(Entries), Ascending(q) PROVE Distinct(q)
<1>1. SUFFICES ASSUME NEW x \in DOMAIN q, NEW y \in DOMAIN q, q[x].DocNum = q[y].DocNum PROVE x = y
  BY DEF Distinct
<1>2. x \in Nat /\ y \in Nat /\ q[x].DocNum \in Nat
  <2>1. DOMAIN q = 1 .. Len(q) /\ Len(q) \in Nat /\ q[x] \in Entries
    OBVIOUS
  <2>. QED BY <2>1 DEF Entries
<1>3. x < y \/ y < x \/ x = y
  BY <1>2
<1>. QED BY <1>1, <1>2, <1>3 DEF Ascending

LEMMA AddToRight ==
  ASSUME NEW q \in Seq(Entries), NEW e \in Entries
  PROVE  /\ AddTo(q, e) \in Seq(Entries)
         /\ Len(AddTo(q, e)) = IF e.DocNum \in Numbers(q) THEN Len(q) ELSE Len(q) + 1
         /\ Numbers(AddTo(q, e)) = Numbers(q) \cup {e.DocNum}
         /\ \A d : SumIn(AddTo(q, e), d) = SumIn(q, d) + Part(e, d)
         /\ Ascending(q) => Ascending(AddTo(q, e))
<1>1. CASE e.DocNum \in Numbers(q)
  <2>1. PICK z \in DOMAIN q : z = Max(Place(q, e.DocNum)) /\ q[z].DocNum = e.DocNum
    BY <1>1, PlaceRight
  <2>2. PICK w \in Nat : w = e.Sum
    BY DEF Entries
  <2>3. AddTo(q, e) = Grown(q, z, w)
    BY <1>1, <2>1, <2>2, PlaceRight DEF AddTo, Grown
  <2>4. PICK r : r = AddTo(q, e) /\ r = Grown(q, z, w)
    BY <2>3
  <2>5. /\ r \in Seq(Entries) /\ Len(r) = Len(q)
        /\ Numbers(r) = Numbers(q)
        /\ Ascending(q) => Ascending(r)
        /\ \A d : SumIn(r, d) = SumIn(q, d) + (IF q[z].DocNum = d THEN w ELSE 0)
    BY <2>4, GrowRight
  <2>6. \A d : Part(e, d) = IF q[z].DocNum = d THEN w ELSE 0
    BY <2>1, <2>2 DEF Part
  <2>7. Numbers(q) \cup {e.DocNum} = Numbers(q)
    BY <1>1
  <2>. QED BY <1>1, <2>4, <2>5, <2>6, <2>7
<1>2. CASE e.DocNum \notin Numbers(q)
  <2>1. AddTo(q, e) = Insert(q, e)
    BY <1>2, PlaceRight DEF AddTo
  <2>. QED BY <1>2, <2>1, InsertRight
<1>. QED BY <1>1, <1>2

\* The first entries of a table.
LEMMA FirstEntries ==
  ASSUME NEW q \in Seq(Entries)
  PROVE  /\ Len(q) \in Nat /\ SubSeq(q, 1, 0) = <<>> /\ SubSeq(q, 1, Len(q)) = q
         /\ \A x \in 0 .. Len(q) :
              SubSeq(q, 1, x) \in Seq(Entries) /\ Len(SubSeq(q, 1, x)) = x
         /\ \A x \in 1 .. Len(q) :
              /\ q[x] \in Entries
              /\ SubSeq(q, 1, x) = Append(SubSeq(q, 1, x - 1), q[x])
              /\ Distinct(q) => q[x].DocNum \notin Numbers(SubSeq(q, 1, x - 1))
<1>1. PICK N \in Nat : N = Len(q) /\ DOMAIN q = 1 .. N
  OBVIOUS
<1>2. SubSeq(q, 1, 0) = <<>> /\ SubSeq(q, 1, Len(q)) = q
  OBVIOUS
<1>3. ASSUME NEW x \in 0 .. N
      PROVE  /\ SubSeq(q, 1, x) \in Seq(Entries) /\ Len(SubSeq(q, 1, x)) = x
             /\ \A y \in 1 .. x : SubSeq(q, 1, x)[y] = q[y]
  <2>1. \A y \in 1 .. x : y \in 1 .. Len(q)
    BY <1>1
  <2>2. Len(SubSeq(q, 1, x)) = x
    BY <1>1
  <2>. QED BY <1>1, <2>1, <2>2
<1>4. ASSUME NEW x \in 1 .. N
      PROVE  /\ q[x] \in Entries
             /\ SubSeq(q, 1, x) = Append(SubSeq(q, 1, x - 1), q[x])
             /\ Distinct(q) => q[x].DocNum \notin Numbers(SubSeq(q, 1, x - 1))
  <2>1. x - 1 \in 0 .. N /\ x \in 0 .. N /\ q[x] \in Entries /\ (x - 1) + 1 = x
    BY <1>1
  <2>2. PICK a \in Seq(Entries) : a = SubSeq(q, 1, x - 1) /\ Len(a) = x - 1
                                  /\ \A y \in 1 .. x - 1 : a[y] = q[y]
    BY <1>3, <2>1
  <2>3. PICK b \in Seq(Entries) : b = SubSeq(q, 1, x) /\ Len(b) = x
                                  /\ \A y \in 1 .. x : b[y] = q[y]
    BY <1>3, <2>1
  <2>4. b = Append(a, q[x])
    <3>1. Append(a, q[x]) \in Seq(Entries) /\ Len(Append(a, q[x])) = x
      BY <2>1, <2>2
    <3>2. \A y \in 1 .. x : b[y] = Append(a, q[x])[y]
      BY <2>1, <2>2, <2>3
    <3>. QED BY <2>3, <3>1, <3>2, SeqEqual
  <2>5. ASSUME Distinct(q) PROVE q[x].DocNum \notin Numbers(a)
    <3>. SUFFICES ASSUME NEW y \in 1 .. x - 1, q[y].DocNum = q[x].DocNum PROVE FALSE
      BY <2>2, SMTT(30) DEF Numbers
    <3>1. y \in DOMAIN q /\ x \in DOMAIN q /\ y # x
      BY <1>1
    <3>. QED BY <2>5, <3>1 DEF Distinct
  <2>. QED BY <2>1, <2>2, <2>3, <2>4, <2>5
<1>. QED BY <1>1, <1>2, <1>3, <1>4

\* Entries that are put in one after the other, or added.
LEMMA ByDocNumIs ==
  ASSUME NEW q \in Seq(Entries)
  PROVE  \E g : /\ ByDocNum(q) = g[Len(q)] /\ g[0] = <<>>
                /\ \A x \in 1 .. Len(q) : g[x] = Insert(g[x - 1], q[x])
<1>. DEFINE N == Len(q)
            Q(g) == g = [x \in 0 .. N |-> IF x = 0 THEN <<>> ELSE Insert(g[x - 1], q[x])]
            D == [a \in Seq(Entries) \X (1 .. N) |-> Insert(a[1], q[a[2]])]
<1>1. N \in Nat /\ \A x \in 1 .. N : q[x] \in Entries
  OBVIOUS
<1>2. ByDocNum(q) = (CHOOSE g : Q(g))[N]
  BY DEF ByDocNum
<1>. HIDE DEF N
<1>3. D \in [Seq(Entries) \X (1 .. N) -> Seq(Entries)]
  BY <1>1, InsertRight
<1>4. PICK g \in [0 .. N -> Seq(Entries)] : RecursUpTo(g, N, <<>>, D)
  <2>1. <<>> \in Seq(Entries)
    OBVIOUS
  <2>. HIDE DEF D
  <2>. QED BY <1>1, <1>3, <2>1, RecursionUpTo, Zenon
<1>5. Q(g)
  <2>1. ASSUME NEW x \in 0 .. N PROVE g[x] = IF x = 0 THEN <<>> ELSE Insert(g[x - 1], q[x])
    <3>1. CASE x = 0
      BY <1>4, <3>1 DEF RecursUpTo
    <3>2. CASE x # 0
      <4>1. x - 1 \in 0 .. N /\ x \in 1 .. N /\ <<g[x - 1], x>> \in Seq(Entries) \X (1 .. N)
        BY <1>1, <3>2
      <4>2. D[<<g[x - 1], x>>] = Insert(g[x - 1], q[x])
        BY <4>1
      <4>3. g[x] = D[<<g[x - 1], x>>]
        <5>. HIDE DEF D
        <5>. QED BY <1>4, <3>2 DEF RecursUpTo
      <4>. QED BY <3>2, <4>2, <4>3
    <3>. QED BY <3>1, <3>2
  <2>. QED BY <2>1
<1>6. PICK h : h = CHOOSE f : Q(f)
  OBVIOUS
<1>7. Q(h)
  <2>. HIDE DEF Q
  <2>. QED BY <1>5, <1>6
<1>8. h[0] = <<>> /\ \A x \in 1 .. N : h[x] = Insert(h[x - 1], q[x])
  BY <1>1, <1>7
<1>. HIDE DEF Q
<1>. QED BY <1>2, <1>6, <1>8 DEF N

LEMMA ByDocNumRight ==
  ASSUME NEW q \in Seq(Entries)
  PROVE  /\ ByDocNum(q) \in Seq(Entries) /\ Len(ByDocNum(q)) = Len(q)
         /\ Numbers(ByDocNum(q)) = Numbers(q)
         /\ \A d : SumIn(ByDocNum(q), d) = SumIn(q, d)
         /\ Distinct(q) => Ascending(ByDocNum(q))
<1>1. PICK g : /\ ByDocNum(q) = g[Len(q)] /\ g[0] = <<>>
               /\ \A x \in 1 .. Len(q) : g[x] = Insert(g[x - 1], q[x])
  BY ByDocNumIs
<1>2. PICK N \in Nat : N = Len(q)
  OBVIOUS
<1>. DEFINE P(x) == SubSeq(q, 1, x)
            Like(x) == /\ g[x] \in Seq(Entries) /\ Len(g[x]) = x
                       /\ Numbers(g[x]) = Numbers(P(x))
                       /\ \A d : SumIn(g[x], d) = SumIn(P(x), d)
                       /\ Distinct(q) => Ascending(g[x])
            T == {x \in Nat : x <= N => Like(x)}
<1>3. 0 \in T
  <2>1. P(0) = <<>> /\ <<>> \in Seq(Entries) /\ Len(<<>>) = 0
    BY FirstEntries
  <2>2. Ascending(<<>>)
    BY DEF Ascending
  <2>. QED BY <1>1, <2>1, <2>2
<1>4. ASSUME NEW x \in Nat, x \in T PROVE x + 1 \in T
  <2>. SUFFICES ASSUME x + 1 <= N PROVE Like(x + 1)
    OBVIOUS
  <2>1. x + 1 \in 1 .. Len(q) /\ (x + 1) - 1 = x /\ x \in 0 .. Len(q) /\ x <= N
    BY <1>2
  <2>2. Like(x)
    BY <1>4, <2>1
  <2>3. PICK e \in Entries : e = q[x + 1]
    BY <2>1, FirstEntries
  <2>4. /\ P(x) \in Seq(Entries) /\ P(x + 1) = Append(P(x), e)
        /\ Distinct(q) => e.DocNum \notin Numbers(P(x))
    BY <2>1, <2>3, FirstEntries
  <2>. PICK a \in Seq(Entries), b \in Seq(Entries) : a = g[x] /\ b = P(x)
    BY <2>2, <2>4
  <2>. PICK c : c = g[x + 1]
    OBVIOUS
  <2>5. c = Insert(a, e) /\ P(x + 1) = Append(b, e)
    BY <1>1, <2>1, <2>3, <2>4
  <2>6. /\ Numbers(a) = Numbers(b) /\ \A d : SumIn(a, d) = SumIn(b, d)
        /\ Len(a) = x /\ (Distinct(q) => Ascending(a) /\ e.DocNum \notin Numbers(a))
    BY <2>2, <2>4
  <2>7. /\ c \in Seq(Entries) /\ Numbers(c) = Numbers(a) \cup {e.DocNum}
        /\ \A d : SumIn(c, d) = SumIn(a, d) + Part(e, d)
        /\ Len(c) = x + 1 /\ (Distinct(q) => Ascending(c))
    BY ONLY <2>5, <2>6, e \in Entries, a \in Seq(Entries), InsertRight
  <2>8. /\ Numbers(P(x + 1)) = Numbers(b) \cup {e.DocNum}
        /\ \A d : SumIn(P(x + 1), d) = SumIn(b, d) + Part(e, d)
    <3>1. /\ Numbers(Append(b, e)) = Numbers(b) \cup {e.DocNum}
          /\ \A d : SumIn(Append(b, e), d) = SumIn(b, d) + Part(e, d)
      BY ONLY e \in Entries, b \in Seq(Entries), AppendRight
    <3>2. PICK u : u = P(x + 1)
      OBVIOUS
    <3>3. u = Append(b, e)
      BY ONLY <2>5, <3>2
    <3>4. Numbers(u) = Numbers(b) \cup {e.DocNum} /\ \A d : SumIn(u, d) = SumIn(b, d) + Part(e, d)
      BY ONLY <3>1, <3>3
    <3>. QED BY ONLY <3>2, <3>4
  <2>9. \A d : SumIn(c, d) = SumIn(P(x + 1), d)
    BY ONLY <2>6, <2>7, <2>8
  <2>10. Numbers(c) = Numbers(P(x + 1))
    BY ONLY <2>6, <2>7, <2>8
  <2>. HIDE DEF P
  <2>. QED BY <2>7, <2>9, <2>10
<1>5. Nat \subseteq T
  <2>. HIDE DEF T
  <2>. QED BY <1>3, <1>4, SetInduction
<1>6. Like(N)
  BY <1>5
<1>7. P(N) = q
  BY <1>2, FirstEntries
<1>. HIDE DEF P
<1>. QED BY <1>1, <1>2, <1>6, <1>7

LEMMA PackedIs ==
  ASSUME acc \in Seq(Entries)
  PROVE  \E g : /\ LT_sort_pack = g[Len(acc)] /\ g[0] = <<>>
                /\ \A x \in 1 .. Len(acc) : g[x] = AddTo(g[x - 1], acc[x])
<1>. DEFINE N == Len(acc)
            Q(g) == g = [x \in 0 .. N |-> IF x = 0 THEN <<>> ELSE AddTo(g[x - 1], acc[x])]
            D == [a \in Seq(Entries) \X (1 .. N) |-> AddTo(a[1], acc[a[2]])]
<1>1. N \in Nat /\ \A x \in 1 .. N : acc[x] \in Entries
  OBVIOUS
<1>2. LT_sort_pack = (CHOOSE g : Q(g))[N]
  BY DEF LT_sort_pack
<1>. HIDE DEF N
<1>3. D \in [Seq(Entries) \X (1 .. N) -> Seq(Entries)]
  BY <1>1, AddToRight
<1>4. PICK g \in [0 .. N -> Seq(Entries)] : RecursUpTo(g, N, <<>>, D)
  <2>1. <<>> \in Seq(Entries)
    OBVIOUS
  <2>. HIDE DEF D
  <2>. QED BY <1>1, <1>3, <2>1, RecursionUpTo, Zenon
<1>5. Q(g)
  <2>1. ASSUME NEW x \in 0 .. N PROVE g[x] = IF x = 0 THEN <<>> ELSE AddTo(g[x - 1], acc[x])
    <3>1. CASE x = 0
      BY <1>4, <3>1 DEF RecursUpTo
    <3>2. CASE x # 0
      <4>1. x - 1 \in 0 .. N /\ x \in 1 .. N /\ <<g[x - 1], x>> \in Seq(Entries) \X (1 .. N)
        BY <1>1, <3>2
      <4>2. D[<<g[x - 1], x>>] = AddTo(g[x - 1], acc[x])
        BY <4>1
      <4>3. g[x] = D[<<g[x - 1], x>>]
        <5>. HIDE DEF D
        <5>. QED BY <1>4, <3>2 DEF RecursUpTo
      <4>. QED BY <3>2, <4>2, <4>3
    <3>. QED BY <3>1, <3>2
  <2>. QED BY <2>1
<1>6. PICK h : h = CHOOSE f : Q(f)
  OBVIOUS
<1>7. Q(h)
  <2>. HIDE DEF Q
  <2>. QED BY <1>5, <1>6
<1>8. h[0] = <<>> /\ \A x \in 1 .. N : h[x] = AddTo(h[x - 1], acc[x])
  BY <1>1, <1>7
<1>. HIDE DEF Q
<1>. QED BY <1>2, <1>6, <1>8 DEF N

LEMMA PackedRight ==
  ASSUME acc \in Seq(Entries)
  PROVE  /\ LT_sort_pack \in Seq(Entries)
         /\ Numbers(LT_sort_pack) = Numbers(acc)
         /\ \A d : SumIn(LT_sort_pack, d) = SumIn(acc, d)
         /\ Ascending(LT_sort_pack)
<1>0. PICK q \in Seq(Entries) : q = acc
  OBVIOUS
<1>1. PICK g : /\ LT_sort_pack = g[Len(q)] /\ g[0] = <<>>
               /\ \A x \in 1 .. Len(q) : g[x] = AddTo(g[x - 1], q[x])
  BY <1>0, PackedIs
<1>2. PICK N \in Nat : N = Len(q)
  OBVIOUS
<1>. DEFINE P(x) == SubSeq(q, 1, x)
            Like(x) == /\ g[x] \in Seq(Entries)
                       /\ Numbers(g[x]) = Numbers(P(x))
                       /\ \A d : SumIn(g[x], d) = SumIn(P(x), d)
                       /\ Ascending(g[x])
            T == {x \in Nat : x <= N => Like(x)}
<1>3. 0 \in T
  <2>1. P(0) = <<>> /\ <<>> \in Seq(Entries)
    BY FirstEntries
  <2>2. Ascending(<<>>)
    BY DEF Ascending
  <2>. QED BY <1>1, <2>1, <2>2
<1>4. ASSUME NEW x \in Nat, x \in T PROVE x + 1 \in T
  <2>. SUFFICES ASSUME x + 1 <= N PROVE Like(x + 1)
    OBVIOUS
  <2>1. x + 1 \in 1 .. Len(q) /\ (x + 1) - 1 = x /\ x \in 0 .. Len(q) /\ x <= N
    BY <1>2
  <2>2. Like(x)
    BY <1>4, <2>1
  <2>3. PICK e \in Entries : e = q[x + 1]
    BY <2>1, FirstEntries
  <2>4. P(x) \in Seq(Entries) /\ P(x + 1) = Append(P(x), e)
    BY <2>1, <2>3, FirstEntries
  <2>. PICK a \in Seq(Entries), b \in Seq(Entries) : a = g[x] /\ b = P(x)
    BY <2>2, <2>4
  <2>. PICK c : c = g[x + 1]
    OBVIOUS
  <2>5. c = AddTo(a, e) /\ P(x + 1) = Append(b, e)
    BY <1>1, <2>1, <2>3, <2>4
  <2>6. /\ Numbers(a) = Numbers(b) /\ \A d : SumIn(a, d) = SumIn(b, d)
        /\ Ascending(a)
    BY <2>2, <2>4
  <2>7. /\ c \in Seq(Entries) /\ Numbers(c) = Numbers(a) \cup {e.DocNum}
        /\ \A d : SumIn(c, d) = SumIn(a, d) + Part(e, d)
        /\ Ascending(c)
    BY ONLY <2>5, <2>6, e \in Entries, a \in Seq(Entries), AddToRight
  <2>8. /\ Numbers(P(x + 1)) = Numbers(b) \cup {e.DocNum}
        /\ \A d : SumIn(P(x + 1), d) = SumIn(b, d) + Part(e, d)
    <3>1. /\ Numbers(Append(b, e)) = Numbers(b) \cup {e.DocNum}
          /\ \A d : SumIn(Append(b, e), d) = SumIn(b, d) + Part(e, d)
      BY ONLY e \in Entries, b \in Seq(Entries), AppendRight
    <3>2. PICK u : u = P(x + 1)
      OBVIOUS
    <3>3. u = Append(b, e)
      BY ONLY <2>5, <3>2
    <3>4. Numbers(u) = Numbers(b) \cup {e.DocNum} /\ \A d : SumIn(u, d) = SumIn(b, d) + Part(e, d)
      BY ONLY <3>1, <3>3
    <3>. QED BY ONLY <3>2, <3>4
  <2>9. \A d : SumIn(c, d) = SumIn(P(x + 1), d)
    BY ONLY <2>6, <2>7, <2>8
  <2>10. Numbers(c) = Numbers(P(x + 1))
    BY ONLY <2>6, <2>7, <2>8
  <2>. HIDE DEF P
  <2>. QED BY <2>7, <2>9, <2>10
<1>5. Nat \subseteq T
  <2>. HIDE DEF T
  <2>. QED BY <1>3, <1>4, SetInduction
<1>6. Like(N)
  BY <1>5
<1>7. P(N) = q
  BY <1>2, FirstEntries
<1>. HIDE DEF P
<1>. QED BY <1>0, <1>1, <1>2, <1>6, <1>7

\* Two tables one behind the other.
LEMMA JoinedRight ==
  ASSUME NEW q \in Seq(Entries), NEW r \in Seq(Entries)
  PROVE  /\ q \o r \in Seq(Entries) /\ Len(q \o r) = Len(q) + Len(r)
         /\ Numbers(q \o r) = Numbers(q) \cup Numbers(r)
         /\ \A d : SumIn(q \o r, d) = SumIn(q, d) + SumIn(r, d)
         /\ Distinct(q) /\ Distinct(r) /\ Numbers(q) \cap Numbers(r) = {} => Distinct(q \o r)
<1>1. PICK M \in Nat, N \in Nat : M = Len(q) /\ N = Len(r) /\ DOMAIN q = 1 .. M /\ DOMAIN r = 1 .. N
  OBVIOUS
<1>2. PICK s \in Seq(Entries) : s = q \o r /\ Len(s) = M + N /\ DOMAIN s = 1 .. M + N
  <2>1. q \o r \in Seq(Entries) /\ Len(q \o r) = M + N
    BY <1>1, ConcatProperties
  <2>2. DOMAIN (q \o r) = 1 .. Len(q \o r)
    BY <2>1
  <2>. QED BY <2>1, <2>2
<1>3. /\ \A x \in 1 .. M : x \in 1 .. M + N /\ s[x] = q[x]
      /\ \A x \in 1 .. N : M + x \in 1 .. M + N /\ s[M + x] = r[x]
      /\ \A x \in 1 .. M + N : x \in 1 .. M \/ (x - M \in 1 .. N /\ M + (x - M) = x)
  <2>1. \A x \in 1 .. M + N : s[x] = IF x <= M THEN q[x] ELSE r[x - M]
    BY <1>1, <1>2, ConcatProperties
  <2>2. \A x \in 1 .. M : x \in 1 .. M + N /\ x <= M
    OBVIOUS
  <2>3. \A x \in 1 .. N : M + x \in 1 .. M + N /\ ~(M + x <= M) /\ (M + x) - M = x
    OBVIOUS
  <2>4. \A x \in 1 .. M + N : x \in 1 .. M \/ (x - M \in 1 .. N /\ M + (x - M) = x)
    OBVIOUS
  <2>5. \A x \in 1 .. M : s[x] = q[x]
    BY <2>1, <2>2
  <2>6. \A x \in 1 .. N : s[M + x] = r[x]
    <3>. TAKE x \in 1 .. N
    <3>1. s[M + x] = r[(M + x) - M]
      BY <2>1, <2>3
    <3>. QED BY <2>3, <3>1
  <2>. QED BY <2>2, <2>3, <2>4, <2>5, <2>6
<1>4. Numbers(s) = Numbers(q) \cup Numbers(r)
  <2>1. ASSUME NEW v \in Numbers(s) PROVE v \in Numbers(q) \cup Numbers(r)
    <3>1. PICK x \in 1 .. M + N : v = s[x].DocNum
      BY <1>2 DEF Numbers
    <3>2. CASE x \in 1 .. M
      BY <1>1, <1>3, <3>1, <3>2 DEF Numbers
    <3>3. CASE x - M \in 1 .. N /\ M + (x - M) = x
      <4>1. s[x] = r[x - M]
        <5>1. s[M + (x - M)] = r[x - M]
          BY <1>3, <3>3
        <5>. QED BY <3>3, <5>1
      <4>. QED BY <1>1, <3>1, <3>3, <4>1 DEF Numbers
    <3>. QED BY <1>3, <3>2, <3>3
  <2>2. ASSUME NEW v \in Numbers(q) PROVE v \in Numbers(s)
    BY <1>1, <1>2, <1>3 DEF Numbers
  <2>3. ASSUME NEW v \in Numbers(r) PROVE v \in Numbers(s)
    <3>1. PICK x \in 1 .. N : v = r[x].DocNum
      BY <1>1 DEF Numbers
    <3>2. M + x \in DOMAIN s /\ v = s[M + x].DocNum
      BY <1>2, <1>3, <3>1
    <3>. QED BY <3>2 DEF Numbers
  <2>. QED BY <2>1, <2>2, <2>3
<1>5. ASSUME NEW d PROVE SumIn(s, d) = SumIn(q, d) + SumIn(r, d)
  <2>1. PICK f : /\ SumIn(q, d) = Upto(f, M)
                 /\ \A x \in 1 .. M : f[x] = Part(q[x], d) /\ f[x] \in Int
    BY <1>1, AmountIs
  <2>2. PICK h : /\ SumIn(r, d) = Upto(h, N)
                 /\ \A x \in 1 .. N : h[x] = Part(r[x], d) /\ h[x] \in Int
    BY <1>1, AmountIs
  <2>3. PICK g : /\ SumIn(s, d) = Upto(g, M + N)
                 /\ \A x \in 1 .. M + N : g[x] = Part(s[x], d) /\ g[x] \in Int
    <3>1. \E g : /\ SumIn(s, d) = Upto(g, Len(s))
                 /\ \A x \in 1 .. Len(s) : g[x] = Part(s[x], d) /\ g[x] \in Int
      BY ONLY s \in Seq(Entries), AmountIs
    <3>. QED BY <1>2, <3>1
  <2>. DEFINE T == {m \in Nat : m <= N => Upto(g, M + m) = Upto(f, M) + Upto(h, m)}
  <2>4. Upto(f, M) \in Int /\ Upto(h, 0) = 0 /\ M + N \in Nat
    <3>1. \A x \in 1 .. M : f[x] \in Int
      BY <2>1
    <3>2. \A x \in 1 .. N : h[x] \in Int
      BY <2>2
    <3>3. Upto(f, M) \in Int
      <4>1. M \in 0 .. M
        OBVIOUS
      <4>. QED BY ONLY <3>1, <4>1, M \in Nat, UptoUnfolds
    <3>4. Upto(h, 0) = 0
      BY ONLY <3>2, N \in Nat, UptoUnfolds
    <3>. QED BY <3>3, <3>4
  <2>5. 0 \in T
    <3>1. \A x \in 1 .. M : f[x] \in Int /\ f[x] = g[x]
      BY <1>3, <2>1, <2>3
    <3>2. Upto(f, M) = Upto(g, M)
      BY <3>1, UptoAlike
    <3>3. M + 0 = M
      OBVIOUS
    <3>. QED BY <2>4, <3>2, <3>3
  <2>6. ASSUME NEW m \in Nat, m \in T PROVE m + 1 \in T
    <3>. SUFFICES ASSUME m + 1 <= N PROVE Upto(g, M + (m + 1)) = Upto(f, M) + Upto(h, m + 1)
      OBVIOUS
    <3>1. m \in 0 .. N - 1 /\ m \in 0 .. N /\ m + 1 \in 1 .. N /\ M + m \in 0 .. (M + N) - 1
          /\ M + (m + 1) = (M + m) + 1
      OBVIOUS
    <3>2. Upto(h, m + 1) = Upto(h, m) + h[m + 1] /\ Upto(h, m) \in Int
      BY <2>2, <3>1, UptoUnfolds
    <3>3. Upto(g, (M + m) + 1) = Upto(g, M + m) + g[(M + m) + 1]
      BY <2>3, <2>4, <3>1, UptoUnfolds
    <3>4. g[M + (m + 1)] = h[m + 1] /\ h[m + 1] \in Int
      BY <1>3, <2>2, <2>3, <3>1
    <3>5. Upto(g, M + m) = Upto(f, M) + Upto(h, m)
      BY <2>6, <3>1
    <3>. QED BY <2>4, <3>1, <3>2, <3>3, <3>4, <3>5
  <2>7. Nat \subseteq T
    <3>. HIDE DEF T
    <3>. QED BY <2>5, <2>6, SetInduction
  <2>8. N \in T
    BY <2>7
  <2>. QED BY <2>1, <2>2, <2>3, <2>8
<1>6. ASSUME Distinct(q), Distinct(r), Numbers(q) \cap Numbers(r) = {} PROVE Distinct(s)
  <2>. SUFFICES ASSUME NEW x \in 1 .. M + N, NEW y \in 1 .. M + N, s[x].DocNum = s[y].DocNum
                PROVE  x = y
    BY <1>2 DEF Distinct
  <2>1. \A z \in 1 .. M + N : z \in 1 .. M => s[z] = q[z] /\ s[z].DocNum \in Numbers(q)
    BY <1>1, <1>3 DEF Numbers
  <2>2. ASSUME NEW z \in 1 .. M + N, z \notin 1 .. M
        PROVE  z - M \in 1 .. N /\ s[z] = r[z - M] /\ s[z].DocNum \in Numbers(r)
    <3>1. z - M \in 1 .. N /\ M + (z - M) = z
      BY <1>3, <2>2
    <3>2. s[M + (z - M)] = r[z - M]
      BY <1>3, <3>1
    <3>. QED BY <1>1, <3>1, <3>2 DEF Numbers
  <2>3. CASE x \in 1 .. M /\ y \in 1 .. M
    BY <1>1, <1>6, <2>1, <2>3 DEF Distinct
  <2>4. CASE x \notin 1 .. M /\ y \notin 1 .. M
    <3>0. /\ x - M \in 1 .. N /\ s[x] = r[x - M]
          /\ y - M \in 1 .. N /\ s[y] = r[y - M]
      BY <2>2, <2>4
    <3>1. x - M = y - M
      BY <1>1, <1>6, <3>0 DEF Distinct
    <3>. QED BY <3>1
  <2>5. CASE x \in 1 .. M /\ y \notin 1 .. M
    BY <1>6, <2>1, <2>2, <2>5
  <2>6. CASE x \notin 1 .. M /\ y \in 1 .. M
    BY <1>6, <2>1, <2>2, <2>6
  <2>. QED BY <2>3, <2>4, <2>5, <2>6
<1>. QED BY <1>1, <1>2, <1>4, <1>5, <1>6

-----------------------------------------------------------------------------
\* A term and its list.

IsTerm(t) ==
  /\ Len(t.list) \in Nat \ {0} /\ DOMAIN t.list = 1 .. Len(t.list)
  /\ t.k \in Nat /\ t.freq \in Nat
  /\ \A m \in 1 .. Len(t.list) :
       t.list[m].doc \in 1 .. NumDocs /\ t.list[m].count \in Nat /\ Doc(t, m) = t.list[m].doc
  /\ \A m \in 0 .. Len(t.list) : Doc(t, m) \in Nat
  /\ \A m, y \in 0 .. Len(t.list) : m < y => Doc(t, m) < Doc(t, y)

LEMMA TermFacts ==
  ASSUME NEW q \in Queries, NEW x \in DOMAIN q PROVE IsTerm(q[x])
<1>. DEFINE P == [doc : 1 .. NumDocs, count : Nat \ {0}]
            E == [list : Seq(P), k : Nat, freq : Nat]
<1>1. q \in Seq(E) /\ q[x].list # <<>>
      /\ \A y, z \in DOMAIN q[x].list : y < z => q[x].list[y].doc < q[x].list[z].doc
      /\ NumDocs \in Nat \ {0}
  BY RankedConstants
<1>2. q[x] \in E
  <2>. HIDE DEF E
  <2>. QED BY <1>1
<1>. PICK t : t = q[x]
  OBVIOUS
<1>3. t.list \in Seq(P) /\ t.k \in Nat /\ t.freq \in Nat
  <2>. HIDE DEF P
  <2>. QED BY <1>2
<1>4. Len(t.list) \in Nat \ {0} /\ DOMAIN t.list = 1 .. Len(t.list)
      /\ \A m \in 1 .. Len(t.list) : t.list[m] \in P
  <2>. HIDE DEF P
  <2>. QED BY <1>1, <1>3
<1>5. \A m \in 1 .. Len(t.list) :
        t.list[m].doc \in 1 .. NumDocs /\ t.list[m].count \in Nat /\ Doc(t, m) = t.list[m].doc
  BY <1>4 DEF Doc
<1>6. \A m \in 0 .. Len(t.list) : Doc(t, m) \in Nat /\ (m # 0 => Doc(t, m) > 0)
  <2>. TAKE m \in 0 .. Len(t.list)
  <2>1. CASE m = 0
    BY <2>1 DEF Doc
  <2>2. CASE m # 0
    <3>1. m \in 1 .. Len(t.list)
      BY <1>4, <2>2
    <3>2. Doc(t, m) = t.list[m].doc /\ t.list[m].doc \in 1 .. NumDocs
      BY <1>5, <3>1
    <3>3. \A a \in 1 .. NumDocs : a \in Nat /\ a > 0
      BY <1>1
    <3>. QED BY <3>2, <3>3
  <2>. QED BY <2>1, <2>2
<1>7. ASSUME NEW m \in 0 .. Len(t.list), NEW y \in 0 .. Len(t.list), m < y
      PROVE  Doc(t, m) < Doc(t, y)
  <2>1. y # 0 /\ y \in 1 .. Len(t.list)
    BY <1>4, <1>7
  <2>2. CASE m = 0
    BY <1>6, <2>1, <2>2 DEF Doc
  <2>3. CASE m # 0
    <3>1. m \in 1 .. Len(t.list)
      BY <1>4, <2>3
    <3>2. t.list[m].doc < t.list[y].doc
      BY <1>1, <1>4, <1>7, <2>1, <3>1
    <3>3. Doc(t, m) = t.list[m].doc /\ Doc(t, y) = t.list[y].doc
      BY <1>5, <2>1, <3>1
    <3>. QED BY <3>2, <3>3
  <2>. QED BY <2>2, <2>3
<1>. QED BY <1>3, <1>4, <1>5, <1>6, <1>7 DEF IsTerm

-----------------------------------------------------------------------------
(***************************************************************************)
(* The layout of the codes of a list at level v: posting m, counted from   *)
(* 0, has its header, its gap and its count, of which the first two may be *)
(* left out.                                                               *)
(***************************************************************************)

WithHead(t, m) == t.k > 0 /\ m % t.k = 0 /\ m + t.k < Len(t.list)
NoGap(t, m) == t.k > 0 /\ m % t.k = t.k - 1 /\ m # Len(t.list) - 1
HeadCodes(t, m) == IF WithHead(t, m) THEN 2 ELSE 0
GapCodes(t, m) == IF NoGap(t, m) THEN 0 ELSE 1
CountCodes(v, m) == IF v >= 2 THEN m ELSE 0
Wide(t, v, m) == HeadCodes(t, m) + GapCodes(t, m) + CountCodes(v, 1)

\* The codes before posting m.
Start(t, v, m) == Upto([x \in 1 .. Len(t.list) |-> Wide(t, v, x - 1)], m)

\* The codes of posting m stand in s where they should.
PieceIn(t, v, s, m) ==
  /\ WithHead(t, m) => /\ s[Start(t, v, m) + 1] = Doc(t, m + t.k) - Doc(t, m)
                       /\ s[Start(t, v, m) + 2] = (t.k - 1) + CountCodes(v, t.k)
  /\ ~NoGap(t, m) => s[Start(t, v, m) + HeadCodes(t, m) + 1] = Doc(t, m + 1) - Doc(t, m)
  /\ v >= 2 => s[Start(t, v, m) + HeadCodes(t, m) + GapCodes(t, m) + 1] = t.list[m + 1].count

LaidOut(t, v, s) == \A m \in 0 .. Len(t.list) - 1 : PieceIn(t, v, s, m)

LEMMA StartFacts ==
  ASSUME NEW t, IsTerm(t), NEW v
  PROVE  /\ Start(t, v, 0) = 0
         /\ \A m \in 0 .. Len(t.list) : Start(t, v, m) \in Nat
         /\ \A m \in 0 .. Len(t.list) - 1 :
              /\ Start(t, v, m + 1) = Start(t, v, m) + HeadCodes(t, m) + GapCodes(t, m) + CountCodes(v, 1)
              /\ HeadCodes(t, m) \in 0 .. 2 /\ GapCodes(t, m) \in 0 .. 1 /\ CountCodes(v, 1) \in 0 .. 1
<1>. DEFINE N == Len(t.list)
            f == [x \in 1 .. N |-> Wide(t, v, x - 1)]
<1>1. N \in Nat
  BY DEF IsTerm
<1>2. \A m : HeadCodes(t, m) \in 0 .. 2 /\ GapCodes(t, m) \in 0 .. 1 /\ CountCodes(v, 1) \in 0 .. 1
             /\ Wide(t, v, m) \in Nat
             /\ Wide(t, v, m) = HeadCodes(t, m) + GapCodes(t, m) + CountCodes(v, 1)
  BY DEF HeadCodes, GapCodes, CountCodes, Wide
<1>3. \A m : Start(t, v, m) = Upto(f, m)
  BY DEF Start
<1>4. \A x \in 1 .. N : f[x] = Wide(t, v, x - 1) /\ f[x] \in Int
  BY <1>2
<1>. HIDE DEF f, N
<1>5. /\ Upto(f, 0) = 0
      /\ \A m \in 0 .. N : Upto(f, m) \in Int
      /\ \A m \in 0 .. N - 1 : Upto(f, m + 1) = Upto(f, m) + f[m + 1]
  BY <1>1, <1>4, UptoUnfolds
<1>6. \A m \in 0 .. N - 1 : f[m + 1] = Wide(t, v, m)
  <2>1. \A m \in 0 .. N - 1 : m + 1 \in 1 .. N /\ (m + 1) - 1 = m
    BY <1>1
  <2>. QED BY <1>4, <2>1
<1>7. \A m \in 0 .. N : Upto(f, m) \in Nat
  <2>. DEFINE T == {m \in Nat : m <= N => Upto(f, m) \in Nat}
  <2>1. 0 \in T
    BY <1>5
  <2>2. ASSUME NEW m \in Nat, m \in T PROVE m + 1 \in T
    <3>. SUFFICES ASSUME m + 1 <= N PROVE Upto(f, m + 1) \in Nat
      OBVIOUS
    <3>1. m \in 0 .. N - 1
      BY <1>1
    <3>2. Upto(f, m) \in Nat
      BY <1>1, <2>2
    <3>3. Wide(t, v, m) \in Nat
      BY <1>2
    <3>. QED BY <1>5, <1>6, <3>1, <3>2, <3>3
  <2>3. Nat \subseteq T
    <3>. HIDE DEF T
    <3>. QED BY <2>1, <2>2, SetInduction
  <2>. QED BY <1>1, <2>3
<1>8. ASSUME NEW m \in 0 .. N - 1
      PROVE  Start(t, v, m + 1) = Start(t, v, m) + HeadCodes(t, m) + GapCodes(t, m) + CountCodes(v, 1)
  <2>1. PICK a \in Nat : a = Upto(f, m)
    <3>1. m \in 0 .. N
      BY <1>1
    <3>. QED BY <1>7, <3>1
  <2>2. Upto(f, m + 1) = a + Wide(t, v, m)
    BY <1>5, <1>6, <2>1
  <2>3. PICK b \in 0 .. 2, c \in 0 .. 1, e \in 0 .. 1 :
           b = HeadCodes(t, m) /\ c = GapCodes(t, m) /\ e = CountCodes(v, 1)
    BY <1>2
  <2>4. Wide(t, v, m) = b + c + e
    BY <1>2, <2>3
  <2>. QED BY <1>3, <2>1, <2>2, <2>3, <2>4
<1>. QED BY <1>2, <1>3, <1>5, <1>7, <1>8 DEF N

\* The codes without the last gap of a block are what its header says.
LEMMA BlockIsSkipped ==
  ASSUME NEW t, IsTerm(t), NEW v, NEW m \in Nat, WithHead(t, m)
  PROVE  Start(t, v, m + t.k) = Start(t, v, m) + 2 + ((t.k - 1) + CountCodes(v, t.k))
<1>0. t.k \in Nat \ {0} /\ Len(t.list) \in Nat
  BY DEF IsTerm, WithHead
<1>. PICK z \in Nat \ {0} : z = t.k
  BY <1>0
<1>. PICK N \in Nat : N = Len(t.list)
  BY <1>0
<1>1. m % z = 0 /\ m + z < N /\ m \in 0 .. N
  BY DEF WithHead
<1>2. PICK o \in Nat : o = Start(t, v, m)
  BY <1>1, StartFacts
<1>. DEFINE Most(x) == IF x < z THEN x ELSE z - 1
            T == {x \in Nat : x + 1 <= z =>
                    Start(t, v, m + (x + 1)) = o + 2 + Most(x + 1) + CountCodes(v, x + 1)}
<1>3. ASSUME NEW x \in 0 .. z - 1
      PROVE  Start(t, v, m + (x + 1)) =
               Start(t, v, m + x) + (IF x = 0 THEN 2 ELSE 0) + (IF x = z - 1 THEN 0 ELSE 1)
                 + CountCodes(v, 1)
  <2>0. (m + x) % z = x
    <3>1. m % z = 0
      BY <1>1
    <3>. QED BY ONLY <3>1, m \in Nat, z \in Nat \ {0}, x \in 0 .. z - 1, InBlock
  <2>1. (m + x) % z = x /\ m + x \in 0 .. N - 1 /\ m + x # N - 1 /\ (m + x) + 1 = m + (x + 1)
    BY <1>1, <2>0
  <2>2. HeadCodes(t, m + x) = IF x = 0 THEN 2 ELSE 0
    BY <1>1, <2>1 DEF HeadCodes, WithHead
  <2>3. GapCodes(t, m + x) = IF x = z - 1 THEN 0 ELSE 1
    BY <2>1 DEF GapCodes, NoGap
  <2>4. Start(t, v, (m + x) + 1) = Start(t, v, m + x) + HeadCodes(t, m + x) + GapCodes(t, m + x)
                                     + CountCodes(v, 1)
    BY <2>1, StartFacts
  <2>. QED BY <2>1, <2>2, <2>3, <2>4
<1>4. 0 \in T
  <2>1. Start(t, v, m + (0 + 1)) = Start(t, v, m + 0) + 2 + (IF 0 = z - 1 THEN 0 ELSE 1) + CountCodes(v, 1)
    BY <1>3
  <2>2. m + 0 = m /\ 0 + 1 = 1
    OBVIOUS
  <2>3. (IF 0 = z - 1 THEN 0 ELSE 1) = Most(1)
    OBVIOUS
  <2>. QED BY <1>2, <2>1, <2>2, <2>3
<1>5. ASSUME NEW x \in Nat, x \in T PROVE x + 1 \in T
  <2>. SUFFICES ASSUME (x + 1) + 1 <= z
                PROVE  Start(t, v, m + ((x + 1) + 1)) = o + 2 + Most((x + 1) + 1) + CountCodes(v, (x + 1) + 1)
    OBVIOUS
  <2>1. x + 1 \in 0 .. z - 1 /\ x + 1 # 0
    OBVIOUS
  <2>2. Start(t, v, m + (x + 1)) = o + 2 + (x + 1) + CountCodes(v, x + 1)
    BY <1>5, <2>1
  <2>3. Start(t, v, m + ((x + 1) + 1)) =
          Start(t, v, m + (x + 1)) + 0 + (IF x + 1 = z - 1 THEN 0 ELSE 1) + CountCodes(v, 1)
    BY <1>3, <2>1
  <2>4. CountCodes(v, (x + 1) + 1) = CountCodes(v, x + 1) + CountCodes(v, 1)
        /\ CountCodes(v, x + 1) \in Nat /\ CountCodes(v, 1) \in Nat
    BY DEF CountCodes
  <2>5. Most((x + 1) + 1) = (x + 1) + (IF x + 1 = z - 1 THEN 0 ELSE 1)
    BY <2>1
  <2>. HIDE DEF Most
  <2>6. PICK a \in Nat, b \in Nat : a = CountCodes(v, x + 1) /\ b = CountCodes(v, 1)
    BY <2>4
  <2>7. Start(t, v, m + ((x + 1) + 1)) = (o + 2 + (x + 1) + a) + (IF x + 1 = z - 1 THEN 0 ELSE 1) + b
    BY <2>2, <2>3, <2>6
  <2>8. Start(t, v, m + ((x + 1) + 1)) = o + 2 + ((x + 1) + (IF x + 1 = z - 1 THEN 0 ELSE 1)) + (a + b)
    BY <2>7
  <2>9. CountCodes(v, (x + 1) + 1) = a + b
    BY <2>4, <2>6
  <2>. QED BY <2>5, <2>8, <2>9
<1>6. Nat \subseteq T
  <2>. HIDE DEF T
  <2>. QED BY <1>4, <1>5, SetInduction
<1>7. z - 1 \in Nat /\ (z - 1) + 1 = z
  OBVIOUS
<1>8. Start(t, v, m + z) = o + 2 + Most(z) + CountCodes(v, z)
  BY <1>6, <1>7
<1>9. CountCodes(v, z) \in Nat
  BY DEF CountCodes
<1>. QED BY <1>2, <1>8, <1>9

-----------------------------------------------------------------------------
\* What mg_invf_rebuild writes.

LEMMA ShortOnes ==
  /\ <<>> \in Seq(Int) /\ Len(<<>>) = 0
  /\ \A a \in Int : <<a>> \in Seq(Int) /\ Len(<<a>>) = 1 /\ <<a>>[1] = a
  /\ \A a \in Int, b \in Int :
       <<a, b>> \in Seq(Int) /\ Len(<<a, b>>) = 2 /\ <<a, b>>[1] = a /\ <<a, b>>[2] = b
OBVIOUS

LEMMA JoinedIs ==
  ASSUME NEW s \in Seq(Int), NEW h \in Seq(Int), NEW g \in Seq(Int), NEW c \in Seq(Int),
         NEW u, u = s \o h \o g \o c
  PROVE  /\ u \in Seq(Int) /\ Len(u) = Len(s) + Len(h) + Len(g) + Len(c)
         /\ \A y \in 1 .. Len(s) : u[y] = s[y]
         /\ \A y \in 1 .. Len(h) : u[Len(s) + y] = h[y]
         /\ \A y \in 1 .. Len(g) : u[Len(s) + Len(h) + y] = g[y]
         /\ \A y \in 1 .. Len(c) : u[Len(s) + Len(h) + Len(g) + y] = c[y]
<1>1. Len(s) \in Nat /\ Len(h) \in Nat /\ Len(g) \in Nat /\ Len(c) \in Nat
  OBVIOUS
<1>2. ASSUME NEW a \in Seq(Int), NEW b \in Seq(Int), NEW d, d = a \o b
      PROVE  /\ d \in Seq(Int) /\ Len(d) = Len(a) + Len(b)
             /\ \A y \in 1 .. Len(a) : d[y] = a[y]
             /\ \A y \in 1 .. Len(b) : d[Len(a) + y] = b[y]
  <2>1. /\ d \in Seq(Int) /\ Len(d) = Len(a) + Len(b)
        /\ \A y \in 1 .. Len(a) + Len(b) : d[y] = IF y <= Len(a) THEN a[y] ELSE b[y - Len(a)]
    BY ONLY <1>2, ConcatProperties
  <2>2. Len(a) \in Nat /\ Len(b) \in Nat
    OBVIOUS
  <2>3. \A y \in 1 .. Len(a) : y \in 1 .. Len(a) + Len(b) /\ y <= Len(a)
    BY ONLY <2>2
  <2>4. \A y \in 1 .. Len(b) : /\ Len(a) + y \in 1 .. Len(a) + Len(b)
                               /\ ~(Len(a) + y <= Len(a)) /\ (Len(a) + y) - Len(a) = y
    BY ONLY <2>2
  <2>. QED BY ONLY <2>1, <2>3, <2>4
<1>0. \A a \in Seq(Int), b \in Seq(Int) : \E d \in Seq(Int) : d = a \o b
  BY ONLY ConcatProperties
<1>3. PICK a \in Seq(Int) : a = s \o h
  BY ONLY <1>0, s \in Seq(Int), h \in Seq(Int)
<1>4. PICK b \in Seq(Int) : b = a \o g
  BY ONLY <1>0, a \in Seq(Int), g \in Seq(Int)
<1>5. u = b \o c
  BY <1>3, <1>4
<1>6. /\ Len(a) = Len(s) + Len(h)
      /\ \A y \in 1 .. Len(s) : a[y] = s[y]
      /\ \A y \in 1 .. Len(h) : a[Len(s) + y] = h[y]
  BY ONLY <1>2, <1>3, s \in Seq(Int), h \in Seq(Int)
<1>7. /\ Len(b) = Len(a) + Len(g)
      /\ \A y \in 1 .. Len(a) : b[y] = a[y]
      /\ \A y \in 1 .. Len(g) : b[Len(a) + y] = g[y]
  BY ONLY <1>2, <1>4, a \in Seq(Int), g \in Seq(Int)
<1>8. /\ u \in Seq(Int) /\ Len(u) = Len(b) + Len(c)
      /\ \A y \in 1 .. Len(b) : u[y] = b[y]
      /\ \A y \in 1 .. Len(c) : u[Len(b) + y] = c[y]
  BY ONLY <1>2, <1>5, b \in Seq(Int), c \in Seq(Int)
<1>14. PICK ls \in Nat, lh \in Nat, lg \in Nat :
         ls = Len(s) /\ lh = Len(h) /\ lg = Len(g) /\ Len(a) = ls + lh /\ Len(b) = ls + lh + lg
  <2>1. Len(a) = Len(s) + Len(h) /\ Len(b) = Len(a) + Len(g)
    BY <1>6, <1>7
  <2>. QED BY ONLY <1>1, <2>1
<1>15. /\ \A y \in 1 .. ls : y \in 1 .. ls + lh /\ y \in 1 .. ls + lh + lg
       /\ \A y \in 1 .. lh : ls + y \in 1 .. ls + lh /\ ls + y \in 1 .. ls + lh + lg
       /\ \A y \in 1 .. lg : (ls + lh) + y \in 1 .. ls + lh + lg
  BY ONLY ls \in Nat, lh \in Nat, lg \in Nat
<1>9. ASSUME NEW y \in 1 .. Len(s) PROVE u[y] = s[y]
  <2>1. y \in 1 .. Len(a) /\ y \in 1 .. Len(b)
    BY ONLY <1>14, <1>15, y \in 1 .. Len(s)
  <2>. QED BY <1>6, <1>7, <1>8, <2>1
<1>10. ASSUME NEW y \in 1 .. Len(h) PROVE u[Len(s) + y] = h[y]
  <2>1. Len(s) + y \in 1 .. Len(a) /\ Len(s) + y \in 1 .. Len(b)
    BY ONLY <1>14, <1>15, y \in 1 .. Len(h)
  <2>. QED BY <1>6, <1>7, <1>8, <2>1
<1>11. ASSUME NEW y \in 1 .. Len(g) PROVE u[Len(s) + Len(h) + y] = g[y]
  <2>1. Len(a) + y \in 1 .. Len(b)
    BY ONLY <1>14, <1>15, y \in 1 .. Len(g)
  <2>. QED BY <1>6, <1>7, <1>8, <2>1
<1>12. ASSUME NEW y \in 1 .. Len(c) PROVE u[Len(s) + Len(h) + Len(g) + y] = c[y]
  BY <1>6, <1>7, <1>8
<1>13. Len(u) = Len(s) + Len(h) + Len(g) + Len(c)
  BY ONLY <1>1, <1>6, <1>7, <1>8
<1>. QED BY <1>8, <1>9, <1>10, <1>11, <1>12, <1>13

CountOf(t, m) == IF HasCounts THEN <<t.list[m + 1].count>> ELSE <<>>

\* Posting m is put behind those before it.
Longer(t, m, s, u) ==
  /\ u \in Seq(Int) /\ \A y \in 1 .. Len(s) : u[y] = s[y]
  /\ Len(u) = Len(s) + HeadCodes(t, m) + GapCodes(t, m) + CountCodes(InvfLevel, 1)
  /\ Len(s) = Start(t, InvfLevel, m) => PieceIn(t, InvfLevel, u, m)

LEMMA PieceStands ==
  ASSUME NEW t, IsTerm(t), NEW m \in 0 .. Len(t.list) - 1, NEW s \in Seq(Int),
         NEW u, u = s \o Header(t, m) \o Gap(t, m) \o CountOf(t, m)
  PROVE  Longer(t, m, s, u)
<1>1. t.k \in Nat /\ Len(t.list) \in Nat /\ Doc(t, m) \in Nat /\ Doc(t, m + 1) \in Nat
      /\ t.list[m + 1].count \in Nat
      /\ (m + t.k < Len(t.list) => Doc(t, m + t.k) \in Nat)
  <2>1. t.k \in Nat /\ Len(t.list) \in Nat
    BY DEF IsTerm
  <2>2. m \in 0 .. Len(t.list) /\ m + 1 \in 0 .. Len(t.list) /\ m + 1 \in 1 .. Len(t.list)
        /\ (m + t.k < Len(t.list) => m + t.k \in 0 .. Len(t.list))
    BY <2>1
  <2>. QED BY <2>1, <2>2 DEF IsTerm
<1>2. PICK h \in Seq(Int) :
        /\ h = Header(t, m) /\ Len(h) = HeadCodes(t, m)
        /\ WithHead(t, m) => h[1] = Doc(t, m + t.k) - Doc(t, m) /\ h[2] = (t.k - 1) + CountCodes(InvfLevel, t.k)
  <2>1. CASE WithHead(t, m)
    <3>1. /\ Header(t, m) = <<Doc(t, m + t.k) - Doc(t, m), (t.k - 1) + CountCodes(InvfLevel, t.k)>>
          /\ HeadCodes(t, m) = 2
      BY <2>1 DEF Header, WithHead, HeadCodes, HasCounts, CountCodes
    <3>2. Doc(t, m + t.k) - Doc(t, m) \in Int /\ (t.k - 1) + CountCodes(InvfLevel, t.k) \in Int
      BY <1>1, <2>1, SMTT(30) DEF WithHead, CountCodes
    <3>3. Header(t, m) \in Seq(Int) /\ Len(Header(t, m)) = 2
          /\ Header(t, m)[1] = Doc(t, m + t.k) - Doc(t, m)
          /\ Header(t, m)[2] = (t.k - 1) + CountCodes(InvfLevel, t.k)
      BY ONLY <3>1, <3>2, ShortOnes
    <3>. QED BY ONLY <3>1, <3>3
  <2>2. CASE ~WithHead(t, m)
    <3>1. Header(t, m) = <<>> /\ HeadCodes(t, m) = 0
      BY <2>2 DEF Header, WithHead, HeadCodes
    <3>. QED BY ONLY <2>2, <3>1, ShortOnes
  <2>. QED BY <2>1, <2>2
<1>3. PICK g \in Seq(Int) :
        /\ g = Gap(t, m) /\ Len(g) = GapCodes(t, m)
        /\ ~NoGap(t, m) => g[1] = Doc(t, m + 1) - Doc(t, m)
  <2>1. CASE NoGap(t, m)
    <3>1. Gap(t, m) = <<>> /\ GapCodes(t, m) = 0
      BY <2>1 DEF Gap, NoGap, GapCodes
    <3>. QED BY ONLY <2>1, <3>1, ShortOnes
  <2>2. CASE ~NoGap(t, m)
    <3>1. Gap(t, m) = <<Doc(t, m + 1) - Doc(t, m)>> /\ GapCodes(t, m) = 1
      BY <2>2 DEF Gap, NoGap, GapCodes
    <3>2. Doc(t, m + 1) - Doc(t, m) \in Int
      BY <1>1
    <3>3. Gap(t, m) \in Seq(Int) /\ Len(Gap(t, m)) = 1 /\ Gap(t, m)[1] = Doc(t, m + 1) - Doc(t, m)
      BY ONLY <3>1, <3>2, ShortOnes
    <3>. QED BY ONLY <3>1, <3>3
  <2>. QED BY <2>1, <2>2
<1>4. PICK c \in Seq(Int) :
        /\ c = CountOf(t, m) /\ Len(c) = CountCodes(InvfLevel, 1)
        /\ InvfLevel >= 2 => c[1] = t.list[m + 1].count
  <2>1. CASE InvfLevel >= 2
    <3>1. CountOf(t, m) = <<t.list[m + 1].count>> /\ CountCodes(InvfLevel, 1) = 1
      BY <2>1 DEF CountOf, HasCounts, CountCodes
    <3>2. t.list[m + 1].count \in Int
      BY <1>1
    <3>3. /\ CountOf(t, m) \in Seq(Int) /\ Len(CountOf(t, m)) = 1
          /\ CountOf(t, m)[1] = t.list[m + 1].count
      BY ONLY <3>1, <3>2, ShortOnes
    <3>. QED BY ONLY <3>1, <3>3
  <2>2. CASE ~(InvfLevel >= 2)
    <3>1. CountOf(t, m) = <<>> /\ CountCodes(InvfLevel, 1) = 0
      BY <2>2 DEF CountOf, HasCounts, CountCodes
    <3>. QED BY ONLY <2>2, <3>1, ShortOnes
  <2>. QED BY <2>1, <2>2
<1>5. u = s \o h \o g \o c
  BY <1>2, <1>3, <1>4
<1>6. /\ u \in Seq(Int) /\ Len(u) = Len(s) + Len(h) + Len(g) + Len(c)
      /\ \A y \in 1 .. Len(s) : u[y] = s[y]
      /\ \A y \in 1 .. Len(h) : u[Len(s) + y] = h[y]
      /\ \A y \in 1 .. Len(g) : u[Len(s) + Len(h) + y] = g[y]
      /\ \A y \in 1 .. Len(c) : u[Len(s) + Len(h) + Len(g) + y] = c[y]
  BY ONLY <1>5, s \in Seq(Int), h \in Seq(Int), g \in Seq(Int), c \in Seq(Int), JoinedIs, SMTT(30)
<1>7. ASSUME Len(s) = Start(t, InvfLevel, m) PROVE PieceIn(t, InvfLevel, u, m)
  <2>1. WithHead(t, m) => /\ u[Len(s) + 1] = Doc(t, m + t.k) - Doc(t, m)
                          /\ u[Len(s) + 2] = (t.k - 1) + CountCodes(InvfLevel, t.k)
    <3>. HAVE WithHead(t, m)
    <3>1. 1 \in 1 .. Len(h) /\ 2 \in 1 .. Len(h)
      BY <1>2 DEF HeadCodes
    <3>. QED BY <1>2, <1>6, <3>1
  <2>2. ~NoGap(t, m) => u[Len(s) + HeadCodes(t, m) + 1] = Doc(t, m + 1) - Doc(t, m)
    <3>. HAVE ~NoGap(t, m)
    <3>1. 1 \in 1 .. Len(g)
      BY <1>3 DEF GapCodes
    <3>. QED BY <1>2, <1>3, <1>6, <3>1
  <2>3. InvfLevel >= 2 => u[Len(s) + HeadCodes(t, m) + GapCodes(t, m) + 1] = t.list[m + 1].count
    <3>. HAVE InvfLevel >= 2
    <3>1. 1 \in 1 .. Len(c)
      BY <1>4 DEF CountCodes
    <3>. QED BY <1>2, <1>3, <1>4, <1>6, <3>1
  <2>. QED BY <1>7, <2>1, <2>2, <2>3 DEF PieceIn
<1>. QED BY <1>2, <1>3, <1>4, <1>6, <1>7 DEF Longer

\* Codes that were right are right in anything that begins with them.
LEMMA PieceKept ==
  ASSUME NEW t, IsTerm(t), NEW v, NEW m \in 0 .. Len(t.list) - 1, NEW s, NEW u,
         NEW e \in Nat, Start(t, v, m + 1) <= e,
         \A y \in 1 .. e : u[y] = s[y],
         PieceIn(t, v, s, m)
  PROVE  PieceIn(t, v, u, m)
<1>1. PICK o \in Nat : o = Start(t, v, m)
  <2>1. m \in 0 .. Len(t.list)
    BY DEF IsTerm
  <2>. QED BY <2>1, StartFacts
<1>2. PICK b \in 0 .. 2, c \in 0 .. 1, d \in 0 .. 1 :
         b = HeadCodes(t, m) /\ c = GapCodes(t, m) /\ d = CountCodes(v, 1)
  BY StartFacts
<1>3. Start(t, v, m + 1) = o + b + c + d
  BY <1>1, <1>2, StartFacts
<1>4. WithHead(t, m) => b = 2
  BY <1>2 DEF HeadCodes
<1>5. ~NoGap(t, m) => c = 1
  BY <1>2 DEF GapCodes
<1>6. v >= 2 => d = 1
  BY <1>2 DEF CountCodes
<1>7. /\ WithHead(t, m) => o + 1 \in 1 .. e /\ o + 2 \in 1 .. e
      /\ ~NoGap(t, m) => o + b + 1 \in 1 .. e
      /\ v >= 2 => o + b + c + 1 \in 1 .. e
  BY <1>3, <1>4, <1>5, <1>6
<1>8. /\ WithHead(t, m) => u[o + 1] = s[o + 1] /\ u[o + 2] = s[o + 2]
      /\ ~NoGap(t, m) => u[o + b + 1] = s[o + b + 1]
      /\ v >= 2 => u[o + b + c + 1] = s[o + b + c + 1]
  BY <1>7
<1>. QED BY <1>1, <1>2, <1>8 DEF PieceIn

LEMMA CodesAre ==
  ASSUME NEW t, IsTerm(t)
  PROVE  \E g : /\ Codes(t) = g[Len(t.list)] /\ g[0] = <<>>
                /\ \A m \in 1 .. Len(t.list) :
                     g[m] = g[m - 1] \o Header(t, m - 1) \o Gap(t, m - 1) \o CountOf(t, m - 1)
<1>. DEFINE N == Len(t.list)
            F(s, m) == s \o Header(t, m - 1) \o Gap(t, m - 1) \o CountOf(t, m - 1)
            Q(g) == g = [m \in 0 .. N |-> IF m = 0 THEN <<>> ELSE F(g[m - 1], m)]
            D == [a \in Seq(Int) \X (1 .. N) |-> F(a[1], a[2])]
<1>1. N \in Nat
  BY DEF IsTerm
<1>2. Codes(t) = (CHOOSE g : Q(g))[N]
  <2>1. \A m \in 1 .. N : (m - 1) + 1 = m
    OBVIOUS
  <2>2. \A m \in 1 .. N : CountOf(t, m - 1) = IF HasCounts THEN <<t.list[m].count>> ELSE <<>>
    BY <2>1 DEF CountOf
  <2>3. \A g : Q(g) <=> g = [m \in 0 .. N |-> IF m = 0 THEN <<>>
                               ELSE g[m - 1] \o Header(t, m - 1) \o Gap(t, m - 1)
                                      \o (IF HasCounts THEN <<t.list[m].count>> ELSE <<>>)]
    <3>. TAKE g
    <3>. DEFINE X(m) == IF m = 0 THEN <<>> ELSE F(g[m - 1], m)
                Y(m) == IF m = 0 THEN <<>>
                        ELSE g[m - 1] \o Header(t, m - 1) \o Gap(t, m - 1)
                               \o (IF HasCounts THEN <<t.list[m].count>> ELSE <<>>)
    <3>1. \A m \in 0 .. N : X(m) = Y(m)
      <4>. TAKE m \in 0 .. N
      <4>1. m = 0 \/ m \in 1 .. N
        BY <1>1
      <4>. QED BY <2>2, <4>1
    <3>2. [m \in 0 .. N |-> X(m)] = [m \in 0 .. N |-> Y(m)]
      <4>. HIDE DEF X, Y
      <4>. QED BY <3>1
    <3>. QED BY <3>2
  <2>. DEFINE R(g) == g = [m \in 0 .. N |-> IF m = 0 THEN <<>>
                               ELSE g[m - 1] \o Header(t, m - 1) \o Gap(t, m - 1)
                                      \o (IF HasCounts THEN <<t.list[m].count>> ELSE <<>>)]
  <2>4. Codes(t) = (CHOOSE g : R(g))[N]
    BY DEF Codes
  <2>5. \A g : Q(g) <=> R(g)
    BY <2>3
  <2>. HIDE DEF Q, R
  <2>6. (CHOOSE g : Q(g)) = (CHOOSE g : R(g))
    BY <2>5
  <2>. QED BY <2>4, <2>6
<1>3. D \in [Seq(Int) \X (1 .. N) -> Seq(Int)]
  <2>1. ASSUME NEW s \in Seq(Int), NEW m \in 1 .. N PROVE F(s, m) \in Seq(Int)
    <3>1. m - 1 \in 0 .. N - 1
      BY <1>1
    <3>. QED BY <3>1, PieceStands DEF Longer
  <2>. HIDE DEF F
  <2>. QED BY <2>1
<1>. HIDE DEF N, F
<1>4. PICK g \in [0 .. N -> Seq(Int)] : RecursUpTo(g, N, <<>>, D)
  <2>1. <<>> \in Seq(Int)
    OBVIOUS
  <2>. HIDE DEF D
  <2>. QED BY <1>1, <1>3, <2>1, RecursionUpTo, Zenon
<1>5. Q(g)
  <2>1. ASSUME NEW m \in 0 .. N PROVE g[m] = IF m = 0 THEN <<>> ELSE F(g[m - 1], m)
    <3>1. CASE m = 0
      BY <1>4, <3>1 DEF RecursUpTo
    <3>2. CASE m # 0
      <4>1. m - 1 \in 0 .. N /\ m \in 1 .. N /\ <<g[m - 1], m>> \in Seq(Int) \X (1 .. N)
        BY <1>1, <3>2
      <4>2. D[<<g[m - 1], m>>] = F(g[m - 1], m)
        BY <4>1
      <4>3. g[m] = D[<<g[m - 1], m>>]
        <5>. HIDE DEF D
        <5>. QED BY <1>4, <3>2 DEF RecursUpTo
      <4>. QED BY <3>2, <4>2, <4>3
    <3>. QED BY <3>1, <3>2
  <2>. QED BY <2>1
<1>6. PICK h : h = CHOOSE f : Q(f)
  OBVIOUS
<1>7. Q(h)
  <2>. HIDE DEF Q
  <2>. QED BY <1>5, <1>6
<1>8. h[0] = <<>> /\ \A m \in 1 .. N : h[m] = F(h[m - 1], m)
  BY <1>1, <1>7
<1>. HIDE DEF Q
<1>. QED BY <1>2, <1>6, <1>8 DEF N, F

\* What mg_invf_rebuild writes is laid out so.
LEMMA CodesLaidOut ==
  ASSUME NEW t, IsTerm(t) PROVE LaidOut(t, InvfLevel, Codes(t))
<1>1. PICK g : /\ Codes(t) = g[Len(t.list)] /\ g[0] = <<>>
               /\ \A m \in 1 .. Len(t.list) :
                    g[m] = g[m - 1] \o Header(t, m - 1) \o Gap(t, m - 1) \o CountOf(t, m - 1)
  BY CodesAre
<1>. DEFINE v == InvfLevel
<1>2. PICK N \in Nat : N = Len(t.list)
  BY DEF IsTerm
<1>. DEFINE Like(m) == /\ g[m] \in Seq(Int) /\ Len(g[m]) = Start(t, v, m)
                       /\ \A x \in 0 .. m - 1 : /\ PieceIn(t, v, g[m], x)
                                                /\ Start(t, v, x + 1) <= Start(t, v, m)
            T == {m \in Nat : m <= N => Like(m)}
<1>3. 0 \in T
  <2>1. Start(t, v, 0) = 0
    BY StartFacts
  <2>2. <<>> \in Seq(Int) /\ Len(<<>>) = 0 /\ \A x \in 0 .. 0 - 1 : FALSE
    OBVIOUS
  <2>. QED BY <1>1, <2>1, <2>2
<1>4. ASSUME NEW m \in Nat, m \in T PROVE m + 1 \in T
  <2>. SUFFICES ASSUME m + 1 <= N PROVE Like(m + 1)
    OBVIOUS
  <2>1. m + 1 \in 1 .. N /\ m \in 0 .. N - 1 /\ (m + 1) - 1 = m /\ m + 1 \in 0 .. N /\ m \in 0 .. N
    OBVIOUS
  <2>2. PICK s \in Seq(Int) : s = g[m] /\ Len(s) = Start(t, v, m)
                              /\ \A x \in 0 .. m - 1 : PieceIn(t, v, s, x) /\ Start(t, v, x + 1) <= Start(t, v, m)
    BY <1>4, <2>1
  <2>3. PICK u : u = g[m + 1]
    OBVIOUS
  <2>4. u = s \o Header(t, m) \o Gap(t, m) \o CountOf(t, m)
    BY <1>1, <1>2, <2>1, <2>2, <2>3
  <2>5. /\ u \in Seq(Int) /\ \A y \in 1 .. Len(s) : u[y] = s[y]
        /\ Len(u) = Len(s) + HeadCodes(t, m) + GapCodes(t, m) + CountCodes(v, 1)
        /\ PieceIn(t, v, u, m)
    <3>1. m \in 0 .. Len(t.list) - 1
      BY <1>2, <2>1
    <3>2. Longer(t, m, s, u)
      BY ONLY <2>4, <3>1, IsTerm(t), s \in Seq(Int), PieceStands
    <3>. QED BY ONLY <2>2, <3>2 DEF Longer
  <2>6. /\ Start(t, v, m + 1) = Start(t, v, m) + HeadCodes(t, m) + GapCodes(t, m) + CountCodes(v, 1)
        /\ HeadCodes(t, m) \in 0 .. 2 /\ GapCodes(t, m) \in 0 .. 1 /\ CountCodes(v, 1) \in 0 .. 1
        /\ Start(t, v, m) \in Nat
    BY <1>2, <2>1, StartFacts
  <2>7. Len(u) = Start(t, v, m + 1)
    BY <2>2, <2>5, <2>6
  <2>8. ASSUME NEW x \in 0 .. (m + 1) - 1
        PROVE  PieceIn(t, v, u, x) /\ Start(t, v, x + 1) <= Start(t, v, m + 1)
    <3>1. CASE x = m
      <4>1. Start(t, v, m + 1) \in Nat
        BY <2>6
      <4>. QED BY <2>5, <3>1, <4>1
    <3>2. CASE x # m
      <4>1. x \in 0 .. m - 1 /\ x \in 0 .. N - 1 /\ x + 1 \in 0 .. N
        BY <2>1, <3>2
      <4>2. PieceIn(t, v, s, x) /\ Start(t, v, x + 1) <= Start(t, v, m) /\ Start(t, v, x + 1) \in Nat
        BY <1>2, <2>2, <4>1, StartFacts
      <4>3. PieceIn(t, v, u, x)
        <5>1. Start(t, v, x + 1) <= Len(s) /\ Len(s) \in Nat
          BY <2>2, <4>2
        <5>2. x \in 0 .. Len(t.list) - 1
          BY <1>2, <4>1
        <5>3. \A y \in 1 .. Len(s) : u[y] = s[y]
          BY <2>5
        <5>4. PICK w : w = v
          OBVIOUS
        <5>. QED BY ONLY <4>2, <5>1, <5>2, <5>3, <5>4, IsTerm(t), PieceKept
      <4>4. Start(t, v, x + 1) <= Start(t, v, m + 1)
        BY <2>6, <4>2
      <4>. QED BY <4>3, <4>4
    <3>. QED BY <3>1, <3>2
  <2>. HIDE DEF v
  <2>. QED BY <2>3, <2>5, <2>7, <2>8
<1>5. Nat \subseteq T
  <2>. HIDE DEF T
  <2>. QED BY <1>3, <1>4, SetInduction
<1>6. Like(N)
  BY <1>5
<1>. QED BY <1>1, <1>2, <1>6 DEF LaidOut

-----------------------------------------------------------------------------
\* What the first m postings of a term, the first m terms, and both together
\* give a document at level v.

CountAt(t, v, x) == IF v >= 2 THEN t.list[x].count ELSE Occurrences(t) \div Len(t.list)
Gives(t, v, d) ==
  [x \in DOMAIN t.list |-> IF t.list[x].doc = d + 1 THEN Weight(t, CountAt(t, v, x)) ELSE 0]
GivenBy(t, v, d, m) == Upto(Gives(t, v, d), m)
Whole(q, v, d, m) == Upto([x \in 1 .. Len(q) |-> GivenBy(q[x], v, d, Len(q[x].list))], m)
Due(q, v, d, m, c) == Whole(q, v, d, m) + GivenBy(q[m + 1], v, d, c)

\* Their documents.
First(t, m) == {t.list[x].doc - 1 : x \in 1 .. m}
DocsTo(q, m) == UNION {DocsOf(q[x]) : x \in 1 .. m}

Lens(q, m) == Upto([x \in 1 .. Len(q) |-> Len(q[x].list)], m)
SizeOf(q, r, m) == IF r.AccumMethod = "L" THEN Lens(q, m) ELSE Cardinality(DocsTo(q, m))
FullOf(r, m) == r.MaxAccums # -1 /\ m >= r.MaxAccums

-----------------------------------------------------------------------------
(***************************************************************************)
(* The invariant.                                                          *)
(***************************************************************************)

Loop == {"top", "header", "test"}
Active == Loop \cup {"term", "decoded"}
Read == IF at \in Loop THEN i ELSE 0
Begun == IF at \in Loop THEN j ELSE j - 1

RankedTypes ==
  /\ Terms \in Queries /\ rqi \in Infos /\ InvfLevel \in Levels
  /\ j \in 1 .. Len(Terms) + 1
  /\ at \in Loop => j \in 1 .. Len(Terms)
  /\ Anding \in BOOLEAN /\ Abort \in BOOLEAN /\ Sorted = Anding
  /\ sup \in Seq(Entries) /\ supsize \in Nat /\ Len(sup) <= supsize
  /\ at \in Active => acc \in Seq(Entries)

\* The block whose start the header gives, or that starts here.
Target(m, b, w) == IF m % b = 0 /\ w # "test" THEN m ELSE BlockEnd(m, b)

\* Where the list is read.
AtPosting(t, v) ==
  /\ i \in 0 .. Len(t.list) /\ CurrDocNum = Doc(t, i) /\ LaidOut(t, v, codes)
  /\ at # "top" => t.k > 0 /\ i < Len(t.list) /\ rqi.AccumMethod # "A"
  /\ at = "header" => i % t.k = 0
  /\ pos = Start(t, v, i) + (IF at = "test" THEN HeadCodes(t, i) ELSE 0)
  /\ t.k > 0 /\ rqi.AccumMethod = "A" =>
       /\ kd = i % t.k \/ (i % t.k = 0 /\ kd = t.k)
       /\ i % t.k # 0 /\ BlockEnd(i, t.k) < Len(t.list) => next_doc_num = Doc(t, BlockEnd(i, t.k))
  /\ t.k > 0 /\ rqi.AccumMethod # "A" =>
       /\ kd = t.k - 1 - (i % t.k)
       /\ Target(i, t.k, at) < Len(t.list) =>
            /\ next_i = Target(i, t.k, at)
            /\ next_start = Start(t, v, Target(i, t.k, at))
            /\ next_doc_num = Doc(t, Target(i, t.k, at))
CursorInv == at \in Loop => AtPosting(Terms[j], InvfLevel)

\* Sums are what is due; before Anding a document that has none is due none.
SumsRight(m, c) ==
  \A d \in Nat : (Anding => d \in Numbers(acc)) =>
    SumIn(acc, d) + SumIn(sup, d) = Due(Terms, InvfLevel, d, m, c)
SumsInv == at \in Active => SumsRight(j - 1, Read)

\* Which documents have accumulators.
Admits(q, r, a) ==
  /\ Numbers(acc) = DocsTo(q, a)
  /\ FullOf(r, SizeOf(q, r, a)) /\ \A x \in 0 .. a - 1 : ~FullOf(r, SizeOf(q, r, x))
AdmitInv ==
  at \in Active /\ rqi.AccumMethod # "A" =>
    IF Anding THEN \E a \in 0 .. j - 1 : Admits(Terms, rqi, a)
    ELSE /\ Numbers(acc) \cup Numbers(sup) = DocsTo(Terms, j - 1) \cup First(Terms[j], Read)
         /\ \A x \in 0 .. Begun - 1 : ~FullOf(rqi, SizeOf(Terms, rqi, x))

\* The shape of the table.
TableInv ==
  at \in Active =>
    /\ Anding => /\ rqi.AccumMethod # "A" /\ ~rqi.StopAtMaxAccum
                 /\ Ascending(acc) /\ sup = <<>>
    /\ rqi.AccumMethod = "A" =>
         Len(acc) = NumDocs /\ sup = <<>> /\ \A x \in DOMAIN acc : acc[x].DocNum = x - 1
    /\ rqi.AccumMethod = "S" => Ascending(acc) /\ sup = <<>>
    /\ rqi.AccumMethod = "L" =>
         sup = <<>> /\ (~Anding => Len(acc) = Lens(Terms, j - 1) + Read)
    /\ rqi.AccumMethod = "H" =>
         /\ Distinct(acc) /\ Distinct(sup) /\ Numbers(acc) \cap Numbers(sup) = {}
         /\ sup # <<>> => FullOf(rqi, Len(acc))
         /\ at = "decoded" => Ascending(acc) /\ sup = <<>>
    /\ at # "decoded" /\ rqi.AccumMethod # "A" /\ rqi.StopAtMaxAccum /\ ~Abort =>
         ~FullOf(rqi, Len(acc))

\* How far the walk through the table is, and the supplementary entries.
WalkInv ==
  at \in Loop =>
    /\ Anding => /\ next \in 1 .. Len(acc) + 1
                 /\ \A x \in 1 .. next - 1 : acc[x].DocNum < CurrDocNum
    /\ \A x \in DOMAIN sup : sup[x].DocNum < CurrDocNum
    /\ sup # <<>> => Len(sup) + (Len(Terms[j].list) - i) <= supsize

\* Ranking changes sums only.
AfterInv ==
  at \notin Active =>
    /\ Anding => Ascending(acc)
    /\ \A x \in DOMAIN acc : "DocNum" \in DOMAIN acc[x]

RankedInv ==
  /\ RankedTypes /\ CursorInv /\ SumsInv /\ AdmitInv /\ TableInv /\ WalkInv /\ AfterInv

-----------------------------------------------------------------------------
\* What terms give.

LEMMA ProductInt == \A a, b \in Int : a * b \in Int
OBVIOUS

LEMMA ProductNat == \A a, b \in Nat : a * b \in Nat
OBVIOUS

\* Whatever w, which comes in twice.
LEMMA WeighedNat ==
  ASSUME NEW a \in Nat, NEW c \in Nat, NEW w \in Int PROVE (a * w) * (c * w) \in Nat
<1>1. CASE w >= 0
  <2>1. a * w \in Nat /\ c * w \in Nat
    BY <1>1, ProductNat
  <2>. QED BY ONLY <2>1, ProductNat
<1>2. CASE w < 0
  <2>. PICK z \in Nat : z = 0 - w
    BY <1>2
  <2>1. a * w = 0 - (a * z) /\ c * w = 0 - (c * z)
    OBVIOUS
  <2>2. PICK u \in Nat, y \in Nat : u = a * z /\ y = c * z
    BY ProductNat
  <2>3. (a * w) * (c * w) = (0 - u) * (0 - y)
    BY <2>1, <2>2
  <2>4. (0 - u) * (0 - y) = u * y
    BY ONLY u \in Nat, y \in Nat
  <2>5. u * y \in Nat
    BY ONLY u \in Nat, y \in Nat, ProductNat
  <2>. QED BY ONLY <2>3, <2>4, <2>5
<1>. QED BY <1>1, <1>2

LEMMA GivesFacts ==
  ASSUME NEW t, IsTerm(t), NEW v, NEW d \in Nat
  PROVE  /\ \A x \in 1 .. Len(t.list) :
              /\ CountAt(t, v, x) \in Nat /\ Weight(t, CountAt(t, v, x)) \in Nat
              /\ Gives(t, v, d)[x] = IF Doc(t, x) = d + 1 THEN Weight(t, CountAt(t, v, x)) ELSE 0
              /\ Gives(t, v, d)[x] \in Int
         /\ GivenBy(t, v, d, 0) = 0
         /\ \A m \in 0 .. Len(t.list) : GivenBy(t, v, d, m) \in Int
         /\ \A m \in 0 .. Len(t.list) - 1 :
              GivenBy(t, v, d, m + 1) =
                GivenBy(t, v, d, m)
                  + (IF Doc(t, m + 1) = d + 1 THEN Weight(t, CountAt(t, v, m + 1)) ELSE 0)
         /\ Total(Gives(t, v, d)) = GivenBy(t, v, d, Len(t.list))
<1>. PICK N \in Nat \ {0} : N = Len(t.list)
  BY DEF IsTerm
<1>1. DOMAIN t.list = 1 .. N /\ t.freq \in Nat /\ NumDocs \in Int
      /\ \A x \in 1 .. N : t.list[x].count \in Nat /\ Doc(t, x) = t.list[x].doc
  BY RankedConstants DEF IsTerm
<1>2. Occurrences(t) \in Nat
  <2>. DEFINE f == [x \in DOMAIN t.list |-> t.list[x].count]
  <2>1. Occurrences(t) = Total(f)
    BY DEF Occurrences
  <2>2. \A x \in 1 .. N : f[x] \in Nat
    BY <1>1
  <2>3. f \in Seq(Int) /\ DOMAIN f = 1 .. N
    BY <1>1
  <2>. HIDE DEF f
  <2>4. Len(f) = N
    BY <2>3
  <2>5. Total(f) = Upto(f, N)
    BY <2>4, TotalIs
  <2>6. Upto(f, N) \in Nat
    BY <2>2, UptoNat
  <2>. QED BY <2>1, <2>5, <2>6
<1>3. ASSUME NEW x \in 1 .. N
      PROVE  CountAt(t, v, x) \in Nat /\ Weight(t, CountAt(t, v, x)) \in Nat
  <2>1. CountAt(t, v, x) \in Nat
    <3>1. Occurrences(t) \div Len(t.list) \in Nat
      BY <1>2
    <3>. QED BY <1>1, <3>1 DEF CountAt
  <2>0. WordLog(t) \in Int /\ t.freq \in Nat
    BY <1>1 DEF WordLog
  <2>2. PICK c \in Nat, w \in Int, a \in Nat : c = CountAt(t, v, x) /\ w = WordLog(t) /\ a = t.freq
    BY <2>0, <2>1
  <2>4. (a * w) * (c * w) \in Nat
    BY WeighedNat
  <2>. QED BY <2>1, <2>2, <2>4 DEF Weight
<1>. DEFINE f == Gives(t, v, d)
<1>4. \A x \in 1 .. N : /\ f[x] = IF Doc(t, x) = d + 1 THEN Weight(t, CountAt(t, v, x)) ELSE 0
                        /\ f[x] \in Int
  BY <1>1, <1>3 DEF Gives
<1>5. \A m : GivenBy(t, v, d, m) = Upto(f, m)
  BY DEF GivenBy
<1>6. Len(f) = N
  <2>1. DOMAIN f = 1 .. N /\ f = [x \in 1 .. N |-> f[x]]
    BY <1>1 DEF Gives
  <2>. HIDE DEF f
  <2>2. f \in Seq(Int)
    BY <1>4, <2>1, SMTT(30)
  <2>. QED BY <2>1, <2>2
<1>. HIDE DEF f
<1>7. /\ Upto(f, 0) = 0
      /\ \A m \in 0 .. N : Upto(f, m) \in Int
      /\ \A m \in 0 .. N - 1 : Upto(f, m + 1) = Upto(f, m) + f[m + 1]
  <2>1. \A x \in 1 .. N : f[x] \in Int
    BY <1>4
  <2>. QED BY <2>1, UptoUnfolds
<1>8. \A m \in 0 .. N - 1 : m + 1 \in 1 .. N
  OBVIOUS
<1>9. Total(f) = Upto(f, N)
  BY <1>6, TotalIs
<1>. QED BY <1>3, <1>4, <1>5, <1>7, <1>8, <1>9 DEF f

\* Postings of other documents give nothing.
LEMMA OthersGiveNothing ==
  ASSUME NEW t, IsTerm(t), NEW v, NEW d \in Nat,
         NEW m \in 0 .. Len(t.list), NEW e \in 0 .. Len(t.list), m <= e,
         \A x \in 1 .. Len(t.list) : m < x /\ x <= e => Doc(t, x) # d + 1
  PROVE  GivenBy(t, v, d, e) = GivenBy(t, v, d, m)
<1>. PICK N \in Nat : N = Len(t.list)
  BY DEF IsTerm
<1>. DEFINE T == {x \in Nat : m + x <= e => GivenBy(t, v, d, m + x) = GivenBy(t, v, d, m)}
<1>1. 0 \in T
  <2>1. m + 0 = m
    OBVIOUS
  <2>. QED BY <2>1
<1>2. ASSUME NEW x \in Nat, x \in T PROVE x + 1 \in T
  <2>. SUFFICES ASSUME m + (x + 1) <= e PROVE GivenBy(t, v, d, m + (x + 1)) = GivenBy(t, v, d, m)
    OBVIOUS
  <2>1. m + x \in 0 .. N - 1 /\ (m + x) + 1 = m + (x + 1) /\ (m + x) + 1 \in 1 .. N
        /\ m < (m + x) + 1 /\ m + x <= e
    OBVIOUS
  <2>2. Doc(t, (m + x) + 1) # d + 1
    BY <2>1
  <2>3. GivenBy(t, v, d, (m + x) + 1) = GivenBy(t, v, d, m + x) + 0
    BY <2>1, <2>2, GivesFacts
  <2>4. GivenBy(t, v, d, m + x) = GivenBy(t, v, d, m) /\ GivenBy(t, v, d, m) \in Int
    BY <1>2, <2>1, GivesFacts
  <2>. QED BY <2>1, <2>3, <2>4
<1>3. Nat \subseteq T
  <2>. HIDE DEF T
  <2>. QED BY <1>1, <1>2, SetInduction
<1>4. e - m \in Nat /\ m + (e - m) = e
  OBVIOUS
<1>5. e - m \in T
  BY <1>3, <1>4
<1>. QED BY <1>4, <1>5

LEMMA QueryFacts ==
  ASSUME NEW q \in Queries
  PROVE  Len(q) \in Nat /\ DOMAIN q = 1 .. Len(q) /\ \A x \in 1 .. Len(q) : IsTerm(q[x])
<1>1. Len(q) \in Nat /\ DOMAIN q = 1 .. Len(q)
  <2>. DEFINE E == [list : Seq([doc : 1 .. NumDocs, count : Nat \ {0}]), k : Nat, freq : Nat]
  <2>1. q \in Seq(E)
    BY RankedConstants
  <2>. HIDE DEF E
  <2>. QED BY <2>1
<1>. QED BY <1>1, TermFacts

LEMMA WholeFacts ==
  ASSUME NEW q \in Queries, NEW v, NEW d \in Nat
  PROVE  /\ Whole(q, v, d, 0) = 0
         /\ \A m \in 0 .. Len(q) : Whole(q, v, d, m) \in Int /\ Due(q, v, d, m, 0) = Whole(q, v, d, m)
         /\ \A m \in 0 .. Len(q) - 1 :
              Whole(q, v, d, m + 1) = Whole(q, v, d, m) + GivenBy(q[m + 1], v, d, Len(q[m + 1].list))
<1>. PICK N \in Nat : N = Len(q)
  BY QueryFacts
<1>. DEFINE f == [x \in 1 .. N |-> GivenBy(q[x], v, d, Len(q[x].list))]
<1>1. \A x \in 1 .. N : f[x] = GivenBy(q[x], v, d, Len(q[x].list)) /\ f[x] \in Int
  <2>. TAKE x \in 1 .. N
  <2>1. IsTerm(q[x])
    BY QueryFacts
  <2>2. Len(q[x].list) \in 0 .. Len(q[x].list)
    BY <2>1 DEF IsTerm
  <2>3. GivenBy(q[x], v, d, Len(q[x].list)) \in Int
    BY <2>1, <2>2, GivesFacts
  <2>. QED BY <2>3
<1>2. \A m : Whole(q, v, d, m) = Upto(f, m)
  BY DEF Whole
<1>. HIDE DEF f
<1>3. /\ Upto(f, 0) = 0
      /\ \A m \in 0 .. N : Upto(f, m) \in Int
      /\ \A m \in 0 .. N - 1 : Upto(f, m + 1) = Upto(f, m) + f[m + 1]
  <2>1. \A x \in 1 .. N : f[x] \in Int
    BY <1>1
  <2>. QED BY <2>1, UptoUnfolds
<1>4. \A m : GivenBy(q[m + 1], v, d, 0) = 0
  <2>. TAKE m
  <2>1. PICK g : GivenBy(q[m + 1], v, d, 0) = Upto(g, 0)
    BY DEF GivenBy
  <2>2. 0 \in Nat /\ \A x \in 1 .. 0 : g[x] \in Int
    OBVIOUS
  <2>. QED BY <2>1, <2>2, UptoUnfolds
<1>5. \A m \in 0 .. N : Due(q, v, d, m, 0) = Upto(f, m)
  <2>. TAKE m \in 0 .. N
  <2>1. Due(q, v, d, m, 0) = Upto(f, m) + 0
    BY <1>2, <1>4 DEF Due
  <2>. QED BY <1>3, <2>1
<1>6. \A m \in 0 .. N - 1 : m + 1 \in 1 .. N
  OBVIOUS
<1>. QED BY <1>1, <1>2, <1>3, <1>5, <1>6

-----------------------------------------------------------------------------
\* The documents of terms.

LEMMA DocsFacts ==
  ASSUME NEW q \in Queries
  PROVE  /\ DocsTo(q, 0) = {} /\ \A t : First(t, 0) = {}
         /\ \A m \in Nat : DocsTo(q, m + 1) = DocsTo(q, m) \cup DocsOf(q[m + 1])
         /\ \A m \in 0 .. Len(q) : DocsTo(q, m) \in SUBSET Nat
         /\ \A x \in 1 .. Len(q) :
              /\ DocsOf(q[x]) = First(q[x], Len(q[x].list))
              /\ \A m \in 0 .. Len(q[x].list) - 1 :
                   First(q[x], m + 1) = First(q[x], m) \cup {Doc(q[x], m + 1) - 1}
<1>1. DocsTo(q, 0) = {} /\ \A t : First(t, 0) = {}
  <2>1. \A x \in 1 .. 0 : FALSE
    OBVIOUS
  <2>. QED BY <2>1 DEF DocsTo, First
<1>2. ASSUME NEW m \in Nat PROVE DocsTo(q, m + 1) = DocsTo(q, m) \cup DocsOf(q[m + 1])
  <2>1. 1 .. m + 1 = (1 .. m) \cup {m + 1}
    OBVIOUS
  <2>. QED BY <2>1 DEF DocsTo
<1>3. ASSUME NEW x \in 1 .. Len(q)
      PROVE  /\ DocsOf(q[x]) = First(q[x], Len(q[x].list)) /\ DocsOf(q[x]) \in SUBSET Nat
             /\ \A m \in 0 .. Len(q[x].list) - 1 :
                  First(q[x], m + 1) = First(q[x], m) \cup {Doc(q[x], m + 1) - 1}
  <2>. PICK t : t = q[x]
    OBVIOUS
  <2>. PICK N \in Nat : N = Len(t.list)
    BY QueryFacts DEF IsTerm
  <2>1. DOMAIN t.list = 1 .. N
        /\ \A m \in 1 .. N : Doc(t, m) = t.list[m].doc /\ t.list[m].doc \in 1 .. NumDocs
    BY QueryFacts DEF IsTerm
  <2>2. \A m \in 1 .. N : t.list[m].doc - 1 \in Nat
    <3>1. NumDocs \in Nat
      BY RankedConstants
    <3>. QED BY <2>1, <3>1
  <2>3. ASSUME NEW m \in 0 .. N - 1 PROVE First(t, m + 1) = First(t, m) \cup {Doc(t, m + 1) - 1}
    <3>1. 1 .. m + 1 = (1 .. m) \cup {m + 1} /\ m + 1 \in 1 .. N
      OBVIOUS
    <3>2. Doc(t, m + 1) = t.list[m + 1].doc
      BY <2>1, <3>1
    <3>. QED BY <3>1, <3>2 DEF First
  <2>. QED BY <2>1, <2>2, <2>3 DEF DocsOf, First
<1>4. \A m \in 0 .. Len(q) : DocsTo(q, m) \in SUBSET Nat
  <2>. TAKE m \in 0 .. Len(q)
  <2>1. \A x \in 1 .. m : x \in 1 .. Len(q)
    BY QueryFacts
  <2>. QED BY <1>3, <2>1 DEF DocsTo
<1>. QED BY <1>1, <1>2, <1>3, <1>4

LEMMA LensFacts ==
  ASSUME NEW q \in Queries
  PROVE  /\ Lens(q, 0) = 0
         /\ \A m \in 0 .. Len(q) : Lens(q, m) \in Int
         /\ \A m \in 0 .. Len(q) - 1 : Lens(q, m + 1) = Lens(q, m) + Len(q[m + 1].list)
<1>. PICK N \in Nat : N = Len(q)
  BY QueryFacts
<1>. DEFINE f == [x \in 1 .. N |-> Len(q[x].list)]
<1>1. \A x \in 1 .. N : f[x] = Len(q[x].list) /\ f[x] \in Int
  BY QueryFacts DEF IsTerm
<1>2. \A m : Lens(q, m) = Upto(f, m)
  BY DEF Lens
<1>. HIDE DEF f
<1>3. /\ Upto(f, 0) = 0
      /\ \A m \in 0 .. N : Upto(f, m) \in Int
      /\ \A m \in 0 .. N - 1 : Upto(f, m + 1) = Upto(f, m) + f[m + 1]
  <2>1. \A x \in 1 .. N : f[x] \in Int
    BY <1>1
  <2>. QED BY <2>1, UptoUnfolds
<1>4. \A m \in 0 .. N - 1 : m + 1 \in 1 .. N
  OBVIOUS
<1>. QED BY <1>1, <1>2, <1>3, <1>4

\* As many documents as entries, if none has two.
LEMMA DistinctCounts ==
  ASSUME NEW q \in Seq(Entries), Distinct(q)
  PROVE  IsFiniteSet(Numbers(q)) /\ Cardinality(Numbers(q)) = Len(q)
<1>. PICK N \in Nat : N = Len(q) /\ DOMAIN q = 1 .. N
  OBVIOUS
<1>. DEFINE P(x) == {q[y].DocNum : y \in 1 .. x}
            T == {x \in Nat : x <= N => IsFiniteSet(P(x)) /\ Cardinality(P(x)) = x}
<1>1. 0 \in T
  <2>1. P(0) = {}
    <3>1. \A y \in 1 .. 0 : FALSE
      OBVIOUS
    <3>. QED BY <3>1
  <2>. HIDE DEF P
  <2>. QED BY <2>1, FS_EmptySet
<1>2. ASSUME NEW x \in Nat, x \in T PROVE x + 1 \in T
  <2>. SUFFICES ASSUME x + 1 <= N PROVE IsFiniteSet(P(x + 1)) /\ Cardinality(P(x + 1)) = x + 1
    OBVIOUS
  <2>1. 1 .. x + 1 = (1 .. x) \cup {x + 1} /\ x + 1 \in 1 .. N
    OBVIOUS
  <2>2. P(x + 1) = P(x) \cup {q[x + 1].DocNum}
    BY <2>1
  <2>3. q[x + 1].DocNum \notin P(x)
    <3>. SUFFICES ASSUME NEW y \in 1 .. x, q[y].DocNum = q[x + 1].DocNum PROVE FALSE
      OBVIOUS
    <3>1. y \in 1 .. N /\ y # x + 1
      OBVIOUS
    <3>. QED BY <2>1, <3>1 DEF Distinct
  <2>4. IsFiniteSet(P(x)) /\ Cardinality(P(x)) = x
    BY <1>2
  <2>. HIDE DEF P
  <2>5. /\ IsFiniteSet(P(x) \cup {q[x + 1].DocNum})
        /\ Cardinality(P(x) \cup {q[x + 1].DocNum}) = Cardinality(P(x)) + 1
    BY <2>3, <2>4, FS_AddElement
  <2>. QED BY <2>2, <2>4, <2>5
<1>3. Nat \subseteq T
  <2>. HIDE DEF T
  <2>. QED BY <1>1, <1>2, SetInduction
<1>4. IsFiniteSet(P(N)) /\ Cardinality(P(N)) = N
  <2>1. N \in T
    BY <1>3
  <2>. HIDE DEF P
  <2>. QED BY <2>1
<1>5. Numbers(q) = P(N)
  BY DEF Numbers
<1>. QED BY <1>4, <1>5

-----------------------------------------------------------------------------
\* The same, in the module's words.

LEMMA TermsAre ==
  ASSUME Terms \in Queries
  PROVE  /\ \A m \in 0 .. Len(Terms), d \in Nat : CosineSum(d, m) = Whole(Terms, InvfLevel, d, m)
         /\ \A m \in 0 .. Len(Terms) : Size(m) = SizeOf(Terms, rqi, m)
         /\ \A x : Full(x) = FullOf(rqi, x)
         /\ InTable = Numbers(acc) \cup Numbers(sup)
<1>. PICK N \in Nat : N = Len(Terms)
  BY QueryFacts
<1>1. ASSUME NEW x \in 1 .. N, NEW d \in Nat
      PROVE  TermWeight(Terms[x], d) = GivenBy(Terms[x], InvfLevel, d, Len(Terms[x].list))
             /\ TermWeight(Terms[x], d) \in Int
  <2>. PICK t : t = Terms[x]
    OBVIOUS
  <2>1. IsTerm(t)
    BY QueryFacts
  <2>2. TermWeight(t, d) = Total(Gives(t, InvfLevel, d))
    <3>1. \A y : Count(t, y) = CountAt(t, InvfLevel, y)
      BY DEF Count, CountAt, HasCounts
    <3>2. [y \in DOMAIN t.list |-> IF t.list[y].doc = d + 1 THEN Weight(t, Count(t, y)) ELSE 0]
          = Gives(t, InvfLevel, d)
      BY <3>1 DEF Gives
    <3>. QED BY <3>2 DEF TermWeight
  <2>3. Len(t.list) \in 0 .. Len(t.list)
    BY <2>1 DEF IsTerm
  <2>. QED BY <2>1, <2>2, <2>3, GivesFacts
<1>2. ASSUME NEW m \in 0 .. N, NEW d \in Nat PROVE CosineSum(d, m) = Whole(Terms, InvfLevel, d, m)
  <2>. DEFINE f == [x \in 1 .. m |-> TermWeight(Terms[x], d)]
              g == [x \in 1 .. N |-> GivenBy(Terms[x], InvfLevel, d, Len(Terms[x].list))]
  <2>1. CosineSum(d, m) = Total(f) /\ Whole(Terms, InvfLevel, d, m) = Upto(g, m)
    BY DEF CosineSum, Whole
  <2>2. \A x \in 1 .. m : f[x] \in Int /\ f[x] = g[x]
    <3>1. \A x \in 1 .. m : x \in 1 .. N
      OBVIOUS
    <3>. QED BY <1>1, <3>1
  <2>3. f \in Seq(Int) /\ DOMAIN f = 1 .. m
    <3>1. \A x \in 1 .. m : TermWeight(Terms[x], d) \in Int
      BY <2>2
    <3>. QED BY <3>1
  <2>. HIDE DEF f, g
  <2>4. Len(f) = m
    BY <2>3
  <2>5. Upto(f, m) = Upto(g, m)
    BY <2>2, UptoAlike
  <2>. QED BY <2>1, <2>4, <2>5, TotalIs
<1>3. ASSUME NEW m \in 0 .. N PROVE Size(m) = SizeOf(Terms, rqi, m)
  <2>. DEFINE f == [x \in 1 .. m |-> Len(Terms[x].list)]
              g == [x \in 1 .. N |-> Len(Terms[x].list)]
  <2>1. Lens(Terms, m) = Upto(g, m)
    BY DEF Lens
  <2>2. \A x \in 1 .. m : f[x] \in Int /\ f[x] = g[x]
    <3>1. \A x \in 1 .. m : x \in 1 .. N
      OBVIOUS
    <3>. QED BY <3>1, QueryFacts DEF IsTerm
  <2>3. f \in Seq(Int) /\ DOMAIN f = 1 .. m
    <3>1. \A x \in 1 .. m : Len(Terms[x].list) \in Int
      BY <2>2
    <3>. QED BY <3>1
  <2>4. Size(m) = IF rqi.AccumMethod = "L" THEN Total(f)
                  ELSE Cardinality(UNION {DocsOf(Terms[x]) : x \in 1 .. m})
    BY DEF Size
  <2>. HIDE DEF f, g
  <2>5. Len(f) = m
    BY <2>3
  <2>6. Upto(f, m) = Upto(g, m)
    BY <2>2, UptoAlike
  <2>. QED BY <2>1, <2>4, <2>5, <2>6, TotalIs DEF SizeOf, DocsTo
<1>. QED BY <1>2, <1>3 DEF Full, FullOf, InTable, Numbers

LEMMA TermsToRead ==
  ASSUME Terms \in Queries, rqi \in Infos PROVE NumTerms \in 0 .. Len(Terms)
<1>1. PICK N \in Nat : N = Len(Terms)
  BY QueryFacts
<1>2. CASE rqi.MaxTerms = -1
  BY <1>1, <1>2 DEF NumTerms
<1>3. CASE rqi.MaxTerms # -1
  <2>1. rqi.MaxTerms \in Nat
    BY <1>3, RankedConstants
  <2>. DEFINE S == {rqi.MaxTerms, N}
  <2>2. S \in SUBSET Nat /\ S # {} /\ N \in S
    BY <2>1
  <2>. HIDE DEF S
  <2>3. Min(S) \in Nat /\ Min(S) <= N
    BY <2>2, LeastPlace
  <2>4. NumTerms = Min(S)
    BY <1>1, <1>3 DEF NumTerms, S
  <2>. QED BY <1>1, <2>3, <2>4
<1>. QED BY <1>2, <1>3

-----------------------------------------------------------------------------
\* Where the list is read: the actions.

LEMMA BlockMoves ==
  ASSUME NEW b \in Nat \ {0}, NEW m \in Nat
  PROVE  /\ m % b \in 0 .. b - 1 /\ BlockEnd(m, b) \in Nat /\ BlockEnd(m, b) > m
         /\ BlockEnd(m, b) <= m + b /\ BlockEnd(m, b) % b = 0
         /\ Target(m, b, "test") = BlockEnd(m, b)
         /\ Target(m + 1, b, "top") = BlockEnd(m, b)
         /\ m % b = 0 => BlockEnd(m, b) = m + b /\ \A w : w # "test" => Target(m, b, w) = m
         /\ m % b # 0 => \A w : Target(m, b, w) = BlockEnd(m, b)
         /\ (m + 1) % b = IF m % b = b - 1 THEN 0 ELSE (m % b) + 1
         /\ m % b = b - 1 <=> BlockEnd(m, b) = m + 1
         /\ m % b # b - 1 => BlockEnd(m + 1, b) = BlockEnd(m, b)
<1>1. /\ m % b \in 0 .. b - 1 /\ m - (m % b) \in Nat
      /\ BlockEnd(m, b) \in Nat /\ BlockEnd(m, b) > m
      /\ BlockEnd(m, b) % b = 0
      /\ (m + 1) % b = IF m % b = b - 1 THEN 0 ELSE (m % b) + 1
      /\ m % b = b - 1 <=> BlockEnd(m, b) = m + 1
      /\ m % b # b - 1 => BlockEnd(m + 1, b) = BlockEnd(m, b)
  BY BlockFacts
<1>. PICK r \in 0 .. b - 1 : r = m % b
  BY <1>1
<1>2. BlockEnd(m, b) = m - r + b
  BY DEF BlockEnd
<1>3. Target(m, b, "test") = BlockEnd(m, b)
  BY DEF Target
<1>4. Target(m + 1, b, "top") = BlockEnd(m, b)
  <2>1. CASE r = b - 1
    BY <1>1, <2>1 DEF Target
  <2>2. CASE r # b - 1
    <3>1. (m + 1) % b # 0
      BY <1>1, <2>2
    <3>. QED BY <1>1, <2>2, <3>1 DEF Target
  <2>. QED BY <2>1, <2>2
<1>5. r = 0 => BlockEnd(m, b) = m + b /\ \A w : w # "test" => Target(m, b, w) = m
  BY <1>2 DEF Target
<1>6. r # 0 => \A w : Target(m, b, w) = BlockEnd(m, b)
  BY DEF Target
<1>7. BlockEnd(m, b) <= m + b
  BY <1>2
<1>. QED BY <1>1, <1>3, <1>4, <1>5, <1>6, <1>7

LEMMA TermAtHand ==
  ASSUME RankedTypes, CursorInv, at \in Loop, NEW t, t = Terms[j]
  PROVE  /\ IsTerm(t) /\ j \in 1 .. Len(Terms) /\ p = Len(t.list) /\ k = t.k
         /\ t.k \in Nat /\ Len(t.list) \in Nat \ {0}
         /\ AtPosting(t, InvfLevel)
<1>1. j \in 1 .. Len(Terms) /\ Terms \in Queries
  BY DEF RankedTypes
<1>2. IsTerm(t)
  BY <1>1, QueryFacts
<1>. QED BY <1>1, <1>2 DEF IsTerm, CursorInv, p, k

Posted(d, w) ==
  CASE Anding -> AddIfPresent(d, w) /\ at' = "top"
    [] ~Anding /\ rqi.AccumMethod = "S" -> SplayAdd(d, w)
    [] ~Anding /\ rqi.AccumMethod = "H" -> HashAdd(d, w)
    [] ~Anding /\ rqi.AccumMethod = "L" -> ListAdd(d, w)

LEMMA PostedIs ==
  ASSUME RankedTypes, rqi.AccumMethod # "A", NEW d, NEW w, Posted(d, w)
  PROVE  /\ Anding => AddIfPresent(d, w) /\ at' = "top"
         /\ ~Anding /\ rqi.AccumMethod = "S" => SplayAdd(d, w)
         /\ ~Anding /\ rqi.AccumMethod = "H" => HashAdd(d, w)
         /\ ~Anding /\ rqi.AccumMethod = "L" => ListAdd(d, w)
         /\ rqi.AccumMethod \in {"S", "H", "L"}
         /\ at' \in {"top", "overrun"}
<1>1. Anding \in BOOLEAN /\ rqi.AccumMethod \in {"S", "H", "L"}
  BY RankedConstants DEF RankedTypes
<1>2. CASE Anding
  BY <1>1, <1>2 DEF Posted
<1>3. CASE ~Anding /\ rqi.AccumMethod = "S"
  BY <1>3 DEF Posted, SplayAdd
<1>4. CASE ~Anding /\ rqi.AccumMethod = "H"
  <2>1. HashAdd(d, w)
    BY <1>4 DEF Posted
  <2>2. at' \in {"top", "overrun"}
    BY <2>1 DEF HashAdd
  <2>. QED BY <1>4, <2>1, <2>2
<1>5. CASE ~Anding /\ rqi.AccumMethod = "L"
  <2>1. ListAdd(d, w)
    BY <1>5 DEF Posted
  <2>2. at' \in {"top", "overrun"}
    BY <2>1 DEF ListAdd
  <2>. QED BY <1>5, <2>1, <2>2
<1>. QED BY <1>1, <1>2, <1>3, <1>4, <1>5

\* What AtPosting is afterwards, said of the new values.
LEMMA NextAtPosting ==
  ASSUME NEW t, NEW v, UNCHANGED rqi,
         i' \in 0 .. Len(t.list), CurrDocNum' = Doc(t, i'), LaidOut(t, v, codes'),
         at' # "top" => t.k > 0 /\ i' < Len(t.list) /\ rqi.AccumMethod # "A",
         at' = "header" => i' % t.k = 0,
         pos' = Start(t, v, i') + (IF at' = "test" THEN HeadCodes(t, i') ELSE 0),
         t.k > 0 /\ rqi.AccumMethod = "A" =>
           /\ kd' = i' % t.k \/ (i' % t.k = 0 /\ kd' = t.k)
           /\ i' % t.k # 0 /\ BlockEnd(i', t.k) < Len(t.list) =>
                next_doc_num' = Doc(t, BlockEnd(i', t.k)),
         t.k > 0 /\ rqi.AccumMethod # "A" =>
           /\ kd' = t.k - 1 - (i' % t.k)
           /\ Target(i', t.k, at') < Len(t.list) =>
                /\ next_i' = Target(i', t.k, at')
                /\ next_start' = Start(t, v, Target(i', t.k, at'))
                /\ next_doc_num' = Doc(t, Target(i', t.k, at')),
         t = Terms'[j'], v = InvfLevel'
  PROVE  CursorInv'
BY DEF CursorInv, AtPosting

LEMMA NextPostingReads ==
  ASSUME RankedTypes, CursorInv, NextPosting, NEW t, t = Terms[j]
  PROVE  /\ at \in Loop /\ i \in 0 .. Len(t.list) - 1 /\ i' = i + 1
         /\ CurrDocNum = Doc(t, i) /\ CurrDocNum' = Doc(t, i + 1)
         /\ Posted(Doc(t, i + 1) - 1, Weight(t, CountAt(t, InvfLevel, i + 1)))
         /\ at' \in Loop => at' = "top"
         /\ CursorInv'
<1>1. at \in Loop
  BY DEF NextPosting, Loop
<1>2. /\ IsTerm(t) /\ j \in 1 .. Len(Terms) /\ p = Len(t.list) /\ k = t.k
      /\ t.k \in Nat /\ Len(t.list) \in Nat \ {0} /\ AtPosting(t, InvfLevel)
  BY <1>1, TermAtHand
<1>. PICK N \in Nat \ {0}, b \in Nat : N = Len(t.list) /\ b = t.k
  BY <1>2
<1>. PICK v : v = InvfLevel
  OBVIOUS
<1>3. i \in 0 .. N - 1
  <2>1. i \in 0 .. N /\ (at # "top" => i < N)
    BY <1>2 DEF AtPosting
  <2>2. at = "top" => i < N
    BY <1>2 DEF NextPosting, InLoop
  <2>. QED BY <2>1, <2>2
<1>17. ASSUME b > 0
       PROVE  /\ i % b \in 0 .. b - 1
              /\ (i + 1) % b = IF i % b = b - 1 THEN 0 ELSE (i % b) + 1
              /\ Target(i + 1, b, "top") = BlockEnd(i, b) /\ Target(i, b, "test") = BlockEnd(i, b)
              /\ i % b = b - 1 <=> BlockEnd(i, b) = i + 1
  <2>1. i \in Nat /\ b \in Nat \ {0}
    BY <1>3, <1>17
  <2>. QED BY ONLY <2>1, BlockMoves
<1>4. /\ CurrDocNum = Doc(t, i) /\ LaidOut(t, v, codes)
      /\ pos = Start(t, v, i) + (IF at = "test" THEN HeadCodes(t, i) ELSE 0)
      /\ at # "top" => b > 0 /\ rqi.AccumMethod # "A"
      /\ b > 0 /\ rqi.AccumMethod # "A" =>
           /\ kd = b - 1 - (i % b)
           /\ Target(i, b, at) < N => /\ next_i = Target(i, b, at)
                                      /\ next_start = Start(t, v, Target(i, b, at))
                                      /\ next_doc_num = Doc(t, Target(i, b, at))
  BY <1>2 DEF AtPosting
<1>5. /\ rqi.AccumMethod # "A"
      /\ (at = "test" /\ b > 0) \/ (at = "top" /\ b = 0)
  BY <1>2, <1>4 DEF NextPosting
<1>18. PICK known \in BOOLEAN : known <=> (b > 0 /\ kd = 0 /\ i # N - 1)
  <2>. DEFINE known == b > 0 /\ kd = 0 /\ i # N - 1
  <2>. known \in BOOLEAN
    OBVIOUS
  <2>. QED OBVIOUS
<1>6. PICK doc, start, count :
        /\ doc = IF known THEN next_doc_num ELSE CurrDocNum + codes[pos + 1]
        /\ start = IF known THEN pos ELSE pos + 1
        /\ count = IF HasCounts THEN codes[start + 1] ELSE Occurrences(Terms[j]) \div N
        /\ CurrDocNum' = doc
        /\ pos' = IF HasCounts THEN start + 1 ELSE start
        /\ i' = i + 1
        /\ kd' = IF kd - 1 < 0 THEN b - 1 ELSE kd - 1
        /\ Posted(doc - 1, Weight(Terms[j], count))
  <2>. DEFINE doc   == IF known THEN next_doc_num ELSE CurrDocNum + codes[pos + 1]
              start == IF known THEN pos ELSE pos + 1
              count == IF HasCounts THEN codes[start + 1] ELSE Occurrences(Terms[j]) \div N
  <2>1. /\ CurrDocNum' = doc
        /\ pos' = IF HasCounts THEN start + 1 ELSE start
        /\ i' = i + 1
        /\ kd' = IF kd - 1 < 0 THEN b - 1 ELSE kd - 1
        /\ Posted(doc - 1, Weight(Terms[j], count))
    <3>. DEFINE known2 == b > 0 /\ kd = 0 /\ i # N - 1
    <3>1. known = known2
      BY <1>18
    <3>. QED BY <1>2, <3>1 DEF NextPosting, Posted
  <2>. HIDE DEF doc, start, count
  <2>. QED BY <2>1 DEF doc, start, count
<1>7. pos = Start(t, v, i) + HeadCodes(t, i)
  <2>1. CASE at = "test"
    BY <1>4, <2>1
  <2>2. CASE at = "top" /\ b = 0
    <3>1. HeadCodes(t, i) = 0
      BY <2>2 DEF HeadCodes, WithHead
    <3>. QED BY <1>4, <2>2, <3>1
  <2>. QED BY <1>5, <2>1, <2>2
<1>8. PICK o \in Nat, h \in 0 .. 2, g \in 0 .. 1, c \in 0 .. 1 :
        /\ o = Start(t, v, i) /\ h = HeadCodes(t, i) /\ g = GapCodes(t, i) /\ c = CountCodes(v, 1)
        /\ Start(t, v, i + 1) = o + h + g + c
  <2>1. i \in 0 .. N
    BY <1>3
  <2>2. Start(t, v, i) \in Nat
    BY <1>2, <2>1, StartFacts
  <2>3. /\ Start(t, v, i + 1) = Start(t, v, i) + HeadCodes(t, i) + GapCodes(t, i) + CountCodes(v, 1)
        /\ HeadCodes(t, i) \in 0 .. 2 /\ GapCodes(t, i) \in 0 .. 1 /\ CountCodes(v, 1) \in 0 .. 1
    BY <1>2, <1>3, StartFacts
  <2>. QED BY <2>2, <2>3
<1>9. PieceIn(t, v, codes, i)
  BY <1>3, <1>4 DEF LaidOut
<1>10. known <=> NoGap(t, i)
  <2>1. CASE b = 0
    BY <1>18, <2>1 DEF NoGap
  <2>2. CASE b > 0
    <3>1. i % b \in 0 .. b - 1
      BY <1>17, <2>2
    <3>2. kd = b - 1 - (i % b)
      BY <1>4, <1>5, <2>2
    <3>3. kd = 0 <=> i % b = b - 1
      BY ONLY <3>1, <3>2, b \in Nat
    <3>. QED BY <1>18, <2>2, <3>3 DEF NoGap
  <2>. QED BY <2>1, <2>2
<1>11. doc = Doc(t, i + 1) /\ start = o + h + g
  <2>1. CASE known
    <3>1. b > 0 /\ i % b = b - 1 /\ i # N - 1 /\ g = 0
      BY <1>8, <1>10, <2>1 DEF NoGap, GapCodes
    <3>2. Target(i, b, "test") = i + 1 /\ i + 1 < N
      BY <1>3, <1>17, <3>1
    <3>3. next_doc_num = Doc(t, i + 1)
      BY <1>4, <1>5, <3>1, <3>2
    <3>. QED BY <1>6, <1>7, <1>8, <2>1, <3>1, <3>3
  <2>2. CASE ~known
    <3>1. g = 1
      BY <1>8, <1>10, <2>2 DEF GapCodes
    <3>2. codes[(o + h) + 1] = Doc(t, i + 1) - Doc(t, i)
      BY <1>8, <1>9, <1>10, <2>2 DEF PieceIn
    <3>3. Doc(t, i + 1) \in Nat /\ Doc(t, i) \in Nat
      <4>1. i \in 0 .. N /\ i + 1 \in 0 .. N
        BY <1>3
      <4>. QED BY <1>2, <4>1 DEF IsTerm
    <3>4. doc = Doc(t, i) + (Doc(t, i + 1) - Doc(t, i))
      BY <1>4, <1>6, <1>7, <1>8, <2>2, <3>2
    <3>5. doc = Doc(t, i + 1)
      BY ONLY <3>3, <3>4
    <3>6. start = pos + 1 /\ pos = o + h
      BY <1>6, <1>7, <1>8, <2>2
    <3>7. start = o + h + g
      BY ONLY <3>1, <3>6
    <3>. QED BY <3>5, <3>7
  <2>. QED BY <2>1, <2>2
<1>12. count = CountAt(t, v, i + 1) /\ pos' = Start(t, v, i + 1)
  <2>1. CASE HasCounts
    <3>1. v >= 2 /\ c = 1
      BY <1>8, <2>1 DEF HasCounts, CountCodes
    <3>2. codes[start + 1] = t.list[i + 1].count
      BY <1>8, <1>9, <1>11, <3>1 DEF PieceIn
    <3>. QED BY <1>6, <1>8, <1>11, <2>1, <3>1, <3>2 DEF CountAt
  <2>2. CASE ~HasCounts
    <3>1. ~(v >= 2) /\ c = 0
      BY <1>8, <2>2 DEF HasCounts, CountCodes
    <3>. QED BY <1>6, <1>8, <1>11, <2>2, <3>1 DEF CountAt
  <2>. QED BY <2>1, <2>2
<1>13. at' \in Loop => at' = "top"
  BY <1>5, <1>6, PostedIs DEF Loop
<1>14. /\ UNCHANGED <<Terms, rqi, InvfLevel, j, codes, next_i, next_start, next_doc_num>>
  BY DEF NextPosting, given
<1>15. CursorInv'
  <2>1. CASE at' \notin Loop
    BY <2>1 DEF CursorInv
  <2>2. CASE at' = "top"
    <3>1. i' \in 0 .. Len(t.list) /\ CurrDocNum' = Doc(t, i')
      BY <1>3, <1>6, <1>11
    <3>2. pos' = Start(t, v, i') + (IF at' = "test" THEN HeadCodes(t, i') ELSE 0)
      <4>1. pos' = o + h + g + c /\ pos' = Start(t, v, i')
        BY <1>6, <1>8, <1>12
      <4>2. o + h + g + c \in Nat
        BY ONLY o \in Nat, h \in 0 .. 2, g \in 0 .. 1, c \in 0 .. 1
      <4>. QED BY <2>2, <4>1, <4>2
    <3>3. ASSUME b > 0
          PROVE  /\ kd' = b - 1 - (i' % b)
                 /\ Target(i', b, at') < N => /\ next_i' = Target(i', b, at')
                                              /\ next_start' = Start(t, v, Target(i', b, at'))
                                              /\ next_doc_num' = Doc(t, Target(i', b, at'))
      <4>1. /\ i % b \in 0 .. b - 1
            /\ (i + 1) % b = IF i % b = b - 1 THEN 0 ELSE (i % b) + 1
            /\ Target(i + 1, b, "top") = BlockEnd(i, b) /\ Target(i, b, "test") = BlockEnd(i, b)
        BY <1>17, <3>3
      <4>2. at = "test" /\ kd = b - 1 - (i % b)
        BY <1>4, <1>5, <3>3
      <4>3. kd' = b - 1 - ((i + 1) % b)
        <5>1. kd' = IF kd - 1 < 0 THEN b - 1 ELSE kd - 1
          BY <1>6
        <5>2. PICK r \in 0 .. b - 1 : r = i % b
          BY <4>1
        <5>4. PICK e : e = (i + 1) % b
          OBVIOUS
        <5>3. kd = b - 1 - r /\ e = IF r = b - 1 THEN 0 ELSE r + 1
          BY <4>1, <4>2, <5>2, <5>4
        <5>. QED BY ONLY <5>1, <5>2, <5>3, <5>4, b \in Nat
      <4>. QED BY <1>4, <1>5, <1>6, <1>14, <2>2, <3>3, <4>1, <4>2, <4>3
    <3>4. LaidOut(t, v, codes') /\ t = Terms'[j'] /\ v = InvfLevel' /\ UNCHANGED rqi
      BY <1>4, <1>14
    <3>. QED BY <1>5, <2>2, <3>1, <3>2, <3>3, <3>4, NextAtPosting
  <2>. QED BY <1>13, <2>1, <2>2
<1>16. Posted(Doc(t, i + 1) - 1, Weight(t, CountAt(t, v, i + 1)))
  BY <1>6, <1>11, <1>12
<1>. QED BY <1>1, <1>3, <1>4, <1>6, <1>11, <1>13, <1>15, <1>16

\* The gap, if there is one, and the count of posting m are read from place a on;
\* major is what the header says.
GapAndCount(t, m, s, major, a, doc, z, count) ==
  /\ NoGap(t, m) => major = Doc(t, m + 1)
  /\ a = Start(t, InvfLevel, m) + HeadCodes(t, m)
  /\ doc = IF NoGap(t, m) THEN major ELSE Doc(t, m) + s[a + 1]
  /\ z = IF NoGap(t, m) THEN a ELSE a + 1
  /\ count = IF HasCounts THEN s[z + 1] ELSE Occurrences(t) \div Len(t.list)

LEMMA PieceReads ==
  ASSUME NEW t, IsTerm(t), NEW v, v = InvfLevel, NEW m \in 0 .. Len(t.list) - 1,
         NEW s, PieceIn(t, v, s, m), NEW major, NEW a, NEW doc, NEW z, NEW count,
         GapAndCount(t, m, s, major, a, doc, z, count)
  PROVE  /\ doc = Doc(t, m + 1) /\ count = CountAt(t, v, m + 1)
         /\ (IF HasCounts THEN z + 1 ELSE z) = Start(t, v, m + 1)
         /\ Start(t, v, m + 1) \in Nat
<1>. PICK N \in Nat \ {0} : N = Len(t.list)
  BY DEF IsTerm
<1>. PICK known \in BOOLEAN : known <=> NoGap(t, m)
  OBVIOUS
<1>1. /\ known => major = Doc(t, m + 1)
      /\ a = Start(t, v, m) + HeadCodes(t, m)
      /\ doc = IF known THEN major ELSE Doc(t, m) + s[a + 1]
      /\ z = IF known THEN a ELSE a + 1
      /\ count = IF HasCounts THEN s[z + 1] ELSE Occurrences(t) \div Len(t.list)
  BY DEF GapAndCount
<1>8. PICK o \in Nat, h \in 0 .. 2, g \in 0 .. 1, c \in 0 .. 1 :
        /\ o = Start(t, v, m) /\ h = HeadCodes(t, m) /\ g = GapCodes(t, m) /\ c = CountCodes(v, 1)
        /\ Start(t, v, m + 1) = o + h + g + c
  <2>1. m \in 0 .. N /\ m + 1 \in 0 .. N
    OBVIOUS
  <2>2. Start(t, v, m) \in Nat
    BY <2>1, StartFacts
  <2>3. /\ Start(t, v, m + 1) = Start(t, v, m) + HeadCodes(t, m) + GapCodes(t, m) + CountCodes(v, 1)
        /\ HeadCodes(t, m) \in 0 .. 2 /\ GapCodes(t, m) \in 0 .. 1 /\ CountCodes(v, 1) \in 0 .. 1
    BY StartFacts
  <2>. QED BY <2>2, <2>3
<1>11. doc = Doc(t, m + 1) /\ z = o + h + g
  <2>1. CASE known
    <3>1. g = 0
      BY <1>8, <2>1 DEF GapCodes
    <3>. QED BY <1>1, <1>8, <2>1, <3>1
  <2>2. CASE ~known
    <3>1. g = 1
      BY <1>8, <2>2 DEF GapCodes
    <3>2. s[(o + h) + 1] = Doc(t, m + 1) - Doc(t, m)
      BY <1>8, <2>2 DEF PieceIn
    <3>3. Doc(t, m + 1) \in Nat /\ Doc(t, m) \in Nat
      <4>1. m \in 0 .. N /\ m + 1 \in 0 .. N
        OBVIOUS
      <4>. QED BY <4>1 DEF IsTerm
    <3>4. doc = Doc(t, m) + (Doc(t, m + 1) - Doc(t, m))
      BY <1>1, <1>8, <2>2, <3>2
    <3>5. doc = Doc(t, m + 1)
      BY ONLY <3>3, <3>4
    <3>. QED BY <1>1, <1>8, <2>2, <3>1, <3>5
  <2>. QED BY <2>1, <2>2
<1>13. o + h + g \in Nat /\ o + h + g + c \in Nat
  BY ONLY o \in Nat, h \in 0 .. 2, g \in 0 .. 1, c \in 0 .. 1
<1>12. count = CountAt(t, v, m + 1) /\ (IF HasCounts THEN z + 1 ELSE z) = o + h + g + c
  <2>1. CASE HasCounts
    <3>1. v >= 2 /\ c = 1
      BY <1>8, <2>1 DEF HasCounts, CountCodes
    <3>2. s[z + 1] = t.list[m + 1].count
      BY <1>8, <1>11, <3>1 DEF PieceIn
    <3>. QED BY <1>1, <1>11, <1>13, <2>1, <3>1, <3>2 DEF CountAt
  <2>2. CASE ~HasCounts
    <3>1. ~(v >= 2) /\ c = 0
      BY <1>8, <2>2 DEF HasCounts, CountCodes
    <3>. QED BY <1>1, <1>11, <1>13, <2>2, <3>1 DEF CountAt
  <2>. QED BY <2>1, <2>2
<1>. QED BY <1>8, <1>11, <1>12, <1>13

LEMMA StartTermReads ==
  ASSUME RankedTypes, StartTerm
  PROVE  /\ at = "term" /\ at' = "top" /\ j \in 1 .. Len(Terms) /\ i' = 0
         /\ CurrDocNum' = 0 /\ CursorInv' /\ UNCHANGED <<given, j>>
<1>1. j \in 1 .. Len(Terms) /\ Terms \in Queries
  <2>1. NumTerms \in 0 .. Len(Terms) /\ j \in 1 .. Len(Terms) + 1 /\ j <= NumTerms
        /\ Len(Terms) \in Nat
    BY TermsToRead, QueryFacts DEF RankedTypes, StartTerm
  <2>. QED BY <2>1 DEF RankedTypes
<1>. PICK t, v : t = Terms[j] /\ v = InvfLevel
  OBVIOUS
<1>2. IsTerm(t)
  BY <1>1, QueryFacts
<1>. PICK b \in Nat, N \in Nat : b = t.k /\ N = Len(t.list)
  BY <1>2 DEF IsTerm
<1>3. /\ at = "term" /\ at' = "top" /\ i' = 0 /\ pos' = 0 /\ CurrDocNum' = 0
      /\ next_i' = 0 /\ next_start' = 0 /\ next_doc_num' = 0
      /\ kd' = (IF rqi.AccumMethod = "A" THEN 0 ELSE b - 1)
      /\ codes' = Codes(t) /\ UNCHANGED <<given, j>>
  BY DEF StartTerm, k
<1>4. LaidOut(t, v, codes')
  BY <1>2, <1>3, CodesLaidOut
<1>5. Start(t, v, 0) = 0 /\ Doc(t, 0) = 0
  BY <1>2, StartFacts DEF Doc
<1>6. ASSUME b > 0 PROVE i' % b = 0 /\ Target(i', b, at') = 0
  <2>1. 0 % b = 0
    <3>1. b \in Nat \ {0} /\ 0 \in Nat /\ 0 * b + 0 = 0 /\ 0 < b
      BY <1>6
    <3>. QED BY <3>1
  <2>. QED BY <1>3, <2>1 DEF Target
<1>7. b > 0 => b - 1 = b - 1 - 0
  OBVIOUS
<1>8. t = Terms'[j'] /\ v = InvfLevel' /\ UNCHANGED rqi
  BY <1>3 DEF given
<1>9. CursorInv'
  <2>1. i' \in 0 .. Len(t.list) /\ CurrDocNum' = Doc(t, i')
    BY <1>3, <1>5
  <2>2. pos' = Start(t, v, i') + (IF at' = "test" THEN HeadCodes(t, i') ELSE 0)
    BY <1>3, <1>5
  <2>3. b > 0 /\ rqi.AccumMethod # "A" =>
           /\ kd' = b - 1 - (i' % b)
           /\ Target(i', b, at') < N =>
                /\ next_i' = Target(i', b, at')
                /\ next_start' = Start(t, v, Target(i', b, at'))
                /\ next_doc_num' = Doc(t, Target(i', b, at'))
    BY <1>3, <1>5, <1>6, <1>7
  <2>4. b > 0 /\ rqi.AccumMethod = "A" =>
           /\ kd' = i' % b \/ (i' % b = 0 /\ kd' = b)
           /\ i' % b # 0 /\ BlockEnd(i', b) < N => next_doc_num' = Doc(t, BlockEnd(i', b))
    BY <1>3, <1>6
  <2>. QED BY <1>3, <1>4, <1>8, <2>1, <2>2, <2>3, <2>4, NextAtPosting
<1>. QED BY <1>1, <1>3, <1>9

LEMMA HopMoves ==
  ASSUME RankedTypes, CursorInv, Hop, NEW t, t = Terms[j]
  PROVE  /\ at \in Loop /\ at' = "header" /\ rqi.AccumMethod # "A" /\ Anding
         /\ i \in 0 .. Len(t.list) /\ i' \in i .. Len(t.list) - 1
         /\ CurrDocNum = Doc(t, i) /\ CurrDocNum' = Doc(t, i') /\ acc[next].DocNum > Doc(t, i')
         /\ CursorInv'
<1>1. at \in {"test", "top"} /\ at \in Loop /\ rqi.AccumMethod # "A" /\ CanSkip /\ at' = "header"
  BY DEF Hop, Loop
<1>2. /\ IsTerm(t) /\ j \in 1 .. Len(Terms) /\ p = Len(t.list) /\ k = t.k
      /\ t.k \in Nat /\ Len(t.list) \in Nat \ {0} /\ AtPosting(t, InvfLevel)
  BY <1>1, TermAtHand
<1>. PICK N \in Nat \ {0}, b \in Nat : N = Len(t.list) /\ b = t.k
  BY <1>2
<1>. PICK v : v = InvfLevel
  OBVIOUS
<1>3. i \in 0 .. N /\ CurrDocNum = Doc(t, i) /\ b > 0 /\ LaidOut(t, v, codes)
      /\ kd = b - 1 - (i % b)
      /\ (Target(i, b, at) < N => /\ next_i = Target(i, b, at)
                                  /\ next_start = Start(t, v, Target(i, b, at))
                                  /\ next_doc_num = Doc(t, Target(i, b, at)))
  <2>1. b > 0
    BY <1>1, <1>2 DEF Hop, AtPosting
  <2>. QED BY <1>1, <1>2, <2>1 DEF AtPosting
<1>. PICK y : y = Target(i, b, at)
  OBVIOUS
<1>4. Anding /\ i + b < N /\ acc[next].DocNum > next_doc_num
  BY <1>1, <1>2 DEF CanSkip
<1>5. y \in i .. N - 1 /\ y % b = 0 /\ Target(y, b, "header") = y
  <2>1. i \in Nat /\ b \in Nat \ {0}
    BY <1>3
  <2>2. i % b \in 0 .. b - 1 /\ BlockEnd(i, b) \in Nat /\ BlockEnd(i, b) > i
         /\ BlockEnd(i, b) <= i + b /\ BlockEnd(i, b) % b = 0
    BY ONLY <2>1, BlockMoves
  <2>3. (y = i /\ i % b = 0) \/ y = BlockEnd(i, b)
    BY DEF Target
  <2>4. y \in i .. N - 1
    <3>. PICK e \in Nat : e = BlockEnd(i, b)
      BY <2>2
    <3>1. e > i /\ e <= i + b /\ (y = i \/ y = e)
      BY <2>2, <2>3
    <3>2. i \in Nat /\ i + b < N
      BY <1>4, <2>1
    <3>. QED BY ONLY <3>1, <3>2, e \in Nat, N \in Nat \ {0}, b \in Nat
  <2>5. y % b = 0
    BY <2>2, <2>3
  <2>. QED BY <2>4, <2>5 DEF Target
<1>6. /\ i' = y /\ pos' = Start(t, v, y) /\ CurrDocNum' = Doc(t, y) /\ kd' = b - 1
      /\ next_i' = y /\ next_start' = Start(t, v, y) /\ next_doc_num' = Doc(t, y)
      /\ next_doc_num = Doc(t, y) /\ codes' = codes /\ UNCHANGED <<given, j>>
  BY <1>2, <1>3, <1>5 DEF Hop
<1>7. t = Terms'[j'] /\ v = InvfLevel' /\ UNCHANGED rqi
  BY <1>6 DEF given
<1>8. CursorInv'
  <2>1. i' \in 0 .. Len(t.list) /\ i' < Len(t.list) /\ CurrDocNum' = Doc(t, i')
    BY <1>3, <1>5, <1>6
  <2>2. pos' = Start(t, v, i') + (IF at' = "test" THEN HeadCodes(t, i') ELSE 0)
    <3>1. y \in 0 .. N
      BY <1>3, <1>5
    <3>2. Start(t, v, y) \in Nat
      BY <1>2, <3>1, StartFacts
    <3>. QED BY <1>1, <1>6, <3>2
  <2>3. /\ kd' = b - 1 - (i' % b)
        /\ Target(i', b, at') < N =>
             /\ next_i' = Target(i', b, at')
             /\ next_start' = Start(t, v, Target(i', b, at'))
             /\ next_doc_num' = Doc(t, Target(i', b, at'))
    BY <1>1, <1>5, <1>6
  <2>. QED BY <1>1, <1>3, <1>5, <1>6, <1>7, <2>1, <2>2, <2>3, NextAtPosting
<1>. QED BY <1>1, <1>3, <1>4, <1>5, <1>6, <1>8

LEMMA ReadHeaderReads ==
  ASSUME RankedTypes, CursorInv, ReadHeader, NEW t, t = Terms[j]
  PROVE  /\ at \in Loop /\ at' = "test" /\ rqi.AccumMethod # "A"
         /\ i \in 0 .. Len(t.list) - 1 /\ CurrDocNum = Doc(t, i)
         /\ UNCHANGED <<i, CurrDocNum>> /\ CursorInv'
<1>1. at \in {"header", "top"} /\ at \in Loop /\ rqi.AccumMethod # "A" /\ at' = "test"
  BY DEF ReadHeader, Loop
<1>2. /\ IsTerm(t) /\ j \in 1 .. Len(Terms) /\ p = Len(t.list) /\ k = t.k
      /\ t.k \in Nat /\ Len(t.list) \in Nat \ {0} /\ AtPosting(t, InvfLevel)
  BY <1>1, TermAtHand
<1>. PICK N \in Nat \ {0}, b \in Nat : N = Len(t.list) /\ b = t.k
  BY <1>2
<1>. PICK v : v = InvfLevel
  OBVIOUS
<1>0. b > 0 /\ i \in 0 .. N - 1
  <2>1. CASE at = "header"
    BY <1>2, <2>1 DEF AtPosting
  <2>2. CASE at = "top"
    BY <1>2, <2>2 DEF AtPosting, ReadHeader, InLoop
  <2>. QED BY <1>1, <2>1, <2>2
<1>3. CurrDocNum = Doc(t, i) /\ LaidOut(t, v, codes) /\ pos = Start(t, v, i) + 0
      /\ kd = b - 1 - (i % b)
      /\ (Target(i, b, at) < N => /\ next_i = Target(i, b, at)
                                  /\ next_start = Start(t, v, Target(i, b, at))
                                  /\ next_doc_num = Doc(t, Target(i, b, at)))
  BY <1>0, <1>1, <1>2 DEF AtPosting
<1>4. /\ UNCHANGED <<given, j, codes, i, kd, CurrDocNum>>
      /\ IF kd = b - 1
         THEN IF i + b < N
              THEN /\ next_doc_num' = next_doc_num + codes[pos + 1]
                   /\ next_i' = next_i + b
                   /\ pos' = pos + 2
                   /\ next_start' = pos + 2 + codes[pos + 2]
              ELSE /\ next_doc_num' = -1
                   /\ UNCHANGED <<next_i, pos, next_start>>
         ELSE UNCHANGED <<next_doc_num, next_i, pos, next_start>>
  BY <1>2 DEF ReadHeader
<1>5. /\ i % b \in 0 .. b - 1 /\ BlockEnd(i, b) \in Nat
      /\ Target(i, b, "test") = BlockEnd(i, b)
      /\ i % b = 0 => BlockEnd(i, b) = i + b /\ Target(i, b, at) = i
      /\ i % b # 0 => Target(i, b, at) = BlockEnd(i, b)
  <2>1. i \in Nat /\ b \in Nat \ {0} /\ at # "test"
    BY <1>0, <1>1
  <2>2. /\ i % b \in 0 .. b - 1 /\ BlockEnd(i, b) \in Nat
        /\ Target(i, b, "test") = BlockEnd(i, b)
        /\ i % b = 0 => BlockEnd(i, b) = i + b
    BY ONLY <2>1, BlockMoves
  <2>. QED BY <2>1, <2>2 DEF Target
<1>6. kd = b - 1 <=> i % b = 0
  <2>. PICK r \in 0 .. b - 1 : r = i % b
    BY <1>5
  <2>1. kd = b - 1 - r
    BY <1>3
  <2>. QED BY ONLY <2>1, b \in Nat, r \in 0 .. b - 1, r = i % b
<1>7. Start(t, v, i) \in Nat
  <2>1. i \in 0 .. N
    BY <1>0
  <2>. QED BY <1>2, <2>1, StartFacts
<1>8. /\ pos' = Start(t, v, i) + HeadCodes(t, i)
      /\ BlockEnd(i, b) < N => /\ next_i' = BlockEnd(i, b)
                               /\ next_start' = Start(t, v, BlockEnd(i, b))
                               /\ next_doc_num' = Doc(t, BlockEnd(i, b))
  <2>1. CASE i % b = 0 /\ i + b < N
    <3>1. WithHead(t, i) /\ HeadCodes(t, i) = 2
      BY <1>0, <2>1 DEF WithHead, HeadCodes
    <3>2. PieceIn(t, v, codes, i)
      BY <1>0, <1>3 DEF LaidOut
    <3>3. codes[pos + 1] = Doc(t, i + b) - Doc(t, i)
          /\ codes[pos + 2] = (b - 1) + CountCodes(v, b)
      BY <1>3, <1>7, <3>1, <3>2 DEF PieceIn
    <3>4. i \in Nat /\ Start(t, v, i + b) = Start(t, v, i) + 2 + ((b - 1) + CountCodes(v, b))
      BY <1>0, <1>2, <3>1, BlockIsSkipped
    <3>5. Doc(t, i) \in Nat /\ Doc(t, i + b) \in Nat
      <4>1. i \in 0 .. N /\ i + b \in 0 .. N
        BY <1>0, <2>1
      <4>. QED BY <1>2, <4>1 DEF IsTerm
    <3>6. next_i = i /\ next_doc_num = Doc(t, i)
      BY <1>0, <1>3, <1>5, <2>1
    <3>7. next_doc_num' = Doc(t, i) + (Doc(t, i + b) - Doc(t, i))
      BY <1>4, <1>6, <2>1, <3>3, <3>6
    <3>8. next_doc_num' = Doc(t, i + b)
      BY ONLY <3>5, <3>7
    <3>9. pos' = pos + 2 /\ next_i' = i + b /\ next_start' = pos + 2 + codes[pos + 2]
      BY <1>4, <1>6, <2>1, <3>6
    <3>10. pos = Start(t, v, i)
      BY <1>3, <1>7
    <3>11. next_start' = Start(t, v, i + b)
      BY <3>3, <3>4, <3>9, <3>10
    <3>. QED BY <1>5, <2>1, <3>1, <3>8, <3>9, <3>10, <3>11
  <2>2. CASE i % b = 0 /\ ~(i + b < N)
    <3>1. HeadCodes(t, i) = 0 /\ pos' = pos
      BY <1>4, <1>6, <2>2 DEF WithHead, HeadCodes
    <3>. QED BY <1>3, <1>5, <2>2, <3>1
  <2>3. CASE i % b # 0
    <3>1. HeadCodes(t, i) = 0 /\ UNCHANGED <<next_doc_num, next_i, pos, next_start>>
      BY <1>4, <1>6, <2>3 DEF WithHead, HeadCodes
    <3>. QED BY <1>3, <1>5, <2>3, <3>1
  <2>. QED BY <2>1, <2>2, <2>3
<1>9. t = Terms'[j'] /\ v = InvfLevel' /\ UNCHANGED rqi
  BY <1>4 DEF given
<1>10. CursorInv'
  <2>0. i' = i /\ CurrDocNum' = CurrDocNum
    BY <1>4
  <2>1. i' \in 0 .. Len(t.list) /\ i' < Len(t.list) /\ CurrDocNum' = Doc(t, i')
    BY <1>0, <1>3, <2>0
  <2>2. pos' = Start(t, v, i') + (IF at' = "test" THEN HeadCodes(t, i') ELSE 0)
    BY <1>1, <1>4, <1>8
  <2>3. /\ kd' = b - 1 - (i' % b)
        /\ Target(i', b, at') < N =>
             /\ next_i' = Target(i', b, at')
             /\ next_start' = Start(t, v, Target(i', b, at'))
             /\ next_doc_num' = Doc(t, Target(i', b, at'))
    BY <1>1, <1>3, <1>4, <1>5, <1>8
  <2>4. LaidOut(t, v, codes')
    BY <1>3, <1>4
  <2>. QED BY <1>0, <1>1, <1>9, <2>1, <2>2, <2>3, <2>4, NextAtPosting
<1>. QED BY <1>0, <1>1, <1>3, <1>4, <1>10

LEMMA ArrayPostingReads ==
  ASSUME RankedTypes, CursorInv, ArrayPosting, NEW t, t = Terms[j]
  PROVE  /\ at \in Loop /\ at' = at /\ i \in 0 .. Len(t.list) - 1 /\ i' = i + 1
         /\ acc' = [acc EXCEPT ![Doc(t, i + 1)].Sum =
                                   @ + Weight(t, CountAt(t, InvfLevel, i + 1))]
         /\ CursorInv'
<1>1. at = "top" /\ at \in Loop /\ rqi.AccumMethod = "A" /\ at' = "top" /\ InLoop
  BY DEF ArrayPosting, Loop
<1>2. /\ IsTerm(t) /\ j \in 1 .. Len(Terms) /\ p = Len(t.list) /\ k = t.k
      /\ t.k \in Nat /\ Len(t.list) \in Nat \ {0} /\ AtPosting(t, InvfLevel)
  BY <1>1, TermAtHand
<1>. PICK N \in Nat \ {0}, b \in Nat : N = Len(t.list) /\ b = t.k
  BY <1>2
<1>. PICK v : v = InvfLevel
  OBVIOUS
<1>3. i \in 0 .. N - 1
  BY <1>1, <1>2 DEF AtPosting, InLoop
<1>17. ASSUME b > 0
       PROVE  /\ i % b \in 0 .. b - 1 /\ BlockEnd(i, b) \in Nat
              /\ (i + 1) % b = IF i % b = b - 1 THEN 0 ELSE (i % b) + 1
              /\ i % b = 0 => BlockEnd(i, b) = i + b
              /\ i % b = b - 1 <=> BlockEnd(i, b) = i + 1
              /\ i % b # b - 1 => BlockEnd(i + 1, b) = BlockEnd(i, b)
  <2>1. i \in Nat /\ b \in Nat \ {0}
    BY <1>3, <1>17
  <2>. QED BY ONLY <2>1, BlockMoves
<1>4. /\ CurrDocNum = Doc(t, i) /\ LaidOut(t, v, codes) /\ pos = Start(t, v, i) + 0
      /\ b > 0 => /\ kd = i % b \/ (i % b = 0 /\ kd = b)
                  /\ i % b # 0 /\ BlockEnd(i, b) < N => next_doc_num = Doc(t, BlockEnd(i, b))
  BY <1>1, <1>2 DEF AtPosting
<1>5. Start(t, v, i) \in Nat /\ PieceIn(t, v, codes, i) /\ pos = Start(t, v, i)
  <2>1. i \in 0 .. N
    BY <1>3
  <2>2. Start(t, v, i) \in Nat
    BY <1>2, <2>1, StartFacts
  <2>. QED BY <1>3, <1>4, <2>2 DEF LaidOut
<1>. PICK kd0 : kd0 = IF kd = b THEN 0 ELSE kd
  OBVIOUS
<1>. PICK header \in BOOLEAN : header <=> (b > 0 /\ kd0 = 0 /\ i + b < N)
  OBVIOUS
<1>. PICK major : major = IF header THEN CurrDocNum + codes[pos + 1] ELSE next_doc_num
  OBVIOUS
<1>. PICK start : start = IF header THEN pos + 2 ELSE pos
  OBVIOUS
<1>. PICK known \in BOOLEAN : known <=> (b > 0 /\ kd0 = b - 1 /\ i # N - 1)
  OBVIOUS
<1>. PICK doc : doc = IF known THEN major ELSE CurrDocNum + codes[start + 1]
  OBVIOUS
<1>. PICK after : after = IF known THEN start ELSE start + 1
  OBVIOUS
<1>. PICK count : count = IF HasCounts THEN codes[after + 1] ELSE Occurrences(t) \div N
  OBVIOUS
<1>6. /\ next_doc_num' = major
      /\ CurrDocNum' = doc
      /\ pos' = IF HasCounts THEN after + 1 ELSE after
      /\ kd' = kd0 + 1
      /\ acc' = [acc EXCEPT ![doc].Sum = @ + Weight(t, count)]
  BY <1>2 DEF ArrayPosting
<1>7. b > 0 => kd0 = i % b
  <2>. SUFFICES ASSUME b > 0 PROVE kd0 = i % b
    OBVIOUS
  <2>. PICK r \in 0 .. b - 1 : r = i % b
    BY <1>17
  <2>1. kd = r \/ (r = 0 /\ kd = b)
    BY <1>4
  <2>2. r # b
    OBVIOUS
  <2>. QED BY <1>6, <2>1, <2>2
<1>8. header <=> WithHead(t, i)
  BY <1>6, <1>7 DEF WithHead
<1>9. known <=> NoGap(t, i)
  BY <1>6, <1>7 DEF NoGap
<1>10. start = Start(t, v, i) + HeadCodes(t, i)
  BY <1>5, <1>6, <1>8 DEF HeadCodes
<1>11. b > 0 /\ BlockEnd(i, b) < N => major = Doc(t, BlockEnd(i, b))
  <2>. SUFFICES ASSUME b > 0, BlockEnd(i, b) < N PROVE major = Doc(t, BlockEnd(i, b))
    OBVIOUS
  <2>1. CASE i % b = 0
    <3>1. header /\ BlockEnd(i, b) = i + b /\ i + b < N
      BY <1>6, <1>7, <1>17, <2>1
    <3>2. codes[pos + 1] = Doc(t, i + b) - Doc(t, i)
      BY <1>5, <1>8, <3>1 DEF PieceIn
    <3>3. Doc(t, i) \in Nat /\ Doc(t, i + b) \in Nat
      <4>1. i \in 0 .. N /\ i + b \in 0 .. N
        BY <1>3, <3>1, SMTT(30)
      <4>. QED BY <1>2, <4>1 DEF IsTerm
    <3>4. major = Doc(t, i) + (Doc(t, i + b) - Doc(t, i))
      BY <1>4, <1>6, <3>1, <3>2
    <3>5. major = Doc(t, i + b)
      BY ONLY <3>3, <3>4
    <3>. QED BY <3>1, <3>5
  <2>2. CASE i % b # 0
    BY <1>4, <1>6, <1>7, <2>2
  <2>. QED BY <2>1, <2>2
<1>12. known => major = Doc(t, i + 1)
  <2>. SUFFICES ASSUME known PROVE major = Doc(t, i + 1)
    OBVIOUS
  <2>1. b > 0 /\ i % b = b - 1 /\ i # N - 1
    BY <1>9 DEF NoGap
  <2>2. BlockEnd(i, b) = i + 1 /\ i + 1 < N
    BY <1>3, <1>17, <2>1
  <2>. QED BY <1>11, <2>1, <2>2
<1>13. /\ doc = Doc(t, i + 1) /\ count = CountAt(t, v, i + 1) /\ pos' = Start(t, v, i + 1)
       /\ Start(t, v, i + 1) \in Nat
  <2>1. GapAndCount(t, i, codes, major, start, doc, after, count)
    BY <1>4, <1>9, <1>10, <1>12 DEF GapAndCount
  <2>2. i \in 0 .. Len(t.list) - 1 /\ v = InvfLevel
    BY <1>3
  <2>3. /\ doc = Doc(t, i + 1) /\ count = CountAt(t, v, i + 1)
        /\ (IF HasCounts THEN after + 1 ELSE after) = Start(t, v, i + 1)
        /\ Start(t, v, i + 1) \in Nat
    BY ONLY <1>2, <1>5, <2>1, <2>2, PieceReads
  <2>. QED BY <1>6, <2>3
<1>14. UNCHANGED <<given, j, codes>> /\ i' = i + 1
  BY DEF ArrayPosting
<1>15. t = Terms'[j'] /\ v = InvfLevel' /\ UNCHANGED rqi
  BY <1>14 DEF given
<1>16. CursorInv'
  <2>1. i' \in 0 .. Len(t.list) /\ CurrDocNum' = Doc(t, i')
    BY <1>3, <1>6, <1>13, <1>14
  <2>2. pos' = Start(t, v, i') + (IF at' = "test" THEN HeadCodes(t, i') ELSE 0)
    BY <1>1, <1>13, <1>14
  <2>3. ASSUME b > 0
        PROVE  /\ kd' = i' % b \/ (i' % b = 0 /\ kd' = b)
               /\ i' % b # 0 /\ BlockEnd(i', b) < N => next_doc_num' = Doc(t, BlockEnd(i', b))
    <3>1. i' % b = (IF i % b = b - 1 THEN 0 ELSE (i % b) + 1) /\ kd' = (i % b) + 1
          /\ i % b \in 0 .. b - 1
      BY <1>6, <1>7, <1>14, <1>17, <2>3
    <3>2. kd' = i' % b \/ (i' % b = 0 /\ kd' = b)
      <4>. PICK r \in 0 .. b - 1 : r = i % b
        BY <3>1
      <4>. PICK e : e = i' % b
        OBVIOUS
      <4>1. e = (IF r = b - 1 THEN 0 ELSE r + 1) /\ kd' = r + 1
        BY <3>1
      <4>2. kd' = e \/ (e = 0 /\ kd' = b)
        BY ONLY <4>1, r \in 0 .. b - 1, b \in Nat
      <4>. QED BY <4>2
    <3>3. i' % b # 0 => BlockEnd(i', b) = BlockEnd(i, b)
      BY <1>14, <1>17, <2>3, <3>1
    <3>. QED BY <1>6, <1>11, <2>3, <3>2, <3>3
  <2>4. LaidOut(t, v, codes')
    BY <1>4, <1>14
  <2>. QED BY <1>1, <1>15, <2>1, <2>2, <2>3, <2>4, NextAtPosting
<1>. QED BY <1>1, <1>3, <1>6, <1>13, <1>14, <1>16

-----------------------------------------------------------------------------
\* What is recorded of a posting.

\* Posting i + 1 of term t, for document d.
Posting(t, d) ==
  /\ at \in Loop /\ at' = "top" /\ rqi.AccumMethod # "A" /\ t = Terms[j]
  /\ Len(t.list) \in Nat /\ i \in 0 .. Len(t.list) - 1 /\ i' = i + 1
  /\ CurrDocNum \in Nat /\ CurrDocNum <= d /\ CurrDocNum' = d + 1
  /\ UNCHANGED <<given, j, Anding, Sorted>>

Recorded(d, w) ==
  /\ acc' \in Seq(Entries) /\ sup' \in Seq(Entries)
  /\ supsize' \in Nat /\ Len(sup') <= supsize' /\ Abort' \in BOOLEAN
  /\ \A e \in Nat : (Anding => e \in Numbers(acc)) =>
       SumIn(acc', e) + SumIn(sup', e)
         = (SumIn(acc, e) + SumIn(sup, e)) + (IF e = d THEN w ELSE 0)
  /\ Anding => Numbers(acc') = Numbers(acc)
  /\ ~Anding => Numbers(acc') \cup Numbers(sup') = (Numbers(acc) \cup Numbers(sup)) \cup {d}
  /\ TableInv' /\ WalkInv'

LEMMA EntryAt ==
  ASSUME NEW q \in Seq(Entries), NEW x \in DOMAIN q
  PROVE  q[x] \in Entries /\ q[x].DocNum \in Nat /\ q[x].Sum \in Int
<1>1. q[x] \in Entries
  OBVIOUS
<1>. QED BY <1>1 DEF Entries

LEMMA EntryOf ==
  ASSUME NEW d \in Nat, NEW w \in Nat
  PROVE  Entry(d, w) \in Entries /\ Entry(d, w).DocNum = d /\ Entry(d, w).Sum = w
         /\ \A e : Part(Entry(d, w), e) = IF e = d THEN w ELSE 0
BY DEF Entry, Entries, Part

LEMMA AppendKeeps ==
  ASSUME NEW q \in Seq(Entries), NEW e \in Entries
  PROVE  /\ Distinct(q) /\ e.DocNum \notin Numbers(q) => Distinct(Append(q, e))
         /\ \A m \in Nat : (\A x \in DOMAIN q : q[x].DocNum < m) /\ e.DocNum < m =>
              \A x \in DOMAIN Append(q, e) : Append(q, e)[x].DocNum < m
<1>. PICK r : r = Append(q, e)
  OBVIOUS
<1>. PICK N \in Nat : N = Len(q) /\ DOMAIN q = 1 .. N
  OBVIOUS
<1>1. /\ DOMAIN r = 1 .. N + 1 /\ r[N + 1] = e /\ \A x \in 1 .. N : r[x] = q[x]
  OBVIOUS
<1>2. \A x \in 1 .. N + 1 : x = N + 1 \/ x \in 1 .. N
  OBVIOUS
<1>3. ASSUME Distinct(q), e.DocNum \notin Numbers(q) PROVE Distinct(r)
  <2>. SUFFICES ASSUME NEW x \in 1 .. N + 1, NEW y \in 1 .. N + 1, r[x].DocNum = r[y].DocNum
                PROVE  x = y
    BY <1>1 DEF Distinct
  <2>1. CASE x \in 1 .. N /\ y \in 1 .. N
    BY <1>1, <1>3, <2>1 DEF Distinct
  <2>2. CASE x = N + 1 /\ y \in 1 .. N
    BY <1>1, <1>3, <2>2 DEF Numbers
  <2>3. CASE y = N + 1 /\ x \in 1 .. N
    BY <1>1, <1>3, <2>3 DEF Numbers
  <2>. QED BY <1>2, <2>1, <2>2, <2>3
<1>4. ASSUME NEW m \in Nat, \A x \in DOMAIN q : q[x].DocNum < m, e.DocNum < m
      PROVE  \A x \in DOMAIN r : r[x].DocNum < m
  BY <1>1, <1>2, <1>4
<1>. QED BY <1>3, <1>4

LEMMA AndedRight ==
  ASSUME RankedTypes, TableInv, WalkInv, NEW t, NEW d \in Nat, NEW w \in Nat, Posting(t, d),
         Anding, AddIfPresent(d, w)
  PROVE  Recorded(d, w)
<1>. PICK N \in Nat : N = Len(acc) /\ DOMAIN acc = 1 .. N
  BY DEF RankedTypes, Posting, Active
<1>0. at \in Active
  BY DEF Posting, Active
<1>1. acc \in Seq(Entries) /\ Ascending(acc) /\ sup = <<>> /\ ~rqi.StopAtMaxAccum
      /\ next \in 1 .. N + 1 /\ \A x \in 1 .. next - 1 : acc[x].DocNum < CurrDocNum
  BY <1>0 DEF TableInv, WalkInv, Posting, RankedTypes
<1>. DEFINE S == {m \in next .. Len(acc) : acc[m].DocNum >= d} \cup {Len(acc) + 1}
<1>. PICK n_ : n_ = Min(S)
  OBVIOUS
<1>2. n_ \in next .. N + 1 /\ (\A x \in 1 .. N : x < n_ => acc[x].DocNum < d)
      /\ (n_ <= N => acc[n_].DocNum >= d)
  <2>1. S \in SUBSET Nat /\ N + 1 \in S
    BY <1>1
  <2>2. n_ \in S /\ \A x \in S : n_ <= x
    <3>. HIDE DEF S
    <3>. QED BY <2>1, LeastPlace
  <2>3. n_ \in next .. N + 1 /\ (n_ <= N => acc[n_].DocNum >= d)
    BY <1>1, <2>2
  <2>4. ASSUME NEW x \in 1 .. N, x < n_ PROVE acc[x].DocNum < d
    <3>0. acc[x].DocNum \in Nat
      BY <1>1, EntryAt
    <3>1. CASE x < next
      <4>1. acc[x].DocNum < CurrDocNum
        BY <1>1, <3>1
      <4>. QED BY <3>0, <4>1 DEF Posting
    <3>2. CASE ~(x < next)
      <4>1. x \in next .. Len(acc)
        BY <1>1, <3>2
      <4>2. x \notin S
        <5>1. ~(n_ <= x)
          BY <1>1, <2>3, <2>4
        <5>. QED BY ONLY <2>2, <5>1
      <4>. QED BY <3>0, <4>1, <4>2
    <3>. QED BY <3>1, <3>2
  <2>. QED BY <2>3, <2>4
<1>. PICK present \in BOOLEAN : present <=> (n_ <= N /\ acc[n_].DocNum = d)
  OBVIOUS
<1>3. /\ acc' = IF present THEN Grown(acc, n_, w) ELSE acc
      /\ next' = IF present THEN n_ + 1 ELSE n_
      /\ UNCHANGED <<sup, supsize, Abort>>
  BY DEF AddIfPresent, Grown
<1>4. present => n_ \in DOMAIN acc /\ acc[n_].DocNum = d
  BY <1>1, <1>2
<1>5. d \in Numbers(acc) => present
  <2>. SUFFICES ASSUME NEW x \in 1 .. N, acc[x].DocNum = d PROVE present
    BY DEF Numbers
  <2>1. ~(x < n_)
    BY <1>2
  <2>2. n_ <= N /\ acc[n_].DocNum >= d /\ n_ \in 1 .. N
    BY <1>1, <1>2, <2>1
  <2>3. n_ < x => acc[n_].DocNum < acc[x].DocNum
    BY <1>1, <2>2 DEF Ascending
  <2>4. acc[n_].DocNum \in Nat
    BY <1>1, <2>2, EntryAt
  <2>5. n_ = x
    BY <1>1, <1>2, <2>1, <2>2, <2>3, <2>4
  <2>. QED BY <2>2, <2>5
<1>6. /\ acc' \in Seq(Entries) /\ Len(acc') = N /\ DOMAIN acc' = 1 .. N
      /\ \A x \in 1 .. N : acc'[x].DocNum = acc[x].DocNum
      /\ Numbers(acc') = Numbers(acc) /\ Ascending(acc')
      /\ \A e \in Numbers(acc) : SumIn(acc', e) = SumIn(acc, e) + (IF e = d THEN w ELSE 0)
  <2>1. CASE present
    <3>. PICK r : r = Grown(acc, n_, w)
      OBVIOUS
    <3>1. acc \in Seq(Entries) /\ n_ \in DOMAIN acc /\ acc' = r
      BY <1>1, <1>3, <1>4, <2>1
    <3>2. /\ r \in Seq(Entries) /\ Len(r) = Len(acc) /\ DOMAIN r = DOMAIN acc
          /\ \A x \in DOMAIN acc : r[x].DocNum = acc[x].DocNum
          /\ Numbers(r) = Numbers(acc)
          /\ Ascending(acc) => Ascending(r)
          /\ \A e : SumIn(r, e) = SumIn(acc, e) + (IF acc[n_].DocNum = e THEN w ELSE 0)
      BY ONLY <3>1, r = Grown(acc, n_, w), w \in Nat, GrowRight
    <3>. QED BY <1>1, <1>4, <2>1, <3>1, <3>2
  <2>2. CASE ~present
    <3>1. acc' = acc
      BY <1>3, <2>2
    <3>2. \A e \in Numbers(acc) : e # d /\ SumIn(acc, e) \in Int
      BY <1>1, <1>5, <2>2, AmountIs
    <3>. QED BY <1>1, <3>1, <3>2
  <2>. QED BY <2>1, <2>2
<1>7. /\ acc' \in Seq(Entries) /\ sup' \in Seq(Entries)
      /\ supsize' \in Nat /\ Len(sup') <= supsize' /\ Abort' \in BOOLEAN
  BY <1>3, <1>6 DEF RankedTypes
<1>8. \A e \in Nat : (Anding => e \in Numbers(acc)) =>
        SumIn(acc', e) + SumIn(sup', e)
          = (SumIn(acc, e) + SumIn(sup, e)) + (IF e = d THEN w ELSE 0)
  <2>. SUFFICES ASSUME NEW e \in Numbers(acc)
       PROVE  SumIn(acc', e) + SumIn(sup', e)
                = (SumIn(acc, e) + SumIn(sup, e)) + (IF e = d THEN w ELSE 0)
    OBVIOUS
  <2>1. SumIn(sup, e) = 0 /\ SumIn(sup', e) = 0 /\ SumIn(acc, e) \in Int /\ SumIn(acc', e) \in Int
    BY <1>1, <1>3, <1>6, SumOfNone, AmountIs
  <2>. QED BY <1>6, <2>1
<1>9. TableInv'
  <2>1. /\ Anding' /\ rqi' = rqi /\ rqi.AccumMethod # "A" /\ ~rqi.StopAtMaxAccum
        /\ Ascending(acc') /\ sup' = <<>> /\ at' = "top"
    BY <1>1, <1>3, <1>6 DEF Posting, given
  <2>2. Distinct(acc') /\ Distinct(sup') /\ Numbers(acc') \cap Numbers(sup') = {}
    <3>1. DOMAIN sup' = {}
      BY <2>1
    <3>. QED BY <1>6, <2>1, <3>1, AscendingDistinct DEF Distinct, Numbers
  <2>. QED BY <2>1, <2>2 DEF TableInv
<1>10. WalkInv'
  <2>1. next' \in 1 .. N + 1
    BY <1>1, <1>2, <1>3
  <2>2. ASSUME NEW x \in 1 .. next' - 1 PROVE acc'[x].DocNum < d + 1
    <3>1. x \in 1 .. N /\ (x < n_ \/ (x = n_ /\ present))
      BY <1>1, <1>2, <1>3, <2>1
    <3>2. acc[x].DocNum \in Nat
      BY <1>1, <3>1, EntryAt
    <3>3. acc[x].DocNum <= d
      BY <1>2, <1>4, <3>1, <3>2
    <3>. QED BY <1>6, <3>1, <3>2, <3>3
  <2>3. sup' = <<>> /\ CurrDocNum' = d + 1 /\ Len(acc') = N
    BY <1>1, <1>3, <1>6 DEF Posting
  <2>4. \A x \in DOMAIN sup' : FALSE
    BY <2>3
  <2>. QED BY <2>1, <2>2, <2>3, <2>4 DEF WalkInv
<1>. QED BY <1>6, <1>7, <1>8, <1>9, <1>10 DEF Recorded

LEMMA SplayedRight ==
  ASSUME RankedTypes, TableInv, WalkInv, NEW t, NEW d \in Nat, NEW w \in Nat, Posting(t, d),
         ~Anding, rqi.AccumMethod = "S", SplayAdd(d, w)
  PROVE  Recorded(d, w)
<1>0. at \in Active /\ at # "decoded"
  BY DEF Posting, Active, Loop
<1>1. acc \in Seq(Entries) /\ Ascending(acc) /\ sup = <<>>
      /\ (rqi.StopAtMaxAccum /\ ~Abort => ~FullOf(rqi, Len(acc)))
  BY <1>0 DEF TableInv, RankedTypes
<1>. PICK e \in Entries : e = Entry(d, w) /\ e.DocNum = d
                          /\ \A c : Part(e, c) = IF c = d THEN w ELSE 0
  BY EntryOf
<1>2. acc' = AddTo(acc, e) /\ UNCHANGED <<next, sup, supsize>>
      /\ (IF Place(acc, d) # {} THEN UNCHANGED Abort ELSE AbortIfFull(Len(acc')))
  BY DEF SplayAdd
<1>3. /\ acc' \in Seq(Entries)
      /\ Len(acc') = IF d \in Numbers(acc) THEN Len(acc) ELSE Len(acc) + 1
      /\ Numbers(acc') = Numbers(acc) \cup {d}
      /\ \A c : SumIn(acc', c) = SumIn(acc, c) + (IF c = d THEN w ELSE 0)
      /\ Ascending(acc')
  <2>. PICK r : r = AddTo(acc, e)
    OBVIOUS
  <2>1. /\ r \in Seq(Entries)
        /\ Len(r) = IF e.DocNum \in Numbers(acc) THEN Len(acc) ELSE Len(acc) + 1
        /\ Numbers(r) = Numbers(acc) \cup {e.DocNum}
        /\ \A c : SumIn(r, c) = SumIn(acc, c) + Part(e, c)
        /\ Ascending(acc) => Ascending(r)
    BY <1>1, AddToRight
  <2>. QED BY <1>1, <1>2, <2>1
<1>4. Abort' \in BOOLEAN /\ (rqi.StopAtMaxAccum /\ ~Abort' => ~FullOf(rqi, Len(acc')))
  <2>1. CASE d \in Numbers(acc)
    BY <1>1, <1>2, <1>3, <2>1, PlaceRight DEF RankedTypes
  <2>2. CASE d \notin Numbers(acc)
    <3>1. AbortIfFull(Len(acc'))
      BY <1>1, <1>2, <2>2, PlaceRight
    <3>. QED BY <3>1 DEF AbortIfFull, Full, FullOf
  <2>. QED BY <2>1, <2>2
<1>5. sup' = <<>> /\ \A c : SumIn(sup, c) = 0 /\ SumIn(sup', c) = 0 /\ SumIn(acc, c) \in Int
                              /\ SumIn(acc', c) \in Int
  BY <1>1, <1>2, <1>3, SumOfNone, AmountIs
<1>6. ASSUME NEW c \in Nat
      PROVE  SumIn(acc', c) + SumIn(sup', c)
               = (SumIn(acc, c) + SumIn(sup, c)) + (IF c = d THEN w ELSE 0)
  BY <1>3, <1>5
<1>7. Numbers(sup) = {} /\ Numbers(sup') = {}
  <2>1. DOMAIN sup = {} /\ DOMAIN sup' = {}
    BY <1>1, <1>5
  <2>. QED BY <2>1 DEF Numbers
<1>8. Numbers(acc') \cup Numbers(sup') = (Numbers(acc) \cup Numbers(sup)) \cup {d}
  BY <1>3, <1>7
<1>9. TableInv' /\ WalkInv'
  <2>1. /\ ~Anding' /\ rqi' = rqi /\ rqi.AccumMethod = "S" /\ at' = "top"
    BY DEF Posting, given
  <2>2. TableInv'
    BY <1>3, <1>4, <1>5, <2>1 DEF TableInv
  <2>3. \A x \in DOMAIN sup' : FALSE
    BY <1>5
  <2>. QED BY <1>5, <2>1, <2>2, <2>3 DEF WalkInv
<1>10. supsize' \in Nat /\ Len(sup') <= supsize' /\ sup' \in Seq(Entries)
  BY <1>2 DEF RankedTypes
<1>. QED BY <1>3, <1>4, <1>6, <1>8, <1>9, <1>10 DEF Recorded

LEMMA ListedRight ==
  ASSUME RankedTypes, TableInv, WalkInv, NEW t, NEW d \in Nat, NEW w \in Nat, Posting(t, d),
         ~Anding, rqi.AccumMethod = "L", ListAdd(d, w), Terms \in Queries
  PROVE  Recorded(d, w)
<1>0. at \in Active /\ at \in Loop /\ at # "decoded"
  BY DEF Posting, Active, Loop
<1>1. acc \in Seq(Entries) /\ sup = <<>> /\ Len(acc) = Lens(Terms, j - 1) + i
  BY <1>0 DEF TableInv, RankedTypes, Read
<1>. PICK e \in Entries : e = Entry(d, w) /\ e.DocNum = d
                          /\ \A c : Part(e, c) = IF c = d THEN w ELSE 0
  BY EntryOf
<1>2. acc' = Append(acc, e) /\ UNCHANGED <<next, sup, supsize>> /\ AbortIfFull(Len(acc'))
  BY DEF ListAdd, Posting
<1>3. /\ acc' \in Seq(Entries) /\ Len(acc') = Len(acc) + 1
      /\ Numbers(acc') = Numbers(acc) \cup {d}
      /\ \A c : SumIn(acc', c) = SumIn(acc, c) + (IF c = d THEN w ELSE 0)
  BY <1>1, <1>2, AppendRight
<1>4. Abort' \in BOOLEAN /\ (rqi.StopAtMaxAccum /\ ~Abort' => ~FullOf(rqi, Len(acc')))
  BY <1>2 DEF AbortIfFull, Full, FullOf
<1>5. sup' = <<>> /\ \A c : SumIn(sup, c) = 0 /\ SumIn(sup', c) = 0 /\ SumIn(acc, c) \in Int
                              /\ SumIn(acc', c) \in Int
  BY <1>1, <1>2, <1>3, SumOfNone, AmountIs
<1>6. ASSUME NEW c \in Nat
      PROVE  SumIn(acc', c) + SumIn(sup', c)
               = (SumIn(acc, c) + SumIn(sup, c)) + (IF c = d THEN w ELSE 0)
  BY <1>3, <1>5
<1>7. Numbers(sup) = {} /\ Numbers(sup') = {}
  <2>1. DOMAIN sup = {} /\ DOMAIN sup' = {}
    BY <1>1, <1>5
  <2>. QED BY <2>1 DEF Numbers
<1>8. Numbers(acc') \cup Numbers(sup') = (Numbers(acc) \cup Numbers(sup)) \cup {d}
  BY <1>3, <1>7
<1>9. TableInv' /\ WalkInv'
  <2>1. /\ ~Anding' /\ rqi' = rqi /\ rqi.AccumMethod = "L" /\ at' = "top" /\ Terms' = Terms
        /\ j' = j /\ i' = i + 1
    BY DEF Posting, given
  <2>2. Len(acc') = Lens(Terms, j - 1) + (i + 1)
    <3>1. j - 1 \in 0 .. Len(Terms)
      BY <1>0, QueryFacts DEF RankedTypes
    <3>2. Lens(Terms, j - 1) \in Int /\ i \in Int
      BY <3>1, LensFacts DEF Posting
    <3>. QED BY <1>1, <1>3, <3>2
  <2>3. TableInv'
    <3>1. Len(acc') = Lens(Terms', j' - 1) + Read'
      BY <2>1, <2>2 DEF Read, Loop
    <3>. QED BY <1>4, <1>5, <2>1, <3>1 DEF TableInv
  <2>4. \A x \in DOMAIN sup' : FALSE
    BY <1>5
  <2>. QED BY <1>5, <2>1, <2>3, <2>4 DEF WalkInv
<1>10. supsize' \in Nat /\ Len(sup') <= supsize' /\ sup' \in Seq(Entries)
  BY <1>2 DEF RankedTypes
<1>. QED BY <1>3, <1>4, <1>6, <1>8, <1>9, <1>10 DEF Recorded

LEMMA HashedRight ==
  ASSUME RankedTypes, TableInv, WalkInv, NEW t, NEW d \in Nat, NEW w \in Nat, Posting(t, d),
         ~Anding, rqi.AccumMethod = "H", HashAdd(d, w)
  PROVE  Recorded(d, w)
<1>0. at \in Active /\ at \in Loop /\ at # "decoded"
  BY DEF Posting, Active, Loop
<1>1. /\ acc \in Seq(Entries) /\ sup \in Seq(Entries) /\ supsize \in Nat /\ Len(sup) <= supsize
      /\ Len(acc) \in Nat /\ Len(sup) \in Nat /\ Abort \in BOOLEAN
      /\ Distinct(acc) /\ Distinct(sup) /\ Numbers(acc) \cap Numbers(sup) = {}
      /\ sup # <<>> => FullOf(rqi, Len(acc))
      /\ rqi.StopAtMaxAccum /\ ~Abort => ~FullOf(rqi, Len(acc))
      /\ \A x \in DOMAIN sup : sup[x].DocNum < CurrDocNum
      /\ sup # <<>> => Len(sup) + (Len(t.list) - i) <= supsize
  BY <1>0 DEF TableInv, RankedTypes, WalkInv, Posting
<1>2. /\ ~Anding' /\ rqi' = rqi /\ rqi.AccumMethod = "H" /\ at' = "top" /\ Terms'[j'] = t
      /\ i' = i + 1 /\ CurrDocNum' = d + 1 /\ p = Len(t.list)
      /\ \A x \in DOMAIN sup : sup[x].DocNum < d + 1
  <2>1. \A x \in DOMAIN sup : sup[x].DocNum < d + 1
    <3>. TAKE x \in DOMAIN sup
    <3>1. sup[x].DocNum \in Nat /\ sup[x].DocNum < CurrDocNum
      BY <1>1, EntryAt
    <3>. QED BY <3>1 DEF Posting
  <2>. QED BY <2>1 DEF Posting, given, p
<1>3. d \notin Numbers(sup)
  <2>. SUFFICES ASSUME NEW x \in DOMAIN sup, sup[x].DocNum = d PROVE FALSE
    BY DEF Numbers
  <2>1. d < CurrDocNum
    BY <1>1
  <2>. QED BY <2>1 DEF Posting
<1>4. Terms' = Terms /\ j' = j
  BY DEF Posting, given
\* The table after the step.
<1>5. ASSUME acc' \in Seq(Entries), sup' \in Seq(Entries), supsize' \in Nat, Abort' \in BOOLEAN,
             Len(sup') <= supsize',
             Distinct(acc'), Distinct(sup'), Numbers(acc') \cap Numbers(sup') = {},
             sup' # <<>> => FullOf(rqi, Len(acc')),
             rqi.StopAtMaxAccum /\ ~Abort' => ~FullOf(rqi, Len(acc')),
             \A x \in DOMAIN sup' : sup'[x].DocNum < d + 1,
             sup' # <<>> => Len(sup') + (Len(t.list) - (i + 1)) <= supsize',
             \A c \in Nat : SumIn(acc', c) + SumIn(sup', c)
                              = (SumIn(acc, c) + SumIn(sup, c)) + (IF c = d THEN w ELSE 0),
             Numbers(acc') \cup Numbers(sup') = (Numbers(acc) \cup Numbers(sup)) \cup {d}
      PROVE  Recorded(d, w)
  <2>1. TableInv'
    BY <1>2, <1>5 DEF TableInv
  <2>2. WalkInv'
    BY <1>2, <1>5 DEF WalkInv
  <2>. QED BY <1>5, <2>1, <2>2 DEF Recorded
<1>. PICK e \in Entries : e = Entry(d, w) /\ e.DocNum = d
                          /\ \A c : Part(e, c) = IF c = d THEN w ELSE 0
  BY EntryOf
<1>6. \A c : SumIn(acc, c) \in Int /\ SumIn(sup, c) \in Int
  BY <1>1, AmountIs
<1>7. CASE Place(acc, d) # {}
  <2>. PICK z : z = Max(Place(acc, d))
    OBVIOUS
  <2>. PICK r : r = Grown(acc, z, w)
    OBVIOUS
  <2>1. d \in Numbers(acc) /\ z \in DOMAIN acc /\ acc[z].DocNum = d
    BY <1>1, <1>7, PlaceRight
  <2>2. /\ r \in Seq(Entries) /\ Len(r) = Len(acc) /\ Numbers(r) = Numbers(acc)
        /\ Distinct(acc) => Distinct(r)
        /\ \A c : SumIn(r, c) = SumIn(acc, c) + (IF acc[z].DocNum = c THEN w ELSE 0)
    BY <1>1, <2>1, GrowRight
  <2>3. acc' = r /\ UNCHANGED <<sup, supsize, Abort>>
    BY <1>7 DEF HashAdd, Grown
  <2>4. ASSUME NEW c \in Nat
        PROVE  SumIn(acc', c) + SumIn(sup', c)
                 = (SumIn(acc, c) + SumIn(sup, c)) + (IF c = d THEN w ELSE 0)
    <3>1. SumIn(acc', c) = SumIn(acc, c) + (IF c = d THEN w ELSE 0) /\ SumIn(sup', c) = SumIn(sup, c)
      BY <2>1, <2>2, <2>3
    <3>. PICK a \in Int, b \in Int, g \in Int : a = SumIn(acc, c) /\ b = SumIn(sup, c)
                                                /\ g = IF c = d THEN w ELSE 0
      BY <1>6
    <3>2. SumIn(acc', c) + SumIn(sup', c) = (a + g) + b
      BY <3>1
    <3>3. (a + g) + b = (a + b) + g
      BY ONLY a \in Int, b \in Int, g \in Int
    <3>. QED BY <3>2, <3>3
  <2>5. sup' # <<>> => Len(sup') + (Len(t.list) - (i + 1)) <= supsize'
    <3>1. i \in Nat /\ Len(t.list) \in Nat
      BY DEF Posting
    <3>. QED BY ONLY <1>1, <2>3, <3>1
  <2>6. Numbers(acc') \cup Numbers(sup') = (Numbers(acc) \cup Numbers(sup)) \cup {d}
    BY <2>1, <2>2, <2>3
  <2>. QED BY <1>1, <1>2, <1>5, <2>2, <2>3, <2>4, <2>5, <2>6
<1>8. CASE Place(acc, d) = {}
  <2>1. d \notin Numbers(acc)
    BY <1>1, <1>8, PlaceRight
  <2>2. rqi.MaxAccums # -1 /\ rqi.MaxAccums \in Nat
    <3>1. rqi.MaxAccums # -1
      BY <1>2, <1>8 DEF HashAdd
    <3>. QED BY <3>1, RankedConstants DEF RankedTypes
  <2>3. /\ IF Len(acc) < rqi.MaxAccums
           THEN acc' = Append(acc, e) /\ UNCHANGED <<sup, supsize>>
           ELSE /\ sup' = Append(sup, e)
                /\ supsize' = IF sup = <<>> THEN SupRoom ELSE supsize
                /\ UNCHANGED acc
        /\ AbortIfFull(Len(acc'))
    BY <1>8, <2>2 DEF HashAdd
  <2>4. Abort' \in BOOLEAN /\ (rqi.StopAtMaxAccum /\ ~Abort' => ~FullOf(rqi, Len(acc')))
    BY <2>3 DEF AbortIfFull, Full, FullOf
  <2>5. CASE Len(acc) < rqi.MaxAccums
    <3>1. acc' = Append(acc, e) /\ UNCHANGED <<sup, supsize>>
      BY <2>3, <2>5
    <3>2. sup = <<>>
      BY <1>1, <2>2, <2>5 DEF FullOf
    <3>3. /\ acc' \in Seq(Entries) /\ Numbers(acc') = Numbers(acc) \cup {d}
          /\ \A c : SumIn(acc', c) = SumIn(acc, c) + (IF c = d THEN w ELSE 0)
          /\ Distinct(acc')
      BY <1>1, <2>1, <3>1, AppendRight, AppendKeeps
    <3>4. Numbers(sup') = {} /\ \A c : SumIn(sup, c) = 0 /\ SumIn(sup', c) = 0
      <4>1. DOMAIN sup' = {}
        BY <3>1, <3>2
      <4>. QED BY <3>1, <3>2, <4>1, SumOfNone DEF Numbers
    <3>5. ASSUME NEW c \in Nat
          PROVE  SumIn(acc', c) + SumIn(sup', c)
                   = (SumIn(acc, c) + SumIn(sup, c)) + (IF c = d THEN w ELSE 0)
      <4>1. PICK a \in Int, g \in Int : a = SumIn(acc, c) /\ g = IF c = d THEN w ELSE 0
        BY <1>6
      <4>2. SumIn(acc', c) = a + g /\ SumIn(sup', c) = 0 /\ SumIn(sup, c) = 0
        BY <3>3, <3>4, <4>1
      <4>3. (a + g) + 0 = (a + 0) + g
        OBVIOUS
      <4>. QED BY <4>1, <4>2, <4>3
    <3>6. Numbers(acc') \cup Numbers(sup') = (Numbers(acc) \cup Numbers(sup)) \cup {d}
          /\ Numbers(acc') \cap Numbers(sup') = {}
      BY <3>1, <3>3, <3>4
    <3>. QED BY <1>1, <1>2, <1>5, <2>4, <3>1, <3>2, <3>3, <3>5, <3>6
  <2>6. CASE ~(Len(acc) < rqi.MaxAccums)
    <3>1. acc' = acc /\ sup' = Append(sup, e)
          /\ supsize' = IF sup = <<>> THEN SupRoom ELSE supsize
      BY <2>3, <2>6
    <3>2. FullOf(rqi, Len(acc'))
      BY <1>1, <2>2, <2>6, <3>1 DEF FullOf
    <3>3. /\ sup' \in Seq(Entries) /\ Len(sup') = Len(sup) + 1
          /\ Numbers(sup') = Numbers(sup) \cup {d}
          /\ \A c : SumIn(sup', c) = SumIn(sup, c) + (IF c = d THEN w ELSE 0)
      BY <1>1, <3>1, AppendRight
    <3>4. Distinct(sup') /\ \A x \in DOMAIN sup' : sup'[x].DocNum < d + 1
      <4>1. d + 1 \in Nat /\ d < d + 1
        OBVIOUS
      <4>. QED BY <1>1, <1>2, <1>3, <3>1, <4>1, AppendKeeps
    <3>5. supsize' \in Nat /\ Len(sup') <= supsize'
          /\ Len(sup') + (Len(t.list) - (i + 1)) <= supsize'
      <4>1. i \in 0 .. Len(t.list) - 1 /\ Len(t.list) \in Nat
        BY DEF Posting
      <4>2. CASE sup = <<>>
        <5>1. Len(sup) = 0 /\ supsize' = Len(t.list) - (i + 1) + 1
          BY <1>2, <3>1, <4>2 DEF SupRoom
        <5>. QED BY ONLY <3>3, <4>1, <5>1
      <4>3. CASE sup # <<>>
        <5>1. supsize' = supsize /\ Len(sup) + (Len(t.list) - i) <= supsize
          BY <1>1, <3>1, <4>3
        <5>2. PICK a \in Nat : a = Len(sup)
          BY <1>1
        <5>3. PICK m \in Nat : m = Len(t.list)
          BY <4>1
        <5>4. PICK z \in Nat : z = supsize
          BY <1>1
        <5>5. i \in 0 .. m - 1 /\ a + (m - i) <= z
          BY <4>1, <5>1, <5>2, <5>3, <5>4
        <5>6. a + 1 <= z /\ (a + 1) + (m - (i + 1)) <= z
          BY ONLY <5>5, a \in Nat, m \in Nat, z \in Nat
        <5>. QED BY <3>3, <5>1, <5>2, <5>3, <5>4, <5>6
      <4>. QED BY <4>2, <4>3
    <3>6. ASSUME NEW c \in Nat
          PROVE  SumIn(acc', c) + SumIn(sup', c)
                   = (SumIn(acc, c) + SumIn(sup, c)) + (IF c = d THEN w ELSE 0)
      <4>. PICK a \in Int, b \in Int, g \in Int : a = SumIn(acc, c) /\ b = SumIn(sup, c)
                                                  /\ g = IF c = d THEN w ELSE 0
        BY <1>6
      <4>1. SumIn(acc', c) = a /\ SumIn(sup', c) = b + g
        BY <3>1, <3>3
      <4>2. a + (b + g) = (a + b) + g
        OBVIOUS
      <4>. QED BY <4>1, <4>2
    <3>7. Numbers(acc') \cup Numbers(sup') = (Numbers(acc) \cup Numbers(sup)) \cup {d}
          /\ Numbers(acc') \cap Numbers(sup') = {}
      BY <1>1, <2>1, <3>1, <3>3
    <3>. QED BY <1>1, <1>5, <2>4, <3>1, <3>2, <3>3, <3>4, <3>5, <3>6, <3>7
  <2>. QED BY <2>5, <2>6
<1>. QED BY <1>7, <1>8

LEMMA PostedRight ==
  ASSUME RankedTypes, TableInv, WalkInv, NEW t, NEW d \in Nat, NEW w \in Nat, Posting(t, d),
         Posted(d, w)
  PROVE  Recorded(d, w)
<1>1. rqi.AccumMethod # "A" /\ Anding \in BOOLEAN /\ Terms \in Queries
  BY DEF Posting, RankedTypes
<1>2. CASE Anding
  BY <1>1, <1>2, PostedIs, AndedRight
<1>3. CASE ~Anding /\ rqi.AccumMethod = "S"
  BY <1>1, <1>3, PostedIs, SplayedRight
<1>4. CASE ~Anding /\ rqi.AccumMethod = "H"
  BY <1>1, <1>4, PostedIs, HashedRight
<1>5. CASE ~Anding /\ rqi.AccumMethod = "L"
  BY <1>1, <1>5, PostedIs, ListedRight
<1>. QED BY <1>1, <1>2, <1>3, <1>4, <1>5, PostedIs

-----------------------------------------------------------------------------
\* The invariant is kept by each action.

\* What a posting more gives.
LEMMA DueGrows ==
  ASSUME NEW q \in Queries, NEW v, NEW e \in Nat, NEW m \in 1 .. Len(q), NEW t, t = q[m],
         NEW c \in 0 .. Len(t.list) - 1
  PROVE  /\ Due(q, v, e, m - 1, c) \in Int
         /\ Due(q, v, e, m - 1, c + 1)
              = Due(q, v, e, m - 1, c)
                  + (IF e = Doc(t, c + 1) - 1 THEN Weight(t, CountAt(t, v, c + 1)) ELSE 0)
<1>1. IsTerm(t) /\ Len(q) \in Nat
  BY QueryFacts
<1>. PICK N \in Nat \ {0} : N = Len(t.list)
  BY <1>1 DEF IsTerm
<1>2. m - 1 \in 0 .. Len(q) /\ (m - 1) + 1 = m
  BY <1>1
<1>3. Whole(q, v, e, m - 1) \in Int
  BY <1>2, WholeFacts
<1>4. c \in 0 .. N /\ c + 1 \in 1 .. N /\ c + 1 \in 0 .. N
  OBVIOUS
<1>5. /\ GivenBy(t, v, e, c) \in Int
      /\ GivenBy(t, v, e, c + 1)
           = GivenBy(t, v, e, c) + (IF Doc(t, c + 1) = e + 1 THEN Weight(t, CountAt(t, v, c + 1)) ELSE 0)
      /\ Weight(t, CountAt(t, v, c + 1)) \in Int
  <2>1. /\ c \in 0 .. Len(t.list) /\ c \in 0 .. Len(t.list) - 1 /\ c + 1 \in 1 .. Len(t.list)
        /\ IsTerm(t) /\ e \in Nat
    BY <1>1, <1>4
  <2>2. GivenBy(t, v, e, c) \in Int
    BY ONLY <2>1, GivesFacts
  <2>3. GivenBy(t, v, e, c + 1)
           = GivenBy(t, v, e, c) + (IF Doc(t, c + 1) = e + 1 THEN Weight(t, CountAt(t, v, c + 1)) ELSE 0)
    BY ONLY <2>1, GivesFacts
  <2>4. Weight(t, CountAt(t, v, c + 1)) \in Nat
    BY ONLY <2>1, GivesFacts
  <2>. QED BY <2>2, <2>3, <2>4
<1>6. Due(q, v, e, m - 1, c) = Whole(q, v, e, m - 1) + GivenBy(t, v, e, c)
      /\ Due(q, v, e, m - 1, c + 1) = Whole(q, v, e, m - 1) + GivenBy(t, v, e, c + 1)
  BY <1>2 DEF Due
<1>7. Doc(t, c + 1) \in Nat
  BY <1>1, <1>4 DEF IsTerm
<1>8. Doc(t, c + 1) = e + 1 <=> e = Doc(t, c + 1) - 1
  BY ONLY <1>7, e \in Nat
<1>. PICK a \in Int, b \in Int, g \in Int :
       /\ a = Whole(q, v, e, m - 1) /\ b = GivenBy(t, v, e, c)
       /\ g = IF e = Doc(t, c + 1) - 1 THEN Weight(t, CountAt(t, v, c + 1)) ELSE 0
  BY <1>3, <1>5
<1>9. Due(q, v, e, m - 1, c) = a + b /\ Due(q, v, e, m - 1, c + 1) = a + (b + g)
  BY <1>5, <1>6, <1>8
<1>10. a + (b + g) = (a + b) + g
  OBVIOUS
<1>. QED BY <1>9, <1>10

LEMMA NextPostingKeeps == RankedInv /\ NextPosting => RankedInv'
<1>. SUFFICES ASSUME RankedInv, NextPosting PROVE RankedInv'
  OBVIOUS
<1>0. RankedTypes /\ CursorInv /\ SumsInv /\ AdmitInv /\ TableInv /\ WalkInv /\ AfterInv
  BY DEF RankedInv
<1>. PICK t, v : t = Terms[j] /\ v = InvfLevel
  OBVIOUS
<1>. PICK d, w : d = Doc(t, i + 1) - 1 /\ w = Weight(t, CountAt(t, InvfLevel, i + 1))
  OBVIOUS
<1>1. /\ at \in Loop /\ i \in 0 .. Len(t.list) - 1 /\ i' = i + 1
      /\ CurrDocNum = Doc(t, i) /\ CurrDocNum' = Doc(t, i + 1)
      /\ Posted(d, w)
      /\ at' \in Loop => at' = "top"
      /\ CursorInv'
  BY <1>0, NextPostingReads
<1>2. IsTerm(t) /\ j \in 1 .. Len(Terms) /\ Terms \in Queries /\ Len(t.list) \in Nat \ {0}
  BY <1>0, <1>1, TermAtHand DEF RankedTypes
<1>3. UNCHANGED <<given, j, Anding, Sorted>> /\ rqi.AccumMethod # "A" /\ at \in Active
  BY <1>1 DEF NextPosting, Active
<1>4. d \in Nat /\ w \in Nat /\ CurrDocNum \in Nat /\ CurrDocNum <= d /\ CurrDocNum' = d + 1
  <2>1. i \in 0 .. Len(t.list) /\ i + 1 \in 0 .. Len(t.list) /\ i < i + 1
        /\ i + 1 \in 1 .. Len(t.list)
    BY <1>1, <1>2
  <2>2. Doc(t, i) \in Nat /\ Doc(t, i + 1) \in Nat /\ Doc(t, i) < Doc(t, i + 1)
    BY <1>2, <2>1 DEF IsTerm
  <2>3. w \in Nat
    <3>1. 0 \in Nat
      OBVIOUS
    <3>. QED BY <1>2, <2>1, <3>1, GivesFacts
  <2>. QED BY <1>1, <2>2, <2>3
<1>5. CASE at' = "top"
  <2>1. Posting(t, d)
    BY <1>1, <1>2, <1>3, <1>4, <1>5 DEF Posting
  <2>2. Recorded(d, w)
    BY <1>0, <1>1, <1>4, <2>1, PostedRight
  <2>3. at' \in Loop /\ at' \in Active /\ Read' = i + 1 /\ Read = i /\ Begun' = Begun
        /\ UNCHANGED <<Terms, rqi, InvfLevel, j, Anding, Sorted>>
    BY <1>1, <1>3, <1>5 DEF Loop, Active, Read, Begun, given
  <2>4. RankedTypes'
    BY <1>0, <1>2, <2>2, <2>3 DEF RankedTypes, Recorded
  <2>5. SumsInv'
    <3>1. SumsRight(j - 1, i)
      BY <1>0, <1>3, <2>3 DEF SumsInv
    <3>2. ASSUME NEW e \in Nat, Anding => e \in Numbers(acc)
          PROVE  SumIn(acc', e) + SumIn(sup', e) = Due(Terms, v, e, j - 1, i + 1)
      <4>1. SumIn(acc, e) + SumIn(sup, e) = Due(Terms, v, e, j - 1, i)
        BY <3>1, <3>2 DEF SumsRight
      <4>2. SumIn(acc', e) + SumIn(sup', e)
              = (SumIn(acc, e) + SumIn(sup, e)) + (IF e = d THEN w ELSE 0)
        BY <2>2, <3>2 DEF Recorded
      <4>3. Due(Terms, v, e, j - 1, i + 1)
              = Due(Terms, v, e, j - 1, i)
                  + (IF e = Doc(t, i + 1) - 1 THEN Weight(t, CountAt(t, v, i + 1)) ELSE 0)
        BY ONLY <1>1, <1>2, e \in Nat, t = Terms[j], DueGrows
      <4>. QED BY <4>1, <4>2, <4>3
    <3>3. (Anding => Numbers(acc') = Numbers(acc)) /\ Anding' = Anding
      BY <2>2, <2>3 DEF Recorded
    <3>4. SumsRight(j - 1, Read)'
      BY <2>3, <3>2, <3>3 DEF SumsRight
    <3>. QED BY <3>4 DEF SumsInv
  <2>6. AdmitInv'
    <3>1. CASE Anding
      <4>1. PICK a \in 0 .. j - 1 : Admits(Terms, rqi, a)
        BY <1>0, <1>3, <3>1 DEF AdmitInv
      <4>2. Numbers(acc') = Numbers(acc)
        BY <2>2, <3>1 DEF Recorded
      <4>3. Admits(Terms, rqi, a)'
        BY <2>3, <4>1, <4>2 DEF Admits
      <4>. QED BY <2>3, <3>1, <4>3 DEF AdmitInv
    <3>2. CASE ~Anding
      <4>1. /\ Numbers(acc) \cup Numbers(sup) = DocsTo(Terms, j - 1) \cup First(t, i)
            /\ \A x \in 0 .. Begun - 1 : ~FullOf(rqi, SizeOf(Terms, rqi, x))
        BY <1>0, <1>3, <2>3, <3>2 DEF AdmitInv
      <4>2. Numbers(acc') \cup Numbers(sup') = (Numbers(acc) \cup Numbers(sup)) \cup {d}
        BY <2>2, <3>2 DEF Recorded
      <4>3. First(t, i + 1) = First(t, i) \cup {d}
        BY <1>1, <1>2, DocsFacts
      <4>4. Numbers(acc') \cup Numbers(sup') = DocsTo(Terms, j - 1) \cup First(t, i + 1)
        BY <4>1, <4>2, <4>3
      <4>. QED BY <2>3, <3>2, <4>1, <4>4 DEF AdmitInv
    <3>. QED BY <1>0, <3>1, <3>2 DEF RankedTypes
  <2>. QED BY <1>1, <2>2, <2>3, <2>4, <2>5, <2>6 DEF RankedInv, Recorded, AfterInv
<1>6. CASE at' # "top"
  <2>1. at' = "overrun" /\ ~Anding
    BY <1>0, <1>1, <1>3, <1>6, PostedIs DEF RankedTypes
  <2>2. UNCHANGED <<acc, sup, supsize, Abort>>
    <3>1. rqi.AccumMethod \in {"H", "L"} /\ (HashAdd(d, w) \/ ListAdd(d, w))
      <4>1. ~SplayAdd(d, w)
        BY <2>1 DEF SplayAdd
      <4>. QED BY <1>0, <1>1, <1>3, <2>1, <4>1, PostedIs
    <3>2. CASE ListAdd(d, w)
      BY <2>1, <3>2 DEF ListAdd
    <3>3. CASE HashAdd(d, w)
      <4>1. Place(acc, d) = {} /\ rqi.MaxAccums = -1
        BY <2>1, <3>3 DEF HashAdd
      <4>. QED BY <3>3, <4>1 DEF HashAdd
    <3>. QED BY <3>1, <3>2, <3>3
  <2>3. at' \notin Loop /\ at' \notin Active /\ UNCHANGED <<Terms, rqi, InvfLevel>>
    BY <1>3, <2>1 DEF Loop, Active, given
  <2>4. RankedTypes'
    BY <1>0, <1>3, <2>2, <2>3 DEF RankedTypes
  <2>5. AfterInv'
    <3>1. acc \in Seq(Entries)
      BY <1>0, <1>3 DEF RankedTypes
    <3>2. \A x \in DOMAIN acc : acc[x] \in Entries
      BY <3>1, EntryAt
    <3>3. \A x \in DOMAIN acc : "DocNum" \in DOMAIN acc[x]
      BY <3>2 DEF Entries
    <3>. QED BY <1>3, <2>1, <2>2, <3>3 DEF AfterInv
  <2>. QED BY <2>3, <2>4, <2>5 DEF RankedInv, CursorInv, SumsInv, AdmitInv, TableInv, WalkInv
<1>. QED BY <1>5, <1>6

LEMMA ArrayPostingKeeps == RankedInv /\ ArrayPosting => RankedInv'
<1>. SUFFICES ASSUME RankedInv, ArrayPosting PROVE RankedInv'
  OBVIOUS
<1>0. RankedTypes /\ CursorInv /\ SumsInv /\ AdmitInv /\ TableInv /\ WalkInv /\ AfterInv
  BY DEF RankedInv
<1>. PICK t, v : t = Terms[j] /\ v = InvfLevel
  OBVIOUS
<1>. PICK z, w : z = Doc(t, i + 1) /\ w = Weight(t, CountAt(t, InvfLevel, i + 1))
  OBVIOUS
<1>1. /\ at \in Loop /\ at' = at /\ i \in 0 .. Len(t.list) - 1 /\ i' = i + 1
      /\ acc' = Grown(acc, z, w)
      /\ CursorInv'
  BY <1>0, ArrayPostingReads DEF Grown
<1>2. IsTerm(t) /\ j \in 1 .. Len(Terms) /\ Terms \in Queries /\ Len(t.list) \in Nat \ {0}
  BY <1>0, <1>1, TermAtHand DEF RankedTypes
<1>3. /\ UNCHANGED <<Terms, rqi, InvfLevel, j, sup, supsize, Anding, Sorted, next, Abort>>
      /\ rqi.AccumMethod = "A" /\ at \in Active
      /\ Read' = i + 1 /\ Read = i /\ Begun' = Begun
  BY <1>1 DEF ArrayPosting, Active, given, Read, Begun
<1>4. /\ acc \in Seq(Entries) /\ Len(acc) = NumDocs /\ sup = <<>> /\ ~Anding
      /\ \A x \in DOMAIN acc : acc[x].DocNum = x - 1
  BY <1>0, <1>3 DEF RankedTypes, TableInv
<1>5. z \in DOMAIN acc /\ w \in Nat /\ z \in Nat
  <2>1. i + 1 \in 1 .. Len(t.list)
    BY <1>1, <1>2
  <2>2. z \in 1 .. NumDocs
    BY <1>2, <2>1 DEF IsTerm
  <2>3. DOMAIN acc = 1 .. NumDocs /\ NumDocs \in Nat
    BY <1>4, RankedConstants
  <2>4. w \in Nat
    <3>1. 0 \in Nat
      OBVIOUS
    <3>. QED BY <1>2, <2>1, <3>1, GivesFacts
  <2>. QED BY <2>2, <2>3, <2>4
<1>6. /\ acc' \in Seq(Entries) /\ Len(acc') = NumDocs /\ DOMAIN acc' = DOMAIN acc
      /\ \A x \in DOMAIN acc : acc'[x].DocNum = x - 1
      /\ \A e : SumIn(acc', e) = SumIn(acc, e) + (IF z - 1 = e THEN w ELSE 0)
  <2>1. /\ acc' \in Seq(Entries) /\ Len(acc') = Len(acc) /\ DOMAIN acc' = DOMAIN acc
        /\ \A x \in DOMAIN acc : acc'[x].DocNum = acc[x].DocNum
        /\ \A e : SumIn(acc', e) = SumIn(acc, e) + (IF acc[z].DocNum = e THEN w ELSE 0)
    <3>. PICK r : r = Grown(acc, z, w)
      OBVIOUS
    <3>1. /\ r \in Seq(Entries) /\ Len(r) = Len(acc) /\ DOMAIN r = DOMAIN acc
          /\ \A x \in DOMAIN acc : r[x].DocNum = acc[x].DocNum
          /\ \A e : SumIn(r, e) = SumIn(acc, e) + (IF acc[z].DocNum = e THEN w ELSE 0)
      BY ONLY <1>4, <1>5, r = Grown(acc, z, w), GrowRight
    <3>. QED BY <1>1, <3>1
  <2>2. acc[z].DocNum = z - 1
    BY <1>4, <1>5
  <2>. QED BY <1>4, <2>1, <2>2
<1>7. RankedTypes'
  BY <1>0, <1>1, <1>2, <1>3, <1>6 DEF RankedTypes
<1>8. SumsInv'
  <2>1. SumsRight(j - 1, i)
    BY <1>0, <1>3 DEF SumsInv
  <2>2. ASSUME NEW e \in Nat
        PROVE  SumIn(acc', e) + SumIn(sup', e) = Due(Terms, v, e, j - 1, i + 1)
    <3>1. SumIn(acc, e) + SumIn(sup, e) = Due(Terms, v, e, j - 1, i)
      BY <1>4, <2>1 DEF SumsRight
    <3>2. SumIn(sup, e) = 0 /\ SumIn(sup', e) = 0 /\ SumIn(acc, e) \in Int /\ SumIn(acc', e) \in Int
      BY <1>3, <1>4, <1>6, SumOfNone, AmountIs
    <3>3. Due(Terms, v, e, j - 1, i + 1)
            = Due(Terms, v, e, j - 1, i)
                + (IF e = Doc(t, i + 1) - 1 THEN Weight(t, CountAt(t, v, i + 1)) ELSE 0)
      BY ONLY <1>1, <1>2, e \in Nat, t = Terms[j], DueGrows
    <3>4. SumIn(acc', e) = SumIn(acc, e) + (IF e = z - 1 THEN w ELSE 0)
      BY <1>6
    <3>. QED BY <3>1, <3>2, <3>3, <3>4
  <2>3. SumsRight(j - 1, Read)'
    BY <1>3, <2>2 DEF SumsRight
  <2>. QED BY <2>3 DEF SumsInv
<1>9. AdmitInv' /\ TableInv' /\ AfterInv'
  BY <1>1, <1>3, <1>4, <1>6 DEF AdmitInv, TableInv, AfterInv
<1>10. WalkInv'
  <2>1. DOMAIN sup' = {}
    BY <1>3, <1>4
  <2>. QED BY <1>3, <1>4, <2>1 DEF WalkInv
<1>. QED BY <1>1, <1>7, <1>8, <1>9, <1>10 DEF RankedInv

\* Postings that are passed over give documents of the table nothing.
LEMMA PassedOver ==
  ASSUME RankedInv, at \in Loop, Anding, NEW t, t = Terms[j],
         NEW m \in i .. Len(t.list), next \in DOMAIN acc => acc[next].DocNum > Doc(t, m),
         NEW e \in Numbers(acc)
  PROVE  Due(Terms, InvfLevel, e, j - 1, m) = Due(Terms, InvfLevel, e, j - 1, i)
         /\ i \in 0 .. Len(t.list)
<1>0. RankedTypes /\ CursorInv /\ TableInv /\ WalkInv
  BY DEF RankedInv
<1>1. /\ IsTerm(t) /\ j \in 1 .. Len(Terms) /\ Len(t.list) \in Nat \ {0}
      /\ i \in 0 .. Len(t.list) /\ CurrDocNum = Doc(t, i)
  BY <1>0, TermAtHand DEF AtPosting
<1>. PICK N \in Nat : N = Len(t.list)
  BY <1>1
<1>2. acc \in Seq(Entries) /\ Ascending(acc) /\ next \in 1 .. Len(acc) + 1
      /\ \A x \in 1 .. next - 1 : acc[x].DocNum < CurrDocNum
  BY <1>0 DEF RankedTypes, TableInv, WalkInv, Active
<1>3. PICK y \in DOMAIN acc : acc[y].DocNum = e
  BY DEF Numbers
<1>4. e \in Nat /\ m \in 0 .. N /\ i <= m /\ i \in 0 .. N
  BY <1>1, <1>2, <1>3, EntryAt
<1>5. ASSUME NEW x \in 1 .. N, i < x, x <= m PROVE Doc(t, x) # e + 1
  <2>1. /\ Doc(t, i) \in Nat /\ Doc(t, x) \in Nat /\ Doc(t, m) \in Nat
        /\ Doc(t, i) < Doc(t, x) /\ Doc(t, x) <= Doc(t, m)
    <3>1. x \in 0 .. N /\ (x < m \/ x = m)
      BY <1>4, <1>5
    <3>2. Doc(t, i) \in Nat /\ Doc(t, x) \in Nat /\ Doc(t, m) \in Nat /\ Doc(t, i) < Doc(t, x)
          /\ (x < m => Doc(t, x) < Doc(t, m))
      BY <1>1, <1>4, <1>5, <3>1 DEF IsTerm
    <3>. QED BY <3>1, <3>2
  <2>2. CASE y < next
    <3>1. y \in 1 .. next - 1
      BY <1>2, <1>3, <2>2
    <3>2. e < Doc(t, i)
      BY <1>1, <1>2, <1>3, <3>1
    <3>. QED BY <1>4, <2>1, <3>2
  <2>3. CASE ~(y < next)
    <3>1. next \in DOMAIN acc /\ y \in DOMAIN acc /\ (next < y \/ next = y)
      BY <1>2, <1>3, <2>3
    <3>2. acc[next].DocNum \in Nat /\ acc[next].DocNum <= e
      BY <1>2, <1>3, <1>4, <3>1, EntryAt DEF Ascending
    <3>3. acc[next].DocNum > Doc(t, m)
      BY <3>1
    <3>. QED BY <1>4, <2>1, <3>2, <3>3
  <2>. QED BY <2>2, <2>3
<1>6. GivenBy(t, InvfLevel, e, m) = GivenBy(t, InvfLevel, e, i)
  BY <1>1, <1>4, <1>5, OthersGiveNothing
<1>7. (j - 1) + 1 = j
  BY <1>1, QueryFacts, <1>0 DEF RankedTypes
<1>. QED BY <1>1, <1>6, <1>7 DEF Due

LEMMA HopKeeps == RankedInv /\ Hop => RankedInv'
<1>. SUFFICES ASSUME RankedInv, Hop PROVE RankedInv'
  OBVIOUS
<1>0. RankedTypes /\ CursorInv /\ SumsInv /\ AdmitInv /\ TableInv /\ WalkInv /\ AfterInv
  BY DEF RankedInv
<1>. PICK t, v : t = Terms[j] /\ v = InvfLevel
  OBVIOUS
<1>1. /\ at \in Loop /\ at' = "header" /\ rqi.AccumMethod # "A" /\ Anding
      /\ i \in 0 .. Len(t.list) /\ i' \in i .. Len(t.list) - 1
      /\ CurrDocNum = Doc(t, i) /\ CurrDocNum' = Doc(t, i') /\ acc[next].DocNum > Doc(t, i')
      /\ CursorInv'
  BY <1>0, HopMoves
<1>2. IsTerm(t) /\ j \in 1 .. Len(Terms) /\ Len(t.list) \in Nat \ {0}
  BY <1>0, <1>1, TermAtHand
<1>3. /\ UNCHANGED <<Terms, rqi, InvfLevel, j, acc, sup, supsize, Anding, Sorted, next, Abort>>
      /\ at' \in Loop /\ at \in Active /\ at' \in Active
      /\ Read' = i' /\ Read = i /\ Begun' = Begun
  BY <1>1 DEF Hop, Active, Loop, given, table, Read, Begun
<1>4. acc \in Seq(Entries) /\ sup = <<>> /\ ~rqi.StopAtMaxAccum
  BY <1>0, <1>1, <1>3 DEF RankedTypes, TableInv
<1>5. RankedTypes'
  BY <1>0, <1>1, <1>2, <1>3 DEF RankedTypes
<1>6. SumsInv'
  <2>1. SumsRight(j - 1, i)
    BY <1>0, <1>3 DEF SumsInv
  <2>2. i' \in i .. Len(t.list)
    BY <1>1, <1>2
  <2>3. ASSUME NEW e \in Numbers(acc), e \in Nat
        PROVE  SumIn(acc, e) + SumIn(sup, e) = Due(Terms, v, e, j - 1, i')
    <3>1. Due(Terms, v, e, j - 1, i') = Due(Terms, v, e, j - 1, i)
      BY <1>1, <2>2, PassedOver
    <3>. QED BY <1>1, <2>1, <2>3, <3>1 DEF SumsRight
  <2>4. SumsRight(j - 1, Read)'
    BY <1>1, <1>3, <2>3 DEF SumsRight
  <2>. QED BY <2>4 DEF SumsInv
<1>7. AdmitInv'
  <2>1. PICK a \in 0 .. j - 1 : Admits(Terms, rqi, a)
    BY <1>0, <1>1, <1>3 DEF AdmitInv
  <2>2. Admits(Terms, rqi, a)'
    BY <1>3, <2>1 DEF Admits
  <2>. QED BY <1>1, <1>3, <2>2 DEF AdmitInv
<1>8. TableInv' /\ AfterInv'
  <2>1. Ascending(acc) /\ (rqi.AccumMethod = "H" =>
          Distinct(acc) /\ Distinct(sup) /\ Numbers(acc) \cap Numbers(sup) = {})
    BY <1>0, <1>1, <1>3 DEF TableInv
  <2>2. /\ Anding' = Anding /\ rqi' = rqi /\ acc' = acc /\ sup' = sup /\ at' = "header"
    BY <1>1, <1>3
  <2>. QED BY <1>1, <1>3, <1>4, <2>1, <2>2 DEF TableInv, AfterInv
<1>9. WalkInv'
  <2>1. Doc(t, i) \in Nat /\ Doc(t, i') \in Nat /\ Doc(t, i) <= Doc(t, i')
    <3>1. i' \in 0 .. Len(t.list) /\ (i < i' \/ i = i')
      BY <1>1, <1>2
    <3>. QED BY <1>1, <1>2, <3>1 DEF IsTerm
  <2>2. next \in 1 .. Len(acc) + 1 /\ \A x \in 1 .. next - 1 : acc[x].DocNum < Doc(t, i)
    BY <1>0, <1>1 DEF WalkInv
  <2>3. ASSUME NEW x \in 1 .. next - 1 PROVE acc[x].DocNum < Doc(t, i')
    <3>1. x \in DOMAIN acc
      BY <1>4, <2>2
    <3>2. acc[x].DocNum \in Nat /\ acc[x].DocNum < Doc(t, i)
      BY <1>4, <2>2, <3>1, EntryAt
    <3>. QED BY <2>1, <3>2
  <2>4. DOMAIN sup = {}
    BY <1>4
  <2>. QED BY <1>1, <1>3, <1>4, <2>2, <2>3, <2>4 DEF WalkInv
<1>. QED BY <1>1, <1>5, <1>6, <1>7, <1>8, <1>9 DEF RankedInv

LEMMA ReadHeaderKeeps == RankedInv /\ ReadHeader => RankedInv'
<1>. SUFFICES ASSUME RankedInv, ReadHeader PROVE RankedInv'
  OBVIOUS
<1>0. RankedTypes /\ CursorInv /\ SumsInv /\ AdmitInv /\ TableInv /\ WalkInv /\ AfterInv
  BY DEF RankedInv
<1>1. /\ at \in Loop /\ at' = "test" /\ rqi.AccumMethod # "A"
      /\ UNCHANGED <<i, CurrDocNum>> /\ CursorInv'
  BY <1>0, ReadHeaderReads
<1>2. /\ UNCHANGED <<Terms, rqi, InvfLevel, j, acc, sup, supsize, Anding, Sorted, next, Abort>>
      /\ at' \in Loop /\ at \in Active /\ at' \in Active /\ at # "decoded" /\ at' # "decoded"
      /\ Read' = Read /\ Begun' = Begun
  BY <1>1 DEF ReadHeader, Active, Loop, given, table, Read, Begun
<1>3. RankedTypes'
  BY <1>0, <1>1, <1>2 DEF RankedTypes
<1>4. SumsInv'
  BY <1>0, <1>2 DEF SumsInv, SumsRight
<1>5. AdmitInv'
  BY <1>0, <1>2 DEF AdmitInv, Admits
<1>6. TableInv' /\ AfterInv'
  BY <1>0, <1>2 DEF TableInv, AfterInv
<1>7. WalkInv'
  BY <1>0, <1>1, <1>2 DEF WalkInv
<1>. QED BY <1>1, <1>3, <1>4, <1>5, <1>6, <1>7 DEF RankedInv

-----------------------------------------------------------------------------
\* Between terms.

\* Between terms the table is as large as the documents of the terms, or full.
LEMMA SizeKnown ==
  ASSUME RankedInv, at = "term", ~Anding, rqi.AccumMethod # "A"
  PROVE  FullOf(rqi, Len(acc)) <=> FullOf(rqi, SizeOf(Terms, rqi, j - 1))
<1>1. /\ acc \in Seq(Entries) /\ sup \in Seq(Entries) /\ Terms \in Queries /\ rqi \in Infos
      /\ j \in 1 .. Len(Terms) + 1 /\ at \in Active /\ Read = 0
      /\ rqi.AccumMethod \in {"S", "H", "L"}
  BY RankedConstants DEF RankedInv, RankedTypes, Active, Read, Loop
<1>2. Numbers(acc) \cup Numbers(sup) = DocsTo(Terms, j - 1)
  <2>1. Numbers(acc) \cup Numbers(sup) = DocsTo(Terms, j - 1) \cup First(Terms[j], 0)
    BY <1>1 DEF RankedInv, AdmitInv
  <2>. QED BY <1>1, <2>1, DocsFacts
<1>3. /\ rqi.AccumMethod = "S" => Ascending(acc) /\ sup = <<>>
      /\ rqi.AccumMethod = "L" => Len(acc) = Lens(Terms, j - 1) + 0
      /\ rqi.AccumMethod = "H" =>
           /\ Distinct(acc) /\ Distinct(sup) /\ Numbers(acc) \cap Numbers(sup) = {}
           /\ sup # <<>> => FullOf(rqi, Len(acc))
  BY <1>1 DEF RankedInv, TableInv
<1>4. CASE rqi.AccumMethod = "L"
  <2>1. j - 1 \in 0 .. Len(Terms)
    BY <1>1, QueryFacts
  <2>2. Lens(Terms, j - 1) \in Int
    BY <1>1, <2>1, LensFacts
  <2>. QED BY <1>3, <1>4, <2>2 DEF SizeOf
<1>5. CASE rqi.AccumMethod # "L" /\ sup = <<>>
  <2>1. Distinct(acc)
    BY <1>1, <1>3, <1>5, AscendingDistinct
  <2>2. Numbers(acc) = DocsTo(Terms, j - 1)
    <3>1. DOMAIN sup = {}
      BY <1>5
    <3>. QED BY <1>2, <3>1 DEF Numbers
  <2>3. Cardinality(DocsTo(Terms, j - 1)) = Len(acc)
    BY <1>1, <2>1, <2>2, DistinctCounts
  <2>. QED BY <1>5, <2>3 DEF SizeOf
<1>6. CASE rqi.AccumMethod # "L" /\ sup # <<>>
  <2>1. rqi.AccumMethod = "H" /\ FullOf(rqi, Len(acc))
    BY <1>1, <1>3, <1>6
  <2>. PICK q : q = acc \o sup
    OBVIOUS
  <2>2. q \in Seq(Entries) /\ Len(q) = Len(acc) + Len(sup) /\ Distinct(q)
        /\ Numbers(q) = DocsTo(Terms, j - 1)
    BY <1>1, <1>2, <1>3, <2>1, JoinedRight
  <2>3. Cardinality(DocsTo(Terms, j - 1)) = Len(acc) + Len(sup)
    BY <2>2, DistinctCounts
  <2>4. Len(acc) \in Nat /\ Len(sup) \in Nat /\ rqi.MaxAccums \in Int
    BY <1>1, RankedConstants
  <2>5. FullOf(rqi, Len(acc) + Len(sup))
    BY <2>1, <2>4 DEF FullOf
  <2>. QED BY <1>6, <2>1, <2>3, <2>5 DEF SizeOf
<1>. QED BY <1>4, <1>5, <1>6

\* The table is brought in order when it is full.
LEMMA SortedRight ==
  ASSUME RankedInv, StartTerm, AndFromNow
  PROVE  /\ acc' \in Seq(Entries) /\ Ascending(acc')
         /\ Numbers(acc') = Numbers(acc) \cup Numbers(sup)
         /\ \A e \in Nat : SumIn(acc', e) = SumIn(acc, e) + SumIn(sup, e)
<1>1. /\ acc \in Seq(Entries) /\ sup \in Seq(Entries) /\ Sorted = Anding /\ Anding \in BOOLEAN
      /\ rqi.AccumMethod \in {"S", "H", "L"} /\ at \in Active
  BY RankedConstants DEF RankedInv, RankedTypes, Active, StartTerm, AndFromNow
<1>2. \A e : SumIn(acc, e) \in Int
  BY <1>1, AmountIs
<1>3. ASSUME sup = <<>>
      PROVE  Numbers(sup) = {} /\ \A e : SumIn(sup, e) = 0
  <2>1. DOMAIN sup = {}
    BY <1>3
  <2>. QED BY <1>3, <2>1, SumOfNone DEF Numbers
<1>4. CASE Anding \/ rqi.AccumMethod = "S"
  <2>1. acc' = acc
    <3>1. CASE Anding
      BY <1>1, <3>1 DEF StartTerm
    <3>2. CASE ~Anding /\ rqi.AccumMethod = "S"
      BY <1>1, <3>2 DEF StartTerm
    <3>. QED BY <1>4, <1>1, <3>1, <3>2
  <2>2. Ascending(acc) /\ sup = <<>>
    BY <1>1, <1>4 DEF RankedInv, TableInv
  <2>. QED BY <1>1, <1>2, <1>3, <2>1, <2>2
<1>5. CASE ~Anding /\ rqi.AccumMethod = "L"
  <2>1. acc' = LT_sort_pack
    BY <1>1, <1>5 DEF StartTerm
  <2>2. sup = <<>>
    BY <1>1, <1>5 DEF RankedInv, TableInv
  <2>3. /\ acc' \in Seq(Entries) /\ Numbers(acc') = Numbers(acc) /\ Ascending(acc')
        /\ \A e : SumIn(acc', e) = SumIn(acc, e)
    BY <1>1, <2>1, PackedRight
  <2>. QED BY <1>2, <1>3, <2>2, <2>3
<1>6. CASE ~Anding /\ rqi.AccumMethod = "H"
  <2>. PICK q : q = acc \o sup
    OBVIOUS
  <2>1. acc' = ByDocNum(q)
    BY <1>1, <1>6 DEF StartTerm, HT_sort
  <2>2. Distinct(acc) /\ Distinct(sup) /\ Numbers(acc) \cap Numbers(sup) = {}
    BY <1>1, <1>6 DEF RankedInv, TableInv
  <2>3. /\ q \in Seq(Entries) /\ Numbers(q) = Numbers(acc) \cup Numbers(sup) /\ Distinct(q)
        /\ \A e : SumIn(q, e) = SumIn(acc, e) + SumIn(sup, e)
    BY <1>1, <2>2, JoinedRight
  <2>. QED BY <2>1, <2>3, ByDocNumRight
<1>. QED BY <1>1, <1>4, <1>5, <1>6

LEMMA StartTermKeeps == RankedInv /\ StartTerm => RankedInv'
<1>. SUFFICES ASSUME RankedInv, StartTerm PROVE RankedInv'
  OBVIOUS
<1>0. RankedTypes /\ CursorInv /\ SumsInv /\ AdmitInv /\ TableInv /\ WalkInv /\ AfterInv
  BY DEF RankedInv
<1>1. /\ at = "term" /\ at' = "top" /\ j \in 1 .. Len(Terms) /\ i' = 0
      /\ CurrDocNum' = 0 /\ CursorInv' /\ UNCHANGED <<given, j>>
  BY <1>0, StartTermReads
<1>2. /\ UNCHANGED <<Terms, rqi, InvfLevel, j, supsize, Abort>> /\ ~Abort
      /\ Anding' = AndFromNow /\ sup' = (IF AndFromNow THEN <<>> ELSE sup)
      /\ Sorted' = (Sorted \/ AndFromNow) /\ next' = 1
      /\ at \in Active /\ at \notin Loop /\ at' \in Loop /\ at' \in Active
      /\ Read = 0 /\ Read' = 0 /\ Begun = j - 1 /\ Begun' = j
  BY <1>1 DEF StartTerm, Active, Loop, given, Read, Begun
<1>3. /\ Terms \in Queries /\ rqi \in Infos /\ acc \in Seq(Entries) /\ sup \in Seq(Entries)
      /\ Sorted = Anding /\ Anding \in BOOLEAN /\ supsize \in Nat /\ Len(sup) <= supsize
      /\ Len(Terms) \in Nat
  BY <1>0, <1>2, QueryFacts DEF RankedTypes
<1>4. AndFromNow \in BOOLEAN
  BY <1>3 DEF AndFromNow
<1>5. Anding => AndFromNow /\ rqi.AccumMethod # "A" /\ ~rqi.StopAtMaxAccum /\ sup = <<>>
  BY <1>0, <1>2 DEF TableInv, AndFromNow
\* No supplementary entries are kept.
<1>6. sup' = <<>>
  <2>. SUFFICES ASSUME ~AndFromNow PROVE sup = <<>>
    BY <1>2
  <2>1. rqi.AccumMethod = "A" \/ (~FullOf(rqi, Len(acc)) /\ rqi.AccumMethod \in {"S", "H", "L"})
    BY <1>3, RankedConstants DEF AndFromNow, Full, FullOf
  <2>. QED BY <1>0, <1>2, <2>1 DEF TableInv
<1>7. DOMAIN sup' = {} /\ Numbers(sup') = {} /\ (\A e : SumIn(sup', e) = 0) /\ Len(sup') = 0
      /\ sup' \in Seq(Entries)
  BY <1>6, SumOfNone DEF Numbers
<1>8. /\ acc' \in Seq(Entries)
      /\ Numbers(acc') = Numbers(acc) \cup Numbers(sup)
      /\ \A e \in Nat : SumIn(acc', e) = SumIn(acc, e) + SumIn(sup, e)
      /\ AndFromNow => Ascending(acc')
      /\ ~AndFromNow => acc' = acc
  <2>1. CASE AndFromNow
    BY <2>1, SortedRight
  <2>2. CASE ~AndFromNow
    <3>1. acc' = acc
      BY <2>2 DEF StartTerm
    <3>2. sup = <<>> /\ \A e : SumIn(acc, e) \in Int
      BY <1>2, <1>3, <1>6, <2>2, AmountIs
    <3>3. Numbers(sup) = {} /\ \A e : SumIn(sup, e) = 0
      BY <1>6, <1>7, <3>2
    <3>. QED BY <1>3, <2>2, <3>1, <3>2, <3>3
  <2>. QED BY <1>4, <2>1, <2>2
<1>9. RankedTypes'
  <2>1. Sorted' = Anding' /\ Anding' \in BOOLEAN
    BY <1>2, <1>3, <1>4, <1>5
  <2>. QED BY <1>0, <1>1, <1>2, <1>3, <1>7, <1>8, <2>1 DEF RankedTypes
<1>10. SumsInv'
  <2>1. SumsRight(j - 1, 0)
    BY <1>0, <1>2 DEF SumsInv
  <2>2. ASSUME NEW e \in Nat, AndFromNow => e \in Numbers(acc')
        PROVE  SumIn(acc', e) + SumIn(sup', e) = Due(Terms, InvfLevel, e, j - 1, 0)
    <3>1. Anding => e \in Numbers(acc)
      <4>1. Anding => Numbers(sup) = {}
        <5>1. sup = <<>> => DOMAIN sup = {}
          OBVIOUS
        <5>. QED BY <1>5, <5>1 DEF Numbers
      <4>. QED BY <1>5, <1>8, <2>2, <4>1
    <3>2. SumIn(acc, e) + SumIn(sup, e) = Due(Terms, InvfLevel, e, j - 1, 0)
      BY <2>1, <3>1 DEF SumsRight
    <3>3. SumIn(acc', e) = SumIn(acc, e) + SumIn(sup, e) /\ SumIn(acc', e) \in Int
      BY <1>8, AmountIs
    <3>. QED BY <1>7, <3>2, <3>3
  <2>3. SumsRight(j - 1, Read)'
    BY <1>2, <2>2 DEF SumsRight
  <2>. QED BY <2>3 DEF SumsInv
<1>11. ASSUME ~Anding, rqi.AccumMethod # "A"
       PROVE  /\ Numbers(acc') = DocsTo(Terms, j - 1)
              /\ \A x \in 0 .. (j - 1) - 1 : ~FullOf(rqi, SizeOf(Terms, rqi, x))
              /\ AndFromNow <=> FullOf(rqi, SizeOf(Terms, rqi, j - 1))
  <2>1. /\ Numbers(acc) \cup Numbers(sup) = DocsTo(Terms, j - 1) \cup First(Terms[j], 0)
        /\ \A x \in 0 .. (j - 1) - 1 : ~FullOf(rqi, SizeOf(Terms, rqi, x))
    BY <1>0, <1>2, <1>11 DEF AdmitInv
  <2>2. First(Terms[j], 0) = {}
    BY <1>3, DocsFacts
  <2>3. AndFromNow <=> FullOf(rqi, SizeOf(Terms, rqi, j - 1))
    BY <1>1, <1>11, SizeKnown DEF AndFromNow, Full, FullOf
  <2>. QED BY <1>8, <2>1, <2>2, <2>3
<1>12. AdmitInv'
  <2>. SUFFICES ASSUME rqi.AccumMethod # "A"
       PROVE  IF AndFromNow THEN \E a \in 0 .. j - 1 : Admits(Terms, rqi, a)'
              ELSE /\ Numbers(acc') \cup Numbers(sup') = DocsTo(Terms, j - 1) \cup First(Terms[j], 0)
                   /\ \A x \in 0 .. j - 1 : ~FullOf(rqi, SizeOf(Terms, rqi, x))
    BY <1>2 DEF AdmitInv
  <2>1. CASE Anding
    <3>1. PICK a \in 0 .. j - 1 : Admits(Terms, rqi, a)
      BY <1>0, <1>2, <2>1 DEF AdmitInv
    <3>2. Numbers(acc') = Numbers(acc)
      <4>1. acc' = acc
        BY <1>3, <2>1 DEF StartTerm
      <4>. QED BY <4>1
    <3>3. Admits(Terms, rqi, a)'
      BY <1>2, <3>1, <3>2 DEF Admits
    <3>. QED BY <1>5, <2>1, <3>3
  <2>2. CASE ~Anding /\ AndFromNow
    <3>1. PICK a \in 0 .. j - 1 : a = j - 1
      BY <1>1, <1>3
    <3>2. Admits(Terms, rqi, a)'
      BY <1>2, <1>11, <2>2, <3>1 DEF Admits
    <3>. QED BY <2>2, <3>2
  <2>3. CASE ~Anding /\ ~AndFromNow
    <3>1. \A x \in 0 .. j - 1 : x \in 0 .. (j - 1) - 1 \/ x = j - 1
      BY <1>1, <1>3
    <3>2. First(Terms[j], 0) = {}
      BY <1>3, DocsFacts
    <3>. QED BY <1>7, <1>11, <2>3, <3>1, <3>2
  <2>. QED BY <1>3, <2>1, <2>2, <2>3
<1>13. TableInv'
  <2>1. AndFromNow => rqi.AccumMethod # "A" /\ ~rqi.StopAtMaxAccum
    <3>1. CASE Anding
      BY <1>5, <3>1
    <3>2. CASE AndFromNow /\ ~Anding
      <4>1. rqi.AccumMethod # "A" /\ FullOf(rqi, Len(acc))
        BY <3>2 DEF AndFromNow, Full, FullOf
      <4>2. at # "decoded"
        BY <1>1
      <4>. QED BY <1>0, <1>2, <4>1, <4>2 DEF TableInv
    <3>. QED BY <1>3, <3>1, <3>2
  <2>2. CASE AndFromNow
    <3>1. Distinct(acc') /\ Distinct(sup')
      BY <1>7, <1>8, <2>2, AscendingDistinct DEF Distinct
    <3>. QED BY <1>1, <1>2, <1>6, <1>7, <1>8, <2>1, <2>2, <3>1 DEF TableInv
  <2>3. CASE ~AndFromNow
    <3>1. acc' = acc /\ sup' = sup /\ ~Anding
      BY <1>2, <1>3, <1>5, <1>8, <2>3
    <3>2. /\ ~Anding' /\ rqi' = rqi /\ at' = "top" /\ at # "decoded" /\ at' # "decoded"
          /\ Abort' = Abort /\ Terms' = Terms /\ j' = j /\ Read' = Read
      BY <1>1, <1>2, <2>3
    <3>. QED BY <1>0, <1>2, <3>1, <3>2 DEF TableInv
  <2>. QED BY <1>4, <2>2, <2>3
<1>14. WalkInv'
  <2>1. \A x \in 1 .. 1 - 1 : FALSE
    OBVIOUS
  <2>2. 1 \in 1 .. Len(acc') + 1
    BY <1>8
  <2>. QED BY <1>2, <1>6, <1>7, <2>1, <2>2 DEF WalkInv
<1>. QED BY <1>1, <1>2, <1>9, <1>10, <1>12, <1>13, <1>14 DEF RankedInv, AfterInv

LEMMA EndTermKeeps == RankedInv /\ EndTerm => RankedInv'
<1>. SUFFICES ASSUME RankedInv, EndTerm PROVE RankedInv'
  OBVIOUS
<1>0. RankedTypes /\ CursorInv /\ SumsInv /\ AdmitInv /\ TableInv /\ WalkInv /\ AfterInv
  BY DEF RankedInv
<1>1. /\ at = "top" /\ at' = "term" /\ j' = j + 1
      /\ UNCHANGED <<Terms, rqi, InvfLevel, acc, sup, supsize, Anding, Sorted, next, Abort>>
      /\ at \in Loop /\ at \in Active /\ at' \in Active /\ at' \notin Loop
      /\ at # "decoded" /\ at' # "decoded"
  BY DEF EndTerm, given, table, Loop, Active
<1>2. Read = i /\ Read' = 0 /\ Begun = j
  BY <1>1 DEF Read, Begun
<1>. PICK t : t = Terms[j]
  OBVIOUS
<1>3. /\ IsTerm(t) /\ j \in 1 .. Len(Terms) /\ p = Len(t.list) /\ Len(t.list) \in Nat \ {0}
      /\ i \in 0 .. Len(t.list) /\ CurrDocNum = Doc(t, i) /\ Terms \in Queries
      /\ Len(Terms) \in Nat
  BY <1>0, <1>1, TermAtHand, QueryFacts DEF AtPosting, RankedTypes
<1>. PICK N \in Nat \ {0} : N = Len(t.list)
  BY <1>3
<1>4. j' - 1 = j /\ (j - 1) + 1 = j /\ j - 1 \in 0 .. Len(Terms) - 1 /\ j \in 0 .. Len(Terms)
      /\ j' \in 1 .. Len(Terms) + 1 /\ j - 1 \in Nat
  BY <1>1, <1>3
<1>5. Begun' = j
  BY <1>1, <1>4 DEF Begun
\* The list was read to its end, or to where no document of the table follows.
<1>6. i = N \/ (Anding /\ next \notin DOMAIN acc)
  <2>1. ~(i < N) \/ (Anding /\ ~(next <= Len(acc)))
    BY <1>3 DEF EndTerm, InLoop
  <2>2. Anding => next \in 1 .. Len(acc) + 1 /\ DOMAIN acc = 1 .. Len(acc) /\ Len(acc) \in Nat
    BY <1>0, <1>1 DEF RankedTypes, WalkInv
  <2>. QED BY <1>3, <2>1, <2>2
<1>7. ASSUME NEW e \in Nat, Anding => e \in Numbers(acc)
      PROVE  Due(Terms, InvfLevel, e, j - 1, i) = Due(Terms, InvfLevel, e, j, 0)
  <2>1. Due(Terms, InvfLevel, e, j - 1, i) = Due(Terms, InvfLevel, e, j - 1, N)
    <3>1. CASE i = N
      BY <3>1
    <3>2. CASE Anding /\ next \notin DOMAIN acc
      <4>1. N \in i .. Len(t.list) /\ e \in Numbers(acc)
        BY <1>3, <1>7, <3>2
      <4>. QED BY <1>1, <3>2, <4>1, PassedOver
    <3>. QED BY <1>6, <3>1, <3>2
  <2>2. Due(Terms, InvfLevel, e, j - 1, N)
          = Whole(Terms, InvfLevel, e, j - 1) + GivenBy(t, InvfLevel, e, N)
    BY <1>4 DEF Due
  <2>3. PICK m \in 0 .. Len(Terms) - 1 : m = j - 1 /\ m + 1 = j
    BY <1>4
  <2>6. Whole(Terms, InvfLevel, e, m + 1)
          = Whole(Terms, InvfLevel, e, m) + GivenBy(Terms[m + 1], InvfLevel, e, Len(Terms[m + 1].list))
    BY ONLY <1>3, e \in Nat, WholeFacts
  <2>4. Whole(Terms, InvfLevel, e, j)
          = Whole(Terms, InvfLevel, e, j - 1) + GivenBy(t, InvfLevel, e, N)
    BY <2>3, <2>6
  <2>5. Due(Terms, InvfLevel, e, j, 0) = Whole(Terms, InvfLevel, e, j)
    <3>1. j \in 0 .. Len(Terms) /\ Terms \in Queries /\ e \in Nat
      BY <1>3, <1>4
    <3>. QED BY ONLY <3>1, WholeFacts
  <2>. QED BY <2>1, <2>2, <2>4, <2>5
<1>8. RankedTypes'
  BY <1>0, <1>1, <1>4 DEF RankedTypes
<1>9. CursorInv' /\ WalkInv' /\ AfterInv'
  BY <1>1 DEF CursorInv, WalkInv, AfterInv
<1>10. SumsInv'
  <2>1. SumsRight(j - 1, i)
    BY <1>0, <1>1, <1>2 DEF SumsInv
  <2>2. SumsRight(j, 0)
    BY <1>7, <2>1 DEF SumsRight
  <2>3. SumsRight(j - 1, Read)'
    BY <1>1, <1>2, <1>4, <2>2 DEF SumsRight
  <2>. QED BY <2>3 DEF SumsInv
<1>11. AdmitInv'
  <2>. SUFFICES ASSUME rqi.AccumMethod # "A" PROVE AdmitInv'
    BY <1>1 DEF AdmitInv
  <2>1. CASE Anding
    <3>1. PICK a \in 0 .. j - 1 : Admits(Terms, rqi, a)
      BY <1>0, <1>1, <2>1 DEF AdmitInv
    <3>2. Admits(Terms, rqi, a)'
      BY <1>1, <3>1 DEF Admits
    <3>3. a \in 0 .. j' - 1
      <4>. PICK L \in Nat : L = Len(Terms)
        BY <1>3
      <4>1. j \in 1 .. L
        BY <1>3
      <4>2. j \in Nat
        BY ONLY <4>1, L \in Nat
      <4>3. a \in 0 .. j
        BY ONLY <4>2, a \in 0 .. j - 1
      <4>. QED BY <1>4, <4>3
    <3>. QED BY <1>1, <2>1, <3>2, <3>3 DEF AdmitInv
  <2>2. CASE ~Anding
    <3>1. /\ Numbers(acc) \cup Numbers(sup) = DocsTo(Terms, j - 1) \cup First(t, i)
          /\ \A x \in 0 .. Begun - 1 : ~FullOf(rqi, SizeOf(Terms, rqi, x))
      BY <1>0, <1>1, <1>2, <2>2 DEF AdmitInv
    <3>2. First(t, i) = DocsOf(t)
      BY <1>3, <1>6, <2>2, DocsFacts
    <3>3. DocsTo(Terms, (j - 1) + 1) = DocsTo(Terms, j - 1) \cup DocsOf(Terms[(j - 1) + 1])
      BY <1>3, <1>4, DocsFacts
    <3>4. DocsTo(Terms, j) = DocsTo(Terms, j - 1) \cup DocsOf(t) /\ First(Terms[j'], 0) = {}
      BY <1>3, <1>4, <3>3, DocsFacts
    <3>5. Numbers(acc) \cup Numbers(sup) = DocsTo(Terms, j' - 1) \cup First(Terms[j'], 0)
      BY <1>4, <3>1, <3>2, <3>4
    <3>6. (Numbers(acc) \cup Numbers(sup))' = Numbers(acc) \cup Numbers(sup)
      BY <1>1 DEF Numbers
    <3>. QED BY <1>1, <1>2, <1>5, <2>2, <3>1, <3>5, <3>6 DEF AdmitInv
  <2>. QED BY <1>0, <2>1, <2>2 DEF RankedTypes
<1>12. TableInv'
  <2>1. rqi.AccumMethod = "L" /\ ~Anding => Len(acc) = Lens(Terms, j' - 1) + 0
    <3>. SUFFICES ASSUME rqi.AccumMethod = "L", ~Anding PROVE Len(acc) = Lens(Terms, j) + 0
      BY <1>4
    <3>1. Len(acc) = Lens(Terms, j - 1) + N
      BY <1>0, <1>1, <1>2, <1>6 DEF TableInv
    <3>2. Lens(Terms, (j - 1) + 1) = Lens(Terms, j - 1) + Len(Terms[(j - 1) + 1].list)
      BY <1>3, <1>4, LensFacts
    <3>3. Lens(Terms, j) = Len(acc) /\ Lens(Terms, j) \in Int
      BY <1>3, <1>4, <3>1, <3>2, LensFacts
    <3>. QED BY <3>3
  <2>. QED BY <1>0, <1>1, <1>2, <2>1 DEF TableInv
<1>. QED BY <1>8, <1>9, <1>10, <1>11, <1>12 DEF RankedInv

LEMMA ReturnTableKeeps == RankedInv /\ ReturnTable => RankedInv'
<1>. SUFFICES ASSUME RankedInv, ReturnTable PROVE RankedInv'
  OBVIOUS
<1>0. RankedTypes /\ CursorInv /\ SumsInv /\ AdmitInv /\ TableInv /\ WalkInv /\ AfterInv
  BY DEF RankedInv
<1>1. /\ at = "term" /\ at' \in {"decoded", "overrun"}
      /\ UNCHANGED <<Terms, rqi, InvfLevel, j, supsize, Anding, Sorted, Abort>>
      /\ at \in Active /\ at \notin Loop /\ at' \notin Loop
      /\ Read = 0 /\ Read' = 0 /\ Begun = j - 1 /\ Begun' = j - 1
  BY DEF ReturnTable, given, Loop, Active, Read, Begun
<1>2. /\ acc \in Seq(Entries) /\ sup \in Seq(Entries) /\ Sorted = Anding /\ Anding \in BOOLEAN
      /\ supsize \in Nat /\ Len(sup) <= supsize /\ Terms \in Queries
  BY <1>0, <1>1 DEF RankedTypes
<1>3. CASE ~(rqi.AccumMethod = "H" /\ ~Sorted)
  <2>1. at' = "decoded" /\ at' \in Active /\ UNCHANGED <<acc, sup>> /\ at # "decoded"
    BY <1>1, <1>3 DEF ReturnTable, Active
  <2>2. RankedTypes' /\ SumsInv'
    BY <1>0, <1>1, <2>1 DEF RankedTypes, SumsInv, SumsRight
  <2>3. AdmitInv'
    BY <1>0, <1>1, <2>1 DEF AdmitInv, Admits
  <2>4. TableInv'
    <3>1. rqi.AccumMethod = "H" => Anding /\ Ascending(acc) /\ sup = <<>>
      BY <1>0, <1>1, <1>2, <1>3 DEF TableInv
    <3>. QED BY <1>0, <1>1, <2>1, <3>1 DEF TableInv
  <2>. QED BY <1>1, <2>1, <2>2, <2>3, <2>4 DEF RankedInv, CursorInv, WalkInv, AfterInv
<1>4. CASE rqi.AccumMethod = "H" /\ ~Sorted
  <2>. PICK q : q = acc \o sup
    OBVIOUS
  <2>1. /\ acc' = ByDocNum(q) /\ sup' = <<>> /\ ~Anding
        /\ at' = IF acc = <<>> THEN "overrun" ELSE "decoded"
    BY <1>2, <1>4 DEF ReturnTable, HT_sort
  <2>2. Distinct(acc) /\ Distinct(sup) /\ Numbers(acc) \cap Numbers(sup) = {}
    BY <1>0, <1>1, <1>4 DEF TableInv
  <2>3. /\ q \in Seq(Entries) /\ Numbers(q) = Numbers(acc) \cup Numbers(sup) /\ Distinct(q)
        /\ \A e : SumIn(q, e) = SumIn(acc, e) + SumIn(sup, e)
    BY <1>2, <2>2, JoinedRight
  <2>4. /\ acc' \in Seq(Entries) /\ Ascending(acc') /\ Distinct(acc')
        /\ Numbers(acc') = Numbers(acc) \cup Numbers(sup)
        /\ \A e : SumIn(acc', e) = SumIn(acc, e) + SumIn(sup, e)
    BY <2>1, <2>3, ByDocNumRight, AscendingDistinct
  <2>5. DOMAIN sup' = {} /\ Numbers(sup') = {} /\ (\A e : SumIn(sup', e) = 0) /\ Len(sup') = 0
        /\ sup' \in Seq(Entries)
    BY <2>1, SumOfNone DEF Numbers
  <2>6. RankedTypes'
    BY <1>0, <1>1, <1>2, <2>4, <2>5 DEF RankedTypes
  <2>7. SumsInv'
    <3>1. SumsRight(j - 1, 0)
      BY <1>0, <1>1 DEF SumsInv
    <3>2. ASSUME NEW e \in Nat
          PROVE  SumIn(acc', e) + SumIn(sup', e) = Due(Terms, InvfLevel, e, j - 1, 0)
      <4>1. SumIn(acc', e) = Due(Terms, InvfLevel, e, j - 1, 0) /\ SumIn(acc', e) \in Int
        BY <2>1, <2>4, <3>1, AmountIs DEF SumsRight
      <4>. QED BY <2>5, <4>1
    <3>3. SumsRight(j - 1, Read)'
      BY <1>1, <3>2 DEF SumsRight
    <3>. QED BY <3>3 DEF SumsInv
  <2>8. AdmitInv'
    <3>1. /\ Numbers(acc) \cup Numbers(sup) = DocsTo(Terms, j - 1) \cup First(Terms[j], 0)
          /\ \A x \in 0 .. (j - 1) - 1 : ~FullOf(rqi, SizeOf(Terms, rqi, x))
      BY <1>0, <1>1, <1>4, <2>1 DEF AdmitInv
    <3>2. Numbers(acc') \cup Numbers(sup') = DocsTo(Terms, j - 1) \cup First(Terms[j], 0)
      BY <2>4, <2>5, <3>1
    <3>. QED BY <1>1, <2>1, <3>1, <3>2 DEF AdmitInv
  <2>9. TableInv'
    <3>1. Distinct(sup') /\ Numbers(acc') \cap Numbers(sup') = {}
      BY <2>5 DEF Distinct
    <3>2. rqi' = rqi /\ ~Anding' /\ (at' \in Active => at' = "decoded")
      BY <1>1, <2>1 DEF Active, Loop
    <3>. QED BY <1>4, <2>1, <2>4, <3>1, <3>2 DEF TableInv
  <2>10. AfterInv'
    <3>1. \A x \in DOMAIN acc' : acc'[x] \in Entries
      BY <2>4, EntryAt
    <3>2. \A x \in DOMAIN acc' : "DocNum" \in DOMAIN acc'[x]
      BY <3>1 DEF Entries
    <3>. QED BY <1>1, <2>1, <3>2 DEF AfterInv
  <2>. QED BY <1>1, <2>6, <2>7, <2>8, <2>9, <2>10 DEF RankedInv, CursorInv, WalkInv
<1>. QED BY <1>3, <1>4

-----------------------------------------------------------------------------
\* The start.

LEMMA InitRanked == Init => RankedInv
<1>. SUFFICES ASSUME Init PROVE RankedInv
  OBVIOUS
<1>1. /\ Terms \in Queries /\ rqi \in Infos /\ InvfLevel \in Levels /\ at = "term" /\ j = 1
      /\ sup = <<>> /\ supsize = 0 /\ Anding = FALSE /\ Sorted = FALSE /\ Abort = FALSE
      /\ acc = IF rqi.AccumMethod = "A" THEN [x \in 1 .. NumDocs |-> Entry(x - 1, 0)] ELSE <<>>
  BY DEF Init, AccumInit
<1>2. at \notin Loop /\ at \in Active /\ at # "decoded" /\ Read = 0 /\ Begun = 0 /\ j - 1 = 0
      /\ Len(Terms) \in Nat
  BY <1>1, QueryFacts DEF Loop, Active, Read, Begun
<1>3. DOMAIN sup = {} /\ Numbers(sup) = {} /\ (\A e : SumIn(sup, e) = 0) /\ Len(sup) = 0
      /\ sup \in Seq(Entries) /\ Distinct(sup)
  BY <1>1, SumOfNone DEF Numbers, Distinct
<1>4. acc \in Seq(Entries) /\ (\A e : SumIn(acc, e) = 0)
      /\ (rqi.AccumMethod = "A" => Len(acc) = NumDocs /\ \A x \in DOMAIN acc : acc[x].DocNum = x - 1)
      /\ (rqi.AccumMethod # "A" => acc = <<>>)
  <2>1. CASE rqi.AccumMethod = "A"
    <3>. PICK D \in Nat : D = NumDocs
      BY RankedConstants
    <3>1. acc = [x \in 1 .. D |-> Entry(x - 1, 0)]
      BY <1>1, <2>1
    <3>2. \A x \in 1 .. D : Entry(x - 1, 0) \in Entries /\ Entry(x - 1, 0).DocNum = x - 1
                            /\ Entry(x - 1, 0).Sum = 0
      BY DEF Entry, Entries
    <3>3. /\ DOMAIN acc = 1 .. D /\ acc \in Seq(Entries)
          /\ \A x \in 1 .. D : acc[x].DocNum = x - 1 /\ acc[x].Sum = 0
      BY <3>1, <3>2
    <3>4. Len(acc) = D
      BY <3>3
    <3>5. ASSUME NEW e PROVE SumIn(acc, e) = 0
      <4>1. PICK f : /\ SumIn(acc, e) = Upto(f, Len(acc))
                     /\ \A x \in 1 .. Len(acc) : f[x] = Part(acc[x], e)
        BY <3>3, AmountIs
      <4>2. \A x \in 1 .. D : f[x] = 0
        BY <3>3, <3>4, <4>1 DEF Part
      <4>. QED BY <3>4, <4>1, <4>2, UptoZero
    <3>. QED BY <2>1, <3>3, <3>4, <3>5
  <2>2. CASE rqi.AccumMethod # "A"
    BY <1>1, <2>2, SumOfNone
  <2>. QED BY <2>1, <2>2
<1>5. RankedTypes
  <2>1. j \in 1 .. Len(Terms) + 1
    BY <1>1, <1>2
  <2>2. Anding \in BOOLEAN /\ Abort \in BOOLEAN /\ Sorted = Anding
    BY <1>1
  <2>3. supsize \in Nat /\ Len(sup) <= supsize
    BY <1>1, <1>3
  <2>. QED BY <1>1, <1>2, <1>3, <1>4, <2>1, <2>2, <2>3 DEF RankedTypes
<1>6. SumsInv
  <2>1. ASSUME NEW e \in Nat PROVE Due(Terms, InvfLevel, e, 0, 0) = 0
    <3>1. 0 \in 0 .. Len(Terms)
      BY <1>2
    <3>2. Due(Terms, InvfLevel, e, 0, 0) = Whole(Terms, InvfLevel, e, 0)
      BY <1>1, <3>1, WholeFacts
    <3>3. Whole(Terms, InvfLevel, e, 0) = 0
      BY <1>1, WholeFacts
    <3>. QED BY <3>2, <3>3
  <2>2. SumsRight(j - 1, Read)
    BY <1>2, <1>3, <1>4, <2>1 DEF SumsRight
  <2>. QED BY <2>2 DEF SumsInv
<1>7. AdmitInv
  <2>. SUFFICES ASSUME rqi.AccumMethod # "A" PROVE AdmitInv
    BY DEF AdmitInv
  <2>1. Numbers(acc) = {}
    <3>1. DOMAIN acc = {}
      BY <1>4
    <3>. QED BY <3>1 DEF Numbers
  <2>2. DocsTo(Terms, 0) = {} /\ First(Terms[j], 0) = {}
    BY <1>1, DocsFacts
  <2>3. \A x \in 0 .. 0 - 1 : FALSE
    OBVIOUS
  <2>. QED BY <1>1, <1>2, <1>3, <2>1, <2>2, <2>3 DEF AdmitInv
<1>8. TableInv
  <2>1. rqi.AccumMethod # "A" => Len(acc) = 0 /\ Ascending(acc) /\ Distinct(acc) /\ Numbers(acc) = {}
    <3>. SUFFICES ASSUME rqi.AccumMethod # "A"
                  PROVE  Len(acc) = 0 /\ Ascending(acc) /\ Distinct(acc) /\ Numbers(acc) = {}
      OBVIOUS
    <3>1. DOMAIN acc = {} /\ Len(acc) = 0
      BY <1>4
    <3>. QED BY <3>1 DEF Ascending, Distinct, Numbers
  <2>2. ~FullOf(rqi, 0)
    BY <1>1, RankedConstants DEF FullOf
  <2>3. Lens(Terms, 0) = 0
    BY <1>1, LensFacts
  <2>4. rqi.AccumMethod # "A" => Len(acc) = Lens(Terms, j - 1) + Read
    BY <1>2, <2>1, <2>3
  <2>5. Anding = FALSE /\ sup = <<>>
    BY <1>1
  <2>. QED BY <1>2, <1>3, <1>4, <2>1, <2>2, <2>4, <2>5 DEF TableInv
<1>. QED BY <1>2, <1>5, <1>6, <1>7, <1>8 DEF RankedInv, CursorInv, WalkInv, AfterInv

-----------------------------------------------------------------------------
\* Ranking.

Named(q) == \A x \in DOMAIN q : "DocNum" \in DOMAIN q[x]

\* Only sums are changed.
SameDocs(q, r) ==
  /\ DOMAIN r = DOMAIN q
  /\ \A x \in DOMAIN q : r[x].DocNum = q[x].DocNum
  /\ Named(r)

LEMMA SumChanged ==
  ASSUME NEW q, Named(q), NEW z, NEW w, NEW r, r = [q EXCEPT ![z].Sum = w]
  PROVE  SameDocs(q, r)
<1>1. DOMAIN r = DOMAIN q
  OBVIOUS
<1>2. ASSUME NEW x \in DOMAIN q
      PROVE  r[x].DocNum = q[x].DocNum /\ "DocNum" \in DOMAIN r[x]
  <2>1. "DocNum" \in DOMAIN q[x]
    BY DEF Named
  <2>2. CASE x = z
    <3>1. r[x] = [q[x] EXCEPT !.Sum = w]
      BY <2>2
    <3>2. DOMAIN r[x] = DOMAIN q[x] /\ r[x].DocNum = q[x].DocNum
      BY <2>1, <3>1
    <3>. QED BY <2>1, <3>2
  <2>3. CASE x # z
    <3>1. r[x] = q[x]
      BY <2>3
    <3>. QED BY <2>1, <3>1
  <2>. QED BY <2>2, <2>3
<1>. QED BY <1>1, <1>2 DEF SameDocs, Named

LEMMA SameAgain ==
  ASSUME NEW q, NEW r, NEW s, SameDocs(q, r), SameDocs(r, s) PROVE SameDocs(q, s)
BY DEF SameDocs

\* A step of the ranking.
AfterStep ==
  /\ at' \notin Active
  /\ UNCHANGED <<given, j, sup, supsize, Anding, Sorted, Abort>>
  /\ SameDocs(acc, acc')

LEMMA AfterStepKeeps ==
  ASSUME RankedInv, AfterStep, Anding => Ascending(acc) PROVE RankedInv'
<1>1. at' \notin Active /\ at' \notin Loop
      /\ UNCHANGED <<Terms, rqi, InvfLevel, j, sup, supsize, Anding, Sorted, Abort>>
  BY DEF AfterStep, Active, given
<1>2. RankedTypes'
  BY <1>1 DEF RankedInv, RankedTypes
<1>3. AfterInv'
  <2>1. Ascending(acc) => Ascending(acc')
    BY DEF AfterStep, SameDocs, Ascending
  <2>. QED BY <1>1, <2>1 DEF AfterInv, AfterStep, SameDocs, Named
<1>. QED BY <1>1, <1>2, <1>3 DEF RankedInv, CursorInv, SumsInv, AdmitInv, TableInv, WalkInv

Ranks ==
  \/ FillHeap \/ ScanEntry \/ ScanDone \/ ExactEntry \/ TurnOver
  \/ Make_Exact_Root \/ TakeRoot \/ Return

LEMMA RanksSteps ==
  ASSUME RankedInv, Ranks PROVE AfterStep /\ (Anding => Ascending(acc))
<1>1. CASE FillHeap
  <2>1. at = "decoded" /\ at \in Active /\ at' \notin Active
    BY <1>1 DEF FillHeap, Active, Loop
  <2>2. acc \in Seq(Entries) /\ (Anding => Ascending(acc))
    BY <2>1 DEF RankedInv, RankedTypes, TableInv
  <2>3. PICK m : acc' = [x \in DOMAIN acc |-> IF x <= m THEN [acc[x] EXCEPT !.Sum = 0] ELSE acc[x]]
    BY <1>1 DEF FillHeap
  <2>4. ASSUME NEW x \in DOMAIN acc
        PROVE  acc'[x].DocNum = acc[x].DocNum /\ "DocNum" \in DOMAIN acc'[x]
    <3>1. acc[x] \in Entries
      BY <2>2, EntryAt
    <3>2. acc'[x] = [acc[x] EXCEPT !.Sum = 0] \/ acc'[x] = acc[x]
      BY <2>3
    <3>. QED BY <3>1, <3>2 DEF Entries
  <2>5. SameDocs(acc, acc')
    BY <2>3, <2>4 DEF SameDocs, Named
  <2>6. UNCHANGED <<given, j, sup, supsize, Anding, Sorted, Abort>>
    BY <1>1 DEF FillHeap
  <2>. QED BY <2>1, <2>2, <2>5, <2>6 DEF AfterStep
<1>2. CASE ~FillHeap
  <2>1. at \notin Active /\ at' \notin Active
        /\ UNCHANGED <<given, j, sup, supsize, Anding, Sorted, Abort>>
    <3>1. CASE ScanEntry
      BY <3>1 DEF ScanEntry, tablebut, Active, Loop
    <3>2. CASE ScanDone
      BY <3>2 DEF ScanDone, table, Active, Loop
    <3>3. CASE ExactEntry
      BY <3>3 DEF ExactEntry, tablebut, Active, Loop
    <3>4. CASE TurnOver
      BY <3>4 DEF TurnOver, table, Active, Loop
    <3>5. CASE Make_Exact_Root
      BY <3>5 DEF Make_Exact_Root, InTake, table, Active, Loop
    <3>6. CASE TakeRoot
      BY <3>6 DEF TakeRoot, InTake, table, Active, Loop
    <3>7. CASE Return
      BY <3>7 DEF Return, table, Active, Loop
    <3>. QED BY <1>2, <3>1, <3>2, <3>3, <3>4, <3>5, <3>6, <3>7 DEF Ranks
  <2>2. Named(acc) /\ (Anding => Ascending(acc))
    BY <2>1 DEF RankedInv, AfterInv, Named
  <2>3. SameDocs(acc, acc)
    BY <2>2 DEF SameDocs
  <2>4. SameDocs(acc, acc')
    <3>1. CASE acc' = acc
      BY <2>3, <3>1
    <3>2. CASE ScanEntry
      <4>1. acc' = acc \/ acc' = Displaced \/ \E weight : acc' = [acc EXCEPT ![n].Sum = weight]
        <5>. DEFINE weight == (Scale * acc[n].Sum) \div Approx(acc[n].DocNum + 1)
                    skipped == rqi.AccumMethod = "A" /\ acc[n].Sum = 0
        <5>1. \/ acc' = acc
              \/ acc' = [acc EXCEPT ![n].Sum = weight]
              \/ acc' = Displaced
          <6>1. (CASE skipped -> UNCHANGED <<acc, heap>>
                   [] ~skipped /\ weight <= heap[1].Weight ->
                        /\ acc' = [acc EXCEPT ![n].Sum = weight]
                        /\ UNCHANGED heap
                   [] OTHER ->
                        /\ acc' = Displaced
                        /\ heap' = ReplaceRoot(HeapEntry(weight, n, 0)))
            BY <3>2 DEF ScanEntry
          <6>. HIDE DEF weight, skipped
          <6>. QED BY <6>1
        <5>. HIDE DEF weight, skipped
        <5>. QED BY <5>1
      <4>2. CASE acc' = Displaced
        <5>. PICK q : q = [acc EXCEPT ![heap[1].OrgWeight].Sum = heap[1].Weight]
          OBVIOUS
        <5>1. acc' = [q EXCEPT ![n].Sum = 0]
          BY <4>2 DEF Displaced
        <5>2. SameDocs(acc, q) /\ Named(q)
          <6>. PICK z, w : z = heap[1].OrgWeight /\ w = heap[1].Weight
            OBVIOUS
          <6>1. q = [acc EXCEPT ![z].Sum = w]
            OBVIOUS
          <6>2. SameDocs(acc, q)
            BY ONLY <2>2, <6>1, SumChanged
          <6>. QED BY <6>2 DEF SameDocs
        <5>3. SameDocs(q, acc')
          BY <5>1, <5>2, SumChanged
        <5>. QED BY <5>2, <5>3, SameAgain
      <4>3. CASE \E weight : acc' = [acc EXCEPT ![n].Sum = weight]
        BY <2>2, <4>3, SumChanged
      <4>. QED BY <2>3, <4>1, <4>2, <4>3
    <3>3. CASE ExactEntry
      <4>1. acc' = acc \/ acc' = [acc EXCEPT ![n].Sum = 0]
        BY <3>3 DEF ExactEntry
      <4>. QED BY <2>2, <2>3, <4>1, SumChanged
    <3>4. CASE ScanDone \/ TurnOver \/ Make_Exact_Root \/ TakeRoot \/ Return
      <4>1. acc' = acc
        BY <3>4 DEF ScanDone, TurnOver, Make_Exact_Root, TakeRoot, Return, table
      <4>. QED BY <2>3, <4>1
    <3>. QED BY <1>2, <3>2, <3>3, <3>4 DEF Ranks
  <2>. QED BY <2>1, <2>2, <2>4 DEF AfterStep
<1>. QED BY <1>1, <1>2

LEMMA StutterKeeps == RankedInv /\ UNCHANGED vars => RankedInv'
<1>. SUFFICES ASSUME RankedInv, UNCHANGED vars PROVE RankedInv'
  OBVIOUS
<1>0. RankedTypes /\ CursorInv /\ SumsInv /\ AdmitInv /\ TableInv /\ WalkInv /\ AfterInv
  BY DEF RankedInv
<1>1. UNCHANGED <<Terms, rqi, InvfLevel, at, j, codes, pos, i, kd, CurrDocNum, next_i, next_start,
                  next_doc_num, acc, sup, supsize, Anding, Sorted, next, Abort>>
  BY DEF vars, accumvars, given, cursor, table
<1>2. RankedTypes'
  BY <1>0, <1>1 DEF RankedTypes
<1>3. CursorInv'
  BY <1>0, <1>1 DEF CursorInv, AtPosting
<1>4. Read' = Read /\ Begun' = Begun
  BY <1>1 DEF Read, Begun
<1>5. SumsInv'
  BY <1>0, <1>1, <1>4 DEF SumsInv, SumsRight
<1>6. AdmitInv'
  BY <1>0, <1>1, <1>4 DEF AdmitInv, Admits
<1>7. TableInv'
  BY <1>0, <1>1, <1>4 DEF TableInv
<1>8. WalkInv' /\ AfterInv'
  BY <1>0, <1>1 DEF WalkInv, AfterInv
<1>. QED BY <1>2, <1>3, <1>5, <1>6, <1>7, <1>8 DEF RankedInv

LEMMA RankedStep == RankedInv /\ [RankedNext]_vars => RankedInv'
<1>. SUFFICES ASSUME RankedInv, [RankedNext]_vars PROVE RankedInv'
  OBVIOUS
<1>1. CASE StartTerm
  BY <1>1, StartTermKeeps
<1>2. CASE Hop
  BY <1>2, HopKeeps
<1>3. CASE ReadHeader
  BY <1>3, ReadHeaderKeeps
<1>4. CASE NextPosting
  BY <1>4, NextPostingKeeps
<1>5. CASE ArrayPosting
  BY <1>5, ArrayPostingKeeps
<1>6. CASE EndTerm
  BY <1>6, EndTermKeeps
<1>7. CASE ReturnTable
  BY <1>7, ReturnTableKeeps
<1>8. CASE Ranks
  BY <1>8, RanksSteps, AfterStepKeeps
<1>9. CASE UNCHANGED vars
  BY <1>9, StutterKeeps
<1>. QED BY <1>1, <1>2, <1>3, <1>4, <1>5, <1>6, <1>7, <1>8, <1>9
         DEF RankedNext, Accumulate, AccumNext, Ranks

-----------------------------------------------------------------------------

LEMMA InvWhole == RankedInv => AccumulatorsWhole
<1>. SUFFICES ASSUME RankedInv PROVE AccumulatorsWhole
  OBVIOUS
<1>0. RankedTypes /\ SumsInv /\ AdmitInv /\ TableInv /\ AfterInv
  BY DEF RankedInv
<1>1. Terms \in Queries /\ j \in 1 .. Len(Terms) + 1 /\ Len(Terms) \in Nat /\ Anding \in BOOLEAN
  BY <1>0, QueryFacts DEF RankedTypes
<1>2. BetweenTerms => at \in Active /\ Read = 0 /\ Begun = j - 1 /\ acc \in Seq(Entries)
                      /\ sup \in Seq(Entries)
  BY <1>0 DEF BetweenTerms, Active, Loop, Read, Begun, RankedTypes
<1>3. SumsComplete
  <2>. SUFFICES ASSUME BetweenTerms, NEW d \in InTable PROVE TableSum(d) = CosineSum(d, j - 1)
    BY DEF SumsComplete
  <2>1. d \in Numbers(acc) \cup Numbers(sup)
    BY <1>1, TermsAre
  <2>2. d \in Nat
    <3>1. ASSUME NEW q \in Seq(Entries), d \in Numbers(q) PROVE d \in Nat
      BY <3>1, EntryAt DEF Numbers
    <3>. QED BY <1>2, <2>1, <3>1
  <2>3. Anding => d \in Numbers(acc)
    <3>1. Anding => sup = <<>>
      BY <1>0, <1>2 DEF TableInv
    <3>2. sup = <<>> => DOMAIN sup = {}
      OBVIOUS
    <3>. QED BY <2>1, <3>1, <3>2 DEF Numbers
  <2>4. SumIn(acc, d) + SumIn(sup, d) = Due(Terms, InvfLevel, d, j - 1, 0)
    BY <1>0, <1>2, <2>2, <2>3 DEF SumsInv, SumsRight
  <2>5. j - 1 \in 0 .. Len(Terms)
    BY <1>1
  <2>6. Due(Terms, InvfLevel, d, j - 1, 0) = Whole(Terms, InvfLevel, d, j - 1)
    BY <1>1, <2>2, <2>5, WholeFacts
  <2>7. CosineSum(d, j - 1) = Whole(Terms, InvfLevel, d, j - 1)
    BY <1>1, <2>2, <2>5, TermsAre
  <2>. QED BY <2>4, <2>6, <2>7 DEF TableSum
<1>4. TermsWholeOrNotAtAll
  <2>. SUFFICES ASSUME BetweenTerms, rqi.AccumMethod # "A"
       PROVE  /\ InTable = UNION {DocsOf(Terms[m]) : m \in Admitted}
              /\ rqi.StopAtMaxAccum => Admitted = 1 .. j - 1
    BY DEF TermsWholeOrNotAtAll
  <2>1. InTable = Numbers(acc) \cup Numbers(sup)
    BY <1>1, TermsAre
  <2>2. \A x \in 0 .. j - 1 : Full(Size(x)) <=> FullOf(rqi, SizeOf(Terms, rqi, x))
    <3>. TAKE x \in 0 .. j - 1
    <3>1. x \in 0 .. Len(Terms)
      BY <1>1
    <3>. QED BY <1>1, <3>1, TermsAre
  <2>3. CASE Anding
    <3>1. PICK a \in 0 .. j - 1 : Admits(Terms, rqi, a)
      BY <1>0, <1>2, <2>3 DEF AdmitInv
    <3>2. Admitted = 1 .. a
      <4>1. ASSUME NEW m \in 1 .. a PROVE m \in Admitted
        <5>1. m \in 1 .. j - 1 /\ \A x \in 0 .. m - 1 : x \in 0 .. a - 1 /\ x \in 0 .. j - 1
          BY <1>1, <3>1
        <5>. QED BY <2>2, <3>1, <5>1 DEF Admits, Admitted
      <4>2. ASSUME NEW m \in Admitted PROVE m \in 1 .. a
        <5>1. m \in 1 .. j - 1 /\ \A x \in 0 .. m - 1 : ~Full(Size(x))
          BY DEF Admitted
        <5>2. Full(Size(a))
          BY <2>2, <3>1 DEF Admits
        <5>3. a \notin 0 .. m - 1
          BY <5>1, <5>2
        <5>. QED BY <1>1, <3>1, <5>1, <5>3
      <4>. QED BY <4>1, <4>2
    <3>3. sup = <<>> /\ ~rqi.StopAtMaxAccum
      BY <1>0, <1>2, <2>3 DEF TableInv
    <3>4. Numbers(sup) = {}
      <4>1. DOMAIN sup = {}
        BY <3>3
      <4>. QED BY <4>1 DEF Numbers
    <3>. QED BY <2>1, <3>1, <3>2, <3>3, <3>4 DEF Admits, DocsTo
  <2>4. CASE ~Anding
    <3>1. /\ Numbers(acc) \cup Numbers(sup) = DocsTo(Terms, j - 1) \cup First(Terms[j], 0)
          /\ \A x \in 0 .. (j - 1) - 1 : ~FullOf(rqi, SizeOf(Terms, rqi, x))
      BY <1>0, <1>2, <2>4 DEF AdmitInv
    <3>2. First(Terms[j], 0) = {}
      BY <1>1, DocsFacts
    <3>3. Admitted = 1 .. j - 1
      <4>1. ASSUME NEW m \in 1 .. j - 1 PROVE m \in Admitted
        <5>1. \A x \in 0 .. m - 1 : x \in 0 .. (j - 1) - 1 /\ x \in 0 .. j - 1
          BY <1>1
        <5>. QED BY <2>2, <3>1, <5>1 DEF Admitted
      <4>. QED BY <4>1 DEF Admitted
    <3>. QED BY <2>1, <3>1, <3>2, <3>3 DEF DocsTo
  <2>. QED BY <1>1, <2>3, <2>4
<1>5. TableInOrder
  <2>1. Anding => Ascending(acc)
    BY <1>0 DEF TableInv, AfterInv
  <2>2. at = "decoded" /\ rqi.AccumMethod # "L" => Ascending(acc)
    <3>. SUFFICES ASSUME at = "decoded", rqi.AccumMethod # "L" PROVE Ascending(acc)
      OBVIOUS
    <3>1. at \in Active /\ rqi.AccumMethod \in {"A", "S", "H"}
      BY <1>0, RankedConstants DEF Active, RankedTypes
    <3>2. CASE rqi.AccumMethod # "A"
      BY <1>0, <3>1, <3>2 DEF TableInv
    <3>3. CASE rqi.AccumMethod = "A"
      <4>1. acc \in Seq(Entries) /\ \A x \in DOMAIN acc : acc[x].DocNum = x - 1
        BY <1>0, <3>1, <3>3 DEF TableInv, RankedTypes
      <4>2. ASSUME NEW x \in DOMAIN acc, NEW y \in DOMAIN acc, x < y
            PROVE  acc[x].DocNum < acc[y].DocNum
        <5>1. x \in Nat /\ y \in Nat /\ acc[x].DocNum = x - 1 /\ acc[y].DocNum = y - 1
          BY <4>1
        <5>. QED BY <4>2, <5>1
      <4>. QED BY <4>2 DEF Ascending
    <3>. QED BY <3>2, <3>3
  <2>. QED BY <2>1, <2>2 DEF TableInOrder, Ascending
<1>6. SupplementFits
  BY <1>0 DEF SupplementFits, RankedTypes
<1>. QED BY <1>3, <1>4, <1>5, <1>6 DEF AccumulatorsWhole

(***************************************************************************)
(* Whatever the query, the limits and the method: between two terms every  *)
(* accumulator of the four CosineDecode functions has the whole sum of its *)
(* document, hops and early ends included; the accumulators are the        *)
(* documents of the terms begun below max_accumulators and no others; and  *)
(* the table is in order where it must be.                                 *)
(***************************************************************************)
THEOREM AccumulatorsComplete == Spec => []AccumulatorsWhole
<1>. QED BY InitRanked, RankedStep, InvWhole, PTL DEF Spec

-----------------------------------------------------------------------------
\* The heap.

Items == [Weight : Nat, OrgWeight : Nat, DocNum : 1 .. NumDocs, SeekPos : Nat]
Senses == {"Lesser", "Greater"}

Elems(h) == {h[x] : x \in DOMAIN h}
Unlike(h) == \A x, y \in DOMAIN h : h[x].OrgWeight = h[y].OrgWeight => x = y

\* The entries stand elsewhere.
Rearranged(h, r) ==
  /\ r \in Seq(Items) /\ Len(r) = Len(h)
  /\ Elems(r) = Elems(h) /\ (Unlike(h) => Unlike(r))

\* What the top has least of.
Key(sense, e) == IF sense = "Lesser" THEN e.Weight ELSE 0 - e.Weight

\* From place c on no entry is above its parent, but for those of place x.
Below(h, sense, x, y) == y \in {2 * x, 2 * x + 1} => Key(sense, h[x]) <= Key(sense, h[y])
HeapFrom(h, sense, c) == \A x, y \in DOMAIN h : x >= c => Below(h, sense, x, y)
HeapBut(h, sense, c, x) ==
  /\ \A y, z \in DOMAIN h : y >= c /\ y # x => Below(h, sense, y, z)
  /\ \A y, z \in DOMAIN h : y >= c /\ x \in {2 * y, 2 * y + 1} /\ z \in {2 * x, 2 * x + 1} =>
       Key(sense, h[y]) <= Key(sense, h[z])

LEMMA HeapFacts ==
  ASSUME NEW h \in Seq(Items)
  PROVE  /\ Len(h) \in Nat /\ DOMAIN h = 1 .. Len(h)
         /\ \A x \in DOMAIN h : h[x] \in Items /\ h[x] \in Elems(h)
         /\ \A e \in Elems(h) : e \in Items /\ \E x \in DOMAIN h : e = h[x]
         /\ \A e \in Items : e.Weight \in Nat /\ \A sense : Key(sense, e) \in Int
<1>1. Len(h) \in Nat /\ DOMAIN h = 1 .. Len(h) /\ \A x \in DOMAIN h : h[x] \in Items
  OBVIOUS
<1>2. \A e \in Items : e.Weight \in Nat /\ \A sense : Key(sense, e) \in Int
  <2>. TAKE e \in Items
  <2>1. e.Weight \in Nat
    BY DEF Items
  <2>. QED BY <2>1 DEF Key
<1>. QED BY <1>1, <1>2 DEF Elems

LEMMA AboveIs ==
  ASSUME NEW a \in Items, NEW b \in Items, NEW sense \in Senses
  PROVE  Above(sense, a, b) <=> Key(sense, a) < Key(sense, b)
<1>1. a.Weight \in Nat /\ b.Weight \in Nat
  BY DEF Items
<1>. QED BY <1>1 DEF Above, Key, Senses

LEMMA RearrangedAgain ==
  ASSUME NEW h, NEW q, NEW r, Rearranged(h, q), Rearranged(q, r) PROVE Rearranged(h, r)
BY DEF Rearranged

LEMMA RearrangedSelf == ASSUME NEW h \in Seq(Items) PROVE Rearranged(h, h)
BY DEF Rearranged

LEMMA ExchangeRight ==
  ASSUME NEW h \in Seq(Items), NEW x \in DOMAIN h, NEW y \in DOMAIN h
  PROVE  /\ Rearranged(h, Exchange(h, x, y))
         /\ DOMAIN Exchange(h, x, y) = DOMAIN h
         /\ \A z \in DOMAIN h : Exchange(h, x, y)[z] = IF z = y THEN h[x] ELSE IF z = x THEN h[y] ELSE h[z]
<1>. PICK r : r = Exchange(h, x, y)
  OBVIOUS
<1>1. PICK N \in Nat : N = Len(h) /\ DOMAIN h = 1 .. N /\ \A z \in 1 .. N : h[z] \in Items
  BY HeapFacts
<1>2. /\ DOMAIN r = 1 .. N
      /\ \A z \in 1 .. N : r[z] = IF z = y THEN h[x] ELSE IF z = x THEN h[y] ELSE h[z]
  BY <1>1 DEF Exchange
<1>3. r \in Seq(Items) /\ Len(r) = N
  <2>1. \A z \in 1 .. N : r[z] \in Items
    BY <1>1, <1>2
  <2>2. r = [z \in 1 .. N |-> r[z]]
    BY <1>1 DEF Exchange
  <2>. QED BY <2>1, <2>2, <1>2
<1>4. Elems(r) = Elems(h)
  <2>1. ASSUME NEW z \in 1 .. N PROVE r[z] \in Elems(h)
    BY <1>1, <1>2 DEF Elems
  <2>2. ASSUME NEW z \in 1 .. N PROVE h[z] \in Elems(r)
    <3>1. h[z] = r[IF z = x THEN y ELSE IF z = y THEN x ELSE z]
      BY <1>1, <1>2
    <3>. QED BY <1>1, <1>2, <3>1 DEF Elems
  <2>3. \A e \in Elems(r) : e \in Elems(h)
    BY <1>2, <2>1 DEF Elems
  <2>4. \A e \in Elems(h) : e \in Elems(r)
    BY <1>1, <2>2 DEF Elems
  <2>. QED BY <2>3, <2>4
<1>5. ASSUME Unlike(h) PROVE Unlike(r)
  <2>. SUFFICES ASSUME NEW a \in 1 .. N, NEW b \in 1 .. N, r[a].OrgWeight = r[b].OrgWeight
                PROVE  a = b
    BY <1>2 DEF Unlike
  <2>. DEFINE f(z) == IF z = y THEN x ELSE IF z = x THEN y ELSE z
  <2>1. r[a] = h[f(a)] /\ r[b] = h[f(b)] /\ f(a) \in 1 .. N /\ f(b) \in 1 .. N
    BY <1>1, <1>2
  <2>2. f(a) = f(b)
    <3>. HIDE DEF f
    <3>. QED BY <1>1, <1>5, <2>1 DEF Unlike
  <2>. QED BY <2>2
<1>. QED BY <1>1, <1>2, <1>3, <1>4, <1>5 DEF Rearranged

\* Where an entry sinks to, and when it does not.
LEMMA ChildIs ==
  ASSUME NEW h \in Seq(Items), NEW sense \in Senses, NEW x \in Nat \ {0}
  PROVE  /\ Sinks(h, sense, x) =>
              \E l \in DOMAIN h :
                /\ l = LargerChild(h, sense, x) /\ x \in DOMAIN h /\ l \in {2 * x, 2 * x + 1}
                /\ Key(sense, h[l]) < Key(sense, h[x])
                /\ \A y \in DOMAIN h : y \in {2 * x, 2 * x + 1} => Key(sense, h[l]) <= Key(sense, h[y])
         /\ ~Sinks(h, sense, x) /\ x \in DOMAIN h => \A y \in DOMAIN h : Below(h, sense, x, y)
<1>1. PICK N \in Nat : /\ N = Len(h) /\ DOMAIN h = 1 .. N
                       /\ \A z \in 1 .. N : h[z] \in Items /\ Key(sense, h[z]) \in Int
  BY HeapFacts
<1>2. \A y, z \in 1 .. N : Above(sense, h[y], h[z]) <=> Key(sense, h[y]) < Key(sense, h[z])
  BY <1>1, AboveIs
<1>. PICK l : l = LargerChild(h, sense, x)
  OBVIOUS
<1>3. ASSUME 2 * x <= N
      PROVE  /\ l \in 1 .. N /\ x \in 1 .. N /\ l \in {2 * x, 2 * x + 1}
             /\ \A y \in 1 .. N : y \in {2 * x, 2 * x + 1} => Key(sense, h[l]) <= Key(sense, h[y])
  <2>1. x \in 1 .. N /\ 2 * x \in 1 .. N /\ (2 * x < N <=> 2 * x + 1 \in 1 .. N)
    BY <1>3
  <2>2. l = IF 2 * x + 1 \in 1 .. N /\ Key(sense, h[2 * x + 1]) < Key(sense, h[2 * x])
            THEN 2 * x + 1 ELSE 2 * x
    BY <1>1, <1>2, <2>1 DEF LargerChild
  <2>3. PICK a \in 1 .. N : a = 2 * x
    BY <2>1
  <2>4. Key(sense, h[a]) \in Int /\ (2 * x + 1 \in 1 .. N => Key(sense, h[2 * x + 1]) \in Int)
    BY <1>1
  <2>. QED BY <2>1, <2>2, <2>3, <2>4
<1>4. Sinks(h, sense, x) <=> 2 * x <= N /\ Key(sense, h[l]) < Key(sense, h[x])
  BY <1>1, <1>2, <1>3 DEF Sinks
<1>5. ASSUME ~Sinks(h, sense, x), x \in 1 .. N, NEW y \in 1 .. N, y \in {2 * x, 2 * x + 1}
      PROVE  Key(sense, h[x]) <= Key(sense, h[y])
  <2>1. 2 * x <= N
    BY <1>5
  <2>2. PICK a \in Int, b \in Int, c \in Int :
           a = Key(sense, h[x]) /\ b = Key(sense, h[l]) /\ c = Key(sense, h[y])
    BY <1>1, <1>3, <1>5, <2>1
  <2>3. ~(b < a) /\ b <= c
    BY <1>3, <1>4, <1>5, <2>1, <2>2
  <2>. QED BY <2>2, <2>3
<1>. QED BY <1>1, <1>3, <1>4, <1>5 DEF Below

\* A turn of the loop of Heap_Heapify.
LEMMA TurnRight ==
  ASSUME NEW h \in Seq(Items), NEW sense \in Senses, NEW x \in Nat \ {0}, Sinks(h, sense, x)
  PROVE  /\ LargerChild(h, sense, x) \in DOMAIN h /\ LargerChild(h, sense, x) > x
         /\ Rearranged(h, Exchange(h, x, LargerChild(h, sense, x)))
         /\ \A c \in 1 .. x : HeapBut(h, sense, c, x) =>
              HeapBut(Exchange(h, x, LargerChild(h, sense, x)), sense, c, LargerChild(h, sense, x))
<1>1. PICK l \in DOMAIN h :
        /\ l = LargerChild(h, sense, x) /\ x \in DOMAIN h /\ l \in {2 * x, 2 * x + 1}
        /\ Key(sense, h[l]) < Key(sense, h[x])
        /\ \A y \in DOMAIN h : y \in {2 * x, 2 * x + 1} => Key(sense, h[l]) <= Key(sense, h[y])
  BY ChildIs
<1>2. PICK r : r = Exchange(h, x, LargerChild(h, sense, x))
  OBVIOUS
<1>3. PICK N \in Nat : N = Len(h) /\ DOMAIN h = 1 .. N
  BY HeapFacts
<1>4. /\ Rearranged(h, r) /\ DOMAIN r = 1 .. N
      /\ \A z \in 1 .. N : r[z] = IF z = l THEN h[x] ELSE IF z = x THEN h[l] ELSE h[z]
  BY <1>1, <1>2, <1>3, ExchangeRight
<1>5. PICK f \in [1 .. N -> Int] : \A z \in 1 .. N : f[z] = Key(sense, h[z])
  <2>1. [z \in 1 .. N |-> Key(sense, h[z])] \in [1 .. N -> Int]
    BY <1>3, HeapFacts
  <2>. QED BY <2>1
<1>6. PICK g \in [1 .. N -> Int] :
         /\ \A z \in 1 .. N : g[z] = Key(sense, r[z])
         /\ \A z \in 1 .. N : g[z] = IF z = l THEN f[x] ELSE IF z = x THEN f[l] ELSE f[z]
  <2>. DEFINE G == [z \in 1 .. N |-> IF z = l THEN f[x] ELSE IF z = x THEN f[l] ELSE f[z]]
  <2>1. G \in [1 .. N -> Int]
    BY <1>1, <1>3
  <2>2. \A z \in 1 .. N : G[z] = Key(sense, r[z])
    BY <1>1, <1>3, <1>4, <1>5
  <2>. QED BY <2>1, <2>2
<1>7. l > x /\ l \in 1 .. N /\ x \in 1 .. N
  BY <1>1, <1>3
<1>8. ASSUME NEW c \in 1 .. x, HeapBut(h, sense, c, x) PROVE HeapBut(r, sense, c, l)
  <2>1. ASSUME NEW y \in 1 .. N, NEW z \in 1 .. N, y >= c, y # x, z \in {2 * y, 2 * y + 1}
        PROVE  f[y] <= f[z]
    <3>1. Below(h, sense, y, z)
      BY <1>3, <1>8, <2>1 DEF HeapBut
    <3>. QED BY <1>5, <2>1, <3>1 DEF Below
  <2>2. ASSUME NEW y \in 1 .. N, NEW z \in 1 .. N, y >= c, x \in {2 * y, 2 * y + 1},
               z \in {2 * x, 2 * x + 1}
        PROVE  f[y] <= f[z]
    <3>1. Key(sense, h[y]) <= Key(sense, h[z])
      BY <1>3, <1>8, <2>2 DEF HeapBut
    <3>. QED BY <1>5, <3>1
  <2>3. f[l] < f[x] /\ \A y \in 1 .. N : y \in {2 * x, 2 * x + 1} => f[l] <= f[y]
    BY <1>1, <1>3, <1>5
  <2>4. ASSUME NEW y \in 1 .. N, NEW z \in 1 .. N, y >= c, y # l, z \in {2 * y, 2 * y + 1}
        PROVE  g[y] <= g[z]
    <3>1. CASE y = x
      <4>1. g[y] = f[l] /\ z # x /\ f[l] <= f[z]
        BY <1>6, <1>7, <2>3, <2>4, <3>1
      <4>2. g[z] = f[z] \/ g[z] = f[x]
        BY <1>6, <4>1
      <4>3. f[l] \in Int /\ f[x] \in Int /\ f[z] \in Int
        BY <1>7
      <4>. QED BY <2>3, <4>1, <4>2, <4>3
    <3>2. CASE y # x /\ z = x
      <4>1. g[y] = f[y] /\ g[z] = f[l]
        BY <1>6, <1>7, <2>4, <3>2
      <4>2. f[y] <= f[l]
        BY <1>1, <1>7, <2>2, <2>4, <3>2
      <4>. QED BY <4>1, <4>2
    <3>3. CASE y # x /\ z # x
      <4>1. (l = 2 * x \/ l = 2 * x + 1) /\ (z = 2 * y \/ z = 2 * y + 1)
        BY <1>1, <2>4
      <4>2. x \in Nat /\ y \in Nat /\ l \in Nat
        BY <1>7
      <4>3. z # l
        BY ONLY <3>3, <4>1, <4>2
      <4>. QED BY <1>6, <2>1, <2>4, <3>3, <4>3
    <3>. QED BY <3>1, <3>2, <3>3
  <2>5. ASSUME NEW y \in 1 .. N, NEW z \in 1 .. N, y >= c, l \in {2 * y, 2 * y + 1},
               z \in {2 * l, 2 * l + 1}
        PROVE  g[y] <= g[z]
    <3>1. y = x /\ z # x /\ z # l /\ l # x /\ l >= c
      <4>1. y \in Nat /\ x \in Nat /\ l \in Nat /\ z \in Nat /\ c \in Nat /\ x >= c
        BY <1>7, <1>8
      <4>2. l = 2 * y \/ l = 2 * y + 1
        BY <2>5
      <4>3. l = 2 * x \/ l = 2 * x + 1
        BY <1>1
      <4>4. z = 2 * l \/ z = 2 * l + 1
        BY <2>5
      <4>5. y = x
        BY ONLY <4>1, <4>2, <4>3
      <4>6. l > x /\ x > 0
        BY <1>7
      <4>7. z > l
        BY ONLY <4>1, <4>4, <4>6
      <4>8. z # x /\ z # l /\ l # x
        BY ONLY <4>1, <4>6, <4>7
      <4>9. l >= c
        BY ONLY <4>1, <4>6
      <4>. QED BY ONLY <4>5, <4>8, <4>9
    <3>2. f[l] <= f[z]
      BY <1>7, <2>1, <2>5, <3>1
    <3>. QED BY <1>6, <1>7, <3>1, <3>2
  <2>6. ASSUME NEW y \in DOMAIN r, NEW z \in DOMAIN r, y >= c, y # l PROVE Below(r, sense, y, z)
    <3>. SUFFICES ASSUME z \in {2 * y, 2 * y + 1} PROVE Key(sense, r[y]) <= Key(sense, r[z])
      BY DEF Below
    <3>1. y \in 1 .. N /\ z \in 1 .. N
      BY <1>4
    <3>2. g[y] <= g[z]
      BY <2>4, <2>6, <3>1
    <3>. QED BY <1>6, <3>1, <3>2
  <2>7. ASSUME NEW y \in DOMAIN r, NEW z \in DOMAIN r, y >= c, l \in {2 * y, 2 * y + 1},
               z \in {2 * l, 2 * l + 1}
        PROVE  Key(sense, r[y]) <= Key(sense, r[z])
    <3>1. y \in 1 .. N /\ z \in 1 .. N
      BY <1>4
    <3>2. g[y] <= g[z]
      BY <2>5, <2>7, <3>1
    <3>. QED BY <1>6, <3>1, <3>2
  <2>. QED BY <2>6, <2>7 DEF HeapBut
<1>. QED BY <1>1, <1>2, <1>3, <1>4, <1>7, <1>8


Turn(s, sense) ==
  IF Sinks(s[1], sense, s[2])
  THEN <<Exchange(s[1], s[2], LargerChild(s[1], sense, s[2])), LargerChild(s[1], sense, s[2])>>
  ELSE s

LEMMA HeapifyIs ==
  ASSUME NEW h \in Seq(Items), NEW sense \in Senses, NEW c \in DOMAIN h
  PROVE  \E g : /\ Heap_Heapify(h, sense, c) = g[Len(h)][1] /\ g[0] = <<h, c>>
                /\ \A x \in 1 .. Len(h) : g[x] = Turn(g[x - 1], sense)
<1>. DEFINE N == Len(h)
            S == Seq(Items) \X (Nat \ {0})
            Q(g) == g = [x \in 0 .. N |-> IF x = 0 THEN <<h, c>> ELSE Turn(g[x - 1], sense)]
            D == [a \in S \X (1 .. N) |-> Turn(a[1], sense)]
<1>1. N \in Nat /\ c \in Nat \ {0} /\ <<h, c>> \in S
  <2>1. N \in Nat /\ c \in Nat \ {0}
    BY HeapFacts
  <2>. QED BY <2>1
<1>2. Heap_Heapify(h, sense, c) = (CHOOSE g : Q(g))[N][1]
  BY DEF Heap_Heapify, Turn
<1>3. ASSUME NEW s \in S PROVE Turn(s, sense) \in S
  <2>. PICK q \in Seq(Items), x \in Nat \ {0} : s = <<q, x>>
    OBVIOUS
  <2>1. CASE Sinks(q, sense, x)
    <3>1. LargerChild(q, sense, x) \in DOMAIN q /\ Rearranged(q, Exchange(q, x, LargerChild(q, sense, x)))
      BY <2>1, TurnRight
    <3>2. LargerChild(q, sense, x) \in Nat \ {0}
      BY <3>1, HeapFacts
    <3>. QED BY <2>1, <3>1, <3>2 DEF Turn, Rearranged
  <2>2. CASE ~Sinks(q, sense, x)
    BY <2>2 DEF Turn
  <2>. QED BY <2>1, <2>2
<1>. HIDE DEF N
<1>4. D \in [S \X (1 .. N) -> S]
  <2>. HIDE DEF S
  <2>. QED BY <1>1, <1>3
<1>5. PICK g \in [0 .. N -> S] : RecursUpTo(g, N, <<h, c>>, D)
  <2>. HIDE DEF D, S
  <2>. QED BY <1>1, <1>4, RecursionUpTo, Zenon
<1>6. Q(g)
  <2>1. ASSUME NEW x \in 0 .. N PROVE g[x] = IF x = 0 THEN <<h, c>> ELSE Turn(g[x - 1], sense)
    <3>1. CASE x = 0
      BY <1>5, <3>1 DEF RecursUpTo
    <3>2. CASE x # 0
      <4>1. x - 1 \in 0 .. N /\ x \in 1 .. N
        BY <1>1, <3>2
      <4>2. <<g[x - 1], x>> \in S \X (1 .. N)
        <5>. HIDE DEF S
        <5>. QED BY <4>1
      <4>3. D[<<g[x - 1], x>>] = Turn(g[x - 1], sense)
        <5>. HIDE DEF S
        <5>. QED BY <4>2
      <4>4. g[x] = D[<<g[x - 1], x>>]
        <5>. HIDE DEF D
        <5>. QED BY <1>5, <3>2 DEF RecursUpTo
      <4>. QED BY <3>2, <4>3, <4>4
    <3>. QED BY <3>1, <3>2
  <2>. HIDE DEF S
  <2>. QED BY <2>1
<1>7. PICK t : t = CHOOSE f : Q(f)
  OBVIOUS
<1>8. Q(t)
  <2>. HIDE DEF Q
  <2>. QED BY <1>6, <1>7
<1>9. t[0] = <<h, c>> /\ \A x \in 1 .. N : t[x] = Turn(t[x - 1], sense)
  <2>1. \A x \in 0 .. N : t[x] = IF x = 0 THEN <<h, c>> ELSE Turn(t[x - 1], sense)
    BY <1>8
  <2>2. 0 \in 0 .. N /\ \A x \in 1 .. N : x \in 0 .. N /\ x # 0
    BY <1>1
  <2>. QED BY <2>1, <2>2
<1>. HIDE DEF Q
<1>. QED BY <1>2, <1>7, <1>9 DEF N

LEMMA HeapifyRight ==
  ASSUME NEW h \in Seq(Items), NEW sense \in Senses, NEW c \in DOMAIN h
  PROVE  /\ Rearranged(h, Heap_Heapify(h, sense, c))
         /\ HeapFrom(h, sense, c + 1) => HeapFrom(Heap_Heapify(h, sense, c), sense, c)
<1>1. PICK g : /\ Heap_Heapify(h, sense, c) = g[Len(h)][1] /\ g[0] = <<h, c>>
               /\ \A x \in 1 .. Len(h) : g[x] = Turn(g[x - 1], sense)
  BY HeapifyIs
<1>2. PICK N \in Nat : N = Len(h) /\ DOMAIN h = 1 .. N
  BY HeapFacts
<1>. DEFINE P(q, x, m) ==
              /\ Rearranged(h, q) /\ x \in Nat /\ x >= c
              /\ HeapFrom(h, sense, c + 1) => HeapBut(q, sense, c, x)
              /\ Sinks(q, sense, x) => x >= c + m
            T == {m \in Nat : m <= N => \E q, x : g[m] = <<q, x>> /\ P(q, x, m)}
<1>3. 0 \in T
  <2>1. HeapFrom(h, sense, c + 1) => HeapBut(h, sense, c, c)
    <3>. SUFFICES ASSUME HeapFrom(h, sense, c + 1) PROVE HeapBut(h, sense, c, c)
      OBVIOUS
    <3>1. ASSUME NEW y \in DOMAIN h, NEW z \in DOMAIN h, y >= c, y # c PROVE Below(h, sense, y, z)
      <4>1. y >= c + 1
        BY <1>2, <3>1
      <4>. QED BY <4>1 DEF HeapFrom
    <3>2. ASSUME NEW y \in DOMAIN h, y >= c, c \in {2 * y, 2 * y + 1} PROVE FALSE
      BY <1>2, <3>2
    <3>. QED BY <3>1, <3>2 DEF HeapBut
  <2>2. c \in Nat /\ c >= c /\ c >= c + 0
    BY <1>2
  <2>3. P(h, c, 0)
    BY <2>1, <2>2, RearrangedSelf
  <2>. HIDE DEF P
  <2>. QED BY <1>1, <2>3
<1>4. ASSUME NEW m \in Nat, m \in T PROVE m + 1 \in T
  <2>. SUFFICES ASSUME m + 1 <= N PROVE \E q, x : g[m + 1] = <<q, x>> /\ P(q, x, m + 1)
    OBVIOUS
  <2>1. PICK q, x : g[m] = <<q, x>> /\ P(q, x, m)
    <3>1. m <= N
      BY <1>2
    <3>. HIDE DEF P
    <3>. QED BY <1>4, <3>1
  <2>2. g[m + 1] = Turn(<<q, x>>, sense)
    <3>1. m + 1 \in 1 .. Len(h) /\ (m + 1) - 1 = m
      BY <1>2
    <3>. QED BY <1>1, <2>1, <3>1
  <2>3. q \in Seq(Items) /\ x \in Nat \ {0} /\ c \in 1 .. x
    BY <1>2, <2>1 DEF Rearranged
  <2>4. CASE Sinks(q, sense, x)
    <3>. PICK l, r : l = LargerChild(q, sense, x) /\ r = Exchange(q, x, LargerChild(q, sense, x))
      OBVIOUS
    <3>1. /\ l \in DOMAIN q /\ l > x /\ Rearranged(q, r)
          /\ \A b \in 1 .. x : HeapBut(q, sense, b, x) => HeapBut(r, sense, b, l)
      BY <2>3, <2>4, TurnRight
    <3>2. l \in Nat /\ l >= c /\ l >= c + (m + 1)
      BY <1>2, <2>1, <2>3, <2>4, <3>1, HeapFacts
    <3>3. g[m + 1] = <<r, l>>
      BY <2>2, <2>4 DEF Turn
    <3>4. P(r, l, m + 1)
      BY <2>1, <2>3, <3>1, <3>2, RearrangedAgain
    <3>. HIDE DEF P
    <3>. QED BY <3>3, <3>4
  <2>5. CASE ~Sinks(q, sense, x)
    <3>1. g[m + 1] = <<q, x>>
      BY <2>2, <2>5 DEF Turn
    <3>2. P(q, x, m + 1)
      BY <2>1, <2>5
    <3>. HIDE DEF P
    <3>. QED BY <3>1, <3>2
  <2>. QED BY <2>4, <2>5
<1>5. Nat \subseteq T
  <2>. HIDE DEF T
  <2>. QED BY <1>3, <1>4, SetInduction
<1>6. PICK q, x : g[N] = <<q, x>> /\ P(q, x, N)
  <2>1. N \in T
    BY <1>5
  <2>. HIDE DEF P
  <2>. QED BY <2>1
<1>7. q = Heap_Heapify(h, sense, c) /\ q \in Seq(Items) /\ Len(q) = N /\ DOMAIN q = 1 .. N
  <2>1. q \in Seq(Items) /\ Len(q) = N
    BY <1>2, <1>6 DEF Rearranged
  <2>. QED BY <1>1, <1>2, <1>6, <2>1
<1>8. x \in Nat \ {0} /\ c \in 1 .. N
  BY <1>2, <1>6
<1>9. ~Sinks(q, sense, x)
  <2>1. ASSUME Sinks(q, sense, x) PROVE FALSE
    <3>1. 2 * x <= N /\ x >= c + N
      BY <1>6, <1>7, <2>1 DEF Sinks
    <3>. QED BY <1>8, <3>1
  <2>. QED BY <2>1
<1>10. ASSUME HeapFrom(h, sense, c + 1) PROVE HeapFrom(q, sense, c)
  <2>1. HeapBut(q, sense, c, x)
    BY <1>6, <1>10
  <2>2. ASSUME NEW y \in DOMAIN q, NEW z \in DOMAIN q, y >= c PROVE Below(q, sense, y, z)
    <3>1. CASE y = x
      BY <1>7, <1>8, <1>9, <3>1, ChildIs
    <3>2. CASE y # x
      BY <2>1, <2>2, <3>2 DEF HeapBut
    <3>. QED BY <3>1, <3>2
  <2>. QED BY <2>2 DEF HeapFrom
<1>. QED BY <1>6, <1>7, <1>10


LEMMA BuildIs ==
  ASSUME NEW h \in Seq(Items), NEW sense \in Senses
  PROVE  \E g, M : /\ M \in Nat /\ 2 * M <= Len(h) /\ Len(h) <= 2 * M + 1
                   /\ Heap_Build(h, sense) = g[M] /\ g[0] = h
                   /\ \A x \in 1 .. M : g[x] = Heap_Heapify(g[x - 1], sense, (M + 1) - x)
<1>. DEFINE M == Len(h) \div 2
            S == {q \in Seq(Items) : Len(q) = Len(h)}
            Q(g) == g = [x \in 0 .. M |-> IF x = 0 THEN h ELSE Heap_Heapify(g[x - 1], sense, (M + 1) - x)]
            D == [a \in S \X (1 .. M) |-> Heap_Heapify(a[1], sense, (M + 1) - a[2])]
<1>1. M \in Nat /\ 2 * M <= Len(h) /\ Len(h) <= 2 * M + 1 /\ h \in S
  <2>1. Len(h) \in Nat
    BY HeapFacts
  <2>. QED BY <2>1
<1>2. Heap_Build(h, sense) = (CHOOSE g : Q(g))[M]
  BY DEF Heap_Build
<1>. HIDE DEF M
<1>3. ASSUME NEW q \in S, NEW x \in 1 .. M PROVE Heap_Heapify(q, sense, (M + 1) - x) \in S
  <2>1. (M + 1) - x \in 1 .. Len(h)
    BY <1>1, HeapFacts
  <2>2. (M + 1) - x \in DOMAIN q
    BY <2>1, HeapFacts
  <2>. QED BY <2>2, HeapifyRight DEF Rearranged
<1>4. D \in [S \X (1 .. M) -> S]
  <2>. HIDE DEF S
  <2>. QED BY <1>3
<1>5. PICK g \in [0 .. M -> S] : RecursUpTo(g, M, h, D)
  <2>. HIDE DEF D, S
  <2>. QED BY <1>1, <1>4, RecursionUpTo, Zenon
<1>. HIDE DEF S
<1>6. Q(g)
  <2>1. ASSUME NEW x \in 0 .. M
        PROVE  g[x] = IF x = 0 THEN h ELSE Heap_Heapify(g[x - 1], sense, (M + 1) - x)
    <3>1. CASE x = 0
      BY <1>5, <3>1 DEF RecursUpTo
    <3>2. CASE x # 0
      <4>1. x - 1 \in 0 .. M /\ x \in 1 .. M /\ <<g[x - 1], x>> \in S \X (1 .. M)
        BY <1>1, <3>2
      <4>2. D[<<g[x - 1], x>>] = Heap_Heapify(g[x - 1], sense, (M + 1) - x)
        BY <4>1
      <4>3. g[x] = D[<<g[x - 1], x>>]
        <5>. HIDE DEF D
        <5>. QED BY <1>5, <3>2 DEF RecursUpTo
      <4>. QED BY <3>2, <4>2, <4>3
    <3>. QED BY <3>1, <3>2
  <2>. QED BY <2>1
<1>7. PICK t : t = CHOOSE f : Q(f)
  OBVIOUS
<1>8. Q(t)
  <2>. HIDE DEF Q
  <2>. QED BY <1>6, <1>7
<1>9. t[0] = h /\ \A x \in 1 .. M : t[x] = Heap_Heapify(t[x - 1], sense, (M + 1) - x)
  BY <1>1, <1>8
<1>. HIDE DEF Q
<1>. QED BY <1>1, <1>2, <1>7, <1>9

LEMMA BuildRight ==
  ASSUME NEW h \in Seq(Items), NEW sense \in Senses
  PROVE  Rearranged(h, Heap_Build(h, sense)) /\ HeapFrom(Heap_Build(h, sense), sense, 1)
<1>1. PICK g, M : /\ M \in Nat /\ 2 * M <= Len(h) /\ Len(h) <= 2 * M + 1
                  /\ Heap_Build(h, sense) = g[M] /\ g[0] = h
                  /\ \A x \in 1 .. M : g[x] = Heap_Heapify(g[x - 1], sense, (M + 1) - x)
  BY BuildIs
<1>. DEFINE P(m) == Rearranged(h, g[m]) /\ HeapFrom(g[m], sense, (M + 1) - m)
            T == {m \in Nat : m <= M => P(m)}
<1>2. 0 \in T
  <2>1. \A x, y \in DOMAIN h : x >= (M + 1) - 0 => y \notin {2 * x, 2 * x + 1}
    BY <1>1, HeapFacts
  <2>. QED BY <1>1, <2>1, RearrangedSelf DEF HeapFrom, Below
<1>3. ASSUME NEW m \in Nat, m \in T PROVE m + 1 \in T
  <2>. SUFFICES ASSUME m + 1 <= M PROVE P(m + 1)
    OBVIOUS
  <2>1. m + 1 \in 1 .. M /\ (m + 1) - 1 = m /\ ((M + 1) - (m + 1)) + 1 = (M + 1) - m /\ m <= M
        /\ (M + 1) - (m + 1) \in 1 .. Len(h)
    BY <1>1, HeapFacts
  <2>2. P(m)
    BY <1>3, <2>1
  <2>. PICK c, q, r : c = (M + 1) - (m + 1) /\ q = g[m] /\ r = g[m + 1]
    OBVIOUS
  <2>3. q \in Seq(Items) /\ c \in DOMAIN q /\ r = Heap_Heapify(q, sense, c) /\ Rearranged(h, q)
        /\ HeapFrom(q, sense, c + 1)
    <3>1. q \in Seq(Items) /\ Len(q) = Len(h)
      BY <2>2 DEF Rearranged
    <3>2. r = Heap_Heapify(q, sense, c)
      BY <1>1, <2>1
    <3>. QED BY <2>1, <2>2, <3>1, <3>2, HeapFacts
  <2>4. Rearranged(q, r) /\ HeapFrom(r, sense, c)
    BY ONLY <2>3, sense \in Senses, HeapifyRight
  <2>5. Rearranged(h, r)
    BY <2>3, <2>4, RearrangedAgain
  <2>. QED BY <2>4, <2>5
<1>4. Nat \subseteq T
  <2>. HIDE DEF T
  <2>. QED BY <1>2, <1>3, SetInduction
<1>5. P(M) /\ (M + 1) - M = 1
  BY <1>1, <1>4
<1>. QED BY <1>1, <1>5

\* The root is what the order makes it.
LEMMA RootIs ==
  ASSUME NEW h \in Seq(Items), NEW sense \in Senses, HeapFrom(h, sense, 1), NEW e \in Elems(h)
  PROVE  /\ Len(h) \in Nat \ {0} /\ h # <<>> /\ 1 \in DOMAIN h /\ h[1] \in Elems(h) /\ h[1] \in Items
         /\ Key(sense, h[1]) <= Key(sense, e)
<1>1. PICK N \in Nat : N = Len(h) /\ DOMAIN h = 1 .. N
  BY HeapFacts
<1>2. PICK z \in 1 .. N : e = h[z]
  BY <1>1, HeapFacts
<1>. DEFINE T == {m \in Nat : \A x \in 1 .. N : x <= m => Key(sense, h[1]) <= Key(sense, h[x])}
<1>3. 0 \in T
  OBVIOUS
<1>4. ASSUME NEW m \in Nat, m \in T PROVE m + 1 \in T
  <2>. SUFFICES ASSUME NEW x \in 1 .. N, x <= m + 1 PROVE Key(sense, h[1]) <= Key(sense, h[x])
    OBVIOUS
  <2>1. 1 \in 1 .. N /\ Key(sense, h[1]) \in Int /\ Key(sense, h[x]) \in Int
    BY <1>1, HeapFacts
  <2>2. CASE x = 1
    BY <2>1, <2>2
  <2>3. CASE x # 1
    <3>1. PICK y \in 1 .. N : y <= m /\ (x = 2 * y \/ x = 2 * y + 1)
      <4>. PICK y \in Nat : x = 2 * y \/ x = 2 * y + 1
        <5>1. x \div 2 \in Nat /\ (x = 2 * (x \div 2) \/ x = 2 * (x \div 2) + 1)
          OBVIOUS
        <5>. QED BY <5>1
      <4>1. y \in 1 .. N /\ y <= m
        BY <2>3
      <4>. QED BY <4>1
    <3>2. Key(sense, h[1]) <= Key(sense, h[y])
      BY <1>4, <3>1
    <3>3. Key(sense, h[y]) <= Key(sense, h[x])
      <4>1. Below(h, sense, y, x)
        BY <1>1, <3>1 DEF HeapFrom
      <4>. QED BY <3>1, <4>1 DEF Below
    <3>4. Key(sense, h[y]) \in Int
      BY <1>1, HeapFacts
    <3>. QED BY <2>1, <3>2, <3>3, <3>4
  <2>. QED BY <2>2, <2>3
<1>5. Nat \subseteq T
  <2>. HIDE DEF T
  <2>. QED BY <1>3, <1>4, SetInduction
<1>6. Key(sense, h[1]) <= Key(sense, e)
  <2>1. z \in T /\ z <= z
    BY <1>5
  <2>. QED BY <1>2, <2>1
<1>7. h # <<>>
  BY <1>1
<1>. QED BY <1>1, <1>6, <1>7, HeapFacts

\* The root is replaced by an entry of an accumulator that no other entry is of.
Alone(h, e) == \A x \in DOMAIN h \ {1} : h[x].OrgWeight # e.OrgWeight

Replaced(h, e, sense) == Heap_Heapify([h EXCEPT ![1] = e], sense, 1)

LEMMA ReplacedRight ==
  ASSUME NEW h \in Seq(Items), NEW sense \in Senses, HeapFrom(h, sense, 1), Unlike(h),
         1 \in DOMAIN h, NEW e \in Items, Alone(h, e), NEW r, r = Replaced(h, e, sense)
  PROVE  /\ r \in Seq(Items) /\ Len(r) = Len(h) /\ Unlike(r) /\ HeapFrom(r, sense, 1)
         /\ Elems(r) = (Elems(h) \ {h[1]}) \cup {e}
<1>. PICK q : q = [h EXCEPT ![1] = e]
  OBVIOUS
<1>0. r = Heap_Heapify(q, sense, 1)
  BY DEF Replaced
<1>. \A x \in DOMAIN h \ {1} : h[x].OrgWeight # e.OrgWeight
  BY DEF Alone
<1>1. PICK N \in Nat : N = Len(h) /\ DOMAIN h = 1 .. N /\ 1 \in 1 .. N
  BY HeapFacts
<1>2. q \in Seq(Items) /\ Len(q) = N /\ DOMAIN q = 1 .. N /\ \A x \in 1 .. N : q[x] = IF x = 1 THEN e ELSE h[x]
  BY <1>1
<1>3. Unlike(q)
  BY <1>1, <1>2 DEF Unlike
<1>4. HeapFrom(q, sense, 1 + 1)
  <2>. SUFFICES ASSUME NEW x \in 1 .. N, NEW y \in 1 .. N, x >= 2, y \in {2 * x, 2 * x + 1}
                PROVE  Key(sense, q[x]) <= Key(sense, q[y])
    BY <1>2 DEF HeapFrom, Below
  <2>1. x # 1 /\ y # 1 /\ x >= 1
    OBVIOUS
  <2>2. Below(h, sense, x, y)
    BY <1>1, <2>1 DEF HeapFrom
  <2>. QED BY <1>2, <2>1, <2>2 DEF Below
<1>5. Elems(q) = (Elems(h) \ {h[1]}) \cup {e}
  <2>1. ASSUME NEW a \in Elems(q) PROVE a \in (Elems(h) \ {h[1]}) \cup {e}
    <3>1. PICK x \in 1 .. N : a = q[x]
      BY <1>2 DEF Elems
    <3>2. x # 1 => h[x] # h[1] /\ h[x] \in Elems(h)
      BY <1>1 DEF Unlike, Elems
    <3>. QED BY <1>2, <3>1, <3>2
  <2>2. ASSUME NEW a \in (Elems(h) \ {h[1]}) PROVE a \in Elems(q)
    <3>1. PICK x \in 1 .. N : a = h[x] /\ x # 1
      BY <1>1 DEF Elems
    <3>2. a = q[x]
      BY <1>2, <3>1
    <3>. QED BY <1>2, <3>2 DEF Elems
  <2>3. e \in Elems(q)
    BY <1>1, <1>2 DEF Elems
  <2>. QED BY <2>1, <2>2, <2>3
<1>6. Rearranged(q, r) /\ HeapFrom(r, sense, 1)
  <2>1. 1 \in DOMAIN q /\ q \in Seq(Items)
    BY <1>1, <1>2
  <2>. QED BY ONLY <1>0, <1>4, <2>1, sense \in Senses, HeapifyRight
<1>7. r \in Seq(Items) /\ Len(r) = Len(q) /\ Unlike(r) /\ Elems(r) = Elems(q)
  BY <1>3, <1>6 DEF Rearranged
<1>. QED BY ONLY <1>1, <1>2, <1>5, <1>6, <1>7

LEMMA DeleteHeadRight ==
  ASSUME NEW h \in Seq(Items), NEW sense \in Senses, HeapFrom(h, sense, 1), Unlike(h),
         1 \in DOMAIN h, NEW r, r = Heap_DeleteHead(h, sense)
  PROVE  /\ r \in Seq(Items) /\ Len(r) = Len(h) - 1 /\ Unlike(r) /\ HeapFrom(r, sense, 1)
         /\ Elems(r) = Elems(h) \ {h[1]}
<1>1. PICK N \in Nat : N = Len(h) /\ DOMAIN h = 1 .. N /\ 1 \in 1 .. N /\ h[N] \in Items
  BY HeapFacts
<1>2. CASE N = 1
  <2>1. r = <<>> /\ r \in Seq(Items) /\ Len(r) = 0 /\ DOMAIN r = {}
    BY <1>1, <1>2 DEF Heap_DeleteHead
  <2>2. Elems(h) = {h[1]}
    BY <1>1, <1>2 DEF Elems
  <2>3. Elems(r) = {}
    BY <2>1 DEF Elems
  <2>. QED BY <1>1, <1>2, <2>1, <2>2, <2>3 DEF Unlike, HeapFrom
<1>3. CASE N # 1
  <2>. PICK p1 : p1 = SubSeq(h, 1, N - 1)
    OBVIOUS
  <2>. PICK q : q = [p1 EXCEPT ![1] = h[N]]
    OBVIOUS
  <2>1. p1 \in Seq(Items) /\ Len(p1) = N - 1 /\ \A x \in 1 .. N - 1 : p1[x] = h[x]
    <3>1. \A x \in 1 .. N - 1 : x \in 1 .. Len(h)
      BY <1>1
    <3>. QED BY <1>1, <1>3, <3>1
  <2>2. 1 \in 1 .. N - 1 /\ N - 1 \in Nat
    BY <1>1, <1>3
  <2>3. /\ q \in Seq(Items) /\ Len(q) = N - 1 /\ DOMAIN q = 1 .. N - 1
        /\ \A x \in 1 .. N - 1 : q[x] = IF x = 1 THEN h[N] ELSE h[x]
    <3>1. DOMAIN p1 = 1 .. N - 1
      BY <2>1, <2>2
    <3>2. DOMAIN q = 1 .. N - 1 /\ \A x \in 1 .. N - 1 : q[x] = IF x = 1 THEN h[N] ELSE h[x]
      BY <2>1, <3>1
    <3>3. \A x \in 1 .. N - 1 : q[x] \in Items
      BY <1>1, <2>1, <3>1, <3>2
    <3>4. q = [x \in 1 .. N - 1 |-> q[x]]
      BY <3>1, <3>2
    <3>5. PICK M \in Nat : M = N - 1
      BY <2>2
    <3>6. q \in Seq(Items) /\ Len(q) = M
      <4>1. q = [x \in 1 .. M |-> q[x]] /\ \A x \in 1 .. M : q[x] \in Items
        BY ONLY <3>3, <3>4, <3>5
      <4>2. q \in [1 .. M -> Items]
        BY ONLY <4>1
      <4>. QED BY ONLY <4>2, M \in Nat
    <3>. QED BY <3>2, <3>5, <3>6
  <2>4. Unlike(q)
    <3>. SUFFICES ASSUME NEW x \in 1 .. N - 1, NEW y \in 1 .. N - 1, q[x].OrgWeight = q[y].OrgWeight
                  PROVE  x = y
      BY <2>3 DEF Unlike
    <3>. DEFINE f(z) == IF z = 1 THEN N ELSE z
    <3>1. q[x] = h[f(x)] /\ q[y] = h[f(y)] /\ f(x) \in 1 .. N /\ f(y) \in 1 .. N
      BY <1>1, <2>3
    <3>2. f(x) = f(y)
      <4>. HIDE DEF f
      <4>. QED BY <1>1, <3>1 DEF Unlike
    <3>. QED BY <3>2
  <2>5. HeapFrom(q, sense, 1 + 1)
    <3>. SUFFICES ASSUME NEW x \in 1 .. N - 1, NEW y \in 1 .. N - 1, x >= 2, y \in {2 * x, 2 * x + 1}
                  PROVE  Key(sense, q[x]) <= Key(sense, q[y])
      BY <2>3 DEF HeapFrom, Below
    <3>1. x # 1 /\ y # 1 /\ x >= 1 /\ x \in 1 .. N /\ y \in 1 .. N
      OBVIOUS
    <3>2. Below(h, sense, x, y)
      BY <1>1, <3>1 DEF HeapFrom
    <3>. QED BY <2>3, <3>1, <3>2 DEF Below
  <2>6. Elems(q) = Elems(h) \ {h[1]}
    <3>1. ASSUME NEW a \in Elems(q) PROVE a \in Elems(h) \ {h[1]}
      <4>1. PICK x \in 1 .. N - 1 : a = q[x]
        BY <2>3 DEF Elems
      <4>2. PICK z \in 1 .. N : a = h[z] /\ z # 1
        BY <1>1, <1>3, <2>3, <4>1
      <4>. QED BY <1>1, <4>2 DEF Unlike, Elems
    <3>2. ASSUME NEW a \in Elems(h) \ {h[1]} PROVE a \in Elems(q)
      <4>1. PICK x \in 1 .. N : a = h[x] /\ x # 1
        BY <1>1 DEF Elems
      <4>2. PICK z \in 1 .. N - 1 : a = q[z]
        <5>1. CASE x = N
          BY <2>2, <2>3, <4>1, <5>1
        <5>2. CASE x # N
          BY <2>3, <4>1, <5>2
        <5>. QED BY <5>1, <5>2
      <4>. QED BY <2>3, <4>2 DEF Elems
    <3>. QED BY <3>1, <3>2
  <2>7. Rearranged(q, r) /\ HeapFrom(r, sense, 1)
    <3>1. r = Heap_Heapify(q, sense, 1)
      BY <1>1, <1>3 DEF Heap_DeleteHead
    <3>2. 1 \in DOMAIN q
      BY <2>2, <2>3
    <3>3. Rearranged(q, Heap_Heapify(q, sense, 1)) /\ HeapFrom(Heap_Heapify(q, sense, 1), sense, 1)
      BY ONLY <2>3, <2>5, <3>2, sense \in Senses, HeapifyRight
    <3>. QED BY <3>1, <3>3
  <2>. QED BY <1>1, <2>3, <2>4, <2>6, <2>7 DEF Rearranged
<1>. QED BY <1>2, <1>3

-----------------------------------------------------------------------------
\* Weights.

LEMMA QuotientOrder ==
  ASSUME NEW a \in Nat, NEW b \in Nat \ {0}, NEW c \in Nat \ {0}, b <= c
  PROVE  a \div b \in Nat /\ a \div c \in Nat /\ a \div c <= a \div b
<1>1. PICK q \in Nat : q = a \div c
  BY QuotientOf
<1>2. a \div b \in Nat
  BY QuotientOf
<1>3. a >= q * c
  BY <1>1, QuotientReaches
<1>4. q * c >= q * b
  <2>. PICK z \in Nat : c = b + z
    <3>1. c - b \in Nat /\ c = b + (c - b)
      OBVIOUS
    <3>. QED BY <3>1
  <2>1. q * c = q * b + q * z
    OBVIOUS
  <2>2. q * z \in Nat /\ q * b \in Nat
    BY ProductNat
  <2>. QED BY ONLY <2>1, <2>2
<1>5. a >= q * b
  <2>1. q * c \in Nat /\ q * b \in Nat
    BY ProductNat
  <2>. QED BY <1>3, <1>4, <2>1
<1>6. a \div b >= q
  BY <1>5, QuotientReaches
<1>. QED BY <1>1, <1>2, <1>6

\* A weight that was divided by a divisor of Scale loses nothing.
LEMMA WeightsDivided ==
  ASSUME NEW s \in Nat, NEW a \in Nat \ {0}, Scale % a = 0
  PROVE  /\ (Scale * s) \div a \in Nat /\ ((Scale * s) \div a) * a = Scale * s
         /\ (Scale * s) \div a = 0 <=> s = 0
<1>1. PICK c \in Nat : Scale = c * a
  <2>1. Scale \in Nat
    BY DocTableConstants
  <2>2. Scale = (Scale \div a) * a + (Scale % a) /\ Scale \div a \in Nat
    BY ONLY <2>1, a \in Nat \ {0}, QuotientOf
  <2>3. PICK c \in Nat : c = Scale \div a
    BY <2>2
  <2>4. Scale = c * a
    <3>1. c * a \in Nat
      BY ProductNat
    <3>2. Scale = c * a + 0
      BY <2>2, <2>3
    <3>. QED BY <3>1, <3>2
  <2>. QED BY <2>4
<1>2. c # 0
  BY <1>1, DocTableConstants
<1>3. PICK q \in Nat : q = c * s
  BY ProductNat
<1>4. Scale * s = q * a
  <2>1. (c * a) * s = (c * s) * a
    OBVIOUS
  <2>. QED BY <1>1, <1>3, <2>1
<1>5. (q * a) \div a = q
  <2>1. q * a \in Nat /\ 0 \in Nat /\ 0 < a /\ q * a = q * a + 0
    BY ProductNat
  <2>. QED BY ONLY <2>1, q \in Nat, a \in Nat \ {0}, QuotientIs
<1>6. q = 0 <=> s = 0
  BY <1>2, <1>3
<1>. QED BY <1>4, <1>5, <1>6

-----------------------------------------------------------------------------
\* What the documents weigh.

AccDocs == [x \in DOMAIN acc |-> acc[x].DocNum + 1]
AccSums == [x \in DOMAIN acc |-> acc[x].Sum]

\* The sums of the documents, the bounds of their weights, and the weights.
Sums == [d \in 1 .. NumDocs |-> Whole(Terms, InvfLevel, d - 1, j - 1)]
Bounds == [d \in 1 .. NumDocs |-> (Scale * Sums[d]) \div doctable[d].approx]
Cosines == [d \in 1 .. NumDocs |-> (Scale * Sums[d]) \div doctable[d].exact]
Measures == IF rqi.Exact THEN Cosines ELSE Bounds
ScoredDocs ==
  IF rqi.AccumMethod = "A" THEN {d \in 1 .. NumDocs : Sums[d] # 0}
  ELSE {AccDocs[x] : x \in DOMAIN AccDocs}

LEMMA WholeNat ==
  ASSUME NEW q \in Queries, NEW v, NEW d \in Nat, NEW m \in 0 .. Len(q)
  PROVE  Whole(q, v, d, m) \in Nat
<1>. PICK N \in Nat : N = Len(q)
  BY QueryFacts
<1>. DEFINE f == [x \in 1 .. N |-> GivenBy(q[x], v, d, Len(q[x].list))]
<1>1. ASSUME NEW x \in 1 .. N PROVE f[x] \in Nat
  <2>. PICK t : t = q[x]
    OBVIOUS
  <2>1. IsTerm(t)
    BY QueryFacts
  <2>. PICK M \in Nat : M = Len(t.list)
    BY <2>1 DEF IsTerm
  <2>2. \A y \in 1 .. M : Gives(t, v, d)[y] \in Nat
    <3>. TAKE y \in 1 .. M
    <3>1. Gives(t, v, d)[y] = IF Doc(t, y) = d + 1 THEN Weight(t, CountAt(t, v, y)) ELSE 0
      BY <2>1, GivesFacts
    <3>2. Weight(t, CountAt(t, v, y)) \in Nat
      BY <2>1, GivesFacts
    <3>. QED BY <3>1, <3>2
  <2>3. Upto(Gives(t, v, d), M) \in Nat
    BY <2>2, UptoNat
  <2>. QED BY <2>3 DEF GivenBy
<1>2. Whole(q, v, d, m) = Upto(f, m)
  BY DEF Whole
<1>3. m \in Nat /\ \A x \in 1 .. m : x \in 1 .. N
  OBVIOUS
<1>. HIDE DEF f
<1>. QED BY <1>1, <1>2, <1>3, UptoNat

\* The table of documents, and what it makes of the sums.
TableOfDocs(t) ==
  \A d \in 1 .. NumDocs :
    /\ t[d].approx \in Nat \ {0} /\ t[d].exact \in Nat \ {0} /\ t[d].SeekPos \in Nat \ {0}
    /\ t[d].approx <= t[d].exact /\ Scale % t[d].approx = 0 /\ Scale % t[d].exact = 0

LEMMA WeightFacts ==
  ASSUME RankedTypes, doctable \in DocTables
  PROVE  /\ TableOfDocs(doctable)
         /\ Sums \in [1 .. NumDocs -> Nat] /\ Bounds \in [1 .. NumDocs -> Nat]
         /\ Cosines \in [1 .. NumDocs -> Nat] /\ Measures \in [1 .. NumDocs -> Nat]
         /\ \A d \in 1 .. NumDocs :
              /\ Cosines[d] <= Bounds[d] /\ Measures[d] <= Bounds[d]
              /\ Bounds[d] = 0 <=> Sums[d] = 0
              /\ ToExact(Bounds[d], d) = Cosines[d]
              /\ Bounds[d] = (Scale * Sums[d]) \div Approx(d)
              /\ \A w \in Nat : ToExact(w, d) \in Nat /\ ToExact(w, d) <= w
<1>1. TableOfDocs(doctable)
  BY DocTableConstants DEF TableOfDocs
<1>2. Sums \in [1 .. NumDocs -> Nat]
  <2>1. j - 1 \in 0 .. Len(Terms) /\ Terms \in Queries
    BY QueryFacts DEF RankedTypes
  <2>2. \A d \in 1 .. NumDocs : d - 1 \in Nat
    BY RankedConstants
  <2>3. \A d \in 1 .. NumDocs : Whole(Terms, InvfLevel, d - 1, j - 1) \in Nat
    BY <2>1, <2>2, WholeNat
  <2>. QED BY <2>3 DEF Sums
<1>3. ASSUME NEW d \in 1 .. NumDocs
      PROVE  /\ Bounds[d] \in Nat /\ Cosines[d] \in Nat /\ Cosines[d] <= Bounds[d]
             /\ Bounds[d] = 0 <=> Sums[d] = 0
             /\ ToExact(Bounds[d], d) = Cosines[d]
             /\ Bounds[d] = (Scale * Sums[d]) \div Approx(d)
             /\ \A w \in Nat : ToExact(w, d) \in Nat /\ ToExact(w, d) <= w
  <2>. PICK a \in Nat \ {0}, b \in Nat \ {0}, s \in Nat :
         a = doctable[d].approx /\ b = doctable[d].exact /\ s = Sums[d]
    BY <1>1, <1>2 DEF TableOfDocs
  <2>1. a <= b /\ Scale % a = 0 /\ Scale % b = 0
    BY <1>1 DEF TableOfDocs
  <2>2. Bounds[d] = (Scale * s) \div a /\ Cosines[d] = (Scale * s) \div b
    BY DEF Bounds, Cosines
  <2>3. Scale * s \in Nat
    BY DocTableConstants, ProductNat
  <2>4. /\ (Scale * s) \div b <= (Scale * s) \div a /\ (Scale * s) \div a \in Nat
        /\ (Scale * s) \div b \in Nat
    BY ONLY <2>1, <2>3, a \in Nat \ {0}, b \in Nat \ {0}, QuotientOrder
  <2>5. ((Scale * s) \div a) * a = Scale * s /\ ((Scale * s) \div a = 0 <=> s = 0)
    BY <2>1, WeightsDivided
  <2>6. \A w : ToExact(w, d) = (w * a) \div b /\ Approx(d) = a
    BY DEF ToExact, Approx
  <2>7. ToExact(Bounds[d], d) = Cosines[d]
    BY <2>2, <2>5, <2>6
  <2>8. ASSUME NEW w \in Nat PROVE ToExact(w, d) \in Nat /\ ToExact(w, d) <= w
    <3>1. w * a \in Nat
      BY ProductNat
    <3>2. (w * a) \div b \in Nat /\ (w * a) \div b <= (w * a) \div a
      BY <2>1, <3>1, QuotientOrder
    <3>3. (w * a) \div a = w
      <4>1. 0 \in Nat /\ 0 < a /\ w * a = w * a + 0
        BY <3>1
      <4>. QED BY ONLY <3>1, <4>1, w \in Nat, a \in Nat \ {0}, QuotientIs
    <3>. QED BY <2>6, <3>2, <3>3
  <2>. QED BY <2>2, <2>4, <2>5, <2>6, <2>7, <2>8
<1>4. Bounds \in [1 .. NumDocs -> Nat] /\ Cosines \in [1 .. NumDocs -> Nat]
  <2>1. Bounds = [d \in 1 .. NumDocs |-> Bounds[d]] /\ Cosines = [d \in 1 .. NumDocs |-> Cosines[d]]
    BY DEF Bounds, Cosines
  <2>. QED BY <1>3, <2>1
<1>. QED BY <1>1, <1>2, <1>3, <1>4 DEF Measures

-----------------------------------------------------------------------------
\* Setting the sum of an accumulator.

LEMMA AccFacts ==
  ASSUME acc \in Seq(Entries)
  PROVE  /\ Len(acc) \in Nat /\ DOMAIN acc = 1 .. Len(acc) /\ DOMAIN AccDocs = DOMAIN acc
         /\ AccSums \in [DOMAIN acc -> Nat]
         /\ \A x \in DOMAIN acc : /\ AccDocs[x] = acc[x].DocNum + 1 /\ AccSums[x] = acc[x].Sum
                                  /\ acc[x].DocNum \in Nat /\ acc[x].Sum \in Nat
<1>1. \A x \in DOMAIN acc : acc[x].DocNum \in Nat /\ acc[x].Sum \in Nat
  <2>. TAKE x \in DOMAIN acc
  <2>1. acc[x] \in Entries
    BY EntryAt
  <2>. QED BY <2>1 DEF Entries
<1>. QED BY <1>1 DEF AccDocs, AccSums

LEMMA SumsSet ==
  ASSUME acc \in Seq(Entries), NEW S \in SUBSET (DOMAIN acc), NEW w \in [S -> Nat],
         acc' = [x \in DOMAIN acc |-> IF x \in S THEN [acc[x] EXCEPT !.Sum = w[x]] ELSE acc[x]]
  PROVE  /\ acc' \in Seq(Entries) /\ AccDocs' = AccDocs /\ DOMAIN acc' = DOMAIN acc
         /\ Len(acc') = Len(acc)
         /\ AccSums' = [x \in DOMAIN acc |-> IF x \in S THEN w[x] ELSE AccSums[x]]
<1>. PICK N \in Nat : N = Len(acc) /\ DOMAIN acc = 1 .. N
  BY AccFacts
<1>1. \A x \in 1 .. N : acc[x] \in Entries
  BY EntryAt
<1>2. \A x \in 1 .. N :
        /\ acc'[x] \in Entries /\ acc'[x].DocNum = acc[x].DocNum
        /\ acc'[x].Sum = IF x \in S THEN w[x] ELSE acc[x].Sum
  <2>. TAKE x \in 1 .. N
  <2>1. CASE x \in S
    <3>1. acc'[x] = [acc[x] EXCEPT !.Sum = w[x]] /\ w[x] \in Nat
      BY <2>1
    <3>. QED BY <1>1, <2>1, <3>1 DEF Entries
  <2>2. CASE x \notin S
    BY <1>1, <2>2
  <2>. QED BY <2>1, <2>2
<1>3. DOMAIN acc' = 1 .. N
  OBVIOUS
<1>4. acc' \in Seq(Entries) /\ Len(acc') = N
  <2>1. acc' = [x \in 1 .. N |-> acc'[x]]
    OBVIOUS
  <2>2. acc' \in [1 .. N -> Entries]
    BY <1>2, <2>1
  <2>. QED BY ONLY <2>2, N \in Nat
<1>5. AccDocs' = AccDocs
  BY ONLY <1>2, <1>3, DOMAIN acc = 1 .. N DEF AccDocs
<1>6. AccSums' = [x \in DOMAIN acc |-> IF x \in S THEN w[x] ELSE AccSums[x]]
  BY ONLY <1>2, <1>3, DOMAIN acc = 1 .. N DEF AccSums
<1>. QED BY <1>3, <1>4, <1>5, <1>6

LEMMA OneSet ==
  ASSUME acc \in Seq(Entries), NEW z \in DOMAIN acc, NEW w \in Nat,
         acc' = [acc EXCEPT ![z].Sum = w]
  PROVE  /\ acc' \in Seq(Entries) /\ AccDocs' = AccDocs /\ DOMAIN acc' = DOMAIN acc
         /\ Len(acc') = Len(acc)
         /\ AccSums' = [AccSums EXCEPT ![z] = w]
<1>. DEFINE f == [x \in {z} |-> w]
<1>1. f \in [{z} -> Nat] /\ {z} \in SUBSET (DOMAIN acc) /\ f[z] = w
  OBVIOUS
<1>2. acc' = [x \in DOMAIN acc |-> IF x \in {z} THEN [acc[x] EXCEPT !.Sum = f[x]] ELSE acc[x]]
  OBVIOUS
<1>. HIDE DEF f
<1>3. /\ acc' \in Seq(Entries) /\ AccDocs' = AccDocs /\ DOMAIN acc' = DOMAIN acc
      /\ Len(acc') = Len(acc)
      /\ AccSums' = [x \in DOMAIN acc |-> IF x \in {z} THEN f[x] ELSE AccSums[x]]
  BY <1>1, <1>2, SumsSet
<1>4. AccSums' = [AccSums EXCEPT ![z] = w]
  BY <1>1, <1>3, AccFacts
<1>. QED BY <1>3, <1>4

TwoSums(q, z, w, y, v) == [q EXCEPT ![z].Sum = w, ![y].Sum = v]

LEMMA TwoSet ==
  ASSUME acc \in Seq(Entries), NEW z \in DOMAIN acc, NEW w \in Nat,
         NEW y \in DOMAIN acc, NEW v \in Nat, y # z,
         acc' = TwoSums(acc, z, w, y, v)
  PROVE  /\ acc' \in Seq(Entries) /\ AccDocs' = AccDocs /\ DOMAIN acc' = DOMAIN acc
         /\ Len(acc') = Len(acc)
         /\ AccSums' = [AccSums EXCEPT ![z] = w, ![y] = v]
<1>. DEFINE f == [x \in {z, y} |-> IF x = z THEN w ELSE v]
<1>1. f \in [{z, y} -> Nat] /\ {z, y} \in SUBSET (DOMAIN acc) /\ f[z] = w /\ f[y] = v
  OBVIOUS
<1>2. acc' = [x \in DOMAIN acc |-> IF x \in {z, y} THEN [acc[x] EXCEPT !.Sum = f[x]] ELSE acc[x]]
  BY DEF TwoSums
<1>. HIDE DEF f
<1>3. /\ acc' \in Seq(Entries) /\ AccDocs' = AccDocs /\ DOMAIN acc' = DOMAIN acc
      /\ Len(acc') = Len(acc)
      /\ AccSums' = [x \in DOMAIN acc |-> IF x \in {z, y} THEN f[x] ELSE AccSums[x]]
  BY <1>1, <1>2, SumsSet
<1>4. AccSums' = [AccSums EXCEPT ![z] = w, ![y] = v]
  BY <1>1, <1>3, AccFacts
<1>. QED BY <1>3, <1>4

-----------------------------------------------------------------------------
\* What the ranking is handed.

LEMMA SumAlone ==
  ASSUME NEW q \in Seq(Entries), Distinct(q), NEW z \in DOMAIN q
  PROVE  SumIn(q, q[z].DocNum) = q[z].Sum
<1>. PICK d : d = q[z].DocNum
  OBVIOUS
<1>1. PICK f : /\ SumIn(q, d) = Upto(f, Len(q))
               /\ DOMAIN q = 1 .. Len(q) /\ Len(q) \in Nat
               /\ \A x \in 1 .. Len(q) : f[x] = Part(q[x], d) /\ f[x] \in Int
  BY AmountIs
<1>. PICK N \in Nat : N = Len(q) /\ DOMAIN q = 1 .. N
  BY <1>1
<1>. PICK w \in Int : w = q[z].Sum
  BY EntryAt
<1>. DEFINE none == [x \in 1 .. N |-> 0]
<1>2. Upto(none, N) = 0
  BY UptoZero
<1>3. \A x \in 1 .. N : none[x] \in Int /\ f[x] = IF x = z THEN none[x] + w ELSE none[x]
  <2>. TAKE x \in 1 .. N
  <2>1. f[x] = Part(q[x], d)
    BY <1>1
  <2>2. CASE x = z
    BY <2>1, <2>2 DEF Part
  <2>3. CASE x # z
    <3>1. q[x].DocNum # d
      BY <2>3 DEF Distinct
    <3>. QED BY <2>1, <2>3, <3>1 DEF Part
  <2>. QED BY <2>2, <2>3
<1>. HIDE DEF none
<1>4. Upto(f, N) = Upto(none, N) + w
  <2>1. z \in 1 .. N /\ \A x \in 1 .. N : none[x] \in Int
    BY <1>3
  <2>. QED BY ONLY <1>3, <2>1, N \in Nat, w \in Int, UptoGrows
<1>. QED BY <1>1, <1>2, <1>4

LEMMA NumbersKnown ==
  ASSUME NEW q \in Queries, NEW m \in 0 .. Len(q)
  PROVE  DocsTo(q, m) \subseteq 0 .. NumDocs - 1
<1>. SUFFICES ASSUME NEW d \in DocsTo(q, m) PROVE d \in 0 .. NumDocs - 1
  OBVIOUS
<1>1. PICK x \in 1 .. m : d \in DocsOf(q[x])
  BY DEF DocsTo
<1>2. x \in 1 .. Len(q) /\ IsTerm(q[x])
  BY QueryFacts
<1>3. PICK y \in DOMAIN q[x].list : d = q[x].list[y].doc - 1
  BY <1>1 DEF DocsOf
<1>4. q[x].list[y].doc \in 1 .. NumDocs
  BY <1>2, <1>3 DEF IsTerm
<1>5. PICK e \in 1 .. NumDocs : d = e - 1
  BY <1>3, <1>4
<1>. QED BY <1>5, RankedConstants

LEMMA DecodedFacts ==
  ASSUME RankedInv, at = "decoded"
  PROVE  /\ acc \in Seq(Entries) /\ AccDocs \in [DOMAIN acc -> 1 .. NumDocs]
         /\ rqi.AccumMethod # "L" =>
              /\ sup = <<>> /\ Ascending(acc)
              /\ \A x \in DOMAIN acc : AccSums[x] = Sums[AccDocs[x]]
              /\ rqi.AccumMethod = "A" =>
                   DOMAIN acc = 1 .. NumDocs /\ \A x \in DOMAIN acc : AccDocs[x] = x
<1>0. RankedTypes /\ SumsInv /\ AdmitInv /\ TableInv
  BY DEF RankedInv
<1>1. at \in Active /\ Read = 0 /\ acc \in Seq(Entries) /\ sup \in Seq(Entries)
  BY <1>0 DEF Active, Loop, Read, RankedTypes
<1>2. Terms \in Queries /\ Len(Terms) \in Nat /\ j - 1 \in 0 .. Len(Terms) /\ rqi \in Infos
      /\ rqi.AccumMethod \in {"A", "S", "H", "L"}
  BY <1>0, QueryFacts, RankedConstants DEF RankedTypes
<1>3. PICK N \in Nat : N = Len(acc) /\ DOMAIN acc = 1 .. N
  BY <1>1
<1>4. rqi.AccumMethod = "A" =>
        DOMAIN acc = 1 .. NumDocs /\ \A x \in DOMAIN acc : AccDocs[x] = x /\ acc[x].DocNum = x - 1
  <2>. SUFFICES ASSUME rqi.AccumMethod = "A"
       PROVE  DOMAIN acc = 1 .. NumDocs /\ \A x \in DOMAIN acc : AccDocs[x] = x /\ acc[x].DocNum = x - 1
    OBVIOUS
  <2>1. Len(acc) = NumDocs /\ \A x \in DOMAIN acc : acc[x].DocNum = x - 1
    BY <1>0, <1>1 DEF TableInv
  <2>. QED BY <1>3, <2>1 DEF AccDocs
<1>5. rqi.AccumMethod # "A" => Numbers(acc) \subseteq 0 .. NumDocs - 1
  <2>. SUFFICES ASSUME rqi.AccumMethod # "A" PROVE Numbers(acc) \subseteq 0 .. NumDocs - 1
    OBVIOUS
  <2>1. CASE Anding
    <3>1. PICK a \in 0 .. j - 1 : Admits(Terms, rqi, a)
      BY <1>0, <1>1, <2>1 DEF AdmitInv
    <3>2. a \in 0 .. Len(Terms)
      BY <1>2
    <3>. QED BY <1>2, <3>1, <3>2, NumbersKnown DEF Admits
  <2>2. CASE ~Anding
    <3>1. Numbers(acc) \cup Numbers(sup) = DocsTo(Terms, j - 1) \cup First(Terms[j], 0)
      BY <1>0, <1>1, <2>2 DEF AdmitInv
    <3>2. First(Terms[j], 0) = {}
      BY <1>2, DocsFacts
    <3>. QED BY <1>2, <3>1, <3>2, NumbersKnown
  <2>. QED BY <2>1, <2>2
<1>6. AccDocs \in [DOMAIN acc -> 1 .. NumDocs]
  <2>1. ASSUME NEW x \in DOMAIN acc PROVE acc[x].DocNum + 1 \in 1 .. NumDocs
    <3>1. CASE rqi.AccumMethod = "A"
      BY <1>4, <3>1 DEF AccDocs
    <3>2. CASE rqi.AccumMethod # "A"
      <4>1. acc[x].DocNum \in 0 .. NumDocs - 1
        BY <1>5, <3>2 DEF Numbers
      <4>. QED BY <4>1, RankedConstants
    <3>. QED BY <3>1, <3>2
  <2>. QED BY <2>1 DEF AccDocs
<1>7. ASSUME rqi.AccumMethod # "L"
      PROVE  /\ sup = <<>> /\ Ascending(acc)
             /\ \A x \in DOMAIN acc : AccSums[x] = Sums[AccDocs[x]]
  <2>1. sup = <<>>
    BY <1>0, <1>1, <1>2, <1>7 DEF TableInv
  <2>2. Ascending(acc)
    <3>1. CASE rqi.AccumMethod = "A"
      <4>1. ASSUME NEW x \in DOMAIN acc, NEW y \in DOMAIN acc, x < y
            PROVE  acc[x].DocNum < acc[y].DocNum
        <5>1. x \in Nat /\ y \in Nat /\ acc[x].DocNum = x - 1 /\ acc[y].DocNum = y - 1
          BY <1>3, <1>4, <3>1
        <5>. QED BY <4>1, <5>1
      <4>. QED BY <4>1 DEF Ascending
    <3>2. CASE rqi.AccumMethod # "A"
      BY <1>0, <1>1, <1>2, <1>7, <3>2 DEF TableInv
    <3>. QED BY <3>1, <3>2
  <2>3. ASSUME NEW x \in DOMAIN acc PROVE AccSums[x] = Sums[AccDocs[x]]
    <3>. PICK d \in Nat : d = acc[x].DocNum /\ d \in Numbers(acc)
      BY <1>1, AccFacts DEF Numbers
    <3>1. SumIn(acc, d) = acc[x].Sum
      BY <1>1, <2>2, AscendingDistinct, SumAlone
    <3>2. SumIn(sup, d) = 0
      BY <2>1, SumOfNone
    <3>3. SumIn(acc, d) + SumIn(sup, d) = Due(Terms, InvfLevel, d, j - 1, 0)
      BY <1>0, <1>1 DEF SumsInv, SumsRight
    <3>4. Due(Terms, InvfLevel, d, j - 1, 0) = Whole(Terms, InvfLevel, d, j - 1)
      BY <1>2, WholeFacts
    <3>5. AccSums[x] = acc[x].Sum /\ acc[x].Sum \in Nat /\ AccDocs[x] = d + 1
      BY <1>1, AccFacts
    <3>6. Sums[AccDocs[x]] = Whole(Terms, InvfLevel, d, j - 1)
      <4>1. AccDocs[x] \in 1 .. NumDocs /\ AccDocs[x] - 1 = d
        BY <1>6, <3>5
      <4>. QED BY <4>1 DEF Sums
    <3>. QED BY <3>1, <3>2, <3>3, <3>4, <3>5, <3>6
  <2>. QED BY <2>1, <2>2, <2>3
<1>. QED BY <1>1, <1>4, <1>6, <1>7

-----------------------------------------------------------------------------
\* Counting.

LEMMA CountImage ==
  ASSUME NEW N \in Nat, NEW f, DOMAIN f = 1 .. N,
         \A x, y \in 1 .. N : f[x] = f[y] => x = y
  PROVE  IsFiniteSet({f[x] : x \in 1 .. N}) /\ Cardinality({f[x] : x \in 1 .. N}) = N
<1>. PICK S : S = {f[x] : x \in 1 .. N}
  OBVIOUS
<1>. PICK g : g = [x \in 1 .. N |-> f[x]]
  OBVIOUS
<1>1. g \in [1 .. N -> S]
  OBVIOUS
<1>2. \A a, b \in 1 .. N : g[a] = g[b] => a = b
  OBVIOUS
<1>3. \A t \in S : \E x \in 1 .. N : g[x] = t
  OBVIOUS
<1>4. ExistsBijection(1 .. N, S)
  BY <1>1, <1>2, <1>3 DEF ExistsBijection, Bijection, Injection, Surjection, IsInjective
<1>5. Cardinality(S) = N
  BY <1>4, FS_CountingElements
<1>6. IsFiniteSet(S)
  BY <1>4, FS_NatBijection
<1>. QED BY <1>5, <1>6

LEMMA AtMostIs ==
  ASSUME NEW limit \in (Nat \ {0}) \cup {-1}, NEW x \in Nat
  PROVE  /\ AtMost(limit, x) \in Nat /\ AtMost(limit, x) <= x
         /\ AtMost(limit, AtMost(limit, x)) = AtMost(limit, x)
         /\ AtMost(limit, x) = 0 => x = 0
<1>1. CASE limit = -1
  BY <1>1 DEF AtMost
<1>2. CASE limit \in Nat \ {0}
  BY <1>2 DEF AtMost
<1>. QED BY <1>1, <1>2

-----------------------------------------------------------------------------
\* The heap of accumulators.

HeapOk(h, sense, D) ==
  /\ h \in Seq(Items) /\ Unlike(h) /\ HeapFrom(h, sense, 1)
  /\ \A e \in Elems(h) : e.OrgWeight \in DOMAIN D /\ e.DocNum = D[e.OrgWeight]

\* The accumulator has no entry in the heap.
Outside(H, x) == \A e \in H : e.OrgWeight # x

LEMMA RootOf ==
  ASSUME NEW h, NEW sense \in Senses, NEW D, HeapOk(h, sense, D)
  PROVE  /\ Len(h) \in Nat /\ (h # <<>> <=> Elems(h) # {}) /\ (h # <<>> <=> Len(h) # 0)
         /\ h # <<>> => 1 \in DOMAIN h /\ h[1] \in Elems(h)
         /\ \A e \in Elems(h) :
              /\ h # <<>> /\ e \in Items /\ e.Weight \in Nat
              /\ IF sense = "Lesser" THEN h[1].Weight <= e.Weight ELSE e.Weight <= h[1].Weight
         /\ \A e, f \in Elems(h) : e.OrgWeight = f.OrgWeight => e = f
<1>. h \in Seq(Items)
  BY DEF HeapOk
<1>. PICK N \in Nat : N = Len(h) /\ DOMAIN h = 1 .. N
  BY HeapFacts
<1>1. h # <<>> <=> N # 0
  OBVIOUS
<1>2. h # <<>> => 1 \in DOMAIN h /\ h[1] \in Elems(h)
  BY <1>1 DEF Elems
<1>3. h = <<>> => Elems(h) = {}
  BY <1>1 DEF Elems
<1>4. ASSUME NEW e \in Elems(h)
      PROVE  /\ h # <<>> /\ e \in Items /\ e.Weight \in Nat
             /\ IF sense = "Lesser" THEN h[1].Weight <= e.Weight ELSE e.Weight <= h[1].Weight
  <2>1. h # <<>> /\ h[1] \in Items /\ Key(sense, h[1]) <= Key(sense, e)
    BY RootIs DEF HeapOk
  <2>2. e \in Items /\ e.Weight \in Nat /\ h[1].Weight \in Nat
    BY <2>1, HeapFacts
  <2>. QED BY <2>1, <2>2 DEF Key
<1>5. ASSUME NEW e \in Elems(h), NEW f \in Elems(h), e.OrgWeight = f.OrgWeight PROVE e = f
  BY <1>5 DEF HeapOk, Unlike, Elems
<1>. QED BY <1>1, <1>2, <1>3, <1>4, <1>5

\* No entry but the root is of the accumulator of e.
OthersUnlike(h, e) == \A a \in Elems(h) : a # h[1] => a.OrgWeight # e.OrgWeight

LEMMA HeapReplaced ==
  ASSUME NEW h, NEW sense \in Senses, NEW D, HeapOk(h, sense, D), h # <<>>,
         NEW e \in Items, e.OrgWeight \in DOMAIN D, e.DocNum = D[e.OrgWeight],
         OthersUnlike(h, e), NEW r, r = Replaced(h, e, sense)
  PROVE  HeapOk(r, sense, D) /\ Len(r) = Len(h) /\ Elems(r) = (Elems(h) \ {h[1]}) \cup {e}
<1>1. h \in Seq(Items) /\ Unlike(h) /\ HeapFrom(h, sense, 1) /\ 1 \in DOMAIN h
  BY RootOf DEF HeapOk
<1>2. Alone(h, e)
  <2>. SUFFICES ASSUME NEW x \in DOMAIN h \ {1} PROVE h[x].OrgWeight # e.OrgWeight
    BY DEF Alone
  <2>1. h[x] \in Elems(h) /\ h[x] # h[1]
    BY <1>1 DEF Elems, Unlike
  <2>. QED BY <2>1 DEF OthersUnlike
<1>3. /\ r \in Seq(Items) /\ Len(r) = Len(h) /\ Unlike(r) /\ HeapFrom(r, sense, 1)
      /\ Elems(r) = (Elems(h) \ {h[1]}) \cup {e}
  BY ONLY <1>1, <1>2, r = Replaced(h, e, sense), sense \in Senses, e \in Items, ReplacedRight
<1>. QED BY <1>3 DEF HeapOk

LEMMA HeapShorter ==
  ASSUME NEW h, NEW sense \in Senses, NEW D, HeapOk(h, sense, D), h # <<>>,
         NEW r, r = Heap_DeleteHead(h, sense)
  PROVE  HeapOk(r, sense, D) /\ Len(r) = Len(h) - 1 /\ Elems(r) = Elems(h) \ {h[1]}
<1>1. h \in Seq(Items) /\ Unlike(h) /\ HeapFrom(h, sense, 1) /\ 1 \in DOMAIN h
  BY RootOf DEF HeapOk
<1>2. /\ r \in Seq(Items) /\ Len(r) = Len(h) - 1 /\ Unlike(r) /\ HeapFrom(r, sense, 1)
      /\ Elems(r) = Elems(h) \ {h[1]}
  BY <1>1, DeleteHeadRight
<1>. QED BY <1>2 DEF HeapOk

LEMMA HeapBuilt ==
  ASSUME NEW h \in Seq(Items), NEW sense \in Senses, NEW D, Unlike(h),
         \A e \in Elems(h) : e.OrgWeight \in DOMAIN D /\ e.DocNum = D[e.OrgWeight],
         NEW r, r = Heap_Build(h, sense)
  PROVE  HeapOk(r, sense, D) /\ Len(r) = Len(h) /\ Elems(r) = Elems(h)
<1>1. Rearranged(h, r) /\ HeapFrom(r, sense, 1)
  BY BuildRight
<1>. QED BY <1>1 DEF HeapOk, Rearranged

\* How many entries there are.
LEMMA HeapCounts ==
  ASSUME NEW h, NEW sense \in Senses, NEW D, HeapOk(h, sense, D)
  PROVE  /\ IsFiniteSet({e.OrgWeight : e \in Elems(h)})
         /\ Cardinality({e.OrgWeight : e \in Elems(h)}) = Len(h)
<1>. h \in Seq(Items) /\ Unlike(h)
  BY DEF HeapOk
<1>. PICK N \in Nat : N = Len(h) /\ DOMAIN h = 1 .. N
  BY HeapFacts
<1>. PICK f : f = [x \in 1 .. N |-> h[x].OrgWeight]
  OBVIOUS
<1>1. {e.OrgWeight : e \in Elems(h)} = {f[x] : x \in 1 .. N}
  BY DEF Elems
<1>2. \A x, y \in 1 .. N : f[x] = f[y] => x = y
  BY DEF Unlike
<1>3. DOMAIN f = 1 .. N
  OBVIOUS
<1>4. /\ IsFiniteSet({f[x] : x \in 1 .. N})
      /\ Cardinality({f[x] : x \in 1 .. N}) = N
  BY ONLY <1>2, <1>3, N \in Nat, CountImage
<1>. QED BY <1>1, <1>4

-----------------------------------------------------------------------------
\* The invariant of the ranking.

After == {"scan", "exact", "sort", "take", "done"}
Room == Cardinality(DOMAIN Docs)

PlacesInv ==
  /\ doctable \in DocTables
  /\ InvfLevel # 3 =>
       \A d, e \in 1 .. NumDocs : doctable[d].SeekPos = doctable[e].SeekPos => d = e
  /\ at \notin {"take", "done"} => order = "Lesser" /\ num = 0
  /\ at \in {"take", "done"} => order = "Greater"

\* The heap has entries of accumulators, and Docs room for them.
TableKept ==
  at \in After =>
    /\ acc \in Seq(Entries) /\ AccDocs \in [DOMAIN acc -> 1 .. NumDocs]
    /\ HeapOk(heap, order, AccDocs) /\ n \in 1 .. Len(acc) + 1
    /\ Room \in Nat /\ DOMAIN Docs = 0 .. Room - 1

\* Until documents are taken the heap is full, and 0 marks what is in it.
FillInv ==
  /\ at \in {"scan", "exact", "sort"} =>
       Len(heap) = Room /\ Docs = [x \in 0 .. Room - 1 |-> Unused]
  /\ at \in {"scan", "exact"} =>
       /\ \A e \in Elems(heap) : AccSums[e.OrgWeight] = 0
       /\ heap = <<>> => \A x \in DOMAIN acc : AccSums[x] = 0 /\ rqi.AccumMethod = "A"
  /\ at = "scan" => \A e \in Elems(heap) : e.OrgWeight < n

-----------------------------------------------------------------------------
\* How many go to the heap.

LEMMA ScoredCounts ==
  ASSUME acc \in Seq(Entries), Ascending(acc)
  PROVE  IsFiniteSet({AccDocs[x] : x \in DOMAIN AccDocs})
         /\ Cardinality({AccDocs[x] : x \in DOMAIN AccDocs}) = Len(acc)
<1>. PICK N \in Nat : N = Len(acc) /\ DOMAIN acc = 1 .. N /\ DOMAIN AccDocs = 1 .. N
  BY AccFacts
<1>1. \A x, y \in 1 .. N : AccDocs[x] = AccDocs[y] => x = y
  <2>. TAKE x, y \in 1 .. N
  <2>1. /\ AccDocs[x] = acc[x].DocNum + 1 /\ acc[x].DocNum \in Nat
        /\ AccDocs[y] = acc[y].DocNum + 1 /\ acc[y].DocNum \in Nat
    BY AccFacts
  <2>2. AccDocs[x] = AccDocs[y] => acc[x].DocNum = acc[y].DocNum
    BY <2>1
  <2>. QED BY <2>2, AscendingDistinct DEF Distinct
<1>2. /\ IsFiniteSet({AccDocs[x] : x \in 1 .. N})
      /\ Cardinality({AccDocs[x] : x \in 1 .. N}) = N
  <2>. PICK f : f = AccDocs
    OBVIOUS
  <2>1. DOMAIN f = 1 .. N /\ \A x, y \in 1 .. N : f[x] = f[y] => x = y
    BY <1>1
  <2>2. /\ IsFiniteSet({f[x] : x \in 1 .. N})
        /\ Cardinality({f[x] : x \in 1 .. N}) = N
    BY ONLY <2>1, N \in Nat, CountImage
  <2>. QED BY <2>2
<1>. QED BY <1>2

LEMMA LimitsAre ==
  ASSUME RankedInv
  PROVE  /\ rqi.MaxDocsToRetrieve \in (Nat \ {0}) \cup {-1}
         /\ MaxParasToRetrieve \in (Nat \ {0}) \cup {-1}
         /\ rqi.AccumMethod \in {"A", "S", "H", "L"} /\ rqi.Exact \in BOOLEAN
         /\ InvfLevel # 3 => MaxParasToRetrieve = rqi.MaxDocsToRetrieve
BY RankedConstants DEF RankedInv, RankedTypes, MaxParasToRetrieve

LEMMA MaxParasIs ==
  ASSUME RankedInv, at = "decoded"
  PROVE  /\ MaxParas \in Nat /\ MaxParas <= Len(acc)
         /\ MaxParas = 0 => \A x \in DOMAIN acc : AccSums[x] = 0 /\ rqi.AccumMethod = "A"
         /\ rqi.AccumMethod # "L" =>
              MaxParas = AtMost(MaxParasToRetrieve, Cardinality(ScoredDocs))
<1>0. acc \in Seq(Entries) /\ AccDocs \in [DOMAIN acc -> 1 .. NumDocs]
  BY DecodedFacts
<1>. PICK N \in Nat : N = Len(acc) /\ DOMAIN acc = 1 .. N
  BY <1>0
<1>. PICK limit \in (Nat \ {0}) \cup {-1} : limit = MaxParasToRetrieve
  BY LimitsAre
<1>1. CASE rqi.AccumMethod = "A"
  <2>. PICK S : S = {x \in DOMAIN acc : acc[x].Sum # 0}
    OBVIOUS
  <2>1. IsFiniteSet(1 .. N) /\ Cardinality(1 .. N) = N
    <3>1. 1 \in Int /\ N \in Int
      OBVIOUS
    <3>2. /\ IsFiniteSet(1 .. N)
          /\ Cardinality(1 .. N) = IF 1 > N THEN 0 ELSE N - 1 + 1
      BY ONLY <3>1, FS_Interval
    <3>. QED BY <3>2
  <2>2. IsFiniteSet(S) /\ Cardinality(S) <= N
    <3>1. S \in SUBSET (1 .. N)
      OBVIOUS
    <3>. QED BY <2>1, <3>1, FS_Subset
  <2>. PICK c \in Nat : c = Cardinality(S)
    BY <2>2, FS_CardinalityType
  <2>3. MaxParas = AtMost(limit, c)
    BY <1>1 DEF MaxParas
  <2>4. MaxParas \in Nat /\ MaxParas <= c /\ (MaxParas = 0 => c = 0)
    BY <2>3, AtMostIs
  <2>5. c = 0 => S = {}
    BY <2>2, FS_EmptySet
  <2>6. S = ScoredDocs
    <3>1. DOMAIN acc = 1 .. NumDocs /\ \A x \in DOMAIN acc : AccDocs[x] = x /\ AccSums[x] = Sums[AccDocs[x]]
      BY <1>1, DecodedFacts
    <3>2. \A x \in DOMAIN acc : AccSums[x] = acc[x].Sum
      BY <1>0, AccFacts
    <3>. QED BY <1>1, <3>1, <3>2 DEF ScoredDocs
  <2>7. S = {} => \A x \in DOMAIN acc : AccSums[x] = 0
    BY <1>0, AccFacts
  <2>8. MaxParas = 0 => \A x \in DOMAIN acc : AccSums[x] = 0
    BY <2>4, <2>5, <2>7
  <2>9. MaxParas <= N
    BY <2>2, <2>4
  <2>10. MaxParas = AtMost(MaxParasToRetrieve, Cardinality(ScoredDocs))
    BY <2>3, <2>6
  <2>. QED BY <1>1, <2>4, <2>8, <2>9, <2>10
<1>2. CASE rqi.AccumMethod # "A"
  <2>1. MaxParas = AtMost(limit, N)
    BY <1>2 DEF MaxParas
  <2>2. MaxParas \in Nat /\ MaxParas <= N /\ (MaxParas = 0 => N = 0)
    BY <2>1, AtMostIs
  <2>3. ASSUME rqi.AccumMethod # "L" PROVE Cardinality(ScoredDocs) = N
    <3>1. Ascending(acc)
      BY <2>3, DecodedFacts
    <3>2. ScoredDocs = {AccDocs[x] : x \in DOMAIN AccDocs}
      BY <1>2 DEF ScoredDocs
    <3>. QED BY <1>0, <3>1, <3>2, ScoredCounts
  <2>. QED BY <2>1, <2>2, <2>3
<1>. QED BY <1>1, <1>2

-----------------------------------------------------------------------------
\* The steps, as they change the sums and the entries of the heap.

\* The entry of an accumulator.
LEMMA EntryRight ==
  ASSUME acc \in Seq(Entries), AccDocs \in [DOMAIN acc -> 1 .. NumDocs],
         NEW x \in DOMAIN acc, NEW w \in Nat, NEW seek \in Nat, NEW e, e = HeapEntry(w, x, seek)
  PROVE  /\ e \in Items /\ e.Weight = w /\ e.OrgWeight = x /\ e.SeekPos = seek
         /\ e.DocNum = AccDocs[x]
<1>1. x \in Nat /\ AccDocs[x] = acc[x].DocNum + 1 /\ AccDocs[x] \in 1 .. NumDocs
  BY AccFacts
<1>. QED BY <1>1 DEF HeapEntry, Items

LEMMA FillEffect ==
  ASSUME RankedInv, PlacesInv, FillHeap, NEW m, m = MaxParas
  PROVE  /\ at = "decoded" /\ at' = "scan" /\ order = "Lesser" /\ order' = order /\ num' = 0
         /\ UNCHANGED <<given, j, doctable>>
         /\ m \in Nat /\ m <= Len(acc) /\ n' = m + 1
         /\ Docs' = [x \in 0 .. m - 1 |-> Unused] /\ Room' = m /\ Len(heap') = m
         /\ acc' \in Seq(Entries) /\ Len(acc') = Len(acc) /\ AccDocs' = AccDocs
         /\ HeapOk(heap', "Lesser", AccDocs)
         /\ AccSums' = [x \in DOMAIN acc |-> IF x <= m THEN 0 ELSE AccSums[x]]
         /\ \A e \in Elems(heap') :
              /\ e.OrgWeight \in 1 .. m /\ e.SeekPos = 0
              /\ e.Weight = (Scale * AccSums[e.OrgWeight]) \div Approx(e.DocNum)
         /\ \A x \in 1 .. m : \E e \in Elems(heap') : e.OrgWeight = x
<1>1. at = "decoded" /\ doctable \in DocTables
  BY DEF FillHeap, PlacesInv
<1>2. acc \in Seq(Entries) /\ AccDocs \in [DOMAIN acc -> 1 .. NumDocs]
  BY <1>1, DecodedFacts
<1>. PICK N \in Nat : N = Len(acc) /\ DOMAIN acc = 1 .. N
  BY <1>2
<1>3. m \in Nat /\ m <= N
  BY <1>1, MaxParasIs
<1>. DEFINE wt(x) == (Scale * acc[x].Sum) \div Approx(acc[x].DocNum + 1)
<1>. PICK first : first = [x \in 1 .. m |-> HeapEntry(wt(x), x, 0)]
  OBVIOUS
<1>4. /\ heap' = Heap_Build(first, "Lesser")
      /\ acc' = [x \in DOMAIN acc |-> IF x <= m THEN [acc[x] EXCEPT !.Sum = 0] ELSE acc[x]]
      /\ n' = m + 1 /\ Docs' = [x \in 0 .. m - 1 |-> Unused]
      /\ at' = "scan" /\ UNCHANGED <<given, j, doctable, order, num>>
  BY DEF FillHeap
<1>5. \A x \in 1 .. m : x \in DOMAIN acc /\ wt(x) \in Nat
  <2>. TAKE x \in 1 .. m
  <2>1. x \in DOMAIN acc
    BY <1>3
  <2>. PICK d \in 1 .. NumDocs : d = acc[x].DocNum + 1
    BY <1>2, <2>1, AccFacts
  <2>2. doctable[d].approx \in Nat \ {0}
    BY <1>1, DocTableConstants
  <2>. PICK a \in Nat \ {0} : a = Approx(d)
    BY <2>2 DEF Approx
  <2>3. acc[x].Sum \in Nat /\ Scale \in Nat
    BY <1>2, <2>1, AccFacts, DocTableConstants
  <2>4. Scale * acc[x].Sum \in Nat
    BY <2>3, ProductNat
  <2>5. (Scale * acc[x].Sum) \div a \in Nat
    BY ONLY <2>4, a \in Nat \ {0}, QuotientOf
  <2>. QED BY <2>1, <2>5
<1>6. \A x \in 1 .. m : /\ first[x] \in Items /\ first[x].Weight = wt(x) /\ first[x].OrgWeight = x
                        /\ first[x].SeekPos = 0 /\ first[x].DocNum = AccDocs[x]
  <2>. TAKE x \in 1 .. m
  <2>1. x \in DOMAIN acc /\ wt(x) \in Nat /\ first[x] = HeapEntry(wt(x), x, 0) /\ 0 \in Nat
    BY <1>5
  <2>. HIDE DEF wt
  <2>. QED BY <1>2, <2>1, EntryRight
<1>7. first \in Seq(Items) /\ Len(first) = m /\ DOMAIN first = 1 .. m
  <2>1. DOMAIN first = 1 .. m /\ first = [x \in 1 .. m |-> first[x]]
    OBVIOUS
  <2>2. first \in [1 .. m -> Items]
    BY ONLY <1>6, <2>1
  <2>. QED BY ONLY <1>3, <2>1, <2>2
<1>8. Unlike(first) /\ \A e \in Elems(first) : e.OrgWeight \in DOMAIN AccDocs /\ e.DocNum = AccDocs[e.OrgWeight]
  <2>. HIDE DEF wt
  <2>1. Unlike(first)
    <3>1. \A x \in 1 .. m : first[x].OrgWeight = x
      BY <1>6
    <3>. QED BY ONLY <1>7, <3>1 DEF Unlike
  <2>2. \A e \in Elems(first) : e.OrgWeight \in DOMAIN AccDocs /\ e.DocNum = AccDocs[e.OrgWeight]
    BY <1>2, <1>5, <1>6, <1>7 DEF Elems
  <2>. QED BY <2>1, <2>2
<1>9. HeapOk(heap', "Lesser", AccDocs) /\ Len(heap') = m /\ Elems(heap') = Elems(first)
  <2>1. "Lesser" \in Senses
    BY DEF Senses
  <2>. PICK r, D : r = Heap_Build(first, "Lesser") /\ D = AccDocs
    OBVIOUS
  <2>2. \A e \in Elems(first) : e.OrgWeight \in DOMAIN D /\ e.DocNum = D[e.OrgWeight]
    BY <1>8
  <2>3. HeapOk(r, "Lesser", D) /\ Len(r) = Len(first) /\ Elems(r) = Elems(first)
    BY ONLY <1>7, <1>8, <2>1, <2>2, r = Heap_Build(first, "Lesser"), HeapBuilt
  <2>. QED BY <1>4, <1>7, <2>3
<1>10. ASSUME NEW e \in Elems(heap')
       PROVE  /\ e.OrgWeight \in 1 .. m /\ e.SeekPos = 0
              /\ e.Weight = (Scale * AccSums[e.OrgWeight]) \div Approx(e.DocNum)
  <2>1. PICK x \in 1 .. m : e = first[x]
    BY <1>7, <1>9 DEF Elems
  <2>2. AccSums[x] = acc[x].Sum /\ AccDocs[x] = acc[x].DocNum + 1
    BY <1>2, <1>5, AccFacts
  <2>3. wt(x) = (Scale * AccSums[x]) \div Approx(AccDocs[x])
    BY <2>2
  <2>. HIDE DEF wt
  <2>4. e.OrgWeight = x /\ e.SeekPos = 0 /\ e.Weight = wt(x) /\ e.DocNum = AccDocs[x]
    BY <1>6, <2>1
  <2>. QED BY <2>3, <2>4
<1>11. \A x \in 1 .. m : \E e \in Elems(heap') : e.OrgWeight = x
  BY <1>6, <1>7, <1>9 DEF Elems
<1>12. Room' = m
  <2>1. (DOMAIN Docs)' = 0 .. m - 1
    BY <1>4
  <2>2. Cardinality(0 .. m - 1) = m
    <3>1. 0 \in Int /\ m - 1 \in Int
      BY <1>3
    <3>2. Cardinality(0 .. m - 1) = IF 0 > m - 1 THEN 0 ELSE (m - 1) - 0 + 1
      BY ONLY <3>1, FS_Interval
    <3>. QED BY <1>3, <3>2
  <2>. QED BY <2>1, <2>2 DEF Room
<1>13. /\ acc' \in Seq(Entries) /\ Len(acc') = Len(acc) /\ AccDocs' = AccDocs
       /\ AccSums' = [x \in DOMAIN acc |-> IF x <= m THEN 0 ELSE AccSums[x]]
  <2>. DEFINE S == 1 .. m
              f == [x \in S |-> 0]
  <2>1. f \in [S -> Nat] /\ S \in SUBSET (DOMAIN acc)
    BY <1>5
  <2>2. acc' = [x \in DOMAIN acc |-> IF x \in S THEN [acc[x] EXCEPT !.Sum = f[x]] ELSE acc[x]]
    <3>1. \A x \in DOMAIN acc : x <= m <=> x \in S
      BY <1>3
    <3>. QED BY <1>4, <3>1
  <2>3. \A x \in DOMAIN acc : (IF x \in S THEN f[x] ELSE AccSums[x]) = IF x <= m THEN 0 ELSE AccSums[x]
    BY <1>3
  <2>. HIDE DEF S, f
  <2>4. /\ acc' \in Seq(Entries) /\ AccDocs' = AccDocs /\ Len(acc') = Len(acc)
        /\ AccSums' = [x \in DOMAIN acc |-> IF x \in S THEN f[x] ELSE AccSums[x]]
    BY <1>2, <2>1, <2>2, SumsSet
  <2>. QED BY <2>3, <2>4
<1>14. order = "Lesser" /\ num = 0
  BY <1>1 DEF PlacesInv
<1>. QED BY <1>1, <1>3, <1>4, <1>9, <1>10, <1>11, <1>12, <1>13, <1>14

\* An entry took the place of the root.
Swapped(e) ==
  /\ heap # <<>> /\ heap[1] \in Elems(heap)
  /\ HeapOk(heap', "Lesser", AccDocs) /\ Len(heap') = Len(heap)
  /\ Elems(heap') = (Elems(heap) \ {heap[1]}) \cup {e}

\* A new one of accumulator n.
Entered(e, w, seek) ==
  /\ e \in Items /\ e.Weight = w /\ e.OrgWeight = n /\ e.DocNum = AccDocs[n] /\ e.SeekPos = seek
  /\ Swapped(e)

LEMMA EnteredIs ==
  ASSUME acc \in Seq(Entries), AccDocs \in [DOMAIN acc -> 1 .. NumDocs],
         HeapOk(heap, "Lesser", AccDocs), heap # <<>>, n \in DOMAIN acc, Outside(Elems(heap), n),
         NEW w \in Nat, NEW seek \in Nat, heap' = ReplaceRoot(HeapEntry(w, n, seek))
  PROVE  Entered(HeapEntry(w, n, seek), w, seek)
<1>. PICK e : e = HeapEntry(w, n, seek)
  OBVIOUS
<1>. PICK h, D, r : h = heap /\ D = AccDocs /\ r = heap'
  OBVIOUS
<1>1. e \in Items /\ e.Weight = w /\ e.OrgWeight = n /\ e.SeekPos = seek /\ e.DocNum = AccDocs[n]
  BY EntryRight
<1>2. "Lesser" \in Senses
  BY DEF Senses
<1>3. e.OrgWeight \in DOMAIN D /\ e.DocNum = D[e.OrgWeight]
  BY <1>1
<1>4. OthersUnlike(h, e)
  BY <1>1 DEF Outside, OthersUnlike
<1>5. r = Replaced(h, e, "Lesser")
  BY DEF ReplaceRoot, Replaced
<1>6. HeapOk(h, "Lesser", D) /\ h # <<>> /\ e \in Items
  BY <1>1
<1>7. HeapOk(r, "Lesser", D) /\ Len(r) = Len(h) /\ Elems(r) = (Elems(h) \ {h[1]}) \cup {e}
  BY ONLY <1>2, <1>3, <1>4, <1>5, <1>6, HeapReplaced
<1>8. h[1] \in Elems(h)
  BY ONLY <1>2, <1>6, RootOf
<1>. QED BY <1>1, <1>6, <1>7, <1>8 DEF Entered, Swapped

LEMMA QuotientNat ==
  ASSUME doctable \in DocTables, NEW d \in 1 .. NumDocs, NEW s \in Nat
  PROVE  (Scale * s) \div Approx(d) \in Nat
<1>1. doctable[d].approx \in Nat \ {0}
  BY DocTableConstants
<1>. PICK a \in Nat \ {0} : a = Approx(d)
  BY <1>1 DEF Approx
<1>2. Scale * s \in Nat
  BY DocTableConstants, ProductNat
<1>3. (Scale * s) \div a \in Nat
  BY ONLY <1>2, a \in Nat \ {0}, QuotientOf
<1>. QED BY <1>3

LEMMA ScanEffect ==
  ASSUME RankedInv, PlacesInv, TableKept, FillInv, ScanEntry,
         NEW w, w = (Scale * AccSums[n]) \div Approx(AccDocs[n])
  PROVE  /\ at = "scan" /\ at' = "scan" /\ order = "Lesser" /\ n \in DOMAIN acc /\ n' = n + 1
         /\ UNCHANGED <<given, j, doctable, order, num, Docs>>
         /\ acc' \in Seq(Entries) /\ Len(acc') = Len(acc) /\ AccDocs' = AccDocs /\ w \in Nat
         /\ \/ rqi.AccumMethod = "A" /\ AccSums[n] = 0 /\ AccSums' = AccSums /\ heap' = heap
            \/ /\ ~(rqi.AccumMethod = "A" /\ AccSums[n] = 0)
               /\ heap # <<>> /\ w <= heap[1].Weight
               /\ AccSums' = [AccSums EXCEPT ![n] = w] /\ heap' = heap
            \/ /\ ~(rqi.AccumMethod = "A" /\ AccSums[n] = 0)
               /\ \E e : Entered(e, w, 0) /\ heap[1].Weight < w
               /\ AccSums' = [AccSums EXCEPT ![heap[1].OrgWeight] = heap[1].Weight, ![n] = 0]
<1>1. at = "scan" /\ at' = at /\ n <= Len(acc) /\ n' = n + 1
      /\ UNCHANGED <<given, j, doctable, order, num, Docs>>
  BY DEF ScanEntry
<1>2. /\ acc \in Seq(Entries) /\ AccDocs \in [DOMAIN acc -> 1 .. NumDocs]
      /\ HeapOk(heap, "Lesser", AccDocs) /\ n \in 1 .. Len(acc) + 1 /\ order = "Lesser"
  BY <1>1 DEF TableKept, PlacesInv, After
<1>3. n \in DOMAIN acc
  BY <1>1, <1>2
<1>. PICK d \in 1 .. NumDocs, s \in Nat :
       d = AccDocs[n] /\ d = acc[n].DocNum + 1 /\ s = AccSums[n] /\ s = acc[n].Sum
  BY <1>2, <1>3, AccFacts
<1>4. w \in Nat /\ w = (Scale * acc[n].Sum) \div Approx(acc[n].DocNum + 1)
  BY QuotientNat DEF PlacesInv
<1>5. heap = <<>> => s = 0 /\ rqi.AccumMethod = "A"
  BY <1>1, <1>3 DEF FillInv
<1>6. Outside(Elems(heap), n)
  <2>1. \A e \in Elems(heap) : e.OrgWeight < n
    BY <1>1 DEF FillInv
  <2>. QED BY <1>2, <2>1 DEF Outside
<1>. DEFINE skipped == rqi.AccumMethod = "A" /\ acc[n].Sum = 0
            weight == (Scale * acc[n].Sum) \div Approx(acc[n].DocNum + 1)
<1>7. (CASE skipped -> UNCHANGED <<acc, heap>>
         [] ~skipped /\ weight <= heap[1].Weight ->
              /\ acc' = [acc EXCEPT ![n].Sum = weight]
              /\ UNCHANGED heap
         [] OTHER ->
              /\ acc' = Displaced
              /\ heap' = ReplaceRoot(HeapEntry(weight, n, 0)))
  BY DEF ScanEntry
<1>8. weight = w /\ (skipped <=> rqi.AccumMethod = "A" /\ s = 0)
  BY <1>4
<1>. HIDE DEF skipped, weight
<1>9. \/ skipped /\ UNCHANGED <<acc, heap>>
      \/ ~skipped /\ w <= heap[1].Weight /\ acc' = [acc EXCEPT ![n].Sum = w] /\ UNCHANGED heap
      \/ ~skipped /\ ~(w <= heap[1].Weight) /\ acc' = Displaced /\ heap' = ReplaceRoot(HeapEntry(w, n, 0))
  BY <1>7, <1>8
<1>10. CASE skipped /\ UNCHANGED <<acc, heap>>
  <2>1. AccSums' = AccSums /\ AccDocs' = AccDocs
    BY <1>10 DEF AccSums, AccDocs
  <2>. QED BY <1>1, <1>2, <1>3, <1>4, <1>8, <1>10, <2>1
<1>11. CASE ~skipped /\ w <= heap[1].Weight /\ acc' = [acc EXCEPT ![n].Sum = w] /\ UNCHANGED heap
  <2>1. acc' \in Seq(Entries) /\ AccDocs' = AccDocs /\ Len(acc') = Len(acc)
        /\ AccSums' = [AccSums EXCEPT ![n] = w]
    BY <1>2, <1>3, <1>4, <1>11, OneSet
  <2>. QED BY <1>1, <1>2, <1>3, <1>4, <1>5, <1>8, <1>11, <2>1
<1>12. CASE ~skipped /\ ~(w <= heap[1].Weight) /\ acc' = Displaced /\ heap' = ReplaceRoot(HeapEntry(w, n, 0))
  <2>1. heap # <<>> /\ "Lesser" \in Senses
    BY <1>5, <1>8, <1>12 DEF Senses
  <2>2. heap[1] \in Elems(heap) /\ heap[1].Weight \in Nat
    BY <1>2, <2>1, RootOf
  <2>. PICK v \in Nat : v = heap[1].Weight
    BY <2>2
  <2>. PICK x : x = heap[1].OrgWeight
    OBVIOUS
  <2>3. x \in DOMAIN acc /\ x # n
    BY <1>2, <1>6, <2>2 DEF HeapOk, Outside
  <2>4. acc' = TwoSums(acc, x, v, n, 0)
    BY <1>12 DEF Displaced, TwoSums
  <2>5. acc' \in Seq(Entries) /\ AccDocs' = AccDocs /\ Len(acc') = Len(acc)
        /\ AccSums' = [AccSums EXCEPT ![x] = v, ![n] = 0]
    <3>1. 0 \in Nat
      OBVIOUS
    <3>2. n # x
      BY <2>3
    <3>. QED BY ONLY <1>2, <1>3, <2>3, <2>4, <3>1, <3>2, v \in Nat, TwoSet
  <2>6. Entered(HeapEntry(w, n, 0), w, 0)
    BY <1>2, <1>3, <1>4, <1>6, <1>12, <2>1, EnteredIs
  <2>7. v < w
    BY <1>4, <1>12
  <2>. QED BY <1>1, <1>2, <1>3, <1>4, <1>8, <1>12, <2>5, <2>6, <2>7
<1>. QED BY <1>9, <1>10, <1>11, <1>12

LEMMA ExactEffect ==
  ASSUME RankedInv, PlacesInv, TableKept, FillInv, ExactEntry,
         NEW w, w = ToExact(AccSums[n], AccDocs[n])
  PROVE  /\ at = "exact" /\ at' = "exact" /\ order = "Lesser" /\ n \in DOMAIN acc /\ n' = n + 1
         /\ UNCHANGED <<given, j, doctable, order, num, Docs>>
         /\ acc' \in Seq(Entries) /\ Len(acc') = Len(acc) /\ AccDocs' = AccDocs /\ w \in Nat
         /\ AccSums[n] \in Nat
         /\ \/ /\ AccSums[n] = 0 \/ (heap # <<>> /\ w <= heap[1].Weight)
               /\ AccSums' = AccSums /\ heap' = heap
            \/ /\ AccSums[n] # 0
               /\ \E e : /\ Entered(e, w, doctable[AccDocs[n]].SeekPos) /\ heap[1].Weight < w
                         /\ doctable[AccDocs[n]].SeekPos \in Nat \ {0}
               /\ AccSums' = [AccSums EXCEPT ![n] = 0]
<1>1. at = "exact" /\ at' = at /\ n <= Len(acc) /\ n' = n + 1
      /\ UNCHANGED <<given, j, doctable, order, num, Docs>>
  BY DEF ExactEntry
<1>2. /\ acc \in Seq(Entries) /\ AccDocs \in [DOMAIN acc -> 1 .. NumDocs]
      /\ HeapOk(heap, "Lesser", AccDocs) /\ n \in 1 .. Len(acc) + 1 /\ order = "Lesser"
      /\ doctable \in DocTables /\ RankedTypes
  BY <1>1 DEF TableKept, PlacesInv, After, RankedInv
<1>3. n \in DOMAIN acc /\ "Lesser" \in Senses
  BY <1>1, <1>2 DEF Senses
<1>. PICK d \in 1 .. NumDocs, s \in Nat :
       d = AccDocs[n] /\ d = acc[n].DocNum + 1 /\ s = AccSums[n] /\ s = acc[n].Sum
  BY <1>2, <1>3, AccFacts
<1>4. w \in Nat /\ w <= s /\ w = ToExact(acc[n].Sum, acc[n].DocNum + 1)
  BY <1>2, WeightFacts
<1>5. heap = <<>> => s = 0
  BY <1>1, <1>3 DEF FillInv
<1>. PICK seek \in Nat \ {0} : seek = doctable[d].SeekPos
  BY <1>2, DocTableConstants
<1>6. heap # <<>> => heap[1].Weight \in Nat
  BY <1>2, <1>3, RootOf
<1>7. CASE WorthFetching(n) /\ ToExact(acc[n].Sum, acc[n].DocNum + 1) > heap[1].Weight
  <2>1. /\ heap' = ReplaceRoot(HeapEntry(w, n, seek)) /\ acc' = [acc EXCEPT ![n].Sum = 0]
    BY <1>4, <1>7 DEF ExactEntry
  <2>2. s # 0 /\ heap # <<>> /\ heap[1].Weight < w
    BY <1>4, <1>5, <1>6, <1>7 DEF WorthFetching
  <2>3. Outside(Elems(heap), n)
    BY <1>1, <2>2 DEF FillInv, Outside
  <2>4. Entered(HeapEntry(w, n, seek), w, seek)
    BY <1>2, <1>3, <1>4, <2>1, <2>2, <2>3, EnteredIs
  <2>5. acc' \in Seq(Entries) /\ AccDocs' = AccDocs /\ Len(acc') = Len(acc)
        /\ AccSums' = [AccSums EXCEPT ![n] = 0]
    <3>1. 0 \in Nat
      OBVIOUS
    <3>. QED BY ONLY <1>2, <1>3, <2>1, <3>1, OneSet
  <2>. QED BY <1>1, <1>2, <1>3, <1>4, <2>2, <2>4, <2>5
<1>8. CASE ~(WorthFetching(n) /\ ToExact(acc[n].Sum, acc[n].DocNum + 1) > heap[1].Weight)
  <2>1. acc' = acc /\ heap' = heap
    BY <1>8 DEF ExactEntry
  <2>2. AccSums' = AccSums /\ AccDocs' = AccDocs
    BY <2>1 DEF AccSums, AccDocs
  <2>3. s = 0 \/ (heap # <<>> /\ w <= heap[1].Weight)
    BY <1>4, <1>5, <1>6, <1>8 DEF WorthFetching
  <2>. QED BY <1>1, <1>2, <1>3, <1>4, <2>1, <2>2, <2>3
<1>. QED BY <1>7, <1>8

\* An entry with the true weight of its document.
Exacted(e) ==
  [e EXCEPT !.Weight = ToExact(@, e.DocNum), !.SeekPos = doctable[e.DocNum].SeekPos]

LEMMA ExactedIs ==
  ASSUME RankedTypes, doctable \in DocTables, NEW e \in Items, NEW f, f = Exacted(e)
  PROVE  /\ f \in Items /\ f.OrgWeight = e.OrgWeight /\ f.DocNum = e.DocNum
         /\ f.Weight = ToExact(e.Weight, e.DocNum) /\ f.Weight <= e.Weight
         /\ f.SeekPos = doctable[e.DocNum].SeekPos /\ f.SeekPos \in Nat \ {0}
<1>1. e.Weight \in Nat /\ e.DocNum \in 1 .. NumDocs /\ e.OrgWeight \in Nat
  BY DEF Items
<1>2. ToExact(e.Weight, e.DocNum) \in Nat /\ ToExact(e.Weight, e.DocNum) <= e.Weight
  BY <1>1, WeightFacts
<1>3. doctable[e.DocNum].SeekPos \in Nat \ {0}
  BY <1>1, DocTableConstants
<1>. PICK w \in Nat : w = ToExact(e.Weight, e.DocNum)
  BY <1>2
<1>. PICK s \in Nat \ {0} : s = doctable[e.DocNum].SeekPos
  BY <1>3
<1>4. f = [e EXCEPT !.Weight = w, !.SeekPos = s]
  BY DEF Exacted
<1>5. /\ f \in Items /\ f.OrgWeight = e.OrgWeight /\ f.DocNum = e.DocNum
      /\ f.Weight = w /\ f.SeekPos = s
  BY <1>4 DEF Items
<1>. QED BY <1>2, <1>5

\* What no step that follows FillHeap changes.
Same == UNCHANGED <<given, j, doctable, acc, Docs, num>> /\ AccDocs' = AccDocs /\ AccSums' = AccSums

LEMMA ScanDoneEffect ==
  ASSUME RankedInv, PlacesInv, TableKept, ScanDone
  PROVE  /\ at = "scan" /\ n = Len(acc) + 1 /\ n' = 1 /\ Same /\ UNCHANGED order /\ order = "Lesser"
         /\ Len(heap') = Len(heap) /\ HeapOk(heap', "Lesser", AccDocs)
         /\ \/ /\ rqi.Exact /\ InvfLevel # 3 /\ at' = "exact"
               /\ Elems(heap') = {Exacted(e) : e \in Elems(heap)}
            \/ ~(rqi.Exact /\ InvfLevel # 3) /\ at' = "sort" /\ heap' = heap
<1>1. at = "scan" /\ n > Len(acc) /\ n' = 1
      /\ UNCHANGED <<given, j, acc, doctable, order, num, Docs>>
  BY DEF ScanDone, table
<1>2. /\ acc \in Seq(Entries) /\ AccDocs \in [DOMAIN acc -> 1 .. NumDocs]
      /\ HeapOk(heap, "Lesser", AccDocs) /\ n \in 1 .. Len(acc) + 1 /\ order = "Lesser"
      /\ doctable \in DocTables /\ RankedTypes
  BY <1>1 DEF TableKept, PlacesInv, After, RankedInv
<1>3. n = Len(acc) + 1 /\ Len(acc) \in Nat
  BY <1>1, <1>2
<1>4. Same
  BY <1>1 DEF Same, AccDocs, AccSums
<1>5. CASE rqi.Exact /\ InvfLevel # 3
  <2>. PICK h, D : h = heap /\ D = AccDocs
    OBVIOUS
  <2>1. h \in Seq(Items) /\ Unlike(h)
    BY <1>2 DEF HeapOk
  <2>. PICK N \in Nat : N = Len(h) /\ DOMAIN h = 1 .. N
    BY <2>1, HeapFacts
  <2>. PICK q : q = [x \in DOMAIN h |-> Exacted(h[x])]
    OBVIOUS
  <2>2. heap' = Heap_Build(q, "Lesser") /\ at' = "exact"
    BY <1>5 DEF ScanDone, Exacted
  <2>3. \A x \in 1 .. N : /\ q[x] = Exacted(h[x]) /\ q[x] \in Items
                          /\ q[x].OrgWeight = h[x].OrgWeight /\ q[x].DocNum = h[x].DocNum
    <3>. TAKE x \in 1 .. N
    <3>1. q[x] = Exacted(h[x]) /\ h[x] \in Items
      BY <2>1, HeapFacts
    <3>. QED BY <1>2, <3>1, ExactedIs
  <2>4. q \in Seq(Items) /\ Len(q) = N /\ DOMAIN q = 1 .. N
    <3>1. DOMAIN q = 1 .. N /\ q = [x \in 1 .. N |-> q[x]]
      OBVIOUS
    <3>2. q \in [1 .. N -> Items]
      BY ONLY <2>3, <3>1
    <3>. QED BY ONLY <3>1, <3>2, N \in Nat
  <2>5. Unlike(q)
    BY <2>1, <2>3, <2>4 DEF Unlike
  <2>6. Elems(q) = {Exacted(e) : e \in Elems(h)}
    BY <2>3, <2>4 DEF Elems
  <2>7. \A e \in Elems(q) : e.OrgWeight \in DOMAIN D /\ e.DocNum = D[e.OrgWeight]
    BY <1>2, <2>3, <2>4, SMTT(30) DEF HeapOk, Elems
  <2>. PICK r : r = heap'
    OBVIOUS
  <2>8. HeapOk(r, "Lesser", D) /\ Len(r) = Len(q) /\ Elems(r) = Elems(q)
    <3>1. "Lesser" \in Senses /\ r = Heap_Build(q, "Lesser")
      BY <2>2 DEF Senses
    <3>. QED BY ONLY <2>4, <2>5, <2>7, <3>1, HeapBuilt
  <2>. QED BY <1>1, <1>2, <1>3, <1>4, <1>5, <2>2, <2>4, <2>6, <2>8
<1>6. CASE ~(rqi.Exact /\ InvfLevel # 3)
  <2>1. at' = "sort" /\ heap' = heap
    BY <1>6 DEF ScanDone
  <2>. QED BY <1>1, <1>2, <1>3, <1>4, <1>6, <2>1
<1>. QED BY <1>5, <1>6

LEMMA TurnEffect ==
  ASSUME RankedInv, PlacesInv, TableKept, FillInv, TurnOver
  PROVE  /\ at \in {"sort", "exact"} /\ at' = "take" /\ Same /\ n' = n
         /\ at = "exact" => n = Len(acc) + 1
         /\ order = "Lesser" /\ order' = "Greater" /\ num = 0
         /\ Len(heap) = Room /\ Len(heap') = Room /\ Room \in Nat
         /\ HeapOk(heap, "Lesser", AccDocs)
         /\ HeapOk(heap', "Greater", AccDocs) /\ Elems(heap') = Elems(heap)
         /\ MaxDocs' = AtMost(rqi.MaxDocsToRetrieve, Room) /\ BackEnd' = Room - 1
<1>1. /\ at = "sort" \/ (at = "exact" /\ n > Len(acc))
      /\ order' = "Greater" /\ heap' = Heap_Build(heap, "Greater")
      /\ MaxDocs' = AtMost(rqi.MaxDocsToRetrieve, Len(heap)) /\ BackEnd' = Len(heap) - 1
      /\ at' = "take" /\ UNCHANGED <<given, j, acc, doctable, n, Docs, num>>
  BY DEF TurnOver, table, LastPlace
<1>2. /\ acc \in Seq(Entries) /\ AccDocs \in [DOMAIN acc -> 1 .. NumDocs]
      /\ HeapOk(heap, "Lesser", AccDocs) /\ n \in 1 .. Len(acc) + 1 /\ order = "Lesser" /\ num = 0
      /\ Len(heap) = Room /\ Room \in Nat
  BY <1>1 DEF TableKept, PlacesInv, After, FillInv
<1>3. at = "exact" => n = Len(acc) + 1
  BY <1>1, <1>2
<1>4. Same
  BY <1>1 DEF Same, AccDocs, AccSums
<1>. PICK h, D, r : h = heap /\ D = AccDocs /\ r = heap'
  OBVIOUS
<1>5. HeapOk(r, "Greater", D) /\ Len(r) = Len(h) /\ Elems(r) = Elems(h)
  <2>1. "Greater" \in Senses /\ r = Heap_Build(h, "Greater")
    BY <1>1 DEF Senses
  <2>2. h \in Seq(Items) /\ Unlike(h)
        /\ \A e \in Elems(h) : e.OrgWeight \in DOMAIN D /\ e.DocNum = D[e.OrgWeight]
    BY <1>2 DEF HeapOk
  <2>. QED BY ONLY <2>1, <2>2, HeapBuilt
<1>. QED BY <1>1, <1>2, <1>3, <1>4, <1>5

LEMMA RootEffect ==
  ASSUME RankedInv, PlacesInv, TableKept, Make_Exact_Root
  PROVE  /\ at = "take" /\ at' = "take" /\ Same /\ n' = n /\ order = "Greater" /\ order' = "Greater"
         /\ UNCHANGED <<MaxDocs, BackEnd>>
         /\ rqi.Exact /\ heap # <<>> /\ heap[1] \in Elems(heap) /\ heap[1].SeekPos = 0
         /\ HeapOk(heap, "Greater", AccDocs)
         /\ HeapOk(heap', "Greater", AccDocs) /\ Len(heap') = Len(heap)
         /\ Elems(heap') = (Elems(heap) \ {heap[1]}) \cup {Exacted(heap[1])}
<1>1. /\ at = "take" /\ heap # <<>> /\ rqi.Exact /\ heap[1].SeekPos = 0
      /\ at' = at /\ UNCHANGED <<given, j, acc, doctable, order, n, Docs, num, MaxDocs, BackEnd>>
      /\ heap' = Heap_Heapify([heap EXCEPT ![1].Weight = ToExact(@, heap[1].DocNum),
                                           ![1].SeekPos = doctable[heap[1].DocNum].SeekPos], order, 1)
  BY DEF Make_Exact_Root, InTake, RootKnown, table
<1>2. /\ HeapOk(heap, "Greater", AccDocs) /\ order = "Greater" /\ doctable \in DocTables /\ RankedTypes
  BY <1>1 DEF TableKept, PlacesInv, After, RankedInv
<1>3. Same
  BY <1>1 DEF Same, AccDocs, AccSums
<1>. PICK h, D, r, e : h = heap /\ D = AccDocs /\ r = heap' /\ e = Exacted(heap[1])
  OBVIOUS
<1>4. "Greater" \in Senses
  BY DEF Senses
<1>5. 1 \in DOMAIN h /\ h[1] \in Elems(h) /\ h[1] \in Items
  BY <1>1, <1>2, <1>4, RootOf
<1>6. e \in Items /\ e.OrgWeight = h[1].OrgWeight /\ e.DocNum = h[1].DocNum
  BY <1>2, <1>5, ExactedIs
<1>7. r = Replaced(h, e, "Greater")
  <2>1. [h EXCEPT ![1].Weight = ToExact(@, h[1].DocNum), ![1].SeekPos = doctable[h[1].DocNum].SeekPos]
          = [h EXCEPT ![1] = e]
    BY <1>5 DEF Exacted
  <2>. QED BY <1>1, <1>2, <2>1 DEF Replaced
<1>8. OthersUnlike(h, e)
  BY <1>2, <1>4, <1>5, <1>6, RootOf DEF OthersUnlike
<1>9. e.OrgWeight \in DOMAIN D /\ e.DocNum = D[e.OrgWeight]
  BY <1>2, <1>5, <1>6 DEF HeapOk
<1>10. HeapOk(h, "Greater", D) /\ h # <<>>
  BY <1>1, <1>2
<1>11. HeapOk(r, "Greater", D) /\ Len(r) = Len(h) /\ Elems(r) = (Elems(h) \ {h[1]}) \cup {e}
  <2>1. e \in Items
    BY <1>6
  <2>. QED BY ONLY <1>4, <1>7, <1>8, <1>9, <1>10, <2>1, HeapReplaced
<1>. QED BY <1>1, <1>2, <1>3, <1>5, <1>11

LEMMA TakeEffect ==
  ASSUME RankedInv, PlacesInv, TableKept, TakeRoot
  PROVE  /\ at = "take" /\ at' = "take" /\ n' = n /\ order = "Greater" /\ order' = "Greater"
         /\ UNCHANGED <<given, j, doctable, acc>> /\ AccDocs' = AccDocs /\ AccSums' = AccSums
         /\ MaxDocs' = MaxDocs
         /\ heap # <<>> /\ heap[1] \in Elems(heap) /\ (rqi.Exact => heap[1].SeekPos # 0)
         /\ num < MaxDocs
         /\ HeapOk(heap, "Greater", AccDocs)
         /\ HeapOk(heap', "Greater", AccDocs) /\ Len(heap') = Len(heap) - 1
         /\ Elems(heap') = Elems(heap) \ {heap[1]}
<1>1. /\ at = "take" /\ heap # <<>> /\ num < MaxDocs /\ (rqi.Exact => heap[1].SeekPos # 0)
      /\ at' = at /\ UNCHANGED <<given, j, acc, doctable, order, n, MaxDocs>>
      /\ heap' = Heap_DeleteHead(heap, order)
  BY DEF TakeRoot, InTake, RootKnown, table
<1>2. HeapOk(heap, "Greater", AccDocs) /\ order = "Greater"
  BY <1>1 DEF TableKept, PlacesInv, After
<1>3. AccDocs' = AccDocs /\ AccSums' = AccSums
  BY <1>1 DEF AccDocs, AccSums
<1>. PICK h, D, r : h = heap /\ D = AccDocs /\ r = heap'
  OBVIOUS
<1>4. "Greater" \in Senses
  BY DEF Senses
<1>5. h[1] \in Elems(h) /\ HeapOk(h, "Greater", D) /\ h # <<>>
  BY <1>1, <1>2, <1>4, RootOf
<1>6. HeapOk(r, "Greater", D) /\ Len(r) = Len(h) - 1 /\ Elems(r) = Elems(h) \ {h[1]}
  <2>1. r = Heap_DeleteHead(h, "Greater")
    BY <1>1, <1>2
  <2>. QED BY ONLY <1>4, <1>5, <2>1, HeapShorter
<1>. QED BY <1>1, <1>2, <1>3, <1>5, <1>6

-----------------------------------------------------------------------------
\* The heap is kept.

LEMMA AccumAway ==
  ASSUME RankedInv, Accumulate
  PROVE  /\ at \notin After /\ at' \notin After
         /\ UNCHANGED <<given, doctable, rankvars>>
<1>0. AccumNext /\ UNCHANGED <<doctable, rankvars>> /\ RankedTypes /\ CursorInv
  BY DEF Accumulate, RankedInv
<1>1. CASE StartTerm
  BY <1>0, <1>1 DEF StartTerm, After
<1>2. CASE Hop
  BY <1>0, <1>2 DEF Hop, After
<1>3. CASE ReadHeader
  BY <1>0, <1>3 DEF ReadHeader, After
<1>4. CASE NextPosting
  <2>1. at \in Loop /\ rqi.AccumMethod # "A" /\ UNCHANGED given
    BY <1>4 DEF NextPosting, Loop
  <2>2. \E d, w : Posted(d, w)
    BY <1>0, <1>4, NextPostingReads
  <2>3. at' \in {"top", "overrun"}
    BY <1>0, <2>1, <2>2, PostedIs
  <2>. QED BY <1>0, <2>1, <2>3 DEF Loop, After
<1>5. CASE ArrayPosting
  BY <1>0, <1>5 DEF ArrayPosting, After
<1>6. CASE EndTerm
  BY <1>0, <1>6 DEF EndTerm, After
<1>7. CASE ReturnTable
  BY <1>0, <1>7 DEF ReturnTable, After
<1>. QED BY <1>0, <1>1, <1>2, <1>3, <1>4, <1>5, <1>6, <1>7 DEF AccumNext

LEMMA ReturnEffect ==
  ASSUME Return
  PROVE  /\ at = "take" /\ at' = "done" /\ Same /\ ~InTake
         /\ UNCHANGED <<heap, order, n, MaxDocs, BackEnd>>
<1>1. /\ at = "take" /\ at' = "done" /\ ~InTake
      /\ UNCHANGED <<given, j, acc, doctable, heap, order, n, Docs, num, MaxDocs, BackEnd>>
  BY DEF Return, table, rankvars
<1>. QED BY <1>1 DEF Same, AccDocs, AccSums

LEMMA PlacesKept ==
  ASSUME RankedInv, PlacesInv, TableKept, FillInv, RankedNext \/ UNCHANGED vars PROVE PlacesInv'
<1>. SUFFICES /\ UNCHANGED <<doctable, InvfLevel>>
              /\ at' \notin {"take", "done"} => order' = "Lesser" /\ num' = 0
              /\ at' \in {"take", "done"} => order' = "Greater"
  BY DEF PlacesInv
<1>1. CASE Accumulate
  BY <1>1, AccumAway DEF PlacesInv, After, rankvars, given
<1>2. CASE FillHeap
  BY <1>2, FillEffect DEF given
<1>3. CASE ScanEntry
  <2>1. at = "scan" /\ at' = "scan" /\ UNCHANGED <<given, doctable, order, num>>
    BY <1>3 DEF ScanEntry
  <2>. QED BY <2>1 DEF PlacesInv, given
<1>4. CASE ScanDone
  BY <1>4, ScanDoneEffect DEF PlacesInv, given, Same
<1>5. CASE ExactEntry
  <2>1. at = "exact" /\ at' = "exact" /\ UNCHANGED <<given, doctable, order, num>>
    BY <1>5 DEF ExactEntry
  <2>. QED BY <2>1 DEF PlacesInv, given
<1>6. CASE TurnOver
  BY <1>6, TurnEffect DEF given, Same
<1>7. CASE Make_Exact_Root
  BY <1>7, RootEffect DEF given, Same
<1>8. CASE TakeRoot
  BY <1>8, TakeEffect DEF given
<1>9. CASE Return
  BY <1>9, ReturnEffect DEF given, PlacesInv, Same
<1>10. CASE UNCHANGED vars
  BY <1>10 DEF vars, accumvars, given, rankvars, PlacesInv
<1>. QED BY <1>1, <1>2, <1>3, <1>4, <1>5, <1>6, <1>7, <1>8, <1>9, <1>10 DEF RankedNext

LEMMA TableIsKept ==
  ASSUME RankedInv, PlacesInv, TableKept, FillInv, RankedNext \/ UNCHANGED vars PROVE TableKept'
<1>1. ASSUME at' \in After, at \in After, acc' \in Seq(Entries), Len(acc') = Len(acc), AccDocs' = AccDocs,
             HeapOk(heap', order', AccDocs), n' \in 1 .. Len(acc) + 1, (DOMAIN Docs)' = DOMAIN Docs
      PROVE  TableKept'
  <2>1. DOMAIN acc' = DOMAIN acc /\ AccDocs \in [DOMAIN acc -> 1 .. NumDocs]
        /\ Room \in Nat /\ DOMAIN Docs = 0 .. Room - 1
    BY <1>1 DEF TableKept
  <2>2. Room' = Room
    BY <1>1 DEF Room
  <2>3. HeapOk(heap, order, AccDocs)'
    BY <1>1
  <2>. QED BY <1>1, <2>1, <2>2, <2>3 DEF TableKept
<1>2. at \in After => /\ acc \in Seq(Entries) /\ Len(acc) \in Nat /\ n \in 1 .. Len(acc) + 1
                      /\ HeapOk(heap, order, AccDocs)
  BY DEF TableKept
<1>3. CASE Accumulate
  BY <1>3, AccumAway DEF TableKept
<1>4. CASE FillHeap
  <2>. PICK m : m = MaxParas
    OBVIOUS
  <2>1. /\ at = "decoded" /\ at' = "scan" /\ order' = "Lesser"
        /\ m \in Nat /\ m <= Len(acc) /\ n' = m + 1
        /\ Docs' = [x \in 0 .. m - 1 |-> Unused] /\ Room' = m
        /\ acc' \in Seq(Entries) /\ Len(acc') = Len(acc) /\ AccDocs' = AccDocs
        /\ HeapOk(heap', "Lesser", AccDocs)
    BY <1>4, FillEffect
  <2>2. acc \in Seq(Entries) /\ AccDocs \in [DOMAIN acc -> 1 .. NumDocs] /\ Len(acc) \in Nat
    BY <2>1, DecodedFacts
  <2>3. n' \in 1 .. Len(acc') + 1 /\ DOMAIN acc' = DOMAIN acc
    BY <2>1, <2>2
  <2>4. HeapOk(heap, order, AccDocs)'
    BY <2>1
  <2>5. (DOMAIN Docs)' = 0 .. m - 1
    BY <2>1
  <2>. QED BY <2>1, <2>2, <2>3, <2>4, <2>5 DEF TableKept
<1>5. CASE ScanEntry
  <2>. PICK w : w = (Scale * AccSums[n]) \div Approx(AccDocs[n])
    OBVIOUS
  <2>1. /\ at = "scan" /\ at' = "scan" /\ order = "Lesser" /\ n \in DOMAIN acc /\ n' = n + 1
        /\ UNCHANGED <<order, Docs>>
        /\ acc' \in Seq(Entries) /\ Len(acc') = Len(acc) /\ AccDocs' = AccDocs
        /\ heap' = heap \/ \E e : Entered(e, w, 0)
    BY <1>5, ScanEffect
  <2>2. HeapOk(heap', order', AccDocs)
    BY <1>2, <2>1 DEF Entered, Swapped, After
  <2>. QED BY <1>1, <1>2, <2>1, <2>2 DEF After
<1>6. CASE ScanDone
  <2>1. /\ at = "scan" /\ at' \in After /\ n' = 1 /\ order' = "Lesser"
        /\ UNCHANGED <<acc, Docs>> /\ AccDocs' = AccDocs /\ HeapOk(heap', "Lesser", AccDocs)
    BY <1>6, ScanDoneEffect DEF After, Same
  <2>. QED BY <1>1, <1>2, <2>1 DEF After
<1>7. CASE ExactEntry
  <2>. PICK w : w = ToExact(AccSums[n], AccDocs[n])
    OBVIOUS
  <2>1. /\ at = "exact" /\ at' = "exact" /\ order = "Lesser" /\ n \in DOMAIN acc /\ n' = n + 1
        /\ UNCHANGED <<order, Docs>>
        /\ acc' \in Seq(Entries) /\ Len(acc') = Len(acc) /\ AccDocs' = AccDocs
        /\ heap' = heap \/ \E e : Entered(e, w, doctable[AccDocs[n]].SeekPos)
    BY <1>7, ExactEffect
  <2>2. HeapOk(heap', order', AccDocs)
    BY <1>2, <2>1 DEF Entered, Swapped, After
  <2>. QED BY <1>1, <1>2, <2>1, <2>2 DEF After
<1>8. CASE TurnOver
  <2>1. /\ at \in {"sort", "exact"} /\ at' = "take" /\ n' = n /\ order' = "Greater"
        /\ UNCHANGED <<acc, Docs>> /\ AccDocs' = AccDocs /\ HeapOk(heap', "Greater", AccDocs)
    BY <1>8, TurnEffect DEF Same
  <2>. QED BY <1>1, <1>2, <2>1 DEF After
<1>9. CASE Make_Exact_Root
  <2>1. /\ at = "take" /\ at' = "take" /\ n' = n /\ order' = "Greater"
        /\ UNCHANGED <<acc, Docs>> /\ AccDocs' = AccDocs /\ HeapOk(heap', "Greater", AccDocs)
    BY <1>9, RootEffect DEF Same
  <2>. QED BY <1>1, <1>2, <2>1 DEF After
<1>10. CASE TakeRoot
  <2>1. /\ at = "take" /\ at' = "take" /\ n' = n /\ order' = "Greater"
        /\ UNCHANGED acc /\ AccDocs' = AccDocs /\ HeapOk(heap', "Greater", AccDocs)
    BY <1>10, TakeEffect
  <2>2. (DOMAIN Docs)' = DOMAIN Docs
    BY <1>10 DEF TakeRoot
  <2>. QED BY <1>1, <1>2, <2>1, <2>2 DEF After
<1>11. CASE Return
  <2>1. /\ at = "take" /\ at' = "done" /\ UNCHANGED <<acc, Docs, n, order, heap>> /\ AccDocs' = AccDocs
    BY <1>11, ReturnEffect DEF Same
  <2>. QED BY <1>1, <1>2, <2>1 DEF After
<1>12. CASE UNCHANGED vars
  <2>1. UNCHANGED <<at, acc, Docs, n, order, heap>> /\ AccDocs' = AccDocs
    BY <1>12 DEF vars, accumvars, table, rankvars, AccDocs
  <2>2. CASE at \in After
    BY <1>1, <1>2, <2>1, <2>2
  <2>3. CASE at \notin After
    BY <2>1, <2>3 DEF TableKept
  <2>. QED BY <2>2, <2>3
<1>. QED BY <1>3, <1>4, <1>5, <1>6, <1>7, <1>8, <1>9, <1>10, <1>11, <1>12 DEF RankedNext

LEMMA NoEntries ==
  ASSUME NEW h, NEW sense \in Senses, NEW D, HeapOk(h, sense, D),
         NEW r, NEW s \in Senses, NEW E, HeapOk(r, s, E), Len(r) = Len(h)
  PROVE  r = <<>> <=> h = <<>>
BY RootOf

LEMMA FillKept ==
  ASSUME RankedInv, PlacesInv, TableKept, FillInv, RankedNext \/ UNCHANGED vars PROVE FillInv'
<1>0. "Lesser" \in Senses /\ "Greater" \in Senses
  BY DEF Senses
<1>1. CASE Accumulate
  BY <1>1, AccumAway DEF FillInv, After
<1>2. CASE FillHeap
  <2>. PICK m : m = MaxParas
    OBVIOUS
  <2>1. /\ at = "decoded" /\ at' = "scan" /\ UNCHANGED given
        /\ m \in Nat /\ m <= Len(acc) /\ n' = m + 1
        /\ Docs' = [x \in 0 .. m - 1 |-> Unused] /\ Room' = m /\ Len(heap') = m
        /\ acc' \in Seq(Entries) /\ Len(acc') = Len(acc)
        /\ HeapOk(heap', "Lesser", AccDocs)
        /\ AccSums' = [x \in DOMAIN acc |-> IF x <= m THEN 0 ELSE AccSums[x]]
        /\ \A e \in Elems(heap') : e.OrgWeight \in 1 .. m
    BY <1>2, FillEffect
  <2>2. acc \in Seq(Entries) /\ Len(acc) \in Nat /\ DOMAIN acc = 1 .. Len(acc) /\ DOMAIN acc' = 1 .. Len(acc)
    BY <2>1, DecodedFacts
  <2>3. \A e \in Elems(heap') : AccSums'[e.OrgWeight] = 0 /\ e.OrgWeight < n'
    <3>. TAKE e \in Elems(heap')
    <3>. PICK x \in 1 .. m : x = e.OrgWeight
      BY <2>1
    <3>1. x \in DOMAIN acc /\ x <= m /\ x < m + 1
      BY <2>1, <2>2
    <3>. QED BY <2>1, <3>1
  <2>4. heap' = <<>> => \A x \in DOMAIN acc' : AccSums'[x] = 0 /\ rqi' .AccumMethod = "A"
    <3>. SUFFICES ASSUME heap' = <<>>, NEW x \in DOMAIN acc
                  PROVE  AccSums'[x] = 0 /\ rqi.AccumMethod = "A"
      BY <2>1, <2>2 DEF given
    <3>1. m = 0
      BY <1>0, <2>1, RootOf
    <3>2. AccSums[x] = 0 /\ rqi.AccumMethod = "A"
      BY <2>1, <3>1, MaxParasIs
    <3>. QED BY <2>1, <3>2
  <2>. QED BY <2>1, <2>3, <2>4 DEF FillInv
<1>3. CASE ScanEntry
  <2>. PICK w : w = (Scale * AccSums[n]) \div Approx(AccDocs[n])
    OBVIOUS
  <2>1. /\ at = "scan" /\ at' = "scan" /\ order = "Lesser" /\ n \in DOMAIN acc /\ n' = n + 1
        /\ UNCHANGED <<given, Docs>>
        /\ acc' \in Seq(Entries) /\ Len(acc') = Len(acc) /\ w \in Nat
        /\ \/ AccSums' = AccSums /\ heap' = heap
           \/ heap # <<>> /\ AccSums' = [AccSums EXCEPT ![n] = w] /\ heap' = heap
           \/ /\ \E e : Entered(e, w, 0)
              /\ AccSums' = [AccSums EXCEPT ![heap[1].OrgWeight] = heap[1].Weight, ![n] = 0]
    BY <1>3, ScanEffect
  <2>2. /\ acc \in Seq(Entries) /\ HeapOk(heap, "Lesser", AccDocs) /\ Room' = Room
        /\ AccDocs \in [DOMAIN acc -> 1 .. NumDocs]
        /\ Len(heap) = Room /\ Docs = [x \in 0 .. Room - 1 |-> Unused]
        /\ \A e \in Elems(heap) : AccSums[e.OrgWeight] = 0 /\ e.OrgWeight < n
        /\ heap = <<>> => \A x \in DOMAIN acc : AccSums[x] = 0 /\ rqi.AccumMethod = "A"
    BY <2>1 DEF TableKept, FillInv, After, Room
  <2>3. DOMAIN acc' = DOMAIN acc /\ DOMAIN AccSums = DOMAIN acc /\ n \in Nat
    BY <2>1, <2>2, AccFacts
  <2>4. \A e \in Elems(heap) : e.OrgWeight # n /\ e.OrgWeight \in DOMAIN AccSums /\ e.OrgWeight < n + 1
    <3>. TAKE e \in Elems(heap)
    <3>1. e.OrgWeight \in DOMAIN acc
      BY <2>2 DEF HeapOk
    <3>2. e.OrgWeight \in Nat /\ e.OrgWeight < n
      BY <2>2, <3>1
    <3>. QED BY <2>3, <3>1, <3>2
  <2>5. Len(heap') = Len(heap) /\ Docs' = Docs /\ rqi' = rqi
    BY <2>1 DEF Entered, Swapped, given
  <2>6. heap' = <<>> => heap' = heap /\ AccSums' = AccSums
    <3>1. CASE heap' = heap
      BY <2>1, <2>3, <3>1 DEF Entered, Swapped
    <3>2. CASE heap' # heap
      <4>1. heap # <<>> /\ HeapOk(heap', "Lesser", AccDocs)
        BY <2>1, <3>2 DEF Entered, Swapped
      <4>2. heap' # <<>>
        BY <1>0, <2>2, <2>5, <4>1, NoEntries
      <4>. QED BY <4>2
    <3>. QED BY <3>1, <3>2
  <2>7. \A e \in Elems(heap') : AccSums'[e.OrgWeight] = 0 /\ e.OrgWeight < n + 1
    <3>1. CASE heap' = heap /\ (AccSums' = AccSums \/ AccSums' = [AccSums EXCEPT ![n] = w])
      BY <2>2, <2>3, <2>4, <3>1
    <3>2. CASE /\ \E e : Entered(e, w, 0)
               /\ AccSums' = [AccSums EXCEPT ![heap[1].OrgWeight] = heap[1].Weight, ![n] = 0]
      <4>. PICK f : Entered(f, w, 0)
        BY <3>2
      <4>. TAKE e \in Elems(heap')
      <4>1. f.OrgWeight = n /\ heap[1] \in Elems(heap) /\ (e = f \/ (e \in Elems(heap) /\ e # heap[1]))
        BY DEF Entered, Swapped
      <4>2. CASE e = f
        BY <2>1, <2>3, <3>2, <4>1, <4>2
      <4>3. CASE e \in Elems(heap) /\ e # heap[1]
        <5>1. e.OrgWeight # heap[1].OrgWeight
          BY <1>0, <2>2, <4>1, <4>3, RootOf
        <5>. QED BY <2>2, <2>3, <2>4, <3>2, <4>3, <5>1
      <4>. QED BY <4>1, <4>2, <4>3
    <3>. QED BY <2>1, <3>1, <3>2
  <2>. QED BY <2>1, <2>2, <2>3, <2>5, <2>6, <2>7, SMTT(30) DEF FillInv
<1>4. CASE ScanDone
  <2>1. /\ at = "scan" /\ at' \in {"exact", "sort"} /\ UNCHANGED <<given, acc, Docs>> /\ AccSums' = AccSums
        /\ order = "Lesser" /\ Len(heap') = Len(heap) /\ HeapOk(heap', "Lesser", AccDocs)
        /\ heap' = heap \/ Elems(heap') = {Exacted(e) : e \in Elems(heap)}
    BY <1>4, ScanDoneEffect DEF Same
  <2>2. /\ HeapOk(heap, "Lesser", AccDocs) /\ Room' = Room /\ doctable \in DocTables /\ RankedTypes
        /\ Len(heap) = Room /\ Docs = [x \in 0 .. Room - 1 |-> Unused]
        /\ \A e \in Elems(heap) : AccSums[e.OrgWeight] = 0
        /\ heap = <<>> => \A x \in DOMAIN acc : AccSums[x] = 0 /\ rqi.AccumMethod = "A"
    BY <2>1 DEF TableKept, FillInv, PlacesInv, RankedInv, After, Room
  <2>3. heap' = <<>> <=> heap = <<>>
    BY <1>0, <2>1, <2>2, NoEntries
  <2>4. \A e \in Elems(heap') : AccSums[e.OrgWeight] = 0
    <3>1. CASE heap' = heap
      BY <2>2, <3>1
    <3>2. CASE Elems(heap') = {Exacted(e) : e \in Elems(heap)}
      <4>. TAKE e \in Elems(heap')
      <4>1. PICK f \in Elems(heap) : e = Exacted(f)
        BY <3>2
      <4>2. f \in Items
        BY <1>0, <2>2, RootOf
      <4>3. e.OrgWeight = f.OrgWeight
        BY <2>2, <4>1, <4>2, ExactedIs
      <4>. QED BY <2>2, <4>3
    <3>. QED BY <2>1, <3>1, <3>2
  <2>. QED BY <2>1, <2>2, <2>3, <2>4 DEF FillInv, given
<1>5. CASE ExactEntry
  <2>. PICK w : w = ToExact(AccSums[n], AccDocs[n])
    OBVIOUS
  <2>. PICK seek : seek = doctable[AccDocs[n]].SeekPos
    OBVIOUS
  <2>1. /\ at = "exact" /\ at' = "exact" /\ order = "Lesser" /\ n \in DOMAIN acc
        /\ UNCHANGED <<given, Docs>>
        /\ acc' \in Seq(Entries) /\ Len(acc') = Len(acc) /\ w \in Nat
        /\ \/ AccSums' = AccSums /\ heap' = heap
           \/ /\ \E e : Entered(e, w, seek)
              /\ AccSums' = [AccSums EXCEPT ![n] = 0]
    BY <1>5, ExactEffect
  <2>2. /\ acc \in Seq(Entries) /\ HeapOk(heap, "Lesser", AccDocs) /\ Room' = Room
        /\ AccDocs \in [DOMAIN acc -> 1 .. NumDocs]
        /\ Len(heap) = Room /\ Docs = [x \in 0 .. Room - 1 |-> Unused]
        /\ \A e \in Elems(heap) : AccSums[e.OrgWeight] = 0
        /\ heap = <<>> => \A x \in DOMAIN acc : AccSums[x] = 0 /\ rqi.AccumMethod = "A"
    BY <2>1 DEF TableKept, FillInv, After, Room
  <2>3. DOMAIN acc' = DOMAIN acc /\ DOMAIN AccSums = DOMAIN acc
    BY <2>1, <2>2, AccFacts
  <2>5. Len(heap') = Len(heap) /\ Docs' = Docs /\ rqi' = rqi
    BY <2>1 DEF Entered, Swapped, given
  <2>6. heap' = <<>> => heap' = heap /\ AccSums' = AccSums
    <3>1. CASE heap' = heap /\ AccSums' = AccSums
      BY <3>1
    <3>2. CASE \E e : Entered(e, w, seek)
      <4>1. heap # <<>> /\ HeapOk(heap', "Lesser", AccDocs)
        BY <3>2 DEF Entered, Swapped
      <4>2. heap' # <<>>
        BY <1>0, <2>2, <2>5, <4>1, NoEntries
      <4>. QED BY <4>2
    <3>. QED BY <2>1, <3>1, <3>2
  <2>7. \A e \in Elems(heap') : AccSums'[e.OrgWeight] = 0
    <3>1. CASE heap' = heap /\ AccSums' = AccSums
      BY <2>2, <3>1
    <3>2. CASE /\ \E e : Entered(e, w, seek)
               /\ AccSums' = [AccSums EXCEPT ![n] = 0]
      <4>. PICK f : Entered(f, w, seek)
        BY <3>2
      <4>. TAKE e \in Elems(heap')
      <4>1. f.OrgWeight = n /\ (e = f \/ e \in Elems(heap))
        BY DEF Entered, Swapped
      <4>. QED BY <2>1, <2>2, <2>3, <3>2, <4>1
    <3>. QED BY <2>1, <3>1, <3>2
  <2>. QED BY <2>1, <2>2, <2>3, <2>5, <2>6, <2>7 DEF FillInv
<1>6. CASE TurnOver \/ Make_Exact_Root \/ TakeRoot \/ Return
  <2>1. at' \in {"take", "done"}
    BY <1>6 DEF TurnOver, Make_Exact_Root, InTake, TakeRoot, Return
  <2>. QED BY <2>1 DEF FillInv
<1>7. CASE UNCHANGED vars
  <2>1. UNCHANGED <<at, acc, Docs, n, heap, rqi>> /\ AccSums' = AccSums /\ Room' = Room
    BY <1>7 DEF vars, accumvars, given, table, rankvars, AccSums, Room
  <2>. QED BY <2>1 DEF FillInv
<1>. QED BY <1>1, <1>2, <1>3, <1>4, <1>5, <1>6, <1>7 DEF RankedNext

-----------------------------------------------------------------------------
\* The documents taken: N of them from the start of D, and paragraphs chained to
\* them from place E + 1 to its end.

Slots == [DocNum : 0 .. NumDocs, Weight : Nat, SeekPos : Nat, Next : Int]
UsedOf(N, E, R) == (0 .. N - 1) \cup (E + 1 .. R - 1)

\* The next of a chain is the first later place of the same document.
Chained(D, E, R, x) ==
  \/ D[x].Next = -1 /\ \A y \in E + 1 .. R - 1 : y > x => D[y].SeekPos # D[x].SeekPos
  \/ /\ D[x].Next \in E + 1 .. R - 1 /\ D[x].Next > x /\ D[D[x].Next].SeekPos = D[x].SeekPos
     /\ \A y \in E + 1 .. R - 1 : y > x /\ D[y].SeekPos = D[x].SeekPos => D[x].Next <= y

Laid(D, N, E, R) ==
  /\ D \in [0 .. R - 1 -> Slots]
  /\ \A x \in N .. E : D[x] = Unused
  /\ \A x, y \in 0 .. N - 1 : x < y => D[x].SeekPos # D[y].SeekPos /\ D[x].Weight >= D[y].Weight
  /\ \A y \in E + 1 .. R - 1 : \E x \in 0 .. N - 1 :
       D[x].SeekPos = D[y].SeekPos /\ D[x].Weight >= D[y].Weight
  /\ \A x \in UsedOf(N, E, R) : Chained(D, E, R, x)

InFront(D, N, e) == [D EXCEPT ![N] = e]
Ahead(D, N, e) == \A x \in 0 .. N - 1 : D[x].SeekPos # e.SeekPos /\ D[x].Weight >= e.Weight

LEMMA FrontLaid ==
  ASSUME NEW N \in Nat, NEW E \in Nat, NEW R \in Nat, N <= E, E < R, NEW D, Laid(D, N, E, R),
         NEW e \in Slots, e.Next = -1,
         Ahead(D, N, e), NEW q, q = InFront(D, N, e)
  PROVE  /\ Laid(q, N + 1, E, R) /\ q[N] = e /\ \A x \in UsedOf(N, E, R) : q[x] = D[x]
         /\ UsedOf(N + 1, E, R) = UsedOf(N, E, R) \cup {N}
<1>1. D \in [0 .. R - 1 -> Slots] /\ N \in 0 .. R - 1
  BY DEF Laid
<1>2. q \in [0 .. R - 1 -> Slots] /\ q[N] = e /\ \A x \in 0 .. R - 1 : x # N => q[x] = D[x]
  BY <1>1 DEF InFront
<1>3. \A x \in UsedOf(N, E, R) : x \in 0 .. R - 1 /\ x # N
  BY DEF UsedOf
<1>4. \A x \in UsedOf(N, E, R) : q[x] = D[x]
  BY <1>2, <1>3
<1>5. UsedOf(N + 1, E, R) = UsedOf(N, E, R) \cup {N}
  BY DEF UsedOf
<1>6. \A x \in N + 1 .. E : q[x] = Unused
  <2>. TAKE x \in N + 1 .. E
  <2>1. x \in 0 .. R - 1 /\ x # N /\ x \in N .. E
    OBVIOUS
  <2>. QED BY <1>2, <2>1 DEF Laid
<1>7. \A x \in 0 .. N - 1 : q[x] = D[x]
  BY <1>4 DEF UsedOf
<1>8. \A x \in E + 1 .. R - 1 : q[x] = D[x]
  BY <1>4 DEF UsedOf
<1>9. ASSUME NEW x \in 0 .. (N + 1) - 1, NEW y \in 0 .. (N + 1) - 1, x < y
      PROVE  q[x].SeekPos # q[y].SeekPos /\ q[x].Weight >= q[y].Weight
  <2>1. x \in 0 .. N - 1 /\ q[x] = D[x]
    BY <1>7, <1>9
  <2>2. CASE y = N
    BY <1>2, <2>1, <2>2 DEF Ahead
  <2>3. CASE y # N
    <3>1. y \in 0 .. N - 1 /\ q[y] = D[y]
      BY <1>7, <2>3
    <3>2. D[x].SeekPos # D[y].SeekPos /\ D[x].Weight >= D[y].Weight
      BY <1>9, <2>1, <3>1 DEF Laid
    <3>. QED BY <2>1, <3>1, <3>2
  <2>. QED BY <2>2, <2>3
<1>10. ASSUME NEW y \in E + 1 .. R - 1
       PROVE  \E x \in 0 .. (N + 1) - 1 : q[x].SeekPos = q[y].SeekPos /\ q[x].Weight >= q[y].Weight
  <2>1. PICK x \in 0 .. N - 1 : D[x].SeekPos = D[y].SeekPos /\ D[x].Weight >= D[y].Weight
    BY DEF Laid
  <2>2. x \in 0 .. (N + 1) - 1 /\ q[x] = D[x] /\ q[y] = D[y]
    BY <1>7, <1>8
  <2>. QED BY <2>1, <2>2
<1>11. ASSUME NEW x \in UsedOf(N, E, R) PROVE Chained(q, E, R, x)
  <2>1. Chained(D, E, R, x) /\ q[x] = D[x]
    BY <1>4 DEF Laid
  <2>. QED BY <1>8, <2>1 DEF Chained
<1>12. Chained(q, E, R, N)
  <2>1. ASSUME NEW y \in E + 1 .. R - 1 PROVE q[y].SeekPos # q[N].SeekPos
    <3>1. PICK x \in 0 .. N - 1 : D[x].SeekPos = D[y].SeekPos
      BY DEF Laid
    <3>. QED BY <1>2, <1>8, <3>1 DEF Ahead
  <2>. QED BY <1>2, <2>1 DEF Chained
<1>. QED BY <1>2, <1>4, <1>5, <1>6, <1>9, <1>10, <1>11, <1>12 DEF Laid

Behind(D, E, mem, e) == [D EXCEPT ![E] = [e EXCEPT !.Next = D[mem].Next], ![mem].Next = E]
SameSlot(a, b) == a.DocNum = b.DocNum /\ a.Weight = b.Weight /\ a.SeekPos = b.SeekPos

LEMMA BackLaid ==
  ASSUME NEW N \in Nat, NEW E \in Nat, NEW R \in Nat, N <= E, E < R, NEW D, Laid(D, N, E, R),
         NEW e \in Slots, NEW mem \in 0 .. N - 1, D[mem].SeekPos = e.SeekPos, D[mem].Weight >= e.Weight,
         NEW q, q = Behind(D, E, mem, e)
  PROVE  /\ Laid(q, N, E - 1, R) /\ SameSlot(q[E], e)
         /\ \A x \in UsedOf(N, E, R) : SameSlot(q[x], D[x])
         /\ UsedOf(N, E - 1, R) = UsedOf(N, E, R) \cup {E}
<1>1. D \in [0 .. R - 1 -> Slots] /\ E \in 0 .. R - 1 /\ mem \in 0 .. R - 1 /\ mem # E /\ mem < E
  BY DEF Laid
<1>2. D[mem] \in Slots /\ D[mem].Next \in Int
  BY <1>1 DEF Slots
<1>. PICK f : f = [e EXCEPT !.Next = D[mem].Next]
  OBVIOUS
<1>. PICK g : g = [D[mem] EXCEPT !.Next = E]
  OBVIOUS
<1>3. f \in Slots /\ SameSlot(f, e) /\ f.Next = D[mem].Next
  BY <1>2 DEF Slots, SameSlot
<1>4. g \in Slots /\ SameSlot(g, D[mem]) /\ g.Next = E
  BY <1>2 DEF Slots, SameSlot
<1>5. /\ DOMAIN q = 0 .. R - 1
      /\ \A x \in 0 .. R - 1 : q[x] = IF x = mem THEN g ELSE IF x = E THEN f ELSE D[x]
  BY <1>1 DEF Behind
<1>6. q \in [0 .. R - 1 -> Slots]
  <2>1. \A x \in 0 .. R - 1 : q[x] \in Slots
    BY <1>1, <1>3, <1>4, <1>5
  <2>2. q = [x \in 0 .. R - 1 |-> q[x]]
    BY <1>1 DEF Behind
  <2>. QED BY <2>1, <2>2
<1>7. \A x \in UsedOf(N, E, R) : x \in 0 .. R - 1 /\ x # E /\ SameSlot(q[x], D[x])
  <2>. TAKE x \in UsedOf(N, E, R)
  <2>1. x \in 0 .. R - 1 /\ x # E
    BY DEF UsedOf
  <2>2. SameSlot(D[x], D[x])
    BY DEF SameSlot
  <2>. QED BY <1>4, <1>5, <2>1, <2>2
<1>8. UsedOf(N, E - 1, R) = UsedOf(N, E, R) \cup {E}
  BY DEF UsedOf
<1>9. (E - 1) + 1 = E /\ E .. R - 1 = (E + 1 .. R - 1) \cup {E}
  OBVIOUS
<1>10. SameSlot(q[E], e) /\ q[E].Next = D[mem].Next /\ q[mem].Next = E
  BY <1>1, <1>3, <1>4, <1>5
<1>11. \A x \in UsedOf(N, E, R) : q[x].SeekPos = D[x].SeekPos /\ q[x].Weight = D[x].Weight
  BY <1>7 DEF SameSlot
<1>12. q[E].SeekPos = e.SeekPos /\ q[E].Weight = e.Weight
  BY <1>10 DEF SameSlot
<1>13. \A x \in N .. E - 1 : q[x] = Unused
  <2>. TAKE x \in N .. E - 1
  <2>1. x \in 0 .. R - 1 /\ x # E /\ x # mem /\ x \in N .. E
    OBVIOUS
  <2>2. D[x] = Unused
    BY <2>1 DEF Laid
  <2>. QED BY <1>5, <2>1, <2>2
<1>14. (0 .. N - 1) \subseteq UsedOf(N, E, R) /\ (E + 1 .. R - 1) \subseteq UsedOf(N, E, R)
  BY DEF UsedOf
<1>15. ASSUME NEW x \in 0 .. N - 1, NEW y \in 0 .. N - 1, x < y
       PROVE  q[x].SeekPos # q[y].SeekPos /\ q[x].Weight >= q[y].Weight
  <2>1. D[x].SeekPos # D[y].SeekPos /\ D[x].Weight >= D[y].Weight
    BY <1>15 DEF Laid
  <2>. QED BY <1>11, <1>14, <2>1
<1>16. ASSUME NEW y \in E .. R - 1
       PROVE  \E x \in 0 .. N - 1 : q[x].SeekPos = q[y].SeekPos /\ q[x].Weight >= q[y].Weight
  <2>1. CASE y = E
    BY <1>11, <1>12, <1>14, <2>1
  <2>2. CASE y # E
    <3>1. y \in E + 1 .. R - 1
      BY <1>9, <2>2
    <3>2. PICK x \in 0 .. N - 1 : D[x].SeekPos = D[y].SeekPos /\ D[x].Weight >= D[y].Weight
      BY <3>1 DEF Laid
    <3>. QED BY <1>11, <1>14, <3>1, <3>2
  <2>. QED BY <2>1, <2>2
\* Those of the chain of mem are the later ones of its document.
<1>17. Chained(D, E, R, mem)
  BY <1>14 DEF Laid
<1>18. Chained(q, E - 1, R, E)
  <2>1. q[E].Next = D[mem].Next /\ q[E].SeekPos = D[mem].SeekPos
    BY <1>10, <1>12
  <2>2. CASE D[mem].Next = -1 /\ \A y \in E + 1 .. R - 1 : y > mem => D[y].SeekPos # D[mem].SeekPos
    <3>1. ASSUME NEW y \in E .. R - 1, y > E PROVE q[y].SeekPos # q[E].SeekPos
      <4>1. y \in E + 1 .. R - 1 /\ y > mem
        BY <1>1, <3>1
      <4>. QED BY <1>11, <1>14, <2>1, <2>2, <4>1
    <3>. QED BY <1>9, <2>1, <2>2, <3>1 DEF Chained
  <2>3. CASE /\ D[mem].Next \in E + 1 .. R - 1 /\ D[D[mem].Next].SeekPos = D[mem].SeekPos
             /\ \A y \in E + 1 .. R - 1 : y > mem /\ D[y].SeekPos = D[mem].SeekPos => D[mem].Next <= y
    <3>. PICK z \in E + 1 .. R - 1 : z = D[mem].Next
      BY <2>3
    <3>1. z > E /\ z \in E .. R - 1 /\ q[z].SeekPos = q[E].SeekPos
      BY <1>11, <1>14, <2>1, <2>3
    <3>2. ASSUME NEW y \in E .. R - 1, y > E, q[y].SeekPos = q[E].SeekPos PROVE z <= y
      <4>1. y \in E + 1 .. R - 1 /\ y > mem
        BY <1>1, <3>2
      <4>2. D[y].SeekPos = D[mem].SeekPos
        BY <1>11, <1>14, <2>1, <3>2, <4>1
      <4>. QED BY <2>3, <4>1, <4>2
    <3>. QED BY <1>9, <2>1, <3>1, <3>2 DEF Chained
  <2>. QED BY <1>17, <2>2, <2>3 DEF Chained
<1>19. Chained(q, E - 1, R, mem)
  <2>1. q[mem].Next = E /\ E > mem /\ E \in E .. R - 1 /\ q[E].SeekPos = q[mem].SeekPos
    BY <1>1, <1>10, <1>11, <1>12, <1>14
  <2>2. \A y \in E .. R - 1 : E <= y
    OBVIOUS
  <2>. QED BY <1>9, <2>1, <2>2 DEF Chained
<1>20. ASSUME NEW x \in UsedOf(N, E, R), x # mem PROVE Chained(q, E - 1, R, x)
  <2>1. Chained(D, E, R, x) /\ x \in Int
    BY DEF Laid, UsedOf
  <2>2. q[x] = D[x]
    BY <1>5, <1>7, <1>20
  <2>3. E > x => q[E].SeekPos # q[x].SeekPos
    <3>. SUFFICES ASSUME E > x PROVE q[E].SeekPos # q[x].SeekPos
      OBVIOUS
    <3>1. x \in 0 .. N - 1
      BY DEF UsedOf
    <3>2. x < mem \/ mem < x
      BY <1>20, <3>1
    <3>3. D[x].SeekPos # D[mem].SeekPos
      BY <3>1, <3>2 DEF Laid
    <3>. QED BY <1>12, <2>2, <3>3
  <2>4. \A y \in E + 1 .. R - 1 : q[y].SeekPos = D[y].SeekPos /\ y \in E .. R - 1
    BY <1>11, <1>14
  <2>5. \A y \in E .. R - 1 : y > x /\ q[y].SeekPos = q[x].SeekPos =>
           y \in E + 1 .. R - 1 /\ D[y].SeekPos = D[x].SeekPos
    BY <1>9, <2>2, <2>3, <2>4
  <2>6. CASE D[x].Next = -1 /\ \A y \in E + 1 .. R - 1 : y > x => D[y].SeekPos # D[x].SeekPos
    BY <1>9, <2>2, <2>5, <2>6 DEF Chained
  <2>7. CASE /\ D[x].Next \in E + 1 .. R - 1 /\ D[x].Next > x /\ D[D[x].Next].SeekPos = D[x].SeekPos
             /\ \A y \in E + 1 .. R - 1 : y > x /\ D[y].SeekPos = D[x].SeekPos => D[x].Next <= y
    <3>. PICK z \in E + 1 .. R - 1 : z = D[x].Next
      BY <2>7
    <3>1. z \in E .. R - 1 /\ z > x /\ q[z].SeekPos = q[x].SeekPos
      BY <2>2, <2>4, <2>7
    <3>2. \A y \in E .. R - 1 : y > x /\ q[y].SeekPos = q[x].SeekPos => z <= y
      BY <2>5, <2>7
    <3>. QED BY <1>9, <2>2, <3>1, <3>2 DEF Chained
  <2>. QED BY <2>1, <2>6, <2>7 DEF Chained
<1>21. \A x \in UsedOf(N, E - 1, R) : Chained(q, E - 1, R, x)
  BY <1>8, <1>18, <1>19, <1>20
<1>. QED BY <1>6, <1>7, <1>8, <1>9, <1>10, <1>13, <1>15, <1>16, <1>21 DEF Laid

\* What stands in Docs is of the table, and no lighter than what is to come.
SlotRight(s) == s.DocNum \in 1 .. NumDocs /\ s.SeekPos = doctable[s.DocNum].SeekPos
TakeInv ==
  at \in {"take", "done"} =>
    /\ num \in Nat /\ BackEnd \in Int /\ BackEnd < Room
    /\ MaxDocs = AtMost(rqi.MaxDocsToRetrieve, Room) /\ num <= MaxDocs
    /\ num + Len(heap) = BackEnd + 1
    /\ Laid(Docs, num, BackEnd, Room)
    /\ \A x \in UsedOf(num, BackEnd, Room) :
         SlotRight(Docs[x]) /\ \A e \in Elems(heap) : e.Weight <= Docs[x].Weight
    /\ at = "done" => heap = <<>> \/ num = MaxDocs

\* The root of the heap went to place x of Docs.
Placed(x) ==
  /\ x \in num .. BackEnd /\ Room' = Room /\ Laid(Docs, num, BackEnd, Room)
  /\ num \in Nat /\ BackEnd \in Nat /\ BackEnd < Room /\ Room \in Nat
  /\ Laid(Docs', num', BackEnd', Room)
  /\ \A y \in UsedOf(num, BackEnd, Room) : SameSlot(Docs'[y], Docs[y])
  /\ UsedOf(num', BackEnd', Room) = UsedOf(num, BackEnd, Room) \cup {x}
  /\ Docs'[x].DocNum = heap[1].DocNum /\ Docs'[x].Weight = heap[1].Weight
  /\ Docs'[x].SeekPos = doctable[heap[1].DocNum].SeekPos
  /\ \/ num' = num + 1 /\ BackEnd' = BackEnd
     \/ /\ num' = num /\ BackEnd' = BackEnd - 1
        /\ \E y \in 0 .. num - 1 : Docs[y].SeekPos = doctable[heap[1].DocNum].SeekPos

LEMMA TakePlaces ==
  ASSUME RankedInv, PlacesInv, TableKept, TakeInv, TakeRoot
  PROVE  \E x : Placed(x)
<1>1. /\ at = "take" /\ heap # <<>> /\ heap[1] \in Elems(heap) /\ num < MaxDocs
      /\ HeapOk(heap, "Greater", AccDocs) /\ doctable \in DocTables
  BY TakeEffect DEF PlacesInv
<1>2. heap[1] \in Items /\ heap[1].Weight \in Nat /\ heap[1].DocNum \in 1 .. NumDocs
      /\ Len(heap) \in Nat /\ Len(heap) # 0
  <2>1. "Greater" \in Senses
    BY DEF Senses
  <2>. QED BY <1>1, <2>1, RootOf DEF Items
<1>. PICK d \in 1 .. NumDocs : d = heap[1].DocNum
  BY <1>2
<1>. PICK w \in Nat : w = heap[1].Weight
  BY <1>2
<1>. PICK seek \in Nat \ {0} : seek = doctable[d].SeekPos
  BY <1>1, DocTableConstants
<1>. PICK e : e = [DocNum |-> d, Weight |-> w, SeekPos |-> seek, Next |-> -1]
  OBVIOUS
<1>3. e \in Slots /\ e.DocNum = d /\ e.Weight = w /\ e.SeekPos = seek /\ e.Next = -1
  BY DEF Slots
<1>4. /\ num \in Nat /\ BackEnd \in Int /\ BackEnd < Room /\ Room \in Nat
      /\ num + Len(heap) = BackEnd + 1
      /\ Laid(Docs, num, BackEnd, Room)
      /\ \A x \in UsedOf(num, BackEnd, Room) : w <= Docs[x].Weight
  BY <1>1 DEF TakeInv, TableKept, After
<1>. PICK N \in Nat : N = num
  BY <1>4
<1>. PICK E \in Nat : E = BackEnd
  BY <1>2, <1>4
<1>. PICK R \in Nat : R = Room
  BY <1>4
<1>5. N <= E /\ E < R /\ N \in N .. E /\ E \in N .. E
  <2>1. PICK m \in Nat \ {0} : m = Len(heap)
    BY <1>2
  <2>2. N + m = E + 1 /\ E < R
    BY <1>4, <2>1
  <2>. QED BY ONLY <2>2, N \in Nat, m \in Nat \ {0}, E \in Nat, R \in Nat
<1>. PICK D : D = Docs
  OBVIOUS
<1>. PICK q : q = Docs'
  OBVIOUS
<1>6. Laid(D, N, E, R) /\ D \in [0 .. R - 1 -> Slots]
  BY <1>4 DEF Laid
<1>7. ASSUME NEW x \in 0 .. N - 1 PROVE D[x] \in Slots /\ D[x].Weight >= w /\ D[x].Weight \in Nat
  <2>1. x \in 0 .. R - 1 /\ x \in UsedOf(N, E, R)
    BY <1>5 DEF UsedOf
  <2>2. D[x] \in Slots /\ w <= D[x].Weight
    BY <1>4, <1>6, <2>1
  <2>3. D[x].Weight \in Nat
    BY <2>2 DEF Slots
  <2>. QED BY <2>2, <2>3
<1>. PICK same : same = {x \in 0 .. N - 1 : D[x].SeekPos = seek}
  OBVIOUS
<1>8. CASE same = {}
  <2>1. q = InFront(D, N, e) /\ num' = N + 1 /\ BackEnd' = E
    BY <1>8 DEF TakeRoot, InFront
  <2>2. Ahead(D, N, e)
    BY <1>3, <1>7, <1>8 DEF Ahead
  <2>3. /\ Laid(q, N + 1, E, R) /\ q[N] = e /\ \A x \in UsedOf(N, E, R) : q[x] = D[x]
        /\ UsedOf(N + 1, E, R) = UsedOf(N, E, R) \cup {N}
    <3>1. e \in Slots /\ e.Next = -1
      BY <1>3
    <3>. QED BY ONLY <1>5, <1>6, <2>1, <2>2, <3>1, N \in Nat, E \in Nat, R \in Nat, FrontLaid
  <2>4. \A x \in UsedOf(N, E, R) : SameSlot(q[x], D[x])
    BY <2>3 DEF SameSlot
  <2>5. Room' = Room
    <3>1. DOMAIN q = DOMAIN D
      BY <2>1 DEF InFront
    <3>. QED BY <3>1 DEF Room
  <2>6. Placed(N)
    BY <1>3, <1>5, <1>6, <2>1, <2>3, <2>4, <2>5 DEF Placed
  <2>. QED BY <2>6
<1>9. CASE same # {}
  <2>. DEFINE Q(z) == z \in same /\ \A y \in same : z >= y
  <2>1. PICK mem \in same : TRUE
    BY <1>9
  <2>2. \A y \in same : y = mem
    <3>. TAKE y \in same
    <3>1. y \in 0 .. N - 1 /\ mem \in 0 .. N - 1 /\ D[y].SeekPos = D[mem].SeekPos
      OBVIOUS
    <3>2. ~(y < mem) /\ ~(mem < y)
      BY <1>6, <3>1 DEF Laid
    <3>. QED BY <3>1, <3>2
  <2>3. Q(mem)
    BY <2>2
  <2>4. Max(same) = CHOOSE x : Q(x)
    BY DEF Max
  <2>. HIDE DEF Q
  <2>5. Q(Max(same))
    BY <2>3, <2>4
  <2>6. Max(same) = mem
    BY <2>2, <2>5 DEF Q
  <2>7. mem \in 0 .. N - 1 /\ D[mem].SeekPos = seek
    OBVIOUS
  <2>8. q = Behind(D, E, mem, e) /\ num' = N /\ BackEnd' = E - 1
    BY <1>9, <2>6 DEF TakeRoot, Behind
  <2>9. D[mem].SeekPos = e.SeekPos /\ D[mem].Weight >= e.Weight
    BY <1>3, <1>7, <2>7
  <2>10. /\ Laid(q, N, E - 1, R) /\ SameSlot(q[E], e)
         /\ \A x \in UsedOf(N, E, R) : SameSlot(q[x], D[x])
         /\ UsedOf(N, E - 1, R) = UsedOf(N, E, R) \cup {E}
    <3>1. e \in Slots
      BY <1>3
    <3>. QED BY ONLY <1>5, <1>6, <2>7, <2>8, <2>9, <3>1, N \in Nat, E \in Nat, R \in Nat, BackLaid
  <2>11. Room' = Room
    <3>1. DOMAIN q = DOMAIN D
      BY <2>8 DEF Behind
    <3>. QED BY <3>1 DEF Room
  <2>12. q[E].DocNum = d /\ q[E].Weight = w /\ q[E].SeekPos = seek
    BY <1>3, <2>10 DEF SameSlot
  <2>13. Placed(E)
    BY <1>5, <1>6, <2>7, <2>8, <2>10, <2>11, <2>12 DEF Placed
  <2>. QED BY <2>13
<1>. QED BY <1>8, <1>9

LEMMA TakeKept ==
  ASSUME RankedInv, PlacesInv, TableKept, FillInv, TakeInv, RankedNext \/ UNCHANGED vars
  PROVE  TakeInv'
<1>0. "Lesser" \in Senses /\ "Greater" \in Senses
  BY DEF Senses
<1>1. CASE Accumulate \/ FillHeap \/ ScanEntry \/ ScanDone \/ ExactEntry
  <2>1. at' \notin {"take", "done"}
    <3>1. CASE Accumulate
      BY <3>1, AccumAway DEF After
    <3>2. CASE FillHeap \/ ScanEntry \/ ScanDone \/ ExactEntry
      BY <3>2 DEF FillHeap, ScanEntry, ScanDone, ExactEntry
    <3>. QED BY <1>1, <3>1, <3>2
  <2>. QED BY <2>1 DEF TakeInv
<1>2. CASE TurnOver
  <2>1. /\ at \in {"sort", "exact"} /\ at' = "take" /\ Same /\ num = 0
        /\ Len(heap') = Room /\ Room \in Nat
        /\ MaxDocs' = AtMost(rqi.MaxDocsToRetrieve, Room) /\ BackEnd' = Room - 1
        /\ Docs = [x \in 0 .. Room - 1 |-> Unused]
    BY <1>2, TurnEffect DEF FillInv
  <2>2. rqi' = rqi /\ Docs' = Docs /\ num' = 0 /\ Room' = Room
    BY <2>1 DEF Same, given, Room
  <2>. PICK R \in Nat : R = Room
    BY <2>1
  <2>. PICK D : D = Docs
    OBVIOUS
  <2>3. 0 .. 0 - 1 = {} /\ (R - 1) + 1 = R /\ R .. R - 1 = {} /\ 0 .. R - 1 = 0 .. R - 1
    OBVIOUS
  <2>4. UsedOf(0, R - 1, R) = {}
    BY <2>3 DEF UsedOf
  <2>5. D \in [0 .. R - 1 -> Slots] /\ \A x \in 0 .. R - 1 : D[x] = Unused
    <3>1. 0 \in 0 .. NumDocs
      BY RankedConstants
    <3>2. Unused \in Slots
      BY <3>1 DEF Unused, Slots
    <3>. QED BY <2>1, <3>2
  <2>6. Laid(D, 0, R - 1, R)
    BY <2>3, <2>4, <2>5 DEF Laid
  <2>7. AtMost(rqi.MaxDocsToRetrieve, R) \in Nat
    BY LimitsAre, AtMostIs
  <2>. QED BY <2>1, <2>2, <2>3, <2>4, <2>6, <2>7 DEF TakeInv
<1>3. CASE Make_Exact_Root
  <2>1. /\ at = "take" /\ at' = "take" /\ Same /\ UNCHANGED <<MaxDocs, BackEnd>>
        /\ heap[1] \in Elems(heap) /\ Len(heap') = Len(heap) /\ HeapOk(heap, "Greater", AccDocs)
        /\ Elems(heap') = (Elems(heap) \ {heap[1]}) \cup {Exacted(heap[1])}
    BY <1>3, RootEffect
  <2>2. UNCHANGED <<given, doctable, Docs, num>> /\ Room' = Room
    BY <2>1 DEF Same, Room
  <2>3. TakeInv /\ RankedTypes /\ doctable \in DocTables
    BY DEF RankedInv, PlacesInv
  <2>4. heap[1] \in Items
    BY <1>0, <2>1, RootOf
  <2>5. Exacted(heap[1]).Weight \in Nat /\ Exacted(heap[1]).Weight <= heap[1].Weight /\ heap[1].Weight \in Nat
    <3>. PICK e \in Items : e = heap[1]
      BY <2>4
    <3>. PICK f : f = Exacted(e)
      OBVIOUS
    <3>1. f \in Items /\ f.Weight <= e.Weight
      BY <2>3, ExactedIs
    <3>. QED BY <3>1 DEF Items
  <2>6. ASSUME NEW x \in UsedOf(num, BackEnd, Room), NEW e \in Elems(heap')
        PROVE  e.Weight <= Docs[x].Weight
    <3>1. Docs[x].Weight \in Nat /\ heap[1].Weight <= Docs[x].Weight
      <4>1. Docs \in [0 .. Room - 1 -> Slots] /\ x \in 0 .. Room - 1
        BY <2>1, <2>3 DEF TakeInv, TableKept, After, Laid, UsedOf
      <4>2. Docs[x].Weight \in Nat
        BY <4>1 DEF Slots
      <4>. QED BY <2>1, <2>3, <4>2 DEF TakeInv
    <3>2. CASE e \in Elems(heap)
      BY <2>1, <2>3, <3>2 DEF TakeInv
    <3>3. CASE e = Exacted(heap[1])
      BY <2>5, <3>1, <3>3
    <3>. QED BY <2>1, <3>2, <3>3
  <2>. QED BY <2>1, <2>2, <2>3, <2>6 DEF TakeInv, SlotRight, given
<1>4. CASE TakeRoot
  <2>. PICK x : Placed(x)
    BY <1>4, TakePlaces
  <2>1. /\ at = "take" /\ at' = "take" /\ UNCHANGED <<given, doctable>> /\ MaxDocs' = MaxDocs
        /\ heap[1] \in Elems(heap) /\ num < MaxDocs /\ HeapOk(heap, "Greater", AccDocs)
        /\ Len(heap') = Len(heap) - 1 /\ Elems(heap') = Elems(heap) \ {heap[1]}
    BY <1>4, TakeEffect
  <2>2. /\ x \in num .. BackEnd /\ Room' = Room /\ num \in Nat /\ BackEnd \in Nat /\ BackEnd < Room
        /\ Laid(Docs', num', BackEnd', Room)
        /\ \A y \in UsedOf(num, BackEnd, Room) : SameSlot(Docs'[y], Docs[y])
        /\ UsedOf(num', BackEnd', Room) = UsedOf(num, BackEnd, Room) \cup {x}
        /\ Docs'[x].DocNum = heap[1].DocNum /\ Docs'[x].Weight = heap[1].Weight
        /\ Docs'[x].SeekPos = doctable[heap[1].DocNum].SeekPos
        /\ (num' = num + 1 /\ BackEnd' = BackEnd) \/ (num' = num /\ BackEnd' = BackEnd - 1)
    BY DEF Placed
  <2>3. /\ MaxDocs = AtMost(rqi.MaxDocsToRetrieve, Room) /\ MaxDocs \in Nat
        /\ num + Len(heap) = BackEnd + 1 /\ Len(heap) \in Nat
    <3>1. AtMost(rqi.MaxDocsToRetrieve, Room) \in Nat
      BY LimitsAre, AtMostIs, <2>1 DEF TableKept, After
    <3>2. Len(heap) \in Nat
      BY <1>0, <2>1, RootOf
    <3>. QED BY <2>1, <3>1, <3>2 DEF TakeInv
  <2>4. /\ num' \in Nat /\ BackEnd' \in Int /\ BackEnd' < Room /\ num' <= MaxDocs
        /\ num' + (Len(heap) - 1) = BackEnd' + 1
    <3>. PICK N \in Nat : N = num
      BY <2>2
    <3>. PICK E \in Nat : E = BackEnd
      BY <2>2
    <3>. PICK L \in Nat : L = Len(heap)
      BY <2>3
    <3>. PICK M \in Nat : M = MaxDocs
      BY <2>3
    <3>1. N < M /\ N + L = E + 1 /\ E < Room /\ Room \in Nat
      BY <2>1, <2>2, <2>3 DEF Placed
    <3>2. CASE num' = N + 1 /\ BackEnd' = E
      BY <3>1, <3>2
    <3>3. CASE num' = N /\ BackEnd' = E - 1
      BY <3>1, <3>3
    <3>. QED BY <2>2, <3>2, <3>3
  <2>5. heap[1] \in Items /\ heap[1].Weight \in Nat /\ heap[1].DocNum \in 1 .. NumDocs
        /\ \A e \in Elems(heap) : e.Weight <= heap[1].Weight
    BY <1>0, <2>1, RootOf DEF Items
  <2>6. ASSUME NEW y \in UsedOf(num', BackEnd', Room)
        PROVE  /\ Docs'[y].DocNum \in 1 .. NumDocs /\ Docs'[y].SeekPos = doctable[Docs'[y].DocNum].SeekPos
               /\ \A e \in Elems(heap') : e.Weight <= Docs'[y].Weight
    <3>1. CASE y = x
      BY <2>1, <2>2, <2>5, <3>1
    <3>2. CASE y \in UsedOf(num, BackEnd, Room)
      <4>1. SlotRight(Docs[y]) /\ \A e \in Elems(heap) : e.Weight <= Docs[y].Weight
        BY <2>1, <3>2 DEF TakeInv
      <4>2. SameSlot(Docs'[y], Docs[y])
        BY <2>2, <3>2
      <4>. QED BY <2>1, <4>1, <4>2 DEF SlotRight, SameSlot
    <3>. QED BY <2>2, <3>1, <3>2
  <2>. QED BY <2>1, <2>2, <2>3, <2>4, <2>6 DEF TakeInv, SlotRight, given
<1>5. CASE Return
  <2>1. /\ at = "take" /\ at' = "done" /\ Same /\ ~InTake /\ UNCHANGED <<heap, MaxDocs, BackEnd>>
    BY <1>5, ReturnEffect
  <2>2. UNCHANGED <<given, doctable, Docs, num>> /\ Room' = Room
    BY <2>1 DEF Same, Room
  <2>3. AtMost(rqi.MaxDocsToRetrieve, Room) \in Nat
    BY LimitsAre, AtMostIs, <2>1 DEF TableKept, After
  <2>4. heap = <<>> \/ num = MaxDocs
    BY <2>1, <2>3 DEF TakeInv, InTake
  <2>. QED BY <2>1, <2>2, <2>4 DEF TakeInv, SlotRight, given
<1>6. CASE UNCHANGED vars
  <2>1. UNCHANGED <<at, rqi, num, Docs, heap, MaxDocs, BackEnd, doctable>> /\ Room' = Room
    BY <1>6 DEF vars, accumvars, given, rankvars, Room
  <2>. QED BY <2>1 DEF TakeInv, SlotRight
<1>. QED BY <1>1, <1>2, <1>3, <1>4, <1>5, <1>6 DEF RankedNext

-----------------------------------------------------------------------------
\* What the entries weigh, and what is not among them.

\* True weights are fetched for the heap.
Fetched == rqi.Exact /\ InvfLevel # 3
Apart(D) == \A x, y \in DOMAIN D : D[x] = D[y] => x = y

Steady ==
  /\ sup = <<>> /\ Apart(AccDocs)
  /\ rqi.AccumMethod = "A" => DOMAIN acc = 1 .. NumDocs /\ \A x \in DOMAIN acc : AccDocs[x] = x
  /\ Room = AtMost(MaxParasToRetrieve, Cardinality(ScoredDocs))

Weighs(e) ==
  /\ e.Weight = IF e.SeekPos # 0 THEN Cosines[e.DocNum] ELSE Bounds[e.DocNum]
  /\ e.SeekPos # 0 => rqi.Exact

EntriesWeigh ==
  /\ \A e \in Elems(heap) : Weighs(e)
  /\ at \in {"scan", "sort"} => \A e \in Elems(heap) : e.SeekPos = 0
  /\ at = "sort" => ~Fetched
  /\ at = "exact" => Fetched
  /\ at \in {"exact", "take", "done"} /\ Fetched => \A e \in Elems(heap) : e.SeekPos # 0
  /\ at # "scan" /\ rqi.AccumMethod = "A" => \A e \in Elems(heap) : Sums[e.DocNum] # 0

\* None of the heap weighs less.
NoLighter(w) == \A e \in Elems(heap) : w <= e.Weight

RestWeighs ==
  /\ at = "scan" => \A x \in DOMAIN acc :
       /\ x >= n => AccSums[x] = Sums[AccDocs[x]]
       /\ x < n /\ Outside(Elems(heap), x) =>
            AccSums[x] = Bounds[AccDocs[x]] /\ NoLighter(Bounds[AccDocs[x]])
  /\ at = "exact" => \A x \in DOMAIN acc : Outside(Elems(heap), x) =>
       /\ AccSums[x] \in {0, Bounds[AccDocs[x]]}
       /\ AccSums[x] = 0 \/ x < n => NoLighter(Cosines[AccDocs[x]])
  /\ at = "sort" => \A x \in DOMAIN acc :
       Outside(Elems(heap), x) => NoLighter(Bounds[AccDocs[x]])

Weighed == rqi.AccumMethod # "L" /\ at \in After
WeighInv == Weighed => Steady /\ EntriesWeigh /\ RestWeighs

LEMMA SumsSame ==
  ASSUME UNCHANGED <<given, j, doctable>>
  PROVE  /\ Sums' = Sums /\ Bounds' = Bounds /\ Cosines' = Cosines /\ Measures' = Measures
         /\ rqi' = rqi /\ InvfLevel' = InvfLevel /\ Fetched' = Fetched
         /\ MaxParasToRetrieve' = MaxParasToRetrieve
<1>1. UNCHANGED <<rqi, Terms, InvfLevel>>
  BY DEF given
<1>2. Sums' = Sums
  BY <1>1 DEF Sums
<1>3. Bounds' = Bounds /\ Cosines' = Cosines
  BY <1>1, <1>2 DEF Bounds, Cosines
<1>4. Measures' = Measures
  BY <1>1, <1>3 DEF Measures
<1>. QED BY <1>1, <1>2, <1>3, <1>4 DEF Fetched, MaxParasToRetrieve

LEMMA SteadyKept ==
  ASSUME UNCHANGED <<given, j, doctable, sup>>, AccDocs' = AccDocs, Room' = Room,
         DOMAIN acc' = DOMAIN acc, Steady
  PROVE  Steady' /\ ScoredDocs' = ScoredDocs
<1>1. ScoredDocs' = ScoredDocs
  BY SumsSame DEF ScoredDocs
<1>. QED BY <1>1, SumsSame DEF Steady, Apart

\* Whose weight an entry has.
LEMMA WeighsMeans ==
  ASSUME RankedTypes, doctable \in DocTables, NEW e \in Items, Weighs(e)
  PROVE  /\ e.DocNum \in 1 .. NumDocs /\ e.Weight \in Nat /\ e.Weight <= Bounds[e.DocNum]
         /\ rqi.Exact /\ e.SeekPos # 0 => e.Weight = Measures[e.DocNum]
         /\ ~rqi.Exact => e.Weight = Measures[e.DocNum]
<1>1. e.DocNum \in 1 .. NumDocs /\ e.Weight \in Nat
  BY DEF Items
<1>2. Cosines[e.DocNum] \in Nat /\ Bounds[e.DocNum] \in Nat /\ Cosines[e.DocNum] <= Bounds[e.DocNum]
  BY <1>1, WeightFacts
<1>. QED BY <1>1, <1>2 DEF Weighs, Measures

LEMMA ExactedWeighs ==
  ASSUME RankedTypes, doctable \in DocTables, rqi.Exact, NEW e \in Items, Weighs(e), e.SeekPos = 0,
         NEW f, f = Exacted(e)
  PROVE  /\ f \in Items /\ Weighs(f) /\ f.SeekPos # 0 /\ f.DocNum = e.DocNum /\ f.OrgWeight = e.OrgWeight
         /\ f.Weight = Cosines[e.DocNum] /\ f.Weight <= e.Weight
<1>1. /\ f \in Items /\ f.OrgWeight = e.OrgWeight /\ f.DocNum = e.DocNum
      /\ f.Weight = ToExact(e.Weight, e.DocNum) /\ f.Weight <= e.Weight
      /\ f.SeekPos # 0
  BY ExactedIs
<1>2. e.DocNum \in 1 .. NumDocs
  BY DEF Items
<1>3. ToExact(Bounds[e.DocNum], e.DocNum) = Cosines[e.DocNum]
  BY <1>2, WeightFacts
<1>. QED BY <1>1, <1>3 DEF Weighs

LEMMA AscendingApart ==
  ASSUME acc \in Seq(Entries), Ascending(acc) PROVE Apart(AccDocs)
<1>. SUFFICES ASSUME NEW x \in DOMAIN AccDocs, NEW y \in DOMAIN AccDocs, AccDocs[x] = AccDocs[y] PROVE x = y
  BY DEF Apart
<1>1. /\ x \in DOMAIN acc /\ y \in DOMAIN acc
      /\ AccDocs[x] = acc[x].DocNum + 1 /\ acc[x].DocNum \in Nat
      /\ AccDocs[y] = acc[y].DocNum + 1 /\ acc[y].DocNum \in Nat
  BY AccFacts
<1>. PICK a \in Nat : a = acc[x].DocNum
  BY <1>1
<1>. PICK b \in Nat : b = acc[y].DocNum
  BY <1>1
<1>2. a = b
  <2>1. AccDocs[x] = a + 1 /\ AccDocs[y] = b + 1
    BY <1>1
  <2>2. a + 1 = b + 1
    BY <2>1
  <2>. QED BY <2>2
<1>. QED BY <1>1, <1>2, AscendingDistinct DEF Distinct

LEMMA FillWeighs ==
  ASSUME RankedInv, PlacesInv, FillHeap PROVE WeighInv'
<1>. SUFFICES ASSUME rqi.AccumMethod # "L" PROVE WeighInv'
  <2>1. rqi' = rqi
    BY DEF FillHeap, given
  <2>. QED BY <2>1 DEF WeighInv, Weighed
<1>. PICK m : m = MaxParas
  OBVIOUS
<1>1. /\ at = "decoded" /\ at' = "scan"
      /\ UNCHANGED <<given, j, doctable>>
      /\ m \in Nat /\ m <= Len(acc) /\ n' = m + 1 /\ Room' = m
      /\ acc' \in Seq(Entries) /\ Len(acc') = Len(acc) /\ AccDocs' = AccDocs
      /\ HeapOk(heap', "Lesser", AccDocs)
      /\ AccSums' = [x \in DOMAIN acc |-> IF x <= m THEN 0 ELSE AccSums[x]]
      /\ \A e \in Elems(heap') :
           /\ e.OrgWeight \in 1 .. m /\ e.SeekPos = 0
           /\ e.Weight = (Scale * AccSums[e.OrgWeight]) \div Approx(e.DocNum)
      /\ \A x \in 1 .. m : \E e \in Elems(heap') : e.OrgWeight = x
  BY FillEffect
<1>2. /\ acc \in Seq(Entries) /\ AccDocs \in [DOMAIN acc -> 1 .. NumDocs]
      /\ sup = <<>> /\ Ascending(acc)
      /\ \A x \in DOMAIN acc : AccSums[x] = Sums[AccDocs[x]]
      /\ rqi.AccumMethod = "A" => DOMAIN acc = 1 .. NumDocs /\ \A x \in DOMAIN acc : AccDocs[x] = x
  BY <1>1, DecodedFacts
<1>. PICK N \in Nat : N = Len(acc) /\ DOMAIN acc = 1 .. N /\ DOMAIN acc' = 1 .. N
  BY <1>1, <1>2
<1>3. sup' = sup
  BY DEF FillHeap
<1>4. /\ Sums' = Sums /\ Bounds' = Bounds /\ Cosines' = Cosines /\ rqi' = rqi /\ Fetched' = Fetched
      /\ MaxParasToRetrieve' = MaxParasToRetrieve
  BY <1>1, SumsSame
<1>5. ScoredDocs' = ScoredDocs
  BY <1>1, <1>4 DEF ScoredDocs
<1>6. Steady'
  <2>1. m = AtMost(MaxParasToRetrieve, Cardinality(ScoredDocs))
    BY <1>1, MaxParasIs
  <2>2. Apart(AccDocs)
    BY <1>2, AscendingApart
  <2>. QED BY <1>1, <1>2, <1>3, <1>4, <1>5, <2>1, <2>2 DEF Steady, Apart
<1>7. RankedTypes /\ doctable \in DocTables
  BY DEF RankedInv, PlacesInv
<1>8. ASSUME NEW e \in Elems(heap') PROVE e.SeekPos = 0 /\ e.Weight = Bounds[e.DocNum]
  <2>1. e.OrgWeight \in DOMAIN acc /\ e.DocNum = AccDocs[e.OrgWeight] /\ e.SeekPos = 0
        /\ e.Weight = (Scale * AccSums[e.OrgWeight]) \div Approx(e.DocNum)
    BY <1>1, <1>2 DEF HeapOk
  <2>2. e.DocNum \in 1 .. NumDocs /\ AccSums[e.OrgWeight] = Sums[e.DocNum]
    BY <1>2, <2>1
  <2>3. Bounds[e.DocNum] = (Scale * Sums[e.DocNum]) \div Approx(e.DocNum)
    BY <1>7, <2>2, WeightFacts
  <2>. QED BY <2>1, <2>2, <2>3
<1>9. EntriesWeigh'
  BY <1>1, <1>4, <1>8 DEF EntriesWeigh, Weighs
<1>10. RestWeighs'
  <2>1. ASSUME NEW x \in DOMAIN acc', x >= n' PROVE AccSums'[x] = Sums[AccDocs[x]]
    <3>1. x \in DOMAIN acc /\ ~(x <= m)
      BY <1>1, <2>1
    <3>. QED BY <1>1, <1>2, <3>1
  <2>2. ASSUME NEW x \in DOMAIN acc', x < n' PROVE ~Outside(Elems(heap'), x)
    <3>1. x \in 1 .. m
      BY <1>1, <2>2
    <3>. QED BY <1>1, <3>1 DEF Outside
  <2>. QED BY <1>1, <1>4, <2>1, <2>2 DEF RestWeighs, Outside
<1>. QED BY <1>6, <1>9, <1>10 DEF WeighInv

LEMMA ScanWeighs ==
  ASSUME RankedInv, PlacesInv, TableKept, FillInv, WeighInv, ScanEntry PROVE WeighInv'
<1>. SUFFICES ASSUME rqi.AccumMethod # "L" PROVE WeighInv'
  <2>1. rqi' = rqi
    BY DEF ScanEntry, given
  <2>. QED BY <2>1 DEF WeighInv, Weighed
<1>. PICK w : w = (Scale * AccSums[n]) \div Approx(AccDocs[n])
  OBVIOUS
<1>1. /\ at = "scan" /\ at' = "scan" /\ order = "Lesser" /\ n \in DOMAIN acc /\ n' = n + 1
      /\ UNCHANGED <<given, j, doctable, Docs>>
      /\ acc' \in Seq(Entries) /\ Len(acc') = Len(acc) /\ AccDocs' = AccDocs /\ w \in Nat
      /\ \/ rqi.AccumMethod = "A" /\ AccSums[n] = 0 /\ AccSums' = AccSums /\ heap' = heap
         \/ /\ heap # <<>> /\ w <= heap[1].Weight
            /\ AccSums' = [AccSums EXCEPT ![n] = w] /\ heap' = heap
         \/ /\ \E e : Entered(e, w, 0) /\ heap[1].Weight < w
            /\ AccSums' = [AccSums EXCEPT ![heap[1].OrgWeight] = heap[1].Weight, ![n] = 0]
  BY ScanEffect
<1>2. /\ acc \in Seq(Entries) /\ AccDocs \in [DOMAIN acc -> 1 .. NumDocs]
      /\ HeapOk(heap, "Lesser", AccDocs) /\ Steady /\ EntriesWeigh /\ RestWeighs
      /\ RankedTypes /\ doctable \in DocTables /\ "Lesser" \in Senses
  BY <1>1 DEF TableKept, WeighInv, Weighed, After, RankedInv, PlacesInv, Senses
<1>3. DOMAIN acc' = DOMAIN acc /\ DOMAIN AccSums = DOMAIN acc /\ DOMAIN acc = 1 .. Len(acc) /\ Len(acc) \in Nat
  BY <1>1, <1>2, AccFacts
<1>4. /\ Sums' = Sums /\ Bounds' = Bounds /\ Cosines' = Cosines /\ rqi' = rqi /\ Fetched' = Fetched
  BY <1>1, SumsSame
<1>5. Steady'
  <2>1. sup' = sup
    BY DEF ScanEntry, tablebut
  <2>2. Room' = Room
    BY <1>1 DEF Room
  <2>. QED BY <1>1, <1>2, <1>3, <2>1, <2>2, SteadyKept
<1>. PICK d \in 1 .. NumDocs : d = AccDocs[n]
  BY <1>1, <1>2
<1>6. AccSums[n] = Sums[d] /\ w = Bounds[d]
  <2>1. AccSums[n] = Sums[d]
    BY <1>1, <1>2, <1>3 DEF RestWeighs
  <2>2. Bounds[d] = (Scale * Sums[d]) \div Approx(d)
    BY <1>2, WeightFacts
  <2>. QED BY <2>1, <2>2
<1>7. \A e \in Elems(heap) : /\ e.SeekPos = 0 /\ e.Weight = Bounds[e.DocNum] /\ e.Weight \in Nat
                             /\ heap[1].Weight <= e.Weight /\ e.DocNum = AccDocs[e.OrgWeight]
                             /\ e.OrgWeight \in DOMAIN acc /\ heap[1] \in Elems(heap)
  <2>. TAKE e \in Elems(heap)
  <2>1. e.SeekPos = 0 /\ Weighs(e)
    BY <1>1, <1>2 DEF EntriesWeigh
  <2>2. e.Weight = Bounds[e.DocNum]
    BY <2>1 DEF Weighs
  <2>3. e.Weight \in Nat /\ heap[1].Weight <= e.Weight /\ heap[1] \in Elems(heap)
    BY <1>2, RootOf
  <2>. QED BY <1>2, <2>1, <2>2, <2>3 DEF HeapOk
<1>8. \A e \in Elems(heap) : e.OrgWeight < n
  BY <1>1 DEF FillInv
<1>9. \A x \in DOMAIN acc : Bounds[AccDocs[x]] \in Nat
  BY <1>2, WeightFacts
\* The sum was 0, or turned out too low.
<1>10. CASE heap' = heap /\ (\A x \in DOMAIN acc : x # n => AccSums'[x] = AccSums[x])
            /\ AccSums'[n] = w /\ NoLighter(w)
  <2>1. EntriesWeigh'
    BY <1>1, <1>2, <1>4, <1>10 DEF EntriesWeigh, Weighs
  <2>2. ASSUME NEW x \in DOMAIN acc, x >= n + 1 PROVE AccSums'[x] = Sums[AccDocs[x]]
    <3>1. x # n /\ x >= n
      BY <1>3, <2>2, <1>1
    <3>. QED BY <1>1, <1>2, <1>10, <3>1 DEF RestWeighs
  <2>3. ASSUME NEW x \in DOMAIN acc, x < n + 1, Outside(Elems(heap), x)
        PROVE  AccSums'[x] = Bounds[AccDocs[x]] /\ NoLighter(Bounds[AccDocs[x]])
    <3>1. CASE x = n
      BY <1>6, <1>10, <3>1
    <3>2. CASE x # n
      <4>1. x < n
        BY <1>3, <2>3, <3>2, <1>1
      <4>. QED BY <1>1, <1>2, <1>10, <2>3, <3>2, <4>1 DEF RestWeighs
    <3>. QED BY <3>1, <3>2
  <2>4. RestWeighs'
    BY <1>1, <1>3, <1>4, <1>10, <2>2, <2>3 DEF RestWeighs, NoLighter
  <2>. QED BY <1>5, <2>1, <2>4 DEF WeighInv
\* It drives the root out.
<1>11. CASE /\ \E e : Entered(e, w, 0) /\ heap[1].Weight < w
            /\ AccSums' = [AccSums EXCEPT ![heap[1].OrgWeight] = heap[1].Weight, ![n] = 0]
  <2>1. PICK f : Entered(f, w, 0)
    BY <1>11
  <2>2. /\ f \in Items /\ f.Weight = w /\ f.OrgWeight = n /\ f.DocNum = d /\ f.SeekPos = 0
        /\ heap # <<>> /\ heap[1] \in Elems(heap)
        /\ Elems(heap') = (Elems(heap) \ {heap[1]}) \cup {f}
    BY <2>1 DEF Entered, Swapped
  <2>. PICK z \in DOMAIN acc : z = heap[1].OrgWeight
    BY <1>7, <2>2
  <2>. PICK v \in Nat : v = heap[1].Weight
    BY <1>7, <2>2
  <2>3. v = Bounds[AccDocs[z]] /\ z < n /\ v < w /\ z # n
    <3>1. v = Bounds[AccDocs[z]] /\ z < n
      BY <1>7, <1>8, <2>2
    <3>2. v < w
      BY <1>11
    <3>3. z \in Nat /\ n \in Nat
      BY <1>1, <1>3
    <3>. QED BY <3>1, <3>2, <3>3
  <2>4. /\ \A x \in DOMAIN acc : x # n /\ x # z => AccSums'[x] = AccSums[x]
        /\ AccSums'[z] = v
    BY <1>3, <1>11, <2>3
  <2>5. \A e \in Elems(heap') : e.SeekPos = 0 /\ e.Weight = Bounds[e.DocNum] /\ e.Weight \in Nat /\ v <= e.Weight
    BY <1>6, <1>7, <2>2, <2>3, <1>1
  <2>6. EntriesWeigh'
    BY <1>1, <1>4, <2>5 DEF EntriesWeigh, Weighs
  <2>7. ASSUME NEW x \in DOMAIN acc, x >= n + 1 PROVE AccSums'[x] = Sums[AccDocs[x]]
    <3>1. x # n /\ x >= n /\ x # z
      BY <1>1, <1>3, <2>3, <2>7
    <3>. QED BY <1>1, <1>2, <2>4, <3>1 DEF RestWeighs
  <2>8. ASSUME NEW x \in DOMAIN acc, x < n + 1, Outside(Elems(heap'), x)
        PROVE  AccSums'[x] = Bounds[AccDocs[x]] /\ \A e \in Elems(heap') : Bounds[AccDocs[x]] <= e.Weight
    <3>1. x # n /\ x < n
      BY <1>1, <1>3, <2>2, <2>8 DEF Outside
    <3>2. CASE x = z
      BY <2>3, <2>4, <2>5, <3>2
    <3>3. CASE x # z
      <4>1. Outside(Elems(heap), x)
        BY <2>2, <2>8, <3>3 DEF Outside
      <4>2. AccSums[x] = Bounds[AccDocs[x]] /\ NoLighter(Bounds[AccDocs[x]])
        BY <1>1, <1>2, <3>1, <4>1 DEF RestWeighs
      <4>. PICK b \in Nat : b = Bounds[AccDocs[x]]
        BY <1>9
      <4>3. b <= v
        BY <2>2, <4>2 DEF NoLighter
      <4>4. \A e \in Elems(heap') : b <= e.Weight
        BY <2>5, <4>3
      <4>. QED BY <2>4, <3>1, <3>3, <4>2, <4>4
    <3>. QED BY <3>2, <3>3
  <2>9. RestWeighs'
    BY <1>1, <1>3, <1>4, <2>7, <2>8 DEF RestWeighs, NoLighter
  <2>. QED BY <1>5, <2>6, <2>9 DEF WeighInv
<1>12. CASE rqi.AccumMethod = "A" /\ AccSums[n] = 0 /\ AccSums' = AccSums /\ heap' = heap
  <2>1. w = 0
    BY <1>2, <1>6, <1>12, WeightFacts
  <2>2. NoLighter(w)
    BY <1>7, <2>1 DEF NoLighter
  <2>. QED BY <1>10, <1>12, <2>1, <2>2
<1>13. CASE /\ heap # <<>> /\ w <= heap[1].Weight
            /\ AccSums' = [AccSums EXCEPT ![n] = w] /\ heap' = heap
  <2>1. NoLighter(w)
    <3>. SUFFICES ASSUME NEW e \in Elems(heap) PROVE w <= e.Weight
      BY DEF NoLighter
    <3>1. e.Weight \in Nat /\ heap[1].Weight <= e.Weight /\ heap[1].Weight \in Nat
      BY <1>7
    <3>. QED BY <1>1, <1>13, <3>1
  <2>2. AccSums'[n] = w /\ \A x \in DOMAIN acc : x # n => AccSums'[x] = AccSums[x]
    BY <1>1, <1>3, <1>13
  <2>. QED BY <1>10, <1>13, <2>1, <2>2
<1>. QED BY <1>1, <1>11, <1>12, <1>13

\* The array has accumulators of 0; none is left in the heap once all are seen,
\* as there are enough others.
LEMMA NoneOfZero ==
  ASSUME RankedInv, doctable \in DocTables, rqi.AccumMethod = "A", Steady, EntriesWeigh, RestWeighs,
         FillInv, acc \in Seq(Entries), AccDocs \in [DOMAIN acc -> 1 .. NumDocs],
         HeapOk(heap, "Lesser", AccDocs), at = "scan", n = Len(acc) + 1, NEW e \in Elems(heap)
  PROVE  Sums[e.DocNum] # 0
<1>. SUFFICES ASSUME Sums[e.DocNum] = 0 PROVE FALSE
  OBVIOUS
<1>0. RankedTypes /\ "Lesser" \in Senses
  BY DEF RankedInv, Senses
<1>1. DOMAIN acc = 1 .. NumDocs /\ \A x \in DOMAIN acc : AccDocs[x] = x
  BY DEF Steady
<1>2. e.OrgWeight \in 1 .. NumDocs /\ e.DocNum = e.OrgWeight
  BY <1>1 DEF HeapOk
<1>3. e.Weight = 0
  <2>1. Weighs(e) /\ e.SeekPos = 0
    BY DEF EntriesWeigh
  <2>2. Bounds[e.DocNum] = 0
    BY <1>0, <1>2, WeightFacts
  <2>. QED BY <2>1, <2>2 DEF Weighs
<1>. PICK S : S = ScoredDocs
  OBVIOUS
<1>. PICK O : O = {f.OrgWeight : f \in Elems(heap)}
  OBVIOUS
<1>. PICK z : z = e.OrgWeight
  OBVIOUS
<1>4. S \in SUBSET (O \ {z})
  <2>. SUFFICES ASSUME NEW d \in S PROVE d \in O /\ d # z
    OBVIOUS
  <2>1. d \in 1 .. NumDocs /\ Sums[d] # 0
    BY DEF ScoredDocs
  <2>2. d # z
    BY <1>2, <2>1
  <2>3. ~Outside(Elems(heap), d)
    <3>. SUFFICES ASSUME Outside(Elems(heap), d) PROVE FALSE
      OBVIOUS
    <3>1. d \in DOMAIN acc /\ AccDocs[d] = d /\ d < n
      <4>1. d \in DOMAIN acc /\ DOMAIN acc = 1 .. Len(acc) /\ Len(acc) \in Nat
        BY <1>1, <2>1
      <4>2. d < Len(acc) + 1
        BY <4>1
      <4>. QED BY <1>1, <4>1, <4>2
    <3>2. NoLighter(Bounds[d])
      BY <3>1 DEF RestWeighs
    <3>3. Bounds[d] <= 0 /\ Bounds[d] \in Nat
      BY <1>0, <1>3, <2>1, <3>2, WeightFacts DEF NoLighter
    <3>4. Bounds[d] = 0
      BY <3>3
    <3>. QED BY <1>0, <2>1, <3>4, WeightFacts
  <2>. QED BY <2>2, <2>3 DEF Outside
<1>5. IsFiniteSet(O) /\ Cardinality(O) = Len(heap)
  BY <1>0, HeapCounts
<1>6. Len(heap) = Room /\ Len(heap) \in Nat
  <2>1. Len(heap) \in Nat
    BY <1>0, RootOf
  <2>. QED BY <2>1 DEF FillInv
<1>. PICK R \in Nat : R = Len(heap)
  BY <1>6
<1>7. z \in O
  OBVIOUS
<1>8. IsFiniteSet(O \ {z}) /\ Cardinality(O \ {z}) = R - 1
  <2>1. Cardinality(O) = R
    BY <1>5
  <2>. QED BY ONLY <1>5, <1>7, <2>1, FS_RemoveElement
<1>9. IsFiniteSet(S) /\ Cardinality(S) <= R - 1 /\ Cardinality(S) \in Nat
  <2>1. IsFiniteSet(S) /\ Cardinality(S) <= Cardinality(O \ {z})
    BY ONLY <1>4, <1>8, FS_Subset
  <2>2. Cardinality(S) \in Nat
    BY ONLY <2>1, FS_CardinalityType
  <2>. QED BY <1>8, <2>1, <2>2
<1>. PICK c \in Nat : c = Cardinality(S)
  BY <1>9
<1>10. R <= c
  <2>1. R = AtMost(MaxParasToRetrieve, c)
    BY <1>6 DEF Steady
  <2>. QED BY <2>1, LimitsAre, AtMostIs
<1>. QED BY <1>9, <1>10

LEMMA ScanDoneWeighs ==
  ASSUME RankedInv, PlacesInv, TableKept, FillInv, WeighInv, ScanDone PROVE WeighInv'
<1>. SUFFICES ASSUME rqi.AccumMethod # "L" PROVE WeighInv'
  <2>1. rqi' = rqi
    BY DEF ScanDone, given
  <2>. QED BY <2>1 DEF WeighInv, Weighed
<1>1. /\ at = "scan" /\ n = Len(acc) + 1 /\ n' = 1 /\ Same /\ order = "Lesser"
      /\ \/ /\ rqi.Exact /\ InvfLevel # 3 /\ at' = "exact"
            /\ Elems(heap') = {Exacted(e) : e \in Elems(heap)}
         \/ ~(rqi.Exact /\ InvfLevel # 3) /\ at' = "sort" /\ heap' = heap
  BY ScanDoneEffect
<1>2. /\ acc \in Seq(Entries) /\ AccDocs \in [DOMAIN acc -> 1 .. NumDocs]
      /\ HeapOk(heap, "Lesser", AccDocs) /\ Steady /\ EntriesWeigh /\ RestWeighs
      /\ RankedTypes /\ doctable \in DocTables /\ "Lesser" \in Senses
  BY <1>1 DEF TableKept, WeighInv, Weighed, After, RankedInv, PlacesInv, Senses
<1>3. /\ UNCHANGED <<given, j, doctable, acc, Docs>> /\ AccDocs' = AccDocs /\ AccSums' = AccSums
      /\ DOMAIN acc' = DOMAIN acc
  BY <1>1 DEF Same
<1>4. /\ Sums' = Sums /\ Bounds' = Bounds /\ Cosines' = Cosines /\ rqi' = rqi /\ Fetched' = Fetched
  BY <1>3, SumsSame
<1>5. Steady'
  <2>1. sup' = sup
    BY DEF ScanDone, table
  <2>2. Room' = Room
    BY <1>3 DEF Room
  <2>. QED BY <1>2, <1>3, <2>1, <2>2, SteadyKept
<1>6. \A x \in DOMAIN acc : x < n
  BY <1>1, <1>2
<1>7. \A x \in DOMAIN acc : Outside(Elems(heap), x) =>
        AccSums[x] = Bounds[AccDocs[x]] /\ NoLighter(Bounds[AccDocs[x]])
  BY <1>1, <1>2, <1>6 DEF RestWeighs
<1>8. \A e \in Elems(heap) : e \in Items /\ Weighs(e) /\ e.SeekPos = 0
                             /\ (rqi.AccumMethod = "A" => Sums[e.DocNum] # 0)
  <2>. TAKE e \in Elems(heap)
  <2>1. e \in Items
    BY <1>2, RootOf
  <2>2. Weighs(e) /\ e.SeekPos = 0
    BY <1>1, <1>2 DEF EntriesWeigh
  <2>3. ASSUME rqi.AccumMethod = "A" PROVE Sums[e.DocNum] # 0
    BY <1>1, <1>2, <2>3, NoneOfZero
  <2>. QED BY <2>1, <2>2, <2>3
<1>9. CASE /\ rqi.Exact /\ InvfLevel # 3 /\ at' = "exact"
           /\ Elems(heap') = {Exacted(e) : e \in Elems(heap)}
  <2>1. ASSUME NEW f \in Elems(heap')
        PROVE  /\ Weighs(f) /\ f.SeekPos # 0 /\ f.Weight \in Nat
               /\ (rqi.AccumMethod = "A" => Sums[f.DocNum] # 0)
               /\ \E e \in Elems(heap) : e.OrgWeight = f.OrgWeight
    <3>1. PICK e \in Elems(heap) : f = Exacted(e)
      BY <1>9
    <3>2. e \in Items /\ Weighs(e) /\ e.SeekPos = 0
      BY <1>8
    <3>3. f \in Items /\ Weighs(f) /\ f.SeekPos # 0 /\ f.DocNum = e.DocNum /\ f.OrgWeight = e.OrgWeight
      BY <1>2, <1>9, <3>1, <3>2, ExactedWeighs
    <3>4. f.Weight \in Nat
      BY <3>3 DEF Items
    <3>. QED BY <1>8, <3>3, <3>4
  <2>2. EntriesWeigh'
    BY <1>4, <1>9, <2>1 DEF EntriesWeigh, Weighs, Fetched
  <2>3. ASSUME NEW x \in DOMAIN acc, Outside(Elems(heap'), x)
        PROVE  /\ AccSums[x] \in {0, Bounds[AccDocs[x]]}
               /\ AccSums[x] = 0 => \A f \in Elems(heap') : Cosines[AccDocs[x]] <= f.Weight
    <3>1. Outside(Elems(heap), x)
      <4>. SUFFICES ASSUME NEW e \in Elems(heap), e.OrgWeight = x PROVE FALSE
        BY DEF Outside
      <4>1. Exacted(e) \in Elems(heap') /\ e \in Items
        BY <1>8, <1>9
      <4>. PICK f \in Elems(heap') : f = Exacted(e)
        BY <4>1
      <4>2. f.OrgWeight = e.OrgWeight
        BY <1>2, <4>1, ExactedIs
      <4>. QED BY <2>3, <4>2 DEF Outside
    <3>2. AccSums[x] = Bounds[AccDocs[x]]
      BY <1>7, <3>1
    <3>3. ASSUME AccSums[x] = 0, NEW f \in Elems(heap') PROVE Cosines[AccDocs[x]] <= f.Weight
      <4>. PICK d \in 1 .. NumDocs : d = AccDocs[x]
        BY <1>2
      <4>1. Cosines[d] \in Nat /\ Cosines[d] <= 0
        BY <1>2, <3>2, <3>3, WeightFacts
      <4>. QED BY <2>1, <4>1
    <3>. QED BY <3>2, <3>3
  <2>4. \A x \in DOMAIN acc : ~(x < 1)
    BY <1>2
  <2>5. RestWeighs'
    BY <1>1, <1>3, <1>4, <1>9, <2>3, <2>4 DEF RestWeighs, NoLighter
  <2>. QED BY <1>5, <2>2, <2>5 DEF WeighInv
<1>10. CASE ~(rqi.Exact /\ InvfLevel # 3) /\ at' = "sort" /\ heap' = heap
  <2>1. EntriesWeigh'
    BY <1>2, <1>4, <1>8, <1>10 DEF EntriesWeigh, Weighs, Fetched
  <2>2. RestWeighs'
    BY <1>3, <1>4, <1>7, <1>10 DEF RestWeighs, NoLighter
  <2>. QED BY <1>5, <2>1, <2>2 DEF WeighInv
<1>. QED BY <1>1, <1>9, <1>10

LEMMA ExactWeighs ==
  ASSUME RankedInv, PlacesInv, TableKept, FillInv, WeighInv, ExactEntry PROVE WeighInv'
<1>. SUFFICES ASSUME rqi.AccumMethod # "L" PROVE WeighInv'
  <2>1. rqi' = rqi
    BY DEF ExactEntry, given
  <2>. QED BY <2>1 DEF WeighInv, Weighed
<1>. PICK w : w = ToExact(AccSums[n], AccDocs[n])
  OBVIOUS
<1>. PICK seek : seek = doctable[AccDocs[n]].SeekPos
  OBVIOUS
<1>1. /\ at = "exact" /\ at' = "exact" /\ order = "Lesser" /\ n \in DOMAIN acc /\ n' = n + 1
      /\ UNCHANGED <<given, j, doctable, Docs>>
      /\ acc' \in Seq(Entries) /\ Len(acc') = Len(acc) /\ AccDocs' = AccDocs /\ w \in Nat
      /\ AccSums[n] \in Nat
      /\ \/ /\ AccSums[n] = 0 \/ (heap # <<>> /\ w <= heap[1].Weight)
            /\ AccSums' = AccSums /\ heap' = heap
         \/ /\ AccSums[n] # 0
            /\ \E e : Entered(e, w, seek) /\ heap[1].Weight < w /\ seek \in Nat \ {0}
            /\ AccSums' = [AccSums EXCEPT ![n] = 0]
  BY ExactEffect
<1>2. /\ acc \in Seq(Entries) /\ AccDocs \in [DOMAIN acc -> 1 .. NumDocs]
      /\ HeapOk(heap, "Lesser", AccDocs) /\ Steady /\ EntriesWeigh /\ RestWeighs
      /\ RankedTypes /\ doctable \in DocTables /\ "Lesser" \in Senses
  BY <1>1 DEF TableKept, WeighInv, Weighed, After, RankedInv, PlacesInv, Senses
<1>3. DOMAIN acc' = DOMAIN acc /\ DOMAIN AccSums = DOMAIN acc /\ DOMAIN acc = 1 .. Len(acc) /\ Len(acc) \in Nat
  BY <1>1, <1>2, AccFacts
<1>4. /\ Sums' = Sums /\ Bounds' = Bounds /\ Cosines' = Cosines /\ rqi' = rqi /\ Fetched' = Fetched
  BY <1>1, SumsSame
<1>5. Steady'
  <2>1. sup' = sup
    BY DEF ExactEntry, tablebut
  <2>2. Room' = Room
    BY <1>1 DEF Room
  <2>. QED BY <1>1, <1>2, <1>3, <2>1, <2>2, SteadyKept
<1>. PICK d \in 1 .. NumDocs : d = AccDocs[n]
  BY <1>1, <1>2
<1>6. \A e \in Elems(heap) : /\ e.SeekPos # 0 /\ Weighs(e) /\ e.Weight = Cosines[e.DocNum] /\ e.Weight \in Nat
                             /\ heap[1].Weight <= e.Weight /\ e.DocNum = AccDocs[e.OrgWeight]
                             /\ e.OrgWeight \in DOMAIN acc /\ heap[1] \in Elems(heap)
                             /\ AccSums[e.OrgWeight] = 0
                             /\ (rqi.AccumMethod = "A" => Sums[e.DocNum] # 0)
  <2>. TAKE e \in Elems(heap)
  <2>1. e.SeekPos # 0 /\ Weighs(e) /\ (rqi.AccumMethod = "A" => Sums[e.DocNum] # 0)
    BY <1>1, <1>2 DEF EntriesWeigh
  <2>2. e.Weight = Cosines[e.DocNum]
    BY <2>1 DEF Weighs
  <2>3. e.Weight \in Nat /\ heap[1].Weight <= e.Weight /\ heap[1] \in Elems(heap)
    BY <1>2, RootOf
  <2>4. AccSums[e.OrgWeight] = 0
    BY <1>1 DEF FillInv
  <2>. QED BY <1>2, <2>1, <2>2, <2>3, <2>4 DEF HeapOk
<1>7. \A x \in DOMAIN acc : Outside(Elems(heap), x) =>
       /\ AccSums[x] \in {0, Bounds[AccDocs[x]]}
       /\ AccSums[x] = 0 \/ x < n => NoLighter(Cosines[AccDocs[x]])
  BY <1>1, <1>2 DEF RestWeighs
<1>8. \A x \in DOMAIN acc : Cosines[AccDocs[x]] \in Nat
  BY <1>2, WeightFacts
<1>9. /\ Bounds[d] \in Nat /\ (Bounds[d] = 0 <=> Sums[d] = 0) /\ ToExact(Bounds[d], d) = Cosines[d]
      /\ Cosines[d] \in Nat
  BY <1>2, WeightFacts
<1>10. Fetched /\ rqi.Exact
  BY <1>1, <1>2 DEF EntriesWeigh, Fetched
<1>11. \A x \in DOMAIN acc : x < n + 1 => x < n \/ x = n
  BY <1>1, <1>3
\* It has no sum, or turned out too low.
<1>12. CASE /\ AccSums[n] = 0 \/ (heap # <<>> /\ w <= heap[1].Weight)
            /\ AccSums' = AccSums /\ heap' = heap
  <2>1. EntriesWeigh'
    BY <1>1, <1>2, <1>4, <1>12 DEF EntriesWeigh, Weighs
  <2>2. ASSUME NEW x \in DOMAIN acc, Outside(Elems(heap), x), AccSums[x] = 0 \/ x < n + 1
        PROVE  NoLighter(Cosines[AccDocs[x]])
    <3>1. CASE AccSums[x] = 0 \/ x < n
      BY <1>7, <2>2, <3>1
    <3>2. CASE x = n /\ AccSums[n] # 0
      <4>1. w = Cosines[d] /\ w <= heap[1].Weight
        <5>1. AccSums[n] = Bounds[d]
          BY <1>7, <2>2, <3>2
        <5>. QED BY <1>9, <1>12, <3>2, <5>1
      <4>2. ASSUME NEW e \in Elems(heap) PROVE w <= e.Weight
        <5>1. e.Weight \in Nat /\ heap[1].Weight <= e.Weight /\ heap[1].Weight \in Nat
          BY <1>6
        <5>. QED BY <1>1, <4>1, <5>1
      <4>. QED BY <3>2, <4>1, <4>2 DEF NoLighter
    <3>. QED BY <1>11, <2>2, <3>1, <3>2
  <2>3. RestWeighs'
    BY <1>1, <1>3, <1>4, <1>7, <1>12, <2>2 DEF RestWeighs, NoLighter
  <2>. QED BY <1>5, <2>1, <2>3 DEF WeighInv
\* It drives the root out.
<1>13. CASE /\ AccSums[n] # 0
            /\ \E e : Entered(e, w, seek) /\ heap[1].Weight < w /\ seek \in Nat \ {0}
            /\ AccSums' = [AccSums EXCEPT ![n] = 0]
  <2>1. PICK f : Entered(f, w, seek)
    BY <1>13
  <2>2. /\ f \in Items /\ f.Weight = w /\ f.OrgWeight = n /\ f.DocNum = d /\ f.SeekPos # 0
        /\ heap # <<>> /\ heap[1] \in Elems(heap) /\ heap[1].Weight < w
        /\ Elems(heap') = (Elems(heap) \ {heap[1]}) \cup {f}
    BY <1>13, <2>1 DEF Entered, Swapped
  <2>. PICK z \in DOMAIN acc : z = heap[1].OrgWeight
    BY <1>6, <2>2
  <2>. PICK v \in Nat : v = heap[1].Weight
    BY <1>6, <2>2
  <2>3. v = Cosines[AccDocs[z]] /\ v < w /\ AccSums[z] = 0 /\ z # n
    BY <1>6, <1>13, <2>2
  <2>4. /\ \A x \in DOMAIN acc : x # n => AccSums'[x] = AccSums[x]
        /\ AccSums'[z] = 0
    BY <1>3, <1>13, <2>3
  <2>5. Outside(Elems(heap), n)
    BY <1>6, <1>13 DEF Outside
  <2>6. w = Cosines[d] /\ Sums[d] # 0
    <3>1. AccSums[n] = Bounds[d]
      BY <1>1, <1>7, <1>13, <2>5
    <3>. QED BY <1>9, <1>13, <3>1
  <2>7. Weighs(f)
    BY <1>10, <2>2, <2>6 DEF Weighs
  <2>8. \A e \in Elems(heap') : /\ e.SeekPos # 0 /\ Weighs(e) /\ e.Weight \in Nat /\ v <= e.Weight
                                /\ (rqi.AccumMethod = "A" => Sums[e.DocNum] # 0)
    <3>. TAKE e \in Elems(heap')
    <3>1. CASE e = f
      BY <1>1, <2>2, <2>3, <2>6, <2>7, <3>1
    <3>2. CASE e \in Elems(heap)
      BY <1>6, <3>2
    <3>. QED BY <2>2, <3>1, <3>2
  <2>9. EntriesWeigh'
    BY <1>1, <1>4, <1>10, <2>8 DEF EntriesWeigh, Weighs
  <2>10. ASSUME NEW x \in DOMAIN acc, Outside(Elems(heap'), x)
         PROVE  /\ AccSums'[x] \in {0, Bounds[AccDocs[x]]}
                /\ (AccSums'[x] = 0 \/ x < n + 1 =>
                     \A e \in Elems(heap') : Cosines[AccDocs[x]] <= e.Weight)
    <3>1. x # n
      BY <2>2, <2>10 DEF Outside
    <3>2. CASE x = z
      BY <2>3, <2>4, <2>8, <3>2
    <3>3. CASE x # z
      <4>1. Outside(Elems(heap), x)
        BY <2>2, <2>10, <3>3 DEF Outside
      <4>2. AccSums'[x] \in {0, Bounds[AccDocs[x]]}
        BY <1>7, <2>4, <3>1, <4>1
      <4>3. ASSUME AccSums'[x] = 0 \/ x < n + 1, NEW e \in Elems(heap')
            PROVE  Cosines[AccDocs[x]] <= e.Weight
        <5>1. NoLighter(Cosines[AccDocs[x]])
          BY <1>7, <1>11, <2>4, <3>1, <4>1, <4>3
        <5>. PICK b \in Nat : b = Cosines[AccDocs[x]]
          BY <1>8
        <5>2. b <= v
          BY <2>2, <5>1 DEF NoLighter
        <5>3. v <= e.Weight /\ e.Weight \in Nat
          BY <2>8
        <5>. QED BY <5>2, <5>3
      <4>. QED BY <4>2, <4>3
    <3>. QED BY <3>2, <3>3
  <2>11. RestWeighs'
    BY <1>1, <1>3, <1>4, <2>10 DEF RestWeighs, NoLighter
  <2>. QED BY <1>5, <2>9, <2>11 DEF WeighInv
<1>. QED BY <1>1, <1>12, <1>13

\* The steps that take documents off the heap.
LEMMA TakingWeighs ==
  ASSUME RankedInv, PlacesInv, TableKept, FillInv, TakeInv, WeighInv,
         TurnOver \/ Make_Exact_Root \/ TakeRoot \/ Return
  PROVE  WeighInv'
<1>0. "Lesser" \in Senses /\ "Greater" \in Senses /\ RankedTypes /\ doctable \in DocTables
  BY DEF Senses, RankedInv, PlacesInv
<1>1. ASSUME rqi.AccumMethod # "L", at \in After, at' \in {"take", "done"},
             UNCHANGED <<given, j, doctable, acc>>, AccDocs' = AccDocs, Room' = Room, sup' = sup,
             \A f \in Elems(heap') :
               /\ Weighs(f) /\ (Fetched => f.SeekPos # 0) /\ (rqi.AccumMethod = "A" => Sums[f.DocNum] # 0)
      PROVE  WeighInv'
  <2>1. Steady /\ DOMAIN acc' = DOMAIN acc
    BY <1>1 DEF WeighInv, Weighed
  <2>2. Steady'
    BY <1>1, <2>1, SteadyKept
  <2>3. /\ Sums' = Sums /\ Bounds' = Bounds /\ Cosines' = Cosines /\ rqi' = rqi /\ Fetched' = Fetched
    BY <1>1, SumsSame
  <2>4. EntriesWeigh'
    BY <1>1, <2>3 DEF EntriesWeigh, Weighs
  <2>5. RestWeighs'
    BY <1>1 DEF RestWeighs
  <2>. QED BY <2>2, <2>4, <2>5 DEF WeighInv
<1>. SUFFICES ASSUME rqi.AccumMethod # "L" PROVE WeighInv'
  <2>1. rqi' = rqi
    BY DEF TurnOver, Make_Exact_Root, TakeRoot, Return, given
  <2>. QED BY <2>1 DEF WeighInv, Weighed
<1>2. sup' = sup
  BY DEF TurnOver, Make_Exact_Root, TakeRoot, Return, table
<1>3. at \in After /\ at # "scan"
  BY DEF TurnOver, Make_Exact_Root, TakeRoot, Return, InTake, After
<1>4. EntriesWeigh
  BY <1>3 DEF WeighInv, Weighed
<1>5. \A e \in Elems(heap) : /\ Weighs(e) /\ (rqi.AccumMethod = "A" => Sums[e.DocNum] # 0)
  BY <1>3, <1>4 DEF EntriesWeigh
<1>6. Fetched => \A e \in Elems(heap) : e.SeekPos # 0
  BY <1>3, <1>4 DEF EntriesWeigh, After
<1>7. CASE TurnOver
  <2>1. at' = "take" /\ Same /\ Elems(heap') = Elems(heap)
    BY <1>7, TurnEffect
  <2>. QED BY <1>1, <1>2, <1>3, <1>5, <1>6, <2>1 DEF Same, Room
<1>8. CASE Make_Exact_Root
  <2>1. /\ at' = "take" /\ Same /\ rqi.Exact /\ heap[1] \in Elems(heap) /\ heap[1].SeekPos = 0
        /\ HeapOk(heap, "Greater", AccDocs)
        /\ Elems(heap') = (Elems(heap) \ {heap[1]}) \cup {Exacted(heap[1])}
    BY <1>8, RootEffect
  <2>. PICK e \in Items : e = heap[1]
    BY <1>0, <2>1, RootOf
  <2>. PICK f : f = Exacted(e)
    OBVIOUS
  <2>2. Weighs(e) /\ e.SeekPos = 0 /\ (rqi.AccumMethod = "A" => Sums[e.DocNum] # 0)
    BY <1>5, <2>1
  <2>3. Weighs(f) /\ f.SeekPos # 0 /\ f.DocNum = e.DocNum
    BY <1>0, <2>1, <2>2, ExactedWeighs
  <2>4. \A g \in Elems(heap') : g = f \/ g \in Elems(heap)
    BY <2>1
  <2>5. UNCHANGED <<given, j, doctable, acc>> /\ AccDocs' = AccDocs /\ Room' = Room
    BY <2>1 DEF Same, Room
  <2>. QED BY <1>1, <1>2, <1>3, <1>5, <1>6, <2>1, <2>2, <2>3, <2>4, <2>5
<1>9. CASE TakeRoot
  <2>1. /\ at' = "take" /\ UNCHANGED <<given, j, doctable, acc>> /\ AccDocs' = AccDocs
        /\ Elems(heap') = Elems(heap) \ {heap[1]}
    BY <1>9, TakeEffect
  <2>2. Room' = Room
    BY <1>9, TakePlaces DEF Placed
  <2>. QED BY <1>1, <1>2, <1>3, <1>5, <1>6, <2>1, <2>2
<1>10. CASE Return
  <2>1. at' = "done" /\ Same /\ heap' = heap
    BY <1>10, ReturnEffect
  <2>. QED BY <1>1, <1>2, <1>3, <1>5, <1>6, <2>1 DEF Same, Room
<1>. QED BY <1>7, <1>8, <1>9, <1>10

LEMMA WeighKept ==
  ASSUME RankedInv, PlacesInv, TableKept, FillInv, TakeInv, WeighInv, RankedNext \/ UNCHANGED vars
  PROVE  WeighInv'
<1>1. CASE Accumulate
  BY <1>1, AccumAway DEF WeighInv, Weighed
<1>2. CASE UNCHANGED vars
  <2>1. /\ UNCHANGED <<at, given, rqi, j, doctable, acc, sup, heap, n, Docs>> /\ AccDocs' = AccDocs
        /\ AccSums' = AccSums /\ Room' = Room
    BY <1>2 DEF vars, accumvars, given, table, rankvars, AccDocs, AccSums, Room
  <2>2. /\ Sums' = Sums /\ Bounds' = Bounds /\ Cosines' = Cosines /\ Fetched' = Fetched
    BY <2>1, SumsSame
  <2>3. Weighed => Steady'
    BY <2>1, SteadyKept DEF WeighInv
  <2>4. Weighed => EntriesWeigh'
    BY <2>1, <2>2 DEF WeighInv, EntriesWeigh, Weighs
  <2>5. Weighed => RestWeighs'
    BY <2>1, <2>2 DEF WeighInv, RestWeighs, NoLighter
  <2>. QED BY <2>1, <2>3, <2>4, <2>5 DEF WeighInv, Weighed
<1>. QED BY <1>1, <1>2, FillWeighs, ScanWeighs, ScanDoneWeighs, ExactWeighs, TakingWeighs DEF RankedNext

-----------------------------------------------------------------------------
\* What is taken is the best.

Used == UsedOf(num, BackEnd, Room)
DocsTaken == {Docs[x].DocNum : x \in Used}

BestInv ==
  rqi.AccumMethod # "L" /\ at \in {"take", "done"} =>
    /\ InvfLevel # 3 => BackEnd = Room - 1
    /\ \A x \in Used : Docs[x].Weight = Measures[Docs[x].DocNum] /\ Docs[x].DocNum \in ScoredDocs
    /\ \A e \in Elems(heap) : e.DocNum \notin DocsTaken
    /\ ~(rqi.Exact /\ InvfLevel = 3) =>
         \A x \in DOMAIN acc : Outside(Elems(heap), x) /\ AccDocs[x] \notin DocsTaken =>
           /\ NoLighter(Measures[AccDocs[x]])
           /\ \A z \in Used : Measures[AccDocs[x]] <= Docs[z].Weight

LEMMA TurnBest ==
  ASSUME RankedInv, PlacesInv, TableKept, FillInv, WeighInv, TurnOver PROVE BestInv'
<1>. SUFFICES ASSUME rqi.AccumMethod # "L" PROVE BestInv'
  <2>1. rqi' = rqi
    BY DEF TurnOver, given
  <2>. QED BY <2>1 DEF BestInv
<1>1. /\ at \in {"sort", "exact"} /\ at' = "take" /\ Same
      /\ (at = "exact" => n = Len(acc) + 1) /\ num = 0
      /\ Room \in Nat /\ Elems(heap') = Elems(heap) /\ BackEnd' = Room - 1
  BY TurnEffect
<1>2. /\ UNCHANGED <<given, j, doctable, acc, Docs, num>> /\ AccDocs' = AccDocs /\ AccSums' = AccSums
      /\ Room' = Room
  BY <1>1 DEF Same, Room
<1>3. Measures' = Measures /\ rqi' = rqi /\ InvfLevel' = InvfLevel
  BY <1>2, SumsSame
<1>4. Used' = {}
  <2>. PICK R \in Nat : R = Room
    BY <1>1
  <2>1. 0 .. 0 - 1 = {} /\ (R - 1) + 1 .. R - 1 = {}
    OBVIOUS
  <2>. QED BY <1>1, <1>2, <2>1 DEF Used, UsedOf
<1>5. /\ EntriesWeigh /\ RestWeighs /\ acc \in Seq(Entries)
  BY <1>1 DEF WeighInv, Weighed, After, TableKept
<1>6. ASSUME ~(rqi.Exact /\ InvfLevel = 3), NEW x \in DOMAIN acc, Outside(Elems(heap), x)
      PROVE  NoLighter(Measures[AccDocs[x]])
  <2>1. CASE at = "sort"
    <3>1. ~rqi.Exact
      BY <1>5, <1>6, <2>1 DEF EntriesWeigh, Fetched
    <3>. QED BY <1>5, <1>6, <2>1, <3>1 DEF RestWeighs, Measures
  <2>2. CASE at = "exact"
    <3>1. rqi.Exact
      BY <1>5, <2>2 DEF EntriesWeigh, Fetched
    <3>2. x < n
      BY <1>1, <1>5, <2>2
    <3>. QED BY <1>5, <1>6, <2>2, <3>1, <3>2 DEF RestWeighs, Measures
  <2>. QED BY <1>1, <2>1, <2>2
<1>. QED BY <1>1, <1>2, <1>3, <1>4, <1>6 DEF BestInv, DocsTaken, NoLighter

LEMMA RootBest ==
  ASSUME RankedInv, PlacesInv, TableKept, WeighInv, BestInv, Make_Exact_Root PROVE BestInv'
<1>. SUFFICES ASSUME rqi.AccumMethod # "L" PROVE BestInv'
  <2>1. rqi' = rqi
    BY DEF Make_Exact_Root, given
  <2>. QED BY <2>1 DEF BestInv
<1>1. /\ at = "take" /\ at' = "take" /\ Same /\ UNCHANGED <<MaxDocs, BackEnd>>
      /\ rqi.Exact /\ heap[1] \in Elems(heap) /\ heap[1].SeekPos = 0
      /\ HeapOk(heap, "Greater", AccDocs)
      /\ Elems(heap') = (Elems(heap) \ {heap[1]}) \cup {Exacted(heap[1])}
  BY RootEffect
<1>2. /\ UNCHANGED <<given, j, doctable, acc, Docs, num, BackEnd>> /\ AccDocs' = AccDocs
      /\ Room' = Room
  BY <1>1 DEF Same, Room
<1>3. Measures' = Measures /\ rqi' = rqi /\ InvfLevel' = InvfLevel
  BY <1>2, SumsSame
<1>4. Used' = Used /\ DocsTaken' = DocsTaken /\ ScoredDocs' = ScoredDocs
  <2>1. Used' = Used
    BY <1>2 DEF Used
  <2>2. Sums' = Sums
    BY <1>2, SumsSame
  <2>. QED BY <1>2, <1>3, <2>1, <2>2 DEF DocsTaken, ScoredDocs
<1>5. InvfLevel = 3
  <2>1. Fetched => heap[1].SeekPos # 0
    BY <1>1 DEF WeighInv, Weighed, EntriesWeigh, After
  <2>. QED BY <1>1, <2>1 DEF Fetched
<1>6. \A e \in Elems(heap') : e.DocNum \notin DocsTaken
  <2>0. "Greater" \in Senses /\ RankedTypes /\ doctable \in DocTables
    BY DEF Senses, RankedInv, PlacesInv
  <2>. PICK e \in Items : e = heap[1]
    BY <1>1, <2>0, RootOf
  <2>. PICK f : f = Exacted(e)
    OBVIOUS
  <2>1. f.DocNum = e.DocNum
    BY <2>0, ExactedIs
  <2>2. \A g \in Elems(heap) : g.DocNum \notin DocsTaken
    BY <1>1 DEF BestInv
  <2>. QED BY <1>1, <2>1, <2>2
<1>. QED BY <1>1, <1>2, <1>3, <1>4, <1>5, <1>6 DEF BestInv

LEMMA TakeBest ==
  ASSUME RankedInv, PlacesInv, TableKept, TakeInv, WeighInv, BestInv, TakeRoot PROVE BestInv'
<1>. SUFFICES ASSUME rqi.AccumMethod # "L" PROVE BestInv'
  <2>1. rqi' = rqi
    BY DEF TakeRoot, given
  <2>. QED BY <2>1 DEF BestInv
<1>1. /\ at = "take" /\ at' = "take" /\ UNCHANGED <<given, j, doctable, acc>> /\ AccDocs' = AccDocs
      /\ heap[1] \in Elems(heap) /\ (rqi.Exact => heap[1].SeekPos # 0)
      /\ HeapOk(heap, "Greater", AccDocs)
      /\ Elems(heap') = Elems(heap) \ {heap[1]}
  BY TakeEffect
<1>2. /\ "Greater" \in Senses /\ RankedTypes /\ doctable \in DocTables /\ Steady /\ EntriesWeigh
      /\ AccDocs \in [DOMAIN acc -> 1 .. NumDocs]
  BY <1>1 DEF Senses, RankedInv, PlacesInv, WeighInv, Weighed, TableKept, After
<1>. PICK place : Placed(place)
  BY TakePlaces
<1>3. /\ place \in num .. BackEnd /\ Room' = Room
      /\ num \in Nat /\ BackEnd \in Nat /\ BackEnd < Room /\ Room \in Nat
      /\ \A y \in Used : SameSlot(Docs'[y], Docs[y])
      /\ Used' = Used \cup {place}
      /\ Docs'[place].DocNum = heap[1].DocNum /\ Docs'[place].Weight = heap[1].Weight
      /\ \/ BackEnd' = BackEnd
         \/ \E y \in 0 .. num - 1 : Docs[y].SeekPos = doctable[heap[1].DocNum].SeekPos
  BY DEF Placed, Used
<1>4. Measures' = Measures /\ rqi' = rqi /\ InvfLevel' = InvfLevel /\ ScoredDocs' = ScoredDocs
  <2>1. Sums' = Sums /\ Measures' = Measures /\ rqi' = rqi /\ InvfLevel' = InvfLevel
    BY <1>1, SumsSame
  <2>. QED BY <1>1, <2>1 DEF ScoredDocs
<1>. PICK e \in Items : e = heap[1]
  BY <1>1, <1>2, RootOf
<1>. PICK d \in 1 .. NumDocs : d = e.DocNum
  BY DEF Items
<1>. PICK x0 \in DOMAIN acc : x0 = e.OrgWeight /\ d = AccDocs[x0]
  <2>1. e.OrgWeight \in DOMAIN AccDocs /\ e.DocNum = AccDocs[e.OrgWeight]
    BY <1>1 DEF HeapOk
  <2>. QED BY <1>2, <2>1
<1>5. e.Weight = Measures[d] /\ e.Weight \in Nat
  <2>1. Weighs(e)
    BY <1>1, <1>2 DEF EntriesWeigh
  <2>. QED BY <1>1, <1>2, <2>1, WeighsMeans
<1>6. d \in ScoredDocs
  <2>1. rqi.AccumMethod = "A" => Sums[d] # 0
    BY <1>1, <1>2 DEF EntriesWeigh
  <2>2. x0 \in DOMAIN AccDocs
    BY <1>2
  <2>. QED BY <2>1, <2>2 DEF ScoredDocs
<1>7. /\ \A x \in Used : Docs[x].Weight = Measures[Docs[x].DocNum] /\ Docs[x].DocNum \in ScoredDocs
      /\ \A g \in Elems(heap) : g.DocNum \notin DocsTaken
      /\ InvfLevel # 3 => BackEnd = Room - 1
  BY <1>1 DEF BestInv
<1>8. \A x \in Used : Docs'[x].DocNum = Docs[x].DocNum /\ Docs'[x].Weight = Docs[x].Weight
  BY <1>3 DEF SameSlot
<1>9. DocsTaken' = DocsTaken \cup {d}
  BY <1>3, <1>8 DEF DocsTaken
<1>10. \A x \in Used' : Docs'[x].Weight = Measures[Docs'[x].DocNum] /\ Docs'[x].DocNum \in ScoredDocs
  BY <1>3, <1>5, <1>6, <1>7, <1>8
<1>11. ASSUME NEW g \in Elems(heap') PROVE g.DocNum # d /\ g.DocNum \notin DocsTaken
  <2>1. g \in Elems(heap) /\ g # e
    BY <1>1, <1>11
  <2>2. g.OrgWeight # e.OrgWeight
    BY <1>1, <1>2, <2>1, RootOf
  <2>3. g.OrgWeight \in DOMAIN AccDocs /\ g.DocNum = AccDocs[g.OrgWeight]
    BY <1>1, <2>1 DEF HeapOk
  <2>4. g.DocNum # d
    BY <1>2, <2>2, <2>3 DEF Steady, Apart
  <2>. QED BY <1>7, <2>1, <2>4
<1>12. ASSUME InvfLevel # 3 PROVE BackEnd' = Room - 1
  <2>1. SUFFICES ASSUME NEW y \in 0 .. num - 1, Docs[y].SeekPos = doctable[d].SeekPos PROVE FALSE
    BY <1>3, <1>7, <1>12
  <2>2. y \in Used
    BY DEF Used, UsedOf
  <2>3. SlotRight(Docs[y])
    BY <1>1, <2>2 DEF TakeInv, Used
  <2>4. Docs[y].DocNum = d
    BY <1>12, <2>1, <2>3 DEF SlotRight, PlacesInv
  <2>5. d \in DocsTaken
    BY <2>2, <2>4 DEF DocsTaken
  <2>. QED BY <1>1, <1>7, <2>5
<1>13. ASSUME ~(rqi.Exact /\ InvfLevel = 3), NEW x \in DOMAIN acc, Outside(Elems(heap'), x), AccDocs[x] \notin DocsTaken'
       PROVE  /\ \A g \in Elems(heap') : Measures[AccDocs[x]] <= g.Weight
              /\ \A z \in Used' : Measures[AccDocs[x]] <= Docs'[z].Weight
  <2>1. AccDocs[x] # d /\ AccDocs[x] \notin DocsTaken
    BY <1>9, <1>13
  <2>2. x # e.OrgWeight
    BY <2>1
  <2>3. Outside(Elems(heap), x)
    BY <1>1, <1>13, <2>2 DEF Outside
  <2>4. NoLighter(Measures[AccDocs[x]]) /\ \A z \in Used : Measures[AccDocs[x]] <= Docs[z].Weight
    BY <1>1, <1>13, <2>1, <2>3 DEF BestInv
  <2>5. Measures[AccDocs[x]] <= e.Weight
    BY <1>1, <2>4 DEF NoLighter
  <2>. QED BY <1>1, <1>3, <1>8, <2>4, <2>5 DEF NoLighter
<1>. QED BY <1>1, <1>3, <1>4, <1>9, <1>10, <1>11, <1>12, <1>13 DEF BestInv, NoLighter

LEMMA BestKept ==
  ASSUME RankedInv, PlacesInv, TableKept, FillInv, TakeInv, WeighInv, BestInv, RankedNext \/ UNCHANGED vars
  PROVE  BestInv'
<1>1. CASE Accumulate \/ FillHeap \/ ScanEntry \/ ScanDone \/ ExactEntry
  <2>1. at' \notin {"take", "done"}
    <3>1. CASE Accumulate
      BY <3>1, AccumAway DEF After
    <3>2. CASE FillHeap \/ ScanEntry \/ ScanDone \/ ExactEntry
      BY <3>2 DEF FillHeap, ScanEntry, ScanDone, ExactEntry
    <3>. QED BY <1>1, <3>1, <3>2
  <2>. QED BY <2>1 DEF BestInv
<1>2. ASSUME /\ UNCHANGED <<given, j, doctable, acc, heap, Docs, num, BackEnd>> /\ AccDocs' = AccDocs /\ Room' = Room,
             at' \in {"take", "done"} => at \in {"take", "done"}
      PROVE  BestInv'
  <2>1. Sums' = Sums /\ Measures' = Measures /\ rqi' = rqi /\ InvfLevel' = InvfLevel
    BY <1>2, SumsSame
  <2>2. ScoredDocs' = ScoredDocs /\ Used' = Used
    BY <1>2, <2>1 DEF ScoredDocs, Used
  <2>3. DocsTaken' = DocsTaken
    BY <1>2, <2>2 DEF DocsTaken
  <2>. QED BY <1>2, <2>1, <2>2, <2>3 DEF BestInv, NoLighter
<1>3. CASE Return
  <2>1. /\ at = "take" /\ Same /\ UNCHANGED <<heap, BackEnd>>
    BY <1>3, ReturnEffect
  <2>2. /\ UNCHANGED <<given, j, doctable, acc, heap, Docs, num, BackEnd>> /\ AccDocs' = AccDocs /\ Room' = Room
    BY <2>1 DEF Same, Room
  <2>. QED BY <1>2, <2>1, <2>2
<1>4. CASE UNCHANGED vars
  <2>1. /\ UNCHANGED <<given, j, doctable, acc, heap, Docs, num, BackEnd>> /\ AccDocs' = AccDocs /\ Room' = Room
        /\ at' = at
    BY <1>4 DEF vars, accumvars, table, rankvars, AccDocs, Room
  <2>. QED BY <1>2, <2>1
<1>. QED BY <1>1, <1>3, <1>4, TurnBest, RootBest, TakeBest DEF RankedNext

-----------------------------------------------------------------------------
\* The chain of a document has its paragraphs.

Follow(D, y) == IF y = -1 THEN -1 ELSE D[y].Next
Follows(D, x, K) ==
  LET link[m \in 0 .. K] == IF m = 0 THEN x ELSE Follow(D, link[m - 1])
  IN link

Closed(D, S) == \A y \in S : Follow(D, y) \in S

LEMMA FollowsIs ==
  ASSUME NEW D, NEW S, NEW K \in Nat, NEW x \in S, Closed(D, S)
  PROVE  /\ DOMAIN Follows(D, x, K) = 0 .. K /\ Follows(D, x, K)[0] = x
         /\ \A m \in 1 .. K : Follows(D, x, K)[m] = Follow(D, Follows(D, x, K)[m - 1])
<1>. DEFINE Q(g) == g = [m \in 0 .. K |-> IF m = 0 THEN x ELSE Follow(D, g[m - 1])]
            C == [a \in S \X (1 .. K) |-> Follow(D, a[1])]
<1>1. Follows(D, x, K) = CHOOSE g : Q(g)
  BY DEF Follows
<1>2. C \in [S \X (1 .. K) -> S]
  BY DEF Closed
<1>3. PICK g \in [0 .. K -> S] : RecursUpTo(g, K, x, C)
  <2>. HIDE DEF C
  <2>. QED BY <1>2, RecursionUpTo, Zenon
<1>4. Q(g)
  <2>1. ASSUME NEW m \in 0 .. K PROVE g[m] = IF m = 0 THEN x ELSE Follow(D, g[m - 1])
    <3>1. CASE m = 0
      BY <1>3, <3>1 DEF RecursUpTo
    <3>2. CASE m # 0
      <4>1. m - 1 \in 0 .. K /\ m \in 1 .. K
        BY <3>2
      <4>2. <<g[m - 1], m>> \in S \X (1 .. K)
        BY <4>1
      <4>3. C[<<g[m - 1], m>>] = Follow(D, g[m - 1])
        BY <4>2
      <4>4. g[m] = C[<<g[m - 1], m>>]
        <5>. HIDE DEF C
        <5>. QED BY <1>3, <3>2 DEF RecursUpTo
      <4>. QED BY <3>2, <4>3, <4>4
    <3>. QED BY <3>1, <3>2
  <2>. QED BY <2>1
<1>5. PICK t : t = CHOOSE f : Q(f)
  OBVIOUS
<1>6. Q(t)
  <2>. HIDE DEF Q
  <2>. QED BY <1>4, <1>5
<1>7. DOMAIN t = 0 .. K /\ t[0] = x /\ \A m \in 1 .. K : t[m] = Follow(D, t[m - 1])
  <2>1. DOMAIN t = 0 .. K /\ \A m \in 0 .. K : t[m] = IF m = 0 THEN x ELSE Follow(D, t[m - 1])
    BY <1>6
  <2>2. 0 \in 0 .. K /\ \A m \in 1 .. K : m \in 0 .. K /\ m # 0
    OBVIOUS
  <2>. QED BY <2>1, <2>2
<1>. HIDE DEF Q
<1>. QED BY <1>1, <1>5, <1>7

Links(g, K) == {g[m] : m \in 0 .. K}
Alike(D, N, E, R, x) == {y \in UsedOf(N, E, R) : D[y].SeekPos = D[x].SeekPos}

LEMMA ChainRight ==
  ASSUME NEW N \in Nat, NEW E \in Int, NEW R \in Nat, N <= E + 1, E < R, NEW D, Laid(D, N, E, R),
         NEW x \in 0 .. N - 1, NEW K \in Nat, K = N + ((R - 1) - E),
         NEW g, g[0] = x, \A m \in 1 .. K : g[m] = Follow(D, g[m - 1])
  PROVE  Links(g, K) \ {-1} = Alike(D, N, E, R, x)
<1>. PICK C : C = Alike(D, N, E, R, x)
  OBVIOUS
<1>1. /\ \A y \in C : y \in Nat /\ y < R /\ D[y].SeekPos = D[x].SeekPos /\ Chained(D, E, R, y) /\ y >= x
      /\ \A y \in C : y # x => y \in E + 1 .. R - 1
      /\ \A y \in E + 1 .. R - 1 : D[y].SeekPos = D[x].SeekPos => y \in C
      /\ x \in C
  <2>1. ASSUME NEW y \in C PROVE /\ y \in Nat /\ y < R /\ Chained(D, E, R, y) /\ y >= x
                                 /\ (y # x => y \in E + 1 .. R - 1)
    <3>1. y \in UsedOf(N, E, R) /\ D[y].SeekPos = D[x].SeekPos
      BY DEF Alike
    <3>2. Chained(D, E, R, y)
      BY <3>1 DEF Laid
    <3>3. CASE y \in 0 .. N - 1
      <4>1. ~(y < x) /\ ~(x < y)
        BY <3>1, <3>3 DEF Laid
      <4>. QED BY <3>2, <3>3, <4>1
    <3>4. CASE y \in E + 1 .. R - 1
      BY <3>2, <3>4
    <3>. QED BY <3>1, <3>3, <3>4 DEF UsedOf
  <2>2. \A y \in C : D[y].SeekPos = D[x].SeekPos
    BY DEF Alike
  <2>3. \A y \in E + 1 .. R - 1 : D[y].SeekPos = D[x].SeekPos => y \in C
    BY DEF Alike, UsedOf
  <2>4. x \in C
    BY DEF Alike, UsedOf
  <2>. QED BY <2>1, <2>2, <2>3, <2>4
\* The one after y, and what is not behind it.
<1>2. ASSUME NEW y \in C
      PROVE  LET z == Follow(D, y)
             IN \/ z = -1 /\ \A a \in C : a <= y
                \/ z \in C /\ z > y /\ z > E /\ \A a \in C : a <= y \/ a >= z
  <2>1. y \in Nat /\ Follow(D, y) = D[y].Next /\ y >= x /\ D[y].SeekPos = D[x].SeekPos
    <3>1. y # -1
      BY <1>1
    <3>. QED BY <1>1, <3>1 DEF Follow
  <2>2. CASE D[y].Next = -1 /\ \A a \in E + 1 .. R - 1 : a > y => D[a].SeekPos # D[y].SeekPos
    <3>1. ASSUME NEW a \in C PROVE a <= y
      <4>1. a = x \/ a \in E + 1 .. R - 1
        BY <1>1
      <4>. QED BY <1>1, <2>1, <2>2, <4>1
    <3>. QED BY <2>1, <2>2, <3>1
  <2>3. CASE /\ D[y].Next \in E + 1 .. R - 1 /\ D[y].Next > y /\ D[D[y].Next].SeekPos = D[y].SeekPos
             /\ \A a \in E + 1 .. R - 1 : a > y /\ D[a].SeekPos = D[y].SeekPos => D[y].Next <= a
    <3>. PICK z \in E + 1 .. R - 1 : z = D[y].Next
      BY <2>3
    <3>1. z \in C /\ z > y /\ z > E
      BY <1>1, <2>1, <2>3
    <3>2. ASSUME NEW a \in C PROVE a <= y \/ a >= z
      <4>1. a = x \/ a \in E + 1 .. R - 1
        BY <1>1
      <4>. QED BY <1>1, <2>1, <2>3, <4>1
    <3>. QED BY <2>1, <3>1, <3>2
  <2>4. Chained(D, E, R, y)
    BY <1>1
  <2>. QED BY <2>2, <2>3, <2>4 DEF Chained
<1>. DEFINE Far(m) == g[m] = -1 \/ (g[m] \in C /\ (m # 0 => g[m] >= E + m))
            Seen(m) == \A a \in C : g[m] = -1 \/ a <= g[m] => \E b \in 0 .. m : g[b] = a
            T == {m \in Nat : m <= K => Far(m) /\ Seen(m)}
<1>3. 0 \in T
  <2>1. Far(0)
    BY <1>1
  <2>2. ASSUME NEW a \in C, a <= g[0] PROVE a = g[0]
    BY <1>1, <2>2
  <2>3. g[0] # -1 /\ 0 \in 0 .. 0
    OBVIOUS
  <2>. QED BY <2>1, <2>2, <2>3
<1>4. ASSUME NEW m \in Nat, m \in T PROVE m + 1 \in T
  <2>. SUFFICES ASSUME m + 1 <= K PROVE Far(m + 1) /\ Seen(m + 1)
    OBVIOUS
  <2>1. Far(m) /\ Seen(m) /\ g[m + 1] = Follow(D, g[m]) /\ m + 1 # 0
    <3>1. m + 1 \in 1 .. K /\ (m + 1) - 1 = m /\ m <= K
      OBVIOUS
    <3>2. g[m + 1] = Follow(D, g[(m + 1) - 1])
      BY <3>1
    <3>. QED BY <1>4, <3>1, <3>2
  <2>2. \A b \in 0 .. m : b \in 0 .. m + 1
    OBVIOUS
  <2>3. m + 1 \in 0 .. m + 1
    OBVIOUS
  <2>4. CASE g[m] = -1
    <3>1. g[m + 1] = -1
      BY <2>1, <2>4 DEF Follow
    <3>2. \A a \in C : \E b \in 0 .. m : g[b] = a
      BY <2>1, <2>4
    <3>. QED BY <2>2, <3>1, <3>2
  <2>5. CASE g[m] # -1
    <3>. PICK y \in C : y = g[m]
      BY <2>1, <2>5
    <3>. PICK z : z = g[m + 1]
      OBVIOUS
    <3>1. \/ z = -1 /\ \A a \in C : a <= y
          \/ z \in C /\ z > y /\ z > E /\ \A a \in C : a <= y \/ a >= z
      BY <1>2, <2>1
    <3>2. CASE z = -1 /\ \A a \in C : a <= y
      <4>1. \A a \in C : \E b \in 0 .. m : g[b] = a
        BY <2>1, <3>2
      <4>. QED BY <2>2, <3>2, <4>1
    <3>3. CASE z \in C /\ z > y /\ z > E /\ \A a \in C : a <= y \/ a >= z
      <4>1. z >= E + (m + 1)
        <5>1. z \in Nat /\ y \in Nat
          BY <1>1, <3>3
        <5>2. CASE m = 0
          BY <3>3, <5>1, <5>2
        <5>3. CASE m # 0
          <6>1. y >= E + m
            BY <2>1, <5>1, <5>3
          <6>. QED BY <3>3, <5>1, <6>1
        <5>. QED BY <5>2, <5>3
      <4>2. ASSUME NEW a \in C, a <= z PROVE \E b \in 0 .. m + 1 : g[b] = a
        <5>1. a \in Nat /\ z \in Nat /\ (a <= y \/ a >= z)
          BY <1>1, <3>3
        <5>2. CASE a <= y
          BY <2>1, <2>2, <5>2
        <5>3. CASE a >= z
          <6>1. a = z
            BY <4>2, <5>1, <5>3
          <6>. QED BY <2>3, <6>1
        <5>. QED BY <5>1, <5>2, <5>3
      <4>3. z # -1
        BY <1>1, <3>3
      <4>. QED BY <3>3, <4>1, <4>2, <4>3
    <3>. QED BY <3>1, <3>2, <3>3
  <2>. QED BY <2>4, <2>5
<1>5. \A m \in Nat : m \in T
  <2>. HIDE DEF T
  <2>. QED BY <1>3, <1>4, SetInduction
<1>6. \A m \in 0 .. K : Far(m) /\ Seen(m)
  <2>. TAKE m \in 0 .. K
  <2>1. m \in Nat /\ m <= K /\ m \in T
    BY <1>5
  <2>. QED BY <2>1
<1>7. g[K] = -1
  <2>. SUFFICES ASSUME g[K] # -1 PROVE FALSE
    OBVIOUS
  <2>1. K # 0 /\ K \in 0 .. K
    OBVIOUS
  <2>2. g[K] \in C /\ g[K] >= E + K
    BY <1>6, <2>1
  <2>3. g[K] \in Nat /\ g[K] < R
    BY <1>1, <2>2
  <2>. PICK c \in Nat : c = g[K]
    BY <2>3
  <2>4. c >= E + (N + ((R - 1) - E)) /\ c < R /\ N >= 1
    BY <2>2, <2>3
  <2>. QED BY <2>4
<1>8. \A a \in C : a \in Links(g, K)
  <2>1. K \in 0 .. K
    OBVIOUS
  <2>. QED BY <1>6, <1>7, <2>1 DEF Links
<1>9. \A m \in 0 .. K : g[m] = -1 \/ g[m] \in C
  BY <1>6
<1>10. -1 \notin C
  BY <1>1
<1>. QED BY <1>8, <1>9, <1>10 DEF Links

-----------------------------------------------------------------------------
\* What the invariant says of what is returned.

RankingInv ==
  RankedInv /\ PlacesInv /\ TableKept /\ FillInv /\ TakeInv /\ WeighInv /\ BestInv

LEMMA RankingStep == RankingInv /\ [RankedNext]_vars => RankingInv'
<1>. SUFFICES ASSUME RankingInv, RankedNext \/ UNCHANGED vars PROVE RankingInv'
  OBVIOUS
<1>1. RankedInv /\ PlacesInv /\ TableKept /\ FillInv /\ TakeInv /\ WeighInv /\ BestInv
  BY DEF RankingInv
<1>2. RankedInv'
  BY <1>1, RankedStep
<1>3. PlacesInv' /\ TableKept' /\ FillInv'
  BY <1>1, PlacesKept, TableIsKept, FillKept
<1>4. TakeInv' /\ WeighInv' /\ BestInv'
  BY <1>1, TakeKept, WeighKept, BestKept
<1>. QED BY <1>2, <1>3, <1>4 DEF RankingInv

LEMMA InitRanking == Init => RankingInv
<1>. SUFFICES ASSUME Init PROVE RankingInv
  OBVIOUS
<1>1. RankedInv
  BY InitRanked
<1>2. /\ at = "term" /\ doctable \in DocTables /\ order = "Lesser" /\ num = 0
      /\ InvfLevel # 3 =>
           \A d, e \in 1 .. NumDocs : doctable[d].SeekPos = doctable[e].SeekPos => d = e
  BY DEF Init, AccumInit
<1>3. at \notin After /\ at \notin {"take", "done"}
  BY <1>2 DEF After
<1>. QED BY <1>1, <1>2, <1>3 DEF RankingInv, PlacesInv, TableKept, FillInv, TakeInv, WeighInv,
                                 Weighed, BestInv, After

\* The places that are taken.
LEMMA TakenIs ==
  ASSUME RankingInv, at \in {"take", "done"}
  PROVE  /\ Taken = Used /\ Room \in Nat /\ Laid(Docs, num, BackEnd, Room)
         /\ DOMAIN Docs = 0 .. Room - 1
         /\ num \in Nat /\ BackEnd \in Int /\ BackEnd < Room
         /\ Len(heap) \in Nat /\ num + Len(heap) = BackEnd + 1
         /\ \A x \in Used : SlotRight(Docs[x]) /\ Docs[x].Weight \in Nat /\ x \in 0 .. Room - 1
<1>1. /\ Room \in Nat /\ Laid(Docs, num, BackEnd, Room) /\ DOMAIN Docs = 0 .. Room - 1
      /\ num \in Nat /\ BackEnd \in Int /\ BackEnd < Room /\ num + Len(heap) = BackEnd + 1
      /\ \A x \in Used : SlotRight(Docs[x])
      /\ HeapOk(heap, "Greater", AccDocs)
  BY DEF RankingInv, TakeInv, TableKept, PlacesInv, After, Used
<1>2. Len(heap) \in Nat
  <2>1. "Greater" \in Senses
    BY DEF Senses
  <2>. QED BY <1>1, <2>1, RootOf
<1>. PICK N \in Nat : N = num
  BY <1>1
<1>. PICK E \in Int : E = BackEnd
  BY <1>1
<1>. PICK R \in Nat : R = Room
  BY <1>1
<1>. PICK L \in Nat : L = Len(heap)
  BY <1>2
<1>3. E < R /\ N + L = E + 1 /\ Used = UsedOf(N, E, R)
  BY <1>1 DEF Used
<1>4. \A x \in Used : x \in 0 .. R - 1
  BY <1>3 DEF UsedOf
<1>5. \A x \in 0 .. R - 1 : x \in Used \/ x \in N .. E
  BY <1>3 DEF UsedOf
<1>6. \A x \in N .. E : Docs[x].DocNum = 0
  BY <1>1 DEF Laid, Unused
<1>7. \A x \in Used : Docs[x].DocNum # 0
  BY <1>1 DEF SlotRight
<1>8. Taken = Used
  BY <1>1, <1>4, <1>5, <1>6, <1>7 DEF Taken
<1>9. \A x \in Used : Docs[x].Weight \in Nat
  <2>. TAKE x \in Used
  <2>1. Docs[x] \in Slots
    BY <1>1, <1>4 DEF Laid
  <2>. QED BY <2>1 DEF Slots
<1>. QED BY <1>1, <1>2, <1>4, <1>8, <1>9

LEMMA CosinesAre ==
  ASSUME RankingInv, NEW d \in 1 .. NumDocs PROVE Cosine(d) = Measures[d] /\ CosineSum(d - 1, j - 1) = Sums[d]
<1>1. Terms \in Queries /\ j - 1 \in 0 .. Len(Terms)
  BY QueryFacts DEF RankingInv, RankedInv, RankedTypes
<1>2. d - 1 \in Nat
  OBVIOUS
<1>3. CosineSum(d - 1, j - 1) = Whole(Terms, InvfLevel, d - 1, j - 1)
  BY <1>1, <1>2, TermsAre
<1>4. Sums[d] = Whole(Terms, InvfLevel, d - 1, j - 1)
  BY DEF Sums
<1>. QED BY <1>3, <1>4 DEF Cosine, Measures, Cosines, Bounds, Approx

LEMMA InvCosine == RankingInv => WeightsAreCosine
<1>. SUFFICES ASSUME RankingInv, at = "done", rqi.AccumMethod # "L", NEW x \in Taken
              PROVE  Docs[x].Weight = Cosine(Docs[x].DocNum)
  BY DEF WeightsAreCosine
<1>1. x \in Used /\ Docs[x].DocNum \in 1 .. NumDocs
  BY TakenIs DEF SlotRight
<1>2. Docs[x].Weight = Measures[Docs[x].DocNum]
  BY <1>1 DEF RankingInv, BestInv
<1>. QED BY <1>1, <1>2, CosinesAre

LEMMA InvHeaviest == RankingInv => HeaviestFirst
<1>. SUFFICES ASSUME RankingInv PROVE HeaviestFirst
  OBVIOUS
<1>1. CASE at \notin {"take", "done"}
  <2>1. num = 0
    BY <1>1 DEF RankingInv, PlacesInv
  <2>2. 0 .. 0 - 1 = {}
    OBVIOUS
  <2>. QED BY <2>1, <2>2 DEF HeaviestFirst
<1>2. CASE at \in {"take", "done"}
  <2>1. \A x, y \in 0 .. num - 1 : x < y => Docs[x].SeekPos # Docs[y].SeekPos /\ Docs[x].Weight >= Docs[y].Weight
    BY <1>2, TakenIs DEF Laid
  <2>2. ASSUME NEW x \in 0 .. num - 1, NEW y \in Taken, Docs[y].SeekPos = Docs[x].SeekPos
        PROVE  Docs[x].Weight >= Docs[y].Weight
    <3>. PICK N \in Nat : N = num
      BY <1>2, TakenIs
    <3>1. y \in Used /\ Docs[y].Weight \in Nat
      BY <1>2, TakenIs
    <3>2. \A z \in 0 .. num - 1 : Docs[z].SeekPos = Docs[x].SeekPos => z = x
      <4>. TAKE z \in 0 .. num - 1
      <4>1. z < x \/ x < z \/ z = x
        OBVIOUS
      <4>. QED BY <2>1, <4>1
    <3>3. CASE y \in 0 .. num - 1
      BY <2>2, <3>1, <3>2, <3>3
    <3>4. CASE y \in BackEnd + 1 .. Room - 1
      <4>1. PICK z \in 0 .. num - 1 : Docs[z].SeekPos = Docs[y].SeekPos /\ Docs[z].Weight >= Docs[y].Weight
        BY <1>2, <3>4, TakenIs DEF Laid
      <4>. QED BY <2>2, <3>2, <4>1
    <3>. QED BY <3>1, <3>3, <3>4 DEF Used, UsedOf
  <2>. QED BY <2>1, <2>2 DEF HeaviestFirst
<1>. QED BY <1>1, <1>2

LEMMA InvNoneBetter == RankingInv => NoneBetterLeftOut
<1>. SUFFICES ASSUME RankingInv, at = "done", rqi.AccumMethod # "L"
              PROVE  /\ TakenDocs \subseteq Scored
                     /\ InvfLevel # 3 => num = AtMost(rqi.MaxDocsToRetrieve, Cardinality(Scored))
                     /\ \A d \in Compared \ TakenDocs, e \in TakenDocs : Cosine(d) <= Cosine(e)
  BY DEF NoneBetterLeftOut
<1>1. /\ RankedInv /\ RankedTypes /\ doctable \in DocTables /\ Steady /\ EntriesWeigh /\ BestInv /\ TakeInv
      /\ acc \in Seq(Entries) /\ AccDocs \in [DOMAIN acc -> 1 .. NumDocs]
      /\ HeapOk(heap, "Greater", AccDocs) /\ "Greater" \in Senses
  BY DEF RankingInv, RankedInv, PlacesInv, WeighInv, Weighed, After, TableKept, Senses
<1>2. TakenDocs = DocsTaken
  BY TakenIs DEF TakenDocs, DocsTaken
<1>3. Scored = ScoredDocs
  <2>1. \A d \in 1 .. NumDocs : CosineSum(d - 1, j - 1) = Sums[d]
    BY CosinesAre
  <2>2. CASE rqi.AccumMethod = "A"
    BY <2>1, <2>2 DEF Scored, ScoredDocs
  <2>3. CASE rqi.AccumMethod # "A"
    <3>1. InTable = Numbers(acc)
      <4>1. InTable = Numbers(acc) \cup Numbers(sup)
        BY <1>1, TermsAre DEF RankedTypes
      <4>2. DOMAIN sup = {}
        BY <1>1 DEF Steady
      <4>. QED BY <4>1, <4>2 DEF Numbers
    <3>2. \A x \in DOMAIN acc : AccDocs[x] - 1 = acc[x].DocNum /\ AccDocs[x] \in 1 .. NumDocs
      <4>. TAKE x \in DOMAIN acc
      <4>1. AccDocs[x] = acc[x].DocNum + 1 /\ acc[x].DocNum \in Nat
        BY <1>1, AccFacts
      <4>. PICK a \in Nat : a = acc[x].DocNum
        BY <4>1
      <4>2. AccDocs[x] = a + 1
        BY <4>1
      <4>3. (a + 1) - 1 = a
        OBVIOUS
      <4>. QED BY <1>1, <4>2, <4>3
    <3>3. ASSUME NEW d \in 1 .. NumDocs PROVE d - 1 \in Numbers(acc) <=> d \in ScoredDocs
      <4>1. d \in ScoredDocs <=> \E x \in DOMAIN acc : AccDocs[x] = d
        BY <1>1, <2>3 DEF ScoredDocs
      <4>2. \A x \in DOMAIN acc : acc[x].DocNum = d - 1 <=> AccDocs[x] = d
        <5>. TAKE x \in DOMAIN acc
        <5>. PICK b \in 1 .. NumDocs : b = AccDocs[x]
          BY <1>1
        <5>1. acc[x].DocNum = b - 1
          BY <3>2
        <5>2. b - 1 = d - 1 <=> b = d
          OBVIOUS
        <5>. QED BY <5>1, <5>2
      <4>. QED BY <4>1, <4>2 DEF Numbers
    <3>4. ScoredDocs \subseteq 1 .. NumDocs
      BY <1>1, <2>3 DEF ScoredDocs
    <3>. QED BY <2>3, <3>1, <3>3, <3>4 DEF Scored
  <2>. QED BY <2>2, <2>3
<1>4. DocsTaken \subseteq ScoredDocs
  BY <1>1 DEF BestInv, DocsTaken
<1>5. ASSUME InvfLevel # 3 PROVE num = AtMost(rqi.MaxDocsToRetrieve, Cardinality(Scored))
  <2>. PICK limit \in (Nat \ {0}) \cup {-1} : limit = rqi.MaxDocsToRetrieve /\ limit = MaxParasToRetrieve
    BY <1>1, <1>5, LimitsAre
  <2>. PICK c : c = Cardinality(ScoredDocs)
    OBVIOUS
  <2>1. c \in Nat
    <3>1. IsFiniteSet(ScoredDocs)
      <4>1. ScoredDocs \in SUBSET (1 .. NumDocs)
        BY <1>1 DEF ScoredDocs
      <4>2. 1 \in Int /\ NumDocs \in Int
        BY RankedConstants
      <4>3. IsFiniteSet(1 .. NumDocs)
        BY ONLY <4>2, FS_Interval
      <4>. QED BY ONLY <4>1, <4>3, FS_Subset
    <3>. QED BY <3>1, FS_CardinalityType
  <2>2. Room = AtMost(limit, c) /\ MaxDocs = AtMost(limit, Room)
    BY <1>1 DEF Steady, TakeInv
  <2>3. MaxDocs = Room
    BY <2>1, <2>2, AtMostIs
  <2>4. BackEnd = Room - 1 /\ Room \in Nat /\ num \in Nat /\ num + Len(heap) = BackEnd + 1
    BY <1>1, <1>5, TakenIs DEF BestInv
  <2>5. heap = <<>> \/ num = MaxDocs
    BY <1>1 DEF TakeInv
  <2>6. num = Room
    <3>1. CASE heap = <<>>
      <4>1. Len(heap) = 0
        BY <3>1
      <4>. QED BY <2>4, <4>1
    <3>. QED BY <2>3, <2>5, <3>1
  <2>. QED BY <1>3, <2>2, <2>6
<1>6. ASSUME NEW e \in Elems(heap), NEW z \in Used
      PROVE  /\ e.DocNum \in 1 .. NumDocs
             /\ Measures[e.DocNum] <= Docs[z].Weight
  <2>1. e \in Items /\ e.Weight <= Docs[z].Weight /\ Weighs(e)
    BY <1>1, RootOf DEF TakeInv, Used, EntriesWeigh
  <2>2. e.DocNum \in 1 .. NumDocs /\ e.Weight \in Nat
    BY <2>1 DEF Items
  <2>. PICK d \in 1 .. NumDocs : d = e.DocNum
    BY <2>2
  <2>3. Measures[d] \in Nat /\ Measures[d] <= Bounds[d] /\ Docs[z].Weight \in Nat
    BY <1>1, WeightFacts, TakenIs
  <2>4. Measures[d] <= e.Weight
    <3>1. CASE e.SeekPos # 0
      BY <2>1, <2>2, <2>3, <3>1 DEF Weighs, Measures
    <3>2. CASE e.SeekPos = 0
      BY <2>1, <2>3, <3>2 DEF Weighs
    <3>. QED BY <3>1, <3>2
  <2>. QED BY <2>1, <2>2, <2>3, <2>4
<1>7. ASSUME NEW d \in Compared \ TakenDocs, NEW z \in Used PROVE d \in 1 .. NumDocs /\ Measures[d] <= Docs[z].Weight
  <2>1. CASE rqi.Exact /\ InvfLevel = 3
    <3>1. \E e \in Elems(heap) : d = e.DocNum
      BY <1>7, <2>1 DEF Compared, Elems
    <3>. QED BY <1>6, <3>1
  <2>2. CASE ~(rqi.Exact /\ InvfLevel = 3)
    <3>1. d \in ScoredDocs /\ d \notin DocsTaken
      BY <1>2, <1>3, <1>7, <2>2 DEF Compared
    <3>. PICK x \in DOMAIN acc : AccDocs[x] = d
      <4>1. CASE rqi.AccumMethod = "A"
        BY <1>1, <3>1, <4>1 DEF ScoredDocs, Steady
      <4>2. CASE rqi.AccumMethod # "A"
        BY <1>1, <3>1, <4>2 DEF ScoredDocs
      <4>. QED BY <4>1, <4>2
    <3>2. CASE Outside(Elems(heap), x)
      BY <1>1, <2>2, <3>1, <3>2 DEF BestInv
    <3>3. CASE ~Outside(Elems(heap), x)
      <4>. PICK e \in Elems(heap) : e.OrgWeight = x
        BY <3>3 DEF Outside
      <4>1. e.DocNum = d
        BY <1>1 DEF HeapOk
      <4>. QED BY <1>6, <4>1
    <3>4. d \in 1 .. NumDocs
      BY <1>1
    <3>. QED BY <3>2, <3>3, <3>4
  <2>. QED BY <2>1, <2>2
<1>8. ASSUME NEW d \in Compared \ TakenDocs, NEW e \in TakenDocs PROVE Cosine(d) <= Cosine(e)
  <2>. PICK z \in Used : e = Docs[z].DocNum
    BY <1>2, <1>8 DEF DocsTaken
  <2>1. Docs[z].Weight = Measures[e] /\ e \in 1 .. NumDocs
    BY <1>1, TakenIs DEF BestInv, SlotRight
  <2>. QED BY <1>7, <2>1, CosinesAre
<1>. QED BY <1>2, <1>3, <1>4, <1>5, <1>8

\* How many places are taken.
LEMMA TakenCount ==
  ASSUME NEW N \in Nat, NEW E \in Int, NEW R \in Nat, E < R, N <= E + 1
  PROVE  /\ Cardinality(UsedOf(N, E, R)) = N + ((R - 1) - E)
         /\ Cardinality(0 .. R - 1) = R
<1>1. 0 \in Int /\ R - 1 \in Int /\ N \in Int /\ E \in Int
  OBVIOUS
<1>2. /\ IsFiniteSet(0 .. R - 1)
      /\ Cardinality(0 .. R - 1) = IF 0 > R - 1 THEN 0 ELSE (R - 1) - 0 + 1
  BY ONLY <1>1, FS_Interval
<1>3. Cardinality(0 .. R - 1) = R
  BY <1>2
<1>4. Cardinality(N .. E) = IF N > E THEN 0 ELSE E - N + 1
  BY ONLY <1>1, FS_Interval
<1>5. Cardinality(N .. E) = (E + 1) - N
  BY <1>4
<1>6. UsedOf(N, E, R) = (0 .. R - 1) \ (N .. E) /\ (0 .. R - 1) \cap (N .. E) = N .. E
  <2>1. \A x \in N .. E : x \in 0 .. R - 1
    OBVIOUS
  <2>2. \A x \in UsedOf(N, E, R) : x \in 0 .. R - 1 /\ x \notin N .. E
    BY DEF UsedOf
  <2>3. \A x \in 0 .. R - 1 : x \in N .. E \/ x \in UsedOf(N, E, R)
    BY DEF UsedOf
  <2>. QED BY <2>1, <2>2, <2>3
<1>7. Cardinality((0 .. R - 1) \ (N .. E)) = Cardinality(0 .. R - 1) - Cardinality((0 .. R - 1) \cap (N .. E))
  BY ONLY <1>2, FS_Difference
<1>8. R - ((E + 1) - N) = N + ((R - 1) - E)
  OBVIOUS
<1>. QED BY <1>3, <1>5, <1>6, <1>7, <1>8

LEMMA InvChained == RankingInv => ParagraphsChained
<1>. SUFFICES ASSUME RankingInv, at = "done"
              PROVE  /\ Cardinality(Taken) = Cardinality(DOMAIN Docs) - Len(heap)
                     /\ \A x \in 0 .. num - 1 :
                          Chain(x) = {y \in Taken : Docs[y].SeekPos = Docs[x].SeekPos}
                     /\ Taken = UNION {Chain(x) : x \in 0 .. num - 1}
  BY DEF ParagraphsChained
<1>1. /\ Taken = Used /\ Room \in Nat /\ Laid(Docs, num, BackEnd, Room)
      /\ DOMAIN Docs = 0 .. Room - 1
      /\ num \in Nat /\ BackEnd \in Int /\ BackEnd < Room
      /\ Len(heap) \in Nat /\ num + Len(heap) = BackEnd + 1
  BY TakenIs
<1>. PICK N \in Nat : N = num
  BY <1>1
<1>. PICK E \in Int : E = BackEnd
  BY <1>1
<1>. PICK R \in Nat : R = Room
  BY <1>1
<1>. PICK L \in Nat : L = Len(heap)
  BY <1>1
<1>. PICK D : D = Docs
  OBVIOUS
<1>. PICK U : U = UsedOf(N, E, R)
  OBVIOUS
<1>2. E < R /\ N + L = E + 1 /\ Taken = U /\ Laid(D, N, E, R)
  BY <1>1 DEF Used
<1>. PICK K \in Nat : K = N + ((R - 1) - E)
  <2>1. N + ((R - 1) - E) \in Nat
    BY <1>2
  <2>. QED BY <2>1
<1>3. Cardinality(U) = K /\ Cardinality(0 .. R - 1) = R
  <2>1. E < R /\ N <= E + 1
    BY <1>2
  <2>2. /\ Cardinality(UsedOf(N, E, R)) = N + ((R - 1) - E)
        /\ Cardinality(0 .. R - 1) = R
    BY ONLY <2>1, N \in Nat, E \in Int, R \in Nat, TakenCount
  <2>. QED BY <2>2
<1>4. Cardinality(Taken) = Cardinality(DOMAIN Docs) - Len(heap)
  <2>1. K = R - L
    BY <1>2
  <2>2. Cardinality(DOMAIN Docs) = R
    BY <1>1, <1>3
  <2>. QED BY <1>2, <1>3, <2>1, <2>2
<1>5. N <= E + 1
  BY <1>2
<1>6. ASSUME NEW x \in 0 .. N - 1 PROVE Chain(x) = Alike(D, N, E, R, x)
  <2>. PICK g : g = Follows(D, x, K)
    OBVIOUS
  <2>. PICK S : S = U \cup {-1}
    OBVIOUS
  <2>1. x \in S /\ -1 \in S
    BY DEF UsedOf
  <2>2. Closed(D, S)
    <3>. SUFFICES ASSUME NEW y \in S PROVE Follow(D, y) \in S
      BY DEF Closed
    <3>1. CASE y = -1
      BY <3>1 DEF Follow
    <3>2. CASE y # -1
      <4>1. Chained(D, E, R, y)
        BY <1>2, <3>2 DEF Laid
      <4>2. D[y].Next = -1 \/ D[y].Next \in U
        BY <4>1 DEF Chained, UsedOf
      <4>. QED BY <3>2, <4>2 DEF Follow
    <3>. QED BY <3>1, <3>2
  <2>3. DOMAIN g = 0 .. K /\ g[0] = x /\ \A m \in 1 .. K : g[m] = Follow(D, g[m - 1])
    <3>1. /\ DOMAIN Follows(D, x, K) = 0 .. K /\ Follows(D, x, K)[0] = x
          /\ \A m \in 1 .. K : Follows(D, x, K)[m] = Follow(D, Follows(D, x, K)[m - 1])
      BY ONLY <2>1, <2>2, K \in Nat, FollowsIs
    <3>. QED BY <3>1
  <2>4. Chain(x) = Links(g, K) \ {-1}
    <3>1. Cardinality(Taken) = K
      BY <1>2, <1>3
    <3>2. Chain(x) = {Follows(Docs, x, Cardinality(Taken))[m] : m \in DOMAIN Follows(Docs, x, Cardinality(Taken))} \ {-1}
      BY DEF Chain, Follows, Follow
    <3>. QED BY <2>3, <3>1, <3>2 DEF Links
  <2>5. Links(g, K) \ {-1} = Alike(D, N, E, R, x)
    <3>1. g[0] = x /\ \A m \in 1 .. K : g[m] = Follow(D, g[m - 1])
      BY <2>3
    <3>2. K = N + ((R - 1) - E) /\ E < R /\ Laid(D, N, E, R)
      BY <1>2
    <3>. QED BY ONLY <1>5, <3>1, <3>2, K \in Nat, N \in Nat, E \in Int, R \in Nat, x \in 0 .. N - 1, ChainRight
  <2>. QED BY <2>4, <2>5
<1>7. \A x \in 0 .. N - 1 : Chain(x) = {y \in Taken : Docs[y].SeekPos = Docs[x].SeekPos}
  BY <1>2, <1>6 DEF Alike
<1>8. \A y \in U : \E x \in 0 .. N - 1 : D[y].SeekPos = D[x].SeekPos
  <2>. TAKE y \in U
  <2>1. CASE y \in 0 .. N - 1
    BY <2>1
  <2>2. CASE y \in E + 1 .. R - 1
    BY <1>2, <2>2 DEF Laid
  <2>. QED BY <2>1, <2>2 DEF UsedOf
<1>9. Taken = UNION {Chain(x) : x \in 0 .. N - 1}
  BY <1>2, <1>7, <1>8, SMTT(30)
<1>. QED BY <1>4, <1>7, <1>9

LEMMA InvBest == RankingInv => BestReturned
BY InvHeaviest, InvNoneBetter, InvChained DEF BestReturned

(***************************************************************************)
(* Whatever the table of documents and the limits: a document that         *)
(* CosineGet returns has its cosine measure over the terms gone through,   *)
(* approximate or exact as the query asks, although the sum of an          *)
(* accumulator is overwritten by its weight when the root of the heap is   *)
(* replaced and by 0 when it enters the heap.                              *)
(***************************************************************************)
THEOREM WeightsExact == Spec => []WeightsAreCosine
<1>. QED BY InitRanking, RankingStep, InvCosine, PTL DEF Spec

(***************************************************************************)
(* Whatever the table of documents and the limits: what CosineGet returns  *)
(* is in order of the weights, no document left out outweighs one that is  *)
(* returned, and the paragraphs of a document are in its chain.            *)
(***************************************************************************)
THEOREM BestAreReturned == Spec => []BestReturned
<1>. QED BY InitRanking, RankingStep, InvBest, PTL DEF Spec
=============================================================================
