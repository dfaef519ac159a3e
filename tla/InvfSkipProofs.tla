--------------------------- MODULE InvfSkipProofs ---------------------------
(***************************************************************************)
(* Proofs about InvfSkip: in an inverted file that holds the counts,       *)
(* mg_invf_rebuild reads back the list of the word from a file of any skip *)
(* mode, and GetDocsOp returns what it was asked for whatever it hops over.*)
(*                                                                         *)
(* The argument is about one object, the layout of a list for a skip size: *)
(* each posting has a piece - the header of its block, its gap and its     *)
(* count, of which the first two may be left out - and the pieces follow   *)
(* one another.  The codes a piece is made of are read back wherever it    *)
(* stands (CodeFacts), so a decoder that stands where a posting starts and *)
(* knows the document before it reads the posting and stands where the     *)
(* next one starts (PieceIsRead).  The bits of a block without its last    *)
(* gap, which is what the header says, are what separates the header from  *)
(* the next block (BlockSpan): that makes the length process_files reckons *)
(* from the old file the right one for the new, and a hop as good as       *)
(* decoding the postings it hops over.                                     *)
(***************************************************************************)
EXTENDS InvfSkip, CodeFacts

-----------------------------------------------------------------------------
\* Sequences of codes, one after the other.

LEMMA JoinPrefix ==
  ASSUME NEW S, NEW q \in Seq(Seq(S))
  PROVE  \E h \in [0 .. Len(q) -> Seq(S)] :
           /\ h[0] = <<>>
           /\ \A n \in 1 .. Len(q) : h[n] = h[n - 1] \o q[n]
           /\ \A n \in 0 .. Len(q) : FlattenSeq(SubSeq(q, 1, n)) = h[n]
<1>. DEFINE D == [a \in Seq(S) \X (1 .. Len(q)) |-> a[1] \o q[a[2]]]
<1>1. Len(q) \in Nat /\ <<>> \in Seq(S) /\ \A n \in 1 .. Len(q) : q[n] \in Seq(S)
  OBVIOUS
<1>2. D \in [Seq(S) \X (1 .. Len(q)) -> Seq(S)]
  BY <1>1
<1>3. PICK h \in [0 .. Len(q) -> Seq(S)] : RecursUpTo(h, Len(q), <<>>, D)
  <2>. HIDE DEF D
  <2>. QED BY <1>1, <1>2, RecursionUpTo, Zenon
<1>4. h[0] = <<>>
  BY <1>1, <1>3 DEF RecursUpTo
<1>5. ASSUME NEW n \in 1 .. Len(q) PROVE h[n] = h[n - 1] \o q[n]
  <2>1. n - 1 \in 0 .. Len(q) /\ n \in 0 .. Len(q) /\ n # 0
    BY <1>1
  <2>2. <<h[n - 1], n>> \in Seq(S) \X (1 .. Len(q))
    BY <2>1
  <2>3. D[<<h[n - 1], n>>] = h[n - 1] \o q[n]
    BY <2>2
  <2>4. h[n] = D[<<h[n - 1], n>>]
    <3>. HIDE DEF D
    <3>. QED BY <1>3, <2>1 DEF RecursUpTo
  <2>. QED BY <2>3, <2>4
<1>6. FlattenSeq(SubSeq(q, 1, 0)) = h[0]
  <2>1. SubSeq(q, 1, 0) = <<>> /\ Len(<<>>) = 0
    OBVIOUS
  <2>. QED BY <1>4, <2>1 DEF FlattenSeq
<1>7. ASSUME NEW n \in 1 .. Len(q) PROVE FlattenSeq(SubSeq(q, 1, n)) = h[n]
  <2>. DEFINE u == SubSeq(q, 1, n)
              Q(g) == g = [m \in 1 .. n |-> IF m = 1 THEN u[m] ELSE g[m - 1] \o u[m]]
  <2>1. Len(u) = n /\ n # 0 /\ n \in Nat /\ \A m \in 1 .. n : u[m] = q[m]
    BY <1>1
  <2>2. FlattenSeq(u) = (CHOOSE g : Q(g))[n]
    BY <2>1 DEF FlattenSeq
  <2>. HIDE DEF u
  <2>3. Q([m \in 1 .. n |-> h[m]])
    <3>. DEFINE g == [m \in 1 .. n |-> h[m]]
    <3>1. ASSUME NEW m \in 1 .. n PROVE h[m] = IF m = 1 THEN u[m] ELSE g[m - 1] \o u[m]
      <4>1. m \in 1 .. Len(q) /\ u[m] = q[m] /\ h[m] = h[m - 1] \o q[m]
        <5>1. m \in 1 .. Len(q)
          BY <1>1
        <5>. QED BY <1>5, <2>1, <5>1
      <4>2. CASE m = 1
        <5>1. h[m - 1] = <<>> /\ q[m] \in Seq(S)
          BY <1>1, <1>4, <4>1, <4>2
        <5>2. <<>> \o q[m] = q[m]
          BY <5>1, ConcatEmptySeq
        <5>. QED BY <4>1, <4>2, <5>1, <5>2
      <4>3. CASE m # 1
        <5>1. m - 1 \in 1 .. n
          BY <4>3
        <5>. QED BY <4>1, <4>3, <5>1
      <4>. QED BY <4>2, <4>3
    <3>. QED BY <3>1
  <2>4. ASSUME NEW g, Q(g) PROVE g[n] = h[n]
    <3>. DEFINE T == {m \in Nat : m + 1 <= n => g[m + 1] = h[m + 1]}
    <3>1. \A m \in 1 .. n : g[m] = IF m = 1 THEN u[m] ELSE g[m - 1] \o u[m]
      BY <2>4
    <3>. HIDE DEF Q
    <3>2. 0 \in T
      <4>1. 1 \in 1 .. n /\ 1 \in 1 .. Len(q) /\ 0 + 1 = 1 /\ 1 - 1 = 0
        BY <2>1
      <4>2. h[1] = h[1 - 1] \o q[1] /\ q[1] \in Seq(S)
        BY <1>1, <1>5, <4>1
      <4>3. h[1] = q[1]
        <5>1. <<>> \o q[1] = q[1]
          BY <4>2, ConcatEmptySeq
        <5>. QED BY <1>4, <4>1, <4>2, <5>1
      <4>. QED BY <2>1, <3>1, <4>1, <4>3
    <3>3. ASSUME NEW m \in Nat, m \in T PROVE m + 1 \in T
      <4>. SUFFICES ASSUME (m + 1) + 1 <= n PROVE g[(m + 1) + 1] = h[(m + 1) + 1]
        OBVIOUS
      <4>1. (m + 1) + 1 \in 1 .. n /\ (m + 1) + 1 \in 1 .. Len(q) /\ (m + 1) + 1 # 1
            /\ ((m + 1) + 1) - 1 = m + 1 /\ m + 1 <= n
        BY <1>1, <2>1
      <4>2. g[m + 1] = h[m + 1]
        BY <3>3, <4>1
      <4>3. g[(m + 1) + 1] = g[m + 1] \o u[(m + 1) + 1]
        BY <3>1, <4>1
      <4>4. h[(m + 1) + 1] = h[m + 1] \o q[(m + 1) + 1]
        BY <1>5, <4>1
      <4>. QED BY <2>1, <4>1, <4>2, <4>3, <4>4
    <3>4. Nat \subseteq T
      <4>. HIDE DEF T
      <4>. QED BY <3>2, <3>3, SetInduction
    <3>5. n - 1 \in Nat /\ (n - 1) + 1 = n
      BY <2>1
    <3>6. n - 1 \in T
      BY <3>4, <3>5
    <3>. QED BY <2>1, <3>5, <3>6
  <2>5. Q(CHOOSE g : Q(g))
    <3>. HIDE DEF Q
    <3>. QED BY <2>3
  <2>. HIDE DEF Q
  <2>. QED BY <2>2, <2>4, <2>5 DEF u
<1>8. \A n \in 0 .. Len(q) : n = 0 \/ n \in 1 .. Len(q)
  BY <1>1
<1>. QED BY <1>4, <1>5, <1>6, <1>7, <1>8

-----------------------------------------------------------------------------
\* A list of postings, and what the code makes of its length.

\* The document of the n-th posting, 0 before the first.
Doc(l, n) == IF n = 0 THEN 0 ELSE l[n].doc_num

GapBlk(l) == BblockInit(NumDocs, Len(l))
BlocksOf(l, k) == (Len(l) + k - 1) \div k
Counted(l) ==
  LET sum[n \in 0 .. Len(l)] == IF n = 0 THEN 0 ELSE sum[n - 1] + l[n].count
  IN sum[Len(l)]
DocBlk(l, k) == BblockInit(NumDocs, BlocksOf(l, k))
LenBlk(l, k) ==
  BblockInit(BblockBound(NumDocs, Len(l)) + (IF HasCounts THEN Counted(l) ELSE 0),
             BlocksOf(l, k))
Size(l, m) ==
  CASE m.mode = 1 /\ Len(l) > m.k    -> m.k
    [] m.mode = 2 /\ Len(l) > m.mins ->
         Max({m.mins} \cup {r \in 1 .. 2 * Len(l) : r * r * m.max_nodes <= 4 * Len(l)})
    [] OTHER -> 0

LEMMA OfPostings ==
  /\ p = Len(postings)
  /\ blk = GapBlk(postings)
  /\ \A k : Blocks(k) = BlocksOf(postings, k)
  /\ \A k : dn_blk(k) = DocBlk(postings, k)
  /\ \A k : len_blk(k) = LenBlk(postings, k)
  /\ \A m : SkipSize(m) = Size(postings, m)
<1>1. wcnt = Counted(postings)
  BY DEF wcnt, Counted, p
<1>2. \A k : Blocks(k) = BlocksOf(postings, k)
  BY DEF Blocks, BlocksOf, p
<1>3. \A k : dn_blk(k) = DocBlk(postings, k)
  BY <1>2 DEF dn_blk, DocBlk
<1>4. \A k : len_blk(k) = LenBlk(postings, k)
  BY <1>1, <1>2 DEF len_blk, LenBlk, p
<1>5. \A m : SkipSize(m) = Size(postings, m)
  BY DEF SkipSize, Size, p
<1>. QED BY <1>2, <1>3, <1>4, <1>5 DEF p, blk, GapBlk

LEMMA ListFacts ==
  ASSUME NEW l \in PostingLists
  PROVE  /\ Len(l) \in Nat \ {0} /\ DOMAIN l = 1 .. Len(l)
         /\ \A n \in 1 .. Len(l) : l[n].doc_num \in 1 .. NumDocs /\ l[n].count \in Nat \ {0}
         /\ \A n \in 0 .. Len(l) : Doc(l, n) \in Nat
         /\ \A m, n \in 0 .. Len(l) : m < n => Doc(l, m) < Doc(l, n)
         /\ \A n \in 0 .. Len(l) : n <= Doc(l, n)
         /\ Len(l) <= NumDocs
<1>1. /\ l \in Seq([doc_num : 1 .. NumDocs, count : Nat \ {0}])
      /\ l # <<>>
      /\ \A m, n \in DOMAIN l : m < n => l[m].doc_num < l[n].doc_num
      /\ NumDocs \in Nat \ {0}
  BY SkipConstants
<1>2. Len(l) \in Nat \ {0} /\ DOMAIN l = 1 .. Len(l)
  BY <1>1
<1>3. \A n \in 1 .. Len(l) : l[n] \in [doc_num : 1 .. NumDocs, count : Nat \ {0}]
  <2>. DEFINE S == [doc_num : 1 .. NumDocs, count : Nat \ {0}]
  <2>1. l \in Seq(S)
    BY <1>1
  <2>. HIDE DEF S
  <2>2. \A n \in 1 .. Len(l) : l[n] \in S
    BY <2>1
  <2>. QED BY <2>2 DEF S
<1>4. \A n \in 1 .. Len(l) : l[n].doc_num \in 1 .. NumDocs /\ l[n].count \in Nat \ {0}
  BY <1>3
<1>5. \A n \in 0 .. Len(l) : Doc(l, n) \in Nat /\ (n > 0 => Doc(l, n) = l[n].doc_num /\ Doc(l, n) > 0)
  <2>1. \A n \in 0 .. Len(l) : n > 0 => n \in 1 .. Len(l)
    OBVIOUS
  <2>. QED BY <1>1, <1>4, <2>1 DEF Doc
<1>6. ASSUME NEW m \in 0 .. Len(l), NEW n \in 0 .. Len(l), m < n PROVE Doc(l, m) < Doc(l, n)
  <2>1. n > 0 /\ n \in 1 .. Len(l)
    BY <1>2, <1>6
  <2>2. CASE m = 0
    BY <1>5, <2>1, <2>2 DEF Doc
  <2>3. CASE m # 0
    <3>1. m \in 1 .. Len(l) /\ m > 0
      BY <1>2, <2>3
    <3>2. l[m].doc_num < l[n].doc_num
      BY <1>1, <1>2, <1>6, <2>1, <3>1
    <3>. QED BY <1>5, <2>1, <3>1, <3>2
  <2>. QED BY <2>2, <2>3
<1>7. \A n \in 0 .. Len(l) : n <= Doc(l, n)
  <2>. DEFINE T == {n \in Nat : n <= Len(l) => n <= Doc(l, n)}
  <2>1. 0 \in T
    BY <1>5
  <2>2. ASSUME NEW n \in Nat, n \in T PROVE n + 1 \in T
    <3>. SUFFICES ASSUME n + 1 <= Len(l) PROVE n + 1 <= Doc(l, n + 1)
      OBVIOUS
    <3>1. n \in 0 .. Len(l) /\ n + 1 \in 0 .. Len(l) /\ n < n + 1 /\ n <= Doc(l, n)
      BY <1>2, <2>2
    <3>2. Doc(l, n) < Doc(l, n + 1) /\ Doc(l, n) \in Nat /\ Doc(l, n + 1) \in Nat
      BY <1>5, <1>6, <3>1
    <3>. QED BY <3>1, <3>2
  <2>3. Nat \subseteq T
    <3>. HIDE DEF T
    <3>. QED BY <2>1, <2>2, SetInduction
  <2>. QED BY <2>3
<1>8. Len(l) <= NumDocs
  <2>1. Len(l) \in 0 .. Len(l) /\ Len(l) \in 1 .. Len(l) /\ Len(l) > 0
    BY <1>2
  <2>2. Len(l) <= Doc(l, Len(l)) /\ Doc(l, Len(l)) \in 1 .. NumDocs
    BY <1>4, <1>5, <1>7, <2>1
  <2>. QED BY <1>1, <1>2, <2>2
<1>. QED BY <1>2, <1>4, <1>5, <1>6, <1>7, <1>8

LEMMA CountedRight ==
  ASSUME NEW l \in PostingLists PROVE Counted(l) \in Nat
<1>. DEFINE N == Len(l)
            Q(g) == g = [n \in 0 .. N |-> IF n = 0 THEN 0 ELSE g[n - 1] + l[n].count]
            D == [a \in Nat \X (1 .. N) |-> a[1] + l[a[2]].count]
<1>1. N \in Nat /\ \A n \in 1 .. N : l[n].count \in Nat
  BY ListFacts
<1>2. D \in [Nat \X (1 .. N) -> Nat]
  BY <1>1
<1>3. PICK g \in [0 .. N -> Nat] : RecursUpTo(g, N, 0, D)
  <2>1. 0 \in Nat
    OBVIOUS
  <2>. HIDE DEF D, N
  <2>. QED BY <1>1, <1>2, <2>1, RecursionUpTo, Zenon
<1>. HIDE DEF N
<1>4. Q(g)
  <2>1. ASSUME NEW n \in 0 .. N PROVE g[n] = IF n = 0 THEN 0 ELSE g[n - 1] + l[n].count
    <3>1. CASE n = 0
      BY <1>3, <3>1 DEF RecursUpTo
    <3>2. CASE n # 0
      <4>1. n - 1 \in 0 .. N /\ n \in 1 .. N /\ <<g[n - 1], n>> \in Nat \X (1 .. N)
        BY <1>1, <3>2
      <4>2. D[<<g[n - 1], n>>] = g[n - 1] + l[n].count
        BY <4>1
      <4>3. g[n] = D[<<g[n - 1], n>>]
        <5>. HIDE DEF D
        <5>. QED BY <1>3, <3>2 DEF RecursUpTo
      <4>. QED BY <3>2, <4>2, <4>3
    <3>. QED BY <3>1, <3>2
  <2>. QED BY <2>1
<1>5. Counted(l) = (CHOOSE h : Q(h))[N]
  BY DEF Counted, N
<1>6. Q(CHOOSE h : Q(h))
  <2>. HIDE DEF Q
  <2>. QED BY <1>4
<1>7. ASSUME NEW h, Q(h) PROVE h[N] \in Nat
  <2>1. h[0] = 0 /\ \A n \in 1 .. N : h[n] = h[n - 1] + l[n].count
    BY <1>1, <1>7
  <2>. DEFINE T == {n \in Nat : n <= N => h[n] \in Nat}
  <2>2. 0 \in T
    BY <2>1
  <2>3. ASSUME NEW n \in Nat, n \in T PROVE n + 1 \in T
    <3>. SUFFICES ASSUME n + 1 <= N PROVE h[n + 1] \in Nat
      OBVIOUS
    <3>1. n + 1 \in 1 .. N /\ (n + 1) - 1 = n /\ h[n] \in Nat
      BY <1>1, <2>3
    <3>2. h[n + 1] = h[n] + l[n + 1].count
      BY <2>1, <3>1
    <3>. QED BY <1>1, <3>1, <3>2
  <2>4. Nat \subseteq T
    <3>. HIDE DEF T
    <3>. QED BY <2>2, <2>3, SetInduction
  <2>. QED BY <1>1, <2>4
<1>. HIDE DEF Q
<1>. QED BY <1>5, <1>6, <1>7

LEMMA InitBlockRight ==
  ASSUME NEW n \in Nat, NEW m \in Nat \ {0} PROVE BblockInit(n, m) \in Nat \ {0}
<1>1. 5000000 * m + 6931471 * n \in Nat /\ 10000000 * m \in Nat \ {0}
  OBVIOUS
<1>2. \A x \in Nat, y \in Nat \ {0} : x \div y \in Nat
  OBVIOUS
<1>. QED BY <1>1, <1>2 DEF BblockInit

LEMMA BlkFacts ==
  ASSUME NEW l \in PostingLists, NEW k \in Nat \ {0}
  PROVE  /\ GapBlk(l) \in Nat \ {0}
         /\ DocBlk(l, k) \in Nat \ {0}
         /\ LenBlk(l, k) \in Nat \ {0}
<1>1. Len(l) \in Nat \ {0} /\ Len(l) <= NumDocs /\ NumDocs \in Nat
  BY ListFacts, SkipConstants
<1>2. BlocksOf(l, k) \in Nat \ {0}
  <2>1. Len(l) + k - 1 \in Nat /\ Len(l) + k - 1 >= 1 * k
    BY <1>1
  <2>2. (Len(l) + k - 1) \div k >= 1 /\ (Len(l) + k - 1) \div k \in Nat
    BY <2>1, QuotientReaches, QuotientOf
  <2>. QED BY <2>2 DEF BlocksOf
<1>3. BblockBound(NumDocs, Len(l)) \in Nat
  <2>. DEFINE b == BblockInitW(NumDocs, Len(l))
  <2>1. b \in Nat \ {0}
    BY <1>1, BlockSizesRight
  <2>. HIDE DEF b
  <2>2. CeilLog(b) \in Nat /\ Thresh(b) \in Nat
    BY <2>1, ThreshRight
  <2>3. 0 + (Len(l) - 0) <= NumDocs /\ 0 \in 0 .. Len(l) /\ 0 \in Nat /\ 0 \in Int
        /\ b * (0 - 0 * (1 + CeilLog(b))) <= 0 - 0 * (Thresh(b) + 1)
    BY <1>1, <2>1, <2>2
  <2>4. BblockBoundB(NumDocs, Len(l), b) \in Int /\ 0 <= BblockBoundB(NumDocs, Len(l), b)
    BY <1>1, <2>1, <2>3, BlockBoundHolds
  <2>. QED BY <2>4 DEF BblockBound, b
<1>4. BblockBound(NumDocs, Len(l)) + (IF HasCounts THEN Counted(l) ELSE 0) \in Nat
  BY <1>3, CountedRight
<1>. QED BY <1>1, <1>2, <1>4, InitBlockRight DEF GapBlk, DocBlk, LenBlk

LEMMA SizeRight ==
  ASSUME NEW l \in PostingLists, NEW m, m \in SkipModes \/ m = NoSkips
  PROVE  Size(l, m) \in Nat
<1>1. CASE m = NoSkips
  BY <1>1 DEF NoSkips, Size
<1>2. CASE m \in SkipModes
  <2>1. m.mode \in 0 .. 2 /\ m.k \in Nat /\ m.max_nodes \in Nat /\ m.mins \in Nat
    <3>1. m \in [mode : 0 .. 2, k : Nat, max_nodes : Nat, mins : Nat]
      BY <1>2, SkipConstants
    <3>. QED BY <3>1
  <2>2. Len(l) \in Nat
    BY ListFacts
  <2>. DEFINE R == {m.mins} \cup {r \in 1 .. 2 * Len(l) : r * r * m.max_nodes <= 4 * Len(l)}
  <2>3. Max(R) \in Nat
    <3>1. R \subseteq Nat /\ \A r \in R : r <= m.mins + 2 * Len(l)
      BY <2>1, <2>2
    <3>. DEFINE U == m.mins + 2 * Len(l)
                T == {n \in Nat : U - n \in R}
    <3>2. U - m.mins \in T
      BY <2>1, <2>2
    <3>3. PICK n \in T : \A o \in T : n <= o
      <4>1. T \in SUBSET Nat /\ T # {}
        BY <3>2
      <4>. HIDE DEF T
      <4>. QED BY <4>1, LeastNatural
    <3>4. U - n \in R /\ \A r \in R : U - n >= r
      <4>1. U - n \in R
        BY <3>3
      <4>2. ASSUME NEW r \in R PROVE U - n >= r
        <5>. HIDE DEF R
        <5>1. r \in Nat /\ r <= U /\ U \in Nat
          BY <2>1, <2>2, <3>1
        <5>. HIDE DEF U
        <5>2. U - r \in Nat /\ U - (U - r) = r
          BY <5>1
        <5>3. U - r \in T
          BY <4>2, <5>2
        <5>4. n <= U - r
          BY <3>3, <5>3
        <5>. QED BY <5>1, <5>4
      <4>. QED BY <4>1, <4>2
    <3>5. Max(R) = CHOOSE x \in R : \A y \in R : x >= y
      BY DEF Max
    <3>. HIDE DEF R, U
    <3>6. Max(R) \in R
      BY <3>4, <3>5
    <3>. QED BY <3>1, <3>6
  <2>. QED BY <2>1, <2>3 DEF Size
<1>. QED BY <1>1, <1>2

-----------------------------------------------------------------------------
(***************************************************************************)
(* The layout of a list with a skip for every k postings (k = 0: without   *)
(* skips).  Posting n counts from 0; its piece is its header, its gap and  *)
(* its count, of which the first two may be left out.                      *)
(***************************************************************************)

GapBits(l, n) == Bblock(Doc(l, n + 1) - Doc(l, n), GapBlk(l))
CntBits(l, n) == CountBits(l[n + 1].count)

\* The bits of the first n postings in a list without skips.
LenTo(l, n) == Len(FlattenSeq(SubSeq(Codes(l), 1, n)))

WithHead(l, k, n) == k > 0 /\ n % k = 0 /\ n + k < Len(l)
NoGap(l, k, n) == k > 0 /\ n % k = k - 1 /\ n # Len(l) - 1

SkipLen(l, k, n) == LenTo(l, n + k - 1) + Len(CntBits(l, n + k - 1)) - LenTo(l, n)
DocDiff(l, k, n) == Bblock(Doc(l, n + k) - Doc(l, n), DocBlk(l, k))
SkipDiff(l, k, n) == Bblock(SkipLen(l, k, n), LenBlk(l, k))

HeadOf(l, k, n) ==
  IF WithHead(l, k, n) THEN DocDiff(l, k, n) \o SkipDiff(l, k, n) ELSE <<>>
GapOf(l, k, n) == IF NoGap(l, k, n) THEN <<>> ELSE GapBits(l, n)
Piece(l, k, n) == HeadOf(l, k, n) \o GapOf(l, k, n) \o CntBits(l, n)

\* Where posting n starts.
Starts(l, k) ==
  LET start[n \in 0 .. Len(l)] ==
        IF n = 0 THEN 1 ELSE start[n - 1] + Len(Piece(l, k, n - 1))
  IN start
At(l, k, n) == Starts(l, k)[n]

\* The stream s is the first m postings of the list.
Layout(l, k, s, m) ==
  /\ s \in Seq({0, 1})
  /\ Len(s) + 1 = At(l, k, m)
  /\ \A n \in 0 .. Len(l) : n < m => Stands(Piece(l, k, n), s, At(l, k, n))

-----------------------------------------------------------------------------
(***************************************************************************)
(* The invariant.  The file is the whole list, laid out for its skip mode. *)
(* While process_files reads, it stands where posting j starts and has     *)
(* noted the postings before it; while it writes, its output is the first  *)
(* j pieces, and what it remembers of the last header is the start of the  *)
(* next block.  GetDocsOp stands where posting i starts, or behind its     *)
(* header, and what it remembers is the start of the next block; the       *)
(* candidates it has passed are dealt with for the whole word, the others  *)
(* are untouched and beyond the document it is at.                         *)
(***************************************************************************)

Modes == SkipModes \cup {NoSkips}

\* The start of the next block, from posting n on.
NextBlock(n, k) == IF n % k = 0 THEN n ELSE BlockEnd(n, k)

\* What process_files notes of posting n, which counts from 1 here.
Noted(l, n) ==
  [doc_num |-> l[n].doc_num, count |-> l[n].count,
   bits_so_far |-> LenTo(l, n - 1), count_bits |-> Len(CntBits(l, n - 1))]

\* The list in the file is that of the word, in the file's skip mode.
FileInv ==
  /\ postings \in PostingLists
  /\ mode \in Modes /\ outmode \in Modes
  /\ prog \in {"none", "read", "write", "get"}
  /\ Layout(postings, Size(postings, mode), file, Len(postings))

\* The variables of process_files while it does not run.
Idle ==
  /\ out = <<>> /\ ii = <<>> /\ j = 0 /\ doc_num = 0 /\ bits_so_far = 0
  /\ next_mjr_dn = 0 /\ last_major = 0 /\ in_pos = 1 /\ promised = 0

\* The first j postings are read.
ReadInv ==
  LET k == Size(postings, mode)
  IN prog = "read" =>
       /\ j \in 0 .. Len(postings)
       /\ doc_num = Doc(postings, j)
       /\ in_pos = At(postings, k, j)
       /\ bits_so_far = LenTo(postings, j)
       /\ ii = [n \in 1 .. j |-> Noted(postings, n)]
       /\ (k > 0 /\ j % k # 0 /\ BlockEnd(j, k) < Len(postings)) =>
            next_mjr_dn = Doc(postings, BlockEnd(j, k))
       /\ out = <<>> /\ promised = 0

\* The first j postings are written.
WriteInv ==
  LET k == Size(postings, outmode)
  IN prog = "write" =>
       /\ j \in 0 .. Len(postings)
       /\ doc_num = Doc(postings, j)
       /\ ii = [n \in 1 .. Len(postings) |-> Noted(postings, n)]
       /\ Layout(postings, k, out, j)
       /\ (k > 0 /\ NextBlock(j, k) < Len(postings)) =>
            /\ last_major = Doc(postings, NextBlock(j, k))
            /\ bits_so_far = LenTo(postings, NextBlock(j, k))
            /\ j > 0 => promised = At(postings, k, NextBlock(j, k)) - 1

Entries == [DocNum : Nat \ {0}, or_included : BOOLEAN]
WithMark(c, docs) == [c EXCEPT !.or_included = @ \/ c.DocNum \in docs]

\* The block whose start next_i, next_start and next_doc_num give.
Target(n, k) == IF n % k = 0 /\ turn # "test" THEN n ELSE BlockEnd(n, k)

\* GetDocsOp stands at posting i.
CursorInv ==
  LET k == Size(postings, mode)
      N == Len(postings)
  IN (prog = "get" /\ turn # "returned") =>
       /\ i \in 0 .. N
       /\ CurrDoc = Doc(postings, i)
       /\ turn \in {"top", "header", "test"}
       /\ turn # "top" => k > 0 /\ i < N /\ (op = "op_term" \/ src < Len(L))
       /\ pos = At(postings, k, i) + (IF turn = "test" THEN Len(HeadOf(postings, k, i)) ELSE 0)
       /\ k > 0 =>
            /\ block_counter = k - 1 - (i % k)
            /\ Target(i, k) < N =>
                 /\ next_i = Target(i, k)
                 /\ next_start = At(postings, k, Target(i, k))
                 /\ next_doc_num = Doc(postings, Target(i, k))

\* The entries among the first n whose documents are in D.
AmongTo(q, D, n) == Among(SubSeq(q, 1, n), D)
TermAnswer(l, n) == [m \in 1 .. n |-> [DocNum |-> l[m].doc_num, or_included |-> FALSE]]

\* The candidates before src are dealt with, the others are still to come.
ListInv ==
  LET docs == DocsOf(postings)
      C    == Len(candidates)
  IN (prog = "get" /\ turn # "returned") =>
       /\ op \in {"op_term", "op_and_terms", "op_and_or_terms", "op_diff_terms"}
       /\ op = "op_term" => L = TermAnswer(postings, i)
       /\ op # "op_term" =>
            /\ candidates \in CandidateLists
            /\ L \in Seq(Entries) /\ Len(L) = C
            /\ src \in 0 .. C
            /\ \A m \in 1 .. C : m > src => L[m] = candidates[m] /\ candidates[m].DocNum > Doc(postings, i)
       /\ op = "op_and_or_terms" =>
            \A m \in 1 .. C : m <= src => L[m] = WithMark(candidates[m], docs)
       /\ op = "op_and_terms" =>
            dest \in 0 .. src /\ SubSeq(L, 1, dest) = AmongTo(candidates, docs, src)
       /\ op = "op_diff_terms" =>
            dest \in 0 .. src /\ SubSeq(L, 1, dest) = AmongTo(candidates, Nat \ docs, src)

\* The inductive invariant.
SkipInv ==
  /\ FileInv
  /\ prog \in {"none", "get"} => Idle
  /\ ReadInv /\ WriteInv
  /\ CursorInv /\ ListInv /\ AnswerIsRight

-----------------------------------------------------------------------------
\* Bits of the postings of a list.

LEMMA GapBitsRight ==
  ASSUME NEW l \in PostingLists, NEW n \in 0 .. Len(l) - 1
  PROVE  /\ Doc(l, n) \in Nat /\ Doc(l, n + 1) \in Nat /\ Doc(l, n + 1) = l[n + 1].doc_num
         /\ Doc(l, n + 1) - Doc(l, n) \in Nat \ {0}
         /\ GapBits(l, n) \in Seq({0, 1}) /\ Len(GapBits(l, n)) \in Nat
         /\ Len(GapBits(l, n)) = BblockLength(Doc(l, n + 1) - Doc(l, n), GapBlk(l))
         /\ \A s, w : Stands(GapBits(l, n), s, w) =>
              Reads(BblockDecode(s, w, GapBlk(l)), Doc(l, n + 1) - Doc(l, n), w,
                    Len(GapBits(l, n)))
<1>1. Len(l) \in Nat /\ n \in 0 .. Len(l) /\ n + 1 \in 0 .. Len(l) /\ n < n + 1 /\ n + 1 # 0
  BY ListFacts
<1>2. Doc(l, n) \in Nat /\ Doc(l, n + 1) \in Nat /\ Doc(l, n) < Doc(l, n + 1)
  BY <1>1, ListFacts
<1>3. Doc(l, n + 1) = l[n + 1].doc_num
  BY <1>1 DEF Doc
<1>4. GapBlk(l) \in Nat \ {0}
  BY BlkFacts
<1>5. PICK x \in Nat \ {0} : x = Doc(l, n + 1) - Doc(l, n)
  BY <1>2
<1>6. PICK b \in Nat \ {0} : b = GapBlk(l)
  BY <1>4
<1>7. GapBits(l, n) = Bblock(x, b)
  BY <1>5, <1>6 DEF GapBits
<1>8. /\ Bblock(x, b) \in Seq({0, 1}) /\ Len(Bblock(x, b)) = BblockLength(x, b)
      /\ BblockLength(x, b) \in Nat \ {0}
      /\ \A s, w : Stands(Bblock(x, b), s, w) =>
           Reads(BblockDecode(s, w, b), x, w, BblockLength(x, b))
  BY BblockIsRead
<1>. QED BY <1>2, <1>3, <1>5, <1>6, <1>7, <1>8

LEMMA CntBitsRight ==
  ASSUME HasCounts, NEW l \in PostingLists, NEW n \in 0 .. Len(l) - 1
  PROVE  /\ CntBits(l, n) \in Seq({0, 1}) /\ Len(CntBits(l, n)) \in Nat \ {0}
         /\ CntBits(l, n) = CountBits(l[n + 1].count)
         /\ \A s, w : Stands(CntBits(l, n), s, w) =>
              Reads(GammaDecode(s, w), l[n + 1].count, w, Len(CntBits(l, n)))
<1>1. n + 1 \in 1 .. Len(l)
  BY ListFacts
<1>2. PICK x \in Nat \ {0} : x = l[n + 1].count
  BY <1>1, ListFacts
<1>3. CntBits(l, n) = Gamma(x)
  BY <1>2 DEF CntBits, CountBits
<1>. QED BY <1>2, <1>3, GammaIsRead DEF CntBits

LEMMA CodesRight ==
  ASSUME HasCounts, NEW l \in PostingLists
  PROVE  /\ Codes(l) \in Seq(Seq({0, 1})) /\ Len(Codes(l)) = Len(l)
         /\ \A n \in 0 .. Len(l) - 1 : Codes(l)[n + 1] = GapBits(l, n) \o CntBits(l, n)
<1>1. Len(l) \in Nat
  BY ListFacts
<1>2. ASSUME NEW n \in 1 .. Len(l)
      PROVE  /\ n - 1 \in 0 .. Len(l) - 1
             /\ Codes(l)[n] = GapBits(l, n - 1) \o CntBits(l, n - 1)
  <2>1. n - 1 \in 0 .. Len(l) - 1 /\ (n - 1) + 1 = n
    BY <1>1
  <2>2. Codes(l)[n] = Bblock(l[n].doc_num - (IF n = 1 THEN 0 ELSE l[n - 1].doc_num),
                             BblockInit(NumDocs, Len(l))) \o CountBits(l[n].count)
    BY DEF Codes
  <2>3. Doc(l, n) = l[n].doc_num /\ Doc(l, n - 1) = IF n = 1 THEN 0 ELSE l[n - 1].doc_num
    BY <1>1 DEF Doc
  <2>. QED BY <2>1, <2>2, <2>3 DEF GapBits, CntBits, GapBlk
<1>3. ASSUME NEW n \in 1 .. Len(l) PROVE Codes(l)[n] \in Seq({0, 1})
  <2>1. n - 1 \in 0 .. Len(l) - 1
    BY <1>2
  <2>2. PICK g \in Seq({0, 1}), c \in Seq({0, 1}) : g = GapBits(l, n - 1) /\ c = CntBits(l, n - 1)
    BY <2>1, GapBitsRight, CntBitsRight
  <2>3. g \o c \in Seq({0, 1})
    OBVIOUS
  <2>. QED BY <1>2, <2>2, <2>3
<1>4. DOMAIN Codes(l) = 1 .. Len(l) /\ Codes(l) = [n \in 1 .. Len(l) |-> Codes(l)[n]]
  BY DEF Codes
<1>5. Codes(l) \in Seq(Seq({0, 1})) /\ Len(Codes(l)) = Len(l)
  <2>. DEFINE q == Codes(l)
  <2>1. q \in [1 .. Len(l) -> Seq({0, 1})]
    BY <1>3, <1>4
  <2>. HIDE DEF q
  <2>2. q \in Seq(Seq({0, 1})) /\ Len(q) = Len(l)
    BY <1>1, <2>1
  <2>. QED BY <2>2 DEF q
<1>6. ASSUME NEW n \in 0 .. Len(l) - 1 PROVE Codes(l)[n + 1] = GapBits(l, n) \o CntBits(l, n)
  <2>1. n + 1 \in 1 .. Len(l) /\ (n + 1) - 1 = n
    BY <1>1
  <2>2. Codes(l)[n + 1] = GapBits(l, (n + 1) - 1) \o CntBits(l, (n + 1) - 1)
    BY <1>2, <2>1
  <2>. QED BY <2>1, <2>2
<1>. QED BY <1>5, <1>6

LEMMA LenToRight ==
  ASSUME HasCounts, NEW l \in PostingLists
  PROVE  /\ LenTo(l, 0) = 0
         /\ \A n \in 0 .. Len(l) : LenTo(l, n) \in Nat
         /\ \A n \in 0 .. Len(l) - 1 :
              LenTo(l, n + 1) = LenTo(l, n) + Len(GapBits(l, n)) + Len(CntBits(l, n))
         /\ \A m, n \in 0 .. Len(l) : m <= n => LenTo(l, m) <= LenTo(l, n)
<1>. DEFINE q == Codes(l)
<1>1. /\ q \in Seq(Seq({0, 1})) /\ Len(q) = Len(l) /\ Len(l) \in Nat
      /\ \A n \in 0 .. Len(l) - 1 : q[n + 1] = GapBits(l, n) \o CntBits(l, n)
  BY CodesRight, ListFacts
<1>. HIDE DEF q
<1>2. PICK h \in [0 .. Len(q) -> Seq({0, 1})] :
        /\ h[0] = <<>>
        /\ \A n \in 1 .. Len(q) : h[n] = h[n - 1] \o q[n]
        /\ \A n \in 0 .. Len(q) : FlattenSeq(SubSeq(q, 1, n)) = h[n]
  BY <1>1, JoinPrefix
<1>3. \A n \in 0 .. Len(l) : LenTo(l, n) = Len(h[n]) /\ Len(h[n]) \in Nat
  BY <1>1, <1>2 DEF LenTo, q
<1>4. LenTo(l, 0) = 0
  BY <1>1, <1>2, <1>3
<1>5. ASSUME NEW n \in 0 .. Len(l) - 1
      PROVE  LenTo(l, n + 1) = LenTo(l, n) + Len(GapBits(l, n)) + Len(CntBits(l, n))
  <2>1. n + 1 \in 1 .. Len(q) /\ (n + 1) - 1 = n /\ n \in 0 .. Len(l) /\ n + 1 \in 0 .. Len(l)
    BY <1>1
  <2>2. h[n + 1] = h[n] \o q[n + 1]
    BY <1>2, <2>1
  <2>3. q[n + 1] = GapBits(l, n) \o CntBits(l, n)
    BY <1>1
  <2>4. PICK g \in Seq({0, 1}), c \in Seq({0, 1}) : g = GapBits(l, n) /\ c = CntBits(l, n)
    BY GapBitsRight, CntBitsRight
  <2>5. PICK u \in Seq({0, 1}) : u = h[n]
    BY <1>1, <1>2, <2>1
  <2>6. Len(u \o (g \o c)) = Len(u) + Len(g) + Len(c)
    OBVIOUS
  <2>. QED BY <1>3, <2>1, <2>2, <2>3, <2>4, <2>5, <2>6
<1>6. ASSUME NEW m \in 0 .. Len(l), NEW n \in 0 .. Len(l), m <= n
      PROVE  LenTo(l, m) <= LenTo(l, n)
  <2>. DEFINE T == {d \in Nat : m + d <= Len(l) => LenTo(l, m) <= LenTo(l, m + d)}
  <2>1. 0 \in T
    BY <1>1, <1>3
  <2>2. ASSUME NEW d \in Nat, d \in T PROVE d + 1 \in T
    <3>. SUFFICES ASSUME m + (d + 1) <= Len(l) PROVE LenTo(l, m) <= LenTo(l, m + (d + 1))
      OBVIOUS
    <3>1. m + d \in 0 .. Len(l) - 1 /\ m + (d + 1) = (m + d) + 1 /\ m + d \in 0 .. Len(l)
      BY <1>1
    <3>2. LenTo(l, m) <= LenTo(l, m + d) /\ LenTo(l, m + d) \in Nat /\ LenTo(l, m) \in Nat
      BY <1>3, <2>2, <3>1
    <3>3. LenTo(l, (m + d) + 1)
            = LenTo(l, m + d) + Len(GapBits(l, m + d)) + Len(CntBits(l, m + d))
      BY <1>5, <3>1
    <3>4. Len(GapBits(l, m + d)) \in Nat /\ Len(CntBits(l, m + d)) \in Nat
      BY <3>1, GapBitsRight, CntBitsRight
    <3>. QED BY <3>1, <3>2, <3>3, <3>4
  <2>3. Nat \subseteq T
    <3>. HIDE DEF T
    <3>. QED BY <2>1, <2>2, SetInduction
  <2>4. n - m \in Nat /\ m + (n - m) = n
    BY <1>1, <1>6
  <2>5. n - m \in T
    BY <2>3, <2>4
  <2>. QED BY <1>1, <2>4, <2>5
<1>. QED BY <1>3, <1>4, <1>5, <1>6

-----------------------------------------------------------------------------
\* The header of a block.

LEMMA HeaderRight ==
  ASSUME HasCounts, NEW l \in PostingLists, NEW k \in Nat, NEW n \in 0 .. Len(l) - 1,
         WithHead(l, k, n)
  PROVE  /\ DocDiff(l, k, n) \in Seq({0, 1}) /\ SkipDiff(l, k, n) \in Seq({0, 1})
         /\ Len(DocDiff(l, k, n)) \in Nat /\ Len(SkipDiff(l, k, n)) \in Nat
         /\ SkipLen(l, k, n) \in Nat
         /\ n + k \in 0 .. Len(l) /\ Doc(l, n + k) \in Nat
         /\ \A s, w : Stands(DocDiff(l, k, n), s, w) =>
              Reads(BblockDecode(s, w, DocBlk(l, k)), Doc(l, n + k) - Doc(l, n), w,
                    Len(DocDiff(l, k, n)))
         /\ \A s, w : Stands(SkipDiff(l, k, n), s, w) =>
              Reads(BblockDecode(s, w, LenBlk(l, k)), SkipLen(l, k, n), w,
                    Len(SkipDiff(l, k, n)))
<1>1. /\ k \in Nat \ {0} /\ n + k < Len(l) /\ Len(l) \in Nat
      /\ n + k \in 0 .. Len(l) /\ n < n + k /\ n \in 0 .. Len(l)
      /\ n + k - 1 \in 0 .. Len(l) /\ n <= n + k - 1 /\ n + k - 1 \in 0 .. Len(l) - 1
  BY ListFacts DEF WithHead
<1>2. Doc(l, n) \in Nat /\ Doc(l, n + k) \in Nat /\ Doc(l, n) < Doc(l, n + k)
  BY <1>1, ListFacts
<1>3. PICK x \in Nat \ {0} : x = Doc(l, n + k) - Doc(l, n)
  BY <1>2
<1>4. PICK y \in Nat \ {0} : y = SkipLen(l, k, n)
  <2>1. /\ LenTo(l, n) \in Nat /\ LenTo(l, n + k - 1) \in Nat
        /\ LenTo(l, n) <= LenTo(l, n + k - 1)
    BY <1>1, LenToRight
  <2>2. Len(CntBits(l, n + k - 1)) \in Nat \ {0}
    BY <1>1, CntBitsRight
  <2>3. SkipLen(l, k, n) = LenTo(l, n + k - 1) + Len(CntBits(l, n + k - 1)) - LenTo(l, n)
    BY DEF SkipLen
  <2>. QED BY <2>1, <2>2, <2>3
<1>5. PICK b \in Nat \ {0} : b = DocBlk(l, k)
  BY <1>1, BlkFacts
<1>6. PICK c \in Nat \ {0} : c = LenBlk(l, k)
  BY <1>1, BlkFacts
<1>7. DocDiff(l, k, n) = Bblock(x, b) /\ SkipDiff(l, k, n) = Bblock(y, c)
  BY <1>3, <1>4, <1>5, <1>6 DEF DocDiff, SkipDiff
<1>8. /\ Bblock(x, b) \in Seq({0, 1}) /\ Len(Bblock(x, b)) = BblockLength(x, b)
      /\ BblockLength(x, b) \in Nat \ {0}
      /\ \A s, w : Stands(Bblock(x, b), s, w) =>
           Reads(BblockDecode(s, w, b), x, w, BblockLength(x, b))
  BY BblockIsRead
<1>9. /\ Bblock(y, c) \in Seq({0, 1}) /\ Len(Bblock(y, c)) = BblockLength(y, c)
      /\ BblockLength(y, c) \in Nat \ {0}
      /\ \A s, w : Stands(Bblock(y, c), s, w) =>
           Reads(BblockDecode(s, w, c), y, w, BblockLength(y, c))
  BY BblockIsRead
<1>. QED BY <1>1, <1>2, <1>3, <1>4, <1>5, <1>6, <1>7, <1>8, <1>9

LEMMA PieceRight ==
  ASSUME HasCounts, NEW l \in PostingLists, NEW k \in Nat, NEW n \in 0 .. Len(l) - 1
  PROVE  /\ HeadOf(l, k, n) \in Seq({0, 1}) /\ Len(HeadOf(l, k, n)) \in Nat
         /\ GapOf(l, k, n) \in Seq({0, 1}) /\ Len(GapOf(l, k, n)) \in Nat
         /\ Piece(l, k, n) \in Seq({0, 1})
         /\ Len(Piece(l, k, n))
              = Len(HeadOf(l, k, n)) + Len(GapOf(l, k, n)) + Len(CntBits(l, n))
<1>1. HeadOf(l, k, n) \in Seq({0, 1}) /\ Len(HeadOf(l, k, n)) \in Nat
  <2>1. CASE WithHead(l, k, n)
    <3>1. PICK a \in Seq({0, 1}), b \in Seq({0, 1}) :
            a = DocDiff(l, k, n) /\ b = SkipDiff(l, k, n)
      BY <2>1, HeaderRight
    <3>2. a \o b \in Seq({0, 1}) /\ Len(a \o b) \in Nat
      OBVIOUS
    <3>. QED BY <2>1, <3>1, <3>2 DEF HeadOf
  <2>2. CASE ~WithHead(l, k, n)
    BY <2>2 DEF HeadOf
  <2>. QED BY <2>1, <2>2
<1>2. GapOf(l, k, n) \in Seq({0, 1}) /\ Len(GapOf(l, k, n)) \in Nat
  <2>1. GapBits(l, n) \in Seq({0, 1}) /\ Len(GapBits(l, n)) \in Nat
    BY GapBitsRight
  <2>. QED BY <2>1 DEF GapOf
<1>3. PICK h \in Seq({0, 1}), g \in Seq({0, 1}), c \in Seq({0, 1}) :
        h = HeadOf(l, k, n) /\ g = GapOf(l, k, n) /\ c = CntBits(l, n)
  BY <1>1, <1>2, CntBitsRight
<1>4. h \o g \o c \in Seq({0, 1}) /\ Len(h \o g \o c) = Len(h) + Len(g) + Len(c)
  OBVIOUS
<1>. QED BY <1>1, <1>2, <1>3, <1>4 DEF Piece

\* What the decoders make of the piece of a posting.
LEMMA PieceIsRead ==
  ASSUME HasCounts, NEW l \in PostingLists, NEW k \in Nat, NEW n \in 0 .. Len(l) - 1,
         NEW s, NEW w, Stands(Piece(l, k, n), s, w)
  PROVE  /\ w \in Nat \ {0}
         /\ WithHead(l, k, n) =>
              LET d == BblockDecode(s, w, DocBlk(l, k))
                  e == BblockDecode(s, d.pos, LenBlk(l, k))
              IN /\ d.x = Doc(l, n + k) - Doc(l, n)
                 /\ Reads(e, SkipLen(l, k, n), w, Len(HeadOf(l, k, n)))
         /\ ~WithHead(l, k, n) => Len(HeadOf(l, k, n)) = 0
         /\ ~NoGap(l, k, n) =>
              Reads(BblockDecode(s, w + Len(HeadOf(l, k, n)), GapBlk(l)),
                    Doc(l, n + 1) - Doc(l, n), w + Len(HeadOf(l, k, n)), Len(GapOf(l, k, n)))
         /\ NoGap(l, k, n) => Len(GapOf(l, k, n)) = 0
         /\ Reads(GammaDecode(s, w + Len(HeadOf(l, k, n)) + Len(GapOf(l, k, n))),
                  l[n + 1].count, w + Len(HeadOf(l, k, n)) + Len(GapOf(l, k, n)),
                  Len(CntBits(l, n)))
<1>1. PICK h \in Seq({0, 1}), g \in Seq({0, 1}), c \in Seq({0, 1}) :
        h = HeadOf(l, k, n) /\ g = GapOf(l, k, n) /\ c = CntBits(l, n)
  BY PieceRight, CntBitsRight
<1>2. Stands((h \o g) \o c, s, w)
  BY <1>1 DEF Piece
<1>3. h \o g \in Seq({0, 1}) /\ Len(h \o g) = Len(h) + Len(g) /\ Len(h) \in Nat /\ Len(g) \in Nat
  OBVIOUS
<1>4. Stands(h \o g, s, w) /\ Stands(c, s, w + Len(h \o g))
  BY <1>2, <1>3, StandsInParts
<1>5. Stands(h, s, w) /\ Stands(g, s, w + Len(h))
  BY <1>4, StandsInParts
<1>6. w \in Nat \ {0}
  BY <1>5 DEF Stands
<1>7. w + Len(h \o g) = w + Len(h) + Len(g)
  BY <1>3, <1>6
<1>8. WithHead(l, k, n) =>
        LET d == BblockDecode(s, w, DocBlk(l, k))
            e == BblockDecode(s, d.pos, LenBlk(l, k))
        IN /\ d.x = Doc(l, n + k) - Doc(l, n)
           /\ Reads(e, SkipLen(l, k, n), w, Len(h))
  <2>. SUFFICES ASSUME WithHead(l, k, n)
                PROVE  LET d == BblockDecode(s, w, DocBlk(l, k))
                           e == BblockDecode(s, d.pos, LenBlk(l, k))
                       IN /\ d.x = Doc(l, n + k) - Doc(l, n)
                          /\ Reads(e, SkipLen(l, k, n), w, Len(h))
    OBVIOUS
  <2>1. PICK a \in Seq({0, 1}), b \in Seq({0, 1}) : a = DocDiff(l, k, n) /\ b = SkipDiff(l, k, n)
    BY HeaderRight
  <2>2. h = a \o b
    BY <1>1, <2>1 DEF HeadOf
  <2>3. Stands(a, s, w) /\ Stands(b, s, w + Len(a))
    BY <1>5, <2>2, StandsInParts
  <2>. DEFINE d == BblockDecode(s, w, DocBlk(l, k))
              e == BblockDecode(s, d.pos, LenBlk(l, k))
  <2>4. Reads(d, Doc(l, n + k) - Doc(l, n), w, Len(a))
    BY <2>1, <2>3, HeaderRight
  <2>5. d.pos = w + Len(a)
    <3>. HIDE DEF d
    <3>. QED BY <2>4 DEF Reads
  <2>6. Reads(e, SkipLen(l, k, n), w + Len(a), Len(b))
    <3>. HIDE DEF d
    <3>. QED BY <2>1, <2>3, <2>5, HeaderRight
  <2>7. Len(h) = Len(a) + Len(b) /\ Len(a) \in Nat /\ Len(b) \in Nat
    BY <2>2
  <2>8. Reads(e, SkipLen(l, k, n), w, Len(h))
    <3>. HIDE DEF e
    <3>. QED BY <1>6, <2>6, <2>7 DEF Reads
  <2>. QED BY <2>4, <2>8 DEF Reads
<1>9. ~WithHead(l, k, n) => Len(h) = 0
  BY <1>1 DEF HeadOf
<1>10. ~NoGap(l, k, n) =>
         Reads(BblockDecode(s, w + Len(h), GapBlk(l)), Doc(l, n + 1) - Doc(l, n), w + Len(h),
               Len(g))
  BY <1>1, <1>5, GapBitsRight DEF GapOf
<1>11. NoGap(l, k, n) => Len(g) = 0
  BY <1>1 DEF GapOf
<1>12. Reads(GammaDecode(s, w + Len(h) + Len(g)), l[n + 1].count, w + Len(h) + Len(g), Len(c))
  BY <1>1, <1>4, <1>7, CntBitsRight
<1>. QED BY <1>1, <1>6, <1>8, <1>9, <1>10, <1>11, <1>12

-----------------------------------------------------------------------------
\* Where the pieces start.

LEMMA StartsUnfold ==
  ASSUME HasCounts, NEW l \in PostingLists, NEW k \in Nat
  PROVE  /\ At(l, k, 0) = 1
         /\ \A n \in 0 .. Len(l) : At(l, k, n) \in Nat \ {0}
         /\ \A n \in 0 .. Len(l) - 1 : At(l, k, n + 1) = At(l, k, n) + Len(Piece(l, k, n))
<1>. DEFINE N == Len(l)
            P(n) == Len(Piece(l, k, n))
            Q(g) == g = [n \in 0 .. N |-> IF n = 0 THEN 1 ELSE g[n - 1] + P(n - 1)]
            D == [a \in Nat \X (1 .. N) |-> a[1] + P(a[2] - 1)]
<1>1. N \in Nat
  BY ListFacts
<1>2. \A n \in 0 .. N - 1 : P(n) \in Nat
  BY PieceRight, LenProperties
<1>3. Starts(l, k) = CHOOSE g : Q(g)
  BY DEF Starts
<1>. HIDE DEF N, P
<1>4. D \in [Nat \X (1 .. N) -> Nat]
  <2>1. \A n \in 1 .. N : n - 1 \in 0 .. N - 1
    BY <1>1
  <2>. QED BY <1>1, <1>2, <2>1
<1>5. PICK g \in [0 .. N -> Nat] : RecursUpTo(g, N, 1, D)
  <2>1. 1 \in Nat
    OBVIOUS
  <2>. HIDE DEF D
  <2>. QED BY <1>1, <1>4, <2>1, RecursionUpTo, Zenon
<1>6. Q(g)
  <2>1. ASSUME NEW n \in 0 .. N PROVE g[n] = IF n = 0 THEN 1 ELSE g[n - 1] + P(n - 1)
    <3>1. CASE n = 0
      BY <1>5, <3>1 DEF RecursUpTo
    <3>2. CASE n # 0
      <4>1. n - 1 \in 0 .. N /\ n \in 1 .. N /\ <<g[n - 1], n>> \in Nat \X (1 .. N)
        BY <1>1, <3>2
      <4>2. D[<<g[n - 1], n>>] = g[n - 1] + P(n - 1)
        BY <4>1
      <4>3. g[n] = D[<<g[n - 1], n>>]
        <5>. HIDE DEF D
        <5>. QED BY <1>5, <3>2 DEF RecursUpTo
      <4>. QED BY <3>2, <4>2, <4>3
    <3>. QED BY <3>1, <3>2
  <2>. QED BY <2>1
<1>7. Q(Starts(l, k))
  <2>. HIDE DEF Q
  <2>. QED BY <1>3, <1>6
<1>8. PICK h : h = Starts(l, k)
  OBVIOUS
<1>9. h[0] = 1 /\ \A n \in 1 .. N : h[n] = h[n - 1] + P(n - 1)
  <2>1. Q(h)
    <3>. HIDE DEF Q
    <3>. QED BY <1>7, <1>8
  <2>. QED BY <1>1, <2>1
<1>. HIDE DEF Q
<1>10. ASSUME NEW n \in 0 .. N - 1 PROVE h[n + 1] = h[n] + P(n)
  <2>1. n + 1 \in 1 .. N /\ (n + 1) - 1 = n
    BY <1>1
  <2>. QED BY <1>9, <2>1
<1>11. \A n \in 0 .. N : h[n] \in Nat \ {0}
  <2>. DEFINE T == {n \in Nat : n <= N => h[n] \in Nat \ {0}}
  <2>1. 0 \in T
    BY <1>9
  <2>2. ASSUME NEW n \in Nat, n \in T PROVE n + 1 \in T
    <3>. SUFFICES ASSUME n + 1 <= N PROVE h[n + 1] \in Nat \ {0}
      OBVIOUS
    <3>1. n \in 0 .. N - 1 /\ h[n] \in Nat \ {0}
      BY <1>1, <2>2
    <3>. QED BY <1>2, <1>10, <3>1
  <2>3. Nat \subseteq T
    <3>. HIDE DEF T
    <3>. QED BY <2>1, <2>2, SetInduction
  <2>. QED BY <1>1, <2>3
<1>. QED BY <1>8, <1>9, <1>10, <1>11 DEF At, N, P

-----------------------------------------------------------------------------
\* Streams that are laid out.

LEMMA NoSkipsSize == ASSUME NEW l PROVE Size(l, NoSkips) = 0
BY DEF Size, NoSkips

\* An empty stream is the first none of a list.
LEMMA LayoutEmpty ==
  ASSUME HasCounts, NEW l \in PostingLists, NEW k \in Nat PROVE Layout(l, k, <<>>, 0)
<1>1. At(l, k, 0) = 1 /\ <<>> \in Seq({0, 1}) /\ Len(<<>>) = 0
  BY StartsUnfold
<1>2. \A n \in 0 .. Len(l) : ~(n < 0)
  BY ListFacts
<1>. QED BY <1>1, <1>2 DEF Layout

LEMMA LayoutGrows ==
  ASSUME HasCounts, NEW l \in PostingLists, NEW k \in Nat, NEW n \in 0 .. Len(l) - 1,
         NEW s, Layout(l, k, s, n)
  PROVE  Layout(l, k, s \o Piece(l, k, n), n + 1)
<1>1. /\ s \in Seq({0, 1}) /\ Len(s) + 1 = At(l, k, n)
      /\ \A m \in 0 .. Len(l) : m < n => Stands(Piece(l, k, m), s, At(l, k, m))
  BY DEF Layout
<1>2. PICK c \in Seq({0, 1}) : c = Piece(l, k, n)
  BY PieceRight
<1>3. s \o c \in Seq({0, 1}) /\ Len(s \o c) = Len(s) + Len(c) /\ Len(s) \in Nat /\ Len(c) \in Nat
  BY <1>1
<1>4. At(l, k, n + 1) = At(l, k, n) + Len(c)
  BY <1>2, StartsUnfold
<1>5. Len(s \o c) + 1 = At(l, k, n + 1)
  BY <1>1, <1>3, <1>4
<1>6. ASSUME NEW m \in 0 .. Len(l), m < n + 1 PROVE Stands(Piece(l, k, m), s \o c, At(l, k, m))
  <2>1. CASE m < n
    BY <1>1, <1>2, <2>1, StandsInLonger
  <2>2. CASE ~(m < n)
    <3>1. m = n
      BY <1>6, <2>2, ListFacts
    <3>2. Stands(c, s \o c, Len(s) + 1)
      BY <1>1, StandsAtEnd
    <3>. QED BY <1>1, <1>2, <3>1, <3>2
  <2>. QED BY <2>1, <2>2
<1>. QED BY <1>2, <1>3, <1>5, <1>6 DEF Layout

\* The list mg_passes writes has no skips.
LEMMA UnskippedRight ==
  ASSUME HasCounts, NEW l \in PostingLists PROVE Layout(l, 0, Unskipped(l), Len(l))
<1>. DEFINE q == Codes(l)
<1>1. /\ q \in Seq(Seq({0, 1})) /\ Len(q) = Len(l) /\ Len(l) \in Nat
      /\ \A n \in 0 .. Len(l) - 1 : q[n + 1] = GapBits(l, n) \o CntBits(l, n)
  BY CodesRight, ListFacts
<1>2. Unskipped(l) = FlattenSeq(q)
  BY DEF Unskipped
<1>. HIDE DEF q
<1>3. PICK h \in [0 .. Len(q) -> Seq({0, 1})] :
        /\ h[0] = <<>>
        /\ \A n \in 1 .. Len(q) : h[n] = h[n - 1] \o q[n]
        /\ \A n \in 0 .. Len(q) : FlattenSeq(SubSeq(q, 1, n)) = h[n]
  BY <1>1, JoinPrefix
<1>4. ASSUME NEW n \in 0 .. Len(l) - 1 PROVE q[n + 1] = Piece(l, 0, n)
  <2>1. HeadOf(l, 0, n) = <<>> /\ GapOf(l, 0, n) = GapBits(l, n)
    BY DEF HeadOf, GapOf, WithHead, NoGap
  <2>2. PICK g \in Seq({0, 1}) : g = GapBits(l, n)
    BY GapBitsRight
  <2>3. <<>> \o g = g
    BY ConcatEmptySeq
  <2>. QED BY <1>1, <2>1, <2>2, <2>3 DEF Piece
<1>. DEFINE T == {n \in Nat : n <= Len(l) => Layout(l, 0, h[n], n)}
<1>5. 0 \in T
  BY <1>3, LayoutEmpty
<1>6. ASSUME NEW n \in Nat, n \in T PROVE n + 1 \in T
  <2>. SUFFICES ASSUME n + 1 <= Len(l) PROVE Layout(l, 0, h[n + 1], n + 1)
    OBVIOUS
  <2>1. n \in 0 .. Len(l) - 1 /\ n + 1 \in 1 .. Len(q) /\ (n + 1) - 1 = n /\ n <= Len(l)
    BY <1>1
  <2>2. Layout(l, 0, h[n], n)
    BY <1>6, <2>1
  <2>3. h[n + 1] = h[n] \o q[n + 1]
    BY <1>3, <2>1
  <2>4. h[n + 1] = h[n] \o Piece(l, 0, n)
    BY <1>4, <2>1, <2>3
  <2>. QED BY <2>1, <2>2, <2>4, LayoutGrows
<1>7. Nat \subseteq T
  <2>. HIDE DEF T
  <2>. QED BY <1>5, <1>6, SetInduction
<1>8. Layout(l, 0, h[Len(l)], Len(l))
  BY <1>1, <1>7
<1>9. h[Len(l)] = FlattenSeq(q)
  <2>1. SubSeq(q, 1, Len(q)) = q /\ Len(q) \in 0 .. Len(q)
    BY <1>1
  <2>2. FlattenSeq(SubSeq(q, 1, Len(q))) = h[Len(q)]
    BY <1>3, <2>1
  <2>. QED BY <1>1, <2>1, <2>2
<1>. QED BY <1>2, <1>8, <1>9

-----------------------------------------------------------------------------
(***************************************************************************)
(* A header gives the start of the next block: the pieces of a block take  *)
(* the bits of its codes without the last gap, and its header.             *)
(***************************************************************************)
LEMMA SameShift ==
  ASSUME NEW x \in Nat, NEW h \in Nat, NEW g \in Nat, NEW c \in Nat, NEW y \in Nat,
         NEW z \in Nat, NEW d \in Nat, NEW b \in Nat, x + h = y + z + (d - b)
  PROVE  x + h + g + c + 0 = y + z + ((d + g + c) - b)
OBVIOUS

LEMMA BlockSpan ==
  ASSUME HasCounts, NEW l \in PostingLists, NEW k \in Nat, NEW n \in 0 .. Len(l) - 1,
         WithHead(l, k, n)
  PROVE  At(l, k, n + k) = At(l, k, n) + Len(HeadOf(l, k, n)) + SkipLen(l, k, n)
<1>1. /\ k \in Nat \ {0} /\ n % k = 0 /\ n + k < Len(l) /\ Len(l) \in Nat /\ n \in Nat
  BY ListFacts DEF WithHead
<1>2. PICK H \in Nat : H = Len(HeadOf(l, k, n))
  BY PieceRight
\* Up to the code of posting t of the block.
<1>. DEFINE T == {t \in Nat : t <= k - 1 =>
                   At(l, k, n + t) + Len(HeadOf(l, k, n + t))
                     = At(l, k, n) + H + (LenTo(l, n + t) - LenTo(l, n))}
<1>3. PICK a \in Nat, b \in Nat : a = At(l, k, n) /\ b = LenTo(l, n)
  <2>1. n \in 0 .. Len(l)
    BY <1>1
  <2>. QED BY <2>1, StartsUnfold, LenToRight
<1>4. 0 \in T
  <2>1. n + 0 = n /\ a + H = a + H + (b - b)
    BY <1>1
  <2>. QED BY <1>2, <1>3, <2>1
<1>5. ASSUME NEW t \in Nat, t <= k - 1
      PROVE  \E u \in 0 .. Len(l) - 1 :
               /\ u = n + t /\ n + (t + 1) = u + 1 /\ u \in 0 .. Len(l)
               /\ t > 0 => Len(HeadOf(l, k, u)) = 0
               /\ NoGap(l, k, u) <=> t = k - 1
  <2>. PICK u \in 0 .. Len(l) - 1 : u = n + t
    BY <1>1, <1>5
  <2>1. u \in 0 .. Len(l) /\ n + (t + 1) = u + 1 /\ t \in 0 .. k - 1 /\ u # Len(l) - 1
    BY <1>1, <1>5
  <2>2. u % k = t
    BY <1>1, <2>1, InBlock
  <2>3. NoGap(l, k, u) <=> t = k - 1
    BY <1>1, <2>1, <2>2 DEF NoGap
  <2>4. t > 0 => Len(HeadOf(l, k, u)) = 0
    <3>1. t > 0 => ~WithHead(l, k, u)
      BY <2>2 DEF WithHead
    <3>. QED BY <3>1 DEF HeadOf
  <2>. QED BY <2>1, <2>3, <2>4
\* From the code of one posting to the start of the next.
<1>6. ASSUME NEW u \in 0 .. Len(l) - 1
      PROVE  \E x, h, g, c \in Nat :
               /\ x = At(l, k, u) /\ h = Len(HeadOf(l, k, u))
               /\ g = Len(GapOf(l, k, u)) /\ c = Len(CntBits(l, u))
               /\ At(l, k, u + 1) = x + h + g + c
  <2>1. u \in 0 .. Len(l)
    BY <1>1
  <2>2. /\ At(l, k, u) \in Nat /\ Len(HeadOf(l, k, u)) \in Nat
        /\ Len(GapOf(l, k, u)) \in Nat /\ Len(CntBits(l, u)) \in Nat
    BY <2>1, PieceRight, CntBitsRight, StartsUnfold
  <2>3. At(l, k, u + 1) = At(l, k, u) + Len(Piece(l, k, u))
    BY StartsUnfold
  <2>4. Len(Piece(l, k, u))
          = Len(HeadOf(l, k, u)) + Len(GapOf(l, k, u)) + Len(CntBits(l, u))
    BY PieceRight
  <2>5. At(l, k, u + 1) = At(l, k, u) + Len(HeadOf(l, k, u)) + Len(GapOf(l, k, u))
                            + Len(CntBits(l, u))
    BY <2>2, <2>3, <2>4
  <2>. QED BY <2>2, <2>5
<1>7. ASSUME NEW t \in Nat, t \in T PROVE t + 1 \in T
  <2>. SUFFICES ASSUME t + 1 <= k - 1
                PROVE At(l, k, n + (t + 1)) + Len(HeadOf(l, k, n + (t + 1)))
                        = At(l, k, n) + H + (LenTo(l, n + (t + 1)) - LenTo(l, n))
    OBVIOUS
  <2>1. t <= k - 1 /\ t # k - 1 /\ t + 1 \in Nat /\ t + 1 > 0
    BY <1>1
  <2>. PICK u \in 0 .. Len(l) - 1 :
         /\ u = n + t /\ n + (t + 1) = u + 1 /\ u \in 0 .. Len(l)
         /\ NoGap(l, k, u) <=> t = k - 1
    BY <1>5, <2>1
  <2>2. Len(HeadOf(l, k, u + 1)) = 0
    BY <1>5, <2>1
  <2>. PICK x \in Nat, h \in Nat, g \in Nat, c \in Nat :
         /\ x = At(l, k, u) /\ h = Len(HeadOf(l, k, u))
         /\ g = Len(GapOf(l, k, u)) /\ c = Len(CntBits(l, u))
         /\ At(l, k, u + 1) = x + h + g + c
    BY <1>6
  <2>3. PICK d \in Nat : d = LenTo(l, u)
    BY LenToRight
  <2>4. x + h = a + H + (d - b)
    BY <1>3, <1>7, <2>1, <2>3
  <2>5. g = Len(GapBits(l, u))
    BY <2>1 DEF GapOf
  <2>6. LenTo(l, u + 1) = d + g + c
    BY <2>3, <2>5, LenToRight
  <2>7. x + h + g + c + 0 = a + H + ((d + g + c) - b)
    <3>1. H \in Nat
      BY <1>2
    <3>2. a \in Nat /\ b \in Nat
      BY <1>3
    <3>3. x \in Nat /\ h \in Nat /\ g \in Nat /\ c \in Nat
      OBVIOUS
    <3>4. d \in Nat
      BY <2>3
    <3>. QED BY ONLY <3>1, <3>2, <3>3, <3>4, <2>4, SameShift
  <2>. QED BY <1>3, <2>2, <2>6, <2>7
<1>8. Nat \subseteq T
  <2>. HIDE DEF T
  <2>. QED BY <1>4, <1>7, SetInduction
<1>9. PICK t \in Nat : t = k - 1 /\ t <= k - 1
  BY <1>1
<1>. PICK u \in 0 .. Len(l) - 1 :
         /\ u = n + t /\ n + (t + 1) = u + 1 /\ u \in 0 .. Len(l)
         /\ NoGap(l, k, u) <=> t = k - 1
  BY <1>5, <1>9
<1>10. u + 1 = n + k /\ u = n + k - 1
  BY <1>1, <1>9
<1>11. PICK x \in Nat, h \in Nat, g \in Nat, c \in Nat :
         /\ x = At(l, k, u) /\ h = Len(HeadOf(l, k, u))
         /\ g = Len(GapOf(l, k, u)) /\ c = Len(CntBits(l, u))
         /\ At(l, k, u + 1) = x + h + g + c
  BY <1>6
<1>12. g = 0
  BY <1>9, <1>11 DEF GapOf
<1>13. PICK d \in Nat : d = LenTo(l, u)
  BY LenToRight
<1>14. x + h = a + H + (d - b)
  BY <1>3, <1>8, <1>9, <1>11, <1>13
<1>15. SkipLen(l, k, n) = d + c - b
  BY <1>3, <1>10, <1>11, <1>13 DEF SkipLen
<1>16. x + h + g + c = a + H + ((d + c) - b)
  <2>1. H \in Nat /\ a \in Nat /\ b \in Nat
    BY <1>2, <1>3
  <2>2. x \in Nat /\ h \in Nat /\ c \in Nat /\ g = 0
    BY <1>11, <1>12
  <2>3. d \in Nat
    BY <1>13
  <2>. QED BY ONLY <2>1, <2>2, <2>3, <1>14
<1>17. At(l, k, n + k) = a + H + SkipLen(l, k, n)
  <2>1. At(l, k, n + k) = x + h + g + c
    BY <1>10, <1>11
  <2>. QED BY ONLY <2>1, <1>15, <1>16
<1>. QED BY <1>2, <1>3, <1>17

-----------------------------------------------------------------------------
\* The invariant holds at the start and while mg_invf_rebuild reads.

LEMMA ModesRight ==
  ASSUME NEW l \in PostingLists, NEW m \in Modes PROVE Size(l, m) \in Nat
BY SizeRight DEF Modes

LEMMA SkipInitRight == ASSUME HasCounts, SkipInit PROVE SkipInv
<1>1. postings \in PostingLists /\ prog = "none" /\ turn = "top"
  BY DEF SkipInit
<1>2. Size(postings, mode) = 0
  BY NoSkipsSize DEF SkipInit
<1>3. FileInv
  BY <1>1, <1>2, UnskippedRight DEF SkipInit, FileInv, Modes
<1>4. Idle
  BY DEF SkipInit, Idle
<1>. QED BY <1>1, <1>3, <1>4 DEF SkipInv, ReadInv, WriteInv, CursorInv, ListInv, AnswerIsRight

LEMMA AnswerKept ==
  ASSUME AnswerIsRight, postings' = postings, UNCHANGED <<op, L, candidates, turn>>
  PROVE  AnswerIsRight'
<1>1. p' = p /\ DocsOf(postings)' = DocsOf(postings)
  BY DEF p, DocsOf
<1>. QED BY <1>1 DEF AnswerIsRight

LEMMA StartRebuildRight == ASSUME HasCounts, SkipInv, StartRebuild PROVE SkipInv'
<1>1. /\ prog = "none" /\ prog' = "read" /\ outmode' \in Modes
      /\ UNCHANGED <<postings, file, mode, out, ii, j, doc_num, bits_so_far, next_mjr_dn,
                     last_major, in_pos, promised>>
      /\ UNCHANGED <<op, L, candidates, turn>>
  BY DEF StartRebuild, given, getvars, Modes
<1>2. FileInv /\ Idle /\ AnswerIsRight
  BY <1>1 DEF SkipInv
<1>3. FileInv'
  BY <1>1, <1>2 DEF FileInv
<1>4. AnswerIsRight'
  BY <1>1, <1>2, AnswerKept
<1>5. PICK l \in PostingLists, k \in Nat : l = postings /\ k = Size(postings, mode)
  BY <1>2, ModesRight DEF FileInv
<1>6. /\ j' = 0 /\ doc_num' = 0 /\ in_pos' = 1 /\ bits_so_far' = 0 /\ ii' = <<>>
      /\ out' = <<>> /\ promised' = 0
  BY <1>1, <1>2 DEF Idle
<1>7. /\ 0 \in 0 .. Len(l) /\ Doc(l, 0) = 0 /\ At(l, k, 0) = 1 /\ LenTo(l, 0) = 0
      /\ <<>> = [n \in 1 .. 0 |-> Noted(l, n)] /\ (k > 0 => 0 % k = 0)
  <2>1. Doc(l, 0) = 0
    BY DEF Doc
  <2>2. <<>> = [n \in 1 .. 0 |-> Noted(l, n)]
    OBVIOUS
  <2>3. k > 0 => 0 % k = 0
    OBVIOUS
  <2>. QED BY <2>1, <2>2, <2>3, StartsUnfold, LenToRight, ListFacts
<1>8. ReadInv'
  <2>1. postings' = l /\ Size(postings', mode') = k
    BY <1>1, <1>5
  <2>. QED BY <1>6, <1>7, <2>1 DEF ReadInv
<1>. QED BY <1>1, <1>3, <1>4, <1>8 DEF SkipInv, WriteInv, CursorInv, ListInv

\* What a step of the loop that reads does; the third line of the code, of the
\* counts, is the one of a list with counts.
LEMMA ReadStep ==
  ASSUME HasCounts, ReadPosting
  PROVE  LET k      == SkipSize(mode)
             major  == BblockDecode(file, in_pos, dn_blk(k))
             length == BblockDecode(file, major.pos, len_blk(k))
             next   == IF HasHeader(j, k) THEN doc_num + major.x ELSE next_mjr_dn
             start  == IF HasHeader(j, k) THEN length.pos ELSE in_pos
             gap    == IF GapOmitted(j, k) THEN [x |-> next - doc_num, pos |-> start]
                       ELSE BblockDecode(file, start, blk)
             count  == GammaDecode(file, gap.pos)
         IN /\ next_mjr_dn' = next
            /\ doc_num' = doc_num + gap.x
            /\ in_pos' = count.pos
            /\ bits_so_far' = bits_so_far + BblockLength(gap.x, blk) + (count.pos - gap.pos)
            /\ ii' = Append(ii, [doc_num |-> doc_num + gap.x, count |-> count.x,
                                 bits_so_far |-> bits_so_far,
                                 count_bits |-> count.pos - gap.pos])
BY DEF ReadPosting

\* A posting read is the next of the list.
LEMMA ReadRight ==
  ASSUME HasCounts, FileInv, ReadInv, ReadPosting,
         NEW l \in PostingLists, l = postings, NEW k \in Nat, k = Size(postings, mode)
  PROVE  /\ j \in 0 .. Len(l) - 1 /\ j' = j + 1
         /\ doc_num' = Doc(l, j + 1)
         /\ in_pos' = At(l, k, j + 1)
         /\ bits_so_far' = LenTo(l, j + 1)
         /\ ii' = [n \in 1 .. j + 1 |-> Noted(l, n)]
         /\ next_mjr_dn' = IF WithHead(l, k, j) THEN Doc(l, j + k) ELSE next_mjr_dn
<1>1. /\ p = Len(l) /\ blk = GapBlk(l) /\ SkipSize(mode) = k
      /\ dn_blk(k) = DocBlk(l, k) /\ len_blk(k) = LenBlk(l, k)
  BY OfPostings
<1>2. /\ HasHeader(j, SkipSize(mode)) <=> WithHead(l, k, j)
      /\ GapOmitted(j, SkipSize(mode)) <=> NoGap(l, k, j)
  BY <1>1 DEF HasHeader, WithHead, GapOmitted, NoGap
<1>3. /\ prog = "read" /\ j < p /\ j' = j + 1 /\ j \in 0 .. Len(l)
  BY DEF ReadPosting, ReadInv
<1>4. j \in 0 .. Len(l) - 1 /\ Len(l) \in Nat
  BY <1>1, <1>3, ListFacts
<1>5. /\ doc_num = Doc(l, j) /\ in_pos = At(l, k, j) /\ bits_so_far = LenTo(l, j)
      /\ ii = [n \in 1 .. j |-> Noted(l, n)]
      /\ (k > 0 /\ j % k # 0 /\ BlockEnd(j, k) < Len(l)) => next_mjr_dn = Doc(l, BlockEnd(j, k))
  BY <1>3 DEF ReadInv
<1>6. Stands(Piece(l, k, j), file, in_pos)
  BY <1>1, <1>3, <1>5 DEF FileInv, Layout
<1>. DEFINE major  == BblockDecode(file, in_pos, dn_blk(SkipSize(mode)))
            length == BblockDecode(file, major.pos, len_blk(SkipSize(mode)))
            next   == IF HasHeader(j, SkipSize(mode)) THEN doc_num + major.x ELSE next_mjr_dn
            start  == IF HasHeader(j, SkipSize(mode)) THEN length.pos ELSE in_pos
            gap    == IF GapOmitted(j, SkipSize(mode)) THEN [x |-> next - doc_num, pos |-> start]
                      ELSE BblockDecode(file, start, blk)
            count  == GammaDecode(file, gap.pos)
            note   == [doc_num |-> doc_num + gap.x, count |-> count.x,
                       bits_so_far |-> bits_so_far, count_bits |-> count.pos - gap.pos]
<1>7. /\ next_mjr_dn' = next
      /\ doc_num' = doc_num + gap.x
      /\ in_pos' = count.pos
      /\ bits_so_far' = bits_so_far + BblockLength(gap.x, blk) + (count.pos - gap.pos)
      /\ ii' = Append(ii, note)
  BY ReadStep
<1>8. PICK h \in Nat, g \in Nat, c \in Nat :
        /\ h = Len(HeadOf(l, k, j)) /\ g = Len(GapOf(l, k, j)) /\ c = Len(CntBits(l, j))
  BY <1>4, PieceRight, CntBitsRight
<1>9. in_pos \in Nat
  BY <1>4, <1>6, PieceIsRead
<1>10. /\ Doc(l, j) \in Nat /\ Doc(l, j + 1) \in Nat
       /\ WithHead(l, k, j) => Doc(l, j + k) \in Nat
  BY <1>4, GapBitsRight, HeaderRight
<1>11. WithHead(l, k, j) => next = Doc(l, j + k) /\ start = in_pos + h
  <2>. SUFFICES ASSUME WithHead(l, k, j) PROVE next = Doc(l, j + k) /\ start = in_pos + h
    OBVIOUS
  <2>1. major.x = Doc(l, j + k) - Doc(l, j) /\ length.pos = in_pos + h
    BY <1>1, <1>4, <1>6, <1>8, PieceIsRead DEF Reads
  <2>. HIDE DEF major, length
  <2>2. next = doc_num + major.x /\ start = length.pos
    BY <1>2
  <2>. QED BY <1>5, <1>10, <2>1, <2>2
<1>12. ~WithHead(l, k, j) => next = next_mjr_dn /\ start = in_pos + h
  <2>1. ~WithHead(l, k, j) => h = 0
    BY <1>4, <1>6, <1>8, PieceIsRead
  <2>. QED BY <1>2, <1>9, <2>1
<1>13. next = IF WithHead(l, k, j) THEN Doc(l, j + k) ELSE next_mjr_dn
  BY <1>11, <1>12
<1>14. start = in_pos + h
  BY <1>11, <1>12
<1>. HIDE DEF major, length, next, start
<1>15. gap.x = Doc(l, j + 1) - Doc(l, j) /\ gap.pos = in_pos + h + g
  <2>1. CASE NoGap(l, k, j)
    <3>1. gap = [x |-> next - doc_num, pos |-> start]
      BY <1>2, <2>1
    <3>2. next = Doc(l, j + 1)
      <4>1. k \in Nat \ {0} /\ j \in Nat /\ j % k = k - 1 /\ j + 1 < Len(l)
        BY <1>4, <2>1 DEF NoGap
      <4>2. BlockEnd(j, k) = j + 1
        BY <4>1, BlockFacts
      <4>3. CASE WithHead(l, k, j)
        <5>1. k = 1
          BY <4>1, <4>3 DEF WithHead
        <5>. QED BY <1>13, <4>3, <5>1
      <4>4. CASE ~WithHead(l, k, j)
        <5>1. j % k # 0
          <6>. SUFFICES ASSUME j % k = 0 PROVE FALSE
            OBVIOUS
          <6>1. k = 1
            BY <4>1
          <6>. QED BY <4>1, <4>4, <6>1 DEF WithHead
        <5>2. next_mjr_dn = Doc(l, BlockEnd(j, k))
          BY <1>5, <4>1, <4>2, <5>1
        <5>. QED BY <1>13, <4>2, <4>4, <5>2
      <4>. QED BY <4>3, <4>4
    <3>3. g = 0
      BY <1>4, <1>6, <1>8, <2>1, PieceIsRead
    <3>4. gap.x = next - doc_num /\ gap.pos = start
      BY <3>1
    <3>. QED BY <1>5, <1>8, <1>9, <1>14, <3>2, <3>3, <3>4
  <2>2. CASE ~NoGap(l, k, j)
    <3>1. gap = BblockDecode(file, in_pos + h, GapBlk(l))
      BY <1>1, <1>2, <1>14, <2>2
    <3>2. Reads(BblockDecode(file, in_pos + h, GapBlk(l)), Doc(l, j + 1) - Doc(l, j), in_pos + h, g)
      BY <1>4, <1>6, <1>8, <2>2, PieceIsRead
    <3>. HIDE DEF gap
    <3>. QED BY <3>1, <3>2 DEF Reads
  <2>. QED BY <2>1, <2>2
<1>. HIDE DEF gap
<1>16. count.x = l[j + 1].count /\ count.pos = in_pos + h + g + c
  <2>1. Reads(GammaDecode(file, in_pos + h + g), l[j + 1].count, in_pos + h + g, c)
    BY <1>4, <1>6, <1>8, PieceIsRead
  <2>. QED BY <1>15, <2>1 DEF Reads
<1>. HIDE DEF count
<1>17. doc_num' = Doc(l, j + 1)
  BY <1>5, <1>7, <1>10, <1>15
<1>18. in_pos' = At(l, k, j + 1)
  <2>1. At(l, k, j + 1) = At(l, k, j) + Len(Piece(l, k, j)) /\ At(l, k, j) \in Nat
    BY <1>4, <1>3, StartsUnfold
  <2>2. Len(Piece(l, k, j)) = h + g + c
    BY <1>4, <1>8, PieceRight
  <2>3. At(l, k, j + 1) = in_pos + (h + g + c)
    BY <1>5, <2>1, <2>2
  <2>4. in_pos' = in_pos + h + g + c
    BY <1>7, <1>16
  <2>5. in_pos \in Nat /\ h \in Nat /\ g \in Nat /\ c \in Nat
    BY <1>8, <1>9
  <2>. QED BY ONLY <2>3, <2>4, <2>5
<1>19. count.pos - gap.pos = c
  BY <1>8, <1>9, <1>15, <1>16
<1>20. bits_so_far' = LenTo(l, j + 1)
  <2>1. LenTo(l, j + 1) = LenTo(l, j) + Len(GapBits(l, j)) + Len(CntBits(l, j))
    BY <1>4, LenToRight
  <2>2. Len(GapBits(l, j)) = BblockLength(gap.x, blk)
    BY <1>1, <1>4, <1>15, GapBitsRight
  <2>. QED BY <1>5, <1>7, <1>8, <1>19, <2>1, <2>2
<1>21. note = Noted(l, j + 1)
  <2>1. Doc(l, j + 1) = l[j + 1].doc_num /\ (j + 1) - 1 = j
    BY <1>4, GapBitsRight
  <2>2. doc_num + gap.x = l[j + 1].doc_num
    BY <1>5, <1>10, <1>15, <2>1
  <2>. QED BY <1>5, <1>8, <1>16, <1>19, <2>1, <2>2 DEF Noted
<1>. HIDE DEF note
<1>22. ii' = [n \in 1 .. j + 1 |-> Noted(l, n)]
  <2>1. ii' = Append([n \in 1 .. j |-> Noted(l, n)], Noted(l, j + 1))
    BY <1>5, <1>7, <1>21
  <2>. DEFINE F(n) == Noted(l, n)
  <2>. HIDE DEF F
  <2>2. Append([n \in 1 .. j |-> F(n)], F(j + 1)) = [n \in 1 .. j + 1 |-> F(n)]
    BY <1>4
  <2>. QED BY <2>1, <2>2 DEF F
<1>. QED BY <1>3, <1>4, <1>7, <1>13, <1>17, <1>18, <1>20, <1>22

LEMMA ReadPostingRight == ASSUME HasCounts, SkipInv, ReadPosting PROVE SkipInv'
<1>1. /\ prog = "read" /\ prog' = "read"
      /\ UNCHANGED <<postings, file, mode, outmode, out, last_major, promised>>
      /\ UNCHANGED <<op, L, candidates, turn>>
  BY DEF ReadPosting, given, getvars, SkipInv, FileInv
<1>2. FileInv /\ ReadInv /\ AnswerIsRight
  BY DEF SkipInv
<1>3. FileInv'
  BY <1>1, <1>2 DEF FileInv
<1>4. AnswerIsRight'
  BY <1>1, <1>2, AnswerKept
<1>5. PICK l \in PostingLists, k \in Nat : l = postings /\ k = Size(postings, mode)
  BY <1>2, ModesRight DEF FileInv
<1>6. /\ j \in 0 .. Len(l) - 1 /\ j' = j + 1
      /\ doc_num' = Doc(l, j + 1)
      /\ in_pos' = At(l, k, j + 1)
      /\ bits_so_far' = LenTo(l, j + 1)
      /\ ii' = [n \in 1 .. j + 1 |-> Noted(l, n)]
      /\ next_mjr_dn' = IF WithHead(l, k, j) THEN Doc(l, j + k) ELSE next_mjr_dn
  BY <1>2, <1>5, ReadRight
<1>7. j + 1 \in 0 .. Len(l) /\ Len(l) \in Nat
  BY <1>6, ListFacts
<1>8. ASSUME k > 0, (j + 1) % k # 0, BlockEnd(j + 1, k) < Len(l)
      PROVE  next_mjr_dn' = Doc(l, BlockEnd(j + 1, k))
  <2>1. k \in Nat \ {0} /\ j \in Nat
    BY <1>6, <1>8
  <2>2. j % k # k - 1 /\ BlockEnd(j + 1, k) = BlockEnd(j, k)
    BY <1>8, <2>1, BlockFacts
  <2>3. CASE j % k = 0
    <3>1. BlockEnd(j, k) = j + k
      BY <2>1, <2>3 DEF BlockEnd
    <3>2. WithHead(l, k, j)
      BY <1>8, <2>1, <2>2, <2>3, <3>1 DEF WithHead
    <3>. QED BY <1>6, <2>2, <3>1, <3>2
  <2>4. CASE j % k # 0
    <3>1. ~WithHead(l, k, j)
      BY <2>4 DEF WithHead
    <3>2. next_mjr_dn = Doc(l, BlockEnd(j, k))
      BY <1>1, <1>2, <1>5, <1>8, <2>2, <2>4 DEF ReadInv
    <3>. QED BY <1>6, <2>2, <3>1, <3>2
  <2>. QED BY <2>3, <2>4
<1>9. out' = <<>> /\ promised' = 0
  BY <1>1, <1>2 DEF ReadInv
<1>10. ReadInv'
  <2>1. postings' = l /\ Size(postings', mode') = k
    BY <1>1, <1>5
  <2>. QED BY <1>6, <1>7, <1>8, <1>9, <2>1 DEF ReadInv
<1>. QED BY <1>1, <1>3, <1>4, <1>10 DEF SkipInv, WriteInv, CursorInv, ListInv

-----------------------------------------------------------------------------
\* The invariant holds while mg_invf_rebuild writes.

LEMMA DoneReadingRight == ASSUME HasCounts, SkipInv, DoneReading PROVE SkipInv'
<1>1. /\ prog = "read" /\ prog' = "write" /\ j = p
      /\ j' = 0 /\ doc_num' = 0 /\ bits_so_far' = 0 /\ last_major' = 0
      /\ UNCHANGED <<postings, file, mode, outmode, out, ii, promised>>
      /\ UNCHANGED <<op, L, candidates, turn>>
  BY DEF DoneReading, given, getvars
<1>2. FileInv /\ ReadInv /\ AnswerIsRight
  BY DEF SkipInv
<1>3. FileInv'
  BY <1>1, <1>2 DEF FileInv
<1>4. AnswerIsRight'
  BY <1>1, <1>2, AnswerKept
<1>5. PICK l \in PostingLists, k \in Nat : l = postings /\ k = Size(postings, outmode)
  BY <1>2, ModesRight DEF FileInv
<1>6. out = <<>> /\ ii = [n \in 1 .. j |-> Noted(l, n)] /\ j = Len(l)
  BY <1>1, <1>2, <1>5, OfPostings DEF ReadInv
<1>7. /\ 0 \in 0 .. Len(l) /\ Doc(l, 0) = 0 /\ LenTo(l, 0) = 0 /\ Layout(l, k, <<>>, 0)
  BY LenToRight, ListFacts, LayoutEmpty DEF Doc
<1>8. k > 0 => NextBlock(0, k) = 0
  <2>1. k > 0 => 0 % k = 0
    OBVIOUS
  <2>. QED BY <2>1 DEF NextBlock
<1>9. WriteInv'
  <2>1. postings' = l /\ Size(postings', outmode') = k /\ out' = <<>>
        /\ ii' = [n \in 1 .. Len(l) |-> Noted(l, n)]
    BY <1>1, <1>5, <1>6
  <2>. QED BY <1>1, <1>7, <1>8, <2>1 DEF WriteInv
<1>. QED BY <1>1, <1>3, <1>4, <1>9 DEF SkipInv, ReadInv, CursorInv, ListInv

LEMMA JoinRight ==
  ASSUME NEW S, NEW a \in Seq(S), NEW b \in Seq(S), NEW c \in Seq(S)
  PROVE  (a \o b) \o c = a \o (b \o c) /\ a \o b \in Seq(S)
BY ConcatAssociative, ConcatProperties

\* What is written for a posting is its piece.
LEMMA WriteRight ==
  ASSUME HasCounts, FileInv, WriteInv, WritePosting,
         NEW l \in PostingLists, l = postings, NEW k \in Nat, k = Size(postings, outmode)
  PROVE  /\ j \in 0 .. Len(l) - 1 /\ j' = j + 1
         /\ doc_num' = Doc(l, j + 1)
         /\ out' = out \o Piece(l, k, j)
         /\ WithHead(l, k, j) =>
              /\ last_major' = Doc(l, j + k)
              /\ bits_so_far' = LenTo(l, j + k)
              /\ promised' = At(l, k, j + k) - 1
         /\ ~WithHead(l, k, j) => UNCHANGED <<last_major, bits_so_far, promised>>
<1>1. /\ p = Len(l) /\ blk = GapBlk(l) /\ SkipSize(outmode) = k
      /\ dn_blk(k) = DocBlk(l, k) /\ len_blk(k) = LenBlk(l, k)
  BY OfPostings
<1>2. /\ HasHeader(j, SkipSize(outmode)) <=> WithHead(l, k, j)
      /\ GapOmitted(j, SkipSize(outmode)) <=> NoGap(l, k, j)
  BY <1>1 DEF HasHeader, WithHead, GapOmitted, NoGap
<1>3. /\ prog = "write" /\ j < p /\ j' = j + 1 /\ j \in 0 .. Len(l)
  BY DEF WritePosting, WriteInv
<1>4. j \in 0 .. Len(l) - 1 /\ Len(l) \in Nat /\ j \in Nat /\ j + 1 \in 1 .. Len(l)
  BY <1>1, <1>3, ListFacts
<1>5. /\ doc_num = Doc(l, j)
      /\ ii = [n \in 1 .. Len(l) |-> Noted(l, n)]
      /\ Layout(l, k, out, j)
      /\ (k > 0 /\ NextBlock(j, k) < Len(l)) =>
           last_major = Doc(l, NextBlock(j, k)) /\ bits_so_far = LenTo(l, NextBlock(j, k))
  BY <1>3 DEF WriteInv
<1>6. ASSUME NEW n \in 1 .. Len(l)
      PROVE  /\ ii[n].doc_num = Doc(l, n) /\ ii[n].count = l[n].count
             /\ ii[n].bits_so_far = LenTo(l, n - 1)
             /\ ii[n].count_bits = Len(CntBits(l, n - 1))
  <2>1. ii[n] = Noted(l, n)
    BY <1>5
  <2>2. Doc(l, n) = l[n].doc_num
    BY DEF Doc
  <2>. QED BY <2>1, <2>2 DEF Noted
<1>. DEFINE head == IF HasHeader(j, SkipSize(outmode)) THEN Header(SkipSize(outmode)) ELSE <<>>
            gap  == IF GapOmitted(j, SkipSize(outmode)) THEN <<>>
                    ELSE Bblock(ii[j + 1].doc_num - doc_num, blk)
            cnt  == CountBits(ii[j + 1].count)
<1>7. /\ out' = out \o head \o gap \o cnt
      /\ IF HasHeader(j, SkipSize(outmode))
         THEN /\ last_major' = ii[j + SkipSize(outmode)].doc_num
              /\ bits_so_far' = ii[j + SkipSize(outmode) + 1].bits_so_far
              /\ promised' = Len(out \o head) + SkipLength(SkipSize(outmode))
         ELSE UNCHANGED <<last_major, bits_so_far, promised>>
      /\ doc_num' = ii[j + 1].doc_num
  BY DEF WritePosting
<1>8. gap = GapOf(l, k, j) /\ cnt = CntBits(l, j) /\ doc_num' = Doc(l, j + 1)
  <2>1. (j + 1) - 1 = j
    BY <1>4
  <2>2. ii[j + 1].doc_num = Doc(l, j + 1) /\ ii[j + 1].count = l[j + 1].count
    BY <1>4, <1>6
  <2>. QED BY <1>1, <1>2, <1>5, <1>7, <2>2 DEF GapOf, GapBits, CntBits
<1>9. ASSUME WithHead(l, k, j)
      PROVE  /\ SkipLength(SkipSize(outmode)) = SkipLen(l, k, j)
             /\ Header(SkipSize(outmode)) = HeadOf(l, k, j)
             /\ ii[j + SkipSize(outmode)].doc_num = Doc(l, j + k)
             /\ ii[j + SkipSize(outmode) + 1].bits_so_far = LenTo(l, j + k)
  <2>1. /\ k \in Nat \ {0} /\ j % k = 0 /\ j + k < Len(l) /\ j + k \in 1 .. Len(l)
        /\ j + k + 1 \in 1 .. Len(l) /\ (j + k + 1) - 1 = j + k
    BY <1>4, <1>9 DEF WithHead
  <2>2. last_major = Doc(l, j) /\ bits_so_far = LenTo(l, j)
    <3>1. NextBlock(j, k) = j
      BY <2>1 DEF NextBlock
    <3>. QED BY <1>4, <1>5, <2>1, <3>1
  <2>3. /\ ii[j + k].doc_num = Doc(l, j + k)
        /\ ii[j + k].bits_so_far = LenTo(l, (j + k) - 1)
        /\ ii[j + k].count_bits = Len(CntBits(l, (j + k) - 1))
        /\ ii[j + k + 1].bits_so_far = LenTo(l, j + k)
    BY <1>6, <2>1
  <2>4. (j + k) - 1 = j + k - 1
    BY <1>4, <2>1
  <2>5. SkipLength(k) = SkipLen(l, k, j)
    BY <2>2, <2>3, <2>4 DEF SkipLength, SkipLen
  <2>6. Header(k) = HeadOf(l, k, j)
    BY <1>1, <1>9, <2>2, <2>3, <2>5 DEF Header, HeadOf, DocDiff, SkipDiff
  <2>. QED BY <1>1, <2>3, <2>5, <2>6
<1>10. head = HeadOf(l, k, j)
  <2>1. CASE WithHead(l, k, j)
    BY <1>2, <1>9, <2>1
  <2>2. CASE ~WithHead(l, k, j)
    BY <1>2, <2>2 DEF HeadOf
  <2>. QED BY <2>1, <2>2
<1>. HIDE DEF head, gap, cnt
<1>11. /\ head \in Seq({0, 1}) /\ gap \in Seq({0, 1}) /\ cnt \in Seq({0, 1}) /\ out \in Seq({0, 1})
       /\ Len(out) + 1 = At(l, k, j)
  BY <1>4, <1>5, <1>8, <1>10, PieceRight, CntBitsRight DEF Layout
<1>12. out' = out \o Piece(l, k, j)
  <2>1. out \o head \o gap \o cnt = out \o (head \o gap \o cnt)
    <3>. DEFINE B == {0, 1}
    <3>1. head \in Seq(B) /\ gap \in Seq(B) /\ cnt \in Seq(B) /\ out \in Seq(B)
      BY <1>11
    <3>. HIDE DEF B
    <3>2. (out \o head) \o gap = out \o (head \o gap)
      BY ONLY <3>1, JoinRight
    <3>3. head \o gap \in Seq(B)
      BY ONLY <3>1, JoinRight
    <3>4. (out \o (head \o gap)) \o cnt = out \o ((head \o gap) \o cnt)
      <4>. DEFINE b == head \o gap
      <4>1. b \in Seq(B) /\ out \in Seq(B) /\ cnt \in Seq(B)
        BY <3>1, <3>3
      <4>. HIDE DEF b
      <4>2. (out \o b) \o cnt = out \o (b \o cnt)
        BY ONLY <4>1, JoinRight
      <4>. QED BY <4>2 DEF b
    <3>. QED BY ONLY <3>2, <3>4
  <2>. QED BY <1>7, <1>8, <1>10, <2>1 DEF Piece
<1>13. ASSUME WithHead(l, k, j)
       PROVE  /\ last_major' = Doc(l, j + k)
              /\ bits_so_far' = LenTo(l, j + k)
              /\ promised' = At(l, k, j + k) - 1
  <2>1. /\ last_major' = Doc(l, j + k)
        /\ bits_so_far' = LenTo(l, j + k)
        /\ promised' = Len(out \o head) + SkipLen(l, k, j)
    BY <1>2, <1>7, <1>9, <1>13
  <2>2. At(l, k, j + k) = At(l, k, j) + Len(HeadOf(l, k, j)) + SkipLen(l, k, j)
    BY <1>4, <1>13, BlockSpan
  <2>3. Len(out \o head) = Len(out) + Len(head) /\ Len(out) \in Nat /\ Len(head) \in Nat
    BY <1>11
  <2>4. SkipLen(l, k, j) \in Nat
    BY <1>4, <1>13, HeaderRight
  <2>5. promised' = At(l, k, j + k) - 1
    BY <1>10, <1>11, <2>1, <2>2, <2>3, <2>4
  <2>. QED BY <2>1, <2>5
<1>. QED BY <1>2, <1>3, <1>4, <1>7, <1>8, <1>12, <1>13

LEMMA WritePostingRight == ASSUME HasCounts, SkipInv, WritePosting PROVE SkipInv'
<1>1. /\ prog = "write" /\ prog' = "write"
      /\ UNCHANGED <<postings, file, mode, outmode, ii>>
      /\ UNCHANGED <<op, L, candidates, turn>>
  BY DEF WritePosting, given, getvars, SkipInv, FileInv
<1>2. FileInv /\ WriteInv /\ AnswerIsRight
  BY DEF SkipInv
<1>3. FileInv'
  BY <1>1, <1>2 DEF FileInv
<1>4. AnswerIsRight'
  BY <1>1, <1>2, AnswerKept
<1>5. PICK l \in PostingLists, k \in Nat : l = postings /\ k = Size(postings, outmode)
  BY <1>2, ModesRight DEF FileInv
<1>6. /\ j \in 0 .. Len(l) - 1 /\ j' = j + 1
      /\ doc_num' = Doc(l, j + 1)
      /\ out' = out \o Piece(l, k, j)
      /\ WithHead(l, k, j) =>
           /\ last_major' = Doc(l, j + k)
           /\ bits_so_far' = LenTo(l, j + k)
           /\ promised' = At(l, k, j + k) - 1
      /\ ~WithHead(l, k, j) => UNCHANGED <<last_major, bits_so_far, promised>>
  BY <1>2, <1>5, WriteRight
<1>7. j + 1 \in 0 .. Len(l) /\ Len(l) \in Nat /\ j \in Nat
  BY <1>6, ListFacts
<1>8. Layout(l, k, out \o Piece(l, k, j), j + 1)
  BY <1>1, <1>2, <1>5, <1>6, LayoutGrows DEF WriteInv
<1>9. ASSUME k > 0, NextBlock(j + 1, k) < Len(l)
      PROVE  /\ last_major' = Doc(l, NextBlock(j + 1, k))
             /\ bits_so_far' = LenTo(l, NextBlock(j + 1, k))
             /\ promised' = At(l, k, NextBlock(j + 1, k)) - 1
  <2>1. k \in Nat \ {0}
    BY <1>9
  <2>2. NextBlock(j + 1, k) = BlockEnd(j, k)
    <3>1. CASE j % k = k - 1
      <4>1. (j + 1) % k = 0 /\ BlockEnd(j, k) = j + 1
        BY <1>7, <2>1, <3>1, BlockFacts
      <4>. QED BY <4>1 DEF NextBlock
    <3>2. CASE j % k # k - 1
      <4>1. (j + 1) % k = (j % k) + 1 /\ BlockEnd(j + 1, k) = BlockEnd(j, k) /\ j % k \in 0 .. k - 1
        BY <1>7, <2>1, <3>2, BlockFacts
      <4>2. (j + 1) % k # 0
        BY <4>1
      <4>. QED BY <4>1, <4>2 DEF NextBlock
    <3>. QED BY <3>1, <3>2
  <2>3. CASE j % k = 0
    <3>1. BlockEnd(j, k) = j + k
      BY <1>7, <2>1, <2>3 DEF BlockEnd
    <3>2. WithHead(l, k, j)
      BY <1>9, <2>2, <2>3, <3>1 DEF WithHead
    <3>. QED BY <1>6, <2>2, <3>1, <3>2
  <2>4. CASE j % k # 0
    <3>1. ~WithHead(l, k, j)
      BY <2>4 DEF WithHead
    <3>2. NextBlock(j, k) = BlockEnd(j, k) /\ j > 0
      <4>1. j # 0
        <5>1. 0 % k = 0
          BY <2>1
        <5>. QED BY <2>4, <5>1
      <4>. QED BY <1>7, <2>4, <4>1 DEF NextBlock
    <3>3. /\ last_major = Doc(l, BlockEnd(j, k)) /\ bits_so_far = LenTo(l, BlockEnd(j, k))
          /\ promised = At(l, k, BlockEnd(j, k)) - 1
      BY <1>1, <1>2, <1>5, <1>9, <2>2, <3>2 DEF WriteInv
    <3>. QED BY <1>6, <2>2, <3>1, <3>3
  <2>. QED BY <2>3, <2>4
<1>10. WriteInv'
  <2>1. /\ postings' = l /\ Size(postings', outmode') = k
        /\ ii' = [n \in 1 .. Len(l) |-> Noted(l, n)]
    BY <1>1, <1>2, <1>5 DEF WriteInv
  <2>. QED BY <1>6, <1>7, <1>8, <1>9, <2>1 DEF WriteInv
<1>. QED BY <1>1, <1>3, <1>4, <1>10 DEF SkipInv, ReadInv, CursorInv, ListInv

LEMMA DoneWritingRight == ASSUME HasCounts, SkipInv, DoneWriting PROVE SkipInv'
<1>1. /\ prog = "write" /\ prog' = "none" /\ j = p
      /\ file' = out /\ mode' = outmode /\ outmode' = NoSkips
      /\ out' = <<>> /\ ii' = <<>> /\ j' = 0 /\ doc_num' = 0 /\ bits_so_far' = 0
      /\ next_mjr_dn' = 0 /\ last_major' = 0 /\ in_pos' = 1 /\ promised' = 0
      /\ UNCHANGED postings
      /\ UNCHANGED <<op, L, candidates, turn>>
  BY DEF DoneWriting, getvars
<1>2. FileInv /\ WriteInv /\ AnswerIsRight
  BY DEF SkipInv
<1>3. AnswerIsRight'
  BY <1>1, <1>2, AnswerKept
<1>4. Layout(postings, Size(postings, outmode), out, Len(postings))
  BY <1>1, <1>2, OfPostings DEF WriteInv
<1>5. FileInv'
  BY <1>1, <1>2, <1>4 DEF FileInv, Modes
<1>6. Idle'
  BY <1>1 DEF Idle
<1>. QED BY <1>1, <1>3, <1>5, <1>6 DEF SkipInv, ReadInv, WriteInv, CursorInv, ListInv

-----------------------------------------------------------------------------
\* The entries of a list whose documents are in a set.

Kept(h, E, q, D) ==
  /\ h \in [0 .. Len(q) -> Seq(E)]
  /\ h[0] = <<>>
  /\ \A n \in 1 .. Len(q) :
       h[n] = IF q[n].DocNum \in D THEN Append(h[n - 1], q[n]) ELSE h[n - 1]
  /\ \A n \in 0 .. Len(q) : AmongTo(q, D, n) = h[n]

LEMMA AmongUnfold ==
  ASSUME NEW E, NEW q \in Seq(E), NEW D
  PROVE  \E h : Kept(h, E, q, D)
<1>. DEFINE N == Len(q)
            F(s, n) == IF q[n].DocNum \in D THEN Append(s, q[n]) ELSE s
            G == [a \in Seq(E) \X (1 .. N) |-> F(a[1], a[2])]
<1>1. N \in Nat /\ <<>> \in Seq(E) /\ \A n \in 1 .. N : q[n] \in E
  OBVIOUS
<1>2. \A s \in Seq(E), n \in 1 .. N : F(s, n) \in Seq(E)
  BY <1>1
<1>. HIDE DEF F
<1>3. G \in [Seq(E) \X (1 .. N) -> Seq(E)]
  BY <1>2
<1>4. PICK h \in [0 .. N -> Seq(E)] : RecursUpTo(h, N, <<>>, G)
  <2>. HIDE DEF G, N
  <2>. QED BY <1>1, <1>3, RecursionUpTo, Zenon
<1>5. h[0] = <<>>
  BY <1>1, <1>4 DEF RecursUpTo
<1>6. ASSUME NEW n \in 1 .. N PROVE h[n] = F(h[n - 1], n)
  <2>1. n - 1 \in 0 .. N /\ n \in 0 .. N /\ n # 0
    BY <1>1
  <2>2. <<h[n - 1], n>> \in Seq(E) \X (1 .. N)
    BY <2>1
  <2>3. G[<<h[n - 1], n>>] = F(h[n - 1], n)
    BY <2>2
  <2>4. h[n] = G[<<h[n - 1], n>>]
    <3>. HIDE DEF G
    <3>. QED BY <1>4, <2>1 DEF RecursUpTo
  <2>. QED BY <2>3, <2>4
<1>7. ASSUME NEW n \in 0 .. N PROVE Among(SubSeq(q, 1, n), D) = h[n]
  <2>. DEFINE u == SubSeq(q, 1, n)
              K(s, m) == IF u[m].DocNum \in D THEN Append(s, u[m]) ELSE s
              Q(g) == g = [m \in 0 .. n |-> IF m = 0 THEN <<>> ELSE K(g[m - 1], m)]
  <2>1. Len(u) = n /\ n \in Nat /\ \A m \in 1 .. n : u[m] = q[m]
    BY <1>1
  <2>2. Among(u, D) = (CHOOSE g : Q(g))[n]
    BY <2>1 DEF Among
  <2>3. \A m \in 1 .. n : \A s : K(s, m) = F(s, m)
    BY <2>1 DEF F
  <2>. HIDE DEF u, K
  <2>4. Q([m \in 0 .. n |-> h[m]])
    <3>. DEFINE g == [m \in 0 .. n |-> h[m]]
    <3>1. ASSUME NEW m \in 0 .. n PROVE h[m] = IF m = 0 THEN <<>> ELSE K(g[m - 1], m)
      <4>1. CASE m = 0
        BY <1>5, <4>1
      <4>2. CASE m # 0
        <5>1. m \in 1 .. n /\ m \in 1 .. N /\ m - 1 \in 0 .. n
          BY <1>1, <4>2
        <5>2. g[m - 1] = h[m - 1]
          BY <5>1
        <5>. QED BY <1>6, <2>3, <4>2, <5>1, <5>2
      <4>. QED BY <4>1, <4>2
    <3>. QED BY <3>1
  <2>5. ASSUME NEW g, Q(g) PROVE g[n] = h[n]
    <3>. DEFINE T == {m \in Nat : m <= n => g[m] = h[m]}
    <3>1. \A m \in 0 .. n : g[m] = IF m = 0 THEN <<>> ELSE K(g[m - 1], m)
      BY <2>5
    <3>. HIDE DEF Q
    <3>2. 0 \in T
      BY <1>5, <2>1, <3>1
    <3>3. ASSUME NEW m \in Nat, m \in T PROVE m + 1 \in T
      <4>. SUFFICES ASSUME m + 1 <= n PROVE g[m + 1] = h[m + 1]
        OBVIOUS
      <4>1. m + 1 \in 0 .. n /\ m + 1 \in 1 .. n /\ m + 1 \in 1 .. N /\ m + 1 # 0
            /\ (m + 1) - 1 = m /\ m <= n
        BY <1>1, <2>1
      <4>2. g[m] = h[m]
        BY <3>3, <4>1
      <4>3. g[m + 1] = K(g[m], m + 1)
        BY <3>1, <4>1
      <4>4. h[m + 1] = F(h[m], m + 1)
        BY <1>6, <4>1
      <4>. QED BY <2>3, <4>1, <4>2, <4>3, <4>4
    <3>4. Nat \subseteq T
      <4>. HIDE DEF T
      <4>. QED BY <3>2, <3>3, SetInduction
    <3>. QED BY <2>1, <3>4
  <2>6. Q(CHOOSE g : Q(g))
    <3>. HIDE DEF Q
    <3>. QED BY <2>4
  <2>. HIDE DEF Q
  <2>. QED BY <2>2, <2>5, <2>6 DEF u
<1>8. 0 \in 0 .. N /\ \A n \in 1 .. N : n \in 0 .. N /\ n - 1 \in 0 .. N
  BY <1>1
<1>9. \A n \in 1 .. N : h[n] = F(h[n - 1], n)
  BY <1>6
<1>10. \A n \in 0 .. N : AmongTo(q, D, n) = h[n]
  BY <1>7 DEF AmongTo
<1>11. Kept(h, E, q, D)
  BY <1>4, <1>5, <1>9, <1>10 DEF F, Kept
<1>. QED BY <1>11

LEMMA AmongStep ==
  ASSUME NEW E, NEW q \in Seq(E), NEW D
  PROVE  /\ AmongTo(q, D, 0) = <<>>
         /\ \A n \in 0 .. Len(q) : AmongTo(q, D, n) \in Seq(E)
         /\ \A n \in 1 .. Len(q) : q[n].DocNum \in D =>
              AmongTo(q, D, n) = Append(AmongTo(q, D, n - 1), q[n])
         /\ \A n \in 1 .. Len(q) : q[n].DocNum \notin D =>
              AmongTo(q, D, n) = AmongTo(q, D, n - 1)
         /\ AmongTo(q, D, Len(q)) = Among(q, D)
<1>0. PICK h : Kept(h, E, q, D)
  BY AmongUnfold
<1>1. /\ h \in [0 .. Len(q) -> Seq(E)]
      /\ h[0] = <<>>
      /\ \A n \in 1 .. Len(q) :
           h[n] = IF q[n].DocNum \in D THEN Append(h[n - 1], q[n]) ELSE h[n - 1]
      /\ \A n \in 0 .. Len(q) : AmongTo(q, D, n) = h[n]
  BY <1>0 DEF Kept
<1>2. /\ 0 \in 0 .. Len(q) /\ Len(q) \in 0 .. Len(q)
      /\ \A n \in 1 .. Len(q) : n \in 0 .. Len(q) /\ n - 1 \in 0 .. Len(q)
  OBVIOUS
<1>3. AmongTo(q, D, Len(q)) = Among(q, D)
  <2>1. SubSeq(q, 1, Len(q)) = q
    OBVIOUS
  <2>. QED BY <2>1 DEF AmongTo
<1>4. AmongTo(q, D, 0) = <<>>
  BY <1>1, <1>2
<1>5. \A n \in 0 .. Len(q) : AmongTo(q, D, n) \in Seq(E)
  BY <1>1
<1>6. ASSUME NEW n \in 1 .. Len(q)
      PROVE  /\ q[n].DocNum \in D => AmongTo(q, D, n) = Append(AmongTo(q, D, n - 1), q[n])
             /\ q[n].DocNum \notin D => AmongTo(q, D, n) = AmongTo(q, D, n - 1)
  <2>1. AmongTo(q, D, n) = h[n] /\ AmongTo(q, D, n - 1) = h[n - 1]
    BY <1>1, <1>2
  <2>. QED BY <1>1, <2>1
<1>. QED BY <1>3, <1>4, <1>5, <1>6

\* Entries whose documents are not in the set add nothing.
LEMMA AmongNone ==
  ASSUME NEW E, NEW q \in Seq(E), NEW D, NEW m \in 0 .. Len(q), NEW n \in m .. Len(q),
         \A x \in 1 .. Len(q) : m < x /\ x <= n => q[x].DocNum \notin D
  PROVE  AmongTo(q, D, n) = AmongTo(q, D, m)
<1>. DEFINE T == {d \in Nat : m + d <= n => AmongTo(q, D, m + d) = AmongTo(q, D, m)}
<1>1. Len(q) \in Nat /\ m \in Nat /\ n \in Nat /\ m <= n /\ n <= Len(q) /\ m + 0 = m
  OBVIOUS
<1>2. 0 \in T
  BY <1>1
<1>3. ASSUME NEW d \in Nat, d \in T PROVE d + 1 \in T
  <2>. SUFFICES ASSUME m + (d + 1) <= n PROVE AmongTo(q, D, m + (d + 1)) = AmongTo(q, D, m)
    OBVIOUS
  <2>1. PICK x \in 1 .. Len(q) : x = m + (d + 1) /\ x - 1 = m + d /\ m < x /\ x <= n /\ m + d <= n
    BY <1>1
  <2>2. q[x].DocNum \notin D
    BY <2>1
  <2>3. AmongTo(q, D, x) = AmongTo(q, D, x - 1)
    <3>1. \A y \in 1 .. Len(q) : q[y].DocNum \notin D =>
            AmongTo(q, D, y) = AmongTo(q, D, y - 1)
      BY AmongStep
    <3>. QED BY <2>1, <2>2, <3>1
  <2>. QED BY <1>3, <2>1, <2>3
<1>4. Nat \subseteq T
  <2>. HIDE DEF T
  <2>. QED BY <1>2, <1>3, SetInduction
<1>5. n - m \in T /\ m + (n - m) = n
  BY <1>1, <1>4
<1>. QED BY <1>1, <1>5

LEMMA AppendToJoin ==
  ASSUME NEW S, NEW a \in Seq(S), NEW b \in Seq(S), NEW e \in S
  PROVE  Append(a \o b, e) = a \o (b \o <<e>>)
<1>1. <<e>> \in Seq(S) /\ a \o b \in Seq(S)
  BY ConcatProperties
<1>2. Append(a \o b, e) = (a \o b) \o <<e>>
  BY <1>1, AppendIsConcat
<1>. QED BY <1>1, <1>2, ConcatAssociative

\* Entries whose documents are in the set are all added.
LEMMA AmongAll ==
  ASSUME NEW E, NEW q \in Seq(E), NEW D, NEW m \in 0 .. Len(q), NEW n \in m .. Len(q),
         \A x \in 1 .. Len(q) : m < x /\ x <= n => q[x].DocNum \in D
  PROVE  AmongTo(q, D, n) = AmongTo(q, D, m) \o SubSeq(q, m + 1, n)
<1>. DEFINE J(x) == SubSeq(q, m + 1, x)
            P(x) == AmongTo(q, D, x) = AmongTo(q, D, m) \o J(x)
            T == {d \in Nat : m + d <= n => P(m + d)}
<1>1. Len(q) \in Nat /\ m \in Nat /\ n \in Nat /\ m <= n /\ n <= Len(q)
  OBVIOUS
<1>2. PICK a \in Seq(E) : a = AmongTo(q, D, m)
  BY AmongStep
<1>3. P(m)
  <2>1. SubSeq(q, m + 1, m) = <<>>
    OBVIOUS
  <2>2. a \o <<>> = a
    BY <1>2, ConcatEmptySeq
  <2>. QED BY <1>2, <2>1, <2>2
<1>4. ASSUME NEW x \in 1 .. Len(q), m < x, x <= n, P(x - 1) PROVE P(x)
  <2>1. q[x].DocNum \in D /\ q[x] \in E
    BY <1>4
  <2>2. J(x - 1) \in Seq(E)
    <3>1. PICK u \in Int, w \in Int : u = m + 1 /\ w = x - 1
      BY <1>1, <1>4
    <3>2. \A y \in u .. w : q[y] \in E
      <4>1. \A y \in u .. w : y \in 1 .. Len(q)
        BY <1>1, <1>4, <3>1
      <4>. QED BY <4>1
    <3>3. SubSeq(q, u, w) \in Seq(E)
      BY <3>1, <3>2, SubSeqProperties
    <3>. QED BY <3>1, <3>3
  <2>3. J(x) = J(x - 1) \o <<q[x]>>
    <3>1. m + 1 \in 1 .. Len(q) /\ x \in m + 1 .. Len(q)
      BY <1>1, <1>4
    <3>. QED BY <3>1, SubSeqRecursiveSecond
  <2>. HIDE DEF J
  <2>4. AmongTo(q, D, x) = Append(AmongTo(q, D, x - 1), q[x])
    BY <2>1, AmongStep
  <2>5. AmongTo(q, D, x - 1) = a \o J(x - 1)
    BY <1>2, <1>4
  <2>6. Append(a \o J(x - 1), q[x]) = a \o (J(x - 1) \o <<q[x]>>)
    <3>1. a \in Seq(E)
      BY <1>2
    <3>2. q[x] \in E
      BY <2>1
    <3>. QED BY ONLY <2>2, <3>1, <3>2, AppendToJoin
  <2>. QED BY <1>2, <2>3, <2>4, <2>5, <2>6
<1>. HIDE DEF P
<1>5. 0 \in T
  <2>1. m + 0 = m
    OBVIOUS
  <2>. QED BY <1>3, <2>1
<1>6. ASSUME NEW d \in Nat, d \in T PROVE d + 1 \in T
  <2>. SUFFICES ASSUME m + (d + 1) <= n PROVE P(m + (d + 1))
    OBVIOUS
  <2>1. PICK x \in 1 .. Len(q) : x = m + (d + 1) /\ x - 1 = m + d /\ m < x /\ x <= n /\ m + d <= n
    BY <1>1
  <2>. QED BY <1>4, <1>6, <2>1
<1>7. Nat \subseteq T
  <2>. HIDE DEF T
  <2>. QED BY <1>5, <1>6, SetInduction
<1>8. n - m \in T /\ m + (n - m) = n
  BY <1>1, <1>7
<1>9. P(n)
  BY <1>1, <1>8
<1>. QED BY <1>9 DEF P, J

-----------------------------------------------------------------------------
\* The documents of a list.

LEMMA DocsRight ==
  ASSUME NEW l \in PostingLists
  PROVE  /\ \A n \in 0 .. Len(l) - 1 : Doc(l, n + 1) \in DocsOf(l)
         /\ \A n \in 0 .. Len(l) - 1, x \in Nat :
              Doc(l, n) < x /\ x < Doc(l, n + 1) => x \notin DocsOf(l)
         /\ \A x \in Nat : Doc(l, Len(l)) < x => x \notin DocsOf(l)
<1>1. /\ Len(l) \in Nat \ {0} /\ DOMAIN l = 1 .. Len(l)
      /\ \A n \in 0 .. Len(l) : Doc(l, n) \in Nat
      /\ \A m, n \in 0 .. Len(l) : m < n => Doc(l, m) < Doc(l, n)
  BY ListFacts
<1>2. ASSUME NEW x, x \in DocsOf(l) PROVE \E m \in 1 .. Len(l) : x = Doc(l, m)
  <2>1. PICK m \in 1 .. Len(l) : x = l[m].doc_num
    BY <1>1, <1>2 DEF DocsOf
  <2>2. x = Doc(l, m)
    BY <1>1, <2>1 DEF Doc
  <2>. QED BY <2>2
<1>3. ASSUME NEW n \in 0 .. Len(l) - 1 PROVE Doc(l, n + 1) \in DocsOf(l)
  <2>1. n + 1 \in 1 .. Len(l) /\ n + 1 # 0
    BY <1>1
  <2>2. Doc(l, n + 1) = l[n + 1].doc_num
    BY <2>1 DEF Doc
  <2>. QED BY <1>1, <2>1, <2>2 DEF DocsOf
<1>4. ASSUME NEW n \in 0 .. Len(l) - 1, NEW x \in Nat,
             Doc(l, n) < x, x < Doc(l, n + 1), x \in DocsOf(l)
      PROVE  FALSE
  <2>1. PICK m \in 1 .. Len(l) : x = Doc(l, m)
    BY <1>2, <1>4
  <2>2. /\ m \in 0 .. Len(l) /\ n \in 0 .. Len(l) /\ n + 1 \in 0 .. Len(l)
        /\ (m < n \/ m = n \/ m = n + 1 \/ n + 1 < m)
    BY <1>1, <2>1
  <2>3. PICK a \in Nat, b \in Nat, c \in Nat : a = Doc(l, m) /\ b = Doc(l, n) /\ c = Doc(l, n + 1)
    BY <1>1, <2>2
  <2>4. /\ m < n => a < b
        /\ m = n => a = b
        /\ m = n + 1 => a = c
        /\ n + 1 < m => c < a
    BY <1>1, <2>2, <2>3
  <2>5. b < a /\ a < c
    BY <1>4, <2>1, <2>3
  <2>. QED BY <2>2, <2>4, <2>5
<1>5. ASSUME NEW x \in Nat, Doc(l, Len(l)) < x, x \in DocsOf(l) PROVE FALSE
  <2>1. PICK m \in 1 .. Len(l) : x = Doc(l, m)
    BY <1>2, <1>5
  <2>2. m \in 0 .. Len(l) /\ Len(l) \in 0 .. Len(l) /\ (m = Len(l) \/ m < Len(l))
    <3>1. PICK N \in Nat : N = Len(l)
      BY <1>1
    <3>2. m \in 1 .. N
      BY <2>1, <3>1
    <3>3. m \in 0 .. N /\ N \in 0 .. N /\ (m = N \/ m < N)
      BY ONLY <3>1, <3>2
    <3>. QED BY <3>1, <3>3
  <2>3. PICK a \in Nat, b \in Nat : a = Doc(l, m) /\ b = Doc(l, Len(l))
    BY <1>1, <2>2
  <2>4. (m = Len(l) => a = b) /\ (m < Len(l) => a < b)
    BY <1>1, <2>2, <2>3
  <2>5. b < a
    BY <1>5, <2>1, <2>3
  <2>. QED BY <2>2, <2>4, <2>5
<1>. QED BY <1>3, <1>4, <1>5

\* What PassOver returns, for a test that is a set of entries.
LEMMA PassOverRight ==
  ASSUME NEW M, Len(M) \in Nat, NEW n \in 0 .. Len(M), NEW P,
         NEW s, s = Min({m \in n .. Len(M) : m = Len(M) \/ ~(M[m + 1] \in P)})
  PROVE  /\ s \in n .. Len(M) /\ s \in 0 .. Len(M)
         /\ \A m \in 1 .. Len(M) : n < m /\ m <= s => M[m] \in P
         /\ s < Len(M) => M[s + 1] \notin P
<1>. DEFINE T == {m \in n .. Len(M) : m = Len(M) \/ ~(M[m + 1] \in P)}
<1>1. T \subseteq Nat /\ Len(M) \in T
  OBVIOUS
<1>2. \E x \in T : \A y \in T : x <= y
  <2>. HIDE DEF T
  <2>. QED BY <1>1, LeastNatural
<1>3. s \in T /\ \A y \in T : s <= y
  BY <1>2 DEF Min
<1>4. s \in n .. Len(M) /\ s \in 0 .. Len(M) /\ (s < Len(M) => M[s + 1] \notin P)
  BY <1>3
<1>5. ASSUME NEW m \in 1 .. Len(M), n < m, m <= s, M[m] \notin P PROVE FALSE
  <2>1. m - 1 \in n .. Len(M) /\ (m - 1) + 1 = m /\ ~(s <= m - 1)
    BY <1>4, <1>5
  <2>2. m - 1 \in T
    BY <1>5, <2>1
  <2>. QED BY <1>3, <2>1, <2>2
<1>. QED BY <1>4, <1>5

\* Where PassOver may stop.
Below(M, n, doc) == {m \in n .. Len(M) : m = Len(M) \/ ~(M[m + 1].DocNum < doc)}
Included(M, n) == {m \in n .. Len(M) : m = Len(M) \/ ~M[m + 1].or_included}

\* Where the loop stops and what is taken next, for a list M from entry b on.
Stop(M, b, doc) == Min(Below(M, b, doc))
Meets(M, b, doc) == Stop(M, b, doc) < Len(M) /\ M[Stop(M, b, doc) + 1].DocNum = doc
Taken(M, b, doc) == IF Meets(M, b, doc) THEN Stop(M, b, doc) + 1 ELSE Stop(M, b, doc)

\* What becomes of the list.
AndList(M, x, s) == [M EXCEPT ![x + 1] = M[s + 1]]
OrList(M, b, doc) ==
  IF Meets(M, b, doc) THEN [M EXCEPT ![Stop(M, b, doc) + 1].or_included = TRUE] ELSE M
DiffList(M, x, b, s) ==
  [n \in 1 .. Len(M) |-> IF n \in x + 1 .. x + s - b THEN M[n - x + b] ELSE M[n]]

\* From entry b on, M is the candidates q, which are past a document.
Ahead(M, q, b, doc) ==
  \A m \in 1 .. Len(q) : m > b => M[m] = q[m] /\ q[m].DocNum > doc
\* From entry b on, K is M.
SameFrom(K, M, q, b) == \A m \in 1 .. Len(q) : m > b => K[m] = M[m]
\* The candidates from b up to s are all in D, or all not.
Within(q, b, s, D) == \A m \in 1 .. Len(q) : b < m /\ m <= s => q[m].DocNum \in D
Without(q, b, s, D) == \A m \in 1 .. Len(q) : b < m /\ m <= s => q[m].DocNum \notin D
\* The first x entries of M are those of the first b candidates that are in D.
Begins(M, x, q, D, b) == x \in 0 .. b /\ SubSeq(M, 1, x) = AmongTo(q, D, b)
\* Up to b, M is the candidates, marked.
MarkedTo(M, q, b, D) == \A m \in 1 .. Len(q) : m <= b => M[m] = WithMark(q[m], D)

LEMMA PassBelow ==
  ASSUME NEW M, Len(M) \in Nat, NEW n \in 0 .. Len(M), NEW doc,
         NEW s, s = Min(Below(M, n, doc))
  PROVE  /\ s \in n .. Len(M) /\ s \in 0 .. Len(M)
         /\ \A m \in 1 .. Len(M) : n < m /\ m <= s => M[m].DocNum < doc
         /\ s < Len(M) => ~(M[s + 1].DocNum < doc)
<1>. DEFINE P == {c \in {M[m] : m \in 1 .. Len(M)} : c.DocNum < doc}
            T == Below(M, n, doc)
            U == {m \in n .. Len(M) : m = Len(M) \/ ~(M[m + 1] \in P)}
<1>1. s = Min(T)
  OBVIOUS
<1>2. \A m \in 1 .. Len(M) : M[m] \in P <=> M[m].DocNum < doc
  OBVIOUS
<1>3. ASSUME NEW m \in n .. Len(M), m # Len(M) PROVE M[m + 1] \in P <=> M[m + 1].DocNum < doc
  <2>1. m + 1 \in 1 .. Len(M)
    BY <1>3
  <2>. QED BY <1>2, <2>1
<1>. HIDE DEF P
<1>4. T = U
  BY <1>3 DEF Below
<1>5. s = Min(U)
  BY <1>1, <1>4
<1>6. /\ s \in n .. Len(M) /\ s \in 0 .. Len(M)
      /\ \A m \in 1 .. Len(M) : n < m /\ m <= s => M[m] \in P
      /\ s < Len(M) => M[s + 1] \notin P
  BY <1>5, PassOverRight
<1>7. s < Len(M) => s + 1 \in 1 .. Len(M)
  BY <1>6
<1>. QED BY <1>2, <1>6, <1>7

LEMMA PassIncluded ==
  ASSUME NEW M, Len(M) \in Nat, NEW n \in 0 .. Len(M),
         NEW s, s = Min(Included(M, n))
  PROVE  /\ s \in n .. Len(M) /\ s \in 0 .. Len(M)
         /\ \A m \in 1 .. Len(M) : n < m /\ m <= s => M[m].or_included
<1>. DEFINE P == {c \in {M[m] : m \in 1 .. Len(M)} : c.or_included}
            T == Included(M, n)
            U == {m \in n .. Len(M) : m = Len(M) \/ ~(M[m + 1] \in P)}
<1>1. s = Min(T)
  OBVIOUS
<1>2. \A m \in 1 .. Len(M) : M[m] \in P <=> M[m].or_included
  BY Zenon
<1>3. ASSUME NEW m \in n .. Len(M), m # Len(M) PROVE M[m + 1] \in P <=> M[m + 1].or_included
  <2>1. m + 1 \in 1 .. Len(M)
    BY <1>3
  <2>. QED BY <1>2, <2>1, Zenon
<1>. HIDE DEF P
<1>4. T = U
  BY <1>3 DEF Included
<1>5. s = Min(U)
  BY <1>1, <1>4
<1>6. /\ s \in n .. Len(M) /\ s \in 0 .. Len(M)
      /\ \A m \in 1 .. Len(M) : n < m /\ m <= s => M[m] \in P
  BY <1>5, PassOverRight
<1>. QED BY <1>2, <1>6

-----------------------------------------------------------------------------
\* GetDocsOp: it starts, hops over a block, reads a header.

LEMMA GetStep ==
  ASSUME SkipInv, prog = "get" \/ prog = "none", prog' = "get",
         UNCHANGED <<given, rebuildvars>>, turn' # "returned", CursorInv', ListInv'
  PROVE  SkipInv'
<1>1. UNCHANGED <<postings, file, mode, outmode, out, ii, j, doc_num, bits_so_far,
                  next_mjr_dn, last_major, in_pos, promised>>
  BY DEF given, rebuildvars
<1>2. FileInv' /\ Idle'
  BY <1>1 DEF SkipInv, FileInv, Idle
<1>. QED BY <1>2 DEF SkipInv, ReadInv, WriteInv, AnswerIsRight

\* The candidates are in order.
LEMMA CandidatesRight ==
  ASSUME NEW q \in CandidateLists
  PROVE  /\ q \in Seq(Entries) /\ Len(q) \in Nat
         /\ \A m \in 1 .. Len(q) : q[m].DocNum \in Nat \ {0} /\ q[m].or_included \in BOOLEAN
         /\ \A m \in 1 .. Len(q) : q[m] \in Entries
         /\ \A m, n \in 1 .. Len(q) : m < n => q[m].DocNum < q[n].DocNum
<1>1. /\ q \in Seq([DocNum : Nat \ {0}, or_included : BOOLEAN])
      /\ \A m, n \in DOMAIN q : m < n => q[m].DocNum < q[n].DocNum
  BY SkipConstants
<1>2. q \in Seq(Entries)
  BY <1>1 DEF Entries
<1>3. Len(q) \in Nat /\ DOMAIN q = 1 .. Len(q) /\ \A m \in 1 .. Len(q) : q[m] \in Entries
  BY <1>2
<1>4. \A e \in Entries : e.DocNum \in Nat \ {0} /\ e.or_included \in BOOLEAN
  BY DEF Entries
<1>. QED BY <1>1, <1>2, <1>3, <1>4

LEMMA StartGetRight == ASSUME HasCounts, SkipInv, StartGet PROVE SkipInv'
<1>1. /\ prog = "none" /\ prog' = "get" /\ turn' = "top"
      /\ i' = 0 /\ pos' = 1 /\ CurrDoc' = 0 /\ next_i' = 0 /\ next_start' = 1
      /\ next_doc_num' = 0 /\ block_counter' = SkipSize(mode) - 1
      /\ src' = 0 /\ dest' = 0
      /\ op' \in {"op_term", "op_and_terms", "op_and_or_terms", "op_diff_terms"}
      /\ candidates' \in IF op' = "op_term" THEN {<<>>} ELSE CandidateLists
      /\ L' = candidates'
      /\ UNCHANGED <<given, rebuildvars>>
  BY DEF StartGet, skip_size
<1>2. postings' = postings /\ mode' = mode
  BY <1>1 DEF given
<1>3. PICK l \in PostingLists, k \in Nat : l = postings /\ k = Size(postings, mode)
  BY ModesRight DEF SkipInv, FileInv
<1>4. postings' = l /\ Size(postings', mode') = k /\ block_counter' = k - 1
  BY <1>1, <1>2, <1>3, OfPostings
<1>5. Doc(l, 0) = 0 /\ At(l, k, 0) = 1 /\ 0 \in 0 .. Len(l) /\ (k > 0 => 0 % k = 0)
  <2>1. Doc(l, 0) = 0
    BY DEF Doc
  <2>2. k > 0 => 0 % k = 0
    OBVIOUS
  <2>. QED BY <2>1, <2>2, StartsUnfold, ListFacts
<1>6. CursorInv'
  <2>1. k > 0 => Target(0, k)' = 0 /\ k - 1 - (0 % k) = k - 1
    BY <1>1, <1>5 DEF Target
  <2>2. turn' = "top" /\ turn' # "test"
    BY <1>1
  <2>3. 1 = At(l, k, 0) + 0
    BY <1>5
  <2>. QED BY <1>1, <1>4, <1>5, <2>1, <2>2, <2>3 DEF CursorInv
<1>7. ListInv'
  <2>1. CASE op' = "op_term"
    <3>1. L' = TermAnswer(l, 0)
      BY <1>1, <2>1 DEF TermAnswer
    <3>. QED BY <1>1, <1>4, <2>1, <3>1 DEF ListInv
  <2>2. CASE op' # "op_term"
    <3>1. PICK q \in CandidateLists : q = candidates' /\ q = L'
      BY <1>1, <2>2
    <3>2. q \in Seq(Entries) /\ Len(q) \in Nat /\ 0 \in 0 .. Len(q)
          /\ \A m \in 1 .. Len(q) : q[m].DocNum > 0
      BY CandidatesRight
    <3>3. \A D : AmongTo(q, D, 0) = <<>>
      BY <3>2, AmongStep
    <3>4. SubSeq(q, 1, 0) = <<>>
      BY <3>2
    <3>5. \A m \in 1 .. Len(q) : ~(m <= 0)
      BY <3>2
    <3>6. 0 \in 0 .. 0
      OBVIOUS
    <3>. QED BY <1>1, <1>4, <1>5, <2>2, <3>1, <3>2, <3>3, <3>4, <3>5, <3>6 DEF ListInv
  <2>. QED BY <2>1, <2>2
<1>. QED BY <1>1, <1>6, <1>7, GetStep

\* What the invariant says in terms of constants.
LEMMA CursorRight ==
  ASSUME HasCounts, SkipInv, prog = "get", turn # "returned",
         NEW l \in PostingLists, l = postings, NEW k \in Nat, k = Size(postings, mode)
  PROVE  /\ i \in 0 .. Len(l)
         /\ CurrDoc = Doc(l, i)
         /\ turn \in {"top", "header", "test"}
         /\ turn # "top" => k > 0 /\ i < Len(l) /\ (op = "op_term" \/ src < Len(L))
         /\ turn # "test" => pos = At(l, k, i)
         /\ turn = "test" => pos = At(l, k, i) + Len(HeadOf(l, k, i))
         /\ k > 0 =>
              /\ block_counter = k - 1 - (i % k)
              /\ Target(i, k) < Len(l) =>
                   /\ next_i = Target(i, k)
                   /\ next_start = At(l, k, Target(i, k))
                   /\ next_doc_num = Doc(l, Target(i, k))
<1>1. CursorInv
  BY DEF SkipInv
<1>2. /\ i \in 0 .. Len(l)
      /\ CurrDoc = Doc(l, i)
      /\ turn \in {"top", "header", "test"}
      /\ turn # "top" => k > 0 /\ i < Len(l) /\ (op = "op_term" \/ src < Len(L))
      /\ pos = At(l, k, i) + (IF turn = "test" THEN Len(HeadOf(l, k, i)) ELSE 0)
      /\ k > 0 =>
           /\ block_counter = k - 1 - (i % k)
           /\ Target(i, k) < Len(l) =>
                /\ next_i = Target(i, k)
                /\ next_start = At(l, k, Target(i, k))
                /\ next_doc_num = Doc(l, Target(i, k))
  BY <1>1 DEF CursorInv
<1>3. At(l, k, i) \in Nat
  BY <1>2, StartsUnfold
<1>. QED BY <1>2, <1>3

\* A step that leaves the lists alone may only take the cursor to where the
\* rest of the candidates still is ahead.
LEMMA ListKept ==
  ASSUME SkipInv, prog = "get", turn # "returned", prog' = "get",
         UNCHANGED <<postings, op, L, candidates, src, dest>>,
         op = "op_term" => i' = i,
         op # "op_term" => \A m \in 1 .. Len(candidates) :
                              m > src => candidates[m].DocNum > Doc(postings, i')
  PROVE  ListInv'
<1>1. ListInv
  BY DEF SkipInv
<1>2. DocsOf(postings)' = DocsOf(postings)
  BY DEF DocsOf
<1>. HIDE DEF DocsOf, TermAnswer, WithMark
<1>3. TermAnswer(postings', i') = TermAnswer(postings, i') /\ Doc(postings', i') = Doc(postings, i')
  OBVIOUS
<1>. QED BY <1>1, <1>2, <1>3 DEF ListInv

\* A hop: to the start of the block that next_i gives.
LEMMA ShortCutRight == ASSUME HasCounts, SkipInv, ShortCut PROVE SkipInv'
<1>1. /\ prog = "get" /\ prog' = "get" /\ turn' = "header"
      /\ SkipSize(mode) > 0
      /\ turn = "test" \/ (turn = "top" /\ InLoop)
      /\ op # "op_term" /\ i + SkipSize(mode) < p /\ next_doc_num >= 0
      /\ L[src + 1].DocNum > next_doc_num
      /\ i' = next_i /\ pos' = next_start /\ CurrDoc' = next_doc_num
      /\ block_counter' = SkipSize(mode) - 1
      /\ UNCHANGED <<op, L, candidates, next_i, next_start, next_doc_num, src, dest>>
      /\ UNCHANGED <<given, rebuildvars>>
  BY DEF ShortCut, CanSkip, skip_size, have_skipping
<1>2. postings' = postings /\ mode' = mode
  BY <1>1 DEF given
<1>3. PICK l \in PostingLists, k \in Nat : l = postings /\ k = Size(postings, mode)
  BY ModesRight DEF SkipInv, FileInv
<1>4. k \in Nat \ {0} /\ i + k < Len(l) /\ block_counter' = k - 1 /\ turn # "returned"
  BY <1>1, <1>3, OfPostings
<1>5. /\ i \in 0 .. Len(l)
      /\ turn # "top" => src < Len(L)
      /\ Target(i, k) < Len(l) =>
           /\ next_i = Target(i, k)
           /\ next_start = At(l, k, Target(i, k))
           /\ next_doc_num = Doc(l, Target(i, k))
  BY <1>1, <1>3, <1>4, CursorRight
<1>6. Len(l) \in Nat /\ i \in Nat
  BY <1>5, ListFacts
<1>. DEFINE T == Target(i, k)
<1>7. T \in Nat /\ T % k = 0 /\ T <= i + k
  <2>1. CASE i % k = 0 /\ turn # "test"
    BY <1>4, <1>6, <2>1 DEF Target
  <2>2. CASE ~(i % k = 0 /\ turn # "test")
    <3>1. T = BlockEnd(i, k)
      BY <2>2 DEF Target
    <3>2. BlockEnd(i, k) \in Nat /\ BlockEnd(i, k) % k = 0 /\ (i % k) \in 0 .. k - 1
      BY <1>4, <1>6, BlockFacts
    <3>3. BlockEnd(i, k) <= i + k
      <4>1. PICK r \in Nat : r = i % k
        BY <3>2
      <4>2. BlockEnd(i, k) = (i - r) + k
        BY <4>1 DEF BlockEnd
      <4>. QED BY <1>4, <1>6, <4>1, <4>2
    <3>. QED BY <3>1, <3>2, <3>3
  <2>. QED BY <2>1, <2>2
<1>. HIDE DEF T
<1>8. T < Len(l) /\ T \in 0 .. Len(l)
  BY <1>4, <1>6, <1>7
<1>9. i' = T /\ pos' = At(l, k, T) /\ CurrDoc' = Doc(l, T)
      /\ next_i' = T /\ next_start' = At(l, k, T) /\ next_doc_num' = Doc(l, T)
  BY <1>1, <1>5, <1>8 DEF T
<1>10. src < Len(L)
  BY <1>1, <1>5 DEF InLoop, Num
<1>11. CursorInv'
  <2>1. postings' = l /\ Size(postings', mode') = k
    BY <1>2, <1>3
  <2>3. T % k = 0 /\ k - 1 - (T % k) = k - 1
    BY <1>4, <1>7
  <2>4. At(l, k, T) + 0 = At(l, k, T)
    BY <1>8, StartsUnfold
  <2>5. src' < Len(L')
    BY <1>1, <1>10
  <2>6. PICK t \in Nat : t = T
    BY <1>7
  <2>7. Target(i, k)' = t
    <3>1. i' % k = 0 /\ turn' # "test"
      BY <1>1, <1>9, <2>3
    <3>. QED BY <1>9, <2>6, <3>1 DEF Target
  <2>8. /\ i' = t /\ pos' = At(l, k, t) /\ CurrDoc' = Doc(l, t)
        /\ next_i' = t /\ next_start' = At(l, k, t) /\ next_doc_num' = Doc(l, t)
        /\ t \in 0 .. Len(l) /\ t < Len(l) /\ k - 1 - (t % k) = k - 1 /\ At(l, k, t) + 0 = At(l, k, t)
    BY <1>8, <1>9, <2>3, <2>4, <2>6
  <2>. QED BY <1>1, <1>4, <2>1, <2>5, <2>7, <2>8 DEF CursorInv
<1>12. ASSUME NEW m \in 1 .. Len(candidates), m > src PROVE candidates[m].DocNum > Doc(l, T)
  <2>1. /\ candidates \in CandidateLists /\ src \in 0 .. Len(candidates) /\ Len(L) = Len(candidates)
        /\ \A n \in 1 .. Len(candidates) : n > src => L[n] = candidates[n]
    BY <1>1, <1>4 DEF SkipInv, ListInv
  <2>2. PICK q \in CandidateLists : q = candidates
    BY <2>1
  <2>3. src + 1 \in 1 .. Len(q) /\ src + 1 > src /\ (m = src + 1 \/ src + 1 < m)
    BY <1>10, <1>12, <2>1, <2>2, CandidatesRight
  <2>4. q[src + 1].DocNum > Doc(l, T)
    BY <1>1, <1>5, <1>8, <2>1, <2>2, <2>3 DEF T
  <2>5. q[m].DocNum = q[src + 1].DocNum \/ q[src + 1].DocNum < q[m].DocNum
    BY <1>12, <2>2, <2>3, CandidatesRight
  <2>6. PICK a \in Nat, b \in Nat, c \in Nat :
          a = q[m].DocNum /\ b = q[src + 1].DocNum /\ c = Doc(l, T)
    BY <1>8, <1>12, <2>2, <2>3, CandidatesRight, ListFacts
  <2>. QED BY <2>2, <2>4, <2>5, <2>6
<1>13. ListInv'
  BY <1>1, <1>2, <1>3, <1>4, <1>9, <1>12, ListKept
<1>. QED BY <1>1, <1>11, <1>13, GetStep

\* What a step that reads a header does, when there is one to read.
LEMMA HeaderStep ==
  ASSUME ReadHeader, block_counter = SkipSize(mode) - 1, i + SkipSize(mode) < p
  PROVE  LET diff == BblockDecode(file, pos, dn_blk(SkipSize(mode)))
             skip == BblockDecode(file, diff.pos, len_blk(SkipSize(mode)))
         IN /\ next_doc_num' = next_doc_num + diff.x
            /\ next_i' = next_i + SkipSize(mode)
            /\ pos' = skip.pos
            /\ next_start' = skip.pos + skip.x
BY DEF ReadHeader, skip_size

\* A header gives the next block.
LEMMA HeaderIsRead ==
  ASSUME HasCounts, SkipInv, ReadHeader, turn # "test",
         NEW l \in PostingLists, l = postings, NEW k \in Nat \ {0}, k = Size(postings, mode),
         NEW n \in 0 .. Len(l) - 1, n = i, WithHead(l, k, n)
  PROVE  /\ pos' = At(l, k, n) + Len(HeadOf(l, k, n))
         /\ next_i' = n + k
         /\ next_start' = At(l, k, n + k)
         /\ next_doc_num' = Doc(l, n + k)
<1>1. /\ p = Len(l) /\ SkipSize(mode) = k
      /\ dn_blk(k) = DocBlk(l, k) /\ len_blk(k) = LenBlk(l, k)
  BY OfPostings
<1>2. n % k = 0 /\ n + k < Len(l) /\ n \in Nat /\ Len(l) \in Nat
  BY ListFacts DEF WithHead
<1>3. prog = "get" /\ turn # "returned"
  BY DEF ReadHeader
<1>4. Target(i, k) = n /\ n < Len(l)
  BY <1>2 DEF Target
<1>5. /\ pos = At(l, k, n) /\ block_counter = k - 1
      /\ next_i = n /\ next_start = At(l, k, n) /\ next_doc_num = Doc(l, n)
  <2>1. /\ pos = At(l, k, i) /\ block_counter = k - 1 - (i % k)
        /\ next_i = n /\ next_start = At(l, k, n) /\ next_doc_num = Doc(l, n)
    BY <1>3, <1>4, CursorRight
  <2>. QED BY <1>2, <2>1
<1>. DEFINE diff == BblockDecode(file, pos, dn_blk(SkipSize(mode)))
            skip == BblockDecode(file, diff.pos, len_blk(SkipSize(mode)))
<1>6. /\ next_doc_num' = next_doc_num + diff.x
      /\ next_i' = next_i + SkipSize(mode)
      /\ pos' = skip.pos
      /\ next_start' = skip.pos + skip.x
  <2>1. block_counter = SkipSize(mode) - 1 /\ i + SkipSize(mode) < p
    BY <1>1, <1>2, <1>5
  <2>. QED BY <2>1, HeaderStep
<1>7. Stands(Piece(l, k, n), file, pos)
  <2>1. Layout(l, k, file, Len(l))
    BY DEF SkipInv, FileInv
  <2>. QED BY <1>2, <1>5, <2>1 DEF Layout
<1>8. PICK h \in Nat, a \in Nat, b \in Nat, c \in Nat, d \in Nat, e \in Nat :
        /\ h = Len(HeadOf(l, k, n)) /\ a = At(l, k, n) /\ b = SkipLen(l, k, n)
        /\ c = Doc(l, n) /\ d = Doc(l, n + k) /\ e = At(l, k, n + k)
  <2>1. n \in 0 .. Len(l) /\ n + k \in 0 .. Len(l)
    BY <1>2
  <2>. QED BY <2>1, PieceRight, HeaderRight, StartsUnfold, ListFacts
<1>9. diff.x = d - c /\ skip.x = b /\ skip.pos = a + h
  <2>. DEFINE u == BblockDecode(file, pos, DocBlk(l, k))
              v == BblockDecode(file, u.pos, LenBlk(l, k))
  <2>1. u.x = Doc(l, n + k) - Doc(l, n)
        /\ Reads(v, SkipLen(l, k, n), pos, Len(HeadOf(l, k, n)))
    BY <1>7, PieceIsRead
  <2>2. diff = u /\ skip = v
    BY <1>1
  <2>. HIDE DEF u, v, diff, skip
  <2>3. u.x = d - c
    BY <1>8, <2>1
  <2>4. v.x = b /\ v.pos = a + h
    BY <1>5, <1>8, <2>1 DEF Reads
  <2>. QED BY <2>2, <2>3, <2>4
<1>. HIDE DEF diff, skip
<1>10. e = a + h + b
  <2>1. At(l, k, n + k) = At(l, k, n) + Len(HeadOf(l, k, n)) + SkipLen(l, k, n)
    BY BlockSpan
  <2>. QED BY <1>8, <2>1
<1>11. pos' = a + h /\ next_i' = n + k /\ next_start' = (a + h) + b /\ next_doc_num' = c + (d - c)
  BY <1>1, <1>5, <1>6, <1>8, <1>9
<1>12. next_start' = e /\ next_doc_num' = d
  BY ONLY <1>8, <1>10, <1>11
<1>. QED BY <1>8, <1>11, <1>12

LEMMA ReadHeaderRight == ASSUME HasCounts, SkipInv, ReadHeader PROVE SkipInv'
<1>1. /\ prog = "get" /\ prog' = "get" /\ turn' = "test"
      /\ SkipSize(mode) > 0
      /\ turn = "header" \/ (turn = "top" /\ InLoop)
      /\ UNCHANGED <<op, L, candidates, i, CurrDoc, block_counter, src, dest>>
      /\ UNCHANGED <<given, rebuildvars>>
  BY DEF ReadHeader, skip_size, have_skipping
<1>2. postings' = postings /\ mode' = mode
  BY <1>1 DEF given
<1>3. PICK l \in PostingLists, k \in Nat : l = postings /\ k = Size(postings, mode)
  BY ModesRight DEF SkipInv, FileInv
<1>4. k \in Nat \ {0} /\ turn # "returned" /\ turn # "test"
  BY <1>1, <1>3, OfPostings
<1>5. /\ i \in 0 .. Len(l) /\ CurrDoc = Doc(l, i)
      /\ turn # "top" => i < Len(l) /\ (op = "op_term" \/ src < Len(L))
      /\ pos = At(l, k, i)
      /\ block_counter = k - 1 - (i % k)
      /\ Target(i, k) < Len(l) =>
           /\ next_i = Target(i, k)
           /\ next_start = At(l, k, Target(i, k))
           /\ next_doc_num = Doc(l, Target(i, k))
  BY <1>1, <1>3, <1>4, CursorRight
<1>6. PICK n \in 0 .. Len(l) - 1 : n = i
  BY <1>1, <1>3, <1>5, OfPostings, ListFacts DEF InLoop
<1>7. op = "op_term" \/ src < Len(L)
  BY <1>1, <1>5 DEF InLoop, Num
<1>8. n \in Nat /\ n < Len(l) /\ n \in 0 .. Len(l) /\ Len(l) \in Nat /\ (n % k) \in 0 .. k - 1
  <2>1. Len(l) \in Nat
    BY ListFacts
  <2>2. n \in Nat
    BY <1>6, <2>1
  <2>3. (n % k) \in 0 .. k - 1
    BY <1>4, <2>2, BlockFacts
  <2>. QED BY <1>6, <2>1, <2>2, <2>3
<1>9. Target(n, k)' = BlockEnd(n, k)
  BY <1>1 DEF Target
<1>10. /\ pos' = At(l, k, n) + Len(HeadOf(l, k, n))
       /\ BlockEnd(n, k) < Len(l) =>
            /\ next_i' = BlockEnd(n, k)
            /\ next_start' = At(l, k, BlockEnd(n, k))
            /\ next_doc_num' = Doc(l, BlockEnd(n, k))
  <2>1. CASE WithHead(l, k, n)
    <3>1. BlockEnd(n, k) = n + k
      BY <1>4, <1>8, <2>1 DEF BlockEnd, WithHead
    <3>. QED BY <1>3, <1>4, <1>6, <2>1, <3>1, HeaderIsRead
  <2>2. CASE ~WithHead(l, k, n)
    <3>1. Len(HeadOf(l, k, n)) = 0 /\ At(l, k, n) \in Nat
      BY <1>8, <2>2, StartsUnfold DEF HeadOf
    <3>2. CASE n % k = 0
      <4>1. BlockEnd(n, k) = n + k /\ ~(n + k < Len(l))
        BY <1>4, <1>8, <2>2, <3>2 DEF BlockEnd, WithHead
      <4>2. ~(i + SkipSize(mode) < p) /\ block_counter = SkipSize(mode) - 1
        <5>1. block_counter = k - 1
          BY <1>4, <1>5, <1>6, <3>2
        <5>. QED BY <1>3, <1>6, <4>1, <5>1, OfPostings
      <4>3. pos' = pos
        BY <4>2 DEF ReadHeader, skip_size
      <4>. QED BY <1>5, <1>6, <3>1, <4>1, <4>3
    <3>3. CASE n % k # 0
      <4>1. block_counter # SkipSize(mode) - 1
        <5>1. PICK r \in Nat : r = n % k /\ r # 0
          BY <1>8, <3>3
        <5>2. block_counter = k - 1 - r
          BY <1>5, <1>6, <5>1
        <5>3. block_counter # k - 1
          BY ONLY <1>4, <5>1, <5>2
        <5>. QED BY <1>3, <5>3, OfPostings
      <4>2. UNCHANGED <<next_doc_num, next_i, pos, next_start>>
        BY <4>1 DEF ReadHeader, skip_size
      <4>3. Target(i, k) = BlockEnd(n, k)
        BY <1>6, <3>3 DEF Target
      <4>. QED BY <1>5, <1>6, <3>1, <4>2, <4>3
    <3>. QED BY <3>2, <3>3
  <2>. QED BY <2>1, <2>2
<1>11. CursorInv'
  <2>1. postings' = l /\ Size(postings', mode') = k
    BY <1>2, <1>3
  <2>2. /\ i' = n /\ CurrDoc' = Doc(l, n) /\ block_counter' = k - 1 - (n % k)
        /\ op' = "op_term" \/ src' < Len(L')
    BY <1>1, <1>5, <1>6, <1>7
  <2>3. Target(i, k)' = BlockEnd(n, k)
    BY <1>1, <1>6 DEF Target
  <2>. QED BY <1>1, <1>4, <1>8, <1>10, <2>1, <2>2, <2>3 DEF CursorInv
<1>12. ListInv'
  <2>1. op # "op_term" => \A m \in 1 .. Len(candidates) :
                             m > src => candidates[m].DocNum > Doc(postings, i')
    BY <1>1, <1>4 DEF SkipInv, ListInv
  <2>. QED BY <1>1, <1>2, <1>4, <2>1, ListKept
<1>. QED BY <1>1, <1>11, <1>12, GetStep

-----------------------------------------------------------------------------
\* GetDocsOp decodes a posting.

\* The gap that a step decodes, or reckons.
NextGap ==
  IF have_skipping /\ block_counter = 0 /\ i # p - 1
  THEN [x |-> next_doc_num - CurrDoc, pos |-> pos]
  ELSE BblockDecode(file, pos, blk)

LEMMA NextStep ==
  ASSUME HasCounts, NextPosting
  PROVE  /\ CurrDoc' = CurrDoc + NextGap.x
         /\ pos' = GammaDecode(file, NextGap.pos).pos
         /\ UseDoc(CurrDoc + NextGap.x)
BY DEF NextPosting, NextGap

LEMMA NextIsRead ==
  ASSUME HasCounts, SkipInv, NextPosting,
         NEW l \in PostingLists, l = postings, NEW k \in Nat, k = Size(postings, mode)
  PROVE  /\ i \in 0 .. Len(l) - 1 /\ i' = i + 1
         /\ op # "op_term" => src < Len(L)
         /\ CurrDoc + NextGap.x = Doc(l, i + 1)
         /\ CurrDoc' = Doc(l, i + 1)
         /\ pos' = At(l, k, i + 1)
         /\ k > 0 => block_counter' = k - 1 - ((i + 1) % k)
         /\ (k > 0 /\ BlockEnd(i, k) < Len(l)) =>
              /\ next_i = BlockEnd(i, k)
              /\ next_start = At(l, k, BlockEnd(i, k))
              /\ next_doc_num = Doc(l, BlockEnd(i, k))
<1>1. /\ p = Len(l) /\ blk = GapBlk(l) /\ SkipSize(mode) = k /\ skip_size = k
      /\ have_skipping <=> k > 0
  BY OfPostings DEF skip_size, have_skipping
<1>2. /\ prog = "get" /\ i' = i + 1
      /\ (turn = "test" /\ ~CanSkip) \/ (turn = "top" /\ InLoop /\ ~have_skipping)
      /\ block_counter' = IF block_counter > 0 THEN block_counter - 1 ELSE skip_size - 1
  BY DEF NextPosting
<1>3. turn # "returned" /\ (turn = "test" <=> k > 0)
  <2>1. turn = "test" => k > 0
    BY <1>2, CursorRight
  <2>. QED BY <1>1, <1>2, <2>1
<1>4. /\ i \in 0 .. Len(l)
      /\ CurrDoc = Doc(l, i)
      /\ turn # "top" => k > 0 /\ i < Len(l) /\ (op = "op_term" \/ src < Len(L))
      /\ turn # "test" => pos = At(l, k, i)
      /\ turn = "test" => pos = At(l, k, i) + Len(HeadOf(l, k, i))
      /\ k > 0 =>
           /\ block_counter = k - 1 - (i % k)
           /\ Target(i, k) < Len(l) =>
                /\ next_i = Target(i, k)
                /\ next_start = At(l, k, Target(i, k))
                /\ next_doc_num = Doc(l, Target(i, k))
  BY <1>2, <1>3, CursorRight
<1>5. i < Len(l) /\ (op # "op_term" => src < Len(L))
  BY <1>1, <1>2, <1>4 DEF InLoop, Num
<1>6. PICK n \in Nat, N \in Nat : n = i /\ N = Len(l) /\ n < N
  BY <1>4, <1>5, ListFacts
<1>7. /\ n \in 0 .. Len(l) - 1 /\ n \in 0 .. Len(l) /\ n + 1 \in 0 .. Len(l)
  <2>1. n \in 0 .. N - 1 /\ n \in 0 .. N /\ n + 1 \in 0 .. N
    BY ONLY <1>6
  <2>. QED BY <1>6, <2>1
<1>8. PICK h \in Nat, g \in Nat, c \in Nat, a \in Nat :
        /\ h = Len(HeadOf(l, k, n)) /\ g = Len(GapOf(l, k, n)) /\ c = Len(CntBits(l, n))
        /\ a = At(l, k, n)
  BY <1>7, PieceRight, CntBitsRight, StartsUnfold
<1>9. PICK d \in Nat, e \in Nat : d = Doc(l, n) /\ e = Doc(l, n + 1)
  BY <1>7, GapBitsRight
<1>10. pos = a + h
  <2>1. CASE k > 0
    BY <1>3, <1>4, <1>6, <1>8, <2>1
  <2>2. CASE ~(k > 0)
    <3>1. h = 0
      BY <1>8, <2>2 DEF HeadOf, WithHead
    <3>. QED BY <1>3, <1>4, <1>6, <1>8, <2>2, <3>1
  <2>. QED BY <2>1, <2>2
<1>11. Stands(Piece(l, k, n), file, a)
  <2>1. Layout(l, k, file, Len(l))
    BY DEF SkipInv, FileInv
  <2>. QED BY <1>6, <1>7, <1>8, <2>1 DEF Layout
<1>12. k > 0 => /\ (n % k) \in 0 .. k - 1 /\ block_counter = k - 1 - (n % k)
                /\ block_counter = 0 <=> n % k = k - 1
  <2>. SUFFICES ASSUME k > 0
                PROVE  /\ (n % k) \in 0 .. k - 1 /\ block_counter = k - 1 - (n % k)
                       /\ block_counter = 0 <=> n % k = k - 1
    OBVIOUS
  <2>1. (n % k) \in 0 .. k - 1 /\ block_counter = k - 1 - (n % k)
    <3>1. k \in Nat \ {0} /\ n \in Nat
      BY <1>6
    <3>2. (n % k) \in 0 .. k - 1
      BY ONLY <3>1, BlockFacts
    <3>. QED BY <1>4, <1>6, <3>2
  <2>2. PICK r \in 0 .. k - 1 : r = n % k
    BY <2>1
  <2>3. block_counter = k - 1 - r
    BY <2>1, <2>2
  <2>4. block_counter = 0 <=> r = k - 1
    BY ONLY <2>2, <2>3
  <2>. QED BY <2>1, <2>2, <2>4
<1>13. (have_skipping /\ block_counter = 0 /\ i # p - 1) <=> NoGap(l, k, n)
  BY <1>1, <1>6, <1>12 DEF NoGap
<1>14. (k > 0 /\ BlockEnd(i, k) < Len(l)) =>
         /\ next_i = BlockEnd(i, k)
         /\ next_start = At(l, k, BlockEnd(i, k))
         /\ next_doc_num = Doc(l, BlockEnd(i, k))
  <2>1. k > 0 => Target(i, k) = BlockEnd(i, k)
    BY <1>3 DEF Target
  <2>. QED BY <1>4, <2>1
<1>15. NextGap.x = e - d /\ NextGap.pos = a + h + g
  <2>1. CASE NoGap(l, k, n)
    <3>1. NextGap = [x |-> next_doc_num - CurrDoc, pos |-> pos]
      BY <1>13, <2>1 DEF NextGap
    <3>2. k > 0 /\ n % k = k - 1 /\ n # Len(l) - 1
      BY <2>1 DEF NoGap
    <3>3. BlockEnd(i, k) = n + 1
      BY <1>6, <3>2, BlockFacts
    <3>4. n + 1 < Len(l)
      BY <1>6, <3>2
    <3>5. next_doc_num = e
      BY <1>9, <1>14, <3>2, <3>3, <3>4
    <3>6. g = 0
      BY <1>8, <2>1 DEF GapOf
    <3>7. NextGap.x = next_doc_num - CurrDoc /\ NextGap.pos = pos
      BY <3>1
    <3>8. CurrDoc = d
      BY <1>4, <1>6, <1>9
    <3>. QED BY <1>8, <1>10, <3>5, <3>6, <3>7, <3>8
  <2>2. CASE ~NoGap(l, k, n)
    <3>1. NextGap = BblockDecode(file, pos, GapBlk(l))
      BY <1>1, <1>13, <2>2 DEF NextGap
    <3>2. Reads(BblockDecode(file, a + Len(HeadOf(l, k, n)), GapBlk(l)), Doc(l, n + 1) - Doc(l, n),
                a + Len(HeadOf(l, k, n)), Len(GapOf(l, k, n)))
      BY <1>7, <1>11, <2>2, PieceIsRead
    <3>. QED BY <1>8, <1>9, <1>10, <3>1, <3>2 DEF Reads
  <2>. QED BY <2>1, <2>2
<1>16. GammaDecode(file, a + h + g).pos = a + h + g + c
  <2>1. Reads(GammaDecode(file, a + Len(HeadOf(l, k, n)) + Len(GapOf(l, k, n))),
              l[n + 1].count, a + Len(HeadOf(l, k, n)) + Len(GapOf(l, k, n)), Len(CntBits(l, n)))
    BY <1>7, <1>11, PieceIsRead
  <2>. QED BY <1>8, <2>1 DEF Reads
<1>17. CurrDoc + NextGap.x = e /\ CurrDoc' = e
  <2>1. CurrDoc + NextGap.x = d + (e - d)
    BY <1>4, <1>6, <1>9, <1>15
  <2>2. CurrDoc + NextGap.x = e
    BY ONLY <1>9, <2>1
  <2>. QED BY <2>2, NextStep
<1>18. pos' = At(l, k, n + 1)
  <2>1. At(l, k, n + 1) = At(l, k, n) + Len(Piece(l, k, n))
    BY <1>7, StartsUnfold
  <2>2. Len(Piece(l, k, n)) = h + g + c
    BY <1>7, <1>8, PieceRight
  <2>3. At(l, k, n + 1) = a + (h + g + c)
    BY <1>8, <2>1, <2>2
  <2>4. pos' = a + h + g + c
    BY <1>15, <1>16, NextStep
  <2>5. a \in Nat /\ h \in Nat /\ g \in Nat /\ c \in Nat
    BY <1>8
  <2>6. a + h + g + c = a + (h + g + c)
    BY ONLY <2>5
  <2>. QED BY <2>3, <2>4, <2>6
<1>19. k > 0 => block_counter' = k - 1 - ((n + 1) % k)
  <2>. SUFFICES ASSUME k > 0 PROVE block_counter' = k - 1 - ((n + 1) % k)
    OBVIOUS
  <2>1. PICK r \in 0 .. k - 1 : r = n % k
    BY <1>12
  <2>2. PICK s \in Nat : s = (n + 1) % k /\ s = IF r = k - 1 THEN 0 ELSE r + 1
    <3>0. k \in Nat \ {0} /\ n \in Nat
      BY <1>6
    <3>1. (n + 1) % k = IF n % k = k - 1 THEN 0 ELSE (n % k) + 1
      BY ONLY <3>0, BlockFacts
    <3>. QED BY <2>1, <3>1
  <2>3. block_counter = k - 1 - r
    BY <1>12, <2>1
  <2>4. block_counter' = IF block_counter > 0 THEN block_counter - 1 ELSE k - 1
    BY <1>1, <1>2
  <2>5. block_counter' = k - 1 - s
    <3>1. CASE r = k - 1
      BY ONLY <2>1, <2>2, <2>3, <2>4, <3>1, k \in Nat
    <3>2. CASE r # k - 1
      BY ONLY <2>1, <2>2, <2>3, <2>4, <3>2, k \in Nat
    <3>. QED BY <3>1, <3>2
  <2>. QED BY <2>2, <2>5
<1>. QED BY <1>2, <1>5, <1>6, <1>7, <1>9, <1>14, <1>17, <1>18, <1>19

\* The candidates that a step passes over are not documents of the word; the
\* one it stops at is, or is further on.
LEMMA PassedRight ==
  ASSUME NEW l \in PostingLists, NEW q \in CandidateLists, NEW n \in 0 .. Len(l) - 1,
         NEW M, Len(M) = Len(q), NEW b \in 0 .. Len(q),
         Ahead(M, q, b, Doc(l, n)),
         NEW doc, doc = Doc(l, n + 1)
  PROVE  /\ Stop(M, b, doc) \in 0 .. Len(q) /\ b <= Stop(M, b, doc)
         /\ Taken(M, b, doc) \in 0 .. Len(q)
         /\ Without(q, b, Stop(M, b, doc), DocsOf(l))
         /\ Meets(M, b, doc) =>
              /\ Taken(M, b, doc) = Stop(M, b, doc) + 1
              /\ Stop(M, b, doc) + 1 \in 1 .. Len(q)
              /\ q[Stop(M, b, doc) + 1].DocNum \in DocsOf(l)
              /\ M[Stop(M, b, doc) + 1] = q[Stop(M, b, doc) + 1]
         /\ ~Meets(M, b, doc) => Taken(M, b, doc) = Stop(M, b, doc)
         /\ Ahead(M, q, Taken(M, b, doc), doc)
<1>. USE DEF Ahead, Without
<1>0. PICK s, z : s = Stop(M, b, doc) /\ z = Taken(M, b, doc)
  OBVIOUS
<1>1. PICK C \in Nat, e \in Nat, d \in Nat :
        C = Len(q) /\ C = Len(M) /\ e = doc /\ d = Doc(l, n)
  BY GapBitsRight, CandidatesRight, ListFacts
<1>2. /\ s \in b .. C /\ s \in 0 .. C
      /\ \A m \in 1 .. C : b < m /\ m <= s => M[m].DocNum < doc
      /\ s < C => ~(M[s + 1].DocNum < doc)
  <2>1. s = Min(Below(M, b, doc))
    BY <1>0 DEF Stop
  <2>. QED BY <1>1, <2>1, PassBelow
<1>3. PICK B \in Nat, t \in Nat : B = b /\ t = s /\ B <= t /\ t <= C
  <2>1. b \in 0 .. C
    BY <1>1
  <2>. QED BY ONLY <1>1, <1>2, <2>1
<1>4. ASSUME NEW m \in 1 .. Len(q), b < m, m <= s PROVE q[m].DocNum \notin DocsOf(l)
  <2>1. M[m] = q[m] /\ q[m].DocNum > d /\ M[m].DocNum < doc
    BY <1>1, <1>2, <1>4
  <2>2. PICK x \in Nat : x = q[m].DocNum
    BY CandidatesRight
  <2>3. Doc(l, n) < x /\ x < Doc(l, n + 1)
    BY <1>1, <2>1, <2>2
  <2>. QED BY <2>2, <2>3, DocsRight
<1>5. s < C => /\ s + 1 \in 1 .. Len(q) /\ s + 1 > b /\ M[s + 1] = q[s + 1]
               /\ q[s + 1].DocNum \in Nat /\ ~(q[s + 1].DocNum < e)
  <2>. SUFFICES ASSUME s < C
                PROVE  /\ s + 1 \in 1 .. Len(q) /\ s + 1 > b /\ M[s + 1] = q[s + 1]
                       /\ q[s + 1].DocNum \in Nat /\ ~(q[s + 1].DocNum < e)
    OBVIOUS
  <2>1. t + 1 \in 1 .. C /\ t + 1 > B
    BY ONLY <1>1, <1>3, s < C
  <2>2. s + 1 \in 1 .. Len(q) /\ s + 1 > b
    BY <1>1, <1>3, <2>1
  <2>. QED BY <1>1, <1>2, <2>2, CandidatesRight
<1>6. CASE Meets(M, b, doc)
  <2>9. z = s + 1
    BY <1>0, <1>6 DEF Taken
  <2>8. s < Len(M) /\ M[s + 1].DocNum = doc
    BY <1>0, <1>6 DEF Meets
  <2>1. z = s + 1 /\ s + 1 \in 1 .. Len(q) /\ M[s + 1] = q[s + 1] /\ q[s + 1].DocNum = doc
    BY <1>1, <1>5, <2>9, <2>8
  <2>2. q[s + 1].DocNum \in DocsOf(l)
    BY <2>1, DocsRight
  <2>3. z \in 0 .. Len(q) /\ b < z /\ z = t + 1
    BY <1>1, <1>3, <2>1
  <2>4. ASSUME NEW m \in 1 .. Len(q), m > z PROVE M[m] = q[m] /\ q[m].DocNum > doc
    <3>1. m > b /\ s + 1 < m
      BY <1>1, <1>3, <2>1, <2>3, <2>4
    <3>2. q[s + 1].DocNum < q[m].DocNum
      BY <2>1, <3>1, CandidatesRight
    <3>3. M[m] = q[m]
      BY <3>1
    <3>4. PICK x \in Nat : x = q[m].DocNum
      BY CandidatesRight
    <3>. QED BY <1>1, <2>1, <3>2, <3>3, <3>4
  <2>5. s \in 0 .. Len(q) /\ b <= s
    BY <1>1, <1>3
  <2>. QED BY <1>0, <1>4, <1>6, <2>1, <2>2, <2>3, <2>4, <2>5
<1>7. CASE ~Meets(M, b, doc)
  <2>1. z = s
    BY <1>0, <1>7 DEF Taken
  <2>2. ASSUME NEW m \in 1 .. Len(q), m > z PROVE M[m] = q[m] /\ q[m].DocNum > doc
    <3>1. s < C /\ m > b /\ (m = s + 1 \/ s + 1 < m)
      <4>1. t < m /\ m \in 1 .. C
        BY <1>1, <1>3, <2>1, <2>2
      <4>2. t < C /\ m > B /\ (m = t + 1 \/ t + 1 < m)
        BY ONLY <1>1, <1>3, <4>1
      <4>. QED BY <1>3, <4>2
    <3>2. PICK x \in Nat, y \in Nat : x = q[m].DocNum /\ y = q[s + 1].DocNum
      BY <1>5, <3>1, CandidatesRight
    <3>3. y > e
      <4>1. ~(y < e) /\ y # e
        BY <1>0, <1>1, <1>5, <1>7, <3>1, <3>2 DEF Meets
      <4>. QED BY ONLY <1>1, <3>2, <4>1
    <3>4. x = y \/ y < x
      BY <1>5, <3>1, <3>2, CandidatesRight
    <3>5. x > e
      BY ONLY <1>1, <3>2, <3>3, <3>4
    <3>6. M[m] = q[m]
      BY <3>1
    <3>. QED BY <1>1, <3>2, <3>5, <3>6
  <2>3. s \in 0 .. Len(q) /\ b <= s
    BY <1>1, <1>3
  <2>. QED BY <1>0, <1>4, <1>7, <2>1, <2>2, <2>3
<1>. QED BY <1>6, <1>7

-----------------------------------------------------------------------------
\* What the switch does, in each of its cases.

LEMMA UseTerm ==
  ASSUME NEW doc, UseDoc(doc), op = "op_term"
  PROVE  /\ L' = Append(L, [DocNum |-> doc, or_included |-> FALSE])
         /\ src' = src
BY DEF UseDoc

LEMMA UseAnd ==
  ASSUME NEW doc, UseDoc(doc), op = "op_and_terms"
  PROVE  /\ L' = IF Meets(L, src, doc) THEN AndList(L, dest, Stop(L, src, doc)) ELSE L
         /\ dest' = IF Meets(L, src, doc) THEN dest + 1 ELSE dest
         /\ src' = Taken(L, src, doc)
BY DEF UseDoc, PassOver, Below, Stop, Meets, Taken, Num, AndList, OrList, DiffList

LEMMA UseOr ==
  ASSUME NEW doc, UseDoc(doc), op = "op_and_or_terms"
  PROVE  /\ L' = OrList(L, src, doc)
         /\ src' = Min(Included(L', Taken(L, src, doc)))
BY DEF UseDoc, PassOver, Below, Included, Stop, Meets, Taken, Num, AndList, OrList, DiffList

LEMMA UseDiff ==
  ASSUME NEW doc, UseDoc(doc), op = "op_diff_terms"
  PROVE  /\ L' = DiffList(L, dest, src, Stop(L, src, doc))
         /\ dest' = dest + Stop(L, src, doc) - src
         /\ src' = Taken(L, src, doc)
BY DEF UseDoc, PassOver, Below, Stop, Meets, Taken, Num, AndList, OrList, DiffList

\* op_and_terms.
LEMMA AndRight ==
  ASSUME NEW q \in CandidateLists, NEW D, NEW M \in Seq(Entries), Len(M) = Len(q),
         NEW b \in 0 .. Len(q), NEW x, Begins(M, x, q, D, b),
         NEW s \in 0 .. Len(q), b <= s,
         Without(q, b, s, D),
         s + 1 \in 1 .. Len(q), q[s + 1].DocNum \in D, M[s + 1] = q[s + 1]
  PROVE  LET K == AndList(M, x, s)
         IN /\ K \in Seq(Entries) /\ Len(K) = Len(q)
            /\ SameFrom(K, M, q, s + 1)
            /\ Begins(K, x + 1, q, D, s + 1)
<1>. USE DEF Without
<1>. USE DEF AndList, Begins, SameFrom
<1>. DEFINE K == AndList(M, x, s)
<1>1. PICK C \in Nat, X \in Nat, t \in Nat, B \in Nat :
        C = Len(q) /\ X = x /\ t = s /\ B = b /\ X <= B /\ B <= t /\ t + 1 <= C
  <2>1. Len(q) \in Nat
    BY CandidatesRight
  <2>. QED BY <2>1
<1>2. q \in Seq(Entries) /\ q[s + 1] \in Entries
  BY CandidatesRight
<1>3. K \in Seq(Entries) /\ Len(K) = C /\ DOMAIN M = 1 .. C
  BY <1>1, <1>2
<1>4. /\ K[x + 1] = q[s + 1]
      /\ \A m \in 1 .. C : m # x + 1 => K[m] = M[m]
  <2>1. X + 1 \in 1 .. C
    BY ONLY <1>1
  <2>. QED BY <1>1, <1>3, <2>1
<1>. HIDE DEF K
<1>5. \A m \in 1 .. C : m > s + 1 => m # x + 1
  BY <1>1
<1>6. AmongTo(q, D, s + 1) = Append(AmongTo(q, D, b), q[s + 1])
  <2>1. AmongTo(q, D, s) = AmongTo(q, D, b)
    <3>1. s \in b .. Len(q)
      BY <1>1
    <3>. QED BY <1>2, <3>1, AmongNone
  <2>2. \A y \in 1 .. Len(q) : q[y].DocNum \in D =>
          AmongTo(q, D, y) = Append(AmongTo(q, D, y - 1), q[y])
    BY <1>2, AmongStep
  <2>3. (s + 1) - 1 = s
    OBVIOUS
  <2>. QED BY <2>1, <2>2, <2>3
<1>7. SubSeq(K, 1, x + 1) = Append(SubSeq(M, 1, x), q[s + 1])
  <2>1. SubSeq(K, 1, X + 1) = [m \in 1 .. X + 1 |-> K[m]]
    BY <1>1, <1>3
  <2>2. SubSeq(M, 1, X) = [m \in 1 .. X |-> M[m]]
    BY <1>1
  <2>3. Append([m \in 1 .. X |-> M[m]], q[s + 1])
          = [m \in 1 .. X + 1 |-> IF m <= X THEN M[m] ELSE q[s + 1]]
    BY <1>1
  <2>4. \A m \in 1 .. X + 1 : K[m] = IF m <= X THEN M[m] ELSE q[s + 1]
    <3>1. \A m \in 1 .. X + 1 : (m <= X => m \in 1 .. C /\ m # X + 1) /\ (~(m <= X) => m = X + 1)
      BY ONLY <1>1
    <3>. QED BY <1>1, <1>4, <3>1
  <2>5. [m \in 1 .. X + 1 |-> K[m]] = [m \in 1 .. X + 1 |-> IF m <= X THEN M[m] ELSE q[s + 1]]
    BY <2>4
  <2>. QED BY <1>1, <2>1, <2>2, <2>3, <2>5
<1>8. x + 1 \in 0 .. s + 1
  BY <1>1
<1>. QED BY <1>1, <1>3, <1>4, <1>5, <1>6, <1>7, <1>8 DEF K

\* op_diff_terms.
LEMMA DiffRight ==
  ASSUME NEW q \in CandidateLists, NEW D, NEW M \in Seq(Entries), Len(M) = Len(q),
         NEW b \in 0 .. Len(q), NEW x, Begins(M, x, q, D, b),
         NEW s \in 0 .. Len(q), b <= s,
         NEW doc, Ahead(M, q, b, doc), Within(q, b, s, D)
  PROVE  LET K == DiffList(M, x, b, s)
         IN /\ K \in Seq(Entries) /\ Len(K) = Len(q)
            /\ SameFrom(K, M, q, s)
            /\ Begins(K, x + s - b, q, D, s)
<1>. USE DEF Ahead, Within
<1>. USE DEF DiffList, Begins, SameFrom
<1>. DEFINE K == DiffList(M, x, b, s)
<1>1. PICK C \in Nat, X \in Nat, t \in Nat, B \in Nat :
        C = Len(q) /\ X = x /\ t = s /\ B = b /\ X <= B /\ B <= t /\ t <= C
  <2>1. Len(q) \in Nat
    BY CandidatesRight
  <2>. QED BY <2>1
<1>2. q \in Seq(Entries) /\ \A m \in 1 .. C : M[m] \in Entries
  BY <1>1, CandidatesRight
<1>3. PICK y \in Nat : y = x + s - b /\ y = X + (t - B) /\ X <= y /\ y <= t
  <2>1. X + (t - B) \in Nat /\ X <= X + (t - B) /\ X + (t - B) <= t /\ X + t - B = X + (t - B)
    BY ONLY <1>1
  <2>. QED BY <1>1, <2>1
<1>4. \A n \in 1 .. C : K[n] = IF n \in X + 1 .. y THEN M[n - X + B] ELSE M[n]
  BY <1>1, <1>3
<1>5. \A n \in X + 1 .. y : n - X + B \in B + 1 .. t /\ n - X + B \in 1 .. C
  BY ONLY <1>1, <1>3
<1>6. K \in Seq(Entries) /\ Len(K) = C
  <2>1. \A n \in 1 .. C : K[n] \in Entries
    BY <1>2, <1>4, <1>5
  <2>2. K = [n \in 1 .. C |-> K[n]]
    BY <1>1
  <2>. HIDE DEF K
  <2>3. K \in [1 .. C -> Entries]
    BY <2>1, <2>2
  <2>4. K \in Seq(Entries) /\ DOMAIN K = 1 .. C
    BY ONLY <1>1, <2>3
  <2>. QED BY ONLY <1>1, <2>4
<1>. HIDE DEF K
<1>7. \A m \in 1 .. Len(q) : m > s => K[m] = M[m]
  <2>1. \A m \in 1 .. C : m > t => m \notin X + 1 .. y
    BY ONLY <1>1, <1>3
  <2>. QED BY <1>1, <1>4, <2>1
<1>8. AmongTo(q, D, s) = AmongTo(q, D, b) \o SubSeq(q, b + 1, s)
  <2>1. s \in b .. Len(q)
    BY <1>1
  <2>. QED BY <1>2, <2>1, AmongAll
<1>9. SubSeq(K, 1, y) = SubSeq(M, 1, X) \o SubSeq(q, B + 1, t)
  <2>1. SubSeq(K, 1, y) = [m \in 1 .. y |-> K[m]]
    BY <1>1, <1>3, <1>6
  <2>2. PICK u, v : u = SubSeq(M, 1, X) /\ v = SubSeq(q, B + 1, t)
    OBVIOUS
  <2>3. u \in Seq(Entries) /\ Len(u) = X /\ \A m \in 1 .. X : u[m] = M[m]
    BY <1>1, <2>2
  <2>4. v \in Seq(Entries) /\ Len(v) = t - B /\ \A m \in 1 .. t - B : v[m] = q[B + m]
    BY <1>1, <1>2, <2>2
  <2>5. u \o v = [m \in 1 .. y |-> IF m <= X THEN u[m] ELSE v[m - X]]
    <3>1. Len(u) + Len(v) = y
      BY ONLY <1>1, <1>3, <2>3, <2>4
    <3>2. /\ u \o v \in Seq(Entries) /\ Len(u \o v) = Len(u) + Len(v)
          /\ \A m \in 1 .. Len(u) + Len(v) : (u \o v)[m] = IF m <= Len(u) THEN u[m] ELSE v[m - Len(u)]
      <4>1. u \in Seq(Entries) /\ v \in Seq(Entries)
        BY <2>3, <2>4
      <4>. QED BY ONLY <4>1, ConcatProperties
    <3>3. PICK w : w = u \o v
      OBVIOUS
    <3>4. w \in Seq(Entries) /\ Len(w) = y /\ \A m \in 1 .. y : w[m] = IF m <= X THEN u[m] ELSE v[m - X]
      BY <2>3, <3>1, <3>2, <3>3
    <3>5. w = [m \in 1 .. y |-> w[m]]
      BY ONLY <1>3, <3>4
    <3>. QED BY ONLY <3>3, <3>4, <3>5
  <2>6. ASSUME NEW m \in 1 .. y PROVE K[m] = IF m <= X THEN u[m] ELSE v[m - X]
    <3>1. m \in 1 .. C
      BY ONLY <1>1, <1>3, m \in 1 .. y
    <3>2. CASE m <= X
      <4>1. m \notin X + 1 .. y /\ m \in 1 .. X
        BY ONLY <1>1, <1>3, <3>2, m \in 1 .. y
      <4>. QED BY <1>4, <2>3, <3>1, <3>2, <4>1
    <3>3. CASE ~(m <= X)
      <4>1. /\ m \in X + 1 .. y /\ m - X \in 1 .. t - B /\ m - X + B = B + (m - X)
            /\ m - X + B \in 1 .. C /\ m - X + B > B
        BY ONLY <1>1, <1>3, <3>3, m \in 1 .. y
      <4>2. K[m] = M[m - X + B]
        BY <1>4, <3>1, <4>1
      <4>3. M[m - X + B] = q[m - X + B]
        BY <1>1, <4>1
      <4>4. v[m - X] = q[B + (m - X)]
        BY <2>4, <4>1
      <4>. QED BY <3>3, <4>1, <4>2, <4>3, <4>4
    <3>. QED BY <3>2, <3>3
  <2>. QED BY <2>1, <2>2, <2>5, <2>6
<1>10. y \in 0 .. s
  BY <1>1, <1>3
<1>. QED BY <1>1, <1>3, <1>6, <1>7, <1>8, <1>9, <1>10 DEF K

LEMMA MarkRight ==
  ASSUME NEW e \in Entries, NEW D
  PROVE  /\ e.DocNum \in D => WithMark(e, D) = [e EXCEPT !.or_included = TRUE]
         /\ e.DocNum \notin D => WithMark(e, D) = e
         /\ e.or_included => WithMark(e, D) = e
         /\ [e EXCEPT !.or_included = TRUE] \in Entries
<1>1. e = [DocNum |-> e.DocNum, or_included |-> e.or_included] /\ e.or_included \in BOOLEAN
  BY DEF Entries
<1>2. \A w \in BOOLEAN :
        [e EXCEPT !.or_included = w] = [DocNum |-> e.DocNum, or_included |-> w]
  BY <1>1
<1>3. (e.or_included \/ e.DocNum \in D) \in BOOLEAN
  OBVIOUS
<1>4. WithMark(e, D) = [e EXCEPT !.or_included = (e.or_included \/ e.DocNum \in D)]
  BY DEF WithMark
<1>5. WithMark(e, D) = [DocNum |-> e.DocNum, or_included |-> (e.or_included \/ e.DocNum \in D)]
  BY <1>2, <1>3, <1>4
<1>6. e.DocNum \in D => (e.or_included \/ e.DocNum \in D) = TRUE
  OBVIOUS
<1>7. e.DocNum \notin D => (e.or_included \/ e.DocNum \in D) = e.or_included
  BY <1>1
<1>8. e.or_included => (e.or_included \/ e.DocNum \in D) = e.or_included
  BY <1>1
<1>9. [e EXCEPT !.or_included = TRUE] \in Entries
  BY DEF Entries
<1>. QED BY <1>1, <1>2, <1>5, <1>6, <1>7, <1>8, <1>9

\* op_and_or_terms.
LEMMA OrRight ==
  ASSUME NEW l \in PostingLists, NEW q \in CandidateLists, NEW n \in 0 .. Len(l) - 1,
         NEW M \in Seq(Entries), Len(M) = Len(q), NEW b \in 0 .. Len(q),
         Ahead(M, q, b, Doc(l, n)), MarkedTo(M, q, b, DocsOf(l)),
         NEW doc, doc = Doc(l, n + 1),
         NEW K, K = OrList(M, b, doc),
         NEW y, y = Min(Included(K, Taken(M, b, doc)))
  PROVE  /\ K \in Seq(Entries) /\ Len(K) = Len(q) /\ y \in 0 .. Len(q)
         /\ MarkedTo(K, q, y, DocsOf(l)) /\ Ahead(K, q, y, doc)
<1>. USE DEF Ahead, Without, MarkedTo, OrList
<1>1. PICK s, z : s = Stop(M, b, doc) /\ z = Taken(M, b, doc)
  OBVIOUS
<1>2. /\ s \in 0 .. Len(q) /\ b <= s /\ z \in 0 .. Len(q)
      /\ \A m \in 1 .. Len(q) : b < m /\ m <= s => q[m].DocNum \notin DocsOf(l)
      /\ Meets(M, b, doc) =>
           /\ z = s + 1 /\ s + 1 \in 1 .. Len(q)
           /\ q[s + 1].DocNum \in DocsOf(l) /\ M[s + 1] = q[s + 1]
      /\ ~Meets(M, b, doc) => z = s
      /\ \A m \in 1 .. Len(q) : m > z => M[m] = q[m] /\ q[m].DocNum > doc
  BY <1>1, PassedRight
<1>. DEFINE D == DocsOf(l)
<1>. HIDE DEF D
<1>3. PICK C \in Nat, B \in Nat, t \in Nat : C = Len(q) /\ B = b /\ t = s /\ B <= t /\ t <= C
  <2>1. Len(q) \in Nat
    BY CandidatesRight
  <2>. QED BY ONLY <1>2, <2>1, b \in 0 .. Len(q)
<1>4. \A m \in 1 .. C : q[m] \in Entries
  BY <1>3, CandidatesRight
<1>5. ASSUME NEW m \in 1 .. C, m <= s PROVE M[m] = WithMark(q[m], D)
  <2>1. CASE m <= b
    BY <1>3, <2>1 DEF D
  <2>2. CASE ~(m <= b)
    <3>1. m > b /\ b < m
      BY <1>3, <2>2
    <3>2. M[m] = q[m] /\ q[m].DocNum \notin D
      BY <1>2, <1>3, <1>5, <3>1 DEF D
    <3>. QED BY <1>4, <3>2, MarkRight
  <2>. QED BY <2>1, <2>2
<1>6. /\ K \in Seq(Entries) /\ Len(K) = C
      /\ \A m \in 1 .. C : m <= z => K[m] = WithMark(q[m], D)
      /\ \A m \in 1 .. C : m > z => K[m] = q[m]
  <2>1. CASE Meets(M, b, doc)
    <3>1. /\ K = [M EXCEPT ![s + 1].or_included = TRUE]
          /\ z = s + 1 /\ s + 1 \in 1 .. C /\ q[s + 1].DocNum \in D /\ M[s + 1] = q[s + 1]
      BY <1>1, <1>2, <1>3, <2>1 DEF D
    <3>2. PICK e \in Entries : e = q[s + 1]
      BY <1>4, <3>1
    <3>3. PICK f \in Entries : f = [e EXCEPT !.or_included = TRUE] /\ f = WithMark(e, D)
      BY <3>1, <3>2, MarkRight
    <3>4. K = [M EXCEPT ![s + 1] = f]
      BY <3>1, <3>2, <3>3
    <3>5. K \in Seq(Entries) /\ Len(K) = C
      <4>1. M \in [1 .. C -> Entries]
        BY <1>3
      <4>2. K \in [1 .. C -> Entries]
        BY ONLY <3>3, <3>4, <4>1
      <4>3. K \in Seq(Entries) /\ DOMAIN K = 1 .. C
        BY ONLY <1>3, <4>2
      <4>. QED BY ONLY <1>3, <4>3
    <3>6. K[s + 1] = f /\ \A m \in 1 .. C : m # s + 1 => K[m] = M[m]
      BY <1>3, <3>1, <3>4
    <3>7. \A m \in 1 .. C : m <= z => m = s + 1 \/ m <= s
      BY <1>3, <3>1
    <3>8. \A m \in 1 .. C : m > z => m # s + 1
      BY <1>3, <3>1
    <3>9. \A m \in 1 .. C : m <= s => m # s + 1
      BY <1>3
    <3>10. \A m \in 1 .. C : m <= z => K[m] = WithMark(q[m], D)
      BY <1>5, <3>2, <3>3, <3>6, <3>7, <3>9
    <3>11. \A m \in 1 .. C : m > z => K[m] = q[m]
      BY <1>2, <1>3, <3>6, <3>8
    <3>. QED BY <3>5, <3>10, <3>11
  <2>2. CASE ~Meets(M, b, doc)
    <3>1. K = M /\ z = s
      BY <1>2, <2>2
    <3>. QED BY <1>2, <1>3, <1>5, <3>1
  <2>. QED BY <2>1, <2>2
<1>7. /\ y \in z .. C /\ y \in 0 .. C
      /\ \A m \in 1 .. C : z < m /\ m <= y => K[m].or_included
  <2>1. y = Min(Included(K, z)) /\ Len(K) = C /\ z \in 0 .. C /\ C \in Nat
    BY <1>1, <1>2, <1>3, <1>6
  <2>2. Len(K) \in Nat /\ z \in 0 .. Len(K)
    BY <2>1
  <2>3. /\ y \in z .. Len(K) /\ y \in 0 .. Len(K)
        /\ \A m \in 1 .. Len(K) : z < m /\ m <= y => K[m].or_included
    BY <2>1, <2>2, PassIncluded
  <2>. QED BY <2>1, <2>3
<1>8. PICK Z \in Nat, Y \in Nat : Z = z /\ Y = y /\ Z <= Y /\ Y <= C
  BY <1>2, <1>3, <1>7
<1>9. ASSUME NEW m \in 1 .. C, m <= y PROVE K[m] = WithMark(q[m], D)
  <2>1. CASE m <= z
    BY <1>6, <2>1
  <2>2. CASE ~(m <= z)
    <3>1. m > z /\ z < m
      BY <1>8, <2>2
    <3>2. K[m] = q[m] /\ K[m].or_included
      BY <1>6, <1>7, <1>9, <3>1
    <3>. QED BY <1>4, <3>2, MarkRight
  <2>. QED BY <2>1, <2>2
<1>10. ASSUME NEW m \in 1 .. C, m > y PROVE K[m] = q[m] /\ q[m].DocNum > doc
  <2>1. m > z
    BY <1>8, <1>10
  <2>. QED BY <1>2, <1>3, <1>6, <2>1
<1>. QED BY <1>3, <1>6, <1>7, <1>9, <1>10 DEF D

LEMMA NextListRight ==
  ASSUME HasCounts, SkipInv, NextPosting PROVE ListInv'
<1>1. /\ prog = "get" /\ prog' = "get" /\ turn' = "top" /\ turn # "returned"
      /\ i' = i + 1
      /\ UNCHANGED <<op, candidates>> /\ UNCHANGED given
  BY DEF NextPosting
<1>2. postings' = postings
  BY <1>1 DEF given
<1>3. PICK l \in PostingLists, k \in Nat : l = postings /\ k = Size(postings, mode)
  BY ModesRight DEF SkipInv, FileInv
<1>4. /\ i \in 0 .. Len(l) - 1 /\ (op # "op_term" => src < Len(L))
      /\ CurrDoc + NextGap.x = Doc(l, i + 1)
  BY <1>3, NextIsRead
<1>5. PICK n \in 0 .. Len(l) - 1 : n = i
  BY <1>4
<1>6. PICK doc : doc = CurrDoc + NextGap.x /\ doc = Doc(l, n + 1)
  BY <1>4, <1>5
<1>7. UseDoc(doc)
  BY <1>6, NextStep
<1>8. PICK D : D = DocsOf(l)
  OBVIOUS
<1>9. DocsOf(postings)' = D
  <2>1. DocsOf(postings)' = DocsOf(postings)
    BY <1>2 DEF DocsOf
  <2>. QED BY <1>3, <1>8, <2>1
<1>10. ListInv
  BY DEF SkipInv
<1>11. op \in {"op_term", "op_and_terms", "op_and_or_terms", "op_diff_terms"}
  BY <1>1, <1>10 DEF ListInv
<1>12. CASE op = "op_term"
  <2>1. L = TermAnswer(l, n)
    BY <1>1, <1>3, <1>5, <1>10, <1>12 DEF ListInv
  <2>2. L' = Append(L, [DocNum |-> doc, or_included |-> FALSE])
    BY <1>7, <1>12, UseTerm
  <2>3. n \in Nat /\ Doc(l, n + 1) = l[n + 1].doc_num
    <3>1. l \in PostingLists /\ n \in 0 .. Len(l) - 1
      BY <1>3, <1>5
    <3>2. Doc(l, n + 1) = l[n + 1].doc_num
      BY ONLY HasCounts, <3>1, GapBitsRight
    <3>3. n \in Nat
      BY ONLY <3>1, ListFacts
    <3>. QED BY <3>2, <3>3
  <2>. DEFINE F(m) == [DocNum |-> l[m].doc_num, or_included |-> FALSE]
  <2>4. L' = Append([m \in 1 .. n |-> F(m)], F(n + 1))
    BY <1>6, <2>1, <2>2, <2>3 DEF TermAnswer
  <2>. HIDE DEF F
  <2>5. Append([m \in 1 .. n |-> F(m)], F(n + 1)) = [m \in 1 .. n + 1 |-> F(m)]
    BY <2>3
  <2>6. L' = TermAnswer(l, n + 1)
    BY <2>4, <2>5 DEF F, TermAnswer
  <2>7. TermAnswer(postings', i') = TermAnswer(l, n + 1)
    BY <1>1, <1>2, <1>3, <1>5
  <2>8. op' = "op_term"
    BY <1>1, <1>12
  <2>9. L' = TermAnswer(postings, i)'
    BY <2>6, <2>7 DEF TermAnswer
  <2>. QED BY <2>8, <2>9 DEF ListInv
<1>13. CASE op # "op_term"
  <2>1. PICK q \in CandidateLists : q = candidates
    BY <1>1, <1>10, <1>13 DEF ListInv
  <2>2. PICK M \in Seq(Entries), b \in 0 .. Len(q) :
          M = L /\ b = src /\ Len(M) = Len(q) /\ Ahead(M, q, b, Doc(l, n))
    BY <1>1, <1>3, <1>5, <1>10, <1>13, <2>1 DEF ListInv, Ahead
  <2>3. PICK s, z : s = Stop(M, b, doc) /\ z = Taken(M, b, doc)
    OBVIOUS
  <2>4. /\ s \in 0 .. Len(q) /\ b <= s /\ z \in 0 .. Len(q)
        /\ Without(q, b, s, D)
        /\ Meets(M, b, doc) =>
             /\ z = s + 1 /\ s + 1 \in 1 .. Len(q)
             /\ q[s + 1].DocNum \in D /\ M[s + 1] = q[s + 1]
        /\ ~Meets(M, b, doc) => z = s
        /\ Ahead(M, q, z, doc)
    BY <1>3, <1>5, <1>6, <1>8, <2>1, <2>2, <2>3, PassedRight
  <2>5. PICK C \in Nat, t \in Nat, B \in Nat :
          C = Len(q) /\ t = s /\ B = b /\ B <= t /\ t <= C
    <3>1. Len(q) \in Nat
      BY CandidatesRight
    <3>. QED BY ONLY <2>4, <3>1, b \in 0 .. Len(q)
  <2>6. /\ candidates' = q /\ op' = op
        /\ \A m \in 1 .. Len(q) : ~(m > Len(q))
    BY <1>1, <2>1, <2>5
  <2>7. Doc(postings, i)' = doc
    <3>1. Doc(postings', i') = doc
      BY <1>1, <1>2, <1>3, <1>5, <1>6
    <3>. QED BY <3>1 DEF Doc
  <2>8. SUFFICES /\ L' \in Seq(Entries) /\ Len(L') = Len(q) /\ src' \in 0 .. Len(q)
                 /\ Ahead(L', q, src', doc)
                 /\ op = "op_and_or_terms" => MarkedTo(L', q, src', D)
                 /\ op = "op_and_terms" =>
                      Begins(L', dest', q, D, src')
                 /\ op = "op_diff_terms" =>
                      Begins(L', dest', q, Nat \ D, src')
    <3>1. AmongTo(candidates, DocsOf(postings), src)' = AmongTo(q, D, src')
      <4>1. AmongTo(candidates', DocsOf(postings)', src') = AmongTo(q, D, src')
        BY <1>9, <2>6
      <4>. QED BY <4>1 DEF AmongTo, Among
    <3>2. AmongTo(candidates, Nat \ DocsOf(postings), src)' = AmongTo(q, Nat \ D, src')
      <4>1. AmongTo(candidates', Nat \ DocsOf(postings)', src') = AmongTo(q, Nat \ D, src')
        BY <1>9, <2>6
      <4>. QED BY <4>1 DEF AmongTo, Among
    <3>3. \A m \in 1 .. Len(q) : WithMark(candidates'[m], DocsOf(postings)') = WithMark(q[m], D)
      BY <1>9, <2>6
    <3>. QED BY <1>9, <1>11, <1>13, <2>6, <2>7, <3>1, <3>2, <3>3 DEF ListInv, Ahead, MarkedTo, Begins
  <2>9. CASE op = "op_and_terms"
    <3>1. /\ L' = IF Meets(M, b, doc) THEN AndList(M, dest, s) ELSE M
          /\ dest' = IF Meets(M, b, doc) THEN dest + 1 ELSE dest
          /\ src' = z
      <4>1. /\ L' = IF Meets(L, src, doc) THEN AndList(L, dest, Stop(L, src, doc)) ELSE L
            /\ dest' = IF Meets(L, src, doc) THEN dest + 1 ELSE dest
            /\ src' = Taken(L, src, doc)
        BY <1>7, <2>9, UseAnd
      <4>. QED BY <2>2, <2>3, <4>1
    <3>2. PICK x \in 0 .. b : x = dest /\ Begins(M, x, q, D, b)
      BY <1>1, <1>3, <1>8, <1>10, <2>1, <2>2, <2>9 DEF ListInv, Begins
    <3>3. CASE Meets(M, b, doc)
      <4>. DEFINE K == AndList(M, x, s)
      <4>1. L' = K /\ dest' = x + 1 /\ src' = s + 1
        BY <2>4, <3>1, <3>2, <3>3
      <4>2. /\ K \in Seq(Entries) /\ Len(K) = Len(q)
            /\ SameFrom(K, M, q, s + 1)
            /\ Begins(K, x + 1, q, D, s + 1)
        <5>1. /\ q \in CandidateLists /\ M \in Seq(Entries) /\ Len(M) = Len(q)
              /\ b \in 0 .. Len(q) /\ Begins(M, x, q, D, b)
              /\ s \in 0 .. Len(q) /\ b <= s /\ Without(q, b, s, D)
              /\ s + 1 \in 1 .. Len(q) /\ q[s + 1].DocNum \in D /\ M[s + 1] = q[s + 1]
          BY <2>1, <2>2, <2>4, <3>2, <3>3
        <5>. QED BY ONLY <5>1, AndRight
      <4>. HIDE DEF K
      <4>3. Ahead(K, q, s + 1, doc)
        BY <2>4, <3>3, <4>2 DEF Ahead, SameFrom
      <4>. QED BY <2>4, <2>9, <3>3, <4>1, <4>2, <4>3
    <3>4. CASE ~Meets(M, b, doc)
      <4>1. L' = M /\ dest' = x /\ src' = s
        BY <2>4, <3>1, <3>2, <3>4
      <4>2. AmongTo(q, D, s) = AmongTo(q, D, b)
        <5>1. q \in Seq(Entries) /\ s \in b .. Len(q)
          BY <2>5, CandidatesRight
        <5>. QED BY <2>4, <5>1, AmongNone DEF Without
      <4>3. x \in 0 .. s
        BY <2>5, <3>2
      <4>4. Begins(M, x, q, D, s)
        BY <3>2, <4>2, <4>3 DEF Begins
      <4>. QED BY <2>2, <2>4, <2>9, <3>2, <3>4, <4>1, <4>4
    <3>. QED BY <3>3, <3>4
  <2>10. CASE op = "op_and_or_terms"
    <3>1. PICK K, y : /\ K = L' /\ y = src'
                      /\ K = OrList(M, b, doc)
                      /\ y = Min(Included(K, Taken(M, b, doc)))
      <4>1. /\ L' = OrList(L, src, doc)
            /\ src' = Min(Included(L', Taken(L, src, doc)))
        BY <1>7, <2>10, UseOr
      <4>. QED BY <2>2, <4>1
    <3>2. MarkedTo(M, q, b, DocsOf(l))
      BY <1>1, <1>3, <1>10, <2>1, <2>2, <2>10 DEF ListInv, MarkedTo
    <3>3. /\ K \in Seq(Entries) /\ Len(K) = Len(q) /\ y \in 0 .. Len(q)
          /\ MarkedTo(K, q, y, DocsOf(l)) /\ Ahead(K, q, y, doc)
      BY <1>3, <1>5, <1>6, <1>8, <2>1, <2>2, <3>1, <3>2, OrRight
    <3>. QED BY <1>8, <2>10, <3>1, <3>3
  <2>11. CASE op = "op_diff_terms"
    <3>1. PICK x \in 0 .. b : x = dest /\ Begins(M, x, q, Nat \ D, b)
      BY <1>1, <1>3, <1>8, <1>10, <2>1, <2>2, <2>11 DEF ListInv, Begins
    <3>. DEFINE K == DiffList(M, x, b, s)
    <3>2. L' = K /\ dest' = x + s - b /\ src' = z
      <4>1. /\ L' = DiffList(L, dest, src, Stop(L, src, doc))
            /\ dest' = dest + Stop(L, src, doc) - src
            /\ src' = Taken(L, src, doc)
        BY <1>7, <2>11, UseDiff
      <4>. QED BY <2>2, <2>3, <3>1, <4>1
    <3>3. Within(q, b, s, Nat \ D)
      BY <2>4, CandidatesRight DEF Within, Without
    <3>4. /\ K \in Seq(Entries) /\ Len(K) = Len(q)
          /\ SameFrom(K, M, q, s)
          /\ Begins(K, x + s - b, q, Nat \ D, s)
      <4>1. /\ q \in CandidateLists /\ M \in Seq(Entries) /\ Len(M) = Len(q)
            /\ b \in 0 .. Len(q) /\ Begins(M, x, q, Nat \ D, b)
            /\ s \in 0 .. Len(q) /\ b <= s /\ Ahead(M, q, b, Doc(l, n))
            /\ Within(q, b, s, Nat \ D)
        BY <2>1, <2>2, <2>4, <3>1, <3>3
      <4>. QED BY ONLY <4>1, DiffRight
    <3>. HIDE DEF K
    <3>5. PICK y \in 0 .. s : y = x + s - b
      BY <3>4 DEF Begins
    <3>6. y \in 0 .. z /\ \A m \in 1 .. Len(q) : m > z => m > s
      BY <2>4, <2>5, <3>5
    <3>7. AmongTo(q, Nat \ D, z) = AmongTo(q, Nat \ D, s)
      <4>1. CASE Meets(M, b, doc)
        <5>1. \A m \in 1 .. Len(q) : q[m].DocNum \notin Nat \ D =>
                AmongTo(q, Nat \ D, m) = AmongTo(q, Nat \ D, m - 1)
          <6>1. q \in Seq(Entries)
            BY CandidatesRight
          <6>. QED BY <6>1, AmongStep
        <5>2. z = s + 1 /\ (s + 1) - 1 = s /\ s + 1 \in 1 .. Len(q) /\ q[s + 1].DocNum \in D
          BY <2>4, <2>5, <4>1
        <5>. QED BY <5>1, <5>2
      <4>2. CASE ~Meets(M, b, doc)
        BY <2>4, <4>2
      <4>. QED BY <4>1, <4>2
    <3>8. Ahead(K, q, z, doc)
      BY <2>4, <3>4, <3>6 DEF Ahead, SameFrom
    <3>9. Begins(K, y, q, Nat \ D, z)
      BY <3>4, <3>5, <3>6, <3>7 DEF Begins
    <3>. QED BY <2>4, <2>11, <3>2, <3>4, <3>5, <3>8, <3>9
  <2>. QED BY <1>11, <1>13, <2>9, <2>10, <2>11
<1>. QED BY <1>12, <1>13

LEMMA NextPostingRight == ASSUME HasCounts, SkipInv, NextPosting PROVE SkipInv'
<1>1. /\ prog = "get" /\ prog' = "get" /\ turn' = "top" /\ turn # "returned"
      /\ UNCHANGED <<next_i, next_start, next_doc_num>>
      /\ UNCHANGED <<given, rebuildvars>>
  BY DEF NextPosting
<1>2. postings' = postings /\ mode' = mode
  BY <1>1 DEF given
<1>3. PICK l \in PostingLists, k \in Nat : l = postings /\ k = Size(postings, mode)
  BY ModesRight DEF SkipInv, FileInv
<1>4. /\ i \in 0 .. Len(l) - 1 /\ i' = i + 1
      /\ CurrDoc' = Doc(l, i + 1)
      /\ pos' = At(l, k, i + 1)
      /\ k > 0 => block_counter' = k - 1 - ((i + 1) % k)
      /\ (k > 0 /\ BlockEnd(i, k) < Len(l)) =>
           /\ next_i = BlockEnd(i, k)
           /\ next_start = At(l, k, BlockEnd(i, k))
           /\ next_doc_num = Doc(l, BlockEnd(i, k))
  BY <1>3, NextIsRead
<1>5. PICK n \in Nat : n = i /\ n + 1 \in 0 .. Len(l)
  BY <1>4, ListFacts
<1>6. k > 0 => Target(i, k)' = BlockEnd(n, k)
  <2>. SUFFICES ASSUME k > 0 PROVE Target(i, k)' = BlockEnd(n, k)
    OBVIOUS
  <2>1. k \in Nat \ {0} /\ n \in Nat
    BY <1>3
  <2>2. /\ (n + 1) % k = IF n % k = k - 1 THEN 0 ELSE (n % k) + 1
        /\ n % k = k - 1 <=> BlockEnd(n, k) = n + 1
        /\ n % k # k - 1 => BlockEnd(n + 1, k) = BlockEnd(n, k)
        /\ n % k \in 0 .. k - 1
    BY ONLY <2>1, BlockFacts
  <2>3. i' = n + 1 /\ turn' # "test"
    BY <1>1, <1>4, <1>5
  <2>4. CASE n % k = k - 1
    BY <2>2, <2>3, <2>4 DEF Target
  <2>5. CASE n % k # k - 1
    <3>1. (n + 1) % k # 0
      BY <2>2, <2>5
    <3>. QED BY <2>2, <2>3, <2>5, <3>1 DEF Target
  <2>. QED BY <2>4, <2>5
<1>7. CursorInv'
  <2>1. postings' = l /\ Size(postings', mode') = k
    BY <1>2, <1>3
  <2>2. At(l, k, n + 1) + 0 = At(l, k, n + 1)
    BY <1>5, StartsUnfold
  <2>3. PICK m \in 0 .. Len(l) : m = n + 1
    BY <1>5
  <2>4. /\ i' = m /\ CurrDoc' = Doc(l, m) /\ pos' = At(l, k, m) + 0
        /\ k > 0 => block_counter' = k - 1 - (m % k)
    BY <1>4, <1>5, <2>2, <2>3
  <2>5. k > 0 /\ BlockEnd(n, k) < Len(l) =>
          /\ next_i' = BlockEnd(n, k)
          /\ next_start' = At(l, k, BlockEnd(n, k))
          /\ next_doc_num' = Doc(l, BlockEnd(n, k))
    BY <1>1, <1>4, <1>5
  <2>. QED BY <1>1, <1>6, <2>1, <2>3, <2>4, <2>5 DEF CursorInv
<1>. QED BY <1>1, <1>7, NextListRight, GetStep

-----------------------------------------------------------------------------
\* The answer.

LEMMA ReturnRight == ASSUME HasCounts, SkipInv, Return PROVE SkipInv'
<1>1. /\ prog = "get" /\ prog' = "get" /\ turn = "top" /\ turn' = "returned"
      /\ ~InLoop /\ L' = Result
      /\ UNCHANGED <<op, candidates>>
      /\ UNCHANGED <<given, rebuildvars>>
  BY DEF Return
<1>2. UNCHANGED <<postings, file, mode, outmode, out, ii, j, doc_num, bits_so_far,
                  next_mjr_dn, last_major, in_pos, promised>>
  BY <1>1 DEF given, rebuildvars
<1>3. FileInv' /\ Idle'
  BY <1>1, <1>2 DEF SkipInv, FileInv, Idle
<1>4. PICK l \in PostingLists, k \in Nat : l = postings /\ k = Size(postings, mode)
  BY ModesRight DEF SkipInv, FileInv
<1>5. PICK n \in 0 .. Len(l), N \in Nat : n = i /\ N = Len(l) /\ n \in Nat /\ n <= N
  <2>1. i \in 0 .. Len(l)
    BY <1>1, <1>4, CursorRight
  <2>. QED BY <2>1, ListFacts
<1>6. ListInv
  BY DEF SkipInv
<1>7. op \in {"op_term", "op_and_terms", "op_and_or_terms", "op_diff_terms"}
  BY <1>1, <1>6 DEF ListInv
<1>8. PICK D : D = DocsOf(l)
  OBVIOUS
<1>9. p' = N /\ DocsOf(postings)' = D /\ p = N
  <2>1. p = N /\ p' = Len(postings')
    BY <1>4, <1>5 DEF p
  <2>2. DocsOf(postings)' = DocsOf(postings)
    BY <1>2 DEF DocsOf
  <2>. QED BY <1>2, <1>4, <1>5, <1>8, <2>1, <2>2
<1>10. AnswerIsRight'
  <2>1. CASE op = "op_term"
    <3>1. n = N
      BY <1>1, <1>5, <1>9, <2>1 DEF InLoop
    <3>2. L' = L
      BY <1>1, <2>1 DEF Result
    <3>3. L' = TermAnswer(l, N)
      BY <1>1, <1>4, <1>5, <1>6, <2>1, <3>1, <3>2 DEF ListInv
    <3>4. L' = [m \in 1 .. p' |-> [DocNum |-> postings'[m].doc_num, or_included |-> FALSE]]
      BY <1>2, <1>4, <1>9, <3>3 DEF TermAnswer
    <3>. QED BY <1>1, <2>1, <3>4 DEF AnswerIsRight
  <2>2. CASE op # "op_term"
    <3>1. PICK q \in CandidateLists : q = candidates
      BY <1>1, <1>6, <2>2 DEF ListInv
    <3>2. PICK M \in Seq(Entries), b \in 0 .. Len(q) :
            M = L /\ b = src /\ Len(M) = Len(q) /\ Ahead(M, q, b, Doc(l, n))
      BY <1>1, <1>4, <1>5, <1>6, <2>2, <3>1 DEF ListInv, Ahead
    <3>3. PICK C \in Nat, B \in Nat : C = Len(q) /\ B = b /\ B <= C /\ (B = C \/ n = N)
      <4>1. Len(q) \in Nat
        BY CandidatesRight
      <4>2. b = Len(q) \/ n = N
        BY <1>1, <1>5, <1>9, <2>2, <3>2, <4>1 DEF InLoop, Num
      <4>. QED BY <3>2, <4>1, <4>2
    <3>4. Without(q, b, C, D)
      <4>. SUFFICES ASSUME NEW m \in 1 .. Len(q), b < m, q[m].DocNum \in D PROVE FALSE
        BY DEF Without
      <4>1. m > b /\ n = N
        BY <3>3
      <4>2. PICK x \in Nat : x = q[m].DocNum
        BY CandidatesRight
      <4>3. x > Doc(l, Len(l))
        BY <1>5, <3>2, <4>1, <4>2 DEF Ahead
      <4>4. Doc(l, Len(l)) \in Nat
        BY <1>5, <4>1, ListFacts
      <4>5. Doc(l, Len(l)) < x
        BY <4>2, <4>3, <4>4
      <4>. QED BY <1>8, <4>2, <4>5, DocsRight
    <3>5. candidates' = q /\ op' = op /\ turn' = "returned"
      BY <1>1, <3>1
    <3>6. q \in Seq(Entries) /\ C \in b .. Len(q) /\ C \in 0 .. Len(q) /\ DOMAIN q = 1 .. C
      BY <3>2, <3>3, CandidatesRight
    <3>7. \A F : AmongTo(q, F, C) = Among(q, F)
      BY <3>3, <3>6, AmongStep
    <3>8. CASE op = "op_and_terms"
      <4>1. PICK x \in 0 .. b : x = dest /\ Begins(M, x, q, D, b)
        BY <1>1, <1>4, <1>6, <1>8, <2>2, <3>1, <3>2, <3>8 DEF ListInv, Begins
      <4>2. L' = SubSeq(M, 1, x)
        BY <1>1, <3>2, <3>8, <4>1 DEF Result
      <4>3. AmongTo(q, D, C) = AmongTo(q, D, b)
        BY <3>4, <3>6, AmongNone DEF Without
      <4>4. L' = Among(q, D)
        BY <3>7, <4>1, <4>2, <4>3 DEF Begins
      <4>5. Among(candidates, DocsOf(postings))' = Among(q, D)
        <5>1. Among(candidates', DocsOf(postings)') = Among(q, D)
          BY <1>9, <3>5
        <5>. QED BY <5>1 DEF Among
      <4>. QED BY <3>5, <3>8, <4>4, <4>5 DEF AnswerIsRight
    <3>9. CASE op = "op_and_or_terms"
      <4>1. MarkedTo(M, q, b, D)
        BY <1>1, <1>4, <1>6, <1>8, <2>2, <3>1, <3>2, <3>9 DEF ListInv, MarkedTo
      <4>2. L' = M
        BY <1>1, <3>2, <3>9 DEF Result
      <4>3. ASSUME NEW m \in 1 .. C PROVE M[m] = WithMark(q[m], D)
        <5>1. CASE m <= b
          BY <3>3, <4>1, <5>1 DEF MarkedTo
        <5>2. CASE ~(m <= b)
          <6>1. m > b /\ b < m
            BY <3>3, <5>2
          <6>2. M[m] = q[m] /\ q[m].DocNum \notin D
            BY <3>2, <3>3, <3>4, <6>1 DEF Ahead, Without
          <6>3. q[m] \in Entries
            BY <3>3, CandidatesRight
          <6>. QED BY <6>2, <6>3, MarkRight
        <5>. QED BY <5>1, <5>2
      <4>4. M = [m \in 1 .. C |-> WithMark(q[m], D)]
        <5>1. M = [m \in 1 .. C |-> M[m]]
          BY <3>2, <3>3
        <5>. QED BY <4>3, <5>1
      <4>5. L' = [m \in DOMAIN candidates' |->
                    [candidates'[m] EXCEPT !.or_included =
                       @ \/ candidates'[m].DocNum \in DocsOf(postings)']]
        BY <1>9, <3>5, <3>6, <4>2, <4>4 DEF WithMark
      <4>. QED BY <3>5, <3>9, <4>5 DEF AnswerIsRight
    <3>10. CASE op = "op_diff_terms"
      <4>1. PICK x \in 0 .. b : x = dest /\ Begins(M, x, q, Nat \ D, b)
        BY <1>1, <1>4, <1>6, <1>8, <2>2, <3>1, <3>2, <3>10 DEF ListInv, Begins
      <4>2. L' = SubSeq(M, 1, x) \o SubSeq(M, b + 1, C)
        BY <1>1, <3>2, <3>3, <3>10, <4>1 DEF Result, Num
      <4>3. SubSeq(M, b + 1, C) = SubSeq(q, b + 1, C)
        <5>1. \A m \in 1 .. C - B : M[B + m] = q[B + m]
          <6>1. \A m \in 1 .. C - B : B + m \in 1 .. C /\ B + m > B
            BY <3>3
          <6>. QED BY <3>2, <3>3, <6>1 DEF Ahead
        <5>2. PICK u, v : u = SubSeq(M, B + 1, C) /\ v = SubSeq(q, B + 1, C)
          OBVIOUS
        <5>3. u \in Seq(Entries) /\ Len(u) = C - B /\ \A m \in 1 .. C - B : u[m] = M[B + m]
          BY <3>2, <3>3, <5>2
        <5>4. v \in Seq(Entries) /\ Len(v) = C - B /\ \A m \in 1 .. C - B : v[m] = q[B + m]
          BY <3>3, <3>6, <5>2
        <5>5. u = [m \in 1 .. C - B |-> u[m]] /\ v = [m \in 1 .. C - B |-> v[m]]
          BY <5>3, <5>4
        <5>6. u = v
          BY <5>1, <5>3, <5>4, <5>5
        <5>. QED BY <3>3, <5>2, <5>6
      <4>4. AmongTo(q, Nat \ D, C) = AmongTo(q, Nat \ D, b) \o SubSeq(q, b + 1, C)
        <5>1. \A m \in 1 .. Len(q) : b < m /\ m <= C => q[m].DocNum \in Nat \ D
          BY <3>4, CandidatesRight DEF Without
        <5>. QED BY <3>6, <5>1, AmongAll
      <4>5. L' = Among(q, Nat \ D)
        BY <3>7, <4>1, <4>2, <4>3, <4>4 DEF Begins
      <4>6. Among(candidates, Nat \ DocsOf(postings))' = Among(q, Nat \ D)
        <5>1. Among(candidates', Nat \ DocsOf(postings)') = Among(q, Nat \ D)
          BY <1>9, <3>5
        <5>. QED BY <5>1 DEF Among
      <4>. QED BY <3>5, <3>10, <4>5, <4>6 DEF AnswerIsRight
    <3>. QED BY <1>7, <2>2, <3>8, <3>9, <3>10
  <2>. QED BY <2>1, <2>2
<1>. QED BY <1>1, <1>3, <1>10 DEF SkipInv, ReadInv, WriteInv, CursorInv, ListInv

-----------------------------------------------------------------------------
(***************************************************************************)
(* The theorems.                                                           *)
(***************************************************************************)

LEMMA SkipInvHolds == HasCounts => (SkipSpec => []SkipInv)
<1>. SUFFICES ASSUME HasCounts PROVE SkipSpec => []SkipInv
  BY DEF HasCounts
<1>1. SkipInit => SkipInv
  BY SkipInitRight
<1>2. SkipInv /\ [SkipNext]_skipVars => SkipInv'
  <2>. SUFFICES ASSUME SkipInv, [SkipNext]_skipVars PROVE SkipInv'
    OBVIOUS
  <2>1. CASE StartRebuild
    BY <2>1, StartRebuildRight
  <2>2. CASE ReadPosting
    BY <2>2, ReadPostingRight
  <2>3. CASE DoneReading
    BY <2>3, DoneReadingRight
  <2>4. CASE WritePosting
    BY <2>4, WritePostingRight
  <2>5. CASE DoneWriting
    BY <2>5, DoneWritingRight
  <2>6. CASE StartGet
    BY <2>6, StartGetRight
  <2>7. CASE ShortCut
    BY <2>7, ShortCutRight
  <2>8. CASE ReadHeader
    BY <2>8, ReadHeaderRight
  <2>9. CASE NextPosting
    BY <2>9, NextPostingRight
  <2>10. CASE Return
    BY <2>10, ReturnRight
  <2>11. CASE UNCHANGED skipVars
    <3>1. /\ UNCHANGED <<postings, file, mode, prog, outmode, out, ii, j, doc_num, bits_so_far,
                         next_mjr_dn, last_major, in_pos, promised>>
          /\ UNCHANGED <<op, L, candidates, i, pos, CurrDoc, next_i, next_start, next_doc_num,
                         block_counter, src, dest, turn>>
      BY <2>11 DEF skipVars, given, rebuildvars, getvars, cursor
    <3>2. FileInv' /\ (prog' \in {"none", "get"} => Idle')
      BY <3>1 DEF SkipInv, FileInv, Idle
    <3>3. ReadInv' /\ WriteInv'
      BY <3>1 DEF SkipInv, ReadInv, WriteInv
    <3>4. CursorInv'
      BY <3>1 DEF SkipInv, CursorInv, Target
    <3>5. ListInv'
      BY <3>1 DEF SkipInv, ListInv, DocsOf
    <3>6. AnswerIsRight'
      BY <3>1, AnswerKept DEF SkipInv
    <3>. QED BY <3>2, <3>3, <3>4, <3>5, <3>6 DEF SkipInv
  <2>. QED BY <2>1, <2>2, <2>3, <2>4, <2>5, <2>6, <2>7, <2>8, <2>9, <2>10, <2>11 DEF SkipNext
<1>. QED BY <1>1, <1>2, PTL DEF SkipSpec

LEMMA ReadsBack == ASSUME HasCounts, SkipInv PROVE RebuildReadsBack
<1>1. PICK l \in PostingLists, k \in Nat : l = postings /\ k = Size(postings, outmode)
  BY ModesRight DEF SkipInv, FileInv
<1>2. p = Len(l) /\ SkipSize(outmode) = k /\ Len(l) \in Nat
  BY <1>1, OfPostings, ListFacts
<1>3. WriteInv
  BY DEF SkipInv
<1>4. CASE prog # "write"
  BY <1>4 DEF RebuildReadsBack, SkipsLandOnBlocks
<1>5. CASE prog = "write"
  <2>1. /\ j \in 0 .. Len(l)
        /\ ii = [n \in 1 .. Len(l) |-> Noted(l, n)]
        /\ Layout(l, k, out, j)
        /\ (k > 0 /\ NextBlock(j, k) < Len(l)) =>
             (j > 0 => promised = At(l, k, NextBlock(j, k)) - 1)
    BY <1>1, <1>3, <1>5 DEF WriteInv
  <2>2. Len(ii) = p
    BY <1>2, <2>1
  <2>3. ASSUME NEW n \in 1 .. p
        PROVE  /\ ii[n].doc_num = postings[n].doc_num
               /\ HasCounts => ii[n].count = postings[n].count
               /\ ii[n].bits_so_far = Len(FlattenSeq(SubSeq(Codes(postings), 1, n - 1)))
    <3>1. ii[n] = Noted(l, n)
      BY <1>2, <2>1
    <3>2. /\ Noted(l, n).doc_num = l[n].doc_num /\ Noted(l, n).count = l[n].count
          /\ Noted(l, n).bits_so_far = LenTo(l, n - 1)
      BY DEF Noted
    <3>. QED BY <1>1, <3>1, <3>2 DEF LenTo
  <2>4. SkipsLandOnBlocks
    <3>. SUFFICES ASSUME k > 0, 0 < j, j < p, j % k = 0 PROVE Len(out) = promised
      BY <1>2 DEF SkipsLandOnBlocks
    <3>1. NextBlock(j, k) = j
      BY DEF NextBlock
    <3>2. promised = At(l, k, j) - 1
      BY <1>2, <2>1, <3>1
    <3>3. Len(out) + 1 = At(l, k, j) /\ Len(out) \in Nat
      BY <2>1 DEF Layout
    <3>. QED BY <3>2, <3>3
  <2>. QED BY <2>2, <2>3, <2>4 DEF RebuildReadsBack
<1>. QED BY <1>4, <1>5

\* What mg_invf_rebuild reads from a file of any skip mode, its own output
\* included, is the list of the word, in an inverted file that holds the counts;
\* the lengths it reckons are those of the list without skips, and every header
\* it writes says where the next block starts.
THEOREM RebuildsAreFaithful == HasCounts => (SkipSpec => []RebuildReadsBack)
<1>. SUFFICES ASSUME HasCounts PROVE SkipSpec => []RebuildReadsBack
  BY DEF HasCounts
<1>1. SkipSpec => []SkipInv
  BY SkipInvHolds
<1>2. SkipInv => RebuildReadsBack
  BY ReadsBack
<1>. QED BY <1>1, <1>2, PTL

\* However the list of the word was rebuilt, whatever GetDocsOp hops over, and
\* whatever the candidates, what it returns is the set operation it was asked
\* for.
THEOREM SkippingKeepsAnswers == HasCounts => (SkipSpec => []AnswerIsRight)
<1>. SUFFICES ASSUME HasCounts PROVE SkipSpec => []AnswerIsRight
  BY DEF HasCounts
<1>1. SkipSpec => []SkipInv
  BY SkipInvHolds
<1>2. SkipInv => AnswerIsRight
  BY DEF SkipInv
<1>. QED BY <1>1, <1>2, PTL
=============================================================================
