------------------------------ MODULE HuffCode ------------------------------
(***************************************************************************)
(* Huffman codes as lib/huffman.c makes them and lib/huffman.h reads them: *)
(* one array of 2 * num places holds the frequencies of the leaves in its  *)
(* upper half and, in its lower half, first a heap of pointers to them and *)
(* then, from the far end of the shrinking heap, the inner nodes of the    *)
(* tree; the code lengths are turned into canonical codes, the codes of    *)
(* each length numbered from min_code upwards, so that a reader needs no   *)
(* tree.  Places and symbols count from 0 as in the code.                  *)
(***************************************************************************)
EXTENDS BitCodes, FiniteSetsExt

\* Place i of the heap refers to a node whose frequency is heap[heap[i]].
Key(h, i) == h[h[i - 1]]

\* Mutant: the right child is never looked at.
LesserChildLeft(h, n, child) == child

LesserChild(h, n, child) ==
  IF child < n /\ Key(h, child + 1) < Key(h, child) THEN child + 1 ELSE child

Exchange(h, i, j) == [h EXCEPT ![i - 1] = h[j - 1], ![j - 1] = h[i - 1]]

RECURSIVE SiftDown(_, _, _)
SiftDown(h, n, curr) ==
  IF 2 * curr > n THEN h
  ELSE LET child == LesserChild(h, n, 2 * curr)
       IN IF Key(h, curr) > Key(h, child)
          THEN SiftDown(Exchange(h, curr, child), n, child)
          ELSE h

RECURSIVE PullUp(_, _)
PullUp(h, curr) ==
  LET parent == curr \div 2
  IN IF parent > 0 /\ Key(h, parent) > Key(h, curr)
     THEN PullUp(Exchange(h, parent, curr), parent)
     ELSE h

RECURSIVE BuildFrom(_, _, _)
BuildFrom(h, n, i) ==
  IF i = 0 THEN h ELSE BuildFrom(SiftDown(h, n, i), n, i - 1)

\* One node taken from the head of a heap of n.
TakeHead(h, n) == SiftDown([h EXCEPT ![0] = h[n - 1]], n - 1, 1)

-----------------------------------------------------------------------------

Used(f) == {i \in DOMAIN f : f[i] > 0}

\* With one symbol in use no tree is built, its place still holds its
\* frequency and that is taken for the node above it: the length is 1 unless
\* the frequency is the place itself or lies behind the array.
OneSymbolFits(f) ==
  \A i \in DOMAIN f :
    Used(f) = {i} /\ Cardinality(DOMAIN f) > 1 =>
      f[i] # Cardinality(DOMAIN f) + i /\ f[i] < 2 * Cardinality(DOMAIN f)

Pointers(f, n) ==
  LET place(i) == Cardinality({j \in Used(f) : j < i})
  IN [k \in 0 .. 2 * n - 1 |->
        IF k >= n THEN f[k - n]
        ELSE IF \E i \in Used(f) : place(i) = k
             THEN n + CHOOSE i \in Used(f) : place(i) = k
             ELSE 0]

\* The two lightest nodes leave a heap of n; the node above them takes one of
\* the two places that became free and a pointer to it the other.
MergeLightest(h, n) ==
  LET first  == h[0]
      one    == TakeHead(h, n)
      second == one[0]
      two    == TakeHead(one, n - 1)
      node   == n - 1
      sum    == two[first] + two[second]
      linked == [[[two EXCEPT ![node] = sum] EXCEPT
                   ![first] = node, ![second] = node] EXCEPT ![n - 2] = node]
  IN PullUp(linked, n - 1)

\* Every node is one deeper than the node above it, which stands before it;
\* heap[0] is -1, unsigned, so that what has no node above it gets 0.
Depths(h, n) ==
  LET depth[i \in 0 .. 2 * n - 1] ==
        IF i = 0 THEN -1 ELSE IF i = 1 THEN 0
        ELSE IF h[i] < i THEN depth[h[i]] + 1 ELSE h[h[i]] + 1
  IN depth

MinCodes(lencount, longest) ==
  LET min[k \in 0 .. longest] ==
        IF k = longest THEN 0 ELSE (min[k + 1] + lencount[k + 1]) \div 2
  IN min

Tables(clens, n) ==
  LET lens     == {clens[i] : i \in DOMAIN clens} \ {0}
      longest  == IF lens = {} THEN 0 ELSE Max(lens)
      lencount == [k \in 0 .. longest |->
                     IF k = 0 THEN 0 ELSE Cardinality({i \in DOMAIN clens : clens[i] = k})]
  IN [num_codes  |-> IF lens = {} THEN 0 ELSE n,
      maxcodelen |-> longest,
      lencount   |-> lencount,
      min_code   |-> MinCodes(lencount, longest),
      clens      |-> clens]

RECURSIVE MergeAll(_, _)
MergeAll(h, n) == IF n <= 1 THEN h ELSE MergeAll(MergeLightest(h, n), n - 1)

LeafLengths(h, n) ==
  LET depth == Depths(h, n) IN [i \in 0 .. n - 1 |-> depth[n + i]]

\* The whole of Generate_Huffman_Data for a frequency table.
HuffmanData(f) ==
  LET n    == Cardinality(DOMAIN f)
      used == Cardinality(Used(f))
      tree == MergeAll(BuildFrom(Pointers(f, n), used, used \div 2), used)
  IN Tables(LeafLengths(tree, n), n)

-----------------------------------------------------------------------------

\* The codes of a length are handed out in the order of the symbols.
Generate_Huffman_Codes(hd) ==
  [i \in {j \in DOMAIN hd.clens : hd.clens[j] > 0} |->
     hd.min_code[hd.clens[i]]
       + Cardinality({j \in DOMAIN hd.clens : j < i /\ hd.clens[j] = hd.clens[i]})]

\* A symbol without a code takes no bits.
HuffEncode(x, codes, clens) == IF clens[x] = 0 THEN <<>> ELSE Bits(codes[x], clens[x])

\* Mutant: the symbols of a length are filled in from the last place.
ValsBackwards(hd) ==
  [k \in 1 .. hd.maxcodelen |->
     LET of == {i \in DOMAIN hd.clens : hd.clens[i] = k}
     IN [n \in 1 .. hd.lencount[k] |->
           CHOOSE i \in of : Cardinality({j \in of : j > i}) = n - 1]]

\* The symbols of each code length, in order.
Generate_Huffman_Vals(hd) ==
  [k \in 1 .. hd.maxcodelen |->
     LET of == {i \in DOMAIN hd.clens : hd.clens[i] = k}
     IN [n \in 1 .. hd.lencount[k] |->
           CHOOSE i \in of : Cardinality({j \in of : j < i}) = n - 1]]

\* Bits are added until the number is one of a code of that length.
RECURSIVE HuffReadFrom(_, _, _, _, _)
HuffReadFrom(min_code, s, pos, len, value) ==
  LET longer == 2 * value + s[pos]
  IN IF longer < min_code[len]
     THEN HuffReadFrom(min_code, s, pos + 1, len + 1, longer)
     ELSE [len |-> len, code |-> longer - min_code[len], pos |-> pos + 1]

HuffRead(hd, s, pos) == HuffReadFrom(hd.min_code, s, pos, 1, 0)

HuffDecode(hd, vals, s, pos) ==
  LET r == HuffRead(hd, s, pos) IN [x |-> vals[r.len][r.code + 1], pos |-> r.pos]
=============================================================================
