------------------------------ MODULE Weights -------------------------------
(***************************************************************************)
(* mg_weights_build: the weight of every paragraph is summed from the      *)
(* inverted file, quantised to a few bits on a logarithmic scale and       *)
(* packed into words for weights.c to unpack, and written exactly into the *)
(* interleaved index of the text.  A word of memory is the set of the      *)
(* places of its one bits.  Square roots are left out, and in place of its *)
(* logarithm a weight stands for itself: both keep the order of weights.   *)
(***************************************************************************)
EXTENDS Integers, Sequences, FiniteSetsExt

LOCAL INSTANCE Functions

CONSTANTS
  MAXBITS,      \* bits of a word of memory
  BitChoices,   \* values of -b
  Collections,  \* [words: occurrences of each word in each paragraph,
                \*  paras: how many paragraphs each document has,
                \*  starts: places of the documents, and the end of the text]
  Idf           \* weight of a word by the number of paragraphs it is in

ASSUME WeightsAssumption ==
  /\ MAXBITS \in Nat \ {0}
  /\ BitChoices \subseteq 0 .. MAXBITS
  /\ \A c \in Collections : Len(c.starts) = Len(c.paras) + 1

VARIABLES
  coll,        \* the collection
  bits,        \* the precision
  words_read,  \* words read so far
  DocWeights,  \* the weight of every paragraph
  level,       \* the paragraphs' quantised weights, as they were packed
  used,        \* bits used in buf
  buf,         \* the word being filled
  approx,      \* the words of the approximate weights file
  doc,         \* documents whose paragraphs are in the index
  idx_wgt,     \* the entries of the interleaved index
  building     \* "weights", "approx", "index", "ready"

weightVars ==
  <<coll, bits, words_read, DocWeights, level, used, buf, approx, doc, idx_wgt, building>>

Sums(f) == SumFunction(f)
NumParaOf(c) == Sums(c.paras)
NumPara == NumParaOf(coll)
BitPlaces == 0 .. MAXBITS - 1

-----------------------------------------------------------------------------

WeightInit ==
  /\ coll \in Collections
  /\ bits \in BitChoices
  /\ words_read = 0
  /\ DocWeights = [p \in 0 .. NumPara - 1 |-> 0]
  /\ level = <<>>
  /\ used = 0
  /\ buf = {}
  /\ approx = <<>>
  /\ doc = 0
  /\ idx_wgt = <<>>
  /\ building = "weights"

\* What the inverted file holds of a word: gaps and counts.
Postings(occ) ==
  LET in == {p \in DOMAIN occ : occ[p] > 0}
      nth(n) == CHOOSE p \in in : Cardinality({q \in in : q < p}) = n - 1
  IN [n \in 1 .. Cardinality(in) |->
        [x |-> nth(n) - (IF n = 1 THEN 0 ELSE nth(n - 1)), tf |-> occ[nth(n)]]]

CurrDoc(list) ==
  LET curr[j \in 0 .. Len(list)] == IF j = 0 THEN 0 ELSE curr[j - 1] + list[j].x
  IN curr

Square(n) == n * n

GenerateWeights ==
  /\ building = "weights"
  /\ IF words_read = Len(coll.words)
     THEN building' = "approx" /\ UNCHANGED <<words_read, DocWeights>>
     ELSE LET list == Postings(coll.words[words_read + 1])
              curr == CurrDoc(list)
          IN /\ DocWeights' =
                  [p \in DOMAIN DocWeights |->
                     DocWeights[p]
                       + MapThenSumSet(LAMBDA j : Square(list[j].tf * Idf[Len(list)]),
                                       {j \in DOMAIN list : curr[j] - 1 = p})]
             /\ words_read' = words_read + 1
             /\ UNCHANGED building
  /\ UNCHANGED <<coll, bits, level, used, buf, approx, doc, idx_wgt>>

-----------------------------------------------------------------------------

Positive(weights) == {weights[p] : p \in DOMAIN weights} \ {0}

\* Quantised weights of a weight: log(wgt / L) in units of log(U / L) / 2^bits,
\* the largest one capped.  With all weights the same the quotient is 0 / 0, and
\* with none above 0 it is of two infinities: the integer either is cast to is
\* not defined.
Levels(weights, wgt, b) ==
  IF Cardinality(Positive(weights)) < 2 THEN 0 .. 2 ^ b - 1
  ELSE LET L == Min(Positive(weights))
           U == Max(Positive(weights))
           w == IF wgt = 0 THEN L ELSE wgt
       IN {Min({((w - L) * 2 ^ b) \div (U - L), 2 ^ b - 1})}

BitsOf(n) == {k \in BitPlaces : (n \div 2 ^ k) % 2 = 1}
LeftShifted(w, n) == {k + n : k \in w} \cap BitPlaces

\* A shift by the width of a word is not defined: the machine may shift by 0.
RightShifted(w, n) ==
  IF n < MAXBITS THEN {{k - n : k \in {j \in w : j >= n}}} ELSE {{}, w}

\* Mutant: what does not fit into the word is dropped.
CarriedNothing(fx, filled) == {{}}

\* The bits of fx that do not fit into a word, once filled bits are used.
Carried(fx, filled) == RightShifted(fx, bits - (filled - MAXBITS))

PackWeight ==
  /\ building = "approx"
  /\ Len(level) < NumPara
  /\ \E fx \in Levels(DocWeights, DocWeights[Len(level)], bits) :
       LET or == buf \cup LeftShifted(BitsOf(fx), used)
       IN /\ level' = Append(level, fx)
          /\ IF used + bits >= MAXBITS
             THEN /\ approx' = Append(approx, or)
                  /\ buf' \in Carried(BitsOf(fx), used + bits)
                  /\ used' = used + bits - MAXBITS
             ELSE /\ buf' = or
                  /\ used' = used + bits
                  /\ UNCHANGED approx
  /\ UNCHANGED <<coll, bits, words_read, DocWeights, doc, idx_wgt, building>>

Make_weight_approx ==
  /\ building = "approx"
  /\ Len(level) = NumPara
  /\ approx' = IF used > 0 THEN Append(approx, buf) ELSE approx
  /\ building' = "index"
  /\ UNCHANGED <<coll, bits, words_read, DocWeights, level, used, buf, doc, idx_wgt>>

-----------------------------------------------------------------------------

\* Mutant: the paragraph counts are not looked at.
CountOne(d) == 1

\* The paragraph counts are used when there are not as many paragraphs as
\* documents.
CountOf(d) == IF Len(coll.paras) # NumPara THEN coll.paras[d] ELSE 1

\* Make_text_idx_wgt: one entry for every paragraph of the next document,
\* after the last one the end of the text.
IndexDocument ==
  /\ building = "index"
  /\ doc < Len(coll.paras)
  /\ idx_wgt' = idx_wgt \o
       [k \in 1 .. CountOf(doc + 1) |->
          [start |-> coll.starts[doc + 1], weight |-> DocWeights[Len(idx_wgt) + k - 1]]]
  /\ doc' = doc + 1
  /\ UNCHANGED <<coll, bits, words_read, DocWeights, level, used, buf, approx, building>>

Make_text_idx_wgt ==
  /\ building = "index"
  /\ doc = Len(coll.paras)
  /\ idx_wgt' = Append(idx_wgt, [start |-> coll.starts[doc + 1], weight |-> 0])
  /\ building' = "ready"
  /\ UNCHANGED <<coll, bits, words_read, DocWeights, level, used, buf, approx, doc>>

WeightNext ==
  \/ GenerateWeights
  \/ PackWeight \/ Make_weight_approx
  \/ IndexDocument \/ Make_text_idx_wgt

WeightSpec == WeightInit /\ [][WeightNext]_weightVars

-----------------------------------------------------------------------------

\* weights.c: the words that are loaded, and the level found for a paragraph.
LoadedWords == (NumPara * bits + MAXBITS - 1) \div MAXBITS
WordAt(n) == IF n <= LoadedWords THEN approx[n] ELSE {}

GetLowerApproxDocWeight(p) ==
  LET Pos  == (p * bits) % MAXBITS
      dw   == 1 + (p * bits) \div MAXBITS
      low  == {k - Pos : k \in {j \in WordAt(dw) : j >= Pos}}
      high == IF Pos + bits > MAXBITS THEN LeftShifted(WordAt(dw + 1), MAXBITS - Pos) ELSE {}
  IN MapThenSumSet(LAMBDA k : 2 ^ k, (low \cup high) \cap 0 .. bits - 1)

(***************************************************************************)
(* Unpacked again, every weight is the level that was packed, which is at  *)
(* most the exact weight and less than one step below it, and the reader   *)
(* asks for as many words as were written: the levels that straddle two    *)
(* words are whole and the last word is there when it is needed.           *)
(***************************************************************************)
ApproxIsLower ==
  building \in {"index", "ready"} =>
    /\ Len(approx) = LoadedWords
    /\ \A p \in DOMAIN DocWeights :
         LET c == GetLowerApproxDocWeight(p)
             L == Min(Positive(DocWeights))
             U == Max(Positive(DocWeights))
         IN /\ c = level[p + 1]
            /\ DocWeights[p] > 0 /\ U > L =>
                 /\ c * (U - L) <= 2 ^ bits * (DocWeights[p] - L)
                 /\ (c + 1) * (U - L) > 2 ^ bits * (DocWeights[p] - L) \/ c = 2 ^ bits - 1

\* The weight the paragraph should have, and the document it belongs to.
TrueWeight(p) ==
  Sums([w \in DOMAIN coll.words |->
          Square(coll.words[w][p] *
                 Idf[Cardinality({q \in DOMAIN coll.words[w] : coll.words[w][q] > 0})])
          ])
DocumentOf(p) ==
  CHOOSE d \in DOMAIN coll.paras :
    /\ p > Sums(SubSeq(coll.paras, 1, d - 1))
    /\ p <= Sums(SubSeq(coll.paras, 1, d))

(***************************************************************************)
(* The interleaved index has for every paragraph the place of its document *)
(* and its own weight, and the next other place in it is where the         *)
(* document ends: what text_get.c and the exact ranking read from it.      *)
(***************************************************************************)
IndexIsBuilt ==
  building = "ready" =>
    /\ Len(idx_wgt) = NumPara + 1
    /\ \A p \in 1 .. NumPara :
         /\ idx_wgt[p].start = coll.starts[DocumentOf(p)]
         /\ idx_wgt[p].weight = TrueWeight(p)
         /\ \E q \in p + 1 .. NumPara + 1 :
              /\ idx_wgt[q].start = coll.starts[DocumentOf(p) + 1]
              /\ \A r \in p .. q - 1 : idx_wgt[r].start = idx_wgt[p].start

(***************************************************************************)
(* Both files of weights hold what the readers take from them: the packed  *)
(* approximate ones and the interleaved index.                             *)
(***************************************************************************)
WeightFilesRight == ApproxIsLower /\ IndexIsBuilt
=============================================================================
