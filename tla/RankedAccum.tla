---------------------------- MODULE RankedAccum ----------------------------
(***************************************************************************)
(* The accumulators of a ranked query: CosineDecode, CosineDecodeSplay,    *)
(* CosineDecodeHash and CosineDecodeList of src/text/invf_get.c, with the  *)
(* hash and list tables they fill.  Each goes through the lists of the     *)
(* query's terms and adds the weight of every posting to the sum of its    *)
(* document, in an array of all documents, a splay tree, a hash table or a *)
(* list.  When a table holds max_accumulators entries at the start of a    *)
(* term, that term and the later ones only add to documents that are in it *)
(* ("Anding"), and hop over blocks that hold none of them.                 *)
(*                                                                         *)
(* A list is the sequence of numbers its codes stand for (InvfSkip has the *)
(* bits and the rebuilding that puts skips in).  Weights are integers:     *)
(* WordLog stands for log(num_docs / doc_count), which falls with the      *)
(* documents of a word and is 0 for a word of them all.  The splay tree is *)
(* a sequence in document order.  Failing allocations, statistics and the  *)
(* skip dump are left out, and MoreAccum, which always is ~Anding.         *)
(***************************************************************************)
EXTENDS Integers, SequencesExt, FiniteSetsExt, Functions

CONSTANTS
  NumDocs,     \* number of documents, or of paragraphs at level 3
  Levels,      \* levels the inverted file may have
  Queries,     \* queries: sequences of [list, k, freq], list of [doc, count]
  Infos        \* parameters: [AccumMethod, MaxAccums, MaxTerms, StopAtMaxAccum,
               \*   Exact, MaxDocsToRetrieve, maxparas]

\* A list is in the order of its documents; a word that is in the dictionary
\* occurs somewhere.
ASSUME RankedConstants ==
  /\ NumDocs \in Nat \ {0}
  /\ Levels \subseteq 1 .. 3
  /\ \A q \in Queries :
       /\ q \in Seq([list : Seq([doc : 1 .. NumDocs, count : Nat \ {0}]), k : Nat, freq : Nat])
       /\ \A x \in DOMAIN q :
            /\ q[x].list # <<>>
            /\ \A y, z \in DOMAIN q[x].list : y < z => q[x].list[y].doc < q[x].list[z].doc
  /\ \A r \in Infos : /\ r.AccumMethod \in {"A", "S", "H", "L"}
                      /\ r.MaxAccums \in (Nat \ {0}) \cup {-1}
                      /\ r.MaxTerms \in Nat \cup {-1}
                      /\ r.StopAtMaxAccum \in BOOLEAN /\ r.Exact \in BOOLEAN
                      /\ r.MaxDocsToRetrieve \in (Nat \ {0}) \cup {-1}
                      /\ r.maxparas \in (Nat \ {0}) \cup {-1}

VARIABLES
  Terms, rqi, InvfLevel,      \* the query, its parameters, the file's level
  at,                         \* where in the program
  j,                          \* the term at hand
  codes, pos, i, kd,          \* its list, and how far it is read
  CurrDocNum, next_i, next_start, next_doc_num,
  acc,                        \* the table: a sequence of [DocNum, Sum]
  sup, supsize,               \* Suplimentary_Entries and Suplimentary_Size
  Anding, Sorted, next, Abort \* next: the place in acc that Anding has reached

given == <<Terms, rqi, InvfLevel>>
cursor == <<codes, pos, i, kd, CurrDocNum, next_i, next_start, next_doc_num>>
table == <<acc, sup, supsize, Anding, Sorted, next, Abort>>
accumvars == <<given, at, j, cursor, table>>

-----------------------------------------------------------------------------
\* Documents are numbered from 1 in lists, from 0 in tables.

k == Terms[j].k
p == Len(Terms[j].list)
HasCounts == InvfLevel >= 2
WordLog(t) == NumDocs - Len(t.list)

\* The sum of a sequence of numbers.
Total(s) ==
  LET sum[x \in 0 .. Len(s)] == IF x = 0 THEN 0 ELSE sum[x - 1] + s[x]
  IN sum[Len(s)]
Occurrences(t) == Total([x \in DOMAIN t.list |-> t.list[x].count])

\* At level 1 every document has the mean of the counts, rounded down.
Count(t, n) == IF HasCounts THEN t.list[n].count
               ELSE Occurrences(t) \div Len(t.list)

\* Wqt * Wdt of a posting with that count.
Weight(t, count) == (t.freq * WordLog(t)) * (count * WordLog(t))

\* The list as mg_invf_rebuild writes it with skips of t.k postings.
Doc(t, m) == IF m = 0 THEN 0 ELSE t.list[m].doc
Header(t, m) ==
  IF t.k > 0 /\ m % t.k = 0 /\ m + t.k < Len(t.list)
  THEN <<Doc(t, m + t.k) - Doc(t, m), (t.k - 1) + (IF HasCounts THEN t.k ELSE 0)>>
  ELSE <<>>
Gap(t, m) ==
  IF t.k > 0 /\ m % t.k = t.k - 1 /\ m # Len(t.list) - 1 THEN <<>>
  ELSE <<Doc(t, m + 1) - Doc(t, m)>>
Codes(t) ==
  LET upto[m \in 0 .. Len(t.list)] ==
        IF m = 0 THEN <<>>
        ELSE upto[m - 1] \o Header(t, m - 1) \o Gap(t, m - 1)
               \o (IF HasCounts THEN <<t.list[m].count>> ELSE <<>>)
  IN upto[Len(t.list)]

NumTerms == IF rqi.MaxTerms = -1 THEN Len(Terms) ELSE Min({rqi.MaxTerms, Len(Terms)})

Full(n) == rqi.MaxAccums # -1 /\ n >= rqi.MaxAccums

Entry(d, sum) == [DocNum |-> d, Sum |-> sum]
Place(table_, d) == {x \in DOMAIN table_ : table_[x].DocNum = d}

\* The entry before those of later documents.
Insert(table_, e) ==
  InsertAt(table_,
           Min({x \in DOMAIN table_ : table_[x].DocNum > e.DocNum} \cup {Len(table_) + 1}),
           e)
ByDocNum(table_) ==
  LET sorted[x \in 0 .. Len(table_)] ==
        IF x = 0 THEN <<>> ELSE Insert(sorted[x - 1], table_[x])
  IN sorted[Len(table_)]

\* The sum is added to the entry of the document, a new one if it has none.
AddTo(table_, e) ==
  IF Place(table_, e.DocNum) # {}
  THEN [table_ EXCEPT ![Max(Place(table_, e.DocNum))].Sum = @ + e.Sum]
  ELSE Insert(table_, e)

\* Mutant: the supplementary entries are put behind the others.
HT_sort_behind == ByDocNum(acc) \o sup

\* HT_sort: the entries in document order, the supplementary ones (those of one
\* term, so in order) merged in.  From then on the table is the merged chain.
HT_sort == ByDocNum(acc \o sup)

\* LT_sort and LT_pack: in document order, one entry for each document.
LT_sort_pack ==
  LET packed[x \in 0 .. Len(acc)] ==
        IF x = 0 THEN <<>> ELSE AddTo(packed[x - 1], acc[x])
  IN packed[Len(acc)]

-----------------------------------------------------------------------------

AccumInit ==
  /\ Terms \in Queries /\ rqi \in Infos /\ InvfLevel \in Levels
  /\ at = "term" /\ j = 1
  /\ codes = <<>> /\ pos = 0 /\ i = 0 /\ kd = 0
  /\ CurrDocNum = 0 /\ next_i = 0 /\ next_start = 0 /\ next_doc_num = 0
  /\ acc = IF rqi.AccumMethod = "A" THEN [n \in 1 .. NumDocs |-> Entry(n - 1, 0)]
           ELSE <<>>
  /\ sup = <<>> /\ supsize = 0
  /\ Anding = FALSE /\ Sorted = FALSE /\ next = 1 /\ Abort = FALSE

\* Mutant: a list that was packed to below the limit is filled again.
AndFromNowRechecked == Full(Len(acc))

\* The list may shrink when it is packed; the other tables never do.
AndFromNow == rqi.AccumMethod # "A" /\ (Full(Len(acc)) \/ Anding)

StartTerm ==
  /\ at = "term" /\ ~Abort /\ j <= NumTerms
  /\ codes' = Codes(Terms[j])
  /\ pos' = 0 /\ i' = 0 /\ CurrDocNum' = 0
  /\ next_i' = 0 /\ next_start' = 0 /\ next_doc_num' = 0
  /\ kd' = IF rqi.AccumMethod = "A" THEN 0 ELSE k - 1
  /\ Anding' = AndFromNow
  /\ IF AndFromNow /\ ~Sorted
     THEN acc' = CASE rqi.AccumMethod = "H" -> HT_sort
                   [] rqi.AccumMethod = "L" -> LT_sort_pack
                   [] OTHER -> acc
     ELSE UNCHANGED acc
  /\ sup' = IF AndFromNow THEN <<>> ELSE sup
  /\ Sorted' = (Sorted \/ AndFromNow)
  /\ next' = 1
  /\ at' = "top"
  /\ UNCHANGED <<given, j, supsize, Abort>>

InLoop == i < p /\ (Anding => next <= Len(acc))

\* Mutant: the next accumulator may be the last document of the block.
CanSkipTooFar ==
  /\ Anding
  /\ i + k < p
  /\ acc[next].DocNum + 1 >= next_doc_num
  /\ next_doc_num >= 0

\* The next accumulator is past the block.  It is compared as a number from 0
\* with one from 1, so the first document of the next block is not hopped to.
CanSkip ==
  /\ Anding
  /\ i + k < p
  /\ acc[next].DocNum > next_doc_num
  /\ next_doc_num >= 0

Hop ==
  /\ rqi.AccumMethod # "A"
  /\ at = "test" \/ (at = "top" /\ InLoop /\ k > 0)
  /\ CanSkip
  /\ i' = next_i
  /\ pos' = next_start
  /\ CurrDocNum' = next_doc_num
  /\ kd' = k - 1
  /\ at' = "header"
  /\ UNCHANGED <<given, j, codes, next_i, next_start, next_doc_num, table>>

\* At the start of a block its header is read, if it has one.
ReadHeader ==
  /\ rqi.AccumMethod # "A"
  /\ at = "header" \/ (at = "top" /\ InLoop /\ k > 0 /\ ~CanSkip)
  /\ IF kd = k - 1
     THEN IF i + k < p
          THEN /\ next_doc_num' = next_doc_num + codes[pos + 1]
               /\ next_i' = next_i + k
               /\ pos' = pos + 2
               /\ next_start' = pos + 2 + codes[pos + 2]
          ELSE /\ next_doc_num' = -1
               /\ UNCHANGED <<next_i, pos, next_start>>
     ELSE UNCHANGED <<next_doc_num, next_i, pos, next_start>>
  /\ at' = "test"
  /\ UNCHANGED <<given, j, codes, i, kd, CurrDocNum, table>>

\* Add to the accumulator of the document, if the walk through the table, which
\* goes on from where the last document of the list left it, comes to one.
AddIfPresent(d, w) ==
  LET n == Min({m \in next .. Len(acc) : acc[m].DocNum >= d} \cup {Len(acc) + 1})
      present == n <= Len(acc) /\ acc[n].DocNum = d
  IN /\ acc' = IF present THEN [acc EXCEPT ![n].Sum = @ + w] ELSE acc
     /\ next' = IF present THEN n + 1 ELSE n
     /\ UNCHANGED <<sup, supsize, Abort>>

\* The limit ends the query after the term at hand, if it is to.
AbortIfFull(n) == Abort' = (Abort \/ (Full(n) /\ rqi.StopAtMaxAccum))

SplayAdd(d, w) ==
  /\ acc' = AddTo(acc, Entry(d, w))
  /\ IF Place(acc, d) # {} THEN UNCHANGED Abort ELSE AbortIfFull(Len(acc'))
  /\ at' = "top"
  /\ UNCHANGED <<next, sup, supsize>>

\* What is left of the term, the posting at hand included.
SupRoom == p - i' + 1

\* An entry for which the table has no room goes to the supplementary entries,
\* which get room for what is left of the term when the first one does.  With
\* "all", -1, the size HT_create reckons wraps around and has room for none.
HashAdd(d, w) ==
  CASE Place(acc, d) # {} ->
         /\ acc' = [acc EXCEPT ![Max(Place(acc, d))].Sum = @ + w]
         /\ at' = "top"
         /\ UNCHANGED <<next, sup, supsize, Abort>>
    [] Place(acc, d) = {} /\ rqi.MaxAccums = -1 ->
         /\ at' = "overrun"
         /\ UNCHANGED <<next, acc, sup, supsize, Abort>>
    [] OTHER ->
         /\ IF Len(acc) < rqi.MaxAccums
            THEN acc' = Append(acc, Entry(d, w)) /\ UNCHANGED <<sup, supsize>>
            ELSE /\ sup' = Append(sup, Entry(d, w))
                 /\ supsize' = IF sup = <<>> THEN SupRoom ELSE supsize
                 /\ UNCHANGED acc
         /\ AbortIfFull(Len(acc'))
         /\ at' = "top"
         /\ UNCHANGED next

\* A list grows when it is full; what LT_create reckons for "all" has no room
\* for any entry, and it does not look full.
ListAdd(d, w) ==
  /\ IF rqi.MaxAccums = -1
     THEN at' = "overrun" /\ UNCHANGED <<acc, Abort>>
     ELSE /\ acc' = Append(acc, Entry(d, w))
          /\ AbortIfFull(Len(acc'))
          /\ at' = "top"
  /\ UNCHANGED <<next, sup, supsize>>

\* Decode a posting, unless its document is the one the header gave, and use it.
NextPosting ==
  /\ rqi.AccumMethod # "A"
  /\ \/ at = "test" /\ ~CanSkip
     \/ at = "top" /\ InLoop /\ k = 0
  /\ LET known == k > 0 /\ kd = 0 /\ i # p - 1
         doc   == IF known THEN next_doc_num ELSE CurrDocNum + codes[pos + 1]
         start == IF known THEN pos ELSE pos + 1
         count == IF HasCounts THEN codes[start + 1]
                  ELSE Occurrences(Terms[j]) \div p
         w     == Weight(Terms[j], count)
     IN /\ CurrDocNum' = doc
        /\ pos' = IF HasCounts THEN start + 1 ELSE start
        /\ i' = i + 1
        /\ kd' = IF kd - 1 < 0 THEN k - 1 ELSE kd - 1
        /\ CASE Anding -> AddIfPresent(doc - 1, w) /\ at' = "top"
             [] ~Anding /\ rqi.AccumMethod = "S" -> SplayAdd(doc - 1, w)
             [] ~Anding /\ rqi.AccumMethod = "H" -> HashAdd(doc - 1, w)
             [] ~Anding /\ rqi.AccumMethod = "L" -> ListAdd(doc - 1, w)
  /\ UNCHANGED <<given, j, codes, next_i, next_start, next_doc_num, Anding,
                 Sorted>>

\* With an array a header is read as its block is entered, kd counts up, and
\* nothing is hopped over.
ArrayPosting ==
  /\ rqi.AccumMethod = "A"
  /\ at = "top" /\ InLoop
  /\ LET kd0    == IF kd = k THEN 0 ELSE kd
         header == k > 0 /\ kd0 = 0 /\ i + k < p
         major  == IF header THEN CurrDocNum + codes[pos + 1] ELSE next_doc_num
         start  == IF header THEN pos + 2 ELSE pos
         known  == k > 0 /\ kd0 = k - 1 /\ i # p - 1
         doc    == IF known THEN major ELSE CurrDocNum + codes[start + 1]
         after  == IF known THEN start ELSE start + 1
         count  == IF HasCounts THEN codes[after + 1]
                   ELSE Occurrences(Terms[j]) \div p
     IN /\ next_doc_num' = major
        /\ CurrDocNum' = doc
        /\ pos' = IF HasCounts THEN after + 1 ELSE after
        /\ kd' = kd0 + 1
        /\ acc' = [acc EXCEPT ![doc].Sum = @ + Weight(Terms[j], count)]
  /\ i' = i + 1
  /\ UNCHANGED <<given, at, j, codes, next_i, next_start, sup, supsize, Anding,
                 Sorted, next, Abort>>

EndTerm ==
  /\ at = "top" /\ ~InLoop
  /\ at' = "term"
  /\ j' = j + 1
  /\ UNCHANGED <<given, cursor, table>>

\* A hash table that was not sorted for Anding is now; the loop over its first
\* num - 1 entries, an unsigned number, does not end if num is 0.
ReturnTable ==
  /\ at = "term" /\ (Abort \/ j > NumTerms)
  /\ IF rqi.AccumMethod = "H" /\ ~Sorted
     THEN /\ acc' = HT_sort
          /\ sup' = <<>>
          /\ at' = IF acc = <<>> THEN "overrun" ELSE "decoded"
     ELSE /\ at' = "decoded"
          /\ UNCHANGED <<acc, sup>>
  /\ UNCHANGED <<given, j, cursor, supsize, Anding, Sorted, next, Abort>>

AccumNext ==
  \/ StartTerm \/ Hop \/ ReadHeader \/ NextPosting \/ ArrayPosting \/ EndTerm
  \/ ReturnTable

-----------------------------------------------------------------------------
(***************************************************************************)
(* Properties.                                                             *)
(***************************************************************************)

DocsOf(t) == {t.list[x].doc - 1 : x \in DOMAIN t.list}
InTable == {acc[x].DocNum : x \in DOMAIN acc} \cup {sup[x].DocNum : x \in DOMAIN sup}
BetweenTerms == at \in {"term", "decoded"}

\* What a term, or the first m terms, give document d.
TermWeight(t, d) ==
  Total([x \in DOMAIN t.list |-> IF t.list[x].doc = d + 1 THEN Weight(t, Count(t, x)) ELSE 0])
CosineSum(d, m) == Total([x \in 1 .. m |-> TermWeight(Terms[x], d)])

\* The sum a table has for document d.
SumIn(table_, d) ==
  Total([x \in DOMAIN table_ |-> IF table_[x].DocNum = d THEN table_[x].Sum ELSE 0])
TableSum(d) == SumIn(acc, d) + SumIn(sup, d)

(***************************************************************************)
(* Every accumulator has the whole sum of its document over the terms that *)
(* were gone through, whatever was hopped over, however often the table    *)
(* was sorted and packed, and wherever an entry is kept.                   *)
(***************************************************************************)
SumsComplete ==
  BetweenTerms => \A d \in InTable : TableSum(d) = CosineSum(d, j - 1)

(***************************************************************************)
(* max_accumulators cuts between terms: the accumulators are the documents *)
(* of the terms begun below the limit, all of them, and of no other term.  *)
(* If the query is to stop at the limit these are the only terms read.     *)
(***************************************************************************)
Size(m) ==
  IF rqi.AccumMethod = "L"
  THEN Total([x \in 1 .. m |-> Len(Terms[x].list)])
  ELSE Cardinality(UNION {DocsOf(Terms[x]) : x \in 1 .. m})
Admitted == {m \in 1 .. j - 1 : \A x \in 0 .. m - 1 : ~Full(Size(x))}

TermsWholeOrNotAtAll ==
  BetweenTerms /\ rqi.AccumMethod # "A" =>
    /\ InTable = UNION {DocsOf(Terms[m]) : m \in Admitted}
    /\ rqi.StopAtMaxAccum => Admitted = 1 .. j - 1

(***************************************************************************)
(* What the walk through the table and CosineGet rely on: a table that     *)
(* Anding goes through, or that is handed over, is in document order and   *)
(* has no document twice, but for a list that was never sorted; and the    *)
(* supplementary entries stay in the room that was made for them when the  *)
(* first one came.                                                         *)
(***************************************************************************)
TableInOrder ==
  Anding \/ (at = "decoded" /\ rqi.AccumMethod # "L") =>
    \A x, y \in DOMAIN acc : x < y => acc[x].DocNum < acc[y].DocNum
SupplementFits == Len(sup) <= supsize

(***************************************************************************)
(* Between two terms the accumulators are whole, each for itself and all   *)
(* of them together, and the table they stand in is.                       *)
(***************************************************************************)
AccumulatorsWhole ==
  SumsComplete /\ TermsWholeOrNotAtAll /\ TableInOrder /\ SupplementFits
=============================================================================
