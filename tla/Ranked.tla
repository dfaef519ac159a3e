------------------------------- MODULE Ranked -------------------------------
(***************************************************************************)
(* Ranking: CosineGet of src/text/query.ranked.c.  The sums that           *)
(* RankedAccum has left in a table are divided by the weights of the       *)
(* documents, and a heap keeps those that weigh most.  The weights in      *)
(* memory are lower bounds; an exact query fetches the true ones for the   *)
(* documents in the heap and for those outside it whose bound is not too   *)
(* low.  The documents are then taken off the heap, the heaviest first; in *)
(* a paragraph-level index paragraphs of one document are chained.         *)
(*                                                                         *)
(* The heap is the array of the code, HE[0] being heap[1].  A quotient of  *)
(* floats is an integer: Scale times the sum, divided.  The splay tree of  *)
(* the paragraphs found is the set of the entries in Docs.                 *)
(***************************************************************************)
EXTENDS RankedAccum

CONSTANTS
  Scale,       \* a multiple of every weight of a document
  DocTables    \* the documents: functions to [approx, exact, SeekPos]

ASSUME DocTableConstants ==
  /\ Scale \in Nat \ {0}
  /\ \A t \in DocTables : \A d \in 1 .. NumDocs :
       /\ t[d].approx \in Nat \ {0} /\ t[d].exact \in Nat \ {0} /\ t[d].SeekPos \in Nat \ {0}
       /\ t[d].approx <= t[d].exact
       /\ Scale % t[d].approx = 0 /\ Scale % t[d].exact = 0

VARIABLES
  doctable,    \* weights and places of the documents (or paragraphs)
  heap, order, \* H->HE and H->HC, "Lesser" or "Greater"
  n,           \* the accumulator that is looked at
  Docs, num,   \* Docs->DE, by its index from 0, and Docs->num
  MaxDocs, BackEnd

rankvars == <<heap, order, n, Docs, num, MaxDocs, BackEnd>>
vars == <<accumvars, doctable, rankvars>>

Unused == [DocNum |-> 0, Weight |-> 0, SeekPos |-> 0, Next |-> -1]

\* Documents stand at places of their own; paragraphs share that of theirs.
Init ==
  /\ AccumInit
  /\ doctable \in DocTables
  /\ InvfLevel # 3 =>
       \A d, e \in 1 .. NumDocs : doctable[d].SeekPos = doctable[e].SeekPos => d = e
  /\ heap = <<>> /\ order = "Lesser" /\ n = 1
  /\ Docs = <<>> /\ num = 0 /\ MaxDocs = 0 /\ BackEnd = -1

Accumulate == AccumNext /\ UNCHANGED <<doctable, rankvars>>

-----------------------------------------------------------------------------
\* The heap.  above(a, b) is HC(a, b) > 0.

Above(sense, a, b) ==
  IF sense = "Lesser" THEN a.Weight < b.Weight ELSE a.Weight > b.Weight

\* Mutant: the second child is never looked at.
LargerChildFirst(h, sense, c) == 2 * c

LargerChild(h, sense, c) ==
  IF 2 * c < Len(h) /\ Above(sense, h[2 * c + 1], h[2 * c]) THEN 2 * c + 1 ELSE 2 * c

Exchange(h, x, y) == [h EXCEPT ![x] = h[y], ![y] = h[x]]

Sinks(h, sense, c) == 2 * c <= Len(h) /\ Above(sense, h[LargerChild(h, sense, c)], h[c])

\* Entry c changes places with the larger of its children, in turns, as long as
\* that is above it: <<the heap, where the entry is>>.
Heap_Heapify(h, sense, c) ==
  LET turn[m \in 0 .. Len(h)] ==
        IF m = 0 THEN <<h, c>>
        ELSE LET last  == turn[m - 1]
                 child == LargerChild(last[1], sense, last[2])
             IN IF Sinks(last[1], sense, last[2])
                THEN <<Exchange(last[1], last[2], child), child>>
                ELSE last
  IN turn[Len(h)][1]

Heap_Build(h, sense) ==
  LET built[m \in 0 .. Len(h) \div 2] ==
        IF m = 0 THEN h
        ELSE Heap_Heapify(built[m - 1], sense, ((Len(h) \div 2) + 1) - m)
  IN built[Len(h) \div 2]

Heap_DeleteHead(h, sense) ==
  IF Len(h) = 1 THEN <<>>
  ELSE Heap_Heapify([SubSeq(h, 1, Len(h) - 1) EXCEPT ![1] = h[Len(h)]], sense, 1)

-----------------------------------------------------------------------------

Approx(d) == doctable[d].approx
\* Mutant: the bound is divided once more.
ToExactAgain(weight, d) == weight \div doctable[d].exact

ToExact(weight, d) == (weight * Approx(d)) \div doctable[d].exact

MaxParasToRetrieve ==
  IF InvfLevel = 3 THEN rqi.maxparas ELSE rqi.MaxDocsToRetrieve
AtMost(limit, x) == IF limit # -1 /\ x > limit THEN limit ELSE x

\* Accumulators; in an array those that are not 0.
MaxParas ==
  AtMost(MaxParasToRetrieve,
         IF rqi.AccumMethod = "A" THEN Cardinality({x \in DOMAIN acc : acc[x].Sum # 0})
         ELSE Len(acc))

HeapEntry(weight, x, seek) ==
  [Weight |-> weight, OrgWeight |-> x, DocNum |-> acc[x].DocNum + 1, SeekPos |-> seek]

\* The first accumulators go to the heap, with the least weight on top; their
\* sums are set to 0, which tells that they are in it.
FillHeap ==
  /\ at = "decoded"
  /\ LET m == MaxParas
         first == [x \in 1 .. m |->
                     HeapEntry((Scale * acc[x].Sum) \div Approx(acc[x].DocNum + 1), x, 0)]
     IN /\ heap' = Heap_Build(first, "Lesser")
        /\ acc' = [x \in DOMAIN acc |-> IF x <= m THEN [acc[x] EXCEPT !.Sum = 0]
                                        ELSE acc[x]]
        /\ n' = m + 1
        /\ Docs' = [x \in 0 .. m - 1 |-> Unused]
  /\ at' = "scan"
  /\ UNCHANGED <<given, j, cursor, sup, supsize, Anding, Sorted, next, Abort,
                 doctable, order, num, MaxDocs, BackEnd>>

\* Entry x takes the place of the root.
ReplaceRoot(entry) == Heap_Heapify([heap EXCEPT ![1] = entry], "Lesser", 1)

tablebut == <<sup, supsize, Anding, Sorted, next, Abort>>

\* The entry takes the place of the root, which gets its weight back.
Displaced ==
  [acc EXCEPT ![heap[1].OrgWeight].Sum = heap[1].Weight, ![n].Sum = 0]

\* Each of the other accumulators replaces the root if it weighs more.
ScanEntry ==
  /\ at = "scan" /\ n <= Len(acc)
  /\ LET weight == (Scale * acc[n].Sum) \div Approx(acc[n].DocNum + 1)
         skipped == rqi.AccumMethod = "A" /\ acc[n].Sum = 0
     IN CASE skipped -> UNCHANGED <<acc, heap>>
          [] ~skipped /\ weight <= heap[1].Weight ->
               /\ acc' = [acc EXCEPT ![n].Sum = weight]
               /\ UNCHANGED heap
          [] OTHER ->
               /\ acc' = Displaced
               /\ heap' = ReplaceRoot(HeapEntry(weight, n, 0))
  /\ n' = n + 1
  /\ UNCHANGED <<given, at, j, cursor, tablebut, doctable, order, Docs, num,
                 MaxDocs, BackEnd>>

\* An exact query finds the true weights of the entries of the heap, at level 3
\* later and one by one.
ScanDone ==
  /\ at = "scan" /\ n > Len(acc)
  /\ IF rqi.Exact /\ InvfLevel # 3
     THEN /\ heap' = Heap_Build([x \in DOMAIN heap |->
                        [heap[x] EXCEPT !.Weight = ToExact(@, heap[x].DocNum),
                                        !.SeekPos = doctable[heap[x].DocNum].SeekPos]],
                       "Lesser")
          /\ at' = "exact"
     ELSE /\ at' = "sort"
          /\ UNCHANGED heap
  /\ n' = 1
  /\ UNCHANGED <<given, j, cursor, table, doctable, order, Docs, num, MaxDocs,
                 BackEnd>>

\* Outside the heap, and its weight, which is at most what it has, could do.
WorthFetching(x) == acc[x].Sum # 0 /\ acc[x].Sum > heap[1].Weight

ExactEntry ==
  /\ at = "exact" /\ n <= Len(acc)
  /\ IF WorthFetching(n) /\ ToExact(acc[n].Sum, acc[n].DocNum + 1) > heap[1].Weight
     THEN /\ heap' = ReplaceRoot(HeapEntry(ToExact(acc[n].Sum, acc[n].DocNum + 1), n,
                                           doctable[acc[n].DocNum + 1].SeekPos))
          /\ acc' = [acc EXCEPT ![n].Sum = 0]
     ELSE UNCHANGED <<heap, acc>>
  /\ n' = n + 1
  /\ UNCHANGED <<given, at, j, cursor, tablebut, doctable, order, Docs, num,
                 MaxDocs, BackEnd>>

\* Mutant: the chained paragraphs start behind the documents.
LastPlaceForDocs == AtMost(rqi.MaxDocsToRetrieve, Len(heap)) - 1

\* Chained paragraphs fill Docs from its end.
LastPlace == Len(heap) - 1

\* The heap is turned over, the greatest weight on top.
TurnOver ==
  /\ at = "sort" \/ (at = "exact" /\ n > Len(acc))
  /\ order' = "Greater"
  /\ heap' = Heap_Build(heap, "Greater")
  /\ MaxDocs' = AtMost(rqi.MaxDocsToRetrieve, Len(heap))
  /\ BackEnd' = LastPlace
  /\ at' = "take"
  /\ UNCHANGED <<given, j, cursor, table, doctable, n, Docs, num>>

InTake == at = "take" /\ heap # <<>> /\ num < MaxDocs
RootKnown == ~rqi.Exact \/ heap[1].SeekPos # 0

\* A turn of the loop of Make_Exact_Root.
Make_Exact_Root ==
  /\ InTake /\ ~RootKnown
  /\ LET d == heap[1].DocNum
     IN heap' = Heap_Heapify(
                  [heap EXCEPT ![1].Weight = ToExact(@, d),
                               ![1].SeekPos = doctable[d].SeekPos], order, 1)
  /\ UNCHANGED <<given, at, j, cursor, table, doctable, order, n, Docs, num,
                 MaxDocs, BackEnd>>

\* The root goes to the next place of Docs if it is the first paragraph of its
\* document, else to the last free one, chained behind the first.
TakeRoot ==
  /\ InTake /\ RootKnown
  /\ LET d    == heap[1].DocNum
         seek == doctable[d].SeekPos
         entry == [DocNum |-> d, Weight |-> heap[1].Weight, SeekPos |-> seek, Next |-> -1]
         same == {x \in 0 .. num - 1 : Docs[x].SeekPos = seek}
     IN IF same = {}
        THEN /\ Docs' = [Docs EXCEPT ![num] = entry]
             /\ num' = num + 1
             /\ UNCHANGED BackEnd
        ELSE LET mem == Max(same)
             IN /\ Docs' = [Docs EXCEPT ![BackEnd] = [entry EXCEPT !.Next = Docs[mem].Next],
                                        ![mem].Next = BackEnd]
                /\ BackEnd' = BackEnd - 1
                /\ UNCHANGED num
  /\ heap' = Heap_DeleteHead(heap, order)
  /\ UNCHANGED <<given, at, j, cursor, table, doctable, order, n, MaxDocs>>

Return ==
  /\ at = "take" /\ ~InTake
  /\ at' = "done"
  /\ UNCHANGED <<given, j, cursor, table, doctable, rankvars>>

RankedNext ==
  \/ Accumulate \/ FillHeap \/ ScanEntry \/ ScanDone \/ ExactEntry \/ TurnOver
  \/ Make_Exact_Root \/ TakeRoot \/ Return

Spec == Init /\ [][RankedNext]_vars

-----------------------------------------------------------------------------
(***************************************************************************)
(* Properties.                                                             *)
(***************************************************************************)

Taken == {x \in DOMAIN Docs : Docs[x].DocNum # 0}

\* The cosine measure, with the weights that the query asks for.
Cosine(d) ==
  (Scale * CosineSum(d - 1, j - 1))
    \div (IF rqi.Exact THEN doctable[d].exact ELSE Approx(d))

(***************************************************************************)
(* A document is returned with its cosine measure over the terms gone      *)
(* through: its weight survives being divided, put back when it leaves the *)
(* heap, and divided again.  Lists are another matter (see below).         *)
(***************************************************************************)
WeightsAreCosine ==
  at = "done" /\ rqi.AccumMethod # "L" =>
    \A x \in Taken : Docs[x].Weight = Cosine(Docs[x].DocNum)

(***************************************************************************)
(* The best are returned, in order of their weights, a paragraph never     *)
(* ahead of a heavier one of its document: as many documents as were asked *)
(* for or have an accumulator, and none that is left out outweighs one of  *)
(* them, although exact weights are fetched only for some.  At level 3 an  *)
(* exact query promises this of the paragraphs in the heap only, as the    *)
(* message at the end of CosineGet says.                                   *)
(***************************************************************************)
HeaviestFirst ==
  /\ \A x, y \in 0 .. num - 1 : x < y => Docs[x].Weight >= Docs[y].Weight
  /\ \A x \in 0 .. num - 1, y \in Taken :
       Docs[y].SeekPos = Docs[x].SeekPos => Docs[x].Weight >= Docs[y].Weight

Scored ==
  {d \in 1 .. NumDocs : IF rqi.AccumMethod = "A" THEN CosineSum(d - 1, j - 1) # 0
                        ELSE d - 1 \in InTable}
TakenDocs == {Docs[x].DocNum : x \in Taken}
Compared ==
  IF rqi.Exact /\ InvfLevel = 3 THEN TakenDocs \cup {heap[x].DocNum : x \in DOMAIN heap}
  ELSE Scored

NoneBetterLeftOut ==
  at = "done" /\ rqi.AccumMethod # "L" =>
    /\ TakenDocs \subseteq Scored
    /\ InvfLevel # 3 => num = AtMost(rqi.MaxDocsToRetrieve, Cardinality(Scored))
    /\ \A d \in Compared \ TakenDocs, e \in TakenDocs : Cosine(d) <= Cosine(e)

(***************************************************************************)
(* Every paragraph taken is in the chain of its document, once: the places *)
(* that fill Docs from its end never meet those that fill it from its      *)
(* start.                                                                  *)
(***************************************************************************)
Chain(x) ==
  LET link[m \in 0 .. Cardinality(Taken)] ==
        IF m = 0 THEN x ELSE IF link[m - 1] = -1 THEN -1 ELSE Docs[link[m - 1]].Next
  IN {link[m] : m \in DOMAIN link} \ {-1}

ParagraphsChained ==
  at = "done" =>
    /\ Cardinality(Taken) = Cardinality(DOMAIN Docs) - Len(heap)
    /\ \A x \in 0 .. num - 1 :
         Chain(x) = {y \in Taken : Docs[y].SeekPos = Docs[x].SeekPos}
    /\ Taken = UNION {Chain(x) : x \in 0 .. num - 1}

\* What is shown: the best documents, in order, each with its paragraphs.
BestReturned == HeaviestFirst /\ NoneBetterLeftOut /\ ParagraphsChained

(***************************************************************************)
(* What the manual of mgquery says of every accumulator_method: it         *)
(* specifies how the weight of a document is accumulated, in a query       *)
(* ranked by the cosine measure.                                           *)
(***************************************************************************)
ListWeightsAreCosine ==
  at = "done" /\ rqi.AccumMethod = "L" =>
    \A x \in 0 .. num - 1 : Docs[x].Weight = Cosine(Docs[x].DocNum)
=============================================================================
