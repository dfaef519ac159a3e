------------------------------- MODULE Merge --------------------------------
(***************************************************************************)
(* mgmerge: the documents that are new are made a collection of their own, *)
(* and mg_text_merge and mg_invf_merge append it to the old one.  A fast   *)
(* merge copies the entries of words that only the old collection has, and *)
(* keeps the number of documents their gaps were coded for; a slow merge   *)
(* codes everything anew.  The weights of the new documents are guessed in *)
(* passing, or all are made again.                                         *)
(***************************************************************************)
EXTENDS BitCodes, FiniteSets
LOCAL INSTANCE SequencesExt

CONSTANTS
  Terms,        \* words: numbers, in the order of the dictionary
  FirstTexts,   \* the documents a collection is built from
  MoreTexts,    \* the documents that are added; one gives each word its
                \* number of occurrences
  InvfLevels,       \* levels of the inverted file, of 1 and 2
  InvfStart,    \* bytes before the first entry of the inverted file
  TextStart,    \* bytes before the first document
  MaxMerges     \* bound: merges of one collection

ASSUME MergeAssumption ==
  /\ Terms \subseteq Nat
  /\ InvfLevels \subseteq {1, 2}
  /\ InvfStart \in Nat /\ TextStart \in Nat /\ MaxMerges \in Nat

VARIABLES
  docs,     \* all documents so far
  InvfLevel,
  old,      \* m[OLD]: the collection
  new,      \* m[NEW]
  fastMerge, weightOption,
  lists,    \* the terms of the merged dictionary, with their fcntlists
  mdict,    \* and as they are written, with fcnt and wcnt
  entry,    \* entries merged
  oldpos, newpos,   \* bits of the inverted files that are read
  minvf,    \* the merged inverted file
  midx,     \* and its index
  DocWeightBuffer,
  merges,
  doing     \* "built", "text", "lexicon", "invf", "done"

mergeVars ==
  <<docs, InvfLevel, old, new, fastMerge, weightOption, lists, mdict, entry, oldpos,
    newpos, minvf, midx, DocWeightBuffer, merges, doing>>

-----------------------------------------------------------------------------
\* Entries.

Has(D, t) == {d \in DOMAIN D : D[d][t] > 0}
Occurs(D, t) == FoldLeft(LAMBDA sum, d : sum + d[t], 0, D)
InTerms(D) == {t \in Terms : Has(D, t) # {}}
Ascending(S) ==
  [n \in 1 .. Cardinality(S) |-> CHOOSE x \in S : Cardinality({y \in S : y < x}) = n - 1]

\* The gaps and counts of a term, and its entry: whole bytes.
Gaps(D, t) ==
  LET at == Ascending(Has(D, t))
  IN [n \in DOMAIN at |-> [gap |-> at[n] - (IF n = 1 THEN 0 ELSE at[n - 1]), tf |-> D[at[n]][t]]]

WholeBytes(bits) == bits \o Zeros((8 - (Len(bits) % 8)) % 8)

Coded(list, blk) ==
  WholeBytes(FoldLeft(LAMBDA bits, e : bits \o Bblock(e.gap, blk)
                                     \o (IF InvfLevel >= 2 THEN Gamma(e.tf) ELSE <<>>),
                  <<>>, list))

AtByte(read) == [read EXCEPT !.pos = 8 * ((@ + 6) \div 8)]

\* n gaps and counts from a bit on, and the first bit of the byte after them.
ReadEntry(bits, from, n, blk) ==
  LET read[k \in 0 .. n] ==
        IF k = 0 THEN [list |-> <<>>, pos |-> from + 1]
        ELSE LET g == BblockDecode(bits, read[k - 1].pos, blk)
                 f == IF InvfLevel >= 2 THEN GammaDecode(bits, g.pos) ELSE [x |-> 0, pos |-> g.pos]
             IN [list |-> Append(read[k - 1].list, [gap |-> g.x, tf |-> f.x]), pos |-> f.pos]
  IN AtByte(read[n])

LastDoc(list) == FoldLeft(LAMBDA sum, e : sum + e.gap, 0, list)

\* In place of its logarithm, of the number of documents over those that have
\* the word, a word weighs what the one exceeds the other by.
IdfOf(n, fcnt) == n - fcnt
Squared(x) == x * x
WeightOf(D, d) ==
  FoldLeft(LAMBDA sum, t : sum + Squared(D[d][t] * IdfOf(Len(D), Cardinality(Has(D, t)))),
           0, Ascending(InTerms(D)))

-----------------------------------------------------------------------------
\* A collection as mgbuild makes it (InvfPass2, TextCodec, Weights).  A
\* document is as long as it has words, and one byte more.

TextSize(d) == 1 + FoldLeft(LAMBDA sum, t : sum + d[t], 0, Ascending(Terms))
TextOf(D) == FoldLeft(LAMBDA text, d : text \o [n \in 1 .. TextSize(d) |-> d], <<>>, D)

Ends(D, from) ==
  LET end[n \in 0 .. Len(D)] == IF n = 0 THEN from ELSE end[n - 1] + TextSize(D[n])
  IN [n \in 1 .. Len(D) + 1 |-> end[n - 1]]

CollectionOf(D) ==
  LET terms == Ascending(InTerms(D))
      Fcnt(t) == Cardinality(Has(D, t))
      upto[n \in 0 .. Len(terms)] ==
        IF n = 0 THEN <<>>
        ELSE upto[n - 1] \o Coded(Gaps(D, terms[n]), BblockInit(Len(D), Fcnt(terms[n])))
  IN [dict |-> [n \in DOMAIN terms |-> [term |-> terms[n], fcnt |-> Fcnt(terms[n]),
                                        wcnt |-> Occurs(D, terms[n])]],
      nDocs |-> Len(D), Nstatic |-> Len(D),
      invf |-> upto[Len(terms)],
      idx |-> [n \in 1 .. Len(terms) + 1 |-> InvfStart + (Len(upto[n - 1]) \div 8)],
      weight |-> IF InvfLevel >= 2 THEN [d \in DOMAIN D |-> WeightOf(D, d)] ELSE <<>>,
      text |-> TextOf(D), text_idx |-> Ends(D, TextStart)]

MergeInit ==
  /\ InvfLevel \in InvfLevels
  /\ docs \in FirstTexts
  /\ old = CollectionOf(docs)
  /\ new = <<>> /\ fastMerge = TRUE /\ weightOption = TRUE
  /\ lists = <<>> /\ mdict = <<>> /\ entry = 0 /\ oldpos = 0 /\ newpos = 0
  /\ minvf = <<>> /\ midx = <<>> /\ DocWeightBuffer = <<>>
  /\ merges = 0
  /\ doing = "done"

-----------------------------------------------------------------------------
\* mgmerge: the new collection, and the options of the merge.

mgmerge ==
  /\ doing = "done"
  /\ merges < MaxMerges
  /\ merges' = merges + 1
  /\ \E D \in MoreTexts : new' = CollectionOf(D) /\ docs' = docs \o D
  /\ fastMerge' \in BOOLEAN /\ weightOption' \in BOOLEAN
  /\ lists' = <<>> /\ mdict' = <<>> /\ entry' = 0 /\ oldpos' = 0 /\ newpos' = 0
  /\ minvf' = <<>> /\ midx' = <<>>
  /\ DocWeightBuffer' = [d \in 1 .. new'.nDocs |-> 0]
  /\ doing' = "text"
  /\ UNCHANGED <<InvfLevel, old>>

\* mg_text_merge: the end of the old text, less the header the new text loses,
\* is added to the places of the new documents.
process_merge_text ==
  /\ doing = "text"
  /\ LET n == Len(old.text_idx)
         offset == old.text_idx[n] - TextStart
     IN old' = [old EXCEPT !.text = @ \o new.text,
                           !.text_idx = SubSeq(@, 1, n - 1)
                                          \o [i \in DOMAIN new.text_idx |-> new.text_idx[i] + offset]]
  /\ doing' = "lexicon"
  /\ UNCHANGED <<docs, InvfLevel, new, fastMerge, weightOption, lists, mdict, entry, oldpos,
                 newpos, minvf, midx, DocWeightBuffer, merges>>

-----------------------------------------------------------------------------
\* mg_invf_merge.

\* The terms of both dictionaries that are read, by what is written of them.
Taken(who) == Cardinality({n \in DOMAIN lists : lists[n].type \in {who, "MERGE"}})
NextOf(c, who) == c.dict[Taken(who) + 1]
DoneWith(c, who) == Taken(who) = Len(c.dict)

WriteTerm(type, o, n, t) ==
  /\ lists' = Append(lists, [type |-> type, fold |-> o.fcnt, fnew |-> n.fcnt])
  /\ mdict' = Append(mdict, [term |-> t, fcnt |-> o.fcnt + n.fcnt, wcnt |-> o.wcnt + n.wcnt])

None == [fcnt |-> 0, wcnt |-> 0]

LexiconPass ==
  /\ doing = "lexicon"
  /\ IF DoneWith(old, "OLD") /\ DoneWith(new, "NEW")
     THEN doing' = "invf" /\ UNCHANGED <<lists, mdict>>
     ELSE /\ UNCHANGED doing
          /\ IF DoneWith(new, "NEW")
               \/ (~DoneWith(old, "OLD") /\ NextOf(old, "OLD").term < NextOf(new, "NEW").term)
             THEN WriteTerm("OLD", NextOf(old, "OLD"), None, NextOf(old, "OLD").term)
             ELSE IF ~DoneWith(old, "OLD") /\ NextOf(old, "OLD").term = NextOf(new, "NEW").term
             THEN WriteTerm("MERGE", NextOf(old, "OLD"), NextOf(new, "NEW"), NextOf(old, "OLD").term)
             ELSE WriteTerm("NEW", None, NextOf(new, "NEW"), NextOf(new, "NEW").term)
  /\ UNCHANGED <<docs, InvfLevel, old, new, fastMerge, weightOption, entry, oldpos,
                 newpos, minvf, midx, DocWeightBuffer, merges>>

\* Mutant: the first new gap is taken from the last document of the old
\* collection whatever the entry ends with.
FirstGapFromEnd(list) == old.nDocs

\* What the first gap of the new entry grows by.
FirstGapGrows(list) == old.nDocs - LastDoc(list)

Grown(list, offset) == [list EXCEPT ![1].gap = @ + offset]

ReadOld(l, N) ==
  IF l.type = "NEW" THEN [list |-> <<>>, pos |-> oldpos]
  ELSE ReadEntry(old.invf, oldpos, l.fold, BblockInit(N, l.fold))

ReadNew(l, N) ==
  IF l.type = "OLD" THEN [list |-> <<>>, pos |-> newpos]
  ELSE ReadEntry(new.invf, newpos, l.fnew, BblockInit(N, l.fnew))

\* The gaps of both collections as one list; the new ones weigh something.
WriteEntry(before, grown, idf, blk) ==
  LET Nth(k) == LastDoc(before) + LastDoc(SubSeq(grown, 1, k)) - old.nDocs
      Weigh(buf, k) == [buf EXCEPT ![Nth(k)] = @ + Squared(grown[k].tf * idf)]
  IN /\ minvf' = minvf \o Coded(before \o grown, blk)
     /\ DocWeightBuffer' =
          IF InvfLevel < 2 THEN DocWeightBuffer
          ELSE FoldLeft(Weigh, DocWeightBuffer, [k \in DOMAIN grown |-> k])

MergeEntries(l, o, n, mergeN) ==
  /\ oldpos' = o.pos
  /\ newpos' = n.pos
  /\ WriteEntry(o.list,
                IF l.type = "OLD" THEN <<>> ELSE Grown(n.list, FirstGapGrows(o.list)),
                IdfOf(old.nDocs + new.nDocs, l.fold + l.fnew),
                BblockInit(mergeN, l.fold + l.fnew))

procEntry_slow(l, oldN, newN, mergeN) ==
  MergeEntries(l, ReadOld(l, oldN), ReadNew(l, newN), mergeN)

\* An entry of the old collection alone is copied, as long as the index says.
CopyEntry(t) ==
  LET k == Cardinality({n \in 1 .. t : lists[n].type # "NEW"})
      len == 8 * (old.idx[k + 1] - old.idx[k])
  IN /\ minvf' = minvf \o SubSeq(old.invf, oldpos + 1, oldpos + len)
     /\ oldpos' = oldpos + len
     /\ UNCHANGED <<newpos, DocWeightBuffer>>

BytesOutput == InvfStart + Len(minvf) \div 8

processEntry ==
  /\ doing = "invf"
  /\ entry < Len(lists)
  /\ entry' = entry + 1
  /\ midx' = Append(midx, BytesOutput)
  /\ IF fastMerge /\ lists[entry + 1].type = "OLD"
     THEN CopyEntry(entry + 1)
     ELSE procEntry_slow(lists[entry + 1], old.Nstatic, new.nDocs,
                         IF fastMerge THEN old.Nstatic ELSE old.nDocs + new.nDocs)
  /\ UNCHANGED <<docs, InvfLevel, old, new, fastMerge, weightOption, lists, mdict, merges, doing>>

\* GenerateWeights of mg_weights_build, from the merged file: each entry adds
\* to the weights of its documents.
AddEntry(weights, list, idf) ==
  LET Nth(k) == LastDoc(SubSeq(list, 1, k))
      Weigh(w, k) == [w EXCEPT ![Nth(k)] = @ + Squared(list[k].tf * idf)]
  IN FoldLeft(Weigh, weights, [k \in DOMAIN list |-> k])

EntryOf(c, n) ==
  ReadEntry(c.invf, 8 * (c.idx[n] - InvfStart), c.dict[n].fcnt,
            BblockInit(c.Nstatic, c.dict[n].fcnt))

Rebuilt(c) ==
  LET upto[n \in 0 .. Len(c.dict)] ==
        IF n = 0 THEN [d \in 1 .. c.nDocs |-> 0]
        ELSE AddEntry(upto[n - 1], EntryOf(c, n).list, IdfOf(c.nDocs, c.dict[n].fcnt))
  IN upto[Len(c.dict)]

\* done_merge_invf, and mg_weights_build when the weights are not guessed.
done_merge_invf ==
  /\ doing = "invf"
  /\ entry = Len(lists)
  /\ LET merged == [old EXCEPT !.dict = mdict, !.invf = minvf, !.idx = Append(midx, BytesOutput),
                               !.nDocs = @ + new.nDocs,
                               !.Nstatic = IF fastMerge THEN @ ELSE old.nDocs + new.nDocs,
                               !.weight = IF InvfLevel >= 2 THEN @ \o DocWeightBuffer ELSE @]
     IN old' = IF weightOption \/ InvfLevel < 2 THEN merged
               ELSE [merged EXCEPT !.weight = Rebuilt(merged)]
  /\ doing' = "done"
  /\ UNCHANGED <<docs, InvfLevel, new, fastMerge, weightOption, lists, mdict, entry, oldpos,
                 newpos, minvf, midx, DocWeightBuffer, merges>>

MergeNext ==
  \/ mgmerge \/ process_merge_text
  \/ LexiconPass \/ processEntry \/ done_merge_invf

MergeSpec == MergeInit /\ [][MergeNext]_mergeVars

-----------------------------------------------------------------------------

\* The documents that the last merge added.
AddedLast == Len(docs) - (IF merges = 0 THEN 0 ELSE new.nDocs) + 1 .. Len(docs)

EntryIsRight(e, read, gaps) ==
  /\ e.fcnt = Len(gaps)
  /\ e.wcnt = Occurs(docs, e.term)
  /\ [k \in DOMAIN read.list |-> read.list[k].gap] = [k \in DOMAIN gaps |-> gaps[k].gap]
  /\ InvfLevel >= 2 => read.list = gaps

(***************************************************************************)
(* After a build and any merges, fast or slow, the collection is one of    *)
(* all documents: the dictionary counts them all, every entry begins where *)
(* the index says and reads back, coded for the number of documents that   *)
(* the dictionary gives, as the postings of its word in all of them, and   *)
(* every document is found in the text.  The weights of the documents      *)
(* added last are those a build of the whole would give; of all documents, *)
(* when they were not guessed.                                             *)
(***************************************************************************)
MergedIsWhole ==
  doing = "done" =>
    /\ [n \in DOMAIN old.dict |-> old.dict[n].term] = Ascending(InTerms(docs))
    /\ old.nDocs = Len(docs)
    /\ \A n \in DOMAIN old.dict :
         /\ EntryIsRight(old.dict[n], EntryOf(old, n), Gaps(docs, old.dict[n].term))
         /\ EntryOf(old, n).pos = 8 * (old.idx[n + 1] - InvfStart)
    /\ \A d \in DOMAIN docs :
         SubSeq(old.text, old.text_idx[d] - TextStart + 1, old.text_idx[d + 1] - TextStart)
           = [n \in 1 .. TextSize(docs[d]) |-> docs[d]]
    /\ InvfLevel >= 2 =>
         /\ Len(old.weight) = Len(docs)
         /\ \A d \in IF weightOption THEN AddedLast ELSE DOMAIN docs :
              old.weight[d] = WeightOf(docs, d)
=============================================================================
