------------------------------ MODULE Postings ------------------------------
(***************************************************************************)
(* What the inverted file promises: for every word the documents that hold *)
(* it, in increasing order, each with the number of times the word occurs  *)
(* in it.  The index grows by whole runs of documents, in the order of the *)
(* text, and in the end covers all of it.                                  *)
(***************************************************************************)
EXTENDS Integers, Sequences, FiniteSets, Functions

CONSTANTS
  Words,       \* the words, numbered in dictionary order
  Documents,   \* the documents there may be: sequences of words
  WithCounts   \* whether the index records how often a word occurs

VARIABLES
  text,      \* the documents, in the order they were read
  closed,    \* no more documents come
  indexed,   \* how many of them the index covers
  index      \* the postings of each word

vars == <<text, closed, indexed, index>>

Frequency(w, doc) ==
  IF WithCounts THEN Cardinality({i \in DOMAIN doc : doc[i] = w}) ELSE 1

\* A list holds the postings of w in the documents docs: all of them, no other,
\* and in increasing order.
ArePostings(list, w, docs) ==
  /\ {list[n] : n \in DOMAIN list} =
       {<<d, Frequency(w, docs[d])>> : d \in {e \in DOMAIN docs : w \in Range(docs[e])}}
  /\ \A n \in 2 .. Len(list) : list[n - 1][1] < list[n][1]

Init ==
  /\ text = <<>>
  /\ closed = FALSE
  /\ indexed = 0
  /\ index = [w \in Words |-> <<>>]

Collect ==
  /\ ~closed
  /\ \E doc \in Documents : text' = Append(text, doc)
  /\ UNCHANGED <<closed, indexed, index>>

Close ==
  /\ ~closed
  /\ closed' = TRUE
  /\ UNCHANGED <<text, indexed, index>>

Extend ==
  /\ closed
  /\ \E n \in indexed + 1 .. Len(text) :
       /\ indexed' = n
       /\ index' \in [Words -> Seq(Nat \X Nat)]
       /\ \A w \in Words : ArePostings(index'[w], w, SubSeq(text, 1, n))
  /\ UNCHANGED <<text, closed>>

Next == Collect \/ Close \/ Extend

Spec == Init /\ [][Next]_vars
=============================================================================
