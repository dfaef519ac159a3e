------------------------------ MODULE DocLists ------------------------------
(***************************************************************************)
(* The operations on lists of documents: IntersectLists, DiffLists and     *)
(* MergeLists of src/text/lists.c and ReduceList of src/text/bool_query.c. *)
(* All but MergeLists write their result over the list they read, so it    *)
(* matters that the writing cursor never overtakes the reading one.  One   *)
(* step is one turn of a loop.                                             *)
(***************************************************************************)
EXTENDS Integers, Sequences

CONSTANT Lists   \* the lists the functions may be given

\* What the operations see of a DocEntry.
DocEntry == [DocNum : Nat, Weight : Nat, or_included : BOOLEAN]

Increasing(list) ==
  \A m, n \in DOMAIN list : m < n => list[m].DocNum < list[n].DocNum

\* "Assumes that both lists are ordered on increasing Value."
ASSUME ListsAreOrdered ==
  /\ Lists \subseteq Seq(DocEntry)
  /\ \A list \in Lists : Increasing(list)

VARIABLES
  fn,            \* the function called
  List1, List2,  \* its arguments
  null1, null2,  \* whether they are NULL; a NULL list stands as <<>>
  mem,           \* the array the result is written to
  s1, s2, d,     \* entries of List1 and List2 read, of the result written
  at             \* where in the function control is

vars == <<fn, List1, List2, null1, null2, mem, s1, s2, d, at>>
arguments == <<fn, List1, List2, null1, null2>>

InPlace == {"IntersectLists", "DiffLists", "ReduceList"}
Docs(list) == {list[n].DocNum : n \in DOMAIN list}

Init ==
  /\ fn \in InPlace \cup {"MergeLists"}
  /\ List1 \in Lists /\ List2 \in Lists
  /\ null1 \in BOOLEAN /\ null2 \in BOOLEAN
  /\ null1 => List1 = <<>> /\ fn # "ReduceList"
  /\ null2 => List2 = <<>> /\ fn # "ReduceList"
  /\ mem = IF fn \in InPlace THEN List1 ELSE <<>>
  /\ s1 = 0 /\ s2 = 0 /\ d = 0
  /\ at = "start"

More1 == s1 < Len(List1)
More2 == s2 < Len(List2)

\* The entries under the cursors.  In an in-place operation the first is read
\* from the array that is being overwritten.
Entry1 == IF fn \in InPlace THEN mem[s1 + 1] ELSE List1[s1 + 1]
Entry2 == List2[s2 + 1]

Goto(place) == at' = place /\ UNCHANGED arguments

\* *d++ = entry
Write(entry) ==
  /\ d' = d + 1
  /\ mem' = IF fn \in InPlace THEN [mem EXCEPT ![d + 1] = entry]
            ELSE Append(mem, entry)
WriteNothing == UNCHANGED <<mem, d>>

-----------------------------------------------------------------------------
\* The tests for NULL.

ReturnEmpty ==
  /\ at = "start"
  /\ \/ fn = "IntersectLists" /\ (null1 \/ null2)
     \/ fn = "DiffLists" /\ null1
     \/ fn = "MergeLists" /\ null1 /\ null2
  /\ mem' = <<>> /\ d' = 0
  /\ UNCHANGED <<s1, s2>>
  /\ Goto("done")

\* The other argument is returned as it is.
ReturnArgument ==
  /\ at = "start"
  /\ \/ fn = "DiffLists" /\ ~null1 /\ null2
     \/ fn = "MergeLists" /\ null1 # null2
  /\ mem' = IF null1 THEN List2 ELSE List1
  /\ d' = Len(mem')
  /\ UNCHANGED <<s1, s2>>
  /\ Goto("done")

EnterLoop ==
  /\ at = "start"
  /\ ~null1 /\ ~null2
  /\ UNCHANGED <<s1, s2, mem, d>>
  /\ Goto("loop")

\* MakeDocList finds no memory for the result of MergeLists, which is then NULL.
OutOfMemory ==
  /\ at = "start"
  /\ fn = "MergeLists" /\ ~null1 /\ ~null2
  /\ UNCHANGED <<s1, s2, mem, d>>
  /\ Goto("no memory")

LoopEnds ==
  /\ at = "loop"
  /\ CASE fn = "IntersectLists" -> ~More1 \/ ~More2
       [] fn = "MergeLists"     -> ~More1 /\ ~More2
       [] OTHER                 -> ~More1
  /\ UNCHANGED <<s1, s2, mem, d>>
  /\ Goto("done")

-----------------------------------------------------------------------------
\* IntersectLists: the loop has a test and two inner loops.

IntersectMatch ==
  /\ at = "loop" /\ fn = "IntersectLists"
  /\ More1 /\ More2
  /\ IF Entry1.DocNum = Entry2.DocNum
     THEN Write(Entry1) /\ s1' = s1 + 1
     ELSE WriteNothing /\ UNCHANGED s1
  /\ UNCHANGED s2
  /\ Goto("pass2")

\* Mutant: the inner loop also passes over an entry of the same document.
IntersectPass2TooFar ==
  /\ at = "pass2"
  /\ IF More1 /\ More2 /\ Entry2.DocNum <= Entry1.DocNum
     THEN s2' = s2 + 1 /\ Goto("pass2")
     ELSE UNCHANGED s2 /\ Goto("pass1")
  /\ UNCHANGED s1
  /\ WriteNothing

IntersectPass2 ==
  /\ at = "pass2"
  /\ IF More1 /\ More2 /\ Entry2.DocNum < Entry1.DocNum
     THEN s2' = s2 + 1 /\ Goto("pass2")
     ELSE UNCHANGED s2 /\ Goto("pass1")
  /\ UNCHANGED s1
  /\ WriteNothing

\* Mutant: the second inner loop is not there.
IntersectPass1Never ==
  /\ at = "pass1"
  /\ Goto("loop")
  /\ UNCHANGED <<s1, s2>>
  /\ WriteNothing

IntersectPass1 ==
  /\ at = "pass1"
  /\ IF More1 /\ More2 /\ Entry1.DocNum < Entry2.DocNum
     THEN s1' = s1 + 1 /\ Goto("pass1")
     ELSE UNCHANGED s1 /\ Goto("loop")
  /\ UNCHANGED s2
  /\ WriteNothing

-----------------------------------------------------------------------------

\* Mutant: an entry of List1 that comes before that of List2 is copied without
\* moving on.
DiffStepStays ==
  /\ at = "loop" /\ fn = "DiffLists"
  /\ More1
  /\ \/ /\ More2 => Entry1.DocNum < Entry2.DocNum
        /\ Write(Entry1)
        /\ UNCHANGED <<s1, s2>>
     \/ /\ More2 /\ Entry1.DocNum = Entry2.DocNum
        /\ s1' = s1 + 1 /\ s2' = s2 + 1
        /\ WriteNothing
     \/ /\ More2 /\ Entry1.DocNum > Entry2.DocNum
        /\ s2' = s2 + 1 /\ UNCHANGED s1
        /\ WriteNothing
  /\ Goto("loop")

DiffStep ==
  /\ at = "loop" /\ fn = "DiffLists"
  /\ More1
  /\ \/ /\ More2 => Entry1.DocNum < Entry2.DocNum
        /\ Write(Entry1)
        /\ s1' = s1 + 1 /\ UNCHANGED s2
     \/ /\ More2 /\ Entry1.DocNum = Entry2.DocNum
        /\ s1' = s1 + 1 /\ s2' = s2 + 1
        /\ WriteNothing
     \/ /\ More2 /\ Entry1.DocNum > Entry2.DocNum
        /\ s2' = s2 + 1 /\ UNCHANGED s1
        /\ WriteNothing
  /\ Goto("loop")

\* Mutant: of two entries for a document only the first is passed.
MergeStepStays ==
  /\ at = "loop" /\ fn = "MergeLists"
  /\ \/ /\ More1
        /\ More2 => Entry1.DocNum < Entry2.DocNum
        /\ Write(Entry1)
        /\ s1' = s1 + 1 /\ UNCHANGED s2
     \/ /\ More2
        /\ More1 => Entry2.DocNum < Entry1.DocNum
        /\ Write(Entry2)
        /\ s2' = s2 + 1 /\ UNCHANGED s1
     \/ /\ More1 /\ More2
        /\ Entry1.DocNum = Entry2.DocNum
        /\ Write([Entry1 EXCEPT !.Weight = @ + Entry2.Weight])
        /\ s1' = s1 + 1 /\ UNCHANGED s2
  /\ Goto("loop")

MergeStep ==
  /\ at = "loop" /\ fn = "MergeLists"
  /\ \/ /\ More1
        /\ More2 => Entry1.DocNum < Entry2.DocNum
        /\ Write(Entry1)
        /\ s1' = s1 + 1 /\ UNCHANGED s2
     \/ /\ More2
        /\ More1 => Entry2.DocNum < Entry1.DocNum
        /\ Write(Entry2)
        /\ s2' = s2 + 1 /\ UNCHANGED s1
     \/ /\ More1 /\ More2
        /\ Entry1.DocNum = Entry2.DocNum
        /\ Write([Entry1 EXCEPT !.Weight = @ + Entry2.Weight])
        /\ s1' = s1 + 1 /\ s2' = s2 + 1
  /\ Goto("loop")

\* The mark is cleared where the entry is read; if it is not also written there,
\* that place is not read again.
ReduceStep ==
  /\ at = "loop" /\ fn = "ReduceList"
  /\ More1
  /\ IF Entry1.or_included
     THEN Write([Entry1 EXCEPT !.or_included = FALSE])
     ELSE WriteNothing
  /\ s1' = s1 + 1 /\ UNCHANGED s2
  /\ Goto("loop")

Next ==
  \/ ReturnEmpty \/ ReturnArgument \/ EnterLoop \/ OutOfMemory \/ LoopEnds
  \/ IntersectMatch \/ IntersectPass2 \/ IntersectPass1
  \/ DiffStep \/ MergeStep \/ ReduceStep

\* A function that was called runs until it returns.
Spec == Init /\ [][Next]_vars /\ WF_vars(Next)

-----------------------------------------------------------------------------
(***************************************************************************)
(* Properties.                                                             *)
(***************************************************************************)

\* An in-place operation has never written more than it has read, and
\* MergeLists never more than the sum of the lengths, which it allocated.
CursorsFit(f, A, w, c, k1, k2) ==
  IF f \in InPlace THEN c <= k1 /\ Len(w) = Len(A)
  ELSE c = Len(w) /\ c <= k1 + k2

\* Types, and the bounds of the cursors.
TypeOK ==
  /\ fn \in InPlace \cup {"MergeLists"}
  /\ List1 \in Lists /\ List2 \in Lists
  /\ null1 \in BOOLEAN /\ null2 \in BOOLEAN
  /\ mem \in Seq(DocEntry)
  /\ s1 \in 0 .. Len(List1) /\ s2 \in 0 .. Len(List2)
  /\ at \in {"start", "loop", "pass2", "pass1", "done", "no memory"}
  /\ d \in 0 .. Len(mem)
  /\ at # "done" => CursorsFit(fn, List1, mem, d, s1, s2)

\* Writing over the list never changes an entry that is still to be read.
Unread(f, A, w, k) == f \in InPlace => \A n \in k + 1 .. Len(A) : w[n] = A[n]
UnreadIntact == at # "done" => Unread(fn, List1, mem, s1)

\* What function f makes of the lists A and B.  Entry n of A has a place in the
\* result, and e is what it is there.
Selected(f, A, B, n) ==
  CASE f = "IntersectLists" -> A[n].DocNum \in Docs(B)
    [] f = "DiffLists"      -> A[n].DocNum \notin Docs(B)
    [] f = "ReduceList"     -> A[n].or_included
    [] f = "MergeLists"     -> TRUE
From1(f, A, B, e, n) ==
  CASE f \in {"IntersectLists", "DiffLists"} -> e = A[n]
    [] f = "ReduceList" -> e = [A[n] EXCEPT !.or_included = FALSE]
    [] f = "MergeLists" ->
         \/ A[n].DocNum \notin Docs(B) /\ e = A[n]
         \/ \E m \in DOMAIN B :
              /\ B[m].DocNum = A[n].DocNum
              /\ e = [A[n] EXCEPT !.Weight = @ + B[m].Weight]

\* The same for an entry of B, of which only MergeLists keeps any.
Selected2(f, A, B, m) == f = "MergeLists" /\ B[m].DocNum \notin Docs(A)

\* The first c entries of w are right for the first k1 entries of A and k2 of B:
\* everything there belongs there, and everything that belongs there is there.
RightFor(f, A, B, w, c, k1, k2) ==
  /\ \A r \in 1 .. c :
       \/ \E n \in 1 .. k1 : Selected(f, A, B, n) /\ From1(f, A, B, w[r], n)
       \/ \E m \in 1 .. k2 : Selected2(f, A, B, m) /\ w[r] = B[m]
  /\ \A n \in 1 .. k1 :
       Selected(f, A, B, n) => \E r \in 1 .. c : From1(f, A, B, w[r], n)
  /\ \A m \in 1 .. k2 :
       Selected2(f, A, B, m) => \E r \in 1 .. c : w[r] = B[m]

\* What IntersectLists, DiffLists and MergeLists return is the intersection,
\* the difference and the union of their arguments, with the weights added
\* where both have a document; what ReduceList leaves are the marked entries.
ResultRight ==
  at = "done" => RightFor(fn, List1, List2, mem, d, Len(List1), Len(List2))

Ordered(w, c) == \A m, n \in 1 .. c : m < n => w[m].DocNum < w[n].DocNum

\* It is ordered again, as the next operation assumes, with one entry for a
\* document.
ResultOrdered == at = "done" => Ordered(mem, d)

\* Every call returns.
Terminates == at = "start" ~> at \in {"done", "no memory"}
=============================================================================
