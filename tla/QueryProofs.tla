---------------------------- MODULE QueryProofs -----------------------------
(***************************************************************************)
(* Two parts of a query program, each for itself: the document lists that  *)
(* Boolean queries are answered with, and the streams, parameters and      *)
(* buffers of a session of mgquery.                                        *)
(***************************************************************************)
EXTENDS DocLists, Session, CodeFacts, SequenceTheorems

-----------------------------------------------------------------------------
(***************************************************************************)
(* For lists of any length: what the functions of DocLists return is the   *)
(* set operation they are named for, in order, and writing over a list     *)
(* never destroys an entry that is still to be read.                       *)
(*                                                                         *)
(* The argument is that of merging.  Whatever has been read of one list is *)
(* below whatever is unread of the other, so an entry that is passed over  *)
(* has no partner there; and whatever has been written is below whatever   *)
(* is unread, so the result stays ordered.                                 *)
(***************************************************************************)

\* The first c entries of w are below the entries of A after the first k.
Below(w, c, A, k) ==
  \A r \in 1 .. c, n \in k + 1 .. Len(A) : w[r].DocNum < A[n].DocNum

Running == at \in {"loop", "pass2", "pass1"}

\* After k1 entries of A and k2 of B, with c entries written.
LoopInvFor(f, A, B, w, c, k1, k2) ==
  /\ RightFor(f, A, B, w, c, k1, k2)
  /\ Ordered(w, c)
  /\ Below(w, c, A, k1)
  /\ f = "MergeLists" => Below(w, c, B, k2)
  /\ f # "ReduceList" => Below(B, k2, A, k1)
  /\ f \in {"DiffLists", "MergeLists"} => Below(A, k1, B, k2)
LoopInv == LoopInvFor(fn, List1, List2, mem, d, s1, s2)

Control ==
  /\ at = "start" => /\ s1 = 0 /\ s2 = 0 /\ d = 0
                     /\ mem = IF fn \in InPlace THEN List1 ELSE <<>>
  /\ at \in {"pass2", "pass1"} => fn = "IntersectLists"
  /\ null1 => List1 = <<>>
  /\ null2 => List2 = <<>>

Inv ==
  /\ TypeOK /\ UnreadIntact /\ Control
  /\ Running => LoopInv
  /\ ResultRight /\ ResultOrdered

-----------------------------------------------------------------------------
\* Lemmas about the lists alone.

\* The members of Lists are what the code assumes of them.
LEMMA ListFacts ==
  ASSUME NEW A \in Lists
  PROVE  /\ A \in Seq(DocEntry) /\ Len(A) \in Nat /\ DOMAIN A = 1 .. Len(A)
         /\ \A n \in 1 .. Len(A) : A[n] \in DocEntry /\ A[n].DocNum \in Nat
         /\ \A m, n \in 1 .. Len(A) : m < n => A[m].DocNum < A[n].DocNum
<1>1. A \in Seq(DocEntry) /\ Increasing(A)
  BY ListsAreOrdered
<1>2. Len(A) \in Nat /\ DOMAIN A = 1 .. Len(A)
  BY <1>1
<1>3. ASSUME NEW n \in 1 .. Len(A) PROVE A[n] \in DocEntry /\ A[n].DocNum \in Nat
  <2>1. A[n] \in DocEntry
    BY <1>1, <1>2
  <2>2. QED
    BY <2>1 DEF DocEntry
<1>4. QED
  BY <1>1, <1>2, <1>3 DEF Increasing

\* One turn of a loop moves either cursor by at most one and writes at most one
\* entry: what is written belongs in the result, and what is passed, if it
\* belongs there, is written.
Turn(f, A, B, w, v, c, e, k1, k2, l1, l2) ==
  /\ c \in Nat /\ e \in {c, c + 1}
  /\ k1 \in Nat /\ l1 \in {k1, k1 + 1} /\ k2 \in Nat /\ l2 \in {k2, k2 + 1}
  /\ \A r \in 1 .. c : v[r] = w[r]
  /\ e = c + 1 =>
       \/ \E n \in 1 .. l1 : Selected(f, A, B, n) /\ From1(f, A, B, v[e], n)
       \/ \E m \in 1 .. l2 : Selected2(f, A, B, m) /\ v[e] = B[m]
  /\ (l1 = k1 + 1 /\ Selected(f, A, B, l1))
       => \E r \in 1 .. e : From1(f, A, B, v[r], l1)
  /\ (l2 = k2 + 1 /\ Selected2(f, A, B, l2)) => \E r \in 1 .. e : v[r] = B[l2]

\* After such a turn the result is right for what has now been read.
LEMMA RightStep ==
  ASSUME NEW f, NEW A, NEW B, NEW w, NEW v, NEW c, NEW e,
         NEW k1, NEW k2, NEW l1, NEW l2,
         RightFor(f, A, B, w, c, k1, k2),
         Turn(f, A, B, w, v, c, e, k1, k2, l1, l2)
  PROVE  RightFor(f, A, B, v, e, l1, l2)
<1> /\ c \in Nat /\ e \in {c, c + 1}
    /\ k1 \in Nat /\ l1 \in {k1, k1 + 1} /\ k2 \in Nat /\ l2 \in {k2, k2 + 1}
    /\ \A r \in 1 .. c : v[r] = w[r]
  BY DEF Turn
<1>1. ASSUME NEW r \in 1 .. e
      PROVE  \/ \E n \in 1 .. l1 : Selected(f, A, B, n) /\ From1(f, A, B, v[r], n)
             \/ \E m \in 1 .. l2 : Selected2(f, A, B, m) /\ v[r] = B[m]
  <2>1. CASE r \in 1 .. c
    BY <2>1 DEF RightFor
  <2>2. CASE r = c + 1 /\ e = c + 1
    BY <2>2 DEF Turn
  <2>3. QED
    BY <2>1, <2>2
<1>2. ASSUME NEW n \in 1 .. l1, Selected(f, A, B, n)
      PROVE  \E r \in 1 .. e : From1(f, A, B, v[r], n)
  <2>1. CASE n \in 1 .. k1
    <3>1. PICK r \in 1 .. c : From1(f, A, B, w[r], n)
      BY <1>2, <2>1 DEF RightFor
    <3>2. QED
      BY <3>1
  <2>2. CASE n = k1 + 1 /\ l1 = k1 + 1
    BY <1>2, <2>2 DEF Turn
  <2>3. QED
    BY <2>1, <2>2
<1>3. ASSUME NEW m \in 1 .. l2, Selected2(f, A, B, m)
      PROVE  \E r \in 1 .. e : v[r] = B[m]
  <2>1. CASE m \in 1 .. k2
    <3>1. PICK r \in 1 .. c : w[r] = B[m]
      BY <1>3, <2>1 DEF RightFor
    <3>2. QED
      BY <3>1
  <2>2. CASE m = k2 + 1 /\ l2 = k2 + 1
    BY <1>3, <2>2 DEF Turn
  <2>3. QED
    BY <2>1, <2>2
<1>4. QED
  BY <1>1, <1>2, <1>3 DEF RightFor

\* An entry above all that was written goes to the end.
LEMMA OrderedStep ==
  ASSUME NEW w, NEW v, NEW c \in Nat,
         Ordered(w, c), \A r \in 1 .. c : v[r] = w[r],
         \A r \in 1 .. c : w[r].DocNum < v[c + 1].DocNum
  PROVE  Ordered(v, c + 1)
<1>1. SUFFICES ASSUME NEW m \in 1 .. c + 1, NEW n \in 1 .. c + 1, m < n
               PROVE  v[m].DocNum < v[n].DocNum
  BY DEF Ordered
<1>2. m \in 1 .. c
  BY <1>1
<1>3. CASE n = c + 1
  BY <1>2, <1>3
<1>4. CASE n \in 1 .. c
  BY <1>1, <1>2, <1>4 DEF Ordered
<1>5. QED
  BY <1>3, <1>4

\* Reading on in A keeps what is below the rest of it, and one more entry is
\* below it if it is itself.
LEMMA BelowStep ==
  ASSUME NEW w, NEW v, NEW A, NEW c \in Nat, NEW k \in Nat, NEW l \in {k, k + 1},
         Len(A) \in Nat,
         Below(w, c, A, k), \A r \in 1 .. c : v[r] = w[r]
  PROVE  /\ Below(v, c, A, l)
         /\ (\A n \in l + 1 .. Len(A) : v[c + 1].DocNum < A[n].DocNum)
              => Below(v, c + 1, A, l)
<1>1. Below(v, c, A, l)
  BY DEF Below
<1>2. ASSUME \A n \in l + 1 .. Len(A) : v[c + 1].DocNum < A[n].DocNum
      PROVE  Below(v, c + 1, A, l)
  <2>1. SUFFICES ASSUME NEW r \in 1 .. c + 1, NEW n \in l + 1 .. Len(A)
                 PROVE  v[r].DocNum < A[n].DocNum
    BY DEF Below
  <2>2. CASE r = c + 1
    BY <1>2, <2>2
  <2>3. CASE r \in 1 .. c
    BY <1>1, <2>3 DEF Below
  <2>4. QED
    BY <2>2, <2>3
<1>3. QED
  BY <1>1, <1>2

\* The same when the lower side is a list that is read on in, too.
LEMMA BelowRead ==
  ASSUME NEW w, NEW A, NEW c \in Nat, NEW k \in Nat,
         NEW e \in {c, c + 1}, NEW l \in {k, k + 1}, Len(A) \in Nat,
         Below(w, c, A, k),
         e = c + 1 => \A n \in l + 1 .. Len(A) : w[c + 1].DocNum < A[n].DocNum
  PROVE  Below(w, e, A, l)
<1>1. SUFFICES ASSUME NEW r \in 1 .. e, NEW n \in l + 1 .. Len(A)
               PROVE  w[r].DocNum < A[n].DocNum
  BY DEF Below
<1>2. CASE r \in 1 .. c
  BY <1>2 DEF Below
<1>3. CASE r = c + 1 /\ e = c + 1
  BY <1>3
<1>4. QED
  BY <1>2, <1>3

\* How the cursors move in a turn: what is read of one list stays below what is
\* unread of the other.
Moves(f, A, B, k1, k2, l1, l2) ==
  /\ Len(A) \in Nat /\ Len(B) \in Nat
  /\ k1 \in Nat /\ l1 \in {k1, k1 + 1} /\ k2 \in Nat /\ l2 \in {k2, k2 + 1}
  /\ (f # "ReduceList" /\ l2 = k2 + 1)
       => \A n \in l1 + 1 .. Len(A) : B[k2 + 1].DocNum < A[n].DocNum
  /\ (f \in {"DiffLists", "MergeLists"} /\ l1 = k1 + 1)
       => \A m \in l2 + 1 .. Len(B) : A[k1 + 1].DocNum < B[m].DocNum

\* What is passed has no place in the result.
Skips(f, A, B, k1, k2, l1, l2) ==
  /\ l1 = k1 + 1 => ~Selected(f, A, B, k1 + 1)
  /\ l2 = k2 + 1 => ~Selected2(f, A, B, k2 + 1)

\* Entry x belongs in the result, and is above what was written and below what
\* is unread.
Writes(f, A, B, w, v, x, c, k1, k2, l1, l2) ==
  /\ \A r \in 1 .. c : v[r] = w[r]
  /\ v[c + 1] = x
  /\ \/ /\ l1 = k1 + 1 /\ Selected(f, A, B, l1) /\ From1(f, A, B, x, l1)
        /\ l2 = k2 + 1 => ~Selected2(f, A, B, l2)
     \/ l1 = k1 /\ l2 = k2 + 1 /\ Selected2(f, A, B, l2) /\ x = B[l2]
  /\ \A r \in 1 .. c : w[r].DocNum < x.DocNum
  /\ \A n \in l1 + 1 .. Len(A) : x.DocNum < A[n].DocNum
  /\ f = "MergeLists" => \A m \in l2 + 1 .. Len(B) : x.DocNum < B[m].DocNum

\* A turn of a loop that writes nothing.
LEMMA ReadLoop ==
  ASSUME NEW f, NEW A, NEW B, NEW w, NEW c \in Nat,
         NEW k1, NEW k2, NEW l1, NEW l2,
         LoopInvFor(f, A, B, w, c, k1, k2),
         Moves(f, A, B, k1, k2, l1, l2), Skips(f, A, B, k1, k2, l1, l2)
  PROVE  LoopInvFor(f, A, B, w, c, l1, l2)
<1> USE DEF Moves, Skips
<1>1. RightFor(f, A, B, w, c, l1, l2)
  <2>1. RightFor(f, A, B, w, c, k1, k2)
    BY DEF LoopInvFor
  <2>2. Turn(f, A, B, w, w, c, c, k1, k2, l1, l2)
    BY DEF Turn
  <2>3. QED
    BY <2>1, <2>2, RightStep
<1>2. Below(w, c, A, l1)
  BY BelowStep DEF LoopInvFor
<1>3. f = "MergeLists" => Below(w, c, B, l2)
  BY BelowStep DEF LoopInvFor
<1>4. f # "ReduceList" => Below(B, l2, A, l1)
  BY BelowRead DEF LoopInvFor
<1>5. f \in {"DiffLists", "MergeLists"} => Below(A, l1, B, l2)
  BY BelowRead DEF LoopInvFor
<1>6. QED
  BY <1>1, <1>2, <1>3, <1>4, <1>5 DEF LoopInvFor

\* A turn that writes entry x.
LEMMA WriteLoop ==
  ASSUME NEW f, NEW A, NEW B, NEW w, NEW v, NEW x, NEW c \in Nat,
         NEW k1, NEW k2, NEW l1, NEW l2,
         LoopInvFor(f, A, B, w, c, k1, k2),
         Moves(f, A, B, k1, k2, l1, l2),
         Writes(f, A, B, w, v, x, c, k1, k2, l1, l2)
  PROVE  LoopInvFor(f, A, B, v, c + 1, l1, l2)
<1> USE DEF Moves, Writes
<1>1. RightFor(f, A, B, v, c + 1, l1, l2)
  <2>1. RightFor(f, A, B, w, c, k1, k2)
    BY DEF LoopInvFor
  <2>2. \/ \E n \in 1 .. l1 :
             Selected(f, A, B, n) /\ From1(f, A, B, v[c + 1], n)
        \/ \E m \in 1 .. l2 : Selected2(f, A, B, m) /\ v[c + 1] = B[m]
    OBVIOUS
  <2>3. (l1 = k1 + 1 /\ Selected(f, A, B, l1))
           => \E r \in 1 .. c + 1 : From1(f, A, B, v[r], l1)
    OBVIOUS
  <2>4. (l2 = k2 + 1 /\ Selected2(f, A, B, l2))
           => \E r \in 1 .. c + 1 : v[r] = B[l2]
    OBVIOUS
  <2>5. Turn(f, A, B, w, v, c, c + 1, k1, k2, l1, l2)
    BY <2>2, <2>3, <2>4 DEF Turn
  <2>6. QED
    BY <2>1, <2>5, RightStep
<1>2. Ordered(v, c + 1)
  BY OrderedStep DEF LoopInvFor
<1>3. Below(v, c + 1, A, l1)
  BY BelowStep DEF LoopInvFor
<1>4. f = "MergeLists" => Below(v, c + 1, B, l2)
  BY BelowStep DEF LoopInvFor
<1>5. f # "ReduceList" => Below(B, l2, A, l1)
  BY BelowRead DEF LoopInvFor
<1>6. f \in {"DiffLists", "MergeLists"} => Below(A, l1, B, l2)
  BY BelowRead DEF LoopInvFor
<1>7. QED
  BY <1>1, <1>2, <1>3, <1>4, <1>5, <1>6 DEF LoopInvFor

-----------------------------------------------------------------------------
\* What the actions do to the state.

LEMMA WriteEffects ==
  ASSUME TypeOK, at # "done", NEW e \in DocEntry, Write(e),
         fn \in InPlace => s1 < Len(List1)
  PROVE  /\ d' = d + 1
         /\ mem' \in Seq(DocEntry)
         /\ Len(mem') = IF fn \in InPlace THEN Len(mem) ELSE Len(mem) + 1
         /\ mem'[d + 1] = e
         /\ \A r \in 1 .. d : mem'[r] = mem[r]
         /\ fn \in InPlace => \A n \in d + 2 .. Len(mem) : mem'[n] = mem[n]
<1>1. /\ mem \in Seq(DocEntry) /\ Len(mem) \in Nat /\ d \in Nat
      /\ List1 \in Lists /\ Len(List1) \in Nat /\ s1 \in Nat
  <2>1. mem \in Seq(DocEntry) /\ List1 \in Lists
    BY DEF TypeOK
  <2>2. Len(mem) \in Nat /\ Len(List1) \in Nat
    BY <2>1, ListFacts
  <2>3. d \in 0 .. Len(mem) /\ s1 \in 0 .. Len(List1)
    BY DEF TypeOK
  <2>4. QED
    BY <2>1, <2>2, <2>3
<1>2. CASE fn \in InPlace
  <2>1. d <= s1 /\ Len(mem) = Len(List1) /\ s1 < Len(List1)
    BY <1>2 DEF TypeOK, CursorsFit
  <2>2. d + 1 \in 1 .. Len(mem)
    BY <1>1, <2>1
  <2>3. d' = d + 1 /\ mem' = [mem EXCEPT ![d + 1] = e]
    BY <1>2 DEF Write
  <2>4. /\ [mem EXCEPT ![d + 1] = e] \in Seq(DocEntry)
        /\ Len([mem EXCEPT ![d + 1] = e]) = Len(mem)
        /\ \A j \in 1 .. Len(mem) :
             [mem EXCEPT ![d + 1] = e][j] = IF j = d + 1 THEN e ELSE mem[j]
    BY ONLY <1>1, <2>2, e \in DocEntry, ExceptSeq
  <2>5. /\ mem' \in Seq(DocEntry)
        /\ Len(mem') = Len(mem)
        /\ \A j \in 1 .. Len(mem) : mem'[j] = IF j = d + 1 THEN e ELSE mem[j]
    BY ONLY <2>3, <2>4, Zenon
  <2>6. QED
    BY <1>1, <1>2, <2>2, <2>3, <2>5
<1>3. CASE fn \notin InPlace
  <2>1. mem' = Append(mem, e) /\ d = Len(mem) /\ d' = d + 1
    BY <1>3 DEF Write, TypeOK, CursorsFit
  <2>2. /\ mem' \in Seq(DocEntry)
        /\ Len(mem') = Len(mem) + 1
        /\ \A j \in 1 .. Len(mem) : mem'[j] = mem[j]
        /\ mem'[Len(mem) + 1] = e
    BY <1>1, <2>1, AppendProperties
  <2>3. QED
    BY <1>1, <1>3, <2>1, <2>2
<1>4. QED
  BY <1>2, <1>3

LEMMA StateFacts ==
  ASSUME TypeOK
  PROVE  /\ List1 \in Lists /\ List2 \in Lists /\ mem \in Seq(DocEntry)
         /\ Len(List1) \in Nat /\ Len(List2) \in Nat /\ Len(mem) \in Nat
         /\ s1 \in Nat /\ s2 \in Nat /\ d \in Nat
         /\ s1 <= Len(List1) /\ s2 <= Len(List2) /\ d <= Len(mem)
<1>1. List1 \in Lists /\ List2 \in Lists /\ mem \in Seq(DocEntry)
  BY DEF TypeOK
<1>2. Len(List1) \in Nat /\ Len(List2) \in Nat /\ Len(mem) \in Nat
  BY <1>1, ListFacts
<1>3. s1 \in 0 .. Len(List1) /\ s2 \in 0 .. Len(List2) /\ d \in 0 .. Len(mem)
  BY DEF TypeOK
<1>4. QED
  BY <1>1, <1>2, <1>3

\* The invariant after a turn that wrote nothing, from what it did to the loop.
LEMMA ReadState ==
  ASSUME Inv, Running, UNCHANGED <<arguments, mem, d>>,
         at' \in {"loop", "pass2", "pass1"},
         at' # "loop" => fn = "IntersectLists",
         NEW l1 \in {s1, s1 + 1}, s1' = l1, l1 <= Len(List1),
         NEW l2 \in {s2, s2 + 1}, s2' = l2, l2 <= Len(List2),
         LoopInvFor(fn, List1, List2, mem, d, l1, l2)
  PROVE  Inv'
<1> USE StateFacts
<1>1. /\ fn' = fn /\ List1' = List1 /\ List2' = List2
      /\ null1' = null1 /\ null2' = null2 /\ mem' = mem /\ d' = d
  BY DEF arguments
<1>2. TypeOK'
  <2>1. CursorsFit(fn, List1, mem, d, s1, s2)
    BY DEF Inv, TypeOK, Running
  <2>2. CursorsFit(fn, List1, mem, d, l1, l2)
    BY <2>1 DEF CursorsFit, Inv
  <2>3. l1 \in 0 .. Len(List1) /\ l2 \in 0 .. Len(List2)
    BY DEF Inv
  <2>4. QED
    BY <1>1, <2>2, <2>3 DEF Inv, TypeOK
<1>3. UnreadIntact'
  <2>1. Unread(fn, List1, mem, s1)
    BY DEF Inv, UnreadIntact, Running
  <2>2. Unread(fn, List1, mem, l1)
    BY <2>1 DEF Unread, Inv
  <2>3. QED
    BY <1>1, <2>2 DEF UnreadIntact
<1>4. Control'
  BY <1>1 DEF Inv, Control
<1>5. LoopInv'
  BY <1>1 DEF LoopInv
<1>6. (ResultRight /\ ResultOrdered)'
  BY DEF ResultRight, ResultOrdered
<1>7. QED
  BY <1>2, <1>3, <1>4, <1>5, <1>6 DEF Inv

\* The same after a turn that wrote an entry.
LEMMA WriteState ==
  ASSUME Inv, Running, UNCHANGED arguments, NEW x \in DocEntry, Write(x),
         at' \in {"loop", "pass2", "pass1"},
         at' # "loop" => fn = "IntersectLists",
         NEW l1 \in {s1, s1 + 1}, s1' = l1, l1 <= Len(List1),
         NEW l2 \in {s2, s2 + 1}, s2' = l2, l2 <= Len(List2),
         l1 = s1 + 1 \/ (fn \notin InPlace /\ l2 = s2 + 1),
         LoopInvFor(fn, List1, List2, mem', d + 1, l1, l2)
  PROVE  Inv'
<1> USE StateFacts
<1>1. /\ fn' = fn /\ List1' = List1 /\ List2' = List2
      /\ null1' = null1 /\ null2' = null2
  BY DEF arguments
<1>2. /\ d' = d + 1
      /\ mem' \in Seq(DocEntry)
      /\ Len(mem') = IF fn \in InPlace THEN Len(mem) ELSE Len(mem) + 1
      /\ fn \in InPlace => \A n \in d + 2 .. Len(mem) : mem'[n] = mem[n]
  <2>1. TypeOK /\ at # "done"
    BY DEF Inv, Running
  <2>2. fn \in InPlace => s1 < Len(List1)
    BY <2>1
  <2>3. QED
    BY <2>1, <2>2, WriteEffects
<1>3. CursorsFit(fn, List1, mem, d, s1, s2)
  BY DEF Inv, TypeOK, Running
<1>4. TypeOK'
  <2>1. CursorsFit(fn, List1, mem', d + 1, l1, l2)
    BY <1>2, <1>3 DEF CursorsFit, Inv
  <2>2. d + 1 \in 0 .. Len(mem')
    BY <1>2, <1>3 DEF CursorsFit, Inv
  <2>3. l1 \in 0 .. Len(List1) /\ l2 \in 0 .. Len(List2)
    BY DEF Inv
  <2>4. QED
    BY <1>1, <1>2, <2>1, <2>2, <2>3 DEF Inv, TypeOK
<1>5. UnreadIntact'
  <2>1. Unread(fn, List1, mem, s1)
    BY DEF Inv, UnreadIntact, Running
  <2>2. Unread(fn, List1, mem', l1)
    BY <1>2, <1>3, <2>1 DEF Unread, CursorsFit, Inv
  <2>3. QED
    BY <1>1, <2>2 DEF UnreadIntact
<1>6. Control'
  BY <1>1 DEF Inv, Control
<1>7. LoopInv'
  BY <1>1, <1>2 DEF LoopInv
<1>8. (ResultRight /\ ResultOrdered)'
  BY DEF ResultRight, ResultOrdered
<1>9. QED
  BY <1>4, <1>5, <1>6, <1>7, <1>8 DEF Inv

-----------------------------------------------------------------------------
\* The initial states, and the steps outside the loops.

LEMMA InitInv == Init => Inv
<1>1. SUFFICES ASSUME Init PROVE Inv
  OBVIOUS
<1>2. /\ List1 \in Lists /\ List2 \in Lists /\ List1 \in Seq(DocEntry)
      /\ Len(List1) \in Nat /\ Len(List2) \in Nat /\ s1 = 0 /\ s2 = 0 /\ d = 0
      /\ at = "start" /\ mem = IF fn \in InPlace THEN List1 ELSE <<>>
  <2>1. List1 \in Lists /\ List2 \in Lists
    BY <1>1 DEF Init
  <2>2. List1 \in Seq(DocEntry) /\ Len(List1) \in Nat /\ Len(List2) \in Nat
    BY <2>1, ListFacts
  <2>3. QED
    BY <1>1, <2>1, <2>2 DEF Init
<1>3. mem \in Seq(DocEntry) /\ Len(mem) \in Nat
      /\ Len(mem) = IF fn \in InPlace THEN Len(List1) ELSE 0
  BY <1>2
<1>4. TypeOK
  <2>1. CursorsFit(fn, List1, mem, d, s1, s2)
    BY <1>2, <1>3 DEF CursorsFit
  <2>2. QED
    BY <1>1, <1>2, <1>3, <2>1 DEF TypeOK, Init
<1>5. UnreadIntact
  BY <1>2 DEF UnreadIntact, Unread
<1>6. Control
  BY <1>1, <1>2 DEF Control, Init
<1>7. ~Running /\ ResultRight /\ ResultOrdered
  BY <1>2 DEF Running, ResultRight, ResultOrdered
<1>8. QED
  BY <1>4, <1>5, <1>6, <1>7 DEF Inv

\* With an empty argument the empty list is right.
LEMMA ReturnEmptyInv == Inv /\ ReturnEmpty => Inv'
<1>1. SUFFICES ASSUME Inv, ReturnEmpty PROVE Inv'
  OBVIOUS
<1> USE StateFacts
<1>2. /\ fn' = fn /\ List1' = List1 /\ List2' = List2
      /\ null1' = null1 /\ null2' = null2 /\ s1' = s1 /\ s2' = s2
      /\ mem' = <<>> /\ d' = 0 /\ at' = "done" /\ at = "start"
  BY <1>1 DEF ReturnEmpty, Goto, arguments
<1>3. /\ null1 => List1 = <<>>
      /\ null2 => List2 = <<>>
  BY <1>1 DEF Inv, Control
<1>4. RightFor(fn, List1, List2, <<>>, 0, Len(List1), Len(List2))
  <2>1. CASE fn = "IntersectLists" /\ null2
    <3>1. Docs(List2) = {}
      BY <1>3, <2>1 DEF Docs
    <3>2. QED
      BY <1>1, <2>1, <3>1 DEF RightFor, Selected, Selected2, Inv
  <2>2. CASE fn \in {"IntersectLists", "DiffLists"} /\ null1
    <3>1. Len(List1) = 0
      BY <1>3, <2>2
    <3>2. QED
      BY <1>1, <2>2, <3>1 DEF RightFor, Selected2
  <2>3. CASE fn = "MergeLists" /\ null1 /\ null2
    <3>1. Len(List1) = 0 /\ Len(List2) = 0
      BY <1>3, <2>3
    <3>2. QED
      BY <3>1 DEF RightFor
  <2>4. QED
    BY <1>1, <2>1, <2>2, <2>3 DEF ReturnEmpty
<1>5. TypeOK'
  BY <1>1, <1>2 DEF Inv, TypeOK
<1>6. (UnreadIntact /\ Control)' /\ ~Running'
  BY <1>1, <1>2 DEF UnreadIntact, Control, Inv, Running
<1>7. ResultRight'
  BY <1>2, <1>4 DEF ResultRight
<1>8. ResultOrdered'
  BY <1>2 DEF ResultOrdered, Ordered
<1>9. QED
  BY <1>5, <1>6, <1>7, <1>8 DEF Inv

\* With an empty other argument a list is its own difference or union.
LEMMA ReturnArgumentInv == Inv /\ ReturnArgument => Inv'
<1>1. SUFFICES ASSUME Inv, ReturnArgument PROVE Inv'
  OBVIOUS
<1> USE StateFacts
<1>2. /\ fn' = fn /\ List1' = List1 /\ List2' = List2
      /\ null1' = null1 /\ null2' = null2 /\ s1' = s1 /\ s2' = s2
      /\ at' = "done" /\ at = "start"
      /\ mem' = (IF null1 THEN List2 ELSE List1) /\ d' = Len(mem')
  BY <1>1 DEF ReturnArgument, Goto, arguments
<1>3. /\ null1 => List1 = <<>>
      /\ null2 => List2 = <<>>
      /\ null1 \in BOOLEAN /\ null2 \in BOOLEAN
  BY <1>1 DEF Inv, Control, TypeOK
<1>4. /\ RightFor(fn, List1, List2, mem', d', Len(List1), Len(List2))
      /\ Ordered(mem', d')
      /\ mem' \in Seq(DocEntry) /\ d' \in Nat
  <2>1. CASE fn = "MergeLists" /\ null1
    <3>1. mem' = List2 /\ d' = Len(List2) /\ Len(List1) = 0 /\ Docs(List1) = {}
      BY <1>2, <1>3, <2>1 DEF Docs
    <3>2. RightFor(fn, List1, List2, List2, Len(List2), 0, Len(List2))
      BY <2>1, <3>1 DEF RightFor, Selected2
    <3>3. Ordered(List2, Len(List2)) /\ List2 \in Seq(DocEntry)
      BY <1>1, ListFacts DEF Ordered, Inv
    <3>4. QED
      BY <1>1, <3>1, <3>2, <3>3 DEF Inv
  <2>2. CASE fn \in {"DiffLists", "MergeLists"} /\ ~null1 /\ null2
    <3>1. mem' = List1 /\ d' = Len(List1) /\ Len(List2) = 0 /\ Docs(List2) = {}
      BY <1>2, <1>3, <2>2 DEF Docs
    <3>2. ASSUME NEW n \in 1 .. Len(List1)
          PROVE  /\ Selected(fn, List1, List2, n)
                 /\ From1(fn, List1, List2, List1[n], n)
      BY <2>2, <3>1 DEF Selected, From1
    <3>3. RightFor(fn, List1, List2, List1, Len(List1), Len(List1), 0)
      BY <3>2 DEF RightFor
    <3>4. Ordered(List1, Len(List1)) /\ List1 \in Seq(DocEntry)
      BY <1>1, ListFacts DEF Ordered, Inv
    <3>5. QED
      BY <1>1, <3>1, <3>3, <3>4 DEF Inv
  <2>3. QED
    BY <1>1, <1>3, <2>1, <2>2 DEF ReturnArgument
<1>5. TypeOK'
  <2>1. d' \in 0 .. Len(mem')
    BY <1>2, <1>4
  <2>2. QED
    BY <1>1, <1>2, <1>4, <2>1 DEF Inv, TypeOK
<1>6. (UnreadIntact /\ Control)' /\ ~Running'
  BY <1>1, <1>2 DEF UnreadIntact, Control, Inv, Running
<1>7. ResultRight'
  BY <1>2, <1>4 DEF ResultRight
<1>8. ResultOrdered'
  BY <1>4 DEF ResultOrdered
<1>9. QED
  BY <1>5, <1>6, <1>7, <1>8 DEF Inv

LEMMA EnterLoopInv == Inv /\ EnterLoop => Inv'
<1>1. SUFFICES ASSUME Inv, EnterLoop PROVE Inv'
  OBVIOUS
<1> USE StateFacts
<1>2. /\ fn' = fn /\ List1' = List1 /\ List2' = List2
      /\ null1' = null1 /\ null2' = null2 /\ mem' = mem
      /\ s1' = s1 /\ s2' = s2 /\ d' = d /\ at' = "loop" /\ at = "start"
  BY <1>1 DEF EnterLoop, Goto, arguments
<1>3. s1 = 0 /\ s2 = 0 /\ d = 0
  BY <1>1, <1>2 DEF Inv, Control
<1>4. LoopInvFor(fn, List1, List2, mem, 0, 0, 0)
  BY DEF LoopInvFor, RightFor, Ordered, Below
<1>5. LoopInv'
  BY <1>2, <1>3, <1>4 DEF LoopInv
<1>6. TypeOK'
  BY <1>1, <1>2 DEF Inv, TypeOK
<1>7. UnreadIntact'
  BY <1>1, <1>2 DEF Inv, UnreadIntact
<1>8. (Control /\ ResultRight /\ ResultOrdered)'
  BY <1>1, <1>2 DEF Inv, Control, ResultRight, ResultOrdered
<1>9. QED
  BY <1>5, <1>6, <1>7, <1>8 DEF Inv

LEMMA OutOfMemoryInv == Inv /\ OutOfMemory => Inv'
<1>1. SUFFICES ASSUME Inv, OutOfMemory PROVE Inv'
  OBVIOUS
<1>2. /\ fn' = fn /\ List1' = List1 /\ List2' = List2
      /\ null1' = null1 /\ null2' = null2 /\ mem' = mem
      /\ s1' = s1 /\ s2' = s2 /\ d' = d /\ at' = "no memory" /\ at = "start"
  BY <1>1 DEF OutOfMemory, Goto, arguments
<1>3. TypeOK'
  BY <1>1, <1>2 DEF Inv, TypeOK
<1>4. UnreadIntact'
  BY <1>1, <1>2 DEF Inv, UnreadIntact
<1>5. (Control /\ ResultRight /\ ResultOrdered)' /\ ~Running'
  BY <1>1, <1>2 DEF Inv, Control, ResultRight, ResultOrdered, Running
<1>6. QED
  BY <1>3, <1>4, <1>5 DEF Inv

\* A function other than MergeLists may stop before the end of either list, if
\* what is left of the first has no place in the result.
LEMMA RightEnds ==
  ASSUME NEW f, NEW A, NEW B, NEW w, NEW c, NEW k1 \in Nat, NEW k2 \in Nat,
         Len(A) \in Nat, k1 <= Len(A),
         RightFor(f, A, B, w, c, k1, k2), f # "MergeLists",
         \A n \in k1 + 1 .. Len(A) : ~Selected(f, A, B, n)
  PROVE  RightFor(f, A, B, w, c, Len(A), Len(B))
<1>1. \A m : ~Selected2(f, A, B, m)
  BY DEF Selected2
<1>2. ASSUME NEW r \in 1 .. c
      PROVE  \E n \in 1 .. Len(A) : Selected(f, A, B, n) /\ From1(f, A, B, w[r], n)
  BY <1>1 DEF RightFor
<1>3. ASSUME NEW n \in 1 .. Len(A), Selected(f, A, B, n)
      PROVE  \E r \in 1 .. c : From1(f, A, B, w[r], n)
  <2>1. n \in 1 .. k1
    BY <1>3
  <2>2. QED
    BY <1>3, <2>1 DEF RightFor
<1>4. QED
  BY <1>1, <1>2, <1>3 DEF RightFor

LEMMA LoopEndsInv == Inv /\ LoopEnds => Inv'
<1>1. SUFFICES ASSUME Inv, LoopEnds PROVE Inv'
  OBVIOUS
<1> USE StateFacts
<1>2. /\ fn' = fn /\ List1' = List1 /\ List2' = List2
      /\ null1' = null1 /\ null2' = null2 /\ mem' = mem
      /\ s1' = s1 /\ s2' = s2 /\ d' = d /\ at' = "done" /\ at = "loop"
  BY <1>1 DEF LoopEnds, Goto, arguments
<1>3. TypeOK /\ LoopInvFor(fn, List1, List2, mem, d, s1, s2)
  BY <1>1, <1>2 DEF Inv, Running, LoopInv
<1>4. RightFor(fn, List1, List2, mem, d, Len(List1), Len(List2))
  <2>1. RightFor(fn, List1, List2, mem, d, s1, s2)
    BY <1>3 DEF LoopInvFor
  <2>2. CASE fn = "MergeLists"
    <3>1. ~More1 /\ ~More2
      BY <1>1, <2>2 DEF LoopEnds
    <3>2. s1 = Len(List1) /\ s2 = Len(List2)
      BY <1>3, <3>1 DEF More1, More2
    <3>3. QED
      BY <2>1, <3>2
  <2>3. CASE fn # "MergeLists" /\ ~More1
    <3>1. s1 = Len(List1)
      BY <1>3, <2>3 DEF More1
    <3>2. \A n \in s1 + 1 .. Len(List1) : ~Selected(fn, List1, List2, n)
      BY <1>3, <3>1
    <3>3. QED
      BY <1>3, <2>1, <2>3, <3>2, RightEnds
  <2>4. CASE fn = "IntersectLists" /\ ~More2
    <3>1. s2 = Len(List2)
      BY <1>3, <2>4 DEF More2
    <3>2. Below(List2, Len(List2), List1, s1)
      BY <1>3, <2>4, <3>1 DEF LoopInvFor
    <3>3. ASSUME NEW n \in s1 + 1 .. Len(List1)
          PROVE  ~Selected(fn, List1, List2, n)
      <4>1. \A m \in 1 .. Len(List2) : List2[m].DocNum < List1[n].DocNum
        BY <3>2 DEF Below
      <4>2. n \in 1 .. Len(List1)
        BY <1>3
      <4>3. \A m \in 1 .. Len(List2) : List2[m].DocNum # List1[n].DocNum
        BY <1>3, <4>1, <4>2, ListFacts
      <4>4. DOMAIN List2 = 1 .. Len(List2)
        BY <1>3, ListFacts
      <4>5. QED
        BY <2>4, <4>3, <4>4 DEF Selected, Docs
    <3>4. QED
      BY <1>3, <2>1, <2>4, <3>3, RightEnds
  <2>5. QED
    BY <1>1, <1>3, <2>2, <2>3, <2>4 DEF LoopEnds, TypeOK, InPlace
<1>5. TypeOK'
  BY <1>1, <1>2 DEF Inv, TypeOK
<1>6. (UnreadIntact /\ Control)' /\ ~Running'
  BY <1>1, <1>2 DEF UnreadIntact, Control, Inv, Running
<1>7. ResultRight'
  BY <1>2, <1>4 DEF ResultRight
<1>8. ResultOrdered'
  BY <1>2, <1>3 DEF ResultOrdered, LoopInvFor
<1>9. QED
  BY <1>5, <1>6, <1>7, <1>8 DEF Inv

-----------------------------------------------------------------------------
(***************************************************************************)
(* The turns of the loops.                                                 *)
(***************************************************************************)

\* What is known where a turn starts.
LEMMA LoopFacts ==
  ASSUME Inv, Running
  PROVE  /\ TypeOK /\ at # "done"
         /\ List1 \in Lists /\ List2 \in Lists
         /\ Len(List1) \in Nat /\ Len(List2) \in Nat
         /\ s1 \in Nat /\ s2 \in Nat /\ d \in Nat
         /\ s1 <= Len(List1) /\ s2 <= Len(List2)
         /\ DOMAIN List1 = 1 .. Len(List1) /\ DOMAIN List2 = 1 .. Len(List2)
         /\ LoopInvFor(fn, List1, List2, mem, d, s1, s2)
         /\ More1 => /\ s1 + 1 \in 1 .. Len(List1) /\ Entry1 = List1[s1 + 1]
                     /\ Entry1 \in DocEntry /\ Entry1.DocNum \in Nat
                     /\ \A n \in s1 + 2 .. Len(List1) :
                          Entry1.DocNum < List1[n].DocNum
         /\ More2 => /\ s2 + 1 \in 1 .. Len(List2) /\ Entry2 = List2[s2 + 1]
                     /\ Entry2 \in DocEntry /\ Entry2.DocNum \in Nat
                     /\ \A m \in s2 + 2 .. Len(List2) :
                          Entry2.DocNum < List2[m].DocNum
<1>1. TypeOK /\ at # "done" /\ LoopInvFor(fn, List1, List2, mem, d, s1, s2)
      /\ Unread(fn, List1, mem, s1)
  BY DEF Inv, Running, LoopInv, UnreadIntact
<1>2. /\ List1 \in Lists /\ List2 \in Lists
      /\ Len(List1) \in Nat /\ Len(List2) \in Nat
      /\ s1 \in Nat /\ s2 \in Nat /\ d \in Nat
      /\ s1 <= Len(List1) /\ s2 <= Len(List2)
  BY <1>1, StateFacts
<1>3. DOMAIN List1 = 1 .. Len(List1) /\ DOMAIN List2 = 1 .. Len(List2)
  BY <1>2, ListFacts
<1>4. ASSUME More1
      PROVE  /\ s1 + 1 \in 1 .. Len(List1) /\ Entry1 = List1[s1 + 1]
             /\ Entry1 \in DocEntry /\ Entry1.DocNum \in Nat
             /\ \A n \in s1 + 2 .. Len(List1) : Entry1.DocNum < List1[n].DocNum
  <2>1. s1 + 1 \in 1 .. Len(List1)
    BY <1>2, <1>4 DEF More1
  <2>2. Entry1 = List1[s1 + 1]
    BY <1>1, <1>2, <2>1 DEF Entry1, Unread
  <2>3. /\ List1[s1 + 1] \in DocEntry /\ List1[s1 + 1].DocNum \in Nat
        /\ \A m, n \in 1 .. Len(List1) : m < n => List1[m].DocNum < List1[n].DocNum
    BY <1>2, <2>1, ListFacts
  <2>4. QED
    BY <1>2, <2>1, <2>2, <2>3
<1>5. ASSUME More2
      PROVE  /\ s2 + 1 \in 1 .. Len(List2) /\ Entry2 = List2[s2 + 1]
             /\ Entry2 \in DocEntry /\ Entry2.DocNum \in Nat
             /\ \A m \in s2 + 2 .. Len(List2) : Entry2.DocNum < List2[m].DocNum
  <2>1. s2 + 1 \in 1 .. Len(List2)
    BY <1>2, <1>5 DEF More2
  <2>2. Entry2 = List2[s2 + 1]
    BY DEF Entry2
  <2>3. /\ List2[s2 + 1] \in DocEntry /\ List2[s2 + 1].DocNum \in Nat
        /\ \A m, n \in 1 .. Len(List2) : m < n => List2[m].DocNum < List2[n].DocNum
    BY <1>2, <2>1, ListFacts
  <2>4. QED
    BY <1>2, <2>1, <2>2, <2>3
<1>6. QED
  BY <1>1, <1>2, <1>3, <1>4, <1>5

\* A document that is between two neighbours of a list, the lower of which is
\* below it, is not in the list.
LEMMA NotInList ==
  ASSUME NEW A \in Lists, NEW B \in Lists, NEW k \in Nat, NEW l \in Nat,
         k + 1 \in 1 .. Len(A), l <= Len(B), Below(B, l, A, k),
         l < Len(B) => A[k + 1].DocNum < B[l + 1].DocNum
  PROVE  A[k + 1].DocNum \notin Docs(B)
<1>1. /\ Len(A) \in Nat /\ Len(B) \in Nat /\ DOMAIN B = 1 .. Len(B)
      /\ A[k + 1].DocNum \in Nat /\ \A m \in 1 .. Len(B) : B[m].DocNum \in Nat
      /\ \A m, n \in 1 .. Len(B) : m < n => B[m].DocNum < B[n].DocNum
  BY ListFacts
<1>2. ASSUME NEW m \in 1 .. Len(B)
      PROVE  B[m].DocNum # A[k + 1].DocNum
  <2>1. CASE m \in 1 .. l
    <3>1. B[m].DocNum < A[k + 1].DocNum
      BY <1>1, <2>1 DEF Below
    <3>2. QED
      BY <1>1, <3>1
  <2>2. CASE m = l + 1
    BY <1>1, <2>2
  <2>3. CASE m > l + 1
    <3>1. B[l + 1].DocNum < B[m].DocNum /\ A[k + 1].DocNum < B[l + 1].DocNum
          /\ B[l + 1].DocNum \in Nat
      BY <1>1, <2>3
    <3>2. QED
      BY <1>1, <3>1
  <2>4. QED
    BY <1>1, <2>1, <2>2, <2>3
<1>3. QED
  BY <1>1, <1>2 DEF Docs

\* What is below the next unread entry is below all that are unread.
LEMMA BelowTail ==
  ASSUME NEW A \in Lists, NEW k \in Nat, NEW x \in Nat,
         k < Len(A) => x < A[k + 1].DocNum
  PROVE  \A n \in k + 1 .. Len(A) : x < A[n].DocNum
<1>1. SUFFICES ASSUME NEW n \in k + 1 .. Len(A) PROVE x < A[n].DocNum
  OBVIOUS
<1>2. /\ Len(A) \in Nat
      /\ \A i \in 1 .. Len(A) : A[i].DocNum \in Nat
      /\ \A i, j \in 1 .. Len(A) : i < j => A[i].DocNum < A[j].DocNum
  BY ListFacts
<1>3. /\ k + 1 \in 1 .. Len(A) /\ n \in 1 .. Len(A) /\ k < Len(A)
      /\ n = k + 1 \/ k + 1 < n
  BY <1>2
<1>4. A[k + 1].DocNum \in Nat /\ A[n].DocNum \in Nat /\ x < A[k + 1].DocNum
  BY <1>2, <1>3
<1>5. CASE n = k + 1
  BY <1>4, <1>5
<1>6. CASE k + 1 < n
  <2>1. A[k + 1].DocNum < A[n].DocNum
    BY <1>2, <1>3, <1>6
  <2>2. QED
    BY <1>4, <2>1
<1>7. QED
  BY <1>3, <1>5, <1>6

LEMMA IntersectMatchInv == Inv /\ IntersectMatch => Inv'
<1>1. SUFFICES ASSUME Inv, IntersectMatch PROVE Inv'
  OBVIOUS
<1>2. /\ Running /\ fn = "IntersectLists" /\ fn \in InPlace /\ More1 /\ More2
      /\ at' = "pass2" /\ UNCHANGED arguments /\ s2' = s2
  BY <1>1 DEF IntersectMatch, Running, InPlace, Goto
<1> USE LoopFacts
<1>3. CASE Entry1.DocNum = Entry2.DocNum
  <2>1. Write(Entry1) /\ s1' = s1 + 1
    BY <1>1, <1>3 DEF IntersectMatch
  <2>2. d' = d + 1 /\ mem'[d + 1] = Entry1 /\ \A r \in 1 .. d : mem'[r] = mem[r]
    BY <1>1, <1>2, <2>1, WriteEffects DEF More1
  <2>3. Selected(fn, List1, List2, s1 + 1)
    BY <1>1, <1>2, <1>3 DEF Selected, Docs
  <2>4. From1(fn, List1, List2, Entry1, s1 + 1)
    BY <1>1, <1>2 DEF From1
  <2>5. \A r \in 1 .. d : mem[r].DocNum < Entry1.DocNum
    BY <1>1, <1>2 DEF LoopInvFor, Below
  <2>6. Moves(fn, List1, List2, s1, s2, s1 + 1, s2)
    BY <1>1, <1>2 DEF Moves
  <2>7. Writes(fn, List1, List2, mem, mem', Entry1, d, s1, s2, s1 + 1, s2)
    BY <1>1, <1>2, <2>2, <2>3, <2>4, <2>5 DEF Writes
  <2>8. LoopInvFor(fn, List1, List2, mem', d + 1, s1 + 1, s2)
    BY <1>1, <1>2, <2>6, <2>7, WriteLoop
  <2>9. QED
    BY <1>1, <1>2, <2>1, <2>8, WriteState
<1>4. CASE Entry1.DocNum # Entry2.DocNum
  <2>1. UNCHANGED <<arguments, mem, d>> /\ s1' = s1
    BY <1>1, <1>2, <1>4 DEF IntersectMatch, WriteNothing
  <2>2. QED
    BY <1>1, <1>2, <2>1, ReadState
<1>5. QED
  BY <1>3, <1>4

LEMMA IntersectPass2Inv == Inv /\ IntersectPass2 => Inv'
<1>1. SUFFICES ASSUME Inv, IntersectPass2 PROVE Inv'
  OBVIOUS
<1>2. /\ Running /\ fn = "IntersectLists" /\ UNCHANGED <<arguments, mem, d>>
      /\ at' \in {"pass2", "pass1"} /\ s1' = s1
  BY <1>1 DEF IntersectPass2, Running, Goto, WriteNothing, Inv, Control
<1> USE LoopFacts
<1>3. CASE More1 /\ More2 /\ Entry2.DocNum < Entry1.DocNum
  <2>1. s2' = s2 + 1
    BY <1>1, <1>3 DEF IntersectPass2
  <2>2. \A n \in s1 + 1 .. Len(List1) : List2[s2 + 1].DocNum < List1[n].DocNum
    BY <1>1, <1>2, <1>3, BelowTail
  <2>3. Moves(fn, List1, List2, s1, s2, s1, s2 + 1)
    BY <1>1, <1>2, <2>2 DEF Moves
  <2>4. Skips(fn, List1, List2, s1, s2, s1, s2 + 1)
    BY <1>1, <1>2 DEF Skips, Selected2
  <2>5. LoopInvFor(fn, List1, List2, mem, d, s1, s2 + 1)
    BY <1>1, <1>2, <2>3, <2>4, ReadLoop
  <2>6. QED
    BY <1>1, <1>2, <1>3, <2>1, <2>5, ReadState
<1>4. CASE ~(More1 /\ More2 /\ Entry2.DocNum < Entry1.DocNum)
  <2>1. s2' = s2
    BY <1>1, <1>4 DEF IntersectPass2
  <2>2. QED
    BY <1>1, <1>2, <2>1, ReadState
<1>5. QED
  BY <1>3, <1>4

LEMMA IntersectPass1Inv == Inv /\ IntersectPass1 => Inv'
<1>1. SUFFICES ASSUME Inv, IntersectPass1 PROVE Inv'
  OBVIOUS
<1>2. /\ Running /\ fn = "IntersectLists" /\ UNCHANGED <<arguments, mem, d>>
      /\ at' \in {"loop", "pass1"} /\ s2' = s2
  BY <1>1 DEF IntersectPass1, Running, Goto, WriteNothing, Inv, Control
<1> USE LoopFacts
<1>3. CASE More1 /\ More2 /\ Entry1.DocNum < Entry2.DocNum
  <2>1. s1' = s1 + 1
    BY <1>1, <1>3 DEF IntersectPass1
  <2>2. List1[s1 + 1].DocNum \notin Docs(List2)
    <3>1. Below(List2, s2, List1, s1)
      BY <1>1, <1>2 DEF LoopInvFor
    <3>2. QED
      BY <1>1, <1>2, <1>3, <3>1, NotInList
  <2>3. Moves(fn, List1, List2, s1, s2, s1 + 1, s2)
    BY <1>1, <1>2 DEF Moves
  <2>4. Skips(fn, List1, List2, s1, s2, s1 + 1, s2)
    BY <1>1, <1>2, <2>2 DEF Skips, Selected
  <2>5. LoopInvFor(fn, List1, List2, mem, d, s1 + 1, s2)
    BY <1>1, <1>2, <2>3, <2>4, ReadLoop
  <2>6. QED
    BY <1>1, <1>2, <1>3, <2>1, <2>5, ReadState
<1>4. CASE ~(More1 /\ More2 /\ Entry1.DocNum < Entry2.DocNum)
  <2>1. s1' = s1
    BY <1>1, <1>4 DEF IntersectPass1
  <2>2. QED
    BY <1>1, <1>2, <2>1, ReadState
<1>5. QED
  BY <1>3, <1>4

LEMMA DiffStepInv == Inv /\ DiffStep => Inv'
<1>1. SUFFICES ASSUME Inv, DiffStep PROVE Inv'
  OBVIOUS
<1>2. /\ Running /\ fn = "DiffLists" /\ fn \in InPlace /\ More1
      /\ at' = "loop" /\ UNCHANGED arguments
  BY <1>1 DEF DiffStep, Running, InPlace, Goto
<1> USE LoopFacts
<1>3. CASE /\ ~More2 \/ Entry1.DocNum < Entry2.DocNum
           /\ Write(Entry1) /\ s1' = s1 + 1 /\ s2' = s2
  <2>1. d' = d + 1 /\ mem'[d + 1] = Entry1 /\ \A r \in 1 .. d : mem'[r] = mem[r]
    BY <1>1, <1>2, <1>3, WriteEffects DEF More1
  <2>2. List1[s1 + 1].DocNum \notin Docs(List2)
    <3>1. Below(List2, s2, List1, s1)
      BY <1>1, <1>2 DEF LoopInvFor
    <3>2. s2 < Len(List2) => List1[s1 + 1].DocNum < List2[s2 + 1].DocNum
      BY <1>1, <1>2, <1>3 DEF More2
    <3>3. QED
      BY <1>1, <1>2, <3>1, <3>2, NotInList
  <2>3. Selected(fn, List1, List2, s1 + 1) /\ From1(fn, List1, List2, Entry1, s1 + 1)
    BY <1>1, <1>2, <2>2 DEF Selected, From1
  <2>4. \A r \in 1 .. d : mem[r].DocNum < Entry1.DocNum
    BY <1>1, <1>2 DEF LoopInvFor, Below
  <2>5. \A m \in s2 + 1 .. Len(List2) : List1[s1 + 1].DocNum < List2[m].DocNum
    <3>1. s2 < Len(List2) => List1[s1 + 1].DocNum < List2[s2 + 1].DocNum
      BY <1>1, <1>2, <1>3 DEF More2
    <3>2. List1[s1 + 1].DocNum \in Nat
      BY <1>1, <1>2
    <3>3. QED
      BY <1>1, <1>2, <3>1, <3>2, BelowTail
  <2>6. Moves(fn, List1, List2, s1, s2, s1 + 1, s2)
    BY <1>1, <1>2, <2>5 DEF Moves
  <2>7. Writes(fn, List1, List2, mem, mem', Entry1, d, s1, s2, s1 + 1, s2)
    BY <1>1, <1>2, <2>1, <2>3, <2>4 DEF Writes
  <2>8. LoopInvFor(fn, List1, List2, mem', d + 1, s1 + 1, s2)
    BY <1>1, <1>2, <2>6, <2>7, WriteLoop
  <2>9. QED
    BY <1>1, <1>2, <1>3, <2>8, WriteState
<1>4. CASE /\ More2 /\ Entry1.DocNum = Entry2.DocNum
           /\ s1' = s1 + 1 /\ s2' = s2 + 1 /\ WriteNothing
  <2>1. ~Selected(fn, List1, List2, s1 + 1)
    BY <1>1, <1>2, <1>4 DEF Selected, Docs
  <2>2. Moves(fn, List1, List2, s1, s2, s1 + 1, s2 + 1)
    <3>1. \A n \in s1 + 2 .. Len(List1) : List2[s2 + 1].DocNum < List1[n].DocNum
      BY <1>1, <1>2, <1>4
    <3>2. \A m \in s2 + 2 .. Len(List2) : List1[s1 + 1].DocNum < List2[m].DocNum
      BY <1>1, <1>2, <1>4
    <3>3. QED
      BY <1>1, <1>2, <3>1, <3>2 DEF Moves
  <2>3. Skips(fn, List1, List2, s1, s2, s1 + 1, s2 + 1)
    BY <1>2, <2>1 DEF Skips, Selected2
  <2>4. LoopInvFor(fn, List1, List2, mem, d, s1 + 1, s2 + 1)
    BY <1>1, <1>2, <2>2, <2>3, ReadLoop
  <2>5. QED
    BY <1>1, <1>2, <1>4, <2>4, ReadState DEF WriteNothing
<1>5. CASE /\ More2 /\ Entry1.DocNum > Entry2.DocNum
           /\ s1' = s1 /\ s2' = s2 + 1 /\ WriteNothing
  <2>1. \A n \in s1 + 1 .. Len(List1) : List2[s2 + 1].DocNum < List1[n].DocNum
    BY <1>1, <1>2, <1>5, BelowTail
  <2>2. Moves(fn, List1, List2, s1, s2, s1, s2 + 1)
    BY <1>1, <1>2, <2>1 DEF Moves
  <2>3. Skips(fn, List1, List2, s1, s2, s1, s2 + 1)
    BY <1>1, <1>2 DEF Skips, Selected2
  <2>4. LoopInvFor(fn, List1, List2, mem, d, s1, s2 + 1)
    BY <1>1, <1>2, <2>2, <2>3, ReadLoop
  <2>5. QED
    BY <1>1, <1>2, <1>5, <2>4, ReadState DEF WriteNothing
<1>6. QED
  BY <1>1, <1>3, <1>4, <1>5 DEF DiffStep

\* The entry for a document that both lists have.
LEMMA WeightAdded ==
  ASSUME NEW a \in DocEntry, NEW b \in DocEntry
  PROVE  /\ [a EXCEPT !.Weight = @ + b.Weight] \in DocEntry
         /\ [a EXCEPT !.Weight = @ + b.Weight].DocNum = a.DocNum
<1>1. a.Weight \in Nat /\ b.Weight \in Nat /\ a.Weight + b.Weight \in Nat
  BY DEF DocEntry
<1>2. QED
  BY <1>1 DEF DocEntry

LEMMA MergeStepInv == Inv /\ MergeStep => Inv'
<1>1. SUFFICES ASSUME Inv, MergeStep PROVE Inv'
  OBVIOUS
<1>2. /\ Running /\ fn = "MergeLists" /\ fn \notin InPlace
      /\ at' = "loop" /\ UNCHANGED arguments
  BY <1>1 DEF MergeStep, Running, InPlace, Goto
<1> USE LoopFacts
<1>3. CASE /\ More1 /\ (More2 => Entry1.DocNum < Entry2.DocNum)
           /\ Write(Entry1) /\ s1' = s1 + 1 /\ s2' = s2
  <2>1. d' = d + 1 /\ mem'[d + 1] = Entry1 /\ \A r \in 1 .. d : mem'[r] = mem[r]
    BY <1>1, <1>2, <1>3, WriteEffects
  <2>2. List1[s1 + 1].DocNum \notin Docs(List2)
    <3>1. Below(List2, s2, List1, s1)
      BY <1>1, <1>2 DEF LoopInvFor
    <3>2. s2 < Len(List2) => List1[s1 + 1].DocNum < List2[s2 + 1].DocNum
      BY <1>1, <1>2, <1>3 DEF More2
    <3>3. QED
      BY <1>1, <1>2, <1>3, <3>1, <3>2, NotInList
  <2>3. Selected(fn, List1, List2, s1 + 1) /\ From1(fn, List1, List2, Entry1, s1 + 1)
    BY <1>1, <1>2, <1>3, <2>2 DEF Selected, From1
  <2>4. \A r \in 1 .. d : mem[r].DocNum < Entry1.DocNum
    BY <1>1, <1>2, <1>3 DEF LoopInvFor, Below
  <2>5. \A m \in s2 + 1 .. Len(List2) : Entry1.DocNum < List2[m].DocNum
    <3>1. s2 < Len(List2) => Entry1.DocNum < List2[s2 + 1].DocNum
      BY <1>1, <1>2, <1>3 DEF More2
    <3>2. QED
      BY <1>1, <1>2, <1>3, <3>1, BelowTail
  <2>6. Moves(fn, List1, List2, s1, s2, s1 + 1, s2)
    BY <1>1, <1>2, <1>3, <2>5 DEF Moves
  <2>7. Writes(fn, List1, List2, mem, mem', Entry1, d, s1, s2, s1 + 1, s2)
    BY <1>1, <1>2, <1>3, <2>1, <2>3, <2>4, <2>5 DEF Writes
  <2>8. LoopInvFor(fn, List1, List2, mem', d + 1, s1 + 1, s2)
    BY <1>1, <1>2, <2>6, <2>7, WriteLoop
  <2>9. QED
    BY <1>1, <1>2, <1>3, <2>8, WriteState
<1>4. CASE /\ More2 /\ (More1 => Entry2.DocNum < Entry1.DocNum)
           /\ Write(Entry2) /\ s2' = s2 + 1 /\ s1' = s1
  <2>1. d' = d + 1 /\ mem'[d + 1] = Entry2 /\ \A r \in 1 .. d : mem'[r] = mem[r]
    BY <1>1, <1>2, <1>4, WriteEffects
  <2>2. List2[s2 + 1].DocNum \notin Docs(List1)
    <3>1. Below(List1, s1, List2, s2)
      BY <1>1, <1>2 DEF LoopInvFor
    <3>2. s1 < Len(List1) => List2[s2 + 1].DocNum < List1[s1 + 1].DocNum
      BY <1>1, <1>2, <1>4 DEF More1
    <3>3. QED
      BY <1>1, <1>2, <1>4, <3>1, <3>2, NotInList
  <2>3. Selected2(fn, List1, List2, s2 + 1) /\ Entry2 = List2[s2 + 1]
    BY <1>1, <1>2, <1>4, <2>2 DEF Selected2
  <2>4. \A r \in 1 .. d : mem[r].DocNum < Entry2.DocNum
    BY <1>1, <1>2, <1>4 DEF LoopInvFor, Below
  <2>5. \A n \in s1 + 1 .. Len(List1) : Entry2.DocNum < List1[n].DocNum
    <3>1. s1 < Len(List1) => Entry2.DocNum < List1[s1 + 1].DocNum
      BY <1>1, <1>2, <1>4 DEF More1
    <3>2. QED
      BY <1>1, <1>2, <1>4, <3>1, BelowTail
  <2>6. Moves(fn, List1, List2, s1, s2, s1, s2 + 1)
    BY <1>1, <1>2, <1>4, <2>5 DEF Moves
  <2>7. Writes(fn, List1, List2, mem, mem', Entry2, d, s1, s2, s1, s2 + 1)
    BY <1>1, <1>2, <1>4, <2>1, <2>3, <2>4, <2>5 DEF Writes
  <2>8. LoopInvFor(fn, List1, List2, mem', d + 1, s1, s2 + 1)
    BY <1>1, <1>2, <2>6, <2>7, WriteLoop
  <2>9. QED
    BY <1>1, <1>2, <1>4, <2>8, WriteState
<1>5. ASSUME NEW x, x = [Entry1 EXCEPT !.Weight = @ + Entry2.Weight],
             More1, More2, Entry1.DocNum = Entry2.DocNum,
             Write(x), s1' = s1 + 1, s2' = s2 + 1
      PROVE  Inv'
  <2>1. x \in DocEntry /\ x.DocNum = Entry1.DocNum
    <3>1. Entry1 \in DocEntry /\ Entry2 \in DocEntry
      BY <1>1, <1>2, <1>5
    <3>2. QED
      BY ONLY <1>5, <3>1, WeightAdded
  <2>2. d' = d + 1 /\ mem'[d + 1] = x /\ \A r \in 1 .. d : mem'[r] = mem[r]
    BY <1>1, <1>2, <1>5, <2>1, WriteEffects
  <2>3. Selected(fn, List1, List2, s1 + 1)
    BY <1>2 DEF Selected
  <2>4. From1(fn, List1, List2, x, s1 + 1)
    BY <1>1, <1>2, <1>5 DEF From1
  <2>5. ~Selected2(fn, List1, List2, s2 + 1)
    BY <1>1, <1>2, <1>5 DEF Selected2, Docs
  <2>6. \A r \in 1 .. d : mem[r].DocNum < x.DocNum
    BY <1>1, <1>2, <1>5, <2>1 DEF LoopInvFor, Below
  <2>7. \A n \in s1 + 2 .. Len(List1) : x.DocNum < List1[n].DocNum
    BY <1>1, <1>2, <1>5, <2>1
  <2>8. \A m \in s2 + 2 .. Len(List2) : x.DocNum < List2[m].DocNum
    BY <1>1, <1>2, <1>5, <2>1
  <2>9. Moves(fn, List1, List2, s1, s2, s1 + 1, s2 + 1)
    <3>1. List1[s1 + 1].DocNum = x.DocNum /\ List2[s2 + 1].DocNum = x.DocNum
      BY <1>1, <1>2, <1>5, <2>1
    <3>2. QED
      BY <1>1, <1>2, <2>7, <2>8, <3>1 DEF Moves
  <2>10. Writes(fn, List1, List2, mem, mem', x, d, s1, s2, s1 + 1, s2 + 1)
    BY <1>1, <1>2, <2>2, <2>3, <2>4, <2>5, <2>6, <2>7, <2>8 DEF Writes
  <2>11. LoopInvFor(fn, List1, List2, mem', d + 1, s1 + 1, s2 + 1)
    BY <1>1, <1>2, <2>9, <2>10, WriteLoop
  <2>12. QED
    BY <1>1, <1>2, <1>5, <2>1, <2>11, WriteState
<1>6. QED
  BY <1>1, <1>3, <1>4, <1>5 DEF MergeStep

LEMMA ReduceStepInv == Inv /\ ReduceStep => Inv'
<1>1. SUFFICES ASSUME Inv, ReduceStep PROVE Inv'
  OBVIOUS
<1>2. /\ Running /\ fn = "ReduceList" /\ fn \in InPlace /\ More1
      /\ at' = "loop" /\ UNCHANGED arguments /\ s1' = s1 + 1 /\ s2' = s2
  BY <1>1 DEF ReduceStep, Running, InPlace, Goto
<1> USE LoopFacts
<1>3. Moves(fn, List1, List2, s1, s2, s1 + 1, s2)
  BY <1>1, <1>2 DEF Moves
<1>4. ASSUME NEW x, x = [Entry1 EXCEPT !.or_included = FALSE],
             Entry1.or_included, Write(x)
      PROVE  Inv'
  <2>1. x \in DocEntry /\ x.DocNum = Entry1.DocNum
    BY <1>1, <1>2, <1>4 DEF DocEntry
  <2>2. d' = d + 1 /\ mem'[d + 1] = x /\ \A r \in 1 .. d : mem'[r] = mem[r]
    BY <1>1, <1>2, <1>4, <2>1, WriteEffects DEF More1
  <2>3. Selected(fn, List1, List2, s1 + 1) /\ From1(fn, List1, List2, x, s1 + 1)
    BY <1>1, <1>2, <1>4 DEF Selected, From1
  <2>4. \A r \in 1 .. d : mem[r].DocNum < x.DocNum
    BY <1>1, <1>2, <2>1 DEF LoopInvFor, Below
  <2>5. \A n \in s1 + 2 .. Len(List1) : x.DocNum < List1[n].DocNum
    BY <1>1, <1>2, <2>1
  <2>6. Writes(fn, List1, List2, mem, mem', x, d, s1, s2, s1 + 1, s2)
    BY <1>1, <1>2, <2>2, <2>3, <2>4, <2>5 DEF Writes
  <2>7. LoopInvFor(fn, List1, List2, mem', d + 1, s1 + 1, s2)
    BY <1>1, <1>2, <1>3, <2>6, WriteLoop
  <2>8. QED
    BY <1>1, <1>2, <1>4, <2>1, <2>7, WriteState
<1>5. CASE ~Entry1.or_included
  <2>1. UNCHANGED <<arguments, mem, d>>
    BY <1>1, <1>2, <1>5 DEF ReduceStep, WriteNothing
  <2>2. Skips(fn, List1, List2, s1, s2, s1 + 1, s2)
    BY <1>1, <1>2, <1>5 DEF Skips, Selected
  <2>3. LoopInvFor(fn, List1, List2, mem, d, s1 + 1, s2)
    BY <1>1, <1>2, <1>3, <2>2, ReadLoop
  <2>4. QED
    BY <1>1, <1>2, <2>1, <2>3, ReadState
<1>6. QED
  BY <1>1, <1>4, <1>5 DEF ReduceStep

-----------------------------------------------------------------------------
(***************************************************************************)
(* The theorems.                                                           *)
(***************************************************************************)

LEMMA NextInv == Inv /\ [Next]_vars => Inv'
<1>1. ASSUME Inv, UNCHANGED vars PROVE Inv'
  <2>1. /\ fn' = fn /\ List1' = List1 /\ List2' = List2
        /\ null1' = null1 /\ null2' = null2 /\ mem' = mem
        /\ s1' = s1 /\ s2' = s2 /\ d' = d /\ at' = at
    BY <1>1 DEF vars
  <2>2. TypeOK'
    BY <1>1, <2>1 DEF Inv, TypeOK
  <2>3. (UnreadIntact /\ Control)'
    BY <1>1, <2>1 DEF Inv, UnreadIntact, Control
  <2>4. (Running => LoopInv)'
    BY <1>1, <2>1 DEF Inv, Running, LoopInv
  <2>5. (ResultRight /\ ResultOrdered)'
    BY <1>1, <2>1 DEF Inv, ResultRight, ResultOrdered
  <2>6. QED
    BY <2>2, <2>3, <2>4, <2>5 DEF Inv
<1>2. QED
  BY <1>1, ReturnEmptyInv, ReturnArgumentInv, EnterLoopInv, OutOfMemoryInv,
     LoopEndsInv, IntersectMatchInv, IntersectPass2Inv, IntersectPass1Inv,
     DiffStepInv, MergeStepInv, ReduceStepInv DEF Next

\* The inductive invariant holds in every state of every call.
THEOREM InvHolds == Spec => []Inv
<1>1. Init => Inv
  BY InitInv
<1>2. Inv /\ [Next]_vars => Inv'
  BY NextInv
<1>3. QED
  BY <1>1, <1>2, PTL DEF Spec

\* The cursors of every call stay inside the arrays: an in-place operation
\* never writes past what it has read, and MergeLists never past the sum of
\* the lengths it allocated (lists.c:85, lists.c:123, lists.c:162).
THEOREM TypeCorrect == Spec => []TypeOK
<1>1. Inv => TypeOK
  BY DEF Inv
<1>2. QED
  BY <1>1, InvHolds, PTL

\* Writing the result over List1 never destroys an entry that is still to be
\* read, in any of the in-place operations.
THEOREM NothingUnreadIsOverwritten == Spec => []UnreadIntact
<1>1. Inv => UnreadIntact
  BY DEF Inv
<1>2. QED
  BY <1>1, InvHolds, PTL

\* For ordered lists of any length, what a call returns is the intersection,
\* difference, union or selection of its arguments.
THEOREM ReturnsTheSet == Spec => []ResultRight
<1>1. Inv => ResultRight
  BY DEF Inv
<1>2. QED
  BY <1>1, InvHolds, PTL

\* It is ordered, so that it can be an argument of the next call.
THEOREM ReturnsOrdered == Spec => []ResultOrdered
<1>1. Inv => ResultOrdered
  BY DEF Inv
<1>2. QED
  BY <1>1, InvHolds, PTL

-----------------------------------------------------------------------------
(***************************************************************************)
(* For any settings, answers and numbers of commands, environments and     *)
(* streams: every stream is closed as it was opened, once, when it is left *)
(* (StreamsClosed), the parameters keep their constraints and legal        *)
(* values (ParametersHold), and the documents of an answer are in memory   *)
(* when they are shown and not afterwards (BuffersHold).                   *)
(***************************************************************************)

-----------------------------------------------------------------------------
\* Streams.  Input and output are two halves of the same kind: a stream f, a
\* pipe if p, in place of the standard one.

Stream == [kind : {"std", "file", "pipe"}, closed : Seq({"pclose", "fclose"})]

HalfRight(op, f, p, std) ==
  /\ f \in {0} \cup DOMAIN op
  /\ p \in BOOLEAN
  /\ p <=> f # 0 /\ op[f].kind = "pipe"
  /\ f \in {stdin, stdout} => f = std

BothRight(op, f, p, std, f2, p2, std2) ==
  /\ op \in Seq(Stream) /\ Len(op) >= 2
  /\ HalfRight(op, f, p, std)
  /\ HalfRight(op, f2, p2, std2)
  /\ f = f2 => f = 0
  /\ \A s \in DOMAIN op :
       /\ op[s].kind = "std" <=> s \in {stdin, stdout}
       /\ op[s].closed = IF s \in {stdin, stdout, f, f2} THEN <<>>
                         ELSE IF op[s].kind = "pipe" THEN <<"pclose">> ELSE <<"fclose">>

StreamsRight == BothRight(opened, InFile, InPipe, stdin, OutFile, OutPipe, stdout)

\* main and EndOfInput rely on where the session stands.
StreamInv ==
  /\ StreamsRight
  /\ phase = "mgrc" => InFile = 0 /\ OutFile = 0
  /\ phase = "line" => InFile # 0 /\ OutFile # 0
  /\ phase = "show" => InFile # 0 /\ OutFile # 0

LEMMA OneMore ==
  ASSUME NEW x \in {"pclose", "fclose"}
  PROVE  Append(<<>>, x) = <<x>> /\ <<x>> \in Seq({"pclose", "fclose"})
OBVIOUS

\* Leaving a stream for the standard one closes it as it was opened.
LEMMA ClosingRight ==
  ASSUME NEW f, NEW p, NEW std \in {stdin, stdout}, NEW f2, NEW p2,
         NEW std2 \in {stdin, stdout}, std # std2, f # 0,
         BothRight(opened, f, p, std, f2, p2, std2)
  PROVE  BothRight(Closing(f, p, std), std, FALSE, std, f2, p2, std2)
<1> DEFINE done == Closing(f, p, std)
           how == IF p THEN "pclose" ELSE "fclose"
<1>1. /\ opened \in Seq(Stream) /\ Len(opened) \in Nat /\ Len(opened) >= 2
      /\ DOMAIN opened = 1 .. Len(opened)
      /\ f \in 1 .. Len(opened) /\ opened[f] \in Stream
  BY DEF BothRight, HalfRight
<1>2. CASE f = std
  <2>1. ~p
    BY <1>1, <1>2 DEF BothRight, HalfRight, stdin, stdout
  <2>2. done = opened
    BY <1>2, <2>1 DEF Closing
  <2>3. QED
    BY <1>2, <2>1, <2>2 DEF BothRight, HalfRight
<1>3. CASE f # std
  <2>1. f \notin {stdin, stdout} /\ f # f2
    BY <1>1, <1>3 DEF BothRight, HalfRight
  <2>2. opened[f].closed = <<>> /\ Append(opened[f].closed, how) = <<how>>
    BY <1>1, <2>1, OneMore DEF BothRight
  <2>3. done = [opened EXCEPT ![f] = [opened[f] EXCEPT !.closed = <<how>>]]
    BY <1>3, <2>2 DEF Closing
  <2>4. [opened[f] EXCEPT !.closed = <<how>>] \in Stream
    BY <1>1, OneMore DEF Stream
  <2>5. /\ done \in Seq(Stream) /\ Len(done) = Len(opened) /\ DOMAIN done = DOMAIN opened
        /\ \A s \in DOMAIN opened : s # f => done[s] = opened[s]
        /\ done[f] = [opened[f] EXCEPT !.closed = <<how>>]
    BY <1>1, <2>3, <2>4
  <2>8. done[f].kind = opened[f].kind /\ done[f].closed = <<how>>
    BY <1>1, <2>5 DEF Stream
  <2>9. \A s \in DOMAIN done : done[s].kind = opened[s].kind
    BY <2>5, <2>8
  <2>6. p <=> opened[f].kind = "pipe"
    BY DEF BothRight, HalfRight
  <2>10. HalfRight(done, std, FALSE, std)
    BY <1>1, <2>5, <2>9 DEF BothRight, HalfRight, stdin, stdout
  <2>11. HalfRight(done, f2, p2, std2)
    BY <1>1, <2>1, <2>5 DEF BothRight, HalfRight
  <2>12. std = f2 => std = 0
    BY DEF BothRight, HalfRight, stdin, stdout
  <2>13. ASSUME NEW s \in DOMAIN done
         PROVE  /\ done[s].kind = "std" <=> s \in {stdin, stdout}
                /\ done[s].closed = IF s \in {stdin, stdout, std, f2} THEN <<>>
                                    ELSE IF done[s].kind = "pipe" THEN <<"pclose">> ELSE <<"fclose">>
    <3>1. CASE s = f
      BY <2>1, <2>5, <2>6, <2>8, <2>9, <3>1 DEF BothRight
    <3>2. CASE s # f
      BY <2>5, <2>9, <3>2 DEF BothRight
    <3>3. QED
      BY <3>1, <3>2
  <2>14. QED
    BY <1>1, <2>5, <2>10, <2>11, <2>12, <2>13 DEF BothRight
<1>4. QED
  BY <1>2, <1>3

LEMMA OpeningRight ==
  ASSUME NEW op, NEW std \in {stdin, stdout}, NEW f2, NEW p2,
         NEW std2 \in {stdin, stdout}, std # std2,
         BothRight(op, std, FALSE, std, f2, p2, std2),
         NEW kind \in {"file", "pipe"}
  PROVE  BothRight(Append(op, [kind |-> kind, closed |-> <<>>]), Len(op) + 1, kind = "pipe",
                   std, f2, p2, std2)
<1> DEFINE s0 == [kind |-> kind, closed |-> <<>>]
           more == Append(op, s0)
<1>1. /\ op \in Seq(Stream) /\ Len(op) \in Nat /\ Len(op) >= 2 /\ DOMAIN op = 1 .. Len(op)
  BY DEF BothRight
<1>2. s0 \in Stream
  BY DEF Stream
<1>3. /\ more \in Seq(Stream) /\ Len(more) = Len(op) + 1 /\ DOMAIN more = 1 .. Len(op) + 1
      /\ more[Len(op) + 1] = s0 /\ \A s \in DOMAIN op : more[s] = op[s]
  BY <1>1, <1>2
<1>4. std2 \in DOMAIN op /\ f2 \in {0} \cup DOMAIN op
  BY <1>1 DEF BothRight, HalfRight, stdin, stdout
<1>5. HalfRight(more, Len(op) + 1, kind = "pipe", std)
  BY <1>1, <1>3 DEF HalfRight, stdin, stdout
<1>6. HalfRight(more, f2, p2, std2)
  BY <1>1, <1>3, <1>4 DEF BothRight, HalfRight
<1>7. QED
  BY <1>1, <1>3, <1>4, <1>5, <1>6 DEF BothRight, stdin, stdout

\* What .input and .output make of a stream f.
Redirected(f, p, std, op, f1, p1) ==
  \/ op = Closing(f, p, std) /\ f1 = std /\ p1 = FALSE
  \/ \E kind \in {"file", "pipe"} :
       /\ op = Append(Closing(f, p, std), [kind |-> kind, closed |-> <<>>])
       /\ f1 = Len(op) /\ p1 = (kind = "pipe")

\* Either half, redirected.
LEMMA RedirectRight ==
  ASSUME NEW f, NEW p, NEW std \in {stdin, stdout}, NEW f2, NEW p2,
         NEW std2 \in {stdin, stdout}, std # std2,
         BothRight(opened, f, p, std, f2, p2, std2), f # 0,
         NEW op, NEW f1, NEW p1, Redirected(f, p, std, op, f1, p1)
  PROVE  BothRight(op, f1, p1, std, f2, p2, std2)
<1>1. BothRight(Closing(f, p, std), std, FALSE, std, f2, p2, std2)
  BY ClosingRight
<1>2. CASE op = Closing(f, p, std) /\ f1 = std /\ p1 = FALSE
  BY <1>1, <1>2
<1>3. ASSUME NEW kind \in {"file", "pipe"},
             op = Append(Closing(f, p, std), [kind |-> kind, closed |-> <<>>]),
             f1 = Len(op), p1 = (kind = "pipe")
      PROVE  BothRight(op, f1, p1, std, f2, p2, std2)
  <2>1. Closing(f, p, std) \in Seq(Stream)
    BY <1>1 DEF BothRight
  <2>2. [kind |-> kind, closed |-> <<>>] \in Stream
    BY DEF Stream
  <2>3. f1 = Len(Closing(f, p, std)) + 1
    BY <1>3, <2>1, <2>2
  <2>4. BothRight(Append(Closing(f, p, std), [kind |-> kind, closed |-> <<>>]),
                  Len(Closing(f, p, std)) + 1, kind = "pipe", std, f2, p2, std2)
    BY <1>1, OpeningRight
  <2>5. QED
    BY <1>3, <2>3, <2>4, Zenon
<1>4. QED
  BY <1>2, <1>3 DEF Redirected

LEMMA Swap ==
  ASSUME NEW op, NEW f, NEW p, NEW std, NEW f2, NEW p2, NEW std2,
         BothRight(op, f, p, std, f2, p2, std2)
  PROVE  BothRight(op, f2, p2, std2, f, p, std)
<1>1. {stdin, stdout, f, f2} = {stdin, stdout, f2, f}
  OBVIOUS
<1>2. QED
  BY <1>1 DEF BothRight

LEMMA StreamTypes ==
  ASSUME StreamInv
  PROVE  /\ opened \in Seq(Stream) /\ Len(opened) \in Nat /\ Len(opened) >= 2
         /\ DOMAIN opened = 1 .. Len(opened)
         /\ InPipe \in BOOLEAN /\ OutPipe \in BOOLEAN
BY DEF StreamInv, StreamsRight, BothRight, HalfRight

\* What leaves the streams alone.
LEMMA StreamsStay ==
  ASSUME StreamInv, UNCHANGED <<opened, InFile, InPipe, OutFile, OutPipe>>,
         \/ phase' \in {phase, "ended", "crashed"}
         \/ phase \in {"line", "show"} /\ phase' \in {"line", "show"}
  PROVE  StreamInv'
<1>1. StreamsRight'
  BY DEF StreamInv, StreamsRight
<1>2. QED
  BY <1>1 DEF StreamInv

LEMMA StreamStep ==
  ASSUME StreamInv, [SessionNext]_sessionVars
  PROVE  StreamInv'
<1> USE DEF Command
<1>1. CASE CmdSet
  BY <1>1, StreamsStay DEF CmdSet
<1>2. CASE CmdUnset \/ CmdPush \/ CmdPop \/ CmdReset \/ CmdQuit
  BY <1>2, StreamsStay DEF CmdUnset, CmdPush, CmdPop, CmdReset, CmdQuit
<1>3. CASE CmdInput
  <2>1. CASE InFile = 0
    BY <1>3, <2>1, StreamsStay DEF CmdInput, Redirect
  <2>2. CASE InFile # 0
    <3>1. BothRight(opened', InFile', InPipe', stdin, OutFile, OutPipe, stdout)
      <4>1. Redirected(InFile, InPipe, stdin, opened', InFile', InPipe')
        BY <1>3, <2>2 DEF CmdInput, Redirect, Redirected
      <4>2. BothRight(opened, InFile, InPipe, stdin, OutFile, OutPipe, stdout)
        BY DEF StreamInv, StreamsRight
      <4>3. stdin \in {stdin, stdout} /\ stdout \in {stdin, stdout} /\ stdin # stdout
        BY DEF stdin, stdout
      <4>4. \A op, f1, p1 :
              Redirected(InFile, InPipe, stdin, op, f1, p1) => BothRight(op, f1, p1, stdin, OutFile, OutPipe, stdout)
        BY <2>2, <4>2, <4>3, RedirectRight
      <4>5. QED
        BY <4>1, <4>4
    <3>2. phase' = phase /\ OutFile' = OutFile /\ OutPipe' = OutPipe
      BY <1>3, <2>2 DEF CmdInput, Redirect
    <3>3. InFile' # 0
      <4>1. Len(opened') \in Nat /\ Len(opened') >= 2
        BY <3>1 DEF BothRight
      <4>2. InFile' = stdin \/ InFile' = Len(opened')
        BY <1>3, <2>2 DEF CmdInput, Redirect
      <4>3. QED
        BY <4>1, <4>2 DEF stdin
    <3>4. phase # "mgrc"
      BY <2>2 DEF StreamInv
    <3>5. StreamsRight'
      BY <3>1, <3>2 DEF StreamsRight
    <3>6. QED
      BY <3>2, <3>3, <3>4, <3>5 DEF StreamInv
  <2>3. QED
    BY <2>1, <2>2
<1>4. CASE CmdOutput
  <2>1. CASE OutFile = 0
    BY <1>4, <2>1, StreamsStay DEF CmdOutput, Redirect
  <2>2. CASE OutFile # 0
    <3>1. BothRight(opened', OutFile', OutPipe', stdout, InFile, InPipe, stdin)
      <4>1. Redirected(OutFile, OutPipe, stdout, opened', OutFile', OutPipe')
        BY <1>4, <2>2 DEF CmdOutput, Redirect, Redirected
      <4>2. BothRight(opened, OutFile, OutPipe, stdout, InFile, InPipe, stdin)
        BY Swap DEF StreamInv, StreamsRight
      <4>3. stdin \in {stdin, stdout} /\ stdout \in {stdin, stdout} /\ stdout # stdin
        BY DEF stdin, stdout
      <4>4. \A op, f1, p1 :
              Redirected(OutFile, OutPipe, stdout, op, f1, p1) => BothRight(op, f1, p1, stdout, InFile, InPipe, stdin)
        BY <2>2, <4>2, <4>3, RedirectRight
      <4>5. QED
        BY <4>1, <4>4
    <3>2. phase' = phase /\ InFile' = InFile /\ InPipe' = InPipe
      BY <1>4, <2>2 DEF CmdOutput, Redirect
    <3>3. OutFile' # 0
      <4>1. Len(opened') \in Nat /\ Len(opened') >= 2
        BY <3>1 DEF BothRight
      <4>2. OutFile' = stdout \/ OutFile' = Len(opened')
        BY <1>4, <2>2 DEF CmdOutput, Redirect
      <4>3. QED
        BY <4>1, <4>2 DEF stdout
    <3>4. phase # "mgrc"
      BY <2>2 DEF StreamInv
    <3>5. StreamsRight'
      BY <3>1, <3>2, Swap DEF StreamsRight
    <3>6. QED
      BY <3>2, <3>3, <3>4, <3>5 DEF StreamInv
  <2>3. QED
    BY <2>1, <2>2
<1>5. CASE main
  <2>1. /\ InFile = 0 /\ OutFile = 0 /\ InFile' = stdin /\ OutFile' = stdout
        /\ opened' = opened /\ InPipe' = InPipe /\ OutPipe' = OutPipe /\ phase' = "line"
    BY <1>5 DEF main, StreamInv
  <2>2. BothRight(opened, stdin, InPipe, stdin, stdout, OutPipe, stdout)
    BY <2>1, StreamTypes DEF StreamInv, StreamsRight, BothRight, HalfRight, stdin, stdout
  <2>3. QED
    BY <2>1, <2>2 DEF StreamInv, StreamsRight, stdin, stdout
<1>6. CASE EndOfInput
  <2>1. CASE InFile = stdin
    BY <1>6, <2>1, StreamsStay DEF EndOfInput
  <2>2. CASE InFile # stdin
    <3>1. BothRight(opened, InFile, InPipe, stdin, OutFile, OutPipe, stdout) /\ InFile # 0
      BY <1>6 DEF EndOfInput, StreamInv, StreamsRight
    <3>2. BothRight(Closing(InFile, InPipe, stdin), stdin, FALSE, stdin, OutFile, OutPipe, stdout)
      <4>1. stdin \in {stdin, stdout} /\ stdout \in {stdin, stdout} /\ stdin # stdout
        BY DEF stdin, stdout
      <4>2. QED
        BY <3>1, <4>1, ClosingRight
    <3>3. /\ opened' = Closing(InFile, InPipe, stdin) /\ InFile' = stdin /\ InPipe' = FALSE
          /\ OutFile' = OutFile /\ OutPipe' = OutPipe /\ phase' = phase /\ phase = "line"
      BY <1>6, <2>2 DEF EndOfInput
    <3>4. StreamsRight'
      BY <3>2, <3>3, Zenon DEF StreamsRight
    <3>5. OutFile # 0
      BY <3>3 DEF StreamInv
    <3>6. QED
      BY <3>3, <3>4, <3>5 DEF StreamInv, stdin
  <2>3. QED
    BY <2>1, <2>2
<1>7. CASE Quit \/ query
  BY <1>7, StreamsStay DEF Quit, query, streamVars
<1>8. CASE ProcessDoc \/ SIGPIPE_handler \/ SIGINT_handler
  BY <1>8, StreamsStay DEF ProcessDoc, SIGPIPE_handler, SIGINT_handler, streamVars
<1>9. CASE EndDocs \/ PagerFails
  BY <1>9, StreamsStay DEF EndDocs, PagerFails, streamVars
<1>10. CASE UNCHANGED sessionVars
  BY <1>10, StreamsStay DEF sessionVars, streamVars
<1>11. QED
  BY <1>1, <1>2, <1>3, <1>4, <1>5, <1>6, <1>7, <1>8, <1>9, <1>10 DEF SessionNext

LEMMA StreamStart == SessionInit => StreamInv
<1> SUFFICES ASSUME SessionInit PROVE StreamInv
  OBVIOUS
<1>1. opened \in Seq(Stream) /\ Len(opened) = 2 /\ DOMAIN opened = {1, 2}
  BY DEF SessionInit, Stream
<1>2. \A s \in {1, 2} : opened[s] = [kind |-> "std", closed |-> <<>>]
  BY DEF SessionInit
<1>3. HalfRight(opened, InFile, InPipe, stdin) /\ HalfRight(opened, OutFile, OutPipe, stdout)
  <2>1. InFile = 0 /\ OutFile = 0 /\ ~InPipe /\ ~OutPipe /\ InPipe \in BOOLEAN /\ OutPipe \in BOOLEAN
    BY Zenon DEF SessionInit
  <2>2. QED
    BY <2>1 DEF HalfRight, stdin, stdout
<1>4. QED
  BY <1>1, <1>2, <1>3 DEF SessionInit, StreamInv, StreamsRight, BothRight, stdin, stdout

(***************************************************************************)
(* Whatever commands are given, from .mgrc, files, pipes and the terminal, *)
(* a stream in use is open and one that was left was closed once, by the   *)
(* call for its kind: get_query and the commands .input and .output agree  *)
(* on InFile, InPipe, OutFile and OutPipe.                                 *)
(***************************************************************************)
THEOREM StreamsClosedOnce == SessionSpec => []StreamsClosed
<1>1. StreamInv => StreamsClosed
  BY DEF StreamInv, StreamsRight, BothRight, StreamsClosed
<1>2. QED
  BY <1>1, StreamStart, StreamStep, PTL DEF SessionSpec

-----------------------------------------------------------------------------
\* Parameters.

Kept == {m \in DOMAIN InitEnv : InitEnv[m].cons # "none"}

EnvRight(env) ==
  /\ \A n \in Kept :
       /\ n \in DOMAIN env
       /\ env[n].cons = InitEnv[n].cons
       /\ env[n].data \in Legal(InitEnv[n].cons)
  /\ \A n \in DOMAIN env \ Kept : env[n].cons = "none"

StackRight(envs) ==
  /\ \E S : envs \in Seq(S)
  /\ Len(envs) >= 1
  /\ \A e \in 1 .. Len(envs) : EnvRight(envs[e])

ParamInv ==
  /\ StackRight(stack)
  /\ phase \in {"line", "show", "ended"} => Len(stack) > 1 /\ Head(stack) = base

Constraints == {"boolean", "maxdocs", "buffer", "mode"}

LEMMA NothingIsNoWord ==
  NoValue \notin {"false", "true", "no", "yes", "off", "on", "all", "0", "1", "9", "text",
                  "docnums", "count"}
BY Zenon DEF NoValue

LEMMA Strings ==
  /\ DOMAIN BooleanStrs = {1, 2, 3, 4, 5, 6}
  /\ BooleanStrs[1] = "false"
  /\ \A i \in {1, 2, 3, 4, 5, 6} : BooleanStrs[i] # NoValue
<1>1. /\ DOMAIN BooleanStrs = {1, 2, 3, 4, 5, 6}
      /\ BooleanStrs[1] = "false" /\ BooleanStrs[2] = "true" /\ BooleanStrs[3] = "no"
      /\ BooleanStrs[4] = "yes" /\ BooleanStrs[5] = "off" /\ BooleanStrs[6] = "on"
  BY DEF BooleanStrs
<1>2. QED
  BY <1>1, NothingIsNoWord


LEMMA LegalValues ==
  /\ Legal("boolean") = {BooleanStrs[i] : i \in {1, 2, 3, 4, 5, 6}}
  /\ Legal("maxdocs") = {"all", "1", "9"}
  /\ Legal("buffer") = {"0", "1", "9"}
  /\ Legal("mode") = {"text", "docnums", "count"}
<1>1. Legal("boolean") = {BooleanStrs[i] : i \in DOMAIN BooleanStrs}
  BY DEF Legal
<1>2. Legal("boolean") = {BooleanStrs[i] : i \in {1, 2, 3, 4, 5, 6}}
  BY <1>1, Strings
<1>3. Legal("maxdocs") = {"all", "1", "9"}
  BY DEF Legal
<1>4. Legal("buffer") = {"0", "1", "9"}
  BY DEF Legal
<1>5. Legal("mode") = {"text", "docnums", "count"}
  BY DEF Legal
<1>6. QED
  BY <1>2, <1>3, <1>4, <1>5

LEMMA LegalFacts == \A c \in Constraints : NoValue \notin Legal(c)
BY LegalValues, Strings, NothingIsNoWord DEF Constraints

LEMMA InvertedLegal ==
  ASSUME NEW old \in Legal("boolean") \cup {NoValue}
  PROVE  Inverted(old) \in Legal("boolean")
<1>1. CASE old = NoValue
  BY <1>1, LegalValues, Strings DEF Inverted
<1>2. CASE old # NoValue
  <2> DEFINE place == CHOOSE i \in DOMAIN BooleanStrs : BooleanStrs[i] = old
             to == IF place % 2 = 0 THEN place - 1 ELSE place + 1
  <2>1. \E i \in DOMAIN BooleanStrs : BooleanStrs[i] = old
    BY <1>2, LegalValues, Strings
  <2>2. place \in {1, 2, 3, 4, 5, 6}
    BY <2>1, Strings
  <2>3. Inverted(old) = BooleanStrs[to]
    BY <1>2 DEF Inverted
  <2> HIDE DEF place
  <2>4. /\ 1 % 2 = 1 /\ 2 % 2 = 0 /\ 3 % 2 = 1 /\ 4 % 2 = 0 /\ 5 % 2 = 1 /\ 6 % 2 = 0
    OBVIOUS
  <2>5. to \in {1, 2, 3, 4, 5, 6}
    BY <2>2, <2>4
  <2> HIDE DEF to
  <2>6. QED
    BY <2>3, <2>5, LegalValues
<1>3. QED
  BY <1>1, <1>2

LEMMA KeptFacts ==
  /\ \A n \in Kept : InitEnv[n].cons \in Constraints
  /\ EnvRight(InitEnv)
<1>1. DOMAIN InitEnv = {"expert", "maxdocs", "buffer", "mode", "pager", "mgname"}
  BY DEF InitEnv
<1>2. /\ InitEnv["expert"] = [data |-> "false", cons |-> "boolean"]
      /\ InitEnv["maxdocs"] = [data |-> "all", cons |-> "maxdocs"]
      /\ InitEnv["buffer"] = [data |-> "9", cons |-> "buffer"]
      /\ InitEnv["mode"] = [data |-> "text", cons |-> "mode"]
      /\ InitEnv["pager"] = [data |-> "more", cons |-> "none"]
      /\ InitEnv["mgname"] = [data |-> NoValue, cons |-> "none"]
  BY DEF InitEnv
<1>3. Kept = {"expert", "maxdocs", "buffer", "mode"}
  BY <1>1, <1>2 DEF Kept
<1>4. "false" \in Legal("boolean")
  BY LegalValues, Strings
<1>5. "all" \in Legal("maxdocs") /\ "9" \in Legal("buffer") /\ "text" \in Legal("mode")
  BY LegalValues
<1>6. \A n \in Kept : InitEnv[n].cons \in Constraints
  BY <1>2, <1>3 DEF Constraints
<1>7. \A n \in Kept : n \in DOMAIN InitEnv /\ InitEnv[n].data \in Legal(InitEnv[n].cons)
  BY <1>1, <1>2, <1>3, <1>4, <1>5
<1>8. \A n \in DOMAIN InitEnv \ Kept : InitEnv[n].cons = "none"
  BY DEF Kept
<1>9. QED
  BY <1>6, <1>7, <1>8 DEF EnvRight

LEMMA ConstrainedLegal ==
  ASSUME NEW c \in Constraints, NEW old \in Legal(c) \cup {NoValue}, NEW value
  PROVE  Constrained(c, old, value) \subseteq Legal(c)
BY InvertedLegal DEF Constrained, Constraints

LEMMA SetRight ==
  ASSUME NEW env, EnvRight(env), NEW name, NEW value
  PROVE  EnvRight(SetEnv(env, name, value, "none"))
<1> DEFINE c == IF name \in DOMAIN env THEN env[name].cons ELSE "none"
           data == Constrained(c, IF name \in DOMAIN env THEN env[name].data ELSE NoValue, value)
           there == CHOOSE v \in data : TRUE
           done == [n \in DOMAIN env \cup {name} |->
                      IF n = name THEN [data |-> there, cons |-> c] ELSE env[n]]
<1>1. SetEnv(env, name, value, "none") = IF data = {} THEN env ELSE done
  BY DEF SetEnv
<1>2. ASSUME data # {}, NEW n \in Kept
      PROVE  /\ n \in DOMAIN done
             /\ done[n].cons = InitEnv[n].cons
             /\ done[n].data \in Legal(InitEnv[n].cons)
  <2>1. n \in DOMAIN env /\ env[n].cons = InitEnv[n].cons /\ env[n].data \in Legal(InitEnv[n].cons)
    BY DEF EnvRight
  <2>2. CASE n = name
    <3>1. c = InitEnv[n].cons /\ data = Constrained(InitEnv[n].cons, env[n].data, value)
      BY <2>1, <2>2
    <3>2. data \subseteq Legal(InitEnv[n].cons)
      BY <2>1, <3>1, KeptFacts, ConstrainedLegal
    <3>3. there \in data
      BY <1>2
    <3>4. done[n] = [data |-> there, cons |-> c] /\ n \in DOMAIN done
      BY <2>2
    <3> HIDE DEF there, data, c, done
    <3>5. QED
      BY <3>1, <3>2, <3>3, <3>4
  <2>3. CASE n # name
    BY <2>1, <2>3
  <2>4. QED
    BY <2>2, <2>3
<1>3. ASSUME data # {}, NEW n \in DOMAIN done \ Kept
      PROVE  done[n].cons = "none"
  <2>1. n \in DOMAIN env => env[n].cons = "none"
    BY <1>3 DEF EnvRight
  <2>2. done[n].cons = IF n = name THEN c ELSE env[n].cons
    BY <1>3
  <2>3. n = name \/ n \in DOMAIN env
    BY <1>3
  <2>. QED BY <2>1, <2>2, <2>3
<1>. HIDE DEF done
<1>4. QED
  BY <1>1, <1>2, <1>3 DEF EnvRight

LEMMA UnsetRight ==
  ASSUME NEW env, EnvRight(env), NEW name
  PROVE  EnvRight(UnsetEnv(env, name))
<1>1. \A n \in Kept : InitEnv[n].cons # "none"
  BY DEF Kept
<1>2. QED
  BY <1>1 DEF EnvRight, UnsetEnv

\* No entry is refused that was set before.
LEMMA CopiesRight ==
  ASSUME NEW env, EnvRight(env), NEW copy \in Copies(env)
  PROVE  EnvRight(copy)
<1> DEFINE Anew(n) == SetEnv(<<>>, n, env[n].data, env[n].cons)
           accepted == {n \in DOMAIN env : n \in DOMAIN Anew(n)}
<1>1. ASSUME NEW n \in DOMAIN env
      PROVE  Anew(n) = [m \in {n} |-> [data |-> env[n].data, cons |-> env[n].cons]]
  <2> DEFINE data == env[n].data
             cons == env[n].cons
  <2>1. cons = "none" \/ (cons \in Constraints /\ data \in Legal(cons) /\ data # NoValue)
    <3>1. CASE n \in Kept
      <4>1. cons = InitEnv[n].cons /\ data \in Legal(InitEnv[n].cons)
        BY <3>1 DEF EnvRight
      <4>2. InitEnv[n].cons \in Constraints
        BY <3>1, KeptFacts
      <4>3. QED
        BY <4>1, <4>2, LegalFacts
    <3>2. CASE n \notin Kept
      BY <3>2 DEF EnvRight
    <3>3. QED
      BY <3>1, <3>2
  <2> HIDE DEF data, cons
  <2>2. Constrained(cons, NoValue, data) = {data}
    BY <2>1 DEF Constrained, Constraints
  <2>3. n \notin DOMAIN <<>> /\ DOMAIN <<>> \cup {n} = {n}
    OBVIOUS
  <2>4. (CHOOSE v \in {data} : TRUE) = data
    OBVIOUS
  <2>5. SetEnv(<<>>, n, data, cons) = [m \in {n} |-> [data |-> data, cons |-> cons]]
    BY <2>2, <2>3, <2>4 DEF SetEnv
  <2>6. QED
    BY <2>5 DEF data, cons
<1>2. \A n \in DOMAIN env :
        n \in DOMAIN Anew(n) /\ Anew(n)[n] = [data |-> env[n].data, cons |-> env[n].cons]
  BY <1>1
<1>3. copy \in {[n \in there |-> Anew(n)[n]] :
                  there \in IF accepted = DOMAIN env THEN {accepted} ELSE SUBSET accepted}
  BY DEF Copies
<1> HIDE DEF Anew
<1>4. copy = [n \in DOMAIN env |-> Anew(n)[n]]
  BY <1>2, <1>3
<1>5. /\ DOMAIN copy = DOMAIN env
      /\ \A n \in DOMAIN env : copy[n].data = env[n].data /\ copy[n].cons = env[n].cons
  <2>1. DOMAIN copy = DOMAIN env /\ \A n \in DOMAIN env : copy[n] = Anew(n)[n]
    BY <1>4
  <2>2. ASSUME NEW n \in DOMAIN env
        PROVE  copy[n].data = env[n].data /\ copy[n].cons = env[n].cons
    <3>1. copy[n] = [data |-> env[n].data, cons |-> env[n].cons]
      BY <1>2, <2>1
    <3>2. QED
      BY <3>1
  <2>3. QED
    BY <2>1, <2>2
<1>6. QED
  BY <1>5 DEF EnvRight

-----------------------------------------------------------------------------
\* The stack.

LEMMA StackTypes ==
  ASSUME NEW envs, StackRight(envs)
  PROVE  Len(envs) \in Nat /\ DOMAIN envs = 1 .. Len(envs) /\ Len(envs) \in 1 .. Len(envs)
BY DEF StackRight

LEMMA TopRight ==
  ASSUME NEW envs, StackRight(envs), NEW env, EnvRight(env)
  PROVE  /\ StackRight([envs EXCEPT ![Len(envs)] = env])
         /\ Len([envs EXCEPT ![Len(envs)] = env]) = Len(envs)
         /\ Len(envs) > 1 => Head([envs EXCEPT ![Len(envs)] = env]) = Head(envs)
<1> DEFINE done == [envs EXCEPT ![Len(envs)] = env]
<1>1. PICK S : envs \in Seq(S)
  BY DEF StackRight
<1>2. envs \in Seq(S \cup {env})
  BY <1>1
<1>3. Len(envs) \in Nat /\ DOMAIN envs = 1 .. Len(envs) /\ Len(envs) \in 1 .. Len(envs)
  BY StackTypes
<1>4. done \in Seq(S \cup {env}) /\ Len(done) = Len(envs)
  BY <1>2, <1>3
<1>5. \A e \in 1 .. Len(envs) : done[e] = IF e = Len(envs) THEN env ELSE envs[e]
  BY <1>3
<1>6. Len(envs) > 1 => Head(done) = Head(envs)
  BY <1>2, <1>3, <1>4, <1>5
<1> HIDE DEF done
<1>7. StackRight(done)
  BY <1>3, <1>4, <1>5 DEF StackRight
<1>8. QED
  BY <1>4, <1>6, <1>7 DEF done

LEMMA PushRight ==
  ASSUME NEW envs, StackRight(envs), NEW more \in PushEnv(envs)
  PROVE  /\ StackRight(more)
         /\ Len(more) = Len(envs) + 1
         /\ Head(more) = Head(envs)
<1>0. PICK copy \in Copies(envs[Len(envs)]) : more = Append(envs, copy)
  BY DEF PushEnv
<1>1. PICK S : envs \in Seq(S)
  BY DEF StackRight
<1>2. envs \in Seq(S \cup {copy})
  BY <1>1
<1>3. Len(envs) \in Nat /\ Len(envs) >= 1 /\ DOMAIN envs = 1 .. Len(envs)
  BY StackTypes DEF StackRight
<1>4. EnvRight(copy)
  BY <1>3, CopiesRight DEF StackRight
<1>5. /\ more \in Seq(S \cup {copy}) /\ Len(more) = Len(envs) + 1
      /\ \A e \in 1 .. Len(envs) : more[e] = envs[e]
      /\ more[Len(envs) + 1] = copy
  BY <1>0, <1>2, <1>3
<1>6. Head(more) = Head(envs)
  BY <1>2, <1>3, <1>5
<1>7. \A e \in 1 .. Len(more) : EnvRight(more[e])
  BY <1>3, <1>4, <1>5 DEF StackRight
<1>8. StackRight(more)
  BY <1>3, <1>5, <1>7 DEF StackRight
<1>9. QED
  BY <1>5, <1>6, <1>8

LEMMA PopRight ==
  ASSUME NEW envs, StackRight(envs)
  PROVE  /\ StackRight(PopEnv(envs))
         /\ Len(PopEnv(envs)) = IF Len(envs) = 1 THEN 1 ELSE Len(envs) - 1
         /\ Head(PopEnv(envs)) = Head(envs)
<1>1. Len(envs) \in Nat /\ Len(envs) >= 1 /\ DOMAIN envs = 1 .. Len(envs)
  BY StackTypes DEF StackRight
<1>2. CASE Len(envs) = 1
  BY <1>2 DEF PopEnv
<1>3. CASE Len(envs) # 1
  <2> DEFINE less == SubSeq(envs, 1, Len(envs) - 1)
  <2>1. PICK S : envs \in Seq(S)
    BY DEF StackRight
  <2>2. /\ less \in Seq(S) /\ Len(less) = Len(envs) - 1
        /\ \A e \in 1 .. Len(envs) - 1 : less[e] = envs[e]
    BY <1>1, <1>3, <2>1
  <2> HIDE DEF less
  <2>3. Head(less) = Head(envs)
    BY <1>1, <1>3, <2>1, <2>2
  <2>4. StackRight(less)
    BY <1>1, <1>3, <2>2 DEF StackRight
  <2>5. QED
    BY <1>3, <2>2, <2>3, <2>4 DEF PopEnv, less
<1>4. QED
  BY <1>2, <1>3

LEMMA BottomRight ==
  ASSUME NEW envs, StackRight(envs)
  PROVE  /\ StackRight(<<Head(envs)>>)
         /\ Len(<<Head(envs)>>) = 1
         /\ Head(<<Head(envs)>>) = Head(envs)
<1>1. /\ Len(envs) \in Nat /\ Len(envs) >= 1 /\ EnvRight(envs[1]) /\ \E S : envs \in Seq(S)
  BY StackTypes DEF StackRight
<1>2. Head(envs) = envs[1]
  BY <1>1
<1> DEFINE h == Head(envs)
<1>3. EnvRight(h)
  BY <1>1, <1>2
<1> HIDE DEF h
<1> DEFINE one == <<h>>
<1>4. one \in Seq({h}) /\ Len(one) = 1 /\ one[1] = h /\ Head(one) = h
  OBVIOUS
<1> HIDE DEF one
<1>5. StackRight(one)
  <2>1. \E S : one \in Seq(S)
    BY <1>4
  <2>2. \A e \in 1 .. Len(one) : e = 1
    BY <1>4
  <2>3. \A e \in 1 .. Len(one) : EnvRight(one[e])
    BY <1>3, <1>4, <2>2
  <2>4. QED
    BY <1>4, <2>1, <2>3 DEF StackRight
<1>6. QED
  BY <1>4, <1>5 DEF h, one

\* A step that keeps the stack right and the bottom where it is.
LEMMA ParamsStay ==
  ASSUME ParamInv, StackRight(stack'), base' = base,
         \/ phase' \in {phase, "crashed"}
         \/ phase \in {"line", "show"} /\ phase' \in {"line", "show", "ended"},
         phase \in {"line", "show", "ended"} => Len(stack') > 1 /\ Head(stack') = Head(stack)
  PROVE  ParamInv'
BY DEF ParamInv

LEMMA ParamStep ==
  ASSUME ParamInv, [SessionNext]_sessionVars
  PROVE  ParamInv'
<1>1. /\ StackRight(stack) /\ Len(stack) \in Nat /\ Len(stack) >= 1
      /\ EnvRight(Current)
  BY StackTypes DEF ParamInv, StackRight, Current
<1>2. ASSUME NEW env, EnvRight(env), stack' = [stack EXCEPT ![Len(stack)] = env],
             base' = base, phase' = phase
      PROVE  ParamInv'
  BY <1>1, <1>2, TopRight, ParamsStay DEF ParamInv
<1>3. ASSUME UNCHANGED <<stack, base>>,
             \/ phase' \in {phase, "crashed"}
             \/ phase \in {"line", "show"} /\ phase' \in {"line", "show", "ended"}
      PROVE  ParamInv'
  BY <1>1, <1>3, ParamsStay DEF ParamInv
<1>4. CASE CmdSet
  <2>1. base' = base
    BY <1>4 DEF CmdSet, Command
  <2>2. CASE UNCHANGED stack /\ phase' = "crashed"
    BY <1>3, <2>1, <2>2
  <2>3. ASSUME NEW s \in Settings, SetTop(SetEnv(Current, s[1], s[2], "none")), phase' = phase
        PROVE  ParamInv'
    BY <1>1, <1>2, <2>1, <2>3, SetRight DEF SetTop
  <2>4. QED
    BY <1>4, <2>2, <2>3 DEF CmdSet
<1>5. CASE CmdUnset
  <2>1. PICK s \in Settings : SetTop(UnsetEnv(Current, s[1]))
    BY <1>5 DEF CmdUnset
  <2>2. base' = base /\ phase' = phase
    BY <1>5 DEF CmdUnset, Command
  <2>3. QED
    BY <1>1, <1>2, <2>1, <2>2, UnsetRight DEF SetTop
<1>6. CASE CmdPush
  <2>1. base' = base /\ phase' = phase /\ stack' \in PushEnv(stack)
    BY <1>6 DEF CmdPush, Command
  <2>2. QED
    BY <1>1, <2>1, PushRight, ParamsStay DEF ParamInv
<1>7. CASE CmdPop
  <2> DEFINE less == PopEnv(stack)
  <2>1. /\ base' = base /\ phase' = phase
        /\ Len(less) = 1 => stack' \in PushEnv(less)
        /\ Len(less) # 1 => stack' \in {less}
    BY <1>7 DEF CmdPop, Command
  <2>2. /\ StackRight(less) /\ Head(less) = Head(stack)
        /\ Len(less) = IF Len(stack) = 1 THEN 1 ELSE Len(stack) - 1
    BY <1>1, PopRight
  <2>3. \A more \in PushEnv(less) :
          StackRight(more) /\ Head(more) = Head(less) /\ Len(more) = Len(less) + 1
    BY <2>2, PushRight
  <2> HIDE DEF less
  <2>4. Len(less) = 1 \/ Len(less) > 1
    <3>1. Len(less) \in Nat /\ Len(less) >= 1
      BY <2>2, StackTypes DEF StackRight
    <3>2. \A n \in Nat : n >= 1 => n = 1 \/ n > 1
      OBVIOUS
    <3>3. QED
      BY <3>1, <3>2, Zenon
  <2>5. StackRight(stack') /\ Head(stack') = Head(stack) /\ Len(stack') > 1
    <3>1. CASE Len(less) = 1
      <4>1. stack' \in PushEnv(less)
        BY <2>1, <3>1
      <4>2. QED
        BY <2>2, <2>3, <3>1, <4>1
    <3>2. CASE Len(less) # 1
      <4>1. stack' = less
        BY <2>1, <3>2
      <4>2. QED
        BY <2>2, <2>4, <3>2, <4>1
    <3>3. QED
      BY <3>1, <3>2
  <2>6. QED
    BY <2>1, <2>5, ParamsStay
<1>8. CASE CmdReset
  <2>1. base' = base /\ phase' = phase /\ stack' \in PushEnv(<<Head(stack)>>)
    BY <1>8 DEF CmdReset, Command
  <2> DEFINE bottom == <<Head(stack)>>
  <2>2. StackRight(bottom) /\ Len(bottom) = 1 /\ Head(bottom) = Head(stack)
    BY <1>1, BottomRight
  <2>3. stack' \in PushEnv(bottom)
    BY <2>1
  <2> HIDE DEF bottom
  <2>4. StackRight(stack') /\ Head(stack') = Head(stack) /\ Len(stack') = 2
    <3>1. StackRight(stack') /\ Head(stack') = Head(bottom) /\ Len(stack') = Len(bottom) + 1
      BY <2>2, <2>3, PushRight
    <3>2. QED
      BY <2>2, <3>1
  <2>5. QED
    BY <2>1, <2>4, ParamsStay
<1>9. CASE CmdQuit \/ CmdInput \/ CmdOutput
  <2>1. UNCHANGED <<stack, base>> /\ phase' \in {phase, "crashed"}
    BY <1>9 DEF CmdQuit, CmdInput, CmdOutput, Redirect, Command
  <2>2. QED
    BY <1>3, <2>1
<1>10. CASE main
  <2> DEFINE Named(envs, name) ==
               IF name = NoValue THEN envs
               ELSE [envs EXCEPT ![Len(envs)] = SetEnv(@, "mgname", name, "none")]
  <2>1. ASSUME NEW envs, StackRight(envs), NEW name
        PROVE  /\ StackRight(Named(envs, name)) /\ Len(Named(envs, name)) = Len(envs)
               /\ Len(envs) > 1 => Head(Named(envs, name)) = Head(envs)
    <3> DEFINE env == SetEnv(envs[Len(envs)], "mgname", name, "none")
    <3>1. EnvRight(env)
      BY <2>1, StackTypes, SetRight DEF StackRight
    <3>2. Named(envs, name) = IF name = NoValue THEN envs ELSE [envs EXCEPT ![Len(envs)] = env]
      OBVIOUS
    <3> HIDE DEF env, Named
    <3>3. QED
      BY <2>1, <3>1, <3>2, TopRight
  <2>2. PICK option, argument \in {NoValue, "a"} :
          \E pushed \in PushEnv(Named(stack, option)) :
            /\ base' = Head(pushed)
            /\ stack' = Named(pushed, argument)
    BY <1>10 DEF main
  <2>3. phase' = "line"
    BY <1>10 DEF main
  <2> HIDE DEF Named
  <2> DEFINE bottom == Named(stack, option)
  <2>4. PICK pushed \in PushEnv(bottom) :
           base' = Head(pushed) /\ stack' = Named(pushed, argument)
    BY <2>2
  <2>5. StackRight(bottom) /\ Len(bottom) = Len(stack)
    BY <1>1, <2>1
  <2>6. StackRight(pushed) /\ Len(pushed) = Len(bottom) + 1
    BY <2>5, PushRight
  <2>7. Len(pushed) > 1
    BY <1>1, <2>5, <2>6
  <2>8. /\ StackRight(Named(pushed, argument)) /\ Len(Named(pushed, argument)) = Len(pushed)
        /\ Head(Named(pushed, argument)) = Head(pushed)
    BY <2>1, <2>6, <2>7
  <2>9. QED
    BY <2>3, <2>7, <2>8, <2>4 DEF ParamInv
<1>11. CASE EndOfInput \/ Quit \/ query
  <2>1. UNCHANGED <<stack, base>> /\ phase = "line" /\ phase' \in {"line", "show", "ended"}
    BY <1>11 DEF EndOfInput, Quit, query, envVars
  <2>2. QED
    BY <1>3, <2>1
<1>12. CASE ProcessDoc \/ EndDocs \/ PagerFails \/ SIGPIPE_handler \/ SIGINT_handler
  <2>1. UNCHANGED <<stack, base>> /\ phase = "show" /\ phase' \in {"line", "show"}
    BY <1>12 DEF ProcessDoc, EndDocs, PagerFails, SIGPIPE_handler, SIGINT_handler, envVars
  <2>2. QED
    BY <1>3, <2>1
<1>13. CASE UNCHANGED sessionVars
  BY <1>3, <1>13 DEF sessionVars, envVars
<1>14. QED
  BY <1>4, <1>5, <1>6, <1>7, <1>8, <1>9, <1>10, <1>11, <1>12, <1>13 DEF SessionNext

LEMMA ParamStart == SessionInit => ParamInv
<1> SUFFICES ASSUME SessionInit PROVE ParamInv
  OBVIOUS
<1> DEFINE envs == <<InitEnv>>
<1>1. stack = envs /\ phase = "mgrc"
  BY DEF SessionInit
<1>2. envs \in Seq({InitEnv}) /\ Len(envs) = 1 /\ envs[1] = InitEnv
  OBVIOUS
<1> HIDE DEF envs
<1>3. StackRight(envs)
  BY <1>2, KeptFacts DEF StackRight
<1>4. QED
  BY <1>1, <1>3 DEF ParamInv

(***************************************************************************)
(* No sequence of .set, .unset, .push, .pop and .reset, in .mgrc or from   *)
(* the terminal, takes a parameter that the program relies on away, frees  *)
(* it from its constraint or gives it a value the constraint does not let  *)
(* pass; and once main has begun none changes what .reset goes back to.    *)
(***************************************************************************)
THEOREM ParametersKept == SessionSpec => []ParametersHold
<1>1. ParamInv => ParametersHold
  <2> SUFFICES ASSUME ParamInv PROVE ParametersHold
    OBVIOUS
  <2>1. DOMAIN stack = 1 .. Len(stack)
    BY StackTypes DEF ParamInv
  <2>2. QED
    BY <2>1 DEF ParamInv, StackRight, EnvRight, Kept, ParametersHold
<1>2. QED
  BY <1>1, ParamStart, ParamStep, PTL DEF SessionSpec

-----------------------------------------------------------------------------
\* Sums.

LEMMA SumIsPartial ==
  ASSUME NEW s, NEW n PROVE SumOf(s, n) = PartialSums(s, n)[n]
BY DEF SumOf, PartialSums

LEMMA SumAlike ==
  ASSUME NEW n \in Nat, NEW s, NEW t, \A i \in 1 .. n : s[i] \in Int /\ s[i] = t[i]
  PROVE  SumOf(s, n) = SumOf(t, n)
<1>1. \A i \in 1 .. n : t[i] \in Int
  OBVIOUS
<1>2. n \in 0 .. n
  OBVIOUS
<1>3. PartialSums(s, n)[n] = PartialSums(t, n)[n]
  BY <1>1, <1>2, PartialSumsAlike
<1>. QED BY <1>3, SumIsPartial

LEMMA SumNone == \A s : SumOf(s, 0) = 0
<1>. TAKE s
<1>1. \A i \in 1 .. 0 : s[i] \in Int
  OBVIOUS
<1>. QED BY <1>1, PartialSumsUnfold, SumIsPartial

LEMMA SumOneMore ==
  ASSUME NEW n \in Nat, NEW s, \A i \in 1 .. n + 1 : s[i] \in Int
  PROVE  SumOf(s, n + 1) = SumOf(s, n) + s[n + 1]
<1>1. n + 1 \in Nat /\ n <= n + 1 /\ n \in 0 .. n /\ n + 1 \in 1 .. n + 1 /\ (n + 1) - 1 = n
      /\ \A i \in 1 .. n : i \in 1 .. n + 1
  OBVIOUS
<1>2. PartialSums(s, n)[n] = PartialSums(s, n + 1)[n]
  BY <1>1, PartialSumsAlike
<1>3. PartialSums(s, n + 1)[n + 1] = PartialSums(s, n + 1)[(n + 1) - 1] + s[n + 1]
  BY <1>1, PartialSumsUnfold
<1>. QED BY <1>1, <1>2, <1>3, SumIsPartial

LEMMA SumType ==
  ASSUME NEW n \in Nat, NEW s, \A i \in 1 .. n : s[i] \in Int
  PROVE  SumOf(s, n) \in Int
<1>1. n \in 0 .. n
  OBVIOUS
<1>. QED BY <1>1, PartialSumsUnfold, SumIsPartial

\* A sum is that of its first numbers and that of the rest.
LEMMA SumOfBoth ==
  ASSUME NEW n \in Nat, NEW m \in Nat, NEW s, NEW t,
         \A i \in 1 .. n + m : s[i] \in Int, \A j \in 1 .. m : t[j] = s[n + j]
  PROVE  SumOf(s, n + m) = SumOf(s, n) + SumOf(t, m)
<1>. DEFINE T == {k \in Nat : k <= m => SumOf(s, n + k) = SumOf(s, n) + SumOf(t, k)}
<1>1. 0 \in T
  <2>1. SumOf(t, 0) = 0 /\ n + 0 = n
    BY SumNone
  <2>2. SumOf(s, n) \in Int
    BY SumType
  <2>. QED BY <2>1, <2>2
<1>2. ASSUME NEW k \in Nat, k \in T PROVE k + 1 \in T
  <2>. SUFFICES ASSUME k + 1 <= m PROVE SumOf(s, n + (k + 1)) = SumOf(s, n) + SumOf(t, k + 1)
    OBVIOUS
  <2>1. /\ n + (k + 1) = (n + k) + 1 /\ n + k \in Nat
        /\ \A i \in 1 .. (n + k) + 1 : s[i] \in Int
        /\ \A j \in 1 .. k + 1 : t[j] \in Int
        /\ t[k + 1] = s[(n + k) + 1]
    OBVIOUS
  <2>2. SumOf(s, (n + k) + 1) = SumOf(s, n + k) + s[(n + k) + 1]
    BY <2>1, SumOneMore
  <2>3. SumOf(t, k + 1) = SumOf(t, k) + t[k + 1]
    BY <2>1, SumOneMore
  <2>4. SumOf(s, n + k) = SumOf(s, n) + SumOf(t, k)
    BY <1>2
  <2>5. SumOf(s, n) \in Int /\ SumOf(t, k) \in Int /\ t[k + 1] \in Int
    <3>1. \A i \in 1 .. n : s[i] \in Int
      OBVIOUS
    <3>2. \A j \in 1 .. k : t[j] \in Int
      BY <2>1
    <3>. QED BY <2>1, <3>1, <3>2, SumType
  <2>. QED BY <2>1, <2>2, <2>3, <2>4, <2>5
<1>3. Nat \subseteq T
  <2>. HIDE DEF T
  <2>. QED BY <1>1, <1>2, SetInduction
<1>. QED BY <1>3

LEMMA SumOfNothing ==
  ASSUME NEW n \in Nat, NEW s, \A i \in 1 .. n : s[i] = 0
  PROVE  SumOf(s, n) = 0
<1>. DEFINE T == {k \in Nat : k <= n => SumOf(s, k) = 0}
<1>1. 0 \in T
  BY SumNone
<1>2. ASSUME NEW k \in Nat, k \in T PROVE k + 1 \in T
  <2>. SUFFICES ASSUME k + 1 <= n PROVE SumOf(s, k + 1) = 0
    OBVIOUS
  <2>1. \A i \in 1 .. k + 1 : s[i] \in Int
    OBVIOUS
  <2>2. SumOf(s, k + 1) = SumOf(s, k) + s[k + 1]
    BY <2>1, SumOneMore
  <2>3. SumOf(s, k) = 0 /\ s[k + 1] = 0
    BY <1>2
  <2>. QED BY <2>2, <2>3
<1>3. Nat \subseteq T
  <2>. HIDE DEF T
  <2>. QED BY <1>1, <1>2, SetInduction
<1>. QED BY <1>3


-----------------------------------------------------------------------------
\* The documents of an answer.

Entry == [num : DOMAIN DocBytes, buf : BOOLEAN, Len : Nat]

\* The list is whole, what is allocated is what is in memory, and the document
\* at hand is.
DocsRight ==
  /\ DL \in Seq(Entry) /\ doc_pos \in 0 .. Len(DL)
  /\ TextBuffer = <<>> \/ \E num \in DOMAIN DocBytes : TextBuffer = <<num>>
  /\ phase = "show" => max_buf \in {0, 1, 9}
  /\ view.known => \A k \in DOMAIN DL : DL[k].Len = DocBytes[DL[k].num]
  /\ BuffersHold

LEMMA DocFacts ==
  \A docs \in Seq(Entry) :
    /\ Len(docs) \in Nat /\ DOMAIN docs = 1 .. Len(docs)
    /\ \A k \in 1 .. Len(docs) : /\ docs[k].num \in DOMAIN DocBytes /\ docs[k].buf \in BOOLEAN
                                 /\ docs[k].Len \in Nat
                                 /\ DocBytes[docs[k].num] \in Nat \ {0}
<1>. TAKE docs \in Seq(Entry)
<1>1. Len(docs) \in Nat /\ DOMAIN docs = 1 .. Len(docs)
  OBVIOUS
<1>2. ASSUME NEW k \in 1 .. Len(docs)
      PROVE  /\ docs[k].num \in DOMAIN DocBytes /\ docs[k].buf \in BOOLEAN /\ docs[k].Len \in Nat
             /\ DocBytes[docs[k].num] \in Nat \ {0}
  <2>1. docs[k] \in Entry
    OBVIOUS
  <2>2. docs[k].num \in DOMAIN DocBytes /\ docs[k].buf \in BOOLEAN /\ docs[k].Len \in Nat
    BY <2>1 DEF Entry
  <2>. QED BY <2>2, SessionAssumption
<1>. QED BY <1>1, <1>2

\* What a document adds to the bytes in memory.
Share(docs) == [k \in DOMAIN docs |-> IF docs[k].buf THEN DocBytes[docs[k].num] ELSE 0]

LEMMA HeldIsShares == \A docs : Held(docs) = SumOf(Share(docs), Len(docs))
BY DEF Held, Share

LEMMA ShareTypes ==
  ASSUME NEW docs \in Seq(Entry), NEW k \in 1 .. Len(docs)
  PROVE  /\ docs[k].buf => Share(docs)[k] = DocBytes[docs[k].num]
         /\ ~docs[k].buf => Share(docs)[k] = 0
         /\ Share(docs)[k] \in Nat
<1>1. /\ DOMAIN docs = 1 .. Len(docs) /\ DocBytes[docs[k].num] \in Nat
  BY DocFacts
<1>2. Share(docs)[k] = IF docs[k].buf THEN DocBytes[docs[k].num] ELSE 0
  BY <1>1 DEF Share
<1>. QED BY <1>1, <1>2

LEMMA HeldTyped == \A docs \in Seq(Entry) : Held(docs) \in Int
<1>. TAKE docs \in Seq(Entry)
<1>1. Len(docs) \in Nat /\ \A k \in 1 .. Len(docs) : Share(docs)[k] \in Int
  BY ShareTypes, DocFacts
<1>. QED BY <1>1, SumType, HeldIsShares

LEMMA NothingHeld ==
  ASSUME NEW docs \in Seq(Entry), \A k \in 1 .. Len(docs) : ~docs[k].buf
  PROVE  Held(docs) = 0
<1>1. Len(docs) \in Nat /\ \A k \in 1 .. Len(docs) : Share(docs)[k] = 0
  BY ShareTypes, DocFacts
<1>. QED BY <1>1, SumOfNothing, HeldIsShares

\* The documents in memory are the b that follow document p.
IsBatch(docs, p, b) == \A k \in 1 .. Len(docs) : docs[k].buf <=> k \in p + 1 .. p + b

BytesBehind(docs, p) == [j \in Nat |-> DocBytes[docs[p + j].num]]

(***************************************************************************)
(* The bytes of a batch are all that are in memory.                        *)
(***************************************************************************)
LEMMA HeldBatch ==
  ASSUME NEW docs \in Seq(Entry), NEW p \in Nat, NEW b \in Nat, p + b <= Len(docs),
         IsBatch(docs, p, b)
  PROVE  /\ Held(docs) = SumOf(BytesBehind(docs, p), b)
         /\ Held(SubSeq(docs, p + 1, p + b)) = SumOf(BytesBehind(docs, p), b)
<1>. DEFINE n == Len(docs)
            s == Share(docs)
            g == BytesBehind(docs, p)
            part == SubSeq(docs, p + 1, p + b)
<1>0. /\ \A k \in 1 .. n : docs[k].buf <=> k \in p + 1 .. p + b
      /\ \A j \in 1 .. b : g[j] = DocBytes[docs[p + j].num]
  BY DEF IsBatch, BytesBehind
<1>. HIDE DEF g
<1>1. n \in Nat /\ \A k \in 1 .. n : s[k] \in Int
  BY DocFacts, ShareTypes
<1>2. \A k \in 1 .. n : k \notin p + 1 .. p + b => s[k] = 0
  BY <1>0, ShareTypes
<1>3. ASSUME NEW j \in 1 .. b PROVE s[p + j] = g[j] /\ g[j] \in Int
  <2>1. p + j \in 1 .. n /\ p + j \in p + 1 .. p + b
    BY <1>1
  <2>2. docs[p + j].buf
    BY <1>0, <2>1
  <2>. QED BY <1>0, <1>1, <2>1, <2>2, ShareTypes
<1>4. Held(docs) = SumOf(g, b)
  <2>. DEFINE t == [j \in Nat |-> s[p + j]]
              r == [j \in Nat |-> s[(p + b) + j]]
              m == n - (p + b)
  <2>1. m \in Nat /\ (p + b) + m = n /\ p + b \in Nat
    BY <1>1
  <2>2. SumOf(s, p) = 0
    <3>1. \A k \in 1 .. p : s[k] = 0
      BY <1>1, <1>2
    <3>. HIDE DEF s
    <3>. QED BY <3>1, SumOfNothing
  <2>3. SumOf(s, p + b) = SumOf(s, p) + SumOf(t, b)
    <3>1. /\ \A k \in 1 .. p + b : s[k] \in Int
          /\ \A j \in 1 .. b : t[j] = s[p + j]
      BY <1>1
    <3>. HIDE DEF s, t
    <3>. QED BY <3>1, SumOfBoth
  <2>4. SumOf(s, n) = SumOf(s, p + b) + SumOf(r, m)
    <3>. HIDE DEF s, m
    <3>1. \A k \in 1 .. (p + b) + m : s[k] \in Int
      BY <1>1, <2>1
    <3>2. \A j \in 1 .. m : r[j] = s[(p + b) + j]
      BY <2>1
    <3>. HIDE DEF r
    <3>3. SumOf(s, (p + b) + m) = SumOf(s, p + b) + SumOf(r, m)
      BY <2>1, <3>1, <3>2, SumOfBoth
    <3>. QED BY <2>1, <3>3
  <2>5. SumOf(r, m) = 0
    <3>1. ASSUME NEW j \in 1 .. m PROVE r[j] = 0
      <4>1. j \in Nat /\ (p + b) + j \in 1 .. n /\ (p + b) + j \notin p + 1 .. p + b
        BY <1>1, <2>1
      <4>2. r[j] = s[(p + b) + j]
        BY <4>1
      <4>. QED BY <1>2, <4>1, <4>2
    <3>. HIDE DEF r, m
    <3>. QED BY <2>1, <3>1, SumOfNothing
  <2>6. SumOf(t, b) = SumOf(g, b) /\ SumOf(g, b) \in Int
    <3>1. ASSUME NEW j \in 1 .. b PROVE t[j] \in Int /\ t[j] = g[j] /\ g[j] \in Int
      <4>1. t[j] = s[p + j]
        OBVIOUS
      <4>. HIDE DEF t, s
      <4>. QED BY <4>1, <1>3
    <3>. HIDE DEF t
    <3>. QED BY <3>1, SumAlike, SumType
  <2>. HIDE DEF s, t, r, m
  <2>7. Held(docs) = SumOf(s, n)
    BY HeldIsShares DEF s
  <2>. QED BY <2>2, <2>3, <2>4, <2>5, <2>6, <2>7
<1>5. Held(part) = SumOf(g, b)
  <2>1. part \in Seq(Entry) /\ Len(part) = b /\ \A j \in 1 .. b : part[j] = docs[p + j]
    <3>. HIDE DEF part
    <3>1. part = SubSeq(docs, p + 1, p + b) /\ n \in Nat
      BY <1>1 DEF part
    <3>2. p + 1 \in 1 .. n + 1 /\ p + b \in p .. n /\ (p + b) - (p + 1) + 1 = b
      BY <1>1
    <3>3. Len(part) = b /\ \A j \in 1 .. b : part[j] = docs[p + j]
      BY <3>1, <3>2
    <3>4. \A j \in 1 .. b : part[j] \in Entry
      BY <3>2, <3>3
    <3>5. part \in Seq(Entry)
      BY <3>1, <3>2
    <3>. QED BY <3>3, <3>5
  <2>. HIDE DEF part
  <2>2. ASSUME NEW j \in 1 .. b PROVE Share(part)[j] \in Int /\ Share(part)[j] = g[j]
    <3>1. p + j \in 1 .. n /\ p + j \in p + 1 .. p + b
      BY <1>1
    <3>2. part[j].buf /\ part[j] = docs[p + j]
      BY <1>0, <2>1, <3>1
    <3>3. Share(part)[j] = DocBytes[part[j].num]
      BY <2>1, <3>2, ShareTypes
    <3>. QED BY <1>0, <1>3, <3>2, <3>3
  <2>3. SumOf(Share(part), b) = SumOf(g, b)
    BY <2>2, SumAlike
  <2>. QED BY <2>1, <2>3, HeldIsShares
<1>. QED BY <1>4, <1>5 DEF g


\* The documents behind the one at hand, as BatchLen adds them up.
Rest == Len(DL) - doc_pos
Lens == [j \in 1 .. Rest |-> DL[doc_pos + j].Len]

(***************************************************************************)
(* A batch is not empty, and without its last document it is below max_buf.*)
(***************************************************************************)
LEMMA BatchLenRight ==
  ASSUME DL \in Seq(Entry), doc_pos \in 0 .. Len(DL), doc_pos # Len(DL), max_buf \in Int
  PROVE  BatchLen \in 1 .. Rest /\ \A j \in 1 .. BatchLen - 1 : SumOf(Lens, j) < max_buf
<1>. DEFINE P(k) == (k = Rest \/ SumOf(Lens, k) >= max_buf) /\ \A j \in 1 .. k - 1 : SumOf(Lens, j) < max_buf
            S == {k \in 1 .. Rest : k = Rest \/ SumOf(Lens, k) >= max_buf}
<1>1. Len(DL) \in Nat /\ Rest \in Nat /\ Rest >= 1
  BY DocFacts DEF Rest
<1>2. ASSUME NEW k \in 1 .. Rest PROVE SumOf(Lens, k) \in Int
  <2>1. ASSUME NEW j \in 1 .. k PROVE Lens[j] \in Int
    <3>1. j \in 1 .. Rest /\ doc_pos + j \in 1 .. Len(DL)
      BY <1>1 DEF Rest
    <3>2. Lens[j] = DL[doc_pos + j].Len
      BY <3>1 DEF Lens
    <3>. QED BY <3>1, <3>2, DocFacts
  <2>2. k \in Nat
    BY <1>1
  <2>. QED BY <2>1, <2>2, SumType
<1>3. PICK k \in S : \A j \in S : k <= j
  <2>1. Rest \in S /\ S \in SUBSET Nat
    BY <1>1
  <2>. HIDE DEF S
  <2>. QED BY <2>1, LeastNatural
<1>4. k \in 1 .. Rest /\ P(k)
  <2>1. ASSUME NEW j \in 1 .. k - 1 PROVE SumOf(Lens, j) < max_buf
    <3>1. j \in 1 .. Rest /\ j < k
      BY <1>1, <1>3
    <3>2. j \notin S
      <4>. HIDE DEF S
      <4>1. k \in Int /\ j \in Int
        BY <1>1, <1>3, <3>1 DEF S
      <4>. QED BY <1>3, <3>1, <4>1
    <3>3. ~(SumOf(Lens, j) >= max_buf)
      BY <3>1, <3>2
    <3>. QED BY <1>2, <3>1, <3>3
  <2>. QED BY <1>3, <2>1
<1>5. BatchLen = CHOOSE m \in 1 .. Rest : P(m)
  BY DEF BatchLen, Rest, Lens
<1>6. BatchLen \in 1 .. Rest /\ P(BatchLen)
  <2>. HIDE DEF P
  <2>. QED BY <1>4, <1>5
<1>. QED BY <1>6

\* A document entry with its text read in, and one with its text given back.
LEMMA EntryFilled ==
  ASSUME NEW y \in Entry, NEW c \in Nat, NEW z,
         z = [num |-> y.num, buf |-> TRUE, Len |-> c]
  PROVE  z \in Entry /\ z.num = y.num /\ z.buf = TRUE /\ z.Len = c
<1>1. y.num \in DOMAIN DocBytes
  BY DEF Entry
<1>. QED BY ONLY z = [num |-> y.num, buf |-> TRUE, Len |-> c], <1>1, c \in Nat DEF Entry

LEMMA EntryEmptied ==
  ASSUME NEW y \in Entry, NEW z, z = [y EXCEPT !.buf = FALSE]
  PROVE  z \in Entry /\ z.num = y.num /\ z.buf = FALSE /\ z.Len = y.Len
<1>1. z = [num |-> y.num, buf |-> FALSE, Len |-> y.Len]
  BY DEF Entry
<1>2. y.num \in DOMAIN DocBytes /\ y.Len \in Nat
  BY DEF Entry
<1>. QED BY ONLY <1>1, <1>2 DEF Entry

\* Loading: what is in memory afterwards is the batch.
LEMMA LoadedRight ==
  ASSUME DL \in Seq(Entry), doc_pos \in 0 .. Len(DL), doc_pos # Len(DL), BatchLen \in 1 .. Rest
  PROVE  /\ Loaded \in Seq(Entry) /\ Len(Loaded) = Len(DL)
         /\ \A k \in 1 .. Len(DL) : /\ Loaded[k].num = DL[k].num
                                    /\ Loaded[k].buf <=> k \in doc_pos + 1 .. doc_pos + BatchLen
                                    /\ Loaded[k].Len \in {DL[k].Len, DocBytes[DL[k].num]}
<1>. DEFINE b == BatchLen
            x(k) == IF k \in doc_pos + 1 .. doc_pos + b
                    THEN [DL[k] EXCEPT !.buf = TRUE, !.Len = DocBytes[DL[k].num]]
                    ELSE [DL[k] EXCEPT !.buf = FALSE]
<1>1. Len(DL) \in Nat /\ DOMAIN DL = 1 .. Len(DL)
  BY DocFacts
<1>2. Loaded = [k \in 1 .. Len(DL) |-> x(k)]
  BY <1>1 DEF Loaded
<1>3. ASSUME NEW k \in 1 .. Len(DL)
      PROVE  /\ x(k) \in Entry /\ x(k).num = DL[k].num
             /\ x(k).buf <=> k \in doc_pos + 1 .. doc_pos + b
             /\ x(k).Len \in {DL[k].Len, DocBytes[DL[k].num]}
  <2>1. DL[k] \in Entry /\ DocBytes[DL[k].num] \in Nat
    BY DocFacts
  <2>2. CASE k \in doc_pos + 1 .. doc_pos + b
    <3>. DEFINE y == DL[k]
                c == DocBytes[DL[k].num]
    <3>1. x(k) = [y EXCEPT !.buf = TRUE, !.Len = c]
      BY <2>2
    <3>. HIDE DEF x, c, y
    <3>2. y \in Entry /\ c \in Nat
      BY <2>1 DEF y, c
    <3>3. x(k) \in Entry /\ x(k).num = y.num /\ x(k).buf = TRUE /\ x(k).Len = c
      <4>. DEFINE z == x(k)
      <4>1. z = [num |-> y.num, buf |-> TRUE, Len |-> c]
        BY <3>1, <3>2 DEF Entry
      <4>. HIDE DEF z
      <4>2. z \in Entry /\ z.num = y.num /\ z.buf = TRUE /\ z.Len = c
        BY <3>2, <4>1, EntryFilled
      <4>. QED BY <4>2 DEF z
    <3>. QED BY <2>2, <3>3 DEF y, c
  <2>3. CASE k \notin doc_pos + 1 .. doc_pos + b
    <3>. DEFINE y == DL[k]
    <3>1. x(k) = [y EXCEPT !.buf = FALSE]
      BY <2>3
    <3>. HIDE DEF x, y
    <3>2. y \in Entry
      BY <2>1 DEF y
    <3>3. x(k) \in Entry /\ x(k).num = y.num /\ x(k).buf = FALSE /\ x(k).Len = y.Len
      <4>. DEFINE z == x(k)
      <4>1. z = [y EXCEPT !.buf = FALSE]
        BY <3>1
      <4>. HIDE DEF z
      <4>2. z \in Entry /\ z.num = y.num /\ z.buf = FALSE /\ z.Len = y.Len
        BY <3>2, <4>1, EntryEmptied
      <4>. QED BY <4>2 DEF z
    <3>. QED BY <2>3, <3>3 DEF y
  <2>. QED BY <2>2, <2>3
<1>. HIDE DEF x, b
<1>4. Loaded \in Seq(Entry) /\ Len(Loaded) = Len(DL) /\ \A k \in 1 .. Len(DL) : Loaded[k] = x(k)
  <2>. DEFINE n == Len(DL)
  <2>1. /\ Loaded \in [1 .. n -> Entry] /\ \A k \in 1 .. n : Loaded[k] = x(k)
    BY <1>2, <1>3
  <2>2. n \in Nat
    BY <1>1
  <2>. HIDE DEF n
  <2>3. Loaded \in Seq(Entry) /\ Len(Loaded) = n
    BY <2>1, <2>2
  <2>. QED BY <2>1, <2>3 DEF n
<1>. QED BY <1>3, <1>4 DEF b


LEMMA TextTyped ==
  ASSUME TextBuffer = <<>> \/ \E num \in DOMAIN DocBytes : TextBuffer = <<num>>
  PROVE  TextBytes \in Int
<1>1. CASE TextBuffer = <<>>
  BY <1>1 DEF TextBytes
<1>2. ASSUME NEW num \in DOMAIN DocBytes, TextBuffer = <<num>> PROVE TextBytes \in Int
  <2>1. TextBuffer # <<>> /\ TextBuffer[1] = num /\ DocBytes[num] \in Nat
    BY <1>2, SessionAssumption
  <2>. QED BY <2>1 DEF TextBytes, TextBufferLen
<1>. QED BY <1>1, <1>2

\* After a batch was loaded, the documents in memory fit the buffer but for
\* the last.
LEMMA BatchLoadedFits ==
  ASSUME DL \in Seq(Entry), doc_pos \in 0 .. Len(DL), doc_pos # Len(DL), max_buf \in {0, 1, 9},
         \A k \in DOMAIN DL : DL[k].Len = DocBytes[DL[k].num],
         NEW k \in 1 .. Len(DL), Loaded[k].buf, \A j \in k + 1 .. Len(DL) : ~Loaded[j].buf
  PROVE  \/ Held(Loaded) = DocBytes[Loaded[k].num]
         \/ Held(Loaded) - DocBytes[Loaded[k].num] < max_buf
<1>. DEFINE b == BatchLen
            g == BytesBehind(Loaded, doc_pos)
<1>1. b \in 1 .. Rest /\ \A j \in 1 .. b - 1 : SumOf(Lens, j) < max_buf
  BY BatchLenRight
<1>2. Len(DL) \in Nat /\ Rest = Len(DL) - doc_pos /\ DOMAIN DL = 1 .. Len(DL)
  BY DocFacts DEF Rest
<1>3. /\ Loaded \in Seq(Entry) /\ Len(Loaded) = Len(DL)
      /\ \A i \in 1 .. Len(DL) : /\ Loaded[i].num = DL[i].num
                                 /\ Loaded[i].buf <=> i \in doc_pos + 1 .. doc_pos + b
  BY <1>1, LoadedRight
<1>. HIDE DEF b
<1>4. b \in Nat /\ b >= 1 /\ doc_pos + b \in 1 .. Len(DL) /\ b - 1 \in Nat /\ (b - 1) + 1 = b
  BY <1>1, <1>2
<1>5. k = doc_pos + b
  <2>1. k \in doc_pos + 1 .. doc_pos + b
    BY <1>3
  <2>2. ASSUME k < doc_pos + b PROVE FALSE
    <3>1. doc_pos + b \in k + 1 .. Len(DL) /\ doc_pos + b \in doc_pos + 1 .. doc_pos + b
      BY <1>4, <2>2
    <3>. QED BY <1>3, <1>4, <3>1
  <2>. QED BY <1>4, <2>1, <2>2
<1>6. ASSUME NEW j \in 1 .. b
      PROVE  /\ g[j] = DocBytes[Loaded[doc_pos + j].num] /\ g[j] = Lens[j] /\ g[j] \in Int
  <2>1. doc_pos + j \in 1 .. Len(DL) /\ j \in 1 .. Rest
    BY <1>2, <1>4
  <2>2. g[j] = DocBytes[Loaded[doc_pos + j].num]
    BY <1>4 DEF BytesBehind
  <2>. HIDE DEF g
  <2>3. Lens[j] = DL[doc_pos + j].Len
    BY <2>1 DEF Lens
  <2>4. Loaded[doc_pos + j].num = DL[doc_pos + j].num
    BY <1>3, <2>1
  <2>5. DocBytes[DL[doc_pos + j].num] \in Int
    BY <2>1, DocFacts
  <2>. QED BY <1>2, <2>1, <2>2, <2>3, <2>4, <2>5
<1>. HIDE DEF g
<1>7. Held(Loaded) = SumOf(g, b)
  <2>1. doc_pos + b <= Len(Loaded) /\ doc_pos \in Nat
    BY <1>3, <1>4
  <2>2. IsBatch(Loaded, doc_pos, b)
    BY <1>3 DEF IsBatch
  <2>. QED BY <1>3, <1>4, <2>1, <2>2, HeldBatch DEF g
<1>8. SumOf(g, b) = SumOf(g, b - 1) + g[b] /\ SumOf(g, b - 1) = SumOf(Lens, b - 1)
      /\ SumOf(g, b - 1) \in Int
  <2>1. /\ \A j \in 1 .. (b - 1) + 1 : g[j] \in Int
        /\ \A j \in 1 .. b - 1 : g[j] \in Int /\ g[j] = Lens[j]
    <3>1. \A j \in 1 .. b : g[j] \in Int /\ g[j] = Lens[j]
      BY <1>6
    <3>2. 1 .. (b - 1) + 1 = 1 .. b /\ 1 .. b - 1 \subseteq 1 .. b
      BY <1>4
    <3>. QED BY <3>1, <3>2
  <2>2. SumOf(g, (b - 1) + 1) = SumOf(g, b - 1) + g[(b - 1) + 1]
    BY <1>4, <2>1, SumOneMore
  <2>. QED BY <1>4, <2>1, <2>2, SumAlike, SumType
<1>9. SumOf(Lens, b - 1) = 0 \/ SumOf(Lens, b - 1) < max_buf
  <2>1. CASE b = 1
    BY <2>1, SumNone
  <2>2. CASE b # 1
    <3>1. b - 1 \in 1 .. b - 1
      BY <1>4, <2>2
    <3>. QED BY <1>1, <3>1 DEF b
  <2>. QED BY <2>1, <2>2
<1>10. g[b] = DocBytes[Loaded[k].num] /\ g[b] \in Int
  BY <1>4, <1>5, <1>6
<1>. QED BY <1>7, <1>8, <1>9, <1>10

\* Nothing of an answer changes.
LEMMA DocsStay ==
  ASSUME DocsRight,
         DL' = DL, doc_pos' = doc_pos, TextBuffer' = TextBuffer, allocated' = allocated,
         max_buf' = max_buf, view' = view, phase' = "show" => phase = "show"
  PROVE  DocsRight'
<1>1. Held(DL') = Held(DL) /\ TextBytes' = TextBytes
  BY DEF Held, TextBytes
<1>2. BatchFits' <=> BatchFits
  BY <1>1 DEF BatchFits
<1>3. BuffersHold'
  BY <1>1, <1>2 DEF DocsRight, BuffersHold
<1>. QED BY <1>3 DEF DocsRight

LEMMA QueryKeepsDocs ==
  ASSUME DocsRight, query PROVE DocsRight'
<1>1. DL \in Seq(Entry) /\ TextBytes \in Int /\ allocated = Held(DL) + TextBytes /\ Held(DL) \in Int
  BY TextTyped, HeldTyped DEF DocsRight, BuffersHold
<1>2. allocated' = 0 /\ TextBuffer' = <<>> /\ doc_pos' = 0
  BY <1>1 DEF query, Freed
<1>3. TextBytes' = 0
  BY <1>2 DEF TextBytes
<1>4. CASE DL' = <<>> /\ UNCHANGED <<max_buf, view, phase>>
  <2>1. phase = "line"
    BY DEF query
  <2>2. DL' \in Seq(Entry) /\ Len(DL') = 0 /\ DOMAIN DL' = {}
    BY <1>4
  <2>3. Held(DL') = 0
    <3>1. \A k \in 1 .. Len(DL') : ~DL'[k].buf
      BY <2>2
    <3>. QED BY <2>2, <3>1, NothingHeld
  <2>4. BuffersHold'
    BY <1>2, <1>3, <1>4, <2>2, <2>3 DEF BuffersHold, BatchFits
  <2>. QED BY <1>2, <1>4, <2>1, <2>2, <2>4 DEF DocsRight
<1>5. ASSUME NEW a \in Answers,
             DL' = [k \in DOMAIN a.docs |->
                     [num |-> a.docs[k], buf |-> FALSE,
                      Len |-> IF a.known THEN DocBytes[a.docs[k]] ELSE 0]],
             view'.known = a.known, max_buf' = atoi(Current.buffer.data)
      PROVE  DocsRight'
  <2>1. a.docs \in Seq(DOMAIN DocBytes) /\ a.known \in BOOLEAN
    BY SessionAssumption
  <2>. DEFINE n == Len(a.docs)
  <2>2. n \in Nat /\ DOMAIN a.docs = 1 .. n /\ \A k \in 1 .. n : a.docs[k] \in DOMAIN DocBytes
    BY <2>1
  <2>3. ASSUME NEW k \in 1 .. n
        PROVE  /\ DL'[k].num = a.docs[k] /\ DL'[k].buf = FALSE
               /\ DL'[k].Len = (IF a.known THEN DocBytes[a.docs[k]] ELSE 0)
               /\ DL'[k] \in Entry
    <3>1. DocBytes[a.docs[k]] \in Nat
      BY <2>2, SessionAssumption
    <3>2. DL'[k] = [num |-> a.docs[k], buf |-> FALSE,
                    Len |-> IF a.known THEN DocBytes[a.docs[k]] ELSE 0]
      BY <1>5, <2>2
    <3>. QED BY <2>2, <3>1, <3>2 DEF Entry
  <2>4. DL' \in [1 .. n -> Entry]
    BY <1>5, <2>2, <2>3
  <2>. HIDE DEF n
  <2>5. DL' \in Seq(Entry) /\ Len(DL') = n /\ DOMAIN DL' = 1 .. n
    BY <2>2, <2>4
  <2>6. Held(DL') = 0
    BY <2>3, <2>5, NothingHeld
  <2>7. BuffersHold'
    <3>1. \A k \in DOMAIN DL' : ~DL'[k].buf
      BY <2>3, <2>5
    <3>2. BatchFits'
      BY <3>1 DEF BatchFits
    <3>. QED BY <1>2, <1>3, <2>6, <3>2 DEF BuffersHold
  <2>8. max_buf' \in {0, 1, 9}
    BY <1>5 DEF atoi
  <2>9. view'.known => \A k \in DOMAIN DL' : DL'[k].Len = DocBytes[DL'[k].num]
    BY <1>5, <2>3, <2>5
  <2>. QED BY <1>2, <2>2, <2>5, <2>7, <2>8, <2>9 DEF DocsRight
<1>6. \/ DL' = <<>> /\ UNCHANGED <<max_buf, view, phase>>
      \/ \E a \in Answers :
           /\ DL' = [k \in DOMAIN a.docs |->
                      [num |-> a.docs[k], buf |-> FALSE,
                       Len |-> IF a.known THEN DocBytes[a.docs[k]] ELSE 0]]
           /\ view'.known = a.known /\ max_buf' = atoi(Current.buffer.data)
  <2>1. CASE /\ \E a \in Answers, filter \in BOOLEAN :
                  /\ DL' = [k \in DOMAIN a.docs |->
                             [num |-> a.docs[k], buf |-> FALSE,
                              Len |-> IF a.known THEN DocBytes[a.docs[k]] ELSE 0]]
                  /\ view' = [mode |-> Current.mode.data, filter |-> filter, known |-> a.known,
                              pager |-> /\ tty /\ OutFile = stdout
                                        /\ "pager" \in DOMAIN Current
                                        /\ Current.mode.data # "count"]
             /\ max_buf' = atoi(Current.buffer.data)
    <3>1. PICK a \in Answers, filter \in BOOLEAN :
             /\ DL' = [k \in DOMAIN a.docs |->
                        [num |-> a.docs[k], buf |-> FALSE,
                         Len |-> IF a.known THEN DocBytes[a.docs[k]] ELSE 0]]
             /\ view' = [mode |-> Current.mode.data, filter |-> filter, known |-> a.known,
                         pager |-> /\ tty /\ OutFile = stdout
                                   /\ "pager" \in DOMAIN Current
                                   /\ Current.mode.data # "count"]
      BY <2>1
    <3>2. view'.known = a.known
      BY <3>1
    <3>. QED BY <2>1, <3>1, <3>2
  <2>. QED BY <2>1, Zenon DEF query
<1>. QED BY <1>4, <1>5, <1>6


LEMMA ProcessKeepsDocs ==
  ASSUME DocsRight, ProcessDoc PROVE DocsRight'
<1>. DEFINE num == DL[doc_pos + 1].num
<1>1. /\ DL \in Seq(Entry) /\ Len(DL) \in Nat
      /\ doc_pos \in 0 .. Len(DL) /\ doc_pos # Len(DL) /\ doc_pos + 1 \in 1 .. Len(DL)
  <2>1. DL \in Seq(Entry) /\ doc_pos \in 0 .. Len(DL) /\ doc_pos # Len(DL)
    BY DEF DocsRight, ProcessDoc, Done
  <2>2. Len(DL) \in Nat /\ doc_pos + 1 \in 1 .. Len(DL)
    BY <2>1, DocFacts
  <2>. QED BY <2>1, <2>2
<1>6. DOMAIN DL = 1 .. Len(DL)
  BY <1>1, DocFacts
<1>7. num \in DOMAIN DocBytes /\ DocBytes[num] \in Nat
  BY <1>1, DocFacts
<1>2. /\ TextBytes \in Int /\ Held(DL) \in Int /\ allocated = Held(DL) + TextBytes
      /\ max_buf \in {0, 1, 9} /\ phase = "show"
  BY TextTyped, HeldTyped DEF DocsRight, BuffersHold, ProcessDoc
<1>3. doc_pos' = doc_pos + 1 /\ doc_pos' \in 0 .. Len(DL)
      /\ max_buf' = max_buf /\ view' = view /\ phase' = phase
  BY <1>1 DEF ProcessDoc
<1>4. CASE view.mode # "text"
  <2>1. DL' = DL /\ TextBuffer' = TextBuffer /\ allocated' = allocated
    BY <1>4 DEF ProcessDoc
  <2>2. Held(DL') = Held(DL) /\ TextBytes' = TextBytes
    BY <2>1 DEF TextBytes
  <2>3. BatchFits' <=> BatchFits
    BY <1>3, <2>1, <2>2 DEF BatchFits
  <2>4. BuffersHold'
    BY <1>2, <1>3, <1>4, <2>1, <2>2, <2>3 DEF DocsRight, BuffersHold
  <2>. QED BY <1>3, <2>1, <2>4 DEF DocsRight
<1>5. CASE view.mode = "text"
  <2>1. /\ DL' = IF DL[doc_pos + 1].buf THEN DL ELSE Loaded
        /\ TextBuffer' = <<num>>
        /\ allocated' = allocated - TextBytes + TextBufferLen(num)
                        + (IF DL[doc_pos + 1].buf THEN 0
                           ELSE Held(SubSeq(Loaded, doc_pos + 1, doc_pos + BatchLen)) - Held(DL))
    BY <1>5 DEF ProcessDoc
  <2>2. TextBytes' = TextBufferLen(num) /\ TextBufferLen(num) \in Int
    <3>1. TextBytes' = TextBufferLen(num)
      <4>. HIDE DEF num
      <4>1. TextBuffer' # <<>> /\ TextBuffer'[1] = num
        BY <2>1
      <4>. QED BY <4>1 DEF TextBytes, TextBufferLen
    <3>2. TextBufferLen(num) \in Int
      <4>. HIDE DEF num
      <4>. QED BY <1>7 DEF TextBufferLen
    <3>. QED BY <3>1, <3>2
  <2>. HIDE DEF num
  <2>3. CASE DL[doc_pos + 1].buf
    <3>1. DL' = DL /\ allocated' = Held(DL) + TextBufferLen(num)
      BY <1>2, <2>1, <2>2, <2>3
    <3>2. Held(DL') = Held(DL)
      BY <3>1
    <3>3. BatchFits' <=> BatchFits
      BY <1>3, <3>1, <3>2 DEF BatchFits
    <3>4. BuffersHold'
      BY <1>3, <2>2, <2>3, <3>1, <3>2, <3>3 DEF DocsRight, BuffersHold
    <3>5. \E n \in DOMAIN DocBytes : TextBuffer' = <<n>>
      BY <1>7, <2>1
    <3>. QED BY <1>3, <3>1, <3>4, <3>5 DEF DocsRight
  <2>4. CASE ~DL[doc_pos + 1].buf
    <3>. DEFINE b == BatchLen
    <3>1. b \in 1 .. Rest /\ Rest = Len(DL) - doc_pos
      <4>1. max_buf \in Int
        BY <1>2
      <4>2. BatchLen \in 1 .. Rest
        BY <1>1, <4>1, BatchLenRight
      <4>. QED BY <4>2 DEF Rest
    <3>2. /\ Loaded \in Seq(Entry) /\ Len(Loaded) = Len(DL) /\ DOMAIN Loaded = 1 .. Len(DL)
          /\ \A k \in 1 .. Len(DL) : /\ Loaded[k].num = DL[k].num
                                     /\ Loaded[k].buf <=> k \in doc_pos + 1 .. doc_pos + b
                                     /\ Loaded[k].Len \in {DL[k].Len, DocBytes[DL[k].num]}
      BY <1>1, <3>1, LoadedRight, DocFacts
    <3>3. DL' = Loaded
      BY <2>1, <2>4
    <3>4. Held(SubSeq(Loaded, doc_pos + 1, doc_pos + b)) = Held(Loaded) /\ Held(Loaded) \in Int
      <4>. HIDE DEF b
      <4>2. doc_pos \in Nat /\ b \in Nat /\ doc_pos + b <= Len(DL)
        BY <1>1, <3>1
      <4>3. IsBatch(Loaded, doc_pos, b)
        BY <3>2 DEF IsBatch
      <4>4. doc_pos + b <= Len(Loaded)
        BY <3>2, <4>2
      <4>5. Held(SubSeq(Loaded, doc_pos + 1, doc_pos + b)) = Held(Loaded)
        BY <3>2, <4>2, <4>3, <4>4, HeldBatch
      <4>. QED BY <3>2, <4>5, HeldTyped
    <3>5. allocated' = Held(Loaded) + TextBufferLen(num)
      BY <1>2, <2>1, <2>2, <2>4, <3>4
    <3>6. view.known => \A k \in DOMAIN Loaded : Loaded[k].Len = DocBytes[Loaded[k].num]
      BY <1>1, <1>6, <3>2 DEF DocsRight
    <3>7. view.known =>
            \A k \in DOMAIN Loaded :
              Loaded[k].buf /\ (\A j \in k + 1 .. Len(Loaded) : ~Loaded[j].buf)
                => \/ Held(Loaded) = DocBytes[Loaded[k].num]
                   \/ Held(Loaded) - DocBytes[Loaded[k].num] < max_buf
      <4>. SUFFICES ASSUME view.known, NEW k \in 1 .. Len(DL), Loaded[k].buf,
                           \A j \in k + 1 .. Len(DL) : ~Loaded[j].buf
                    PROVE  \/ Held(Loaded) = DocBytes[Loaded[k].num]
                           \/ Held(Loaded) - DocBytes[Loaded[k].num] < max_buf
        BY <3>2
      <4>1. \A m \in DOMAIN DL : DL[m].Len = DocBytes[DL[m].num]
        BY DEF DocsRight
      <4>. QED BY <1>1, <1>2, <4>1, BatchLoadedFits
    <3>8. Loaded[doc_pos'].buf
      <4>. HIDE DEF b
      <4>1. doc_pos + 1 \in doc_pos + 1 .. doc_pos + b
        <5>1. b >= 1 /\ b \in Int /\ doc_pos \in Int
          BY <1>1, <3>1
        <5>. QED BY <5>1
      <4>. QED BY <1>1, <1>3, <3>2, <4>1
    <3>. HIDE DEF b
    <3>9. BatchFits' \/ ~view'.known
      BY <1>3, <3>3, <3>7 DEF BatchFits
    <3>10. BuffersHold'
      BY <2>2, <3>3, <3>5, <3>8, <3>9 DEF BuffersHold
    <3>11. \E n \in DOMAIN DocBytes : TextBuffer' = <<n>>
      BY <1>7, <2>1
    <3>. QED BY <1>1, <1>2, <1>3, <3>2, <3>3, <3>6, <3>10, <3>11 DEF DocsRight
  <2>. QED BY <2>3, <2>4
<1>. QED BY <1>4, <1>5

LEMMA EndKeepsDocs ==
  ASSUME DocsRight, EndDocs PROVE DocsRight'
<1>1. /\ DL \in Seq(Entry) /\ allocated = Held(DL) + TextBytes /\ Held(DL) \in Int /\ TextBytes \in Int
  BY TextTyped, HeldTyped DEF DocsRight, BuffersHold
<1>2. /\ allocated' = Held(DL) /\ TextBuffer' = <<>> /\ phase' = "line"
      /\ DL' = DL /\ doc_pos' = doc_pos /\ max_buf' = max_buf /\ view' = view
  BY <1>1 DEF EndDocs
<1>3. TextBytes' = 0 /\ Held(DL') = Held(DL)
  BY <1>2 DEF TextBytes
<1>4. BatchFits' <=> BatchFits
  BY <1>2, <1>3 DEF BatchFits
<1>5. BuffersHold'
  BY <1>1, <1>2, <1>3, <1>4 DEF DocsRight, BuffersHold
<1>. QED BY <1>2, <1>5 DEF DocsRight

LEMMA DocsStart == SessionInit => DocsRight
<1>. SUFFICES ASSUME SessionInit PROVE DocsRight
  OBVIOUS
<1>1. /\ DL = <<>> /\ doc_pos = 0 /\ TextBuffer = <<>> /\ allocated = 0 /\ phase = "mgrc"
      /\ view.known = FALSE
  BY DEF SessionInit, NoView
<1>2. DL \in Seq(Entry) /\ Len(DL) = 0 /\ DOMAIN DL = {}
  BY <1>1
<1>3. Held(DL) = 0
  <2>1. \A k \in 1 .. Len(DL) : ~DL[k].buf
    BY <1>2
  <2>. QED BY <1>2, <2>1, NothingHeld
<1>4. BuffersHold
  BY <1>1, <1>2, <1>3 DEF BuffersHold, BatchFits, TextBytes
<1>. QED BY <1>1, <1>2, <1>4 DEF DocsRight

LEMMA DocsStep == DocsRight /\ [SessionNext]_sessionVars => DocsRight'
<1>. SUFFICES ASSUME DocsRight, [SessionNext]_sessionVars PROVE DocsRight'
  OBVIOUS
<1>1. CASE query
  BY <1>1, QueryKeepsDocs
<1>2. CASE ProcessDoc
  BY <1>2, ProcessKeepsDocs
<1>3. CASE EndDocs
  BY <1>3, EndKeepsDocs
<1>4. CASE CmdSet \/ CmdUnset \/ CmdPush \/ CmdPop \/ CmdReset \/ CmdQuit \/ CmdInput \/ CmdOutput
  <2>1. UNCHANGED docVars /\ phase' \in {phase, "crashed"}
    BY <1>4 DEF CmdSet, CmdUnset, CmdPush, CmdPop, CmdReset, CmdQuit, CmdInput, CmdOutput,
                Redirect, Command
  <2>. QED BY <2>1, DocsStay DEF docVars
<1>5. CASE main \/ EndOfInput \/ Quit
  <2>1. UNCHANGED docVars /\ phase' \in {"line", "ended", phase} /\ phase # "show"
    BY <1>5 DEF main, EndOfInput, Quit
  <2>. QED BY <2>1, DocsStay DEF docVars
<1>6. CASE PagerFails \/ SIGPIPE_handler \/ SIGINT_handler
  <2>1. /\ UNCHANGED <<DL, doc_pos, TextBuffer, allocated, max_buf, view>>
        /\ phase = "show"
    BY <1>6 DEF PagerFails, SIGPIPE_handler, SIGINT_handler, docVars
  <2>. QED BY <2>1, DocsStay
<1>7. CASE UNCHANGED sessionVars
  BY <1>7, DocsStay DEF sessionVars, docVars
<1>. QED BY <1>1, <1>2, <1>3, <1>4, <1>5, <1>6, <1>7 DEF SessionNext

(***************************************************************************)
(* For any answers, interrupted or not and whatever else was shown before: *)
(* a document is in memory when it is shown, what is allocated is what the *)
(* answer and the text buffer hold, so that nothing is left when a query   *)
(* frees them, and a batch whose lengths are known is below the parameter  *)
(* buffer but for its last document (LoadBuffers, FreeQueryDocs).          *)
(***************************************************************************)
THEOREM DocumentsHeld == SessionSpec => []BuffersHold
<1>1. DocsRight => BuffersHold
  BY DEF DocsRight
<1>. QED BY <1>1, DocsStart, DocsStep, PTL DEF SessionSpec
=============================================================================
