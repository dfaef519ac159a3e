------------------------------ MODULE BoolTree ------------------------------
(***************************************************************************)
(* The parse trees of Boolean queries (bool_tree.h, bool_tree.c) and the   *)
(* rewriting of bool_optimiser.c.  A node is a record; its list of         *)
(* children, linked through the sibling pointers in the code, is a         *)
(* sequence.  Terms are compared by DocCount, the number of documents a    *)
(* term occurs in.                                                         *)
(***************************************************************************)
EXTENDS Integers, Sequences, FiniteSets, TLC

CONSTANTS
  Terms,        \* the terms of a query
  Postings      \* the documents (at level 3, paragraphs) a term occurs in

\* doc_count of a term; 0 when it is not in the dictionary.
DocCount(t) == Cardinality(Postings[t])

Node(tag, kids) == [tag |-> tag, term |-> 0, kids |-> kids]
TermNode(t) == [tag |-> "term", term |-> t, kids |-> <<>>]
All  == Node("all", <<>>)
None == Node("none", <<>>)
Not(t) == Node("not", <<t>>)

\* The trees with one level more than those in below, as bool_parser.y builds
\* them; it nests and- and or-nodes to the left and the right alike.
Above(below, other) ==
  {Not(t) : t \in below}
    \cup {Node(tag, <<a, b>>) : tag \in {"and", "or"}, a \in below, b \in other}
    \cup {Node(tag, <<b, a>>) : tag \in {"and", "or"}, a \in below, b \in other}

-----------------------------------------------------------------------------
\* Terms that are not in the dictionary become false.
RECURSIVE FindNoneTerms(_)
FindNoneTerms(t) ==
  IF t.tag = "term" THEN IF DocCount(t.term) = 0 THEN None ELSE t
  ELSE [t EXCEPT !.kids = [i \in DOMAIN @ |-> FindNoneTerms(@[i])]]

\* Mutant: only the first operand is negated.
AndDeMorganOnce(a, b) == Node("or", <<Not(a), b>>)

AndDeMorgan(a, b) == Node("or", <<Not(a), Not(b)>>)
OrDeMorgan(a, b)  == Node("and", <<Not(a), Not(b)>>)

\* DeMorgan and double negation, from the root down; the trees are binary.
RECURSIVE PermeateNots(_)
PermeateNots(t) ==
  LET Below(u) == [u EXCEPT !.kids = [i \in DOMAIN @ |-> PermeateNots(@[i])]]
  IN IF t.tag # "not" THEN Below(t)
     ELSE LET c == t.kids[1]
          IN CASE c.tag = "not" -> PermeateNots(c.kids[1])
               [] c.tag = "and" -> Below(AndDeMorgan(c.kids[1], c.kids[2]))
               [] c.tag = "or"  -> Below(OrDeMorgan(c.kids[1], c.kids[2]))
               [] OTHER         -> Below(t)

\* A node whose value unit makes no difference and zero decides.
TrueFalse(t, unit, zero) ==
  LET kept == SelectSeq(t.kids, LAMBDA u : u.tag # unit)
  IN CASE \E i \in DOMAIN t.kids : t.kids[i].tag = zero -> Node(zero, <<>>)
       [] kept = <<>>    -> Node(unit, <<>>)
       [] Len(kept) = 1  -> kept[1]
       [] OTHER          -> [t EXCEPT !.kids = kept]

AndTrueFalse(t) == TrueFalse(t, "all", "none")

\* Mutant: OrTrueFalse as it stood before "false | false" was handled.
OrTrueFalseLeft(t) ==
  LET kept == SelectSeq(t.kids, LAMBDA u : u.tag # "none")
  IN IF \E i \in DOMAIN t.kids : t.kids[i].tag = "all" THEN All
     ELSE [t EXCEPT !.kids = kept]

OrTrueFalse(t) == TrueFalse(t, "none", "all")

\* The rules for true and false, from the leaves up.
RECURSIVE TF_Idempotent(_)
TF_Idempotent(t) ==
  LET u == [t EXCEPT !.kids = [i \in DOMAIN @ |-> TF_Idempotent(@[i])]]
  IN CASE u.tag = "not" /\ u.kids[1].tag = "all"  -> None
       [] u.tag = "not" /\ u.kids[1].tag = "none" -> All
       [] u.tag = "and" -> AndTrueFalse(u)
       [] u.tag = "or"  -> OrTrueFalse(u)
       [] OTHER         -> u

\* (a | b) & A becomes (a & A) | (b & A).
Distributed(t, A) ==
  Node("or", <<Node("and", <<t.kids[1], A>>), Node("and", <<t.kids[2], A>>)>>)

\* Mutant: a change is reported of every and-node.
AndDistributeOn(t) ==
  [tree |-> t, changed |-> t.tag = "and"]

\* One pass of the distributive law, and whether it changed anything.  A node
\* just distributed is gone over again.
RECURSIVE AndDistribute(_)
AndDistribute(t) ==
  LET again(u) == [tree |-> AndDistribute(u).tree, changed |-> TRUE]
      kids == [i \in DOMAIN t.kids |-> AndDistribute(t.kids[i])]
  IN IF t.tag \notin {"and", "or"} THEN [tree |-> t, changed |-> FALSE]
     ELSE IF t.tag = "and" /\ t.kids[2].tag = "or"
     THEN again(Distributed(t.kids[2], t.kids[1]))
     ELSE IF t.tag = "and" /\ t.kids[1].tag = "or"
     THEN again(Distributed(t.kids[1], t.kids[2]))
     ELSE [tree |-> [t EXCEPT !.kids = [i \in DOMAIN kids |-> kids[i].tree]],
           changed |-> \E i \in DOMAIN kids : kids[i].changed]

\* Children of the parent's kind are replaced with their own children.
RECURSIVE ReplaceWithChildren(_, _)
ReplaceWithChildren(tag, kids) ==
  IF kids = <<>> THEN <<>>
  ELSE (IF Head(kids).tag = tag THEN ReplaceWithChildren(tag, Head(kids).kids)
        ELSE <<Head(kids)>>) \o ReplaceWithChildren(tag, Tail(kids))

RECURSIVE CollapseTree(_)
CollapseTree(t) ==
  IF t.tag \notin {"and", "or"} THEN t
  ELSE LET kids == ReplaceWithChildren(t.tag, t.kids)
       IN [t EXCEPT !.kids = [i \in DOMAIN kids |-> CollapseTree(kids[i])]]

-----------------------------------------------------------------------------
\* Mutant: of several positive children only the first is kept.
DiffOfFirst(pos, neg) == Node("diff", <<pos[1]>> \o neg)

\* The difference of the and of pos and each of neg.
DiffOf(pos, neg) ==
  Node("diff", (IF Len(pos) = 1 THEN pos ELSE <<Node("and", pos)>>) \o neg)

\* An and-node with negated children becomes a difference.  When all are
\* negated, the first of them stays negated on the left.
AndNotToDiff(t) ==
  LET negated == SelectSeq(t.kids, LAMBDA u : u.tag = "not")
      others  == SelectSeq(t.kids, LAMBDA u : u.tag # "not")
      pos == IF others = <<>> THEN <<negated[1]>> ELSE others
      neg == IF others = <<>> THEN Tail(negated) ELSE negated
  IN IF negated = <<>> THEN t
     ELSE DiffOf(pos, [i \in DOMAIN neg |-> neg[i].kids[1]])

\* DiffTree looks at the root, and goes on below it only into a difference it
\* has just made.
RECURSIVE DiffTree(_)
DiffTree(t) ==
  IF t.tag # "and" THEN t
  ELSE LET u == AndNotToDiff(t)
       IN IF u.tag = "and" THEN u
          ELSE [u EXCEPT !.kids = [i \in DOMAIN @ |-> DiffTree(@[i])]]

\* A tree in DNF is one conjunct or an or-node of some; a pass over it sees to
\* each conjunct.
ConjunctsIn(t) == {i \in DOMAIN t.kids : t.tag = "or" /\ t.kids[i].tag = "and"}

DiffDNF(t) ==
  IF t.tag = "and" THEN AndNotToDiff(t)
  ELSE [t EXCEPT !.kids =
          [i \in DOMAIN @ |->
             IF i \in ConjunctsIn(t) THEN AndNotToDiff(@[i]) ELSE @[i]]]

-----------------------------------------------------------------------------
OnlyTerms(t) == \A i \in DOMAIN t.kids : t.kids[i].tag = "term"

\* Or-nodes of terms only are marked.
RECURSIVE MarkOrTerms(_)
MarkOrTerms(t) ==
  IF t.tag = "or" /\ OnlyTerms(t) THEN [t EXCEPT !.tag = "or_terms"]
  ELSE [t EXCEPT !.kids = [i \in DOMAIN @ |-> MarkOrTerms(@[i])]]

calc_sum_ft(t) ==
  LET sum[n \in 0 .. Len(t.kids)] ==
        IF n = 0 THEN 0 ELSE sum[n - 1] + DocCount(t.kids[n].term)
  IN sum[Len(t.kids)]

\* Terms come before all else, the rarer the earlier.
AndSort_comp(a, b) ==
  \/ a.tag = "term" /\ b.tag = "term" /\ DocCount(a.term) < DocCount(b.term)
  \/ a.tag = "term" /\ b.tag # "term"

\* The same for terms and or-nodes of terms, by the sum of their counts.
AndOrSort_comp(a, b) ==
  LET Counted(t) == t.tag \in {"term", "or_terms"}
      ft(t) == IF t.tag = "term" THEN DocCount(t.term) ELSE calc_sum_ft(t)
  IN \/ Counted(a) /\ Counted(b) /\ ft(a) < ft(b)
     \/ Counted(a) /\ ~Counted(b)

SortConjunct(t) == [t EXCEPT !.kids = SortSeq(@, AndSort_comp)]
AndSortDNF(t) ==
  IF t.tag = "and" THEN SortConjunct(t)
  ELSE [t EXCEPT !.kids =
          [i \in DOMAIN @ |->
             IF i \in ConjunctsIn(t) THEN SortConjunct(@[i]) ELSE @[i]]]

RECURSIVE AndOrSort(_)
AndOrSort(t) ==
  LET kids == IF t.tag = "and" THEN SortSeq(t.kids, AndOrSort_comp) ELSE t.kids
  IN [t EXCEPT !.kids = [i \in DOMAIN kids |-> AndOrSort(kids[i])]]
=============================================================================
