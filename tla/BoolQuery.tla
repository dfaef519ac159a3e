----------------------------- MODULE BoolQuery ------------------------------
(***************************************************************************)
(* A Boolean query, BooleanQuery() of bool_query.c: the tree is parsed,    *)
(* optimised as the environment variable optimise_type says and evaluated  *)
(* against the postings, and the answer is cut down to what may be         *)
(* retrieved.  A list of documents is a set here: the list operations of   *)
(* lists.c are modelled in DocLists, the reading of postings in InvfSkip.  *)
(***************************************************************************)
EXTENDS BoolTree, FiniteSetsExt

CONSTANTS
  Queries,      \* bound: the parse trees to choose from
  ItersLimit,   \* ITER_LIMIT: passes before DNF_Distribute gives up
  Unlimited,    \* maxdocs "all"
  MaxDocs,      \* the values of maxdocs to choose from
  Real          \* at level 3 the document of each paragraph, else itself

ASSUME QueryConstants ==
  /\ ItersLimit \in Nat
  /\ MaxDocs \subseteq Nat \cup {Unlimited}
  /\ \A t \in Terms : Postings[t] \subseteq DOMAIN Real

VARIABLES
  query,   \* the tree as parsed
  type,    \* optimise_type
  maxdocs, \* MaxDocsToRetrieve, once it has been looked at
  tree,    \* the tree as it is now
  iters,   \* passes of the distributive law
  pc,      \* the next call
  docs     \* the answer

queryVars == <<query, type, maxdocs, tree, iters, pc, docs>>

-----------------------------------------------------------------------------

QueryInit ==
  /\ query \in Queries
  /\ type \in 0 .. 2
  /\ maxdocs = Unlimited
  /\ tree = query
  /\ iters = 0
  /\ pc = "FindNoneTerms"
  /\ docs = {}

Rewrite(from, new, to) ==
  /\ pc = from
  /\ tree' = new
  /\ pc' = to
  /\ UNCHANGED <<query, type, maxdocs, iters, docs>>

Prepare ==
  \/ Rewrite("FindNoneTerms", FindNoneTerms(tree),
             IF type = 0 THEN "BooleanGet" ELSE "PermeateNots")
  \/ Rewrite("PermeateNots", PermeateNots(tree), "TF_Idempotent")
  \/ Rewrite("TF_Idempotent", TF_Idempotent(tree),
             IF type = 2 THEN "DNF_Distribute" ELSE "CollapseTree")

\* The limit is tested after a pass that changed the tree.
DNF_Distribute ==
  /\ pc = "DNF_Distribute"
  /\ tree' = AndDistribute(tree).tree
  /\ iters' = IF AndDistribute(tree).changed THEN iters + 1 ELSE iters
  /\ pc' = CASE ~AndDistribute(tree).changed -> "CollapseTree"
             [] AndDistribute(tree).changed /\ iters = ItersLimit -> "FatalError"
             [] OTHER -> "DNF_Distribute"
  /\ UNCHANGED <<query, type, maxdocs, docs>>

Ameliorate ==
  \/ Rewrite("CollapseTree", CollapseTree(tree),
             IF type = 1 THEN "DiffTree" ELSE "AndSortDNF")
  \/ Rewrite("DiffTree", DiffTree(tree), "MarkOrTerms")
  \/ Rewrite("MarkOrTerms", MarkOrTerms(tree), "AndOrSort")
  \/ Rewrite("AndOrSort", AndOrSort(tree), "BooleanGet")
  \/ Rewrite("AndSortDNF", AndSortDNF(tree), "DiffDNF")
  \/ Rewrite("DiffDNF", DiffDNF(tree), "BooleanGet")

-----------------------------------------------------------------------------
\* The documents of a marked or-node among found: each child's postings are
\* looked up for the documents not marked yet, and ReduceList keeps the marked.
Marked(t, found) ==
  {d \in found : \E i \in DOMAIN t.kids : d \in Postings[t.kids[i].term]}

\* What BooleanGet makes of "all" and "not" is a message and an empty list.
RECURSIVE Get(_)
Get(t) ==
  LET Given(u) == IF u.tag = "term" THEN Postings[u.term] ELSE Get(u)
      diff[n \in 1 .. Len(t.kids)] ==
        IF n = 1 THEN Get(t.kids[1]) ELSE diff[n - 1] \ Given(t.kids[n])
      and[n \in 1 .. Len(t.kids)] ==
        IF n = 1 THEN Get(t.kids[1])
        ELSE IF t.kids[n].tag = "or_terms" THEN Marked(t.kids[n], and[n - 1])
        ELSE and[n - 1] \cap Given(t.kids[n])
  IN CASE t.tag \in {"all", "not", "none"} -> {}
       [] t.tag = "diff" -> diff[Len(t.kids)]
       [] t.tag = "and"  -> and[Len(t.kids)]
       [] t.tag \in {"or", "or_terms"} ->
            UNION {Get(t.kids[i]) : i \in DOMAIN t.kids}
       [] t.tag = "term" -> Postings[t.term]

\* AdjustParaDocs keeps the first paragraph of each document; the answer is cut
\* to maxdocs after that.
Retrievable(found) ==
  LET adjusted == {d \in found : \A e \in found : Real[e] = Real[d] => d <= e}
  IN IF maxdocs' = Unlimited THEN adjusted
     ELSE {d \in adjusted : Cardinality({e \in adjusted : e < d}) < maxdocs'}

BooleanGet ==
  /\ pc = "BooleanGet"
  /\ maxdocs' \in MaxDocs
  /\ docs' = Retrievable(Get(tree))
  /\ pc' = "done"
  /\ UNCHANGED <<query, type, tree, iters>>

QueryNext == Prepare \/ DNF_Distribute \/ Ameliorate \/ BooleanGet

QuerySpec == QueryInit /\ [][QueryNext]_queryVars /\ WF_queryVars(QueryNext)

-----------------------------------------------------------------------------

\* What a tree says of a document that holds the terms in held.
RECURSIVE Holds(_, _)
Holds(t, held) ==
  CASE t.tag = "term" -> t.term \in held
    [] t.tag = "all"  -> TRUE
    [] t.tag = "none" -> FALSE
    [] t.tag = "not"  -> ~Holds(t.kids[1], held)
    [] t.tag = "and"  -> \A i \in DOMAIN t.kids : Holds(t.kids[i], held)
    [] t.tag \in {"or", "or_terms"} -> \E i \in DOMAIN t.kids : Holds(t.kids[i], held)
    [] t.tag = "diff" -> /\ Holds(t.kids[1], held)
                         /\ \A i \in 2 .. Len(t.kids) : ~Holds(t.kids[i], held)

Held(d) == {t \in Terms : d \in Postings[t]}

Meaning(t) == {d \in DOMAIN Real : Holds(t, Held(d))}

(***************************************************************************)
(* No step of either optimisation changes which documents a query means.   *)
(***************************************************************************)
MeaningKept == Meaning(tree) = Meaning(query)

(***************************************************************************)
(* What the code after a step takes for granted: once true and false are   *)
(* folded they are never below the root, and every and- and or-node has    *)
(* two children at least (LastBoolSibling follows a second sibling without *)
(* looking, AndNotToDiff takes one child of two away); before that and     *)
(* until the tree is collapsed they are binary; every child of a marked    *)
(* or-node is a term (its term_id is read from the union it shares with    *)
(* the child pointer).                                                     *)
(***************************************************************************)
Unfolded == {"FindNoneTerms", "PermeateNots", "TF_Idempotent"}
InPairs  == Unfolded \cup {"DNF_Distribute"}

RECURSIVE Subtrees(_)
Subtrees(t) == {t} \cup UNION {Subtrees(t.kids[i]) : i \in DOMAIN t.kids}

TreeWellFormed ==
  \A t \in Subtrees(tree) :
    /\ t.tag \in {"and", "or", "diff", "or_terms"} => Len(t.kids) >= 2
    /\ t.tag \in {"and", "or"} /\ pc \in InPairs => Len(t.kids) = 2
    /\ t.tag = "not" => Len(t.kids) = 1
    /\ t.tag = "or_terms" => \A i \in DOMAIN t.kids : t.kids[i].tag = "term"
    /\ type # 0 /\ pc \notin Unfolded =>
         \A i \in DOMAIN t.kids : t.kids[i].tag \notin {"all", "none"}

(***************************************************************************)
(* DNF_Distribute ends on its own, never with "DNF infinite loop".         *)
(***************************************************************************)
NoInfiniteLoop == pc # "FatalError"

(***************************************************************************)
(* Every step of the rewriting is given a tree of the shape it relies on,  *)
(* and ends.                                                               *)
(***************************************************************************)
StepsHold == TreeWellFormed /\ NoInfiniteLoop

(***************************************************************************)
(* No optimisation makes a document turn up that does not match the query. *)
(* In DNF every query is answered in full that a document without any of   *)
(* its words would not match; such a query the evaluation cannot answer    *)
(* from postings.  When the answer is cut, what is left are the first.     *)
(* The other types answer in full what is left without a negation; all a   *)
(* negation elsewhere than in the outermost "and" costs is documents.      *)
(***************************************************************************)
AnswersMatch == docs \subseteq Meaning(query)

Answer(found) ==
  /\ docs \subseteq found
  /\ IF maxdocs = Unlimited
     THEN {Real[d] : d \in docs} = {Real[d] : d \in found}
     ELSE Cardinality({Real[d] : d \in docs}) =
            Min({maxdocs, Cardinality({Real[d] : d \in found})})
  /\ \A d \in docs, e \in found : e < d => \E f \in docs : Real[f] = Real[e]

DNFAnswersInFull ==
  pc = "done" /\ type = 2 /\ ~Holds(query, {}) => Answer(Meaning(query))

RECURSIVE Positive(_)
Positive(t) ==
  t.tag \notin {"not", "all"} /\ \A i \in DOMAIN t.kids : Positive(t.kids[i])

PositiveAnsweredInFull ==
  pc = "done" /\ Positive(query) => Answer(Meaning(query))

AnsweredRight == AnswersMatch /\ DNFAnswersInFull /\ PositiveAnsweredInFull

(***************************************************************************)
(* The comment of DiffTree: unlike DiffDNF, this routine will search       *)
(* throughout the tree for and-nodes.  After it no and-node has both a     *)
(* negated child and one that is not.                                      *)
(***************************************************************************)
DiffTreeReachesAll ==
  pc = "MarkOrTerms" =>
    \A t \in Subtrees(tree) :
      t.tag = "and" => ~\E i, j \in DOMAIN t.kids :
                          t.kids[i].tag = "not" /\ t.kids[j].tag # "not"
=============================================================================
