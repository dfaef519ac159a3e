---------------------------- MODULE MCBoolQuery -----------------------------
(***************************************************************************)
(* A Boolean query, the operations on lists of documents that answer it,   *)
(* and how they are read from an inverted file with skips.                 *)
(***************************************************************************)
EXTENDS BoolQuery, DocLists, InvfSkip, TLC

VARIABLE program   \* whose states these are

\* Two words that occur and one that does not; together with document 4 every
\* combination of the two is in some document.
MCPostings == (1 :> {1, 2, 5}) @@ (2 :> {1, 3, 5}) @@ (3 :> {})

\* The first two paragraphs are of one document.
MCReal == (1 :> 1) @@ (2 :> 1) @@ (3 :> 3) @@ (4 :> 4) @@ (5 :> 5)

\* Every tree of two levels and every tree of three.
Leaves == {TermNode(t) : t \in Terms} \cup {All, None}
Two    == Leaves \cup Above(Leaves, Leaves)
Three  == Two \cup Above(Two, Two)

\* Of the trees with four levels those over the words that occur, with a
\* single word beside the tallest subtree.
Words2 == {TermNode(1), TermNode(2)}
Two2   == Words2 \cup Above(Words2, Words2)
Three2 == Two2 \cup Above(Two2, Two2)
Four2  == Above(Three2, Words2)

MCQueries == Three \cup Four2

\* Every list of documents 1 .. 4, unmarked or with 1 and 4 marked; every
\* document has a weight of its own.
MCLists ==
  UNION {LET listed == SetToSortSeq(S, LAMBDA x, y : x < y)
         IN {[n \in DOMAIN listed |-> [DocNum |-> listed[n], Weight |-> listed[n] * 2,
                                       or_included |-> listed[n] \in M]] :
               M \in {{}, S \cap {1, 4}}} : S \in SUBSET (1 .. 4)}

\* The increasing sequence of the members of a set of numbers.
Sorted(S) == SetToSortSeq(S, LAMBDA x, y : x < y)

\* Every set of documents, with counts of all lengths in the gamma code.
MCPostingLists ==
  {[n \in 1 .. Cardinality(S) |->
      [doc_num |-> Sorted(S)[n], count |-> 1 + (Sorted(S)[n] % 3)]] :
    S \in SUBSET (1 .. NumDocs) \ {{}}}

\* Every list of at most two candidates, each marked or not, and all documents.
Candidates(S, Included) ==
  [n \in 1 .. Cardinality(S) |->
     [DocNum |-> Sorted(S)[n], or_included |-> Sorted(S)[n] \in Included]]
MCCandidateLists ==
  {Candidates(1 .. NumDocs, {2})}
    \cup UNION {{Candidates(S, Included) : Included \in SUBSET S} :
                  S \in UNION {kSubset(n, 1 .. NumDocs) : n \in 0 .. 2}}

Skip(m, k, max_nodes, mins) ==
  [mode |-> m, k |-> k, max_nodes |-> max_nodes, mins |-> mins]
MCSkipModes ==
  {NoSkips, Skip(1, 1, 0, 0), Skip(1, 2, 0, 0), Skip(1, 3, 0, 0),
   Skip(2, 0, 2, 1), Skip(2, 0, 9, 2)}
MCOneSkip == {Skip(1, 2, 0, 0)}

QueryOff ==
  /\ query = All /\ tree = All /\ type = 0 /\ maxdocs = Unlimited /\ iters = 0
  /\ docs = {} /\ pc = "off"

ListsOff ==
  /\ fn = "off" /\ List1 = <<>> /\ List2 = <<>> /\ null1 = TRUE /\ null2 = TRUE
  /\ mem = <<>> /\ s1 = 0 /\ s2 = 0 /\ d = 0 /\ at = "off"

SkipOff ==
  /\ postings = <<>> /\ file = <<>> /\ mode = NoSkips /\ prog = "off"
  /\ outmode = NoSkips /\ out = <<>> /\ ii = <<>>
  /\ j = 0 /\ doc_num = 0 /\ bits_so_far = 0 /\ next_mjr_dn = 0
  /\ last_major = 0 /\ in_pos = 1 /\ promised = 0
  /\ op = "op_term" /\ L = <<>> /\ candidates = <<>>
  /\ i = 0 /\ pos = 1 /\ CurrDoc = 0 /\ next_i = 0 /\ next_start = 1
  /\ next_doc_num = 0 /\ block_counter = 0 /\ src = 0 /\ dest = 0
  /\ turn = "off"

MCInit ==
  \/ program = "query" /\ QueryInit /\ ListsOff /\ SkipOff
  \/ program = "lists" /\ Init /\ QueryOff /\ SkipOff
  \/ program = "skips" /\ SkipInit /\ QueryOff /\ ListsOff

MCNext ==
  \/ program = "query" /\ QueryNext /\ UNCHANGED <<program, vars, skipVars>>
  \/ program = "lists" /\ Next /\ UNCHANGED <<program, queryVars, skipVars>>
  \/ program = "skips" /\ SkipNext /\ UNCHANGED <<program, queryVars, vars>>

\* A list operation that was called runs until it returns; of the others no end
\* is asked for.
MCSpec ==
  /\ MCInit
  /\ [][MCNext]_<<program, queryVars, vars, skipVars>>
  /\ WF_vars(program = "lists" /\ Next /\ UNCHANGED <<program, queryVars, skipVars>>)
=============================================================================
