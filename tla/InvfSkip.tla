------------------------------ MODULE InvfSkip ------------------------------
(***************************************************************************)
(* Skipping in the inverted file: process_files of                         *)
(* src/text/mg_invf_rebuild.c, which rewrites the list of a word with or   *)
(* without skip headers, and GetDocsOp of src/text/invf_get.c, which uses  *)
(* the headers to hop over blocks of postings while it combines the list   *)
(* with a list of candidate documents.                                     *)
(*                                                                         *)
(* The list is a real bit string, in the codes of BitCodes; bit positions  *)
(* count from 1.  In a list with skips of k postings every block of k that *)
(* is not the last starts with the last document of the block and the bits *)
(* from there to the next block, and the gap of that last document is left *)
(* out.  The lists of other words, and the padding that puts every list on *)
(* a byte boundary, are left out, so is the bookkeeping of memory in use.  *)
(* static_num_of_docs is num_of_docs: they differ only after mg_invf_merge. *)
(***************************************************************************)
EXTENDS BitCodes, SequencesExt, FiniteSetsExt

CONSTANTS
  NumDocs,         \* number of documents, idh.num_of_docs
  InvfLevel,       \* from 2 on the list holds the counts
  PostingLists,    \* lists a word may have: sequences of [doc_num, count]
  SkipModes,       \* -0, -1 -k k and -2 -m m -s s: [mode, k, max_nodes, mins]
  CandidateLists,  \* lists of documents GetDocsOp may be given
  Garbage          \* what the count_bits of fresh memory may hold

\* The lists are in the order of the documents; a word that is in the file
\* occurs somewhere.
ASSUME SkipConstants ==
  /\ NumDocs \in Nat \ {0}
  /\ InvfLevel \in 1 .. 3
  /\ \A list \in PostingLists :
       /\ list \in Seq([doc_num : 1 .. NumDocs, count : Nat \ {0}])
       /\ list # <<>>
       /\ \A m, n \in DOMAIN list : m < n => list[m].doc_num < list[n].doc_num
  /\ \A m \in SkipModes : /\ m \in [mode : 0 .. 2, k : Nat, max_nodes : Nat, mins : Nat]
                          /\ m.mode = 1 => m.k > 0
                          /\ m.mode = 2 => m.max_nodes > 0 /\ m.mins > 0
  /\ \A list \in CandidateLists :
       /\ list \in Seq([DocNum : Nat \ {0}, or_included : BOOLEAN])
       /\ \A m, n \in DOMAIN list : m < n => list[m].DocNum < list[n].DocNum
  /\ Garbage \subseteq Nat

VARIABLES
  postings,      \* the true list of the word
  file, mode,    \* its bits in the inverted file, and the file's skip mode
  prog,          \* what runs: "none", "read", "write" (process_files), "get"
  outmode, out,  \* process_files: the skip mode to write, the bits written
  ii,            \* what it has read: doc_num, count, bits_so_far, count_bits
  j, doc_num, bits_so_far, next_mjr_dn, last_major, in_pos,  \* as in the code
  promised,      \* where the last header said the next block would start
  op, L, candidates,  \* GetDocsOp: its operation, its list, the list it got
  i, pos, CurrDoc, next_i, next_start, next_doc_num, block_counter, src, dest,
  turn             \* where in its loop it is

given == <<postings, file, mode>>
rebuildvars == <<outmode, out, ii, j, doc_num, bits_so_far, next_mjr_dn,
                 last_major, in_pos, promised>>
cursor == <<i, pos, CurrDoc, next_i, next_start, next_doc_num, block_counter>>
getvars == <<op, L, candidates, cursor, src, dest, turn>>
skipVars == <<given, prog, rebuildvars, getvars>>

p == Len(postings)
DocsOf(list) == {list[n].doc_num : n \in DOMAIN list}
wcnt ==
  LET sum[n \in 0 .. p] == IF n = 0 THEN 0 ELSE sum[n - 1] + postings[n].count
  IN sum[p]
HasCounts == InvfLevel >= 2

blk == BblockInit(NumDocs, p)

\* The length of a skip: 2 sqrt(p / max_nodes) rounded down, but at least mins,
\* in mode 2; 0 for a list too short to skip in.
SkipSize(m) ==
  CASE m.mode = 1 /\ p > m.k    -> m.k
    [] m.mode = 2 /\ p > m.mins ->
         Max({m.mins} \cup {r \in 1 .. 2 * p : r * r * m.max_nodes <= 4 * p})
    [] OTHER -> 0
Blocks(k) == (p + k - 1) \div k
dn_blk(k) == BblockInit(NumDocs, Blocks(k))
len_blk(k) ==
  BblockInit(BblockBound(NumDocs, p) + (IF HasCounts THEN wcnt ELSE 0), Blocks(k))

\* Posting n (from 0) starts a block with a header; its gap is left out.
HasHeader(n, k) == k > 0 /\ n % k = 0 /\ n + k < p
GapOmitted(n, k) == k > 0 /\ n % k = k - 1 /\ n # p - 1

CountBits(count) == IF HasCounts THEN Gamma(count) ELSE <<>>

-----------------------------------------------------------------------------
\* mg_passes writes the list without skips.

Codes(list) ==
  [n \in 1 .. Len(list) |->
    Bblock(list[n].doc_num - (IF n = 1 THEN 0 ELSE list[n - 1].doc_num),
           BblockInit(NumDocs, Len(list)))
    \o CountBits(list[n].count)]
Unskipped(list) == FlattenSeq(Codes(list))

NoSkips == [mode |-> 0, k |-> 0, max_nodes |-> 0, mins |-> 0]

SkipInit ==
  /\ postings \in PostingLists
  /\ file = Unskipped(postings)
  /\ mode = NoSkips
  /\ prog = "none"
  /\ outmode = NoSkips /\ out = <<>> /\ ii = <<>>
  /\ j = 0 /\ doc_num = 0 /\ bits_so_far = 0 /\ next_mjr_dn = 0
  /\ last_major = 0 /\ in_pos = 1 /\ promised = 0
  /\ op = "op_term" /\ L = <<>> /\ candidates = <<>>
  /\ i = 0 /\ pos = 1 /\ CurrDoc = 0 /\ next_i = 0 /\ next_start = 1
  /\ next_doc_num = 0 /\ block_counter = 0 /\ src = 0 /\ dest = 0
  /\ turn = "top"

-----------------------------------------------------------------------------
(***************************************************************************)
(* mg_invf_rebuild.                                                        *)
(***************************************************************************)

StartRebuild ==
  /\ prog = "none"
  /\ \E m \in SkipModes : outmode' = m
  /\ prog' = "read"
  /\ UNCHANGED <<given, out, ii, j, doc_num, bits_so_far, next_mjr_dn,
                 last_major, in_pos, promised, getvars>>

\* Read a posting: the header of its block, if it starts one; its gap, or the
\* document its header gave, of which the length of the gap is reckoned as it
\* would be in a list without skips; its count.
ReadPosting ==
  /\ prog = "read"
  /\ j < p
  /\ LET k      == SkipSize(mode)
         major  == BblockDecode(file, in_pos, dn_blk(k))
         length == BblockDecode(file, major.pos, len_blk(k))
         next   == IF HasHeader(j, k) THEN doc_num + major.x ELSE next_mjr_dn
         start  == IF HasHeader(j, k) THEN length.pos ELSE in_pos
         gap    == IF GapOmitted(j, k)
                   THEN [x |-> next - doc_num, pos |-> start]
                   ELSE BblockDecode(file, start, blk)
         count  == IF HasCounts THEN GammaDecode(file, gap.pos)
                   ELSE [x |-> 0, pos |-> gap.pos]
     IN /\ next_mjr_dn' = next
        /\ doc_num' = doc_num + gap.x
        /\ in_pos' = count.pos
        /\ bits_so_far' = bits_so_far + BblockLength(gap.x, blk)
                            + (count.pos - gap.pos)
        /\ \E count_bits \in
                IF HasCounts THEN {count.pos - gap.pos} ELSE Garbage :
             ii' = Append(ii, [doc_num |-> doc_num + gap.x, count |-> count.x,
                               bits_so_far |-> bits_so_far,
                               count_bits |-> count_bits])
  /\ j' = j + 1
  /\ UNCHANGED <<given, prog, outmode, out, last_major, promised, getvars>>

DoneReading ==
  /\ prog = "read"
  /\ j = p
  /\ prog' = "write"
  /\ j' = 0 /\ doc_num' = 0 /\ bits_so_far' = 0 /\ last_major' = 0
  /\ UNCHANGED <<given, outmode, out, ii, next_mjr_dn, in_pos, promised, getvars>>

\* Mutant: the count of the last posting is forgotten.
SkipLengthNoCount(k) == ii[j + k].bits_so_far - bits_so_far

\* The bits of the block that starts at posting j, without its last gap.
SkipLength(k) == ii[j + k].bits_so_far + ii[j + k].count_bits - bits_so_far

\* Mutant: the next document is counted from the last posting of all.
HeaderStale(k) ==
  Bblock(ii[j + k].doc_num, dn_blk(k)) \o Bblock(SkipLength(k), len_blk(k))

Header(k) ==
  Bblock(ii[j + k].doc_num - last_major, dn_blk(k))
    \o Bblock(SkipLength(k), len_blk(k))

WritePosting ==
  /\ prog = "write"
  /\ j < p
  /\ LET k    == SkipSize(outmode)
         head == IF HasHeader(j, k) THEN Header(k) ELSE <<>>
         gap  == IF GapOmitted(j, k) THEN <<>>
                 ELSE Bblock(ii[j + 1].doc_num - doc_num, blk)
     IN /\ out' = out \o head \o gap \o CountBits(ii[j + 1].count)
        /\ IF HasHeader(j, k)
           THEN /\ last_major' = ii[j + k].doc_num
                /\ bits_so_far' = ii[j + k + 1].bits_so_far
                /\ promised' = Len(out \o head) + SkipLength(k)
           ELSE UNCHANGED <<last_major, bits_so_far, promised>>
  /\ doc_num' = ii[j + 1].doc_num
  /\ j' = j + 1
  /\ UNCHANGED <<given, prog, outmode, ii, next_mjr_dn, in_pos, getvars>>

\* The new file replaces the one that was read, which the man page allows to
\* delete.
DoneWriting ==
  /\ prog = "write"
  /\ j = p
  /\ file' = out
  /\ mode' = outmode
  /\ prog' = "none"
  /\ outmode' = NoSkips /\ out' = <<>> /\ ii' = <<>>
  /\ j' = 0 /\ doc_num' = 0 /\ bits_so_far' = 0 /\ next_mjr_dn' = 0
  /\ last_major' = 0 /\ in_pos' = 1 /\ promised' = 0
  /\ UNCHANGED <<postings, getvars>>

-----------------------------------------------------------------------------
(***************************************************************************)
(* GetDocsOp.  Candidate n of L is L[n + 1]; DocNum and or_included are    *)
(* what it has of a DocEntry.                                              *)
(***************************************************************************)

skip_size == SkipSize(mode)
have_skipping == skip_size > 0
Num == Len(L)

\* An intersection with an empty list returns before it reads anything.
StartGet ==
  /\ prog = "none"
  /\ prog' = "get"
  /\ op' \in {"op_term", "op_and_terms", "op_and_or_terms", "op_diff_terms"}
  /\ candidates' \in IF op' = "op_term" THEN {<<>>} ELSE CandidateLists
  /\ op' = "op_and_terms" => candidates' # <<>>
  /\ L' = candidates'
  /\ i' = 0 /\ pos' = 1 /\ CurrDoc' = 0
  /\ next_i' = 0 /\ next_start' = 1 /\ next_doc_num' = 0
  /\ block_counter' = skip_size - 1
  /\ src' = 0 /\ dest' = 0
  /\ turn' = "top"
  /\ UNCHANGED <<given, rebuildvars>>

InLoop == i < p /\ (op = "op_term" \/ src < Num)

\* Mutant: the candidate may also be the last document of the block.
CanSkipTooFar ==
  /\ op # "op_term"
  /\ i + skip_size < p
  /\ next_doc_num >= 0
  /\ L[src + 1].DocNum >= next_doc_num

\* The candidate is past the block.
CanSkip ==
  /\ op # "op_term"
  /\ i + skip_size < p
  /\ next_doc_num >= 0
  /\ L[src + 1].DocNum > next_doc_num

ShortCut ==
  /\ prog = "get" /\ have_skipping
  /\ turn = "test" \/ (turn = "top" /\ InLoop)
  /\ CanSkip
  /\ i' = next_i
  /\ pos' = next_start
  /\ CurrDoc' = next_doc_num
  /\ block_counter' = skip_size - 1
  /\ turn' = "header"
  /\ UNCHANGED <<given, rebuildvars, prog, op, L, candidates, next_i,
                 next_start, next_doc_num, src, dest>>

\* At the start of a block its header is read, if it has one.
ReadHeader ==
  /\ prog = "get" /\ have_skipping
  /\ turn = "header" \/ (turn = "top" /\ InLoop /\ ~CanSkip)
  /\ IF block_counter = skip_size - 1
     THEN IF i + skip_size < p
          THEN LET diff == BblockDecode(file, pos, dn_blk(skip_size))
                   skip == BblockDecode(file, diff.pos, len_blk(skip_size))
               IN /\ next_doc_num' = next_doc_num + diff.x
                  /\ next_i' = next_i + skip_size
                  /\ pos' = skip.pos
                  /\ next_start' = skip.pos + skip.x
          ELSE /\ next_doc_num' = -1
               /\ UNCHANGED <<next_i, pos, next_start>>
     ELSE UNCHANGED <<next_doc_num, next_i, pos, next_start>>
  /\ turn' = "test"
  /\ UNCHANGED <<given, rebuildvars, prog, op, L, candidates, i, CurrDoc,
                 block_counter, src, dest>>

\* The first candidate from n on that Test does not pass over, or the end.
PassOver(list, n, Test(_)) ==
  Min({m \in n .. Len(list) : m = Len(list) \/ ~Test(list[m + 1])})

\* What the switch does with a document of the word.
UseDoc(doc) ==
  LET s     == PassOver(L, src, LAMBDA c : c.DocNum < doc)
      match == s < Num /\ L[s + 1].DocNum = doc
  IN CASE op = "op_term" ->
            /\ L' = Append(L, [DocNum |-> doc, or_included |-> FALSE])
            /\ UNCHANGED <<src, dest>>
       [] op = "op_and_terms" ->
            /\ L' = IF match THEN [L EXCEPT ![dest + 1] = L[s + 1]] ELSE L
            /\ dest' = IF match THEN dest + 1 ELSE dest
            /\ src' = IF match THEN s + 1 ELSE s
       [] op = "op_and_or_terms" ->
            /\ L' = IF match THEN [L EXCEPT ![s + 1].or_included = TRUE] ELSE L
            /\ src' = PassOver(L', IF match THEN s + 1 ELSE s,
                               LAMBDA c : c.or_included)
            /\ UNCHANGED dest
       [] op = "op_diff_terms" ->
            /\ L' = [n \in 1 .. Num |->
                       IF n \in dest + 1 .. dest + s - src
                       THEN L[n - dest + src] ELSE L[n]]
            /\ dest' = dest + s - src
            /\ src' = IF match THEN s + 1 ELSE s

\* Decode a posting, unless it is the one the header gave, and use it.
NextPosting ==
  /\ prog = "get"
  /\ \/ turn = "test" /\ ~CanSkip
     \/ turn = "top" /\ InLoop /\ ~have_skipping
  /\ LET known == have_skipping /\ block_counter = 0 /\ i # p - 1
         gap   == IF known THEN [x |-> next_doc_num - CurrDoc, pos |-> pos]
                  ELSE BblockDecode(file, pos, blk)
     IN /\ CurrDoc' = CurrDoc + gap.x
        /\ pos' = IF HasCounts THEN GammaDecode(file, gap.pos).pos ELSE gap.pos
        /\ UseDoc(CurrDoc + gap.x)
  /\ i' = i + 1
  /\ block_counter' = IF block_counter > 0 THEN block_counter - 1
                      ELSE skip_size - 1
  /\ turn' = "top"
  /\ UNCHANGED <<given, rebuildvars, prog, op, candidates, next_i, next_start,
                 next_doc_num>>

\* The list that is returned; the rest of the program then takes over.
Result ==
  CASE op = "op_and_terms"  -> SubSeq(L, 1, dest)
    [] op = "op_diff_terms" -> SubSeq(L, 1, dest) \o SubSeq(L, src + 1, Num)
    [] OTHER -> L

Return ==
  /\ prog = "get"
  /\ turn = "top" /\ ~InLoop
  /\ L' = Result
  /\ turn' = "returned"
  /\ UNCHANGED <<given, rebuildvars, prog, op, candidates, cursor, src, dest>>

SkipNext ==
  \/ StartRebuild \/ ReadPosting \/ DoneReading \/ WritePosting \/ DoneWriting
  \/ StartGet \/ ShortCut \/ ReadHeader \/ NextPosting \/ Return

SkipSpec == SkipInit /\ [][SkipNext]_skipVars

-----------------------------------------------------------------------------
(***************************************************************************)
(* Properties.                                                             *)
(***************************************************************************)

\* A header says where the next block starts: when mg_invf_rebuild gets there,
\* that is the bit it is about to write.
SkipsLandOnBlocks ==
  LET k == SkipSize(outmode)
  IN (prog = "write" /\ k > 0 /\ 0 < j /\ j < p /\ j % k = 0)
       => Len(out) = promised

\* A list with skips still is the list: what mg_invf_rebuild reads back from a
\* file of any skip mode, its own output included, is the true list, and the
\* lengths it reckons are those of the list without skips, so that the headers
\* it writes land on their blocks.
RebuildReadsBack ==
  /\ prog = "write" =>
       /\ Len(ii) = p
       /\ \A n \in 1 .. p :
            /\ ii[n].doc_num = postings[n].doc_num
            /\ HasCounts => ii[n].count = postings[n].count
            /\ ii[n].bits_so_far = Len(FlattenSeq(SubSeq(Codes(postings), 1, n - 1)))
  /\ SkipsLandOnBlocks

\* The entries of a list whose documents are in a set, in order.
Among(list, docs) ==
  LET kept[n \in 0 .. Len(list)] ==
        IF n = 0 THEN <<>>
        ELSE IF list[n].DocNum \in docs THEN Append(kept[n - 1], list[n])
             ELSE kept[n - 1]
  IN kept[Len(list)]

\* Whatever GetDocsOp hops over, its result is the set operation of the list it
\* was given and the documents of the word, in order: the documents themselves,
\* the candidates among them, the candidates with those among them marked, or
\* the candidates that are not among them.
AnswerIsRight ==
  turn = "returned" =>
    L = CASE op = "op_term" ->
               [n \in 1 .. p |-> [DocNum |-> postings[n].doc_num, or_included |-> FALSE]]
          [] op = "op_and_terms" ->
               Among(candidates, DocsOf(postings))
          [] op = "op_and_or_terms" ->
               [n \in DOMAIN candidates |->
                  [candidates[n] EXCEPT !.or_included =
                     @ \/ candidates[n].DocNum \in DocsOf(postings)]]
          [] op = "op_diff_terms" ->
               Among(candidates, Nat \ DocsOf(postings))
=============================================================================
