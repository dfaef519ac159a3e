------------------------------ MODULE StemDict ------------------------------
(***************************************************************************)
(* The dictionary a query looks its words up in, in blocks on the disk     *)
(* (mg_invf_dict), the index from stems to their words (mg_stem_idx), and  *)
(* the search in both (stem_search.c).  In a block a word is the length of *)
(* the prefix it shares with the word before it and the letters that       *)
(* follow; every lookback-th word is whole and has a pointer to it.  A     *)
(* block holds its words in at most block_size bytes, and a reader reads   *)
(* that many.                                                              *)
(***************************************************************************)
EXTENDS Integers, Sequences, FiniteSets
LOCAL INSTANCE SequencesExt

CONSTANTS
  Spellings,     \* words: sequences of letters
  WordSets,      \* the sets of words that are dictionaries
  Stemmers,      \* functions on Spellings: what a stem method makes of a word
  Lookbacks,     \* values of lookback
  BlockSizes,    \* values of block_size, for the dictionary
  IdxBlockSizes, \* and for the index
  MaxLookups     \* bound: lookups of a query

\* A block has room for at least one word.
ASSUME StemDictAssumption ==
  /\ \A stem \in Stemmers : \A w \in Spellings : stem[w] \in Spellings
  /\ \A b \in BlockSizes : \A w \in Spellings : Len(w) + 26 < b
  /\ Lookbacks \subseteq Nat \ {0} /\ MaxLookups \in Nat

VARIABLES
  words,     \* the dictionary of the inversion, in order
  params,    \* [lookback, dict, idx: block sizes, stem]
  blocks,    \* the blocks of the dictionary that are written
  block,     \* the entries of the one in memory
  next,      \* the next word
  table,     \* the stems met, each with the runs of its words
  run,       \* the stem of the last word, whose last run is open
  stems,     \* the stems in order
  idxBlocks, \* the blocks of the index
  buffer,    \* sd->buffer: [active, block]
  asked,     \* what was looked up last, and what was found
  lookups,
  phase      \* "dict", "stems", "index", "query", "fatal"

stemVars ==
  <<words, params, blocks, block, next, table, run, stems, idxBlocks, buffer,
    asked, lookups, phase>>

-----------------------------------------------------------------------------
\* Strings.  The letters come in pairs 2n - 1 and 2n of one letter, the
\* capital first.

Fold(c) == c + (c % 2)

\* The order of the dictionary: letters without their case, then the length,
\* then the first difference of case.
casecompare(s, t) ==
  LET l == IF Len(s) < Len(t) THEN Len(s) ELSE Len(t)
      First(D) == CHOOSE i \in D : \A j \in D : i <= j
      folded == {i \in 1 .. l : Fold(s[i]) # Fold(t[i])}
      exact == {i \in 1 .. l : s[i] # t[i]}
  IN IF folded # {} THEN Fold(s[First(folded)]) - Fold(t[First(folded)])
     ELSE IF Len(s) # Len(t) THEN Len(s) - Len(t)
     ELSE IF exact # {} THEN s[First(exact)] - t[First(exact)]
     ELSE 0

InOrder(S) ==
  [n \in 1 .. Cardinality(S) |->
     CHOOSE s \in S : Cardinality({t \in S : casecompare(t, s) < 0}) = n - 1]

SharedPrefix(s, t) ==
  CHOOSE n \in 0 .. Len(s) :
    /\ n <= Len(t)
    /\ SubSeq(s, 1, n) = SubSeq(t, 1, n)
    /\ n < Len(s) /\ n < Len(t) => s[n + 1] # t[n + 1]

\* What follows the prefix that is copied from the word before.
Entry(copy, w, data) == [copy |-> copy, suff |-> SubSeq(w, copy + 1, Len(w)), data |-> data]

-----------------------------------------------------------------------------
\* Sizes, in bytes: a long has 4, a pointer into the block 2.

Groups(n, lookback) == (n + lookback - 1) \div lookback

\* copy and suff, the letters, fcnt, wcnt and invf_ptr.
DictBytes(x) == 2 + Len(x.suff) + 12

\* copy and suff, the letters, num_entries and the entries.
IdxBytes(x) == 2 + Len(x.suff) + 4 + 12 * Len(x.data)

\* buf_in_use.
DictInUse(entries) == FoldLeft(LAMBDA sum, x : sum + DictBytes(x), 0, entries)
IdxInUse(entries) == FoldLeft(LAMBDA sum, x : sum + IdxBytes(x), 0, entries)

\* What the programs compare with block_size before they add a word: the
\* pointers and headers there are, with one pointer more, the buffer and the
\* word (bytes), with the prefix and its pointer when it begins a group.
Needs(n, header, copy, bytes) ==
  LET extra == IF n % params.lookback = 0 THEN copy + 2 ELSE 0
  IN 2 * (Groups(n, params.lookback) + 1) + header + extra + bytes - 1

\* The word as the block takes it: whole at the beginning of a group.
Added(entries, copy, w, data) ==
  Append(entries, Entry(IF Len(entries) % params.lookback = 0 THEN 0 ELSE copy, w, data))

-----------------------------------------------------------------------------
\* mg_invf_dict.

StemInit ==
  /\ \E D \in WordSets : words = InOrder(D)
  /\ params \in [lookback : Lookbacks, dict : BlockSizes, idx : IdxBlockSizes,
                 stem : Stemmers]
  /\ blocks = <<>> /\ block = <<>> /\ next = 1
  /\ table = <<>> /\ run = <<>> /\ stems = <<>> /\ idxBlocks = <<>>
  /\ buffer = [active |-> -1, block |-> <<>>]
  /\ asked = <<>> /\ lookups = 0
  /\ phase = "dict"

\* The inverted file has an entry of i + 1 bytes for the i-th word.
invf_ptr(i) == (i * (i + 1)) \div 2

\* invf_len is that of the last word, whose end no other word of the block
\* tells.
DictBlock(entries, last) ==
  [first |-> last - Len(entries), invf_len |-> invf_ptr(last + 1) - invf_ptr(last),
   entries |-> entries]

Copied(seq, i) == IF i = 1 THEN 0 ELSE SharedPrefix(seq[i - 1], seq[i])

process_files ==
  /\ phase = "dict"
  /\ IF next <= Len(words)
     THEN LET copy == Copied(words, next)
              new == Entry(copy, words[next], invf_ptr(next))
              full == Needs(Len(block), 10, copy, DictInUse(block) + DictBytes(new))
                        > params.dict
          IN /\ blocks' = IF full THEN Append(blocks, DictBlock(block, next - 1)) ELSE blocks
             /\ block' = Added(IF full THEN <<>> ELSE block, copy, words[next], invf_ptr(next))
             /\ next' = next + 1
             /\ UNCHANGED phase
     ELSE /\ blocks' = Append(blocks, DictBlock(block, Len(words)))
          /\ block' = <<>> /\ next' = 1
          /\ phase' = "stems"
  /\ UNCHANGED <<words, params, table, run, stems, idxBlocks, buffer, asked, lookups>>

-----------------------------------------------------------------------------
\* mg_stem_idx: the words of a stem are kept as runs of words that follow one
\* another.

\* Where a word is: its block, its group and its place there.
PosEntry(b, res) ==
  [num_cases |-> 1, blk |-> b, blk_index |-> res \div params.lookback,
   offset |-> res % params.lookback]

\* The block of a word, from 1, and its place there, from 0.
BlockOf(i) == CHOOSE b \in DOMAIN blocks :
                blocks[b].first < i /\ i <= blocks[b].first + Len(blocks[b].entries)

\* Mutant: a word is counted with the words of its stem wherever they are.
ContinuesFrom(s) == s \in DOMAIN table

\* The word follows one of the same stem.
Continues(s) == run = s

process_stem_dict ==
  /\ phase = "stems"
  /\ IF next <= Len(words)
     THEN LET s == params.stem[words[next]]
              b == BlockOf(next)
              pe == PosEntry(b, next - blocks[b].first - 1)
          IN /\ table' =
                  IF Continues(s)
                  THEN [table EXCEPT ![s][Len(table[s])].num_cases = @ + 1]
                  ELSE [t \in DOMAIN table \cup {s} |->
                          IF t # s THEN table[t]
                          ELSE IF s \in DOMAIN table THEN Append(table[s], pe)
                          ELSE <<pe>>]
             /\ run' = s
             /\ next' = next + 1
             /\ UNCHANGED <<stems, phase>>
     ELSE /\ stems' = InOrder(DOMAIN table)
          /\ next' = 1
          /\ phase' = "index"
          /\ UNCHANGED <<table, run>>
  /\ UNCHANGED <<words, params, blocks, block, idxBlocks, buffer, asked, lookups>>

\* A stem that may not fit into a block of its own is refused.
TooSmall(new, extra) == 4 + extra + 4 + IdxBytes(new) - 1 > params.idx

\* And a block whose buffer and pointers are too long by themselves.
Overfull(entries) ==
  IdxInUse(entries) + 2 * Groups(Len(entries), params.lookback) + 2 > params.idx

save_idx ==
  /\ phase = "index"
  /\ IF next <= Len(stems)
     THEN LET s == stems[next]
              copy == Copied(stems, next)
              new == Entry(copy, s, table[s])
              extra == IF Len(block) % params.lookback = 0 THEN copy + 2 ELSE 0
              full == Needs(Len(block), 6, copy, IdxInUse(block) + IdxBytes(new))
                        > params.idx
              kept == Added(IF full THEN <<>> ELSE block, copy, s, table[s])
          IN /\ phase' = IF (full /\ TooSmall(new, extra)) \/ Overfull(kept) THEN "fatal"
                         ELSE phase
             /\ idxBlocks' = IF full THEN Append(idxBlocks, block) ELSE idxBlocks
             /\ block' = kept
             /\ next' = next + 1
     ELSE /\ idxBlocks' = Append(idxBlocks, block)
          /\ block' = <<>>
          /\ phase' = "query"
          /\ UNCHANGED next
  /\ UNCHANGED <<words, params, blocks, table, run, stems, buffer, asked, lookups>>

-----------------------------------------------------------------------------
\* stem_search.c.

\* The last of the keys that is not after w, from 0; the first when all are.
Search(w, keys) ==
  LET n == Len(keys)
      find[lo \in 0 .. n, hi \in -1 .. n - 1] ==
        IF lo > hi THEN hi
        ELSE LET mid == (lo + hi) \div 2
                 c == casecompare(w, keys[mid + 1])
             IN IF c < 0 THEN find[lo, mid - 1] ELSE IF c > 0 THEN find[mid + 1, hi] ELSE mid
      hi == find[0, n - 1]
  IN IF hi < 0 THEN 0 ELSE hi

\* The words of a block, read from its first on.
Unpacked(entries) ==
  LET read[k \in DOMAIN entries] ==
        IF entries[k].copy = 0 THEN entries[k].suff
        ELSE SubSeq(read[k - 1], 1, entries[k].copy) \o entries[k].suff
  IN read

\* The words that a block has pointers to.
GroupWords(entries) ==
  [g \in 1 .. Groups(Len(entries), params.lookback) |->
     Unpacked(entries)[(g - 1) * params.lookback + 1]]

\* GetBlock and GetIdxBlock.
GetBlock(w, firsts) == Search(w, firsts) + 1

\* The place in the block of w, from 0, or -1.
Find(w, entries) ==
  LET found == {k \in Search(w, GroupWords(entries)) * params.lookback + 1 .. Len(entries) :
                  casecompare(w, Unpacked(entries)[k]) <= 0}
      k == CHOOSE k \in found : \A j \in found : k <= j
  IN IF found # {} /\ casecompare(w, Unpacked(entries)[k]) = 0 THEN k - 1 ELSE -1

InvfLen(b, res) ==
  IF res = Len(b.entries) - 1 THEN b.invf_len
  ELSE b.entries[res + 2].data - b.entries[res + 1].data

\* What is known of the word at a place of a block.
Info(b, res) ==
  [word |-> Unpacked(b.entries)[res + 1], word_num |-> b.first + res,
   invf_ptr |-> b.entries[res + 1].data, invf_len |-> InvfLen(b, res)]

Fetched(cache, b) ==
  IF cache.active = b THEN cache ELSE [active |-> b, block |-> blocks[b]]

FindWord(w, cache) ==
  LET b == GetBlock(w, [n \in DOMAIN blocks |-> Unpacked(blocks[n].entries)[1]])
      read == Fetched(cache, b)
      res == Find(w, read.block.entries)
  IN [found |-> IF res = -1 THEN <<>> ELSE <<Info(read.block, res)>>, buffer |-> read]

\* The words of one run, through as many blocks as it takes.
Walk(pe, cache) ==
  LET walk[j \in 0 .. pe.num_cases] ==
        IF j = 0
        THEN [found |-> <<>>, buffer |-> Fetched(cache, pe.blk),
              res |-> pe.blk_index * params.lookback + pe.offset]
        ELSE LET at == walk[j - 1]
                 b == at.buffer.block
                 last == at.res = Len(b.entries) - 1 /\ j < pe.num_cases
             IN [found |-> Append(at.found, Info(b, at.res)),
                 buffer |-> IF last THEN Fetched(at.buffer, at.buffer.active + 1) ELSE at.buffer,
                 res |-> IF last THEN 0 ELSE at.res + 1]
  IN walk[pe.num_cases]

FindWords(s, cache) ==
  LET b == GetBlock(s, [n \in DOMAIN idxBlocks |-> Unpacked(idxBlocks[n])[1]])
      res == Find(s, idxBlocks[b])
      none == [found |-> <<>>, buffer |-> cache]
      runs == idxBlocks[b][res + 1].data
  IN IF res = -1 THEN none
     ELSE FoldLeft(LAMBDA got, pe :
                     LET more == Walk(pe, got.buffer)
                     IN [found |-> got.found \o more.found, buffer |-> more.buffer],
                   none, runs)

(***************************************************************************)
(* The comment in save_idx says that an entry that will not fit into a new *)
(* block is refused: no block of the index is longer than what a reader    *)
(* reads of it.                                                            *)
(***************************************************************************)
EntriesFit ==
  \A n \in DOMAIN idxBlocks :
    6 + 2 * Groups(Len(idxBlocks[n]), params.lookback) + IdxInUse(idxBlocks[n])
      <= params.idx

LookUp(what, w, got) ==
  /\ phase = "query"
  /\ lookups < MaxLookups
  /\ lookups' = lookups + 1
  /\ asked' = [what |-> what, w |-> w, found |-> got.found]
  /\ buffer' = got.buffer
  /\ UNCHANGED <<words, params, blocks, block, next, table, run, stems, idxBlocks, phase>>

LookUpWord == \E w \in Spellings : LookUp("word", w, FindWord(w, buffer))

\* What a reader makes of a block whose end it did not read is left out.
LookUpStem ==
  /\ EntriesFit
  /\ \E w \in Spellings : LookUp("stem", w, FindWords(params.stem[w], buffer))

StemNext ==
  process_files \/ process_stem_dict \/ save_idx \/ LookUpWord \/ LookUpStem

StemSpec == StemInit /\ [][StemNext]_stemVars

-----------------------------------------------------------------------------

(***************************************************************************)
(* A word is found if and only if it is in the dictionary, a stem is found *)
(* with exactly the words that have it, each once, and every word with its *)
(* number and its part of the inverted file: whatever was looked up        *)
(* before, and however the words fall into blocks and groups.              *)
(***************************************************************************)
WordsFound ==
  asked # <<>> =>
    LET due == {i \in DOMAIN words :
                  IF asked.what = "word" THEN words[i] = asked.w
                  ELSE params.stem[words[i]] = params.stem[asked.w]}
    IN /\ Len(asked.found) = Cardinality(due)
       /\ {asked.found[k] : k \in DOMAIN asked.found} =
            {[word |-> words[i], word_num |-> i - 1, invf_ptr |-> invf_ptr(i),
              invf_len |-> i + 1] : i \in due}
=============================================================================
