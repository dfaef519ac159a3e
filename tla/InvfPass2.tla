----------------------------- MODULE InvfPass2 ------------------------------
(***************************************************************************)
(* The second pass of inversion, src/text/ivf.pass2.c (mg_passes -I2),     *)
(* after the first on the same text.  For each chunk it lays out one       *)
(* region of memory per word, sized from the chunk file, encodes the       *)
(* postings into it, and either dumps the chunk to disk or merges all      *)
(* chunks read so far into the inverted file, where every word has a       *)
(* region of its own too, sized from the dictionary.  Nothing checks a     *)
(* position against the end of its region.                                 *)
(*                                                                         *)
(* The bits of a region are its postings, one <<gap, count>> each; a       *)
(* reader finds them only if it starts where they were written and takes   *)
(* the block size they were written with.                                  *)
(***************************************************************************)
EXTENDS InvfPass1

CONSTANT ChunkLimits   \* the values of -c to choose from

ASSUME Pass2Constants == ChunkLimits \subseteq Nat

VARIABLES
  ChunkLimit,   \* chunks that may wait on disk; -1 before the pass starts
  callnum,      \* documents processed
  docs_left,    \* documents left in the chunk
  chunk,        \* chunks whose description has been read
  BufToUse,     \* bytes of memory of the chunk
  region,       \* per word: start, end, block size of its region in memory
  ptr, last,    \* per word: next bit to write, last document written
  memory,       \* per word: the postings in its region
  chunk_data,   \* chunks since the last merge, with what was dumped of them
  disk_chunks,  \* how many of them are on disk
  Disk_Ptr, Disk_Last, Disk_B,  \* per word: the same for the inverted file
  invf          \* per word: its postings in the inverted file

memvars == <<region, ptr, last, memory>>
diskvars == <<Disk_Ptr, Disk_Last, Disk_B, invf>>
pass2 == <<ChunkLimit, callnum, docs_left, chunk, BufToUse, memvars, chunk_data,
           disk_chunks, diskvars>>
invfVars == <<pass1, pass2>>

N == Len(text)

\* The next description in the chunk file; the mark at its end reads as 0.
next_docs_left == IF chunk < Len(chunks) THEN chunks[chunk + 1].docs ELSE 0

-----------------------------------------------------------------------------
\* The regions of the inverted file, which start on byte boundaries after the
\* magic number and a gap for the header.  The dictionary holds the words that
\* were seen.

FirstBit == 32 + 8 * 100
DiskBits(w) ==
  BblockBoundB(N, fcnt[w], BblockInit(N, fcnt[w]))
    + (IF InvfLevel >= 2 THEN GammaBound(wcnt[w], fcnt[w]) ELSE 0)
DiskStart ==
  LET size == [w \in Words |-> IF w \in Known THEN 8 * Bytes(DiskBits(w)) ELSE 0]
  IN [w \in Words |-> FirstBit + SumTo(size, w - 1)]

Pass2Init ==
  /\ ChunkLimit = -1
  /\ callnum = 0
  /\ docs_left = 0
  /\ chunk = 0
  /\ BufToUse = 0
  /\ region = [w \in Words |-> [start |-> 0, end |-> 0, b |-> 1]]
  /\ ptr = [w \in Words |-> 0] /\ last = [w \in Words |-> 0]
  /\ memory = [w \in Words |-> <<>>]
  /\ chunk_data = <<>>
  /\ disk_chunks = 0
  /\ Disk_Ptr = [w \in Words |-> 0] /\ Disk_Last = [w \in Words |-> 0]
  /\ Disk_B = [w \in Words |-> 1]
  /\ invf = [w \in Words |-> <<>>]

init_ivf_2 ==
  /\ ended
  /\ ChunkLimit = -1
  /\ ChunkLimit' \in ChunkLimits
  /\ Disk_Ptr' = DiskStart
  /\ Disk_B' = [w \in Words |-> IF w \in Known THEN BblockInit(N, fcnt[w]) ELSE 1]
  /\ UNCHANGED <<pass1, callnum, docs_left, chunk, BufToUse, memvars,
                 chunk_data, disk_chunks, Disk_Last, invf>>

-----------------------------------------------------------------------------
\* LoadCounts.  Position i of the counts is the word that occurred i-th, and
\* count_trans gives its number; the document count is stored only for a word
\* that occurs more than once.

Occurring(d) ==
  [w \in Words |->
     LET at == {i \in 1 .. Len(d.counts) : first_occr[i] = w}
     IN IF at = {} THEN 0 ELSE d.counts[CHOOSE i \in at : TRUE][1]]
Listed(d) ==
  [w \in Words |->
     LET at == {i \in 1 .. Len(d.counts) : first_occr[i] = w}
         n == IF at = {} THEN <<0, 0>> ELSE d.counts[CHOOSE i \in at : TRUE]
     IN IF n[1] >= 2 THEN n[2] ELSE n[1]]

\* Mutant: no room for the counts.
LayoutNoCounts(docs, p, n) ==
  LET size == [w \in Words |-> IF n[w] = 0 THEN 0 ELSE BblockBound(docs, p[w])]
  IN [w \in Words |->
        [start |-> SumTo(size, w - 1), end |-> SumTo(size, w),
         b |-> IF n[w] = 0 THEN 1 ELSE BblockInitW(docs, p[w])]]

\* The region of each word, given its numbers of postings and of occurrences.
Layout(docs, p, n) ==
  LET size == [w \in Words |->
        IF n[w] = 0 THEN 0
        ELSE BblockBound(docs, p[w]) + (IF InvfLevel >= 2 THEN n[w] ELSE 0)]
  IN [w \in Words |->
        [start |-> SumTo(size, w - 1), end |-> SumTo(size, w),
         b |-> IF n[w] = 0 THEN 1 ELSE BblockInitW(docs, p[w])]]

\* What is kept for the merge, in dictionary order: the number of postings and,
\* for a word with postings, how far its region is from that of the last one.
Parameters(p, r) ==
  [w \in Words |->
     LET before == {v \in 1 .. w - 1 : p[v] > 0}
     IN [p |-> p[w],
         delta |-> IF p[w] = 0 \/ before = {} THEN 0
                   ELSE r[w].start - r[Max(before)].start]]

\* A chunk without documents, or one that needs more memory than it was said
\* to need, is a FatalError and ends the program.
ChunkIsUsable ==
  /\ next_docs_left > 0
  /\ LET d == chunks[chunk + 1]
     IN Bytes(Layout(d.docs, Listed(d), Occurring(d))[NumWords].end) <= d.mem

Unread == [region |-> <<>>, memory |-> <<>>]

\* Called by process_doc before the first document of a chunk.
LoadCounts ==
  /\ ChunkLimit >= 0 /\ callnum < N
  /\ docs_left = 0
  /\ ChunkIsUsable
  /\ LET d == chunks[chunk + 1]
     IN /\ region' = Layout(d.docs, Listed(d), Occurring(d))
        /\ ptr' = [w \in Words |-> region'[w].start]
        /\ last' = [w \in Words |-> callnum]
        /\ memory' = [w \in Words |-> <<>>]
        /\ chunk_data' = Append(chunk_data,
             [N |-> d.docs, start_doc |-> callnum,
              params |-> Parameters(Listed(d), region'), image |-> Unread])
        /\ docs_left' = d.docs
        /\ BufToUse' = d.mem
        /\ chunk' = chunk + 1
  /\ UNCHANGED <<pass1, ChunkLimit, callnum, disk_chunks, diskvars>>

-----------------------------------------------------------------------------
\* DiskMerge.

\* p postings read back from position pos of an image of the memory with block
\* size b: noise, unless both are those of the writer.
Noise == <<0, 0>>
ReadBack(image, w, pos, b, p) ==
  IF image.region[w].start = pos /\ image.region[w].b = b /\ Len(image.memory[w]) >= p
  THEN SubSeq(image.memory[w], 1, p)
  ELSE [k \in 1 .. p |-> Noise]

\* Mutant: the first gap left as it was within the chunk.
FromChunkOwnGap(c, w, disk_last) ==
  LET p == c.params[w].p
      chunk_ptr == SumTo([v \in Words |-> c.params[v].delta], w)
      read == ReadBack(c.image, w, chunk_ptr, BblockInitW(c.N, p), p)
  IN IF p = 0 THEN <<>> ELSE read

\* The postings of w in one chunk, the first gap taken from the last document
\* that is in the inverted file rather than from the start of the chunk.
FromChunk(c, w, disk_last) ==
  LET p == c.params[w].p
      chunk_ptr == SumTo([v \in Words |-> c.params[v].delta], w)
      read == ReadBack(c.image, w, chunk_ptr, BblockInitW(c.N, p), p)
  IN IF p = 0 THEN <<>>
     ELSE [read EXCEPT ![1][1] = @ + c.start_doc - disk_last]

\* The document of posting n: the sum of the gaps up to it.
Document(postings, n) == SumTo([m \in DOMAIN postings |-> postings[m][1]], n)
Gaps(postings) == Document(postings, Len(postings))

CodeBits(postings, b) ==
  LET gap(n) == postings[n][1]
      count(n) == postings[n][2]
      bits == [n \in DOMAIN postings |->
                 (IF gap(n) > 0 THEN BblockLength(gap(n), b) ELSE 0)
                   + (IF InvfLevel >= 2 /\ count(n) > 0 THEN GammaLength(count(n)) ELSE 0)]
  IN SumTo(bits, Len(postings))

\* What the chunks cs, in their order, add to the list of w after disk_last.
Merged(cs, w, disk_last) ==
  LET list[n \in 0 .. Len(cs)] ==
        IF n = 0 THEN <<>>
        ELSE list[n - 1] \o FromChunk(cs[n], w, disk_last + Gaps(list[n - 1]))
  IN list[Len(cs)]

DiskMerge(cs) ==
  /\ invf' = [w \in Words |-> invf[w] \o Merged(cs, w, Disk_Last[w])]
  /\ LET new(w) == SubSeq(invf'[w], Len(invf[w]) + 1, Len(invf'[w]))
     IN /\ Disk_Last' = [w \in Words |-> Disk_Last[w] + Gaps(new(w))]
        /\ Disk_Ptr' = [w \in Words |-> Disk_Ptr[w] + CodeBits(new(w), Disk_B[w])]
  /\ chunk_data' = <<>>
  /\ disk_chunks' = 0
  /\ UNCHANGED Disk_B

\* Mutant: the dumped chunk is not counted.
DumpChunkUncounted(cs) ==
  /\ chunk_data' = cs
  /\ UNCHANGED disk_chunks
  /\ UNCHANGED diskvars

DumpChunk(cs) ==
  /\ chunk_data' = cs
  /\ disk_chunks' = disk_chunks + 1
  /\ UNCHANGED diskvars

\* Mutant: the last chunk of the text is treated like any other.
MergeInWhenFull(cs) ==
  \/ disk_chunks = ChunkLimit /\ DiskMerge(cs)
  \/ disk_chunks # ChunkLimit /\ DumpChunk(cs)

\* The last of the chunks cs is the one in memory.
MergeIn(cs) ==
  \/ (disk_chunks = ChunkLimit \/ next_docs_left = 0) /\ DiskMerge(cs)
  \/ disk_chunks # ChunkLimit /\ next_docs_left # 0 /\ DumpChunk(cs)

-----------------------------------------------------------------------------

\* One document coded into memory; after the last of the chunk, MergeIn.
process_doc_2 ==
  /\ ChunkLimit >= 0
  /\ docs_left > 0
  /\ callnum' = callnum + 1
  /\ docs_left' = docs_left - 1
  /\ LET doc == text[callnum + 1]
         n(w) == Occurrences(w, doc)
         gap(w) == callnum + 1 - last[w]
         bits(w) == BblockLength(gap(w), region[w].b)
                      + (IF InvfLevel >= 2 THEN n(w) ELSE 0)
     IN /\ ptr' = [w \in Words |-> IF n(w) > 0 THEN ptr[w] + bits(w) ELSE ptr[w]]
        /\ last' = [w \in Words |-> IF n(w) > 0 THEN callnum + 1 ELSE last[w]]
        /\ memory' = [w \in Words |->
             IF n(w) = 0 THEN memory[w]
             ELSE Append(memory[w],
                         <<gap(w), IF InvfLevel >= 2 THEN n(w) ELSE 1>>)]
  /\ IF docs_left = 1
     THEN MergeIn([chunk_data EXCEPT ![Len(chunk_data)].image =
                     [region |-> region, memory |-> memory']])
     ELSE UNCHANGED <<chunk_data, disk_chunks, diskvars>>
  /\ UNCHANGED <<pass1, ChunkLimit, chunk, BufToUse, region>>

InvfInit == Pass1Init /\ Pass2Init

InvfNext ==
  \/ Pass1Next /\ UNCHANGED pass2
  \/ init_ivf_2 \/ LoadCounts \/ process_doc_2

\* Both passes run over a text that ends: what a run has begun it goes on with.
InvfSpec == InvfInit /\ [][InvfNext]_invfVars /\ WF_invfVars(init_ivf_2 \/ LoadCounts \/ process_doc_2)

-----------------------------------------------------------------------------

(***************************************************************************)
(* No word's postings ever reach into the region of the next, in memory    *)
(* and in the inverted file: the sizes the bounds of bitio_gen.c reserve   *)
(* from counts alone are enough for every order in which documents come.   *)
(***************************************************************************)
RegionsHold ==
  /\ \A w \in Words : ptr[w] <= region[w].end /\ region[w].end <= 8 * BufToUse
  /\ ChunkLimit >= 0 => \A w \in Known : Disk_Ptr[w] <= DiskStart[w] + DiskBits(w)

(***************************************************************************)
(* The buffer, allocated once for the largest chunk the first pass wrote,  *)
(* holds every chunk, and the table of chunks, allocated with two places   *)
(* more than may wait on disk, holds all chunks of a merge.                *)
(***************************************************************************)
TablesSuffice ==
  /\ BufToUse <= max_mem
  /\ Len(chunk_data) <= ChunkLimit + 2
  /\ disk_chunks = Len(chunk_data) - (IF docs_left > 0 THEN 1 ELSE 0)

(***************************************************************************)
(* The chunk file is in step with the text: neither call of FatalError in  *)
(* LoadCounts is made, whatever the text and wherever it was cut.          *)
(***************************************************************************)
NeverFatal ==
  ChunkLimit >= 0 /\ callnum < N /\ docs_left = 0 => ChunkIsUsable

\* The index that the bits of the inverted file stand for.
Decoded(postings) ==
  [n \in DOMAIN postings |-> <<Document(postings, n), postings[n][2]>>]

\* Documents whose postings have been merged.
Indexed == IF chunk_data = <<>> THEN callnum ELSE chunk_data[1].start_doc

Index == INSTANCE Postings
         WITH closed <- ended, indexed <- Indexed, WithCounts <- InvfLevel >= 2,
              index <- [w \in Words |-> Decoded(invf[w])]

(***************************************************************************)
(* The two passes implement the abstract index: every merge, however the   *)
(* text was cut into chunks and however many of them waited on disk, makes *)
(* the inverted file hold exactly the postings of the documents so far.    *)
(***************************************************************************)
TextInverted == Index!Init /\ [][Index!Next]_Index!vars

(***************************************************************************)
(* Once the first pass has ended, the second indexes the whole text: no    *)
(* chunk is left behind in memory or on disk.                              *)
(***************************************************************************)
WholeTextIndexed == ended ~> (Indexed = Len(text))

(***************************************************************************)
(* The second pass never runs out of what the first counted for it: of     *)
(* bits in a region, of memory, of places for chunks, of headers in the    *)
(* chunk file.                                                             *)
(***************************************************************************)
NothingRunsOut == RegionsHold /\ TablesSuffice /\ NeverFatal
=============================================================================
