# A specification of MG

MG ("Managing Gigabytes", version 1.3.64x) builds and queries compressed
full-text databases.  This directory holds TLA+ modules for the parts of it
where the order of steps, the sizes of things and the state left over from one
step to the next decide whether a document is found and comes back as it was:
cutting the source text into documents, compressing and inverting it, the files
a build leaves and what the next build makes of them, dictionaries, weights and
merging, answering queries, and the coding of pictures and scanned pages.  TLC checks each on small instances; TLAPS
proves the ones marked so for every size.

Paths below are relative to the repository root.

    tlc -config Passes.cfg MCPasses.tla       # model-check a run
    tlapm DriverProofs.tla                    # check the proofs of a module

1. The system
2. The modules and the code
3. The runs: what each shows, its bounds, its fairness
4. What is proved, and how
5. Where code and documentation part
6. What is only model-checked, and what is not modelled
7. Plan

---------------------------------------------------------------------------

## 1. The system

A database is built by running programs one after the other; each reads files
the earlier ones wrote.  There are no threads and no processes that share
memory.  What is hard is elsewhere: buffers that are read and written at
once, memory that is laid out from sizes a previous pass computed, bit streams
in which nothing marks the end of a code, in-place algorithms, and state that
must be reset (or must not be) between documents, chunks, words and terms.

    source text --> mg_passes -T1 -I1 --> .text.stats, .invf.dict, .invf.chunk ...
                       |                        |
                       |            mg_compression_dict, mg_perf_hash_build
                       v                        v
                    mg_passes -T2 -I2 --> .text, .text.idx, .invf, .invf.idx
                                                |
           mg_weights_build, mg_invf_dict, mg_stem_idx, mg_invf_rebuild
                                                v
                                    mgquery (Boolean, ranked, docnums)

### Components

**The document reader** (`driver()`, src/text/mg_passes.c).  State: one buffer
of `buf_size` bytes with the pointers `base`, `look_pos`, `end_pos` and
`buf_left`, and the input file at hand.  Operations: scan for the terminator
`^B`, refill (compacting the buffer and opening the next file if need be), hand
the document to every selected pass.  Hard: terminators at the edge of the
buffer, short reads, file boundaries within a document, the full buffer.
Correct when every document of the text reaches the passes once, whole and in
order, and the loop ends.

**Bit codes** (lib/bitio_m.h, lib/bitio_gen.c, and four flavours of stream in
lib/bitio_{stdio,mem,mems,random}.c).  State: a stream of bits and a position.
Operations: encode and decode in unary, binary, gamma, delta and block
(Golomb) code; lengths and upper bounds of encodings.  Correct when a sequence
of numbers in any mix of codes is read back as written, and the lengths and
bounds, from which others lay out memory, are true.

**Inversion** (src/text/ivf.pass1.c, src/text/ivf.pass2.c).  The first pass
keeps a hash table of words with their counts in the text and in the current
chunk, and cuts the text into chunks; it writes the chunk file, the dictionary
and the order of first occurrence.  The second lays out a region of memory per
word from the sizes in the chunk file, encodes every document's postings into
it, and merges the chunks (those waiting on disk as well) into the inverted
file, where each word has a region of its own, sized from the dictionary; in
the end it moves the regions together in the same file.  Hard: nothing checks a
write against the end of its region; per-chunk state; gaps that count from the
start of a chunk; reading and overwriting one file through two buffers.
Correct when the inverted file holds exactly the postings of the text.

**Skips** (src/text/mg_invf_rebuild.c and `GetDocsOp` of src/text/invf_get.c).
mg_invf_rebuild rewrites every list with headers that allow a reader to hop
over blocks of postings; the readers keep a position, a document number and
the header read ahead.  Correct when the list means the same with and without
skips, and a hop never passes over a document that was wanted.

**Boolean queries** (src/text/bool_parser.y, bool_tree.c, bool_optimiser.c,
bool_query.c, lists.c).  A query is parsed into a tree, which is rewritten
(DeMorgan, true and false folded, and with optimise_type 2 brought into
disjunctive normal form), then evaluated by merging, intersecting and
subtracting lists of documents in place.  Correct when rewriting keeps the
meaning and the answer is that of the query.

**Ranked queries** (src/text/query.ranked.c, the four `CosineDecode*` of
src/text/invf_get.c, src/text/weights.c).  Weights are added up per document in
an array, a splay tree, a hash table or a list, with limits on their number;
divided by approximate and then exact document weights; and the best are
selected with a heap that is turned over from smallest-first to largest-first.
In a paragraph-level index paragraphs of the same document are chained.
Correct when the documents returned have their cosine measure, in order, and
none better is left out.

**Text compression** (src/text/text.pass1.c, text.pass2.c, comp_dict.c,
mg_compression_dict.c, mg_fast_comp_dict.c, text_get.c, lib/huffman.c).  A first
pass counts words and non-words; mg_compression_dict chooses which of them get a
canonical Huffman code and writes a dictionary (complete, partial or a seed);
the second pass codes documents as alternating words and non-words, novel ones
spelled out or replaced by a number in a list that grows.  The reader decodes
any document in any order, and finds it through a page of the text index.
Hard: the tables of huffman.c share one array; coder and reader work out the
same block starts, prefixes and novel-word lists separately, and undo what one
document did to them.  Correct when each document comes back as it was.

**Stem dictionary** (src/text/mg_invf_dict.c, mg_stem_idx.c, stem_search.c).
Front-coded blocks under an array of first words, searched by bisection, with
one block in memory; an index from stems to runs of words.  Hard: block and
entry sizes, the byte order of the block in memory, runs that cross a block.
Correct when every word, and every word of a stem, is found with its own entry.

**Perfect hash** (lib/perf_hash.c, src/text/mg_perf_hash_build.c).  The second
pass finds a word's number by an order-preserving minimal hash.  Correct when
every word of the dictionary gets its own number.

**Document weights** (src/text/mg_weights_build.c, weights.c).  Weights summed
from the inverted file; approximate ones of a few bits packed into words of
memory; exact ones beside the places of documents in an interleaved index.
Correct when what is unpacked is what was packed and belongs to its document.

**Merging** (src/text/mg_invf_merge.c, mg_text_merge.c, src/scripts/mgmerge.sh).
Appends a collection of new documents to an old one, copying entries of the
inverted file where it can.  Correct when the merged collection is that of all
documents.

**Building** (src/scripts/mgbuild.sh, src/text/mg_files.c).  The script runs
the programs in order; each creates, opens and unlinks files.  Hard: a program
is killed with files half written; the text is built again with other options
over what is there.  Correct when a build that ends leaves files a query may
open together: all of one build.

**The query program** (src/text/mgquery.c, commands.c, environment.c,
backend.c, read_line.c).  A command loop with a stack of parameter sets, streams
that commands redirect, and the loading and showing of answers, a bufferful at a
time, under signals and a pager that may stop.  Correct when a parameter that is
constrained always has a legal value, streams are closed once and as they were
opened, and no document stays in memory after its answer.

**Images** (src/images: mgbilevel, mgtic, mgticbuild, mgfelics and smaller tools).
Pictures of two levels are coded pixel by pixel by an arithmetic coder, in the
context of pixels a template names; scanned pages are taken apart into marks,
which are matched with a library of symbols, and stored as the numbers of symbols
and their offsets, with the residue if nothing may be lost.  State: the interval
and the bits that wait; counts of contexts, a ring of rows and shifting masks; a
tree of event contexts with counts that are halved; lists of offsets; the page
that is emptied mark by mark.  Hard: coder and decoder each keep all of this and
must do the same in another order; integer division cuts the interval.  Correct
when a picture, a sequence of symbols, or a page comes back as it was.

**Scripts** (src/scripts: mgbuild, mg_get, mgmerge, xmg), **tools**
(src/text/mgstat.c, mg_invf_dump.c, ...), and the **support library** (lib).

---------------------------------------------------------------------------

## 2. The modules and the code

| Module | What it stands for |
|---|---|
| `DocStream` | what the document reader promises: the text, cut at its terminators |
| `Driver` | `driver()`, `open_next_file()` and the buffer, src/text/mg_passes.c |
| `DriverProofs` | proofs about `Driver` |
| `BitCodes`, `CodeFacts` | the codes, lengths and bounds of lib/bitio_m.h and bitio_gen.c, as operators; what the proofs share about numbers and these codes |
| `BitStream` (proofs in `FileProofs`) | numbers written in any code and read back |
| `BitFiles` | the four kinds of stream the codes are written on, to the byte and the block |
| `Postings` | what the inverted file promises |
| `InvfPass1`, `InvfPass2`, `InvfPassProofs` | the two passes of inversion, the second extends the first; proofs |
| `MCPasses` | the two halves of mg_passes, for one run: every small text, cut into files in every way, and small documents |
| `InvfCompact` (proofs in `FileProofs`) | `done_ivf_2`: compacting the inverted file in place |
| `RecordStore`, `StateCache`, `FileProofs` | a store of records; `in_cache` of ivf.pass2.c, which implements it; proofs |
| `InvfSkip`, `InvfSkipProofs` | mg_invf_rebuild and `GetDocsOp` on real bit strings; proofs |
| `HuffCode`, `Huffman` | the tables of lib/huffman.c as operators; building them step by step, and messages |
| `TextDict`, `TextCodec` | the three compression dictionaries; coding and decoding the text of a collection |
| `FastDict` | mg_fast_comp_dict and `Load_Fast_Comp_Dict`: the dictionary as one block of memory in a file |
| `TextIndex` (proofs in `FileProofs`) | the page of the text index, src/text/text_get.c |
| `Weights` | mg_weights_build and the unpacking of weights.c |
| `StemDict` | mg_invf_dict, mg_stem_idx and stem_search.c |
| `PerfHash` | lib/perf_hash.c |
| `Merge` | mgmerge, mg_text_merge and mg_invf_merge |
| `Build`, `BuildProofs` | the files of a collection, mgbuild, kills, and which files mgquery opens; proofs |
| `MCFiles` | all that stands in the files of a collection, for one run |
| `BoolTree`, `BoolQuery` | parse trees and every rewriting of bool_optimiser.c; `BooleanQuery()`: parse, optimise, evaluate, cut the answer |
| `DocLists` (proofs in `QueryProofs`) | lists.c and `ReduceList`, one turn of a loop a step |
| `MCBoolQuery` | `BoolQuery`, `DocLists` and `InvfSkip`, for one run |
| `RankedAccum`, `Ranked`, `RankedProofs` | the four `CosineDecode` functions and their tables; `CosineGet`: heap, exact weights, paragraphs; proofs about the tables and about what is returned |
| `Session`, `QueryProofs` | the program around the queries: parameters, commands, streams, showing an answer; proofs about `DocLists` and `Session`, each for itself |
| `MCQueryProgram` | `Ranked` and `Session`, for one run |
| `ArithCode` (proofs in `FileProofs`) | the arithmetic coder, src/images/arithcode.c, as operators, and its decoder turn by turn |
| `Bilevel` | bilevel.c and mgbilevel.c: templates, contexts, pictures and residues |
| `Symbols` | the symbols of a page: the event coder of ppm.c, lstevent.c and codesyms.c, the offsets of codeoffsets.c and marklist.c |
| `Textual` | mgtic.c, mgticbuild.c, extractor.c, sortmarks.c: marks, the symbols they are taken for, and what is drawn from them |
| `MCImages` | the image programs, for one run |

The modules that `MCPasses`, `MCBoolQuery`, `MCQueryProgram`, `MCFiles` or
`MCImages` extend are run together; each initial state of such a run
belongs to one of the programs, and the others rest.  Where programs meet, the
modules are composed: `InvfPass2` runs on the chunks, dictionary and region
sizes that `InvfPass1` left; `TextCodec` takes its codes from `HuffCode` through
the tables of `TextDict`; `FastDict` takes the dictionary that `TextCodec` has made; `Ranked` selects from the table `RankedAccum` filled;
`Build` strings the programs of a build together over one disk; `Bilevel` writes
through `ArithCode`; `Textual` codes its residue with the steps of `Bilevel`, in the
pictures coder and decoder have drawn.

PROJECT.json names, for every definition, the lines it stands for.

### Correspondence of state and actions

*Driver.*  The variables are those of `driver()`; pointers are indices.  A byte
is represented by its position in the stream of source text, so the contents of
the buffer say exactly which bytes of which file a pass is handed.  `Scan` is
the `memchr` and the branches after it, `Fill` is one `read()` together with the
compaction before it and the opening of the next file when it returns 0,
`OpenFails` that opening gone wrong, `Process` and `ProcessFails` the call of the
passes.  A `read()` may return any number of bytes there is room for; that it fails is left
out (section 6).

*BitCodes.*  An encoder is the sequence of bits it appends; a decoder takes the
stream and a position and returns the value and the new position.  `Delta` hands
`Binary` a number above its range, as the macro does; only its low bits are
written.

*BitFiles.*  A stream is the buffer and the variables of its `_state` structure; a
byte has `ByteBits` bits, so that numbers cross bytes and blocks.  The first three
kinds write numbers and read them back with jumps; the random one writes the regions
of `DiskMerge`, several of which share a byte, through one block in memory, while a
second stream with a copy of the state reads what the chunk before has written.

*InvfPass1 / InvfPass2.*  Words are numbers in dictionary order and the hash
table a function from them; documents are sequences of words.  `Collect` is
`process_doc`'s loop, `Dump` is `dump_dict` and the reset of the per-chunk
counts.  In the second pass `LoadCounts` is the start of a chunk (the layout of
memory included), `process_doc_2` the coding of a document, followed, when it
ends a chunk, by `MergeIn`, i.e. `DumpChunk` or `DiskMerge`.  A region is
represented by the postings written to it, `<<gap, count>>`, and by how many
bits `BitCodes` says they take; what is read from it are postings only if it is
read from where they were written and with the block size they were written
with, and `Noise` otherwise.  `InvfInit`, `InvfNext` and `invfVars` are those of
both passes.

*InvfCompact.*  Byte k of the file holds k, so that a byte that was moved says
where it came from, and an overwritten one shows.  The two stdio buffers are
explicit: `Refill` may read ahead any number of bytes, and `Flush` write any
prefix of what is pending, whenever they like.

*InvfSkip.*  A list is the real sequence of bits.  `ReadPosting` and
`WritePosting` are the two loops of `process_files`; `StartGet`, `ShortCut`,
`ReadHeader`, `NextPosting` and `Return` are `GetDocsOp`.  Memory that `Xmalloc`
returned and nobody set holds a member of `Garbage`.

*BoolTree / BoolQuery.*  A node is a record whose children are a sequence.  The
rewriting of a tree is a recursive operator; `BoolQuery` runs the steps in the
order of `OptimiseBoolTree`, one call a step, except for the distributive law,
which takes one step for each of its passes and fails after `ItersLimit` of them
(`ITER_LIMIT`, 500 in the code, 12 here: no query of the run needs more, and a
law that never came to rest would reach either).  Evaluation
uses sets: the operations on lists are the subject of `DocLists`, the reading of
postings that of `InvfSkip`.

*DocLists.*  `mem` is the array the result is written to, the first argument
itself for the three operations that work in place.  The reading cursors are
`s1` and `s2`, the writing one is `d`.

*HuffCode / Huffman.*  `heap` is the one array of `Generate_Huffman_Data`, places
counted from 0.  `BuildHeap`, `MergeTwo` and `Generate_Huffman_Data` are its
three loops and what follows them; `TextDict` uses the same operators run to the
end.

*TextDict / TextCodec.*  Characters are small numbers of which some make words.
`CountDocument` is `process_text_1` on a document, `Select_on` one word chosen,
`WriteOutWords` the dictionary with its frequencies, prefixes and block starts,
as the compressor and as the reader load it (`ReadWords`, `ReadInWords`).
`StartDocument`, `EncodeToken`, `FinishDocument` are `process_text_2`;
`done_text_2` leaves the list of novel words for the reader, who has it whole
from the start; `ReadDocument`, `DecodeToken`, `DecodeDone` are `DecodeText`.  The
text is the real sequence of bits.

*FastDict.*  Memory is a function from addresses to cells; a cell that holds a
pointer is marked by the fixups alone.  `load_comp_dict` is two steps for each kind
of word, the words and then their codes, and one for the auxiliary dictionary, with
the memory estimated before and taken by `getmem`; `save_fast_dict` turns numbers, undoes the fixups and writes the
cells; `Load_Fast_Comp_Dict` puts them at another place of the heap.

*TextIndex.*  `idx_data` and `current_pos` are the page; one step is one search
forwards (`FetchDocStart`, `NextStart`) or backwards (`FetchInitialParagraph`,
`PreviousStart`).

*StateCache.*  The window `isr_data` from `isr_base`, the copy `isr` of record
`isr_num`, and the file `invf_state`; `filled` says which records stand in the
file.  `in_cache` is the call, `Assign` what the caller does to the copy.
Mapped to `RecordStore`, a record is what the copy says if it is the record at
hand, else what the window says if it covers it, else what the file says.

*Weights.*  `GenerateWeights` is the loop over postings, `PackWeight` one weight
put into the words of memory (a word is the set of places of its one bits),
`IndexDocument` one entry of the interleaved index.  A weight stands for its
logarithm: both keep the order.

*StemDict.*  Sizes of entries and blocks are those of the code, byte for byte
(`DictBytes`, `IdxBytes`, `Needs`), because what fits is the question; the letters
are few.  `buffer` is the one block in memory and the byte order it is in.

*PerfHash.*  `tree_builder`, `acyclic`, `ph_remove` and `assign` are the
functions of the same names; the recursion of `ph_remove` is the stack `Stack`.
What RANDOM returns is a member of `Randoms`.

*Merge.*  A document is how often it has each word.  `mgmerge` decides, makes the
new collection and starts the merge; `LexiconPass` is the first pass of
mg_invf_merge, `procEntry_slow` and `CopyEntry` its second; entries are lists of
gaps, with the bits the codes take.

*Build.*  A program is the sequence of what it does to files (`FileOps`), a file
the set of builds its contents stem from.  A file that was created and not
closed when its program was killed is `Torn`.  `GoOn` is the script going on from
the second pass or the weights, as its options allow.  `open_all_files` says what
a query opens, in the order of backend.c.

*RankedAccum / Ranked.*  The list of a term is the sequence of numbers its codes
stand for, with skip headers in it.  A step is the start of a term, a hop, the
reading of a header, a posting, or the end of a term.  The weight of a word is
an integer that falls with the documents it is in, as the logarithm does.  The
splay tree is a sequence in document order; a hash table the sequence of its
entries in the order they came, and sorted once "Anding" starts.  In `Ranked`
the heap is the array of the code, and `Heap_Heapify` takes as many turns as it can
need, those after the entry has come to rest changing nothing; `FillHeap`, `ScanEntry`, `ExactEntry`,
`TurnOver`, `Make_Exact_Root` and `TakeRoot` are the loops of `CosineGet`.

*Session.*  An environment is a function from names to `[data, cons]`; the
stack is `stack`, the current one last, and `base` remembers the bottom one.
Several commands on one line are several steps.  Streams are numbered as they
are opened, and `opened` records what closed each.  `query` frees the answer
before and makes the next, `ProcessDoc` is one turn of the loop of
`ProcessDocs` with the loading it may need, `EndDocs` its end; the two signal
handlers may run before every step of the showing.  `allocated` is what malloc
and free have been given, kept apart from what the lists point to, so that
`BuffersHold` can compare them.

*ArithCode.*  `arithmetic_encode` and `arithmetic_decode` are whole calls, for
the modules that use them; a coder is its interval, the bits that wait and the bits
written.  The actions are the decoder by itself: `Decode` is a call up to its loop,
for any symbol the target allows, `Turn` one turn of the loop, which reads any bit.
What follows the end of the coded file is as `getc` gives it, and so is what comes
from the standard input (section 5).

*Bilevel.*  `WriteNumber` and `ReadNumber` code one number of the header
(`bl_writetemplate`, `bl_readtemplate` and the size), `CompressPixel` and
`DecompressPixel` are one turn of the loops over pixels, with what is done at the
start of a row in the turn of its first pixel.  `array` is the ring of rows and
`MMmask` the masks, kept as their bits; the table of contexts is a function from
`HASH` values, so contexts collide as in the code.  A residue (`bl_clair_compress`)
goes through the same steps with an empty template and the other picture in `view`.
`OpenFile` is mgbilevel -d opening its file; `arith_in` is the stream of the decoder, which
`InitArithDecoding` reads from and which is a null pointer at first.

*Symbols.*  A model is its nodes in the order they were made.  A symbol is coded by
the writer and read at once by the reader from the calls the writer made; `high`
says which end of its part of the interval the target is at.  `Miss` inserts a node
and `Walked` fills in its event and the shorter context, as the reader must, who
knows the event only at the end of the walk.

*Textual.*  The page is a set of pixels, `sheet` what is left of it.  `FindMark`,
`TraceBoundary`, `FillRun` and `AddMark` are `ExtractNextMark` (a step of the walk
or a run of the fill each), `SplitMark` a mark cut at any columns, `NoMatch` and
`Match` a turn of `match_sequence` with the measures of match.c as a choice, except
the screening by centres.  mgtic -d ends where its decoder is started (`FreopenStdin`,
then `InitArithDecoding` of `Bilevel`; section 5), so its loop over the symbols is an
operator, `Drawn`, and no action.

Definitions whose name says what goes wrong (`CompactsNever`,
`LayoutNoCounts`...) stand before the definition they spoil.  They are plausible
mistakes; each property is known to fail when one of them is put in place.

---------------------------------------------------------------------------

## 3. The runs

State counts are those of the bounds given.  `CHECK_DEADLOCK FALSE` is set in
every run because every program here ends.

### passes (MCPasses, Passes.cfg; 108k states)

*The reader.*  Every text of up to 5 bytes with every set of terminators, cut
into up to three files in every way, empty files included, read through a buffer
of 4 bytes that is compacted when less than 2 are left.  `BufferHoldsTail`:
wherever compaction has moved them, the bytes handed out are a stretch of the
source text.  `RoomToRead`: the refill never finds a full buffer (it would loop
for ever).  `Implements`: the reader is a `DocStream`: each document once, whole,
in order.  `Terminates`.  The text is longer than the buffer, documents can be
empty, shorter than, as long as, and longer than the buffer, so compaction
happens with and without a document in progress.  All of it but termination is
proved for every size (section 4).

*Inversion.*  Every text of up to 4 documents over two words (words missing,
repeated, in both orders), memory so small that the text is cut into chunks at
many places, and `ChunkLimit` 0, 1 and 2, so that up to two chunks wait on disk;
level 2, with counts.  `NothingRunsOut` has three parts.  `RegionsHold`: no word's
postings reach into the next region, neither in memory nor on disk: the bounds
computed from counts alone are enough for every order of documents.
`TablesSuffice`: buffer and chunk table are large enough for every chunk.
`NeverFatal`: chunk file and text never get out of step.  `TextInverted`: after each merge the inverted file
holds exactly the postings of the documents so far (`Postings`).
`WholeTextIndexed`: no chunk is left behind.  Two words are enough for a word to be
absent from chunks before, between and after those that have it, and to have a
neighbour whose region could be hit.  `NothingRunsOut` and `TextInverted` are proved
for every size (section 4).  The two halves share nothing but the order
of documents, so inversion is explored beside one text only, the empty one.

*Fairness* `WF_vars` of the reader: one sequential program that does not stop by
itself; `read()` returns, and returns 0 only at the end of a file.  And of the
steps of the second pass: it is run on a text that has ended and goes on with it.
Nothing makes the first pass end a text.

### driver_empty_file (violation; see section 5)

### files (MCFiles, Files.cfg; 488k states)

What stands in the files of a collection.  Each program is run on inputs of its
own; the bounds are given with it.

* `CodesReadBack` (`BitStream`): streams of up to two numbers up to 9 in any mix
  of the five codes, with all block sizes up to 6, are read back as written, and
  the bits written are what the `_LENGTH` macros say.  Two numbers suffice,
  because a decoder depends on what precedes it only by its position; the values
  pass 1, 2, 4 and 8, where the lengths of gamma and delta codes change.  Proved for
  all numbers and block sizes.
* `BitsComeBack` (`Huffman` and `BitFiles`): up to 4 symbols with frequencies up to 4
  (0 is a symbol not used): the lengths are those of a prefix code than which no other
  is shorter, so neither the heap nor the tree lost a node of the array they share,
  and messages of two symbols are read back.  On streams of every
  kind with bytes of 2 bits: up to two codes of one bit to more than two bytes are
  written, closed, and read back with jumps between them; regions that begin in the
  middle of a byte are written twice in blocks of two lengths, the second time after
  reading the first.
* `TextAndDictionary` (`TextCodec` and `FastDict`): 5 collections whose words recur within and across
  documents, are spelled out, moved to the front and longer than `MAXWORDLEN`;
  complete, partial and seed dictionaries by occurrence and frequency, all five
  methods for novel words, look-back 1 and 2, statistics of one document or of
  all; any two documents read back in any order, the same one twice included.
  Excluded by name: a token that takes no bits, a dictionary without a word of a
  kind, and partial dictionaries that did not count the whole text (section 5).  The
  dictionary loaded from its fast form, at the same address and at another, holds
  what it holds loaded the slow way, and the memory estimated for it is all used.
* `SearchesFind` (`TextIndex`): three indexes, pages of three entries, any two
  searches one after the other: an entry longer than a page, one document only,
  and documents of several paragraphs.  Proved for every page size and index.
* `CacheIsStore` (`StateCache`): four records through a window of two, any
  sequence of calls: it implements `RecordStore`.  Proved for every size.
* `UnreadIntact`, `Compacted`, `Finishes` (`InvfCompact`): three words with
  regions of one or two bytes, filled to any half byte, and every way the two
  buffers may be filled and written.  No byte is overwritten before it is read
  (proved for all layouts); in the end the file is the header and the postings of
  every word at the offset the index gives, with the last byte cleaned.
* `WeightFilesRight` (`Weights`): five collections, one without a word, quantised to 0 to 3
  of 4 bits (where the code divides by nothing, to any value of as many bits),
  so that a weight straddles two words of memory: a weight unpacked is the one
  packed, keeps the order, and is found with the place of its document.
* `WordsFound` (`StemDict`): every dictionary of six words or more over two letters
  in both cases, look-back 2 and 3, two block sizes for the dictionary and for the
  index, three stem methods, two lookups one after the other.
* `HashIsPerfect` (`PerfHash`): 6 dictionaries, 120 sequences of random numbers,
  two tries: what is made numbers the words in order.
* `MergedIsWhole` (`Merge`): four old and four new collections over three words,
  levels 1 and 2, fast and slow, weights guessed or rebuilt, up to two merges one
  after the other.
* `BuiltIsCurrent` (`Build`): two builds of a collection with other levels,
  indexes and auxiliary dictionaries, up to two kills anywhere, and going on from
  the second pass: a build that ends leaves files that all stem from it, as a
  query opens them.  `LeftBehind` names what mgbuild does not know of (section
  5).

*Fairness* weak fairness of the compaction's own steps; flushing is only
certain when the file is closed, and that is how it is modelled.

### stem_idx_blocks (violation; see section 5)

### bool_query (MCBoolQuery, BoolQuery.cfg; 801k states)

*Trees.*  Every parse tree of up to three levels over two words that occur, one
that does not, "all" and "none", and those of four levels over the two words with
a leaf at the root; every optimise_type; `maxdocs` 2 or all; five documents (two
of them paragraphs of one) that realise every combination of the words.
`MeaningKept`: every rewriting keeps the documents a query means.  `StepsHold`: the
shapes each step takes for granted when it follows pointers, and the distributive
law ends by itself.  `AnsweredRight`: no wrong document is found, and what can be
answered from postings is answered in full, and cut to the first documents when
`maxdocs` says so.

*Lists.*  Every pair of lists over four documents, marked or not, NULL or not.
`UnreadIntact`: writing in place never changes an entry still to be read.
`ResultRight`: the result is the intersection, difference, union (weights added)
or the marked entries.  `ResultOrdered`: it is ordered, as the next operation
assumes.  These are proved for lists of every length.  `Terminates`: the loop of
`IntersectLists`, which moves no cursor unconditionally, ends.

*Skips.*  Every list over six documents with counts of 1 to 3, rewritten any
number of times from and to no skips, skips of 1, 2 and 3 postings and two
settings of the variable skip size; then every operation of `GetDocsOp` with every
list of up to two candidates, marked or not, and with all documents as candidates.
`RebuildReadsBack`: what is read from a file of any skip mode is the true list, and
the length in every header leads to the block it names (`SkipsLandOnBlocks`).
`AnswerIsRight`: the result is the set operation asked for, and no hop passes a
document the candidate at hand may be.  Six documents give lists with several full
blocks and a partial last one for every skip size.  Both are proved for all
lists, skip sizes and candidates (section 4).

*Fairness* weak fairness of the list operations: a function that was called runs
until it returns.

### bool_diff_tree, invf_skip_level1 (violations; see section 5)

### queries (MCQueryProgram, QueryProgram.cfg; 966k states)

*Ranking.*  Queries of none to four terms over five documents, lists with no
skips and with skips of one and two postings; all four methods; limits on
accumulators of none, 1, 2 and 3, stopping at the limit or going on; limits on
terms, documents and paragraphs; approximate and exact weights that disagree about
the order; at level 3 documents of one, two and three paragraphs.
`AccumulatorsWhole`: every accumulator has the whole sum of its document over the
terms gone through, the limit cuts between terms, not within, what is hopped
through is sorted (`TableInOrder`), and the supplement, allocated once, is large
enough (`SupplementFits`).  `WeightsAreCosine`, `BestReturned`: what is returned has its cosine
measure, in order, and nothing better is missing, although exact weights are
fetched only for some; and every paragraph taken is in the chain of its document,
the two ends of the array never meeting (`ParagraphsChained`).  All three are
proved for every query (section 4).  `MCInit` pairs many ways
to accumulate with one way to rank, and the other way round; the two halves of
the program share nothing but the table.  Some queries end in `overrun`, where
the code leaves the bounds of a table (section 5).

*The program.*  Any three commands and queries, from .mgrc or typed, with any of
ten settings (a `buffer` of 0, refused ones, missing values and names nobody knows among them), up
to three environments on the stack and two streams opened.  `ParametersHold`: every
constrained parameter is there with its constraint and a legal value, and .reset
always has the same environment to go back to.  `StreamsClosed`: a stream no
longer in use was closed once, by the call that fits how it was opened, and one in
use was not.  `BuffersHold`: what is allocated is what the answer and the text
buffer point to, the document at hand is loaded, and when lengths are known a
batch is no more than `buffer`, or one document alone.  Three documents of 4, 6 and 3
bytes against buffers of 0, 1 and 9 make batches of one, of two and of a last one;
pager, pipe and Ctrl-C may end the showing at every document.

### ranked_list (violation; see section 5)

### images (MCImages, Images.cfg; 80k states)

*The decoder* of an interval of 5 bits (16 in the code), from every value its first
bits may give, with totals of 1, 2, 5 and 8 (the largest that `maxfrequency`
allows), any symbols and any bits that follow.  `DecoderRight`: its value stays in
the interval, a settled interval is long enough that no symbol gets an empty part,
and a symbol is the target's exactly if the coder's part for it holds the value.
Proved for every precision (section 4).

*Pictures.*  Every picture of three columns and two or three rows with a template of
two rows and a second context, and those of two rows with templates that look to the
left only, ahead, to the lower left, have no current pixel, or are as wide as may
be; the residues of pictures of two columns against two other pictures, read from a stream
that was opened (which mgtic -d does not come to, section 5).
`PicturesComeBack`: a picture that was coded is read back, or the template was
refused.  The ring has four rows, the table of contexts 5 places, so contexts
collide; a context is old after a few pixels, so both contexts are used.  The
contexts that look below the current pixel without being refused are left out by
name (`LooksBack`; section 5).

*Symbols.*  Every sequence of up to six of three symbols, in strings of four, with
contexts of up to three events, counts halved at four, and room for twenty nodes, so
that a model is started anew; offsets of -2, 0 and 1 in every order for four
sequences of symbols, with counts halved at nine.  `SymbolsComeBack`: the reader
makes the calls the writer made, gets its symbols and offsets and the end of each
string; no event stays excluded and there is room for another walk.

*Pages.* Every page of three by three pixels, and three of five by five (a ring with a
dot in it, a broken ring, a comb), each taken apart with its marks split at any
columns; every page of three by two and four by one drawn with small symbols of a
library, matched in every way the screening allows; a page of which its own library is
made; and two with the residue, up to where mgtic -d ends. `PagesRedrawn`: no pixel is
lost, a mark is all that touches and fills its box; from the symbols and offsets that
are written, the rules of the decoder put every symbol where the coder put it, and a
page whose marks were taken for symbols just like them is drawn as it was.

### bilevel_stdin, tic_decode (violations; see section 5)

### Bounds by name

The reader: `MaxText`, `MaxFiles`.  Inversion: `MaxDocs` of `InvfPass1` (in
`BoolQuery` it is the set of values of the parameter `maxdocs`).  Files:
`MaxValue`, `MaxBlock`, `MaxItems` (bit streams); `HuffSymbols`, `HuffFreq`,
`HuffMessage`; `MAX_SWAPS` (the code's own, a smaller value), `Reads`;
`MG_PAGE_SIZE`, `ISR_CACHE`, `MAXBITS` and `MAX_TRIES` (sizes of the code, smaller
values); `Entries`, `MaxRegion`, `MaxLookups`, `MaxMerges`, `MaxBuilds`,
`MaxKills`.  Boolean queries: `ItersLimit` (the code's `ITER_LIMIT`, a smaller
value).  The query program: `MaxDepth`, `MaxStreams`, `MaxCommands`.  Images:
`MaxSymbols`; `codevaluebits`, `MAX_T_W`, `TEMPLATESIZE`, `FIXEDORDER`, `halveat`,
`maxnodes`, `PPM_CHUNK`, `Charset` and `maxlevel` are sizes of the code, most of them
smaller here.  The other
constants are sets of inputs, defined in the MC modules.

---------------------------------------------------------------------------

## 4. What is proved

| Theorem | Module | Assumes of the constants |
|---|---|---|
| `TypeCorrect`, `BufferCorrect`, `AlwaysRoom` | `DriverProofs` | `SizesAssumption`, `InputsAssumption`: the buffer is at least `MIN_BUF` (main() refuses less), files are finite and in order |
| `DriverImplementsDocStream` | `DriverProofs` | the same |
| `PassesInvertText`, `CountedIsEnough` | `InvfPassProofs` | `Pass1Constants`, `Pass2Constants`: numbers of words and chunks are natural, -D and the bytes of the buffer too; level 1 or 2 |
| `NothingOverwritten`, `FileCompacted` | `FileProofs` | `CompactConstants`: regions follow one another, the first is not before the end of the header, and no postings are longer than their region |
| `TypeCorrect`, `NothingUnreadIsOverwritten`, `ReturnsTheSet`, `ReturnsOrdered` | `QueryProofs` | `ListsAreOrdered`: the assumption written in the comments of lists.c |
| `IndexCorrect` | `FileProofs` | `IndexesAreBuilt`: the places of documents do not fall and no document is empty, as `Make_text_idx_wgt` writes them |
| `CacheImplementsStore` | `FileProofs` | `CacheAssumption`: the sizes are positive |
| `BuildsAreCurrent` | `BuildProofs` | `BuildAssumption`: the options are a level from 1 to 3 and two switches, and a collection that is built at level 3 is not rebuilt at another |
| `StreamsClosedOnce`, `ParametersKept` | `QueryProofs` | nothing |
| `DocumentsHeld` | `QueryProofs` | `SessionAssumption`: an answer is a sequence of documents of the text, and none of those is empty |
| `AllCodesReadBack` | `FileProofs` | `StreamAssumption`: the bounds of a run are natural numbers |
| `RebuildsAreFaithful`, `SkippingKeepsAnswers` | `InvfSkipProofs` | `SkipConstants`: the documents of a list grow and lie within the collection, counts are positive, -k, -m and -s are positive, candidates are in order; and `HasCounts`: the file holds the counts, levels 2 and 3 |
| `AccumulatorsComplete` | `RankedProofs` | `RankedConstants`: a word of the dictionary has a list, its documents grow and lie within the collection, counts are positive; the limit on accumulators is positive or "all", which mgquery's constraint on it allows only |
| `WeightsExact`, `BestAreReturned` | `RankedProofs` | the same, and that limits on documents and paragraphs are positive or -1; `DocTableConstants`: `Scale` is a multiple of the documents' weights, so that quotients are exact as those of floats nearly are, no lower bound exceeds its weight, and documents do not stand at place 0, where the text file has its header.  `Init` lets two entries share a place at level 3 only |
| `DecodesWhatWasCoded` | `FileProofs` | `CodeAssumption`: the interval has 4 quarters of `firstqtr` values, as for every number of bits from 2 on, and totals are below `maxfrequency`, which the code tests |

The assumption `CompactConstants` of `InvfCompact` that postings fit their regions is what
`CountedIsEnough` says of `InvfPass2`.

**The reader.**  `BufferHoldsTail` alone is not inductive: that a full buffer is
compacted to one with room depends on what has been scanned, and that a document
is complete on where the scan stopped.  The invariant `Inv` adds what holds at
each place of the loop: `ScanInv` (the buffer is not full of a document that
starts at its first byte), `FillInv` (the scan ended at `end_pos` without finding
a terminator, and only a buffer with something before `base` is full),
`ProcessInv` (the document ends at its first terminator, or at the end of the
text with room left) and `InputInv` (what a `read()` that returned 0 says about
the files).  There is one lemma for each action; the compaction
is a lemma of its own (`CompactionFacts`).  For the refinement each action
is shown to be a step of `DocStream` (`Process` delivers, the rest stutters or
ends), where the abstract position of the next document is computed from
`bytes_received` and the pointers (`At`).  The least terminator after a position
comes from `CodeFacts`, because the scan is defined by the first index at which it
stops.

**Inversion.**  Both theorems are about any text whatever, any number of words, any
size of the buffer and any number of chunks that may wait on disk.  Neither property
is inductive: they speak of positions, counts and lists that two passes work out in
different ways.  What ties them together is the text.  For a word, `DocsIn(w, t, a,
b)` and `OccsIn(w, t, a, b)` count documents and occurrences between two documents,
and the invariant `InvfInv` says of every table of the two programs which stretch of
the text it describes:

* `Pass1Right`: the counts of the text and of the current chunk, the order of first
  occurrence, and each chunk description (`Describes`): its documents, the memory it
  needs, and its counts, whose words are a prefix of that order, since words may have
  been added after the chunk was written;
* `CountersRight`: the second pass is in step with the chunk file;
* `RegionsRight`: the layout of the memory is that of the chunk's counts, and each
  region holds the postings of the documents of the chunk coded so far, in as many bits
  as the position says (`WordRight`, and `Coded`, the inequality below);
* `DataRight`: what was kept of the chunks that wait, with the images of their memory;
* `ListsRight`: the inverted file holds the postings of all documents merged.

`PassesInvertText` needs, beside the invariant, that a list of gaps means the documents
it stands for (`ListIsPostings`), that what is read back from an image is what was
written (`ReadsBack`: the regions follow one another without overlap, so a read starts
where the word's writing started, with its block size), and that joining the list of a
chunk to that of the file, with the first gap counted anew, is again a list
(`ListsJoin`, `ChunkMerged`).

`CountedIsEnough` is about numbers.  A gap x in block code with block size b takes
q + 1 + CeilLog(b) bits, one less below the threshold, where q = (x - 1) div b; so b
times what it takes beyond the least is at most x less the threshold
(`BlockLengthRight`), that inequality can be added up over the gaps of a word
(`Coded`), the gaps of a chunk add up to at most its documents, and the sum is
`BblockBoundB` (`BlockBoundHolds`).  In memory the counts are in unary, one bit an
occurrence.  In the file they are in gamma code, 2 FloorLog(x) + 1 bits for a count x,
and what is reserved, `BIO_Gamma_Bound`, is what they would take if all were equal to
their mean.  That this is the most they can take is the inequality between the
geometric and the arithmetic mean, shown in whole numbers: the powers of two below k
numbers multiply to no more than the k-th power of their mean (`LogsBounded`, one
number at a time by `MeanGrows`, which rests on Bernoulli's inequality), and a list
that has as yet less than all its counts fits too (`GammaBoundHolds`).
`DiskRight` carries both along in the inverted file, where a
list's first gap in a chunk is coded again as the gap from the last document of the
chunk before.

**Codes.**  `CodeFacts` shows of each code of `BitCodes` that wherever its bits stand
in a stream (`Stands`) its decoder returns the number and the position behind it, and
that its length macro is right: `UnaryIsRead`, `GammaIsRead`, `BinaryIsRead`,
`DeltaIsRead` and `BblockIsRead`.  What has to be shown of the minimal binary code is
that the first bits of a long codeword are never those of a short one, and of the
delta code that a value above the range loses just the bit that `BINARY_ENCODE` is
relied upon not to write (`BinaryOfPower`).  `CodesReadBack` then only needs an
invariant that says where in the stream each code ends (`Laid`).

**Skips.**  Both theorems are about any list and any sequence of rebuildings, from and
to any skip sizes.  A list with a given skip size is a sequence of pieces, one a
posting (`Piece`: the header of its block, its gap, its count, of which the first two
may be missing), and `Layout` says that a stream is the first m of them.  A decoder
that stands where a piece starts and knows the document before it reads the posting
and stands where the next one starts (`PieceIsRead`).  The header holds the bits of
the codes of its block but the last gap, counted in a list without skips, from which
process_files reckons it; `BlockSpan` shows that this is just what separates the end
of the header from the next block, one posting of the block at a time.  The inductive
invariant `SkipInv` has a part for each loop: `ReadInv` and `WriteInv` for the two of
process_files, where what it keeps of the last header is the start of the next block;
`CursorInv` for the place of `GetDocsOp`, with the block that next_i, next_start and
next_doc_num describe (`Target`: it depends on whether the header at hand has been
read); `ListInv` for the candidates, those passed being dealt with for the whole word
and the others beyond the document at hand.  That is why a hop is harmless: all
documents it passes are smaller than the candidate.  `PassedRight` shows that candidates
the switch passes over are no documents of the word, `AndRight`, `OrRight` and
`DiffRight` that what it does with the others is the operation.  The theorems need the counts in the file:
without them the lengths in the headers are not defined (section 5,
invf_skip_level1).

**Compaction.**  `UnreadIntact` needs to know that the output never overtakes
the input.  `IInv` says so (`Behind`), says where the input stands (`Reading`)
and that all bytes at or after the output position are as they were, in the file
and in the buffers (`Bytes`).  Going to the next word moves the input forward by
`LayoutOf`.  For `Compacted` (`FileCompacted`) the invariant
`MovedInv` adds what has been given out so far, wherever it is now (`Out`: in the
buffer or in the file): the offsets follow one another as the postings do
(`OffsetsRight`), and behind each offset stand the bytes of its word, the last one
cleaned (`OutputRight`); `Cut` says that the file ends there when `ftruncate` is done.

**Lists.**  `ResultRight` and `ResultOrdered` speak of the end only.  The loop
invariant `LoopInv` is that of merging: what has been written is right for what
has been read (`RightFor`), ordered, and below everything unread; and what has
been read of one list is below what is unread of the other (`Below`), so an entry
passed over has no partner.  `Control` ties the places of `IntersectLists` (its
two inner loops) to the function that has them.  Each action has a lemma for
each conjunct it can disturb.

**Accumulators.**  `AccumulatorsComplete` is about any query over any lists, any skip
sizes, any limit, and all four methods.  `AccumulatorsWhole` speaks of the places
between two terms; within a term the table holds part of what a term gives, hops have left
out some of that, and entries are in two tables, in the order they came in.  The
invariant `RankedInv` has a part for each:

* `CursorInv`: the reader stands where posting i begins.  A list is laid out as
  mg_invf_rebuild writes it (`LaidOut`, shown of `Codes` by `CodesLaidOut`), posting m
  behind `Start(t, v, m)` codes, and what the last header said is where the next block
  begins and the document before it (`BlockIsSkipped`).  The array counts `kd` up and
  reads a header when it enters the block, the others count it down and have read it before.
* `SumsInv`: what the table and the supplement have for a document is `Due`, the terms before
  and the postings read; once documents are passed over, only for those that have an entry.
* `AdmitInv`: which documents have entries: before "Anding" those of all postings read;
  afterwards those of the terms before the first one that began with a full table.  `SizeOf`
  says how full from the terms alone, which is why a list that shrinks when it is packed
  must not be looked at again (`AndFromNow`).
* `TableInv` and `WalkInv`: the order of the table, no document twice, supplementary entries
  only when the table is full and then no more than are left of the term; and everything
  the walk has passed is below the document at hand.

A table is taken as a bag of sums (`SumIn`).  `AppendRight`, `InsertRight`, `AddToRight`,
`ByDocNumRight` and `PackedRight` say what adding an entry, sorting, merging and packing do
to the sum of each document, and to the order.  `PostedRight` says the same of a posting
for every method.  `PassedOver` is what makes hops and the early end of a list harmless: the
list grows, so the postings between the document at hand and the next entry are of
documents without one.  The comparison in `CanSkip` of a number from 0 with one from 1
is on the safe side.  As in the model, lists are sequences of numbers and a header counts
codes; that its bits lead to the same place is what `RebuildsAreFaithful` says, for files with
counts.  A run that leaves the bounds of a table ends in `overrun`, of which nothing is
claimed.

**Ranking.**  `WeightsExact` and `BestAreReturned` are about what `CosineGet` makes of a
table of any size, with any weights of documents and any limits.  The heap comes first:
`TurnRight` is one turn of `Heap_Heapify`, which leaves a heap but for one place
(`HeapBut`) and moves that place down; `HeapifyRight`, `BuildRight`, `ReplacedRight` and
`DeleteHeadRight` follow, each with `Rearranged`, that entries only change places.  So
what is known of an entry needs no place, and the root is known to be the least or the
greatest (`RootIs`).  For the program, the invariant `RankingInv` adds to `RankedInv`:

* `PlacesInv`, `TableKept`, `FillInv`: the sizes of heap and `Docs`; the table is as the
  accumulation left it, but for its sums; the entries of the heap stand for different
  accumulators, whose sums are 0;
* `WeighInv`: the sum of an accumulator is overwritten, by 0 when it goes to the heap and
  by its weight when it is found too light or driven out.  So `EntriesWeigh` says what
  an entry of the heap weighs at each place of the program, and `RestWeighs` what stands
  in place of the sum of each other accumulator and that no entry of the heap weighs
  less than that one can.  While exact weights are fetched this holds because a
  lower bound of a document's weight gives an upper bound of its measure
  (`WeightsDivided`), so what `WorthFetching` passes over is not better;
* in an array, documents without a posting have the sum 0, and some may be put in the heap
  at first.  `NoneOfZero` counts: there are at least as many others as the heap has
  places, so none of them is left there;
* `TakeInv`: `Docs` is laid out from both ends (`Laid`), the places at the front are
  of different documents, each at the end is of one of those, each leads to the next later
  place of its document (`Chained`), and as many are free between
  as the heap has entries, which is why the ends never meet;
* `BestInv`: what has been taken has its measure, is in order, and no entry left in the
  heap, nor any accumulator outside it, outweighs it.  At level 3 the weight of the
  root may be exact and that of the others not; a lower bound again makes that safe.

`ChainRight` turns `Laid` into what `ParagraphsChained` says of chains.  The list method is
left out of `WeightsExact`, for the reason in section 5.

**Two pages.**  Both invariants say that a place of the page in memory holds what
the file has there, or should have.  For the text index `PageRight` says so only
as far as the file reaches, since a page read across its end keeps what it held
before; `Searching` says what the searches have established between two pages,
that every entry passed over was the same.  For the records, the window is right
for every record in it but the one at hand, the copy is right for that, and the
file for all the rest; windows overlap and reach beyond the end of the file, so
the lemmas `CopyKept` and `FileKept` follow one record through a call.

**Building.**  `BuiltIsCurrent` speaks of the end of a build; nothing about the
middle of a program follows from it, and the files an earlier build, another set of
options or a kill has left are there all the time.  The invariant `BuildInv`
follows the script.  Between two programs (`Coming(k)`): the script is what is left
of the list of nine programs from the k-th on, what the programs before it write is
current (`FilesRight`), and the k-th finds what it needs (`Ready`).  `FilesRight` also
says that after the second pass weights that are there are of this build or torn, and
none at level 1; `Ready` excludes torn ones before mg_weights_build, which is what
`GoOn` asks of whoever goes on.  Inside a program (`Running`): what is left of it
to do, done to the files as they are now, makes current what the whole of it was to
make, and what it closes will have been made of files of this build alone.  A step
takes one operation from the front (`TailRuns`, `RunningOn`).
That a program starts so is shown as one reasons about sequential programs: `Part(s, C, D, T,
U, I)` says that s, begun when the files of C are current, leaves those of D current,
touches those of T, and takes U away; `PartThen` joins two parts, and `Passes1Whole` to
`WeightsWhole` build each program from its opening, creating and closing of files
(`ProgramFits` compares them with what `FilesRight` wants).  A kill disturbs
nothing, since no program writes or takes away what an earlier one has made (`OutputWriter`,
`FilesStayRight`).  The stem indexes are current only together with the bits in the
header of invf.dict.blocked, so `Ready` and `Running` follow those too.

**The session.**  Input and output are proved together, as two halves of one
relation `BothRight(opened, f, p, std, f2, p2, std2)` that is symmetric (`Swap`):
`p` says whether the stream `f` is a pipe, the two halves share no stream, and
whatever is neither standard nor in use was closed as its kind demands.
`RedirectRight` is the step of `.input` and `.output` for either half; it rests on
`ClosingRight` and `OpeningRight`.  `StreamInv` adds what main and `get_query`
rely on, that there is no stream yet in .mgrc and always one afterwards.  For the
parameters, `EnvRight` says of one environment what the constraints promise;
`SetRight`, `UnsetRight` and `CopiesRight` show that each operation of
environment.c keeps it, `TopRight`, `PushRight`, `PopRight` and `BottomRight`
carry it to the stack, and `ParamInv` adds that the bottom is covered once main
has begun.  The copy made by `PushEnv` goes through the constraints again and ends at
the first entry refused, the others in any order (`Copies`), so `CopiesRight` needs that a legal value stays what it is and that no legal value is
empty.
What showing an answer leaves in memory follows from `DocsRight`, which adds to
`BuffersHold` that the list never changes but for what is loaded and that a length
noted in it is the document's.  A call of `LoadBuffers` loads the least number of
documents that reach `buffer` (`BatchLenRight`), drops all others (`LoadedRight`),
and so the bytes in memory are those of the batch and nothing else (`HeldBatch`).

**The arithmetic decoder.**  `DecoderRight` says of a decoder between two symbols
that its target belongs to the symbol whose part holds the value.  That rests on
facts about division alone: `QuotientReaches` says when a quotient reaches a number,
`TargetReaches` and `PartInside` follow, and `TargetBelongs` puts them together: the
target lies at or above a bound exactly if the value lies at or above where that
bound cuts the interval.  So a call leaves the value in the new interval
(`DecodeKeeps`), and a turn of the loop, whichever part it takes away, too
(`TurnKeeps`).  The invariant `DecoderInv` adds to `ValueInside` that the decoder
goes on scaling until the interval lies across the middle with more than a quarter
(`Settled`); from that `SettledIsWide` gives the width which every legal total
needs.

Liveness under fairness (`Terminates`, `Finishes`, `WholeTextIndexed`) is left to
TLC.  So is what a recursive operator computes: the rewriting of query
trees and Huffman's construction.  Where a proof needs a sum, a sorted table or a packed
one, the model defines it as a recursive function over places, of which each step can be
unfolded.

---------------------------------------------------------------------------

## 5. Where code and documentation part

Seven runs are expected to fail; each checks one statement of a manual page or a
comment.

* `driver_empty_file`, `WholeText`: an empty file among the inputs, other than
  the first, ends the text: `driver()` takes the 0 that the first `read()` of a
  newly opened file returns for the end of all input (mg_passes.c:264).
  mg_passes.1 says the file names specify the source text.  `Driver!Text` is
  the text as the code sees it; `Implements` holds of that.
* `bool_diff_tree`, `DiffTreeReachesAll`: the comment at bool_optimiser.c:759
  says that DiffTree searches throughout the tree for and-nodes.  It does not
  look below an or-node; `(a & !b) | c` loses the documents of `a & !b` with the
  default optimisation.  `AnsweredRight` shows that optimise_type 2 finds them.
* `invf_skip_level1`, `SkipsLandOnBlocks`: at level 1 mg_invf_rebuild adds
  `count_bits`, which is only set from level 2 on, to the length of every skip
  (mg_invf_rebuild.c:512).
* `ranked_list`, `ListWeightsAreCosine`: with the list method, as long as the
  limit on accumulators is not reached, the weights of one document in several
  terms are never added (invf_get.c:1532).
* `stem_idx_blocks`, `EntriesFit`: mg_stem_idx tests whether a word fits a new
  block with the sizes it had in the old one (mg_stem_idx.c:682), and writes
  blocks longer than what a query reads.
* `bilevel_stdin`, `FileDecompressed`: every call of `arithmetic_decode` begins with
  `arith_in = stdin` (arithcode.c:190), so of the file mgbilevel -d was given only the
  first bytes are read and all others come from the standard input.  mgbilevel.1:54
  says that it decompresses the file.  Where the standard input goes on with what the
  file has left, as in the run `images`, pictures come back.
* `tic_decode`, `FileDecoded`: mgtic -d opens its file as the standard input
  (mgtic.c:439) and starts its decoder (mgtic.c:449) while `arith_in` is the null pointer
  it is from the beginning (arithcode.c:35): only `arithmetic_decode` sets it
  (arithcode.c:190), and mgtic.c:574 for a split residue.  `startdecoding` calls `getc`
  on it first (arithcode.c:96), and the program ends before a symbol is read, with or
  without -L.  mgtic.1:80 says that -d decodes the compressed file.

Met while modelling, without a run:

*Reading and inverting.*  A document of exactly `buf_size` bytes is refused
(mg_passes.c:274), where mg_passes.1:207 speaks of documents longer than the
buffer; `DocStream` says "this many bytes or more".  A chunk may need more memory
than mg_passes -m allows: the first pass only estimates between its checks, and the
second allocates what the largest chunk needs (`TablesSuffice`).

*Text.*  A partial dictionary has no code for a character that was not counted,
and the word comes back shorter without a message (text.pass2.c:334);
mg_compression_dict.1 says that the compressor may fail.  With a single symbol,
huffman.c:163 reads behind its array.  A token that takes no bits (the only word
of a binary list) is lost at the end of a document.

*Streams.*  lib/bitio_random.h promises that reading and writing can be mixed; a bit
written after the last bit of a block was read lands behind the buffer
(bitio_m_random.h:95), and no caller does so without a seek.  `DECODE_ADD_FF` of
the mems kind tests the wrong thing for want of brackets, `DECODE_ADD_00` of the stdio
kind gives ones at the end of the file; nobody uses them.

*The fast dictionary.*  A kind of which no word was kept has no table of codes, and
both mg_fast_comp_dict (line 152) and the reader (text_get.c:757) follow its pointer:
the model stops there (`fast = "stopped"`).  `MemForCompDict` comes out without the
structure itself, `params` is turned at one place only, and `FreeCompDict` does not
free a fast dictionary's words.  Where pointers are wider than `MG_u_long_t`, an
unsigned int (mg_types.h:8), words and fixups do not have the size the program
counts with; the model is of machines where they are as wide.

*Weights.*  -b 32 shifts a word by its width (mg_weights_build.c:374).  A document
of length 0 at level 3 has no paragraph, and the number of paragraphs can then
equal that of documents by chance, so that the counts are not read.

*Building.*  `text.dict.fast` is preferred by mgquery whenever it is there, and
mgbuild never renews it, though it says it has not been built.  A weights file
that was being written when its program was killed is taken for whole when only
mg_weights_build is run again (`GoOn` leaves that out).  mg_invf_rebuild takes a
.ORG file of an earlier build for its source.  A build of level 1 over one of level 2
leaves the weights and the interleaved index, and mgquery opens them in place of the
right one, where backend.c:123 says that opening them fails (`LeftBehind`).  mg_passes -W never works: it opens
the file it should read with "wb" (ivf.pass2.c:392).

*Dictionaries.*  mg_invf_dict with a block size below one word dumps an empty
block; a query on an empty dictionary reads the first of no blocks.  Two to four
words never give `perf_hash` an acyclic graph, nor do two words whose letters are
the same in every column, and mg_perf_hash_build then blames the number of words.

*Merging.*  mg_invf_merge.1 has the meaning of -w the wrong way round; without
weights `fclose` gets a null pointer; mgmerge.sh ignores `text.dict.aux` and an
exit status, and moves .invf but not .invf.ORG.

*Queries.*  `HT_sort` counts to `num - 1` in an unsigned number and runs past the
table when nothing was added to it, and `max_accumulators all` (-1) wraps around in
the sizes `HT_create` and `LT_create` are called with; the model goes to the state
`overrun` and stops.  `DocnumsQuery` keeps the terms of the query before.

*Images.* `match_sequence` clips a symbol to a corner of the page of the symbol's own
size (mgtic.c:146), where the decoder draws it on the whole page (mgtic.c:543): the
coder sees its residue against another picture than a decoder would, if it came to its
residue, and mgtic.1:94 says of -L that the original is recovered exactly. A template
with a pixel below the current one and to the left is not refused (`surr`,
bilevel.c:307) and its picture does not come back; nor does one with more rows than
half the ring. The lists of offsets are allocated by the number of symbols on the page
and indexed by their numbers in the library (codeoffsets.c:46); the counts of the
levels are halved by two of their three sums only; a symbol number may lie above the
character set (codesyms.c:41). `sortmarks` leaves its last line unsorted.
`RunRegionFill` looks at column -1, and pushes before it tests for overflow
(extractor.c:53).

*The query program.*  `LoadBuffers` (text_get.c:333) decides by lengths that only
ranked answers have how many documents to load, so an answer to a Boolean query of
level 1 or 2 is loaded whole, whatever `buffer` says; `GetPosLens`, which would look
them up, is not called anywhere (`BuffersHold` speaks of known lengths).  `.set maxdocs` (and max_terms, max_accumulators) without a
value compares a null pointer, and `.input` or `.output` in .mgrc closes one; the
model goes to `crashed`.  "ALL" in capitals passes the constraint of maxdocs and is
then read as the number 0; with no place in the heap the next accumulator would be
compared with an entry that is not there, so `Ranked` has positive limits only.  The collection named on the command line is set in the
copy, so .reset forgets it, and a .push in .mgrc adds a level .reset drops.  In
count mode the post-processing pattern is not looked at, and in every mode the
number reported counts documents that did not match it (mgquery.c:940 says
"actual matches").  When a pager cannot be run the handler of SIGINT stays.  What
memstats reports is wrong: `FreeTextBuffer` takes from the count what `GetDocText`
never added, and `query` sets it to 0 while documents are held.

---------------------------------------------------------------------------

## 6. Only model-checked, and not modelled

Only model-checked: skips in a file without counts, Boolean trees, Huffman
codes and the kinds of bit stream, the compressed text, dictionaries and hash
function, weights, merging, pictures, symbols and pages, and all liveness.

Abstracted in what is modelled:

* parsing, case folding and stemming: a document is a sequence of words, or of
  characters of which some make words; what a stem method does is a parameter;
* level 3 of the inversion and of merging (paragraph counts) and the -W document
  weights of the second pass; levels 1 to 3 are in `InvfSkip`, `Ranked`,
  `TextIndex` and `Weights`;
* failing allocations, except that of `MergeLists`, and failing writes;
* a `read()` of the source text that returns -1 (mg_passes.c:262): it is not told from a
  number of bytes, so `end_pos` goes back by one, before `look_pos`, and the scan runs
  on behind the end of the buffer, where nothing is defined.  All that is said of the
  reader is said of reads that do not fail;
* what mgtic -d would do after the start of its decoder, but for `Drawn`.  What is said
  of residues (`PicturesComeBack`), symbols and offsets (`SymbolsComeBack`) is said of
  the routines of bilevel.c, ppm.c, codesyms.c and codeoffsets.c, on a stream that is open;
* hash tables and splay trees, which are the maps they implement; lib/heap.c is
  the order it produces;
* floating-point weights, which are integers here, logarithms and square roots.
  What is checked does not depend on their values, but rounding is out of reach;
* dictionary method 3; pointers wider than a word in the fast dictionary;
* the moving of files by mgmerge, mgbuild_4 and mg_get;
* the measures of match.c and `possibly_joined`, which are choices in `Textual`; the
  order of equal marks; the file formats of src/images, and its split files (-R);
* output modes heads, silent and hilite, prompts, line editing, commands that only
  print; skip dumps, statistics, traces and messages.

Not modelled: felics.c (grey pictures) and mgticprune, mgticstat and mgticdump, tools
that print what the files hold, the splay tree of lib, the estimates of
mg_text_estimate, and vendored or generated code (rx, regex, getopt, gmalloc,
alloca, bool_parser.c), which is a third of all lines.

---------------------------------------------------------------------------

## 7. Plan

Done, in this order: `DocStream`, `Driver` and proofs; `BitCodes`, `BitStream`
and proofs; `Postings`, `InvfPass1`, `InvfPass2`; `InvfCompact` and proofs; `BoolTree`,
`BoolQuery`; `InvfSkip` and proofs; `DocLists` and proofs; `RankedAccum` and proofs,
`Ranked`; `HuffCode`, `Huffman`, `TextDict`, `TextCodec`; `TextIndex`, `RecordStore`,
`StateCache` and proofs; `Weights`; `Build` and proofs; `StemDict`; `PerfHash`; `Merge`;
`Session`; `ArithCode` and proofs, `Bilevel`, `Symbols`, `Textual`; `BitFiles`,
`FastDict`.

Next to model:

1. the lexer of queries and the expansion of a stem into an or of words, with
   `StemDict` under `BoolQuery`;
2. level 3 of inversion and merging;
3. the coding of grey pictures in felics.c, and mgticprune;
4. the splay tree of lib/sptree.c.

Next to prove: that the weights files read as they were written (`WeightFilesRight`), the
search for a word (`WordsFound`), and what Boolean evaluation makes of a tree
once it is in normal form (`AnsweredRight`); the last needs the recursion over trees
written as functions.
