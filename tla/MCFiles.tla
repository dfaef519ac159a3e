------------------------------ MODULE MCFiles -------------------------------
(***************************************************************************)
(* What stands in the files of a collection and how it gets there, each    *)
(* algorithm on its own inputs: the codes of bitio_m.h (BitStream), the    *)
(* kinds of stream they are written on (BitFiles), the Huffman codes       *)
(* (Huffman) and the compressed text that uses both (TextCodec), its       *)
(* dictionary in one piece (FastDict), the page of its index (TextIndex),  *)
(* the records of the inversion (StateCache), the compaction of the        *)
(* inverted file (InvfCompact), the weights (Weights), the dictionary of   *)
(* the query and its index of stems (StemDict), the hash function of the   *)
(* dictionary (PerfHash), the merging of collections (Merge), and the      *)
(* programs that make the files (Build).                                   *)
(***************************************************************************)
EXTENDS
  BitStream, BitFiles, Huffman, TextCodec, FastDict, TextIndex, StateCache,
  InvfCompact, Weights, StemDict, PerfHash, Merge, Build

VARIABLE program   \* whose states these are

CONSTANT MaxRegion

CodedAs(c, b, x) == [code |-> c, b |-> b, x |-> x]

\* Codes of one bit to more than two bytes, on either side of byte and block
\* boundaries.
MCFileCodes ==
  { CodedAs("unary", 1, 3), CodedAs("gamma", 1, 1), CodedAs("gamma", 1, 5),
    CodedAs("delta", 1, 3), CodedAs("binary", 3, 1) }
MCRegionStarts == <<3, 9>>

\* Regions of one to MaxRegion bytes, filled to any half byte.
MCLayouts ==
  {l \in [start : {<<FirstByte, FirstByte + a, FirstByte + a + b,
                     FirstByte + a + b + c>> :
                       a \in 1 .. MaxRegion, b \in 1 .. MaxRegion, c \in 1 .. MaxRegion},
          Disk_Ptr : [1 .. 3 -> {4 * n : n \in 1 .. 2 * (FirstByte + 3 * MaxRegion)}]] :
     \A w \in 1 .. 3 : /\ 8 * l.start[w] < l.Disk_Ptr[w]
                       /\ l.Disk_Ptr[w] <= 8 * l.start[w + 1]}

\* An index with a document longer than a page, one of a single document, and
\* one of documents of one or two paragraphs.
MCIndexes == {<<5,5,5,7,9,9,9,9,9,12>>, <<3,4>>, <<3,4,4,4,5,6,7,8>>}

Collection(counts, paras, starts) == [words |-> counts, paras |-> paras, starts |-> starts]

\* As many paragraphs as documents, and more; one paragraph, two of the
\* same weight, and documents without words.
MCCollections ==
  { Collection(<< <<1,0,2,0,1>>, <<0,3,0,1,0>>, <<1,1,1,1,1>> >>,
               <<1,1,1,1,1>>, <<5,7,9,12,13,20>>),
    Collection(<< <<1,0,2,0,1>>, <<0,3,0,0,0>>, <<0,2,1,0,1>> >>,
               <<2,1,2>>, <<5,7,9,12>>),
    Collection(<< <<1,1>> >>, <<1,1>>, <<5,6,8>>),
    Collection(<< <<1,0>>, <<0,1>> >>, <<2>>, <<5,6>>),
    Collection(<<>>, <<1,1>>, <<5,6,8>>) }
MCIdf == <<3,2,1,1,0>>

\* Characters 1 to 3 make words, 0 and 4 do not.  The collections have words
\* that recur within and across documents, words and non-words beyond
\* MAXWORDLEN, documents of one token, and one character that only the last
\* document has.
MCTexts ==
  { << <<1,0,2,0,1,1>>, <<2,1,0,1,0,2,1>> >>,
    << <<1>> >>,
    << <<1,0,2,0,1,2,0,2,2>>, <<2,2,0,2,0,3,0,1,2>>, <<3,0,0,0,1,2>> >>,
    << <<0,1,1,2,3>>, <<3>> >>,
    << <<1,0,2,1,4,0,2,0,1,2,4,4,1,1,0>>, <<3,1,0,3>>, <<1,4,2>> >> }

Options(type, mode, k, method, lookback, counted) ==
  [type |-> type, mode |-> mode, k |-> k, novel_method |-> method,
   lookback |-> lookback, counted |-> counted]

Methods == {"huffman_chars", "binary", "delta", "hybrid", "hybrid_mtf"}
All == 9

MCDictionaries ==
  {Options("complete", "all", 0, "huffman_chars", l, c) : l \in {0, 1}, c \in {1, All}}
    \cup {Options("partial", m, k, "huffman_chars", 1, All) :
            m \in {"occurrence", "frequency"}, k \in {0, 10, 20}}
    \cup {Options("seed", m, k, n, 1, c) :
            m \in {"occurrence", "frequency"}, k \in {0, 10, 20}, c \in {1, All}, n \in Methods}

CapitalA == 1
SmallA == 2
CapitalB == 3
SmallB == 4

MCWords ==
  {<<SmallA>>, <<CapitalA>>, <<SmallA,SmallB>>, <<CapitalA,SmallB>>, <<SmallA,CapitalB>>,
   <<SmallB>>, <<CapitalB>>, <<SmallB,SmallB>>}

\* The dictionaries of six words or more.
MCWordSets == {D \in SUBSET MCWords : Cardinality(D) >= 6}

CaseFolded == [w \in MCWords |-> [n \in DOMAIN w |-> Fold(w[n])]]

\* Words of two letters lose the second when it is small.
Stemmed == [w \in MCWords |-> IF Len(w) = 2 /\ w[2] = SmallB THEN <<w[1]>> ELSE w]

MCStemmers == {CaseFolded, Stemmed, [w \in MCWords |-> Stemmed[CaseFolded[w]]]}
\* Dictionaries of one, two and five words and more, with words that are
\* prefixes of others; none, one or several characters are the columns.
MCKeyLists ==
  { << <<1>> >>,
    << <<1>>, <<2>> >>,
    << <<1>>, <<2>>, <<3>>, <<4>>, <<5>> >>,
    << <<1>>, <<1,1>>, <<1,2>>, <<2>>, <<2,1,2>>, <<2,2>> >>,
    << <<1,2>>, <<2,1>>, <<3>>, <<4>>, <<5>> >>,
    << <<1>>, <<1,2>>, <<1,2,1>>, <<1,3>>, <<2,1>>, <<2,3>>, <<3>> >> }

\* Enough sequences for graphs of every list but the second and the fifth to
\* be acyclic.
MCRandoms ==
  {[i \in 1 .. 30 |-> (a * i * i * i + b * i * i + 7 * i + c) % 101] :
     a \in {1, 4, 9}, b \in 1 .. 4, c \in 1 .. 10}

\* Documents as the occurrences of three words: words that only the old, only
\* the new and both collections have, and entries that end with the last
\* document or before it.
MCFirstTexts ==
  { << <<0,1,0>>, <<0,1,3>>, <<0,1,0>>, <<1,4,0>> >>,
    << <<1,0,2>> >>,
    << <<1,1,0>>, <<0,3,0>> >>,
    << <<2,0,0>>, <<1,1,0>>, <<1,0,0>> >> }
MCMoreTexts ==
  { << <<2,2,0>>, <<3,0,0>>, <<0,0,1>>, <<1,0,0>> >>,
    << <<1,0,0>> >>,
    << <<0,0,1>>, <<1,1,1>> >>,
    << <<0,1,0>>, <<0,1,2>>, <<0,2,0>> >> }

Built(invf, indexes, aux) == [level |-> invf, indexes |-> indexes, aux |-> aux]

\* Builds that leave a file the next does not make, in either order.
MCConfigSets ==
  { {Built(1, FALSE, TRUE), Built(2, TRUE, FALSE), Built(2, FALSE, TRUE)},
    {Built(3, TRUE, TRUE), Built(3, FALSE, FALSE)} }

CompactOff ==
  /\ layout = [start |-> [w \in 1 .. NumWords + 1 |-> 0]]
  /\ file = NoBytes /\ word = 0 /\ s = 0 /\ e = 0
  /\ in_buf = NoBytes /\ pending = NoBytes /\ bytes_output = 0 /\ offsets = <<>>
  /\ pc = "off"

CacheOff ==
  /\ isr = CHOOSE v \in States : TRUE
  /\ isr_data = [w \in Window |-> isr]
  /\ isr_base = 0 /\ isr_num = -1 /\ isr_pos = -1
  /\ invf_state = <<>> /\ filled = <<>>

IndexOff ==
  /\ idx_file = <<>> /\ current_pos = -1 /\ idx_data = <<>>
  /\ wanted = 0 /\ DN = 0 /\ s1 = 0 /\ answer = <<>> /\ fetch = "off"

WeightsOff ==
  /\ coll = <<>> /\ bits = 0 /\ words_read = 0 /\ DocWeights = <<>> /\ level = <<>>
  /\ used = 0 /\ buf = {} /\ approx = <<>> /\ doc = 0 /\ idx_wgt = <<>>
  /\ building = "off"

StreamOff == items = <<>> /\ stream = <<>> /\ count = 0 /\ got = <<>> /\ pos = 1

HuffOff ==
  /\ num = 0 /\ HNum = 0 /\ at = 1
  /\ freqs = <<>> /\ heap = <<>> /\ data = <<>>
  /\ message = <<>> /\ code = <<>> /\ decoded = <<>>
  /\ stage = "off"

CodecOff ==
  /\ texts = <<>> /\ option = <<>> /\ stats = NoStats
  /\ left = {} /\ keep = {} /\ mem = 0
  /\ dict = <<>> /\ enc = [d |-> 0] /\ text = <<>> /\ text_idx = <<>>
  /\ dec = [ad |-> NoNovel] /\ reads = 0
  /\ job = "off"

StemOff ==
  /\ words = <<>> /\ params = <<>> /\ blocks = <<>> /\ block = <<>> /\ next = 0
  /\ table = <<>> /\ run = <<>> /\ stems = <<>> /\ idxBlocks = <<>> /\ buffer = <<>>
  /\ asked = <<>> /\ lookups = 0 /\ phase = "off"

HashOff ==
  /\ hashKeys = <<>> /\ tries = 0 /\ tb = <<>> /\ edge = <<>> /\ of = <<>>
  /\ erased = {} /\ S = <<>> /\ Stack = <<>> /\ visited = 0 /\ g = <<>>
  /\ hash = "off"

MergeOff ==
  /\ docs = <<>> /\ InvfLevel = 0 /\ old = <<>> /\ new = <<>>
  /\ fastMerge = FALSE /\ weightOption = FALSE
  /\ lists = <<>> /\ mdict = <<>> /\ entry = 0 /\ oldpos = 0 /\ newpos = 0
  /\ minvf = <<>> /\ midx = <<>> /\ DocWeightBuffer = <<>> /\ merges = 0
  /\ doing = "off"

StreamsOff ==
  /\ flavour = "off" /\ room = 0 /\ coded = <<>> /\ read = <<>> /\ byteStream = NoStream
  /\ turn = "off" /\ rnd = NoStream /\ ends = RegionStarts /\ wrote = NoBits
  /\ heard = [region |-> 1, bits |-> <<>>]

BuildOff ==
  /\ configs = {} /\ config = <<>> /\ build = 0 /\ disk = <<>> /\ indexed = {}
  /\ script = <<>> /\ ops = <<>> /\ inputs = {} /\ kills = 0
  /\ status = "off"

\* The programs that are not at work.
Others(mine) ==
  /\ mine # "stream" => StreamOff
  /\ mine # "huffman" => HuffOff
  /\ mine # "codec" => CodecOff /\ FastInit
  /\ mine # "index" => IndexOff
  /\ mine # "cache" => CacheOff
  /\ mine # "compact" => CompactOff
  /\ mine # "weights" => WeightsOff
  /\ mine # "stems" => StemOff
  /\ mine # "hash" => HashOff
  /\ mine # "merge" => MergeOff
  /\ mine # "build" => BuildOff
  /\ mine # "bits" => StreamsOff

Rest(mine) ==
  /\ UNCHANGED program
  /\ mine # "stream" => UNCHANGED streamVars
  /\ mine # "huffman" => UNCHANGED huffVars
  /\ mine # "codec" => UNCHANGED <<codecVars, fastVars>>
  /\ mine # "index" => UNCHANGED indexVars
  /\ mine # "cache" => UNCHANGED cacheVars
  /\ mine # "compact" => UNCHANGED vars
  /\ mine # "weights" => UNCHANGED weightVars
  /\ mine # "stems" => UNCHANGED stemVars
  /\ mine # "hash" => UNCHANGED hashVars
  /\ mine # "merge" => UNCHANGED mergeVars
  /\ mine # "build" => UNCHANGED buildVars
  /\ mine # "bits" => UNCHANGED fileVars

MCInit ==
  \/ program = "stream" /\ StreamInit /\ Others("stream")
  \/ program = "huffman" /\ HuffInit /\ Others("huffman")
  \/ program = "codec" /\ CodecInit /\ FastInit /\ Others("codec")
  \/ program = "index" /\ IndexInit /\ Others("index")
  \/ program = "cache" /\ CacheInit /\ Others("cache")
  \/ program = "compact" /\ Init /\ Others("compact")
  \/ program = "weights" /\ WeightInit /\ Others("weights")
  \/ program = "stems" /\ StemInit /\ Others("stems")
  \/ program = "hash" /\ HashInit /\ Others("hash")
  \/ program = "merge" /\ MergeInit /\ Others("merge")
  \/ program = "build" /\ BuildInit /\ Others("build")
  \/ program = "bits" /\ FilesInit /\ Others("bits")

MCNext ==
  \/ program = "stream" /\ StreamNext /\ Rest("stream")
  \/ program = "huffman" /\ HuffNext /\ Rest("huffman")
  \/ program = "codec" /\ fast = "off" /\ CodecNext /\ UNCHANGED fastVars /\ Rest("codec")
  \/ program = "codec" /\ FastNext /\ Rest("codec")
  \/ program = "index" /\ IndexNext /\ Rest("index")
  \/ program = "cache" /\ CacheNext /\ Rest("cache")
  \/ program = "compact" /\ Next /\ Rest("compact")
  \/ program = "weights" /\ WeightNext /\ Rest("weights")
  \/ program = "stems" /\ StemNext /\ Rest("stems")
  \/ program = "hash" /\ HashNext /\ Rest("hash")
  \/ program = "merge" /\ MergeNext /\ Rest("merge")
  \/ program = "build" /\ BuildNext /\ Rest("build")
  \/ program = "bits" /\ FilesNext /\ Rest("bits")

allVars ==
  <<program, streamVars, huffVars, codecVars, fastVars, indexVars,
    cacheVars, vars, weightVars, stemVars, hashVars, mergeVars,
    buildVars, fileVars>>

\* A text that is read, and its dictionary loaded in either way.
TextAndDictionary == TextComesBack /\ FastDictRight

\* What is written a bit at a time comes back: messages in Huffman codes, and
\* numbers on every kind of stream.
BitsComeBack == HuffmanRight /\ (program = "bits" => StreamsReadBack)

\* The fairness of InvfCompact, whose end is the only one asked for.
MCSpec ==
  /\ MCInit
  /\ [][MCNext]_allVars
  /\ WF_vars(/\ program = "compact"
             /\ NextWord \/ Refill \/ CopyByte \/ Truncate \/ Close
             /\ Rest("compact"))
=============================================================================
