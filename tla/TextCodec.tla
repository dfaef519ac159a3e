----------------------------- MODULE TextCodec ------------------------------
(***************************************************************************)
(* The compressed text of a collection: mg_passes -T1 counts the words of  *)
(* all documents, mg_compression_dict selects and writes the dictionary,   *)
(* mg_passes -T2 codes every document as alternating words and non-words   *)
(* (process_text_2), and the query program decodes any document in any     *)
(* order (DecodeText).  A word that is not in the dictionary is spelt out  *)
(* or replaced by its number in a list of novel words that grows while the *)
(* documents are coded and that the reader has in full from the start.     *)
(***************************************************************************)
EXTENDS TextDict

LOCAL INSTANCE SequencesExt

CONSTANTS
  Texts,         \* the sequences of documents that are compressed
  Dictionaries,  \* the options of mg_compression_dict: type, mode, k,
                 \* novel_method and lookback (as a power of two); counted is
                 \* how many documents the statistics are made of
  HeaderBytes,   \* length of the magic number and header of the text file
  MAX_SWAPS,     \* exchanges one document may make in a list of novel words
  Reads          \* how many documents are read back

VARIABLES
  texts,    \* the documents
  option,   \* the options
  stats,    \* what text.pass1 counted
  left,     \* words in the selection heap
  keep,     \* words selected
  mem,      \* memory they take
  dict,     \* the dictionary file, a part for each kind
  enc,      \* the state of process_text_2
  text,     \* the bits of the compressed text file behind its header
  text_idx, \* where each document starts in it
  dec,      \* the state of DecodeText and of the lists it works on
  reads,    \* documents read
  job       \* "count", "select", "encode", "decode", "between", "failed"

codecVars ==
  <<texts, option, stats, left, keep, mem, dict, enc, text, text_idx, dec, reads, job>>

Seed == option.type = "seed"
Novel == option.novel_method
Listed == Seed /\ Novel # "huffman_chars"
Hybrid == Novel \in {"hybrid", "hybrid_mtf"}
Counted == Min({option.counted, Len(texts)})

-----------------------------------------------------------------------------

(***************************************************************************)
(* Both sides load the dictionary: the words in order, without and with    *)
(* the prefix they share, and the blocks of each code length the reader    *)
(* keeps them in.                                                          *)
(***************************************************************************)
ReadWords(file) ==
  LET word[i \in 0 .. Len(file)] ==
        IF i = 0 THEN <<>> ELSE SubSeq(word[i - 1], 1, file[i].copy) \o file[i].suffix
  IN [i \in 1 .. Len(file) |-> word[i]]

BlockEntry(words, clens, i) ==
  LET copy == PrefixInBlock(words, clens, i, option.lookback)
  IN [copy |-> copy, suffix |-> SubSeq(words[i + 1], copy + 1, Len(words[i + 1]))]

ReadInWords(d) ==
  LET words == ReadWords(d.file)
      vals  == Generate_Huffman_Vals(d.hd)
  IN [len \in DOMAIN vals |->
        [n \in DOMAIN vals[len] |-> BlockEntry(words, d.hd.clens, vals[len][n])]]

\* The word of a code: from the start of its block every entry is added to
\* the prefix it shares with the one before it.
BlockWord(entries, code) ==
  LET base == code - (code % Pow2[option.lookback])
      word[n \in base .. code] ==
        IF n = base THEN entries[n + 1].suffix
        ELSE SubSeq(word[n - 1], 1, entries[n + 1].copy) \o entries[n + 1].suffix
  IN word[code]

\* What LoadCompressionDictionary and Load_Comp_Dict make of a kind.
Loaded(d) ==
  LET words  == ReadWords(d.file)
      nwords == IF d.esc THEN Len(words) - 1 ELSE Len(words)
  IN [known      |-> [i \in 1 .. nwords |-> words[i]],
      codes      |-> Generate_Huffman_Codes(d.hd),
      entries    |-> ReadInWords(d),
      escape     |-> IF d.esc
                     THEN [len |-> d.hd.clens[nwords], code |-> BlockPlace(d.hd.clens, nwords)]
                     ELSE [len |-> 0, code |-> 0],
      lens_codes |-> Generate_Huffman_Codes(d.lens), char_codes |-> Generate_Huffman_Codes(d.chars),
      lens_vals  |-> Generate_Huffman_Vals(d.lens), chars_vals |-> Generate_Huffman_Vals(d.chars)]

\* blk_start and blk_end: the first block has a number for every word of the
\* dictionary, each later one nearly twice as many as the one before.
Block(num_words, k) ==
  LET block[n \in 0 .. k] ==
        IF n = 0 THEN [start |-> 0, end |-> num_words - 1]
        ELSE LET start == block[n - 1].end + 1
             IN [start |-> start, end |-> start + 2 * (block[n - 1].end - block[n - 1].start)]
  IN block[k]

-----------------------------------------------------------------------------

NoNovel == [w \in Kinds |-> <<>>]

CodecInit ==
  /\ texts \in Texts
  /\ option \in Dictionaries
  /\ stats = NoStats
  /\ left = {}
  /\ keep = {}
  /\ mem = 0
  /\ dict = <<>>
  /\ enc = [d |-> 1]
  /\ text = <<>>
  /\ text_idx = <<>>
  /\ dec = [ad |-> NoNovel]
  /\ reads = 0
  /\ job = "count"

CountDocument ==
  /\ job = "count"
  /\ stats' = process_text_1(stats, texts[enc.d])
  /\ enc' = [enc EXCEPT !.d = @ + 1]
  /\ left' = AllWords(stats')
  /\ job' = IF enc.d = Counted THEN "select" ELSE "count"
  /\ UNCHANGED <<texts, option, keep, mem, dict, text, text_idx, dec, reads>>

\* Select_on takes the head of the heap while there is room; Select_all all.
SelectsAll == option.type = "complete" \/ option.mode = "all"

Precedes(v, w) ==
  IF option.mode = "occurrence" THEN OccuranceOrder(stats, v, w) ELSE DecFreqIncWL(stats, v, w)

Select_on ==
  /\ job = "select"
  /\ ~SelectsAll
  /\ option.k > mem
  /\ \E word \in left :
       /\ \A other \in left : ~Precedes(other, word)
       /\ left' = left \ {word}
       /\ keep' = keep \cup {word}
       /\ mem' = mem + PointerSize + Len(word[2])
  /\ UNCHANGED <<texts, option, stats, dict, enc, text, text_idx, dec, reads, job>>

Kept(which) == {word \in DOMAIN stats.freq[which] : SelectsAll \/ <<which, word>> \in keep}

\* Outside the model: a table of frequencies with one entry in use that
\* Generate_Huffman_Data cannot build (see HuffCode), and a hybrid method
\* without a dictionary word of a kind, whose first block is empty.
Defined(which) ==
  LET freq == stats.freq[which]
  IN /\ Seed /\ Hybrid => Kept(which) # {}
     /\ Spells(option.type, Novel) =>
          /\ OneSymbolFits(SpeltLengths(option.type, freq, Kept(which)))
          /\ OneSymbolFits(SpeltChars(option.type, freq, Kept(which), which))

NoNht == [w \in Kinds |-> [order |-> <<>>, pool |-> <<>>, binary_start |-> 1]]

\* WriteOutWords fails when a word has no code, else both sides load the file.
WriteOutWords ==
  /\ job = "select"
  /\ SelectsAll \/ option.k <= mem \/ left = {}
  /\ \A which \in Kinds : Defined(which)
  /\ LET d == [w \in Kinds |-> KindOfDict(option.type, Novel, option.lookback,
                                          stats.freq[w], Kept(w), w)]
         codeless == \E w \in Kinds : d[w].file # <<>> /\ 0 \in Range(d[w].hd.clens)
     IN IF codeless
        THEN job' = "failed" /\ UNCHANGED <<dict, enc>>
        ELSE /\ dict' = [w \in Kinds |-> d[w] @@ Loaded(d[w])]
             /\ job' = "encode"
             /\ enc' = [d |-> 0, nht |-> NoNht]
  /\ UNCHANGED <<texts, option, stats, left, keep, mem, text, text_idx, dec, reads>>

-----------------------------------------------------------------------------

StartDocument ==
  /\ job = "encode"
  /\ "bits" \notin DOMAIN enc
  /\ enc.d < Len(texts)
  /\ LET doc   == texts[enc.d + 1]
         which == INAWORD(doc[1])
         start == IF Listed /\ Novel = "binary"
                  THEN Delta(enc.nht[0].binary_start) \o Delta(enc.nht[1].binary_start)
                  ELSE <<>>
     IN enc' = [d |-> enc.d + 1, nht |-> enc.nht, s_in |-> 1, which |-> which,
                bits |-> <<which>> \o start, swaps |-> NoNovel]
  /\ UNCHANGED <<texts, option, stats, left, keep, mem, dict, text, text_idx, dec, reads, job>>

Escape(d) == IF d.esc THEN HuffEncode(Len(d.known), d.codes, d.hd.clens) ELSE <<>>

SpeltOut(d, word) ==
  HuffEncode(Len(word), d.lens_codes, d.lens.clens)
    \o FlattenSeq([i \in DOMAIN word |-> HuffEncode(word[i], d.char_codes, d.chars.clens)])

\* The table of novel words with the word in it; order[n] has the ordinal n.
Entered(h, word) ==
  IF \E n \in DOMAIN h.order : h.order[n] = word THEN h
  ELSE [h EXCEPT !.order = Append(@, word), !.pool = Append(@, word)]

Ordinal(h, word) == CHOOSE n \in DOMAIN h.order : h.order[n] = word

HybridCode(num_words, ordinal) ==
  LET k == CHOOSE n \in 0 .. ordinal :
             /\ ordinal - 1 <= Block(num_words, n).end
             /\ n > 0 => ordinal - 1 > Block(num_words, n - 1).end
      b == Block(num_words, k)
  IN Gamma(k + 1) \o Binary(ordinal - b.start, b.end - b.start + 1)

NovelCode(h, num_words, ordinal) ==
  CASE Novel = "binary" -> Binary(ordinal, h.binary_start)
    [] Novel = "delta"  -> Delta(ordinal)
    [] OTHER            -> HybridCode(num_words, ordinal)

Swapped(order, a, b) == [order EXCEPT ![a] = order[b], ![b] = order[a]]

\* Move to front: a word used for the first time in the document changes
\* places with the one after those used before.
MovesToFront(ordinal, swaps) == Novel = "hybrid_mtf" /\ ordinal > Len(swaps)

EncodeNovel(which, word, next) ==
  LET d       == dict[which]
      h       == Entered(enc.nht[which], word)
      ordinal == Ordinal(h, word)
      used    == Len(enc.swaps[which])
      moves   == MovesToFront(ordinal, enc.swaps[which])
  IN IF moves /\ used = MAX_SWAPS
     THEN job' = "failed" /\ UNCHANGED enc
     ELSE /\ enc' = [enc EXCEPT
               !.bits = @ \o Escape(d) \o NovelCode(h, d.num_words, ordinal),
               !.nht[which] =
                 [h EXCEPT !.order = IF moves THEN Swapped(@, used + 1, ordinal) ELSE @,
                           !.binary_start = IF Novel = "binary" /\ ordinal = @ THEN @ + 1 ELSE @],
               !.swaps[which] = IF moves THEN Append(@, ordinal) ELSE @,
               !.s_in = next, !.which = 1 - which]
          /\ UNCHANGED job

\* One round of the loop of process_text_2.
EncodeToken ==
  /\ job = "encode"
  /\ "bits" \in DOMAIN enc
  /\ enc.s_in <= Len(texts[enc.d])
  /\ LET which == enc.which
         d     == dict[which]
         word  == Token(texts[enc.d], enc.s_in, which)
         next  == enc.s_in + Len(word)
         found == {i \in DOMAIN d.known : d.known[i] = word}
     IN CASE found # {} ->
               /\ enc' = [enc EXCEPT
                    !.bits = @ \o HuffEncode(Max(found) - 1, d.codes, d.hd.clens),
                    !.s_in = next, !.which = 1 - which]
               /\ UNCHANGED job
          [] found = {} /\ option.type = "complete" -> job' = "failed" /\ UNCHANGED enc
          \* a table in which nothing was counted is not in memory
          [] found = {} /\ Spells(option.type, Novel) /\ 0 \in {d.lens.num_codes, d.chars.num_codes} ->
               job' = "failed" /\ UNCHANGED enc
          [] found = {} /\ Spells(option.type, Novel) /\ 0 \notin {d.lens.num_codes, d.chars.num_codes} ->
               /\ enc' = [enc EXCEPT !.bits = @ \o Escape(d) \o SpeltOut(d, word),
                                     !.s_in = next, !.which = 1 - which]
               /\ UNCHANGED job
          [] found = {} /\ Listed -> EncodeNovel(which, word, next)
  /\ UNCHANGED <<texts, option, stats, left, keep, mem, dict, text, text_idx, dec, reads>>

\* Mutant: the exchanges are undone in the order they were made.
UndoneForwards(order, swaps) ==
  FoldLeft(LAMBDA o, n : Swapped(o, n, swaps[n]), order, [n \in DOMAIN swaps |-> n])

\* Mutant: the exchanges stay.
UndoneNot(order, swaps) == order

\* The exchanges of a document are undone, the last one first.
RECURSIVE Undone(_, _)
Undone(order, swaps) ==
  IF swaps = <<>> THEN order
  ELSE Undone(Swapped(order, Len(swaps), Last(swaps)), Front(swaps))

Padded(bits) == bits \o <<1>> \o Zeros((8 - ((Len(bits) + 1) % 8)) % 8)

\* A one bit marks the end; the document starts where the last one ended.
FinishDocument ==
  /\ job = "encode"
  /\ "bits" \in DOMAIN enc
  /\ enc.s_in > Len(texts[enc.d])
  /\ text' = text \o Padded(enc.bits)
  /\ text_idx' = Append(text_idx, HeaderBytes + Len(text) \div 8)
  /\ enc' = [d |-> enc.d,
             nht |-> [w \in Kinds |-> [enc.nht[w] EXCEPT !.order = Undone(@, enc.swaps[w])]]]
  /\ UNCHANGED <<texts, option, stats, left, keep, mem, dict, dec, reads, job>>

\* done_text_2 writes the end of the last document and the novel words in
\* the order of the pools; LoadAuxDict reads them.
done_text_2 ==
  /\ job = "encode"
  /\ "bits" \notin DOMAIN enc
  /\ enc.d = Len(texts)
  /\ text_idx' = Append(text_idx, HeaderBytes + Len(text) \div 8)
  /\ dec' = [ad |-> [w \in Kinds |-> enc.nht[w].pool]]
  /\ job' = "between"
  /\ UNCHANGED <<texts, option, stats, left, keep, mem, dict, enc, text, reads>>

-----------------------------------------------------------------------------

\* FetchCompressed and the start of DecodeText: the bits before the last one
\* bit of the document's last byte are its code.
ReadDocument ==
  /\ job = "between"
  /\ reads < Reads
  /\ \E doc \in 1 .. Len(texts) :
       LET first    == 8 * (text_idx[doc] - HeaderBytes)
           s_in     == SubSeq(text, first + 1, 8 * (text_idx[doc + 1] - HeaderBytes))
           num_bits == Max({i \in Len(s_in) - 7 .. Len(s_in) : s_in[i] = 1}) - 1
           b0       == DeltaDecode(s_in, 2)
           b1       == DeltaDecode(s_in, b0.pos)
           base     == [doc |-> doc, s_in |-> s_in, num_bits |-> num_bits, which |-> s_in[1],
                        out |-> <<>>, swaps |-> NoNovel, ad |-> dec.ad]
       IN dec' = IF Listed /\ Novel = "binary"
                 THEN base @@ [pos |-> b1.pos, start |-> (0 :> b0.x @@ 1 :> b1.x)]
                 ELSE base @@ [pos |-> 2, start |-> [w \in Kinds |-> 1]]
  /\ reads' = reads + 1
  /\ job' = "decode"
  /\ UNCHANGED <<texts, option, stats, left, keep, mem, dict, enc, text, text_idx>>

\* The characters of a word that was spelt out.
RECURSIVE SpeltWord(_, _, _, _, _)
SpeltWord(d, s, pos, n, word) ==
  IF n = 0 THEN [word |-> word, pos |-> pos]
  ELSE LET c == HuffDecode(d.chars, d.chars_vals, s, pos)
       IN SpeltWord(d, s, c.pos, n - 1, Append(word, c.x))

HybridIndex(num_words, s, pos) ==
  LET g == GammaDecode(s, pos)
      b == Block(num_words, g.x - 1)
      r == BinaryDecode(s, g.pos, b.end - b.start + 1)
  IN [x |-> r.x + b.start, pos |-> r.pos]

\* The number of a novel word, from 1.
NovelIndex(which, s, pos) ==
  CASE Novel = "binary" -> BinaryDecode(s, pos, dec.start[which])
    [] Novel = "delta"  -> DeltaDecode(s, pos)
    [] OTHER            -> HybridIndex(dict[which].num_words, s, pos)

Emitted(word, pos) ==
  [dec EXCEPT !.out = @ \o word, !.pos = pos, !.which = 1 - dec.which]

DecodeNovel(which, s, pos) ==
  LET i     == NovelIndex(which, s, pos)
      used  == Len(dec.swaps[which])
      moves == MovesToFront(i.x, dec.swaps[which])
  IN dec' = [Emitted(dec.ad[which][i.x], i.pos) EXCEPT
               !.ad[which] = IF moves THEN Swapped(@, used + 1, i.x) ELSE @,
               !.swaps[which] = IF moves THEN Append(@, i.x) ELSE @,
               !.start[which] = IF Novel = "binary" /\ i.x = @ THEN @ + 1 ELSE @]

\* One round of the loop of DecodeText.
DecodeToken ==
  /\ job = "decode"
  /\ dec.pos <= dec.num_bits
  /\ LET d      == dict[dec.which]
         s      == dec.s_in
         coded  == d.file # <<>>
         r      == IF coded THEN HuffRead(d.hd, s, dec.pos)
                   ELSE [len |-> 0, code |-> 0, pos |-> dec.pos]
         escape == r.len = d.escape.len /\ r.code = d.escape.code
         len    == HuffDecode(d.lens, d.lens_vals, s, r.pos)
         spelt  == SpeltWord(d, s, len.pos, len.x, <<>>)
     IN CASE ~escape          -> dec' = Emitted(BlockWord(d.entries[r.len], r.code), r.pos)
          [] escape /\ ~Listed -> dec' = Emitted(spelt.word, spelt.pos)
          [] escape /\ Listed  -> DecodeNovel(dec.which, s, r.pos)
  /\ UNCHANGED <<texts, option, stats, left, keep, mem, dict, enc, text, text_idx, reads, job>>

DecodeDone ==
  /\ job = "decode"
  /\ dec.pos > dec.num_bits
  /\ dec' = [dec EXCEPT !.ad = [w \in Kinds |-> Undone(@[w], dec.swaps[w])]]
  /\ job' = "between"
  /\ UNCHANGED <<texts, option, stats, left, keep, mem, dict, enc, text, text_idx, reads>>

CodecNext ==
  \/ CountDocument \/ Select_on \/ WriteOutWords
  \/ StartDocument \/ EncodeToken \/ FinishDocument \/ done_text_2
  \/ ReadDocument \/ DecodeToken \/ DecodeDone

-----------------------------------------------------------------------------

\* A partial dictionary has codes for what it counted only.
AllCounted == option.type = "partial" => Counted = Len(texts)

\* A kind without a dictionary has no escape code, and the first word in its
\* binary list takes no bits either: at the end of a document it is lost.
Bitless == Listed /\ Novel = "binary" /\ \E w \in Kinds : ~dict[w].esc

(***************************************************************************)
(* A document that DecodeText has finished is the document that was        *)
(* compressed, and while it works what it has written is the beginning of  *)
(* it, for every kind of dictionary, method for novel words and order of   *)
(* reading: coder and reader agree on the codes, on which list number each *)
(* novel word has at that point and on where the document ends.            *)
(***************************************************************************)
DocumentsComeBack ==
  "out" \in DOMAIN dec /\ ~Bitless /\ AllCounted =>
    /\ IsPrefix(dec.out, texts[dec.doc])
    /\ job = "between" => dec.out = texts[dec.doc]

(***************************************************************************)
(* Between documents both lists of novel words are in the order of first   *)
(* occurrence, so that no document depends on which were read before it,   *)
(* and every word a document used is in the reader's list.                 *)
(***************************************************************************)
NovelWordsInOrder ==
  /\ job = "between" => \A w \in Kinds : dec.ad[w] = enc.nht[w].pool
  /\ job = "encode" /\ "bits" \notin DOMAIN enc =>
       \A w \in Kinds : enc.nht[w].order = enc.nht[w].pool

(***************************************************************************)
(* What Write_data reserves for the words of a code length is exactly what *)
(* the reader's blocks take, and the blocks give every code its word, as   *)
(* the two programs work out shared prefixes independently: the one from   *)
(* the previous word of the file, the others from the previous word with   *)
(* a code of that length.                                                  *)
(***************************************************************************)
DictionaryLoadsWhole ==
  job = "encode" /\ enc.d = 0 =>
    \A w \in Kinds :
      LET d == dict[w]
      IN /\ \A len \in DOMAIN d.size :
              d.size[len] = SumFunction([n \in DOMAIN d.entries[len] |-> 1 + Len(d.entries[len][n].suffix)])
         /\ \A i \in DOMAIN d.known :
              BlockWord(d.entries[d.hd.clens[i - 1]], BlockPlace(d.hd.clens, i - 1)) = d.known[i]

(***************************************************************************)
(* Whatever is compressed is read again as it was: the dictionary, the     *)
(* documents in any order, and the lists of novel words that they depend   *)
(* on.                                                                     *)
(***************************************************************************)
TextComesBack == DictionaryLoadsWhole /\ DocumentsComeBack /\ NovelWordsInOrder
=============================================================================
