------------------------------ MODULE FastDict -------------------------------
(***************************************************************************)
(* The dictionary that loads fast: mg_fast_comp_dict loads the compression *)
(* dictionary into one block of memory that it has estimated beforehand,   *)
(* notes which words of the block are pointers (FIXUP), makes them offsets *)
(* and writes the block to text.dict.fast; the query program reads the     *)
(* block to wherever it gets memory and makes the offsets pointers again.  *)
(* A word of memory has the size of a pointer and knows whether it is in   *)
(* the byte order of the network; a character is a byte.                   *)
(***************************************************************************)
EXTENDS TextCodec

LOCAL INSTANCE SequencesExt
LOCAL INSTANCE TLC

CONSTANTS
  MAX_HUFFCODE_LEN,   \* the longest code there is room for
  HeapPlaces          \* where Xmalloc may put the block

VARIABLES
  fast,       \* "off", the part to load next, "loaded", "ordered", "offsets",
              \* "saved", "read", "stopped"
  arena,      \* the block: from, end, cur, at, word, char, fixup, fits
  fast_dict,  \* text.dict.fast: mem, word, char, fixup
  cd          \* the dictionary of the query program: where, word, char

fastVars == <<fast, arena, fast_dict, cd>>

W == PointerSize
ALIGN_SIZE(n) == W * ((n + W - 1) \div W)
NULL == 0

\* The words of the structures, the scalars of one taken together.
cdh == 0
cfh(w) == 1 + w
MemForCompDict == 3
values(w) == 4 + w
escape(w) == 6 + w
chars_huff(w) == 8 + w
chars_vals(w) == 10 + w
lens_huff(w) == 12 + w
lens_vals(w) == 14 + w
ad == 16
fast_loaded == 17
afh(w) == w
word_data(w) == 2 + w
aux_words(w) == 4 + w
blk == 6
SizeOfDict == 18 * W
SizeOfCfh == 2 * W    \* the tables, and huff_words_size
SizeOfHuff == W
SizeOfAux == 7 * W

HasWords(w) == option.type = "complete" \/ dict[w].num_words > 0
HasSpelling == Spells(option.type, Novel)

\* Blocks of 2^lookback words of a code length have a pointer each.
BlocksOf(n) == (n + Pow2[option.lookback] - 1) \div Pow2[option.lookback]
SumUpTo(f, n) == SumFunction([i \in {j \in DOMAIN f : j <= n} |-> f[i]])
BlockCounts(d) == [len \in DOMAIN d.hd.lencount |-> BlocksOf(d.hd.lencount[len])]
ptrs_reqd(d) == SumFunction(BlockCounts(d))
mem_reqd(d) == SumFunction(d.size)
CharsOf(list) == SumFunction([i \in DOMAIN list |-> 1 + Len(list[i])])

-----------------------------------------------------------------------------
\* The estimate.

mem_for_words(d) == ALIGN_SIZE(W * (ptrs_reqd(d) + MAX_HUFFCODE_LEN + 1) + mem_reqd(d))
mem_for_codes(hd) == SizeOfHuff + W * (hd.num_codes + MAX_HUFFCODE_LEN + 1)

\* Mutant: the words of the first kind are not rounded up.
mem_for_aux_unrounded ==
  LET list == dec.ad
  IN SizeOfAux + W * (Len(list[0]) + Len(list[1])) + CharsOf(list[0]) + CharsOf(list[1])

mem_for_aux_dict ==
  LET list == dec.ad
      after(n, w) == ALIGN_SIZE(n + W * Len(list[w]) + CharsOf(list[w]))
  IN after(after(SizeOfAux, 0), 1)

mem_for_comp_dict ==
  LET kind(w) == (IF HasWords(w) THEN SizeOfCfh + mem_for_words(dict[w]) ELSE 0)
                   + (IF HasSpelling THEN mem_for_codes(dict[w].chars) + mem_for_codes(dict[w].lens)
                                     ELSE 0)
  IN ALIGN_SIZE(SizeOfDict + kind(0) + kind(1) + (IF Listed THEN mem_for_aux_dict ELSE 0))

-----------------------------------------------------------------------------
\* Loading.  An operation takes the block and returns it, what it got at .at.

Plain(v) == [v |-> v, net |-> FALSE]

getmem(b, size, align) ==
  LET at == align * ((b.cur + align - 1) \div align)
  IN [b EXCEPT !.at = at, !.cur = at + size, !.fits = @ /\ at + size <= b.end]

Poke(b, cells) == [b EXCEPT !.word = [a \in DOMAIN cells |-> Plain(cells[a])] @@ @]
\* What is made of the block after memory was taken or a part was loaded.
Then(b, Rest(_)) == Rest(b)
Field(b, p, f, v) == Poke(b, (p + W * f) :> v)
Pointer(b, p, f, v) == [Field(b, p, f, v) EXCEPT !.fixup = @ \cup {p + W * f}]
FunctionOf(pairs) ==
  [a \in {p[1] : p \in pairs} |-> (CHOOSE p \in pairs : p[1] = a)[2]]
\* An array of pointers.
Array(b, p, list) ==
  LET cells == [a \in {p + W * i : i \in DOMAIN list} |-> list[(a - p) \div W]]
  IN [Poke(b, cells) EXCEPT !.fixup = @ \cup DOMAIN cells]
Counted_in(b, n) ==
  Field(b, b.from, MemForCompDict, b.word[b.from + W * MemForCompDict].v + n)

(***************************************************************************)
(* ReadInWords: the words of each code length one after the other, a       *)
(* pointer to the first of every block, and a pointer to the pointers of   *)
(* each length.  The pointers set before the words are read are all set    *)
(* again, to the same, when the first word of the length comes.            *)
(***************************************************************************)
FirstBlock(d, len) == SumUpTo(BlockCounts(d), len - 1)
LengthOf(d, i) ==
  CHOOSE len \in DOMAIN d.hd.lencount :
    FirstBlock(d, len) <= i /\ i < FirstBlock(d, len) + BlockCounts(d)[len]
\* Where word n of a length stands, from where the words begin.
EntryFrom(d, len, n) ==
  SumUpTo(d.size, len - 1) + SumFunction([k \in 1 .. n |-> 1 + Len(d.entries[len][k].suffix)])
StartOfBlock(d, i, len) == EntryFrom(d, len, Pow2[option.lookback] * (i - FirstBlock(d, len)))
WordBytes(d, chars) ==
  FunctionOf({<<chars + EntryFrom(d, s[1], s[2]), d.entries[s[1]][s[2] + 1]>> :
                s \in {<<len, n>> \in (DOMAIN d.entries) \X (0 .. Len(d.file)) :
                         n < Len(d.entries[len])}})

WordsPlaced(b, w, d, vals, values_, chars) ==
  Counted_in(
    Pointer([Array(Array(b, vals, [i \in 0 .. ptrs_reqd(d) - 1 |->
                                     chars + StartOfBlock(d, i, LengthOf(d, i))]),
                   values_, [len \in DOMAIN d.hd.lencount |-> vals + W * FirstBlock(d, len)])
               EXCEPT !.char = WordBytes(d, chars) @@ @],
            b.from, values(w), values_),
    W * (ptrs_reqd(d) + MAX_HUFFCODE_LEN + 1) + mem_reqd(d))

EscapeNoted(b, w, d, chars) ==
  IF d.esc THEN Pointer(b, b.from, escape(w), chars + EntryFrom(d, d.escape.len, d.escape.code)) ELSE b

FastReadInWords(b, w, d) ==
  Then(getmem(b, W * ptrs_reqd(d), W), LAMBDA vals :
    Then(getmem(vals, W * (MAX_HUFFCODE_LEN + 1), W), LAMBDA values_ :
      Then(getmem(values_, mem_reqd(d), 1), LAMBDA chars :
        EscapeNoted(WordsPlaced(chars, w, d, vals.at, values_.at, chars.at), w, d, chars.at))))

\* The symbols of each length in order, and a pointer to the first of each.
SymbolsOf(hd) ==
  FoldLeft(LAMBDA list, len : list \o Generate_Huffman_Vals(hd)[len], <<>>,
           [len \in 1 .. hd.maxcodelen |-> len])
Generate_Fast_Huffman_Vals(b, hd) ==
  Then(getmem(b, W * hd.num_codes, W), LAMBDA vals :
    Then(getmem(vals, W * (MAX_HUFFCODE_LEN + 1), W), LAMBDA values_ :
      Array(Poke(values_, FunctionOf({<<vals.at + W * (i - 1), SymbolsOf(hd)[i]>> :
                                        i \in DOMAIN SymbolsOf(hd)})),
            values_.at,
            [len \in DOMAIN hd.lencount |-> vals.at + W * SumUpTo(hd.lencount, len - 1)])))

WordsLoaded(b, w, d) ==
  Then(getmem(b, SizeOfCfh, W), LAMBDA place :
    FastReadInWords(
      Pointer(Counted_in(Field(Field(place, place.at, 0, d.hd), place.at, 1, d.size),
                         SizeOfCfh + d.hd.num_codes),
              b.from, cfh(w), place.at),
      w, d))

CodesLoaded(b, hd, huff, vals) ==
  Then(getmem(b, SizeOfHuff, W), LAMBDA place :
    Then(Generate_Fast_Huffman_Vals(
           Counted_in(Field(place, place.at, 0, hd),
                      SizeOfHuff + hd.num_codes + W * (hd.num_codes + MAX_HUFFCODE_LEN + 1)), hd),
         LAMBDA done :
           Pointer(Pointer(done, b.from, huff, place.at), b.from, vals, done.at)))

\* The two codes of a kind's novel words.
SpellingLoaded(b, w) ==
  CodesLoaded(CodesLoaded(b, dict[w].chars, chars_huff(w), chars_vals(w)),
              dict[w].lens, lens_huff(w), lens_vals(w))

blk_table(num_words) == IF Hybrid THEN [k \in 0 .. 2 |-> Block(num_words, k)] ELSE <<>>

\* LoadAuxDict: the novel words one after the other and a pointer to each.
NovelAt(novel, j) == CharsOf(SubSeq(novel, 1, j))
NovelPlaced(b, aux, w, novel, data) ==
  Field(Pointer(Pointer(
          [Array(b, b.at, [j \in 0 .. Len(novel) - 1 |-> data + NovelAt(novel, j)])
             EXCEPT !.char = FunctionOf({<<data + NovelAt(novel, j), novel[j + 1]>> :
                                           j \in 0 .. Len(novel) - 1}) @@ @],
          aux, word_data(w), data), aux, aux_words(w), b.at),
        aux, afh(w), Len(novel))
NovelLoaded(b, aux, w, novel) ==
  Then(getmem(b, CharsOf(novel), 1), LAMBDA data :
    NovelPlaced(getmem(data, W * Len(novel), W), aux, w, novel, data.at))
FastLoadAuxDict(b) ==
  Then(getmem(b, SizeOfAux, W), LAMBDA place :
    Pointer(Field(NovelLoaded(NovelLoaded(place, place.at, 0, dec.ad[0]), place.at, 1, dec.ad[1]),
                  place.at, blk, [w \in Kinds |-> blk_table(dict[w].num_words)]),
            b.from, ad, place.at))

-----------------------------------------------------------------------------

FastInit ==
  /\ fast = "off"
  /\ arena = <<>>
  /\ fast_dict = <<>>
  /\ cd = <<>>

\* main: the memory is estimated, got and cleared.
Started(place, size) ==
  [from |-> place, end |-> place + size, cur |-> place, at |-> place,
   word |-> [a \in {place + W * f : f \in 0 .. 17} |-> Plain(NULL)],
   char |-> <<>>, fixup |-> {}, fits |-> TRUE]

StartFast ==
  /\ fast = "off"
  /\ job = "between"
  /\ reads = 0
  /\ \E place \in HeapPlaces :
       arena' = Field(Field(getmem(Started(place, mem_for_comp_dict), SizeOfDict, W),
                            place, fast_loaded, 1),
                      place, cdh, [w \in Kinds |-> dict[w].num_words])
  /\ fast' = "words 0"
  /\ UNCHANGED <<fast_dict, cd>>

\* load_comp_dict, a kind of words at a time and then the novel words; getmem
\* stops the program when the block is too small.
load_words(w) ==
  /\ fast = IF w = 0 THEN "words 0" ELSE "words 1"
  /\ arena' = IF HasWords(w) THEN WordsLoaded(arena, w, dict[w]) ELSE arena
  /\ fast' = IF ~arena'.fits THEN "stopped" ELSE IF w = 0 THEN "codes 0" ELSE "codes 1"
  /\ UNCHANGED <<fast_dict, cd>>

load_codes(w) ==
  /\ fast = IF w = 0 THEN "codes 0" ELSE "codes 1"
  /\ arena' = IF HasSpelling THEN SpellingLoaded(arena, w) ELSE arena
  /\ fast' = IF ~arena'.fits THEN "stopped" ELSE IF w = 0 THEN "words 1" ELSE "novel"
  /\ UNCHANGED <<fast_dict, cd>>

load_novel ==
  /\ fast = "novel"
  /\ arena' = IF Listed THEN FastLoadAuxDict(arena) ELSE arena
  /\ fast' = IF arena'.fits THEN "loaded" ELSE "stopped"
  /\ UNCHANGED <<fast_dict, cd>>

load_comp_dict == (\E w \in Kinds : load_words(w) \/ load_codes(w)) \/ load_novel

Turned(word, cells) == [a \in DOMAIN word |-> IF a \in cells THEN [word[a] EXCEPT !.net = ~@] ELSE word[a]]

\* The words that both programs turn: all scalars but those of the codes of
\* characters and lengths, which are the same for both on one machine.
TurnedCells(word, p) ==
  LET at(f) == word[p + W * f].v
  IN {p + W * f : f \in {cdh, MemForCompDict, fast_loaded}}
       \cup UNION {{at(cfh(w)), at(cfh(w)) + W} : w \in Kinds}
       \cup (IF Listed THEN {at(ad) + W * f : f \in {afh(0), afh(1), blk}} ELSE {})

\* HTON*: a kind without words has no tables to turn.
ToNetOrder ==
  /\ fast = "loaded"
  /\ IF \E w \in Kinds : arena.word[arena.from + W * cfh(w)].v = NULL
     THEN fast' = "stopped" /\ UNCHANGED arena
     ELSE /\ arena' = [arena EXCEPT !.word = Turned(@, TurnedCells(@, arena.from))]
          /\ fast' = "ordered"
  /\ UNCHANGED <<fast_dict, cd>>

unfixup_buffer ==
  /\ fast = "ordered"
  /\ arena' = [arena EXCEPT !.word =
       [a \in DOMAIN @ |-> IF a \in arena.fixup THEN [@[a] EXCEPT !.v = @ - arena.from] ELSE @[a]]]
  /\ fast' = "offsets"
  /\ UNCHANGED <<fast_dict, cd>>

\* What is written has no addresses of its own: words count from the start.
save_fast_dict ==
  /\ fast = "offsets"
  /\ LET turned == Turned(arena.word, arena.fixup)
     IN fast_dict' =
          [mem   |-> arena.end - arena.from,
           word  |-> [o \in {a - arena.from : a \in DOMAIN turned} |-> turned[o + arena.from]],
           char  |-> [o \in {a - arena.from : a \in DOMAIN arena.char} |-> arena.char[o + arena.from]],
           fixup |-> {a - arena.from : a \in arena.fixup}]
  /\ fast' = "saved"
  /\ UNCHANGED <<arena, cd>>

\* Mutant: the pointer is not turned.
RelocatedUnturned(cell, where) ==
  [v |-> IF cell.v >= 0 THEN cell.v + where ELSE NULL, net |-> cell.net]

\* An offset becomes a pointer, a negative one the null pointer; the scalars
\* are turned when the pointers to them can be followed.
Relocated(cell, where) ==
  [v |-> IF cell.v >= 0 THEN cell.v + where ELSE NULL, net |-> ~cell.net]

Load_Fast_Comp_Dict ==
  /\ fast = "saved"
  /\ \E where \in HeapPlaces :
       LET word == [a \in {o + where : o \in DOMAIN fast_dict.word} |->
                      LET cell == fast_dict.word[a - where]
                      IN IF a - where \in fast_dict.fixup THEN Relocated(cell, where) ELSE cell]
       IN cd' = [where |-> where,
                 word  |-> Turned(word, TurnedCells(word, where)),
                 char  |-> [a \in {o + where : o \in DOMAIN fast_dict.char} |->
                              fast_dict.char[a - where]]]
  /\ fast' = "read"
  /\ UNCHANGED <<arena, fast_dict>>

FastNext ==
  /\ StartFast \/ load_comp_dict \/ ToNetOrder \/ unfixup_buffer \/ save_fast_dict \/ Load_Fast_Comp_Dict
  /\ UNCHANGED codecVars

-----------------------------------------------------------------------------

(***************************************************************************)
(* The estimate of the memory is exact, whatever the kind of dictionary,   *)
(* though it adds up the parts in another order than they are placed in,   *)
(* and the program is stopped only by a kind that has no words.            *)
(***************************************************************************)
EstimateExact ==
  /\ fast \in {"loaded", "ordered", "offsets", "saved", "read"} =>
       ALIGN_SIZE(arena.cur) = arena.end
  /\ fast = "stopped" => arena.fits /\ \E w \in Kinds : ~HasWords(w)

\* What DecodeText finds when it follows the pointers of the dictionary: the
\* word of every code, the escape code, the symbols and the novel words.
At(f) == cd.word[cd.where + W * f].v
Word(p, i) == cd.word[p + W * i].v
RECURSIVE EntryAt(_, _)
EntryAt(p, n) == IF n = 0 THEN p ELSE EntryAt(p + 1 + Len(cd.char[p].suffix), n - 1)

WordsView(w) ==
  LET d == dict[w]
      place(len, code) ==
        EntryAt(Word(Word(At(values(w)), len), code \div Pow2[option.lookback]),
              code % Pow2[option.lookback])
  IN /\ Word(At(cfh(w)), 0) = d.hd
     /\ \A len \in DOMAIN d.entries : \A code \in 0 .. Len(d.entries[len]) - 1 :
          /\ cd.char[place(len, code)] = d.entries[len][code + 1]
          /\ (d.esc /\ len = d.escape.len /\ code = d.escape.code) <=> place(len, code) = At(escape(w))

CodesView(hd, vals, huff, valsAt) ==
  /\ Word(At(huff), 0) = hd
  /\ \A len \in DOMAIN vals : \A n \in DOMAIN vals[len] :
       Word(Word(At(valsAt), len), n - 1) = vals[len][n]

NovelView(w) ==
  /\ Word(At(ad), afh(w)) = Len(dec.ad[w])
  /\ \A j \in DOMAIN dec.ad[w] : cd.char[Word(Word(At(ad), aux_words(w)), j - 1)] = dec.ad[w][j]
  /\ Word(At(ad), blk)[w] = blk_table(dict[w].num_words)

(***************************************************************************)
(* From text.dict.fast, read to any place in memory, the query program has *)
(* the dictionary that Load_Comp_Dict makes of text.dict and its auxiliary *)
(* file: every pointer leads where it led, every number is in the order of *)
(* the machine again.                                                      *)
(***************************************************************************)
FastIsDict ==
  fast = "read" =>
    /\ \A w \in Kinds :
         /\ At(cdh)[w] = dict[w].num_words
         /\ HasWords(w) => WordsView(w)
         /\ HasSpelling => /\ CodesView(dict[w].chars, dict[w].chars_vals, chars_huff(w), chars_vals(w))
                           /\ CodesView(dict[w].lens, dict[w].lens_vals, lens_huff(w), lens_vals(w))
         /\ Listed => NovelView(w)
    /\ At(fast_loaded) = 1
    /\ \A a \in DOMAIN cd.word : ~cd.word[a].net

FastDictRight == EstimateExact /\ FastIsDict
=============================================================================
