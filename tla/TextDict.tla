------------------------------ MODULE TextDict ------------------------------
(***************************************************************************)
(* The compression dictionary: what text.pass1.c counts,                   *)
(* mg_compression_dict.c selects and writes, and comp_dict.c (for the      *)
(* compressor) and text_get.c (for the reader) load.  A character is a     *)
(* number, a word or non-word a sequence of characters; kind 1 are the     *)
(* words, kind 0 the non-words between them.                               *)
(***************************************************************************)
EXTENDS HuffCode

LOCAL INSTANCE TLC

CONSTANTS
  LastChar,      \* characters are 0 .. LastChar
  WordChars,     \* those INAWORD accepts
  MAXWORDLEN,    \* the longest word or non-word
  PointerSize    \* sizeof (u_char *), counted for every word that is kept

Kinds == {0, 1}

INAWORD(c) == IF c \in WordChars THEN 1 ELSE 0

\* PARSE_WORD and PARSE_NON_WORD: characters of the kind asked for from
\* position s of the document, none if the next one is of the other kind.
Token(doc, s, which) ==
  LET fits(n) == s + n - 1 <= Len(doc) /\ \A i \in s .. s + n - 1 : INAWORD(doc[i]) = which
  IN SubSeq(doc, s, s - 1 + Max({n \in 0 .. MAXWORDLEN : fits(n)}))

\* The dictionary order of the characters, then the shorter word.
Before(v, w) ==
  \/ \E i \in 1 .. Len(v) :
       /\ i <= Len(w)
       /\ v[i] < w[i]
       /\ \A j \in 1 .. i - 1 : v[j] = w[j]
  \/ Len(v) < Len(w) /\ \A j \in 1 .. Len(v) : v[j] = w[j]

prefixlen(v, w) ==
  Max({n \in 0 .. Len(v) : n <= Len(w) /\ SubSeq(v, 1, n) = SubSeq(w, 1, n)})

-----------------------------------------------------------------------------

(***************************************************************************)
(* text.pass1: every word and non-word with its frequency and its place in *)
(* the order of first occurrence, which both kinds share.  The empty word  *)
(* of either kind is there from the start, with the number 0.              *)
(***************************************************************************)
NoStats == [next |-> 0, freq |-> [w \in Kinds |-> <<>> :> 1], occur |-> [w \in Kinds |-> <<>> :> 0]]

CountWord(st, which, word) ==
  IF word \in DOMAIN st.freq[which]
  THEN [st EXCEPT !.freq[which][word] = @ + 1]
  ELSE [next  |-> st.next + 1,
        freq  |-> [st.freq EXCEPT ![which] = @ @@ (word :> 1)],
        occur |-> [st.occur EXCEPT ![which] = @ @@ (word :> st.next)]]

RECURSIVE CountFrom(_, _, _, _)
CountFrom(st, doc, s, which) ==
  IF s > Len(doc) THEN st
  ELSE LET word == Token(doc, s, which)
       IN CountFrom(CountWord(st, which, word), doc, s + Len(word), 1 - which)

process_text_1(st, doc) == CountFrom(st, doc, 1, INAWORD(doc[1]))

AllWords(st) == {<<which, word>> \in Kinds \X UNION {DOMAIN st.freq[k] : k \in Kinds} :
                   word \in DOMAIN st.freq[which]}

\* The comparisons of the selection heap; words that compare equal may come
\* out of it in any order.
OccuranceOrder(st, v, w) == st.occur[v[1]][v[2]] < st.occur[w[1]][w[2]]
DecFreqIncWL(st, v, w) ==
  \/ st.freq[v[1]][v[2]] > st.freq[w[1]][w[2]]
  \/ st.freq[v[1]][v[2]] = st.freq[w[1]][w[2]] /\ Len(v[2]) > Len(w[2])

-----------------------------------------------------------------------------

(***************************************************************************)
(* WriteOutWords.  The words of a kind that are kept, in order, and, for   *)
(* an incomplete dictionary, an empty word for the escape code behind      *)
(* them; the Huffman tables of these, and of the lengths and characters    *)
(* of the words that are not kept where those are to be spelt out.         *)
(***************************************************************************)
Sorted(words) ==
  [n \in 1 .. Cardinality(words) |->
     CHOOSE w \in words : Cardinality({v \in words : Before(v, w)}) = n - 1]

AtLeastOne(n) == IF n = 0 THEN 1 ELSE n

Spells(type, method) == type = "partial" \/ (type = "seed" /\ method = "huffman_chars")

EscapeFreq(type, freq, kept) ==
  AtLeastOne(IF type = "partial"
             THEN MapThenSumSet(LAMBDA w : freq[w], DOMAIN freq \ kept)
             ELSE Cardinality({w \in DOMAIN freq : freq[w] = 1}))

\* Occurrences of a length, and of a character, in the words given.
LengthFreqs(freq, words) ==
  [n \in 0 .. MAXWORDLEN |->
     MapThenSumSet(LAMBDA w : freq[w], {w \in words : Len(w) = n})]
CharFreqs(freq, words) ==
  [c \in 0 .. LastChar |->
     MapThenSumSet(LAMBDA w : freq[w] * Cardinality({i \in DOMAIN w : w[i] = c}), words)]

\* With a seed dictionary any word may turn up later: nothing has frequency 0.
SpeltLengths(type, freq, kept) ==
  IF type = "partial" THEN LengthFreqs(freq, DOMAIN freq \ kept)
  ELSE [n \in 0 .. MAXWORDLEN |-> AtLeastOne(LengthFreqs(freq, DOMAIN freq)[n])]
SpeltChars(type, freq, kept, which) ==
  IF type = "partial" THEN CharFreqs(freq, DOMAIN freq \ kept)
  ELSE [c \in 0 .. LastChar |->
          IF INAWORD(c) = which THEN AtLeastOne(CharFreqs(freq, DOMAIN freq)[c])
          ELSE CharFreqs(freq, DOMAIN freq)[c]]

\* Write_words: each word without the prefix it shares with the one before.
Write_words(words) ==
  [i \in DOMAIN words |->
     LET copy == IF i = 1 THEN 0 ELSE prefixlen(words[i - 1], words[i])
     IN [copy |-> copy, suffix |-> SubSeq(words[i], copy + 1, Len(words[i]))]]

SameLength(clens, i) == {j \in DOMAIN clens : clens[j] = clens[i]}
BlockPlace(clens, i) == Cardinality({j \in SameLength(clens, i) : j < i})

\* Mutant: only the first word of a code length starts a block.
BlockStartFirst(clens, i, lookback) == BlockPlace(clens, i) = 0

\* The word before word i among those with as long a code; none at the
\* start of every block of 2^lookback.
BlockStart(clens, i, lookback) == BlockPlace(clens, i) % Pow2[lookback] = 0
PrefixInBlock(words, clens, i, lookback) ==
  IF BlockStart(clens, i, lookback) THEN 0
  ELSE prefixlen(words[1 + Max({j \in SameLength(clens, i) : j < i})], words[i + 1])

\* Write_data: the room the words of each code length will take in memory.
huff_words_size(words, hd, lookback) ==
  [len \in 1 .. hd.maxcodelen |->
     MapThenSumSet(LAMBDA i : Len(words[i + 1]) + 1 - PrefixInBlock(words, hd.clens, i, lookback),
                   {i \in DOMAIN hd.clens : hd.clens[i] = len})]

KindOfDict(type, method, lookback, freq, kept, which) ==
  LET esc   == type # "complete" /\ kept # {}
      words == Sorted(kept) \o (IF esc THEN <<<<>>>> ELSE <<>>)
      freqs == [i \in 0 .. Len(words) - 1 |->
                  IF esc /\ i = Len(words) - 1 THEN EscapeFreq(type, freq, kept)
                  ELSE freq[words[i + 1]]]
      hd    == HuffmanData(freqs)
      none  == HuffmanData([i \in {0} |-> 0])
      spell == Spells(type, method)
  IN [num_words |-> Cardinality(kept),
      esc       |-> esc,
      hd        |-> IF words = <<>> THEN none ELSE hd,
      file      |-> Write_words(words),
      size      |-> IF words = <<>> THEN <<>> ELSE huff_words_size(words, hd, lookback),
      lens      |-> IF spell THEN HuffmanData(SpeltLengths(type, freq, kept)) ELSE none,
      chars     |-> IF spell THEN HuffmanData(SpeltChars(type, freq, kept, which)) ELSE none]
=============================================================================
