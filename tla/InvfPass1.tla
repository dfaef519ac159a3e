----------------------------- MODULE InvfPass1 ------------------------------
(***************************************************************************)
(* The first pass of inversion, src/text/ivf.pass1.c (mg_passes -I1): it   *)
(* counts the words of the text and cuts the documents into chunks whose   *)
(* postings should fit the memory the second pass may use.  What it hands  *)
(* to the second pass is the chunk file (documents, bytes and word counts  *)
(* of each chunk), the dictionary (fcnt, wcnt) and the order in which the  *)
(* words first occurred.                                                   *)
(*                                                                         *)
(* The hash table is a function from the words seen; a document is the     *)
(* sequence of the stems parsed from it.  At level 3 what is called a      *)
(* document here is a paragraph, as process_ivf_1 hands process_doc one.   *)
(***************************************************************************)
EXTENDS BitCodes, FiniteSets, SequencesExt, FiniteSetsExt

CONSTANTS
  NumWords,      \* different words in the text
  Documents,     \* the documents there may be: sequences of words
  MaxDocs,       \* bound: documents in the text
  InvfLevel,     \* 1: document numbers only, 2: with counts
  InitCheck,     \* pointers before the memory is first estimated
  BufferSize     \* invf_buffer_size, in bytes

\* The words, by their numbers in the dictionary.
Words == 1 .. NumWords

ASSUME Pass1Constants ==
  /\ NumWords \in Nat
  /\ Documents \subseteq Seq(Words)
  /\ MaxDocs \in Nat \ {0}
  /\ InvfLevel \in {1, 2}
  /\ InitCheck \in Nat \ {0}
  /\ BufferSize \in Nat

VARIABLES
  text,        \* the documents read: callnum is their number
  first_occr,  \* the words in order of their first occurrence
  fcnt, wcnt,  \* per word: documents with it, occurrences
  lfcnt, lwcnt,\* the same within the chunk being collected
  lcallnum,    \* documents in the chunk
  ptrcnt,      \* pointers in the chunk, as the code counts them
  checknum,    \* value of ptrcnt at which the memory is estimated next
  chunks,      \* the chunk file: one description per chunk
  max_mem,     \* the largest chunk, in bytes
  ended        \* done_ivf_1 has been called

pass1 == <<text, first_occr, fcnt, wcnt, lfcnt, lwcnt, lcallnum, ptrcnt,
           checknum, chunks, max_mem, ended>>

Known == Range(first_occr)

InDoc(doc) == Range(doc)

Occurrences(w, doc) == Cardinality({i \in DOMAIN doc : doc[i] = w})

\* Mutant: the counts are forgotten.
RegionBitsNoCounts(N, p, n) == IF p > 0 THEN BblockBound(N, p) ELSE 0

\* Bits of the postings of one word, p documents among N and n occurrences.
RegionBits(N, p, n) ==
  (IF p > 0 THEN BblockBound(N, p) ELSE 0) + (IF InvfLevel >= 2 THEN n ELSE 0)

Bytes(bits) == (bits + 7) \div 8

\* The sum of the first n elements of s.
SumTo(s, n) ==
  LET sum[i \in 0 .. n] == IF i = 0 THEN 0 ELSE sum[i - 1] + s[i] IN sum[n]

mem_reqd(docs, f, n) ==
  Bytes(SumTo([w \in Words |-> RegionBits(docs, f[w], n[w])], NumWords))

-----------------------------------------------------------------------------

Pass1Init ==
  /\ text = <<>>
  /\ first_occr = <<>>
  /\ fcnt = [w \in Words |-> 0] /\ wcnt = [w \in Words |-> 0]
  /\ lfcnt = [w \in Words |-> 0] /\ lwcnt = [w \in Words |-> 0]
  /\ lcallnum = 0
  /\ ptrcnt = 0
  /\ checknum = InitCheck
  /\ chunks = <<>>
  /\ max_mem = 0
  /\ ended = FALSE

\* The words of doc not seen before, in order of their first occurrence.
NewWords(doc) ==
  LET new[i \in 0 .. Len(doc)] ==
        IF i = 0 THEN <<>>
        ELSE IF doc[i] \in Known \cup Range(new[i - 1]) THEN new[i - 1]
        ELSE Append(new[i - 1], doc[i])
  IN new[Len(doc)]

\* dump_dict: the counts of all words known so far, in order of occurrence.
Description(docs, mem, f, n) ==
  [docs |-> docs, mem |-> mem,
   counts |-> [i \in 1 .. Len(first_occr') |->
                 <<n[first_occr'[i]], f[first_occr'[i]]>>]]

\* ptrcnt leaves out the word that is new to the whole text.
PointersOf(doc) == Cardinality(InDoc(doc) \cap Known)

Dump(mem, f, n) ==
  /\ chunks' = Append(chunks, Description(lcallnum + 1, mem, f, n))
  /\ max_mem' = Max({mem, max_mem})
  /\ lcallnum' = 0
  /\ lfcnt' = [w \in Words |-> 0] /\ lwcnt' = [w \in Words |-> 0]
  /\ ptrcnt' = 0
  /\ checknum' = InitCheck

Collect(f, n, pointers, check) ==
  /\ lcallnum' = lcallnum + 1
  /\ lfcnt' = f /\ lwcnt' = n
  /\ ptrcnt' = pointers
  /\ checknum' = check
  /\ UNCHANGED <<chunks, max_mem>>

\* The estimate is repeated when three quarters of what is left may be used.
NextCheck(mem, pointers) ==
  LET next == (checknum * 3 * (BufferSize - mem)) \div (4 * mem) + checknum
  IN IF next <= pointers THEN pointers + 1 ELSE next

process_doc(doc) ==
  LET f == [w \in Words |-> lfcnt[w] + (IF w \in InDoc(doc) THEN 1 ELSE 0)]
      n == [w \in Words |-> lwcnt[w] + Occurrences(w, doc)]
      pointers == ptrcnt + PointersOf(doc)
      mem == mem_reqd(lcallnum + 1, f, n)
  IN /\ text' = Append(text, doc)
     /\ first_occr' = first_occr \o NewWords(doc)
     /\ fcnt' = [w \in Words |-> fcnt[w] + (IF w \in InDoc(doc) THEN 1 ELSE 0)]
     /\ wcnt' = [w \in Words |-> wcnt[w] + Occurrences(w, doc)]
     /\ \/ pointers < checknum /\ Collect(f, n, pointers, checknum)
        \/ /\ pointers >= checknum
           /\ mem * 1000 >= BufferSize * 999
           /\ Dump(mem, f, n)
        \/ /\ pointers >= checknum
           /\ mem * 1000 < BufferSize * 999
           /\ Collect(f, n, pointers, NextCheck(mem, pointers))

ReadDocument ==
  /\ ~ended
  /\ Len(text) < MaxDocs
  /\ \E doc \in Documents : process_doc(doc)
  /\ UNCHANGED ended

\* done_ivf_1 dumps what is left; there is nothing to invert without a word.
done_ivf_1 ==
  /\ ~ended
  /\ first_occr # <<>>
  /\ ended' = TRUE
  /\ UNCHANGED <<text, first_occr, fcnt, wcnt, lfcnt, lwcnt, lcallnum,
                 ptrcnt, checknum>>
  /\ LET mem == mem_reqd(lcallnum, lfcnt, lwcnt)
     IN IF lcallnum = 0
        THEN UNCHANGED <<chunks, max_mem>>
        ELSE /\ chunks' = Append(chunks, Description(lcallnum, mem, lfcnt, lwcnt))
             /\ max_mem' = Max({mem, max_mem})

Pass1Next == ReadDocument \/ done_ivf_1

=============================================================================
