----------------------------- MODULE TextIndex ------------------------------
(***************************************************************************)
(* Where a document lies in the compressed text.  The index has an entry   *)
(* for every paragraph with the place of the document it belongs to, and   *)
(* one more with the end of the text; text_get.c keeps one page of it in   *)
(* memory (LoadIdx), finds the length of a document by looking for the     *)
(* next entry that differs, and its first paragraph by looking backwards,  *)
(* the page moving with either search.                                     *)
(***************************************************************************)
EXTENDS Integers, Sequences

CONSTANTS
  MG_PAGE_SIZE,  \* entries of a page
  Indexes        \* the index files: the place of each entry

\* Make_text_idx_wgt repeats the place of a document for each of its
\* paragraphs and ends the file with the end of the last document; no
\* document takes no bytes.
ASSUME IndexesAreBuilt ==
  /\ MG_PAGE_SIZE \in Nat \ {0}
  /\ \A idx \in Indexes :
       /\ idx \in Seq(Nat) /\ Len(idx) > 1
       /\ \A i, j \in 1 .. Len(idx) : i < j => idx[i] <= idx[j]
       /\ \A i \in 1 .. Len(idx) - 1 : idx[i] < idx[Len(idx)]

VARIABLES
  idx_file,     \* the entries of text.idx.wgt
  current_pos,  \* number of the first entry of the page, -1 before any
  idx_data,     \* the page
  wanted,       \* the paragraph asked about
  DN,           \* the entry the search has reached
  s1,           \* the place of the document
  answer,       \* the place and length found, or the first paragraph
  fetch         \* "idle", "span", "first"

indexVars == <<idx_file, current_pos, idx_data, wanted, DN, s1, answer, fetch>>

Slots == 0 .. MG_PAGE_SIZE - 1

\* The page read for entry n: half a page before it, or from the first one;
\* at the end of the file the last places keep what they had.
PageFrom(n) == IF n - (MG_PAGE_SIZE \div 2) < 1 THEN 1 ELSE n - (MG_PAGE_SIZE \div 2)

\* Mutant: the page is read from one entry too far.
PageOfNext(contents, first, page) ==
  [i \in Slots |-> IF first + 1 + i <= Len(contents) THEN contents[first + 1 + i] ELSE page[i]]

PageOf(contents, first, page) ==
  [i \in Slots |-> IF first + i <= Len(contents) THEN contents[first + i] ELSE page[i]]

InPage(pos, n) == pos # -1 /\ pos <= n /\ n < pos + MG_PAGE_SIZE - 1

Pos(pos, n) == IF InPage(pos, n) THEN pos ELSE PageFrom(n)
Page(contents, pos, page, n) == IF InPage(pos, n) THEN page ELSE PageOf(contents, PageFrom(n), page)

LoadIdx(n) ==
  /\ current_pos' = Pos(current_pos, n)
  /\ idx_data' = Page(idx_file, current_pos, idx_data, n)

\* What FDSL2 finds for entry n once LoadIdx is done.
Start(n) == Page(idx_file, current_pos, idx_data, n)[n - Pos(current_pos, n)]

Paragraphs == 1 .. Len(idx_file) - 1

-----------------------------------------------------------------------------

\* The page is not cleared when it is allocated: 0 is no document's place.
IndexInit ==
  /\ idx_file \in Indexes
  /\ current_pos = -1
  /\ idx_data = [i \in Slots |-> 0]
  /\ wanted = 1
  /\ DN = 1
  /\ s1 = 0
  /\ answer = <<>>
  /\ fetch = "idle"

FetchDocStart ==
  /\ fetch = "idle"
  /\ \E n \in Paragraphs :
       /\ LoadIdx(n)
       /\ s1' = Start(n)
       /\ wanted' = n
       /\ DN' = n
  /\ fetch' = "span"
  /\ answer' = <<>>
  /\ UNCHANGED idx_file

\* One round of the loop of FetchDocStartLev2.
NextStart ==
  /\ fetch = "span"
  /\ LoadIdx(DN + 1)
  /\ DN' = DN + 1
  /\ LET s2 == Start(DN + 1)
     IN IF s2 = s1
        THEN UNCHANGED <<answer, fetch>>
        ELSE answer' = <<s1, s2 - s1>> /\ fetch' = "idle"
  /\ UNCHANGED <<idx_file, wanted, s1>>

FetchInitialParagraph ==
  /\ fetch = "idle"
  /\ \E n \in Paragraphs :
       /\ LoadIdx(n)
       /\ s1' = Start(n)
       /\ wanted' = n
       /\ DN' = n - 1
  /\ fetch' = "first"
  /\ answer' = <<>>
  /\ UNCHANGED idx_file

\* One round of the loop of FetchInitialParagraph, or its end.
PreviousStart ==
  /\ fetch = "first"
  /\ IF DN = 0
     THEN /\ answer' = <<1>>
          /\ fetch' = "idle"
          /\ UNCHANGED <<current_pos, idx_data, DN>>
     ELSE /\ LoadIdx(DN)
          /\ IF Start(DN) # s1
             THEN answer' = <<DN + 1>> /\ fetch' = "idle" /\ UNCHANGED DN
             ELSE DN' = DN - 1 /\ UNCHANGED <<answer, fetch>>
  /\ UNCHANGED <<idx_file, wanted, s1>>

IndexNext == FetchDocStart \/ NextStart \/ FetchInitialParagraph \/ PreviousStart

IndexSpec == IndexInit /\ [][IndexNext]_indexVars

-----------------------------------------------------------------------------

(***************************************************************************)
(* The place and length found for a paragraph are those of its document:   *)
(* the text from there to the next document or the end; and the first      *)
(* paragraph found is the first with that place.  This holds after any     *)
(* earlier searches, wherever they have left the page.                     *)
(***************************************************************************)
SpanIsDocument ==
  fetch = "idle" /\ Len(answer) = 2 =>
    /\ answer[1] = idx_file[wanted]
    /\ \E k \in DOMAIN idx_file : idx_file[k] = answer[1] + answer[2]
    /\ \A k \in DOMAIN idx_file :
         idx_file[k] <= idx_file[wanted] \/ idx_file[k] >= answer[1] + answer[2]

FirstIsFirst ==
  fetch = "idle" /\ Len(answer) = 1 =>
    /\ answer[1] \in DOMAIN idx_file
    /\ idx_file[answer[1]] = idx_file[wanted]
    /\ \A k \in 1 .. answer[1] - 1 : idx_file[k] # idx_file[wanted]

SearchesFind == SpanIsDocument /\ FirstIsFirst
=============================================================================
