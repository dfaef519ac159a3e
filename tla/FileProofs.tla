----------------------------- MODULE FileProofs ------------------------------
(***************************************************************************)
(* Files that are read and written a bit or a buffer at a time, for        *)
(* buffers, files and numbers of any size: the reader's page of the text   *)
(* index never gives a wrong place (TextIndex); the window over the        *)
(* records of the inversion is a store of records (StateCache); compacting *)
(* the inverted file in place loses nothing (InvfCompact); numbers in any  *)
(* mix of codes are read back (BitStream); the arithmetic decoder finds    *)
(* the symbol that was coded (ArithCode).  Either of the first two         *)
(* arguments is one invariant, that a place of the page holds what the     *)
(* file has or should have there, which moving the page re-establishes;    *)
(* the third compares the two places in one file; the fourth says where    *)
(* each code of the stream ends; the last that the value stays in its      *)
(* interval.                                                               *)
(***************************************************************************)
EXTENDS TextIndex, StateCache, InvfCompact, BitStream, ArithCode, CodeFacts

-----------------------------------------------------------------------------
\* The text index.

PageRight(stored, first, page) ==
  /\ first \in Nat \cup {-1}
  /\ page \in [Slots -> Nat]
  /\ first # -1 => first >= 1 /\ \A i \in Slots : first + i <= Len(stored) => page[i] = stored[first + i]

\* What the searches have established.
Searching(stored, w, n, start, a, state) ==
  /\ state \in {"idle", "span", "first"}
  /\ state = "span" =>
       /\ w \in 1 .. Len(stored) - 1 /\ n \in w .. Len(stored) - 1
       /\ start = stored[w] /\ \A k \in w .. n : stored[k] = start
  /\ state = "first" =>
       /\ w \in 1 .. Len(stored) - 1 /\ n \in 0 .. w - 1
       /\ start = stored[w] /\ \A k \in n + 1 .. w : stored[k] = start

IndexInv ==
  /\ idx_file \in Indexes
  /\ PageRight(idx_file, current_pos, idx_data)
  /\ Searching(idx_file, wanted, DN, s1, answer, fetch)
  /\ SearchesFind

LEMMA IndexFacts ==
  ASSUME NEW stored \in Indexes
  PROVE  /\ Len(stored) \in Nat /\ Len(stored) > 1
         /\ \A i \in 1 .. Len(stored) : stored[i] \in Nat
         /\ \A i, j \in 1 .. Len(stored) : i < j => stored[i] <= stored[j]
         /\ \A i \in 1 .. Len(stored) - 1 : stored[i] < stored[Len(stored)]
         /\ DOMAIN stored = 1 .. Len(stored)
BY IndexesAreBuilt

\* After LoadIdx the page is right and has the entry asked for.
LEMMA LoadIdxRight ==
  ASSUME NEW stored \in Indexes, NEW first, NEW page, NEW n \in 1 .. Len(stored),
         PageRight(stored, first, page)
  PROVE  /\ PageRight(stored, Pos(first, n), Page(stored, first, page, n))
         /\ Page(stored, first, page, n)[n - Pos(first, n)] = stored[n]
<1>0. /\ MG_PAGE_SIZE \in Nat /\ MG_PAGE_SIZE >= 1 /\ Slots = 0 .. MG_PAGE_SIZE - 1
      /\ Len(stored) \in Nat /\ \A i \in 1 .. Len(stored) : stored[i] \in Nat
  BY IndexesAreBuilt, IndexFacts DEF Slots
<1>1. CASE InPage(first, n)
  <2>1. first \in Nat /\ first >= 1 /\ n - first \in Slots
    BY <1>0, <1>1 DEF InPage, PageRight
  <2>2. page[n - first] = stored[n]
    BY <1>0, <1>1, <2>1 DEF InPage, PageRight
  <2>3. QED
    BY <1>1, <2>2 DEF Pos, Page
<1>2. CASE ~InPage(first, n)
  <2> DEFINE h == MG_PAGE_SIZE \div 2
             q == PageFrom(n)
             new == PageOf(stored, q, page)
  <2>1. h \in Nat /\ h <= MG_PAGE_SIZE - 1
    BY <1>0
  <2>2. q \in Nat /\ q >= 1 /\ q <= n /\ n - q <= h
    BY <1>0, <2>1 DEF PageFrom
  <2>3. new \in [Slots -> Nat]
    BY <1>0, <2>2 DEF PageOf, PageRight
  <2>4. \A i \in Slots : q + i <= Len(stored) => new[i] = stored[q + i]
    BY DEF PageOf
  <2>5. n - q \in Slots /\ q + (n - q) = n /\ n <= Len(stored)
    BY <1>0, <2>1, <2>2
  <2>6. new[n - q] = stored[n]
    BY <2>4, <2>5
  <2>7. PageRight(stored, q, new)
    BY <2>2, <2>3, <2>4 DEF PageRight
  <2>8. QED
    BY <1>2, <2>6, <2>7 DEF Pos, Page
<1>3. QED
  BY <1>1, <1>2

LEMMA IndexInitial == IndexInit => IndexInv
BY IndexesAreBuilt DEF IndexInit, IndexInv, PageRight, Searching, SearchesFind,
   SpanIsDocument, FirstIsFirst, Slots

\* The entry after one with the place of the document is the next place or
\* the same one, and the next place is no nearer.
LEMMA SpanEnds ==
  ASSUME NEW stored \in Indexes, NEW w \in 1 .. Len(stored) - 1,
         NEW n \in w .. Len(stored) - 1, stored[n] = stored[w], stored[n + 1] # stored[w]
  PROVE  \A k \in DOMAIN stored : stored[k] <= stored[w] \/ stored[k] >= stored[n + 1]
<1>1. /\ Len(stored) \in Nat /\ DOMAIN stored = 1 .. Len(stored)
      /\ \A i, j \in 1 .. Len(stored) : i < j => stored[i] <= stored[j]
      /\ \A i \in 1 .. Len(stored) : stored[i] \in Nat
  BY IndexFacts
<1>2. SUFFICES ASSUME NEW k \in 1 .. Len(stored)
               PROVE  stored[k] <= stored[w] \/ stored[k] >= stored[n + 1]
  BY <1>1
<1>3. CASE k <= n
  <2>1. k = n \/ (k < n /\ n \in 1 .. Len(stored))
    BY <1>1, <1>3
  <2>2. stored[k] <= stored[n]
    BY <1>1, <2>1
  <2>3. QED
    BY <2>2
<1>4. CASE k > n
  <2>1. n + 1 \in 1 .. Len(stored) /\ (k = n + 1 \/ n + 1 < k)
    BY <1>1, <1>4
  <2>2. stored[n + 1] <= stored[k] /\ stored[n + 1] \in Nat /\ stored[k] \in Nat
    BY <1>1, <2>1
  <2>3. QED
    BY <2>2
<1>5. QED
  BY <1>1, <1>3, <1>4

LEMMA FetchDocStartStep == IndexInv /\ FetchDocStart => IndexInv'
<1> SUFFICES ASSUME IndexInv, FetchDocStart PROVE IndexInv'
  OBVIOUS
<1>1. PICK n \in 1 .. Len(idx_file) - 1 :
        /\ LoadIdx(n) /\ s1' = Start(n) /\ wanted' = n /\ DN' = n
  BY DEF FetchDocStart, Paragraphs
<1>2. idx_file \in Indexes /\ Len(idx_file) \in Nat /\ n \in 1 .. Len(idx_file)
  BY IndexFacts DEF IndexInv
<1>3. PageRight(idx_file, current_pos', idx_data') /\ s1' = idx_file[n]
  BY <1>1, <1>2, LoadIdxRight DEF IndexInv, LoadIdx, Start
<1>4. idx_file' = idx_file /\ fetch' = "span" /\ answer' = <<>>
  BY DEF FetchDocStart
<1>5. Searching(idx_file, n, n, s1', <<>>, "span")
  BY <1>2, <1>3 DEF Searching
<1>6. QED
  BY <1>1, <1>2, <1>3, <1>4, <1>5 DEF IndexInv, SearchesFind, SpanIsDocument, FirstIsFirst

LEMMA NextStartStep == IndexInv /\ NextStart => IndexInv'
<1> SUFFICES ASSUME IndexInv, NextStart PROVE IndexInv'
  OBVIOUS
<1> DEFINE s2 == Start(DN + 1)
<1>1. /\ wanted \in 1 .. Len(idx_file) - 1 /\ DN \in wanted .. Len(idx_file) - 1
      /\ s1 = idx_file[wanted] /\ \A k \in wanted .. DN : idx_file[k] = s1
  BY DEF IndexInv, Searching, NextStart
<1>2. idx_file \in Indexes /\ Len(idx_file) \in Nat /\ DN + 1 \in 1 .. Len(idx_file)
  BY <1>1, IndexFacts DEF IndexInv
<1>3. PageRight(idx_file, current_pos', idx_data') /\ s2 = idx_file[DN + 1]
  BY <1>2, LoadIdxRight DEF IndexInv, LoadIdx, Start, NextStart
<1>4. /\ idx_file' = idx_file /\ wanted' = wanted /\ s1' = s1 /\ DN' = DN + 1
      /\ IF s2 = s1 THEN answer' = answer /\ fetch' = fetch
         ELSE answer' = <<s1, s2 - s1>> /\ fetch' = "idle"
  BY DEF NextStart
<1>5. CASE s2 = s1
  <2>1. DN + 1 <= Len(idx_file) - 1
    BY <1>1, <1>2, <1>3, <1>5, IndexFacts
  <2>2. Searching(idx_file, wanted, DN + 1, s1, answer, "span")
    BY <1>1, <1>2, <1>3, <1>5, <2>1 DEF Searching
  <2>3. fetch = "span"
    BY DEF NextStart
  <2>4. QED
    BY <1>2, <1>3, <1>4, <1>5, <2>2, <2>3 DEF IndexInv, SearchesFind, SpanIsDocument, FirstIsFirst
<1>6. CASE s2 # s1
  <2>1. s1 \in Nat /\ s2 \in Nat
    BY <1>1, <1>2, <1>3, IndexFacts
  <2>a. answer' = <<s1, s2 - s1>> /\ fetch' = "idle"
    BY <1>4, <1>6
  <2>b. Len(answer') = 2 /\ answer'[1] = s1 /\ answer'[1] + answer'[2] = s2
    BY <2>1, <2>a
  <2>2. \A k \in DOMAIN idx_file : idx_file[k] <= idx_file[wanted] \/ idx_file[k] >= s2
    <3>1. idx_file[DN] = idx_file[wanted]
      BY <1>1
    <3>2. idx_file[DN + 1] # idx_file[wanted]
      BY <1>1, <1>3, <1>6
    <3> HIDE DEF s2
    <3>3. \A k \in DOMAIN idx_file :
            idx_file[k] <= idx_file[wanted] \/ idx_file[k] >= idx_file[DN + 1]
      BY <1>1, <1>2, <3>1, <3>2, SpanEnds
    <3>4. QED
      BY <1>3, <3>3
  <2>3. DN + 1 \in DOMAIN idx_file
    BY <1>2, IndexFacts
  <2>4. SpanIsDocument' /\ FirstIsFirst'
    <3>1. idx_file[wanted] = s1 /\ idx_file[DN + 1] = s2
      BY <1>1, <1>3
    <3>2. SpanIsDocument'
      BY <1>4, <2>b, <2>2, <2>3, <3>1 DEF SpanIsDocument
    <3>3. FirstIsFirst'
      BY <2>b DEF FirstIsFirst
    <3>4. QED
      BY <3>2, <3>3
  <2>5. QED
    BY <1>2, <1>3, <1>4, <2>a, <2>4 DEF IndexInv, SearchesFind, Searching
<1>7. QED
  BY <1>5, <1>6

LEMMA FetchInitialParagraphStep == IndexInv /\ FetchInitialParagraph => IndexInv'
<1> SUFFICES ASSUME IndexInv, FetchInitialParagraph PROVE IndexInv'
  OBVIOUS
<1>1. PICK n \in 1 .. Len(idx_file) - 1 :
        /\ LoadIdx(n) /\ s1' = Start(n) /\ wanted' = n /\ DN' = n - 1
  BY DEF FetchInitialParagraph, Paragraphs
<1>2. idx_file \in Indexes /\ Len(idx_file) \in Nat /\ n \in 1 .. Len(idx_file)
  BY IndexFacts DEF IndexInv
<1>3. PageRight(idx_file, current_pos', idx_data') /\ s1' = idx_file[n]
  BY <1>1, <1>2, LoadIdxRight DEF IndexInv, LoadIdx, Start
<1>4. idx_file' = idx_file /\ fetch' = "first" /\ answer' = <<>>
  BY DEF FetchInitialParagraph
<1>5. Searching(idx_file, n, n - 1, s1', <<>>, "first")
  BY <1>2, <1>3 DEF Searching
<1>6. QED
  BY <1>1, <1>2, <1>3, <1>4, <1>5 DEF IndexInv, SearchesFind, SpanIsDocument, FirstIsFirst

\* What lies before an entry with another place has another place too.
LEMMA FirstFound ==
  ASSUME NEW stored \in Indexes, NEW w \in 1 .. Len(stored) - 1, NEW n \in 1 .. w - 1,
         stored[n] # stored[w]
  PROVE  \A k \in 1 .. n : stored[k] # stored[w]
<1>1. /\ Len(stored) \in Nat
      /\ \A i, j \in 1 .. Len(stored) : i < j => stored[i] <= stored[j]
      /\ \A i \in 1 .. Len(stored) : stored[i] \in Nat
  BY IndexFacts
<1>2. QED
  BY <1>1

LEMMA PreviousStartStep == IndexInv /\ PreviousStart => IndexInv'
<1> SUFFICES ASSUME IndexInv, PreviousStart PROVE IndexInv'
  OBVIOUS
<1>1. /\ wanted \in 1 .. Len(idx_file) - 1 /\ DN \in 0 .. wanted - 1 /\ fetch = "first"
      /\ s1 = idx_file[wanted] /\ \A k \in DN + 1 .. wanted : idx_file[k] = s1
  BY DEF IndexInv, Searching, PreviousStart
<1>2. idx_file \in Indexes /\ Len(idx_file) \in Nat /\ DOMAIN idx_file = 1 .. Len(idx_file)
  BY IndexFacts DEF IndexInv
<1>3. idx_file' = idx_file /\ wanted' = wanted /\ s1' = s1
  BY DEF PreviousStart
<1>4. CASE DN = 0
  <2>1. answer' = <<1>> /\ fetch' = "idle" /\ current_pos' = current_pos /\ idx_data' = idx_data
    BY <1>4 DEF PreviousStart
  <2>2. SpanIsDocument' /\ FirstIsFirst'
    BY <1>1, <1>2, <1>3, <1>4, <2>1 DEF SpanIsDocument, FirstIsFirst
  <2>3. QED
    BY <1>2, <1>3, <2>1, <2>2 DEF IndexInv, SearchesFind, Searching
<1>5. CASE DN # 0
  <2>1. DN \in 1 .. Len(idx_file) /\ DN \in 1 .. wanted - 1
    BY <1>1, <1>2, <1>5
  <2>2. /\ LoadIdx(DN)
        /\ IF Start(DN) # s1 THEN answer' = <<DN + 1>> /\ fetch' = "idle" /\ DN' = DN
           ELSE DN' = DN - 1 /\ answer' = answer /\ fetch' = fetch
    BY <1>5 DEF PreviousStart
  <2>3. PageRight(idx_file, current_pos', idx_data') /\ Start(DN) = idx_file[DN]
    BY <1>2, <2>1, <2>2, LoadIdxRight DEF IndexInv, LoadIdx, Start
  <2>4. CASE Start(DN) # s1
    <3>1. \A k \in 1 .. DN : idx_file[k] # idx_file[wanted]
      BY <1>1, <1>2, <2>1, <2>3, <2>4, FirstFound
    <3>2. answer' = <<DN + 1>> /\ fetch' = "idle"
      BY <2>2, <2>4
    <3>a. Len(answer') = 1 /\ answer'[1] = DN + 1
      BY <3>2
    <3>b. DN + 1 \in DN + 1 .. wanted /\ DN + 1 \in DOMAIN idx_file /\ (DN + 1) - 1 = DN
      BY <1>1, <1>2, <2>1
    <3>c. SpanIsDocument'
      BY <3>a DEF SpanIsDocument
    <3>d. FirstIsFirst'
      BY <1>1, <1>3, <3>1, <3>a, <3>b DEF FirstIsFirst
    <3>3. SpanIsDocument' /\ FirstIsFirst'
      BY <3>c, <3>d
    <3>4. QED
      BY <1>2, <1>3, <2>3, <3>2, <3>3 DEF IndexInv, SearchesFind, Searching
  <2>5. CASE Start(DN) = s1
    <3>a. /\ DN - 1 \in 0 .. wanted - 1 /\ (DN - 1) + 1 = DN
          /\ \A k \in DN .. wanted : k = DN \/ k \in DN + 1 .. wanted
      BY <1>1, <1>2, <2>1
    <3>b. \A k \in (DN - 1) + 1 .. wanted : idx_file[k] = s1
      BY <1>1, <2>3, <2>5, <3>a
    <3>1. Searching(idx_file, wanted, DN - 1, s1, answer, "first")
      BY <1>1, <3>a, <3>b DEF Searching
    <3>2. QED
      BY <1>1, <1>2, <1>3, <2>2, <2>3, <2>5, <3>1
         DEF IndexInv, SearchesFind, SpanIsDocument, FirstIsFirst
  <2>6. QED
    BY <2>4, <2>5
<1>6. QED
  BY <1>4, <1>5

\* Whatever was looked for before, a search of the index gives the place
\* and length of the document, or its first paragraph.
THEOREM IndexCorrect == IndexSpec => []SearchesFind
<1>1. IndexInv /\ [IndexNext]_indexVars => IndexInv'
  <2>1. IndexInv /\ UNCHANGED indexVars => IndexInv'
    BY DEF indexVars, IndexInv, PageRight, Searching, SearchesFind, SpanIsDocument, FirstIsFirst
  <2>2. QED
    BY <2>1, FetchDocStartStep, NextStartStep, FetchInitialParagraphStep, PreviousStartStep
       DEF IndexNext
<1>2. IndexInv => SearchesFind
  BY DEF IndexInv
<1>3. QED
  BY <1>1, <1>2, IndexInitial, PTL DEF IndexSpec

-----------------------------------------------------------------------------
\* The store of records.

\* Where record n of the file, the window and the copy together is.
Held(copy, data, base, num, place, stored, n) ==
  IF place >= 0 /\ n = base + place THEN copy
  ELSE IF InWindow(base, num, n) THEN data[n - base] ELSE stored[n]

CacheTypes ==
  /\ isr \in States
  /\ isr_data \in [Window -> States]
  /\ isr_base \in EntryNumbers \cup {0}
  /\ \/ isr_num = -1 /\ isr_pos = -1
     \/ isr_num = ISR_CACHE /\ isr_pos \in Window /\ isr_base + isr_pos \in EntryNumbers
  /\ invf_state \in [Places -> States \cup {NoRecord}]
  /\ \E D \in SUBSET EntryNumbers : filled \in [D -> States]

CacheInv ==
  /\ CacheTypes
  /\ \A n \in DOMAIN filled :
       Held(isr, isr_data, isr_base, isr_num, isr_pos, invf_state, n) = filled[n]

LEMMA CacheInitial == CacheInit => CacheInv /\ Store!StoreInit
<1> SUFFICES ASSUME CacheInit PROVE CacheInv /\ Store!StoreInit
  OBVIOUS
<1>1. isr_data \in [Window -> States]
  BY DEF CacheInit
<1>2. filled \in [{} -> States] /\ DOMAIN filled = {}
  BY DEF CacheInit
<1>3. \E D \in SUBSET EntryNumbers : filled \in [D -> States]
  BY <1>2
<1>4. invf_state \in [Places -> States \cup {NoRecord}]
  BY DEF CacheInit
<1>5. CacheTypes
  BY <1>1, <1>3, <1>4 DEF CacheInit, CacheTypes
<1>6. QED
  BY <1>2, <1>5 DEF CacheInit, CacheInv, OpenRecord, Store!StoreInit

\* The window with the copy put back holds what the window and the copy
\* held together.
LEMMA CopyKept ==
  ASSUME CacheTypes
  PROVE  LET data == WindowWithCopy(isr_data, isr_pos, isr)
         IN /\ data \in [Window -> States]
            /\ \A n \in EntryNumbers : InWindow(isr_base, isr_num, n) =>
                 data[n - isr_base] = Held(isr, isr_data, isr_base, isr_num, isr_pos, invf_state, n)
<1> DEFINE data == WindowWithCopy(isr_data, isr_pos, isr)
<1>0. ISR_CACHE \in Nat /\ ISR_CACHE >= 1 /\ Entries \in Nat
  BY CacheAssumption
<1>1. data \in [Window -> States]
  BY DEF CacheTypes, WindowWithCopy
<1>2. ASSUME NEW n \in EntryNumbers, InWindow(isr_base, isr_num, n)
      PROVE  data[n - isr_base] = Held(isr, isr_data, isr_base, isr_num, isr_pos, invf_state, n)
  <2>1. isr_num = ISR_CACHE /\ isr_pos \in Window /\ isr_base \in Nat /\ n \in Nat
    BY <1>0, <1>2 DEF CacheTypes, InWindow, EntryNumbers, Window
  <2>2. n - isr_base \in Window
    BY <1>0, <1>2, <2>1 DEF InWindow, Window
  <2>3. isr_pos >= 0 /\ isr_pos \in Nat
    BY <1>0, <2>1 DEF Window
  <2>4. data = [isr_data EXCEPT ![isr_pos] = isr]
    BY <2>3 DEF WindowWithCopy
  <2>5. DOMAIN isr_data = Window
    BY DEF CacheTypes
  <2>6. CASE n = isr_base + isr_pos
    <3>1. n - isr_base = isr_pos
      BY <2>1, <2>3, <2>6
    <3> HIDE DEF data
    <3>2. QED
      BY <2>1, <2>3, <2>4, <2>5, <2>6, <3>1 DEF Held
  <2>7. CASE n # isr_base + isr_pos
    <3>1. n - isr_base # isr_pos
      BY <2>1, <2>3, <2>7
    <3> HIDE DEF data
    <3>2. data[n - isr_base] = isr_data[n - isr_base]
      BY <2>2, <2>4, <2>5, <3>1
    <3>3. QED
      BY <1>2, <2>7, <3>2 DEF Held
  <2>8. QED
    BY <2>6, <2>7
<1>3. QED
  BY <1>1, <1>2

\* Written back, the file alone holds it.
LEMMA FileKept ==
  ASSUME CacheTypes
  PROVE  LET data == WindowWithCopy(isr_data, isr_pos, isr)
             stored == WrittenBack(invf_state, isr_base, isr_num, data)
         IN /\ stored \in [Places -> States \cup {NoRecord}]
            /\ \A n \in EntryNumbers :
                 stored[n] = Held(isr, isr_data, isr_base, isr_num, isr_pos, invf_state, n)
<1> DEFINE data == WindowWithCopy(isr_data, isr_pos, isr)
           stored == WrittenBack(invf_state, isr_base, isr_num, data)
           Kept == /\ stored \in [Places -> States \cup {NoRecord}]
                   /\ \A n \in EntryNumbers :
                        stored[n] = Held(isr, isr_data, isr_base, isr_num, isr_pos, invf_state, n)
<1> SUFFICES Kept
  OBVIOUS
<1>0. /\ ISR_CACHE \in Nat /\ ISR_CACHE >= 1 /\ Entries \in Nat
      /\ EntryNumbers \subseteq Places /\ EntryNumbers \subseteq Nat
  BY CacheAssumption DEF EntryNumbers, Places
<1>1. /\ data \in [Window -> States]
      /\ \A n \in EntryNumbers : InWindow(isr_base, isr_num, n) =>
           data[n - isr_base] = Held(isr, isr_data, isr_base, isr_num, isr_pos, invf_state, n)
  BY CopyKept
<1> HIDE DEF data, Kept
<1>2. CASE isr_num = -1
  <2>1. stored = invf_state /\ isr_pos = -1 /\ isr_base \in Nat
    BY <1>0, <1>2 DEF CacheTypes, WrittenBack
  <2>2. \A n \in EntryNumbers : ~InWindow(isr_base, isr_num, n)
    BY <1>0, <1>2, <2>1 DEF InWindow
  <2>3. QED
    BY <2>1, <2>2 DEF CacheTypes, Held, Kept
<1>3. CASE isr_num = ISR_CACHE
  <2>1. /\ isr_pos \in Window /\ isr_base \in Nat /\ isr_pos \in Nat
        /\ isr_base + isr_pos \in EntryNumbers
    BY <1>0, <1>3 DEF CacheTypes, Window
  <2>2. InWindow(isr_base, isr_num, isr_base + isr_pos)
    BY <1>0, <1>3, <2>1 DEF InWindow, Window
  <2>3. stored = [p \in Places |-> IF InWindow(isr_base, isr_num, p) THEN data[p - isr_base]
                                ELSE invf_state[p]]
    BY <1>0, <1>3 DEF WrittenBack
  <2>4. \A p \in Places : InWindow(isr_base, isr_num, p) => p - isr_base \in Window
    BY <1>0, <1>3, <2>1 DEF InWindow, Window, Places
  <2>5. stored \in [Places -> States \cup {NoRecord}]
    BY <1>1, <2>3, <2>4 DEF CacheTypes
  <2>6. ASSUME NEW n \in EntryNumbers
        PROVE  stored[n] = Held(isr, isr_data, isr_base, isr_num, isr_pos, invf_state, n)
    <3>1. CASE InWindow(isr_base, isr_num, n)
      BY <1>0, <1>1, <2>3, <3>1
    <3>2. CASE ~InWindow(isr_base, isr_num, n)
      <4>1. n # isr_base + isr_pos
        BY <2>2, <3>2
      <4>2. QED
        BY <1>0, <2>3, <3>2, <4>1 DEF Held
    <3>3. QED
      BY <3>1, <3>2
  <2>7. QED
    BY <2>5, <2>6 DEF Kept
<1>4. QED
  BY <1>2, <1>3 DEF CacheTypes

LEMMA InCacheStep ==
  ASSUME CacheInv, NEW m \in EntryNumbers, in_cache(m)
  PROVE  CacheInv' /\ Store!Open(m)
<1> DEFINE data == WindowWithCopy(isr_data, isr_pos, isr)
           stored == WrittenBack(invf_state, isr_base, isr_num, data)
           new  == ReadWindow(stored, m, data)
           held(n) == Held(isr, isr_data, isr_base, isr_num, isr_pos, invf_state, n)
<1>0. /\ ISR_CACHE \in Nat /\ ISR_CACHE >= 1 /\ Entries \in Nat /\ NoRecord \notin States
      /\ EntryNumbers \subseteq Places /\ EntryNumbers \subseteq Nat /\ m \in Nat /\ 0 \in Window
      /\ \A p \in Places : p \in Nat
  BY CacheAssumption DEF EntryNumbers, Places, Window
<1>1. CacheTypes /\ \A n \in DOMAIN filled : held(n) = filled[n]
  BY DEF CacheInv
<1>2. /\ data \in [Window -> States]
      /\ \A n \in EntryNumbers : InWindow(isr_base, isr_num, n) => data[n - isr_base] = held(n)
  BY <1>1, CopyKept
<1>3. /\ stored \in [Places -> States \cup {NoRecord}]
      /\ \A n \in EntryNumbers : stored[n] = held(n)
  BY <1>1, FileKept
<1>4. \A n \in DOMAIN filled : n \in EntryNumbers /\ filled[n] \in States
  BY <1>1 DEF CacheTypes
<1>5. filled' = filled
  BY DEF in_cache
<1> HIDE DEF data, stored, held
<1>6. CASE InWindow(isr_base, isr_num, m)
  <2>1. /\ isr_data' = data /\ isr_pos' = m - isr_base /\ isr' = data[m - isr_base]
        /\ isr_base' = isr_base /\ isr_num' = isr_num /\ invf_state' = invf_state
    BY <1>6 DEF in_cache, data
  <2>2. isr_num = ISR_CACHE /\ isr_base \in Nat /\ m - isr_base \in Window
    BY <1>0, <1>1, <1>6 DEF CacheTypes, InWindow, Window
  <2>3. isr_base + (m - isr_base) = m /\ m - isr_base >= 0
    BY <1>0, <1>6, <2>2 DEF InWindow
  <2>4. CacheTypes'
    BY <1>1, <1>2, <1>5, <2>1, <2>2, <2>3 DEF CacheTypes
  <2>5. ASSUME NEW n \in DOMAIN filled
        PROVE  Held(data[m - isr_base], data, isr_base, isr_num, m - isr_base, invf_state, n) = filled[n]
    <3>1. CASE InWindow(isr_base, isr_num, n)
      <4>1. Held(data[m - isr_base], data, isr_base, isr_num, m - isr_base, invf_state, n)
              = data[n - isr_base]
        BY <2>3, <3>1 DEF Held
      <4>2. QED
        BY <1>1, <1>2, <1>4, <3>1, <4>1
    <3>2. CASE ~InWindow(isr_base, isr_num, n)
      <4>1. n # m
        BY <1>6, <3>2
      <4>2. Held(data[m - isr_base], data, isr_base, isr_num, m - isr_base, invf_state, n)
              = invf_state[n]
        BY <2>3, <3>2, <4>1 DEF Held
      <4>3. isr_pos \in Window /\ InWindow(isr_base, isr_num, isr_base + isr_pos)
        BY <1>0, <1>1, <2>2 DEF CacheTypes, InWindow, Window
      <4>4. n # isr_base + isr_pos
        BY <3>2, <4>3
      <4>5. held(n) = invf_state[n]
        BY <3>2, <4>4 DEF Held, held
      <4>6. QED
        BY <1>1, <4>2, <4>5
    <3>3. QED
      BY <3>1, <3>2
  <2>6. CacheInv'
    BY <1>5, <2>1, <2>4, <2>5 DEF CacheInv
  <2>7. m \in DOMAIN filled => isr' = filled[m]
    BY <1>1, <1>2, <1>6, <2>1
  <2>8. isr' \in States
    BY <1>2, <2>1, <2>2
  <2>9. OpenRecord' = m
    BY <2>1, <2>2, <2>3 DEF OpenRecord
  <2>10. QED
    BY <1>5, <2>6, <2>7, <2>8, <2>9 DEF Store!Open
<1>7. CASE ~InWindow(isr_base, isr_num, m)
  <2>1. /\ isr_data' = new /\ isr_pos' = 0 /\ isr' = new[0]
        /\ isr_base' = m /\ isr_num' = ISR_CACHE /\ invf_state' = stored
    BY <1>7 DEF in_cache, data, stored, new
  <2>2. new \in [Window -> States]
    BY <1>2, <1>3 DEF ReadWindow
  <2>3. m + 0 = m /\ m \in EntryNumbers
    BY <1>0
  <2>4. CacheTypes'
    BY <1>0, <1>1, <1>3, <1>5, <2>1, <2>2, <2>3 DEF CacheTypes
  <2>5. ASSUME NEW n \in DOMAIN filled, NEW w \in Window, n = m + w
        PROVE  new[w] = filled[n]
    <3>1. stored[n] = filled[n] /\ n \in Places /\ stored[n] # NoRecord
      BY <1>0, <1>1, <1>3, <1>4
    <3>2. QED
      BY <2>5, <3>1 DEF ReadWindow
  <2>6. ASSUME NEW n \in DOMAIN filled
        PROVE  Held(new[0], new, m, ISR_CACHE, 0, stored, n) = filled[n]
    <3>1. n \in Nat
      BY <1>0, <1>4
    <3>2. CASE n = m
      <4>1. Held(new[0], new, m, ISR_CACHE, 0, stored, n) = new[0]
        BY <2>3, <3>2 DEF Held
      <4>2. QED
        BY <1>0, <2>3, <2>5, <3>2, <4>1
    <3>3. CASE n # m /\ InWindow(m, ISR_CACHE, n)
      <4>1. Held(new[0], new, m, ISR_CACHE, 0, stored, n) = new[n - m]
        BY <2>3, <3>3 DEF Held
      <4>2. n - m \in Window /\ n = m + (n - m)
        BY <1>0, <3>1, <3>3 DEF InWindow, Window
      <4>3. QED
        BY <2>5, <4>1, <4>2
    <3>4. CASE ~InWindow(m, ISR_CACHE, n)
      <4>1. n # m
        BY <1>0, <3>4 DEF InWindow
      <4>2. Held(new[0], new, m, ISR_CACHE, 0, stored, n) = stored[n]
        BY <2>3, <3>4, <4>1 DEF Held
      <4>3. QED
        BY <1>1, <1>3, <1>4, <4>2
    <3>5. QED
      BY <3>2, <3>3, <3>4
  <2>7. CacheInv'
    BY <1>5, <2>1, <2>4, <2>6 DEF CacheInv
  <2>8. m \in DOMAIN filled => isr' = filled[m]
    BY <1>0, <2>1, <2>3, <2>5
  <2>9. isr' \in States
    BY <1>0, <2>1, <2>2
  <2>10. OpenRecord' = m
    BY <2>1, <2>3 DEF OpenRecord
  <2>11. QED
    BY <1>5, <2>7, <2>8, <2>9, <2>10 DEF Store!Open
<1>8. QED
  BY <1>6, <1>7

LEMMA AssignStep ==
  ASSUME CacheInv, NEW v \in States, Assign(v)
  PROVE  CacheInv' /\ Store!Fill(v)
<1> DEFINE m == isr_base + isr_pos
<1>0. /\ ISR_CACHE \in Nat /\ ISR_CACHE >= 1 /\ Entries \in Nat /\ EntryNumbers \subseteq Nat
  BY CacheAssumption DEF EntryNumbers
<1>1. CacheTypes
  BY DEF CacheInv
<1>2. isr_pos >= 0 /\ isr_pos \in Window /\ m \in EntryNumbers /\ OpenRecord = m
  <2>1. isr_pos >= 0
    BY DEF Assign
  <2>2. isr_num = ISR_CACHE /\ isr_pos \in Window /\ m \in EntryNumbers
    BY <1>1, <2>1 DEF CacheTypes
  <2>3. OpenRecord = m
    BY <1>0, <2>1, <2>2 DEF OpenRecord, Window
  <2>4. QED
    BY <2>1, <2>2, <2>3
<1>3. /\ isr' = v /\ isr_data' = isr_data /\ isr_base' = isr_base /\ isr_num' = isr_num
      /\ isr_pos' = isr_pos /\ invf_state' = invf_state
      /\ filled' = [n \in DOMAIN filled \cup {m} |-> IF n = m THEN v ELSE filled[n]]
  BY DEF Assign
<1> HIDE DEF m
<1>4. \E D \in SUBSET EntryNumbers : filled' \in [D -> States]
  <2>1. PICK D \in SUBSET EntryNumbers : filled \in [D -> States]
    BY <1>1 DEF CacheTypes
  <2>2. filled' \in [D \cup {m} -> States]
    BY <1>3, <2>1
  <2>3. D \cup {m} \in SUBSET EntryNumbers
    BY <1>2, <2>1
  <2>4. QED
    BY <2>2, <2>3
<1>5. CacheTypes'
  BY <1>1, <1>3, <1>4 DEF CacheTypes
<1>6. ASSUME NEW n \in DOMAIN filled'
      PROVE  Held(v, isr_data, isr_base, isr_num, isr_pos, invf_state, n) = filled'[n]
  <2>1. CASE n = m
    BY <1>2, <1>3, <2>1 DEF Held, m
  <2>2. CASE n # m
    <3>1. n \in DOMAIN filled /\ filled'[n] = filled[n]
      BY <1>3, <2>2
    <3>2. Held(v, isr_data, isr_base, isr_num, isr_pos, invf_state, n)
            = Held(isr, isr_data, isr_base, isr_num, isr_pos, invf_state, n)
      BY <2>2 DEF Held, m
    <3>3. QED
      BY <3>1, <3>2 DEF CacheInv
  <2>3. QED
    BY <2>1, <2>2
<1>7. CacheInv'
  BY <1>3, <1>5, <1>6 DEF CacheInv
<1>8. OpenRecord' = OpenRecord
  BY <1>3 DEF OpenRecord
<1>9. QED
  BY <1>2, <1>3, <1>7, <1>8 DEF Store!Fill

\* The cached records are a store of records.
THEOREM CacheImplementsStore == CacheSpec => CacheIsStore
<1>1. CacheInv /\ [CacheNext]_cacheVars => CacheInv' /\ [Store!StoreNext]_Store!storeVars
  <2> SUFFICES ASSUME CacheInv, [CacheNext]_cacheVars
               PROVE  CacheInv' /\ [Store!StoreNext]_Store!storeVars
    OBVIOUS
  <2>1. CASE UNCHANGED cacheVars
    BY <2>1 DEF cacheVars, CacheInv, CacheTypes, Store!storeVars, OpenRecord
  <2>2. CASE \E n \in EntryNumbers : in_cache(n)
    BY <2>2, InCacheStep DEF Store!StoreNext
  <2>3. CASE \E v \in States : Assign(v)
    BY <2>3, AssignStep DEF Store!StoreNext
  <2>4. QED
    BY <2>1, <2>2, <2>3 DEF CacheNext
<1>2. QED
  BY <1>1, CacheInitial, PTL DEF CacheSpec, CacheIsStore, Store!StoreSpec

-----------------------------------------------------------------------------
(***************************************************************************)
(* Compacting the inverted file.  The argument: invf_out never gets ahead  *)
(* of invf_in.  It starts no further than the first region, it advances    *)
(* one byte for each byte that is read, and going to the next region can   *)
(* only move invf_in forward, since no postings are longer than their      *)
(* region.  A byte at or after the output position is therefore as it      *)
(* was, and that covers all that is still to be read, whenever the         *)
(* buffers are filled or written.                                          *)
(***************************************************************************)

\* The furthest the output can be.
Behind == bytes_output <= IF word = 0 THEN FirstByte ELSE s

\* Where invf_in stands.
Reading ==
  /\ s \in Nat /\ e \in Nat /\ s <= e
  /\ word \in 0 .. NumWords
  /\ word = 0 => s = 0 /\ e = 0
  /\ word # 0 => e = EndByte(word)

\* The file and its two buffers: only bytes before the output position have
\* been, or will be, overwritten.
Bytes ==
  /\ 0 .. Size - 1 \subseteq DOMAIN file
  /\ DOMAIN file \subseteq Nat
  /\ DOMAIN pending \subseteq 0 .. bytes_output - 1
  /\ \A k \in DOMAIN file : k >= bytes_output => file[k] = k
  /\ \A k \in DOMAIN in_buf : in_buf[k] = k

IInv ==
  /\ layout \in Layouts
  /\ bytes_output \in Nat
  /\ pc = "copy" => Behind /\ Reading /\ Bytes

-----------------------------------------------------------------------------

\* What a layout says of one word.
LEMMA LayoutOf ==
  ASSUME layout \in Layouts, NEW w \in Words
  PROVE  /\ layout.start[w] \in Nat /\ layout.start[w + 1] \in Nat
         /\ EndByte(w) \in Nat
         /\ layout.start[w] <= EndByte(w)
         /\ EndByte(w) <= layout.start[w + 1]
<1>1. IsLayout(layout) /\ NumWords \in Nat
  BY CompactConstants
<1>2. w \in 1 .. NumWords + 1 /\ w + 1 \in 1 .. NumWords + 1
  BY <1>1 DEF Words
<1>3. layout.start[w] \in Nat /\ layout.start[w + 1] \in Nat
  BY <1>1, <1>2 DEF IsLayout
<1>4. layout.Disk_Ptr[w] \in Nat
  BY <1>1 DEF IsLayout
<1>5. 8 * layout.start[w] <= layout.Disk_Ptr[w] /\ layout.Disk_Ptr[w] <= 8 * layout.start[w + 1]
  BY <1>1 DEF IsLayout
<1>6. \A a, b, p \in Nat :
        8 * a <= p /\ p <= 8 * b =>
          (p + 7) \div 8 \in Nat /\ a <= (p + 7) \div 8 /\ (p + 7) \div 8 <= b
  OBVIOUS
<1>. QED BY <1>3, <1>4, <1>5, <1>6 DEF EndByte

LEMMA FirstRegion ==
  ASSUME layout \in Layouts
  PROVE  layout.start[1] = FirstByte /\ FirstByte \in Nat
BY CompactConstants DEF IsLayout

-----------------------------------------------------------------------------

LEMMA Initially == Init => IInv
<1>. SUFFICES ASSUME Init PROVE IInv
  OBVIOUS
<1>1. HeaderLen \in Nat /\ HeaderLen <= FirstByte /\ NumWords \in Nat
  BY CompactConstants
<1>2. Behind
  BY <1>1 DEF Init, Behind
<1>3. Reading
  BY <1>1 DEF Init, Reading
<1>4. Bytes
  BY <1>1 DEF Init, Bytes, NoBytes
<1>. QED BY <1>1, <1>2, <1>3, <1>4 DEF Init, IInv

LEMMA Step == IInv /\ [Next]_vars => IInv'
<1>. SUFFICES ASSUME IInv, [Next]_vars PROVE IInv'
  OBVIOUS
<1>. USE DEF IInv
<1>1. CASE NextWord
  <2>1. word + 1 \in Words /\ word \in Nat /\ NumWords \in Nat
    BY <1>1, CompactConstants DEF NextWord, Reading, Words
  <2>2. /\ layout.start[word + 1] \in Nat
        /\ EndByte(word + 1) \in Nat
        /\ layout.start[word + 1] <= EndByte(word + 1)
    BY <2>1, LayoutOf
  <2>3. bytes_output <= layout.start[word + 1]
    <3>1. CASE word = 0
      BY <3>1, <1>1, FirstRegion DEF NextWord, Behind
    <3>2. CASE word # 0
      <4>1. word \in Words
        BY <3>2, <2>1 DEF Words
      <4>2. EndByte(word) <= layout.start[word + 1] /\ EndByte(word) \in Nat
        BY <4>1, LayoutOf
      <4>. QED BY <3>2, <4>2, <2>2, <1>1 DEF NextWord, Behind, Reading
    <3>. QED BY <3>1, <3>2
  <2>4. Behind'
    BY <2>1, <2>3, <1>1 DEF NextWord, Behind
  <2>5. Reading'
    BY <2>1, <2>2, <1>1 DEF NextWord, Reading, EndByte, Words
  <2>6. Bytes'
    BY <1>1 DEF NextWord, Bytes, NoBytes, Size
  <2>. QED BY <2>4, <2>5, <2>6, <1>1 DEF NextWord
<1>2. CASE Refill
  <2>1. PICK n \in s + 1 .. Size : in_buf' = [k \in s .. n - 1 |-> file[k]]
    BY <1>2 DEF Refill
  <2>2. bytes_output <= s /\ s \in Nat
    BY <1>2 DEF Refill, Behind, Reading
  <2>3. ASSUME NEW k \in DOMAIN in_buf' PROVE in_buf'[k] = k
    <3>1. k \in s .. n - 1
      BY <2>1, <2>3
    <3>2. n \in Int /\ n <= Size /\ Size \in Int
      <4>1. Size \in Nat
        BY CompactConstants DEF IsLayout, Size
      <4>. QED BY <4>1, <2>2
    <3>3. k \in DOMAIN file /\ k >= bytes_output
      BY <3>1, <3>2, <2>2, <1>2 DEF Refill, Bytes
    <3>4. file[k] = k
      BY <3>3, <1>2 DEF Refill, Bytes
    <3>. QED BY <3>1, <3>4, <2>1
  <2>4. Bytes'
    BY <2>3, <1>2 DEF Refill, Bytes, Size
  <2>. QED BY <2>4, <1>2 DEF Refill, Behind, Reading, EndByte
<1>3. CASE CopyByte
  <2>1. s \in Nat /\ e \in Nat /\ s < e /\ word # 0 /\ bytes_output <= s
    BY <1>3 DEF CopyByte, Behind, Reading
  <2>2. Behind' /\ Reading'
    BY <2>1, <1>3 DEF CopyByte, Behind, Reading, EndByte
  <2>3. DOMAIN pending' = DOMAIN pending \cup {bytes_output}
    BY <1>3 DEF CopyByte, Overlay, Positions
  <2>4. /\ bytes_output' = bytes_output + 1
        /\ UNCHANGED <<file, in_buf, layout>>
        /\ Bytes
    BY <1>3 DEF CopyByte
  <2>5. DOMAIN pending' \subseteq 0 .. (bytes_output + 1) - 1
    BY <2>3, <2>4 DEF Bytes
  <2>6. \A k \in DOMAIN file : k >= bytes_output + 1 => file[k] = k
    BY <2>4 DEF Bytes
  <2>7. Bytes'
    BY <2>4, <2>5, <2>6 DEF Bytes, Size
  <2>. QED BY <2>1, <2>2, <2>7, <1>3 DEF CopyByte
<1>4. CASE Flush
  <2>1. /\ DOMAIN file' = DOMAIN file \cup DOMAIN pending
        /\ \A k \in DOMAIN file' :
             file'[k] = IF k \in DOMAIN pending THEN pending[k] ELSE file[k]
    BY <1>4 DEF Flush, Overlay, Positions
  <2>2. \A k \in DOMAIN file' : k >= bytes_output => k \in DOMAIN file /\ k \notin DOMAIN pending
    BY <2>1, <1>4 DEF Flush, Bytes
  <2>3. Bytes'
    BY <2>1, <2>2, <1>4 DEF Flush, Bytes, Size, NoBytes
  <2>. QED BY <2>3, <1>4 DEF Flush, Behind, Reading, EndByte
<1>5. CASE Truncate
  BY <1>5 DEF Truncate
<1>6. CASE Close
  BY <1>6 DEF Close
<1>7. CASE UNCHANGED vars
  BY <1>7 DEF vars, Behind, Reading, Bytes, Size, EndByte
<1>. QED BY <1>1, <1>2, <1>3, <1>4, <1>5, <1>6, <1>7 DEF Next

LEMMA Sufficient == IInv => UnreadIntact
<1>. SUFFICES ASSUME IInv, pc = "copy" PROVE
       /\ \A k \in DOMAIN file : k >= s /\ k >= FirstByte => file[k] = k
       /\ \A k \in Positions(in_buf) : in_buf[k] = k
  BY DEF UnreadIntact
<1>1. ASSUME NEW k \in DOMAIN file, k >= s, k >= FirstByte PROVE file[k] = k
  <2>1. k \in Nat /\ Behind /\ Reading /\ Bytes /\ FirstByte \in Nat
    BY <1>1, CompactConstants DEF IInv, Bytes
  <2>2. bytes_output <= k
    BY <1>1, <2>1 DEF IInv, Behind, Reading
  <2>. QED BY <2>1, <2>2, <1>1 DEF IInv, Bytes
<1>. QED BY <1>1 DEF IInv, Bytes, Positions

(***************************************************************************)
(* Compaction in place (done_ivf_2) never overwrites what it has to read.  *)
(***************************************************************************)
THEOREM NothingOverwritten == Spec => []UnreadIntact
<1>1. Init => IInv
  BY Initially
<1>2. IInv /\ [Next]_vars => IInv'
  BY Step
<1>3. IInv => UnreadIntact
  BY Sufficient
<1>. QED BY <1>1, <1>2, <1>3, PTL DEF Spec
-----------------------------------------------------------------------------

\* Byte k of the file once invf_out has written what it holds.
Out(k) == IF k \in DOMAIN pending THEN pending[k] ELSE file[k]

\* Byte k of the postings of w, as it should be in the end.
MovedByte(w, k) ==
  IF k = EndByte(w) - 1 /\ layout.Disk_Ptr[w] % 8 # 0 THEN -k ELSE k

\* How far word w has been copied.
CopiedTo(w) == IF w = word THEN s ELSE EndByte(w)

\* The offsets follow one another as the postings do.
OffsetsRight ==
  /\ DOMAIN offsets = 1 .. word /\ offsets \in Seq(Nat)
  /\ HeaderLen <= bytes_output
  /\ word = 0 => bytes_output = HeaderLen
  /\ word # 0 => /\ layout.start[word] <= s
                 /\ offsets[word] + (s - layout.start[word]) = bytes_output
  /\ \A w \in 1 .. word - 1 :
       offsets[w + 1] = offsets[w] + (EndByte(w) - layout.start[w])
  /\ \A w \in 1 .. word : HeaderLen <= offsets[w] /\ offsets[w] <= bytes_output

\* What has been given to invf_out is right, wherever it is now.
OutputRight ==
  /\ DOMAIN pending \subseteq 0 .. bytes_output - 1
  /\ 0 .. bytes_output - 1 \subseteq DOMAIN file \cup DOMAIN pending
  /\ \A k \in 0 .. HeaderLen - 1 : Out(k) = Header
  /\ \A w \in 1 .. word : \A k \in layout.start[w] .. CopiedTo(w) - 1 :
       Out(offsets[w] + (k - layout.start[w])) = MovedByte(w, k)

\* The file when it has been cut.
Cut ==
  /\ DOMAIN file = 0 .. bytes_output - 1
  /\ s = e /\ word = NumWords /\ e \in Nat
  /\ word # 0 => e = EndByte(word)

MovedInv ==
  /\ IInv
  /\ pc \in {"copy", "close", "done"}
  /\ pc \in {"copy", "close"} => OffsetsRight /\ OutputRight
  /\ pc = "close" => Cut
  /\ Compacted

LEMMA MovedInitially == Init => MovedInv
<1>. SUFFICES ASSUME Init PROVE MovedInv
  OBVIOUS
<1>1. IInv
  BY Initially
<1>2. HeaderLen \in Nat /\ NumWords \in Nat
  BY CompactConstants
<1>3. OffsetsRight
  BY <1>2 DEF Init, OffsetsRight
<1>4. OutputRight
  BY <1>2 DEF Init, OutputRight, Out
<1>. QED BY <1>1, <1>3, <1>4 DEF Init, MovedInv, Compacted

\* Each offset lies in the part of the file that has been given out, and so
\* does all that is copied behind it.
GivenOut(w, k) ==
  /\ offsets[w] + (k - layout.start[w]) \in Nat
  /\ offsets[w] + (k - layout.start[w]) < bytes_output

LEMMA Below ==
  ASSUME IInv, OffsetsRight, word \in 0 .. NumWords, s \in Nat,
         word # 0 => s <= EndByte(word)
  PROVE  \A w \in 1 .. word : \A k \in layout.start[w] .. CopiedTo(w) - 1 :
           GivenOut(w, k)
<1>. SUFFICES ASSUME NEW w \in 1 .. word, NEW k \in layout.start[w] .. CopiedTo(w) - 1
              PROVE  /\ offsets[w] + (k - layout.start[w]) \in Nat
                     /\ offsets[w] + (k - layout.start[w]) < bytes_output
  BY DEF GivenOut
<1>1. w \in Words /\ NumWords \in Nat /\ word \in Nat
  BY CompactConstants DEF Words
<1>2. layout.start[w] \in Nat /\ EndByte(w) \in Nat /\ bytes_output \in Nat
  BY <1>1, LayoutOf DEF IInv
<1>3. offsets[w] \in Nat
  BY DEF OffsetsRight
<1>4. CASE w = word
  <2>1. CopiedTo(w) = s /\ word # 0
    BY <1>1, <1>4 DEF CopiedTo
  <2>2. offsets[w] + (s - layout.start[w]) = bytes_output
    BY <2>1, <1>4 DEF OffsetsRight
  <2>. QED BY <1>2, <1>3, <2>1, <2>2
<1>5. CASE w # word
  <2>1. w \in 1 .. word - 1 /\ w + 1 \in 1 .. word
    BY <1>1, <1>5
  <2>2. offsets[w + 1] = offsets[w] + (EndByte(w) - layout.start[w])
    BY <2>1 DEF OffsetsRight
  <2>3. offsets[w + 1] <= bytes_output /\ offsets[w + 1] \in Nat
    BY <2>1 DEF OffsetsRight
  <2>4. CopiedTo(w) = EndByte(w)
    BY <1>5 DEF CopiedTo
  <2>. QED BY <1>2, <1>3, <2>2, <2>3, <2>4
<1>. QED BY <1>4, <1>5

LEMMA MovedStep == MovedInv /\ [Next]_vars => MovedInv'
<1>. SUFFICES ASSUME MovedInv, [Next]_vars PROVE MovedInv'
  OBVIOUS
<1>0. IInv' /\ IInv
  BY Step DEF MovedInv
<1>a. NumWords \in Nat /\ HeaderLen \in Nat /\ HeaderLen > 0 /\ bytes_output \in Nat
  BY <1>0, CompactConstants DEF IInv
<1>1. CASE NextWord
  <2>1. /\ Reading /\ OffsetsRight /\ OutputRight
        /\ word + 1 \in Words /\ word \in Nat /\ word + 1 # 0
        /\ UNCHANGED <<layout, file, pending, bytes_output>>
        /\ word' = word + 1 /\ s' = layout.start[word + 1] /\ s = e
    BY <1>0, <1>1, <1>a DEF NextWord, IInv, Reading, MovedInv, Words
  <2>2. layout.start[word + 1] \in Nat /\ EndByte(word + 1) \in Nat
    BY <1>0, <2>1, LayoutOf DEF IInv
  <2>3. /\ offsets' = Append(offsets, bytes_output)
        /\ offsets \in Seq(Nat) /\ Len(offsets) = word
    BY <1>1, <2>1 DEF NextWord, OffsetsRight
  <2>4. /\ offsets' \in Seq(Nat) /\ DOMAIN offsets' = 1 .. word + 1
        /\ offsets'[word + 1] = bytes_output
        /\ \A w \in 1 .. word : offsets'[w] = offsets[w]
    BY <2>1, <2>3, <1>a
  <2>5. ASSUME word # 0
        PROVE  bytes_output = offsets[word] + (EndByte(word) - layout.start[word])
    BY <2>1, <2>5 DEF OffsetsRight, Reading
  <2>6. OffsetsRight'
    <3>1. ASSUME NEW w \in 1 .. word
          PROVE  offsets'[w + 1] = offsets'[w] + (EndByte(w) - layout.start[w])
      <4>1. CASE w = word
        BY <4>1, <2>1, <2>4, <2>5
      <4>2. CASE w # word
        <5>1. w \in 1 .. word - 1 /\ w + 1 \in 1 .. word
          BY <2>1, <4>2
        <5>. QED BY <5>1, <2>1, <2>4 DEF OffsetsRight
      <4>. QED BY <4>1, <4>2
    <3>2. ASSUME NEW w \in 1 .. word + 1
          PROVE  HeaderLen <= offsets'[w] /\ offsets'[w] <= bytes_output
      <4>1. CASE w = word + 1
        BY <4>1, <2>1, <2>4, <1>a DEF OffsetsRight
      <4>2. CASE w # word + 1
        <5>1. w \in 1 .. word
          BY <4>2, <2>1
        <5>. QED BY <5>1, <2>1, <2>4 DEF OffsetsRight
      <4>. QED BY <4>1, <4>2
    <3>3. EndByte(1)' = EndByte(1) /\ \A w : EndByte(w)' = EndByte(w)
      BY <2>1 DEF EndByte
    <3>4. offsets'[word + 1] + (s' - layout.start[word + 1]) = bytes_output
      BY <2>1, <2>2, <2>4, <1>a
    <3>. QED BY <2>1, <2>2, <2>4, <3>1, <3>2, <3>3, <3>4 DEF OffsetsRight
  <2>7. OutputRight'
    <3>1. ASSUME NEW w \in 1 .. word + 1, NEW k \in layout.start[w] .. CopiedTo(w)' - 1
          PROVE  Out(offsets'[w] + (k - layout.start[w])) = MovedByte(w, k)
      <4>1. w # word + 1
        BY <2>1, <2>2 DEF CopiedTo
      <4>2. w \in 1 .. word
        BY <4>1, <2>1
      <4>3. CopiedTo(w)' = EndByte(w) /\ CopiedTo(w) = EndByte(w)
        BY <4>1, <4>2, <2>1 DEF CopiedTo, EndByte, Reading
      <4>. QED BY <4>2, <4>3, <2>1, <2>4 DEF OutputRight
    <3>. QED BY <3>1, <2>1 DEF OutputRight, Out, MovedByte, EndByte
  <2>. QED BY <1>0, <1>1, <2>6, <2>7 DEF NextWord, MovedInv, Compacted
<1>2. CASE Refill
  <2>1. OffsetsRight' /\ OutputRight'
    BY <1>2 DEF Refill, MovedInv, OffsetsRight, OutputRight, Out, CopiedTo, MovedByte, EndByte
  <2>. QED BY <1>0, <1>2, <2>1 DEF Refill, MovedInv, Compacted
<1>3. CASE CopyByte
  <2>1. /\ Reading /\ OffsetsRight /\ OutputRight
        /\ UNCHANGED <<layout, file, word, e, offsets>>
        /\ s' = s + 1 /\ bytes_output' = bytes_output + 1
        /\ s \in Nat /\ e \in Nat /\ s < e /\ word \in Words /\ e = EndByte(word)
    BY <1>0, <1>3, <1>a DEF CopyByte, IInv, Reading, MovedInv, Words
  <2>2. layout.start[word] \in Nat /\ offsets[word] \in Nat /\ word \in 1 .. word
    <3>1. word \in DOMAIN offsets
      BY <2>1, <1>a DEF OffsetsRight, Words
    <3>. QED BY <1>0, <2>1, <3>1, LayoutOf DEF IInv, OffsetsRight
  <2>3. layout.start[word] <= s /\ offsets[word] + (s - layout.start[word]) = bytes_output
    BY <2>1, <1>a DEF OffsetsRight, Words
  <2>4. OffsetsRight'
    <3>1. offsets \in Seq(Nat) /\ DOMAIN offsets = 1 .. word
      BY <2>1 DEF OffsetsRight
    <3>2. ASSUME NEW w \in 1 .. word PROVE offsets[w] \in Nat
      <4>1. w \in DOMAIN offsets
        BY <3>1
      <4>2. DOMAIN offsets = 1 .. Len(offsets)
        BY <3>1
      <4>. QED BY <4>1, <4>2, <3>1
    <3>3. \A w \in 1 .. word : HeaderLen <= offsets[w] /\ offsets[w] <= bytes_output + 1
      BY <2>1, <3>2, <1>a DEF OffsetsRight
    <3>4. \A w \in 1 .. word - 1 :
            offsets[w + 1] = offsets[w] + (EndByte(w)' - layout.start[w])
      BY <2>1 DEF OffsetsRight, EndByte
    <3>5. HeaderLen <= bytes_output + 1
      BY <2>1, <1>a DEF OffsetsRight
    <3>6. word # 0
      BY <2>1, <1>a DEF Words
    <3>7. layout.start[word] <= s + 1
      BY <2>1, <2>2, <2>3
    <3>8. offsets[word] + ((s + 1) - layout.start[word]) = bytes_output + 1
      BY <2>1, <2>2, <2>3, <1>a
    <3>. QED BY <2>1, <3>1, <3>3, <3>4, <3>5, <3>6, <3>7, <3>8 DEF OffsetsRight
  <2>5. in_buf[s] = s
    BY <1>0, <1>3 DEF CopyByte, IInv, Bytes, Positions
  <2>6. /\ DOMAIN pending' = DOMAIN pending \cup {bytes_output}
        /\ pending'[bytes_output] = Cleaned(s)
        /\ \A k \in DOMAIN pending : k # bytes_output => pending'[k] = pending[k]
    BY <1>3, <2>5 DEF CopyByte, Overlay, Positions
  <2>7. \A k : k # bytes_output => Out(k)' = Out(k)
    BY <2>1, <2>6 DEF Out
  <2>8. \A k : k = bytes_output => Out(k)' = MovedByte(word, s)
    BY <2>1, <2>6 DEF Out, Cleaned, MovedByte
  <2>9. OutputRight'
    <3>1. /\ DOMAIN pending' \subseteq 0 .. (bytes_output + 1) - 1
          /\ 0 .. (bytes_output + 1) - 1 \subseteq DOMAIN file \cup DOMAIN pending'
      BY <2>1, <2>6, <1>a DEF OutputRight
    <3>2. \A k \in 0 .. HeaderLen - 1 : Out(k)' = Header
      BY <2>1, <2>7, <1>a DEF OutputRight, OffsetsRight
    <3>3. ASSUME NEW w \in 1 .. word, NEW k \in layout.start[w] .. CopiedTo(w)' - 1
          PROVE  Out(offsets[w] + (k - layout.start[w]))' = MovedByte(w, k)
      <4>1. CASE w = word /\ k = s
        BY <4>1, <2>1, <2>3, <2>8
      <4>2. CASE ~(w = word /\ k = s)
        <5>1. k \in layout.start[w] .. CopiedTo(w) - 1
          <6>1. CASE w = word
            <7>1. CopiedTo(w)' = s + 1 /\ CopiedTo(w) = s
              BY <6>1, <2>1 DEF CopiedTo
            <7>. QED BY <7>1, <6>1, <4>2, <2>1, <2>2
          <6>2. CASE w # word
            BY <6>2, <2>1 DEF CopiedTo, EndByte
          <6>. QED BY <6>1, <6>2
        <5>2. /\ offsets[w] + (k - layout.start[w]) \in Nat
              /\ offsets[w] + (k - layout.start[w]) < bytes_output
          <6>1. word \in 0 .. NumWords /\ (word # 0 => s <= EndByte(word))
            BY <2>1 DEF Words
          <6>2. GivenOut(w, k)
            BY <1>0, <2>1, <5>1, <6>1, Below
          <6>. QED BY <6>2 DEF GivenOut
        <5>3. Out(offsets[w] + (k - layout.start[w])) = MovedByte(w, k)
          BY <5>1, <2>1 DEF OutputRight
        <5>. QED BY <5>2, <5>3, <2>1, <2>7, <1>a
      <4>. QED BY <4>1, <4>2
    <3>4. Out(0)' = Out(0)' /\ \A w, k : MovedByte(w, k)' = MovedByte(w, k)
      BY <2>1 DEF MovedByte, EndByte
    <3>. QED BY <3>1, <3>2, <3>3, <3>4, <2>1 DEF OutputRight
  <2>. QED BY <1>0, <1>3, <2>4, <2>9 DEF CopyByte, MovedInv, Compacted
<1>4. CASE Flush
  <2>1. /\ OffsetsRight /\ OutputRight
        /\ UNCHANGED <<layout, word, s, e, bytes_output, offsets, pc>>
        /\ DOMAIN file' = DOMAIN file \cup DOMAIN pending
        /\ \A k \in DOMAIN file' :
             file'[k] = IF k \in DOMAIN pending THEN pending[k] ELSE file[k]
        /\ DOMAIN pending' = {}
    BY <1>4 DEF Flush, MovedInv, Overlay, Positions, NoBytes
  <2>2. OffsetsRight'
    BY <2>1 DEF OffsetsRight, EndByte
  <2>3. \A k \in 0 .. bytes_output - 1 : Out(k)' = Out(k)
    BY <2>1 DEF Out, OutputRight
  <2>4. \A w, k : MovedByte(w, k)' = MovedByte(w, k) /\ CopiedTo(w)' = CopiedTo(w)
    BY <2>1 DEF MovedByte, CopiedTo, EndByte
  <2>5. ASSUME NEW w \in 1 .. word, NEW k \in layout.start[w] .. CopiedTo(w) - 1
        PROVE  Out(offsets[w] + (k - layout.start[w]))' = MovedByte(w, k)
    <3>1. Reading
      BY <1>0, <1>4 DEF Flush, IInv
    <3>2. /\ offsets[w] + (k - layout.start[w]) \in Nat
          /\ offsets[w] + (k - layout.start[w]) < bytes_output
      <4>1. word \in 0 .. NumWords /\ s \in Nat /\ (word # 0 => s <= EndByte(word))
        BY <3>1 DEF Reading
      <4>2. GivenOut(w, k)
        BY <1>0, <2>1, <4>1, Below
      <4>. QED BY <4>2 DEF GivenOut
    <3>3. offsets[w] + (k - layout.start[w]) \in 0 .. bytes_output - 1
      BY <3>2, <1>a
    <3>4. Out(offsets[w] + (k - layout.start[w])) = MovedByte(w, k)
      BY <2>1 DEF OutputRight
    <3>. QED BY <3>3, <3>4, <2>1, <2>3
  <2>6. \A k \in 0 .. HeaderLen - 1 : Out(k)' = Header
    BY <2>1, <2>3, <1>a DEF OutputRight, OffsetsRight
  <2>7. OutputRight'
    BY <2>1, <2>4, <2>5, <2>6 DEF OutputRight
  <2>. QED BY <1>0, <1>4, <2>2, <2>7 DEF Flush, MovedInv, Compacted
<1>5. CASE Truncate
  <2>1. /\ OffsetsRight /\ OutputRight /\ Reading /\ s = e /\ word = NumWords
        /\ UNCHANGED <<layout, word, s, e, bytes_output, offsets, pending>>
        /\ pc' = "close"
        /\ DOMAIN file' = 0 .. bytes_output - 1
        /\ \A k \in 0 .. bytes_output - 1 : k \in DOMAIN file => file'[k] = file[k]
    BY <1>0, <1>5 DEF Truncate, MovedInv, IInv
  <2>2. OffsetsRight'
    BY <2>1 DEF OffsetsRight, EndByte
  <2>3. \A k \in 0 .. bytes_output - 1 : Out(k)' = Out(k)
    BY <2>1 DEF Out, OutputRight
  <2>4. \A w, k : MovedByte(w, k)' = MovedByte(w, k) /\ CopiedTo(w)' = CopiedTo(w)
    BY <2>1 DEF MovedByte, CopiedTo, EndByte
  <2>5. ASSUME NEW w \in 1 .. word, NEW k \in layout.start[w] .. CopiedTo(w) - 1
        PROVE  Out(offsets[w] + (k - layout.start[w]))' = MovedByte(w, k)
    <3>2. /\ offsets[w] + (k - layout.start[w]) \in Nat
          /\ offsets[w] + (k - layout.start[w]) < bytes_output
      <4>1. word \in 0 .. NumWords /\ s \in Nat /\ (word # 0 => s <= EndByte(word))
        BY <2>1 DEF Reading
      <4>2. GivenOut(w, k)
        BY <1>0, <2>1, <4>1, Below
      <4>. QED BY <4>2 DEF GivenOut
    <3>3. offsets[w] + (k - layout.start[w]) \in 0 .. bytes_output - 1
      BY <3>2, <1>a
    <3>4. Out(offsets[w] + (k - layout.start[w])) = MovedByte(w, k)
      BY <2>1 DEF OutputRight
    <3>. QED BY <3>3, <3>4, <2>1, <2>3
  <2>6. \A k \in 0 .. HeaderLen - 1 : Out(k)' = Header
    BY <2>1, <2>3, <1>a DEF OutputRight, OffsetsRight
  <2>7. OutputRight'
    BY <2>1, <2>4, <2>5, <2>6 DEF OutputRight
  <2>8. Cut'
    BY <2>1 DEF Cut, Reading, EndByte
  <2>. QED BY <1>0, <2>1, <2>2, <2>7, <2>8 DEF MovedInv, Compacted
<1>6. CASE Close
  <2>1. /\ OffsetsRight /\ OutputRight /\ Cut
        /\ UNCHANGED <<layout, word, bytes_output>>
        /\ pc' = "done"
        /\ offsets' = Append(offsets, bytes_output)
        /\ DOMAIN file' = DOMAIN file \cup DOMAIN pending
        /\ \A k \in DOMAIN file' : file'[k] = Out(k)
    BY <1>6 DEF Close, MovedInv, Overlay, Positions, Out
  <2>2. DOMAIN file' = 0 .. bytes_output - 1
    BY <2>1 DEF Cut, OutputRight
  <2>3. offsets \in Seq(Nat) /\ Len(offsets) = NumWords /\ word = NumWords
    BY <2>1, <1>a DEF OffsetsRight, Cut
  <2>4. /\ Len(offsets') = NumWords + 1 /\ offsets'[NumWords + 1] = bytes_output
        /\ \A w \in 1 .. NumWords : offsets'[w] = offsets[w] /\ offsets[w] \in Nat
    BY <2>1, <2>3, <1>a
  <2>5. \A k \in 0 .. HeaderLen - 1 : file'[k] = Header
    BY <2>1, <2>2, <1>a DEF OutputRight, OffsetsRight
  <2>6. ASSUME NEW w \in Words
        PROVE  Moved(w) = [i \in 1 .. offsets'[w + 1] - offsets'[w] |->
                             file'[offsets'[w] + i - 1]]
    <3>1. w \in 1 .. word /\ NumWords # 0 /\ word \in 0 .. NumWords /\ word # 0
      BY <2>3, <1>a DEF Words
    <3>2. layout.start[w] \in Nat /\ EndByte(w) \in Nat
      BY <1>0, LayoutOf DEF IInv
    <3>3. CopiedTo(w) = EndByte(w)
      BY <2>1, <3>1 DEF CopiedTo, Cut
    <3>4. offsets'[w + 1] - offsets'[w] = EndByte(w) - layout.start[w]
      <4>1. CASE w = word
        <5>1. offsets'[w + 1] = bytes_output
          BY <4>1, <2>3, <2>4
        <5>2. offsets[w] + (EndByte(w) - layout.start[w]) = bytes_output
          BY <4>1, <2>1, <3>1, <3>3 DEF OffsetsRight, CopiedTo
        <5>3. offsets'[w] = offsets[w] /\ offsets[w] \in Nat
          BY <2>3, <2>4, <3>1
        <5>. QED BY ONLY <5>1, <5>2, <5>3, <3>2
      <4>2. CASE w # word
        <5>1. w \in 1 .. word - 1 /\ w + 1 \in 1 .. NumWords /\ w \in 1 .. NumWords
          BY <4>2, <2>3, <3>1, <1>a
        <5>2. offsets[w + 1] = offsets[w] + (EndByte(w) - layout.start[w])
          BY <5>1, <2>1 DEF OffsetsRight
        <5>3. /\ offsets'[w + 1] = offsets[w + 1] /\ offsets'[w] = offsets[w]
              /\ offsets[w] \in Nat
          BY <5>1, <2>4
        <5>. QED BY <5>2, <5>3, <3>2
      <4>. QED BY <4>1, <4>2
    <3>5. ASSUME NEW i \in 1 .. EndByte(w) - layout.start[w]
          PROVE  file'[offsets'[w] + i - 1] = MovedByte(w, layout.start[w] + i - 1)
      <4>1. layout.start[w] + i - 1 \in layout.start[w] .. CopiedTo(w) - 1
        BY <3>2, <3>3
      <4>2. /\ offsets[w] + ((layout.start[w] + i - 1) - layout.start[w]) \in Nat
            /\ offsets[w] + ((layout.start[w] + i - 1) - layout.start[w]) < bytes_output
        <5>1. word # 0 => s <= EndByte(word)
          BY <2>1, <3>1 DEF Cut
        <5>2. s \in Nat
          BY <2>1 DEF Cut
        <5>3. GivenOut(w, layout.start[w] + i - 1)
          BY <1>0, <2>1, <3>1, <4>1, <5>1, <5>2, Below
        <5>. QED BY <5>3 DEF GivenOut
      <4>3. Out(offsets[w] + ((layout.start[w] + i - 1) - layout.start[w]))
              = MovedByte(w, layout.start[w] + i - 1)
        BY <2>1, <3>1, <4>1 DEF OutputRight
      <4>4. offsets'[w] + i - 1 = offsets[w] + ((layout.start[w] + i - 1) - layout.start[w])
        BY <2>3, <2>4, <3>1, <3>2
      <4>5. offsets'[w] + i - 1 \in DOMAIN file'
        BY <4>2, <4>4, <2>2, <1>a
      <4>. QED BY <4>3, <4>4, <4>5, <2>1
    <3>. QED BY <3>4, <3>5 DEF Moved, MovedByte
  <2>7. \A w \in Words : Moved(w)' = Moved(w)
    BY <2>1 DEF Moved, EndByte
  <2>8. Compacted'
    BY <2>1, <2>2, <2>4, <2>5, <2>6, <2>7 DEF Compacted
  <2>. QED BY <1>0, <2>1, <2>8 DEF MovedInv
<1>7. CASE UNCHANGED vars
  <2>1. UNCHANGED <<layout, file, word, s, e, pending, bytes_output, offsets, pc>>
    BY <1>7 DEF vars
  <2>2. (OffsetsRight' <=> OffsetsRight) /\ (OutputRight' <=> OutputRight) /\ (Cut' <=> Cut)
    BY <2>1 DEF OffsetsRight, OutputRight, Out, CopiedTo, MovedByte, EndByte, Cut
  <2>3. Compacted'
    BY <2>1 DEF MovedInv, Compacted, Moved, EndByte
  <2>. QED BY <1>0, <2>1, <2>2, <2>3 DEF MovedInv
<1>. QED BY <1>1, <1>2, <1>3, <1>4, <1>5, <1>6, <1>7 DEF Next

(***************************************************************************)
(* The compacted file (done_ivf_2): every word's postings are where        *)
(* invf_idx says, whole and cleaned, and the reserved space is gone.       *)
(***************************************************************************)
THEOREM FileCompacted == Spec => []Compacted
<1>1. Init => MovedInv
  BY MovedInitially
<1>2. MovedInv /\ [Next]_vars => MovedInv'
  BY MovedStep
<1>3. MovedInv => Compacted
  BY DEF MovedInv
<1>. QED BY <1>1, <1>2, <1>3, PTL DEF Spec

-----------------------------------------------------------------------------
(***************************************************************************)
(* Numbers in a stream of bits.                                            *)
(***************************************************************************)

\* The codes stand in the stream one after the other, the n-th up to at[n].
Laid(codes, whole, at) ==
  /\ at \in [0 .. Len(codes) -> Nat \ {0}]
  /\ at[0] = 1 /\ at[Len(codes)] = Len(whole) + 1
  /\ \A n \in 1 .. Len(codes) : /\ Stands(Encoded(codes[n]), whole, at[n - 1])
                                /\ at[n] = at[n - 1] + Length(codes[n])

\* What was written is laid out, and the numbers up to pos have been read.
StreamInv ==
  /\ items \in Seq(Codes) /\ stream \in Seq({0, 1}) /\ count = Len(stream)
  /\ got \in Seq(Nat) /\ Len(got) <= Len(items)
  /\ \A n \in 1 .. Len(got) : got[n] = items[n].x
  /\ \E at : Laid(items, stream, at) /\ pos = at[Len(got)]

\* A number is read back from its code wherever the code stands.
LEMMA CodeIsRead ==
  ASSUME NEW c \in Codes
  PROVE  /\ c.x \in Nat \ {0}
         /\ Encoded(c) \in Seq({0, 1}) /\ Len(Encoded(c)) = Length(c) /\ Length(c) \in Nat
         /\ \A whole, from : Stands(Encoded(c), whole, from) =>
              Reads(Decoded(c, whole, from), c.x, from, Length(c))
<1>1. /\ c.x \in Nat \ {0} /\ c.b \in Nat \ {0}
      /\ c.code \in {"unary", "gamma", "delta", "binary", "bblock"}
      /\ c.code = "binary" => c.x \in 1 .. c.b
  BY StreamAssumption DEF Codes
<1>2. CASE c.code = "unary"
  <2>1. Encoded(c) = Unary(c.x) /\ Length(c) = UnaryLength(c.x)
        /\ \A whole, from : Decoded(c, whole, from) = UnaryDecode(whole, from)
    BY <1>2 DEF Encoded, Length, Decoded
  <2>. QED BY <1>1, <2>1, UnaryIsRead
<1>3. CASE c.code = "gamma"
  <2>1. Encoded(c) = Gamma(c.x) /\ Length(c) = GammaLength(c.x)
        /\ \A whole, from : Decoded(c, whole, from) = GammaDecode(whole, from)
    BY <1>3 DEF Encoded, Length, Decoded
  <2>. QED BY <1>1, <2>1, GammaIsRead
<1>4. CASE c.code = "delta"
  <2>1. Encoded(c) = Delta(c.x) /\ Length(c) = DeltaLength(c.x)
        /\ \A whole, from : Decoded(c, whole, from) = DeltaDecode(whole, from)
    BY <1>4 DEF Encoded, Length, Decoded
  <2>. QED BY <1>1, <2>1, DeltaIsRead
<1>5. CASE c.code = "binary"
  <2>1. Encoded(c) = Binary(c.x, c.b) /\ Length(c) = BinaryBits(c.x, c.b)
        /\ \A whole, from : Decoded(c, whole, from) = BinaryDecode(whole, from, c.b)
    BY <1>5 DEF Encoded, Length, Decoded
  <2>. QED BY <1>1, <1>5, <2>1, BinaryIsRead
<1>6. CASE c.code = "bblock"
  <2>1. Encoded(c) = Bblock(c.x, c.b) /\ Length(c) = BblockLength(c.x, c.b)
        /\ \A whole, from : Decoded(c, whole, from) = BblockDecode(whole, from, c.b)
    BY <1>6 DEF Encoded, Length, Decoded
  <2>2. Bblock(c.x, c.b) \in Seq({0, 1}) /\ Len(Bblock(c.x, c.b)) = BblockLength(c.x, c.b)
        /\ BblockLength(c.x, c.b) \in Nat
        /\ \A whole, from : Stands(Bblock(c.x, c.b), whole, from)
              => Reads(BblockDecode(whole, from, c.b), c.x, from, BblockLength(c.x, c.b))
    BY <1>1, BblockIsRead
  <2>. QED BY <1>1, <2>1, <2>2
<1>. QED BY <1>1, <1>2, <1>3, <1>4, <1>5, <1>6

LEMMA StreamInitial == StreamInit => StreamInv
<1>. SUFFICES ASSUME StreamInit PROVE StreamInv
  OBVIOUS
<1>1. /\ items \in Seq(Codes) /\ stream \in Seq({0, 1}) /\ got \in Seq(Nat)
      /\ Len(items) = 0 /\ Len(stream) = 0 /\ Len(got) = 0 /\ count = 0 /\ pos = 1
  BY DEF StreamInit
<1>. DEFINE at == [n \in 0 .. 0 |-> 1]
<1>2. at \in [0 .. 0 -> Nat \ {0}] /\ at[0] = 1
  OBVIOUS
<1>3. Laid(items, stream, at)
  BY <1>1, <1>2 DEF Laid
<1>. QED BY <1>1, <1>2, <1>3 DEF StreamInv

LEMMA EncodeStep == StreamInv /\ Encode => StreamInv'
<1>. SUFFICES ASSUME StreamInv, Encode PROVE StreamInv'
  OBVIOUS
<1>1. PICK c \in Codes : /\ items' = Append(items, c) /\ stream' = stream \o Encoded(c)
                         /\ count' = count + Length(c)
  BY DEF Encode
<1>2. got = <<>> /\ got' = <<>> /\ pos' = pos
  BY DEF Encode
<1>3. /\ Encoded(c) \in Seq({0, 1}) /\ Len(Encoded(c)) = Length(c) /\ Length(c) \in Nat
  BY CodeIsRead
<1>4. PICK old : Laid(items, stream, old) /\ pos = old[Len(got)]
  BY DEF StreamInv
<1>5. PICK N \in Nat : N = Len(items)
  BY DEF StreamInv
<1>6. /\ items \in Seq(Codes) /\ stream \in Seq({0, 1})
      /\ items' \in Seq(Codes) /\ Len(items') = N + 1 /\ items'[N + 1] = c
      /\ \A n \in 1 .. N : items'[n] = items[n]
  BY <1>1, <1>5 DEF StreamInv
<1>7. stream' \in Seq({0, 1}) /\ Len(stream') = Len(stream) + Length(c) /\ Len(stream) \in Nat
  BY <1>1, <1>3, <1>6
<1>8. /\ old \in [0 .. N -> Nat \ {0}] /\ old[0] = 1 /\ old[N] = Len(stream) + 1
      /\ \A n \in 1 .. N : /\ Stands(Encoded(items[n]), stream, old[n - 1])
                           /\ old[n] = old[n - 1] + Length(items[n])
  BY <1>4, <1>5 DEF Laid
<1>. DEFINE at == [n \in 0 .. N + 1 |-> IF n = N + 1 THEN Len(stream') + 1 ELSE old[n]]
<1>9. /\ at \in [0 .. N + 1 -> Nat \ {0}] /\ at[0] = 1 /\ at[N + 1] = Len(stream') + 1
      /\ \A n \in 0 .. N : at[n] = old[n]
  BY <1>7, <1>8
<1>. HIDE DEF at
<1>10. ASSUME NEW n \in 1 .. N + 1
       PROVE  /\ Stands(Encoded(items'[n]), stream', at[n - 1])
              /\ at[n] = at[n - 1] + Length(items'[n])
  <2>1. CASE n = N + 1
    <3>1. n - 1 = N /\ at[n - 1] = Len(stream) + 1 /\ at[n] = Len(stream') + 1
      BY <1>8, <1>9, <2>1
    <3>2. items'[n] = c
      BY <1>6, <2>1
    <3>3. Stands(Encoded(c), stream', Len(stream) + 1)
      BY <1>1, <1>3, <1>6, StandsAtEnd
    <3>. QED BY <1>3, <1>7, <3>1, <3>2, <3>3
  <2>2. CASE n # N + 1
    <3>1. n \in 1 .. N /\ n - 1 \in 0 .. N /\ n \in 0 .. N
      BY <2>2
    <3>2. at[n - 1] = old[n - 1] /\ at[n] = old[n] /\ items'[n] = items[n]
      BY <1>6, <1>9, <3>1
    <3>3. Stands(Encoded(items[n]), stream, old[n - 1]) /\ old[n] = old[n - 1] + Length(items[n])
      BY <1>8, <3>1
    <3>4. Stands(Encoded(items[n]), stream', old[n - 1])
      BY <1>1, <1>3, <3>3, StandsInLonger
    <3>. QED BY <3>2, <3>3, <3>4
  <2>. QED BY <2>1, <2>2
<1>11. Laid(items', stream', at)
  BY <1>6, <1>9, <1>10 DEF Laid
<1>12. Len(got) = 0 /\ Len(got') = 0 /\ got' \in Seq(Nat)
  BY <1>2
<1>13. pos' = at[Len(got')]
  BY <1>2, <1>4, <1>8, <1>9, <1>12
<1>14. count' = Len(stream')
  BY <1>1, <1>7 DEF StreamInv
<1>15. \E a : Laid(items', stream', a) /\ pos' = a[Len(got')]
  BY <1>11, <1>13
<1>16. Len(got') <= Len(items') /\ \A n \in 1 .. Len(got') : got'[n] = items'[n].x
  BY <1>6, <1>12
<1>. QED BY <1>6, <1>7, <1>12, <1>14, <1>15, <1>16 DEF StreamInv

LEMMA DecodeStep == StreamInv /\ Decode => StreamInv'
<1>. SUFFICES ASSUME StreamInv, Decode PROVE StreamInv'
  OBVIOUS
<1>1. PICK N \in Nat : N = Len(got) + 1 /\ Len(got) \in Nat /\ N \in 1 .. Len(items)
  <2>1. Len(got) \in Nat /\ Len(items) \in Nat /\ Len(got) < Len(items)
    BY DEF StreamInv, Decode
  <2>. QED BY <2>1
<1>2. PICK c \in Codes : c = items[N]
  BY <1>1 DEF StreamInv
<1>3. /\ got' = Append(got, Decoded(c, stream, pos).x) /\ pos' = Decoded(c, stream, pos).pos
      /\ items' = items /\ stream' = stream /\ count' = count
  BY <1>1, <1>2 DEF Decode
<1>4. PICK at : Laid(items, stream, at) /\ pos = at[N - 1]
  BY <1>1 DEF StreamInv
<1>5. Stands(Encoded(c), stream, pos) /\ at[N] = pos + Length(c)
  BY <1>1, <1>2, <1>4 DEF Laid
<1>6. Decoded(c, stream, pos).x = c.x /\ Decoded(c, stream, pos).pos = at[N] /\ c.x \in Nat
  BY <1>5, CodeIsRead DEF Reads
<1>7. /\ got' \in Seq(Nat) /\ Len(got') = N /\ got'[N] = c.x
      /\ \A n \in 1 .. N - 1 : got'[n] = got[n]
  BY <1>1, <1>3, <1>6 DEF StreamInv
<1>8. ASSUME NEW n \in 1 .. N PROVE got'[n] = items[n].x
  <2>1. CASE n = N
    BY <1>2, <1>7, <2>1
  <2>2. CASE n # N
    <3>1. n \in 1 .. N - 1 /\ n \in 1 .. Len(got)
      BY <1>1, <2>2
    <3>. QED BY <1>7, <3>1 DEF StreamInv
  <2>. QED BY <2>1, <2>2
<1>9. \E a : Laid(items', stream', a) /\ pos' = a[Len(got')]
  BY <1>3, <1>4, <1>6, <1>7
<1>10. Len(got') <= Len(items') /\ \A n \in 1 .. Len(got') : got'[n] = items'[n].x
  BY <1>1, <1>3, <1>7, <1>8
<1>. QED BY <1>3, <1>7, <1>9, <1>10 DEF StreamInv

\* Numbers written in any mix of the codes of bitio_m.h come back in order,
\* the last one at the last bit, and the lengths the *_Length functions give
\* are those of the codes, for numbers, block sizes and streams of any size.
THEOREM AllCodesReadBack == StreamSpec => []CodesReadBack
<1>1. StreamInit => StreamInv
  BY StreamInitial
<1>2. StreamInv /\ [StreamNext]_streamVars => StreamInv'
  <2>. SUFFICES ASSUME StreamInv, [StreamNext]_streamVars PROVE StreamInv'
    OBVIOUS
  <2>1. CASE Encode
    BY <2>1, EncodeStep
  <2>2. CASE Decode
    BY <2>2, DecodeStep
  <2>3. CASE UNCHANGED streamVars
    BY <2>3 DEF streamVars, StreamInv
  <2>. QED BY <2>1, <2>2, <2>3 DEF StreamNext
<1>3. StreamInv => CodesReadBack
  <2>. SUFFICES ASSUME StreamInv PROVE CodesReadBack
    OBVIOUS
  <2>1. PICK at : Laid(items, stream, at) /\ pos = at[Len(got)]
    BY DEF StreamInv
  <2>2. Len(got) = Len(items) => pos = Len(stream) + 1
    BY <2>1 DEF Laid
  <2>. QED BY <2>2 DEF StreamInv, CodesReadBack, RoundTrip, LengthsAgree
<1>. QED BY <1>1, <1>2, <1>3, PTL DEF StreamSpec

-----------------------------------------------------------------------------
(***************************************************************************)
(* The arithmetic decoder.                                                 *)
(***************************************************************************)

\* Division.

(***************************************************************************)
(* The heart of the coder: whether the target reaches bound is what the    *)
(* place of the value in an interval of R numbers says of the part of it   *)
(* that lies below bound.                                                  *)
(***************************************************************************)
LEMMA TargetReaches ==
  ASSUME NEW R \in Nat \ {0}, NEW totl \in Nat \ {0}, NEW v \in Nat, NEW bound \in Nat
  PROVE  ((v + 1) * totl - 1) \div R >= bound <=> (R * bound) \div totl <= v
<1>1. (v + 1) * totl \in Int /\ bound * R \in Int /\ R * bound = bound * R
  OBVIOUS
<1>2. ((v + 1) * totl - 1) \div R >= bound <=> (v + 1) * totl - 1 >= bound * R
  BY <1>1, QuotientReaches
<1>3. (R * bound) \div totl >= v + 1 <=> R * bound >= (v + 1) * totl
  BY <1>1, QuotientReaches
<1>4. (R * bound) \div totl \in Int
  BY <1>1
<1>. QED BY <1>1, <1>2, <1>3, <1>4

(***************************************************************************)
(* A part of an interval lies in it.                                       *)
(***************************************************************************)
LEMMA PartInside ==
  ASSUME NEW R \in Nat, NEW totl \in Nat \ {0}, NEW bound \in 0 .. totl
  PROVE  (R * bound) \div totl \in 0 .. R
<1>1. R * bound \in Int /\ bound \in Nat /\ R * bound >= 0 * totl
  OBVIOUS
<1>2. (R * bound) \div totl \in Int
  BY <1>1
<1>3. (R * bound) \div totl >= 0
  BY <1>1, QuotientReaches
<1>4. ~((R * bound) \div totl >= R + 1)
  <2>1. PICK k \in Nat : totl = bound + k
    <3>1. totl - bound \in Nat /\ totl = bound + (totl - bound)
      OBVIOUS
    <3>. QED BY <3>1
  <2>2. (R + 1) * totl = R * bound + R * k + totl
    BY <2>1
  <2>3. R * k \in Nat /\ totl > 0
    BY <2>1
  <2>4. ~(R * bound >= (R + 1) * totl)
    BY <1>1, <2>2, <2>3
  <2>. QED BY <1>1, <2>4, QuotientReaches
<1>. QED BY <1>2, <1>3, <1>4

-----------------------------------------------------------------------------
\* The invariant: the value lies in the interval, and the loop of the decoder
\* has another turn to go exactly if the interval is not settled.

Sizes ==
  /\ firstqtr \in Nat \ {0}
  /\ topvalue = 4 * firstqtr - 1 /\ half = 2 * firstqtr /\ thirdqtr = 3 * firstqtr
  /\ \A totl \in Totals : totl \in 1 .. firstqtr

DecoderInv ==
  /\ S_low \in Int /\ S_high \in Int /\ S_value \in Int
  /\ ValueInside
  /\ scaling \in BOOLEAN
  /\ scaling <=> ~Settled(S_low, S_high)

LEMMA SizesRight == Sizes
<1>1. firstqtr \in Nat \ {0} /\ topvalue = 4 * firstqtr - 1
      /\ maxfrequency = firstqtr + 1 /\ Totals \subseteq 1 .. maxfrequency - 1
  BY CodeAssumption
<1>2. half = 2 * firstqtr /\ thirdqtr = 3 * firstqtr
  BY DEF half, thirdqtr
<1>3. \A totl \in Totals : totl \in 1 .. firstqtr
  BY <1>1
<1>. QED BY <1>1, <1>2, <1>3 DEF Sizes

(***************************************************************************)
(* A settled interval holds more than a quarter of all values.             *)
(***************************************************************************)
LEMMA SettledIsWide ==
  ASSUME NEW low \in Int, NEW high \in Int, Settled(low, high), Sizes
  PROVE  Span(low, high) \in Nat /\ Span(low, high) > firstqtr + 1
BY DEF Settled, Span, Sizes

(***************************************************************************)
(* In an interval that is wide enough the target belongs to the symbol     *)
(* whose part holds the value, and to no other.                            *)
(***************************************************************************)
LEMMA TargetBelongs ==
  ASSUME NEW low \in Int, NEW high \in Int, NEW value \in low .. high,
         NEW totl \in Nat \ {0}
  PROVE  /\ Target(low, high, value, totl) \in 0 .. totl - 1
         /\ \A hbnd \in 1 .. totl : \A lbnd \in 0 .. hbnd - 1 :
              Target(low, high, value, totl) \in lbnd .. hbnd - 1
                <=> /\ LowFor(low, high, lbnd, totl) <= value
                    /\ value <= HighFor(low, high, hbnd, totl)
<1>. DEFINE R == Span(low, high)
            v == value - low
            t == Target(low, high, value, totl)
<1>1. R \in Nat \ {0} /\ v \in 0 .. R - 1 /\ v \in Nat
  BY DEF Span
<1>2. t = ((v + 1) * totl - 1) \div R
  BY DEF Target
<1>3. (v + 1) * totl - 1 \in Int /\ t \in Int
  BY <1>1, <1>2
<1>4. ASSUME NEW bound \in Nat
      PROVE  /\ (R * bound) \div totl \in Int
             /\ t >= bound <=> (R * bound) \div totl <= v
  <2>1. R * bound \in Int
    BY <1>1
  <2>. QED BY <1>1, <1>2, <2>1, TargetReaches
<1>5. t \in 0 .. totl - 1
  <2>1. (R * 0) \div totl = 0
    <3>1. R * 0 = 0
      BY <1>1
    <3>2. 0 \div totl = 0
      BY PartInside, 0 \in Nat, 0 \in 0 .. totl, 0 * 0 = 0
    <3>. QED BY <3>1, <3>2
  <2>2. (R * totl) \div totl >= R
    BY <1>1, QuotientReaches
  <2>3. t >= 0
    BY <1>1, <1>4, <2>1
  <2>4. ~(t >= totl)
    BY <1>1, <1>4, <2>2
  <2>. QED BY <1>3, <2>3, <2>4
<1>6. ASSUME NEW hbnd \in 1 .. totl, NEW lbnd \in 0 .. hbnd - 1
      PROVE  t \in lbnd .. hbnd - 1
               <=> /\ LowFor(low, high, lbnd, totl) <= value
                   /\ value <= HighFor(low, high, hbnd, totl)
  <2>1. lbnd \in Nat /\ hbnd \in Nat
    OBVIOUS
  <2>2. t >= lbnd <=> (R * lbnd) \div totl <= v
    BY <1>4, <2>1
  <2>3. t >= hbnd <=> (R * hbnd) \div totl <= v
    BY <1>4, <2>1
  <2>4. (R * lbnd) \div totl \in Int /\ (R * hbnd) \div totl \in Int
    BY <1>4, <2>1
  <2>5. LowFor(low, high, lbnd, totl) = low + ((R * lbnd) \div totl)
    BY DEF LowFor
  <2>6. HighFor(low, high, hbnd, totl) = low + ((R * hbnd) \div totl) - 1
    BY DEF HighFor
  <2>7. LowFor(low, high, lbnd, totl) <= value <=> t >= lbnd
    BY <2>2, <2>4, <2>5
  <2>8. value <= HighFor(low, high, hbnd, totl) <=> ~(t >= hbnd)
    BY <2>3, <2>4, <2>6
  <2>. QED BY <1>3, <2>1, <2>7, <2>8
<1>. QED BY <1>5, <1>6

-----------------------------------------------------------------------------
\* The steps.

LEMMA InvAtInit == ArithInit => DecoderInv
<1>. SUFFICES ASSUME ArithInit PROVE DecoderInv
  OBVIOUS
<1>1. S_low = 0 /\ S_high = topvalue /\ S_value \in 0 .. topvalue
  BY DEF ArithInit
<1>2. S_low \in Int /\ S_high \in Int /\ S_value \in Int /\ ValueInside
      /\ Settled(S_low, S_high)
  BY <1>1, SizesRight DEF ValueInside, Settled, Sizes
<1>3. scaling \in BOOLEAN /\ ~scaling
  BY Zenon DEF ArithInit
<1>. QED BY <1>2, <1>3, Zenon DEF DecoderInv

LEMMA DecodeKeeps ==
  ASSUME DecoderInv, NEW totl \in Totals, NEW hbnd \in 1 .. totl,
         NEW lbnd \in 0 .. hbnd - 1, DecodeSymbol(lbnd, hbnd, totl)
  PROVE  DecoderInv'
<1>. DEFINE R == Span(S_low, S_high)
<1>1. S_low \in Int /\ S_high \in Int /\ S_value \in S_low .. S_high
      /\ 0 <= S_low /\ S_high <= topvalue
  BY DEF DecoderInv, ValueInside
<1>2. R \in Nat /\ totl \in Nat \ {0} /\ lbnd \in 0 .. totl /\ hbnd \in 0 .. totl
  BY <1>1, SizesRight DEF Span, Sizes
<1>3. LowFor(S_low, S_high, lbnd, totl) <= S_value
      /\ S_value <= HighFor(S_low, S_high, hbnd, totl)
  BY <1>1, <1>2, TargetBelongs DEF DecodeSymbol
<1>4. (R * lbnd) \div totl \in 0 .. R /\ (R * hbnd) \div totl \in 0 .. R
  BY <1>2, PartInside
<1>5. S_low' = S_low + ((R * lbnd) \div totl) /\ S_high' = S_low + ((R * hbnd) \div totl) - 1
      /\ S_value' = S_value
  BY DEF DecodeSymbol, LowFor, HighFor
<1>6. S_low' <= S_value /\ S_value <= S_high'
  BY <1>3 DEF DecodeSymbol
<1>7. S_low' \in Int /\ S_high' \in Int /\ S_low <= S_low' /\ S_high' <= S_high
  BY <1>1, <1>2, <1>4, <1>5 DEF Span
<1>8. ValueInside' /\ S_value' \in Int
  BY <1>1, <1>5, <1>6, <1>7, SizesRight DEF ValueInside, Sizes
<1>9. scaling' = ~Settled(S_low', S_high')
  BY DEF DecodeSymbol
<1>10. scaling' \in BOOLEAN /\ (scaling' <=> ~Settled(S_low, S_high)')
  BY <1>9, Zenon DEF Settled
<1>. QED BY <1>7, <1>8, <1>10, Zenon DEF DecoderInv

LEMMA TurnKeeps ==
  ASSUME DecoderInv, NEW bit \in {0, 1}, Turn(bit)
  PROVE  DecoderInv'
<1>1. S_low \in Int /\ S_high \in Int /\ S_value \in Int
      /\ S_low <= S_value /\ S_value <= S_high /\ 0 <= S_low /\ S_high <= topvalue
      /\ ~Settled(S_low, S_high)
  BY Zenon DEF DecoderInv, ValueInside, Turn
<1>2. PICK base \in Int : base = Base(S_low, S_high)
  BY SizesRight DEF Base, Sizes
<1>3. S_low' = 2 * (S_low - base) /\ S_high' = 2 * (S_high - base) + 1
      /\ S_value' = 2 * (S_value - base) + bit
  BY <1>2 DEF Turn
<1>4. base <= S_low /\ 2 * (S_high - base) + 1 <= topvalue
  BY <1>1, <1>2, SizesRight DEF Base, Settled, Sizes
<1>5. ValueInside' /\ S_low' \in Int /\ S_high' \in Int /\ S_value' \in Int
  BY <1>1, <1>2, <1>3, <1>4, SizesRight DEF ValueInside, Sizes
<1>6. scaling' = ~Settled(S_low', S_high')
  BY DEF Turn
<1>7. scaling' \in BOOLEAN /\ (scaling' <=> ~Settled(S_low, S_high)')
  BY <1>6, Zenon DEF Settled
<1>. QED BY <1>5, <1>7, Zenon DEF DecoderInv

LEMMA InvKept == DecoderInv /\ [ArithNext]_arithVars => DecoderInv'
<1>. SUFFICES ASSUME DecoderInv, [ArithNext]_arithVars PROVE DecoderInv'
  OBVIOUS
<1>1. ASSUME NEW totl \in Totals, NEW hbnd \in 1 .. totl, NEW lbnd \in 0 .. hbnd - 1,
             DecodeSymbol(lbnd, hbnd, totl)
      PROVE  DecoderInv'
  BY <1>1, DecodeKeeps
<1>2. ASSUME NEW bit \in {0, 1}, Turn(bit) PROVE DecoderInv'
  BY <1>2, TurnKeeps
<1>3. CASE UNCHANGED arithVars
  BY <1>3 DEF arithVars, DecoderInv, ValueInside, Settled
<1>. QED BY <1>1, <1>2, <1>3 DEF ArithNext

LEMMA InvSuffices == DecoderInv => DecoderRight
<1>. SUFFICES ASSUME DecoderInv PROVE DecoderRight
  OBVIOUS
<1>1. S_low \in Int /\ S_high \in Int /\ S_value \in S_low .. S_high
  BY DEF DecoderInv, ValueInside
<1>2. WideEnough
  BY <1>1, SizesRight, SettledIsWide DEF WideEnough, DecoderInv
<1>3. ASSUME NEW totl \in Totals PROVE totl \in Nat \ {0}
  BY SizesRight DEF Sizes
<1>4. TargetsRight
  BY <1>1, <1>3, TargetBelongs DEF TargetsRight
<1>. QED BY <1>2, <1>4 DEF DecoderRight, DecoderInv

(***************************************************************************)
(* Whatever bits arithmetic_decode reads, its value stays inside its       *)
(* interval, and the symbol it finds for the target is the one that has    *)
(* the value's part of the interval (arithcode.c).                         *)
(***************************************************************************)
THEOREM DecodesWhatWasCoded == ArithSpec => []DecoderRight
<1>1. ArithSpec => []DecoderInv
  BY InvAtInit, InvKept, PTL DEF ArithSpec
<1>. QED BY <1>1, InvSuffices, PTL
=============================================================================
