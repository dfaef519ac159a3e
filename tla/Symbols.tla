------------------------------- MODULE Symbols -------------------------------
(***************************************************************************)
(* The symbols of a textual image and where they stand: the event coder    *)
(* of ppm.c, lstevent.c and codesyms.c (contexts of up to FIXEDORDER       *)
(* events, counts by moving to the front, exclusion), and the offsets of   *)
(* codeoffsets.c with the lists of marklist.c.                             *)
(*                                                                         *)
(* Both programs keep a model and work in step: what one call of           *)
(* arithmetic_encode writes, <<lbnd, hbnd, totl>>, the other program gets  *)
(* as some target in lbnd .. hbnd - 1, as long as it asks with the same    *)
(* totl and answers with the same call (ArithCode).                        *)
(***************************************************************************)
EXTENDS Integers, Sequences, FiniteSets
LOCAL INSTANCE SequencesExt

CONSTANTS
  FIXEDORDER,           \* the length of the longest context, 3
  increment, halveat,   \* what an event adds to a count, and how many are kept
  maxnodes,             \* the nodes there is room for
  PPM_CHUNK,            \* the symbols of a string
  Charset,              \* the least size of the character set
  MaxSymbols,           \* the symbols of the longest image
  SymbolValues,         \* the symbols
  OffsetLists,          \* the symbols to code offsets for
  OffsetValues,         \* the offsets
  maxlevel              \* maxfrequency

ASSUME SymbolsAssumption ==
  /\ {FIXEDORDER, increment, halveat, PPM_CHUNK} \subseteq Nat \ {0}
  /\ maxnodes \in Nat /\ maxnodes > 2 * (FIXEDORDER + 1)
  /\ OffsetLists \subseteq Seq(Nat)
  /\ \A list \in OffsetLists : \A n \in DOMAIN list : list[n] < Len(list)

VARIABLES
  sending,   \* what happens now
  nsyms,     \* how many symbols there are
  symbols,   \* the symbols written, or to write offsets for
  received,  \* the symbols read
  j,         \* how many symbols the string at work has so far
  reader,    \* the same for the reader, or whether it has come to the end
  out_model, in_model,     \* the events of the writer and of the reader
  places, placed,          \* the offsets written and read
  out_levels, in_levels    \* the offsets of the writer and of the reader

symbolVars ==
  <<sending, nsyms, symbols, received, j, reader, out_model, in_model,
    places, placed, out_levels, in_levels>>

Sum(s) == FoldLeft(+, 0, s)

-----------------------------------------------------------------------------

(***************************************************************************)
(* Events.  A model is its nodes, the context that is current and the      *)
(* events excluded.  A node stands for an event in a context and is, with  *)
(* the list of the nodes that followed it, a context of its own; prev is   *)
(* the same with the context shortened by one.                             *)
(***************************************************************************)

Node(e, prev) ==
  [eventnum |-> e, count |-> increment, prev |-> prev,
   totalcnt |-> 0, notfound |-> 0, list |-> <<>>]

\* start_model: a context of every order, the first one for no events at all.
NewModel ==
  [E |-> [n \in 1 .. FIXEDORDER + 1 |-> Node(0, n - 1)],
   S |-> FIXEDORDER + 1, excluded |-> {}]

Events(m, list) == {m.E[list[n]].eventnum : n \in DOMAIN list}

\* The nodes of a context that are not excluded; the longest context does not ask.
Open(m, U, order) ==
  IF order = FIXEDORDER THEN m.E[U].list
  ELSE SelectSeq(m.E[U].list, LAMBDA n : m.E[n].eventnum \notin m.excluded)
Counts(m, list) == Sum([n \in DOMAIN list |-> m.E[list[n]].count])

\* encode_event_noex and decode_event_noex trust the total that is kept.
Totl(m, U, order) ==
  IF order = FIXEDORDER THEN m.E[U].totalcnt
  ELSE Counts(m, Open(m, U, order)) + m.E[U].notfound

\* The place of an event among the open nodes, 0 if it is not there.
Find(m, U, order, e) ==
  LET open == Open(m, U, order)
  IN IF \E n \in DOMAIN open : m.E[open[n]].eventnum = e
     THEN CHOOSE n \in DOMAIN open : m.E[open[n]].eventnum = e ELSE 0

\* What is coded for a node, and for none of them.
Part(m, U, order, n) ==
  LET open == Open(m, U, order)
      lbnd == Counts(m, SubSeq(open, 1, n - 1))
  IN <<lbnd, lbnd + m.E[open[n]].count, Totl(m, U, order)>>
Escape(m, U, order) ==
  <<Totl(m, U, order) - m.E[U].notfound, Totl(m, U, order), Totl(m, U, order)>>

\* Nothing is coded if there is nothing to tell apart.
Silent(m, U, order) ==
  m.E[U].list = <<>> \/ Totl(m, U, order) = m.E[U].notfound

\* halveallcounts.
Halved(m, U) ==
  [m EXCEPT !.E = [n \in DOMAIN @ |->
     IF n \in Range(m.E[U].list) THEN [@[n] EXCEPT !.count = (@ + 1) \div 2]
     ELSE IF n = U
     THEN [@[n] EXCEPT
             !.notfound = (@ + 1) \div 2,
             !.totalcnt = ((m.E[U].notfound + 1) \div 2)
                + Sum([k \in DOMAIN m.E[U].list |-> (m.E[m.E[U].list[k]].count + 1) \div 2])]
     ELSE @[n]]]

MaybeHalved(m, U) ==
  IF m.E[U].totalcnt > increment * halveat THEN Halved(m, U) ELSE m

\* The event was found: its count grows and it moves to the front.
Hit(m, U, node) ==
  MaybeHalved(
    [m EXCEPT !.E[node].count = @ + increment,
              !.E[U].totalcnt = @ + increment,
              !.E[U].list = <<node>> \o SelectSeq(@, LAMBDA x : x # node)], U)

\* It was not: GETNEWNODE and INSERTNODE.  The counts of a first event are not
\* halved.
Miss(m, U, e) ==
  LET grown == [m EXCEPT !.E = Append(
                  [@ EXCEPT ![U].notfound = @ + increment,
                            ![U].totalcnt = @ + 2 * increment,
                            ![U].list = <<Len(m.E) + 1>> \o @],
                  Node(e, 0))]
  IN IF m.E[U].list = <<>> THEN grown ELSE MaybeHalved(grown, U)

\* Mutant: the node inserted last is excluded as well.
ExcludedAll(m, U) == Events(m, m.E[U].list)

\* SET_EX and CLEAR_EX, which both leave out the node inserted last.
Excluded(m, U) == Events(m, Tail(m.E[U].list))

\* A walk from the longest context to shorter ones: the context to look at
\* next and its order, the one that set the last exclusions, and the nodes found
\* or inserted so far.
Walk(m) ==
  [m |-> m, U |-> m.S, order |-> FIXEDORDER, Sex |-> 0, t |-> <<>>,
   hit |-> FALSE, calls |-> <<>>]

Found(w, n) ==
  LET node == Open(w.m, w.U, w.order)[n]
  IN [w EXCEPT !.m = Hit(w.m, w.U, node), !.hit = TRUE, !.t = Append(@, node),
               !.calls = Append(@, Part(w.m, w.U, w.order, n))]

\* On to the shorter context, where the events known here are out of the
\* question.
Missed(w, e) ==
  LET m == Miss(w.m, w.U, e)
  IN [w EXCEPT !.m = IF w.order = 0 THEN m
                     ELSE [m EXCEPT !.excluded = @ \cup Excluded(m, w.U)],
               !.Sex = IF w.order = 0 THEN @ ELSE w.U,
               !.t = Append(@, Len(m.E)), !.order = @ - 1, !.U = m.E[w.U].prev,
               !.calls = IF Silent(w.m, w.U, w.order) THEN @
                         ELSE Append(@, Escape(w.m, w.U, w.order))]

\* encode_event_noex and encode_event.
EncodeStep(w, e) ==
  IF w.hit \/ w.order < 0 THEN w
  ELSE LET n == Find(w.m, w.U, w.order, e) IN IF n > 0 THEN Found(w, n) ELSE Missed(w, e)

\* The target the reader gets, of which the writer's call leaves two ends open.
TargetOf(calls, n, high) ==
  IF n \notin DOMAIN calls THEN 0 ELSE IF high THEN calls[n][2] - 1 ELSE calls[n][1]

\* decode_event_noex and decode_event; the event of a new node comes later.
DecodeStep(w, calls, high) ==
  IF w.hit \/ w.order < 0 THEN w
  ELSE LET target == TargetOf(calls, Len(w.calls) + 1, high)
           below  == {n \in DOMAIN Open(w.m, w.U, w.order) :
                        target < Part(w.m, w.U, w.order, n)[2]}
       IN IF Silent(w.m, w.U, w.order) \/ below = {}
             \/ target >= Escape(w.m, w.U, w.order)[1]
          THEN Missed(w, 0)
          ELSE Found(w, CHOOSE n \in below : \A k \in below : n <= k)

\* The nodes inserted get the event, and the one found or inserted next as their
\* prev, or the context of no events.  The exclusions are taken back by the last
\* list alone.  A model that may be short of nodes for another walk starts anew.
Walked(w, e) ==
  LET new(n) == {k \in DOMAIN w.t : w.t[k] = n /\ (w.hit => k < Len(w.t))}
      After(k) == IF k < Len(w.t) THEN w.t[k + 1] ELSE 1
      E == [n \in DOMAIN w.m.E |->
              IF new(n) = {} THEN w.m.E[n]
              ELSE [w.m.E[n] EXCEPT !.eventnum = e,
                                    !.prev = After(CHOOSE k \in new(n) : TRUE)]]
      cleared == IF w.Sex = 0 THEN {} ELSE Excluded(w.m, w.Sex)
  IN IF maxnodes - Len(E) <= FIXEDORDER
     THEN [NewModel EXCEPT !.excluded = w.m.excluded \ cleared]
     ELSE [E |-> E, S |-> E[w.t[1]].prev, excluded |-> w.m.excluded \ cleared]

charsetsize == IF nsyms > Charset THEN nsyms ELSE Charset
EOSchar     == charsetsize

\* An event that is in no context is written as it is.
Written(w, e) ==
  [m |-> Walked(w, e),
   calls |-> IF w.hit THEN w.calls ELSE Append(w.calls, <<e, e + 1, charsetsize + 1>>)]

WriteEvent(m, e) ==
  LET walk[n \in 0 .. FIXEDORDER + 1] ==
        IF n = 0 THEN Walk(m) ELSE EncodeStep(walk[n - 1], e)
  IN Written(walk[FIXEDORDER + 1], e)

EventRead(w, calls, high) ==
  IF w.hit THEN w.m.E[w.t[Len(w.t)]].eventnum
  ELSE TargetOf(calls, Len(w.calls) + 1, high)

ReadEvent(m, calls, high) ==
  LET walk[n \in 0 .. FIXEDORDER + 1] ==
        IF n = 0 THEN Walk(m) ELSE DecodeStep(walk[n - 1], calls, high)
      With(w, e) == [event |-> e, by |-> Written(w, e)]
  IN With(walk[FIXEDORDER + 1], EventRead(walk[FIXEDORDER + 1], calls, high))

-----------------------------------------------------------------------------

(***************************************************************************)
(* Offsets: elem lists, in the order of the numbers.                       *)
(***************************************************************************)

NoElems == [head |-> <<>>, tot |-> 0]

\* Everything behind place k has one more before it.
MovedUp(head, k) ==
  [n \in DOMAIN head |-> IF n > k THEN [head[n] EXCEPT !.pos = @ + 1] ELSE head[n]]

\* Mutant: a number that is new is put in and the others stay where they are.
elem_addUnmoved(list, num) ==
  LET head == list.head
      k    == CHOOSE n \in DOMAIN head :
                /\ n = Len(head) \/ num <= head[n].num
                /\ \A i \in 1 .. n - 1 : num > head[i].num
      End(n) == IF n = 0 THEN 0 ELSE head[n].pos + head[n].freq
      New(n) == [num |-> num, pos |-> End(n), freq |-> 1]
  IN [tot |-> list.tot + 1,
      head |->
        IF head = <<>> THEN <<New(0)>>
        ELSE IF num = head[k].num
        THEN MovedUp([head EXCEPT ![k].freq = @ + 1], k)
        ELSE IF num < head[k].num
        THEN InsertAt(head, k, New(k - 1))
        ELSE Append(head, New(k))]

elem_add(list, num) ==
  LET head == list.head
      k    == CHOOSE n \in DOMAIN head :
                /\ n = Len(head) \/ num <= head[n].num
                /\ \A i \in 1 .. n - 1 : num > head[i].num
      End(n) == IF n = 0 THEN 0 ELSE head[n].pos + head[n].freq
      New(n) == [num |-> num, pos |-> End(n), freq |-> 1]
  IN [tot |-> list.tot + 1,
      head |->
        IF head = <<>> THEN <<New(0)>>
        ELSE IF num = head[k].num
        THEN MovedUp([head EXCEPT ![k].freq = @ + 1], k)
        ELSE IF num < head[k].num
        THEN MovedUp(InsertAt(head, k, New(k - 1)), k)
        ELSE Append(head, New(k))]

Has(list, num) == \E n \in DOMAIN list.head : list.head[n].num = num

\* elem_find: what is coded for a number.
PartOf(list, num) ==
  LET n == CHOOSE k \in DOMAIN list.head : list.head[k].num = num
  IN <<list.head[n].pos, list.head[n].pos + list.head[n].freq, list.tot>>

elem_getrange(list, range) ==
  LET there == {n \in DOMAIN list.head :
                  /\ range >= list.head[n].pos
                  /\ range < list.head[n].pos + list.head[n].freq}
  IN IF there = {} THEN 0 ELSE list.head[CHOOSE n \in there : TRUE].num

\* The counts of the three ways to code an offset and, for either coordinate,
\* the offsets seen, those seen with each symbol, and the counts of the signs.
TOP_INC == 2
MID_INC == 1
BOT_INC == 1
NewLevels ==
  [top |-> 1, mid |-> 1, bot |-> 1,
   list |-> [d \in {"x", "y"} |-> NoElems],
   cond |-> [d \in {"x", "y"} |-> [s \in 0 .. nsyms - 1 |-> NoElems]],
   pos |-> [d \in {"x", "y"} |-> 1], neg |-> [d \in {"x", "y"} |-> 1]]

Half(n) == (n + 1) \div 2

\* Which way is coded, and with what counts: seen with the symbol, seen, new.
Level(v, way) ==
  LET all == v.top + v.mid + v.bot
  IN CASE way = "top" -> <<0, v.top, all>>
       [] way = "mid" -> <<v.top, v.top + v.mid, all>>
       [] way = "bot" -> <<v.top + v.mid, all, all>>

Sign(v, d, off) ==
  IF off >= 0 THEN <<0, v.pos[d], v.pos[d] + v.neg[d]>>
  ELSE <<v.pos[d], v.pos[d] + v.neg[d], v.pos[d] + v.neg[d]>>

Signed(v, d, off) ==
  LET w == IF off >= 0 THEN [v EXCEPT !.pos[d] = @ + 1] ELSE [v EXCEPT !.neg[d] = @ + 1]
  IN IF w.pos[d] + w.neg[d] >= maxlevel
     THEN [w EXCEPT !.pos[d] = Half(@), !.neg[d] = Half(@)] ELSE w

Way(v, d, s, off) ==
  IF Has(v.cond[d][s], off) THEN "top" ELSE IF Has(v.list[d], off) THEN "mid" ELSE "bot"

\* The calls for an offset; a new one as a sign and a number.
OffsetCalls(v, d, s, off, way) ==
  <<Level(v, way)>> \o
  CASE way = "top" -> <<PartOf(v.cond[d][s], off)>>
    [] way = "mid" -> <<PartOf(v.list[d], off)>>
    [] way = "bot" -> <<Sign(v, d, off), <<IF off < 0 THEN -off ELSE off>> >>

OffsetLearned(v, d, s, off, way) ==
  LET grown == CASE way = "top" -> [v EXCEPT !.top = @ + TOP_INC]
                 [] way = "mid" -> [v EXCEPT !.mid = @ + MID_INC]
                 [] way = "bot" -> Signed([v EXCEPT !.bot = @ + BOT_INC], d, off)
      added == [grown EXCEPT !.list[d] = elem_add(@, off),
                             !.cond[d][s] = elem_add(@, off)]
  IN IF added.top + added.mid >= maxlevel
     THEN [added EXCEPT !.top = Half(@), !.mid = Half(@), !.bot = Half(@)]
     ELSE added

\* The reader's way and offset, from its own lists.
ReadWay(v, calls, high) ==
  LET target == TargetOf(calls, 1, high)
  IN IF target < v.top THEN "top" ELSE IF target < v.top + v.mid THEN "mid" ELSE "bot"

ReadOffset(v, d, s, calls, high, way) ==
  LET target == TargetOf(calls, 2, high)
  IN CASE way = "top" -> elem_getrange(v.cond[d][s], target)
       [] way = "mid" -> elem_getrange(v.list[d], target)
       [] way = "bot" -> IF target < v.pos[d] THEN calls[3][1] ELSE -calls[3][1]

-----------------------------------------------------------------------------

SymbolsInit ==
  /\ \/ sending = "symbols" /\ nsyms \in 0 .. MaxSymbols /\ symbols = <<>>
     \/ sending = "offsets" /\ symbols \in OffsetLists /\ nsyms = Len(symbols)
  /\ received = <<>> /\ j = 0 /\ reader = 0
  /\ out_model = NewModel /\ in_model = NewModel
  /\ places = <<>> /\ placed = <<>>
  /\ out_levels = NewLevels /\ in_levels = NewLevels

\* encodestring and decodestring, an event: the reader's string ends with
\* EOSchar, and a string of no symbols is the last.
CodeEvent(e, high, next) ==
  \E sent \in {WriteEvent(out_model, e)} :
  \E got \in {ReadEvent(in_model, sent.calls, high)} :
    /\ out_model' = sent.m /\ in_model' = got.by.m
    /\ received' = IF got.event = EOSchar THEN received ELSE Append(received, got.event)
    /\ reader' = IF got.event # EOSchar THEN reader + 1 ELSE IF reader = 0 THEN -1 ELSE 0
    /\ sending' = IF got.by.calls = sent.calls THEN next ELSE "lost"
    /\ UNCHANGED <<nsyms, places, placed, out_levels, in_levels>>

CodeSymbol(e, high) ==
  /\ sending = "symbols" /\ Len(symbols) < nsyms /\ j < PPM_CHUNK
  /\ CodeEvent(e, high, sending)
  /\ symbols' = Append(symbols, e) /\ j' = j + 1

\* EncodeSymbols ends a string when it is full or no symbol is left.
EndString(high) ==
  /\ sending = "symbols" /\ j > 0
  /\ j = PPM_CHUNK \/ Len(symbols) = nsyms
  /\ CodeEvent(EOSchar, high, sending)
  /\ j' = 0
  /\ UNCHANGED symbols

EndSymbols(high) ==
  /\ sending = "symbols" /\ j = 0 /\ Len(symbols) = nsyms
  /\ CodeEvent(EOSchar, high, "sent")
  /\ UNCHANGED <<symbols, j>>

\* EncodeOffsets and DecodeOffsets: for each symbol x, then y.
CodeOffset(off, high) ==
  /\ sending = "offsets" /\ Len(places) < 2 * nsyms
  /\ LET d == IF Len(places) % 2 = 0 THEN "x" ELSE "y"
         s == symbols[(Len(places) \div 2) + 1]
         way   == Way(out_levels, d, s, off)
         calls == OffsetCalls(out_levels, d, s, off, way)
         rway  == ReadWay(in_levels, calls, high)
         roff  == ReadOffset(in_levels, d, s, calls, high, rway)
     IN /\ out_levels' = OffsetLearned(out_levels, d, s, off, way)
        /\ in_levels' = OffsetLearned(in_levels, d, s, roff, rway)
        /\ places' = Append(places, off) /\ placed' = Append(placed, roff)
        /\ sending' = IF OffsetCalls(in_levels, d, s, roff, rway) = calls
                      THEN sending ELSE "lost"
  /\ UNCHANGED <<nsyms, symbols, received, j, reader, out_model, in_model>>

SymbolsNext ==
  \E high \in BOOLEAN :
    \/ \E e \in SymbolValues : CodeSymbol(e, high)
    \/ EndString(high)
    \/ EndSymbols(high)
    \/ \E off \in OffsetValues : CodeOffset(off, high)

SymbolsSpec == SymbolsInit /\ [][SymbolsNext]_symbolVars

(***************************************************************************)
(* The reader, who fills in the event of a node only after it was counted, *)
(* looks targets up where the writer looks events up, and finds the end of *)
(* a string by an event, gets every symbol and every offset; whatever walk *)
(* went before, no event stays excluded, and there is room for another     *)
(* walk (ppm.c, lstevent.c, codesyms.c, codeoffsets.c).                    *)
(***************************************************************************)
SymbolsComeBack ==
  /\ sending # "lost"
  /\ sending # "offsets" => received = symbols /\ reader = IF sending = "sent" THEN -1 ELSE j
  /\ placed = places
  /\ \A m \in {out_model, in_model} :
       m.excluded = {} /\ Len(m.E) + FIXEDORDER + 1 <= maxnodes
=============================================================================
