------------------------------- MODULE Textual -------------------------------
(***************************************************************************)
(* Textual images: mgticbuild takes the marks of a page into a library,    *)
(* mgtic writes a page as the symbols of a library and their offsets, and  *)
(* what is left as a residue.  The marks are found by extractor.c, which   *)
(* walks around each one and then empties it, and sorted by sortmarks.c.   *)
(*                                                                         *)
(* Pixels are pairs of column and row.  Which marks seem to be joined, and *)
(* which look like a symbol of the library, is decided by measures of      *)
(* their shape (possibly_joined, match.c); here any may be.                *)
(*                                                                         *)
(* mgtic -d never gets to its symbols: the program ends when its decoder   *)
(* is started (FreopenStdin).  What it would draw from them is an operator *)
(* here (Drawn), for symbols and offsets that arrive as they were sent,    *)
(* which is what Symbols shows.                                            *)
(***************************************************************************)
EXTENDS Bilevel
LOCAL INSTANCE SequencesExt
LOCAL INSTANCE FiniteSetsExt

CONSTANTS
  Jobs,   \* what to do: a page, the programs to run and the library to start with
  GAP,    \* the distance of two lines, 4
  Split   \* whether marks may seem to be joined

VARIABLES
  job,          \* [page, cols, rows, build, lossy]
  library,      \* the marks of the library
  sheet,        \* the pixels of the page that are not in a mark yet
  start,        \* where to look for the next mark: tx, ty
  trace,        \* the walk around a mark: where, in which direction, its box
  stack,        \* the runs to empty
  mark,         \* the pixels of the mark at work
  marks,        \* the marks found; those of the list still to match
  carry, last,  \* carryx and carryy; lastx and lasty
  symbol_list,  \* the symbols and their offsets
  recon,        \* the page as far as the symbols give it, for the coder
  unlike        \* the pixels of marks not taken for a symbol just like them

ticVars ==
  <<job, library, sheet, start, trace, stack, mark, marks, carry, last,
    symbol_list, recon, unlike>>

Plane == (0 .. job.cols - 1) \X (0 .. job.rows - 1)
Shifted(S, x, y) == {<<p[1] + x, p[2] + y>> : p \in S}
Columns(S) == {p[1] : p \in S}
Lines(S)   == {p[2] : p \in S}

AsRows(S) ==
  [y \in 1 .. job.rows |-> [x \in 1 .. job.cols |-> IF <<x - 1, y - 1>> \in S THEN 1 ELSE 0]]

\* A mark: its box on the page, and its pixels within it.
Mark(xpos, ypos, w, h, S) ==
  [xpos |-> xpos, ypos |-> ypos, w |-> w, h |-> h, bitmap |-> Shifted(S, -xpos, -ypos)]

OnPage(m) == Shifted(m.bitmap, m.xpos, m.ypos)

\* marktype_calc_centroid; 0 for a blank mark.
Mean(S, c) ==
  IF S = {} THEN 0 ELSE FoldSet(LAMBDA p, sum : p[c] + sum, 0, S) \div Cardinality(S)
xcen(m) == Mean(m.bitmap, 1)
ycen(m) == Mean(m.bitmap, 2)

NoTrace == [i |-> 0, j |-> 0, dir |-> 0, xl |-> 0, xr |-> 0, yt |-> 0, yb |-> 0]

\* INT_MAX, which every column and row is below.
Far == job.cols + job.rows + 2

-----------------------------------------------------------------------------

(***************************************************************************)
(* ExtractNextMark.                                                        *)
(***************************************************************************)

\* Row by row; one column behind the last may be looked at, which is padding.
Before(p, q) == p[2] < q[2] \/ (p[2] = q[2] /\ p[1] < q[1])
FromStart == {p \in sheet : ~Before(p, start)}

FindMark ==
  /\ imaging = "extract"
  /\ IF FromStart = {}
     THEN imaging' = "extracted" /\ UNCHANGED <<start, trace>>
     ELSE LET first == CHOOSE p \in FromStart : \A q \in FromStart \ {p} : Before(p, q)
          IN /\ start' = first
             /\ trace' = [i |-> first[1], j |-> first[2] - 1, dir |-> 0,
                          xl |-> Far, xr |-> -1, yt |-> Far, yb |-> -1]
             /\ imaging' = "trace"
  /\ UNCHANGED <<codecVars, job, library, sheet, stack, mark, marks, carry, last,
                 symbol_list, recon, unlike>>

boundary_xcomp(d) == IF d = 0 THEN 1 ELSE IF d = 2 THEN -1 ELSE 0
boundary_ycomp(d) == IF d = 1 THEN 1 ELSE IF d = 3 THEN -1 ELSE 0

\* The way around keeps the mark to its right.
Turned(t) ==
  LET Free(d) == <<t.i + boundary_xcomp(d), t.j + boundary_ycomp(d)>> \notin sheet
      right == (t.dir + 1) % 4
      left  == (t.dir + 3) % 4
  IN IF Free(right) THEN right ELSE IF Free(t.dir) THEN t.dir
     ELSE IF Free(left) THEN left ELSE (t.dir + 2) % 4

\* Mutant: the box is not widened to the left.
BoxedRight(t) ==
  [t EXCEPT !.xr = IF t.i > @ THEN t.i - 1 ELSE @, !.xl = IF @ = Far THEN t.i ELSE @,
            !.yt = IF t.j < @ THEN t.j + 1 ELSE @, !.yb = IF t.j > @ THEN t.j - 1 ELSE @]

\* The box lies within the way around.
Boxed(t) ==
  [t EXCEPT !.xr = IF t.i > @ THEN t.i - 1 ELSE @, !.xl = IF t.i < @ THEN t.i + 1 ELSE @,
            !.yt = IF t.j < @ THEN t.j + 1 ELSE @, !.yb = IF t.j > @ THEN t.j - 1 ELSE @]

TraceBoundary ==
  /\ imaging = "trace"
  /\ LET dir == Turned(trace)
         i == trace.i + boundary_xcomp(dir)
         j == trace.j + boundary_ycomp(dir)
         back == <<i, j>> = <<start[1], start[2] - 1>>
     IN /\ trace' = [Boxed(trace) EXCEPT !.i = i, !.j = j, !.dir = dir]
        /\ imaging' = IF back THEN "fill" ELSE "trace"
        /\ stack' = IF back THEN <<start>> ELSE <<>>
  /\ mark' = {}
  /\ UNCHANGED <<codecVars, job, library, sheet, start, marks, carry, last, symbol_list,
                 recon, unlike>>

\* RunRegionFill: the run around a pixel is emptied, and of every run of the rows
\* above and below that touches it the rightmost pixel is pushed.
FillRun ==
  /\ imaging = "fill" /\ stack # <<>>
  /\ LET top == stack[Len(stack)]
         y   == top[2]
         Run(l, r) == {<<x, y>> : x \in l .. r} \subseteq sheet \cup {top}
         l   == CHOOSE x \in 0 .. top[1] :
                  Run(x, top[1]) /\ <<x - 1, y>> \notin sheet
         r   == CHOOSE x \in top[1] .. job.cols - 1 :
                  Run(top[1], x) /\ <<x + 1, y>> \notin sheet
         hi  == IF r + 1 < job.cols THEN r + 1 ELSE job.cols - 1
         lo  == IF l > 0 THEN l - 1 ELSE 0
         Starts(x, row) ==
           <<x, row>> \in sheet /\ (x = hi \/ <<x + 1, row>> \notin sheet)
         Pushed(x) ==
           (IF Starts(x, y - 1) THEN << <<x, y - 1>> >> ELSE <<>>)
             \o (IF Starts(x, y + 1) THEN << <<x, y + 1>> >> ELSE <<>>)
         run == {<<x, y>> : x \in l .. r}
     IN /\ sheet' = sheet \ run
        /\ mark' = mark \cup run
        /\ stack' = Front(stack) \o FlattenSeq([n \in 1 .. hi - lo + 1 |-> Pushed(hi - n + 1)])
  /\ UNCHANGED <<bilevelVars, job, library, start, trace, marks, carry, last, symbol_list,
                 recon, unlike>>

AddMark ==
  /\ imaging = "fill" /\ stack = <<>>
  /\ marks' = Append(marks, Mark(trace.xl, trace.yt, trace.xr - trace.xl + 1,
                                 trace.yb - trace.yt + 1, mark))
  /\ start' = <<start[1] + 1, start[2]>>
  /\ mark' = {} /\ trace' = NoTrace
  /\ imaging' = "extract"
  /\ UNCHANGED <<codecVars, job, library, sheet, stack, carry, last, symbol_list,
                 recon, unlike>>

\* marktype_adj_bound.
Bounded(S) ==
  Mark(Min(Columns(S)), Min(Lines(S)), Max(Columns(S)) - Min(Columns(S)) + 1,
       Max(Lines(S)) - Min(Lines(S)) + 1, S)

\* split_mark, at any columns inside: the first part replaces the mark, the other
\* parts go to the end of the list; a column at which it is split is in both.
SplitMark ==
  /\ imaging = "extracted" /\ Split
  /\ \E n \in DOMAIN marks : \E p2 \in SUBSET (1 .. marks[n].w - 2) :
       LET cuts == SetToSortSeq(p2 \cup {0, marks[n].w - 1}, <)
           Part(k) == Bounded({p \in OnPage(marks[n]) :
                                 p[1] - marks[n].xpos \in cuts[k] .. cuts[k + 1]})
       IN /\ p2 # {}
          /\ marks' = [marks EXCEPT ![n] = Part(1)]
                        \o [k \in 1 .. Len(cuts) - 2 |-> Part(k + 1)]
  /\ UNCHANGED <<bilevelVars, job, library, sheet, start, trace, stack, mark, carry, last,
                 symbol_list, recon, unlike>>

-----------------------------------------------------------------------------

\* mgticbuild adds the marks to the library, with boxes but without places; then
\* mgtic takes the page.
BuildLibrary ==
  /\ imaging = "extracted" /\ job.build
  /\ library' = library \o [n \in DOMAIN marks |-> [marks[n] EXCEPT !.xpos = 0, !.ypos = 0]]
  /\ job' = [job EXCEPT !.build = FALSE]
  /\ sheet' = job.page /\ start' = <<0, 0>> /\ marks' = <<>>
  /\ imaging' = "extract"
  /\ UNCHANGED <<codecVars, trace, stack, mark, carry, last, symbol_list, recon, unlike>>

\* sortmarks: by rows; then every line but the last by columns.
LineEnd(s, n) ==
  CHOOSE e \in n .. Len(s) :
    /\ \A k \in n + 1 .. e : s[k].ypos - s[k - 1].ypos <= GAP
    /\ e < Len(s) => s[e + 1].ypos - s[e].ypos > GAP

\* CmpOnX and CmpOnY, for a sort that keeps the order of equals.
Sorted(s, key) ==
  LET place(n) == Cardinality({k \in DOMAIN s :
                    s[k][key] < s[n][key] \/ (s[k][key] = s[n][key] /\ k <= n)})
  IN [p \in DOMAIN s |-> s[CHOOSE n \in DOMAIN s : place(n) = p]]

sortmarks(list) ==
  LET table == Sorted(list, "ypos")
      lines[n \in 1 .. Len(table) + 1] ==
        IF n > Len(table) THEN <<>>
        ELSE LET e == LineEnd(table, n)
             IN (IF e < Len(table) THEN Sorted(SubSeq(table, n, e), "xpos")
                 ELSE SubSeq(table, n, e)) \o lines[e + 1]
  IN IF list = <<>> THEN <<>> ELSE lines[1]

SortMarks ==
  /\ imaging = "extracted" /\ ~job.build
  /\ marks' = sortmarks(marks)
  /\ imaging' = "match"
  /\ UNCHANGED <<codecVars, job, library, sheet, start, trace, stack, mark, carry, last,
                 symbol_list, recon, unlike>>

Distance(a, b) == IF a < b THEN b - a ELSE a - b
NOT_SCREENED(d2, d) ==
  Distance(xcen(d2), xcen(d)) + Distance(ycen(d2), ycen(d)) <= 3

Clipped(S, cols, rows) ==
  {p \in S : p[1] \in 0 .. cols - 1 /\ p[2] \in 0 .. rows - 1}

\* match_sequence, for a mark that no symbol of the library looks like ...
NoMatch ==
  /\ imaging = "match" /\ marks # <<>>
  /\ marks' = Tail(marks) /\ unlike' = unlike \cup OnPage(Head(marks))
  /\ UNCHANGED <<bilevelVars, job, library, sheet, start, trace, stack, mark, carry, last,
                 symbol_list, recon>>

\* Mutant: the offset leaves out what the centres were apart at the last mark.
OffsetUncarried(d, apart) ==
  <<d.xpos - last[1] - apart[1], d.ypos - last[2] - apart[2]>>

OffsetFor(d, apart) ==
  <<d.xpos - last[1] + carry[1] - apart[1], d.ypos - last[2] + carry[2] - apart[2]>>

\* ... and for one that is matched: its offset is from the end of the symbol
\* before, the centres of mark and symbol are put on each other, and the symbol
\* is drawn as far as it lies within a corner as large as the symbol.
Match ==
  /\ imaging = "match" /\ marks # <<>>
  /\ \E found \in DOMAIN library :
       LET d  == Head(marks)
           d2 == library[found]
           apart == <<xcen(d2) - xcen(d), ycen(d2) - ycen(d)>>
       IN /\ NOT_SCREENED(d2, d)
          /\ symbol_list' = Append(symbol_list,
               [symnum |-> found, offset |-> OffsetFor(d, apart)])
          /\ carry' = apart
          /\ last' = <<d.xpos + d2.w, d.ypos>>
          /\ recon' = recon \cup
               Clipped(Shifted(d2.bitmap, d.xpos - apart[1], d.ypos - apart[2]), d2.w, d2.h)
          /\ unlike' = IF d2.bitmap = d.bitmap THEN unlike ELSE unlike \cup OnPage(d)
          /\ marks' = Tail(marks)
  /\ UNCHANGED <<bilevelVars, job, library, sheet, start, trace, stack, mark>>

\* The symbols and their offsets are written.  Without -L that is all; with it the
\* page is coded as a residue, of which the coder sees its own reconstruction.
SendSymbols ==
  /\ imaging = "match" /\ marks = <<>>
  /\ IF job.lossy THEN imaging' = "written" /\ UNCHANGED view
     ELSE view' = AsRows(recon) /\ imaging' = "begin"
  /\ UNCHANGED <<picture, template, coder, coded, arith_in, decoder, bitmap, header, pixel>>
  /\ UNCHANGED ticVars

\* mgtic -d opens the file as its standard input, and leaves arith_in as it is.
FreopenStdin ==
  /\ imaging = "written"
  /\ imaging' = "open"
  /\ UNCHANGED <<codecVars, ticVars>>

TicInit ==
  /\ \E todo \in Jobs :
       /\ job = [page |-> todo.page, cols |-> todo.cols, rows |-> todo.rows,
                 build |-> todo.build, lossy |-> todo.lossy]
       /\ library = todo.library
  /\ picture = AsRows(job.page) /\ template = <<>> /\ view = <<>>
  /\ coder = Idle /\ decoder = Idle
  /\ coded = <<>> /\ bitmap = <<>> /\ header = <<>> /\ pixel = <<0, 0>>
  /\ arith_in = "NULL"
  /\ imaging = "extract"
  /\ sheet = job.page /\ start = <<0, 0>> /\ trace = NoTrace
  /\ stack = <<>> /\ mark = {} /\ marks = <<>>
  /\ carry = <<0, 0>> /\ last = <<0, 0>> /\ symbol_list = <<>>
  /\ recon = {} /\ unlike = {}

TicNext ==
  \/ FindMark \/ TraceBoundary \/ FillRun \/ AddMark \/ SplitMark
  \/ BuildLibrary \/ SortMarks \/ NoMatch \/ Match
  \/ SendSymbols \/ FreopenStdin
  \/ (Compressing \/ InitArithDecoding) /\ UNCHANGED ticVars

TicSpec == TicInit /\ [][TicNext]_<<bilevelVars, ticVars>>

-----------------------------------------------------------------------------

Taken == UNION {OnPage(m) : m \in Range(marks)}

Touching(p, q) == p[1] - q[1] \in -1 .. 1 /\ p[2] - q[2] \in -1 .. 1

(***************************************************************************)
(* The walk finds the box of the whole mark and the runs empty all of it,  *)
(* whatever its shape and whatever lies in its bays and holes: no pixel is *)
(* lost, none is left that touches a mark, and every mark fills its bitmap *)
(* from edge to edge, also after it was split (extractor.c).               *)
(***************************************************************************)
MarksMakeThePage ==
  imaging \in {"extract", "trace", "fill", "extracted"} =>
    /\ sheet \cup mark \cup Taken = job.page
    /\ sheet \cap (mark \cup Taken) = {}
    /\ imaging # "fill" => \A p \in sheet, q \in Taken : ~Touching(p, q)
    /\ \A m \in Range(marks) :
         /\ {0, m.w - 1} \subseteq Columns(m.bitmap)
         /\ {0, m.h - 1} \subseteq Lines(m.bitmap)
         /\ m.bitmap \subseteq (0 .. m.w - 1) \X (0 .. m.h - 1)

\* The page as it is drawn from the symbols: each one begins where the one before
\* it ended, moved by its offset.
Drawn(list) ==
  LET End[n \in 0 .. Len(list)] ==
        IF n = 0 THEN <<0, 0>>
        ELSE <<End[n - 1][1] + list[n].offset[1] + library[list[n].symnum].w,
               End[n - 1][2] + list[n].offset[2]>>
      Place(n) ==
        <<End[n - 1][1] + list[n].offset[1], End[n - 1][2] + list[n].offset[2]>>
  IN UNION {Clipped(Shifted(library[list[n].symnum].bitmap, Place(n)[1], Place(n)[2]),
                    job.cols, job.rows) : n \in DOMAIN list}

(***************************************************************************)
(* From the offsets, which are from symbol to symbol, every symbol can be  *)
(* put again where the coder put it, by the decoder's rules, however the   *)
(* marks were sorted and whichever symbols were taken for them; and if     *)
(* each mark was taken for one just like it, the page is drawn as it was   *)
(* (mgtic.c).                                                              *)
(***************************************************************************)
SymbolsInPlace ==
  imaging = "written" =>
    LET drawn == Drawn(symbol_list)
    IN /\ recon \subseteq drawn
       /\ job.page \ unlike \subseteq drawn
       /\ unlike = {} => drawn = job.page

\* A page is found in its marks, and can be drawn again from their symbols.
PagesRedrawn == MarksMakeThePage /\ SymbolsInPlace

(***************************************************************************)
(* What the manual says of mgtic -d: it decodes the compressed file        *)
(* (mgtic.1).  The decoder is started on arith_in, which the program has   *)
(* not set by then, and getc of a null pointer ends the program before a   *)
(* symbol is read.                                                         *)
(***************************************************************************)
FileDecoded == imaging # "crashed"
=============================================================================
