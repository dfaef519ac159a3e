------------------------------- MODULE Bilevel -------------------------------
(***************************************************************************)
(* bilevel.c and mgbilevel.c: a picture of two levels is coded pixel by    *)
(* pixel, each in the context of pixels that coder and decoder both know.  *)
(* The context of a mark or a page is given by a template; that of a       *)
(* residue (bl_clair_compress) by fixed positions, in the part that is     *)
(* coded already and anywhere in a second picture.                         *)
(*                                                                         *)
(* One program writes the file, the other reads it.  Each keeps the        *)
(* counts of the contexts, the masks of the row at work and a ring of      *)
(* MAX_T_W rows of pixels.                                                 *)
(***************************************************************************)
EXTENDS ArithCode, TLC
LOCAL INSTANCE SequencesExt
LOCAL INSTANCE FiniteSetsExt

CONSTANTS
  INITVALUE, INCREMENT,  \* the counts of a new context, and what a pixel adds
  MAX_T_W,               \* the greatest width and height of a template
  TEMPLATESIZE,          \* the size of the table of contexts
  Pages,                 \* pairs of a picture and the template to code it with
  Residues               \* pairs of a picture and the one that is known of it

ASSUME BilevelAssumption ==
  /\ {INITVALUE, INCREMENT, MAX_T_W, TEMPLATESIZE} \subseteq Nat \ {0}
  /\ 2 * INITVALUE < maxfrequency

VARIABLES
  picture,    \* the picture to code, a sequence of rows of 0s and 1s
  template,   \* the template, a sequence of rows; <<>> for a residue
  view,       \* the second picture of a residue, which both programs know
  coder,      \* the program that writes
  coded,      \* the bits of the file
  arith_in,   \* the stream it reads from: "NULL", the "file", or "stdin"
  decoder,    \* the program that reads
  bitmap,     \* the picture it has
  header,     \* the numbers to write, or those read so far
  pixel,      \* the row and the column at work, from 0
  imaging     \* what happens now

codecVars ==
  <<picture, template, view, coder, coded, arith_in, decoder, bitmap, header, pixel>>

bilevelVars == <<codecVars, imaging>>

Width(p)  == Len(p[1])
Height(p) == Len(p)
Blank(w, h) == [y \in 1 .. h |-> [x \in 1 .. w |-> 0]]

\* pbm_getpixel_trunc.
Pixel(p, x, y) ==
  IF x \in 0 .. Width(p) - 1 /\ y \in 0 .. Height(p) - 1 THEN p[y + 1][x + 1] ELSE 0

-----------------------------------------------------------------------------

(***************************************************************************)
(* Templates: rows of cells, one of them the current pixel "*"; the pixels *)
(* "p" and "2" are the context, those with "2" the second context.         *)
(***************************************************************************)

Cells == <<".", "p", "2", "*">>

Used(t, j) == {i \in 0 .. Width(t) - 1 : t[j + 1][i + 1] \in {"p", "2"}}

Places(t, S) ==
  {at \in (0 .. Width(t) - 1) \X (0 .. Height(t) - 1) : t[at[2] + 1][at[1] + 1] \in S}

\* The checks of bl_string_to_array; the programs leave if one fails.
Parses(t) ==
  /\ Height(t) \in 1 .. MAX_T_W
  /\ Width(t) \in 1 .. MAX_T_W
  /\ \A j \in DOMAIN t : Len(t[j]) = Width(t) /\ Range(t[j]) \subseteq Range(Cells)
  /\ Cardinality(Places(t, {"*"})) = 1

Current(t)  == CHOOSE at \in Places(t, {"*"}) : TRUE
curr_row(t) == Current(t)[2] + 1

surr(t) == \E at \in Places(t, {"p", "2"}) :
             at[1] >= Current(t)[1] /\ at[2] >= Current(t)[2]

twolevel(t) == t = <<>> \/ Places(t, {"2"}) # {}

\* The first rows, as many of them as there are rows with a pixel in use.
MMrows(t) == Cardinality({j \in 0 .. Height(t) - 1 : Used(t, j) # {}})

\* Where a row of the template has its pixels, from the left.
Offsets(t, j) ==
  [n \in 1 .. Cardinality(Used(t, j)) |->
     SetToSortSeq(Used(t, j), <)[n] - Current(t)[1]]

-----------------------------------------------------------------------------

(***************************************************************************)
(* The counts.                                                             *)
(***************************************************************************)

Prob(P, mask) ==
  IF mask \in DOMAIN P THEN P[mask] ELSE [s |-> INITVALUE, n |-> INITVALUE]

Total(p) == p.s + p.n

Counted(P, mask, bit) ==
  LET p    == Prob(P, mask)
      more == IF bit = 1 THEN [p EXCEPT !.s = @ + INCREMENT]
              ELSE [p EXCEPT !.n = @ + INCREMENT]
  IN (mask :> IF Total(more) >= maxfrequency
              THEN [s |-> (more.s + 1) \div 2, n |-> (more.n + 1) \div 2]
              ELSE more) @@ P

\* While a context is new, the second, coarser one is used.
UsesSecond(prog, t, mask) ==
  twolevel(t) /\ Total(Prob(prog.P, mask)) < 2 * INITVALUE + 5 * INCREMENT

Chosen(prog, t, masks) ==
  IF UsesSecond(prog, t, masks[1]) THEN Prob(prog.P2, masks[2])
  ELSE Prob(prog.P, masks[1])

Learned(prog, t, masks, bit) ==
  [prog EXCEPT !.P = Counted(@, masks[1], bit),
               !.P2 = IF UsesSecond(prog, t, masks[1])
                      THEN Counted(@, masks[2], bit) ELSE @]

\* A set pixel is the first part of the total.
Lbnd(p, bit) == IF bit = 1 THEN 0 ELSE p.s
Hbnd(p, bit) == IF bit = 1 THEN p.s ELSE Total(p)

bl_encode_in_context(prog, t, masks, bit) ==
  LET p == Chosen(prog, t, masks)
  IN Learned([prog EXCEPT !.c = arithmetic_encode(@, Lbnd(p, bit), Hbnd(p, bit), Total(p))],
             t, masks, bit)

DecodedPixel(prog, t, masks) ==
  LET p == Chosen(prog, t, masks)
  IN IF Target(prog.c.low, prog.c.high, prog.c.value, Total(p)) < p.s THEN 1 ELSE 0

bl_decode_in_context(prog, t, masks, bit) ==
  LET p == Chosen(prog, t, masks)
  IN Learned([prog EXCEPT
                !.c = arithmetic_decode(coded, @, Lbnd(p, bit), Hbnd(p, bit), Total(p))],
             t, masks, bit)

-----------------------------------------------------------------------------

(***************************************************************************)
(* Contexts.  A mask is kept as its bits.                                  *)
(***************************************************************************)

\* A pixel of the ring; left and right of a row there are MAX_T_W zeros.
Ring(array, x, y) ==
  LET row == array[(y + MAX_T_W) % MAX_T_W]
  IN IF x + 1 \in DOMAIN row THEN row[x + 1] ELSE 0

\* MMmask: at the left all pixels of the row are read, further on the mask is
\* moved by one and only the rightmost pixel is read.
Masks(prog, t, x, y) ==
  [j \in 0 .. MMrows(t) - 1 |->
     LET offs  == Offsets(t, j)
         dy    == j - Current(t)[2]
         At(n) == Ring(prog.array, x + offs[n], y + dy)
     IN IF offs = <<>> THEN <<>>
        ELSE IF x = 0 THEN [n \in DOMAIN offs |-> At(n)]
        ELSE Append(Tail(prog.MMmask[j]), At(Len(offs)))]

Value(bits) == FoldLeft(LAMBDA v, b : 2 * v + b, 0, bits)

\* The table is addressed by all rows one after the other, and by those pixels
\* alone that have a "2".
HASH(bits) == Value(bits) % TEMPLATESIZE

Contexts(t, masks) ==
  LET Second(j) ==
        LET cols == SetToSortSeq(Used(t, j), <)
        IN [n \in DOMAIN cols |-> IF t[j + 1][cols[n] + 1] = "2" THEN masks[j][n] ELSE 0]
      rows == [n \in 1 .. MMrows(t) |-> n - 1]
  IN <<HASH(FlattenSeq([n \in DOMAIN rows |-> masks[rows[n]]])),
       HASH(FlattenSeq([n \in DOMAIN rows |-> Second(rows[n])]))>>

M1 == << <<0,-2>>, <<-2,0>>, <<1,-1>>, <<-1,-1>>, <<0,-1>>, <<-1,0>> >>
M2 == << <<0,-2>>, <<1,-1>>, <<-2,0>>, <<2,0>>, <<-1,1>>, <<1,1>>, <<0,2>>,
         <<-1,-1>>, <<0,-1>>, <<1,0>>, <<-1,0>>, <<0,1>>, <<0,0>> >>
M1S_2level == 3
M2S_2level == 6

Around(p, M, x, y) == [n \in DOMAIN M |-> Pixel(p, x + M[n][1], y + M[n][2])]
EndOf(n, s) == SubSeq(s, Len(s) - n + 1, Len(s))

\* The contexts of a residue: p as far as it is known, and all of q.
ClairContexts(p, q, x, y) ==
  LET known == Around(p, M1, x, y)
      seen  == Around(q, M2, x, y)
  IN <<Value(known \o seen),
       Value(EndOf(M1S_2level, known) \o EndOf(M2S_2level, seen))>>

-----------------------------------------------------------------------------

NoMasks == [j \in {} |-> <<>>]
NewProgram(c) ==
  [c |-> c, P |-> [m \in {} |-> <<>>], P2 |-> [m \in {} |-> <<>>],
   MMmask |-> NoMasks, array |-> [n \in 0 .. MAX_T_W - 1 |-> <<>>]]

Header(p, t) ==
  (IF t = <<>> THEN <<>>
   ELSE <<IF surr(t) THEN 1 ELSE 0, Width(t), Height(t)>>
          \o [n \in 1 .. Width(t) * Height(t) |->
                CHOOSE k \in 0 .. 3 :
                  Cells[k + 1] = t[((n - 1) \div Width(t)) + 1][((n - 1) % Width(t)) + 1]])
    \o <<Width(p), Height(p)>>

Idle == NewProgram(0)

\* A picture with a template, or a residue.
BilevelInit ==
  /\ \/ \E job \in Pages :
          /\ picture = job[1] /\ template = job[2]
          /\ view = <<>>
     \/ \E job \in Residues :
          /\ picture = job[1] /\ template = <<>>
          /\ view = job[2]
  /\ coder = Idle /\ decoder = Idle /\ arith_in = "NULL"
  /\ coded = <<>> /\ bitmap = <<>> /\ header = <<>> /\ pixel = <<0, 0>>
  /\ imaging = "begin"

\* bl_clearmodel and bl_writetemplate; as many rows of the mark as the template
\* has from its top to the current one are put into the ring.
BeginCompress ==
  /\ imaging = "begin"
  /\ IF template # <<>> /\ ~Parses(template)
     THEN imaging' = "failed" /\ UNCHANGED <<coder, header>>
     ELSE /\ coder' = [NewProgram(startencoding) EXCEPT !.array =
                         [n \in DOMAIN @ |->
                            IF template # <<>> /\ n < curr_row(template) /\ n < Height(picture)
                            THEN picture[n + 1] ELSE <<>>]]
          /\ header' = Header(picture, template)
          /\ imaging' = "write"
  /\ UNCHANGED <<picture, template, view, coded, arith_in, decoder, bitmap, pixel>>

\* EncodeGammaDist of the template's and the picture's numbers.
WriteNumber ==
  /\ imaging = "write"
  /\ coder' = [coder EXCEPT !.c = EncodeGammaDist(@, Head(header))]
  /\ header' = Tail(header)
  /\ imaging' = IF Len(header) = 1 THEN "encode" ELSE "write"
  /\ UNCHANGED <<picture, template, view, coded, arith_in, decoder, bitmap, pixel>>

\* Mutant: the row read ahead takes the place of the one before it.
LoadedEarly(prog) ==
  IF pixel[2] > 0 \/ template = <<>> THEN prog
  ELSE [prog EXCEPT !.array[(pixel[1] + curr_row(template) - 1) % MAX_T_W] =
          IF pixel[1] + curr_row(template) < Height(picture)
          THEN picture[pixel[1] + curr_row(template) + 1] ELSE <<>>]

\* One row more is read than the context needs, zeros below the last.
Loaded(prog) ==
  IF pixel[2] > 0 \/ template = <<>> THEN prog
  ELSE [prog EXCEPT !.array[(pixel[1] + curr_row(template)) % MAX_T_W] =
          IF pixel[1] + curr_row(template) < Height(picture)
          THEN picture[pixel[1] + curr_row(template) + 1] ELSE <<>>]

\* The row to decode, still blank.
Cleared(prog) ==
  IF pixel[2] > 0 \/ template = <<>> THEN prog
  ELSE [prog EXCEPT !.array[pixel[1] % MAX_T_W] = bitmap[pixel[1] + 1]]

Masked(prog, t) ==
  IF t = <<>> THEN prog ELSE [prog EXCEPT !.MMmask = Masks(prog, t, pixel[2], pixel[1])]

ContextsOf(prog, t, p, q) ==
  IF t = <<>> THEN ClairContexts(p, q, pixel[2], pixel[1]) ELSE Contexts(t, prog.MMmask)

LastPixel(p) == pixel = <<Height(p) - 1, Width(p) - 1>>
NextPixel(p) ==
  IF LastPixel(p) THEN <<0, 0>>
  ELSE IF pixel[2] = Width(p) - 1 THEN <<pixel[1] + 1, 0>>
  ELSE <<pixel[1], pixel[2] + 1>>

\* The body of the loops of bl_compress_mark and bl_clair_compress.
CompressPixel ==
  /\ imaging = "encode"
  /\ LET prog == Masked(Loaded(coder), template)
     IN coder' = bl_encode_in_context(prog, template,
                   ContextsOf(prog, template, picture, view),
                   Pixel(picture, pixel[2], pixel[1]))
  /\ pixel' = NextPixel(picture)
  /\ imaging' = IF LastPixel(picture) THEN "close" ELSE "encode"
  /\ UNCHANGED <<picture, template, view, coded, arith_in, decoder, bitmap, header>>

CloseDownArithEncoding ==
  /\ imaging = "close"
  /\ coded' = doneencoding(coder.c)
  /\ coder' = Idle
  /\ imaging' = "written"
  /\ UNCHANGED <<picture, template, view, arith_in, decoder, bitmap, header, pixel>>

\* mgbilevel -d.  No other program but mgtic has a decoder (Textual): what is said
\* of residues is said of the routines of bilevel.c, on a stream opened as here.
OpenFile ==
  /\ imaging = "written"
  /\ arith_in' = "file"
  /\ imaging' = "open"
  /\ UNCHANGED <<picture, template, view, coder, coded, decoder, bitmap, header, pixel>>

\* The first bytes are read from arith_in; getc of a null pointer ends the program.
InitArithDecoding ==
  /\ imaging = "open"
  /\ IF arith_in = "NULL" THEN imaging' = "crashed" /\ UNCHANGED decoder
     ELSE decoder' = NewProgram(startdecoding(coded)) /\ imaging' = "read"
  /\ UNCHANGED <<picture, template, view, coder, coded, arith_in, bitmap, header, pixel>>

\* The template as it was read.
ReadTemplate ==
  [j \in 1 .. header[3] |-> [i \in 1 .. header[2] |->
     LET k == header[3 + (j - 1) * header[2] + i] + 1
     IN IF k \in DOMAIN Cells THEN Cells[k] ELSE "other"]]

\* The numbers of the template that are known to come.
TemplateNumbers == IF Len(header) < 3 THEN 3 ELSE 3 + header[2] * header[3]

\* bl_readtemplate: the decoder leaves if the template looks ahead or has no
\* current pixel, and works with what it reads.
ReadNumber ==
  /\ imaging = "read"
  /\ template # <<>> => Len(header) < TemplateNumbers + 2
  /\ template = <<>> => Len(header) < 2
  /\ IF template # <<>> /\ Len(header) = 1 /\ header[1] > 0
     THEN imaging' = "refused" /\ UNCHANGED <<arith_in, decoder, header, template>>
     ELSE IF template # <<>> /\ Len(header) = TemplateNumbers
             /\ (header[3] = 0 \/ ~Parses(ReadTemplate))
     THEN imaging' = "failed" /\ UNCHANGED <<arith_in, decoder, header, template>>
     ELSE LET d == DecodeGammaDist(coded, decoder.c)
          IN /\ decoder' = [decoder EXCEPT !.c = d.c] /\ arith_in' = "stdin"
             /\ header' = Append(header, d.number)
             /\ template' = IF template # <<>> /\ Len(header) = TemplateNumbers
                            THEN ReadTemplate ELSE template
             /\ UNCHANGED imaging
  /\ UNCHANGED <<picture, view, coder, coded, bitmap, pixel>>

\* The picture has the size that was read; a residue must have the page's.
BeginDecompress ==
  /\ imaging = "read"
  /\ Len(header) = IF template = <<>> THEN 2 ELSE TemplateNumbers + 2
  /\ LET sizes == EndOf(2, header)
     IN IF template = <<>> /\ sizes # <<Width(picture), Height(picture)>>
        THEN imaging' = "failed" /\ UNCHANGED bitmap
        ELSE bitmap' = Blank(sizes[1], sizes[2]) /\ imaging' = "decode"
  /\ header' = <<>>
  /\ UNCHANGED <<picture, template, view, coder, coded, arith_in, decoder, pixel>>

\* The body of the loops of bl_decompress_mark and bl_clair_decompress.
DecompressPixel ==
  /\ imaging = "decode"
  /\ LET prog  == Masked(Cleared(decoder), template)
         masks == ContextsOf(prog, template, bitmap, view)
         bit   == DecodedPixel(prog, template, masks)
         after == bl_decode_in_context(prog, template, masks, bit)
     IN /\ bitmap' = IF bit = 1 THEN [bitmap EXCEPT ![pixel[1] + 1][pixel[2] + 1] = 1]
                     ELSE bitmap
        /\ decoder' = IF bit = 1 /\ template # <<>>
                      THEN [after EXCEPT !.array[pixel[1] % MAX_T_W][pixel[2] + 1] = 1]
                      ELSE after
  /\ arith_in' = "stdin"
  /\ pixel' = NextPixel(bitmap)
  /\ imaging' = IF LastPixel(bitmap) THEN "done" ELSE "decode"
  /\ UNCHANGED <<picture, template, view, coder, coded, header>>

\* What the program that writes does, and the one that reads.
Compressing   == BeginCompress \/ WriteNumber \/ CompressPixel \/ CloseDownArithEncoding
Decompressing == InitArithDecoding \/ ReadNumber \/ BeginDecompress \/ DecompressPixel

BilevelNext == Compressing \/ OpenFile \/ Decompressing

BilevelSpec == BilevelInit /\ [][BilevelNext]_bilevelVars

-----------------------------------------------------------------------------

\* The pixels of the template lie before the current one, and its rows and the
\* row read ahead have places of their own in the ring.
LooksBack(t) ==
  /\ \A at \in Places(t, {"p", "2"}) : at[2] <= Current(t)[2]
  /\ 2 * curr_row(t) <= MAX_T_W

(***************************************************************************)
(* Coder and decoder see every pixel in the same context, though each      *)
(* fills its rows, masks and counts in its own way: whatever the picture,  *)
(* what is read is what was written, or the template is refused because it *)
(* looks ahead.  Of a residue the same holds, once the decoder's stream is *)
(* open (bilevel.c).                                                       *)
(***************************************************************************)
PicturesComeBack ==
  /\ imaging \in {"done", "failed", "refused"} /\ template = <<>> =>
       imaging = "done" /\ bitmap = picture
  /\ template # <<>> =>
       /\ imaging = "failed" <=> imaging \notin {"begin"} /\ ~Parses(template)
       /\ imaging = "refused" => surr(template)
       /\ imaging \in {"decode", "done"} => ~surr(template)
       /\ imaging = "done" /\ LooksBack(template) => bitmap = picture

(***************************************************************************)
(* What the manual says of mgbilevel -d: it decompresses the file it is    *)
(* given (mgbilevel.1).  arithmetic_decode reads the standard input        *)
(* instead, of which nothing is known.                                     *)
(***************************************************************************)
FileDecompressed == imaging \in {"done", "failed"} => bitmap = picture
=============================================================================
