------------------------------ MODULE BitFiles ------------------------------
(***************************************************************************)
(* The bit codes on bytes: the four kinds of stream of lib/ on which the   *)
(* codes of bitio_m.h are written and read.  bitio_*stdio keeps one byte   *)
(* of a FILE at hand, bitio_*mem one byte of an array of known length,     *)
(* bitio_*mems changes the bits of an array in place, bitio_*random keeps  *)
(* a block of a file that it moves and writes back.  A byte is the set of  *)
(* its one bits, numbered from the low end; bytes are filled high bit      *)
(* first.                                                                  *)
(***************************************************************************)
EXTENDS BitCodes

LOCAL INSTANCE SequencesExt
LOCAL INSTANCE FiniteSetsExt

CONSTANTS
  ByteBits,     \* bits of a byte, 8 in the code
  FileCodes,    \* the numbers that are written, each in a code of its own
  FileItems,    \* how many of them a stream takes
  RndItems,     \* and a random stream
  Rooms,        \* lengths of the array of a mem or mems stream
  RndLengths,   \* what BIO_Random_Start is asked for
  RegionStarts, \* the first bits of the regions the random stream writes to
  RegionBits    \* how many bits one takes

VARIABLES
  flavour,   \* the kind of stream
  room,      \* bytes of the array
  coded,     \* the numbers written
  read,      \* the numbers read
  byteStream, \* the stream: data, buff, btg, pos, rem, failed
  turn,      \* "write", "read", "closed"
  rnd,       \* the random stream: file, buf, base, pos, used
  ends,      \* per region: the next bit to write
  wrote,     \* per region: the bits written
  heard      \* what the last reader of a region read, and where

fileVars == <<flavour, room, coded, read, byteStream, turn, rnd, ends, wrote, heard>>

Byte == 0 .. ByteBits - 1
\* Memory nobody has written: every bit may be a one.
Dirty == Byte
Mask(p) == ByteBits - 1 - (p % ByteBits)

CodeBits(c) ==
  CASE c.code = "unary"  -> Unary(c.x)
    [] c.code = "gamma"  -> Gamma(c.x)
    [] c.code = "delta"  -> Delta(c.x)
    [] c.code = "binary" -> Binary(c.x, c.b)
    [] c.code = "bblock" -> Bblock(c.x, c.b)

NumberIn(c, s) ==
  CASE c.code = "unary"  -> UnaryDecode(s, 1)
    [] c.code = "gamma"  -> GammaDecode(s, 1)
    [] c.code = "delta"  -> DeltaDecode(s, 1)
    [] c.code = "binary" -> BinaryDecode(s, 1, c.b)
    [] c.code = "bblock" -> BblockDecode(s, 1, c.b)

-----------------------------------------------------------------------------
\* A bit joins the byte at hand; btg counts the bits it has still to get.

Stdio_ENCODE_BIT(st, b) ==
  LET btg  == st.btg - 1
      buff == IF b = 1 THEN st.buff \cup {btg} ELSE st.buff
  IN IF btg > 0 THEN [st EXCEPT !.btg = btg, !.buff = buff]
     ELSE [st EXCEPT !.btg = ByteBits, !.buff = {}, !.data = Append(@, buff)]

\* Mutant: the byte at hand is left behind.
Stdio_DONE_Unwritten(st) == st

Stdio_ENCODE_DONE(st) ==
  IF st.btg = ByteBits THEN st ELSE [st EXCEPT !.data = Append(@, st.buff)]

\* A byte goes into the array while there is room, and is lost after that.
Stored(st, buff) ==
  IF st.rem = 0 THEN st
  ELSE [st EXCEPT !.data[st.pos + 1] = buff, !.pos = @ + 1, !.rem = @ - 1]

Mem_ENCODE_BIT(st, b) ==
  LET btg  == st.btg - 1
      buff == IF b = 1 THEN st.buff \cup {btg} ELSE st.buff
  IN IF btg > 0 THEN [st EXCEPT !.btg = btg, !.buff = buff]
     ELSE [Stored(st, buff) EXCEPT !.btg = ByteBits, !.buff = {}]

Mem_ENCODE_DONE(st) == IF st.btg = ByteBits THEN st ELSE Stored(st, st.buff)

\* Mutant: a zero leaves the bit as it was.
Mems_ENCODE_Uncleared(st, b) ==
  LET at == (st.pos \div ByteBits) + 1
  IN [st EXCEPT !.data[at] = IF b = 1 THEN @ \cup {Mask(st.pos)} ELSE @, !.pos = @ + 1]

Mems_ENCODE_BIT(st, b) ==
  LET at == (st.pos \div ByteBits) + 1
  IN [st EXCEPT !.data[at] = IF b = 1 THEN @ \cup {Mask(st.pos)} ELSE @ \ {Mask(st.pos)},
                !.pos = @ + 1]

Bit(n, byte) == IF n \in byte THEN 1 ELSE 0

\* The next bit and the stream behind it.  Behind the end DECODE_ERROR ends
\* the program.
Stdio_DECODE_BIT(st) ==
  IF st.btg > 0
  THEN [bit |-> Bit(st.btg - 1, st.buff), st |-> [st EXCEPT !.btg = @ - 1]]
  ELSE IF st.pos = Len(st.data)
  THEN [bit |-> 1, st |-> [st EXCEPT !.failed = TRUE]]
  ELSE [bit |-> Bit(ByteBits - 1, st.data[st.pos + 1]),
        st |-> [st EXCEPT !.buff = st.data[st.pos + 1], !.btg = ByteBits - 1, !.pos = @ + 1]]

Mem_DECODE_BIT(st) ==
  IF st.btg > 0
  THEN [bit |-> Bit(st.btg - 1, st.buff), st |-> [st EXCEPT !.btg = @ - 1]]
  ELSE IF st.rem = 0
  THEN [bit |-> 1, st |-> [st EXCEPT !.failed = TRUE]]
  ELSE [bit |-> Bit(ByteBits - 1, st.data[st.pos + 1]),
        st |-> [st EXCEPT !.buff = st.data[st.pos + 1], !.btg = ByteBits - 1, !.pos = @ + 1,
                          !.rem = @ - 1]]

Mems_DECODE_BIT(st) ==
  [bit |-> Bit(Mask(st.pos), st.data[(st.pos \div ByteBits) + 1]),
   st |-> [st EXCEPT !.pos = @ + 1]]

ENCODE_BIT(st, b) ==
  CASE flavour = "stdio" -> Stdio_ENCODE_BIT(st, b)
    [] flavour = "mem"   -> Mem_ENCODE_BIT(st, b)
    [] flavour = "mems"  -> Mems_ENCODE_BIT(st, b)

DECODE_BIT(st) ==
  CASE flavour = "stdio" -> Stdio_DECODE_BIT(st)
    [] flavour = "mem"   -> Mem_DECODE_BIT(st)
    [] flavour = "mems"  -> Mems_DECODE_BIT(st)

\* BIO_*_Encode: the state is taken up, the bits of the code written one by
\* one, the state put down.
Put(st, c) == FoldLeft(ENCODE_BIT, st, CodeBits(c))

RECURSIVE BitsTaken(_, _, _)
BitsTaken(st, n, bits) ==
  IF n = 0 THEN [bits |-> bits, st |-> st]
  ELSE LET next == DECODE_BIT(st) IN BitsTaken(next.st, n - 1, Append(bits, next.bit))

\* Bits there are to be read; behind the array there is nothing, whatever is
\* thought to remain.
Ahead(st) ==
  CASE flavour = "stdio" -> st.btg + ByteBits * (Len(st.data) - st.pos)
    [] flavour = "mem"   -> st.btg + ByteBits * Min({st.rem, Len(st.data) - st.pos})
    [] flavour = "mems"  -> ByteBits * Len(st.data) - st.pos

\* DECODE_SEEK: what is left of an array is counted from where the reader was.
Stdio_SEEK(st, p) ==
  [st EXCEPT !.pos = (p \div ByteBits) + 1, !.buff = st.data[(p \div ByteBits) + 1],
             !.btg = ByteBits - (p % ByteBits)]
DECODE_SEEK(st, p) ==
  IF flavour = "mems" THEN [st EXCEPT !.pos = p] ELSE Stdio_SEEK(st, p)

-----------------------------------------------------------------------------
\* The random stream: a block of the file, its place, the next bit in it.

BlockBits(st) == ByteBits * Len(st.buf)

\* Behind the end of the file nothing is read: what was there stays.
FRead(file, base, buf) ==
  [i \in DOMAIN buf |-> IF base + i <= Len(file) THEN file[base + i] ELSE buf[i]]

FWrite(file, base, buf) ==
  [i \in 1 .. (IF base + Len(buf) > Len(file) THEN base + Len(buf) ELSE Len(file)) |->
     IF i - base \in DOMAIN buf THEN buf[i - base]
     ELSE IF i <= Len(file) THEN file[i] ELSE {}]

BIO_Random_Start(file, l) ==
  LET len == Pow2[CeilLog(l)]
  IN [file |-> file, base |-> 0, pos |-> 0, used |-> FALSE,
      buf |-> FRead(file, 0, [i \in 1 .. len |-> Dirty])]

\* Mutant: a block that was changed is not written when the stream moves.
FlushForgotten(st) == [st EXCEPT !.used = FALSE]

ENCODE_FLUSH(st) ==
  IF st.used THEN [st EXCEPT !.file = FWrite(@, st.base, st.buf), !.used = FALSE] ELSE st

MovedTo(st, base, pos) ==
  LET kept == ENCODE_FLUSH(st)
  IN [kept EXCEPT !.base = base, !.pos = pos, !.buf = FRead(kept.file, base, @)]

WRITE_READ(st) == MovedTo(st, st.base + Len(st.buf), 0)

Random_ENCODE_BIT(st, b) ==
  LET at  == (st.pos \div ByteBits) + 1
      bit == Mask(st.pos)
      put == [st EXCEPT !.buf[at] = IF b = 1 THEN @ \cup {bit} ELSE @ \ {bit},
                        !.used = TRUE, !.pos = @ + 1]
  IN IF put.pos >= BlockBits(put) THEN WRITE_READ(put) ELSE put

\* The reader moves on when it wants a bit, not when it has taken the last.
Random_DECODE_BIT(st) ==
  LET on == IF st.pos >= BlockBits(st) THEN WRITE_READ(st) ELSE st
  IN [bit |-> Bit(Mask(on.pos), on.buf[(on.pos \div ByteBits) + 1]),
      st |-> [on EXCEPT !.pos = @ + 1]]

\* A place in the block, and not in its last byte but at the start of it, is
\* reached without moving.
BIO_Random_Seek(st, p) ==
  IF /\ p \div ByteBits >= st.base
     /\ (p + ByteBits - 1) \div ByteBits < st.base + Len(st.buf)
  THEN [st EXCEPT !.pos = p - ByteBits * st.base]
  ELSE MovedTo(st, (p \div BlockBits(st)) * Len(st.buf), p % BlockBits(st))

BIO_Random_Encode(st, c) == FoldLeft(Random_ENCODE_BIT, st, CodeBits(c))

BIO_Random_Tell(st) == ByteBits * st.base + st.pos

RECURSIVE RandomBits(_, _, _)
RandomBits(st, n, bits) ==
  IF n = 0 THEN bits
  ELSE LET next == Random_DECODE_BIT(st) IN RandomBits(next.st, n - 1, Append(bits, next.bit))

-----------------------------------------------------------------------------

Regions == DOMAIN RegionStarts
NoStream == [data |-> <<>>, failed |-> FALSE]
NoBits == [r \in Regions |-> <<>>]
FileHeader == <<Dirty>>

\* ENCODE_START: a stdio stream on an empty file, the others on an array.
FilesInit ==
  /\ flavour \in {"stdio", "mem", "mems", "random"}
  /\ room \in IF flavour = "random" THEN {0} ELSE Rooms
  /\ coded = <<>>
  /\ read = <<>>
  /\ byteStream = IF flavour = "random" THEN NoStream
                  ELSE [data |-> IF flavour = "stdio" THEN <<>> ELSE [i \in 1 .. room |-> Dirty],
                        buff |-> {}, btg |-> ByteBits, pos |-> 0, rem |-> room, failed |-> FALSE]
  /\ turn = "write"
  /\ \E l \in RndLengths : rnd = BIO_Random_Start(FileHeader, l)
  /\ ends = RegionStarts
  /\ wrote = NoBits
  /\ heard = [region |-> 1, bits |-> <<>>]

AllBits(cs) == FoldLeft(LAMBDA bits, c : bits \o CodeBits(c), <<>>, cs)
Fits(cs) == Len(AllBits(cs)) <= ByteBits * room

\* Who changes an array in place has made sure that it is large enough.
EncodeNumber ==
  /\ flavour # "random"
  /\ turn = "write"
  /\ Len(coded) < FileItems
  /\ \E c \in FileCodes :
       /\ flavour = "mems" => Fits(Append(coded, c))
       /\ coded' = Append(coded, c)
       /\ byteStream' = Put(byteStream, c)
  /\ UNCHANGED <<flavour, room, read, turn, rnd, ends, wrote, heard>>

\* ENCODE_DONE, and DECODE_START on what was written.
EncodeDone ==
  /\ flavour # "random"
  /\ turn = "write"
  /\ LET done == CASE flavour = "stdio" -> Stdio_ENCODE_DONE(byteStream)
                   [] flavour = "mem"   -> Mem_ENCODE_DONE(byteStream)
                   [] flavour = "mems"  -> byteStream
     IN byteStream' = [done EXCEPT !.buff = {}, !.btg = 0, !.pos = 0, !.rem = room]
  /\ turn' = "read"
  /\ UNCHANGED <<flavour, room, coded, read, rnd, ends, wrote, heard>>

Ones(n) == [i \in 1 .. n |-> 1]

DecodeNumber ==
  /\ flavour # "random"
  /\ turn = "read"
  /\ Len(read) < Len(coded)
  /\ LET n == Ahead(byteStream)
         s == BitsTaken(byteStream, n, <<>>).bits
         d == NumberIn(coded[Len(read) + 1], s \o Ones(2 * n + 8))
     IN IF d.pos - 1 <= n
        THEN /\ read' = Append(read, d.x)
             /\ byteStream' = BitsTaken(byteStream, d.pos - 1, <<>>).st
             /\ UNCHANGED turn
        ELSE /\ byteStream' = [byteStream EXCEPT !.failed = TRUE]
             /\ turn' = "closed"
             /\ UNCHANGED read
  /\ UNCHANGED <<flavour, room, coded, rnd, ends, wrote, heard>>

\* A reader of an inverted list hops over numbers, forwards and to a place
\* that it knows; the list is there as a whole.
SeekNumber ==
  /\ flavour # "random"
  /\ turn = "read"
  /\ flavour # "stdio" => Fits(coded)
  /\ \E k \in Len(read) + 1 .. Len(coded) - 1 :
       LET p == Len(AllBits(SubSeq(coded, 1, k)))
       IN /\ p < Len(AllBits(coded))
          /\ byteStream' = DECODE_SEEK(byteStream, p)
          /\ read' = [i \in 1 .. k |-> coded[i].x]
  /\ UNCHANGED <<flavour, room, coded, turn, rnd, ends, wrote, heard>>

\* As DiskMerge writes: to the end of any region, and the end is remembered.
WriteRegion ==
  /\ flavour = "random"
  /\ turn = "write"
  /\ \E r \in Regions, c \in FileCodes :
       /\ Len(coded) < RndItems
       /\ Len(wrote[r]) + Len(CodeBits(c)) <= RegionBits
       /\ coded' = Append(coded, c)
       /\ rnd' = BIO_Random_Encode(BIO_Random_Seek(rnd, ends[r]), c)
       /\ ends' = [ends EXCEPT ![r] = BIO_Random_Tell(rnd')]
       /\ wrote' = [wrote EXCEPT ![r] = @ \o CodeBits(c)]
  /\ UNCHANGED <<flavour, room, read, byteStream, turn, heard>>

\* DiskMerge flushes the stream and reads through a copy of it, or through a
\* stream of its own on the same file.
ReadRegion ==
  /\ flavour = "random"
  /\ turn = "write"
  /\ rnd' = ENCODE_FLUSH(rnd)
  /\ \E r \in Regions, reader \in {rnd', BIO_Random_Start(rnd'.file, Len(rnd.buf))} :
       heard' = [region |-> r,
                 bits |-> RandomBits(BIO_Random_Seek(reader, RegionStarts[r]), Len(wrote[r]), <<>>)]
  /\ UNCHANGED <<flavour, room, coded, read, byteStream, turn, ends, wrote>>

\* After a merge the state of the next chunks is written over that of the last.
StartOver ==
  /\ flavour = "random"
  /\ turn = "write"
  /\ rnd' = BIO_Random_Seek(ENCODE_FLUSH(rnd), RegionStarts[1])
  /\ ends' = RegionStarts
  /\ wrote' = NoBits
  /\ heard' = [region |-> 1, bits |-> <<>>]
  /\ UNCHANGED <<flavour, room, coded, read, byteStream, turn>>

BIO_Random_Done ==
  /\ flavour = "random"
  /\ turn = "write"
  /\ rnd' = ENCODE_FLUSH(rnd)
  /\ turn' = "closed"
  /\ UNCHANGED <<flavour, room, coded, read, byteStream, ends, wrote, heard>>

FilesNext ==
  \/ EncodeNumber \/ EncodeDone \/ DecodeNumber \/ SeekNumber
  \/ WriteRegion \/ ReadRegion \/ StartOver \/ BIO_Random_Done

-----------------------------------------------------------------------------

(***************************************************************************)
(* Whatever the kind of stream, the numbers come back as they were         *)
(* written, after hops as well, over memory and files that held something  *)
(* else; a reader is sent away only by an array too small for what was     *)
(* written to it, and never with a wrong number.                           *)
(***************************************************************************)
NumbersReadBack ==
  /\ \A i \in DOMAIN read : read[i] = coded[i].x
  /\ byteStream.failed => flavour = "mem" /\ ~Fits(coded)

BitAt(file, p) == Bit(Mask(p), file[(p \div ByteBits) + 1])

(***************************************************************************)
(* The regions of a file that one random stream writes in turn hold what   *)
(* was written to them, whichever block of the file is in memory: in the   *)
(* file together with the block, in the file alone when the stream is      *)
(* done, and for every reader that starts after a flush; what stood before *)
(* them is kept.                                                           *)
(***************************************************************************)
RegionsReadBack ==
  LET image == IF turn = "closed" THEN rnd.file ELSE FWrite(rnd.file, rnd.base, rnd.buf)
  IN /\ \A r \in Regions : \A i \in DOMAIN wrote[r] :
          BitAt(image, RegionStarts[r] + i - 1) = wrote[r][i]
     /\ heard.bits = SubSeq(wrote[heard.region], 1, Len(heard.bits))
     /\ rnd.file[1] = FileHeader[1]

StreamsReadBack == NumbersReadBack /\ (flavour = "random" => RegionsReadBack)
=============================================================================
