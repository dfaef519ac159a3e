------------------------------ MODULE ArithCode ------------------------------
(***************************************************************************)
(* The arithmetic coder of the image programs, src/images/arithcode.c.     *)
(* Coder and decoder hold the same interval S_low .. S_high; a symbol is   *)
(* given as the part lbnd .. hbnd of totl that belongs to it.              *)
(*                                                                         *)
(* arithmetic_encode and arithmetic_decode are operators, for the programs *)
(* that use them.  The actions are the decoder by itself, one turn of its  *)
(* loop a step, on any bits and any symbols.                               *)
(***************************************************************************)
EXTENDS BitCodes

CONSTANTS
  codevaluebits,   \* the bits of the interval, 16
  Totals,          \* the values of totl to choose from
  Stdin            \* what the standard input of a program that decodes holds:
                   \* the "rest" of the coded file, or "nothing"

topvalue     == Pow2[codevaluebits] - 1
firstqtr     == topvalue \div 4 + 1
half         == 2 * firstqtr
thirdqtr     == 3 * firstqtr
maxfrequency == (topvalue + 1) \div 4 + 1

ASSUME CodeAssumption ==
  /\ firstqtr \in Nat \ {0}
  /\ topvalue = 4 * firstqtr - 1
  /\ maxfrequency = firstqtr + 1
  /\ Totals \subseteq 1 .. maxfrequency - 1

VARIABLES
  S_low, S_high, S_value,
  scaling   \* whether the loop of arithmetic_decode has another turn to go

arithVars == <<S_low, S_high, S_value, scaling>>

-----------------------------------------------------------------------------

\* What is left of the interval for a symbol.
Span(low, high) == high - low + 1

LowFor(low, high, lbnd, totl)  == low + ((Span(low, high) * lbnd) \div totl)

HighFor(low, high, hbnd, totl) == low + ((Span(low, high) * hbnd) \div totl) - 1

\* Mutant: any interval across the middle will do.
SettledAcross(low, high) == low < half /\ high >= half

\* The loop ends when the interval lies across the middle and holds more than
\* a quarter.
Settled(low, high) ==
  /\ low < half /\ high >= half
  /\ low < firstqtr \/ high >= thirdqtr

\* What a turn of the loop takes away before it doubles the interval.
Base(low, high) ==
  IF high < half THEN 0 ELSE IF low >= half THEN half ELSE firstqtr

Target(low, high, value, totl) ==
  ((value - low + 1) * totl - 1) \div Span(low, high)

Legal(lbnd, hbnd, totl) ==
  0 <= lbnd /\ lbnd < hbnd /\ hbnd <= totl /\ totl < maxfrequency

-----------------------------------------------------------------------------

(***************************************************************************)
(* A whole call.  A coder is [low, high, follow, out]: its interval, the   *)
(* bits that wait for the next, and the bits written.                      *)
(***************************************************************************)

startencoding == [low |-> 0, high |-> topvalue, follow |-> 0, out |-> <<>>]

BitPlusFollow(b, follow) == <<b>> \o [n \in 1 .. follow |-> 1 - b]

\* Mutant: bits that wait are not written.
EncodeTurnDropped(c) ==
  LET base == Base(c.low, c.high)
  IN [low  |-> 2 * (c.low - base), high |-> 2 * (c.high - base) + 1,
      follow |-> IF base = firstqtr THEN c.follow + 1 ELSE 0,
      out |-> IF base = firstqtr THEN c.out
              ELSE Append(c.out, IF base = half THEN 1 ELSE 0)]

EncodeTurn(c) ==
  LET base == Base(c.low, c.high)
  IN [low  |-> 2 * (c.low - base), high |-> 2 * (c.high - base) + 1,
      follow |-> IF base = firstqtr THEN c.follow + 1 ELSE 0,
      out |-> IF base = firstqtr THEN c.out
              ELSE c.out \o BitPlusFollow(IF base = half THEN 1 ELSE 0, c.follow)]

\* Every turn doubles an interval that holds a value, so codevaluebits do.
arithmetic_encode(c, lbnd, hbnd, totl) ==
  LET after[n \in 0 .. codevaluebits] ==
        IF n = 0
        THEN [c EXCEPT !.low  = LowFor(c.low, c.high, lbnd, totl),
                       !.high = HighFor(c.low, c.high, hbnd, totl)]
        ELSE LET before == after[n - 1]
             IN IF Settled(before.low, before.high) THEN before ELSE EncodeTurn(before)
  IN after[codevaluebits]

\* The last bits, which say in which quarter the interval lies.
doneencoding(c) ==
  c.out \o BitPlusFollow(IF c.low < firstqtr THEN 0 ELSE 1, c.follow + 1)

\* The bits of bytes written: the last byte is filled up with 0s, and at the end
\* of the file getc gives -1, of which every bit is 1.
FileBit(bits, n) ==
  IF n <= Len(bits) THEN bits[n]
  ELSE IF n <= 8 * ((Len(bits) + 7) \div 8) THEN 0 ELSE 1

\* InitArithDecoding reads what it needs from arith_in as the program has set it;
\* if it is null there is no first byte, and the program ends (Bilevel).  Every
\* call of arithmetic_decode begins with arith_in = stdin: all other bytes come
\* from there.
InputBit(bits, n) ==
  IF n <= 8 * ((codevaluebits + 7) \div 8) \/ Stdin = "rest"
  THEN FileBit(bits, n) ELSE 1

\* A decoder is [low, high, value, pos]: pos bits were read.  With arith_in open.
startdecoding(bits) ==
  LET value[n \in 0 .. codevaluebits] ==
        IF n = 0 THEN 0 ELSE 2 * value[n - 1] + InputBit(bits, n)
  IN [low |-> 0, high |-> topvalue, value |-> value[codevaluebits],
      pos |-> codevaluebits]

DecodeTurn(bits, c) ==
  LET base == Base(c.low, c.high)
  IN [low   |-> 2 * (c.low - base), high |-> 2 * (c.high - base) + 1,
      value |-> 2 * (c.value - base) + InputBit(bits, c.pos + 1),
      pos   |-> c.pos + 1]

arithmetic_decode(bits, c, lbnd, hbnd, totl) ==
  LET after[n \in 0 .. codevaluebits] ==
        IF n = 0
        THEN [c EXCEPT !.low  = LowFor(c.low, c.high, lbnd, totl),
                       !.high = HighFor(c.low, c.high, hbnd, totl)]
        ELSE LET before == after[n - 1]
             IN IF Settled(before.low, before.high) THEN before ELSE DecodeTurn(bits, before)
  IN after[codevaluebits]

-----------------------------------------------------------------------------

(***************************************************************************)
(* Numbers, as bits that are 0 or 1 with the same probability: one 0 for   *)
(* every bit of the number plus one, and its bits.                         *)
(***************************************************************************)
EncodeBits(c, bits) ==
  LET after[n \in 0 .. Len(bits)] ==
        IF n = 0 THEN c
        ELSE arithmetic_encode(after[n - 1], bits[n], bits[n] + 1, 2)
  IN after[Len(bits)]

EncodeGammaDist(c, Off) ==
  EncodeBits(c, Zeros(FloorLog(Off + 1) + 1) \o Bits(Off + 1, FloorLog(Off + 1) + 1))

\* A bit and the decoder after it.
DecodedBit(bits, c) ==
  LET bit == IF Target(c.low, c.high, c.value, 2) < 1 THEN 0 ELSE 1
  IN [bit |-> bit, c |-> arithmetic_decode(bits, c, bit, bit + 1, 2)]

\* After n bits without a 1, and its number of bits that are still to come.
DecodeGammaDist(bits, c) ==
  LET zeros[n \in Nat] ==
        IF n = 0 THEN DecodedBit(bits, c) ELSE DecodedBit(bits, zeros[n - 1].c)
      Len1   == CHOOSE n \in 0 .. codevaluebits :
                  zeros[n].bit = 1 /\ \A m \in 0 .. n - 1 : zeros[m].bit = 0
      number[n \in Nat] ==
        IF n = 0 THEN [i |-> 1, c |-> zeros[Len1].c]
        ELSE LET b == DecodedBit(bits, number[n - 1].c)
             IN [i |-> 2 * number[n - 1].i + b.bit, c |-> b.c]
      last   == number[IF Len1 = 0 THEN 0 ELSE Len1 - 1]
  IN [number |-> last.i - 1, c |-> last.c]

-----------------------------------------------------------------------------

(***************************************************************************)
(* The decoder, one turn of its loop a step.                               *)
(***************************************************************************)

ArithInit ==
  /\ S_low = 0 /\ S_high = topvalue /\ S_value \in 0 .. topvalue
  /\ scaling = FALSE

\* The caller looks up to whom the target belongs and gives that symbol's part.
DecodeSymbol(lbnd, hbnd, totl) ==
  /\ ~scaling
  /\ Legal(lbnd, hbnd, totl)
  /\ Target(S_low, S_high, S_value, totl) \in lbnd .. hbnd - 1
  /\ S_low' = LowFor(S_low, S_high, lbnd, totl)
  /\ S_high' = HighFor(S_low, S_high, hbnd, totl)
  /\ scaling' = ~Settled(S_low', S_high')
  /\ UNCHANGED S_value

\* A turn of the loop, which reads a bit.
Turn(bit) ==
  /\ scaling
  /\ S_low' = 2 * (S_low - Base(S_low, S_high))
  /\ S_high' = 2 * (S_high - Base(S_low, S_high)) + 1
  /\ S_value' = 2 * (S_value - Base(S_low, S_high)) + bit
  /\ scaling' = ~Settled(S_low', S_high')

ArithNext ==
  \/ \E totl \in Totals : \E hbnd \in 1 .. totl : \E lbnd \in 0 .. hbnd - 1 :
       DecodeSymbol(lbnd, hbnd, totl)
  \/ \E bit \in {0, 1} : Turn(bit)

ArithSpec == ArithInit /\ [][ArithNext]_arithVars

(***************************************************************************)
(* Whatever bits it reads, the decoder's value lies in its interval, and   *)
(* the interval, cut down and doubled with integers, never is too short    *)
(* for a symbol: of every total the caller may ask with, the target is one *)
(* of its values, and a symbol is the target's exactly if the value lies   *)
(* in what the coder would have left for it (arithcode.c).                 *)
(***************************************************************************)
ValueInside == S_low <= S_value /\ S_value <= S_high /\ 0 <= S_low /\ S_high <= topvalue

WideEnough == ~scaling => Span(S_low, S_high) > firstqtr + 1

TargetsRight ==
  ~scaling =>
    \A totl \in Totals :
      /\ Target(S_low, S_high, S_value, totl) \in 0 .. totl - 1
      /\ \A hbnd \in 1 .. totl : \A lbnd \in 0 .. hbnd - 1 :
           Target(S_low, S_high, S_value, totl) \in lbnd .. hbnd - 1
             <=> /\ LowFor(S_low, S_high, lbnd, totl) <= S_value
                 /\ S_value <= HighFor(S_low, S_high, hbnd, totl)

DecoderRight == ValueInside /\ WideEnough /\ TargetsRight
=============================================================================
