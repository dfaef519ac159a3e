------------------------------ MODULE BitCodes ------------------------------
(***************************************************************************)
(* The bit codes of lib/bitio_m.h and the code lengths and bounds of       *)
(* lib/bitio_gen.c.  A bit stream is a sequence of 0s and 1s; an encoder   *)
(* is the bits it appends, a decoder takes the stream and the position of  *)
(* the first bit it reads and returns the value and the position after     *)
(* the code.  All coded values are positive, as POSITIVE() demands.        *)
(***************************************************************************)
EXTENDS Integers, Sequences

\* 2 to the power k, as 1 << k computes it on the small shifts used here.
Pow2[k \in Nat] == IF k = 0 THEN 1 ELSE 2 * Pow2[k - 1]

\* The shift loops count how often x - 1, or x, can be halved: CEILLOG_2 is
\* only defined for x >= 1, FLOORLOG_2 gives -1 for 0.
CeilLog(x) == CHOOSE k \in 0 .. x : Pow2[k] >= x /\ (k > 0 => Pow2[k - 1] < x)
FloorLog(x) ==
  IF x = 0 THEN -1 ELSE CHOOSE k \in 0 .. x : Pow2[k] <= x /\ x < Pow2[k + 1]

\* The low n bits of v, most significant first.
Bits(v, n) == [i \in 1 .. n |-> (v \div Pow2[n - i]) % 2]

Zeros(n) == [i \in 1 .. n |-> 0]

\* The number the n bits from position pos stand for, most significant first.
Number(s, pos, n) ==
  LET value[i \in 0 .. n] ==
        IF i = 0 THEN 0 ELSE 2 * value[i - 1] + s[pos + i - 1]
  IN value[n]

\* Zero bits from position pos up to the next one bit.
ZeroRun(s, pos) ==
  CHOOSE z \in 0 .. Len(s) - pos :
    s[pos + z] = 1 /\ \A i \in 0 .. z - 1 : s[pos + i] = 0

Unary(x) == Append(Zeros(x - 1), 1)
UnaryDecode(s, pos) ==
  LET z == ZeroRun(s, pos) IN [x |-> z + 1, pos |-> pos + z + 1]
UnaryLength(x) == x

-----------------------------------------------------------------------------

\* The minimal binary code of 1 .. b: the first Thresh(b) values take a bit
\* less.  The encoder writes the low bits of its value and nothing else, which
\* DELTA_ENCODE relies on when it hands it 2^n + 1 .. 2^(n + 1) with b = 2^n.
Thresh(b) == Pow2[CeilLog(b)] - b
BinaryBits(x, b) ==
  IF x - 1 < Thresh(b) THEN CeilLog(b) - 1 ELSE CeilLog(b)
Binary(x, b) ==
  Bits(IF x - 1 < Thresh(b) THEN x - 1 ELSE x - 1 + Thresh(b), BinaryBits(x, b))

\* Mutant: the longer codewords are not moved back.
BinaryDecodeUnmoved(s, pos, b) ==
  IF b = 1 THEN [x |-> 1, pos |-> pos]
  ELSE LET n     == CeilLog(b) - 1
           short == Number(s, pos, n)
       IN IF short < Thresh(b)
          THEN [x |-> short + 1, pos |-> pos + n]
          ELSE [x |-> Number(s, pos, n + 1) + 1, pos |-> pos + n + 1]

BinaryDecode(s, pos, b) ==
  IF b = 1 THEN [x |-> 1, pos |-> pos]
  ELSE LET n     == CeilLog(b) - 1
           short == Number(s, pos, n)
       IN IF short < Thresh(b)
          THEN [x |-> short + 1, pos |-> pos + n]
          ELSE [x |-> Number(s, pos, n + 1) - Thresh(b) + 1, pos |-> pos + n + 1]

Gamma(x) == Zeros(FloorLog(x)) \o Bits(x, FloorLog(x) + 1)
GammaDecode(s, pos) ==
  LET n == ZeroRun(s, pos)
  IN [x |-> Number(s, pos + n, n + 1), pos |-> pos + 2 * n + 1]
GammaLength(x) == 2 * FloorLog(x) + 1

Delta(x) ==
  Gamma(FloorLog(x) + 1) \o Binary(x + 1, Pow2[FloorLog(x)])
DeltaDecode(s, pos) ==
  LET g == GammaDecode(s, pos)
      r == BinaryDecode(s, g.pos, Pow2[g.x - 1])
  IN [x |-> r.x - 1 + Pow2[g.x - 1], pos |-> r.pos]

DeltaLength(x) ==
  GammaLength(FloorLog(x) + 1) + BinaryBits(x + 1, Pow2[FloorLog(x)])

-----------------------------------------------------------------------------

(***************************************************************************)
(* The block code of the inverted file: the quotient in unary, the         *)
(* remainder in minimal binary.                                            *)
(***************************************************************************)
Bblock(x, b) ==
  Unary((x - 1) \div b + 1) \o Binary(((x - 1) % b) + 1, b)
BblockDecode(s, pos, b) ==
  LET q == UnaryDecode(s, pos)
      r == BinaryDecode(s, q.pos, b)
  IN [x |-> (q.x - 1) * b + r.x, pos |-> r.pos]
BblockLength(x, b) ==
  UnaryLength((x - 1) \div b + 1) + BinaryBits(((x - 1) % b) + 1, b)

\* The block sizes: BIO_Bblock_Init rounds N ln 2 / p, of which it keeps seven
\* digits, BIO_Bblock_Init_W takes a power of two.
BblockInit(N, p) ==
  LET b == (5000000 * p + 6931471 * N) \div (10000000 * p)
  IN IF b = 0 THEN 1 ELSE b
BblockInitW(N, p) ==
  IF (N - p) \div p = 0 THEN 1 ELSE Pow2[FloorLog((N - p) \div p)]

\* Division of C, which truncates towards zero.
CDiv(x, y) == IF x >= 0 THEN x \div y ELSE -((-x) \div y)

\* The most bits p gaps with a sum of at most N can take with block size b.
BblockBoundB(N, p, b) ==
  p * (1 + CeilLog(b)) + CDiv(N - p * (Thresh(b) + 1), b)
BblockBound(N, p) == BblockBoundB(N, p, BblockInitW(N, p))

Power(x, n) == LET power[i \in Nat] == IF i = 0 THEN 1 ELSE x * power[i - 1] IN power[n]

\* The most bits p positive numbers with sum w can take in the gamma code:
\* p * (2 * log2(w / p) + 1), rounded down.
GammaBound(w, p) ==
  LET most == Power(w, 2 * p)
      least == Power(p, 2 * p)
  IN p + CHOOSE k \in 0 .. 2 * w * p :
           Pow2[k] * least <= most /\ most < Pow2[k + 1] * least
=============================================================================
