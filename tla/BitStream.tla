----------------------------- MODULE BitStream ------------------------------
(***************************************************************************)
(* Numbers written to a bit stream one after the other, each in a code of  *)
(* its own, and read back in the same order: how the ENCODE_ and DECODE_   *)
(* macros of lib/bitio_m.h are used by every file of an MG database.  The  *)
(* stream holds nothing that tells one code from the next, so a code that  *)
(* is one bit too long or too short spoils all that follow it.             *)
(***************************************************************************)
EXTENDS BitCodes

CONSTANTS
  MaxValue,   \* the largest number coded
  MaxBlock,   \* the largest block size of the binary and block codes
  MaxItems    \* how many numbers a stream takes

ASSUME StreamAssumption == MaxValue \in Nat /\ MaxBlock \in Nat /\ MaxItems \in Nat

VARIABLES
  items,    \* what was encoded: the code, its block size, the number
  stream,   \* the bits written
  count,    \* bits the length macros account for
  got,      \* numbers decoded so far
  pos       \* position of the next bit to read

streamVars == <<items, stream, count, got, pos>>

Codes ==
  [code : {"unary", "gamma", "delta"}, b : {1}, x : 1 .. MaxValue]
    \cup {c \in [code : {"binary", "bblock"}, b : 1 .. MaxBlock, x : 1 .. MaxValue] :
            c.code = "binary" => c.x <= c.b}

Encoded(c) ==
  CASE c.code = "unary"  -> Unary(c.x)
    [] c.code = "gamma"  -> Gamma(c.x)
    [] c.code = "delta"  -> Delta(c.x)
    [] c.code = "binary" -> Binary(c.x, c.b)
    [] c.code = "bblock" -> Bblock(c.x, c.b)

Length(c) ==
  CASE c.code = "unary"  -> UnaryLength(c.x)
    [] c.code = "gamma"  -> GammaLength(c.x)
    [] c.code = "delta"  -> DeltaLength(c.x)
    [] c.code = "binary" -> BinaryBits(c.x, c.b)
    [] c.code = "bblock" -> BblockLength(c.x, c.b)

Decoded(c, s, p) ==
  CASE c.code = "unary"  -> UnaryDecode(s, p)
    [] c.code = "gamma"  -> GammaDecode(s, p)
    [] c.code = "delta"  -> DeltaDecode(s, p)
    [] c.code = "binary" -> BinaryDecode(s, p, c.b)
    [] c.code = "bblock" -> BblockDecode(s, p, c.b)

StreamInit ==
  /\ items = <<>>
  /\ stream = <<>>
  /\ count = 0
  /\ got = <<>>
  /\ pos = 1

Encode ==
  /\ Len(items) < MaxItems
  /\ got = <<>>
  /\ \E c \in Codes :
       /\ items' = Append(items, c)
       /\ stream' = stream \o Encoded(c)
       /\ count' = count + Length(c)
  /\ UNCHANGED <<got, pos>>

Decode ==
  /\ Len(got) < Len(items)
  /\ LET d == Decoded(items[Len(got) + 1], stream, pos)
     IN /\ got' = Append(got, d.x)
        /\ pos' = d.pos
  /\ UNCHANGED <<items, stream, count>>

StreamNext == Encode \/ Decode

StreamSpec == StreamInit /\ [][StreamNext]_streamVars

-----------------------------------------------------------------------------

(***************************************************************************)
(* What was decoded is what was encoded, number by number, whatever codes  *)
(* stand before and after it; after the last number the whole stream has   *)
(* been read and not a bit more; and the length macros (BIO_*_Length and   *)
(* the counts of the _L macros), from which offsets and buffer sizes are   *)
(* computed without encoding anything, agree with the bits written.        *)
(***************************************************************************)
RoundTrip ==
  /\ \A i \in 1 .. Len(got) : got[i] = items[i].x
  /\ Len(got) = Len(items) => pos = Len(stream) + 1

LengthsAgree == count = Len(stream)

CodesReadBack == RoundTrip /\ LengthsAgree
=============================================================================
