------------------------------ MODULE Huffman -------------------------------
(***************************************************************************)
(* Generate_Huffman_Data step by step, for every small table of            *)
(* frequencies, and messages coded with the tables it returns and read     *)
(* back from them.                                                         *)
(***************************************************************************)
EXTENDS HuffCode

LOCAL INSTANCE Functions

CONSTANTS
  HuffSymbols,   \* the largest alphabet
  HuffFreq,      \* the largest frequency of a symbol
  HuffMessage    \* how many symbols are coded

VARIABLES
  num,      \* the size of the alphabet
  freqs,    \* the frequency of every symbol
  heap,     \* the array of Generate_Huffman_Data
  HNum,     \* how many places the heap still takes
  data,     \* the tables it returns
  message,  \* symbols coded
  code,     \* their bits
  decoded,  \* symbols read back
  at,       \* position of the next bit to read
  stage     \* "build", "merge", "use"

huffVars == <<num, freqs, heap, HNum, data, message, code, decoded, at, stage>>

-----------------------------------------------------------------------------

HuffInit ==
  /\ num \in 1 .. HuffSymbols
  /\ freqs \in {f \in [0 .. num - 1 -> 0 .. HuffFreq] : OneSymbolFits(f)}
  /\ heap = Pointers(freqs, num)
  /\ HNum = Cardinality(Used(freqs))
  /\ data = <<>>
  /\ message = <<>>
  /\ code = <<>>
  /\ decoded = <<>>
  /\ at = 1
  /\ stage = "build"

BuildHeap ==
  /\ stage = "build"
  /\ heap' = BuildFrom(heap, HNum, HNum \div 2)
  /\ stage' = "merge"
  /\ UNCHANGED <<num, freqs, HNum, data, message, code, decoded, at>>

MergeTwo ==
  /\ stage = "merge"
  /\ HNum > 1
  /\ heap' = MergeLightest(heap, HNum)
  /\ HNum' = HNum - 1
  /\ UNCHANGED <<num, freqs, data, message, code, decoded, at, stage>>

Generate_Huffman_Data ==
  /\ stage = "merge"
  /\ HNum <= 1
  /\ data' = Tables(LeafLengths(heap, num), num)
  /\ stage' = "use"
  /\ UNCHANGED <<num, freqs, heap, HNum, message, code, decoded, at>>

-----------------------------------------------------------------------------

EncodeSymbol ==
  /\ stage = "use"
  /\ decoded = <<>>
  /\ Len(message) < HuffMessage
  /\ \E x \in Used(freqs) :
       /\ num > 1
       /\ message' = Append(message, x)
       /\ code' = code \o HuffEncode(x, Generate_Huffman_Codes(data), data.clens)
  /\ UNCHANGED <<num, freqs, heap, HNum, data, decoded, at, stage>>

DecodeSymbol ==
  /\ stage = "use"
  /\ Len(decoded) < Len(message)
  /\ LET d == HuffDecode(data, Generate_Huffman_Vals(data), code, at)
     IN /\ decoded' = Append(decoded, d.x)
        /\ at' = d.pos
  /\ UNCHANGED <<num, freqs, heap, HNum, data, message, code, stage>>

HuffNext ==
  BuildHeap \/ MergeTwo \/ Generate_Huffman_Data \/ EncodeSymbol \/ DecodeSymbol

-----------------------------------------------------------------------------

\* Prefix codes of these lengths exist, and leave no bit string unused.
Kraft(lens) == SumFunction([i \in DOMAIN lens |-> Pow2[num - lens[i]]])
Cost(lens) == SumFunction([i \in DOMAIN lens |-> freqs[i] * lens[i]])

(***************************************************************************)
(* The lengths Generate_Huffman_Data returns belong to a prefix code of    *)
(* the symbols in use that leaves no string of bits without a meaning, and *)
(* no such code takes fewer bits: neither the heap nor the tree has lost a *)
(* node to the other although they share one array.                        *)
(***************************************************************************)
CodesAreOptimal ==
  stage = "use" /\ message = <<>> /\ Cardinality(Used(freqs)) > 1 =>
    LET lens == [i \in Used(freqs) |-> data.clens[i]]
    IN /\ \A i \in DOMAIN freqs : data.clens[i] \in 0 .. num /\ (data.clens[i] = 0 <=> freqs[i] = 0)
       /\ Kraft(lens) = Pow2[num]
       /\ \A other \in [Used(freqs) -> 1 .. num - 1] :
            Kraft(other) <= Pow2[num] => Cost(lens) <= Cost(other)

(***************************************************************************)
(* HUFF_DECODE, which knows of the code only how many codes of each length *)
(* there are, reads back what HUFF_ENCODE wrote, symbol by symbol, and     *)
(* after the last one has used every bit.                                  *)
(***************************************************************************)
HuffmanReadsBack ==
  /\ \A i \in 1 .. Len(decoded) : decoded[i] = message[i]
  /\ decoded # <<>> /\ Len(decoded) = Len(message) => at = Len(code) + 1

HuffmanRight == CodesAreOptimal /\ HuffmanReadsBack
=============================================================================
