----------------------------- MODULE InvfCompact ----------------------------
(***************************************************************************)
(* The last step of inversion, done_ivf_2 of src/text/ivf.pass2.c: every   *)
(* word's postings lie in a region of the inverted file that was reserved  *)
(* for the worst case, and are now moved together.  The file is compacted  *)
(* in place: it is open twice, invf_in reads the regions in the order of   *)
(* the dictionary while invf_out overwrites the same file from its start,  *)
(* each through a stdio buffer of its own that the other does not see.     *)
(*                                                                         *)
(* Bytes are distinguished by where they came from: byte k of the file     *)
(* holds k to begin with.  -k is byte k with the bits after the end of the *)
(* postings cleared, and Header any byte of the magic number and header.   *)
(***************************************************************************)
EXTENDS Integers, Sequences

CONSTANTS
  NumWords,    \* words in the dictionary
  HeaderLen,   \* bytes of the magic number and the header
  FirstByte,   \* where the first region starts: the magic number and the gap
  Layouts      \* the regions there may be, see IsLayout

Words == 1 .. NumWords

\* Per word the first byte of its region and the bit after its last posting;
\* regions follow one another and no postings are longer than their region.
IsLayout(l) ==
  /\ l.start \in [1 .. NumWords + 1 -> Nat]
  /\ l.start[1] = FirstByte
  /\ l.Disk_Ptr \in [Words -> Nat]
  /\ \A w \in Words : /\ 8 * l.start[w] <= l.Disk_Ptr[w]
                      /\ l.Disk_Ptr[w] <= 8 * l.start[w + 1]

ASSUME CompactConstants ==
  /\ NumWords \in Nat
  /\ HeaderLen \in Nat /\ FirstByte \in Nat
  /\ 0 < HeaderLen /\ HeaderLen <= FirstByte
  /\ \A l \in Layouts : IsLayout(l)

Header == 0

VARIABLES
  layout,        \* the regions
  file,          \* the bytes of the file, counted from 0
  word,          \* the word being copied
  s, e,          \* next byte to read of it, and the byte after its last
  in_buf,        \* bytes invf_in has read ahead
  pending,       \* bytes invf_out has yet to write
  bytes_output,  \* bytes given to invf_out
  offsets,       \* invf_idx: where each word's postings start, then the length
  pc             \* "copy", "close", "done"

vars == <<layout, file, word, s, e, in_buf, pending, bytes_output, offsets, pc>>

Size == layout.start[NumWords + 1]

\* Mutant: one byte too many when the last bit ends a byte.
EndByteOver(w) == layout.Disk_Ptr[w] \div 8 + 1

EndByte(w) == (layout.Disk_Ptr[w] + 7) \div 8

\* A buffer is a function from file positions.
NoBytes == [k \in {} |-> 0]
Positions(bytes) == DOMAIN bytes
Overlay(f, bytes) ==
  [k \in DOMAIN f \cup Positions(bytes) |-> IF k \in Positions(bytes) THEN bytes[k] ELSE f[k]]

Init ==
  /\ layout \in Layouts
  /\ file = [k \in 0 .. Size - 1 |-> k]
  /\ word = 0
  /\ s = 0 /\ e = 0
  /\ in_buf = NoBytes
  /\ pending = [k \in 0 .. HeaderLen - 1 |-> Header]
  /\ bytes_output = HeaderLen
  /\ offsets = <<>>
  /\ pc = "copy"

\* Off to the next word: its offset goes to invf_idx, and fseek may or may not
\* keep what invf_in has read ahead.
NextWord ==
  /\ pc = "copy"
  /\ s = e /\ word < NumWords
  /\ word' = word + 1
  /\ offsets' = Append(offsets, bytes_output)
  /\ s' = layout.start[word + 1]
  /\ e' = EndByte(word + 1)
  /\ in_buf' \in {in_buf, NoBytes}
  /\ UNCHANGED <<layout, file, pending, bytes_output, pc>>

\* stdio fills the buffer of invf_in with what the file holds now, as many
\* bytes from position s on as it likes.
Refill ==
  /\ pc = "copy"
  /\ s < e /\ s \notin Positions(in_buf)
  /\ \E n \in s + 1 .. Size : in_buf' = [k \in s .. n - 1 |-> file[k]]
  /\ UNCHANGED <<layout, file, word, s, e, pending, bytes_output, offsets, pc>>

\* Mutant: the bits after the last posting are kept.
CleanedNot(c) == c

\* The bits after the last posting are cleared in the last byte.
Cleaned(c) == IF s = e - 1 /\ layout.Disk_Ptr[word] % 8 # 0 THEN -c ELSE c

CopyByte ==
  /\ pc = "copy"
  /\ s < e /\ s \in Positions(in_buf)
  /\ pending' = Overlay(pending, [k \in {bytes_output} |-> Cleaned(in_buf[s])])
  /\ bytes_output' = bytes_output + 1
  /\ s' = s + 1
  /\ UNCHANGED <<layout, file, word, e, in_buf, offsets, pc>>

\* stdio writes the bytes invf_out holds whenever it likes.
Flush ==
  /\ pc = "copy"
  /\ pending # NoBytes
  /\ file' = Overlay(file, pending)
  /\ pending' = NoBytes
  /\ UNCHANGED <<layout, word, s, e, in_buf, bytes_output, offsets, pc>>

\* The file is cut at the bytes given to invf_out before its buffer is written.
Truncate ==
  /\ pc = "copy"
  /\ s = e /\ word = NumWords
  /\ file' = [k \in 0 .. bytes_output - 1 |->
                IF k \in DOMAIN file THEN file[k] ELSE 0]
  /\ pc' = "close"
  /\ UNCHANGED <<layout, word, s, e, in_buf, pending, bytes_output, offsets>>

Close ==
  /\ pc = "close"
  /\ file' = Overlay(file, pending)
  /\ pending' = NoBytes
  /\ offsets' = Append(offsets, bytes_output)
  /\ pc' = "done"
  /\ UNCHANGED <<layout, word, s, e, in_buf, bytes_output>>

Next == NextWord \/ Refill \/ CopyByte \/ Flush \/ Truncate \/ Close

\* The program runs to its end; the buffers of stdio are written when it closes.
Spec == Init /\ [][Next]_vars
             /\ WF_vars(NextWord \/ Refill \/ CopyByte \/ Truncate \/ Close)

-----------------------------------------------------------------------------

(***************************************************************************)
(* Compacting in place never overwrites a byte it has still to read: all   *)
(* bytes from the read position on are as they were, in the file and in    *)
(* what invf_in has read ahead, however the buffers are filled and written *)
(***************************************************************************)
UnreadIntact ==
  pc = "copy" =>
    /\ \A k \in DOMAIN file : k >= s /\ k >= FirstByte => file[k] = k
    /\ \A k \in Positions(in_buf) : in_buf[k] = k

\* The postings of word w as they should be: whole bytes, the last one cleaned.
Moved(w) ==
  [i \in 1 .. EndByte(w) - layout.start[w] |->
     LET k == layout.start[w] + i - 1
     IN IF k = EndByte(w) - 1 /\ layout.Disk_Ptr[w] % 8 # 0 THEN -k ELSE k]

(***************************************************************************)
(* In the end the file is the header and the postings of every word at the *)
(* offset invf_idx gives for it, up to the offset of the next, and nothing *)
(* is left of the reserved space.                                          *)
(***************************************************************************)
Compacted ==
  pc = "done" =>
    /\ DOMAIN file = 0 .. bytes_output - 1
    /\ Len(offsets) = NumWords + 1 /\ offsets[NumWords + 1] = bytes_output
    /\ \A k \in 0 .. HeaderLen - 1 : file[k] = Header
    /\ \A w \in Words :
         Moved(w) = [i \in 1 .. offsets[w + 1] - offsets[w] |->
                       file[offsets[w] + i - 1]]

(***************************************************************************)
(* The compaction comes to its end.                                        *)
(***************************************************************************)
Finishes == pc = "copy" ~> pc = "done"
=============================================================================
