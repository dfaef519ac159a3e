------------------------------- MODULE Driver -------------------------------
(***************************************************************************)
(* driver() of mg_passes.c: the loop that reads the source text through a  *)
(* single buffer and hands each document to the selected passes.           *)
(*                                                                         *)
(* A byte is represented by its position in the stream of source text, so  *)
(* that what a pass is handed says exactly which bytes of which document   *)
(* it got.  The files are given by the stream positions at which they end. *)
(* The pointers into the buffer are indices from 0.  A step of the model   *)
(* is one trip of the outer loop (Scan, then Process) or of the loop that  *)
(* refills the buffer (Fill).                                              *)
(***************************************************************************)
EXTENDS Integers, Sequences

CONSTANTS
  BufSize,  \* buf_size, the size of the buffer
  MinBuf,   \* MIN_BUF: with less room than this the buffer is compacted
  Inputs    \* source texts: [ends: where each file ends, terms: the ^B's]

ASSUME SizesAssumption ==
  /\ BufSize \in Nat
  /\ MinBuf \in Nat \ {0}
  /\ BufSize >= MinBuf      \* main() refuses a smaller buffer

ASSUME InputsAssumption ==
  \A in \in Inputs :
    /\ in.ends \in Seq(Nat) /\ in.ends # <<>>
    /\ \A f, g \in 1 .. Len(in.ends) : f <= g => in.ends[f] <= in.ends[g]
    /\ in.terms \in SUBSET Nat

VARIABLES
  input,    \* the source text (never changes)
  file,     \* the file in_fd refers to
  got,      \* bytes_received
  buffer,   \* the bytes in the buffer
  base,     \* start of the current document
  look_pos, \* everything from base up to here is known to hold no ^B
  end_pos,  \* end of the bytes read
  buf_left, \* room after end_pos
  num,      \* the result of the last read()
  docs,     \* the documents handed to the passes
  pc        \* "scan", "fill", "process", or how the program ended

vars == <<input, file, got, buffer, base, look_pos, end_pos, buf_left, num,
          docs, pc>>

Ended == {"done", "toolong", "failed"}

-----------------------------------------------------------------------------
(***************************************************************************)
(* Where the scan for TERMRECORD over buf stops that starts at from.       *)
(***************************************************************************)
IsStop(buf, from, to, i) ==
  /\ i \in from .. to
  /\ i < to => buf[i] \in input.terms
  /\ \A j \in from .. i - 1 : buf[j] \notin input.terms

ScanFrom(buf, from, to) == CHOOSE i \in from .. to : IsStop(buf, from, to, i)

(***************************************************************************)
(* bcopy(base, buffer, end_pos - base) and the pointers after it: when     *)
(* fewer than MinBuf bytes of room are left the current document moves to  *)
(* the front of the buffer.                                                *)
(***************************************************************************)
CompactsNever == FALSE   \* mutant: the buffer is never compacted

Compacts == buf_left < MinBuf

NewBase == IF Compacts THEN 0 ELSE base
NewEnd  == IF Compacts THEN end_pos - base ELSE end_pos
Room    == IF Compacts THEN BufSize - (end_pos - base) ELSE buf_left

MovedNothing == buffer   \* mutant: the pointers move but the bytes do not

Moved ==
  IF Compacts
  THEN [i \in 0 .. BufSize - 1 |->
          IF i < end_pos - base THEN buffer[base + i] ELSE buffer[i]]
  ELSE buffer

(***************************************************************************)
(* What read() may return for file f: 0 at its end, and at least one byte  *)
(* otherwise.                                                              *)
(***************************************************************************)
Readable(f) ==
  {n \in 0 .. Room :
     /\ got + n <= input.ends[f]
     /\ n = 0 => got = input.ends[f]}

-----------------------------------------------------------------------------
Init ==
  /\ input \in Inputs
  /\ file = 1
  /\ got = 0
  /\ buffer \in [0 .. BufSize - 1 -> {0}]
  /\ base = 0 /\ look_pos = 0 /\ end_pos = 0
  /\ buf_left = BufSize
  /\ num = 1
  /\ docs = <<>>
  /\ pc = "scan"

(***************************************************************************)
(* The outer loop starts on the next document.                             *)
(***************************************************************************)
Scan ==
  /\ pc = "scan"
  /\ base' = look_pos
  /\ look_pos' = ScanFrom(buffer, look_pos, end_pos)
  /\ pc' = IF look_pos' = end_pos THEN "fill" ELSE "process"
  /\ UNCHANGED <<input, file, got, buffer, end_pos, buf_left, num, docs>>

(***************************************************************************)
(* How the loop goes on after a read of n bytes.  The test for a document  *)
(* that fills the whole buffer comes before the test for the end of input. *)
(***************************************************************************)
ContinueAnyway(n) ==     \* mutant: the end of input does not end the loop
  pc' = IF buf_left' = 0 /\ base' = 0 /\ look_pos' = end_pos'
        THEN "toolong"
        ELSE IF look_pos' = end_pos' THEN "fill" ELSE "process"

Continue(n) ==
  pc' = IF buf_left' = 0 /\ base' = 0 /\ look_pos' = end_pos'
        THEN "toolong"
        ELSE IF look_pos' = end_pos' /\ n # 0 THEN "fill" ELSE "process"

(***************************************************************************)
(* n bytes arrive in the room there is and the scan goes on over them.     *)
(***************************************************************************)
Receive(n) ==
  /\ num' = n
  /\ got' = got + n
  /\ buffer' = [i \in 0 .. BufSize - 1 |->
                  IF i \in NewEnd .. NewEnd + n - 1 THEN got + (i - NewEnd)
                  ELSE Moved[i]]
  /\ base' = NewBase
  /\ end_pos' = NewEnd + n
  /\ buf_left' = Room - n
  /\ look_pos' = ScanFrom(buffer', NewEnd, NewEnd + n)
  /\ Continue(n)

(***************************************************************************)
(* One trip of the loop that refills the buffer.  A read that returns 0    *)
(* is followed by open_next_file() and one more read, whose result counts  *)
(* even if it is 0 too.  The code reads "if (buf_left)": RoomToRead says   *)
(* that there always is room at this point.                                *)
(***************************************************************************)
FillKeepsFile ==         \* mutant: in_fd is not set to the file opened
  /\ pc = "fill"
  /\ \E n \in Readable(file) :
       \/ /\ n # 0 \/ file = Len(input.ends)
          /\ Receive(n)
       \/ /\ n = 0 /\ file < Len(input.ends)
          /\ \E m \in Readable(file + 1) : Receive(m)
  /\ UNCHANGED <<input, file, docs>>

Fill ==
  /\ pc = "fill"
  /\ \E n \in Readable(file) :
       \/ /\ n # 0 \/ file = Len(input.ends)
          /\ Receive(n)
          /\ UNCHANGED file
       \/ /\ n = 0 /\ file < Len(input.ends)
          /\ file' = file + 1
          /\ \E m \in Readable(file + 1) : Receive(m)
  /\ UNCHANGED <<input, docs>>

(***************************************************************************)
(* open_next_file() cannot open the next file.                             *)
(***************************************************************************)
OpenFails ==
  /\ pc = "fill"
  /\ file < Len(input.ends)
  /\ got = input.ends[file]
  /\ pc' = "failed"
  /\ UNCHANGED <<input, file, got, buffer, base, look_pos, end_pos, buf_left,
                 num, docs>>

(***************************************************************************)
(* The document between base and look_pos goes to the passes, or there is  *)
(* none left.                                                              *)
(***************************************************************************)
ProcessEmptyTail ==      \* mutant: no test for an empty rest of the text
  /\ pc = "process"
  /\ docs' = Append(docs, [i \in 1 .. look_pos - base |->
                              buffer[base + i - 1]])
  /\ pc' = IF num = 0 /\ look_pos = end_pos THEN "done" ELSE "scan"
  /\ look_pos' = look_pos + 1
  /\ UNCHANGED <<input, file, got, buffer, base, end_pos, buf_left, num>>

Process ==
  /\ pc = "process"
  /\ IF num = 0 /\ base = end_pos
     THEN pc' = "done" /\ UNCHANGED docs
     ELSE /\ docs' = Append(docs, [i \in 1 .. look_pos - base |->
                                     buffer[base + i - 1]])
          /\ pc' = IF num = 0 /\ look_pos = end_pos THEN "done" ELSE "scan"
  /\ look_pos' = look_pos + 1
  /\ UNCHANGED <<input, file, got, buffer, base, end_pos, buf_left, num>>

(***************************************************************************)
(* process() of a pass returns COMPERROR: exit(1).                         *)
(***************************************************************************)
ProcessFails ==
  /\ pc = "process"
  /\ ~(num = 0 /\ base = end_pos)
  /\ pc' = "failed"
  /\ look_pos' = look_pos + 1
  /\ UNCHANGED <<input, file, got, buffer, base, end_pos, buf_left, num, docs>>

Next == Scan \/ Fill \/ OpenFails \/ Process \/ ProcessFails

(***************************************************************************)
(* A sequential program: it goes on while it can take a step.              *)
(***************************************************************************)
Spec == Init /\ [][Next]_vars /\ WF_vars(Next)

-----------------------------------------------------------------------------
(* Properties                                                              *)

WithinFile == got <= input.ends[file]

TypeOK ==
  /\ input.ends \in Seq(Nat) /\ input.terms \in SUBSET Nat
  /\ file \in 1 .. Len(input.ends)
  /\ got \in Nat /\ WithinFile
  /\ buffer \in [0 .. BufSize - 1 -> Nat]
  /\ base \in Nat /\ look_pos \in Nat /\ end_pos \in 0 .. BufSize
  /\ buf_left \in 0 .. BufSize
  /\ num \in Nat
  /\ docs \in Seq(Seq(Nat))
  /\ pc \in {"scan", "fill", "process"} \cup Ended

(***************************************************************************)
(* From the start of the current document to end_pos the buffer holds the  *)
(* last bytes read, in order, wherever compactions have moved them, and    *)
(* the pointers are in order: what a pass is handed is a stretch of the    *)
(* source text, never stale buffer content.                                *)
(***************************************************************************)
Start == IF pc = "scan" THEN look_pos ELSE base

BufferHoldsTail ==
  pc \notin Ended =>
    /\ Start <= end_pos
    /\ end_pos + buf_left = BufSize
    /\ end_pos - Start <= got
    /\ \A i \in Start .. end_pos - 1 : buffer[i] = got - (end_pos - i)

(***************************************************************************)
(* The read after a compaction always has room: a document that leaves     *)
(* none has stopped the program before, so the loop never spins on a full  *)
(* buffer (the guard "if (buf_left)" of driver()).                         *)
(***************************************************************************)
RoomToRead == pc = "fill" => Room > 0

(***************************************************************************)
(* The part of the text the reader gets to see: it ends with the first     *)
(* file that is the last one or is followed by an empty one, because the   *)
(* second read() of a refill that returns 0 is taken for the end of input. *)
(***************************************************************************)
EndsHere(in, f) == f = Len(in.ends) \/ in.ends[f + 1] = in.ends[f]

LastFile(in) ==
  CHOOSE f \in 1 .. Len(in.ends) :
    /\ EndsHere(in, f)
    /\ \A g \in 1 .. f - 1 : ~EndsHere(in, g)

Text(in) == [size |-> in.ends[LastFile(in)], terms |-> in.terms]

(***************************************************************************)
(* The reader implements DocStream over that text: every document reaches  *)
(* the passes exactly once, whole and in order, however the files, the     *)
(* short reads and the compactions cut the text, and the program reports a *)
(* document that is too long only when it is.                              *)
(***************************************************************************)
At ==
  CASE pc = "scan" -> got - (end_pos - look_pos)
    [] pc = "done" -> got
    [] OTHER       -> got - (end_pos - base)

Abs == INSTANCE DocStream WITH
         Limit  <- BufSize,
         Inputs <- {Text(in) : in \in Inputs},
         input  <- Text(input),
         at     <- At,
         docs   <- docs,
         status <- IF pc \in Ended THEN pc ELSE "run"

Implements == Abs!Spec

(***************************************************************************)
(* The reader comes to an end on every finite text.                        *)
(***************************************************************************)
Terminates == <>(pc \in Ended)

(***************************************************************************)
(* mg_passes.1: the file names on the command line specify the source      *)
(* text, all of them.                                                      *)
(***************************************************************************)
WholeText == pc = "done" => got = input.ends[Len(input.ends)]
=============================================================================
