----------------------------- MODULE DocStream ------------------------------
(***************************************************************************)
(* What the document reader of mg_passes promises to the passes.           *)
(*                                                                         *)
(* The source text is a stream of bytes, numbered from 0 in the order the  *)
(* input files supply them.  Only two things about it matter: which bytes  *)
(* are the record terminator ^B, and where the stream ends.  The reader    *)
(* cuts the stream at the terminators and hands the documents, in order    *)
(* and each exactly once, to the passes.  A document is the sequence of    *)
(* the stream positions of its bytes.                                      *)
(***************************************************************************)
EXTENDS Integers, Sequences

CONSTANTS
  Limit,   \* a document of this many bytes or more does not fit the buffer
  Inputs   \* the source texts considered: [size, terms]

VARIABLES
  input,   \* the source text
  at,      \* the stream position the next document starts at
  docs,    \* the documents delivered so far
  status   \* "run", "done", "toolong" or "failed"

vars == <<input, at, docs, status>>

(***************************************************************************)
(* The bytes first, ..., last - 1 of the stream as a document.             *)
(***************************************************************************)
Bytes(first, last) == [i \in 1 .. last - first |-> first + i - 1]

(***************************************************************************)
(* The document that starts at "at" extends to (and excludes) the position *)
(* to: the next terminator, or the end of the text when there is none.     *)
(***************************************************************************)
Open(first, last) == \A p \in first .. last - 1 : p \notin input.terms

Terminated(to) == to \in input.terms /\ to < input.size

Extends(to) ==
  /\ at <= to
  /\ Open(at, to)
  /\ Terminated(to) \/ to = input.size

-----------------------------------------------------------------------------
Init ==
  /\ input \in Inputs
  /\ at = 0
  /\ docs = <<>>
  /\ status = "run"

(***************************************************************************)
(* The next document goes to the passes; the text after the last           *)
(* terminator, unless it is empty, is a document as well, and the last.    *)
(***************************************************************************)
Deliver ==
  /\ status = "run"
  /\ \E to \in at .. input.size :
       /\ Extends(to)
       /\ to - at < Limit
       /\ docs' = Append(docs, Bytes(at, to))
       /\ \/ Terminated(to) /\ at' = to + 1 /\ UNCHANGED status
          \/ ~Terminated(to) /\ at < to /\ at' = to /\ status' = "done"
  /\ UNCHANGED input

Finish ==
  /\ status = "run"
  /\ at = input.size
  /\ status' = "done"
  /\ UNCHANGED <<input, at, docs>>

(***************************************************************************)
(* The program ends with an error: the next document is too long for the   *)
(* buffer, or (at any time) a file cannot be opened or a pass fails.       *)
(***************************************************************************)
TooLong ==
  /\ status = "run"
  /\ \E to \in at .. input.size : Extends(to) /\ to - at >= Limit
  /\ status' = "toolong"
  /\ UNCHANGED <<input, at, docs>>

Fail ==
  /\ status = "run"
  /\ status' = "failed"
  /\ UNCHANGED <<input, docs>>
  /\ at' = at

Next == Deliver \/ Finish \/ TooLong \/ Fail

Spec == Init /\ [][Next]_vars
=============================================================================
