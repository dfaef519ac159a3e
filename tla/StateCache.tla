----------------------------- MODULE StateCache -----------------------------
(***************************************************************************)
(* in_cache (ivf.pass2.c): the state of every word of the inversion is a   *)
(* record of a file, of which a window of ISR_CACHE records is in memory.  *)
(* The caller gets a copy of one record and changes it; the copy goes back *)
(* into the window at the next call, and the window into the file when a   *)
(* record outside it is asked for.                                         *)
(***************************************************************************)
EXTENDS Integers

CONSTANTS
  Entries,    \* how many words there are
  ISR_CACHE,  \* records of the window
  States,     \* what a record may hold
  NoRecord    \* a place of the file that was never written

ASSUME CacheAssumption ==
  /\ Entries \in Nat
  /\ ISR_CACHE \in Nat \ {0}
  /\ NoRecord \notin States
  /\ States # {}

VARIABLES
  isr,        \* the copy the caller works on
  isr_data,   \* the window
  isr_base,   \* the number of its first record
  isr_num,    \* how many it holds, -1 at first
  isr_pos,    \* the place in it the copy was taken from, -1 at first
  invf_state, \* the file
  filled      \* the records the caller has written, and what

cacheVars == <<isr, isr_data, isr_base, isr_num, isr_pos, invf_state, filled>>

EntryNumbers == 0 .. Entries - 1
Window == 0 .. ISR_CACHE - 1
\* The window is written whole and may reach beyond the last word.
Places == 0 .. Entries + ISR_CACHE - 1

CacheInit ==
  /\ isr \in States
  /\ isr_data \in [Window -> {isr}]
  /\ isr_base = 0
  /\ isr_num = -1
  /\ isr_pos = -1
  /\ invf_state = [p \in Places |-> NoRecord]
  /\ filled = <<>>

\* Mutant: the copy is not put back.
WindowWithoutCopy(data, pos, copy) == data

\* The window with the caller's copy put back.
WindowWithCopy(data, pos, copy) ==
  IF pos >= 0 THEN [data EXCEPT ![pos] = copy] ELSE data

InWindow(base, num, n) == base <= n /\ n < base + num

\* The file with the window written to it.
WrittenBack(contents, base, num, data) ==
  IF num >= 0
  THEN [p \in Places |-> IF InWindow(base, num, p) THEN data[p - base] ELSE contents[p]]
  ELSE contents

\* The window read from record n; where the file ends, it keeps what it had.
ReadWindow(contents, n, data) ==
  [w \in Window |-> IF n + w \in Places /\ contents[n + w] # NoRecord THEN contents[n + w] ELSE data[w]]

in_cache(n) ==
  LET data == WindowWithCopy(isr_data, isr_pos, isr)
  IN IF InWindow(isr_base, isr_num, n)
     THEN /\ isr_data' = data
          /\ isr_pos' = n - isr_base
          /\ isr' = data[n - isr_base]
          /\ UNCHANGED <<isr_base, isr_num, invf_state, filled>>
     ELSE LET contents == WrittenBack(invf_state, isr_base, isr_num, data)
          IN /\ invf_state' = contents
             /\ isr_base' = n
             /\ isr_data' = ReadWindow(contents, n, data)
             /\ isr_num' = ISR_CACHE
             /\ isr_pos' = 0
             /\ isr' = ReadWindow(contents, n, data)[0]
             /\ UNCHANGED filled

\* The caller assigns to the record in_cache returned.
Assign(v) ==
  /\ isr_pos >= 0
  /\ isr' = v
  /\ filled' = [n \in DOMAIN filled \cup {isr_base + isr_pos} |->
                  IF n = isr_base + isr_pos THEN v ELSE filled[n]]
  /\ UNCHANGED <<isr_data, isr_base, isr_num, isr_pos, invf_state>>

CacheNext == (\E n \in EntryNumbers : in_cache(n)) \/ (\E v \in States : Assign(v))

CacheSpec == CacheInit /\ [][CacheNext]_cacheVars

-----------------------------------------------------------------------------

(***************************************************************************)
(* The window, the copy and the file together are one store of records: a  *)
(* record that was filled is found again, after any moves of the window,   *)
(* overlapping ones and ones over the end of the file included.            *)
(***************************************************************************)
OpenRecord == IF isr_pos < 0 THEN -1 ELSE isr_base + isr_pos

Store == INSTANCE RecordStore WITH
           Numbers <- EntryNumbers, NoNumber <- -1, Values <- States, records <- filled,
           open <- OpenRecord, shows <- isr

CacheIsStore == Store!StoreSpec
=============================================================================
