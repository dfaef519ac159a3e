---------------------------- MODULE RecordStore -----------------------------
(***************************************************************************)
(* What ivf.pass2.c wants of in_cache: a record for every number, the one  *)
(* asked for last being open, and what was last put into a record is there *)
(* when it is opened again.                                                *)
(***************************************************************************)
CONSTANTS
  Numbers,   \* the records
  NoNumber,  \* no record is open
  Values     \* what a record may hold

VARIABLES
  records,   \* the records that were ever filled, and what they hold
  open,      \* the number of the open record
  shows      \* what the open record shows

storeVars == <<records, open, shows>>

StoreInit ==
  /\ records = <<>>
  /\ open = NoNumber
  /\ shows \in Values

Open(n) ==
  /\ open' = n
  /\ shows' \in Values
  /\ n \in DOMAIN records => shows' = records[n]
  /\ UNCHANGED records

Fill(v) ==
  /\ open \in Numbers
  /\ shows' = v
  /\ records' = [n \in DOMAIN records \cup {open} |-> IF n = open THEN v ELSE records[n]]
  /\ UNCHANGED open

StoreNext == (\E n \in Numbers : Open(n)) \/ (\E v \in Values : Fill(v))

StoreSpec == StoreInit /\ [][StoreNext]_storeVars
=============================================================================
