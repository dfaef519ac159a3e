---------------------------- MODULE DriverProofs ----------------------------
(***************************************************************************)
(* Proofs about the document reader: its buffer invariant, and that it     *)
(* implements DocStream, for buffers and source texts of every size.       *)
(***************************************************************************)
EXTENDS Driver, CodeFacts, SequenceTheorems

(***************************************************************************)
(* The scan for a terminator stops at the first one, or at the end.        *)
(***************************************************************************)
LEMMA ScanStops ==
  ASSUME NEW buf, NEW from \in Nat, NEW to \in Nat, from <= to
  PROVE  IsStop(buf, from, to, ScanFrom(buf, from, to))
<1>. DEFINE T == {i \in from .. to : i < to => buf[i] \in input.terms}
<1>1. T \in SUBSET Nat /\ to \in T
  OBVIOUS
<1>2. PICK i \in T : \A j \in T : i <= j
  BY <1>1, LeastNatural
<1>3. IsStop(buf, from, to, i)
  <2>1. \A j \in from .. i - 1 : j \notin T /\ j \in from .. to /\ j < to
    BY <1>1, <1>2
  <2>. QED BY <1>2, <2>1 DEF IsStop
<1>4. i \in from .. to
  OBVIOUS
<1>. QED BY <1>3, <1>4 DEF ScanFrom

(***************************************************************************)
(* Nothing before the stop is a terminator.                                *)
(***************************************************************************)
LEMMA StopsAtFirst ==
  ASSUME NEW buf, NEW from \in Nat, NEW to \in Nat, NEW i,
         IsStop(buf, from, to, i), NEW j \in Nat, from <= j, j < i
  PROVE  buf[j] \notin input.terms
<1>1. i \in Int /\ j \in from .. i - 1
  BY DEF IsStop
<1>. QED BY <1>1 DEF IsStop

(***************************************************************************)
(* What IsStop says, spelled out.                                          *)
(***************************************************************************)
LEMMA ScanFacts ==
  ASSUME NEW buf, NEW from \in Nat, NEW to \in Nat, from <= to,
         NEW i, i = ScanFrom(buf, from, to)
  PROVE  /\ i \in Nat /\ from <= i /\ i <= to
         /\ i < to => buf[i] \in input.terms
         /\ \A j \in Nat : from <= j /\ j < i => buf[j] \notin input.terms
<1>1. IsStop(buf, from, to, i)
  BY ScanStops
<1>. QED BY <1>1 DEF IsStop

(***************************************************************************)
(* The file at which the reader ends is well defined.                      *)
(***************************************************************************)
LEMMA LastFileExists ==
  ASSUME NEW in \in Inputs
  PROVE  /\ LastFile(in) \in 1 .. Len(in.ends)
         /\ EndsHere(in, LastFile(in))
         /\ \A g \in 1 .. LastFile(in) - 1 : ~EndsHere(in, g)
<1>. DEFINE F == {f \in 1 .. Len(in.ends) : EndsHere(in, f)}
<1>1. in.ends \in Seq(Nat) /\ in.ends # <<>>
  BY InputsAssumption
<1>2. Len(in.ends) \in Nat \ {0}
  BY <1>1, EmptySeq
<1>3. Len(in.ends) \in F
  BY <1>2 DEF EndsHere
<1>4. F \in SUBSET Nat
  OBVIOUS
<1>5. PICK f \in F : \A g \in F : f <= g
  BY <1>3, <1>4, LeastNatural
<1>6. \A g \in 1 .. f - 1 : ~EndsHere(in, g)
  <2>. TAKE g \in 1 .. f - 1
  <2>1. g \in 1 .. Len(in.ends) /\ ~(f <= g)
    BY <1>2
  <2>. QED BY <2>1, <1>5
<1>. QED BY <1>5, <1>6 DEF LastFile

LEMMA LastFileUnique ==
  ASSUME NEW in \in Inputs, NEW f \in 1 .. Len(in.ends), EndsHere(in, f),
         \A g \in 1 .. f - 1 : ~EndsHere(in, g)
  PROVE  LastFile(in) = f
<1>1. Len(in.ends) \in Nat
  BY InputsAssumption
<1>2. ~(LastFile(in) < f) /\ ~(f < LastFile(in))
  BY <1>1, LastFileExists
<1>. QED BY <1>1, <1>2, LastFileExists

(***************************************************************************)
(* A file that no empty file comes before lies within the text.            *)
(***************************************************************************)
LEMMA WithinText ==
  ASSUME NEW in \in Inputs, NEW f \in 1 .. Len(in.ends),
         \A g \in 1 .. f - 1 : ~EndsHere(in, g)
  PROVE  in.ends[f] <= Text(in).size /\ Text(in).size \in Nat
<1>1. in.ends \in Seq(Nat) /\ Len(in.ends) \in Nat
  BY InputsAssumption
<1>2. LastFile(in) \in 1 .. Len(in.ends) /\ f <= LastFile(in)
  BY <1>1, LastFileExists
<1>3. in.ends[f] <= in.ends[LastFile(in)]
  BY <1>2, InputsAssumption
<1>. QED BY <1>1, <1>2, <1>3 DEF Text

-----------------------------------------------------------------------------
(***************************************************************************)
(* The inductive invariant.  Beyond the buffer's contents it records what  *)
(* the control state knows about the scan, and that the bytes read lie     *)
(* within files that no empty file comes before (or, after a read of 0,    *)
(* that the whole text was read).                                          *)
(***************************************************************************)
ScanInv ==
  pc = "scan" => look_pos > 0 \/ buf_left > 0

FillInv ==
  pc = "fill" =>
    /\ look_pos = end_pos
    /\ \A j \in Nat : base <= j /\ j < end_pos => buffer[j] \notin input.terms
    /\ buf_left = 0 => base > 0

ProcessInv ==
  pc = "process" =>
    /\ base <= look_pos /\ look_pos <= end_pos
    /\ look_pos < end_pos => buffer[look_pos] \in input.terms
    /\ \A j \in Nat : base <= j /\ j < look_pos => buffer[j] \notin input.terms
    /\ look_pos = end_pos => num = 0 /\ (base > 0 \/ buf_left > 0)

InputInv ==
  /\ num # 0 => \A g \in 1 .. file - 1 : ~EndsHere(input, g)
  /\ num = 0 => got = Text(input).size
  /\ num = 0 => pc \notin {"scan", "fill"}
  /\ num = 0 /\ pc = "process" => look_pos = end_pos

Inv ==
  /\ input \in Inputs
  /\ TypeOK
  /\ BufferHoldsTail
  /\ ScanInv
  /\ FillInv
  /\ ProcessInv
  /\ InputInv

LEMMA InitInv == Init => Inv
<1>. SUFFICES ASSUME Init PROVE Inv
  OBVIOUS
<1>. USE SizesAssumption DEF Init
<1>1. input.ends \in Seq(Nat) /\ Len(input.ends) \in Nat \ {0} /\ input.terms \in SUBSET Nat
  BY InputsAssumption, EmptySeq
<1>2. TypeOK
  BY <1>1 DEF TypeOK, WithinFile, Ended
<1>3. BufferHoldsTail
  BY DEF BufferHoldsTail, Start, Ended
<1>4. ScanInv /\ FillInv /\ ProcessInv /\ InputInv
  BY <1>1 DEF ScanInv, FillInv, ProcessInv, InputInv
<1>. QED BY <1>2, <1>3, <1>4 DEF Inv

LEMMA ScanKeepsInv ==
  ASSUME Inv, Scan PROVE Inv'
<1>. USE SizesAssumption DEF Inv, TypeOK, Ended
<1>1. look_pos \in Nat /\ end_pos \in Nat /\ look_pos <= end_pos
  BY DEF Scan, BufferHoldsTail, Start
<1>2. look_pos' = ScanFrom(buffer, look_pos, end_pos)
  BY DEF Scan
<1>3. /\ look_pos' \in Nat /\ look_pos <= look_pos' /\ look_pos' <= end_pos
      /\ look_pos' < end_pos => buffer[look_pos'] \in input.terms
      /\ \A j \in Nat : look_pos <= j /\ j < look_pos' => buffer[j] \notin input.terms
  <2>. HIDE DEF Inv
  <2>. QED BY ONLY <1>1, <1>2, ScanFacts
<1>4. TypeOK'
  <2>1. WithinFile'
    BY DEF Scan, WithinFile
  <2>. QED BY <1>3, <2>1 DEF Scan
<1>5. BufferHoldsTail'
  BY <1>1, <1>3 DEF Scan, BufferHoldsTail, Start
<1>6. ScanInv' /\ FillInv'
  BY <1>1, <1>3 DEF Scan, BufferHoldsTail, Start, ScanInv, FillInv
<1>7. ProcessInv'
  BY <1>1, <1>3 DEF Scan, BufferHoldsTail, Start, ProcessInv
<1>8. InputInv'
  BY <1>3 DEF Scan, InputInv
<1>. QED BY <1>4, <1>5, <1>6, <1>7, <1>8 DEF Scan

(***************************************************************************)
(* Compaction moves the current document to the front of the buffer and    *)
(* leaves room behind it.                                                  *)
(***************************************************************************)
LEMMA CompactionFacts ==
  ASSUME Inv, pc = "fill"
  PROVE  /\ Moved \in [0 .. BufSize - 1 -> Nat]
         /\ NewBase \in Nat /\ NewEnd \in Nat /\ Room \in Nat
         /\ NewBase <= NewEnd /\ NewEnd + Room = BufSize
         /\ NewEnd - NewBase = end_pos - base
         /\ Room > 0
         /\ \A i \in NewBase .. NewEnd - 1 :
              Moved[i] = got - (NewEnd - i) /\ Moved[i] \notin input.terms
<1>0. /\ BufSize \in Nat /\ MinBuf \in Nat \ {0} /\ BufSize >= MinBuf
      /\ base \in Nat /\ end_pos \in Nat /\ buf_left \in Nat /\ got \in Nat
      /\ buffer \in [0 .. BufSize - 1 -> Nat]
  BY SizesAssumption DEF Inv, TypeOK
<1>1. /\ base <= end_pos /\ end_pos + buf_left = BufSize
      /\ end_pos - base <= got
      /\ \A i \in base .. end_pos - 1 : buffer[i] = got - (end_pos - i)
  BY DEF Inv, BufferHoldsTail, Start, Ended
<1>2. /\ \A i \in base .. end_pos - 1 : buffer[i] \notin input.terms
      /\ buf_left = 0 => base > 0
  BY <1>0 DEF Inv, FillInv
<1>3. CASE ~Compacts
  BY <1>0, <1>1, <1>2, <1>3 DEF Moved, NewBase, NewEnd, Room, Compacts
<1>4. CASE Compacts
  <2>1. /\ NewBase = 0 /\ NewEnd = end_pos - base /\ Room = BufSize - NewEnd
        /\ Moved = [i \in 0 .. BufSize - 1 |->
                      IF i < NewEnd THEN buffer[base + i] ELSE buffer[i]]
    BY <1>4 DEF Moved, NewBase, NewEnd, Room
  <2>2. NewEnd \in Nat /\ NewEnd <= BufSize /\ Room \in Nat /\ NewEnd + Room = BufSize
    BY <1>0, <1>1, <2>1
  <2>3. Moved \in [0 .. BufSize - 1 -> Nat]
    <3>1. \A i \in 0 .. BufSize - 1 : i < NewEnd => base + i \in 0 .. BufSize - 1
      BY <1>0, <1>1, <2>1
    <3>. QED BY <1>0, <2>1, <3>1
  <2>4. Room > 0
    BY <1>0, <1>1, <1>2, <1>4, <2>1 DEF Compacts
  <2>5. ASSUME NEW i \in 0 .. NewEnd - 1
        PROVE  Moved[i] = got - (NewEnd - i) /\ Moved[i] \notin input.terms
    <3>1. /\ Moved[i] = buffer[base + i] /\ base + i \in base .. end_pos - 1
          /\ end_pos - (base + i) = NewEnd - i
      BY <1>0, <1>1, <2>1
    <3>. QED BY <1>1, <1>2, <3>1
  <2>6. NewEnd - NewBase = end_pos - base /\ NewBase <= NewEnd
    BY <1>0, <1>1, <2>1
  <2>. QED BY <2>1, <2>2, <2>3, <2>4, <2>5, <2>6
<1>. QED BY <1>3, <1>4

(***************************************************************************)
(* What a refill establishes, whichever file the bytes come from.          *)
(***************************************************************************)
LEMMA ReceiveFacts ==
  ASSUME Inv, pc = "fill", NEW n \in Nat, n <= Room, Receive(n),
         UNCHANGED <<input, docs>>
  PROVE  /\ buffer' \in [0 .. BufSize - 1 -> Nat]
         /\ base' \in Nat /\ end_pos' \in 0 .. BufSize /\ buf_left' \in Nat
         /\ look_pos' \in Nat /\ base' <= look_pos' /\ look_pos' <= end_pos'
         /\ end_pos' + buf_left' = BufSize /\ end_pos' - base' <= got'
         /\ \A i \in base' .. end_pos' - 1 : buffer'[i] = got' - (end_pos' - i)
         /\ \A j \in Nat : base' <= j /\ j < look_pos' => buffer'[j] \notin input.terms
         /\ look_pos' < end_pos' => buffer'[look_pos'] \in input.terms
         /\ got - (end_pos - base) = got' - (end_pos' - base')
         /\ n = 0 => look_pos' = end_pos'
<1>1. /\ Moved \in [0 .. BufSize - 1 -> Nat]
      /\ NewBase \in Nat /\ NewEnd \in Nat /\ Room \in Nat
      /\ NewBase <= NewEnd /\ NewEnd + Room = BufSize
      /\ NewEnd - NewBase = end_pos - base
      /\ \A i \in NewBase .. NewEnd - 1 :
           Moved[i] = got - (NewEnd - i) /\ Moved[i] \notin input.terms
  BY CompactionFacts
<1>2. /\ BufSize \in Nat /\ got \in Nat /\ base \in Nat /\ end_pos \in Nat
      /\ end_pos - base <= got
  BY SizesAssumption DEF Inv, TypeOK, BufferHoldsTail, Start, Ended
<1>3. /\ got' = got + n /\ base' = NewBase /\ end_pos' = NewEnd + n
      /\ buf_left' = Room - n
      /\ buffer' = [i \in 0 .. BufSize - 1 |->
                      IF i \in NewEnd .. NewEnd + n - 1 THEN got + (i - NewEnd)
                      ELSE Moved[i]]
      /\ look_pos' = ScanFrom(buffer', NewEnd, NewEnd + n)
      /\ input' = input /\ n <= Room
  BY DEF Receive, Continue
<1>4. /\ look_pos' \in Nat /\ NewEnd <= look_pos' /\ look_pos' <= NewEnd + n
      /\ look_pos' < NewEnd + n => buffer'[look_pos'] \in input.terms
      /\ \A j \in Nat : NewEnd <= j /\ j < look_pos' => buffer'[j] \notin input.terms
  <2>1. NewEnd + n \in Nat /\ NewEnd <= NewEnd + n /\ NewEnd \in Nat
    BY <1>1
  <2>2. look_pos' = ScanFrom(buffer', NewEnd, NewEnd + n)
    BY <1>3
  <2>3. IsStop(buffer', NewEnd, NewEnd + n, look_pos')
    BY ONLY <2>1, <2>2, ScanStops, Zenon
  <2>4. look_pos' \in NewEnd .. NewEnd + n
    BY ONLY <2>3, Zenon DEF IsStop
  <2>5. look_pos' < NewEnd + n => buffer'[look_pos'] \in input.terms
    BY ONLY <2>3, Zenon DEF IsStop
  <2>6. \A j \in Nat : NewEnd <= j /\ j < look_pos' => buffer'[j] \notin input.terms
    BY ONLY <2>1, <2>3, StopsAtFirst, Zenon
  <2>. QED BY <2>1, <2>4, <2>5, <2>6
<1>5. buffer' \in [0 .. BufSize - 1 -> Nat]
  <2>1. \A i \in NewEnd .. NewEnd + n - 1 : got + (i - NewEnd) \in Nat
    BY <1>1, <1>2
  <2>. QED BY <1>1, <1>3, <2>1
<1>6. /\ base' \in Nat /\ end_pos' \in 0 .. BufSize /\ buf_left' \in Nat
      /\ base' <= look_pos' /\ end_pos' + buf_left' = BufSize
      /\ end_pos' - base' <= got'
      /\ got - (end_pos - base) = got' - (end_pos' - base')
      /\ n = 0 => look_pos' = end_pos'
  <2>1. look_pos' \in Nat /\ NewEnd <= look_pos' /\ look_pos' <= NewEnd + n
    BY <1>4
  <2>2. /\ got' = got + n /\ base' = NewBase /\ end_pos' = NewEnd + n
        /\ buf_left' = Room - n /\ n <= Room
    BY <1>3
  <2>3. /\ NewBase \in Nat /\ NewEnd \in Nat /\ Room \in Nat
        /\ NewBase <= NewEnd /\ NewEnd + Room = BufSize
        /\ NewEnd - NewBase = end_pos - base
    BY <1>1
  <2>. QED BY <1>2, <2>1, <2>2, <2>3
<1>7. ASSUME NEW i \in base' .. end_pos' - 1
      PROVE  /\ buffer'[i] = got' - (end_pos' - i)
             /\ i < NewEnd => buffer'[i] \notin input.terms
  <2>0. i \in 0 .. BufSize - 1 /\ i \in Int
    BY <1>1, <1>2, <1>3
  <2>1. CASE i < NewEnd
    <3>1. i \in NewBase .. NewEnd - 1 /\ buffer'[i] = Moved[i]
      BY <1>1, <1>3, <2>0, <2>1
    <3>2. end_pos' - i = n + (NewEnd - i) /\ got' = got + n
      BY <1>1, <1>3, <2>0
    <3>. QED BY <1>1, <1>2, <2>0, <3>1, <3>2
  <2>2. CASE i >= NewEnd
    <3>1. buffer'[i] = got + (i - NewEnd)
      BY <1>1, <1>3, <2>0, <2>2
    <3>. QED BY <1>1, <1>2, <1>3, <2>0, <2>2, <3>1
  <2>. QED BY <1>1, <2>0, <2>1, <2>2
<1>8. ASSUME NEW j \in Nat, base' <= j, j < look_pos'
      PROVE  buffer'[j] \notin input.terms
  <2>1. j \in base' .. end_pos' - 1
    BY <1>1, <1>3, <1>4, <1>6, <1>8
  <2>2. CASE j < NewEnd
    BY <1>7, <2>1, <2>2
  <2>3. CASE j >= NewEnd
    BY <1>1, <1>4, <1>8, <2>3
  <2>. QED BY <1>1, <2>2, <2>3
<1>. QED BY <1>3, <1>4, <1>5, <1>6, <1>7, <1>8

LEMMA ReceivePc ==
  ASSUME NEW n, Receive(n)
  PROVE  /\ num' = n
         /\ pc' \in {"toolong", "fill", "process"}
         /\ pc' = "toolong" <=> buf_left' = 0 /\ base' = 0 /\ look_pos' = end_pos'
         /\ pc' = "fill" => look_pos' = end_pos' /\ n # 0
         /\ pc' = "process" /\ look_pos' = end_pos' => n = 0
BY DEF Receive, Continue

(***************************************************************************)
(* The part of Inv a refill of either kind preserves.                      *)
(***************************************************************************)
LEMMA ReceiveKeeps ==
  ASSUME Inv, pc = "fill", NEW n \in Nat, n <= Room, Receive(n),
         UNCHANGED <<input, docs>>, file' \in 1 .. Len(input.ends),
         got + n <= input.ends[file']
  PROVE  TypeOK' /\ BufferHoldsTail' /\ ScanInv' /\ FillInv' /\ ProcessInv'
<1>1. TypeOK'
  <2>0. WithinFile'
    <3>1. got' = got + n /\ input' = input
      BY DEF Receive
    <3>. QED BY <3>1 DEF WithinFile
  <2>1. got' \in Nat /\ num' \in Nat
    BY DEF Inv, TypeOK, Receive
  <2>2. pc' \in {"scan", "fill", "process"} \cup Ended
    BY ReceivePc DEF Ended
  <2>3. buf_left' \in 0 .. BufSize
    BY ReceiveFacts, SizesAssumption
  <2>. QED BY <2>0, <2>1, <2>2, <2>3, ReceiveFacts DEF Inv, TypeOK
<1>2. BufferHoldsTail'
  BY ReceiveFacts, ReceivePc DEF BufferHoldsTail, Start, Ended
<1>3. ScanInv' /\ FillInv'
  BY ReceiveFacts, ReceivePc DEF ScanInv, FillInv
<1>4. ProcessInv'
  BY ReceiveFacts, ReceivePc DEF ProcessInv
<1>. QED BY <1>1, <1>2, <1>3, <1>4

LEMMA FillKeepsInv ==
  ASSUME Inv, Fill PROVE Inv'
<1>1. /\ input \in Inputs /\ pc = "fill" /\ got \in Nat /\ Len(input.ends) \in Nat
      /\ file \in 1 .. Len(input.ends) /\ input.ends \in [1 .. Len(input.ends) -> Nat]
      /\ \A g \in 1 .. file - 1 : ~EndsHere(input, g)
      /\ Room \in Nat /\ UNCHANGED <<input, docs>>
  <2>1. pc = "fill" /\ UNCHANGED <<input, docs>>
    BY DEF Fill
  <2>2. input.ends \in [1 .. Len(input.ends) -> Nat] /\ Len(input.ends) \in Nat
    BY LenProperties DEF Inv, TypeOK
  <2>. QED BY <2>1, <2>2, CompactionFacts DEF Inv, TypeOK, InputInv
<1>2. PICK n \in Readable(file) :
        \/ /\ n # 0 \/ file = Len(input.ends)
           /\ Receive(n)
           /\ UNCHANGED file
        \/ /\ n = 0 /\ file < Len(input.ends)
           /\ file' = file + 1
           /\ \E m \in Readable(file + 1) : Receive(m)
  BY DEF Fill
<1>3. /\ n \in Nat /\ n <= Room /\ got + n <= input.ends[file]
      /\ n = 0 => got = input.ends[file]
  BY <1>1, <1>2 DEF Readable
<1>4. CASE (n # 0 \/ file = Len(input.ends)) /\ Receive(n) /\ UNCHANGED file
  <2>1. TypeOK' /\ BufferHoldsTail' /\ ScanInv' /\ FillInv' /\ ProcessInv'
    <3>1. got + n <= input.ends[file'] /\ file' \in 1 .. Len(input.ends)
      BY <1>1, <1>3, <1>4
    <3>. QED BY <1>1, <1>3, <1>4, <3>1, ReceiveKeeps
  <2>2. n = 0 => got = Text(input).size
    BY <1>1, <1>3, <1>4, LastFileUnique DEF Text, EndsHere
  <2>3. n = 0 => look_pos' = end_pos'
    BY <1>1, <1>3, <1>4, ReceiveFacts
  <2>4. got' = got + n /\ num' = n
    BY <1>4 DEF Receive, Continue
  <2>5. InputInv'
    BY <1>1, <1>3, <1>4, <2>2, <2>3, <2>4, ReceivePc DEF InputInv
  <2>. QED BY <1>1, <2>1, <2>5 DEF Inv
<1>5. CASE n = 0 /\ file < Len(input.ends) /\ file' = file + 1
           /\ \E m \in Readable(file + 1) : Receive(m)
  <2>1. PICK m \in Readable(file + 1) : Receive(m)
    BY <1>5
  <2>2. /\ m \in Nat /\ m <= Room /\ got + m <= input.ends[file + 1]
        /\ m = 0 => got = input.ends[file + 1]
    BY <1>1, <2>1 DEF Readable
  <2>3. file' \in 1 .. Len(input.ends)
    BY <1>1, <1>5
  <2>4. TypeOK' /\ BufferHoldsTail' /\ ScanInv' /\ FillInv' /\ ProcessInv'
    <3>1. got + m <= input.ends[file']
      BY <1>5, <2>2
    <3>. QED BY <1>1, <2>1, <2>2, <2>3, <3>1, ReceiveKeeps
  <2>5. m = 0 => got = Text(input).size
    BY <1>1, <1>3, <1>5, <2>2, LastFileUnique DEF Text, EndsHere
  <2>6. m # 0 => ~EndsHere(input, file)
    BY <1>1, <1>3, <1>5, <2>2 DEF EndsHere
  <2>7. m = 0 => look_pos' = end_pos'
    BY <1>1, <2>1, <2>2, ReceiveFacts
  <2>8. got' = got + m /\ num' = m
    BY <2>1 DEF Receive, Continue
  <2>9. m # 0 => \A g \in 1 .. file' - 1 : ~EndsHere(input, g)
    BY <1>1, <1>5, <2>6
  <2>10. InputInv'
    BY <1>1, <1>5, <2>1, <2>2, <2>5, <2>7, <2>8, <2>9, ReceivePc DEF InputInv
  <2>. QED BY <1>1, <2>4, <2>10 DEF Inv
<1>. QED BY <1>2, <1>4, <1>5

LEMMA ProcessKeepsInv ==
  ASSUME Inv, Process PROVE Inv'
<1>. USE SizesAssumption DEF Inv, TypeOK, Ended
<1>1. /\ base <= look_pos /\ look_pos <= end_pos
      /\ look_pos = end_pos <=> num = 0
  BY DEF Process, ProcessInv, InputInv
<1>2. docs' \in Seq(Seq(Nat))
  <2>. DEFINE doc == [i \in 1 .. look_pos - base |-> buffer[base + i - 1]]
  <2>1. \A i \in 1 .. look_pos - base : buffer[base + i - 1] \in Nat
    BY <1>1
  <2>2. doc \in Seq(Nat)
    BY <1>1, <2>1
  <2>3. docs' = docs \/ docs' = Append(docs, doc)
    BY DEF Process
  <2>4. docs \in Seq(Seq(Nat))
    OBVIOUS
  <2>. HIDE DEF doc
  <2>5. Append(docs, doc) \in Seq(Seq(Nat))
    BY ONLY <2>2, <2>4, AppendProperties, Zenon
  <2>. QED BY ONLY <2>3, <2>4, <2>5
<1>3. TypeOK'
  <2>1. WithinFile'
    BY DEF Process, WithinFile
  <2>2. /\ look_pos' = look_pos + 1 /\ pc' \in {"done", "scan"}
        /\ UNCHANGED <<input, file, got, buffer, base, end_pos, buf_left, num>>
    BY DEF Process
  <2>3. look_pos' \in Nat
    BY <2>2
  <2>4. pc' \in {"scan", "fill", "process"} \cup Ended
    BY ONLY <2>2 DEF Ended
  <2>. QED BY <1>2, <2>1, <2>2, <2>3, <2>4
<1>4. BufferHoldsTail' /\ ScanInv'
  BY <1>1 DEF Process, BufferHoldsTail, Start, ScanInv
<1>5. FillInv' /\ ProcessInv' /\ InputInv'
  BY <1>1 DEF Process, FillInv, ProcessInv, InputInv
<1>. QED BY <1>3, <1>4, <1>5 DEF Process

LEMMA FailureKeepsInv ==
  ASSUME Inv, OpenFails \/ ProcessFails PROVE Inv'
<1>1. /\ pc' = "failed" /\ look_pos' \in {look_pos, look_pos + 1}
      /\ UNCHANGED <<input, file, got, buffer, base, end_pos, buf_left, num, docs>>
  BY DEF OpenFails, ProcessFails
<1>2. look_pos \in Nat /\ look_pos' \in Nat
  BY <1>1 DEF Inv, TypeOK
<1>3. TypeOK'
  <2>1. WithinFile'
    BY <1>1 DEF Inv, TypeOK, WithinFile
  <2>. QED BY <1>1, <1>2, <2>1 DEF Inv, TypeOK, Ended
<1>4. BufferHoldsTail' /\ ScanInv' /\ FillInv' /\ ProcessInv'
  BY <1>1 DEF BufferHoldsTail, ScanInv, FillInv, ProcessInv, Ended
<1>5. InputInv'
  BY <1>1 DEF Inv, InputInv
<1>. QED BY <1>1, <1>3, <1>4, <1>5 DEF Inv

LEMMA NextKeepsInv == Inv /\ [Next]_vars => Inv'
<1>. SUFFICES ASSUME Inv, [Next]_vars PROVE Inv'
  OBVIOUS
<1>1. CASE UNCHANGED vars
  BY <1>1 DEF vars, Inv, TypeOK, WithinFile, BufferHoldsTail, Start, ScanInv, FillInv,
              ProcessInv, InputInv
<1>. QED BY <1>1, ScanKeepsInv, FillKeepsInv, ProcessKeepsInv, FailureKeepsInv
         DEF Next

(***************************************************************************)
(* The invariant holds for every buffer size, compaction threshold and set *)
(* of source texts: in particular the buffer always holds, from the start  *)
(* of the current document on, exactly the bytes read last, and there is   *)
(* always room when driver() comes to read.                                *)
(***************************************************************************)
THEOREM Invariance == Spec => []Inv
BY InitInv, NextKeepsInv, PTL DEF Spec

THEOREM TypeCorrect == Spec => []TypeOK
BY Invariance, PTL DEF Inv

THEOREM BufferCorrect == Spec => []BufferHoldsTail
BY Invariance, PTL DEF Inv

THEOREM AlwaysRoom == Spec => []RoomToRead
<1>1. Inv => RoomToRead
  BY CompactionFacts DEF RoomToRead
<1>. QED BY <1>1, Invariance, PTL

-----------------------------------------------------------------------------
(***************************************************************************)
(* The reader implements DocStream.                                        *)
(***************************************************************************)
LEMMA GotWithinText ==
  ASSUME Inv
  PROVE  got <= Text(input).size /\ Text(input).size \in Nat
<1>1. input \in Inputs /\ file \in 1 .. Len(input.ends) /\ got \in Nat
  BY DEF Inv, TypeOK
<1>2. Text(input).size \in Nat
  BY <1>1, LastFileExists, InputsAssumption DEF Text
<1>3. CASE num = 0
  BY <1>1, <1>2, <1>3 DEF Inv, InputInv
<1>4. CASE num # 0
  <2>1. got <= input.ends[file] /\ \A g \in 1 .. file - 1 : ~EndsHere(input, g)
    BY <1>4 DEF Inv, TypeOK, WithinFile, InputInv
  <2>2. input.ends[file] \in Nat
    BY <1>1, InputsAssumption
  <2>. QED BY <1>1, <1>2, <2>1, <2>2, WithinText
<1>. QED BY <1>3, <1>4

(***************************************************************************)
(* Bytes in the buffer as positions of the text: position p is at index    *)
(* p - (got - end_pos).                                                    *)
(***************************************************************************)
LEMMA Positions ==
  ASSUME Inv, pc \in {"fill", "process"}, NEW i \in Int, base <= i, i <= end_pos,
         \A j \in Nat : base <= j /\ j < i => buffer[j] \notin input.terms
  PROVE  /\ At \in Nat /\ At = got - (end_pos - base)
         /\ At <= got - (end_pos - i) /\ got - (end_pos - i) <= got
         /\ Abs!Open(At, got - (end_pos - i))
         /\ i < end_pos => buffer[i] = got - (end_pos - i)
<1>1. /\ got \in Nat /\ base \in Nat /\ end_pos \in Nat
      /\ base <= end_pos /\ end_pos - base <= got
      /\ \A j \in base .. end_pos - 1 : buffer[j] = got - (end_pos - j)
  BY DEF Inv, TypeOK, BufferHoldsTail, Start, Ended
<1>2. At \in Nat /\ At = got - (end_pos - base)
  BY <1>1 DEF At
<1>3. ASSUME NEW p \in At .. (got - (end_pos - i)) - 1
      PROVE  p \notin input.terms
  <2>. DEFINE j == p - (got - end_pos)
  <2>1. /\ j \in Nat /\ base <= j /\ j < i
        /\ j \in base .. end_pos - 1 /\ got - (end_pos - j) = p
    BY <1>1, <1>2
  <2>. QED BY <1>1, <2>1
<1>4. Text(input).terms = input.terms
  BY DEF Text
<1>5. Abs!Open(At, got - (end_pos - i))
  BY <1>3, <1>4 DEF Abs!Open
<1>. QED BY <1>1, <1>2, <1>5

(***************************************************************************)
(* From every position of the text a document extends to somewhere.        *)
(***************************************************************************)
LEMMA SomeExtent ==
  ASSUME Inv, At \in Nat, At <= Text(input).size
  PROVE  \E to \in At .. Text(input).size : Abs!Extends(to)
<1>. DEFINE size == Text(input).size
            T == {p \in At .. size : p \in Text(input).terms \/ p = size}
<1>1. size \in Nat
  BY GotWithinText
<1>2. T \in SUBSET Nat /\ size \in T
  BY <1>1
<1>3. PICK to \in T : \A p \in T : to <= p
  BY <1>2, LeastNatural
<1>4. to \in At .. size /\ (to < size => to \in Text(input).terms)
  OBVIOUS
<1>5. \A p \in At .. to - 1 : p \notin Text(input).terms
  <2>. TAKE p \in At .. to - 1
  <2>1. p \in At .. size /\ ~(to <= p)
    BY <1>1, <1>4
  <2>. QED BY <2>1, <1>3
<1>6. Abs!Extends(to)
  BY <1>1, <1>4, <1>5 DEF Abs!Extends, Abs!Open, Abs!Terminated
<1>. QED BY <1>4, <1>6

LEMMA InitImplements == Init => Abs!Init
<1>. SUFFICES ASSUME Init PROVE Abs!Init
  OBVIOUS
<1>1. At = 0 /\ docs = <<>> /\ pc = "scan" /\ input \in Inputs
  BY DEF Init, At
<1>. QED BY <1>1 DEF Abs!Init, Ended

LEMMA ScanImplements ==
  ASSUME Inv, Inv', Scan PROVE UNCHANGED Abs!vars
<1>1. /\ pc = "scan" /\ pc' \in {"fill", "process"} /\ base' = look_pos
      /\ UNCHANGED <<input, got, end_pos, docs>>
  BY DEF Scan
<1>2. At' = At
  BY <1>1 DEF At
<1>. QED BY <1>1, <1>2 DEF Abs!vars, Ended

LEMMA FillImplements ==
  ASSUME Inv, Inv', Fill PROVE [Abs!Next]_(Abs!vars)
<1>1. pc = "fill" /\ UNCHANGED <<input, docs>>
  BY DEF Fill
<1>2. \E n \in Nat : n <= Room /\ Receive(n)
  BY DEF Fill, Readable
<1>3. PICK n \in Nat : n <= Room /\ Receive(n)
  BY <1>2
<1>4. /\ got - (end_pos - base) = got' - (end_pos' - base')
      /\ pc' \in {"toolong", "fill", "process"}
  BY <1>1, <1>3, ReceiveFacts, ReceivePc
<1>5. At' = At
  BY <1>1, <1>4 DEF At
<1>6. CASE pc' # "toolong"
  BY <1>1, <1>4, <1>5, <1>6 DEF Abs!vars, Ended
<1>7. CASE pc' = "toolong"
  <2>1. Abs!TooLong
    <3>. DEFINE size == Text(input).size
    <3>1. /\ NewBase = 0 /\ NewEnd + n = BufSize /\ BufSize \in Nat
          /\ NewEnd - NewBase = end_pos - base /\ NewEnd \in Nat
      <4>1. Room - n = 0 /\ NewBase = 0
        BY <1>1, <1>3, <1>7, ReceivePc DEF Receive, Continue
      <4>2. /\ NewEnd + Room = BufSize /\ NewEnd - NewBase = end_pos - base
            /\ NewEnd \in Nat /\ Room \in Nat
        BY <1>1, CompactionFacts
      <4>. QED BY <4>1, <4>2, SizesAssumption
    <3>2. /\ \A i \in 0 .. BufSize - 1 : buffer'[i] = got + n - (BufSize - i)
          /\ \A j \in 0 .. BufSize - 1 : buffer'[j] \notin input.terms
      <4>1. base' = 0 /\ end_pos' = BufSize /\ look_pos' = BufSize /\ got' = got + n
        BY <1>3, <1>7, <3>1, ReceivePc DEF Receive, Continue
      <4>2. /\ \A i \in base' .. end_pos' - 1 : buffer'[i] = got' - (end_pos' - i)
            /\ \A j \in Nat : base' <= j /\ j < look_pos' => buffer'[j] \notin input.terms
        BY <1>1, <1>3, ReceiveFacts
      <4>3. /\ base' .. end_pos' - 1 = 0 .. BufSize - 1
            /\ \A j \in 0 .. BufSize - 1 : j \in Nat /\ base' <= j /\ j < look_pos'
        BY <4>1, SizesAssumption
      <4>4. \A i \in 0 .. BufSize - 1 :
              got' - (end_pos' - i) = got + n - (BufSize - i)
        <5>1. got \in Nat
          BY DEF Inv, TypeOK
        <5>. QED BY <4>1, <5>1, <3>1
      <4>. QED BY <4>2, <4>3, <4>4
    <3>3. got \in Nat /\ got + n <= size /\ size \in Nat
      <4>1. (got <= Text(input).size /\ Text(input).size \in Nat)'
        BY GotWithinText, PTL
      <4>2. got' = got + n
        BY <1>3 DEF Receive, Continue
      <4>. QED BY <1>1, <4>1, <4>2 DEF Inv, TypeOK
    <3>4. At \in Nat /\ At = got + n - BufSize /\ At <= size
      <4>1. At = got - (end_pos - base)
        BY <1>1 DEF At
      <4>2. /\ end_pos \in Nat /\ base \in Nat /\ end_pos - base <= got
        BY <1>1 DEF Inv, TypeOK, BufferHoldsTail, Start, Ended
      <4>. QED BY <3>1, <3>3, <4>1, <4>2
    <3>5. PICK to \in At .. size : Abs!Extends(to)
      BY <3>4, SomeExtent
    <3>6. ~(to < got + n)
      <4>. SUFFICES ASSUME to < got + n PROVE FALSE
        OBVIOUS
      <4>. DEFINE j == to - At
      <4>1. j \in 0 .. BufSize - 1 /\ got + n - (BufSize - j) = to /\ to < size
        BY <3>1, <3>3, <3>4
      <4>2. buffer'[j] = to /\ to \notin input.terms
        BY <3>2, <4>1
      <4>3. to \in input.terms
        BY <3>5, <4>1 DEF Abs!Extends, Abs!Terminated, Text
      <4>. QED BY <4>2, <4>3
    <3>7. to - At >= BufSize
      BY <3>1, <3>3, <3>4, <3>6
    <3>8. \E x \in At .. Text(input).size : Abs!Extends(x) /\ x - At >= BufSize
      BY <3>5, <3>7
    <3>. QED BY <1>1, <1>5, <1>7, <3>8 DEF Abs!TooLong, Ended
  <2>. QED BY <2>1 DEF Abs!Next
<1>. QED BY <1>6, <1>7

LEMMA FailureImplements ==
  ASSUME Inv, OpenFails \/ ProcessFails PROVE Abs!Next
<1>1. /\ pc \in {"fill", "process"} /\ pc' = "failed"
      /\ UNCHANGED <<input, got, base, end_pos, docs>>
  BY DEF OpenFails, ProcessFails
<1>2. At' = At
  BY <1>1 DEF At
<1>. QED BY <1>1, <1>2 DEF Abs!Next, Abs!Fail, Ended

LEMMA ProcessImplements ==
  ASSUME Inv, Process PROVE Abs!Next
<1>. DEFINE size == Text(input).size
            to == got - (end_pos - look_pos)
<1>1. /\ got \in Nat /\ base \in Nat /\ end_pos \in Nat /\ look_pos \in Nat
      /\ BufSize \in Nat /\ base <= look_pos /\ look_pos <= end_pos
      /\ end_pos - base <= got /\ end_pos + buf_left = BufSize /\ buf_left \in Nat
      /\ \A j \in Nat : base <= j /\ j < look_pos => buffer[j] \notin input.terms
      /\ look_pos < end_pos => buffer[look_pos] \in input.terms
      /\ \A i \in base .. end_pos - 1 : buffer[i] = got - (end_pos - i)
  BY SizesAssumption DEF Inv, TypeOK, Process, ProcessInv, BufferHoldsTail, Start, Ended
<1>2. /\ look_pos = end_pos <=> num = 0
      /\ look_pos = end_pos => got = size /\ (base > 0 \/ buf_left > 0)
  BY DEF Inv, Process, ProcessInv, InputInv
<1>3. got <= size /\ size \in Nat
  BY GotWithinText
<1>4. /\ At \in Nat /\ At = got - (end_pos - base) /\ At <= to /\ to <= got
      /\ Abs!Open(At, to)
      /\ look_pos < end_pos => buffer[look_pos] = to
  <2>1. look_pos \in Int /\ pc \in {"fill", "process"}
    BY <1>1 DEF Process
  <2>. QED BY <1>1, <2>1, Positions, Zenon
<1>5. pc = "process" /\ UNCHANGED input /\ Text(input') = Text(input)
  BY DEF Process
<1>6. CASE num = 0 /\ base = end_pos
  <2>1. pc' = "done" /\ UNCHANGED docs /\ UNCHANGED got
    BY <1>6 DEF Process
  <2>2. At = size /\ At' = At
    BY <1>1, <1>2, <1>4, <1>6, <2>1 DEF At
  <2>3. Abs!Finish
    BY <1>5, <2>1, <2>2 DEF Abs!Finish, Ended
  <2>. QED BY <2>3 DEF Abs!Next
<1>7. CASE ~(num = 0 /\ base = end_pos)
  <2>1. /\ docs' = Append(docs, [i \in 1 .. look_pos - base |-> buffer[base + i - 1]])
        /\ pc' = IF num = 0 /\ look_pos = end_pos THEN "done" ELSE "scan"
        /\ look_pos' = look_pos + 1 /\ UNCHANGED <<got, base, end_pos>>
    BY <1>7 DEF Process
  <2>2. [i \in 1 .. look_pos - base |-> buffer[base + i - 1]] = Abs!Bytes(At, to)
    <3>1. to - At = look_pos - base
      BY <1>1, <1>4
    <3>2. \A i \in 1 .. look_pos - base : buffer[base + i - 1] = At + i - 1
      BY <1>1, <1>4
    <3>. QED BY <3>1, <3>2 DEF Abs!Bytes
  <2>3. to \in At .. size /\ to - At < BufSize
    BY <1>1, <1>2, <1>3, <1>4
  <2>4. CASE look_pos < end_pos
    <3>1. Abs!Terminated(to) /\ Abs!Extends(to)
      BY <1>1, <1>3, <1>4, <2>4 DEF Abs!Terminated, Abs!Extends, Text
    <3>2. pc' = "scan" /\ At' = to + 1
      <4>1. pc' = "scan"
        BY <1>1, <2>1, <2>4
      <4>2. At' = got' - (end_pos' - look_pos')
        BY <4>1 DEF At
      <4>3. got' = got /\ end_pos' = end_pos /\ look_pos' = look_pos + 1
        BY <2>1
      <4>. QED BY <1>1, <4>1, <4>2, <4>3
    <3>3. Abs!Deliver
      BY <1>5, <2>1, <2>2, <2>3, <3>1, <3>2 DEF Abs!Deliver, Ended
    <3>. QED BY <3>3 DEF Abs!Next
  <2>5. CASE look_pos = end_pos
    <3>1. to = size /\ ~Abs!Terminated(to) /\ Abs!Extends(to) /\ At < to
      BY <1>1, <1>2, <1>3, <1>4, <1>7, <2>5 DEF Abs!Terminated, Abs!Extends
    <3>2. pc' = "done" /\ At' = to
      BY <1>1, <1>2, <2>1, <2>5 DEF At
    <3>3. Abs!Deliver
      BY <1>5, <2>1, <2>2, <2>3, <3>1, <3>2 DEF Abs!Deliver, Ended
    <3>. QED BY <3>3 DEF Abs!Next
  <2>. QED BY <1>1, <2>4, <2>5
<1>. QED BY <1>6, <1>7

(***************************************************************************)
(* Every document of the text up to the first empty file reaches the       *)
(* passes exactly once, whole and in order, for every way of cutting it    *)
(* into files, reads and buffers.                                          *)
(***************************************************************************)
THEOREM DriverImplementsDocStream == Spec => Implements
<1>1. Inv /\ Inv' /\ [Next]_vars => [Abs!Next]_(Abs!vars)
  <2>. SUFFICES ASSUME Inv, Inv', [Next]_vars PROVE [Abs!Next]_(Abs!vars)
    OBVIOUS
  <2>1. CASE UNCHANGED vars
    BY <2>1 DEF vars, Abs!vars, At
  <2>. QED BY <2>1, ScanImplements, FillImplements, ProcessImplements,
              FailureImplements DEF Next
<1>. QED BY <1>1, InitImplements, Invariance, PTL DEF Spec, Implements, Abs!Spec
=============================================================================
