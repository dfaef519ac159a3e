------------------------------ MODULE Session -------------------------------
(***************************************************************************)
(* The query program around the queries: the .mgrc file and the command    *)
(* line, the commands and the parameters they set (commands.c,             *)
(* environment.c), where lines come from and output goes (get_query of     *)
(* mgquery.c), and the showing of an answer, whose documents are loaded a  *)
(* bufferful at a time (MoreDocs, backend.c, text_get.c).                  *)
(*                                                                         *)
(* A value of a parameter is a word, or "" for no value at all.  A command  *)
(* that is refused prints a message and changes nothing.  Several commands *)
(* on one line are several steps.  The counts of memory in use, which no   *)
(* decision depends on, are left out.                                      *)
(***************************************************************************)
EXTENDS Integers, Sequences, FiniteSets

CONSTANTS
  Settings,    \* the <<name, value>> that are set
  Answers,     \* what queries find: [docs: a sequence, known: their lengths are]
  DocBytes,    \* the compressed length of every document
  Matching,    \* documents the post-processing pattern is found in
  MaxDepth,    \* bound: environments on the stack
  MaxStreams,  \* bound: streams opened, stdin and stdout among them
  MaxCommands  \* bound: commands and queries

ASSUME SessionAssumption ==
  /\ \A num \in DOMAIN DocBytes : DocBytes[num] \in Nat \ {0}
  /\ \A a \in Answers : a.docs \in Seq(DOMAIN DocBytes) /\ a.known \in BOOLEAN
  /\ MaxDepth \in Nat \ {0, 1} /\ MaxStreams \in Nat /\ MaxCommands \in Nat

VARIABLES
  stack,      \* the environments, the current one last
  base,       \* the environment at the bottom when the session began
  opened,     \* every stream: its kind and the calls that closed it
  InFile, InPipe, OutFile, OutPipe,  \* the streams in use, by number
  tty,        \* stdin and stdout are a terminal
  Quitting,
  DL, doc_pos,\* the answer: [num, Len, buf], and the document at hand
  TextBuffer, \* the document decompressed last, and its buffer
  allocated,       \* bytes allocated for documents and not freed
  max_buf,    \* the parameter buffer while the answer is shown
  view,       \* of the answer: [mode, filter, pager, exact]
  shown,      \* the documents put out
  PagerRunning, Ctrl_C,
  issued,     \* commands and queries so far
  phase       \* "mgrc", "line", "show", "ended", "crashed"

envVars == <<stack, base>>
streamVars == <<opened, InFile, InPipe, OutFile, OutPipe, tty>>
docVars ==
  <<DL, doc_pos, TextBuffer, allocated, max_buf, view, shown, PagerRunning, Ctrl_C>>
sessionVars == <<envVars, streamVars, docVars, Quitting, issued, phase>>

-----------------------------------------------------------------------------
\* environment.c.  An entry has its value and the name of its constraint.

NoValue == ""

BooleanStrs == <<"false", "true", "no", "yes", "off", "on">>

\* The values a constraint lets pass.
Legal(cons) ==
  CASE cons = "boolean" -> {BooleanStrs[i] : i \in DOMAIN BooleanStrs}
    [] cons = "maxdocs" -> {"all", "1", "9"}
    [] cons = "buffer"  -> {"0", "1", "9"}
    [] cons = "mode"    -> {"text", "docnums", "count"}

atoi(value) == IF value = "0" THEN 0 ELSE IF value = "1" THEN 1 ELSE 9

\* What a Boolean becomes that is set without a value.
Inverted(old) ==
  IF old = NoValue THEN "false"
  ELSE LET i == CHOOSE i \in DOMAIN BooleanStrs : BooleanStrs[i] = old
       IN BooleanStrs[IF i % 2 = 0 THEN i - 1 ELSE i + 1]

\* The value that is stored, in a set that is empty when there is none.
Constrained(cons, old, new) ==
  IF cons = "none" THEN {new}
  ELSE IF cons = "boolean" /\ new = NoValue THEN {Inverted(old)}
  ELSE {new} \cap Legal(cons)

\* The constraint of maxdocs compares its value with "all", even if there is
\* none.
Crashes(cons, new) == cons = "maxdocs" /\ new = NoValue

InitEnv ==
  [expert  |-> [data |-> "false", cons |-> "boolean"],
   maxdocs |-> [data |-> "all", cons |-> "maxdocs"],
   buffer  |-> [data |-> "9", cons |-> "buffer"],
   mode    |-> [data |-> "text", cons |-> "mode"],
   pager   |-> [data |-> "more", cons |-> "none"],
   mgname  |-> [data |-> NoValue, cons |-> "none"]]

\* The environment after SetEnv, unchanged if the value is refused.  A new
\* entry is constrained twice, which makes no difference.
SetEnv(env, name, value, cons) ==
  LET known == name \in DOMAIN env
      c == IF known THEN env[name].cons ELSE cons
      data == Constrained(c, IF known THEN env[name].data ELSE NoValue, value)
  IN IF data = {} THEN env
     ELSE [n \in DOMAIN env \cup {name} |->
             IF n = name THEN [data |-> CHOOSE v \in data : TRUE, cons |-> c] ELSE env[n]]

UnsetEnv(env, name) ==
  IF name \notin DOMAIN env \/ env[name].cons # "none" THEN env
  ELSE [n \in DOMAIN env \ {name} |-> env[n]]

Current == stack[Len(stack)]

\* Mutant: the copy does not take the constraints along.
CopiesFree(env) == {[n \in DOMAIN env |-> [data |-> env[n].data, cons |-> "none"]]}

\* Every entry is set anew in an empty environment, until one is refused.  The
\* entries have no order here: any of the others may come before it.
Copies(env) ==
  LET Anew(n) == SetEnv(<<>>, n, env[n].data, env[n].cons)
      accepted == {n \in DOMAIN env : n \in DOMAIN Anew(n)}
  IN {[n \in there |-> Anew(n)[n]] :
        there \in IF accepted = DOMAIN env THEN {accepted} ELSE SUBSET accepted}

PushEnv(envs) == {Append(envs, copy) : copy \in Copies(envs[Len(envs)])}

PopEnv(envs) == IF Len(envs) = 1 THEN envs ELSE SubSeq(envs, 1, Len(envs) - 1)

-----------------------------------------------------------------------------
\* main and the commands.  Streams are known by their number: 1 is stdin, 2 is
\* stdout, 0 is NULL.

stdin == 1
stdout == 2

NoView == [mode |-> "count", filter |-> FALSE, pager |-> FALSE, known |-> FALSE]

SessionInit ==
  /\ stack = <<InitEnv>> /\ base = InitEnv
  /\ opened = <<[kind |-> "std", closed |-> <<>>], [kind |-> "std", closed |-> <<>>]>>
  /\ InFile = 0 /\ OutFile = 0 /\ InPipe = FALSE /\ OutPipe = FALSE
  /\ Quitting = FALSE
  /\ DL = <<>> /\ doc_pos = 0 /\ TextBuffer = <<>> /\ allocated = 0 /\ max_buf = 0
  /\ view = NoView /\ shown = <<>> /\ PagerRunning = FALSE /\ Ctrl_C = FALSE
  /\ issued = 0
  /\ tty \in BOOLEAN
  /\ phase = "mgrc"

Command ==
  /\ phase \in {"mgrc", "line"}
  /\ issued < MaxCommands
  /\ issued' = issued + 1
  /\ UNCHANGED <<base, tty, docVars>>

SetTop(env) == stack' = [stack EXCEPT ![Len(stack)] = env]

CmdSet ==
  /\ Command
  /\ \E s \in Settings :
       IF s[1] \in DOMAIN Current /\ Crashes(Current[s[1]].cons, s[2])
       THEN phase' = "crashed" /\ UNCHANGED stack
       ELSE SetTop(SetEnv(Current, s[1], s[2], "none")) /\ UNCHANGED phase
  /\ UNCHANGED <<opened, InFile, InPipe, OutFile, OutPipe, Quitting>>

CmdUnset ==
  /\ Command
  /\ \E s \in Settings : SetTop(UnsetEnv(Current, s[1]))
  /\ UNCHANGED <<opened, InFile, InPipe, OutFile, OutPipe, Quitting, phase>>

CmdPush ==
  /\ Command
  /\ Len(stack) < MaxDepth
  /\ stack' \in PushEnv(stack)
  /\ UNCHANGED <<opened, InFile, InPipe, OutFile, OutPipe, Quitting, phase>>

\* The environment at the bottom is never left alone on the stack.
CmdPop ==
  /\ Command
  /\ stack' \in IF Len(PopEnv(stack)) = 1 THEN PushEnv(PopEnv(stack)) ELSE {PopEnv(stack)}
  /\ UNCHANGED <<opened, InFile, InPipe, OutFile, OutPipe, Quitting, phase>>

CmdReset ==
  /\ Command
  /\ stack' \in PushEnv(<<Head(stack)>>)
  /\ UNCHANGED <<opened, InFile, InPipe, OutFile, OutPipe, Quitting, phase>>

CmdQuit ==
  /\ Command
  /\ Quitting' = TRUE
  /\ UNCHANGED <<stack, opened, InFile, InPipe, OutFile, OutPipe, phase>>

\* What closes the stream in use.
Closing(file, pipe, std) ==
  IF pipe THEN [opened EXCEPT ![file].closed = Append(@, "pclose")]
  ELSE IF file # std THEN [opened EXCEPT ![file].closed = Append(@, "fclose")]
  ELSE opened

\* .input and .output: a new file or pipe takes the place of the stream in use,
\* or the standard one does.  One that cannot be opened changes nothing.  While
\* .mgrc is read there is no stream yet, and fclose gets a null pointer.
Redirect(file, pipe, std, file1, pipe1) ==
  IF file = 0
  THEN phase' = "crashed" /\ UNCHANGED <<opened, InFile, InPipe, OutFile, OutPipe>>
  ELSE /\ UNCHANGED phase
       /\ \/ opened' = Closing(file, pipe, std) /\ file1 = std /\ pipe1 = FALSE
          \/ /\ Len(opened) < MaxStreams
             /\ \E kind \in {"file", "pipe"} :
                  /\ opened' = Append(Closing(file, pipe, std),
                                      [kind |-> kind, closed |-> <<>>])
                  /\ file1 = Len(opened')
                  /\ pipe1 = (kind = "pipe")

CmdInput ==
  /\ Command
  /\ Redirect(InFile, InPipe, stdin, InFile', InPipe')
  /\ UNCHANGED <<stack, OutFile, OutPipe, Quitting>>

CmdOutput ==
  /\ Command
  /\ Redirect(OutFile, OutPipe, stdout, OutFile', OutPipe')
  /\ UNCHANGED <<stack, InFile, InPipe, Quitting>>

\* The options set parameters of the environment that is kept below; the name
\* of a collection, which is an argument, those of the copy.
main ==
  /\ phase = "mgrc"
  /\ InFile' = stdin /\ OutFile' = stdout
  /\ \E option, argument \in {NoValue, "a"} :
       LET Named(envs, name) ==
             IF name = NoValue THEN envs
             ELSE [envs EXCEPT ![Len(envs)] = SetEnv(@, "mgname", name, "none")]
       IN \E pushed \in PushEnv(Named(stack, option)) :
            /\ base' = Head(pushed)
            /\ stack' = Named(pushed, argument)
  /\ phase' = "line"
  /\ UNCHANGED <<opened, InPipe, OutPipe, tty, docVars, Quitting, issued>>

-----------------------------------------------------------------------------
\* get_query and query.

\* Mutant: the end of a pipe leaves InPipe set.
EndOfInputPipe ==
  /\ phase = "line" /\ ~Quitting
  /\ IF InFile = stdin THEN phase' = "ended" /\ UNCHANGED <<opened, InFile>>
     ELSE opened' = Closing(InFile, InPipe, stdin) /\ InFile' = stdin /\ UNCHANGED phase
  /\ UNCHANGED <<envVars, docVars, InPipe, OutFile, OutPipe, tty, Quitting, issued>>

EndOfInput ==
  /\ phase = "line" /\ ~Quitting
  /\ IF InFile = stdin THEN phase' = "ended" /\ UNCHANGED <<opened, InFile, InPipe>>
     ELSE /\ opened' = Closing(InFile, InPipe, stdin)
          /\ InPipe' = FALSE /\ InFile' = stdin
          /\ UNCHANGED phase
  /\ UNCHANGED <<envVars, docVars, OutFile, OutPipe, tty, Quitting, issued>>

Quit ==
  /\ phase = "line" /\ Quitting
  /\ phase' = "ended"
  /\ UNCHANGED <<envVars, streamVars, docVars, Quitting, issued>>

\* f[1] + ... + f[n]
SumOf(f, n) == LET sum[k \in 0 .. n] == IF k = 0 THEN 0 ELSE sum[k - 1] + f[k] IN sum[n]

\* The bytes of the documents that are in memory.
Held(docs) ==
  SumOf([k \in DOMAIN docs |-> IF docs[k].buf THEN DocBytes[docs[k].num] ELSE 0], Len(docs))

\* The buffer of a decompressed document: ratio * 1.01 times its length and a
\* bit more.
TextBufferLen(num) == 3 * DocBytes[num] + 1

TextBytes == IF TextBuffer = <<>> THEN 0 ELSE TextBufferLen(TextBuffer[1])

\* The bytes that FreeQueryDocs frees.
Freed == Held(DL) + TextBytes

\* A query is answered, or it does not parse and there is no list.
query ==
  /\ phase = "line" /\ ~Quitting
  /\ issued < MaxCommands /\ issued' = issued + 1
  /\ allocated' = allocated - Freed
  /\ TextBuffer' = <<>> /\ doc_pos' = 0 /\ shown' = <<>>
  /\ \/ /\ \E a \in Answers, filter \in BOOLEAN :
             /\ DL' = [k \in DOMAIN a.docs |->
                        [num |-> a.docs[k], buf |-> FALSE,
                         Len |-> IF a.known THEN DocBytes[a.docs[k]] ELSE 0]]
             /\ view' = [mode |-> Current.mode.data, filter |-> filter, known |-> a.known,
                         pager |-> /\ tty /\ OutFile = stdout
                                   /\ "pager" \in DOMAIN Current
                                   /\ Current.mode.data # "count"]
        /\ max_buf' = atoi(Current.buffer.data)
        /\ PagerRunning' = TRUE /\ Ctrl_C' = FALSE
        /\ phase' = "show"
     \/ /\ DL' = <<>>
        /\ UNCHANGED <<max_buf, view, PagerRunning, Ctrl_C, phase>>
  /\ UNCHANGED <<envVars, streamVars, Quitting>>

-----------------------------------------------------------------------------
\* MoreDocs and ProcessDocs.

Done == DL = <<>> \/ (view.mode = "count" /\ ~view.filter) \/ doc_pos = Len(DL)
          \/ (doc_pos > 0 /\ (~PagerRunning \/ Ctrl_C))

\* How many documents, from the one at hand, are loaded at once: as many as
\* stay below the size of the buffer, and one more.  The lengths are those the
\* list has, which only ranking and, at level 3, a Boolean query look up.
BatchLen ==
  LET n == Len(DL) - doc_pos
      Mem(k) == SumOf([j \in 1 .. n |-> DL[doc_pos + j].Len], k)
  IN CHOOSE k \in 1 .. n : /\ k = n \/ Mem(k) >= max_buf
                          /\ \A j \in 1 .. k - 1 : Mem(j) < max_buf

\* Mutant: the buffers of the batch before are left.
LoadedMore ==
  [k \in DOMAIN DL |->
     IF k \in doc_pos + 1 .. doc_pos + BatchLen
     THEN [DL[k] EXCEPT !.buf = TRUE, !.Len = DocBytes[DL[k].num]] ELSE DL[k]]

\* LoadCompressedText.
Loaded ==
  [k \in DOMAIN DL |->
     IF k \in doc_pos + 1 .. doc_pos + BatchLen
     THEN [DL[k] EXCEPT !.buf = TRUE, !.Len = DocBytes[DL[k].num]]
     ELSE [DL[k] EXCEPT !.buf = FALSE]]

\* In the modes docnums and count no text is needed, and so none is matched.
ProcessDoc ==
  /\ phase = "show" /\ ~Done
  /\ doc_pos' = doc_pos + 1
  /\ LET num == DL[doc_pos + 1].num
     IN IF view.mode # "text"
        THEN /\ shown' = IF PagerRunning /\ view.mode = "docnums"
                         THEN Append(shown, num) ELSE shown
             /\ UNCHANGED <<DL, TextBuffer, allocated>>
        ELSE /\ DL' = IF DL[doc_pos + 1].buf THEN DL ELSE Loaded
             /\ TextBuffer' = <<num>>
             /\ allocated' = allocated - TextBytes + TextBufferLen(num)
                             + (IF DL[doc_pos + 1].buf THEN 0
                                ELSE Held(SubSeq(Loaded, doc_pos + 1, doc_pos + BatchLen)) - Held(DL))
             /\ shown' = IF PagerRunning /\ (view.filter => num \in Matching)
                         THEN Append(shown, num) ELSE shown
  /\ UNCHANGED <<envVars, streamVars, max_buf, view, PagerRunning, Ctrl_C, Quitting,
                 issued, phase>>

EndDocs ==
  /\ phase = "show" /\ Done
  /\ allocated' = allocated - TextBytes /\ TextBuffer' = <<>>
  /\ phase' = "line"
  /\ UNCHANGED <<envVars, streamVars, DL, doc_pos, max_buf, view, shown, PagerRunning,
                 Ctrl_C, Quitting, issued>>

\* A pager that cannot be started: nothing is shown.
PagerFails ==
  /\ phase = "show" /\ view.pager /\ doc_pos = 0
  /\ phase' = "line"
  /\ UNCHANGED <<envVars, streamVars, docVars, Quitting, issued>>

\* SIGPIPE: who reads the pipe has gone.
SIGPIPE_handler ==
  /\ phase = "show" /\ PagerRunning
  /\ view.pager \/ OutPipe
  /\ PagerRunning' = FALSE
  /\ UNCHANGED <<envVars, streamVars, DL, doc_pos, TextBuffer, allocated, max_buf, view,
                 shown, Ctrl_C, Quitting, issued, phase>>

SIGINT_handler ==
  /\ phase = "show" /\ ~Ctrl_C
  /\ Ctrl_C' = TRUE
  /\ UNCHANGED <<envVars, streamVars, DL, doc_pos, TextBuffer, allocated, max_buf, view,
                 shown, PagerRunning, Quitting, issued, phase>>

SessionNext ==
  \/ CmdSet \/ CmdUnset \/ CmdPush \/ CmdPop \/ CmdReset \/ CmdQuit
  \/ CmdInput \/ CmdOutput
  \/ main \/ EndOfInput \/ Quit \/ query
  \/ ProcessDoc \/ EndDocs \/ PagerFails \/ SIGPIPE_handler \/ SIGINT_handler

SessionSpec == SessionInit /\ [][SessionNext]_sessionVars

-----------------------------------------------------------------------------

(***************************************************************************)
(* What get_query_type, atoi and the constraints themselves rely on: every *)
(* environment of the stack has every parameter that is constrained, with  *)
(* its constraint and a value that it lets pass, whatever was set, unset   *)
(* and pushed.  And what .reset goes back to is the same for the whole     *)
(* session: no command gets at the environment at the bottom.              *)
(***************************************************************************)
ParametersHold ==
  /\ \A e \in DOMAIN stack : \A n \in {m \in DOMAIN InitEnv : InitEnv[m].cons # "none"} :
       /\ n \in DOMAIN stack[e]
       /\ stack[e][n].cons = InitEnv[n].cons
       /\ stack[e][n].data \in Legal(InitEnv[n].cons)
  /\ phase \in {"line", "show", "ended"} => Len(stack) > 1 /\ Head(stack) = base

(***************************************************************************)
(* A stream that is read from or written to is open; one that is left was  *)
(* closed, once, and as it was opened: pclose for a pipe, fclose for a     *)
(* file, and neither for stdin and stdout.                                 *)
(***************************************************************************)
StreamsClosed ==
  \A s \in DOMAIN opened :
    opened[s].closed =
      IF s \in {stdin, stdout, InFile, OutFile} THEN <<>>
      ELSE IF opened[s].kind = "pipe" THEN <<"pclose">> ELSE <<"fclose">>

\* One document is in memory, or all but the last are together shorter than the
\* buffer.
BatchFits ==
  \A k \in DOMAIN DL :
    DL[k].buf /\ (\A j \in k + 1 .. Len(DL) : ~DL[j].buf)
      => \/ Held(DL) = DocBytes[DL[k].num]
         \/ Held(DL) - DocBytes[DL[k].num] < max_buf

(***************************************************************************)
(* The document shown is in memory, nothing is in memory but the documents *)
(* of the answer at hand, whose buffers are freed with it, and when their  *)
(* lengths are known they take no more than the buffer and one document.   *)
(***************************************************************************)
BuffersHold ==
  /\ allocated = Held(DL) + TextBytes
  /\ phase = "show" /\ view.mode = "text" /\ doc_pos > 0 => DL[doc_pos].buf
  /\ view.known => BatchFits
=============================================================================
