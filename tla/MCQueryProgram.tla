--------------------------- MODULE MCQueryProgram ---------------------------
(* A ranked query, and the program around the queries.                      *)
EXTENDS Ranked, Session

VARIABLE part   \* whose states these are

\* A list of documents, with counts of 1 and 2.
List(S) ==
  LET s == SetToSortSeq(S, LAMBDA x, y : x < y)
  IN [x \in DOMAIN s |-> [doc |-> s[x], count |-> 1 + (s[x] % 2)]]
Term(S, skip, freq) == [list |-> List(S), k |-> skip, freq |-> freq]

\* Rare words without skips, and longer lists with skips of every size.
Rare  == {Term({1}, 0, 1), Term({3, 4}, 0, 1), Term({5}, 0, 2)}
Long  == {Term(S, skip, 1) : S \in {{1, 2, 3, 4, 5}, {2, 3, 4, 5}, {1, 3, 4}, {2, 4, 5}},
                             skip \in 0 .. 2}
\* A rare word, then one that is in every document or in some, with skips; the
\* last one packs a list of three entries to less before its last two terms.
FewQueries ==
  {<<Term({3, 4}, 0, 1), Term({1, 2, 3, 4, 5}, 2, 1), Term({2, 3, 4, 5}, 2, 1)>>,
   <<Term({1, 2, 3, 4}, 1, 1), Term({2, 4, 5}, 1, 1)>>,
   <<Term({2, 4, 5}, 0, 1), Term({1, 3, 4}, 2, 3)>>,
   <<Term({3, 4}, 0, 1), Term({3}, 0, 1), Term({1, 3, 4}, 1, 1), Term({2, 5}, 0, 1)>>}

MCQueries ==
  FewQueries \cup {<<>>}
    \cup {<<a, b>> : a \in Rare, b \in Long}
    \cup {<<a, b>> : a \in {t \in Long : t.k = 2}, b \in Long}
    \cup {<<a, b, c>> : a \in Rare, b \in Rare, c \in Long}

Info(m, accums, stop, terms, exact, docs, paras) ==
  [AccumMethod |-> m, MaxAccums |-> accums, StopAtMaxAccum |-> stop,
   MaxTerms |-> terms, Exact |-> exact, MaxDocsToRetrieve |-> docs,
   maxparas |-> paras]
Methods == {"A", "S", "H", "L"}

\* Many limits on accumulation, and many on what is retrieved.
AccumInfos ==
  {Info(m, accums, stop, -1, FALSE, -1, 3) :
     m \in Methods, accums \in {-1, 1, 2, 3}, stop \in BOOLEAN}
RankInfos ==
  {Info(m, 3, FALSE, terms, exact, docs, paras) :
     m \in Methods, terms \in {-1, 1}, exact \in BOOLEAN, docs \in {-1, 1, 2},
     paras \in {1, 2, 4}}
MCInfos == AccumInfos \cup RankInfos

DocTable(approx, exact, seek) ==
  [d \in 1 .. NumDocs |->
     [approx |-> approx[d], exact |-> exact[d], SeekPos |-> seek[d]]]
Plain == DocTable(<<1, 1, 1, 1, 1>>, <<2, 4, 3, 2, 1>>, <<1, 2, 3, 4, 5>>)

\* Bounds that put the documents in another order than the true weights do, and
\* documents of one, two and three paragraphs.
MCDocTables ==
  {Plain} \cup {DocTable(approx, exact, seek) :
     approx \in {<<1, 1, 1, 1, 1>>, <<2, 1, 1, 2, 1>>},
     exact \in {<<2, 4, 3, 2, 1>>, <<4, 2, 1, 3, 4>>},
     seek \in {<<1, 2, 3, 4, 5>>, <<1, 2, 2, 2, 5>>}}

\* Many ways to accumulate with one to rank, and the other way round; only at
\* level 3 there is more than one paragraph to a document.
MCInit ==
  /\ \/ /\ Terms \in MCQueries /\ rqi \in AccumInfos /\ InvfLevel \in {1, 2}
        /\ doctable = Plain
     \/ /\ Terms \in FewQueries /\ rqi \in RankInfos /\ InvfLevel \in {2, 3}
        /\ doctable \in MCDocTables
        /\ InvfLevel = 3 => doctable[2].SeekPos = doctable[3].SeekPos
        /\ InvfLevel = 2 => rqi.maxparas = 1
  /\ Init

MCSettings ==
  {<<"expert", "">>, <<"expert", "on">>, <<"buffer", "1">>, <<"buffer", "0">>, <<"buffer", "">>,
   <<"maxdocs", "">>, <<"mode", "docnums">>, <<"mode", "count">>, <<"pager", "">>,
   <<"mine", "on">>}

\* With a buffer of 9 bytes the third document is loaded by itself.
MCDocBytes == <<4, 6, 3>>

MCAnswers ==
  [docs : {<<>>, <<2>>, <<1, 2, 3>>}, known : BOOLEAN]

RankedOff ==
  /\ Terms = <<>> /\ InvfLevel = 2 /\ rqi = CHOOSE info \in RankInfos : TRUE
  /\ doctable = Plain
  /\ Init

SessionOff ==
  /\ stack = <<InitEnv>> /\ base = InitEnv /\ opened = <<>>
  /\ InFile = 0 /\ OutFile = 0 /\ InPipe = FALSE /\ OutPipe = FALSE /\ tty = FALSE
  /\ Quitting = FALSE
  /\ DL = <<>> /\ doc_pos = 0 /\ TextBuffer = <<>> /\ allocated = 0 /\ max_buf = 0
  /\ view = NoView /\ shown = <<>> /\ PagerRunning = FALSE /\ Ctrl_C = FALSE
  /\ issued = 0 /\ phase = "off"

ProgramInit ==
  \/ part = "ranked" /\ MCInit /\ SessionOff
  \/ part = "session" /\ SessionInit /\ RankedOff

ProgramNext ==
  \/ part = "ranked" /\ RankedNext /\ UNCHANGED <<part, sessionVars>>
  \/ part = "session" /\ SessionNext /\ UNCHANGED <<part, vars>>

ProgramSpec == ProgramInit /\ [][ProgramNext]_<<part, vars, sessionVars>>
=============================================================================
