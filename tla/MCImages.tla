------------------------------ MODULE MCImages ------------------------------
(***************************************************************************)
(* The image programs, each part on its own inputs: the arithmetic decoder *)
(* on any bits (ArithCode), pictures and residues (Bilevel), the symbols   *)
(* of an image and their offsets (Symbols), and a page that is taken apart *)
(* into marks and written as symbols (Textual).                            *)
(***************************************************************************)
EXTENDS Textual, Symbols

VARIABLE part   \* whose states these are

Rows(w) == [1 .. w -> {0, 1}]

\* Templates of two rows and of one, with and without a second context: one
\* that says it looks ahead and one that looks ahead without saying it, one
\* with no current pixel, and one that is as wide as can be.
Everyday   == << <<"p", "p", "p">>, <<"2", "*", ".">> >>
Beside     == << <<"2", "*">> >>
Ahead      == << <<"p", "*", "2">> >>
BelowLeft  == << <<"p", "*">>, <<"2", ".">> >>
NoCurrent  == << <<"p">> >>
Wide       == << <<"p", ".", ".", "*">> >>

MCPages ==
  ([1 .. 3 -> Rows(3)] \X {Everyday}) \cup
  ([1 .. 2 -> Rows(3)] \X {Everyday, Beside, Ahead, BelowLeft, NoCurrent, Wide})

MCEverydayPages == [1 .. 2 -> Rows(3)] \X {Everyday}

MCResidues ==
  [1 .. 3 -> Rows(2)] \X {<< <<0, 1>>, <<1, 0>>, <<1, 1>> >>,
                          << <<0, 0>>, <<0, 0>>, <<0, 0>> >>}

\* Symbols that recur, in every order of two, and one by itself.
MCOffsetLists  == {<<0>>, <<0, 0, 1>>, <<1, 0, 1>>, <<0, 0, 0>>}
MCOffsetValues == {-2, 0, 1}

Symbol(w, h, S) == [xpos |-> 0, ypos |-> 0, w |-> w, h |-> h, bitmap |-> S]

\* Small symbols whose centres are at their corners, and one whose is not.
Specks == <<Symbol(1, 1, {<<0, 0>>}), Symbol(2, 1, {<<0, 0>>, <<1, 0>>}),
            Symbol(1, 2, {<<0, 0>>, <<0, 1>>})>>
Bars   == <<Symbol(1, 1, {<<0, 0>>}), Symbol(3, 1, {<<0, 0>>, <<1, 0>>, <<2, 0>>})>>

Job(page, cols, rows, build, lossy, lib) ==
  [page |-> page, cols |-> cols, rows |-> rows, build |-> build, lossy |-> lossy,
   library |-> lib]

Sheet(cols, rows) == (0 .. cols - 1) \X (0 .. rows - 1)

\* A ring with a dot in it, a broken one, a comb, and dots in several lines.
Eye    == (Sheet(5, 5) \ ((1 .. 3) \X (1 .. 3))) \cup {<<2, 2>>}
Comb   == ({0, 2, 4} \X (0 .. 3)) \cup ((0 .. 4) \X {3})
Dots   == {<<0, 0>>, <<4, 0>>, <<2, 1>>, <<3, 5>>}
Square == {0, 2} \X {0, 2}

\* Every small page; some larger ones; one of which the library is made; and
\* some with the residue.
MCJobs ==
  {Job(p, 3, 3, FALSE, TRUE, <<>>) : p \in SUBSET Sheet(3, 3)}
    \cup {Job(p, 3, 2, FALSE, TRUE, Specks) : p \in SUBSET Sheet(3, 2)}
    \cup {Job(p, 4, 1, FALSE, TRUE, Bars) : p \in SUBSET Sheet(4, 1)}
    \cup {Job(p, 5, 5, FALSE, TRUE, <<>>) : p \in {Eye, Comb, Eye \ {<<0, 0>>}}}
    \cup {Job(Dots, 5, 7, TRUE, TRUE, <<>>)}
    \cup {Job({<<0, 0>>}, 3, 2, FALSE, FALSE, Specks), Job(Square, 4, 4, FALSE, FALSE, Specks)}
MCLosslessJobs == {Job(Square, 4, 4, FALSE, FALSE, Specks)}

ArithOff == S_low = 0 /\ S_high = topvalue /\ S_value = 0 /\ scaling = FALSE

BilevelOff ==
  /\ picture = <<>> /\ template = <<>> /\ view = <<>> /\ arith_in = "NULL"
  /\ coder = Idle /\ decoder = Idle
  /\ coded = <<>> /\ bitmap = <<>> /\ header = <<>> /\ pixel = <<0, 0>>
  /\ imaging = "off"

TicOff ==
  /\ job = [page |-> {}] /\ library = <<>>
  /\ sheet = {} /\ start = <<0, 0>> /\ trace = NoTrace
  /\ stack = <<>> /\ mark = {} /\ marks = <<>>
  /\ carry = <<0, 0>> /\ last = <<0, 0>> /\ symbol_list = <<>>
  /\ recon = {} /\ unlike = {}

SymbolsOff ==
  /\ sending = "off" /\ nsyms = 0 /\ symbols = <<>> /\ received = <<>>
  /\ j = 0 /\ reader = 0
  /\ out_model = NewModel /\ in_model = NewModel
  /\ places = <<>> /\ placed = <<>>
  /\ out_levels = NewLevels /\ in_levels = NewLevels

ImgInit ==
  \/ part = "decoder" /\ ArithInit /\ BilevelOff /\ TicOff /\ SymbolsOff
  \/ part = "bilevel" /\ BilevelInit /\ ArithOff /\ TicOff /\ SymbolsOff
  \/ part = "tic"     /\ TicInit /\ ArithOff /\ SymbolsOff
  \/ part = "symbols" /\ SymbolsInit /\ ArithOff /\ BilevelOff /\ TicOff

ImgNext ==
  \/ part = "decoder" /\ ArithNext /\ UNCHANGED <<part, bilevelVars, ticVars, symbolVars>>
  \/ part = "bilevel" /\ BilevelNext /\ UNCHANGED <<part, arithVars, ticVars, symbolVars>>
  \/ part = "tic"     /\ TicNext /\ UNCHANGED <<part, arithVars, symbolVars>>
  \/ part = "symbols" /\ SymbolsNext /\ UNCHANGED <<part, arithVars, bilevelVars, ticVars>>

ImgSpec == ImgInit /\ [][ImgNext]_<<part, arithVars, bilevelVars, ticVars, symbolVars>>
=============================================================================
