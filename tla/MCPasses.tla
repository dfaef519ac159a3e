------------------------------ MODULE MCPasses ------------------------------
(* The two halves of mg_passes: the reader on every small text, and the     *)
(* inversion of small documents.  They share nothing but the order of       *)
(* documents, so inversion is looked at after one text only, an empty one.  *)
EXTENDS Driver, InvfPass2

CONSTANTS MaxText, MaxFiles

Ascending(s) == \A f \in 2 .. Len(s) : s[f - 1] <= s[f]

MCInputs ==
  {[ends |-> e, terms |-> t] :
     e \in {s \in UNION {[1 .. n -> 0 .. MaxText] : n \in 1 .. MaxFiles} :
              Ascending(s)},
     t \in SUBSET (0 .. MaxText - 1)}

(* Terminators only within the text.                                       *)
MCAnyInputs ==
  {in \in MCInputs : \A t \in in.terms : t < in.ends[Len(in.ends)]}

\* Words missing, alone, repeated, in both orders of first occurrence.
MCDocuments ==
  {<<>>, <<1>>, <<2>>, <<1, 2>>, <<2, 1>>, <<2, 1, 2>>, <<1, 1, 1>>}

MCLimits == 0 .. 2

Nothing == [ends |-> <<0>>, terms |-> {}]

ReaderStep == Next /\ UNCHANGED invfVars

PassesInit == Init /\ InvfInit

PassesNext ==
  \/ ReaderStep
  \/ pc \in Ended /\ input = Nothing /\ InvfNext /\ UNCHANGED vars

\* The reader runs by itself, and the second pass goes on with a text that has
\* ended; nothing makes the first pass end a text.
PassesSpec ==
  /\ PassesInit
  /\ [][PassesNext]_<<vars, invfVars>>
  /\ WF_vars(ReaderStep)
  /\ WF_invfVars((init_ivf_2 \/ LoadCounts \/ process_doc_2) /\ UNCHANGED vars)
=============================================================================
