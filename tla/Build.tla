------------------------------- MODULE Build --------------------------------
(***************************************************************************)
(* The files of one collection.  mgbuild runs one program after another    *)
(* over them and may be killed in any, with files half written; it is run  *)
(* again, with other options, on the files that are there; mgquery opens   *)
(* whichever of them it finds.  A program is the sequence of what it does  *)
(* to files, in the order of the code; a file is the set of the builds its *)
(* contents stem from.                                                     *)
(***************************************************************************)
EXTENDS Integers, Sequences, FiniteSets

CONSTANTS
  ConfigSets,  \* the options a collection may be built with, by collection:
               \* records [level, indexes, aux]
  MaxBuilds,   \* bound: builds of the whole text
  MaxKills     \* bound: programs killed

\* mgbuild keeps the files of level 3 apart from the others.
ASSUME BuildAssumption ==
  /\ MaxBuilds \in Nat /\ MaxKills \in Nat
  /\ \A set \in ConfigSets :
       /\ set \subseteq [level : 1 .. 3, indexes : BOOLEAN, aux : BOOLEAN]
       /\ \A a, b \in set : a.level = 3 <=> b.level = 3

VARIABLES
  configs,   \* what this collection may be built with
  config,    \* the options of the build at hand
  build,     \* its number
  disk,      \* the files: the builds each one's contents stem from
  indexed,   \* the bits of the header of invf.dict.blocked
  script,    \* the programs to run, the running one first
  ops,       \* what is left of the running one
  inputs,    \* the builds that what it has read stems from
  kills,     \* programs killed so far
  status     \* "new", "next", "run", "done", "failed"

buildVars == <<configs, config, build, disk, indexed, script, ops, inputs, kills, status>>

\* A file that was created and never closed; no build has this number.
Torn == {0}

Exists(f) == f \in DOMAIN disk

-----------------------------------------------------------------------------
\* The programs.

Op(verb, f) == [verb |-> verb, f |-> f]
Opens(files) == [n \in DOMAIN files |-> Op("read", files[n])]
Creates(files) == [n \in DOMAIN files |-> Op("create", files[n])]
Closes(files) == [n \in DOMAIN files |-> Op("close", files[n])]
Source == <<Op("source", "source")>>

Passes1 ==
  Creates(<<"invf.chunk">>) \o Source
    \o Creates(<<"text.stats", "invf.dict">>) \o Closes(<<"invf.dict">>)
    \o Creates(<<"invf.chunk.trans">>) \o Closes(<<"invf.chunk.trans", "invf.chunk", "text.stats">>)

PerfHashBuild ==
  Opens(<<"invf.dict">>) \o Creates(<<"invf.dict.hash">>) \o Closes(<<"invf.dict.hash">>)

CompressionDict ==
  Opens(<<"text.stats">>) \o Creates(<<"text.dict">>) \o Closes(<<"text.dict">>)

Paragraph == IF config.level = 3 THEN <<"invf.paragraph">> ELSE <<>>

\* The list of novel words is written, or one from another dictionary taken
\* away.
AuxDict ==
  IF config.aux THEN Creates(<<"text.dict.aux">>) \o Closes(<<"text.dict.aux">>)
  ELSE <<Op("unlink", "text.dict.aux")>>

\* Mutant: the weights of an earlier build are left where they are.
NoOldWeights == <<>>

\* Without -W the second pass makes no weights and takes the old ones away.
OldWeights == <<Op("unlink", "weight")>>

Passes2 ==
  Opens(<<"text.dict">>) \o Creates(<<"text", "text.idx">>)
    \o Opens(<<"invf.dict", "invf.dict.hash", "invf.chunk", "invf.chunk.trans">>)
    \o Creates(<<"invf", "invf.idx">> \o Paragraph) \o OldWeights \o Source
    \o Closes(<<"text.idx", "text">>) \o AuxDict
    \o Closes(Paragraph \o <<"invf.idx", "invf">>)

\* The weights that are there are taken; of an inverted file without counts
\* none can be made, and the program ends as if nothing were wrong.
WeightsBuild ==
  IF ~Exists("weight") /\ config.level = 1
  THEN Opens(<<"invf.dict", "invf.idx", "invf">>)
  ELSE Opens(<<"invf.dict">>)
         \o (IF Exists("weight") THEN <<>>
             ELSE Opens(<<"invf.idx", "invf">>) \o Creates(<<"weight">>) \o Closes(<<"weight">>))
         \o Opens(<<"weight">>) \o Creates(<<"weight.approx">>) \o Closes(<<"weight.approx">>)
         \o Creates(<<"text.idx.wgt">>) \o Opens(<<"text.idx">> \o Paragraph)
         \o Closes(<<"text.idx.wgt">>)

InvfDict ==
  Opens(<<"invf.dict", "invf.idx">>) \o Creates(<<"invf.dict.blocked">>)
    \o Closes(<<"invf.dict.blocked">>)

StemFiles == <<"invf.dict.blocked.1", "invf.dict.blocked.2", "invf.dict.blocked.3">>

StemIdx(n) ==
  Opens(<<"invf.dict.blocked">>) \o Creates(<<StemFiles[n]>>) \o Closes(<<StemFiles[n]>>)
    \o <<Op("index", n)>>

FastCompDict ==
  (IF Exists("text.dict.aux") THEN Opens(<<"text.dict.aux">>) ELSE <<>>)
    \o Opens(<<"text.dict">>) \o Creates(<<"text.dict.fast">>) \o Closes(<<"text.dict.fast">>)

FileOps(program) ==
  CASE program = "mg_passes -1"          -> Passes1
    [] program = "mg_perf_hash_build"    -> PerfHashBuild
    [] program = "mg_compression_dict"   -> CompressionDict
    [] program = "mg_passes -2"          -> Passes2
    [] program = "mg_weights_build"      -> WeightsBuild
    [] program = "mg_invf_dict"          -> InvfDict
    [] program = "mg_stem_idx -s1"       -> StemIdx(1)
    [] program = "mg_stem_idx -s2"       -> StemIdx(2)
    [] program = "mg_stem_idx -s3"       -> StemIdx(3)
    [] program = "mg_fast_comp_dict"     -> FastCompDict

-----------------------------------------------------------------------------
\* mgbuild.

Pass1Part == <<"mg_passes -1", "mg_perf_hash_build", "mg_compression_dict">>
Pass2Part == <<"mg_passes -2">>
LastPart(o) ==
  <<"mg_weights_build", "mg_invf_dict">>
    \o (IF o.indexes THEN <<"mg_stem_idx -s1", "mg_stem_idx -s2", "mg_stem_idx -s3">> ELSE <<>>)

BuildInit ==
  /\ configs \in ConfigSets
  /\ config \in configs
  /\ build = 0
  /\ disk = <<>>
  /\ indexed = {}
  /\ script = <<>>
  /\ ops = <<>>
  /\ inputs = {}
  /\ kills = 0
  /\ status = "new"

Ended == status \in {"new", "done", "failed"}

\* The whole build, of a text that may be another than before.
mgbuild ==
  /\ Ended
  /\ build < MaxBuilds
  /\ build' = build + 1
  /\ config' \in configs
  /\ script' = Pass1Part \o Pass2Part \o LastPart(config')
  /\ status' = "next"
  /\ UNCHANGED <<configs, disk, indexed, ops, inputs, kills>>

\* With do_pass1 = 0, and then with do_pass2 = 0, mgbuild goes on where one
\* was killed.  A file of weights that is half written would be taken for
\* whole: whoever goes on must see to it that there is none.
GoOn ==
  /\ status = "failed"
  /\ script # <<>>
  /\ \E part \in {Pass2Part \o LastPart(config), LastPart(config)} :
       /\ \E n \in 0 .. Len(part) - 1 : SubSeq(part, n + 1, Len(part)) = script
       /\ Exists("weight") /\ disk["weight"] = Torn => Head(part) = Head(Pass2Part)
       /\ script' = part
  /\ status' = "next"
  /\ UNCHANGED <<configs, config, build, disk, indexed, ops, inputs, kills>>

\* mgbuild only says how to build this dictionary.
mg_fast_comp_dict ==
  /\ status = "done"
  /\ script' = <<"mg_fast_comp_dict">>
  /\ status' = "next"
  /\ UNCHANGED <<configs, config, build, disk, indexed, ops, inputs, kills>>

RunProgram ==
  /\ status = "next"
  /\ IF script = <<>>
     THEN status' = "done" /\ UNCHANGED <<ops, inputs>>
     ELSE /\ ops' = FileOps(Head(script))
          /\ status' = "run"
          /\ UNCHANGED inputs
  /\ UNCHANGED <<configs, config, build, disk, indexed, script, kills>>

ProgramEnds ==
  /\ status = "run"
  /\ ops = <<>>
  /\ script' = Tail(script)
  /\ inputs' = {}
  /\ status' = "next"
  /\ UNCHANGED <<configs, config, build, disk, indexed, ops, kills>>

-----------------------------------------------------------------------------
\* What programs do to files.

Doing(verb) == status = "run" /\ ops # <<>> /\ Head(ops).verb = verb
Done == ops' = Tail(ops) /\ UNCHANGED <<configs, config, build, script, kills>>

Write(f, stems) ==
  disk' = [g \in DOMAIN disk \cup {f} |-> IF g = f THEN stems ELSE disk[g]]

ReadSource ==
  /\ Doing("source")
  /\ inputs' = inputs \cup {build}
  /\ Done
  /\ UNCHANGED <<disk, indexed, status>>

\* open_file: a program that misses a file ends with an error, and mgbuild
\* with it.
open_file ==
  /\ Doing("read")
  /\ IF Exists(Head(ops).f)
     THEN inputs' = inputs \cup disk[Head(ops).f] /\ Done /\ UNCHANGED status
     ELSE /\ status' = "failed" /\ ops' = <<>> /\ inputs' = {}
          /\ UNCHANGED <<configs, config, build, script, kills>>
  /\ UNCHANGED <<disk, indexed>>

\* create_file writes the magic number; to one who opens the file it looks
\* whole from then on.
create_file ==
  /\ Doing("create")
  /\ Write(Head(ops).f, Torn)
  /\ indexed' = IF Head(ops).f = "invf.dict.blocked" THEN {} ELSE indexed
  /\ Done
  /\ UNCHANGED <<inputs, status>>

CloseFile ==
  /\ Doing("close")
  /\ Write(Head(ops).f, inputs)
  /\ Done
  /\ UNCHANGED <<inputs, indexed, status>>

Unlink ==
  /\ Doing("unlink")
  /\ disk' = [g \in DOMAIN disk \ {Head(ops).f} |-> disk[g]]
  /\ Done
  /\ UNCHANGED <<inputs, indexed, status>>

UpdateStemDict ==
  /\ Doing("index")
  /\ indexed' = indexed \cup {Head(ops).f}
  /\ Done
  /\ UNCHANGED <<disk, inputs, status>>

\* The program is killed, or the disk is full.
Killed ==
  /\ status = "run"
  /\ kills < MaxKills
  /\ kills' = kills + 1
  /\ status' = "failed"
  /\ ops' = <<>>
  /\ inputs' = {}
  /\ UNCHANGED <<configs, config, build, disk, indexed, script>>

FileStep ==
  ReadSource \/ open_file \/ create_file \/ CloseFile \/ Unlink \/ UpdateStemDict

BuildNext ==
  \/ mgbuild \/ GoOn \/ mg_fast_comp_dict
  \/ RunProgram \/ ProgramEnds
  \/ FileStep \/ Killed

BuildSpec == BuildInit /\ [][BuildNext]_buildVars

-----------------------------------------------------------------------------
\* mgquery: the files it opens.

Present(files) == {f \in files : Exists(f)}

Dictionary ==
  IF Exists("text.dict.fast") THEN {"text.dict.fast"}
  ELSE {"text.dict"} \cup Present({"text.dict.aux"})

WeightFiles == {"text.idx.wgt", "weight.approx"}

\* The index of the text is opened when neither file with weights is there.
TextIndexes ==
  IF Present(WeightFiles) = {} THEN {"text.idx"} ELSE Present(WeightFiles)

\* The bits say that there are stem indexes, and all three are there.
StemIndexes == {StemFiles[n] : n \in 1 .. 3}
UsesStemIndexes == indexed # {} /\ Present(StemIndexes) = StemIndexes

open_all_files ==
  {"text", "invf.dict.blocked", "invf"} \cup Dictionary \cup TextIndexes
    \cup (IF UsesStemIndexes THEN StemIndexes ELSE {})

\* Nothing is missing that InitQuerySystem wants.
InitQuerySystem ==
  /\ \A f \in open_all_files : Exists(f)
  /\ indexed # {} => UsesStemIndexes

-----------------------------------------------------------------------------

\* What mgbuild does not know of and leaves from an earlier build: the
\* dictionary it never builds, and, when it makes no weights, the weights.
LeftBehind ==
  {"text.dict.fast"} \cup (IF config.level = 1 THEN WeightFiles ELSE {})

(***************************************************************************)
(* A build that ends without an error leaves a collection that can be      *)
(* queried, whatever an earlier one was killed in or was built with: every *)
(* file mgquery opens is whole and stems from this build alone, and what   *)
(* the options asked for is there: the weights to rank with, the stem      *)
(* indexes, the novel words.                                               *)
(***************************************************************************)
BuiltIsCurrent ==
  status = "done" =>
    /\ InitQuerySystem
    /\ \A f \in open_all_files \ LeftBehind : disk[f] = {build}
    /\ config.level > 1 => WeightFiles \subseteq open_all_files
    /\ UsesStemIndexes = config.indexes
    /\ ~Exists("text.dict.fast") => config.aux = ("text.dict.aux" \in open_all_files)
=============================================================================
