----------------------------- MODULE ModelFiles -----------------------------
(***************************************************************************)
(* tools/merge_lora.py and tools/quantize_awq.py: two directories that are *)
(* written file by file and checked by guardrails, and that a later run    *)
(* finds and leaves alone.                                                 *)
(*                                                                         *)
(* A directory is how many of its four files are written (Files, in the    *)
(* order save_pretrained writes them), whether a crash left one half       *)
(* written, the size of the weights, whether the model generates text, and *)
(* what it was made from: an adapter, or a merged model whose files were   *)
(* all written (whole) or not (half).                                      *)
(***************************************************************************)
EXTENDS Integers, Sequences

CONSTANTS MinSize,    \* guardrail 2 of the merge: 2 GB
          MinRatio,   \* guardrail 3 of the quantization: 2
          MinCalib,   \* guardrail 2 of the quantization: 64 samples
          Records,    \* lengths the dataset may have; negative: a line does not parse
          Sizes,      \* sizes of saved weights
          MaxMd       \* bound: how many commands are started

\* Guardrail 3 asks for a smaller model only when its factor is positive.
ASSUME GuardrailAssumption == MinRatio \in Nat \ {0} /\ Sizes \subseteq Nat /\ MinSize \in Nat

Files == <<"config.json", "generation_config.json", "model.safetensors", "tokenizer.json">>
NoDir == [saved |-> 0, half |-> FALSE, size |-> 0, speaks |-> FALSE, source |-> "none"]

VARIABLES mdPc,        \* where the command is
          mdMerged,    \* checkpoints/curated_merged
          mdAwq,       \* checkpoints/curated_awq
          mdModel,     \* the model in memory: its size, speaks, source
          mdAdapter,   \* whether the files of an adapter are under checkpoints/
          mdStatus,    \* the last quantization ended with status 0
          mdRuns

mdVars == <<mdPc, mdMerged, mdAwq, mdModel, mdAdapter, mdStatus, mdRuns>>

MdInit ==
    /\ mdPc = "idle" /\ mdMerged = NoDir /\ mdAwq = NoDir /\ mdModel = NoDir
    /\ mdAdapter = FALSE /\ mdStatus = [merge |-> FALSE, awq |-> FALSE] /\ mdRuns = 0

Exists(dir, k) == k <= dir.saved \/ (dir.half /\ k = dir.saved + 1)
Whole(dir) == dir.saved = Len(Files)

\* SFT leaves an adapter; the user deletes a directory, as the messages say.
MdNewAdapter ==
    /\ mdPc = "idle" /\ ~mdAdapter /\ mdAdapter' = TRUE
    /\ UNCHANGED <<mdPc, mdMerged, mdAwq, mdModel, mdStatus, mdRuns>>
MdDelete ==
    /\ mdPc = "idle"
    /\ \/ mdMerged # NoDir /\ mdMerged' = NoDir /\ UNCHANGED mdAwq
       \/ mdAwq # NoDir /\ mdAwq' = NoDir /\ UNCHANGED mdMerged
    /\ mdStatus' = [merge |-> FALSE, awq |-> FALSE]
    /\ UNCHANGED <<mdPc, mdModel, mdAdapter, mdRuns>>

-----------------------------------------------------------------------------
(* merge_lora.py *)

\* Guardrail 1, and the early return when a config.json is there.
MdMerge(size, speaks) ==
    /\ mdPc = "idle" /\ mdRuns < MaxMd
    /\ mdRuns' = mdRuns + 1
    /\ IF ~mdAdapter \/ Exists(mdMerged, 1) THEN UNCHANGED <<mdPc, mdModel>>
       ELSE /\ mdModel' = [NoDir EXCEPT !.size = size, !.speaks = speaks, !.source = "adapter"]
            /\ mdPc' = "saving merged"
    /\ mdStatus' = [mdStatus EXCEPT !.merge = mdAdapter /\ Exists(mdMerged, 1)]
    /\ UNCHANGED <<mdMerged, mdAwq, mdAdapter>>

\* save_pretrained of the model, then of the tokenizer.
Saved(dir) == [mdModel EXCEPT !.saved = dir.saved + 1]
MdSaveMerged ==
    /\ mdPc = "saving merged"
    /\ mdMerged' = Saved(mdMerged)
    /\ mdPc' = IF Whole(mdMerged') THEN "checking merged" ELSE mdPc
    /\ UNCHANGED <<mdAwq, mdModel, mdAdapter, mdStatus, mdRuns>>

\* Guardrails 2 and 3 say whether the merge was good; the files stay either way.
MdCheckMerged ==
    /\ mdPc = "checking merged"
    /\ mdStatus' = [mdStatus EXCEPT !.merge = mdMerged.size >= MinSize /\ mdModel.speaks]
    /\ mdPc' = "idle"
    /\ UNCHANGED <<mdMerged, mdAwq, mdModel, mdAdapter, mdRuns>>

-----------------------------------------------------------------------------
(* quantize_awq.py *)

\* Both the tokenizer and the weights are loaded, and guardrail 2 counts the
\* samples.  A plausible slip: what guardrail 1 found is taken for a model.
LoadCalibData(records) == IF records > MinCalib THEN MinCalib ELSE records
FaultyCanQuantize(records) == LoadCalibData(records) >= MinCalib
CanQuantize(records) == Whole(mdMerged) /\ LoadCalibData(records) >= MinCalib
QuantizedFrom(size, speaks) ==
    [NoDir EXCEPT !.size = size, !.speaks = speaks, !.source = IF Whole(mdMerged) THEN "whole" ELSE "half"]

\* Guardrail 1 looks for two files of the merged model; an AWQ model whose
\* config.json is there is not made again, but its guardrails are run.
MdQuantize(records, size, speaks) ==
    /\ mdPc = "idle" /\ mdRuns < MaxMd
    /\ mdRuns' = mdRuns + 1
    /\ mdStatus' = [mdStatus EXCEPT !.awq = FALSE]
    /\ LET found == Exists(mdMerged, 1) /\ Exists(mdMerged, 2)
       IN  \/ /\ found /\ Exists(mdAwq, 1)
              /\ mdPc' = "checking awq" /\ UNCHANGED mdModel
           \/ /\ found /\ ~Exists(mdAwq, 1) /\ CanQuantize(records)
              /\ mdPc' = "saving awq" /\ mdModel' = QuantizedFrom(size, speaks)
           \/ /\ ~found \/ (~Exists(mdAwq, 1) /\ ~CanQuantize(records))
              /\ UNCHANGED <<mdPc, mdModel>>
    /\ UNCHANGED <<mdMerged, mdAwq, mdAdapter>>

MdSaveAwq ==
    /\ mdPc = "saving awq"
    /\ mdAwq' = Saved(mdAwq)
    /\ mdPc' = IF Whole(mdAwq') THEN "checking awq" ELSE mdPc
    /\ UNCHANGED <<mdMerged, mdModel, mdAdapter, mdStatus, mdRuns>>

\* Guardrail 3 compares the two directories, guardrail 4 loads the model from disk.
SizeOf(dir) == IF dir.saved >= 3 THEN dir.size ELSE IF dir.saved = 2 /\ dir.half THEN dir.size \div 2 ELSE 0
MdCheckAwq ==
    /\ mdPc = "checking awq"
    /\ mdStatus' = [mdStatus EXCEPT !.awq =
         /\ SizeOf(mdAwq) > 0 /\ SizeOf(mdMerged) >= MinRatio * SizeOf(mdAwq)
         /\ Whole(mdAwq) /\ mdAwq.speaks]
    /\ mdPc' = "idle"
    /\ UNCHANGED <<mdMerged, mdAwq, mdModel, mdAdapter, mdRuns>>

-----------------------------------------------------------------------------

\* A crash leaves the file it was writing half written, or not begun.
MdCrash ==
    /\ mdPc # "idle" /\ mdPc' = "idle"
    /\ mdMerged' \in {mdMerged} \cup
         (IF mdPc = "saving merged" THEN {[mdModel EXCEPT !.saved = mdMerged.saved, !.half = TRUE]} ELSE {})
    /\ mdAwq' \in {mdAwq} \cup
         (IF mdPc = "saving awq" THEN {[mdModel EXCEPT !.saved = mdAwq.saved, !.half = TRUE]} ELSE {})
    /\ UNCHANGED <<mdModel, mdAdapter, mdStatus, mdRuns>>

MdStep == MdSaveMerged \/ MdCheckMerged \/ MdSaveAwq \/ MdCheckAwq
MdNext ==
    \/ MdStep \/ MdNewAdapter \/ MdDelete \/ MdCrash
    \/ \E size \in Sizes, speaks \in BOOLEAN : MdMerge(size, speaks)
    \/ \E records \in Records, size \in Sizes, speaks \in BOOLEAN : MdQuantize(records, size, speaks)

-----------------------------------------------------------------------------

\* A quantization that ends well leaves a model that can be used, also when it
\* found the directory of an earlier run (tools/quantize_awq.py:104-175): all its
\* files are written, it generates text, it was made from a merged model that was
\* whole, and it is the smaller of the two.
AwqIsUsable ==
    mdStatus.awq => /\ Whole(mdAwq) /\ mdAwq.speaks /\ mdAwq.source = "whole"
                    /\ SizeOf(mdMerged) >= MinRatio * mdAwq.size
=============================================================================
