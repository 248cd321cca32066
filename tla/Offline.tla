------------------------------ MODULE Offline ------------------------------
(***************************************************************************)
(* The scripts around the reward loop.  A behaviour follows one line of    *)
(* work (job), which Init picks: the lines share no file with each other,  *)
(* so running two of them at once adds nothing.  Within a line, scripts    *)
(* that read what others write are started in any order, again and again.  *)
(*                                                                         *)
(*   ladder    - groups and frontiers for the reward formulas              *)
(*   assembler - texts for strip_verifier_log and _encode_to_hex           *)
(*   log       - training runs that log, and analyze_rl_run                *)
(*   tools     - the generators and judges of single programs              *)
(*   data      - enrich_dataset, then train.py on its output               *)
(*   sampling  - diversity_sample and measure_saturation                   *)
(*   benchmark - prepare, run, report                                      *)
(*   grpo      - rl_grpo around its reward function                        *)
(*   models    - merge_lora and quantize_awq                               *)
(***************************************************************************)
EXTENDS RewardShape, RunLog, OfflineTools, SftTraining, DiversitySample, Benchmark, GrpoRun, ModelFiles

CONSTANTS Inputs      \* inputs of enrich_dataset

ASSUME InputsAssumption == Inputs \subseteq Seq(Samples)

VARIABLE job

Jobs == {"ladder", "assembler", "log", "tools", "data", "sampling", "benchmark", "grpo", "models"}
dataVars == <<enVars, sfVars>>
offlineVars == <<job, vars, asmText, rlVars, otVars, dataVars, dsVars, bmVars, grVars, mdVars>>

OfflineInit ==
    /\ job \in Jobs
    /\ Init /\ AsmInit /\ RlInit /\ OtInit /\ EnInit /\ SfInit /\ DsInit /\ BmInit /\ GrInit /\ MdInit
    \* only the line of work that runs has a choice of its start
    /\ enInput \in IF job = "data" THEN Inputs ELSE {<<>>}
    /\ job # "benchmark" => bmVm = "off"

\* train.py reads the output when no enrichment is writing it.
DataNext ==
    \/ EnNext /\ (enPc = "idle" => sfPc = "idle") /\ UNCHANGED sfVars
    \/ SfNext /\ enPc = "idle" /\ UNCHANGED enVars
DataStep ==
    \/ EnStep /\ UNCHANGED sfVars
    \/ SfStep /\ UNCHANGED enVars

\* The parts of the state that a job leaves alone.
Ladder == job = "ladder" /\ Next /\ UNCHANGED <<asmText, rlVars, otVars, dataVars, dsVars, bmVars, grVars, mdVars>>
Assembler == job = "assembler" /\ AsmNext /\ UNCHANGED <<vars, rlVars, otVars, dataVars, dsVars, bmVars, grVars, mdVars>>
LogLine == job = "log" /\ RlNext /\ UNCHANGED <<vars, asmText, otVars, dataVars, dsVars, bmVars, grVars, mdVars>>
Tools(A) == job = "tools" /\ A /\ UNCHANGED <<vars, asmText, rlVars, dataVars, dsVars, bmVars, grVars, mdVars>>
Data(A) == job = "data" /\ A /\ UNCHANGED <<vars, asmText, rlVars, otVars, dsVars, bmVars, grVars, mdVars>>
Sampling(A) == job = "sampling" /\ A /\ UNCHANGED <<vars, asmText, rlVars, otVars, dataVars, bmVars, grVars, mdVars>>
Bench(A) == job = "benchmark" /\ A /\ UNCHANGED <<vars, asmText, rlVars, otVars, dataVars, dsVars, grVars, mdVars>>
Grpo(A) == job = "grpo" /\ A /\ UNCHANGED <<vars, asmText, rlVars, otVars, dataVars, dsVars, bmVars, mdVars>>
Models(A) == job = "models" /\ A /\ UNCHANGED <<vars, asmText, rlVars, otVars, dataVars, dsVars, bmVars, grVars>>

OfflineNext ==
    /\ UNCHANGED job
    /\ \/ Ladder \/ Assembler \/ LogLine
       \/ Tools(OtNext) \/ Data(DataNext) \/ Sampling(DsNextStep)
       \/ Bench(BmNext) \/ Grpo(GrNext) \/ Models(MdNext)

\* A script that has been started and is not killed takes its next step.
ScriptStep ==
    /\ UNCHANGED job
    /\ \/ Tools(OtStep) \/ Data(DataStep) \/ Sampling(DsStep)
       \/ Bench(BmStep) \/ Grpo(GrStepTaken) \/ Models(MdStep)

OfflineSpec == OfflineInit /\ [][OfflineNext]_offlineVars /\ WF_offlineVars(ScriptStep)

-----------------------------------------------------------------------------

Running ==
    \/ otPc # "idle" \/ enPc # "idle" \/ sfPc # "idle" \/ dsPc # "idle"
    \/ bmPc \notin {"idle", "booting"} \/ grPc \notin {"idle", "watchdog"} \/ mdPc # "idle"

=============================================================================
