------------------------------ MODULE GrpoRun ------------------------------
(***************************************************************************)
(* The training script ml/rl_grpo.py around its reward function: starts    *)
(* with and without --resume, --smoke-test and a remote server, the modes  *)
(* the model is switched to for generation, the telemetry that goes from   *)
(* the reward function through a buffer to WandB, checkpoints, the sanity  *)
(* report.  RewardServer and RemoteTraining have the reward functions.     *)
(*                                                                         *)
(* External: the Trainer's loop, and WandB.  A WandB run is a row counter  *)
(* (step) and its rows; a log call without a step, which the Trainer makes *)
(* first at every log, closes the row; one with the step of a closed row   *)
(* is dropped.  The telemetry of a batch is represented by the Trainer's   *)
(* step and the session it was generated in.                               *)
(***************************************************************************)
EXTENDS Integers, Sequences, FiniteSets

CONSTANTS GrSaveSteps,   \* save_steps
          GrMaxSteps,    \* max_steps
          LogVerdicts,      \* verdicts of the debug log
          Recent,        \* the verdicts a sanity report looks at: 200
          MaxGr          \* bound: how many times the script is started

NoRun == 0
NoTele == [step |-> 0, session |-> 0]
Training == [train |-> TRUE, ckpt |-> TRUE]
Inference == [train |-> FALSE, ckpt |-> FALSE]

VARIABLES grPc,       \* where the script is
          grArgs,     \* --resume, --smoke-test, --remote-reward-url
          grMode,     \* whether the model trains, and checkpoints gradients
          grWas,      \* the modes to restore after generation
          grStep,     \* state.global_step
          grTele,     \* _REWARD_TELEMETRY
          grRun,      \* wandb.run
          grWandb,    \* the runs: step, and the telemetry of each row that has one
          grIdFile,   \* wandb_run_id.txt
          grCkpts,    \* steps with a checkpoint in the output directory
          grLog,      \* the last verdicts in grpo_debug.log, as many as a report looks at
          grReport,   \* the last sanity report
          grStarts

grVars == <<grPc, grArgs, grMode, grWas, grStep, grTele, grRun, grWandb, grIdFile, grCkpts, grLog, grReport, grStarts>>

GrInit ==
    /\ grPc = "idle" /\ grArgs = [resume |-> FALSE, smoke |-> FALSE, remote |-> FALSE]
    /\ grMode = Inference /\ grWas = Inference /\ grStep = 0 /\ grTele = NoTele /\ grRun = NoRun
    /\ grWandb = <<>> /\ grIdFile = NoRun /\ grCkpts = {} /\ grLog = <<>> /\ grStarts = 0
    /\ grReport = [seen |-> <<>>, encodeFail |-> FALSE, vmDown |-> FALSE]

\* The process ends.
GrForget ==
    /\ grPc' = "idle" /\ grArgs' = [resume |-> FALSE, smoke |-> FALSE, remote |-> FALSE]
    /\ grMode' = Inference /\ grWas' = Inference /\ grStep' = 0 /\ grTele' = NoTele /\ grRun' = NoRun

-----------------------------------------------------------------------------
(* main *)

\* Parsing the arguments, detecting the checkpoint, loading the model.  Without
\* an API key a remote run ends here.
LastStep == IF grCkpts = {} THEN 0 ELSE CHOOSE c \in grCkpts : \A d \in grCkpts : d <= c
GrStart(args, key) ==
    /\ grPc = "idle" /\ grStarts < MaxGr
    /\ grStarts' = grStarts + 1
    /\ IF args.remote /\ ~args.smoke /\ ~key THEN UNCHANGED <<grPc, grArgs, grStep>>
       ELSE grPc' = "building" /\ grArgs' = args /\ grStep' = IF args.resume THEN LastStep ELSE 0
    /\ UNCHANGED <<grMode, grWas, grTele, grRun, grWandb, grIdFile, grCkpts, grLog, grReport>>

\* wandb.init goes on with the run of WANDB_RUN_ID, or starts one.
Continues == grArgs.resume /\ grIdFile # NoRun
NewRun == [step |-> 0, rows |-> [n \in {} |-> NoTele]]
InitWandb ==
    IF grArgs.smoke THEN UNCHANGED <<grRun, grWandb>>
    ELSE IF Continues THEN grRun' = grIdFile /\ UNCHANGED grWandb
    ELSE grWandb' = Append(grWandb, NewRun) /\ grRun' = Len(grWandb) + 1

\* The Trainer is built.  Whether wandb has a run by now is the library's
\* choice; the file gets its identifier only then, and only if it has none.
GrBuild(early) ==
    /\ grPc = "building"
    /\ IF early
       THEN InitWandb /\ grIdFile' = IF ~grArgs.smoke /\ grIdFile = NoRun THEN grRun' ELSE grIdFile
       ELSE UNCHANGED <<grRun, grWandb, grIdFile>>
    /\ grPc' = "beginning"
    /\ UNCHANGED <<grArgs, grMode, grWas, grStep, grTele, grCkpts, grLog, grReport, grStarts>>

GrTrainBegin ==
    /\ grPc = "beginning"
    /\ IF grRun = NoRun THEN InitWandb ELSE UNCHANGED <<grRun, grWandb>>
    /\ grMode' = Training /\ grPc' = "training"
    /\ UNCHANGED <<grArgs, grWas, grStep, grTele, grIdFile, grCkpts, grLog, grReport, grStarts>>

\* _fixed_unwrap_model_for_generation.
GrEnterGeneration ==
    /\ grPc = "training" /\ grStep < GrMaxSteps
    /\ grWas' = grMode
    /\ grMode' = Inference
    /\ grPc' = "generating"
    /\ UNCHANGED <<grArgs, grStep, grTele, grRun, grWandb, grIdFile, grCkpts, grLog, grReport, grStarts>>
GrLeaveGeneration(raises) ==
    /\ grPc = "generating"
    /\ IF raises THEN GrForget
       ELSE /\ grMode' = grWas /\ grPc' = "scoring"
            /\ UNCHANGED <<grArgs, grWas, grStep, grTele, grRun>>
    /\ UNCHANGED <<grWandb, grIdFile, grCkpts, grLog, grReport, grStarts>>

\* The reward function: a smoke test pays the same to all and leaves the buffer
\* alone; a remote one may raise; a local one logs its verdicts.
LastOf(log, n) == IF Len(log) <= n THEN log ELSE SubSeq(log, Len(log) - n + 1, Len(log))
GrScore(verdicts) ==
    /\ grPc = "scoring"
    /\ grTele' = IF grArgs.smoke THEN grTele ELSE [step |-> grStep + 1, session |-> grStarts]
    /\ grLog' = IF grArgs.smoke \/ grArgs.remote THEN grLog ELSE LastOf(grLog \o verdicts, Recent)
    /\ grPc' = "optimizing"
    /\ UNCHANGED <<grArgs, grMode, grWas, grStep, grRun, grWandb, grIdFile, grCkpts, grReport, grStarts>>
\* The VM call of a local batch fails; the reward function calls the watchdog and
\* waits for it, without a timeout (ml/reward.py:402-403).
GrWatch(encodeFails) ==
    /\ grPc = "scoring" /\ ~grArgs.smoke /\ ~grArgs.remote
    /\ grLog' = LastOf(grLog \o encodeFails, Recent)
    /\ grPc' = "watchdog"
    /\ UNCHANGED <<grArgs, grMode, grWas, grStep, grTele, grRun, grWandb, grIdFile, grCkpts, grReport, grStarts>>
GrWatched ==
    /\ grPc = "watchdog"
    /\ grTele' = [step |-> grStep + 1, session |-> grStarts]
    /\ grPc' = "optimizing"
    /\ UNCHANGED <<grArgs, grMode, grWas, grStep, grRun, grWandb, grIdFile, grCkpts, grLog, grReport, grStarts>>
GrRaise ==
    /\ grPc = "scoring" /\ grArgs.remote /\ ~grArgs.smoke
    /\ GrForget
    /\ UNCHANGED <<grWandb, grIdFile, grCkpts, grLog, grReport, grStarts>>

\* The sanity report of on_step_end: of the last verdicts of the log, whichever
\* run wrote them, and of the VM.
Sanity(vmUp) ==
    LET seen == grLog
        fails == {k \in DOMAIN seen : seen[k] = "ENCODE_FAIL"}
    IN  [seen |-> seen, encodeFail |-> 2 * Cardinality(fails) > Len(seen), vmDown |-> ~vmUp]
GrOptimize(due, vmUp) ==
    /\ grPc = "optimizing"
    /\ grStep' = grStep + 1
    /\ grReport' = IF due /\ ~grArgs.smoke /\ ~grArgs.remote THEN Sanity(vmUp) ELSE grReport
    /\ grPc' = "logging"
    /\ UNCHANGED <<grArgs, grMode, grWas, grTele, grRun, grWandb, grIdFile, grCkpts, grLog, grStarts>>

\* on_log, at every step: the Trainer's own call, then RewardTelemetryCallback
\* with the Trainer's step.  A plausible slip: the telemetry goes to the open row.
FaultyRowFor(run) == run.step + 1
RowFor(run) == grStep
Flushed(run) ==
    LET closed == run.step + 1
    IN  IF grTele = NoTele \/ RowFor(run) < closed THEN [run EXCEPT !.step = closed]
        ELSE [step |-> RowFor(run),
              rows |-> [n \in DOMAIN run.rows \cup {RowFor(run)} |->
                          IF n = RowFor(run) THEN grTele ELSE run.rows[n]]]
GrFlush ==
    /\ grPc = "logging"
    /\ grWandb' = IF grRun = NoRun THEN grWandb ELSE [grWandb EXCEPT ![grRun] = Flushed(@)]
    /\ grPc' = IF grStep % GrSaveSteps = 0 \/ grStep = GrMaxSteps THEN "saving" ELSE "training"
    /\ UNCHANGED <<grArgs, grMode, grWas, grStep, grTele, grRun, grIdFile, grCkpts, grLog, grReport, grStarts>>

GrSave ==
    /\ grPc = "saving"
    /\ grCkpts' = grCkpts \cup {grStep} /\ grPc' = "training"
    /\ UNCHANGED <<grArgs, grMode, grWas, grStep, grTele, grRun, grWandb, grIdFile, grLog, grReport, grStarts>>

\* save_model, and the coverage set unless the server keeps it.
GrDone ==
    /\ grPc = "training" /\ grStep >= GrMaxSteps
    /\ GrForget
    /\ UNCHANGED <<grWandb, grIdFile, grCkpts, grLog, grReport, grStarts>>

GrCrash ==
    /\ grPc # "idle" /\ GrForget
    /\ UNCHANGED <<grWandb, grIdFile, grCkpts, grLog, grReport, grStarts>>

\* The steps the script takes by itself; when the watchdog answers is up to the VM.
GrStepTaken ==
    \/ GrTrainBegin \/ GrEnterGeneration \/ GrFlush \/ GrSave \/ GrDone
    \/ \E early \in BOOLEAN : GrBuild(early)
    \/ \E raises \in BOOLEAN : GrLeaveGeneration(raises)
    \/ \E v \in LogVerdicts : GrScore(<<v>>)
    \/ \E fails \in {<<>>, <<"ENCODE_FAIL">>} : GrWatch(fails)
    \/ \E due, vmUp \in BOOLEAN : GrOptimize(due, vmUp)

GrNext ==
    \/ GrStepTaken \/ GrWatched \/ GrRaise \/ GrCrash
    \/ \E args \in [resume : BOOLEAN, smoke : BOOLEAN, remote : BOOLEAN], key \in BOOLEAN : GrStart(args, key)

-----------------------------------------------------------------------------

\* The telemetry charted at a step is that of the batch of that step, of this
\* session or of one the run has gone on from (ml/rl_grpo.py:179-191), and rows
\* written before a crash are not overwritten by the steps done again.
ChartsAreOwn ==
    /\ \A r \in DOMAIN grWandb : \A n \in DOMAIN grWandb[r].rows : grWandb[r].rows[n].step = n
    /\ \A r \in DOMAIN grWandb : \A n, m \in DOMAIN grWandb[r].rows :
         n < m => grWandb[r].rows[n].session <= grWandb[r].rows[m].session
=============================================================================
