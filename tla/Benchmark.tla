----------------------------- MODULE Benchmark -----------------------------
(***************************************************************************)
(* tools/benchmark.py and the parts of tools/benchmark_lib.py it is made   *)
(* of: prepare writes the configuration of a merged model, run takes every *)
(* configured model through its strategies and prompts on the evaluation   *)
(* VM and then writes a run file, rows of the summary and a report, and    *)
(* report writes the report of a run file again, by default of the latest. *)
(*                                                                         *)
(* A configuration is a record: id (and merged, for the "_merged" that     *)
(* prepare puts behind it), adapter (model_type), base (base_model is set),*)
(* skip, prompts, and whole, false when a crash cut benchmark.json short.  *)
(* Of the KPIs of a slot only the pass rate <<accepted, n>> is kept:       *)
(* module Kpis has the others.                                             *)
(***************************************************************************)
EXTENDS Integers, Sequences, FiniteSets, SequencesExt, TextFile

CONSTANTS Adapters,   \* the configurations under checkpoints/ at the start
          N,          \* programs per slot
          VmUp,       \* whether a VM already runs at the start
          MaxBm       \* bound: how many commands are started

VARIABLES bmPc,       \* where the command is
          bmDirs,     \* checkpoints/: the configurations, in the order of their names
          bmPrep,     \* what prepare works on
          bmVm,       \* the VM's process and whether it answers: "off", "on", "hung"
          bmNoVm,     \* --no-vm
          bmPlan,     \* the slots still to run
          bmSlots,    \* the slots of this run, in memory
          bmStamp,    \* the timestamp of the run in memory, in commands
          bmRuns,     \* benchmarks/runs/: the run files, one per timestamp
          bmCsv,      \* summary.csv: whether it exists, and its lines
          bmReports,  \* the report files, one per timestamp
          bmCommands

bmVars == <<bmPc, bmDirs, bmPrep, bmVm, bmNoVm, bmPlan, bmSlots, bmStamp, bmRuns, bmCsv, bmReports, bmCommands>>
bmFiles == <<bmRuns, bmCsv, bmReports>>

Absent == [exists |-> FALSE, lines |-> <<>>]
Csv(lines) == [exists |-> TRUE, lines |-> lines]

BmInit ==
    /\ bmPc = "idle" /\ bmDirs = Adapters /\ bmPrep = <<>> /\ bmVm \in VmUp /\ bmNoVm = FALSE
    /\ bmPlan = <<>> /\ bmSlots = <<>> /\ bmStamp = 0
    /\ bmRuns = {} /\ bmCsv = Absent /\ bmReports = {} /\ bmCommands = 0

Strategies(config) ==
    SelectSeq(IF config.adapter THEN <<"adapter_bnb4bit">> ELSE <<"merged_fp16", "merged_bnb4bit">>,
              LAMBDA s : s \notin config.skip)

\* The slots in the order of the three loops of _run_all.
SlotsOf(config) ==
    FlattenSeq([s \in DOMAIN Strategies(config) |->
        [p \in 1 .. config.prompts |->
            [id |-> config.id, merged |-> config.merged, base |-> config.base,
             strategy |-> Strategies(config)[s], prompt |-> p]]])
Plan(configs) == FlattenSeq([k \in DOMAIN configs |-> SlotsOf(configs[k])])

DiscoverConfigs(ids) == SelectSeq(bmDirs, LAMBDA c : ids = {} \/ c.id \in ids)

-----------------------------------------------------------------------------
(* prepare *)

\* Only an adapter is merged; the merged model's directory follows its own.
BmPrepare(k) ==
    /\ bmPc = "idle" /\ bmCommands < MaxBm /\ k \in DOMAIN bmDirs
    /\ bmCommands' = bmCommands + 1
    /\ IF bmDirs[k].whole /\ bmDirs[k].adapter
       THEN bmPc' = "preparing" /\ bmPrep' = [bmDirs[k] EXCEPT !.merged = TRUE, !.adapter = FALSE, !.base = FALSE]
       ELSE UNCHANGED <<bmPc, bmPrep>>
    /\ UNCHANGED <<bmDirs, bmVm, bmNoVm, bmPlan, bmSlots, bmStamp, bmFiles>>

PutConfig(config) ==
    LET old == SelectInSeq(bmDirs, LAMBDA c : c.id = config.id /\ c.merged)
        at  == SelectInSeq(bmDirs, LAMBDA c : c.id = config.id)
    IN  IF old # 0 THEN [bmDirs EXCEPT ![old] = config] ELSE InsertAt(bmDirs, at + 1, config)
BmPrepared ==
    /\ bmPc = "preparing"
    /\ bmDirs' = PutConfig(bmPrep)
    /\ bmPc' = "idle"
    /\ UNCHANGED <<bmPrep, bmVm, bmNoVm, bmPlan, bmSlots, bmStamp, bmFiles, bmCommands>>

-----------------------------------------------------------------------------
(* run *)

\* A configuration that cannot be read, or none at all, ends the command.
BmRun(ids, noVm) ==
    /\ bmPc = "idle" /\ bmCommands < MaxBm
    /\ bmCommands' = bmCommands + 1
    /\ IF (\A k \in DOMAIN bmDirs : bmDirs[k].whole) /\ DiscoverConfigs(ids) # <<>>
       THEN /\ bmPc' = IF noVm THEN "running" ELSE "booting"
            /\ bmPlan' = Plan(DiscoverConfigs(ids)) /\ bmSlots' = <<>> /\ bmNoVm' = noVm
            /\ bmStamp' = bmCommands + 1
       ELSE UNCHANGED <<bmPc, bmPlan, bmSlots, bmNoVm, bmStamp>>
    /\ UNCHANGED <<bmDirs, bmPrep, bmVm, bmFiles>>

\* __enter__ waits for the boot script and does not look at its status: when it
\* fails the run goes on without a VM, or with the one that was there before.
BmBoot(boots) ==
    /\ bmPc = "booting"
    /\ bmVm' = IF boots /\ bmVm = "off" THEN "on" ELSE bmVm
    /\ bmPc' = "running"
    /\ UNCHANGED <<bmDirs, bmPrep, bmNoVm, bmPlan, bmSlots, bmStamp, bmFiles, bmCommands>>

\* The VM ends or stops answering while the command runs.
BmVmFails(state) ==
    /\ bmPc \in {"running", "down"} /\ bmVm = "on" /\ bmVm' = state
    /\ UNCHANGED <<bmPc, bmDirs, bmPrep, bmNoVm, bmPlan, bmSlots, bmStamp, bmFiles, bmCommands>>

\* load_model knows the strategy; an adapter needs base_model.
Loads(slot) == slot.strategy # "adapter_bnb4bit" \/ slot.base

\* What the validation of one program may say: nothing is accepted without a VM
\* that answers (--no-vm: SKIPPED, no answer: ERROR).
MayAccept == ~bmNoVm /\ bmVm = "on"

\* One slot: load the model, generate, analyze, validate, aggregate.
BmSlot(accepted) ==
    /\ bmPc = "running" /\ bmPlan # <<>> /\ Loads(Head(bmPlan))
    /\ accepted \in (IF MayAccept THEN 0 .. N ELSE {0})
    /\ bmSlots' = Append(bmSlots, [slot |-> Head(bmPlan), pass |-> <<accepted, N>>])
    /\ bmPlan' = Tail(bmPlan)
    /\ UNCHANGED <<bmPc, bmDirs, bmPrep, bmVm, bmNoVm, bmStamp, bmFiles, bmCommands>>

\* The slots are done, or loading or generating raises: the with statement shuts
\* the VM down either way, and an exception goes on from there.
BmSlotsEnd(raises) ==
    /\ bmPc = "running"
    /\ IF raises THEN bmPlan # <<>> ELSE bmPlan = <<>>
    /\ bmPc' = IF ~bmNoVm THEN (IF raises THEN "aborting" ELSE "down") ELSE IF raises THEN "idle" ELSE "json"
    /\ UNCHANGED <<bmDirs, bmPrep, bmVm, bmNoVm, bmPlan, bmSlots, bmStamp, bmFiles, bmCommands>>

Terminated(vm) == "off"
BmShutdown ==
    /\ bmPc \in {"down", "aborting"}
    /\ bmVm' = Terminated(bmVm)
    /\ bmPc' = IF bmVm' # "off" THEN bmPc ELSE IF bmPc = "down" /\ bmVm # "off" THEN "json" ELSE "idle"
    /\ UNCHANGED <<bmDirs, bmPrep, bmNoVm, bmPlan, bmSlots, bmStamp, bmFiles, bmCommands>>

\* write, append_summary and the report, in this order.  json.load refuses a run
\* file that was cut short (whole).
BmWriteRun ==
    /\ bmPc = "json"
    /\ bmRuns' = bmRuns \cup {[stamp |-> bmStamp, slots |-> bmSlots, whole |-> TRUE]}
    /\ bmPc' = "csv"
    /\ UNCHANGED <<bmDirs, bmPrep, bmVm, bmNoVm, bmPlan, bmSlots, bmStamp, bmCsv, bmReports, bmCommands>>

Row(stamp, s) == [kind |-> "row", nl |-> TRUE, stamp |-> stamp, slot |-> s.slot, pass |-> s.pass]
Header == [kind |-> "header", nl |-> TRUE]
\* A plausible slip: the summary takes a timestamp of its own.
FaultySummaryLines(stamp, slots) ==
    (IF bmCsv.exists THEN <<>> ELSE <<Header>>) \o [k \in DOMAIN slots |-> Row(stamp + 1, slots[k])]
SummaryLines(stamp, slots) ==
    (IF bmCsv.exists THEN <<>> ELSE <<Header>>) \o [k \in DOMAIN slots |-> Row(stamp, slots[k])]
\* Only the first of the lines can be joined to one that a crash cut short.
AppendTo(csv, lines) ==
    Csv(IF lines = <<>> THEN csv.lines ELSE AddLine(csv.lines, Head(lines)) \o Tail(lines))
BmAppendSummary ==
    /\ bmPc = "csv"
    /\ bmCsv' = AppendTo(bmCsv, SummaryLines(bmStamp, bmSlots))
    /\ bmPc' = "md"
    /\ UNCHANGED <<bmDirs, bmPrep, bmVm, bmNoVm, bmPlan, bmSlots, bmStamp, bmRuns, bmReports, bmCommands>>

\* The pass rate of the adapter is the baseline of its id.
Baselines(slots, slot) ==
    {k \in DOMAIN slots : /\ slots[k].slot.strategy = "adapter_bnb4bit"
                          /\ slots[k].slot.id = slot.id /\ slots[k].slot.merged = slot.merged}
Flag(slots, s) ==
    LET base == Baselines(slots, s.slot)
        last == CHOOSE k \in base : \A j \in base : j <= k
    IN  /\ base # {} /\ s.slot.strategy # "adapter_bnb4bit"
        /\ 10 * s.pass[1] * slots[last].pass[2] < 8 * slots[last].pass[1] * s.pass[2]
Report(slots) == [k \in DOMAIN slots |-> [s |-> slots[k], flag |-> Flag(slots, slots[k])]]

\* A report file shows the rows that are in it; opening it empties it.
PutReport(stamp, rows, whole) ==
    {q \in bmReports : q.stamp # stamp} \cup {[stamp |-> stamp, rows |-> rows, whole |-> whole]}
BmOpenReport ==
    /\ bmPc = "md"
    /\ bmReports' = PutReport(bmStamp, <<>>, FALSE)
    /\ bmPc' = "body"
    /\ UNCHANGED <<bmDirs, bmPrep, bmVm, bmNoVm, bmPlan, bmSlots, bmStamp, bmRuns, bmCsv, bmCommands>>
BmWriteReport ==
    /\ bmPc = "body"
    /\ bmReports' = PutReport(bmStamp, Report(bmSlots), TRUE)
    /\ bmPc' = "idle"
    /\ UNCHANGED <<bmDirs, bmPrep, bmVm, bmNoVm, bmPlan, bmSlots, bmStamp, bmRuns, bmCsv, bmCommands>>

-----------------------------------------------------------------------------
(* report *)

\* A run file, the latest or one that is named, is read back; json.load raises
\* on one that was cut short.
BmReport(r) ==
    /\ bmPc = "idle" /\ bmCommands < MaxBm /\ r \in bmRuns
    /\ bmCommands' = bmCommands + 1
    /\ IF r.whole THEN bmPc' = "md" /\ bmStamp' = r.stamp /\ bmSlots' = r.slots
                  ELSE UNCHANGED <<bmPc, bmStamp, bmSlots>>
    /\ UNCHANGED <<bmDirs, bmPrep, bmVm, bmNoVm, bmPlan, bmFiles>>

-----------------------------------------------------------------------------

\* A crash of any command.  What was being written is cut short: a configuration
\* or a run file that json.load refuses, the summary anywhere in its lines, the
\* report, which was emptied first, behind any of its rows.
CutRun == [stamp |-> bmStamp, slots |-> <<>>, whole |-> FALSE]
CutSummary ==
    LET lines == SummaryLines(bmStamp, bmSlots)
    IN  UNION {Torn(AppendTo(bmCsv, SubSeq(lines, 1, k)).lines, lines[k + 1]) : k \in 0 .. Len(lines) - 1}
BmCrash ==
    /\ bmPc # "idle" /\ bmPc' = "idle"
    /\ \/ UNCHANGED <<bmDirs, bmFiles>>
       \/ /\ bmPc = "preparing" /\ bmDirs' = PutConfig([bmPrep EXCEPT !.whole = FALSE])
          /\ UNCHANGED bmFiles
       \/ /\ bmPc = "json" /\ bmRuns' = bmRuns \cup {CutRun}
          /\ UNCHANGED <<bmDirs, bmCsv, bmReports>>
       \/ /\ bmPc = "csv" /\ \E lines \in CutSummary : bmCsv' = Csv(lines)
          /\ UNCHANGED <<bmDirs, bmRuns, bmReports>>
       \/ /\ bmPc = "body"
          /\ \E k \in 0 .. Len(bmSlots) : bmReports' = PutReport(bmStamp, SubSeq(Report(bmSlots), 1, k), FALSE)
          /\ UNCHANGED <<bmDirs, bmRuns, bmCsv>>
    /\ UNCHANGED <<bmPrep, bmVm, bmNoVm, bmPlan, bmSlots, bmStamp, bmCommands>>

BmStep ==
    \/ BmPrepared \/ BmShutdown \/ BmWriteRun \/ BmAppendSummary \/ BmOpenReport \/ BmWriteReport
    \/ \E accepted \in 0 .. N : BmSlot(accepted)
    \/ \E raises \in BOOLEAN : BmSlotsEnd(raises)

BmNext ==
    \/ BmStep \/ BmCrash
    \/ \E r \in bmRuns : BmReport(r)
    \/ \E k \in DOMAIN bmDirs : BmPrepare(k)
    \/ \E ids \in {{}} \cup {{c.id} : c \in Range(bmDirs)}, noVm \in BOOLEAN : BmRun(ids, noVm)
    \/ \E boots \in BOOLEAN : BmBoot(boots)
    \/ \E state \in {"off", "hung"} : BmVmFails(state)

-----------------------------------------------------------------------------

\* Every figure of the summary and of the reports can be traced
\* (tools/benchmark.py:261-268, 336-347): wherever a crash cuts the files and
\* whatever is written behind the cut, a row of summary.csv is a slot of a run
\* file that is whole, the rows of a report are the first ones of what its run
\* file gives, and all of them where its command came to its end.
SummaryBacked ==
    /\ \A line \in Range(bmCsv.lines) : line.kind = "row" =>
         \E r \in bmRuns : /\ r.whole /\ r.stamp = line.stamp
                           /\ \E j \in DOMAIN r.slots : line.slot = r.slots[j].slot /\ line.pass = r.slots[j].pass
    /\ \A q \in bmReports :
         \E r \in bmRuns : /\ r.whole /\ r.stamp = q.stamp
                           /\ IsPrefix(q.rows, Report(r.slots)) /\ (q.whole => q.rows = Report(r.slots))
=============================================================================
