-------------------------- MODULE DiversitySample --------------------------
(***************************************************************************)
(* tools/diversity_sample.py and tools/measure_saturation.py: programs are *)
(* generated in batches on one machine, written to a candidates file and   *)
(* perhaps uploaded; another machine reads the file or the uploaded copy,  *)
(* validates the programs chunk by chunk, folds the answers into KPIs, and *)
(* measures the saturation curve of the valid ones, replicate by replicate.*)
(*                                                                         *)
(* A candidates file, if there is one, is the meta line, if it has been    *)
(* written, and the programs whose lines are complete; torn says that a    *)
(* crash left a part of a line behind them.                                *)
(***************************************************************************)
EXTENDS Kpis

CONSTANTS Kinds,       \* the programs the model may generate, as Kpis describes them
          NPrograms,   \* --n
          BatchSize,   \* --batch-size
          Replicates,  \* replicates per series
          Points,      \* log_points
          MaxDs        \* bound: how many commands are started

ASSUME SizesAssumption == NPrograms \in Nat /\ BatchSize \in Nat

\* What analyze and the validator may say of a program.
ASSUME KindsAssumption ==
    \A p \in Kinds :
      /\ p.encoded \in BOOLEAN /\ p.hex \in BOOLEAN
      /\ {p.n, p.insns, p.jumps} \subseteq Nat /\ IsFiniteSet(p.pcs)

Nothing == [exists |-> FALSE, meta |-> FALSE, programs |-> <<>>, torn |-> FALSE]
Empty   == [Nothing EXCEPT !.exists = TRUE]
Curves(replicates) == [torn |-> FALSE, replicates |-> replicates]

VARIABLES dsPc,       \* where the command is
          dsTexts,    \* the programs generated so far
          dsFile,     \* the candidates file
          dsHub,      \* its uploaded copy
          dsFrom,     \* the file a validation has read: a record as above
          dsNext,     \* the next chunk to validate
          dsFailed,   \* chunks without an answer
          dsFold,     \* the fold of the answers
          dsSets,     \* the addresses of each valid program of the replicate
          dsReport,   \* the last KPI report, with the candidates it is about
          dsCurves,   \* the replicates measured by this command
          dsSaved,    \* the file of curves: its replicates, or torn by a crash
          dsRuns

dsVars == <<dsPc, dsTexts, dsFile, dsHub, dsFrom, dsNext, dsFailed, dsFold, dsSets, dsReport, dsCurves, dsSaved, dsRuns>>

DsInit ==
    /\ dsPc = "idle" /\ dsTexts = <<>> /\ dsFile = Nothing /\ dsHub = Nothing /\ dsFrom = Nothing
    /\ dsNext = 1 /\ dsFailed = {} /\ dsFold = Fold0 /\ dsSets = <<>> /\ dsReport = <<>>
    /\ dsCurves = <<>> /\ dsSaved = Curves(<<>>) /\ dsRuns = 0

Lesser(a, b) == IF a < b THEN a ELSE b
Chunks(programs) == (Len(Encoded(programs)) + ChunkSize - 1) \div ChunkSize

\* cmd_generate: generate_batch takes the prompts batch by batch, and the rows
\* of its output are the texts of the batch, in order.
DsGenerate ==
    /\ dsPc = "idle" /\ dsRuns < MaxDs
    /\ dsPc' = "generating" /\ dsTexts' = <<>> /\ dsRuns' = dsRuns + 1
    /\ UNCHANGED <<dsFile, dsHub, dsFrom, dsNext, dsFailed, dsFold, dsSets, dsReport, dsCurves, dsSaved>>
DsBatch ==
    /\ dsPc = "generating" /\ Len(dsTexts) < NPrograms
    /\ \E rows \in [1 .. Lesser(BatchSize, NPrograms - Len(dsTexts)) -> Kinds] : dsTexts' = dsTexts \o rows
    /\ UNCHANGED <<dsPc, dsFile, dsHub, dsFrom, dsNext, dsFailed, dsFold, dsSets, dsReport, dsCurves, dsSaved, dsRuns>>

\* write_candidates: open with "w", the meta line, then a line per program.
DsOpen ==
    /\ dsPc = "generating" /\ Len(dsTexts) = NPrograms
    /\ dsFile' = Empty /\ dsPc' = "writing"
    /\ UNCHANGED <<dsTexts, dsHub, dsFrom, dsNext, dsFailed, dsFold, dsSets, dsReport, dsCurves, dsSaved, dsRuns>>
DsWrite ==
    /\ dsPc = "writing" /\ Len(dsFile.programs) < NPrograms
    /\ dsFile' = IF dsFile.meta
                 THEN [dsFile EXCEPT !.programs = Append(@, dsTexts[Len(@) + 1])]
                 ELSE [dsFile EXCEPT !.meta = TRUE]
    /\ UNCHANGED <<dsPc, dsTexts, dsHub, dsFrom, dsNext, dsFailed, dsFold, dsSets, dsReport, dsCurves, dsSaved, dsRuns>>
Written(file) == file.meta /\ Len(file.programs) = NPrograms
DsWritten ==
    /\ dsPc = "writing" /\ Written(dsFile)
    /\ \/ dsHub' = dsFile        \* --hf-repo
       \/ UNCHANGED dsHub
    /\ dsPc' = "idle"
    /\ UNCHANGED <<dsTexts, dsFile, dsFrom, dsNext, dsFailed, dsFold, dsSets, dsReport, dsCurves, dsSaved, dsRuns>>

\* cmd_validate and measure_saturation read the candidates, none if the file is
\* empty; json.loads raises on a torn line, and the command ends there.
DsRead(file, command) ==
    /\ dsPc = "idle" /\ dsRuns < MaxDs /\ file.exists
    /\ dsRuns' = dsRuns + 1
    /\ IF file.torn THEN UNCHANGED <<dsPc, dsFrom>> ELSE dsPc' = command /\ dsFrom' = file
    /\ dsNext' = 1 /\ dsFailed' = {} /\ dsFold' = Fold0 /\ dsSets' = <<>> /\ dsCurves' = <<>>
    /\ UNCHANGED <<dsTexts, dsFile, dsHub, dsReport, dsSaved>>

ChunkResults(programs, k) ==
    LET idx == Encoded(programs)
        first == (k - 1) * ChunkSize
    IN  [j \in 1 .. Lesser(ChunkSize, Len(idx) - first) |-> Answer(programs[idx[first + j]])]

\* One call of the validator, answered or not.
DsChunk(answered) ==
    /\ dsPc \in {"folding", "measuring"} /\ dsNext <= Chunks(dsFrom.programs)
    /\ LET results == ChunkResults(dsFrom.programs, dsNext)
           valid   == SelectSeq(results, LAMBDA res : res.verdict = "ACCEPTED")
       IN  /\ dsFold' = IF answered /\ dsPc = "folding" THEN FoldChunk(results, dsFold) ELSE dsFold
           /\ dsSets' = IF answered /\ dsPc = "measuring"
                        THEN dsSets \o [j \in DOMAIN valid |-> valid[j].pcs] ELSE dsSets
    /\ dsFailed' = IF answered THEN dsFailed ELSE dsFailed \cup {dsNext}
    /\ dsNext' = dsNext + 1
    /\ UNCHANGED <<dsPc, dsTexts, dsFile, dsHub, dsFrom, dsReport, dsCurves, dsSaved, dsRuns>>

DsReport ==
    /\ dsPc = "folding" /\ dsNext > Chunks(dsFrom.programs)
    /\ dsReport' = [from |-> dsFrom, failed |-> dsFailed,
                    kpis |-> StreamedKpis(Len(dsFrom.programs), Complexity(dsFrom.programs), dsFold),
                    valid |-> ValidOnly(dsFold)]
    /\ dsPc' = "idle"
    /\ UNCHANGED <<dsTexts, dsFile, dsHub, dsFrom, dsNext, dsFailed, dsFold, dsSets, dsCurves, dsSaved, dsRuns>>

\* A replicate ends: its curve joins the others and the file is written anew.
DsReplicate ==
    /\ dsPc = "measuring" /\ dsNext > Chunks(dsFrom.programs)
    /\ dsCurves' = Append(dsCurves, [n_valid |-> Len(dsSets), curve |-> CumulativeUniqueCurve(dsSets, Points)])
    /\ dsPc' = "saving"
    /\ UNCHANGED <<dsTexts, dsFile, dsHub, dsFrom, dsNext, dsFailed, dsFold, dsSets, dsReport, dsSaved, dsRuns>>
DsSave ==
    /\ dsPc = "saving"
    /\ dsSaved' = Curves(dsCurves)
    /\ dsPc' = IF Len(dsCurves) < Replicates THEN "measuring" ELSE "idle"
    /\ dsNext' = 1 /\ dsSets' = <<>> /\ dsFailed' = {}
    /\ UNCHANGED <<dsTexts, dsFile, dsHub, dsFrom, dsFold, dsReport, dsCurves, dsRuns>>

\* A crash of any command.  write_text truncates the file before it writes.
DsCrash ==
    /\ dsPc # "idle" /\ dsPc' = "idle"
    /\ dsFile' \in IF dsPc = "writing" /\ ~Written(dsFile) THEN {dsFile, [dsFile EXCEPT !.torn = TRUE]} ELSE {dsFile}
    /\ dsSaved' \in IF dsPc = "saving" THEN {dsSaved, [torn |-> TRUE, replicates |-> <<>>]} ELSE {dsSaved}
    /\ UNCHANGED <<dsTexts, dsHub, dsFrom, dsNext, dsFailed, dsFold, dsSets, dsReport, dsCurves, dsRuns>>

DsStep ==
    \/ DsBatch \/ DsOpen \/ DsWrite \/ DsWritten \/ DsReport \/ DsReplicate \/ DsSave
    \/ \E answered \in BOOLEAN : DsChunk(answered)
DsNextStep ==
    \/ DsGenerate \/ DsStep \/ DsCrash
    \/ \E file \in {dsFile, dsHub}, command \in {"folding", "measuring"} : DsRead(file, command)

-----------------------------------------------------------------------------

\* "matching aggregate()" (tools/diversity_sample.py:153): whatever chunks fail,
\* the report of the fold is what aggregate makes of the records of the same
\* candidates, and its unique addresses of valid programs are their union's.
StreamingMatches ==
    dsReport # <<>> =>
      LET programs == dsReport.from.programs
          results  == ValidationsFromBatch(programs, dsReport.failed)
      IN  /\ dsReport.kpis = Aggregate(programs, results)
          /\ dsReport.valid.n_accepted = dsReport.kpis.pass_rate[1]
          /\ dsReport.valid.unique =
               Cardinality(UNION {results[i].pcs : i \in {i \in DOMAIN results : results[i].verdict = "ACCEPTED"}})
=============================================================================
