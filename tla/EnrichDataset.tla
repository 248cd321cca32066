--------------------------- MODULE EnrichDataset ---------------------------
(***************************************************************************)
(* ml/enrich_dataset.py: a pool of threads validates the samples of the    *)
(* input, each thread appends its trace to a sidecar file as it ends, the  *)
(* main thread turns counts and traces into bins and appends the rows to   *)
(* the output.  A run that finds rows in the output leaves their samples   *)
(* out and appends (the resume mode).                                      *)
(*                                                                         *)
(* A trace is the number of addresses the validator printed and the set    *)
(* they make.  A line of the output is the metadata, a row with its data,  *)
(* or junk that json.loads refuses.                                        *)
(***************************************************************************)
EXTENDS Integers, Sequences, FiniteSets, SequencesExt, FiniteSetsExt, Positions, TextFile

CONSTANTS Samples,    \* bytecode_hex of the samples
          Valid,      \* those with is_valid
          TraceOf,    \* what the validator answers for each
          Workers,    \* --workers
          NovUnit,    \* the unit of the novelty scores
          Log,        \* math.log(n + 1), in small integers that grow with n
          MaxRuns     \* bound: how many times the script is started

\* A trace is of a size the logarithm is given for, and math.log grows.
ASSUME EnrichAssumption ==
    /\ DOMAIN Log \subseteq Nat /\ 0 \in DOMAIN Log /\ Log \in [DOMAIN Log -> Nat]
    /\ \A m, n \in DOMAIN Log : m <= n => Log[m] <= Log[n]
    /\ \A s \in Samples : TraceOf[s].n \in DOMAIN Log /\ IsFiniteSet(TraceOf[s].pcs)

NoTrace == [n |-> 0, pcs |-> {}]

VARIABLES enFile,     \* the output: a sequence of lines, empty when it does not exist
          enInput,    \* the input: a sequence of samples
          enPc,       \* where the script is
          enMode,     \* the mode the output will be opened with
          enTodo,     \* the samples to process, in the order of the input
          enRunning,  \* positions in enTodo that a thread is validating
          enTaken,    \* how many positions the pool has handed out
          enTraces,   \* results, by position, with the trace each came from
          enSidecar,  \* the records of the sidecar, in the order of completion
          enLines,    \* the lines still to write
          enRuns

enVars == <<enFile, enInput, enPc, enMode, enTodo, enRunning, enTaken, enTraces, enSidecar, enLines, enRuns>>

-----------------------------------------------------------------------------
(* Bins.  Thresholds are in hundredths, as the percentiles interpolate.    *)

\* The k-th smallest of some values; between two of them the line is straight.
Smallest(k, values) ==
    CHOOSE v \in Range(values) :
        /\ Quantify(DOMAIN values, LAMBDA i : values[i] < v) < k
        /\ Quantify(DOMAIN values, LAMBDA i : values[i] <= v) >= k
Percentile(q, values) ==
    LET pos  == q * (Len(values) - 1)
        k    == pos \div 100 + 1
        low  == Smallest(k, values)
        next == IF k < Len(values) THEN Smallest(k + 1, values) ELSE low
    IN  100 * low + (pos % 100) * (next - low)

Tertiles(values) == [t33 |-> Percentile(33, values), t67 |-> Percentile(67, values)]

\* A few deep programs among many shallow ones put the bins on the log scale.
CoverageScale(counts) ==
    LET p0   == Smallest(1, counts)
        p100 == Smallest(Len(counts), counts)
    IN  IF p100 > p0 /\ 20 * (Percentile(33, counts) - 100 * p0) < 100 * (p100 - p0)
        THEN "log" ELSE "linear"

OnScale(scale, n) == IF scale = "log" THEN Log[n] ELSE n

BinOf(value, t) ==
    IF 100 * value < t.t33 THEN "low" ELSE IF 100 * value < t.t67 THEN "medium" ELSE "high"

NoveltyThresholds(scores) ==
    LET positive == ItemsAt(scores, {i \in DOMAIN scores : scores[i] > 0})
    IN  IF positive = <<>> THEN [t33 |-> 0, t67 |-> 0] ELSE Tertiles(positive)

\* The two passes over the sidecar: how many programs cover each address, then
\* the mean rarity of the addresses of each program.  A plausible slip: the first pass stops before the last record.
FaultyPcFreq(sidecar, pc) == Quantify(DOMAIN sidecar, LAMBDA k : pc \in sidecar[k].pcs /\ k < Len(sidecar))
PcFreq(sidecar, pc) == Quantify(DOMAIN sidecar, LAMBDA k : pc \in sidecar[k].pcs)
WithTrace(sidecar)   == Quantify(DOMAIN sidecar, LAMBDA k : sidecar[k].pcs # {})
Rarity(sidecar, pcs) ==
    (NovUnit * MapThenSumSet(LAMBDA pc : WithTrace(sidecar) - PcFreq(sidecar, pc), pcs))
        \div (WithTrace(sidecar) * Cardinality(pcs))
NoveltyScores(sidecar, n) ==
    [i \in 1 .. n |->
        LET k == CHOOSE k \in DOMAIN sidecar : sidecar[k].idx = i
        IN  IF sidecar[k].pcs = {} THEN 0 ELSE Rarity(sidecar, sidecar[k].pcs)]

\* The counts the coverage bins are made from: of the valid samples, if any.
ValidCounts(todo, traces) ==
    LET counts == [i \in DOMAIN todo |-> traces[i].n]
        valid  == {i \in DOMAIN todo : todo[i] \in Valid}
    IN  IF valid # {} THEN ItemsAt(counts, valid) ELSE IF todo # <<>> THEN counts ELSE <<0>>

\* The scale and the thresholds of the coverage bins.
CoverageBins(counts) ==
    LET scale == CoverageScale(counts)
    IN  [scale |-> scale, t |-> Tertiles([j \in DOMAIN counts |-> OnScale(scale, counts[j])])]

Rows(todo, traces, cov, novel, novT) ==
    [i \in DOMAIN todo |->
        [kind |-> "row", nl |-> TRUE, sample |-> todo[i], count |-> traces[i].n,
         bin |-> BinOf(OnScale(cov.scale, traces[i].n), cov.t),
         novelty |-> novel[i], novbin |-> BinOf(novel[i], novT)]]

-----------------------------------------------------------------------------
(* The output file. *)

Meta == [kind |-> "meta", nl |-> TRUE]
Readable(file) == {file[k].sample : k \in {k \in DOMAIN file : file[k].kind = "row"}}

-----------------------------------------------------------------------------

\* The process ends; nobody reads its sidecar again.
EnForget ==
    /\ enPc' = "idle" /\ enMode' = "w" /\ enTodo' = <<>> /\ enRunning' = {} /\ enTaken' = 0
    /\ enTraces' = <<>> /\ enSidecar' = <<>> /\ enLines' = <<>>

EnInit ==
    /\ enFile = <<>> /\ enPc = "idle" /\ enMode = "w" /\ enRuns = 0
    /\ enTodo = <<>> /\ enRunning = {} /\ enTaken = 0 /\ enTraces = <<>> /\ enSidecar = <<>> /\ enLines = <<>>

\* main, up to the pool: scan the output, read the input.  Plausible slips: the
\* output is always opened with "w"; the samples done before are not left out.
FaultyMode(done) == "w"
ModeFor(done) == IF done # {} THEN "a" ELSE "w"
FaultyRemaining(input, done) == input
Remaining(input, done) == ItemsAt(input, {i \in DOMAIN input : input[i] \notin done})
EnStart ==
    /\ enPc = "idle" /\ enRuns < MaxRuns
    /\ LET done == Readable(enFile)
       IN  /\ enMode' = ModeFor(done)
           /\ enTodo' = Remaining(enInput, done)
    /\ enRuns' = enRuns + 1 /\ enPc' = "validating"
    /\ enRunning' = {} /\ enTaken' = 0 /\ enTraces' = <<>> /\ enSidecar' = <<>>
    /\ UNCHANGED <<enFile, enInput, enLines>>

EnTake ==
    /\ enPc = "validating" /\ enTaken < Len(enTodo) /\ Cardinality(enRunning) < Workers
    /\ enTaken' = enTaken + 1
    /\ enRunning' = enRunning \cup {enTaken + 1}
    /\ UNCHANGED <<enFile, enInput, enPc, enMode, enTodo, enTraces, enSidecar, enLines, enRuns>>

\* A thread has its answer, or none, and appends its record under the lock.
EnRecord(i, trace) ==
    /\ i \in enRunning /\ trace \in {TraceOf[enTodo[i]], NoTrace}
    /\ enSidecar' = Append(enSidecar, [idx |-> i, pcs |-> trace.pcs])
    /\ enTraces' = [k \in DOMAIN enTraces \cup {i} |-> IF k = i THEN trace ELSE enTraces[k]]
    /\ enRunning' = enRunning \ {i}
    /\ UNCHANGED <<enFile, enInput, enPc, enMode, enTodo, enTaken, enLines, enRuns>>

\* A thread raises: f.result() raises it again, and nothing is written.
EnRaise ==
    /\ enRunning # {}
    /\ EnForget
    /\ UNCHANGED <<enFile, enInput, enRuns>>

EnBins ==
    /\ enPc = "validating" /\ enTaken = Len(enTodo) /\ enRunning = {}
    /\ \E counts \in {ValidCounts(enTodo, enTraces)}, novel \in {NoveltyScores(enSidecar, Len(enTodo))} :
         \E cov \in {CoverageBins(counts)}, novT \in {NoveltyThresholds(novel)} :
            enLines' = Rows(enTodo, enTraces, cov, novel, novT)
    /\ enPc' = "opening"
    /\ UNCHANGED <<enFile, enInput, enMode, enTodo, enRunning, enTaken, enTraces, enSidecar, enRuns>>

EnOpen ==
    /\ enPc = "opening"
    /\ IF enMode = "w" THEN enFile' = <<>> /\ enLines' = <<Meta>> \o enLines
                       ELSE UNCHANGED <<enFile, enLines>>
    /\ enPc' = "writing"
    /\ UNCHANGED <<enInput, enMode, enTodo, enRunning, enTaken, enTraces, enSidecar, enRuns>>

EnWrite ==
    /\ enPc = "writing" /\ enLines # <<>>
    /\ enFile' = AddLine(enFile, Head(enLines))
    /\ enLines' = Tail(enLines)
    /\ UNCHANGED <<enInput, enPc, enMode, enTodo, enRunning, enTaken, enTraces, enSidecar, enRuns>>

EnFinish ==
    /\ enPc = "writing" /\ enLines = <<>>
    /\ EnForget
    /\ UNCHANGED <<enFile, enInput, enRuns>>

\* The session dies; what it was writing may be torn.
EnCrash ==
    /\ enPc # "idle"
    /\ enFile' \in IF enPc = "writing" /\ enLines # <<>> THEN Torn(enFile, Head(enLines)) ELSE {enFile}
    /\ EnForget
    /\ UNCHANGED <<enInput, enRuns>>

EnStep ==
    \/ EnTake \/ EnBins \/ EnOpen \/ EnWrite \/ EnFinish
    \/ \E i \in enRunning : EnRecord(i, TraceOf[enTodo[i]]) \/ EnRecord(i, NoTrace)

EnNext == EnStart \/ EnStep \/ EnRaise \/ EnCrash

-----------------------------------------------------------------------------

\* What the rows say of a sample does not depend on the order in which the
\* threads ended (ml/enrich_dataset.py:222-240): each row has the count of its
\* own sample and a sample covers no more than another in a higher coverage bin.
\* In an output made afresh, where the programs of the run are the whole input,
\* its novelty is the mean rarity of its own addresses among all of them.
RowsAreOwn ==
    enPc = "opening" =>
      LET covering(pc) == Quantify(DOMAIN enTodo, LAMBDA i : pc \in enTraces[i].pcs)
          n == Quantify(DOMAIN enTodo, LAMBDA i : enTraces[i].pcs # {})
          rank == [low |-> 1, medium |-> 2, high |-> 3]
      IN  /\ Len(enLines) = Len(enTodo)
          /\ enMode = "w" => Len(enTodo) = Len(enInput)
          /\ \A i \in DOMAIN enTodo :
               LET pcs == enTraces[i].pcs
               IN  /\ enLines[i].sample = enTodo[i] /\ enLines[i].count = enTraces[i].n
                   /\ enMode = "w" =>
                        enLines[i].novelty =
                          IF pcs = {} THEN 0
                          ELSE (NovUnit * (n * Cardinality(pcs) - MapThenSumSet(covering, pcs)))
                                  \div (n * Cardinality(pcs))
                   /\ \A j \in DOMAIN enTodo :
                        enLines[i].count <= enLines[j].count => rank[enLines[i].bin] <= rank[enLines[j].bin]

\* What the docstring and a message say of a resumed run (ml/enrich_dataset.py:43-48,
\* 320-326): the samples it adds keep novelty 0.0 and the bin "low", as the addresses
\* of the earlier ones are gone.  The code scores them among themselves.
ResumedStayUnscored ==
    enPc = "opening" /\ enMode = "a" =>
      \A i \in DOMAIN enTodo : enLines[i].novelty = 0 /\ enLines[i].novbin = "low"

\* The rows a newline ends are in the file for good: a resumed run, a run that
\* raises and a run that dies in the middle of a line leave them there.
Ended(file) == {file[k] : k \in {k \in DOMAIN file : file[k].kind = "row" /\ file[k].nl}}
RowsSurvive == [][Ended(enFile) \subseteq Ended(enFile')]_enFile

\* A run that ends with no junk in the file, whatever runs came before it, leaves
\* the metadata first and exactly one row per sample of the input, if no sample is
\* in the input twice (a resumed run takes the copies of a row it finds for done).
RunCompletes ==
    enPc = "writing" /\ enLines = <<>> /\ IsInjective(enInput) /\ (\A k \in DOMAIN enFile : enFile[k].kind # "junk") =>
      /\ enFile[1].kind = "meta"
      /\ \A k \in DOMAIN enFile \ {1} : enFile[k].kind = "row"
      /\ \A s \in Range(enInput) : Quantify(DOMAIN enFile \ {1}, LAMBDA k : enFile[k].sample = s) = 1

=============================================================================
