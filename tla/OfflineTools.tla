---------------------------- MODULE OfflineTools ----------------------------
(***************************************************************************)
(* The command-line tools that generate programs, encode them in one of    *)
(* three ways, have the VM judge them and leave files:                     *)
(* evaluate_passrate.py, generate_bytecodes.py, validate_bytecodes.py,     *)
(* generate_corpus.py and coverage_race.py.                                *)
(*                                                                         *)
(* A program is a text of module Encoder.  What the validator answers to a *)
(* bytecode is Kernel(hex); every call of the VM may fail instead.  Of the *)
(* rows of the tools the model keeps, beside their columns, the program    *)
(* they are about (of), which some of them do not name.                    *)
(***************************************************************************)
EXTENDS Encoder, FiniteSetsExt, Positions

CONSTANTS Texts,       \* what the models write
          Kernel(_),   \* the validator's answer: verdict and pcs
          NumPrograms,  \* --n, --max-programs
          MinInsns,    \* _MIN_INSTRUCTIONS of generate_corpus.py
          MaxOt        \* bound: how many commands are started

NoFile == [exists |-> FALSE, rows |-> <<>>, torn |-> FALSE]
NewFile == [exists |-> TRUE, rows |-> <<>>, torn |-> FALSE]
Kept(file, row) == IF file.torn THEN [file EXCEPT !.torn = FALSE] ELSE [file EXCEPT !.rows = Append(@, row)]
NoStat == [n |-> 0, accepted |-> 0, pcs |-> {}]

VARIABLES otPc,        \* where the command is
          otSkipVm,    \* --skip-vm, or corpus without --validate
          otTexts,     \* the programs of this command
          otVerdicts,  \* evaluate_passrate: the verdicts by position
          otAt,        \* how many records the command has handled
          otStat,      \* the tallies of validate_bytecodes and of the race
          otPassrate,  \* passrate_<label>.csv
          otSummary,   \* passrate_summary.csv, without its header
          otBytecodes, \* the output of generate_bytecodes
          otValidated, \* the output of validate_bytecodes
          otCorpus,    \* corpus_ml.jsonl
          otRace,      \* model_coverage.csv, without its header
          otRuns

otVars == <<otPc, otSkipVm, otTexts, otVerdicts, otAt, otStat, otPassrate, otSummary, otBytecodes, otValidated, otCorpus, otRace, otRuns>>
otFiles == <<otPassrate, otSummary, otBytecodes, otValidated, otCorpus, otRace>>

OtInit ==
    /\ otPc = "idle" /\ otSkipVm = FALSE /\ otTexts = <<>> /\ otVerdicts = <<>> /\ otAt = 0
    /\ otStat = [clang |-> NoStat, encoder |-> NoStat] /\ otRuns = 0
    /\ otPassrate = NoFile /\ otSummary = NoFile /\ otBytecodes = NoFile
    /\ otValidated = NoFile /\ otCorpus = NoFile /\ otRace = NoFile

\* The start of a command up to its first file; a VM that is asked for and does
\* not answer ends it.
OtStart(place, skipVm, reachable) ==
    /\ otPc = "idle" /\ otRuns < MaxOt
    /\ otRuns' = otRuns + 1 /\ otSkipVm' = skipVm
    /\ otPc' = IF skipVm \/ reachable THEN place ELSE "idle"
    /\ otTexts' = <<>> /\ otAt' = 0 /\ otStat' = [clang |-> NoStat, encoder |-> NoStat]
    /\ otVerdicts' = <<>>

-----------------------------------------------------------------------------
(* The two ways to bytecode of evaluate_passrate and generate_bytecodes.   *)

\* _parse_instructions keeps what the number and the opcode byte announce, or
\* what looks like an assignment or a jump; state lines look like assignments.
ParseInstructions(text) ==
    SelectSeq(text, LAMBDA l : \/ l.kind = "state"
                               \/ l.kind = "insn" /\ ((l.num /\ l.byte) \/ l.insn.form # "call"))

\* clang (external) refuses a text with anything else than instructions.
CompileToHex(text) ==
    LET insts == ParseInstructions(text)
        code  == [i \in DOMAIN insts |-> IsaInsn(insts[i].insn)]
        zero  == IsaInsn([form |-> "mov", width |-> "r", dst |-> 0, rhs |-> [reg |-> FALSE, n |-> 0]])
    IN  IF insts = <<>> \/ \E i \in DOMAIN insts : insts[i].kind # "insn" THEN NoCode
        ELSE IF \E i \in DOMAIN insts : insts[i].insn.form = "exit" THEN code
        ELSE code \o <<zero, Exit>>

\* What the encoder makes of each text, as it is and as a verifier log.
Encodings == [text \in Texts |-> [plain |-> EncodeToHex(text), path |-> EncodeToHex(StripVerifierLog(text))]]
EncodePlain(text) == Encodings[text].plain
EncodePath(text) == Encodings[text].path

\* The tools ask for a number of programs, a corpus record has instructions, and
\* the validator prints one of three verdicts and the addresses it saw.
ASSUME ToolsAssumption ==
    /\ NumPrograms \in Nat /\ MinInsns \in Nat \ {0}
    /\ \A text \in Texts : \A hex \in {CompileToHex(text), EncodePath(text), EncodePlain(text)} \ {NoCode} :
         Kernel(hex).verdict \in {"ACCEPTED", "REJECTED", "ERROR"} /\ IsFiniteSet(Kernel(hex).pcs)

-----------------------------------------------------------------------------
(* evaluate_passrate.py *)

EpStart(skipVm, reachable) ==
    /\ OtStart("generating", skipVm, reachable)
    /\ UNCHANGED otFiles

EpGenerate(text) ==
    /\ otPc = "generating" /\ Len(otTexts) < NumPrograms
    /\ otTexts' = Append(otTexts, text)
    /\ UNCHANGED <<otPc, otSkipVm, otVerdicts, otAt, otStat, otFiles, otRuns>>

\* The positions of the programs that compiled, in order, and the verdicts of the
\* first ones of them: as many as the VM printed before the connection ended.
Compiled == {i \in DOMAIN otTexts : CompileToHex(otTexts[i]) # NoCode}
Compilable == InOrder(Compiled)
Zipped(idxs, answers) ==
    [i \in DOMAIN otTexts |->
        IF \E k \in DOMAIN answers : idxs[k] = i
        THEN answers[CHOOSE k \in DOMAIN answers : idxs[k] = i] ELSE "SKIPPED"]
\* A plausible slip: the verdicts are zipped with all positions.
FaultyWithVerdicts(idxs, answers) == Zipped([i \in DOMAIN otTexts |-> i], answers)
WithVerdicts(idxs, answers) == Zipped(idxs, answers)
EpValidate(answered) ==
    /\ otPc = "generating" /\ Len(otTexts) = NumPrograms
    /\ answered <= Len(Compilable) /\ (otSkipVm => answered = 0)
    /\ otVerdicts' = WithVerdicts(Compilable,
                       [k \in 1 .. answered |-> Kernel(CompileToHex(otTexts[Compilable[k]])).verdict])
    /\ otPc' = "csv"
    /\ UNCHANGED <<otSkipVm, otTexts, otAt, otStat, otFiles, otRuns>>

\* scp fails or the ssh command times out: the command ends and writes nothing.
EpRaises ==
    /\ otPc = "generating" /\ Len(otTexts) = NumPrograms /\ ~otSkipVm /\ Compilable # <<>>
    /\ otPc' = "idle"
    /\ UNCHANGED <<otSkipVm, otTexts, otVerdicts, otAt, otStat, otFiles, otRuns>>

PassrateRow(i) == [of |-> otTexts[i], compiled |-> CompileToHex(otTexts[i]) # NoCode, verdict |-> otVerdicts[i]]
EpCsv ==
    /\ otPc = "csv"
    /\ otPassrate' = [NewFile EXCEPT !.rows = [i \in DOMAIN otTexts |-> PassrateRow(i)]]
    /\ otPc' = "summary"
    /\ UNCHANGED <<otSkipVm, otTexts, otVerdicts, otAt, otStat, otSummary, otBytecodes, otValidated, otCorpus, otRace, otRuns>>
EpSummary ==
    /\ otPc = "summary"
    /\ otSummary' = [Kept(otSummary,
            [n |-> Len(otTexts), compiled |-> Len(Compilable),
             accepted |-> Quantify(DOMAIN otVerdicts, LAMBDA i : otVerdicts[i] = "ACCEPTED")]) EXCEPT !.exists = TRUE]
    /\ otPc' = "idle"
    /\ UNCHANGED <<otSkipVm, otTexts, otVerdicts, otAt, otStat, otPassrate, otBytecodes, otValidated, otCorpus, otRace, otRuns>>

-----------------------------------------------------------------------------
(* generate_bytecodes.py, and validate_bytecodes.py on its output *)

GbStart == OtStart("bytecodes", TRUE, TRUE) /\ UNCHANGED otFiles

\* All programs are there before the first record is written.
GbGenerate(text) ==
    /\ otPc = "bytecodes" /\ Len(otTexts) < NumPrograms
    /\ otTexts' = Append(otTexts, text)
    /\ otBytecodes' = IF Len(otTexts') = NumPrograms THEN NewFile ELSE otBytecodes
    /\ UNCHANGED <<otPc, otSkipVm, otVerdicts, otAt, otStat, otPassrate, otSummary, otValidated, otCorpus, otRace, otRuns>>
Record(i) ==
    [id |-> i, of |-> otTexts[i], clang |-> CompileToHex(otTexts[i]), encoder |-> EncodePath(otTexts[i])]
GbWrite ==
    /\ otPc = "bytecodes" /\ Len(otTexts) = NumPrograms
    /\ IF otAt < NumPrograms
       THEN otBytecodes' = Kept(otBytecodes, Record(otAt + 1)) /\ otAt' = otAt + 1 /\ UNCHANGED otPc
       ELSE otPc' = "idle" /\ UNCHANGED <<otBytecodes, otAt>>
    /\ UNCHANGED <<otSkipVm, otTexts, otVerdicts, otStat, otPassrate, otSummary, otValidated, otCorpus, otRace, otRuns>>

\* The whole input is parsed first: a torn line raises.
VbStart(reachable) ==
    /\ otBytecodes.exists
    /\ OtStart("validating", FALSE, reachable /\ ~otBytecodes.torn)
    /\ otValidated' = IF otPc' = "validating" THEN NewFile ELSE otValidated
    /\ UNCHANGED <<otPassrate, otSummary, otBytecodes, otCorpus, otRace>>

\* One bytecode: what the row says of it, and the tally.
Judged(hex, answered) ==
    IF hex = NoCode THEN [verdict |-> "ENCODE_FAIL", pcs |-> {}]
    ELSE IF answered THEN Kernel(hex) ELSE [verdict |-> "ERROR", pcs |-> {}]
Tallied(stat, hex, answered) ==
    IF hex = NoCode \/ ~answered THEN stat
    ELSE LET ok == Kernel(hex).verdict = "ACCEPTED"
         IN  [n |-> stat.n + 1, accepted |-> stat.accepted + (IF ok THEN 1 ELSE 0),
              pcs |-> stat.pcs \cup (IF ok THEN Kernel(hex).pcs ELSE {})]
VbRecord(clang, encoder) ==
    /\ otPc = "validating" /\ otAt < Len(otBytecodes.rows)
    /\ LET r == otBytecodes.rows[otAt + 1]
       IN  /\ otValidated' = Kept(otValidated, [of |-> r.of, clang |-> Judged(r.clang, clang), encoder |-> Judged(r.encoder, encoder)])
           /\ otStat' = [clang |-> Tallied(otStat.clang, r.clang, clang), encoder |-> Tallied(otStat.encoder, r.encoder, encoder)]
    /\ otAt' = otAt + 1
    /\ UNCHANGED <<otPc, otSkipVm, otTexts, otVerdicts, otPassrate, otSummary, otBytecodes, otCorpus, otRace, otRuns>>
VbDone ==
    /\ otPc = "validating" /\ otAt = Len(otBytecodes.rows) /\ otPc' = "idle"
    /\ UNCHANGED <<otSkipVm, otTexts, otVerdicts, otAt, otStat, otFiles, otRuns>>

-----------------------------------------------------------------------------
(* generate_corpus.py *)

CpStart(validate) ==
    /\ OtStart("corpus", ~validate, TRUE)
    /\ otCorpus' = [otCorpus EXCEPT !.exists = TRUE]
    /\ UNCHANGED <<otPassrate, otSummary, otBytecodes, otValidated, otRace>>

\* One program: encoded as it is, appended unless it is too short.
CorpusRow(text, answered) ==
    LET hex == EncodePlain(text)
    IN  [of |-> text, hex |-> hex,
         verdict |-> IF answered THEN Kernel(hex).verdict ELSE "none",
         pcs     |-> IF answered THEN Kernel(hex).pcs ELSE {}]
CpStep(text, answered) ==
    /\ otPc = "corpus" /\ otAt < NumPrograms
    /\ otSkipVm => ~answered
    /\ otCorpus' = IF InsnCount(EncodePlain(text)) < MinInsns THEN otCorpus
                   ELSE Kept(otCorpus, CorpusRow(text, answered))
    /\ otAt' = otAt + 1
    /\ UNCHANGED <<otPc, otSkipVm, otTexts, otVerdicts, otStat, otPassrate, otSummary, otBytecodes, otValidated, otRace, otRuns>>
CpDone ==
    /\ otPc = "corpus" /\ otAt = NumPrograms /\ otPc' = "idle"
    /\ UNCHANGED <<otSkipVm, otTexts, otVerdicts, otAt, otStat, otFiles, otRuns>>

-----------------------------------------------------------------------------
(* coverage_race.py *)

CrStart(reachable) ==
    /\ OtStart("race", FALSE, reachable)
    /\ otRace' = IF otPc' = "race" THEN NewFile ELSE otRace
    /\ UNCHANGED <<otPassrate, otSummary, otBytecodes, otValidated, otCorpus>>

\* One program; call is what becomes of its VM call.  The tallies of the race
\* are valid programs with their addresses (clang) and the addresses of all (encoder).
RaceRow(submitted, stat) ==
    [submitted |-> submitted, valid |-> stat.clang.accepted,
     pcs_valid |-> Cardinality(stat.clang.pcs), pcs_all |-> Cardinality(stat.encoder.pcs)]
CrStep(text, call) ==
    /\ otPc = "race" /\ otAt < NumPrograms
    /\ LET hex == EncodePlain(text)
           ans == Judged(hex, call = "answers")
           stat == [clang   |-> Tallied(otStat.clang, hex, call = "answers"),
                    encoder |-> [otStat.encoder EXCEPT !.pcs = @ \cup ans.pcs]]
       IN  /\ otStat' = stat
           /\ otRace' = IF hex # NoCode /\ call = "raises" THEN otRace
                        ELSE Kept(otRace, RaceRow(otAt + 1, stat))
    /\ otTexts' = Append(otTexts, text)
    /\ otAt' = otAt + 1
    /\ UNCHANGED <<otPc, otSkipVm, otVerdicts, otPassrate, otSummary, otBytecodes, otValidated, otCorpus, otRuns>>
CrDone ==
    /\ otPc = "race" /\ otAt = NumPrograms /\ otPc' = "idle"
    /\ UNCHANGED <<otSkipVm, otTexts, otVerdicts, otAt, otStat, otFiles, otRuns>>

-----------------------------------------------------------------------------

\* A command dies.  The line it was writing may be torn; a CSV may end early.
OrTorn(file) == {file, [file EXCEPT !.torn = TRUE]}
OtCrash ==
    /\ otPc # "idle" /\ otPc' = "idle"
    /\ otPassrate' \in {otPassrate} \cup
         (IF otPc = "csv" THEN {[NewFile EXCEPT !.rows = [i \in 1 .. k |-> PassrateRow(i)]] : k \in 0 .. NumPrograms - 1} ELSE {})
    /\ otSummary' \in IF otPc = "summary" THEN OrTorn([otSummary EXCEPT !.exists = TRUE]) ELSE {otSummary}
    /\ otBytecodes' \in IF otPc = "bytecodes" /\ Len(otTexts) = NumPrograms /\ otAt < NumPrograms
                        THEN OrTorn(otBytecodes) ELSE {otBytecodes}
    /\ otValidated' \in IF otPc = "validating" THEN OrTorn(otValidated) ELSE {otValidated}
    /\ otCorpus' \in IF otPc = "corpus" THEN OrTorn(otCorpus) ELSE {otCorpus}
    /\ otRace' \in IF otPc = "race" THEN OrTorn(otRace) ELSE {otRace}
    /\ UNCHANGED <<otSkipVm, otTexts, otVerdicts, otAt, otStat, otRuns>>

OtStep ==
    \/ EpCsv \/ EpSummary \/ GbWrite \/ VbDone \/ CpDone \/ CrDone
    \/ \E text \in Texts : EpGenerate(text) \/ GbGenerate(text)
    \/ \E answered \in 0 .. NumPrograms : EpValidate(answered)
    \/ \E clang, encoder \in BOOLEAN : VbRecord(clang, encoder)
    \/ \E text \in Texts, answered \in BOOLEAN : CpStep(text, answered)
    \/ \E text \in Texts, call \in {"answers", "nothing", "raises"} : CrStep(text, call)
OtNext ==
    \/ OtStep \/ EpRaises \/ OtCrash \/ GbStart
    \/ \E skipVm, reachable \in BOOLEAN : EpStart(skipVm, reachable)
    \/ \E reachable \in BOOLEAN : VbStart(reachable) \/ CrStart(reachable)
    \/ \E validate \in BOOLEAN : CpStart(validate)

-----------------------------------------------------------------------------

\* Whatever calls of the VM fail and wherever a tool dies, every row it leaves is
\* about its own program: the verdict of a pass rate is that of the program in
\* that place although those that did not compile were left out
\* (tools/evaluate_passrate.py:263-271), a validated record has the answers to
\* its own two bytecodes, a corpus record that of its own, the summary counts
\* what was judged, and the race never claims more than its programs cover.
ResultsAreOwn ==
    LET own(verdict, hex) == hex # NoCode /\ verdict = Kernel(hex).verdict
    IN  /\ \A row \in Range(otPassrate.rows) :
             /\ row.compiled <=> CompileToHex(row.of) # NoCode
             /\ row.verdict = "SKIPPED" \/ own(row.verdict, CompileToHex(row.of))
        /\ \A line \in Range(otSummary.rows) : line.accepted <= line.compiled /\ line.compiled <= line.n
        /\ \A row \in Range(otValidated.rows) :
             /\ row.clang.verdict = "ENCODE_FAIL" <=> CompileToHex(row.of) = NoCode
             /\ row.clang.verdict \in {"ENCODE_FAIL", "ERROR"} \/ own(row.clang.verdict, CompileToHex(row.of))
             /\ row.encoder.verdict \in {"ENCODE_FAIL", "ERROR"} \/ own(row.encoder.verdict, EncodePath(row.of))
        /\ \A row \in Range(otCorpus.rows) : row.verdict = "none" \/ own(row.verdict, row.hex)
        /\ \A k \in DOMAIN otRace.rows :
             LET row == otRace.rows[k]
             IN  /\ row.valid <= row.submitted /\ row.pcs_valid <= row.pcs_all
                 /\ k > 1 => LET before == otRace.rows[k - 1]
                             IN  /\ before.submitted < row.submitted /\ before.valid <= row.valid
                                 /\ before.pcs_valid <= row.pcs_valid /\ before.pcs_all <= row.pcs_all
=============================================================================
