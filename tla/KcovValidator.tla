---------------------------- MODULE KcovValidator ----------------------------
(***************************************************************************)
(* tools/kcov_validator/main.go: programs loaded one after another by one  *)
(* thread, under one KCOV buffer that the kernel fills while tracing is on *)
(* and that the process reads afterwards.                                  *)
(*                                                                         *)
(* A line of the input is a member of Lines.  Blank lines carry no program *)
(* and Malformed ones do not decode; what the kernel does with any other   *)
(* is one of Kernel[line]: whether the load succeeds, whether the verifier *)
(* wrote to its log, and the counters of the call, in order.               *)
(***************************************************************************)
EXTENDS Integers, Sequences, FiniteSets

CONSTANTS
  Lines, Blank, Malformed,
  PCs,
  Kernel,      \* [Lines -> SUBSET Calls], what the kernel may do with a line
  Inputs,      \* the inputs of a run, sequences of lines
  CoverSize,   \* words of the buffer; word 0 is the count
  None         \* a buffer word never written, no output, no exit status yet

\* What one BPF_PROG_LOAD call returns and makes KCOV record.
Calls == [loaded : BOOLEAN, logged : BOOLEAN, trace : Seq(PCs)]

ASSUME ValidatorAssumption ==
  /\ Blank \subseteq Lines /\ Malformed \subseteq Lines /\ Blank \cap Malformed = {}
  /\ Kernel \in [Lines -> SUBSET Calls]
  /\ Inputs \subseteq Seq(Lines)
  /\ CoverSize \in Nat \ {0}

VARIABLES
  mode,        \* "batch" or "single"
  input,       \* the lines on stdin, or the argument as the only line
  taken,       \* lines scanned so far
  pc,          \* next step of the process
  line,        \* the line under validation
  load,        \* what BPF_PROG_LOAD returned for it
  pcs,         \* what readPCs copied
  results,     \* the entries of the output so far
  count, area, \* the buffer: cover[0], and the words behind it
  tracing,     \* KCOV is enabled for the thread
  kcovFd,      \* the KCOV descriptor is open
  progs,       \* program descriptors open
  output, exit \* what was printed, and the exit status

buffer == <<count, area>>
os     == <<tracing, kcovFd, progs>>
ended  == <<output, exit>>
vars   == <<mode, input, taken, pc, line, load, pcs, results, buffer, os, ended>>

Capacity == CoverSize - 1
Lesser(a, b) == IF a < b THEN a ELSE b
NoLoad == [loaded |-> FALSE, logged |-> FALSE, trace |-> <<>>]

Init ==
  /\ \/ mode = "batch" /\ input \in Inputs
     \/ mode = "single" /\ input \in {<<l>> : l \in Lines}
  /\ taken = 0 /\ pc = "setup" /\ line = None /\ load = NoLoad /\ pcs = <<>> /\ results = <<>>
  /\ count = 0 /\ area = [k \in 1 .. Capacity |-> None]
  /\ tracing = FALSE /\ kcovFd = FALSE /\ progs = 0
  /\ output = None /\ exit = None

Entries == [index : Nat, verdict : {"ACCEPTED", "REJECTED", "ERROR"},
            pcs : Seq(PCs \cup {None}), of : Lines]

\* What is not printed is not an array.
ASSUME NoneAssumption == None \notin Seq(Entries)

\* An entry; `of` is a history field, the line it was made for.
Entry(l, verdict, covered) ==
  [index |-> Len(results), verdict |-> verdict, pcs |-> covered, of |-> l]

\* validateOne returns: the entry joins the output, and the next line is read
\* or, in single mode, the one result is printed.
Conclude(verdict, covered) ==
  /\ results' = Append(results, Entry(line, verdict, covered))
  /\ pc' = IF mode = "batch" THEN "scan" ELSE "print"

-----------------------------------------------------------------------------
(* main and runBatch.                                                      *)

\* open, KCOV_INIT_TRACE and mmap succeed.
KcovSetup ==
  /\ pc = "setup"
  /\ kcovFd' = TRUE
  /\ IF mode = "batch" THEN pc' = "scan" /\ UNCHANGED <<line, taken>>
     ELSE pc' = "decode" /\ line' = input[1] /\ taken' = 1
  /\ UNCHANGED <<mode, input, load, pcs, results, buffer, tracing, progs, ended>>

\* One of them fails: the descriptor is closed again.  Single mode still
\* prints an ERROR result, if the write succeeds.
KcovSetupFails ==
  /\ pc = "setup"
  /\ pc' = "done" /\ exit' = 1
  /\ output' \in IF mode = "batch" THEN {None} ELSE {None, <<Entry(input[1], "ERROR", <<>>)>>}
  /\ UNCHANGED <<mode, input, taken, line, load, pcs, results, buffer, os>>

SkipBlank ==
  /\ pc = "scan" /\ taken < Len(input) /\ input[taken + 1] \in Blank
  /\ taken' = taken + 1
  /\ UNCHANGED <<mode, input, pc, line, load, pcs, results, buffer, os, ended>>

ScanLine ==
  /\ pc = "scan" /\ taken < Len(input) /\ input[taken + 1] \notin Blank
  /\ taken' = taken + 1 /\ line' = input[taken + 1]
  /\ pc' = "decode"
  /\ UNCHANGED <<mode, input, load, pcs, results, buffer, os, ended>>

\* A read error, or a line over the scanner's limit: nothing is printed.
\* os.Exit skips the deferred close and leaves it to the kernel.
ScanFails ==
  /\ pc = "scan"
  /\ pc' = "done" /\ exit' = 1
  /\ UNCHANGED <<mode, input, taken, line, load, pcs, results, buffer, os, output>>

\* End of input: the array is printed, then the deferred close runs.
ScanEnds ==
  /\ pc = "scan" /\ taken = Len(input)
  /\ output' = results /\ exit' = 0 /\ pc' = "done" /\ kcovFd' = FALSE
  /\ UNCHANGED <<mode, input, taken, line, load, pcs, results, buffer, tracing, progs>>

\* The write fails or is cut short: no array reaches the reader, or all of it
\* without the end of its line.  os.Exit skips the deferred close.
PrintFails ==
  /\ pc = "scan" /\ taken = Len(input)
  /\ output' \in {None, results} /\ exit' = 1 /\ pc' = "done"
  /\ UNCHANGED <<mode, input, taken, line, load, pcs, results, buffer, os>>

\* Single mode: a write that fails is ignored; an ERROR leaves through
\* os.Exit(1), which skips the close.
PrintOne ==
  /\ pc = "print"
  /\ output' \in {None, results} /\ pc' = "done"
  /\ IF results[1].verdict = "ERROR" THEN exit' = 1 /\ UNCHANGED kcovFd
     ELSE exit' = 0 /\ kcovFd' = FALSE
  /\ UNCHANGED <<mode, input, taken, line, load, pcs, results, buffer, tracing, progs>>

-----------------------------------------------------------------------------
(* validateOne.                                                            *)

\* Each definition that starts with Faulty is a plausible mistake in the one it
\* precedes; no behaviour of this module uses it.  Here: a malformed program of
\* a batch gets no entry.
FaultyDrop ==
  /\ pc = "decode"
  /\ IF line \in Malformed \cup Blank
     THEN IF mode = "batch" THEN pc' = "scan" /\ UNCHANGED results ELSE Conclude("ERROR", <<>>)
     ELSE pc' = "reset" /\ UNCHANGED results
  /\ UNCHANGED <<mode, input, taken, line, load, pcs, buffer, os, ended>>

Decode ==
  /\ pc = "decode"
  /\ IF line \in Malformed \cup Blank
     THEN Conclude("ERROR", <<>>)
     ELSE pc' = "reset" /\ UNCHANGED results
  /\ UNCHANGED <<mode, input, taken, line, load, pcs, buffer, os, ended>>

\* Leaves the count of the program before.
FaultyNoReset ==
  /\ pc = "reset"
  /\ pc' = "enable"
  /\ UNCHANGED <<mode, input, taken, line, load, pcs, results, buffer, os, ended>>

ResetCounter ==
  /\ pc = "reset"
  /\ count' = 0 /\ pc' = "enable"
  /\ UNCHANGED <<mode, input, taken, line, load, pcs, results, area, os, ended>>

Enable ==
  /\ pc = "enable"
  /\ tracing' = TRUE /\ pc' = "load"
  /\ UNCHANGED <<mode, input, taken, line, load, pcs, results, buffer, kcovFd, progs, ended>>

EnableFails ==
  /\ pc = "enable"
  /\ Conclude("ERROR", <<>>)
  /\ UNCHANGED <<mode, input, taken, line, load, pcs, buffer, os, ended>>

\* The kernel appends the counters of the call while there is room.
Record(trace) ==
  IF tracing
  THEN /\ count' = Lesser(count + Len(trace), Capacity)
       /\ area' = [k \in 1 .. Capacity |->
                     IF count < k /\ k <= count + Len(trace) THEN trace[k - count] ELSE area[k]]
  ELSE UNCHANGED buffer

LoadProgram ==
  /\ pc = "load"
  /\ \E call \in Kernel[line] :
       /\ load' = call
       /\ Record(call.trace)
       /\ progs' = IF call.loaded THEN progs + 1 ELSE progs
  /\ pc' = "disable"
  /\ UNCHANGED <<mode, input, taken, line, pcs, results, tracing, kcovFd, ended>>

Disable ==
  /\ pc = "disable"
  /\ tracing' = FALSE /\ pc' = "read"
  /\ UNCHANGED <<mode, input, taken, line, load, pcs, results, buffer, kcovFd, progs, ended>>

ReadPCs ==
  /\ pc = "read"
  /\ pcs' = [k \in 1 .. Lesser(count, Capacity) |-> area[k]]
  /\ pc' = "classify"
  /\ UNCHANGED <<mode, input, taken, line, load, results, buffer, os, ended>>

\* Leaks the program.
FaultyLeak ==
  /\ pc = "classify" /\ load.loaded
  /\ Conclude("ACCEPTED", pcs)
  /\ UNCHANGED <<mode, input, taken, line, load, pcs, buffer, os, ended>>

Accept ==
  /\ pc = "classify" /\ load.loaded
  /\ progs' = progs - 1
  /\ Conclude("ACCEPTED", pcs)
  /\ UNCHANGED <<mode, input, taken, line, load, pcs, buffer, tracing, kcovFd, ended>>

Reject ==
  /\ pc = "classify" /\ ~load.loaded /\ load.logged
  /\ Conclude("REJECTED", pcs)
  /\ UNCHANGED <<mode, input, taken, line, load, pcs, buffer, os, ended>>

\* Tries a program again until the verifier runs.
FaultyRetry ==
  /\ pc = "classify" /\ ~load.loaded /\ ~load.logged
  /\ pc' = "reset"
  /\ UNCHANGED <<mode, input, taken, line, load, pcs, results, buffer, os, ended>>

\* The call failed before the verifier ran.
Fail ==
  /\ pc = "classify" /\ ~load.loaded /\ ~load.logged
  /\ Conclude("ERROR", <<>>)
  /\ UNCHANGED <<mode, input, taken, line, load, pcs, buffer, os, ended>>

-----------------------------------------------------------------------------

Next ==
  \/ KcovSetup \/ KcovSetupFails
  \/ SkipBlank \/ ScanLine \/ ScanFails \/ ScanEnds \/ PrintFails \/ PrintOne
  \/ Decode \/ ResetCounter \/ Enable \/ EnableFails \/ LoadProgram \/ Disable \/ ReadPCs
  \/ Accept \/ Reject \/ Fail

Spec == Init /\ [][Next]_vars

\* The process is scheduled, and every call it makes returns.
FairSpec == Spec /\ WF_vars(Next)

-----------------------------------------------------------------------------
(* Properties.                                                             *)

\* The types of the variables.
TypeOK ==
  /\ mode \in {"batch", "single"}
  /\ input \in Seq(Lines)
  /\ taken \in 0 .. Len(input)
  /\ pc \in {"setup", "scan", "print", "decode", "reset", "enable", "load", "disable", "read",
             "classify", "done"}
  /\ line \in Lines \cup {None}
  /\ load \in Calls
  /\ pcs \in Seq(PCs \cup {None})
  /\ results \in Seq(Entries)
  /\ count \in 0 .. Capacity /\ area \in [1 .. Capacity -> PCs \cup {None}]
  /\ tracing \in BOOLEAN /\ kcovFd \in BOOLEAN /\ progs \in Nat
  /\ exit \in {None, 0, 1}

\* Isolation (tools/kcov_validator/main.go:181-191): the coverage of an entry
\* is the start of what one run of that very program covered, as long as the
\* buffer allows; nothing of an earlier program and no unwritten word shows.
Reports(entry, l) ==
  \/ entry.verdict = "ERROR" /\ entry.pcs = <<>>
  \/ \E call \in Kernel[l] :
       /\ entry.verdict = IF call.loaded THEN "ACCEPTED" ELSE "REJECTED"
       /\ call.loaded \/ call.logged
       /\ Len(entry.pcs) = Lesser(Len(call.trace), Capacity)
       /\ \A k \in DOMAIN entry.pcs : entry.pcs[k] = call.trace[k]

Isolation == \A k \in DOMAIN results : Reports(results[k], results[k].of)

\* The programs among the first n lines.
ProgramsUpTo(n) == Cardinality({i \in 1 .. n : input[i] \notin Blank})

\* Framing (tools/kcov_validator/main.go:104-107): the array that is printed
\* has one entry per program, in input order, whatever became of the programs
\* before it; a run that prints no array says so by its status.  It is what
\* lets ml/reward.py:509 pair results and completions by position.
FramingAndOrder ==
  (pc = "done" /\ mode = "batch") =>
    /\ output = None => exit = 1
    /\ output # None =>
         /\ Len(output) = ProgramsUpTo(Len(input))
         /\ \A i \in DOMAIN input :
              input[i] \notin Blank => output[ProgramsUpTo(i)].of = input[i]
         /\ \A k \in DOMAIN output : output[k].index = k - 1

\* A program descriptor lives from the load to the verdict of its own line,
\* and tracing is on only around the load: a long batch neither runs out of
\* descriptors nor traces its own bookkeeping (main.go:207-224).
NothingLeftOpen ==
  /\ progs = IF pc \in {"disable", "read", "classify"} /\ load.loaded THEN 1 ELSE 0
  /\ tracing <=> pc \in {"load", "disable"}

\* The validator ends on every input.
Ends == <>(pc = "done")
=============================================================================
