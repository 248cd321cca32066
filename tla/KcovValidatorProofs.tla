------------------------ MODULE KcovValidatorProofs ------------------------
(***************************************************************************)
(* Proofs about KcovValidator, for every input, every kernel and every     *)
(* size of the buffer.                                                     *)
(*                                                                         *)
(* Isolation is not inductive: that the words copied after a load are      *)
(* those of the program just loaded rests on the count being reset before  *)
(* tracing starts (Reset), on the buffer holding the start of the trace    *)
(* from the load to the copy (Recorded), and on the copy holding it        *)
(* afterwards (Copied).                                                    *)
(*                                                                         *)
(* Framing follows the scan of the lines: the number of entries is the     *)
(* number of programs up to the line taken, less the one under validation. *)
(***************************************************************************)
EXTENDS KcovValidator, FiniteSetTheorems, TLAPS

Validating == {"decode", "reset", "enable", "load", "disable", "read", "classify"}

\* A program under validation has a line; the only argument is the only line.
HasLine ==
  /\ pc \in Validating => line \in Lines
  /\ mode = "single" => Len(input) = 1

\* No word of an earlier program is counted when a load starts.
Reset == pc \in {"enable", "load"} => count = 0

\* The counted words are the start of the trace of the program just loaded.
Recorded ==
  pc \in {"disable", "read"} =>
    /\ load \in Kernel[line]
    /\ count = Lesser(Len(load.trace), Capacity)
    /\ \A k \in 1 .. count : area[k] = load.trace[k]

\* So are the words copied.
Copied ==
  pc = "classify" =>
    /\ load \in Kernel[line]
    /\ Len(pcs) = Lesser(Len(load.trace), Capacity)
    /\ \A k \in 1 .. Len(pcs) : pcs[k] = load.trace[k]

Buffered == Reset /\ Recorded /\ Copied

\* The inductive invariant.
IInv == TypeOK /\ HasLine /\ NothingLeftOpen /\ Buffered /\ Isolation

-----------------------------------------------------------------------------

\* What one run of a program can do to the kernel's answer.
LEMMA KernelTypes ==
  ASSUME NEW l \in Lines, NEW call \in Kernel[l]
  PROVE  call \in Calls
BY ValidatorAssumption

\* An ERROR says nothing of the program.
LEMMA ErrorReports == ASSUME NEW l PROVE Reports(Entry(l, "ERROR", <<>>), l)
<1>1. Entry(l, "ERROR", <<>>).verdict = "ERROR" /\ Entry(l, "ERROR", <<>>).pcs = <<>>
  BY DEF Entry
<1> QED BY <1>1 DEF Reports

\* An entry for the line under validation joins a typed, isolated output.
LEMMA ConcludeKeeps ==
  ASSUME TypeOK, Isolation, line \in Lines,
         NEW verdict \in {"ACCEPTED", "REJECTED", "ERROR"},
         NEW covered \in Seq(PCs \cup {None}),
         Conclude(verdict, covered), Reports(Entry(line, verdict, covered), line)
  PROVE  /\ results' \in Seq(Entries)
         /\ Isolation'
         /\ pc' \in {"scan", "print"}
<1> DEFINE e == Entry(line, verdict, covered)
<1>1. results \in Seq(Entries) /\ Len(results) \in Nat
  BY DEF TypeOK
<1>2. e \in Entries /\ e.of = line
  BY <1>1 DEF Entry, Entries
<1>3. results' = Append(results, e)
  BY DEF Conclude
<1>4. results' \in Seq(Entries)
  BY <1>1, <1>2, <1>3
<1>5. ASSUME NEW k \in DOMAIN results' PROVE Reports(results'[k], results'[k].of)
  <2> HIDE DEF e
  <2>1. k \in 1 .. Len(results) + 1
    BY <1>1, <1>2, <1>3, <1>5
  <2>2. CASE k = Len(results) + 1
    <3>1. results'[k] = e
      BY <1>1, <1>2, <1>3, <2>2
    <3> QED BY <3>1, <1>2 DEF e
  <2>3. CASE k \in 1 .. Len(results)
    <3>1. results'[k] = results[k] /\ k \in DOMAIN results
      BY <1>1, <1>2, <1>3, <2>3
    <3> QED BY <3>1 DEF Isolation
  <2> QED BY <2>1, <2>2, <2>3, <1>1
<1>6. pc' \in {"scan", "print"}
  BY DEF Conclude
<1> QED BY <1>4, <1>5, <1>6 DEF Isolation

-----------------------------------------------------------------------------

LEMMA InitIInv == Init => IInv
<1> SUFFICES ASSUME Init PROVE IInv
  OBVIOUS
<1>1. TypeOK
  <2>1. input \in Seq(Lines)
    <3>1. CASE input \in Inputs
      BY <3>1, ValidatorAssumption
    <3>2. ASSUME NEW l \in Lines, input = <<l>> PROVE input \in Seq(Lines)
      BY <3>2
    <3> QED BY <3>1, <3>2 DEF Init
  <2>2. load \in Calls /\ pcs \in Seq(PCs \cup {None}) /\ results \in Seq(Entries)
    BY DEF Init, NoLoad, Calls
  <2>3. count \in 0 .. Capacity /\ area \in [1 .. Capacity -> PCs \cup {None}]
    BY ValidatorAssumption DEF Init, Capacity
  <2>4. taken \in 0 .. Len(input)
    BY <2>1 DEF Init
  <2> QED BY <2>1, <2>2, <2>3, <2>4 DEF Init, TypeOK
<1>2. HasLine
  BY DEF Init, HasLine, Validating
<1>3. NothingLeftOpen /\ Buffered /\ Isolation
  BY DEF Init, NothingLeftOpen, NoLoad, Buffered, Reset, Recorded, Copied, Isolation
<1> QED BY <1>1, <1>2, <1>3 DEF IInv

\* The actions that neither touch the buffer nor add an entry.
LEMMA QuietSteps ==
  ASSUME IInv,
         KcovSetup \/ KcovSetupFails \/ SkipBlank \/ ScanLine \/ ScanFails \/ ScanEnds \/ PrintFails \/ PrintOne
  PROVE  IInv'
<1> USE DEF IInv
<1>0. /\ input \in Seq(Lines) /\ Len(input) \in Nat /\ taken \in 0 .. Len(input)
      /\ \A k \in 1 .. Len(input) : input[k] \in Lines
  BY DEF TypeOK
<1>1. CASE KcovSetup
  <2>1. mode = "single" => input[1] \in Lines /\ 1 \in 0 .. Len(input)
    BY <1>0 DEF HasLine
  <2>2. TypeOK'
    BY <1>1, <2>1 DEF KcovSetup, TypeOK, os, buffer, ended, HasLine
  <2>3. HasLine'
    BY <1>1, <2>1 DEF KcovSetup, HasLine, Validating, TypeOK
  <2>4. NothingLeftOpen' /\ Buffered' /\ Isolation'
    BY <1>1 DEF KcovSetup, NothingLeftOpen, Buffered, Reset, Recorded, Copied, Isolation, Reports, TypeOK, buffer
  <2> QED BY <2>2, <2>3, <2>4
<1>2. CASE KcovSetupFails
  BY <1>2 DEF KcovSetupFails, TypeOK, HasLine, Validating, NothingLeftOpen, Buffered, Reset,
              Recorded, Copied, Isolation, Reports, buffer, os
<1>3. CASE SkipBlank
  BY <1>3, <1>0 DEF SkipBlank, TypeOK, HasLine, Validating, NothingLeftOpen, Buffered, Reset,
              Recorded, Copied, Isolation, Reports, buffer, os, ended
<1>4. CASE ScanLine
  BY <1>4, <1>0 DEF ScanLine, TypeOK, HasLine, Validating, NothingLeftOpen, Buffered, Reset,
              Recorded, Copied, Isolation, Reports, buffer, os, ended
<1>5. CASE ScanFails
  BY <1>5 DEF ScanFails, TypeOK, HasLine, Validating, NothingLeftOpen, Buffered, Reset,
              Recorded, Copied, Isolation, Reports, buffer, os
<1>6. CASE ScanEnds
  <2>1. TypeOK' /\ HasLine'
    BY <1>6 DEF ScanEnds, TypeOK, HasLine, Validating, buffer
  <2>2. NothingLeftOpen'
    BY <1>6 DEF ScanEnds, NothingLeftOpen
  <2>3. Buffered' /\ Isolation'
    BY <1>6 DEF ScanEnds, Buffered, Reset, Recorded, Copied, Isolation, Reports, buffer
  <2> QED BY <2>1, <2>2, <2>3
<1>7. CASE PrintOne
  <2>1. TypeOK' /\ HasLine'
    BY <1>7 DEF PrintOne, TypeOK, HasLine, Validating, buffer
  <2>2. NothingLeftOpen'
    BY <1>7 DEF PrintOne, NothingLeftOpen
  <2>3. Buffered' /\ Isolation'
    BY <1>7 DEF PrintOne, Buffered, Reset, Recorded, Copied, Isolation, Reports, buffer
  <2> QED BY <2>1, <2>2, <2>3
<1>8. CASE PrintFails
  BY <1>8 DEF PrintFails, TypeOK, HasLine, Validating, NothingLeftOpen, Buffered, Reset,
              Recorded, Copied, Isolation, Reports, buffer, os
<1> QED BY <1>1, <1>2, <1>3, <1>4, <1>5, <1>6, <1>7, <1>8

\* From the scan of a line to the start of its load.
LEMMA PrepareSteps ==
  ASSUME IInv, Decode \/ ResetCounter \/ Enable \/ EnableFails
  PROVE  IInv'
<1> USE DEF IInv
<1>1. ASSUME Decode \/ EnableFails, Conclude("ERROR", <<>>)
      PROVE  IInv'
  <2>1. line \in Lines
    BY <1>1 DEF Decode, EnableFails, HasLine, Validating
  <2>2. Reports(Entry(line, "ERROR", <<>>), line)
    BY <2>1, ErrorReports
  <2>3. results' \in Seq(Entries) /\ Isolation' /\ pc' \in {"scan", "print"}
    <3>1. <<>> \in Seq(PCs \cup {None})
      OBVIOUS
    <3> QED BY <1>1, <2>1, <2>2, <3>1, ConcludeKeeps
  <2>4. UNCHANGED <<mode, input, taken, line, load, pcs, buffer, os, ended>>
    BY <1>1 DEF Decode, EnableFails
  <2>5. TypeOK' /\ HasLine'
    BY <2>3, <2>4 DEF TypeOK, HasLine, Validating, buffer, os, ended
  <2>6. NothingLeftOpen'
    BY <1>1, <2>3, <2>4 DEF Decode, EnableFails, NothingLeftOpen, os
  <2>7. Buffered'
    BY <2>3 DEF Buffered, Reset, Recorded, Copied
  <2> QED BY <2>3, <2>5, <2>6, <2>7
<1>2. ASSUME Decode, pc' = "reset", UNCHANGED results
      PROVE  IInv'
  BY <1>2 DEF Decode, TypeOK, HasLine, Validating, NothingLeftOpen, Buffered, Reset, Recorded,
              Copied, Isolation, Reports, buffer, os, ended
<1>3. CASE ResetCounter
  <2>1. TypeOK' /\ HasLine'
    BY <1>3, ValidatorAssumption DEF ResetCounter, TypeOK, HasLine, Validating, Capacity, os, ended
  <2>2. NothingLeftOpen' /\ Buffered' /\ Isolation'
    BY <1>3 DEF ResetCounter, NothingLeftOpen, Buffered, Reset, Recorded, Copied, Isolation,
                Reports, os
  <2> QED BY <2>1, <2>2
<1>4. CASE Enable
  BY <1>4 DEF Enable, TypeOK, HasLine, Validating, NothingLeftOpen, Buffered, Reset, Recorded,
              Copied, Isolation, Reports, buffer, ended
<1> QED BY <1>1, <1>2, <1>3, <1>4 DEF Decode, EnableFails

\* The kernel fills the buffer from its start, as far as it reaches.
LEMMA LoadStep == ASSUME IInv, LoadProgram PROVE IInv'
<1> USE DEF IInv
<1>1. PICK call \in Kernel[line] :
        /\ load' = call
        /\ Record(call.trace)
        /\ progs' = IF call.loaded THEN progs + 1 ELSE progs
  BY DEF LoadProgram
<1>2. line \in Lines /\ pc = "load"
  BY DEF LoadProgram, HasLine, Validating
<1>3. call \in Calls
  BY <1>2, KernelTypes
<1>4. call.trace \in Seq(PCs) /\ Len(call.trace) \in Nat /\ call.loaded \in BOOLEAN
  BY <1>3 DEF Calls
<1>5. count = 0 /\ tracing /\ progs = 0
  BY <1>2 DEF Buffered, Reset, NothingLeftOpen
<1>6. Capacity \in Nat
  BY ValidatorAssumption DEF Capacity
<1>7. /\ count' = Lesser(Len(call.trace), Capacity)
      /\ area' = [k \in 1 .. Capacity |->
                    IF 0 < k /\ k <= Len(call.trace) THEN call.trace[k - 0] ELSE area[k]]
  BY <1>1, <1>4, <1>5 DEF Record
<1>8. \A k \in 1 .. count' : area'[k] = call.trace[k]
  BY <1>4, <1>6, <1>7 DEF Lesser
<1>9. count' \in 0 .. Capacity
  BY <1>4, <1>6, <1>7 DEF Lesser
<1>10. area' \in [1 .. Capacity -> PCs \cup {None}]
  <2>1. ASSUME NEW k \in 1 .. Capacity PROVE area'[k] \in PCs \cup {None}
    BY <1>4, <1>6, <1>7 DEF TypeOK
  <2> QED BY <1>7, <2>1
<1>11. UNCHANGED <<mode, input, taken, line, pcs, results, tracing, kcovFd, ended>> /\ pc' = "disable"
  BY DEF LoadProgram
<1>12. TypeOK'
  BY <1>1, <1>3, <1>4, <1>5, <1>9, <1>10, <1>11 DEF TypeOK, ended
<1>13. HasLine' /\ NothingLeftOpen'
  BY <1>1, <1>2, <1>4, <1>5, <1>11 DEF HasLine, Validating, NothingLeftOpen
<1>14. Buffered'
  BY <1>1, <1>7, <1>8, <1>11 DEF Buffered, Reset, Recorded, Copied, Capacity, Lesser
<1>15. Isolation'
  BY <1>11 DEF Isolation, Reports
<1> QED BY <1>12, <1>13, <1>14, <1>15

\* From the end of the load to the copy of its words.
LEMMA CopySteps == ASSUME IInv, Disable \/ ReadPCs PROVE IInv'
<1> USE DEF IInv
<1>1. CASE Disable
  <2>1. TypeOK' /\ HasLine' /\ NothingLeftOpen' /\ Isolation'
    BY <1>1 DEF Disable, TypeOK, HasLine, Validating, NothingLeftOpen, Isolation, Reports, buffer, ended
  <2>2. Buffered'
    BY <1>1 DEF Disable, Buffered, Reset, Recorded, Copied, buffer
  <2> QED BY <2>1, <2>2
<1>2. CASE ReadPCs
  <2>1. count \in 0 .. Capacity /\ Capacity \in Nat /\ area \in [1 .. Capacity -> PCs \cup {None}]
    BY ValidatorAssumption DEF TypeOK, Capacity
  <2>2. Lesser(count, Capacity) = count
    BY <2>1 DEF Lesser
  <2>3. pcs' = [k \in 1 .. count |-> area[k]]
    BY <1>2, <2>2 DEF ReadPCs
  <2>4. pcs' \in Seq(PCs \cup {None}) /\ Len(pcs') = count
    BY <2>1, <2>3
  <2>5. \A k \in 1 .. Len(pcs') : pcs'[k] = area[k]
    BY <2>3, <2>4
  <2>6. UNCHANGED <<mode, input, taken, line, load, results, buffer, os, ended>> /\ pc' = "classify"
    BY <1>2 DEF ReadPCs
  <2>7. TypeOK'
    BY <2>4, <2>6 DEF TypeOK, buffer, os, ended
  <2>8. HasLine' /\ NothingLeftOpen' /\ Isolation'
    BY <1>2 DEF ReadPCs, HasLine, Validating, NothingLeftOpen, Isolation, Reports, os
  <2>9. load \in Kernel[line] /\ count = Lesser(Len(load.trace), Capacity)
        /\ \A k \in 1 .. count : area[k] = load.trace[k]
    BY <1>2 DEF ReadPCs, Buffered, Recorded
  <2>10. Buffered'
    BY <2>4, <2>5, <2>6, <2>9 DEF Buffered, Reset, Recorded, Copied, Lesser, Capacity
  <2> QED BY <2>7, <2>8, <2>10
<1> QED BY <1>1, <1>2

\* The verdict: the words copied are those of the line's own load.
LEMMA VerdictSteps == ASSUME IInv, Accept \/ Reject \/ Fail PROVE IInv'
<1> USE DEF IInv
<1>1. /\ line \in Lines /\ pc = "classify" /\ pcs \in Seq(PCs \cup {None})
      /\ load \in Calls /\ load.loaded \in BOOLEAN /\ load.logged \in BOOLEAN
  BY DEF Accept, Reject, Fail, HasLine, Validating, TypeOK, Calls
<1>2. /\ load \in Kernel[line] /\ Len(pcs) = Lesser(Len(load.trace), Capacity)
      /\ \A k \in DOMAIN pcs : pcs[k] = load.trace[k]
  BY <1>1 DEF Buffered, Copied
<1>3. ASSUME NEW verdict \in {"ACCEPTED", "REJECTED", "ERROR"},
             NEW covered \in Seq(PCs \cup {None}),
             Conclude(verdict, covered), Reports(Entry(line, verdict, covered), line),
             UNCHANGED <<mode, input, taken, line, load, pcs, buffer, tracing, kcovFd, ended>>,
             progs' = 0
      PROVE  IInv'
  <2>1. results' \in Seq(Entries) /\ Isolation' /\ pc' \in {"scan", "print"}
    BY <1>1, <1>3, ConcludeKeeps
  <2>2. TypeOK' /\ HasLine'
    BY <1>3, <2>1 DEF TypeOK, HasLine, Validating, buffer, ended
  <2>3. NothingLeftOpen'
    BY <1>1, <1>3, <2>1 DEF NothingLeftOpen
  <2>4. Buffered'
    BY <2>1 DEF Buffered, Reset, Recorded, Copied
  <2> QED BY <2>1, <2>2, <2>3, <2>4
<1>4. CASE Accept
  <2> DEFINE e == Entry(line, "ACCEPTED", pcs)
  <2>1. e.verdict = "ACCEPTED" /\ e.pcs = pcs /\ load.loaded
    BY <1>4 DEF Accept, Entry
  <2>2. Reports(e, line)
    <3> HIDE DEF e
    <3> QED BY <2>1, <1>2 DEF Reports
  <2>3. progs' = 0
    BY <1>4, <1>1 DEF Accept, NothingLeftOpen
  <2> QED BY <1>1, <1>3, <1>4, <2>2, <2>3 DEF Accept
<1>5. CASE Reject
  <2> DEFINE e == Entry(line, "REJECTED", pcs)
  <2>1. e.verdict = "REJECTED" /\ e.pcs = pcs /\ ~load.loaded /\ load.logged
    BY <1>5 DEF Reject, Entry
  <2>2. Reports(e, line)
    <3> HIDE DEF e
    <3> QED BY <2>1, <1>2 DEF Reports
  <2>3. progs' = 0
    BY <1>5, <1>1 DEF Reject, NothingLeftOpen, os
  <2> QED BY <1>1, <1>3, <1>5, <2>2, <2>3 DEF Reject, os
<1>6. CASE Fail
  <2>1. progs' = 0
    BY <1>6, <1>1 DEF Fail, NothingLeftOpen, os
  <2>2. Reports(Entry(line, "ERROR", <<>>), line)
    BY <1>1, ErrorReports
  <2>3. Conclude("ERROR", <<>>) /\ <<>> \in Seq(PCs \cup {None})
    BY <1>6 DEF Fail
  <2> QED BY <1>3, <1>6, <2>1, <2>2, <2>3 DEF Fail, os
<1> QED BY <1>4, <1>5, <1>6

\* Every step keeps the inductive invariant.
LEMMA NextIInv == IInv /\ [Next]_vars => IInv'
<1> SUFFICES ASSUME IInv, [Next]_vars PROVE IInv'
  OBVIOUS
<1>1. CASE KcovSetup \/ KcovSetupFails \/ SkipBlank \/ ScanLine \/ ScanFails \/ ScanEnds \/ PrintFails \/ PrintOne
  BY <1>1, QuietSteps
<1>2. CASE Decode \/ ResetCounter \/ Enable \/ EnableFails
  BY <1>2, PrepareSteps
<1>3. CASE LoadProgram
  BY <1>3, LoadStep
<1>4. CASE Disable \/ ReadPCs
  BY <1>4, CopySteps
<1>5. CASE Accept \/ Reject \/ Fail
  BY <1>5, VerdictSteps
<1>6. CASE UNCHANGED vars
  BY <1>6 DEF vars, buffer, os, ended, IInv, TypeOK, HasLine, Validating, NothingLeftOpen, Buffered,
              Reset, Recorded, Copied, Isolation, Reports
<1> QED BY <1>1, <1>2, <1>3, <1>4, <1>5, <1>6 DEF Next

LEMMA Invariance == Spec => []IInv
BY InitIInv, NextIInv, PTL DEF Spec

-----------------------------------------------------------------------------

\* The variables keep their types, whatever the kernel answers.
THEOREM TypeCorrect == Spec => []TypeOK
<1>1. IInv => TypeOK
  BY DEF IInv
<1> QED BY <1>1, Invariance, PTL

\* No entry shows coverage of another program, and the part it shows is the
\* start of one run of its own program, whatever the size of the buffer.
THEOREM IsolationHolds == Spec => []Isolation
<1>1. IInv => Isolation
  BY DEF IInv
<1> QED BY <1>1, Invariance, PTL

\* However long the batch, at most the descriptor of the program under
\* validation is open, and tracing is off outside the load.
THEOREM NothingLeftOpenHolds == Spec => []NothingLeftOpen
<1>1. IInv => NothingLeftOpen
  BY DEF IInv
<1> QED BY <1>1, Invariance, PTL


-----------------------------------------------------------------------------
(* Framing.  The place of an entry is the number of programs up to its     *)
(* line; the invariant follows it while the lines are scanned.             *)

\* One more line is one more program unless it is blank.
LEMMA ProgramsCount ==
  ASSUME input \in Seq(Lines)
  PROVE  /\ ProgramsUpTo(0) = 0
         /\ \A n \in Nat : ProgramsUpTo(n) \in Nat
         /\ \A n \in Nat : ProgramsUpTo(n + 1) =
                             IF input[n + 1] \in Blank THEN ProgramsUpTo(n) ELSE ProgramsUpTo(n) + 1
         /\ \A m, n \in Nat : m <= n => ProgramsUpTo(m) <= ProgramsUpTo(n)
         /\ \A n \in Nat \ {0} : input[n] \notin Blank => ProgramsUpTo(n) >= 1
<1> DEFINE P(n) == {i \in 1 .. n : input[i] \notin Blank}
<1>1. ASSUME NEW n \in Nat PROVE IsFiniteSet(P(n)) /\ Cardinality(P(n)) \in Nat
  <2>1. IsFiniteSet(1 .. n)
    BY FS_Interval
  <2>2. P(n) \in SUBSET (1 .. n)
    OBVIOUS
  <2> QED BY <2>1, <2>2, FS_Subset, FS_CardinalityType
<1>2. P(0) = {}
  OBVIOUS
<1>3. ProgramsUpTo(0) = 0
  BY <1>2, FS_EmptySet DEF ProgramsUpTo
<1>4. ASSUME NEW n \in Nat
      PROVE  ProgramsUpTo(n + 1) = IF input[n + 1] \in Blank THEN ProgramsUpTo(n) ELSE ProgramsUpTo(n) + 1
  <2>1. CASE input[n + 1] \in Blank
    <3>1. P(n + 1) = P(n)
      BY <2>1
    <3> QED BY <2>1, <3>1 DEF ProgramsUpTo
  <2>2. CASE input[n + 1] \notin Blank
    <3>1. P(n + 1) = P(n) \cup {n + 1} /\ n + 1 \notin P(n)
      BY <2>2
    <3>2. Cardinality(P(n) \cup {n + 1}) = Cardinality(P(n)) + 1
      BY <1>1, <3>1, FS_AddElement
    <3> QED BY <2>2, <3>1, <3>2 DEF ProgramsUpTo
  <2> QED BY <2>1, <2>2
<1>5. ASSUME NEW m \in Nat, NEW n \in Nat, m <= n PROVE ProgramsUpTo(m) <= ProgramsUpTo(n)
  <2>1. P(m) \in SUBSET P(n)
    BY <1>5
  <2>2. IsFiniteSet(P(n))
    BY <1>1
  <2> QED BY <2>1, <2>2, FS_Subset DEF ProgramsUpTo
<1>6. ASSUME NEW n \in Nat \ {0}, input[n] \notin Blank PROVE ProgramsUpTo(n) >= 1
  <2>1. n \in P(n)
    BY <1>6
  <2>2. IsFiniteSet(P(n)) /\ Cardinality(P(n)) \in Nat
    BY <1>1
  <2>3. Cardinality(P(n)) # 0
    BY <2>1, <2>2, FS_EmptySet
  <2>4. ProgramsUpTo(n) = Cardinality(P(n))
    BY DEF ProgramsUpTo
  <2> HIDE DEF P
  <2> QED BY <2>2, <2>3, <2>4
<1>7. \A n \in Nat : ProgramsUpTo(n) \in Nat
  BY <1>1 DEF ProgramsUpTo
<1> QED BY <1>3, <1>4, <1>5, <1>6, <1>7

\* Where the entries of the lines scanned so far are, and that nothing is printed before the end.
Unfinished(i) == i = taken /\ pc \in Validating

Framed ==
  mode = "batch" =>
  /\ pc # "print"
  /\ pc = "setup" => taken = 0 /\ results = <<>>
  /\ pc \in Validating => taken # 0 /\ line = input[taken] /\ line \notin Blank
  /\ ProgramsUpTo(taken) = Len(results) + IF pc \in Validating THEN 1 ELSE 0
  /\ \A i \in 1 .. taken :
       (input[i] \notin Blank /\ ~Unfinished(i)) =>
         ProgramsUpTo(i) \in DOMAIN results /\ results[ProgramsUpTo(i)].of = input[i]
  /\ \A k \in DOMAIN results : results[k].index = k - 1
  /\ pc # "done" => output = None
  /\ pc = "done" => \/ output = None /\ exit = 1
                    \/ output = results /\ taken = Len(input)

\* The entry of the line in work takes the next place.
LEMMA FramedConclude ==
  ASSUME TypeOK, Framed, pc \in Validating, NEW verdict, NEW covered, Conclude(verdict, covered),
         UNCHANGED <<mode, input, taken, output>>
  PROVE  Framed'
<1> SUFFICES ASSUME mode = "batch" PROVE Framed'
  BY DEF Framed
<1> DEFINE e == Entry(line, verdict, covered)
           n == Len(results)
<1>1. /\ input \in Seq(Lines) /\ taken \in Nat \ {0} /\ results \in Seq(Entries) /\ n \in Nat
      /\ line = input[taken] /\ line \notin Blank
      /\ ProgramsUpTo(taken) = n + 1
  BY DEF TypeOK, Framed
<1>2. e.of = line /\ e.index = n
  BY DEF Entry
<1>3. results' = Append(results, e) /\ pc' = "scan"
  BY DEF Conclude
<1> HIDE DEF e
<1>4. /\ Len(results') = n + 1 /\ DOMAIN results' = 1 .. n + 1 /\ results'[n + 1] = e
      /\ \A k \in 1 .. n : results'[k] = results[k]
  BY <1>1, <1>3
<1>5. \A i \in Nat : ProgramsUpTo(i)' = ProgramsUpTo(i)
  BY DEF ProgramsUpTo
<1>6. ASSUME NEW i \in 1 .. taken, input[i] \notin Blank
      PROVE  ProgramsUpTo(i) \in DOMAIN results' /\ results'[ProgramsUpTo(i)].of = input[i]
  <2>1. CASE i = taken
    BY <1>1, <1>2, <1>4, <2>1
  <2>2. CASE i # taken
    <3>1. ProgramsUpTo(i) \in 1 .. n /\ results[ProgramsUpTo(i)].of = input[i]
      BY <1>1, <1>6, <2>2 DEF Framed, Unfinished
    <3> QED BY <1>4, <3>1
  <2> QED BY <2>1, <2>2
<1>7. \A k \in DOMAIN results' : results'[k].index = k - 1
  BY <1>1, <1>2, <1>4 DEF Framed
<1> QED BY <1>1, <1>3, <1>4, <1>5, <1>6, <1>7 DEF Framed, Validating, Unfinished

LEMMA FramedInit == Init => Framed
<1> SUFFICES ASSUME Init, mode = "batch" PROVE Framed
  BY DEF Framed
<1>1. input \in Seq(Lines)
  BY ValidatorAssumption DEF Init
<1> QED BY <1>1, ProgramsCount DEF Init, Framed, Validating

LEMMA FramedStep == IInv /\ Framed /\ [Next]_vars => Framed'
<1> SUFFICES ASSUME IInv, Framed, [Next]_vars PROVE Framed'
  OBVIOUS
<1> USE DEF IInv
<1>0. /\ input \in Seq(Lines) /\ Len(input) \in Nat /\ taken \in 0 .. Len(input)
      /\ results \in Seq(Entries)
  BY DEF TypeOK
<1>a. mode' = mode /\ input' = input
  BY DEF Next, vars, KcovSetup, KcovSetupFails, SkipBlank, ScanLine, ScanFails, ScanEnds, PrintFails, PrintOne,
         Decode, ResetCounter, Enable, EnableFails, LoadProgram, Disable, ReadPCs, Accept, Reject, Fail
<1>b. \A i : ProgramsUpTo(i)' = ProgramsUpTo(i)
  BY <1>a DEF ProgramsUpTo
<1> SUFFICES ASSUME mode = "batch" PROVE Framed'
  BY <1>a DEF Framed
<1>1. CASE KcovSetup
  BY <1>1, <1>b DEF KcovSetup, Framed, Validating, Unfinished, ended
<1>2. CASE KcovSetupFails
  BY <1>2, <1>b DEF KcovSetupFails, Framed, Validating, Unfinished
<1>3. CASE SkipBlank \/ ScanLine
  <2>1. /\ pc = "scan" /\ taken \in Nat /\ taken' = taken + 1 /\ UNCHANGED <<mode, input, results, output>>
        /\ \/ pc' = "scan" /\ input[taken + 1] \in Blank
           \/ pc' = "decode" /\ line' = input[taken + 1] /\ input[taken + 1] \notin Blank
    BY <1>0, <1>3 DEF SkipBlank, ScanLine, ended
  <2>2. ProgramsUpTo(taken') = Len(results) + IF pc' \in Validating THEN 1 ELSE 0
    <3>1. /\ ProgramsUpTo(taken + 1) = IF input[taken + 1] \in Blank THEN ProgramsUpTo(taken)
                                       ELSE ProgramsUpTo(taken) + 1
          /\ ProgramsUpTo(taken) = Len(results) /\ Len(results) \in Nat
      BY <1>0, <2>1, ProgramsCount DEF Framed, Validating
    <3> QED BY <2>1, <3>1 DEF Validating
  <2>3. ASSUME NEW i \in 1 .. taken', input[i] \notin Blank, ~(i = taken' /\ pc' \in Validating)
        PROVE  ProgramsUpTo(i) \in DOMAIN results /\ results[ProgramsUpTo(i)].of = input[i]
    <3>1. i \in 1 .. taken
      BY <2>1, <2>3 DEF Validating
    <3> QED BY <2>1, <2>3, <3>1 DEF Framed, Validating, Unfinished
  <2>4. pc' \in Validating => taken' # 0 /\ line' = input[taken'] /\ line' \notin Blank
    BY <2>1 DEF Validating
  <2> QED BY <1>b, <2>1, <2>2, <2>3, <2>4 DEF Framed, Unfinished
<1>4. CASE ScanFails \/ ScanEnds \/ PrintFails
  <2>1. /\ pc = "scan" /\ pc' = "done" /\ UNCHANGED <<mode, input, taken, line, results>>
        /\ \/ (output' = output \/ output' = None) /\ exit' = 1
           \/ output' = results /\ taken = Len(input)
    BY <1>4 DEF ScanFails, ScanEnds, PrintFails
  <2> QED BY <1>b, <2>1 DEF Framed, Validating, Unfinished
<1>5. CASE PrintOne
  BY <1>5 DEF PrintOne, Framed
<1>6. CASE Conclude("ERROR", <<>>) /\ (Decode \/ EnableFails \/ Fail)
  BY <1>6, FramedConclude DEF Decode, EnableFails, Fail, Validating, ended
<1>7. CASE Accept
  BY <1>7, FramedConclude DEF Accept, Validating, ended
<1>8. CASE Reject
  BY <1>8, FramedConclude DEF Reject, Validating, ended
<1>9. CASE /\ UNCHANGED <<mode, input, taken, line, results, output, exit>>
           /\ pc \in Validating /\ pc' \in Validating
  BY <1>9, <1>b DEF Framed, Validating, Unfinished
<1>10. CASE pc' = "reset" /\ Decode
  BY <1>9, <1>10 DEF Decode, Conclude, Validating, ended
<1>11. CASE ResetCounter \/ Enable \/ LoadProgram \/ Disable \/ ReadPCs
  BY <1>9, <1>11 DEF ResetCounter, Enable, LoadProgram, Disable, ReadPCs, Validating, ended
<1>12. CASE UNCHANGED vars
  BY <1>12, <1>b DEF vars, ended, Framed, Unfinished
<1> QED BY <1>1, <1>2, <1>3, <1>4, <1>5, <1>6, <1>7, <1>8, <1>10, <1>11, <1>12
        DEF Next, Decode, EnableFails, Fail

\* A batch that prints an array prints one entry per program, in the order of
\* the input; one that prints none exits with 1.
THEOREM FramingAndOrderHolds == Spec => []FramingAndOrder
<1>1. IInv /\ Framed => FramingAndOrder
  <2> SUFFICES ASSUME IInv, Framed, pc = "done", mode = "batch"
      PROVE  /\ output = None => exit = 1
             /\ output # None =>
                  /\ Len(output) = ProgramsUpTo(Len(input))
                  /\ \A i \in DOMAIN input :
                       input[i] \notin Blank => output[ProgramsUpTo(i)].of = input[i]
                  /\ \A k \in DOMAIN output : output[k].index = k - 1
    BY DEF FramingAndOrder
  <2>1. results \in Seq(Entries) /\ input \in Seq(Lines)
    BY DEF IInv, TypeOK
  <2>2. CASE output = None /\ exit = 1
    BY <2>2
  <2>3. CASE output = results /\ taken = Len(input)
    <3>1. output # None
      BY <2>1, <2>3, NoneAssumption
    <3> QED BY <2>1, <2>3, <3>1 DEF Framed, Validating, Unfinished
  <2> QED BY <2>2, <2>3 DEF Framed
<1>2. Init => IInv /\ Framed
  BY InitIInv, FramedInit
<1>3. (IInv /\ Framed) /\ [Next]_vars => (IInv /\ Framed)'
  BY NextIInv, FramedStep
<1> QED BY <1>1, <1>2, <1>3, PTL DEF Spec
=============================================================================
