-------------------------- MODULE CoverageBasedProofs --------------------------
(***************************************************************************)
(* The tables and the queue of the coverage strategy, for every set of     *)
(* addresses and every limit of reuse.  The three invariants are inductive *)
(* together: a coverage that was pushed is explained by the tables, hence  *)
(* not new, hence not pushed again.                                        *)
(***************************************************************************)
EXTENDS CoverageBased, TLAPS

IInv == CvTypeOK /\ TablesExplained /\ NoTwins

(* What Append does to the pushed coverages, which hold one more.          *)
LEMMA Pushed ==
  ASSUME pushed \in Seq(SUBSET CvAddresses), NEW cov \in SUBSET CvAddresses,
         pushed' = Append(pushed, cov)
  PROVE  /\ pushed' \in Seq(SUBSET CvAddresses)
         /\ Ids' = Ids \union {Len(pushed) + 1}
         /\ Len(pushed) + 1 \notin Ids
         /\ pushed'[Len(pushed) + 1] = cov
         /\ \A i \in Ids : pushed'[i] = pushed[i]
  BY DEF Ids

(* A pushed coverage is not new (coverage_based.go:258-280).               *)
LEMMA KnownIsNotNew ==
  ASSUME TablesExplained, NEW i \in Ids
  PROVE  ~ IsNew(pushed[i])
  BY DEF TablesExplained, IsNew

LEMMA FingerPrintType == \A cov : FingerPrint(cov) \in SUBSET Bits
  BY DEF FingerPrint

LEMMA InitIInv == CvInit => IInv
  <1> SUFFICES ASSUME CvInit PROVE IInv
    OBVIOUS
  <1>1. Ids = {}
    BY DEF CvInit, Ids
  <1>2. CvTypeOK
    <2>1. pushed \in Seq(SUBSET CvAddresses)
      BY DEF CvInit
    <2>2. pq = {} /\ coverageHashTable = {} /\ fingerprintHashTable = {}
      BY DEF CvInit
    <2> QED
      BY <2>1, <2>2 DEF CvInit, CvTypeOK, Phases
  <1> QED
    BY <1>1, <1>2 DEF CvInit, IInv, TablesExplained, NoTwins

(* Taking an entry from the queue puts back at most that entry. *)
LEMMA FromQueueTyped ==
  ASSUME IInv, FromQueue
  PROVE  CvTypeOK'
  <1>1. PICK e \in pq :
          pq' = (pq \ {e}) \union
                (IF e.uses < MAX_PROG_REUSE THEN {[e EXCEPT !.uses = @ + 1]} ELSE {})
    BY DEF FromQueue
  <1>2. e \in [id : Ids, uses : 0 .. MAX_PROG_REUSE]
    BY DEF IInv, CvTypeOK
  <1> DEFINE back == [e EXCEPT !.uses = @ + 1]
  <1>3. back.id = e.id /\ back = [id |-> e.id, uses |-> e.uses + 1]
    BY <1>2
  <1>4. e.uses < MAX_PROG_REUSE => back \in [id : Ids, uses : 0 .. MAX_PROG_REUSE]
    BY <1>2, <1>3, CoverageAssumption
  <1> HIDE DEF back
  <1>5. Ids' = Ids
    BY DEF FromQueue, Ids
  <1>6. pq' \subseteq [id : Ids, uses : 0 .. MAX_PROG_REUSE]
    BY <1>1, <1>4 DEF IInv, CvTypeOK, back
  <1>7. \A f, other \in pq' : f.id = other.id => f = other
    <2> SUFFICES ASSUME NEW f \in pq', NEW other \in pq', f.id = other.id
                 PROVE  f = other
      OBVIOUS
    <2>1. (f \in pq /\ f # e) \/ f = back
      BY <1>1 DEF back
    <2>2. (other \in pq /\ other # e) \/ other = back
      BY <1>1 DEF back
    <2> QED
      BY <2>1, <2>2, <1>3 DEF IInv, CvTypeOK
  <1> QED
    BY <1>5, <1>6, <1>7 DEF FromQueue, IInv, CvTypeOK, Phases

(* Judging a program that is new pushes it and explains it at once.        *)
LEMMA JudgeNew ==
  ASSUME IInv, NEW cov \in SUBSET CvAddresses, Judge(cov), IsNew(cov)
  PROVE  IInv'
  <1> DEFINE n == Len(pushed) + 1
  <1>1. /\ pushed' = Append(pushed, cov)
        /\ pq' = pq \union {[id |-> n, uses |-> 0]}
        /\ phase' = "execute" /\ cvFinished' = cvFinished
        /\ coverageHashTable' = coverageHashTable \union cov
        /\ fingerprintHashTable' = fingerprintHashTable \union {FingerPrint(cov)}
    BY DEF Judge
  <1>2. /\ pushed' \in Seq(SUBSET CvAddresses)
        /\ Ids' = Ids \union {n} /\ n \notin Ids
        /\ pushed'[n] = cov /\ \A i \in Ids : pushed'[i] = pushed[i]
    BY <1>1, Pushed DEF IInv, CvTypeOK
  <1> HIDE DEF n
  <1>3. CvTypeOK'
    <2>1. [id |-> n, uses |-> 0] \in [id : Ids', uses : 0 .. MAX_PROG_REUSE]
      BY <1>2, CoverageAssumption
    <2>2. pq' \subseteq [id : Ids', uses : 0 .. MAX_PROG_REUSE]
      BY <1>1, <1>2, <2>1 DEF IInv, CvTypeOK
    <2>3. \A f, other \in pq' : f.id = other.id => f = other
      <3>1. \A f \in pq : f.id # n
        BY <1>2 DEF IInv, CvTypeOK
      <3> QED
        BY <1>1, <3>1 DEF IInv, CvTypeOK
    <2>4. /\ coverageHashTable' \subseteq CvAddresses
          /\ fingerprintHashTable' \subseteq SUBSET Bits
      BY <1>1, FingerPrintType DEF IInv, CvTypeOK
    <2> QED
      BY <1>1, <1>2, <2>2, <2>3, <2>4 DEF IInv, CvTypeOK, Phases
  <1>4. TablesExplained'
    <2>1. ASSUME NEW i \in Ids'
          PROVE  \/ i \in Ids /\ pushed'[i] = pushed[i]
                 \/ i = n /\ pushed'[i] = cov
      BY <1>2
    <2>2. ASSUME NEW i \in Ids
          PROVE  i \in Ids' /\ pushed'[i] = pushed[i]
      BY <1>2
    <2>3. n \in Ids' /\ pushed'[n] = cov
      BY <1>2
    <2>4. coverageHashTable' = UNION {pushed'[i] : i \in Ids'}
      <3>1. ASSUME NEW a \in coverageHashTable'
            PROVE  \E i \in Ids' : a \in pushed'[i]
        <4>1. CASE a \in cov
          BY <4>1, <2>3
        <4>2. CASE a \in coverageHashTable
          <5>1. PICK i \in Ids : a \in pushed[i]
            BY <4>2 DEF IInv, TablesExplained
          <5> QED
            BY <5>1, <2>2
        <4> QED
          BY <1>1, <4>1, <4>2
      <3>2. ASSUME NEW i \in Ids', NEW a \in pushed'[i]
            PROVE  a \in coverageHashTable'
        BY <1>1, <2>1 DEF IInv, TablesExplained
      <3> QED
        BY <3>1, <3>2
    <2>5. fingerprintHashTable' = {FingerPrint(pushed'[i]) : i \in Ids'}
      <3>1. ASSUME NEW f \in fingerprintHashTable'
            PROVE  \E i \in Ids' : f = FingerPrint(pushed'[i])
        <4>1. CASE f = FingerPrint(cov)
          BY <4>1, <2>3
        <4>2. CASE f \in fingerprintHashTable
          <5>1. PICK i \in Ids : f = FingerPrint(pushed[i])
            BY <4>2 DEF IInv, TablesExplained
          <5> QED
            BY <5>1, <2>2
        <4> QED
          BY <1>1, <4>1, <4>2
      <3>2. ASSUME NEW i \in Ids'
            PROVE  FingerPrint(pushed'[i]) \in fingerprintHashTable'
        <4>1. CASE i \in Ids /\ pushed'[i] = pushed[i]
          BY <4>1, <1>1 DEF IInv, TablesExplained
        <4>2. CASE pushed'[i] = cov
          BY <4>2, <1>1
        <4> QED
          BY <2>1, <4>1, <4>2
      <3> QED
        BY <3>1, <3>2
    <2> QED
      BY <2>4, <2>5 DEF TablesExplained
  <1>5. NoTwins'
    <2>1. \A i \in Ids : pushed[i] # cov
      BY KnownIsNotNew DEF IInv
    <2> QED
      BY <1>2, <2>1 DEF IInv, NoTwins
  <1> QED
    BY <1>3, <1>4, <1>5 DEF IInv

(* Judging a program that shows nothing new leaves the tables as they are. *)
LEMMA JudgeKnown ==
  ASSUME IInv, NEW cov \in SUBSET CvAddresses, Judge(cov), ~ IsNew(cov)
  PROVE  IInv'
  <1>1. /\ coverageHashTable' = coverageHashTable
        /\ fingerprintHashTable' = fingerprintHashTable
    BY DEF Judge, IsNew
  <1>2. /\ pushed' = pushed /\ pq' = pq /\ cvFinished' = cvFinished /\ phase' = "generate"
        /\ Ids' = Ids
    BY DEF Judge, Ids
  <1> QED
    BY <1>1, <1>2 DEF IInv, CvTypeOK, TablesExplained, NoTwins, Phases

LEMMA StepIInv == IInv /\ [CvNext]_cvVars => IInv'
  <1> SUFFICES ASSUME IInv, [CvNext]_cvVars PROVE IInv'
    OBVIOUS
  <1>1. CASE FromDefault
    BY <1>1 DEF FromDefault, IInv, CvTypeOK, TablesExplained, NoTwins, Ids, Phases
  <1>2. CASE FromQueue
    <2>1. CvTypeOK'
      BY <1>2, FromQueueTyped
    <2>2. TablesExplained' /\ NoTwins'
      BY <1>2 DEF FromQueue, IInv, TablesExplained, NoTwins, Ids
    <2> QED
      BY <2>1, <2>2 DEF IInv
  <1>3. CASE Ignore
    BY <1>3 DEF Ignore, IInv, CvTypeOK, TablesExplained, NoTwins, Ids, Phases
  <1>4. ASSUME NEW cov \in SUBSET CvAddresses, Judge(cov)
        PROVE  IInv'
    BY <1>4, JudgeNew, JudgeKnown
  <1>5. CASE CvExecuteDone
    BY <1>5 DEF CvExecuteDone, IInv, CvTypeOK, TablesExplained, NoTwins, Ids, Phases
  <1>6. CASE UNCHANGED cvVars
    BY <1>6 DEF cvVars, IInv, CvTypeOK, TablesExplained, NoTwins, Ids
  <1> QED
    BY <1>1, <1>2, <1>3, <1>4, <1>5, <1>6 DEF CvNext, CvVerifyDone

LEMMA Inductive == CvSpec => []IInv
  BY InitIInv, StepIInv, PTL DEF CvSpec

(* Queue entries are of pushed programs, at most one each, within the      *)
(* limit of reuse (coverage_based.go:209-214, 283-288).                    *)
THEOREM TypeCorrect == CvSpec => []CvTypeOK
  <1>1. IInv => CvTypeOK
    BY DEF IInv
  <1> QED
    BY <1>1, Inductive, PTL

(* Whatever coverages the kernel reports and whatever addresses cancel in  *)
(* the XOR, the tables hold exactly what pushed programs show              *)
(* (coverage_based.go:256-291).                                            *)
THEOREM TablesExplainedHolds == CvSpec => []TablesExplained
  <1>1. IInv => TablesExplained
    BY DEF IInv
  <1> QED
    BY <1>1, Inductive, PTL

(* The queue never gets two programs of the same coverage.                 *)
THEOREM NoTwinsHolds == CvSpec => []NoTwins
  <1>1. IInv => NoTwins
    BY DEF IInv
  <1> QED
    BY <1>1, Inductive, PTL
=============================================================================
