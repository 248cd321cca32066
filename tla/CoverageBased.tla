---------------------------- MODULE CoverageBased -----------------------------
(***************************************************************************)
(* The coverage strategy of Buzzer (pkg/strategies/coverage_based.go and   *)
(* heap.go): a priority queue of programs that showed something new, each  *)
(* the head of a bounded number of mutations, and two tables that decide   *)
(* what is new: the covered addresses and the XOR of a program's addresses.*)
(*                                                                         *)
(* An address is the set of its one bits, so that the XOR of addresses is  *)
(* the set of the bits that an odd number of them has.                     *)
(***************************************************************************)
EXTENDS Naturals, Sequences, FiniteSets

CONSTANTS
  Bits,           \* bit positions
  CvAddresses,    \* sets of bits
  MAX_PROG_REUSE

ASSUME CoverageAssumption ==
  /\ CvAddresses \subseteq SUBSET Bits
  /\ MAX_PROG_REUSE \in Nat

VARIABLES
  phase,                 \* what the loop calls next
  pq,                    \* the entries of the priority queue: [id, uses]
  pushed,                \* the coverage of every program that ever entered it
  coverageHashTable,
  fingerprintHashTable,
  cvFinished

cvVars == <<phase, pq, pushed, coverageHashTable, fingerprintHashTable, cvFinished>>

Phases == {"generate", "verify", "execute"}

Ids == DOMAIN pushed

FingerPrint(cov) == {b \in Bits : Cardinality({a \in cov : b \in a}) % 2 = 1}

CoverageSize(id) == Cardinality(pushed[id])

CvInit ==
  /\ phase = "generate" /\ pq = {} /\ pushed = <<>>
  /\ coverageHashTable = {} /\ fingerprintHashTable = {}
  /\ cvFinished = FALSE

-----------------------------------------------------------------------------
(* GenerateProgram mutates the default program when the queue is empty.    *)
FromDefault ==
  /\ phase = "generate" /\ ~cvFinished /\ pq = {}
  /\ phase' = "verify"
  /\ UNCHANGED <<pq, pushed, coverageHashTable, fingerprintHashTable, cvFinished>>

(* Otherwise the entry of the largest coverage; which of several, the heap *)
(* does not say.  It goes back until it has been used often enough.        *)
Largest(e) == \A other \in pq : CoverageSize(other.id) <= CoverageSize(e.id)

FaultyAlwaysBack ==
  /\ phase = "generate" /\ ~cvFinished
  /\ \E e \in pq :
       /\ Largest(e)
       /\ pq' = IF e.uses < MAX_PROG_REUSE
                THEN (pq \ {e}) \union {[e EXCEPT !.uses = @ + 1]}
                ELSE pq
  /\ phase' = "verify"
  /\ UNCHANGED <<pushed, coverageHashTable, fingerprintHashTable, cvFinished>>

FromQueue ==
  /\ phase = "generate" /\ ~cvFinished
  /\ \E e \in pq :
       /\ Largest(e)
       /\ pq' = (pq \ {e}) \union
                (IF e.uses < MAX_PROG_REUSE THEN {[e EXCEPT !.uses = @ + 1]} ELSE {})
  /\ phase' = "verify"
  /\ UNCHANGED <<pushed, coverageHashTable, fingerprintHashTable, cvFinished>>

-----------------------------------------------------------------------------
(* OnVerifyDone.  An invalid program, or one without coverage data, leaves *)
(* no trace.                                                               *)
Ignore ==
  /\ phase = "verify"
  /\ phase' = "generate"
  /\ UNCHANGED <<pq, pushed, coverageHashTable, fingerprintHashTable, cvFinished>>

FaultyBothNew(cov) ==
  /\ ~ (cov \subseteq coverageHashTable)
  /\ FingerPrint(cov) \notin fingerprintHashTable

IsNew(cov) ==
  \/ ~ (cov \subseteq coverageHashTable)
  \/ FingerPrint(cov) \notin fingerprintHashTable

FaultyForgetPrint(cov) ==
  /\ phase = "verify"
  /\ coverageHashTable' = coverageHashTable \union cov
  /\ fingerprintHashTable' = IF cov \subseteq coverageHashTable
                             THEN fingerprintHashTable \union {FingerPrint(cov)}
                             ELSE fingerprintHashTable
  /\ IF IsNew(cov)
     THEN /\ pushed' = Append(pushed, cov)
          /\ pq' = pq \union {[id |-> Len(pushed) + 1, uses |-> 0]}
          /\ phase' = "execute"
     ELSE /\ UNCHANGED <<pushed, pq>>
          /\ phase' = "generate"
  /\ UNCHANGED cvFinished

Judge(cov) ==
  /\ phase = "verify"
  /\ coverageHashTable' = coverageHashTable \union cov
  /\ fingerprintHashTable' = fingerprintHashTable \union {FingerPrint(cov)}
  /\ IF IsNew(cov)
     THEN /\ pushed' = Append(pushed, cov)
          /\ pq' = pq \union {[id |-> Len(pushed) + 1, uses |-> 0]}
          /\ phase' = "execute"
     ELSE /\ UNCHANGED <<pushed, pq>>
          /\ phase' = "generate"
  /\ UNCHANGED cvFinished

CvVerifyDone == Ignore \/ \E cov \in SUBSET CvAddresses : Judge(cov)

(* OnExecuteDone: an unexpected value in the map ends the fuzzing; a map   *)
(* that cannot be read does not.                                           *)
CvExecuteDone ==
  /\ phase = "execute"
  /\ cvFinished' \in BOOLEAN
  /\ phase' = "generate"
  /\ UNCHANGED <<pq, pushed, coverageHashTable, fingerprintHashTable>>

-----------------------------------------------------------------------------
CvNext == FromDefault \/ FromQueue \/ CvVerifyDone \/ CvExecuteDone

CvSpec == CvInit /\ [][CvNext]_cvVars

(* The loop of RunFuzzer goes on until the strategy is finished. *)
CvFairSpec == CvSpec /\ WF_cvVars(CvNext)

-----------------------------------------------------------------------------
(* The entries are of programs that were pushed, each there once and never *)
(* counted beyond the limit of reuse.                                      *)
CvTypeOK ==
  /\ phase \in Phases /\ cvFinished \in BOOLEAN
  /\ pushed \in Seq(SUBSET CvAddresses)
  /\ coverageHashTable \subseteq CvAddresses
  /\ fingerprintHashTable \subseteq SUBSET Bits
  /\ pq \subseteq [id : Ids, uses : 0 .. MAX_PROG_REUSE]
  /\ \A e, other \in pq : e.id = other.id => e = other

(* Every address and every fingerprint in the tables is of a program that  *)
(* entered the queue: nothing is marked as seen that no program in the     *)
(* corpus shows, although two coverages may share a fingerprint            *)
(* (coverage_based.go:256-295).                                            *)
TablesExplained ==
  /\ coverageHashTable = UNION {pushed[i] : i \in Ids}
  /\ fingerprintHashTable = {FingerPrint(pushed[i]) : i \in Ids}

(* No two programs of the same coverage enter the queue, however often one *)
(* is generated again.                                                     *)
NoTwins == \A i, j \in Ids : pushed[i] = pushed[j] => i = j

(* A coverage shown once is never new again, so the queue runs dry: unless *)
(* it stops before, the strategy ends up mutating only its default program.*)
RunsDry == <>[](cvFinished \/ pq = {})
=============================================================================
