---------------------------- MODULE RewardLadder ----------------------------
(***************************************************************************)
(* The reward ladder of ml/reward.py: what compute_rewards pays for one    *)
(* completion, as a function of the verdicts and the program counters the  *)
(* VM reported for its batch and of the frontier _global_pc_freq.          *)
(*                                                                         *)
(* A completion is a member of Programs; Outcome gives what encoding and   *)
(* the VM make of it.  Rewards are integers in units of 1/Unit, a division *)
(* of the code rounds down to a unit.  A sum over program counters is the  *)
(* cardinality of a set of pairs.                                          *)
(***************************************************************************)
EXTENDS Integers, FiniteSets, Sequences

CONSTANTS
  Programs,     \* completions the policy can produce
  PCs,          \* kernel program counters KCOV can report
  Outcome,      \* [Programs -> [verdict: Verdicts, pcs: SUBSET PCs]]
  Unit,         \* resolution of a reward: 1.0 is Unit
  FreqUnit,     \* resolution of a frontier count: one hit is FreqUnit
  W_VALID, W_NOVELTY, W_GLOBAL, W_REJECT_MAX   \* the weights, in units

\* "encode_fail" also stands for a program under the instruction floor: both
\* are dropped in the first pass and never reach the VM.
Verdicts == {"encode_fail", "ACCEPTED", "REJECTED", "ERROR"}

ASSUME OutcomeAssumption ==
  /\ IsFiniteSet(PCs)
  /\ Outcome \in [Programs -> [verdict : Verdicts, pcs : SUBSET PCs]]
  \* a program that is not run covers nothing; the validator reports an ERROR
  \* with no program counters
  /\ \A p \in Programs : Outcome[p].verdict \in {"encode_fail", "ERROR"} => Outcome[p].pcs = {}

\* W_REJECT_MAX < W_VALID "by design" (ml/reward.py:40).
ASSUME WeightsAssumption ==
  /\ Unit \in Nat \ {0} /\ FreqUnit \in Nat \ {0}
  /\ W_VALID \in Nat /\ W_NOVELTY \in Nat /\ W_GLOBAL \in Nat /\ W_REJECT_MAX \in Nat
  /\ W_REJECT_MAX < W_VALID

-----------------------------------------------------------------------------
(* The parts of a batch b, a sequence of programs.                         *)

ToValidate(b) == {i \in DOMAIN b : Outcome[b[i]].verdict # "encode_fail"}
Accepted(b)   == {i \in DOMAIN b : Outcome[b[i]].verdict = "ACCEPTED"}
Rejected(b)   == {i \in DOMAIN b : Outcome[b[i]].verdict = "REJECTED"}

Covers(b, i) == Outcome[b[i]].pcs
Depth(b, i)  == Cardinality(Covers(b, i))

\* Value of a dict of counts at key k: freq.get(k, 0).
Get(f, k) == IF k \in DOMAIN f THEN f[k] ELSE 0

\* f[k] = v on a dict.
Put(f, k, v) == [x \in DOMAIN f \cup {k} |-> IF x = k THEN v ELSE f[x]]

-----------------------------------------------------------------------------
(* The rungs of the ladder.                                                *)

\* Each definition that starts with Faulty is a plausible mistake in the one it
\* precedes; no behaviour of the modules uses it.  Here: no cap on the ratio.
FaultyUncapped(depth, maxSeen) == (W_REJECT_MAX * depth) \div maxSeen

\* W_REJECT_MAX * min(1.0, len(pcs) / max_pcs_seen)
RejectedReward(depth, maxSeen) ==
  IF depth >= maxSeen THEN W_REJECT_MAX ELSE (W_REJECT_MAX * depth) \div maxSeen

\* (p, j): a program counter p of program i that the accepted program j of
\* the batch does not cover.  Summing 1 - freq[p]/n over the counters of i
\* counts these pairs, divided by n.
Unshared(b, i) == {x \in Covers(b, i) \X Accepted(b) : x[1] \notin Covers(b, x[2])}

\* A sum where the mean over the counters is meant.
FaultySumNovelty(b, i) == (Unit * Cardinality(Unshared(b, i))) \div Cardinality(Accepted(b))

GroupNovelty(b, i) ==
  IF Covers(b, i) = {} THEN 0
  ELSE (Unit * Cardinality(Unshared(b, i))) \div (Cardinality(Accepted(b)) * Depth(b, i))

\* Pays for the known part instead of the new one.
FaultyFamiliarity(freq, p) == 1 .. ((Unit * Get(freq, p)) \div (FreqUnit + Get(freq, p)))

\* What the counter p is worth against the frontier: 1 / (1 + freq.get(p)).
FreshnessUnits(freq, p) == 1 .. ((Unit * FreqUnit) \div (FreqUnit + Get(freq, p)))

GlobalNovelty(freq, b, i) ==
  IF Covers(b, i) = {} THEN 0
  ELSE Cardinality({x \in Covers(b, i) \X (1 .. Unit) : x[2] \in FreshnessUnits(freq, x[1])})
         \div Depth(b, i)

\* The bonuses without the gate.
FaultyUngated(freq, b, i) ==
  (W_NOVELTY * GroupNovelty(b, i)) \div Unit + (W_GLOBAL * GlobalNovelty(freq, b, i)) \div Unit

AcceptedReward(freq, b, i) ==
  W_VALID + (W_NOVELTY * GroupNovelty(b, i)) \div Unit
          + (W_GLOBAL * GlobalNovelty(freq, b, i)) \div Unit

\* The whole ladder, for the program at i of batch b, when the VM answered.
Reward(freq, maxSeen, b, i) ==
  CASE i \in Accepted(b) -> AcceptedReward(freq, b, i)
    [] i \in Rejected(b) -> RejectedReward(Depth(b, i), maxSeen)
    [] OTHER             -> 0

-----------------------------------------------------------------------------
(* The telemetry published with a batch.                                   *)

\* The verdict tally; vmOk is FALSE when the whole VM call failed.
Counts(b, vmOk) ==
  [accepted    |-> IF vmOk THEN Cardinality(Accepted(b)) ELSE 0,
   rejected    |-> IF vmOk THEN Cardinality(Rejected(b)) ELSE 0,
   encode_fail |-> Cardinality(DOMAIN b \ ToValidate(b)),
   error       |-> IF vmOk THEN Cardinality(ToValidate(b) \ (Accepted(b) \cup Rejected(b))) ELSE 0,
   crash       |-> IF vmOk THEN 0 ELSE Cardinality(ToValidate(b))]

\* pcs_per_program: 0 for a program that was neither accepted nor rejected.
DepthsOf(b, vmOk) ==
  [i \in DOMAIN b |-> IF vmOk /\ i \in Accepted(b) \cup Rejected(b) THEN Depth(b, i) ELSE 0]

=============================================================================
