---------------------------- MODULE AtomicRewards ----------------------------
(***************************************************************************)
(* What compute_rewards promises (docstring and tests of ml/reward.py): a  *)
(* call scores a batch in one step, against the frontier as it was before  *)
(* the batch and the depth record as it is after it, and then counts the   *)
(* accepted programs of the batch in the frontier.                         *)
(***************************************************************************)
EXTENDS RewardLadder, FiniteSetsExt

CONSTANTS Batches, DecayNum, DecayDen

VARIABLES
  pcSet, maxPcs, freq, callCount,   \* the globals
  answer                            \* rewards and telemetry of the last call

Init ==
  /\ pcSet = {} /\ maxPcs = 1 /\ freq = [p \in {} |-> 0] /\ callCount = 0
  /\ answer = <<>>

\* The frontier after batch b: nothing changes unless a program was accepted.
Aged(b) ==
  IF Accepted(b) = {} THEN freq
  ELSE LET reached == UNION {Covers(b, i) : i \in Accepted(b)}
           old == [p \in DOMAIN freq |-> (freq[p] * DecayNum) \div DecayDen]
       IN [p \in DOMAIN freq \cup reached |->
             Get(old, p) + FreqUnit * Cardinality({i \in Accepted(b) : p \in Covers(b, i)})]

ScoreBatch(b) ==
  LET depth == Max({maxPcs} \cup {Depth(b, i) : i \in ToValidate(b)}) IN
  /\ pcSet' = pcSet \cup UNION {Covers(b, i) : i \in ToValidate(b)}
  /\ maxPcs' = depth
  /\ freq' = Aged(b)
  /\ callCount' = callCount + 1
  /\ answer' = [rewards |-> [i \in DOMAIN b |-> Reward(freq, depth, b, i)],
                depths |-> DepthsOf(b, TRUE), counts |-> Counts(b, TRUE),
                cumulative |-> Cardinality(pcSet'), max |-> depth,
                frontier |-> Cardinality(DOMAIN freq')]

\* The VM call failed: nothing is learned and nothing is paid.
LoseBatch(b) ==
  /\ ToValidate(b) # {}
  /\ callCount' = callCount + 1
  /\ answer' = [rewards |-> [i \in DOMAIN b |-> 0],
                depths |-> DepthsOf(b, FALSE), counts |-> Counts(b, FALSE),
                cumulative |-> Cardinality(pcSet), max |-> maxPcs,
                frontier |-> Cardinality(DOMAIN freq)]
  /\ UNCHANGED <<pcSet, maxPcs, freq>>

Next == \E b \in Batches : ScoreBatch(b) \/ LoseBatch(b)

Spec == Init /\ [][Next]_<<pcSet, maxPcs, freq, callCount, answer>>
=============================================================================
