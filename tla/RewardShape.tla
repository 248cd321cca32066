----------------------------- MODULE RewardShape -----------------------------
(***************************************************************************)
(* The shape of the ladder: what the formulas of RewardLadder do to every  *)
(* group of programs and every frontier.  A behaviour assembles a group    *)
(* program by program and a frontier hit by hit, and the properties        *)
(* compare the rewards with the sums of the code and with one another.     *)
(***************************************************************************)
EXTENDS RewardLadder, FiniteSetsExt

CONSTANTS MaxGroup, MaxHits, MaxRecord

VARIABLES group, freq, record

vars == <<group, freq, record>>

Init == group = <<>> /\ freq = [p \in {} |-> 0] /\ record = 1

Sample(p) == Len(group) < MaxGroup /\ group' = Append(group, p) /\ UNCHANGED <<freq, record>>
Hit(p) == Get(freq, p) < MaxHits * FreqUnit /\ freq' = Put(freq, p, Get(freq, p) + FreqUnit) /\ UNCHANGED <<group, record>>
Deepen == record < MaxRecord /\ record' = record + 1 /\ UNCHANGED <<group, freq>>

Next == (\E p \in Programs : Sample(p)) \/ (\E p \in PCs : Hit(p)) \/ Deepen

Spec == Init /\ [][Next]_vars

-----------------------------------------------------------------------------

Pay(i) == Reward(freq, record, group, i)

\* The within-batch frequency of compute_rewards, as its loop counts it.
SiblingFreq(p) == Quantify(Accepted(group), LAMBDA j : p \in Covers(group, j))

\* The group term is the mean over the program's counters of 1 - freq/n_acc
\* (ml/reward.py:535-542), to the unit.
GroupNoveltyIsMean ==
  \A i \in Accepted(group) : Covers(group, i) # {} =>
    LET n == Cardinality(Accepted(group))
    IN GroupNovelty(group, i) =
         (Unit * MapThenSumSet(LAMBDA p : n - SiblingFreq(p), Covers(group, i)))
           \div (n * Depth(group, i))

\* Treading a path again never makes it pay more (ml/reward.py:27-31): one more
\* hit of any counter lowers no invalid program and raises no valid one.
StaleNeverGains ==
  \A p \in PCs :
    LET later == Put(freq, p, Get(freq, p) + FreqUnit)
    IN \A i \in DOMAIN group :
         /\ Reward(later, record, group, i) <= Pay(i)
         /\ i \notin Accepted(group) => Reward(later, record, group, i) = Pay(i)

\* The rungs do not overlap (ml/reward.py:7-19): 0 for what never ran, a soft
\* floor that grows with the depth walked, and the gate above all of them.
RungsAreOrdered ==
  \A i, j \in DOMAIN group :
    /\ i \in Accepted(group) /\ j \notin Accepted(group) => Pay(i) > Pay(j)
    /\ i \in Rejected(group) /\ j \in Rejected(group) /\ Depth(group, i) <= Depth(group, j)
         => Pay(i) <= Pay(j)
    /\ Pay(i) <= W_VALID + W_NOVELTY + W_GLOBAL
=============================================================================
