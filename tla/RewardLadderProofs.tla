------------------------- MODULE RewardLadderProofs -------------------------
(***************************************************************************)
(* Lemmas about the reward ladder, for every batch, frontier and weight:   *)
(* the range of each term, and what one more hit does to it.               *)
(***************************************************************************)
EXTENDS RewardLadder, FiniteSetTheorems, TLAPS

\* A frontier counts hits of counters, and never a negative number.
Counting(f) == \A p \in PCs : Get(f, p) \in Nat

-----------------------------------------------------------------------------
(* Division.                                                               *)

LEMMA DivNat == \A n \in Nat, d \in Nat \ {0} : n \div d \in Nat
OBVIOUS

LEMMA DivBound == \A w \in Nat, m \in Nat \ {0}, d \in Nat : d <= m => (w * d) \div m \in 0 .. w
OBVIOUS

LEMMA DivOfMultiple == \A n, w \in Nat, d \in Nat \ {0} : n <= d * w => n \div d \in 0 .. w
OBVIOUS

LEMMA DivMonotone == \A n, k \in Nat, d \in Nat \ {0} : n <= k => n \div d <= k \div d
OBVIOUS

LEMMA DivAntitone == \A n \in Nat, d, e \in Nat \ {0} : d <= e => n \div e <= n \div d
OBVIOUS

-----------------------------------------------------------------------------
(* The parts of a batch.                                                   *)

LEMMA CoversFinite ==
  ASSUME NEW b \in Seq(Programs), NEW i \in DOMAIN b
  PROVE  /\ Covers(b, i) \in SUBSET PCs /\ IsFiniteSet(Covers(b, i))
         /\ Depth(b, i) \in Nat
         /\ Covers(b, i) # {} => Depth(b, i) # 0
<1>1. Covers(b, i) \in SUBSET PCs
  BY OutcomeAssumption DEF Covers
<1>2. IsFiniteSet(Covers(b, i))
  BY <1>1, FS_Subset, OutcomeAssumption
<1> QED BY <1>1, <1>2, FS_CardinalityType, FS_EmptySet DEF Depth

LEMMA AcceptedFinite ==
  ASSUME NEW b \in Seq(Programs)
  PROVE  /\ Accepted(b) \in SUBSET DOMAIN b /\ IsFiniteSet(Accepted(b))
         /\ Cardinality(Accepted(b)) \in Nat
         /\ Accepted(b) # {} => Cardinality(Accepted(b)) # 0
<1>1. IsFiniteSet(DOMAIN b)
  BY FS_Interval
<1>2. Accepted(b) \in SUBSET DOMAIN b
  BY DEF Accepted
<1>3. IsFiniteSet(Accepted(b))
  BY <1>1, <1>2, FS_Subset
<1> QED BY <1>2, <1>3, FS_CardinalityType, FS_EmptySet

LEMMA RungsAreDisjoint ==
  ASSUME NEW b \in Seq(Programs)
  PROVE  /\ Accepted(b) \subseteq ToValidate(b) /\ Rejected(b) \subseteq ToValidate(b)
         /\ Accepted(b) \cap Rejected(b) = {} /\ ToValidate(b) \subseteq DOMAIN b
BY DEF Accepted, Rejected, ToValidate

-----------------------------------------------------------------------------
(* The terms.                                                              *)

\* The soft floor never exceeds its ceiling.
LEMMA RejectedBound ==
  ASSUME NEW depth \in Nat, NEW m \in Nat \ {0}
  PROVE  RejectedReward(depth, m) \in 0 .. W_REJECT_MAX
BY DivBound, WeightsAssumption DEF RejectedReward

\* The soft floor grows with the depth.
LEMMA RejectedMonotone ==
  ASSUME NEW depth \in Nat, NEW deeper \in Nat, depth <= deeper, NEW m \in Nat \ {0}
  PROVE  RejectedReward(depth, m) <= RejectedReward(deeper, m)
<1>1. W_REJECT_MAX * depth <= W_REJECT_MAX * deeper
      /\ W_REJECT_MAX * depth \in Nat /\ W_REJECT_MAX * deeper \in Nat
  BY WeightsAssumption
<1>2. (W_REJECT_MAX * depth) \div m <= (W_REJECT_MAX * deeper) \div m
  BY <1>1, DivMonotone
<1> QED BY <1>2, RejectedBound, WeightsAssumption DEF RejectedReward

LEMMA GroupNoveltyBound ==
  ASSUME NEW b \in Seq(Programs), NEW i \in Accepted(b)
  PROVE  GroupNovelty(b, i) \in 0 .. Unit
<1> DEFINE n == Cardinality(Accepted(b))
           d == Depth(b, i)
           u == Cardinality(Unshared(b, i))
<1>1. i \in DOMAIN b /\ IsFiniteSet(Accepted(b)) /\ n \in Nat \ {0}
  BY AcceptedFinite
<1>2. IsFiniteSet(Covers(b, i)) /\ d \in Nat /\ (Covers(b, i) # {} => d # 0)
  BY <1>1, CoversFinite
<1>3. IsFiniteSet(Covers(b, i) \X Accepted(b)) /\ Cardinality(Covers(b, i) \X Accepted(b)) = d * n
  BY <1>1, <1>2, FS_Product DEF Depth
<1>4. Unshared(b, i) \in SUBSET (Covers(b, i) \X Accepted(b))
  BY DEF Unshared
<1>5. u \in Nat /\ u <= d * n
  <2>1. IsFiniteSet(Unshared(b, i)) /\ u <= d * n
    BY <1>3, <1>4, FS_Subset
  <2> QED BY <2>1, FS_CardinalityType
<1>6. CASE Covers(b, i) = {}
  BY <1>6, WeightsAssumption DEF GroupNovelty
<1>7. CASE Covers(b, i) # {}
  <2> HIDE DEF n, d, u
  <2>1. n * d \in Nat \ {0} /\ u <= n * d
    BY <1>1, <1>2, <1>5, <1>7
  <2>2. (Unit * u) \div (n * d) \in 0 .. Unit
    BY <2>1, <1>5, DivBound, WeightsAssumption
  <2> QED BY <2>2, <1>7 DEF GroupNovelty, n, d, u
<1> QED BY <1>6, <1>7

\* The pairs that GlobalNovelty counts.
Fresh(f, b, i) == {x \in Covers(b, i) \X (1 .. Unit) : x[2] \in FreshnessUnits(f, x[1])}

LEMMA FreshFinite ==
  ASSUME NEW b \in Seq(Programs), NEW i \in DOMAIN b, NEW f
  PROVE  /\ IsFiniteSet(Fresh(f, b, i)) /\ Cardinality(Fresh(f, b, i)) \in Nat
         /\ Cardinality(Fresh(f, b, i)) <= Depth(b, i) * Unit
<1>1. IsFiniteSet(Covers(b, i))
  BY CoversFinite
<1>2. IsFiniteSet(1 .. Unit) /\ Cardinality(1 .. Unit) = Unit
  BY FS_Interval, WeightsAssumption
<1>3. /\ IsFiniteSet(Covers(b, i) \X (1 .. Unit))
      /\ Cardinality(Covers(b, i) \X (1 .. Unit)) = Depth(b, i) * Unit
  BY <1>1, <1>2, FS_Product DEF Depth
<1>4. Fresh(f, b, i) \in SUBSET (Covers(b, i) \X (1 .. Unit))
  BY DEF Fresh
<1>5. IsFiniteSet(Fresh(f, b, i)) /\ Cardinality(Fresh(f, b, i)) <= Depth(b, i) * Unit
  BY <1>3, <1>4, FS_Subset
<1> QED BY <1>5, FS_CardinalityType

LEMMA GlobalNoveltyBound ==
  ASSUME NEW b \in Seq(Programs), NEW i \in DOMAIN b, NEW f
  PROVE  GlobalNovelty(f, b, i) \in 0 .. Unit
<1> DEFINE d == Depth(b, i)
           u == Cardinality(Fresh(f, b, i))
<1>1. d \in Nat /\ (Covers(b, i) # {} => d # 0) /\ u \in Nat /\ u <= d * Unit
  BY CoversFinite, FreshFinite
<1>2. CASE Covers(b, i) = {}
  BY <1>2, WeightsAssumption DEF GlobalNovelty
<1>3. CASE Covers(b, i) # {}
  <2>1. GlobalNovelty(f, b, i) = u \div d
    BY <1>3 DEF GlobalNovelty, Fresh
  <2> HIDE DEF d, u
  <2>2. d \in Nat \ {0}
    BY <1>1, <1>3
  <2>3. u \div d \in 0 .. Unit
    BY <1>1, <2>2, DivOfMultiple, WeightsAssumption
  <2> QED BY <2>1, <2>3
<1> QED BY <1>2, <1>3

\* A valid program is paid the gate at least, and both bonuses at most.
LEMMA AcceptedBound ==
  ASSUME NEW b \in Seq(Programs), NEW i \in Accepted(b), NEW f
  PROVE  AcceptedReward(f, b, i) \in W_VALID .. W_VALID + W_NOVELTY + W_GLOBAL
<1>1. i \in DOMAIN b
  BY AcceptedFinite
<1> DEFINE x == GroupNovelty(b, i)
           y == GlobalNovelty(f, b, i)
<1>2. x \in Nat /\ x <= Unit /\ y \in Nat /\ y <= Unit
  BY <1>1, GroupNoveltyBound, GlobalNoveltyBound, WeightsAssumption
<1>3. AcceptedReward(f, b, i) = W_VALID + (W_NOVELTY * x) \div Unit + (W_GLOBAL * y) \div Unit
  BY DEF AcceptedReward
<1> HIDE DEF x, y
<1>4. (W_NOVELTY * x) \div Unit \in 0 .. W_NOVELTY
  BY <1>2, DivBound, WeightsAssumption
<1>5. (W_GLOBAL * y) \div Unit \in 0 .. W_GLOBAL
  BY <1>2, DivBound, WeightsAssumption
<1> QED BY <1>3, <1>4, <1>5, WeightsAssumption

-----------------------------------------------------------------------------
(* One more hit.                                                           *)

LEMMA HitNeverFreshens ==
  ASSUME NEW f, Counting(f), NEW p \in PCs, NEW q \in PCs
  PROVE  FreshnessUnits(Put(f, p, Get(f, p) + FreqUnit), q) \subseteq FreshnessUnits(f, q)
<1> DEFINE g == Put(f, p, Get(f, p) + FreqUnit)
<1>1. Get(g, q) = IF q = p THEN Get(f, q) + FreqUnit ELSE Get(f, q)
  BY DEF Get, Put
<1>2. Get(f, q) \in Nat
  BY DEF Counting
<1> HIDE DEF g
<1> DEFINE n == Unit * FreqUnit
           d == FreqUnit + Get(f, q)
           e == FreqUnit + Get(g, q)
<1>3. n \in Nat /\ d \in Nat \ {0} /\ e \in Nat \ {0} /\ d <= e
  BY <1>1, <1>2, WeightsAssumption
<1>4. FreshnessUnits(g, q) = 1 .. (n \div e) /\ FreshnessUnits(f, q) = 1 .. (n \div d)
  BY DEF FreshnessUnits
<1> HIDE DEF n, d, e
<1>5. n \div e <= n \div d /\ n \div e \in Nat /\ n \div d \in Nat
  <2>1. n \div e <= n \div d
    BY <1>3, DivAntitone
  <2>2. n \div e \in Nat /\ n \div d \in Nat
    BY <1>3, DivNat
  <2> QED BY <2>1, <2>2
<1>6. FreshnessUnits(g, q) \subseteq FreshnessUnits(f, q)
  BY <1>4, <1>5
<1> QED BY <1>6 DEF g

\* A hit of any counter never makes a valid program pay more.
LEMMA HitNeverPays ==
  ASSUME NEW f, Counting(f), NEW p \in PCs, NEW b \in Seq(Programs), NEW i \in Accepted(b)
  PROVE  AcceptedReward(Put(f, p, Get(f, p) + FreqUnit), b, i) <= AcceptedReward(f, b, i)
<1> DEFINE g == Put(f, p, Get(f, p) + FreqUnit)
<1>1. i \in DOMAIN b /\ Covers(b, i) \in SUBSET PCs
  BY AcceptedFinite, CoversFinite
<1>2. Fresh(g, b, i) \in SUBSET Fresh(f, b, i)
  BY <1>1, HitNeverFreshens DEF Fresh
<1> HIDE DEF g
<1>3. Cardinality(Fresh(g, b, i)) <= Cardinality(Fresh(f, b, i))
  BY <1>1, <1>2, FreshFinite, FS_Subset
<1>4. GlobalNovelty(g, b, i) <= GlobalNovelty(f, b, i)
  <2>1. CASE Covers(b, i) = {}
    BY <2>1 DEF GlobalNovelty
  <2>2. CASE Covers(b, i) # {}
    <3>1. Depth(b, i) \in Nat \ {0}
      BY <1>1, <2>2, CoversFinite
    <3>2. Cardinality(Fresh(g, b, i)) \div Depth(b, i) <= Cardinality(Fresh(f, b, i)) \div Depth(b, i)
      BY <1>1, <1>3, <3>1, FreshFinite, DivMonotone
    <3> QED BY <2>2, <3>2 DEF GlobalNovelty, Fresh
  <2> QED BY <2>1, <2>2
<1>5. GlobalNovelty(g, b, i) \in Nat /\ GlobalNovelty(f, b, i) \in Nat
  BY <1>1, GlobalNoveltyBound, WeightsAssumption
<1>6. (W_GLOBAL * GlobalNovelty(g, b, i)) \div Unit <= (W_GLOBAL * GlobalNovelty(f, b, i)) \div Unit
  <2>1. /\ W_GLOBAL * GlobalNovelty(g, b, i) <= W_GLOBAL * GlobalNovelty(f, b, i)
        /\ W_GLOBAL * GlobalNovelty(g, b, i) \in Nat /\ W_GLOBAL * GlobalNovelty(f, b, i) \in Nat
    BY <1>4, <1>5, WeightsAssumption
  <2> QED BY <2>1, DivMonotone, WeightsAssumption
<1>7. /\ (W_GLOBAL * GlobalNovelty(g, b, i)) \div Unit \in Nat
      /\ (W_GLOBAL * GlobalNovelty(f, b, i)) \div Unit \in Nat
      /\ (W_NOVELTY * GroupNovelty(b, i)) \div Unit \in Nat
  BY <1>5, GroupNoveltyBound, DivNat, WeightsAssumption
<1>8. AcceptedReward(g, b, i) <= AcceptedReward(f, b, i)
  BY <1>6, <1>7, WeightsAssumption DEF AcceptedReward
<1> QED BY <1>8 DEF g
=============================================================================
