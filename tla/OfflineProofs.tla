----------------------------- MODULE OfflineProofs -----------------------------
(***************************************************************************)
(* Promises of the scripts around the reward loop, for any number of       *)
(* steps, starts, commands, programs and samples: the shape of the ladder  *)
(* (RewardShape), the charts of a training run (GrpoRun), the rows of the  *)
(* enriched dataset (EnrichDataset), the quantized model (ModelFiles), the *)
(* files of the benchmark (Benchmark), those of the tools that judge       *)
(* programs (OfflineTools), the encoder (Encoder), the figures of sampled  *)
(* programs (DiversitySample) and the log of several runs (RunLog).  Each  *)
(* part projects OfflineSpec on the variables of one module, states an     *)
(* inductive invariant and proves it action by action.                     *)
(***************************************************************************)
EXTENDS Offline, RewardLadderProofs, DataInduction

(***************************************************************************)
(* The shape of the reward ladder, for every group, frontier, record and   *)
(* weight.  The sum over the counters of a program and the cardinality of  *)
(* the pairs the ladder counts are the same by SumIsPairs.                 *)
(***************************************************************************)
LEMMA LadderPart == OfflineInit => Init
  BY DEF OfflineInit
LEMMA LadderPartStep == [OfflineNext]_offlineVars => [Next]_vars
  BY DEF OfflineNext, offlineVars, Ladder, Assembler, LogLine, Tools, Data, Sampling, Bench, Grpo, Models

LadderTyped == group \in Seq(Programs) /\ Counting(freq) /\ record \in Nat \ {0}

LEMMA LadderTypedHolds == OfflineSpec => []LadderTyped
<1>1. Init => LadderTyped
  BY DEF Init, LadderTyped, Counting, Get
<1>2. LadderTyped /\ [Next]_vars => LadderTyped'
  <2> SUFFICES ASSUME LadderTyped, [Next]_vars PROVE LadderTyped'
    OBVIOUS
  <2>1. ASSUME NEW p \in Programs, Sample(p) PROVE LadderTyped'
    BY <2>1 DEF Sample, LadderTyped, Counting
  <2>2. ASSUME NEW p \in PCs, Hit(p) PROVE LadderTyped'
    BY <2>2, WeightsAssumption DEF Hit, LadderTyped, Counting, Get, Put
  <2>3. CASE Deepen
    BY <2>3 DEF Deepen, LadderTyped, Counting
  <2>4. CASE UNCHANGED vars
    BY <2>4 DEF vars, LadderTyped, Counting
  <2> QED BY <2>1, <2>2, <2>3, <2>4 DEF Next
<1> QED BY <1>1, <1>2, LadderPart, LadderPartStep, PTL DEF OfflineSpec

\* What each rung pays.
LEMMA PayOfRung ==
  ASSUME LadderTyped, NEW i \in DOMAIN group
  PROVE  /\ i \in Accepted(group) => Pay(i) = AcceptedReward(freq, group, i)
         /\ i \in Rejected(group) => Pay(i) = RejectedReward(Depth(group, i), record)
         /\ i \notin Accepted(group) \cup Rejected(group) => Pay(i) = 0
         /\ i \in Accepted(group) => Pay(i) \in W_VALID .. W_VALID + W_NOVELTY + W_GLOBAL
         /\ i \notin Accepted(group) => Pay(i) \in 0 .. W_REJECT_MAX
<1>1. group \in Seq(Programs) /\ Accepted(group) \cap Rejected(group) = {}
  BY RungsAreDisjoint DEF LadderTyped
<1>2. /\ i \in Accepted(group) => Pay(i) = AcceptedReward(freq, group, i)
      /\ i \in Rejected(group) => Pay(i) = RejectedReward(Depth(group, i), record)
      /\ i \notin Accepted(group) \cup Rejected(group) => Pay(i) = 0
  BY <1>1 DEF Pay, Reward
<1>3. i \in Accepted(group) => AcceptedReward(freq, group, i) \in W_VALID .. W_VALID + W_NOVELTY + W_GLOBAL
  BY <1>1, AcceptedBound
<1>4. RejectedReward(Depth(group, i), record) \in 0 .. W_REJECT_MAX
  BY <1>1, CoversFinite, RejectedBound DEF LadderTyped
<1> QED BY <1>2, <1>3, <1>4, WeightsAssumption

\* Every valid program is paid more than every other, the soft floor grows
\* with the depth walked, and no program is paid more than all terms together.
THEOREM RungsAreOrderedHolds == OfflineSpec => []RungsAreOrdered
<1>1. LadderTyped => RungsAreOrdered
  <2> SUFFICES ASSUME LadderTyped, NEW i \in DOMAIN group, NEW j \in DOMAIN group
      PROVE  /\ i \in Accepted(group) /\ j \notin Accepted(group) => Pay(i) > Pay(j)
             /\ i \in Rejected(group) /\ j \in Rejected(group) /\ Depth(group, i) <= Depth(group, j)
                  => Pay(i) <= Pay(j)
             /\ Pay(i) <= W_VALID + W_NOVELTY + W_GLOBAL
    BY DEF RungsAreOrdered
  <2>1. i \in Accepted(group) /\ j \notin Accepted(group) => Pay(i) > Pay(j)
    BY PayOfRung, WeightsAssumption
  <2>2. ASSUME i \in Rejected(group), j \in Rejected(group), Depth(group, i) <= Depth(group, j)
        PROVE  Pay(i) <= Pay(j)
    <3>1. Depth(group, i) \in Nat /\ Depth(group, j) \in Nat /\ record \in Nat \ {0}
      BY CoversFinite DEF LadderTyped
    <3>2. RejectedReward(Depth(group, i), record) <= RejectedReward(Depth(group, j), record)
      BY <2>2, <3>1, RejectedMonotone
    <3> QED BY <2>2, <3>2, PayOfRung
  <2>3. Pay(i) <= W_VALID + W_NOVELTY + W_GLOBAL
    BY PayOfRung, WeightsAssumption
  <2> QED BY <2>1, <2>2, <2>3
<1> QED BY <1>1, LadderTypedHolds, PTL

\* One more hit of a counter raises no reward, and changes none but those of
\* valid programs.
THEOREM StaleNeverGainsHolds == OfflineSpec => []StaleNeverGains
<1>1. LadderTyped => StaleNeverGains
  <2> SUFFICES ASSUME LadderTyped, NEW p \in PCs, NEW i \in DOMAIN group
      PROVE  LET later == Put(freq, p, Get(freq, p) + FreqUnit)
             IN  /\ Reward(later, record, group, i) <= Pay(i)
                 /\ i \notin Accepted(group) => Reward(later, record, group, i) = Pay(i)
    BY DEF StaleNeverGains
  <2> DEFINE later == Put(freq, p, Get(freq, p) + FreqUnit)
  <2>1. group \in Seq(Programs) /\ Counting(freq)
    BY DEF LadderTyped
  <2>2. CASE i \in Accepted(group)
    <3>1. AcceptedReward(later, group, i) <= AcceptedReward(freq, group, i)
      BY <2>1, <2>2, HitNeverPays
    <3>2. Reward(later, record, group, i) = AcceptedReward(later, group, i)
      <4> HIDE DEF later
      <4> QED BY <2>1, <2>2, RungsAreDisjoint DEF Reward
    <3> QED BY <2>2, <3>1, <3>2, PayOfRung
  <2>3. CASE i \notin Accepted(group)
    <3>1. Reward(later, record, group, i) = Pay(i)
      <4> HIDE DEF later
      <4> QED BY <2>3 DEF Reward, Pay
    <3>2. Pay(i) \in 0 .. W_REJECT_MAX
      BY <2>3, PayOfRung
    <3> QED BY <2>3, <3>1, <3>2, WeightsAssumption
  <2> QED BY <2>2, <2>3
<1> QED BY <1>1, LadderTypedHolds, PTL

\* Each counter contributes the accepted programs that do not cover it.
LEMMA SiblingsOfCounter ==
  ASSUME LadderTyped, NEW p
  PROVE  /\ IsFiniteSet({j \in Accepted(group) : p \notin Covers(group, j)})
         /\ Cardinality({j \in Accepted(group) : p \notin Covers(group, j)})
              = Cardinality(Accepted(group)) - SiblingFreq(p)
<1> DEFINE acc == Accepted(group)
           with == {j \in acc : p \in Covers(group, j)}
           without == {j \in acc : p \notin Covers(group, j)}
<1>1. IsFiniteSet(acc) /\ Cardinality(acc) \in Nat
  BY AcceptedFinite DEF LadderTyped
<1>2. SiblingFreq(p) = Cardinality(with)
  BY DEF SiblingFreq, Quantify
<1>3. without = acc \ with /\ acc \cap with = with
  OBVIOUS
<1>4. IsFiniteSet(acc \ with) /\ Cardinality(acc \ with) = Cardinality(acc) - Cardinality(acc \cap with)
  BY <1>1, FS_Difference
<1> HIDE DEF with, without
<1>5. Cardinality(without) = Cardinality(acc) - Cardinality(with)
  BY <1>3, <1>4
<1> QED BY <1>2, <1>3, <1>4, <1>5 DEF with, without

\* The group term is the mean over the counters of the program of the share of
\* the accepted programs that do not cover them, to the unit.
THEOREM GroupNoveltyIsMeanHolds == OfflineSpec => []GroupNoveltyIsMean
<1>1. LadderTyped => GroupNoveltyIsMean
  <2> SUFFICES ASSUME LadderTyped, NEW i \in Accepted(group), Covers(group, i) # {}
      PROVE  GroupNovelty(group, i) =
               (Unit * MapThenSumSet(LAMBDA p : Cardinality(Accepted(group)) - SiblingFreq(p), Covers(group, i)))
                 \div (Cardinality(Accepted(group)) * Depth(group, i))
    BY DEF GroupNoveltyIsMean
  <2> DEFINE covered == Covers(group, i)
             n == Cardinality(Accepted(group))
             C == [p \in covered |-> {j \in Accepted(group) : p \notin Covers(group, j)}]
             Solves(h) == h = [s \in SUBSET covered |->
                                 IF s = {} THEN 0 ELSE (n - SiblingFreq(Some(s))) + h[s \ {Some(s)}]]
  <2>1. IsFiniteSet(covered)
    BY AcceptedFinite, CoversFinite DEF LadderTyped
  <2>2. \A p \in covered : IsFiniteSet(C[p]) /\ Cardinality(C[p]) = n - SiblingFreq(p)
    BY SiblingsOfCounter
  <2>3. \A s \in SUBSET covered : s # {} => Some(s) \in covered
    BY DEF Some
  <2>4. Unshared(group, i) = Pairs(C, covered)
    <3>1. ASSUME NEW z PROVE z \in Unshared(group, i) <=> z \in Pairs(C, covered)
      BY DEF Unshared, Pairs
    <3> QED BY <3>1
  <2>5. MapThenSumSet(LAMBDA p : n - SiblingFreq(p), covered) = (CHOOSE h : Solves(h))[covered]
    BY DEF MapThenSumSet, MapThenFoldSet, Some
  <2> HIDE DEF C, covered, n
  <2>6. \A h : Solves(h) <=> SumsUp(h, C, covered)
    BY <2>2, <2>3 DEF SumsUp
  <2>7. PICK h : Solves(h) /\ MapThenSumSet(LAMBDA p : n - SiblingFreq(p), covered) = h[covered]
    <3>1. \E h : Solves(h)
      BY <2>1, <2>2, <2>6, PairsSumUp
    <3> QED BY <2>5, <3>1
  <2>8. MapThenSumSet(LAMBDA p : n - SiblingFreq(p), covered) = Cardinality(Unshared(group, i))
    <3>1. SumsUp(h, C, covered)
      BY <2>6, <2>7
    <3>2. \A p \in covered : IsFiniteSet(C[p])
      BY <2>2
    <3>3. h[covered] = Cardinality(Pairs(C, covered))
      BY <2>1, <3>1, <3>2, SumIsPairs
    <3> QED BY <2>4, <2>7, <3>3
  <2> QED BY <2>8 DEF GroupNovelty, covered, n
<1> QED BY <1>1, LadderTypedHolds, PTL

(***************************************************************************)
(* The charts of rl_grpo.py.  A row carries the step and the start of the  *)
(* script it was collected in; the invariant says where telemetry that is  *)
(* waiting to be flushed comes from (OfThisBatch), and that rows already   *)
(* in WandB lie at their own step, not past the run's counter (Charted).   *)
(***************************************************************************)
LEMMA GrPart == OfflineInit => GrInit
  BY DEF OfflineInit
LEMMA GrPartStep == [OfflineNext]_offlineVars => [GrNext]_grVars
  BY DEF OfflineNext, offlineVars, Ladder, Assembler, LogLine, Tools, Data, Sampling, Bench, Grpo, Models

Telemetry == [step : Nat, session : Nat]
WandbRuns == [step : Nat, rows : UNION {[S -> Telemetry] : S \in SUBSET Nat}]

GrTypes ==
  /\ grArgs \in [resume : BOOLEAN, smoke : BOOLEAN, remote : BOOLEAN]
  /\ grStep \in Nat /\ grStarts \in Nat
  /\ grTele \in Telemetry
  /\ grWandb \in Seq(WandbRuns)
  /\ grRun \in 0 .. Len(grWandb) /\ grIdFile \in 0 .. Len(grWandb)
  /\ grCkpts \subseteq Nat

\* The CHOOSE of LastStep has a checkpoint to find.
HasLast == grCkpts = {} \/ \E c \in grCkpts : \A d \in grCkpts : d <= c

\* What waits for the next flush was collected for the step it will be flushed at.
OfThisBatch ==
  /\ grPc = "idle" => grTele = NoTele /\ grRun = NoRun
  /\ grArgs.smoke => grTele = NoTele /\ grRun = NoRun
  /\ grPc = "watchdog" => ~grArgs.smoke
  /\ grPc = "optimizing" /\ ~grArgs.smoke => grTele = [step |-> grStep + 1, session |-> grStarts]
  /\ grPc = "logging" /\ ~grArgs.smoke => grTele = [step |-> grStep, session |-> grStarts]

\* WandB drops a row behind its counter, so no later start overwrites or precedes one.
Charted(run) ==
  /\ \A n \in DOMAIN run.rows : n <= run.step /\ run.rows[n].step = n /\ run.rows[n].session <= grStarts
  /\ \A n, m \in DOMAIN run.rows : n < m => run.rows[n].session <= run.rows[m].session

AllCharted == \A r \in DOMAIN grWandb : Charted(grWandb[r])

GrInv == GrTypes /\ HasLast /\ OfThisBatch /\ AllCharted

\* What the types say of one WandB run.
LEMMA RunTypes ==
  ASSUME NEW run \in WandbRuns
  PROVE  /\ run.step \in Nat /\ DOMAIN run.rows \subseteq Nat
         /\ \A n \in DOMAIN run.rows : run.rows[n] \in Telemetry
  BY DEF WandbRuns

\* The invariant holds before the first start.
LEMMA GrInitial == GrInit => GrInv
  BY DEF GrInit, GrInv, GrTypes, HasLast, OfThisBatch, AllCharted, Charted, Telemetry, NoTele, NoRun

\* The step --resume takes from the newest checkpoint is a number.
LEMMA LastStepIsNat ==
  ASSUME grCkpts \subseteq Nat, HasLast
  PROVE  LastStep \in Nat
  BY DEF HasLast, LastStep

\* A fresh run has no rows.
LEMMA NewRunIsCharted == NewRun \in WandbRuns /\ Charted(NewRun)
<1>1. NewRun.rows \in [{} -> Telemetry] BY DEF NewRun
<1>2. NewRun \in WandbRuns BY <1>1 DEF NewRun, WandbRuns
<1> QED BY <1>2 DEF NewRun, Charted

\* wandb.init continues a run or adds one: no chart is disturbed.
LEMMA InitWandbKeeps ==
  ASSUME GrInv, InitWandb, UNCHANGED grStarts
  PROVE  /\ grWandb' \in Seq(WandbRuns) /\ Len(grWandb') >= Len(grWandb)
         /\ grRun' \in 0 .. Len(grWandb') /\ (grArgs.smoke => grRun' = grRun)
         /\ AllCharted'
<1> USE DEF GrInv
<1>1. CASE grArgs.smoke \/ Continues
  <2>1. grWandb' = grWandb /\ grRun' \in {grRun, grIdFile} /\ (grArgs.smoke => grRun' = grRun)
    BY <1>1 DEF InitWandb
  <2> QED BY <2>1 DEF GrTypes, AllCharted, Charted
<1>2. CASE ~ (grArgs.smoke \/ Continues)
  <2>1. grWandb' = Append(grWandb, NewRun) /\ grRun' = Len(grWandb) + 1
    BY <1>2 DEF InitWandb
  <2>2. grWandb' \in Seq(WandbRuns) /\ Len(grWandb') = Len(grWandb) + 1
    BY <2>1, NewRunIsCharted DEF GrTypes
  <2>3. \A r \in DOMAIN grWandb' : Charted(grWandb'[r])
    BY <2>1, NewRunIsCharted DEF GrTypes, AllCharted
  <2> QED BY <1>2, <2>1, <2>2, <2>3 DEF GrTypes, AllCharted, Charted
<1> QED BY <1>1, <1>2

\* The one step that adds a row puts it at its own step, behind all others.
LEMMA FlushedIsCharted ==
  ASSUME GrInv, NEW run \in WandbRuns, Charted(run), grPc = "logging", ~grArgs.smoke
  PROVE  Flushed(run) \in WandbRuns /\ Charted(Flushed(run))
<1> USE RunTypes DEF GrInv
<1> DEFINE row == RowFor(run)
<1>1. row \in Nat /\ row = grStep
  BY DEF RowFor, GrTypes
<1>2. grTele = [step |-> grStep, session |-> grStarts]
  BY DEF OfThisBatch
<1>3. CASE grTele = NoTele \/ row < run.step + 1
  <2>1. Flushed(run) = [run EXCEPT !.step = run.step + 1]
    BY <1>3 DEF Flushed
  <2>2. /\ Flushed(run).step = run.step + 1 /\ Flushed(run).rows = run.rows
        /\ Flushed(run) \in WandbRuns
    BY <2>1 DEF WandbRuns
  <2> QED BY <2>2 DEF Charted
<1>4. CASE ~ (grTele = NoTele \/ row < run.step + 1)
  <2> DEFINE D == DOMAIN run.rows \cup {row}
             rows == [n \in D |-> IF n = row THEN grTele ELSE run.rows[n]]
  <2>1. Flushed(run) = [step |-> row, rows |-> rows]
    BY <1>4 DEF Flushed
  <2>2. rows \in [D -> Telemetry] /\ D \in SUBSET Nat
    BY <1>1 DEF GrTypes
  <2>3. Flushed(run) \in WandbRuns
    BY <1>1, <2>1, <2>2 DEF WandbRuns
  <2>4. \A n \in D : n <= row /\ (n # row => n \in DOMAIN run.rows /\ n < row)
    BY <1>1, <1>4 DEF Charted
  <2>5. rows[row] = grTele /\ \A n \in D : n # row => rows[n] = run.rows[n]
    OBVIOUS
  <2>6. \A n \in D : rows[n].step = n /\ rows[n].session <= grStarts
    BY <1>1, <1>2, <2>4, <2>5 DEF Charted, GrTypes
  <2>7. ASSUME NEW n \in D, NEW k \in D, n < k PROVE rows[n].session <= rows[k].session
    <3>1. CASE k = row
      BY <1>2, <2>5, <2>6, <3>1
    <3>2. CASE k # row
      BY <1>1, <2>2, <2>4, <2>5, <2>7, <3>2 DEF Charted
    <3> QED BY <3>1, <3>2
  <2>8. Flushed(run).rows = rows /\ Flushed(run).step = row /\ DOMAIN rows = D
    BY <2>1
  <2> HIDE DEF rows, D, row
  <2> QED BY <2>3, <2>4, <2>6, <2>7, <2>8 DEF Charted
<1> QED BY <1>3, <1>4

\* Every action of GrpoRun keeps the invariant.
LEMMA GrInductive == GrInv /\ [GrNext]_grVars => GrInv'
<1> SUFFICES ASSUME GrInv, [GrNext]_grVars PROVE GrInv'
  OBVIOUS
<1> USE DEF GrInv
<1> DEFINE Quiet == UNCHANGED <<grWandb, grStarts, grIdFile, grCkpts>>
<1>1. ASSUME UNCHANGED <<grWandb, grStarts>> PROVE AllCharted'
  BY <1>1 DEF AllCharted, Charted
<1>2. ASSUME GrForget, Quiet PROVE GrInv'
  <2>1. GrTypes' BY <1>2 DEF GrForget, GrTypes, Telemetry, NoTele, NoRun
  <2>2. HasLast' BY <1>2 DEF HasLast
  <2>3. OfThisBatch' BY <1>2 DEF GrForget, OfThisBatch
  <2> QED BY <1>1, <1>2, <2>1, <2>2, <2>3
<1>3. CASE UNCHANGED grVars
  BY <1>1, <1>3 DEF grVars, GrTypes, HasLast, OfThisBatch
<1>4. ASSUME NEW args \in [resume : BOOLEAN, smoke : BOOLEAN, remote : BOOLEAN], NEW key \in BOOLEAN,
             GrStart(args, key)
      PROVE  GrInv'
  <2>1. LastStep \in Nat BY LastStepIsNat DEF GrTypes
  <2>2. grStarts' = grStarts + 1 /\ UNCHANGED <<grWandb, grRun, grIdFile, grTele, grCkpts>>
    BY <1>4 DEF GrStart
  <2>3. AllCharted'
    <3> SUFFICES ASSUME NEW r \in DOMAIN grWandb PROVE Charted(grWandb[r])'
      BY <2>2 DEF AllCharted
    <3>1. Charted(grWandb[r]) /\ grWandb[r] \in WandbRuns
      BY DEF AllCharted, GrTypes
    <3> QED BY <2>2, <3>1, RunTypes DEF Charted, GrTypes, Telemetry
  <2>4. \/ UNCHANGED <<grPc, grArgs, grStep>>
        \/ grPc' = "building" /\ grArgs' = args /\ grStep' \in Nat
    <3>1. CASE args.remote /\ ~args.smoke /\ ~key
      BY <1>4, <3>1, Zenon DEF GrStart
    <3>2. CASE ~ (args.remote /\ ~args.smoke /\ ~key)
      <4>1. grPc' = "building" /\ grArgs' = args /\ grStep' = IF args.resume THEN LastStep ELSE 0
        BY <1>4, <3>2, Zenon DEF GrStart
      <4> QED BY <2>1, <4>1
    <3> QED BY <3>1, <3>2
  <2>5. grPc = "idle" BY <1>4 DEF GrStart
  <2> QED BY <2>2, <2>3, <2>4, <2>5 DEF GrTypes, HasLast, OfThisBatch
<1>5. ASSUME NEW early \in BOOLEAN, GrBuild(early) PROVE GrInv'
  <2>1. CASE early
    <3>1. InitWandb /\ UNCHANGED grStarts BY <1>5, <2>1 DEF GrBuild
    <3>2. grIdFile' = IF ~grArgs.smoke /\ grIdFile = NoRun THEN grRun' ELSE grIdFile
      BY <1>5, <2>1 DEF GrBuild
    <3> QED BY <1>5, <3>1, <3>2, InitWandbKeeps DEF GrBuild, GrTypes, HasLast, OfThisBatch
  <2>2. CASE ~early
    BY <1>1, <1>5, <2>2 DEF GrBuild, GrTypes, HasLast, OfThisBatch
  <2> QED BY <2>1, <2>2
<1>6. ASSUME GrTrainBegin PROVE GrInv'
  <2>1. CASE grRun = NoRun
    <3>1. InitWandb /\ UNCHANGED grStarts BY <1>6, <2>1 DEF GrTrainBegin
    <3> QED BY <1>6, <3>1, InitWandbKeeps DEF GrTrainBegin, GrTypes, HasLast, OfThisBatch
  <2>2. CASE grRun # NoRun
    BY <1>1, <1>6, <2>2 DEF GrTrainBegin, GrTypes, HasLast, OfThisBatch
  <2> QED BY <2>1, <2>2
<1>7. ASSUME GrEnterGeneration PROVE GrInv'
  BY <1>1, <1>7 DEF GrEnterGeneration, GrTypes, HasLast, OfThisBatch
<1>8. ASSUME NEW raises \in BOOLEAN, GrLeaveGeneration(raises) PROVE GrInv'
  BY <1>1, <1>2, <1>8 DEF GrLeaveGeneration, GrTypes, HasLast, OfThisBatch
<1>9. ASSUME NEW v \in LogVerdicts, GrScore(<<v>>) PROVE GrInv'
  BY <1>1, <1>9 DEF GrScore, GrTypes, HasLast, OfThisBatch, Telemetry
<1>14. ASSUME NEW fails, GrWatch(fails) PROVE GrInv'
  BY <1>1, <1>14 DEF GrWatch, GrTypes, HasLast, OfThisBatch
<1>15. ASSUME GrWatched PROVE GrInv'
  BY <1>1, <1>15 DEF GrWatched, GrTypes, HasLast, OfThisBatch, Telemetry
<1>10. ASSUME NEW due \in BOOLEAN, NEW vmUp \in BOOLEAN, GrOptimize(due, vmUp) PROVE GrInv'
  BY <1>1, <1>10 DEF GrOptimize, GrTypes, HasLast, OfThisBatch
<1>11. ASSUME GrFlush PROVE GrInv'
  <2>1. CASE grRun = NoRun
    BY <1>1, <1>11, <2>1 DEF GrFlush, GrTypes, HasLast, OfThisBatch
  <2>2. CASE grRun # NoRun
    <3>1. ~grArgs.smoke /\ grPc = "logging" /\ grRun \in DOMAIN grWandb
      BY <1>11, <2>2 DEF GrFlush, OfThisBatch, GrTypes, NoRun
    <3> DEFINE flushed == Flushed(grWandb[grRun])
    <3>2. flushed \in WandbRuns /\ Charted(flushed)
      BY <3>1, FlushedIsCharted DEF GrTypes, AllCharted
    <3>3. grWandb' = [grWandb EXCEPT ![grRun] = flushed]
      BY <1>11, <2>2 DEF GrFlush
    <3> HIDE DEF flushed
    <3>4. grWandb' \in Seq(WandbRuns) /\ Len(grWandb') = Len(grWandb)
      BY <3>1, <3>2, <3>3 DEF GrTypes
    <3>5. \A r \in DOMAIN grWandb' : Charted(grWandb'[r])
      BY <3>1, <3>2, <3>3, <3>4 DEF GrTypes, AllCharted
    <3>6. AllCharted' BY <1>11, <3>5 DEF GrFlush, AllCharted, Charted
    <3> QED BY <1>11, <3>1, <3>4, <3>6 DEF GrFlush, GrTypes, HasLast, OfThisBatch
  <2> QED BY <2>1, <2>2
<1>12. ASSUME GrSave PROVE GrInv'
  <2>1. HasLast'
    BY <1>12 DEF GrSave, HasLast, GrTypes
  <2> QED BY <1>1, <1>12, <2>1 DEF GrSave, GrTypes, OfThisBatch
<1>13. ASSUME GrDone \/ GrRaise \/ GrCrash PROVE GrInv'
  BY <1>2, <1>13 DEF GrDone, GrRaise, GrCrash
<1> QED
  BY <1>3, <1>4, <1>5, <1>6, <1>7, <1>8, <1>9, <1>10, <1>11, <1>12, <1>13, <1>14, <1>15 DEF GrNext, GrStepTaken

\* The charted runs are the property.
LEMMA GrInvImplies == GrInv => ChartsAreOwn
  BY DEF GrInv, AllCharted, Charted, ChartsAreOwn

\* Every row in WandB shows the telemetry of the step it is drawn at, and no row
\* of an earlier start lies behind one of a later start (src/ml/rl_grpo.py:179-191,
\* the callback that flushes), however often the script is started, resumed,
\* killed or run as a smoke test.
THEOREM ChartsAreOwnHolds == OfflineSpec => []ChartsAreOwn
<1>1. OfflineInit => GrInv BY GrPart, GrInitial
<1>2. GrInv /\ [OfflineNext]_offlineVars => GrInv' BY GrPartStep, GrInductive
<1> QED BY <1>1, <1>2, GrInvImplies, PTL DEF OfflineSpec

-----------------------------------------------------------------------------
(***************************************************************************)
(* The rows of enrich_dataset.py.  A run opens its output for writing only *)
(* when it read no row from it (NothingToLose), and nothing can add a row  *)
(* between the read and the open.                                          *)
(***************************************************************************)
LEMMA EnPart == OfflineInit => EnInit
  BY DEF OfflineInit
LEMMA EnPartStep == [OfflineNext]_offlineVars => [EnNext]_enVars
  BY DEF OfflineNext, offlineVars, dataVars, DataNext, Ladder, Assembler, LogLine, Tools, Data, Sampling, Bench, Grpo, Models

IsSeq(s) == \E S : s \in Seq(S)

NothingToLose ==
  enPc \in {"validating", "opening"} /\ enMode = "w" => \A k \in DOMAIN enFile : enFile[k].kind # "row"

EnInv == IsSeq(enFile) /\ NothingToLose

\* Append keeps every element where it is.
LEMMA AppendSeq ==
  ASSUME NEW s, IsSeq(s), NEW x
  PROVE  /\ IsSeq(Append(s, x)) /\ DOMAIN s = 1 .. Len(s) /\ Len(s) \in Nat
         /\ \A k \in DOMAIN s : k \in DOMAIN Append(s, x) /\ Append(s, x)[k] = s[k]
<1>1. PICK S : s \in Seq(S) BY DEF IsSeq
<1>2. s \in Seq(S \cup {x}) /\ x \in S \cup {x} BY <1>1
<1> HIDE DEF IsSeq
<1>3. Append(s, x) \in Seq(S \cup {x}) BY <1>2
<1>4. IsSeq(Append(s, x)) BY <1>3 DEF IsSeq
<1> QED BY <1>2, <1>4

\* A line is written behind the rows that have their line end; only a torn line
\* before it is glued to it.
LEMMA AddLineKeeps ==
  ASSUME NEW file, IsSeq(file), NEW line
  PROVE  IsSeq(AddLine(file, line)) /\ Ended(file) \subseteq Ended(AddLine(file, line))
<1>1. CASE file # <<>> /\ ~file[Len(file)].nl
  <2> DEFINE junk == Junk(line.nl)
             new == [file EXCEPT ![Len(file)] = junk]
  <2>1. AddLine(file, line) = new BY <1>1 DEF AddLine
  <2>2. PICK S : file \in Seq(S) BY DEF IsSeq
  <2> HIDE DEF junk
  <2>6. file \in [1 .. Len(file) -> S] /\ Len(file) \in Nat
    BY <2>2
  <2>7. new \in [1 .. Len(file) -> S \cup {junk}]
    BY <2>6
  <2>3. new \in Seq(S \cup {junk}) /\ DOMAIN new = DOMAIN file
    BY <2>6, <2>7
  <2>4. \A k \in DOMAIN file : k # Len(file) => new[k] = file[k]
    OBVIOUS
  <2>5. IsSeq(new) BY <2>3 DEF IsSeq
  <2> HIDE DEF new
  <2> QED BY <1>1, <2>1, <2>3, <2>4, <2>5 DEF Ended
<1>2. CASE ~ (file # <<>> /\ ~file[Len(file)].nl)
  <2>1. AddLine(file, line) = Append(file, line) BY <1>2 DEF AddLine
  <2> QED BY <2>1, AppendSeq DEF Ended
<1> QED BY <1>1, <1>2

\* So is a line that a crash cuts short.
LEMMA TornKeeps ==
  ASSUME NEW file, IsSeq(file), NEW line, NEW left \in Torn(file, line)
  PROVE  IsSeq(left) /\ Ended(file) \subseteq Ended(left)
  BY AddLineKeeps DEF Torn

\* Every action of EnrichDataset keeps the invariant and the ended rows.
LEMMA EnSteps ==
  ASSUME EnInv, [EnNext]_enVars
  PROVE  EnInv' /\ Ended(enFile) \subseteq Ended(enFile')
<1> USE DEF EnInv
<1>1. ASSUME UNCHANGED enFile, enPc' = "idle" \/ UNCHANGED <<enPc, enMode>> PROVE EnInv' /\ Ended(enFile) \subseteq Ended(enFile')
  BY <1>1 DEF NothingToLose
<1>2. CASE UNCHANGED enVars
  BY <1>1, <1>2 DEF enVars
<1>3. CASE EnStart
  <2>1. UNCHANGED enFile /\ enMode' = ModeFor(Readable(enFile))
    BY <1>3 DEF EnStart
  <2>2. enMode' = "w" => Readable(enFile) = {}
    BY <2>1 DEF ModeFor
  <2> QED BY <2>1, <2>2 DEF NothingToLose, Readable
<1>4. CASE EnTake
  BY <1>1, <1>4 DEF EnTake
<1>5. ASSUME NEW i, NEW trace, EnRecord(i, trace) PROVE EnInv' /\ Ended(enFile) \subseteq Ended(enFile')
  BY <1>1, <1>5 DEF EnRecord
<1>6. CASE EnBins
  BY <1>6 DEF EnBins, NothingToLose
<1>7. CASE EnOpen
  <2>1. CASE enMode = "w"
    <3>1. enFile' = <<>> /\ enPc' = "writing" BY <1>7, <2>1 DEF EnOpen
    <3>2. Ended(enFile) = {} BY <1>7, <2>1 DEF EnOpen, NothingToLose, Ended
    <3>3. enFile' \in Seq({}) BY <3>1
    <3> QED BY <3>1, <3>2, <3>3 DEF NothingToLose, IsSeq
  <2>2. CASE enMode # "w"
    BY <1>7, <2>2 DEF EnOpen, NothingToLose
  <2> QED BY <2>1, <2>2
<1>8. CASE EnWrite
  BY <1>8, AddLineKeeps DEF EnWrite, NothingToLose
<1>9. CASE EnFinish \/ EnRaise
  BY <1>1, <1>9 DEF EnFinish, EnRaise, EnForget
<1>10. CASE EnCrash
  <2>1. enFile' \in Torn(enFile, Head(enLines)) \/ UNCHANGED enFile
    BY <1>10 DEF EnCrash
  <2>2. enPc' = "idle" BY <1>10 DEF EnCrash, EnForget
  <2> QED BY <1>1, <2>1, <2>2, TornKeeps DEF NothingToLose
<1> QED BY <1>2, <1>3, <1>4, <1>5, <1>6, <1>7, <1>8, <1>9, <1>10 DEF EnNext, EnStep

\* No step of any run takes a row that has its line end out of the output
\* (src/ml/enrich_dataset.py: the resume set, the open mode, the append),
\* for any inputs, numbers of runs and crashes.
THEOREM RowsSurviveHolds == OfflineSpec => RowsSurvive
<1>1. OfflineInit => EnInv
  <2>1. <<>> \in Seq({}) OBVIOUS
  <2> QED BY <2>1, EnPart DEF EnInit, EnInv, IsSeq, NothingToLose
<1>2. EnInv /\ [OfflineNext]_offlineVars => EnInv'
  BY EnPartStep, EnSteps
<1>3. EnInv /\ [OfflineNext]_offlineVars => [Ended(enFile) \subseteq Ended(enFile')]_enFile
  BY EnPartStep, EnSteps
<1> QED BY <1>1, <1>2, <1>3, PTL DEF OfflineSpec, RowsSurvive

-----------------------------------------------------------------------------
(***************************************************************************)
(* The two model directories.  A quantization that ended well is only      *)
(* believed while nothing is being written (Settled), and a quantized      *)
(* directory that holds anything was begun from a merged model that was    *)
(* whole at that time (Sourced), whatever became of the merged one since;  *)
(* the guardrails of the last command give the rest.                       *)
(***************************************************************************)
LEMMA MdPart == OfflineInit => MdInit
  BY DEF OfflineInit
LEMMA MdPartStep == [OfflineNext]_offlineVars => [MdNext]_mdVars
  BY DEF OfflineNext, offlineVars, Ladder, Assembler, LogLine, Tools, Data, Sampling, Bench, Grpo, Models

Dirs == [saved : 0 .. 4, half : BOOLEAN, size : Nat, speaks : BOOLEAN,
         source : {"none", "adapter", "whole", "half"}]

MdTypes ==
  /\ mdMerged \in Dirs /\ mdAwq \in Dirs /\ mdModel \in Dirs
  /\ mdAdapter \in BOOLEAN /\ mdStatus \in [merge : BOOLEAN, awq : BOOLEAN]

\* Something of the directory is on disk.
Begun(dir) == dir.saved > 0 \/ dir.half

Sourced ==
  /\ Begun(mdAwq) => mdAwq.source = "whole"
  /\ mdPc = "saving awq" => mdModel.source = "whole"
  /\ mdPc = "saving merged" => mdMerged.saved < 4
  /\ mdPc = "saving awq" => mdAwq.saved < 4

Settled == mdStatus.awq => mdPc = "idle" /\ Exists(mdMerged, 1)

MdInv == MdTypes /\ Sourced /\ Settled /\ AwqIsUsable

\* One more file is written.
LEMMA SavedDir ==
  ASSUME MdTypes, NEW dir \in Dirs, dir.saved < 4
  PROVE  /\ Saved(dir) \in Dirs
         /\ Saved(dir).saved = dir.saved + 1 /\ Saved(dir).source = mdModel.source
  BY DEF MdTypes, Dirs, Saved

\* What is at least twice something is something.
LEMMA PositiveProduct ==
  ASSUME NEW n \in Nat, n > 0, NEW m \in Nat, m >= MinRatio * n
  PROVE  m > 0
<1>1. MinRatio \in Nat /\ MinRatio > 0 BY GuardrailAssumption
<1>2. MinRatio * n > 0 BY <1>1
<1> QED BY <1>1, <1>2

\* The bytes that guardrail 3 of the quantization adds up.
LEMMA SizeIsNat ==
  ASSUME NEW dir \in Dirs
  PROVE  /\ SizeOf(dir) \in Nat
         /\ SizeOf(dir) > 0 => Exists(dir, 1)
         /\ dir.saved = 4 => SizeOf(dir) = dir.size
  BY DEF Dirs, SizeOf, Exists

\* A whole directory has four files.
LEMMA WholeIsBegun ==
  ASSUME NEW dir, Whole(dir)
  PROVE  dir.saved = 4 /\ Begun(dir)
<1>1. dir.saved = 4 BY DEF Whole, Files
<1>2. dir.saved > 0 BY <1>1
<1> QED BY <1>1, <1>2, Zenon DEF Begun

\* Arithmetic of the file counter.
LEMMA LessThanFour ==
  ASSUME NEW n \in 0 .. 4, n # 4
  PROVE  n < 4
  OBVIOUS

\* Every action of ModelFiles keeps the invariant.
LEMMA MdSteps == MdInv /\ [MdNext]_mdVars => MdInv'
<1> SUFFICES ASSUME MdInv, [MdNext]_mdVars PROVE MdInv'
  OBVIOUS
<1> USE DEF MdInv
<1>0. Len(Files) = 4 BY DEF Files
<1>1. CASE UNCHANGED mdVars
  BY <1>1 DEF mdVars, MdTypes, Sourced, Settled, AwqIsUsable
<1>2. CASE MdNewAdapter
  BY <1>2 DEF MdNewAdapter, MdTypes, Sourced, Settled, AwqIsUsable
<1>3. CASE MdDelete
  <2>1. NoDir \in Dirs /\ ~Begun(NoDir) BY DEF NoDir, Dirs, Begun
  <2>2. mdStatus' = [merge |-> FALSE, awq |-> FALSE] BY <1>3 DEF MdDelete
  <2> QED BY <1>3, <2>1, <2>2 DEF MdDelete, MdTypes, Sourced, Settled, AwqIsUsable
<1>4. ASSUME NEW size \in Sizes, NEW speaks \in BOOLEAN, MdMerge(size, speaks) PROVE MdInv'
  <2>1. mdPc = "idle" /\ UNCHANGED <<mdMerged, mdAwq, mdAdapter>> BY <1>4 DEF MdMerge
  <2>2. mdStatus' \in [merge : BOOLEAN, awq : BOOLEAN] /\ mdStatus'.awq = mdStatus.awq
    BY <1>4 DEF MdMerge, MdTypes, Exists, Dirs
  <2>3. CASE ~mdAdapter \/ Exists(mdMerged, 1)
    BY <1>4, <2>1, <2>2, <2>3 DEF MdMerge, MdTypes, Sourced, Settled, AwqIsUsable
  <2>4. CASE ~ (~mdAdapter \/ Exists(mdMerged, 1))
    <3>1. mdModel' = [NoDir EXCEPT !.size = size, !.speaks = speaks, !.source = "adapter"] /\ mdPc' = "saving merged"
      BY <1>4, <2>4 DEF MdMerge
    <3>2. mdModel' = [saved |-> 0, half |-> FALSE, size |-> size, speaks |-> speaks, source |-> "adapter"]
      BY <3>1 DEF NoDir
    <3>3. size \in Nat
      BY GuardrailAssumption
    <3>4. mdModel' \in Dirs
      BY <3>2, <3>3 DEF Dirs
    <3>5. ~mdStatus.awq /\ mdMerged.saved < 4
      BY <2>4 DEF Settled, Exists, MdTypes, Dirs
    <3> QED BY <2>1, <2>2, <3>1, <3>4, <3>5 DEF MdTypes, Sourced, Settled, AwqIsUsable
  <2> QED BY <2>3, <2>4
<1>5. ASSUME NEW records \in Records, NEW size \in Sizes, NEW speaks \in BOOLEAN, MdQuantize(records, size, speaks)
      PROVE  MdInv'
  <2>1. mdPc = "idle" /\ UNCHANGED <<mdMerged, mdAwq, mdAdapter>> BY <1>5 DEF MdQuantize
  <2>2. mdStatus' \in [merge : BOOLEAN, awq : BOOLEAN] /\ ~mdStatus'.awq
    BY <1>5 DEF MdQuantize, MdTypes
  <2>3. \/ mdPc' \in {"idle", "checking awq"} /\ UNCHANGED mdModel
        \/ /\ mdPc' = "saving awq" /\ CanQuantize(records) /\ ~Exists(mdAwq, 1)
           /\ mdModel' = QuantizedFrom(size, speaks)
    BY <1>5, <2>1, Zenon DEF MdQuantize
  <2>4. CASE UNCHANGED mdModel /\ mdPc' \in {"idle", "checking awq"}
    BY <2>1, <2>2, <2>4 DEF MdTypes, Sourced, Settled, AwqIsUsable
  <2>5. CASE /\ mdPc' = "saving awq" /\ CanQuantize(records) /\ ~Exists(mdAwq, 1)
             /\ mdModel' = QuantizedFrom(size, speaks)
    <3>1. Whole(mdMerged)
      BY <2>5 DEF CanQuantize
    <3>2. mdModel' = [saved |-> 0, half |-> FALSE, size |-> size, speaks |-> speaks, source |-> "whole"]
      BY <2>5, <3>1 DEF QuantizedFrom, NoDir
    <3>3. size \in Nat
      BY GuardrailAssumption
    <3>4. mdModel' \in Dirs /\ mdModel'.source = "whole"
      BY <3>2, <3>3 DEF Dirs
    <3>5. mdAwq.saved < 4
      <4>1. ~(1 <= mdAwq.saved) BY <2>5, Zenon DEF Exists
      <4>2. mdAwq.saved \in 0 .. 4 BY DEF MdTypes, Dirs
      <4> QED BY <4>1, <4>2
    <3> QED BY <2>1, <2>2, <2>5, <3>4, <3>5 DEF MdTypes, Sourced, Settled, AwqIsUsable
  <2> QED BY <2>3, <2>4, <2>5
<1>6. CASE MdSaveMerged
  <2>1. mdPc = "saving merged" /\ mdMerged' = Saved(mdMerged) /\ UNCHANGED <<mdAwq, mdModel, mdAdapter, mdStatus>>
    BY <1>6 DEF MdSaveMerged
  <2>2. mdMerged' \in Dirs
    BY <2>1, SavedDir DEF MdTypes, Sourced
  <2>5. mdMerged'.saved \in 0 .. 4
    BY <2>2 DEF Dirs
  <2>3. mdPc' = IF mdMerged'.saved = 4 THEN "checking merged" ELSE mdPc
    BY <1>0, <1>6 DEF MdSaveMerged, Whole
  <2>4. ~mdStatus.awq BY <2>1 DEF Settled
  <2>6. MdTypes' BY <2>1, <2>2 DEF MdTypes
  <2>7. Sourced'
    <3>1. mdPc' \in {"saving merged", "saving awq"} => mdPc' = "saving merged" /\ mdMerged'.saved # 4
      BY <2>1, <2>3
    <3>2. mdPc' = "saving awq" => mdModel'.source = "whole"
      BY <2>1, <2>3 DEF Sourced
    <3>3. mdPc' = "saving merged" => mdMerged'.saved < 4
      <4> SUFFICES ASSUME mdPc' = "saving merged" PROVE mdMerged'.saved < 4 OBVIOUS
      <4>1. mdMerged'.saved # 4 BY <3>1, Zenon
      <4> QED BY <2>5, <4>1, LessThanFour
    <3>6. mdPc' # "saving awq" BY <2>1, <2>3
    <3>4. Begun(mdAwq) => mdAwq.source = "whole" BY DEF Sourced
    <3>5. Begun(mdAwq)' => mdAwq'.source = "whole" BY <2>1, <3>4 DEF Begun
    <3> QED BY <2>2, <3>2, <3>3, <3>5, <3>6, Zenon DEF Sourced
  <2> QED BY <2>1, <2>4, <2>6, <2>7 DEF Settled, AwqIsUsable
<1>7. CASE MdCheckMerged
  <2>1. mdPc' = "idle" /\ UNCHANGED <<mdMerged, mdAwq, mdModel, mdAdapter>> /\ mdPc = "checking merged"
    BY <1>7 DEF MdCheckMerged
  <2>2. mdStatus' \in [merge : BOOLEAN, awq : BOOLEAN] /\ mdStatus'.awq = mdStatus.awq
    BY <1>7, GuardrailAssumption DEF MdCheckMerged, MdTypes, Dirs
  <2> QED BY <2>1, <2>2 DEF MdTypes, Sourced, Settled, AwqIsUsable
<1>8. CASE MdSaveAwq
  <2>1. mdPc = "saving awq" /\ mdAwq' = Saved(mdAwq) /\ UNCHANGED <<mdMerged, mdModel, mdAdapter, mdStatus>>
    BY <1>8 DEF MdSaveAwq
  <2>2. mdAwq' \in Dirs /\ mdAwq'.source = "whole"
    BY <2>1, SavedDir DEF MdTypes, Sourced
  <2>5. mdAwq'.saved \in 0 .. 4
    BY <2>2 DEF Dirs
  <2>3. mdPc' = IF mdAwq'.saved = 4 THEN "checking awq" ELSE mdPc
    BY <1>0, <1>8 DEF MdSaveAwq, Whole
  <2>4. ~mdStatus.awq BY <2>1 DEF Settled
  <2>6. MdTypes' BY <2>1, <2>2 DEF MdTypes
  <2>7. Sourced'
    <3>1. mdPc' \in {"saving merged", "saving awq"} => mdPc' = "saving awq" /\ mdAwq'.saved # 4
      BY <2>1, <2>3
    <3>2. mdPc' = "saving awq" => mdModel'.source = "whole"
      BY <2>1, <2>3 DEF Sourced
    <3>3. mdPc' = "saving awq" => mdAwq'.saved < 4
      <4> SUFFICES ASSUME mdPc' = "saving awq" PROVE mdAwq'.saved < 4 OBVIOUS
      <4>1. mdAwq'.saved # 4 BY <3>1, Zenon
      <4> QED BY <2>5, <4>1, LessThanFour
    <3>6. mdPc' # "saving merged" BY <2>1, <2>3
    <3> QED BY <2>2, <3>2, <3>3, <3>6, Zenon DEF Sourced
  <2> QED BY <2>1, <2>4, <2>6, <2>7 DEF Settled, AwqIsUsable
<1>9. CASE MdCheckAwq
  <2> DEFINE good == /\ SizeOf(mdAwq) > 0 /\ SizeOf(mdMerged) >= MinRatio * SizeOf(mdAwq)
                     /\ Whole(mdAwq) /\ mdAwq.speaks
  <2>1. mdPc' = "idle" /\ UNCHANGED <<mdMerged, mdAwq, mdModel, mdAdapter>> /\ mdStatus' = [mdStatus EXCEPT !.awq = good]
    BY <1>9 DEF MdCheckAwq
  <2>2. good \in BOOLEAN BY Zenon DEF MdTypes, Dirs
  <2>3. good => /\ Whole(mdAwq) /\ mdAwq.speaks /\ mdAwq.source = "whole"
                /\ SizeOf(mdMerged) >= MinRatio * mdAwq.size /\ Exists(mdMerged, 1)
    <3>1. SUFFICES ASSUME good PROVE mdAwq.source = "whole" /\ SizeOf(mdMerged) >= MinRatio * mdAwq.size /\ Exists(mdMerged, 1)
      OBVIOUS
    <3>2. mdAwq.saved = 4 /\ Begun(mdAwq) BY <3>1, WholeIsBegun
    <3>3. mdAwq \in Dirs /\ mdMerged \in Dirs BY DEF MdTypes
    <3>4. SizeOf(mdMerged) > 0 BY <3>1, <3>3, SizeIsNat, PositiveProduct
    <3>5. SizeOf(mdAwq) = mdAwq.size BY <3>2, <3>3, SizeIsNat
    <3>6. mdAwq.source = "whole" BY <3>2 DEF Sourced
    <3> QED BY <3>1, <3>3, <3>4, <3>5, <3>6, SizeIsNat
  <2> HIDE DEF good
  <2>4. mdStatus' \in [merge : BOOLEAN, awq : BOOLEAN] /\ mdStatus'.awq = good
    BY <2>1, <2>2 DEF MdTypes
  <2>5. Settled' /\ AwqIsUsable'
    BY <2>1, <2>3, <2>4 DEF Settled, AwqIsUsable, Exists, Whole, SizeOf
  <2> QED BY <2>1, <2>4, <2>5 DEF MdTypes, Sourced
<1>10. CASE MdCrash
  <2>1. mdPc' = "idle" /\ mdPc # "idle" /\ UNCHANGED <<mdModel, mdAdapter, mdStatus>> BY <1>10 DEF MdCrash
  <2>2. ~mdStatus.awq BY <2>1 DEF Settled
  <2>3. mdMerged' \in Dirs
    <3>1. \/ mdMerged' = mdMerged
          \/ mdPc = "saving merged" /\ mdMerged' = [mdModel EXCEPT !.saved = mdMerged.saved, !.half = TRUE]
      BY <1>10 DEF MdCrash
    <3> QED BY <3>1 DEF MdTypes, Dirs, Sourced
  <2>4. mdAwq' \in Dirs /\ (Begun(mdAwq') => mdAwq'.source = "whole")
    <3>1. \/ mdAwq' = mdAwq
          \/ mdPc = "saving awq" /\ mdAwq' = [mdModel EXCEPT !.saved = mdAwq.saved, !.half = TRUE]
      BY <1>10 DEF MdCrash
    <3> QED BY <3>1 DEF MdTypes, Dirs, Sourced
  <2> QED BY <2>1, <2>2, <2>3, <2>4 DEF MdTypes, Sourced, Settled, AwqIsUsable, Begun
<1> QED BY <1>1, <1>2, <1>3, <1>4, <1>5, <1>6, <1>7, <1>8, <1>9, <1>10 DEF MdNext, MdStep

\* When quantize_awq.py ends with status 0, also on a directory it found
\* (src/tools/quantize_awq.py:104-175), the quantized model is whole, generates
\* text, was made from a merged model whose files were all written, and is MinRatio
\* times smaller than the merged one now is, for any sizes, datasets and numbers of commands and crashes.
THEOREM AwqIsUsableHolds == OfflineSpec => []AwqIsUsable
<1>1. OfflineInit => MdInv
  <2>1. NoDir \in Dirs /\ ~Begun(NoDir) BY DEF NoDir, Dirs, Begun
  <2>2. OfflineInit => /\ mdPc = "idle" /\ mdMerged = NoDir /\ mdAwq = NoDir /\ mdModel = NoDir /\ mdAdapter = FALSE
                       /\ mdStatus = [merge |-> FALSE, awq |-> FALSE]
    BY MdPart DEF MdInit
  <2>3. [merge |-> FALSE, awq |-> FALSE] \in [merge : BOOLEAN, awq : BOOLEAN] OBVIOUS
  <2>4. [merge |-> FALSE, awq |-> FALSE].awq = FALSE OBVIOUS
  <2> SUFFICES ASSUME OfflineInit PROVE MdInv OBVIOUS
  <2>5. ~mdStatus.awq /\ mdStatus \in [merge : BOOLEAN, awq : BOOLEAN] BY <2>2, <2>3, <2>4, Zenon
  <2> QED BY <2>1, <2>2, <2>5 DEF MdInv, MdTypes, Sourced, Settled, AwqIsUsable
<1>2. MdInv /\ [OfflineNext]_offlineVars => MdInv'
  BY MdPartStep, MdSteps
<1>3. MdInv => AwqIsUsable BY DEF MdInv
<1> QED BY <1>1, <1>2, <1>3, PTL DEF OfflineSpec

-----------------------------------------------------------------------------
(***************************************************************************)
(* The files of benchmark.py.  The run file is written before the summary  *)
(* and the report (RunWritten), and run files are never taken away.  A     *)
(* line behind one that a crash cut short spoils it and adds no row.       *)
(***************************************************************************)
LEMMA BmPart == OfflineInit => BmInit
  BY DEF OfflineInit
LEMMA BmPartStep == [OfflineNext]_offlineVars => [BmNext]_bmVars
  BY DEF OfflineNext, offlineVars, Ladder, Assembler, LogLine, Tools, Data, Sampling, Bench, Grpo, Models

\* The file that write makes of the slots in memory.
ThisRun == [stamp |-> bmStamp, slots |-> bmSlots, whole |-> TRUE]

\* The two conjuncts of SummaryBacked, for any set of run files.
BackedRow(line, runs) ==
  \E r \in runs : /\ r.whole /\ r.stamp = line.stamp
                  /\ \E j \in DOMAIN r.slots : line.slot = r.slots[j].slot /\ line.pass = r.slots[j].pass
BackedReport(q, runs) ==
  \E r \in runs : /\ r.whole /\ r.stamp = q.stamp
                  /\ IsPrefix(q.rows, Report(r.slots)) /\ (q.whole => q.rows = Report(r.slots))
IsBacked(line, runs) == line.kind = "row" => BackedRow(line, runs)
RowsBacked(lines, runs) == \A k \in DOMAIN lines : IsBacked(lines[k], runs)

BmTypes == IsSeq(bmSlots) /\ IsSeq(bmCsv.lines) /\ \A r \in bmRuns : IsSeq(r.slots)

OnDisk(runs) == \E r \in runs : r.whole /\ r.stamp = bmStamp /\ r.slots = bmSlots
RunWritten == bmPc \in {"csv", "md", "body"} => OnDisk(bmRuns)

BmInv ==
  /\ BmTypes /\ RunWritten
  /\ RowsBacked(bmCsv.lines, bmRuns)
  /\ \A q \in bmReports : BackedReport(q, bmRuns)

\* A concatenation holds nothing that neither part holds.
LEMMA Joined ==
  ASSUME NEW s, NEW t, IsSeq(s), IsSeq(t)
  PROVE  /\ IsSeq(s \o t)
         /\ \A k \in DOMAIN (s \o t) :
              (\E j \in DOMAIN s : (s \o t)[k] = s[j]) \/ (\E j \in DOMAIN t : (s \o t)[k] = t[j])
<1>1. PICK S : s \in Seq(S) BY DEF IsSeq
<1>2. PICK T : t \in Seq(T) BY DEF IsSeq
<1>3. s \in Seq(S \cup T) /\ t \in Seq(S \cup T) BY <1>1, <1>2
<1>4. s \o t \in Seq(S \cup T) BY <1>3
<1>5. ASSUME NEW k \in DOMAIN (s \o t)
      PROVE  (\E j \in DOMAIN s : (s \o t)[k] = s[j]) \/ (\E j \in DOMAIN t : (s \o t)[k] = t[j])
  BY <1>3, <1>5
<1> QED BY <1>4, <1>5 DEF IsSeq

\* Nor do the first lines, the first line, or those behind it.
LEMMA Prefix ==
  ASSUME NEW s, IsSeq(s), NEW n \in 0 .. Len(s)
  PROVE  /\ IsSeq(SubSeq(s, 1, n)) /\ Len(SubSeq(s, 1, n)) = n
         /\ \A k \in DOMAIN SubSeq(s, 1, n) : k \in DOMAIN s /\ SubSeq(s, 1, n)[k] = s[k]
<1>1. PICK S : s \in Seq(S) BY DEF IsSeq
<1>2. SubSeq(s, 1, n) \in Seq(S) BY <1>1
<1> QED BY <1>1, <1>2 DEF IsSeq
LEMMA FirstAndRest ==
  ASSUME NEW s, IsSeq(s), s # <<>>
  PROVE  /\ 1 \in DOMAIN s /\ Head(s) = s[1] /\ IsSeq(Tail(s))
         /\ \A k \in DOMAIN Tail(s) : k + 1 \in DOMAIN s /\ Tail(s)[k] = s[k + 1]
<1>1. PICK S : s \in Seq(S) BY DEF IsSeq
<1>2. Tail(s) \in Seq(S) BY <1>1
<1> QED BY <1>1, <1>2 DEF IsSeq

\* A line more, behind a whole line or behind one that was cut.
LEMMA AddLineBacked ==
  ASSUME NEW file, IsSeq(file), NEW runs, RowsBacked(file, runs), NEW line, IsBacked(line, runs)
  PROVE  IsSeq(AddLine(file, line)) /\ RowsBacked(AddLine(file, line), runs)
<1>1. IsSeq(AddLine(file, line))
  BY AddLineKeeps
<1>2. CASE file # <<>> /\ ~file[Len(file)].nl
  <2> DEFINE junk == Junk(line.nl)
  <2>1. AddLine(file, line) = [file EXCEPT ![Len(file)] = junk]
    BY <1>2 DEF AddLine
  <2>2. IsBacked(junk, runs)
    BY DEF Junk, IsBacked
  <2> HIDE DEF junk
  <2>3. ASSUME NEW k \in DOMAIN AddLine(file, line)
        PROVE  k \in DOMAIN file /\ (AddLine(file, line)[k] = junk \/ AddLine(file, line)[k] = file[k])
    BY <2>1
  <2> QED BY <1>1, <2>2, <2>3 DEF RowsBacked
<1>3. CASE ~ (file # <<>> /\ ~file[Len(file)].nl)
  <2>1. AddLine(file, line) = Append(file, line)
    BY <1>3 DEF AddLine
  <2>2. PICK S : file \in Seq(S)
    BY DEF IsSeq
  <2>3. \A k \in DOMAIN Append(file, line) :
          IF k \in DOMAIN file THEN Append(file, line)[k] = file[k] ELSE Append(file, line)[k] = line
    BY <2>2
  <2> QED BY <1>1, <2>1, <2>3 DEF RowsBacked
<1> QED BY <1>2, <1>3

LEMMA TornBacked ==
  ASSUME NEW file, IsSeq(file), NEW runs, RowsBacked(file, runs), NEW line, IsBacked(line, runs), NEW left \in Torn(file, line)
  PROVE  IsSeq(left) /\ RowsBacked(left, runs)
<1>1. IsBacked(Junk(FALSE), runs)
  BY DEF Junk, IsBacked
<1>2. IsBacked([line EXCEPT !.nl = FALSE], runs)
  <2> DEFINE cut == [line EXCEPT !.nl = FALSE]
  <2>1. cut.kind = line.kind /\ cut.stamp = line.stamp /\ cut.slot = line.slot /\ cut.pass = line.pass
    OBVIOUS
  <2> HIDE DEF cut
  <2> QED BY <2>1 DEF IsBacked, BackedRow
<1> QED BY <1>1, <1>2, AddLineBacked DEF Torn

\* The rows append_summary writes are the slots of this run, under its timestamp.
LEMMA SummaryLinesBacked ==
  ASSUME IsSeq(bmSlots), NEW runs, OnDisk(runs)
  PROVE  IsSeq(SummaryLines(bmStamp, bmSlots)) /\ RowsBacked(SummaryLines(bmStamp, bmSlots), runs)
<1> DEFINE head == IF bmCsv.exists THEN <<>> ELSE <<Header>>
           rows == [k \in DOMAIN bmSlots |-> Row(bmStamp, bmSlots[k])]
<1>1. PICK S : bmSlots \in Seq(S) BY DEF IsSeq
<1>2. DOMAIN bmSlots = 1 .. Len(bmSlots) /\ Len(bmSlots) \in Nat BY <1>1
<1>3. rows \in Seq({Row(bmStamp, bmSlots[k]) : k \in DOMAIN bmSlots}) BY <1>2
<1>4. head \in Seq({Header})
  <2> DEFINE header == Header
  <2> HIDE DEF header
  <2>1. <<>> \in Seq({header}) /\ <<header>> \in Seq({header}) OBVIOUS
  <2> QED BY <2>1, Zenon DEF header
<1>5. SummaryLines(bmStamp, bmSlots) = head \o rows BY DEF SummaryLines
<1>6. \A k \in DOMAIN head : IsBacked(head[k], runs)
  <2>1. IsBacked(Header, runs) BY DEF Header, IsBacked
  <2>2. \A k \in DOMAIN head : head[k] = Header OBVIOUS
  <2> QED BY <2>1, <2>2
<1>7. ASSUME NEW k \in DOMAIN rows PROVE IsBacked(rows[k], runs)
  <2>1. /\ k \in DOMAIN bmSlots /\ rows[k].stamp = bmStamp
        /\ rows[k].slot = bmSlots[k].slot /\ rows[k].pass = bmSlots[k].pass
    BY <1>7 DEF Row
  <2> HIDE DEF rows
  <2> QED BY <2>1 DEF OnDisk, IsBacked, BackedRow
<1> HIDE DEF head, rows
<1>8. IsSeq(head) /\ IsSeq(rows) BY <1>3, <1>4 DEF IsSeq
<1> QED BY <1>5, <1>6, <1>7, <1>8, Joined DEF RowsBacked

\* Lines that are backed, put behind the summary.
LEMMA NewLinesBacked ==
  ASSUME BmInv, NEW lines, IsSeq(lines), RowsBacked(lines, bmRuns)
  PROVE  IsSeq(AppendTo(bmCsv, lines).lines) /\ RowsBacked(AppendTo(bmCsv, lines).lines, bmRuns)
<1> DEFINE first == AddLine(bmCsv.lines, Head(lines))
<1>1. AppendTo(bmCsv, lines).lines = IF lines = <<>> THEN bmCsv.lines ELSE first \o Tail(lines)
  BY DEF AppendTo, Csv
<1>2. IsSeq(bmCsv.lines) /\ RowsBacked(bmCsv.lines, bmRuns)
  BY DEF BmInv, BmTypes
<1>3. ASSUME lines # <<>> PROVE IsSeq(first \o Tail(lines)) /\ RowsBacked(first \o Tail(lines), bmRuns)
  <2>1. IsBacked(Head(lines), bmRuns) /\ IsSeq(Tail(lines)) /\ RowsBacked(Tail(lines), bmRuns)
    BY <1>3, FirstAndRest DEF RowsBacked
  <2>2. IsSeq(first) /\ RowsBacked(first, bmRuns)
    BY <1>2, <2>1, AddLineBacked
  <2> HIDE DEF first
  <2> QED BY <2>1, <2>2, Joined DEF RowsBacked
<1> QED BY <1>1, <1>2, <1>3

\* A summary that was cut has no other rows.
LEMMA CutSummaryBacked ==
  ASSUME BmInv, bmPc = "csv", NEW left \in CutSummary
  PROVE  IsSeq(left) /\ RowsBacked(left, bmRuns)
<1> DEFINE lines == SummaryLines(bmStamp, bmSlots)
<1>1. PICK k \in 0 .. Len(lines) - 1 : left \in Torn(AppendTo(bmCsv, SubSeq(lines, 1, k)).lines, lines[k + 1])
  BY DEF CutSummary
<1>2. IsSeq(lines) /\ RowsBacked(lines, bmRuns)
  BY SummaryLinesBacked DEF BmInv, BmTypes, RunWritten
<1> HIDE DEF lines
<1>3. Len(lines) \in Nat /\ DOMAIN lines = 1 .. Len(lines)
  BY <1>2, AppendSeq
<1>4. k \in 0 .. Len(lines) /\ k + 1 \in DOMAIN lines
  BY <1>3
<1>5. IsSeq(SubSeq(lines, 1, k)) /\ RowsBacked(SubSeq(lines, 1, k), bmRuns)
  BY <1>2, <1>4, Prefix DEF RowsBacked
<1>6. IsBacked(lines[k + 1], bmRuns)
  BY <1>2, <1>4 DEF RowsBacked
<1> HIDE DEF CutSummary
<1>7. IsSeq(AppendTo(bmCsv, SubSeq(lines, 1, k)).lines) /\ RowsBacked(AppendTo(bmCsv, SubSeq(lines, 1, k)).lines, bmRuns)
  BY <1>5, NewLinesBacked
<1> QED BY <1>1, <1>6, <1>7, TornBacked

\* A new run file takes no backing away.
LEMMA RunsOnlyGrow ==
  ASSUME NEW new, bmRuns \subseteq new, BmInv
  PROVE  RowsBacked(bmCsv.lines, new) /\ \A q \in bmReports : BackedReport(q, new)
  BY Zenon DEF BmInv, RowsBacked, IsBacked, BackedRow, BackedReport

LEMMA ReportRows ==
  ASSUME NEW slots, IsSeq(slots)
  PROVE  IsSeq(Report(slots)) /\ Len(Report(slots)) = Len(slots) /\ Len(slots) \in Nat
<1> DEFINE n == Len(slots)
           rows == Report(slots)
<1>1. DOMAIN slots = 1 .. n /\ n \in Nat
  BY AppendSeq
<1>2. rows \in [1 .. n -> {rows[j] : j \in 1 .. n}]
  BY <1>1 DEF Report
<1> HIDE DEF n, rows
<1>3. rows \in Seq({rows[j] : j \in 1 .. n}) /\ Len(rows) = n
  BY <1>1, <1>2
<1> QED BY <1>1, <1>3 DEF IsSeq, n, rows

\* What is in the report of this run, however much of it, is its first rows.
LEMMA ReportBacked ==
  ASSUME IsSeq(bmSlots), NEW runs, OnDisk(runs), NEW k \in 0 .. Len(bmSlots),
         NEW q, q.stamp = bmStamp, q.rows = SubSeq(Report(bmSlots), 1, k), q.whole => k = Len(bmSlots)
  PROVE  BackedReport(q, runs)
<1> DEFINE rows == Report(bmSlots)
<1>1. PICK S : rows \in Seq(S) /\ Len(rows) = Len(bmSlots) /\ Len(rows) \in Nat
  BY ReportRows DEF IsSeq
<1> HIDE DEF rows
<1>2. IsPrefix(SubSeq(rows, 1, k), rows)
  <2>1. Len(SubSeq(rows, 1, k)) = k /\ k <= Len(rows) BY <1>1
  <2>2. SubSeq(SubSeq(rows, 1, k), 1, k) = SubSeq(rows, 1, k) BY <1>1
  <2> QED BY <2>1, <2>2 DEF IsPrefix
<1>3. k = Len(bmSlots) => SubSeq(rows, 1, k) = rows
  BY <1>1
<1> QED BY <1>2, <1>3 DEF OnDisk, BackedReport, rows

\* Only the report of this run changes.
LEMMA ReportPut ==
  ASSUME BmInv, NEW q, BackedReport(q, bmRuns), bmReports' \subseteq bmReports \cup {q}, UNCHANGED bmRuns
  PROVE  \A p \in bmReports' : BackedReport(p, bmRuns')
  BY DEF BmInv

\* Every action of Benchmark keeps the invariant.
LEMMA BmSteps == BmInv /\ [BmNext]_bmVars => BmInv'
<1> SUFFICES ASSUME BmInv, [BmNext]_bmVars PROVE BmInv'
  OBVIOUS
<1> USE DEF BmInv
<1>1. ASSUME UNCHANGED bmFiles, UNCHANGED <<bmStamp, bmSlots>>, bmPc' \notin {"csv", "md", "body"} \/ UNCHANGED bmPc
      PROVE  BmInv'
  BY <1>1 DEF bmFiles, BmTypes, RunWritten, OnDisk
<1>2. CASE UNCHANGED bmVars
  BY <1>1, <1>2 DEF bmVars, bmFiles
<1>3. CASE BmPrepared
  BY <1>1, <1>3 DEF BmPrepared
<1>4. CASE BmShutdown
  BY <1>1, <1>4 DEF BmShutdown
<1>5. ASSUME NEW k, BmPrepare(k) PROVE BmInv'
  BY <1>1, <1>5 DEF BmPrepare
<1>6. ASSUME NEW ids, NEW noVm, BmRun(ids, noVm) PROVE BmInv'
  <2>1. CASE UNCHANGED <<bmPc, bmStamp, bmSlots>>
    BY <1>1, <1>6, <2>1 DEF BmRun
  <2>2. CASE bmSlots' = <<>> /\ bmPc' \in {"running", "booting"}
    <3>1. <<>> \in Seq({}) OBVIOUS
    <3>2. UNCHANGED bmFiles /\ IsSeq(bmSlots')
      BY <1>6, <2>2, <3>1 DEF BmRun, IsSeq
    <3> QED BY <2>2, <3>2 DEF bmFiles, BmTypes, RunWritten
  <2> QED BY <1>6, <2>1, <2>2 DEF BmRun
<1>7. ASSUME NEW boots, BmBoot(boots) PROVE BmInv'
  BY <1>1, <1>7 DEF BmBoot
<1>8. ASSUME NEW state, BmVmFails(state) PROVE BmInv'
  BY <1>1, <1>8 DEF BmVmFails
<1>9. ASSUME NEW accepted, BmSlot(accepted) PROVE BmInv'
  <2> DEFINE new == [slot |-> Head(bmPlan), pass |-> <<accepted, N>>]
  <2>1. bmSlots' = Append(bmSlots, new) BY <1>9 DEF BmSlot
  <2>2. IsSeq(bmSlots')
    BY <2>1, AppendSeq DEF BmTypes
  <2>3. UNCHANGED bmFiles /\ bmPc' = "running"
    BY <1>9 DEF BmSlot
  <2> QED BY <2>2, <2>3 DEF bmFiles, BmTypes, RunWritten
<1>10. ASSUME NEW raises, BmSlotsEnd(raises) PROVE BmInv'
  BY <1>1, <1>10 DEF BmSlotsEnd
<1>11. CASE BmWriteRun
  <2>1. bmRuns' = bmRuns \cup {ThisRun} /\ UNCHANGED <<bmSlots, bmStamp, bmCsv, bmReports>> /\ bmPc' = "csv"
    BY <1>11 DEF BmWriteRun, ThisRun
  <2>2. ThisRun.whole /\ ThisRun.stamp = bmStamp /\ ThisRun.slots = bmSlots BY DEF ThisRun
  <2>3. RowsBacked(bmCsv.lines, bmRuns') /\ \A q \in bmReports : BackedReport(q, bmRuns')
    BY <2>1, RunsOnlyGrow
  <2>4. BmTypes' BY <2>1, <2>2 DEF BmTypes
  <2> HIDE DEF ThisRun
  <2>5. RunWritten' BY <2>1, <2>2 DEF RunWritten, OnDisk
  <2> QED BY <2>1, <2>3, <2>4, <2>5
<1>12. CASE BmAppendSummary
  <2> DEFINE lines == SummaryLines(bmStamp, bmSlots)
  <2>1. bmCsv' = AppendTo(bmCsv, lines) /\ UNCHANGED <<bmSlots, bmStamp, bmRuns, bmReports>>
        /\ bmPc' = "md" /\ bmPc = "csv"
    BY <1>12 DEF BmAppendSummary
  <2>2. IsSeq(lines) /\ RowsBacked(lines, bmRuns) BY <2>1, SummaryLinesBacked DEF BmTypes, RunWritten
  <2> HIDE DEF lines
  <2>3. IsSeq(bmCsv'.lines) /\ RowsBacked(bmCsv'.lines, bmRuns')
    BY <2>1, <2>2, NewLinesBacked
  <2>4. RunWritten' BY <2>1 DEF RunWritten, OnDisk
  <2> QED BY <2>1, <2>3, <2>4 DEF BmTypes
<1>13. CASE BmOpenReport \/ BmWriteReport
  <2>1. OnDisk(bmRuns) /\ UNCHANGED <<bmSlots, bmStamp, bmRuns, bmCsv>>
    BY <1>13 DEF BmOpenReport, BmWriteReport, RunWritten
  <2>2. SubSeq(Report(bmSlots), 1, 0) = <<>> /\ SubSeq(Report(bmSlots), 1, Len(bmSlots)) = Report(bmSlots)
        /\ Len(bmSlots) \in Nat
    <3>1. PICK S : Report(bmSlots) \in Seq(S) BY ReportRows DEF BmTypes, IsSeq
    <3>2. Len(Report(bmSlots)) = Len(bmSlots) /\ Len(bmSlots) \in Nat BY ReportRows DEF BmTypes
    <3> QED BY <3>1, <3>2
  <2>3. CASE BmOpenReport
    <3> DEFINE q == [stamp |-> bmStamp, rows |-> <<>>, whole |-> FALSE]
    <3>1. bmReports' \subseteq bmReports \cup {q}
      BY <2>3 DEF BmOpenReport, PutReport
    <3>2. q.stamp = bmStamp /\ q.rows = <<>> /\ ~q.whole
      OBVIOUS
    <3> HIDE DEF q
    <3>3. BackedReport(q, bmRuns)
      <4>1. 0 \in 0 .. Len(bmSlots) /\ q.rows = SubSeq(Report(bmSlots), 1, 0)
        BY <2>2, <3>2
      <4>2. q.whole => 0 = Len(bmSlots)
        BY <3>2
      <4> QED BY <2>1, <3>2, <4>1, <4>2, ReportBacked DEF BmTypes
    <3>4. \A p \in bmReports' : BackedReport(p, bmRuns')
      BY <2>1, <3>1, <3>3, ReportPut
    <3> QED BY <2>1, <3>4 DEF BmTypes, RunWritten, OnDisk
  <2>4. CASE BmWriteReport
    <3> DEFINE q == [stamp |-> bmStamp, rows |-> Report(bmSlots), whole |-> TRUE]
    <3>1. bmReports' \subseteq bmReports \cup {q}
      BY <2>4 DEF BmWriteReport, PutReport
    <3>2. q.stamp = bmStamp /\ q.rows = Report(bmSlots)
      OBVIOUS
    <3> HIDE DEF q
    <3>3. BackedReport(q, bmRuns)
      BY <2>1, <2>2, <3>2, ReportBacked DEF BmTypes
    <3>4. \A p \in bmReports' : BackedReport(p, bmRuns')
      BY <2>1, <3>1, <3>3, ReportPut
    <3> QED BY <2>1, <3>4 DEF BmTypes, RunWritten, OnDisk
  <2> QED BY <1>13, <2>3, <2>4
<1>14. ASSUME NEW r, BmReport(r) PROVE BmInv'
  <2>1. UNCHANGED bmFiles /\ r \in bmRuns /\ bmPc = "idle"
    BY <1>14 DEF BmReport
  <2>2. CASE UNCHANGED <<bmPc, bmStamp, bmSlots>>
    BY <1>1, <2>1, <2>2
  <2>3. CASE r.whole /\ bmStamp' = r.stamp /\ bmSlots' = r.slots /\ UNCHANGED bmRuns
    <3>1. RunWritten'
      BY <2>1, <2>3 DEF RunWritten, OnDisk
    <3> QED BY <2>1, <2>3, <3>1 DEF bmFiles, BmTypes
  <2> QED BY <1>14, <2>1, <2>2, <2>3 DEF BmReport, bmFiles
<1>15. CASE BmCrash
  <2>1. bmPc' = "idle" /\ UNCHANGED <<bmSlots, bmStamp>> BY <1>15 DEF BmCrash
  <2>2. RunWritten' BY <2>1 DEF RunWritten
  <2>3. CASE UNCHANGED bmFiles
    BY <1>1, <2>1, <2>3
  <2>4. CASE UNCHANGED <<bmCsv, bmReports>> /\ bmRuns' = bmRuns \cup {CutRun}
    <3>1. RowsBacked(bmCsv.lines, bmRuns') /\ \A q \in bmReports : BackedReport(q, bmRuns')
      BY <2>4, RunsOnlyGrow
    <3>2. IsSeq(CutRun.slots)
      <4>1. <<>> \in Seq({}) OBVIOUS
      <4> QED BY <4>1 DEF CutRun, IsSeq
    <3> QED BY <2>1, <2>2, <2>4, <3>1, <3>2 DEF BmTypes
  <2>5. ASSUME bmPc = "csv", UNCHANGED <<bmRuns, bmReports>>, NEW lines \in CutSummary, bmCsv' = Csv(lines)
        PROVE  BmInv'
    <3>1. bmCsv'.lines = lines
      BY <2>5 DEF Csv
    <3> HIDE DEF CutSummary
    <3>2. IsSeq(lines) /\ RowsBacked(lines, bmRuns)
      BY <2>5, CutSummaryBacked
    <3> QED BY <2>1, <2>2, <2>5, <3>1, <3>2 DEF BmTypes
  <2>6. ASSUME bmPc = "body", UNCHANGED <<bmRuns, bmCsv>>, NEW k \in 0 .. Len(bmSlots),
               bmReports' = PutReport(bmStamp, SubSeq(Report(bmSlots), 1, k), FALSE)
        PROVE  BmInv'
    <3> DEFINE q == [stamp |-> bmStamp, rows |-> SubSeq(Report(bmSlots), 1, k), whole |-> FALSE]
    <3>1. OnDisk(bmRuns)
      BY <2>6 DEF RunWritten
    <3>2. bmReports' \subseteq bmReports \cup {q}
      BY <2>6 DEF PutReport
    <3>3. q.stamp = bmStamp /\ q.rows = SubSeq(Report(bmSlots), 1, k) /\ ~q.whole
      OBVIOUS
    <3> HIDE DEF q
    <3>4. BackedReport(q, bmRuns)
      BY <3>1, <3>3, ReportBacked DEF BmTypes
    <3>5. \A p \in bmReports' : BackedReport(p, bmRuns')
      BY <2>6, <3>2, <3>4, ReportPut
    <3> QED BY <2>1, <2>2, <2>6, <3>5 DEF BmTypes
  <2>7. \/ UNCHANGED bmFiles
        \/ UNCHANGED <<bmCsv, bmReports>> /\ bmRuns' = bmRuns \cup {CutRun}
        \/ bmPc = "csv" /\ UNCHANGED <<bmRuns, bmReports>> /\ \E lines \in CutSummary : bmCsv' = Csv(lines)
        \/ /\ bmPc = "body" /\ UNCHANGED <<bmRuns, bmCsv>>
           /\ \E k \in 0 .. Len(bmSlots) : bmReports' = PutReport(bmStamp, SubSeq(Report(bmSlots), 1, k), FALSE)
    BY <1>15, Zenon DEF BmCrash
  <2> QED BY <2>3, <2>4, <2>5, <2>6, <2>7
<1> QED
  BY <1>2, <1>3, <1>4, <1>5, <1>6, <1>7, <1>8, <1>9, <1>10, <1>11, <1>12, <1>13, <1>14, <1>15 DEF BmNext, BmStep

\* Every row of summary.csv is a slot of a run file that is whole, and every
\* report shows the first rows of what its run file gives, all of them when its
\* command came to its end (src/tools/benchmark.py:261-268, 336-347), for any
\* configurations, numbers of slots and commands, and crashes in the middle of
\* any line of any file.
THEOREM SummaryBackedHolds == OfflineSpec => []SummaryBacked
<1>1. OfflineInit => BmInv
  <2>1. <<>> \in Seq({}) OBVIOUS
  <2>2. OfflineInit => bmSlots = <<>> /\ bmCsv.lines = <<>> /\ bmRuns = {} /\ bmReports = {} /\ bmPc = "idle"
    BY BmPart DEF BmInit, Absent
  <2> SUFFICES ASSUME OfflineInit PROVE BmInv OBVIOUS
  <2>3. BmTypes /\ RunWritten
    <3>1. IsSeq(<<>>) BY <2>1, Zenon DEF IsSeq
    <3>2. IsSeq(bmSlots) /\ IsSeq(bmCsv.lines) BY <2>2, <3>1, Zenon
    <3> QED BY <2>2, <3>2 DEF BmTypes, RunWritten
  <2>4. RowsBacked(bmCsv.lines, bmRuns)
    <3>1. DOMAIN bmCsv.lines = {} BY <2>2
    <3> QED BY <3>1, Zenon DEF RowsBacked
  <2>5. \A q \in bmReports : BackedReport(q, bmRuns) BY <2>2
  <2> QED BY <2>3, <2>4, <2>5, Zenon DEF BmInv
<1>2. BmInv /\ [OfflineNext]_offlineVars => BmInv'
  BY BmPartStep, BmSteps
<1>3. BmInv => SummaryBacked
  <2> SUFFICES ASSUME BmInv PROVE SummaryBacked OBVIOUS
  <2>1. ASSUME NEW line \in Range(bmCsv.lines), line.kind = "row" PROVE BackedRow(line, bmRuns)
    BY <2>1 DEF BmInv, RowsBacked, IsBacked, Range
  <2> QED BY <2>1, Zenon DEF BmInv, BackedRow, BackedReport, SummaryBacked
<1> QED BY <1>1, <1>2, <1>3, PTL DEF OfflineSpec

-----------------------------------------------------------------------------
(***************************************************************************)
(* The tools that generate and judge programs.  Each file holds records of *)
(* one kind only (OtTyped), the verdicts in memory are those of the        *)
(* programs at their places (VerdictsOwn), and the tallies of the race are *)
(* ahead of every row it has written (RaceAhead).                          *)
(***************************************************************************)
LEMMA OtPart == OfflineInit => OtInit
  BY DEF OfflineInit
LEMMA OtPartStep == [OfflineNext]_offlineVars => [OtNext]_otVars
  BY DEF OfflineNext, offlineVars, Ladder, Assembler, LogLine, Tools, Data, Sampling, Bench, Grpo, Models

File(S) == [exists : BOOLEAN, rows : Seq(S), torn : BOOLEAN]

\* What a pass rate may say of a program.
OwnVerdicts(hex) == {"SKIPPED"} \cup IF hex = NoCode THEN {} ELSE {Kernel(hex).verdict}

\* The records that are about one program.
PassratesOf(text) ==
  [of : {text}, compiled : {b \in BOOLEAN : b <=> CompileToHex(text) # NoCode},
   verdict : OwnVerdicts(CompileToHex(text))]
BytecodesOf(text) ==
  [id : Nat, of : {text}, clang : {CompileToHex(text)}, encoder : {EncodePath(text)}]
Judgements(hex) == {Judged(hex, TRUE), Judged(hex, FALSE)}
ValidatedOf(text) ==
  [of : {text}, clang : Judgements(CompileToHex(text)), encoder : Judgements(EncodePath(text))]
CorpusOf(text) ==
  [of : {text}, hex : {EncodePlain(text)} \ {NoCode},
   verdict : {"none", Kernel(EncodePlain(text)).verdict}, pcs : {{}, Kernel(EncodePlain(text)).pcs}]

PassrateRows == UNION {PassratesOf(text) : text \in Texts}
BytecodeRows == UNION {BytecodesOf(text) : text \in Texts}
ValidatedRows == UNION {ValidatedOf(text) : text \in Texts}
CorpusRows == UNION {CorpusOf(text) : text \in Texts}
SummaryRows ==
  {line \in [n : Nat, compiled : Nat, accepted : Nat] :
     line.accepted <= line.compiled /\ line.compiled <= line.n}
RaceRows ==
  {row \in [submitted : Nat, valid : Nat, pcs_valid : Nat, pcs_all : Nat] :
     row.valid <= row.submitted /\ row.pcs_valid <= row.pcs_all}

OtTyped ==
  /\ otTexts \in Seq(Texts) /\ otAt \in Nat
  /\ otPassrate \in File(PassrateRows) /\ otSummary \in File(SummaryRows)
  /\ otBytecodes \in File(BytecodeRows) /\ otValidated \in File(ValidatedRows)
  /\ otCorpus \in File(CorpusRows) /\ otRace \in File(RaceRows)

VerdictsOwn ==
  otPc \in {"csv", "summary"} =>
    /\ Len(otTexts) = NumPrograms /\ DOMAIN otVerdicts = DOMAIN otTexts
    /\ \A i \in DOMAIN otTexts : otVerdicts[i] \in OwnVerdicts(CompileToHex(otTexts[i]))

Tally(stat) == DOMAIN stat = {"n", "accepted", "pcs"} /\ stat.accepted \in Nat /\ IsFiniteSet(stat.pcs)

\* One row of the race is at most another.
AtMost(low, high) ==
  low.valid <= high.valid /\ low.pcs_valid <= high.pcs_valid /\ low.pcs_all <= high.pcs_all

RaceGrows ==
  \A k \in DOMAIN otRace.rows :
    k > 1 => /\ otRace.rows[k - 1].submitted < otRace.rows[k].submitted
             /\ AtMost(otRace.rows[k - 1], otRace.rows[k])

RaceAhead ==
  otPc = "race" =>
    /\ DOMAIN otStat = {"clang", "encoder"} /\ Tally(otStat.clang) /\ Tally(otStat.encoder)
    /\ otStat.clang.pcs \subseteq otStat.encoder.pcs /\ otStat.clang.accepted <= otAt
    /\ \A k \in DOMAIN otRace.rows :
         otRace.rows[k].submitted <= otAt /\ AtMost(otRace.rows[k], RaceRow(otAt, otStat))

OtInv == OtTyped /\ VerdictsOwn /\ RaceGrows /\ RaceAhead

-----------------------------------------------------------------------------
\* So Compilable lists the programs that compiled.
LEMMA CompilableIs ==
  ASSUME otTexts \in Seq(Texts)
  PROVE  /\ IsFiniteSet(Compiled) /\ Cardinality(Compiled) \in Nat
         /\ Cardinality(Compiled) <= Len(otTexts)
         /\ Compilable \in [1 .. Cardinality(Compiled) -> Compiled]
         /\ Len(Compilable) = Cardinality(Compiled)
<1>1. Compiled \in SUBSET (1 .. Len(otTexts)) /\ Len(otTexts) \in Nat
  BY DEF Compiled
<1>2. IsFiniteSet(1 .. Len(otTexts)) /\ Cardinality(1 .. Len(otTexts)) = Len(otTexts)
  BY <1>1, FS_Interval
<1>3. IsFiniteSet(Compiled) /\ Cardinality(Compiled) \in Nat /\ Cardinality(Compiled) <= Len(otTexts)
  BY <1>1, <1>2, FS_Subset, FS_CardinalityType
<1>4. InOrder(Compiled) \in Bijection(1 .. Cardinality(Compiled), Compiled)
  BY <1>1, <1>3, InOrderIs
<1> QED BY <1>3, <1>4 DEF Compilable, Bijection, Injection

\* A verdict is put where its program is.
LEMMA VerdictsPlaced ==
  ASSUME otTexts \in Seq(Texts), NEW answered \in Nat, answered <= Len(Compilable),
         NEW i \in DOMAIN otTexts
  PROVE  Zipped(Compilable, [k \in 1 .. answered |-> Kernel(CompileToHex(otTexts[Compilable[k]])).verdict])[i]
           \in OwnVerdicts(CompileToHex(otTexts[i]))
<1> DEFINE answers == [k \in 1 .. answered |-> Kernel(CompileToHex(otTexts[Compilable[k]])).verdict]
           found == CHOOSE k \in DOMAIN answers : Compilable[k] = i
<1>1. CASE \E k \in DOMAIN answers : Compilable[k] = i
  <2>1. found \in 1 .. answered /\ Compilable[found] = i
    BY <1>1
  <2>2. found \in 1 .. Cardinality(Compiled)
    BY <2>1, CompilableIs
  <2>3. i \in Compiled
    BY <2>1, <2>2, CompilableIs
  <2>4. CompileToHex(otTexts[i]) # NoCode
    BY <2>3 DEF Compiled
  <2>5. answers[found] = Kernel(CompileToHex(otTexts[i])).verdict
    BY <2>1
  <2>6. Zipped(Compilable, answers)[i] = answers[found]
    BY <1>1 DEF Zipped
  <2> HIDE DEF answers, found
  <2> QED BY <2>4, <2>5, <2>6 DEF OwnVerdicts, answers
<1>2. CASE ~ \E k \in DOMAIN answers : Compilable[k] = i
  <2>1. Zipped(Compilable, answers)[i] = "SKIPPED"
    BY <1>2 DEF Zipped
  <2> QED BY <2>1 DEF OwnVerdicts
<1> QED BY <1>1, <1>2

-----------------------------------------------------------------------------
\* What the writers do to a file keeps its records of one kind.
LEMMA FilesOf ==
  ASSUME NEW S, NEW file \in File(S), NEW row \in S
  PROVE  Kept(file, row) \in File(S)
<1>1. Append(file.rows, row) \in Seq(S)
  BY DEF File
<1>2. Kept(file, row) = IF file.torn THEN [file EXCEPT !.torn = FALSE] ELSE [file EXCEPT !.rows = Append(file.rows, row)]
  BY DEF Kept
<1>3. file = [exists |-> file.exists, rows |-> file.rows, torn |-> file.torn]
  BY DEF File
<1> QED BY <1>1, <1>2, <1>3 DEF File

LEMMA FilesBegun ==
  ASSUME NEW S
  PROVE  /\ NewFile \in File(S) /\ NoFile \in File(S)
         /\ \A file \in File(S) : [file EXCEPT !.exists = TRUE] \in File(S) /\ OrTorn(file) \subseteq File(S)
<1>1. <<>> \in Seq(S)
  OBVIOUS
<1> QED BY <1>1 DEF NewFile, NoFile, OrTorn, File

\* A step that leaves the files and the texts alone, and goes to a place about
\* which the invariant says nothing.
LEMMA OtQuiet ==
  ASSUME OtInv, UNCHANGED otFiles, otTexts' \in Seq(Texts), otAt' \in Nat,
         otPc' \notin {"csv", "summary", "race"}
  PROVE  OtInv'
  BY DEF OtInv, OtTyped, VerdictsOwn, RaceGrows, RaceAhead, otFiles

LEMMA EpSteps ==
  ASSUME OtInv
  PROVE  /\ \A skipVm \in BOOLEAN, reachable \in BOOLEAN : EpStart(skipVm, reachable) => OtInv'
         /\ \A text \in Texts : EpGenerate(text) => OtInv'
         /\ \A answered \in 0 .. NumPrograms : EpValidate(answered) => OtInv'
         /\ EpRaises => OtInv'
         /\ EpCsv => OtInv'
         /\ EpSummary => OtInv'
<1>0. OtTyped /\ <<>> \in Seq(Texts)
  BY DEF OtInv
<1>1. ASSUME NEW skipVm \in BOOLEAN, NEW reachable \in BOOLEAN, EpStart(skipVm, reachable) PROVE OtInv'
  BY <1>0, <1>1, OtQuiet DEF EpStart, OtStart
<1>2. ASSUME NEW text \in Texts, EpGenerate(text) PROVE OtInv'
  BY <1>0, <1>2, OtQuiet DEF EpGenerate, OtTyped
<1>3. ASSUME NEW answered \in 0 .. NumPrograms, EpValidate(answered) PROVE OtInv'
  <2> DEFINE answers == [k \in 1 .. answered |-> Kernel(CompileToHex(otTexts[Compilable[k]])).verdict]
  <2>1. /\ Len(otTexts) = NumPrograms /\ answered <= Len(Compilable) /\ otPc' = "csv"
        /\ UNCHANGED <<otTexts, otAt, otFiles>> /\ otVerdicts' = Zipped(Compilable, answers)
    BY <1>3 DEF EpValidate, WithVerdicts
  <2>2. answered \in Nat
    BY ToolsAssumption
  <2>3. \A i \in DOMAIN otTexts : Zipped(Compilable, answers)[i] \in OwnVerdicts(CompileToHex(otTexts[i]))
    BY <1>0, <2>1, <2>2, VerdictsPlaced DEF OtTyped
  <2>4. DOMAIN Zipped(Compilable, answers) = DOMAIN otTexts
    BY DEF Zipped
  <2> HIDE DEF answers
  <2>5. VerdictsOwn'
    BY <2>1, <2>3, <2>4 DEF VerdictsOwn
  <2> QED BY <2>1, <2>5 DEF OtInv, OtTyped, RaceGrows, RaceAhead, otFiles
<1>4. CASE EpRaises
  BY <1>0, <1>4, OtQuiet DEF EpRaises, OtTyped
<1>5. CASE EpCsv
  <2>1. /\ otPc = "csv" /\ otPc' = "summary" /\ UNCHANGED <<otVerdicts, otTexts, otAt, otSummary, otBytecodes, otValidated, otCorpus, otRace>>
        /\ otPassrate' = [NewFile EXCEPT !.rows = [i \in DOMAIN otTexts |-> PassrateRow(i)]]
    BY <1>5 DEF EpCsv
  <2>2. [i \in DOMAIN otTexts |-> PassrateRow(i)] \in Seq(PassrateRows)
    <3>1. ASSUME NEW i \in DOMAIN otTexts PROVE PassrateRow(i) \in PassrateRows
      <4>1. otVerdicts[i] \in OwnVerdicts(CompileToHex(otTexts[i])) /\ otTexts[i] \in Texts
        BY <1>0, <2>1 DEF OtInv, VerdictsOwn, OtTyped
      <4>2. PassrateRow(i) \in PassratesOf(otTexts[i])
        BY <4>1 DEF PassrateRow, PassratesOf
      <4> QED BY <4>1, <4>2 DEF PassrateRows
    <3>2. DOMAIN otTexts = 1 .. Len(otTexts) /\ Len(otTexts) \in Nat
      BY <1>0 DEF OtTyped
    <3> QED BY <3>1, <3>2
  <2>3. otPassrate' \in File(PassrateRows)
    BY <2>1, <2>2 DEF NewFile, File
  <2> QED BY <2>1, <2>3 DEF OtInv, OtTyped, VerdictsOwn, RaceGrows, RaceAhead
<1>6. CASE EpSummary
  <2> DEFINE line == [n |-> Len(otTexts), compiled |-> Len(Compilable),
                      accepted |-> Quantify(DOMAIN otVerdicts, LAMBDA i : otVerdicts[i] = "ACCEPTED")]
  <2>1. /\ otPc = "summary" /\ otPc' = "idle"
        /\ UNCHANGED <<otTexts, otAt, otPassrate, otBytecodes, otValidated, otCorpus, otRace>>
        /\ otSummary' = [Kept(otSummary, line) EXCEPT !.exists = TRUE]
    BY <1>6 DEF EpSummary
  <2>2. line \in SummaryRows
    <3> DEFINE accepted == {i \in DOMAIN otVerdicts : otVerdicts[i] = "ACCEPTED"}
    <3>1. accepted \in SUBSET Compiled
      BY <2>1 DEF OtInv, VerdictsOwn, OwnVerdicts, Compiled
    <3>2. Cardinality(accepted) \in Nat /\ Cardinality(accepted) <= Cardinality(Compiled)
      BY <1>0, <3>1, CompilableIs, FS_Subset, FS_CardinalityType DEF OtTyped
    <3>3. Len(Compilable) = Cardinality(Compiled) /\ Cardinality(Compiled) <= Len(otTexts)
          /\ Len(otTexts) \in Nat /\ Cardinality(Compiled) \in Nat
      BY <1>0, CompilableIs DEF OtTyped
    <3>4. line = [n |-> Len(otTexts), compiled |-> Len(Compilable), accepted |-> Cardinality(accepted)]
      BY DEF Quantify
    <3> HIDE DEF line, accepted
    <3> QED BY <3>2, <3>3, <3>4 DEF SummaryRows
  <2> HIDE DEF line
  <2>3. otSummary' \in File(SummaryRows)
    BY <1>0, <2>1, <2>2, FilesOf, FilesBegun DEF OtTyped
  <2> QED BY <2>1, <2>3 DEF OtInv, OtTyped, VerdictsOwn, RaceGrows, RaceAhead
<1> QED BY <1>1, <1>2, <1>3, <1>4, <1>5, <1>6

LEMMA GbSteps ==
  ASSUME OtInv
  PROVE  /\ GbStart => OtInv'
         /\ \A text \in Texts : GbGenerate(text) => OtInv'
         /\ GbWrite => OtInv'
<1>0. OtTyped /\ <<>> \in Seq(Texts)
  BY DEF OtInv
<1>1. CASE GbStart
  BY <1>0, <1>1, OtQuiet DEF GbStart, OtStart
<1>2. ASSUME NEW text \in Texts, GbGenerate(text) PROVE OtInv'
  <2>1. otTexts' \in Seq(Texts) /\ otBytecodes' \in File(BytecodeRows)
    BY <1>0, <1>2, FilesBegun DEF GbGenerate, OtTyped
  <2> QED BY <1>2, <2>1 DEF GbGenerate, OtInv, OtTyped, VerdictsOwn, RaceGrows, RaceAhead
<1>3. CASE GbWrite
  <2>1. otPc' \in {"idle", "bytecodes"} /\ otAt' \in Nat
    BY <1>0, <1>3 DEF GbWrite, OtTyped
  <2>2. otBytecodes' \in File(BytecodeRows)
    <3>1. CASE otAt < NumPrograms
      <4>1. otAt + 1 \in DOMAIN otTexts /\ otAt + 1 \in Nat
        BY <1>0, <1>3, <3>1 DEF GbWrite, OtTyped
      <4>2. otTexts[otAt + 1] \in Texts
        BY <1>0, <4>1 DEF OtTyped
      <4>3. Record(otAt + 1) \in BytecodesOf(otTexts[otAt + 1])
        BY <4>1 DEF Record, BytecodesOf
      <4>4. Record(otAt + 1) \in BytecodeRows
        BY <4>2, <4>3 DEF BytecodeRows
      <4> QED BY <1>0, <1>3, <3>1, <4>4, FilesOf DEF GbWrite, OtTyped
    <3>2. CASE ~ (otAt < NumPrograms)
      BY <1>0, <1>3, <3>2 DEF GbWrite, OtTyped
    <3> QED BY <3>1, <3>2
  <2> QED BY <1>3, <2>1, <2>2 DEF GbWrite, OtInv, OtTyped, VerdictsOwn, RaceGrows, RaceAhead
<1> QED BY <1>1, <1>2, <1>3

LEMMA VbSteps ==
  ASSUME OtInv
  PROVE  /\ \A reachable \in BOOLEAN : VbStart(reachable) => OtInv'
         /\ \A clang \in BOOLEAN, encoder \in BOOLEAN : VbRecord(clang, encoder) => OtInv'
         /\ VbDone => OtInv'
<1>0. OtTyped /\ <<>> \in Seq(Texts)
  BY DEF OtInv
<1>1. ASSUME NEW reachable \in BOOLEAN, VbStart(reachable) PROVE OtInv'
  <2>1. otTexts' = <<>> /\ otAt' = 0 /\ otPc' \in {"idle", "validating"}
    BY <1>1 DEF VbStart, OtStart
  <2>2. otValidated' \in File(ValidatedRows)
    BY <1>0, <1>1, FilesBegun DEF VbStart, OtTyped
  <2> QED BY <1>0, <1>1, <2>1, <2>2 DEF VbStart, OtInv, OtTyped, VerdictsOwn, RaceGrows, RaceAhead
<1>2. ASSUME NEW clang \in BOOLEAN, NEW encoder \in BOOLEAN, VbRecord(clang, encoder) PROVE OtInv'
  <2> DEFINE r == otBytecodes.rows[otAt + 1]
             new == [of |-> r.of, clang |-> Judged(r.clang, clang), encoder |-> Judged(r.encoder, encoder)]
  <2>1. otPc = "validating" /\ otAt < Len(otBytecodes.rows) /\ otValidated' = Kept(otValidated, new)
        /\ otAt' = otAt + 1 /\ UNCHANGED <<otPc, otTexts, otPassrate, otSummary, otBytecodes, otCorpus, otRace>>
    BY <1>2 DEF VbRecord
  <2>2. r \in BytecodeRows
    BY <1>0, <2>1 DEF OtTyped, File
  <2>3. new \in ValidatedRows
    <3>1. PICK text \in Texts : r \in BytecodesOf(text)
      BY <2>2 DEF BytecodeRows
    <3>2. r.of = text /\ r.clang = CompileToHex(text) /\ r.encoder = EncodePath(text)
      BY <3>1 DEF BytecodesOf
    <3>3. \A hex : Judged(hex, clang) \in Judgements(hex) /\ Judged(hex, encoder) \in Judgements(hex)
      BY DEF Judgements
    <3> HIDE DEF r
    <3>4. new \in ValidatedOf(text)
      BY <3>2, <3>3 DEF ValidatedOf
    <3> QED BY <3>4 DEF ValidatedRows
  <2> HIDE DEF new
  <2>4. otValidated' \in File(ValidatedRows)
    BY <1>0, <2>1, <2>3, FilesOf DEF OtTyped
  <2> QED BY <1>0, <2>1, <2>4 DEF OtInv, OtTyped, VerdictsOwn, RaceGrows, RaceAhead
<1>3. CASE VbDone
  BY <1>0, <1>3, OtQuiet DEF VbDone, OtTyped
<1> QED BY <1>1, <1>2, <1>3

LEMMA CpSteps ==
  ASSUME OtInv
  PROVE  /\ \A validate \in BOOLEAN : CpStart(validate) => OtInv'
         /\ \A text \in Texts, answered \in BOOLEAN : CpStep(text, answered) => OtInv'
         /\ CpDone => OtInv'
<1>0. OtTyped /\ <<>> \in Seq(Texts)
  BY DEF OtInv
<1>1. ASSUME NEW validate \in BOOLEAN, CpStart(validate) PROVE OtInv'
  <2>1. otTexts' = <<>> /\ otAt' = 0 /\ otPc' = "corpus"
    BY <1>1 DEF CpStart, OtStart
  <2>2. otCorpus' \in File(CorpusRows)
    BY <1>0, <1>1, FilesBegun DEF CpStart, OtTyped
  <2> QED BY <1>0, <1>1, <2>1, <2>2 DEF CpStart, OtInv, OtTyped, VerdictsOwn, RaceGrows, RaceAhead
<1>2. ASSUME NEW text \in Texts, NEW answered \in BOOLEAN, CpStep(text, answered) PROVE OtInv'
  <2> DEFINE row == CorpusRow(text, answered)
  <2>1. otCorpus' \in File(CorpusRows)
    <3>1. CASE InsnCount(EncodePlain(text)) < MinInsns
      BY <1>0, <1>2, <3>1 DEF CpStep, OtTyped
    <3>2. CASE ~ (InsnCount(EncodePlain(text)) < MinInsns)
      <4>1. EncodePlain(text) # NoCode
        BY <3>2, ToolsAssumption DEF InsnCount
      <4>2. row \in CorpusOf(text)
        BY <4>1 DEF CorpusRow, CorpusOf
      <4>3. row \in CorpusRows
        BY <4>2 DEF CorpusRows
      <4> HIDE DEF row
      <4> QED BY <1>0, <1>2, <3>2, <4>3, FilesOf DEF CpStep, OtTyped, row
    <3> QED BY <3>1, <3>2
  <2> QED BY <1>0, <1>2, <2>1 DEF CpStep, OtInv, OtTyped, VerdictsOwn, RaceGrows, RaceAhead
<1>3. CASE CpDone
  BY <1>0, <1>3, OtQuiet DEF CpDone, OtTyped
<1> QED BY <1>1, <1>2, <1>3

-----------------------------------------------------------------------------
\* A set of addresses that grows counts no less.
LEMMA PcsGrow ==
  ASSUME NEW T, IsFiniteSet(T), NEW S \in SUBSET T
  PROVE  Cardinality(S) \in Nat /\ Cardinality(T) \in Nat /\ Cardinality(S) <= Cardinality(T)
  BY FS_Subset, FS_CardinalityType

\* A judged program makes the tallies grow, the addresses of the valid ones among
\* those of all.
LEMMA TalliesGrow ==
  ASSUME OtInv, otPc = "race", NEW text \in Texts, NEW hex, hex = EncodePlain(text),
         NEW answered \in BOOLEAN, NEW stat,
         stat = [clang   |-> Tallied(otStat.clang, hex, answered),
                 encoder |-> [otStat.encoder EXCEPT !.pcs = @ \cup Judged(hex, answered).pcs]]
  PROVE  /\ Tally(stat.clang) /\ Tally(stat.encoder)
         /\ stat.clang.pcs \subseteq stat.encoder.pcs /\ stat.clang.accepted <= otAt + 1
         /\ otStat.clang.accepted <= stat.clang.accepted
         /\ otStat.clang.pcs \subseteq stat.clang.pcs /\ otStat.encoder.pcs \subseteq stat.encoder.pcs
<1> DEFINE old == otStat.clang
           all == otStat.encoder
<1>1. /\ otAt \in Nat /\ Tally(old) /\ Tally(all)
      /\ old.pcs \subseteq all.pcs /\ old.accepted <= otAt
  BY DEF OtInv, OtTyped, RaceAhead
<1>2. stat.clang = Tallied(old, hex, answered) /\ stat.encoder = [all EXCEPT !.pcs = all.pcs \cup Judged(hex, answered).pcs]
  OBVIOUS
<1> HIDE DEF old, all
<1>3. CASE hex = NoCode \/ ~answered
  <2>1. stat.clang = old /\ Judged(hex, answered).pcs = {}
    BY <1>2, <1>3 DEF Tallied, Judged
  <2>2. stat.encoder.pcs = all.pcs /\ stat.encoder.accepted = all.accepted /\ DOMAIN stat.encoder = DOMAIN all
    BY <1>1, <1>2, <2>1 DEF Tally
  <2>3. old.accepted \in Nat /\ old.accepted <= old.accepted /\ old.accepted <= otAt + 1
    BY <1>1 DEF Tally
  <2>4. Tally(stat.clang) /\ Tally(stat.encoder) /\ stat.clang.pcs \subseteq stat.encoder.pcs
    BY <1>1, <2>1, <2>2 DEF Tally
  <2>5. stat.clang.accepted <= otAt + 1 /\ old.accepted <= stat.clang.accepted
        /\ old.pcs \subseteq stat.clang.pcs /\ all.pcs \subseteq stat.encoder.pcs
    BY <2>1, <2>2, <2>3
  <2> QED BY <2>4, <2>5 DEF old, all
<1>4. CASE hex # NoCode /\ answered
  <2> DEFINE seen == Kernel(hex).pcs
             ok == Kernel(hex).verdict = "ACCEPTED"
  <2>1. IsFiniteSet(seen)
    BY <1>4, ToolsAssumption
  <2>2. Judged(hex, answered).pcs = seen
    BY <1>4 DEF Judged
  <2>3. stat.clang = [n |-> old.n + 1, accepted |-> old.accepted + (IF ok THEN 1 ELSE 0),
                      pcs |-> old.pcs \cup (IF ok THEN seen ELSE {})]
    BY <1>2, <1>4 DEF Tallied
  <2> HIDE DEF seen, ok
  <2>4. /\ DOMAIN stat.clang = {"n", "accepted", "pcs"}
        /\ stat.clang.accepted = old.accepted + (IF ok THEN 1 ELSE 0)
        /\ stat.clang.pcs = old.pcs \cup (IF ok THEN seen ELSE {})
    BY <2>3
  <2>5. stat.encoder.pcs = all.pcs \cup seen /\ stat.encoder.accepted = all.accepted /\ DOMAIN stat.encoder = DOMAIN all
    BY <1>1, <1>2, <2>2 DEF Tally
  <2>6. stat.clang.accepted \in Nat /\ stat.clang.accepted <= otAt + 1 /\ old.accepted <= stat.clang.accepted
    BY <1>1, <2>4 DEF Tally
  <2>7. IsFiniteSet(stat.clang.pcs) /\ IsFiniteSet(stat.encoder.pcs)
    <3>1. IsFiniteSet(old.pcs) /\ IsFiniteSet(all.pcs)
      BY <1>1 DEF Tally
    <3>2. IsFiniteSet(old.pcs \cup seen) /\ IsFiniteSet(all.pcs \cup seen)
      BY <2>1, <3>1, FS_Union
    <3>3. stat.clang.pcs = old.pcs \cup seen \/ stat.clang.pcs = old.pcs
      BY <2>4
    <3> QED BY <2>5, <3>1, <3>2, <3>3
  <2>8. Tally(stat.clang) /\ Tally(stat.encoder)
    BY <1>1, <2>4, <2>5, <2>6, <2>7 DEF Tally
  <2>9. stat.clang.pcs \subseteq stat.encoder.pcs /\ old.pcs \subseteq stat.clang.pcs /\ all.pcs \subseteq stat.encoder.pcs
    BY <1>1, <2>4, <2>5
  <2> QED BY <2>6, <2>8, <2>9 DEF old, all
<1> QED BY <1>3, <1>4

LEMMA CrSteps ==
  ASSUME OtInv
  PROVE  /\ \A reachable \in BOOLEAN : CrStart(reachable) => OtInv'
         /\ \A text \in Texts, call \in {"answers", "nothing", "raises"} : CrStep(text, call) => OtInv'
         /\ CrDone => OtInv'
<1>0. OtTyped /\ <<>> \in Seq(Texts)
  BY DEF OtInv
<1>1. ASSUME NEW reachable \in BOOLEAN, CrStart(reachable) PROVE OtInv'
  <2>1. /\ otTexts' = <<>> /\ otAt' = 0 /\ otPc' \in {"idle", "race"}
        /\ otStat' = [clang |-> NoStat, encoder |-> NoStat]
        /\ otRace' = IF otPc' = "race" THEN NewFile ELSE otRace
    BY <1>1 DEF CrStart, OtStart
  <2>2. otRace' \in File(RaceRows)
    BY <1>0, <2>1, FilesBegun DEF OtTyped
  <2>3. otPc' = "race" => otRace'.rows = <<>>
    BY <2>1 DEF NewFile
  <2>4. Tally(NoStat) /\ NoStat.pcs = {} /\ NoStat.accepted = 0
    BY FS_EmptySet DEF Tally, NoStat
  <2>5. RaceAhead'
    BY <2>1, <2>3, <2>4 DEF RaceAhead
  <2>6. RaceGrows'
    BY <2>1, <2>3 DEF OtInv, RaceGrows
  <2> QED BY <1>0, <1>1, <2>1, <2>2, <2>5, <2>6 DEF CrStart, OtInv, OtTyped, VerdictsOwn
<1>2. ASSUME NEW text \in Texts, NEW call \in {"answers", "nothing", "raises"}, CrStep(text, call)
      PROVE  OtInv'
  <2> DEFINE hex == EncodePlain(text)
             stat == [clang   |-> Tallied(otStat.clang, hex, call = "answers"),
                      encoder |-> [otStat.encoder EXCEPT !.pcs = @ \cup Judged(hex, call = "answers").pcs]]
             row == RaceRow(otAt + 1, stat)
             low == RaceRow(otAt, otStat)
  <2>1. /\ otPc = "race" /\ otStat' = stat /\ otTexts' = Append(otTexts, text) /\ otAt' = otAt + 1
        /\ UNCHANGED <<otPc, otPassrate, otSummary, otBytecodes, otValidated, otCorpus>>
        /\ otRace' = otRace \/ otRace' = Kept(otRace, row)
    BY <1>2 DEF CrStep
  <2>2. DOMAIN stat = {"clang", "encoder"}
    OBVIOUS
  <2>3. /\ Tally(stat.clang) /\ Tally(stat.encoder)
        /\ stat.clang.pcs \subseteq stat.encoder.pcs /\ stat.clang.accepted <= otAt + 1
        /\ otStat.clang.accepted <= stat.clang.accepted
        /\ otStat.clang.pcs \subseteq stat.clang.pcs /\ otStat.encoder.pcs \subseteq stat.encoder.pcs
    <3>1. (call = "answers") \in BOOLEAN
      OBVIOUS
    <3> QED BY <2>1, <3>1, TalliesGrow
  <2> HIDE DEF stat, hex
  <2>4. Tally(otStat.clang) /\ Tally(otStat.encoder) /\ otStat.clang.pcs \subseteq otStat.encoder.pcs
        /\ otStat.clang.accepted <= otAt /\ otAt \in Nat
        /\ \A k \in DOMAIN otRace.rows :
             otRace.rows[k].submitted <= otAt /\ AtMost(otRace.rows[k], low)
    BY <2>1 DEF OtInv, OtTyped, RaceAhead
  <2>5. /\ row.submitted = otAt + 1 /\ row.valid = stat.clang.accepted
        /\ row.pcs_valid = Cardinality(stat.clang.pcs) /\ row.pcs_all = Cardinality(stat.encoder.pcs)
        /\ low.submitted = otAt /\ low.valid = otStat.clang.accepted
        /\ low.pcs_valid = Cardinality(otStat.clang.pcs) /\ low.pcs_all = Cardinality(otStat.encoder.pcs)
    BY DEF RaceRow
  <2>6. row \in RaceRows
    <3>1. row = [submitted |-> otAt + 1, valid |-> stat.clang.accepted,
                 pcs_valid |-> Cardinality(stat.clang.pcs), pcs_all |-> Cardinality(stat.encoder.pcs)]
      BY DEF RaceRow
    <3>2. Cardinality(stat.clang.pcs) \in Nat /\ Cardinality(stat.encoder.pcs) \in Nat
          /\ Cardinality(stat.clang.pcs) <= Cardinality(stat.encoder.pcs)
      BY <2>3, PcsGrow DEF Tally
    <3> HIDE DEF row
    <3> QED BY <2>3, <2>4, <3>1, <3>2 DEF RaceRows, Tally
  <2>7. AtMost(low, row)
    <3>1. Cardinality(otStat.clang.pcs) <= Cardinality(stat.clang.pcs)
          /\ Cardinality(otStat.encoder.pcs) <= Cardinality(stat.encoder.pcs)
      BY <2>3, PcsGrow DEF Tally
    <3> QED BY <2>3, <2>5, <3>1 DEF AtMost
  <2>8. low.valid \in Nat /\ low.pcs_valid \in Nat /\ low.pcs_all \in Nat
        /\ row.valid \in Nat /\ row.pcs_valid \in Nat /\ row.pcs_all \in Nat /\ row.submitted = otAt + 1
    <3>1. Cardinality(otStat.clang.pcs) \in Nat /\ Cardinality(otStat.encoder.pcs) \in Nat
          /\ Cardinality(stat.clang.pcs) \in Nat /\ Cardinality(stat.encoder.pcs) \in Nat
      BY <2>3, <2>4, FS_CardinalityType DEF Tally
    <3> QED BY <2>3, <2>4, <2>5, <3>1 DEF Tally
  <2> HIDE DEF row, low
  <2>9. otRace.rows \in Seq(RaceRows) /\ otRace \in File(RaceRows)
    BY <1>0 DEF OtTyped, File
  <2>10. \A k \in DOMAIN otRace.rows :
           /\ otRace.rows[k].submitted \in Nat /\ otRace.rows[k].valid \in Nat
           /\ otRace.rows[k].pcs_valid \in Nat /\ otRace.rows[k].pcs_all \in Nat
    BY <2>9 DEF RaceRows
  <2>11. \A k \in DOMAIN otRace.rows : otRace.rows[k].submitted < otAt + 1 /\ AtMost(otRace.rows[k], row)
    BY <2>4, <2>7, <2>8, <2>10 DEF AtMost
  <2>12. otRace'.rows = otRace.rows \/ otRace'.rows = Append(otRace.rows, row)
    BY <2>1, <2>9 DEF Kept, File
  <2>13. otRace' \in File(RaceRows)
    BY <2>1, <2>6, <2>9, FilesOf
  <2>14. RaceGrows'
    <3>1. CASE otRace'.rows = otRace.rows
      BY <3>1 DEF OtInv, RaceGrows
    <3>2. CASE otRace'.rows = Append(otRace.rows, row)
      <4>1. /\ DOMAIN otRace.rows = 1 .. Len(otRace.rows) /\ Len(otRace.rows) \in Nat
            /\ DOMAIN otRace'.rows = 1 .. Len(otRace.rows) + 1
            /\ otRace'.rows[Len(otRace.rows) + 1] = row
            /\ \A k \in DOMAIN otRace.rows : otRace'.rows[k] = otRace.rows[k]
        BY <2>6, <2>9, <3>2
      <4>2. ASSUME NEW k \in DOMAIN otRace'.rows, k > 1
            PROVE  /\ otRace'.rows[k - 1].submitted < otRace'.rows[k].submitted
                   /\ AtMost(otRace'.rows[k - 1], otRace'.rows[k])
        <5>1. k - 1 \in DOMAIN otRace.rows /\ otRace'.rows[k - 1] = otRace.rows[k - 1]
          BY <4>1, <4>2
        <5>2. CASE k \in DOMAIN otRace.rows
          BY <4>1, <4>2, <5>1, <5>2 DEF OtInv, RaceGrows
        <5>3. CASE k = Len(otRace.rows) + 1
          BY <2>8, <2>11, <4>1, <5>1, <5>3
        <5> QED BY <4>1, <5>2, <5>3
      <4> QED BY <4>2 DEF RaceGrows
    <3> QED BY <2>12, <3>1, <3>2
  <2>15. RaceAhead'
    <3>1. RaceRow(otAt', otStat') = row
      BY <2>1 DEF row
    <3>2. AtMost(row, row)
      BY <2>8 DEF AtMost
    <3>3. \A k \in DOMAIN otRace'.rows : otRace'.rows[k].submitted <= otAt + 1 /\ AtMost(otRace'.rows[k], row)
      <4>1. CASE otRace'.rows = otRace.rows
        BY <2>4, <2>10, <2>11, <4>1
      <4>2. CASE otRace'.rows = Append(otRace.rows, row)
        <5>1. ASSUME NEW k \in DOMAIN otRace'.rows
              PROVE  (k \in DOMAIN otRace.rows /\ otRace'.rows[k] = otRace.rows[k]) \/ otRace'.rows[k] = row
          BY <2>6, <2>9, <4>2, <5>1
        <5>2. otAt + 1 <= otAt + 1
          BY <2>4
        <5> QED BY <2>4, <2>8, <2>10, <2>11, <3>2, <5>1, <5>2
      <4> QED BY <2>12, <4>1, <4>2
    <3> QED BY <2>1, <2>2, <2>3, <3>1, <3>3 DEF RaceAhead
  <2>16. otTexts' \in Seq(Texts) /\ otAt' \in Nat
    BY <1>0, <2>1, <2>4 DEF OtTyped
  <2> QED BY <1>0, <2>1, <2>13, <2>14, <2>15, <2>16 DEF OtInv, OtTyped, VerdictsOwn
<1>3. CASE CrDone
  BY <1>0, <1>3, OtQuiet DEF CrDone, OtTyped
<1> QED BY <1>1, <1>2, <1>3

\* What a crash leaves of the files is of the same kind.
LEMMA OtDies == OtInv /\ OtCrash => OtInv'
<1> SUFFICES ASSUME OtInv, OtCrash PROVE OtInv'
  OBVIOUS
<1>1. OtTyped
  BY DEF OtInv
<1>2. otPc' = "idle" /\ UNCHANGED <<otTexts, otAt>>
  BY DEF OtCrash
<1>3. otPassrate' \in File(PassrateRows)
  <2>1. CASE otPassrate' = otPassrate
    BY <1>1, <2>1 DEF OtTyped
  <2>2. ASSUME otPc = "csv", NEW k \in 0 .. NumPrograms - 1,
               otPassrate' = [NewFile EXCEPT !.rows = [i \in 1 .. k |-> PassrateRow(i)]]
        PROVE  otPassrate' \in File(PassrateRows)
    <3>1. ASSUME NEW i \in 1 .. k PROVE PassrateRow(i) \in PassrateRows
      <4>1. i \in DOMAIN otTexts
        BY <1>1, <2>2, ToolsAssumption DEF OtInv, VerdictsOwn, OtTyped
      <4>2. otVerdicts[i] \in OwnVerdicts(CompileToHex(otTexts[i])) /\ otTexts[i] \in Texts
        BY <1>1, <2>2, <4>1 DEF OtInv, VerdictsOwn, OtTyped
      <4>3. PassrateRow(i) \in PassratesOf(otTexts[i])
        BY <4>2 DEF PassrateRow, PassratesOf
      <4> QED BY <4>2, <4>3 DEF PassrateRows
    <3>2. [i \in 1 .. k |-> PassrateRow(i)] \in Seq(PassrateRows)
      BY <3>1
    <3> QED BY <2>2, <3>2 DEF NewFile, File
  <2>3. \/ otPassrate' = otPassrate
        \/ otPc = "csv" /\ \E k \in 0 .. NumPrograms - 1 :
             otPassrate' = [NewFile EXCEPT !.rows = [i \in 1 .. k |-> PassrateRow(i)]]
    BY Zenon DEF OtCrash
  <2> QED BY <2>1, <2>2, <2>3
<1>4. otSummary' \in File(SummaryRows) /\ otBytecodes' \in File(BytecodeRows)
      /\ otValidated' \in File(ValidatedRows) /\ otCorpus' \in File(CorpusRows)
  BY <1>1, FilesBegun DEF OtCrash, OtTyped
<1>5. otRace' \in File(RaceRows) /\ otRace'.rows = otRace.rows
  <2>1. otRace' \in OrTorn(otRace) \cup {otRace}
    BY DEF OtCrash
  <2>2. \A file \in OrTorn(otRace) : file.rows = otRace.rows
    BY <1>1 DEF OrTorn, OtTyped, File
  <2> QED BY <1>1, <2>1, <2>2, FilesBegun DEF OtTyped
<1>6. RaceGrows'
  BY <1>5 DEF OtInv, RaceGrows
<1> QED BY <1>1, <1>2, <1>3, <1>4, <1>5, <1>6 DEF OtInv, OtTyped, VerdictsOwn, RaceAhead

LEMMA OtInitial == OtInit => OtInv
<1>1. <<>> \in Seq(Texts)
  OBVIOUS
<1>2. OtInit => OtTyped
  BY <1>1, FilesBegun DEF OtInit, OtTyped
<1>3. OtInit => VerdictsOwn /\ RaceGrows /\ RaceAhead
  BY DEF OtInit, VerdictsOwn, RaceGrows, RaceAhead, NoFile
<1> QED BY <1>2, <1>3 DEF OtInv

\* Every action of OfflineTools keeps the invariant.
LEMMA OtSteps == OtInv /\ [OtNext]_otVars => OtInv'
<1> SUFFICES ASSUME OtInv, [OtNext]_otVars PROVE OtInv'
  OBVIOUS
<1>1. CASE UNCHANGED otVars
  BY <1>1 DEF otVars, OtInv, OtTyped, VerdictsOwn, RaceGrows, RaceAhead
<1>2. CASE OtStep
  <2>1. \A text \in Texts : EpGenerate(text) \/ GbGenerate(text) => OtInv'
    BY EpSteps, GbSteps
  <2>2. \A answered \in 0 .. NumPrograms : EpValidate(answered) => OtInv'
    BY EpSteps
  <2>3. \A clang, encoder \in BOOLEAN : VbRecord(clang, encoder) => OtInv'
    BY VbSteps
  <2>4. \A text \in Texts, answered \in BOOLEAN : CpStep(text, answered) => OtInv'
    BY CpSteps
  <2>5. \A text \in Texts, call \in {"answers", "nothing", "raises"} : CrStep(text, call) => OtInv'
    BY CrSteps
  <2>6. EpCsv \/ EpSummary \/ GbWrite \/ VbDone \/ CpDone \/ CrDone => OtInv'
    BY EpSteps, GbSteps, VbSteps, CpSteps, CrSteps
  <2> QED BY <1>2, <2>1, <2>2, <2>3, <2>4, <2>5, <2>6, Zenon DEF OtStep
<1>3. CASE EpRaises \/ OtCrash \/ GbStart
  BY <1>3, EpSteps, GbSteps, OtDies
<1>4. ASSUME NEW skipVm \in BOOLEAN, NEW reachable \in BOOLEAN, EpStart(skipVm, reachable) PROVE OtInv'
  BY <1>4, EpSteps
<1>5. ASSUME NEW reachable \in BOOLEAN, VbStart(reachable) \/ CrStart(reachable) PROVE OtInv'
  BY <1>5, VbSteps, CrSteps
<1>6. ASSUME NEW validate \in BOOLEAN, CpStart(validate) PROVE OtInv'
  BY <1>6, CpSteps
<1> QED BY <1>1, <1>2, <1>3, <1>4, <1>5, <1>6, Zenon DEF OtNext

\* The records of each file say what the property asks of them.
LEMMA OtInvImplies == OtInv => ResultsAreOwn
<1> SUFFICES ASSUME OtInv PROVE ResultsAreOwn
  OBVIOUS
<1> DEFINE own(verdict, hex) == hex # NoCode /\ verdict = Kernel(hex).verdict
<1>0. OtTyped
  BY DEF OtInv
<1>1. ASSUME NEW S, NEW file \in File(S), NEW row \in Range(file.rows) PROVE row \in S
  BY <1>1 DEF File, Range
<1>2. ASSUME NEW row \in Range(otPassrate.rows)
      PROVE  /\ row.compiled <=> CompileToHex(row.of) # NoCode
             /\ row.verdict = "SKIPPED" \/ own(row.verdict, CompileToHex(row.of))
  <2>1. PICK text \in Texts : row \in PassratesOf(text)
    BY <1>0, <1>1 DEF OtTyped, PassrateRows
  <2>2. row.of = text /\ (row.compiled <=> CompileToHex(text) # NoCode)
        /\ row.verdict \in OwnVerdicts(CompileToHex(text))
    BY <2>1 DEF PassratesOf
  <2> QED BY <2>2 DEF OwnVerdicts
<1>3. ASSUME NEW line \in Range(otSummary.rows)
      PROVE  line.accepted <= line.compiled /\ line.compiled <= line.n
  <2>1. line \in SummaryRows
    BY <1>0, <1>1 DEF OtTyped
  <2> QED BY <2>1 DEF SummaryRows
<1>4. ASSUME NEW row \in Range(otValidated.rows)
      PROVE  /\ row.clang.verdict = "ENCODE_FAIL" <=> CompileToHex(row.of) = NoCode
             /\ row.clang.verdict \in {"ENCODE_FAIL", "ERROR"} \/ own(row.clang.verdict, CompileToHex(row.of))
             /\ row.encoder.verdict \in {"ENCODE_FAIL", "ERROR"} \/ own(row.encoder.verdict, EncodePath(row.of))
  <2>1. PICK text \in Texts : row \in ValidatedOf(text)
    BY <1>0, <1>1 DEF OtTyped, ValidatedRows
  <2>2. row.of = text /\ row.clang \in Judgements(CompileToHex(text)) /\ row.encoder \in Judgements(EncodePath(text))
    BY <2>1 DEF ValidatedOf
  <2>3. ASSUME NEW hex \in {CompileToHex(text), EncodePath(text)}, NEW ans \in Judgements(hex)
        PROVE  /\ ans.verdict = "ENCODE_FAIL" <=> hex = NoCode
               /\ ans.verdict \in {"ENCODE_FAIL", "ERROR"} \/ own(ans.verdict, hex)
    <3>1. CASE hex = NoCode
      BY <2>3, <3>1 DEF Judgements, Judged
    <3>2. CASE hex # NoCode
      <4>1. Kernel(hex).verdict # "ENCODE_FAIL"
        BY <3>2, ToolsAssumption
      <4>2. ans = Kernel(hex) \/ ans.verdict = "ERROR"
        BY <2>3, <3>2 DEF Judgements, Judged
      <4> QED BY <3>2, <4>1, <4>2
    <3> QED BY <3>1, <3>2
  <2> QED BY <2>2, <2>3
<1>5. ASSUME NEW row \in Range(otCorpus.rows) PROVE row.verdict = "none" \/ own(row.verdict, row.hex)
  <2>1. PICK text \in Texts : row \in CorpusOf(text)
    BY <1>0, <1>1 DEF OtTyped, CorpusRows
  <2> QED BY <2>1 DEF CorpusOf
<1>6. ASSUME NEW k \in DOMAIN otRace.rows
      PROVE  LET row == otRace.rows[k]
             IN  /\ row.valid <= row.submitted /\ row.pcs_valid <= row.pcs_all
                 /\ k > 1 => LET before == otRace.rows[k - 1]
                             IN  /\ before.submitted < row.submitted /\ before.valid <= row.valid
                                 /\ before.pcs_valid <= row.pcs_valid /\ before.pcs_all <= row.pcs_all
  <2>1. otRace.rows[k] \in RaceRows
    BY <1>0 DEF OtTyped, File
  <2> QED BY <2>1 DEF OtInv, RaceGrows, AtMost, RaceRows
<1> HIDE DEF own
<1> QED BY <1>2, <1>3, <1>4, <1>5, <1>6, Zenon DEF ResultsAreOwn, own

\* Every row a tool leaves is about its own program, whatever calls of the VM fail
\* and wherever a tool dies (src/tools/evaluate_passrate.py:263-271,
\* src/tools/coverage_race.py:114-160), for any number of programs, texts and
\* commands and any compiler, encoder and kernel behind them.
THEOREM ResultsAreOwnHolds == OfflineSpec => []ResultsAreOwn
<1>1. OfflineInit => OtInv
  BY OtPart, OtInitial
<1>2. OtInv /\ [OfflineNext]_offlineVars => OtInv'
  BY OtPartStep, OtSteps
<1>3. OtInv => ResultsAreOwn
  BY OtInvImplies
<1> QED BY <1>1, <1>2, <1>3, PTL DEF OfflineSpec

-----------------------------------------------------------------------------
(***************************************************************************)
(* The rows that are in the output of enrich_dataset.py are of samples of  *)
(* its input (RowsOf): every list is a part of the input, in the order of  *)
(* the positions.                                                          *)
(***************************************************************************)
RowsOf(lines) == IsSeq(lines) /\ \A k \in DOMAIN lines : lines[k].kind = "row" => lines[k].sample \in Samples

EnRows ==
  /\ enInput \in Seq(Samples) /\ enTodo \in Seq(Samples)
  /\ RowsOf(enFile) /\ RowsOf(enLines)
  /\ enRuns \in Nat /\ (enRuns = 0 => enPc = "idle" /\ enFile = <<>>)

LEMMA NoRows == RowsOf(<<>>) /\ <<>> \in Seq(Samples)
<1>1. <<>> \in Seq({})
  OBVIOUS
<1> QED BY <1>1 DEF RowsOf, IsSeq

LEMMA ListIsSeq ==
  ASSUME NEW n \in Nat, NEW S, NEW f \in [1 .. n -> S]
  PROVE  IsSeq(f)
<1>1. f \in Seq(S)
  OBVIOUS
<1> QED BY <1>1 DEF IsSeq

LEMMA AddLineRows ==
  ASSUME NEW file, RowsOf(file), NEW line, line.kind = "row" => line.sample \in Samples
  PROVE  RowsOf(AddLine(file, line))
<1>1. IsSeq(AddLine(file, line))
  BY AddLineKeeps DEF RowsOf
<1>2. CASE file # <<>> /\ ~file[Len(file)].nl
  <2>1. AddLine(file, line) = [file EXCEPT ![Len(file)] = Junk(line.nl)]
    BY <1>2 DEF AddLine
  <2>2. Junk(line.nl).kind # "row"
    BY DEF Junk
  <2> QED BY <1>1, <2>1, <2>2 DEF RowsOf
<1>3. CASE ~ (file # <<>> /\ ~file[Len(file)].nl)
  <2>1. AddLine(file, line) = Append(file, line)
    BY <1>3 DEF AddLine
  <2>2. PICK S : file \in Seq(S)
    BY DEF RowsOf, IsSeq
  <2>3. \A k \in DOMAIN Append(file, line) : IF k \in DOMAIN file THEN Append(file, line)[k] = file[k] ELSE Append(file, line)[k] = line
    BY <2>2
  <2> QED BY <1>1, <2>1, <2>3 DEF RowsOf
<1> QED BY <1>2, <1>3

LEMMA TornRows ==
  ASSUME NEW file, RowsOf(file), NEW line, line.kind = "row" => line.sample \in Samples, NEW left \in Torn(file, line)
  PROVE  RowsOf(left)
<1>1. Junk(FALSE).kind # "row"
  BY DEF Junk
<1>2. CASE left = AddLine(file, [line EXCEPT !.nl = FALSE])
  <2>1. [line EXCEPT !.nl = FALSE].kind = line.kind /\ [line EXCEPT !.nl = FALSE].sample = line.sample
    OBVIOUS
  <2> QED BY <1>2, <2>1, AddLineRows
<1> QED BY <1>1, <1>2, AddLineRows DEF Torn

LEMMA HeadRow ==
  ASSUME NEW lines, RowsOf(lines), lines # <<>>
  PROVE  (Head(lines).kind = "row" => Head(lines).sample \in Samples) /\ RowsOf(Tail(lines))
<1>1. PICK S : lines \in Seq(S)
  BY DEF RowsOf, IsSeq
<1>2. Head(lines) = lines[1] /\ 1 \in DOMAIN lines /\ Tail(lines) \in Seq(S)
  BY <1>1
<1>3. \A k \in DOMAIN Tail(lines) : k + 1 \in DOMAIN lines /\ Tail(lines)[k] = lines[k + 1]
  BY <1>1
<1> QED BY <1>2, <1>3 DEF RowsOf, IsSeq

LEMMA EnRowsInitial == OfflineInit => EnRows
<1>1. OfflineInit => enInput \in Seq(Samples)
  BY InputsAssumption, NoRows DEF OfflineInit
<1> QED BY <1>1, EnPart, NoRows DEF EnInit, EnRows

LEMMA EnRowsSteps == EnRows /\ [EnNext]_enVars => EnRows'
<1> SUFFICES ASSUME EnRows, [EnNext]_enVars PROVE EnRows'
  OBVIOUS
<1> USE DEF EnRows
<1>1. CASE UNCHANGED enVars
  BY <1>1 DEF enVars
<1>2. CASE EnStart
  <2>1. enTodo' = Remaining(enInput, Readable(enFile)) /\ UNCHANGED <<enFile, enInput, enLines>> /\ enRuns' = enRuns + 1
    BY <1>2 DEF EnStart
  <2>2. enTodo' \in Seq(Samples)
    BY <2>1, AtIs DEF Remaining
  <2> QED BY <2>1, <2>2
<1>3. CASE EnTake
  BY <1>3 DEF EnTake
<1>4. ASSUME NEW i, NEW trace, EnRecord(i, trace) PROVE EnRows'
  BY <1>4 DEF EnRecord
<1>5. CASE EnBins
  <2>1. PICK cov, novel, novT : enLines' = Rows(enTodo, enTraces, cov, novel, novT)
    BY <1>5 DEF EnBins
  <2>2. UNCHANGED <<enFile, enInput, enTodo, enRuns>> /\ enPc = "validating"
    BY <1>5 DEF EnBins
  <2>3. DOMAIN enTodo = 1 .. Len(enTodo) /\ Len(enTodo) \in Nat /\ \A i \in DOMAIN enTodo : enTodo[i] \in Samples
    OBVIOUS
  <2>4. \A i \in DOMAIN enTodo : enLines'[i].kind = "row" /\ enLines'[i].sample = enTodo[i]
    BY <2>1 DEF Rows
  <2>5. DOMAIN enLines' = 1 .. Len(enTodo) /\ enLines' \in [1 .. Len(enTodo) -> {enLines'[i] : i \in 1 .. Len(enTodo)}]
    BY <2>1, <2>3 DEF Rows
  <2>6. IsSeq(enLines')
    BY <2>3, <2>5, ListIsSeq
  <2>7. RowsOf(enLines')
    BY <2>3, <2>4, <2>5, <2>6 DEF RowsOf
  <2>8. enRuns # 0
    BY <2>2
  <2> QED BY <2>2, <2>7, <2>8
<1>6. CASE EnOpen
  <2>1. CASE enMode = "w"
    <3>1. enFile' = <<>> /\ enLines' = <<Meta>> \o enLines /\ UNCHANGED <<enInput, enTodo, enRuns>> /\ enRuns # 0
      BY <1>6, <2>1 DEF EnOpen
    <3>2. PICK S : enLines \in Seq(S)
      BY DEF RowsOf, IsSeq
    <3>3. enLines' \in Seq(S \cup {Meta}) /\ enLines'[1] = Meta
      BY <3>1, <3>2
    <3>4. \A k \in DOMAIN enLines' : k = 1 \/ (k - 1 \in DOMAIN enLines /\ enLines'[k] = enLines[k - 1])
      BY <3>1, <3>2
    <3>5. Meta.kind # "row"
      BY DEF Meta
    <3>6. RowsOf(enLines')
      BY <3>3, <3>4, <3>5 DEF RowsOf, IsSeq
    <3> QED BY <3>1, <3>6, NoRows
  <2>2. CASE enMode # "w"
    BY <1>6, <2>2 DEF EnOpen
  <2> QED BY <2>1, <2>2
<1>7. CASE EnWrite
  <2>1. enFile' = AddLine(enFile, Head(enLines)) /\ enLines' = Tail(enLines) /\ enLines # <<>> /\ enPc = "writing"
        /\ UNCHANGED <<enInput, enTodo, enRuns>>
    BY <1>7 DEF EnWrite
  <2> QED BY <2>1, HeadRow, AddLineRows
<1>8. CASE EnFinish \/ EnRaise
  <2>1. UNCHANGED <<enFile, enInput, enRuns>> /\ enTodo' = <<>> /\ enLines' = <<>> /\ enPc' = "idle"
    BY <1>8 DEF EnFinish, EnRaise, EnForget
  <2> QED BY <2>1, NoRows
<1>9. CASE EnCrash
  <2>1. UNCHANGED <<enInput, enRuns>> /\ enTodo' = <<>> /\ enLines' = <<>> /\ enPc' = "idle" /\ enPc # "idle"
    BY <1>9 DEF EnCrash, EnForget
  <2>2. enFile' = enFile \/ (enLines # <<>> /\ enFile' \in Torn(enFile, Head(enLines)))
    BY <1>9 DEF EnCrash
  <2> QED BY <2>1, <2>2, NoRows, HeadRow, TornRows
<1> QED BY <1>1, <1>2, <1>3, <1>4, <1>5, <1>6, <1>7, <1>8, <1>9 DEF EnNext, EnStep

-----------------------------------------------------------------------------
(***************************************************************************)
(* What train.py has learned.  As long as the data has not grown, every    *)
(* start makes the same parts of it (Parts), so that the weights of a      *)
(* session and of every checkpoint, a torn one too, have learned what the  *)
(* steps up to theirs take from the train part (Learned).                  *)
(***************************************************************************)
Learned(train, n, s) == {i \in 0 .. n - 1 : train[(i % Len(train)) + 1] = s}
SeenAfter(train, n) == [s \in Samples |-> Cardinality(Learned(train, n, s))]
Parts == LoadAndSplit(enFile)

SfInv ==
  /\ IsFiniteSet(sfCkpts)
  /\ enPc # "idle" => sfPc = "idle"
  /\ enRuns = 0 \/ (enRuns = 1 /\ enPc # "idle") => sfPc = "idle" /\ sfCkpts = {}
  /\ enRuns = 1 =>
       /\ \A c \in sfCkpts : c.step \in Nat /\ c.seen = SeenAfter(Parts.train, c.step)
       /\ sfPc # "idle" => CanSplit(enFile) /\ sfSplit = Parts
       /\ sfPc \in {"training", "saving", "evaluating"} => sfStep \in Nat /\ sfSeen = SeenAfter(Parts.train, sfStep)
       /\ sfPc \in {"loading", "training", "saving", "evaluating"} => sfTestFile = [rows |-> Parts.test, whole |-> TRUE]
       /\ sfPc = "evaluating" => sfAdapter.seen = sfSeen

LEMMA LearnedFinite ==
  ASSUME NEW train, NEW n \in Nat, NEW s
  PROVE  IsFiniteSet(Learned(train, n, s)) /\ Cardinality(Learned(train, n, s)) \in Nat
<1>1. IsFiniteSet(0 .. n - 1)
  BY FS_Interval
<1>2. Learned(train, n, s) \in SUBSET (0 .. n - 1)
  BY DEF Learned
<1> QED BY <1>1, <1>2, FS_Subset, FS_CardinalityType

LEMMA NothingLearned == \A train : SeenAfter(train, 0) = Unseen
<1> SUFFICES ASSUME NEW train PROVE SeenAfter(train, 0) = Unseen
  OBVIOUS
<1>1. \A s : Learned(train, 0, s) = {}
  <2>1. 0 .. 0 - 1 = {}
    OBVIOUS
  <2> QED BY <2>1 DEF Learned
<1> QED BY <1>1, FS_EmptySet DEF SeenAfter, Unseen

\* One step learns one row.
LEMMA OneMoreLearned ==
  ASSUME NEW train, NEW n \in Nat
  PROVE  SeenAfter(train, n + 1) = [SeenAfter(train, n) EXCEPT ![train[(n % Len(train)) + 1]] = @ + 1]
<1> DEFINE x == train[(n % Len(train)) + 1]
           before == SeenAfter(train, n)
<1>1. ASSUME NEW s \in Samples PROVE Cardinality(Learned(train, n + 1, s)) = Cardinality(Learned(train, n, s)) + (IF s = x THEN 1 ELSE 0)
  <2>1. n \notin Learned(train, n, s)
    BY DEF Learned
  <2>2. CASE s = x
    <3>1. Learned(train, n + 1, s) = Learned(train, n, s) \cup {n}
      <4>1. ASSUME NEW i PROVE i \in Learned(train, n + 1, s) <=> i \in Learned(train, n, s) \/ i = n
        BY <2>2 DEF Learned
      <4> QED BY <4>1
    <3> QED BY <2>1, <2>2, <3>1, LearnedFinite, FS_AddElement
  <2>3. CASE s # x
    <3>1. Learned(train, n + 1, s) = Learned(train, n, s)
      <4>1. ASSUME NEW i PROVE i \in Learned(train, n + 1, s) <=> i \in Learned(train, n, s)
        BY <2>3 DEF Learned
      <4> QED BY <4>1
    <3> QED BY <2>3, <3>1, LearnedFinite
  <2> QED BY <2>2, <2>3
<1>2. \A s \in Samples : Cardinality(Learned(train, n, s)) \in Nat
  BY LearnedFinite
<1> HIDE DEF x
<1>3. \A s \in Samples : [before EXCEPT ![x] = @ + 1][s] = Cardinality(Learned(train, n + 1, s))
  BY <1>1, <1>2 DEF SeenAfter
<1> QED BY <1>3 DEF SeenAfter, x

\* After a number of epochs: each of them takes every position once.
LEMMA LearnedInEpochs ==
  ASSUME NEW train \in Seq(Samples), train # <<>>, NEW e \in Nat, NEW s \in Samples
  PROVE  Cardinality(Learned(train, e * Len(train), s)) = e * Quantify(DOMAIN train, LAMBDA k : train[k] = s)
<1> DEFINE l == Len(train)
           K == {k \in DOMAIN train : train[k] = s}
           S == Learned(train, e * l, s)
           place == [i \in S |-> <<i \div l, (i % l) + 1>>]
<1>0. l \in Nat /\ l > 0 /\ DOMAIN train = 1 .. l /\ e * l \in Nat
  OBVIOUS
<1>1. IsFiniteSet(K) /\ Cardinality(K) \in Nat
  <2>1. IsFiniteSet(1 .. l)
    BY <1>0, FS_Interval
  <2>2. K \in SUBSET (1 .. l)
    BY <1>0
  <2> HIDE DEF K
  <2> QED BY <2>1, <2>2, FS_Subset, FS_CardinalityType
<1>2. IsFiniteSet(0 .. e - 1) /\ Cardinality(0 .. e - 1) = e
  BY FS_Interval
<1> HIDE DEF l
<1>3. ASSUME NEW i \in S
      PROVE  i \in Nat /\ i \div l \in 0 .. e - 1 /\ (i % l) + 1 \in K /\ i = l * (i \div l) + (i % l)
  <2>1. i \in 0 .. e * l - 1 /\ train[(i % l) + 1] = s
    BY <1>0 DEF Learned, l
  <2>2. i \in Nat
    BY <2>1, <1>0
  <2>3. i % l \in 0 .. l - 1 /\ i = l * (i \div l) + (i % l)
    BY <1>0, <2>2, DivMod
  <2>4. (i % l) + 1 \in 1 .. l
    BY <1>0, <2>3
  <2> QED BY <1>0, <2>1, <2>2, <2>3, <2>4, QuotientBelow
<1>4. ASSUME NEW q \in 0 .. e - 1, NEW k \in K
      PROVE  \E i \in S : place[i] = <<q, k>>
  <2> DEFINE i == l * q + (k - 1)
  <2>1. k \in 1 .. l /\ train[k] = s /\ k - 1 \in 0 .. l - 1 /\ q \in Nat
    BY <1>0
  <2>2. i \div l = q /\ i % l = k - 1 /\ i \in 0 .. e * l - 1
    BY <1>0, <2>1, DivModUnique, ProductInside
  <2> HIDE DEF i
  <2>3. (i % l) + 1 = k
    BY <2>1, <2>2
  <2>4. i \in S
    BY <2>1, <2>2, <2>3 DEF Learned, l
  <2> QED BY <2>2, <2>3, <2>4
<1> HIDE DEF S, K
<1>5. place \in [S -> (0 .. e - 1) \X K]
  BY <1>3
<1>6. \A i, j \in S : place[i] = place[j] => i = j
  <2> SUFFICES ASSUME NEW i \in S, NEW j \in S, place[i] = place[j] PROVE i = j
    OBVIOUS
  <2>1. i \div l = j \div l /\ (i % l) + 1 = (j % l) + 1
    OBVIOUS
  <2>2. i % l \in Int /\ j % l \in Int
    <3>1. i \in Nat /\ j \in Nat
      BY <1>3
    <3> QED BY <1>0, <3>1
  <2>3. i % l = j % l
    BY <2>1, <2>2
  <2> QED BY <1>3, <2>1, <2>3
<1>7. \A z \in (0 .. e - 1) \X K : \E i \in S : place[i] = z
  <2> SUFFICES ASSUME NEW z \in (0 .. e - 1) \X K PROVE \E i \in S : place[i] = z
    OBVIOUS
  <2>1. z[1] \in 0 .. e - 1 /\ z[2] \in K /\ z = <<z[1], z[2]>>
    OBVIOUS
  <2> HIDE DEF place
  <2> QED BY <1>4, <2>1
<1> HIDE DEF place
<1>8. place \in Bijection(S, (0 .. e - 1) \X K)
  BY <1>5, <1>6, <1>7 DEF Bijection, Injection, Surjection, IsInjective
<1>9. IsFiniteSet((0 .. e - 1) \X K) /\ Cardinality((0 .. e - 1) \X K) = e * Cardinality(K)
  BY <1>1, <1>2, FS_Product
<1>10. IsFiniteSet(S)
  BY <1>0, LearnedFinite DEF S
<1>11. Cardinality(S) = e * Cardinality(K)
  BY <1>8, <1>9, <1>10, FS_Bijection DEF ExistsBijection
<1> QED BY <1>11 DEF S, K, l, Quantify

\* The row a checkpoint that can be resumed from is chosen by is there.
LEMMA LastCkptIs ==
  ASSUME IsFiniteSet(sfCkpts), sfCkpts # {}, \A c \in sfCkpts : c.step \in Nat
  PROVE  LastCkpt \in sfCkpts
<1> DEFINE steps == {c.step : c \in sfCkpts}
           stepOf == [c \in sfCkpts |-> c.step]
<1>1. stepOf \in Surjection(sfCkpts, steps)
  BY DEF Surjection
<1>2. IsFiniteSet(steps)
  BY <1>1, FS_Surjection
<1>3. steps \in SUBSET Nat /\ steps # {}
  OBVIOUS
<1>4. PICK n \in steps : \A m \in steps : m <= n
  BY <1>2, <1>3, MaxNat
<1>5. \E c \in sfCkpts : \A d \in sfCkpts : d.step <= c.step
  BY <1>4
<1> QED BY <1>5 DEF LastCkpt

LEMMA PutCkptIs ==
  ASSUME IsFiniteSet(sfCkpts), NEW whole
  PROVE  /\ IsFiniteSet(PutCkpt(whole))
         /\ \A c \in PutCkpt(whole) : c \in sfCkpts \/ (c.step = sfStep /\ c.seen = sfSeen)
<1> DEFINE new == [step |-> sfStep, seen |-> sfSeen, whole |-> whole]
           kept == {c \in sfCkpts : c.step # sfStep}
<1>1. IsFiniteSet(kept)
  BY FS_Subset
<1>2. PutCkpt(whole) = kept \cup {new}
  BY DEF PutCkpt
<1>3. \A c \in PutCkpt(whole) : c \in sfCkpts \/ c = new
  BY <1>2
<1> HIDE DEF kept, new
<1>4. IsFiniteSet(kept \cup {new})
  BY <1>1, FS_AddElement
<1> QED BY <1>2, <1>3, <1>4 DEF new

LEMMA SfInitial == EnInit /\ SfInit => SfInv
  BY FS_EmptySet DEF EnInit, SfInit, SfInv

\* What the steps of the enrichment do to the data.
LEMMA EnKinds ==
  ASSUME EnNext
  PROVE  \/ enPc # "idle" /\ UNCHANGED enRuns
         \/ enPc = "idle" /\ enPc' = "idle" /\ UNCHANGED <<enFile, enRuns>>
         \/ enPc = "idle" /\ enPc' # "idle" /\ enRuns' = enRuns + 1
<1>1. CASE EnStart
  BY <1>1 DEF EnStart
<1>2. CASE EnTake
  BY <1>2 DEF EnTake
<1>3. ASSUME NEW i, NEW trace, EnRecord(i, trace)
      PROVE  \/ enPc # "idle" /\ UNCHANGED enRuns
             \/ enPc = "idle" /\ enPc' = "idle" /\ UNCHANGED <<enFile, enRuns>>
  BY <1>3 DEF EnRecord
<1>4. CASE EnBins \/ EnOpen
  BY <1>4 DEF EnBins, EnOpen
<1>5. CASE EnWrite
  BY <1>5 DEF EnWrite
<1>6. CASE EnFinish
  BY <1>6 DEF EnFinish
<1>7. CASE EnRaise
  BY <1>7 DEF EnRaise, EnForget
<1>8. CASE EnCrash
  BY <1>8 DEF EnCrash
<1> QED BY <1>1, <1>2, <1>3, <1>4, <1>5, <1>6, <1>7, <1>8 DEF EnNext, EnStep

LEMMA SfKeptByData ==
  ASSUME SfInv, EnRows, EnNext, enPc = "idle" => sfPc = "idle", UNCHANGED sfVars
  PROVE  SfInv'
<1>1. UNCHANGED <<sfPc, sfSplit, sfTestFile, sfStep, sfSeen, sfCkpts, sfAdapter>>
  BY DEF sfVars
<1>2. enRuns \in Nat
  BY DEF EnRows
<1>3. CASE enPc # "idle" /\ UNCHANGED enRuns
  <2>1. sfPc = "idle" /\ (enRuns \in {0, 1} => sfCkpts = {})
    BY <1>3 DEF SfInv
  <2> QED BY <1>1, <1>3, <2>1 DEF SfInv
<1>4. CASE enPc = "idle" /\ enPc' = "idle" /\ UNCHANGED <<enFile, enRuns>>
  <2>1. Parts' = Parts /\ CanSplit(enFile)' = CanSplit(enFile)
    BY <1>4 DEF Parts
  <2> QED BY <1>1, <1>4, <2>1 DEF SfInv
<1>5. CASE enPc = "idle" /\ enPc' # "idle" /\ enRuns' = enRuns + 1
  <2>1. sfPc = "idle" /\ (enRuns = 0 => sfCkpts = {})
    BY <1>5 DEF SfInv
  <2>2. enRuns' # 0 /\ (enRuns' = 1 => enRuns = 0)
    BY <1>2, <1>5
  <2> QED BY <1>1, <1>2, <1>5, <2>1, <2>2 DEF SfInv
<1> QED BY <1>3, <1>4, <1>5, EnKinds

LEMMA SfSteps ==
  ASSUME SfInv, EnRows, SfNext, enPc = "idle", UNCHANGED enVars
  PROVE  SfInv'
<1>1. UNCHANGED <<enPc, enRuns, enFile>>
  BY DEF enVars
<1>2. Parts' = Parts /\ CanSplit(enFile)' = CanSplit(enFile)
  BY <1>1 DEF Parts
<1> USE <1>1, <1>2, enPc = "idle"
<1>3. CASE SfStart
  <2>1. sfPc = "idle" /\ UNCHANGED sfCkpts
    BY <1>3 DEF SfStart
  <2>2. CASE Loadable(enFile) /\ CanSplit(enFile)
    <3>1. enRuns # 0
      BY <2>2 DEF EnRows, Loadable
    <3>2. sfPc' = "freezing" /\ sfSplit' = Parts
      BY <1>3, <2>2 DEF SfStart, Parts
    <3> QED BY <2>1, <2>2, <3>1, <3>2 DEF SfInv
  <2>3. CASE ~(Loadable(enFile) /\ CanSplit(enFile))
    <3>1. UNCHANGED sfPc
      BY <1>3, <2>3 DEF SfStart
    <3> QED BY <2>1, <3>1 DEF SfInv
  <2> QED BY <2>2, <2>3
<1>4. CASE SfFreeze
  <2>1. sfPc = "freezing" /\ sfPc' = "loading" /\ UNCHANGED <<sfSplit, sfCkpts>> /\ sfTestFile' = [rows |-> sfSplit.test, whole |-> TRUE]
    BY <1>4 DEF SfFreeze
  <2> QED BY <2>1 DEF SfInv
<1>5. ASSUME NEW resume, NEW maxSteps, SfTrain(resume, maxSteps) PROVE SfInv'
  <2> DEFINE start == [step |-> 0, seen |-> Unseen, whole |-> TRUE]
             from == IF resume /\ sfCkpts # {} THEN LastCkpt ELSE start
  <2>1. sfPc = "loading" /\ UNCHANGED <<sfTestFile, sfCkpts>>
    BY <1>5 DEF SfTrain
  <2>2. CASE from.whole
    <3>1. sfStep' = from.step /\ sfSeen' = from.seen /\ sfPc' = "training" /\ UNCHANGED sfSplit
      BY <1>5, <2>2 DEF SfTrain, Restored
    <3>2. enRuns = 1 => from.step \in Nat /\ from.seen = SeenAfter(Parts.train, from.step)
      <4> SUFFICES ASSUME enRuns = 1 PROVE from.step \in Nat /\ from.seen = SeenAfter(Parts.train, from.step)
        OBVIOUS
      <4>1. CASE resume /\ sfCkpts # {}
        <5>1. LastCkpt \in sfCkpts
          BY <4>1, LastCkptIs DEF SfInv
        <5> QED BY <4>1, <5>1 DEF SfInv
      <4>2. CASE ~(resume /\ sfCkpts # {})
        BY <4>2, NothingLearned
      <4> QED BY <4>1, <4>2
    <3> HIDE DEF from
    <3> QED BY <2>1, <3>1, <3>2 DEF SfInv
  <2>3. CASE ~from.whole
    <3>1. sfPc' = "idle"
      BY <1>5, <2>3 DEF SfTrain, SfForget
    <3> QED BY <2>1, <3>1 DEF SfInv
  <2> QED BY <2>2, <2>3
<1>6. CASE SfLearn
  <2>1. /\ sfPc = "training" /\ sfPc' \in {"saving", "training"}
        /\ UNCHANGED <<sfSplit, sfTestFile, sfCkpts, sfAdapter>> /\ sfStep' = sfStep + 1
        /\ sfSeen' = [sfSeen EXCEPT ![sfSplit.train[(sfStep % Len(sfSplit.train)) + 1]] = @ + 1]
    BY <1>6 DEF SfLearn
  <2>2. enRuns = 1 => sfStep' \in Nat /\ sfSeen' = SeenAfter(Parts.train, sfStep')
    <3> SUFFICES ASSUME enRuns = 1 PROVE sfStep' \in Nat /\ sfSeen' = SeenAfter(Parts.train, sfStep')
      OBVIOUS
    <3>1. sfStep \in Nat /\ sfSeen = SeenAfter(Parts.train, sfStep) /\ sfSplit = Parts
      BY <2>1 DEF SfInv
    <3>2. SeenAfter(Parts.train, sfStep + 1)
            = [SeenAfter(Parts.train, sfStep) EXCEPT ![Parts.train[(sfStep % Len(Parts.train)) + 1]] = @ + 1]
      BY <3>1, OneMoreLearned
    <3>3. sfSeen' = [SeenAfter(Parts.train, sfStep) EXCEPT ![Parts.train[(sfStep % Len(Parts.train)) + 1]] = @ + 1]
      BY <2>1, <3>1
    <3> QED BY <2>1, <3>1, <3>2, <3>3
  <2> QED BY <2>1, <2>2 DEF SfInv
<1>7. ASSUME NEW completed, SfSave(completed) PROVE SfInv'
  <2>1. sfPc = "saving" /\ sfPc' = "training" /\ sfCkpts' = PutCkpt(TRUE)
        /\ UNCHANGED <<sfSplit, sfTestFile, sfStep, sfSeen, sfAdapter>>
    BY <1>7 DEF SfSave
  <2> QED BY <2>1, PutCkptIs DEF SfInv
<1>8. CASE SfSaveModel
  <2>1. sfPc = "training" /\ sfPc' = "evaluating" /\ sfAdapter' = [seen |-> sfSeen, whole |-> TRUE]
        /\ UNCHANGED <<sfSplit, sfTestFile, sfStep, sfSeen, sfCkpts>>
    BY <1>8 DEF SfSaveModel
  <2> QED BY <2>1 DEF SfInv
<1>9. ASSUME NEW completed, SfEvaluateTest(completed) PROVE SfInv'
  <2>1. sfPc' = "idle" /\ UNCHANGED sfCkpts /\ sfPc # "idle"
    BY <1>9 DEF SfEvaluateTest, SfForget
  <2> QED BY <2>1 DEF SfInv
<1>10. CASE SfCrash
  <2>1. sfPc # "idle" /\ sfPc' = "idle" /\ (UNCHANGED sfCkpts \/ (sfPc = "saving" /\ sfCkpts' = PutCkpt(FALSE)))
    BY <1>10 DEF SfCrash, SfForget
  <2> QED BY <2>1, PutCkptIs DEF SfInv
<1> QED BY <1>3, <1>4, <1>5, <1>6, <1>7, <1>8, <1>9, <1>10 DEF SfNext, SfStep

\* The two parts of a list at some positions and at the others.
LEMMA PartsApart ==
  ASSUME NEW T, NEW s \in Seq(T), NEW P
  PROVE  LET part == ItemsAt(s, P)
             rest == ItemsAt(s, DOMAIN s \ P)
         IN  /\ part \in Seq(T) /\ rest \in Seq(T)
             /\ DOMAIN s \ P # {} => rest # <<>>
             /\ Range(part) \subseteq Range(s) /\ Range(rest) \subseteq Range(s)
             /\ IsInjective(s) => Range(part) \cap Range(rest) = {} /\ IsInjective(rest)
<1> DEFINE part == ItemsAt(s, P)
           rest == ItemsAt(s, DOMAIN s \ P)
           L == DOMAIN s \ P
<1>1. part \in Seq(T) /\ rest \in Seq(T)
  BY AtIs
<1>0. DOMAIN s = 1 .. Len(s) /\ DOMAIN part = 1 .. Len(part) /\ DOMAIN rest = 1 .. Len(rest)
  BY <1>1
<1>2. PICK f : From(f, part, s, P \cap 1 .. Len(s))
  BY AtIs
<1>3. PICK g : From(g, rest, s, L \cap 1 .. Len(s))
  BY AtIs
<1> HIDE DEF part, rest
<1>4. \A n \in DOMAIN part : f[n] \in P \cap DOMAIN s /\ part[n] = s[f[n]]
  BY <1>0, <1>2 DEF From
<1>5. \A n \in DOMAIN rest : g[n] \in L \cap DOMAIN s /\ rest[n] = s[g[n]]
  BY <1>0, <1>3 DEF From
<1>6. \A n, m \in DOMAIN rest : g[n] = g[m] => n = m
  BY <1>0, <1>3 DEF From, IsInjective
<1>7. ASSUME DOMAIN s \ P # {} PROVE rest # <<>>
  <2>1. \E n \in 1 .. Len(rest) : TRUE
    BY <1>0, <1>3, <1>7 DEF From
  <2> QED BY <1>0, <2>1
<1>8. Range(part) \subseteq Range(s) /\ Range(rest) \subseteq Range(s)
  BY <1>4, <1>5 DEF Range
<1>9. ASSUME IsInjective(s) PROVE Range(part) \cap Range(rest) = {}
  <2> SUFFICES ASSUME NEW n \in DOMAIN part, NEW m \in DOMAIN rest, part[n] = rest[m] PROVE FALSE
    BY DEF Range
  <2>1. f[n] \in P \cap DOMAIN s /\ g[m] \in L \cap DOMAIN s /\ s[f[n]] = s[g[m]]
    BY <1>4, <1>5
  <2> QED BY <1>9, <2>1 DEF IsInjective
<1>10. ASSUME IsInjective(s) PROVE IsInjective(rest)
  <2> SUFFICES ASSUME NEW n \in DOMAIN rest, NEW m \in DOMAIN rest, rest[n] = rest[m] PROVE n = m
    BY DEF IsInjective
  <2>1. g[n] \in DOMAIN s /\ g[m] \in DOMAIN s /\ s[g[n]] = s[g[m]]
    BY <1>5
  <2>2. g[n] = g[m]
    BY <1>10, <2>1 DEF IsInjective
  <2> QED BY <1>6, <2>2
<1> QED BY <1>1, <1>7, <1>8, <1>9, <1>10 DEF part, rest

\* load_and_split of data that it does not refuse.
LEMMA PartsOfData ==
  ASSUME RowsOf(enFile), CanSplit(enFile)
  PROVE  /\ Parts.train \in Seq(Samples) /\ Parts.train # <<>>
         /\ Range(Parts.test) \cup Range(Parts.val) \subseteq Samples
         /\ IsInjective(DataRows(enFile)) =>
              Range(Parts.train) \cap (Range(Parts.test) \cup Range(Parts.val)) = {}
<1> DEFINE rows == DataRows(enFile)
           apart == Chosen(rows, 15, SplitSeed)
           rest == ItemsAt(rows, DOMAIN rows \ apart)
           apart2 == Chosen(rest, 18, SplitSeed)
<1>1. rows \in Seq(Samples)
  <2> DEFINE P == {k \in DOMAIN enFile : enFile[k].kind = "row"}
             kept == ItemsAt(enFile, P)
  <2>1. PICK S : enFile \in Seq(S)
    BY DEF RowsOf, IsSeq
  <2>2. PICK f : From(f, kept, enFile, P \cap 1 .. Len(enFile))
    BY <2>1, AtIs
  <2>3. kept \in Seq(S)
    BY <2>1, AtIs
  <2> HIDE DEF kept
  <2>4. \A n \in DOMAIN kept : kept[n].sample \in Samples
    <3>1. \A n \in DOMAIN kept : f[n] \in DOMAIN enFile /\ enFile[f[n]].kind = "row" /\ kept[n] = enFile[f[n]]
      BY <2>2, <2>3 DEF From
    <3> QED BY <3>1 DEF RowsOf
  <2>5. rows = [k \in DOMAIN kept |-> kept[k].sample]
    BY DEF DataRows, kept
  <2>6. DOMAIN kept = 1 .. Len(kept) /\ Len(kept) \in Nat
    BY <2>3
  <2> QED BY <2>4, <2>5, <2>6
<1>2. /\ Parts.test = ItemsAt(rows, apart) /\ Parts.val = ItemsAt(rest, apart2)
      /\ Parts.train = ItemsAt(rest, DOMAIN rest \ apart2)
  BY DEF Parts, LoadAndSplit, TrainTestSplit
<1>3. DOMAIN rows \ apart # {} /\ DOMAIN rest \ apart2 # {}
  BY DEF CanSplit, Splits, TrainTestSplit
<1> HIDE DEF rows, apart, apart2
<1>4. /\ rest \in Seq(Samples) /\ Range(ItemsAt(rows, apart)) \subseteq Range(rows) /\ Range(rest) \subseteq Range(rows)
      /\ IsInjective(rows) => Range(ItemsAt(rows, apart)) \cap Range(rest) = {} /\ IsInjective(rest)
  BY <1>1, PartsApart
<1> HIDE DEF rest
<1>5. /\ Parts.train \in Seq(Samples) /\ Parts.train # <<>>
      /\ Range(Parts.val) \subseteq Range(rest) /\ Range(Parts.train) \subseteq Range(rest)
      /\ IsInjective(rest) => Range(Parts.val) \cap Range(Parts.train) = {}
  BY <1>2, <1>3, <1>4, PartsApart
<1>6. Range(rows) \subseteq Samples
  BY <1>1 DEF Range
<1> QED BY <1>2, <1>4, <1>5, <1>6 DEF rows

LEMMA SfInvImplies == SfInv /\ EnRows => AdapterSawTrainOnce
<1> SUFFICES ASSUME SfInv, EnRows, sfPc = "evaluating", enRuns = 1
    PROVE  /\ sfTestFile.whole
           /\ IsInjective(DataRows(enFile)) =>
                \A s \in Range(sfTestFile.rows) \cup Range(sfSplit.val) : sfAdapter.seen[s] = 0
           /\ sfTotal = Epochs * Len(sfSplit.train) /\ sfStep = sfTotal =>
                \A s \in Range(sfSplit.train) :
                  sfAdapter.seen[s] = Epochs * Quantify(DOMAIN sfSplit.train, LAMBDA k : sfSplit.train[k] = s)
  BY DEF AdapterSawTrainOnce
<1>1. /\ CanSplit(enFile) /\ sfSplit = Parts /\ sfTestFile = [rows |-> Parts.test, whole |-> TRUE]
      /\ sfStep \in Nat /\ sfAdapter.seen = SeenAfter(Parts.train, sfStep)
  BY DEF SfInv
<1> DEFINE train == Parts.train
<1>2. /\ train \in Seq(Samples) /\ train # <<>>
      /\ Range(Parts.test) \cup Range(Parts.val) \subseteq Samples
      /\ IsInjective(DataRows(enFile)) => Range(train) \cap (Range(Parts.test) \cup Range(Parts.val)) = {}
  BY <1>1, PartsOfData DEF EnRows
<1> HIDE DEF train
<1>3. ASSUME IsInjective(DataRows(enFile)), NEW s \in Range(Parts.test) \cup Range(Parts.val)
      PROVE  sfAdapter.seen[s] = 0
  <2>1. s \in Samples /\ s \notin Range(train)
    BY <1>2, <1>3
  <2>2. \A i \in 0 .. sfStep - 1 : (i % Len(train)) + 1 \in DOMAIN train
    <3> SUFFICES ASSUME NEW i \in 0 .. sfStep - 1 PROVE (i % Len(train)) + 1 \in DOMAIN train
      OBVIOUS
    <3>1. i \in Nat /\ Len(train) \in Nat /\ Len(train) > 0 /\ DOMAIN train = 1 .. Len(train)
      BY <1>1, <1>2
    <3>2. i % Len(train) \in 0 .. Len(train) - 1
      BY <3>1, DivMod
    <3> QED BY <3>1, <3>2
  <2>3. Learned(train, sfStep, s) = {}
    BY <2>1, <2>2 DEF Learned, Range
  <2> QED BY <1>1, <2>1, <2>3, FS_EmptySet DEF SeenAfter, train
<1>4. ASSUME sfTotal = Epochs * Len(sfSplit.train), sfStep = sfTotal, NEW s \in Range(sfSplit.train)
      PROVE  sfAdapter.seen[s] = Epochs * Quantify(DOMAIN sfSplit.train, LAMBDA k : sfSplit.train[k] = s)
  <2>1. sfSplit.train = train /\ s \in Samples
    BY <1>1, <1>2, <1>4 DEF Range, train
  <2>2. sfAdapter.seen[s] = Cardinality(Learned(train, Epochs * Len(train), s))
    BY <1>1, <1>4, <2>1 DEF SeenAfter, train
  <2> QED BY <1>2, <2>1, <2>2, LearnedInEpochs, SftAssumption
<1> QED BY <1>1, <1>3, <1>4

\* train.py reads the data when no enrichment writes it.
LEMMA DataPartStep ==
  ASSUME [OfflineNext]_offlineVars
  PROVE  \/ EnNext /\ (enPc = "idle" => sfPc = "idle") /\ UNCHANGED sfVars
         \/ SfNext /\ enPc = "idle" /\ UNCHANGED enVars
         \/ UNCHANGED <<enVars, sfVars>>
  BY DEF OfflineNext, offlineVars, dataVars, DataNext, Ladder, Assembler, LogLine, Tools, Data, Sampling, Bench, Grpo, Models

\* As long as the data has not grown, an adapter that train.py has trained for all
\* epochs (src/ml/train.py:347-362) has learned each row of the train part Epochs
\* times, and nothing of the frozen test file or of the validation part, for any
\* data, seed and shuffle, with or without --resume, whatever sessions died before.
THEOREM AdapterSawTrainOnceHolds == OfflineSpec => []AdapterSawTrainOnce
<1> DEFINE Inv == EnRows /\ SfInv
<1>1. OfflineInit => Inv
  BY EnRowsInitial, EnPart, SfInitial DEF OfflineInit
<1>2. Inv /\ [OfflineNext]_offlineVars => Inv'
  <2> SUFFICES ASSUME EnRows, SfInv, [OfflineNext]_offlineVars PROVE EnRows' /\ SfInv'
    OBVIOUS
  <2>1. EnRows'
    BY EnPartStep, EnRowsSteps
  <2>2. CASE UNCHANGED <<enVars, sfVars>>
    <3>1. UNCHANGED <<enPc, enRuns, enFile, sfPc, sfSplit, sfTestFile, sfStep, sfSeen, sfCkpts, sfAdapter>>
      BY <2>2 DEF enVars, sfVars
    <3>2. Parts' = Parts /\ CanSplit(enFile)' = CanSplit(enFile)
      BY <3>1 DEF Parts
    <3> QED BY <2>1, <3>1, <3>2 DEF SfInv
  <2> QED BY <2>1, <2>2, DataPartStep, SfKeptByData, SfSteps
<1>3. Inv => AdapterSawTrainOnce
  BY SfInvImplies
<1> QED BY <1>1, <1>2, <1>3, PTL DEF OfflineSpec

-----------------------------------------------------------------------------
(***************************************************************************)
(* What a run of enrich_dataset.py leaves.  The output and the lines that  *)
(* are still to write make the complete list (Finished) as long as no line *)
(* was glued to another; a run that ends early leaves the beginning of it  *)
(* (Started), from which the next one takes what is missing.                 *)
(***************************************************************************)
NoJunk(lines) == \A k \in DOMAIN lines : lines[k].kind # "junk"

Started(lines) ==
  /\ lines # <<>> /\ lines[1].kind = "meta"
  /\ \A k \in DOMAIN lines \ {1} : lines[k].kind = "row"
  /\ \A j, k \in DOMAIN lines \ {1} : lines[j].sample = lines[k].sample => j = k

Finished(lines) ==
  Started(lines) /\ \A s \in Range(enInput) : \E k \in DOMAIN lines \ {1} : lines[k].sample = s

RowsFor(lines, todo) ==
  /\ IsSeq(lines) /\ DOMAIN lines = DOMAIN todo
  /\ \A i \in DOMAIN todo : lines[i].kind = "row" /\ lines[i].sample = todo[i]

RunInv ==
  IsInjective(enInput) =>
    /\ enPc \in {"validating", "opening"} =>
         enTodo = Remaining(enInput, Readable(enFile)) /\ enMode = ModeFor(Readable(enFile))
    /\ enPc = "opening" => RowsFor(enLines, enTodo)
    /\ enPc # "writing" => (NoJunk(enFile) /\ Readable(enFile) # {} => Started(enFile))
    /\ enPc = "writing" => (NoJunk(enFile) => Finished(enFile \o enLines))

LEMMA Joins ==
  ASSUME NEW s, IsSeq(s), NEW t, IsSeq(t)
  PROVE  /\ IsSeq(s \o t) /\ DOMAIN s = 1 .. Len(s) /\ DOMAIN t = 1 .. Len(t)
         /\ Len(s) \in Nat /\ Len(t) \in Nat /\ DOMAIN (s \o t) = 1 .. Len(s) + Len(t)
         /\ \A k \in 1 .. Len(s) : (s \o t)[k] = s[k]
         /\ \A k \in 1 .. Len(t) : (s \o t)[Len(s) + k] = t[k]
<1>1. PICK S : s \in Seq(S)
  BY DEF IsSeq
<1>2. PICK T : t \in Seq(T)
  BY DEF IsSeq
<1>3. s \in Seq(S \cup T) /\ t \in Seq(S \cup T)
  BY <1>1, <1>2
<1>4. s \o t \in Seq(S \cup T)
  BY <1>3
<1> QED BY <1>3, <1>4 DEF IsSeq

\* What is left to do: every sample that is not done, once.
LEMMA RemainingIs ==
  ASSUME enInput \in Seq(Samples), IsInjective(enInput), NEW done
  PROVE  LET todo == Remaining(enInput, done)
         IN  /\ todo \in Seq(Samples)
             /\ \A i \in DOMAIN todo : todo[i] \notin done
             /\ \A i, j \in DOMAIN todo : todo[i] = todo[j] => i = j
             /\ \A s \in Range(enInput) : s \notin done => \E i \in DOMAIN todo : todo[i] = s
<1> DEFINE todo == Remaining(enInput, done)
           P == {i \in DOMAIN enInput : enInput[i] \notin done}
<1>1. todo = ItemsAt(enInput, P)
  BY DEF Remaining
<1>2. ItemsAt(enInput, P) \in Seq(Samples) /\ \E f : From(f, ItemsAt(enInput, P), enInput, P \cap 1 .. Len(enInput))
  BY AtIs
<1> HIDE DEF todo
<1>3. todo \in Seq(Samples) /\ DOMAIN todo = 1 .. Len(todo) /\ P = P \cap 1 .. Len(enInput)
  BY <1>1, <1>2
<1>4. PICK f : From(f, todo, enInput, P)
  BY <1>1, <1>2, <1>3
<1>5. \A i \in DOMAIN todo : f[i] \in P /\ todo[i] = enInput[f[i]]
  BY <1>3, <1>4 DEF From
<1>6. \A i, j \in DOMAIN todo : f[i] = f[j] => i = j
  BY <1>3, <1>4 DEF From, IsInjective
<1>7. \A k \in P : \E i \in DOMAIN todo : f[i] = k
  BY <1>3, <1>4 DEF From
<1>8. \A i, j \in DOMAIN todo : todo[i] = todo[j] => i = j
  BY <1>5, <1>6 DEF IsInjective
<1>9. ASSUME NEW s \in Range(enInput), s \notin done PROVE \E i \in DOMAIN todo : todo[i] = s
  <2>1. PICK k \in P : enInput[k] = s
    BY <1>9 DEF Range
  <2> QED BY <1>5, <1>7, <2>1
<1> QED BY <1>3, <1>5, <1>8, <1>9 DEF todo

\* A line behind the others: nothing of the list changes but where it is cut.
LEMMA OneLineOver ==
  ASSUME NEW file, IsSeq(file), NEW lines, IsSeq(lines), lines # <<>>, NoJunk(AddLine(file, Head(lines)))
  PROVE  AddLine(file, Head(lines)) \o Tail(lines) = file \o lines /\ NoJunk(file)
<1>1. PICK S : file \in Seq(S)
  BY DEF IsSeq
<1>2. PICK T : lines \in Seq(T)
  BY DEF IsSeq
<1>3. CASE file # <<>> /\ ~file[Len(file)].nl
  <2>1. AddLine(file, Head(lines)) = [file EXCEPT ![Len(file)] = Junk(Head(lines).nl)]
    BY <1>3 DEF AddLine
  <2>2. Len(file) \in DOMAIN file
    BY <1>1, <1>3
  <2>3. AddLine(file, Head(lines))[Len(file)].kind = "junk" /\ Len(file) \in DOMAIN AddLine(file, Head(lines))
    BY <2>1, <2>2 DEF Junk
  <2> QED BY <2>3 DEF NoJunk
<1>4. CASE ~ (file # <<>> /\ ~file[Len(file)].nl)
  <2>1. AddLine(file, Head(lines)) = Append(file, Head(lines))
    BY <1>4 DEF AddLine
  <2>2. file \in Seq(S \cup T) /\ lines \in Seq(S \cup T)
    BY <1>1, <1>2
  <2>3. Append(file, Head(lines)) \o Tail(lines) = file \o lines
    BY <2>2
  <2>4. \A k \in DOMAIN file : k \in DOMAIN Append(file, Head(lines)) /\ Append(file, Head(lines))[k] = file[k]
    BY <2>2
  <2> QED BY <2>1, <2>3, <2>4 DEF NoJunk
<1> QED BY <1>3, <1>4

\* The beginning of a list that was begun.
LEMMA Beginning ==
  ASSUME NEW file, IsSeq(file), NEW lines, IsSeq(lines), Started(file \o lines), file # <<>>
  PROVE  Started(file)
<1>1. /\ DOMAIN file = 1 .. Len(file) /\ Len(file) \in Nat /\ Len(lines) \in Nat
      /\ DOMAIN (file \o lines) = 1 .. Len(file) + Len(lines)
      /\ \A k \in 1 .. Len(file) : (file \o lines)[k] = file[k]
  BY Joins
<1>2. Len(file) # 0
  <2>1. PICK S : file \in Seq(S)
    BY DEF IsSeq
  <2> QED BY <2>1
<1>3. \A k \in DOMAIN file : k \in DOMAIN (file \o lines) /\ (file \o lines)[k] = file[k]
  BY <1>1
<1>4. 1 \in DOMAIN file
  BY <1>1, <1>2
<1> HIDE DEF IsSeq
<1> QED BY <1>3, <1>4 DEF Started

\* Such a beginning and what is missing make the complete list.
LEMMA MissingCompletes ==
  ASSUME EnRows, IsInjective(enInput), NEW file, IsSeq(file), Started(file),
         NEW lines, RowsFor(lines, Remaining(enInput, Readable(file)))
  PROVE  Finished(file \o lines)
<1> DEFINE todo == Remaining(enInput, Readable(file))
           n == Len(file)
           all == file \o lines
<1>1. /\ IsSeq(lines) /\ DOMAIN lines = DOMAIN todo
      /\ \A i \in DOMAIN todo : lines[i].kind = "row" /\ lines[i].sample = todo[i]
  BY DEF RowsFor
<1>2. /\ \A i \in DOMAIN todo : todo[i] \notin Readable(file)
      /\ \A i, j \in DOMAIN todo : todo[i] = todo[j] => i = j
      /\ \A s \in Range(enInput) : s \notin Readable(file) => \E i \in DOMAIN todo : todo[i] = s
  BY RemainingIs DEF EnRows
<1> HIDE DEF todo
<1>3. /\ DOMAIN file = 1 .. n /\ n \in Nat /\ DOMAIN lines = 1 .. Len(lines) /\ Len(lines) \in Nat
      /\ DOMAIN all = 1 .. n + Len(lines)
      /\ \A k \in 1 .. n : all[k] = file[k]
      /\ \A k \in 1 .. Len(lines) : all[n + k] = lines[k]
  BY <1>1, Joins
<1>4. n # 0
  <2>1. PICK S : file \in Seq(S)
    BY DEF IsSeq
  <2> QED BY <2>1 DEF Started
<1> HIDE DEF n, all
\* Every position but the first is a row of the file or a missing one.
<1>5. ASSUME NEW k \in DOMAIN all \ {1}
      PROVE  \/ k \in DOMAIN file \ {1} /\ all[k] = file[k] /\ all[k].sample \in Readable(file)
             \/ k - n \in DOMAIN todo /\ all[k] = lines[k - n] /\ all[k].sample = todo[k - n]
  <2>1. CASE k <= n
    <3>1. k \in DOMAIN file \ {1} /\ all[k] = file[k]
      BY <1>3, <1>5, <2>1
    <3>2. file[k].kind = "row"
      BY <3>1 DEF Started
    <3> QED BY <3>1, <3>2 DEF Readable
  <2>2. CASE ~(k <= n)
    <3>1. k - n \in 1 .. Len(lines) /\ n + (k - n) = k
      BY <1>3, <1>5, <2>2
    <3> QED BY <1>1, <1>3, <3>1
  <2> QED BY <2>1, <2>2
<1>6. \A k \in DOMAIN all \ {1} : all[k].kind = "row"
  BY <1>1, <1>5 DEF Started
<1>7. ASSUME NEW j \in DOMAIN all \ {1}, NEW k \in DOMAIN all \ {1}, all[j].sample = all[k].sample
      PROVE  j = k
  <2>1. CASE j \in DOMAIN file \ {1} /\ k \in DOMAIN file \ {1}
    <3>1. all[j] = file[j] /\ all[k] = file[k]
      BY <1>3, <2>1
    <3> QED BY <1>7, <2>1, <3>1 DEF Started
  <2>2. CASE j - n \in DOMAIN todo /\ k - n \in DOMAIN todo
    <3>1. j \in Int /\ k \in Int
      BY <1>3
    <3>2. all[j].sample = todo[j - n] /\ all[k].sample = todo[k - n]
      <4>1. ASSUME NEW m \in DOMAIN all \ {1}, m - n \in DOMAIN todo PROVE all[m].sample = todo[m - n]
        <5>1. n + (m - n) = m
          BY <1>3
        <5> QED BY <1>1, <1>3, <4>1, <5>1
      <4> QED BY <2>2, <4>1
    <3>3. j - n = k - n
      BY <1>2, <1>7, <2>2, <3>2
    <3> QED BY <1>3, <3>1, <3>3
  <2> QED BY <1>2, <1>5, <1>7, <2>1, <2>2
<1>8. ASSUME NEW s \in Range(enInput) PROVE \E k \in DOMAIN all \ {1} : all[k].sample = s
  <2>1. CASE s \in Readable(file)
    <3>1. PICK k \in DOMAIN file : file[k].kind = "row" /\ file[k].sample = s
      BY <2>1 DEF Readable
    <3>2. k # 1
      BY <3>1 DEF Started
    <3>3. k \in DOMAIN all /\ all[k] = file[k]
      BY <1>3
    <3> QED BY <3>1, <3>2, <3>3
  <2>2. CASE s \notin Readable(file)
    <3>1. PICK i \in DOMAIN todo : todo[i] = s
      BY <1>2, <2>2
    <3>2. n + i \in DOMAIN all \ {1} /\ all[n + i] = lines[i]
      BY <1>1, <1>3, <1>4
    <3> QED BY <1>1, <3>1, <3>2
  <2> QED BY <2>1, <2>2
<1>9. 1 \in DOMAIN all /\ all # <<>> /\ all[1].kind = "meta"
  <2>1. 1 \in 1 .. n /\ 1 \in DOMAIN all
    BY <1>3, <1>4
  <2>2. all[1] = file[1] /\ DOMAIN all # {}
    BY <1>3, <2>1
  <2>3. all # <<>>
    BY <2>2
  <2> QED BY <2>1, <2>2, <2>3 DEF Started
<1>10. Started(all)
  BY <1>6, <1>7, <1>9 DEF Started
<1>11. Finished(all)
  BY <1>8, <1>10 DEF Finished
<1> QED BY <1>11 DEF all

LEMMA RunInitial == EnInit => RunInv
<1> SUFFICES ASSUME EnInit PROVE RunInv
  OBVIOUS
<1>1. enFile = <<>> /\ enPc = "idle"
  BY DEF EnInit
<1>2. Readable(enFile) = {}
  BY <1>1 DEF Readable
<1> QED BY <1>1, <1>2 DEF RunInv

\* What is in the file when a run stops in the middle of its lines.
LEMMA StoppedRun ==
  ASSUME NEW file, IsSeq(file), NEW lines, IsSeq(lines), NoJunk(file) => Finished(file \o lines),
         NoJunk(file), Readable(file) # {}
  PROVE  Started(file)
<1>1. file # <<>>
  BY DEF Readable
<1> QED BY <1>1, Beginning DEF Finished

\* A torn line makes junk, or is the line without its end.
LEMMA TornRun ==
  ASSUME NEW file, IsSeq(file), NEW lines, IsSeq(lines), lines # <<>>,
         NoJunk(file) => Finished(file \o lines),
         NEW left \in Torn(file, Head(lines)), NoJunk(left), Readable(left) # {}
  PROVE  Started(left)
<1> DEFINE line == [Head(lines) EXCEPT !.nl = FALSE]
           glued == file # <<>> /\ ~file[Len(file)].nl
<1>1. /\ DOMAIN file = 1 .. Len(file) /\ Len(file) \in Nat
      /\ \A x : /\ IsSeq(Append(file, x)) /\ DOMAIN Append(file, x) = 1 .. Len(file) + 1
                /\ Append(file, x)[Len(file) + 1] = x
                /\ \A k \in 1 .. Len(file) : Append(file, x)[k] = file[k]
  <2>1. PICK S : file \in Seq(S)
    BY DEF IsSeq
  <2>2. ASSUME NEW x PROVE /\ IsSeq(Append(file, x)) /\ DOMAIN Append(file, x) = 1 .. Len(file) + 1
                           /\ Append(file, x)[Len(file) + 1] = x
                           /\ \A k \in 1 .. Len(file) : Append(file, x)[k] = file[k]
    <3>1. file \in Seq(S \cup {x}) /\ x \in S \cup {x}
      BY <2>1
    <3>2. Append(file, x) \in Seq(S \cup {x})
      BY <3>1
    <3> QED BY <3>1, <3>2 DEF IsSeq
  <2> QED BY <2>1, <2>2
<1>2. ASSUME NEW x, glued PROVE ~NoJunk(AddLine(file, x))
  <2>1. AddLine(file, x) = [file EXCEPT ![Len(file)] = Junk(x.nl)]
    BY <1>2 DEF AddLine
  <2>2. Len(file) \in DOMAIN file
    <3>1. PICK S : file \in Seq(S)
      BY DEF IsSeq
    <3> QED BY <1>2, <3>1
  <2>3. AddLine(file, x)[Len(file)].kind = "junk" /\ Len(file) \in DOMAIN AddLine(file, x)
    BY <2>1, <2>2 DEF Junk
  <2> QED BY <2>3 DEF NoJunk
<1>3. ASSUME NEW x, ~glued PROVE AddLine(file, x) = Append(file, x)
  BY <1>3 DEF AddLine
<1>4. CASE left = file
  BY <1>4, StoppedRun
<1>5. left # AddLine(file, Junk(FALSE))
  <2> SUFFICES ASSUME left = AddLine(file, Junk(FALSE)) PROVE FALSE
    OBVIOUS
  <2>1. ~glued
    BY <1>2
  <2>2. left = Append(file, Junk(FALSE))
    BY <1>3, <2>1
  <2>3. Len(file) + 1 \in DOMAIN left /\ left[Len(file) + 1].kind = "junk"
    BY <1>1, <2>2 DEF Junk
  <2> QED BY <2>3 DEF NoJunk
<1>6. CASE left = AddLine(file, line)
  <2>1. ~glued
    BY <1>2, <1>6
  <2>2. left = Append(file, line)
    BY <1>3, <1>6, <2>1
  <2>3. line.kind = Head(lines).kind /\ line.sample = Head(lines).sample
    OBVIOUS
  <2> DEFINE whole == Append(file, Head(lines))
  <2> HIDE DEF line, glued
  <2>4. /\ DOMAIN left = DOMAIN whole
        /\ \A k \in DOMAIN whole : left[k].kind = whole[k].kind /\ left[k].sample = whole[k].sample
    BY <1>1, <2>2, <2>3
  <2>5. NoJunk(file)
    BY <1>1, <2>2 DEF NoJunk
  <2>6. NoJunk(whole)
    BY <2>4 DEF NoJunk
  <2>7. whole = AddLine(file, Head(lines))
    BY <1>3, <2>1 DEF glued
  <2>8. Started(whole \o Tail(lines))
    BY <2>5, <2>6, <2>7, OneLineOver DEF Finished
  <2>9. IsSeq(whole) /\ IsSeq(Tail(lines))
    <3>1. PICK T : lines \in Seq(T)
      BY DEF IsSeq
    <3>2. Tail(lines) \in Seq(T)
      BY <3>1
    <3> QED BY <1>1, <3>2 DEF IsSeq
  <2>10. whole # <<>> /\ left # <<>>  /\ 1 \in DOMAIN whole
    <3>1. 1 \in DOMAIN whole /\ 1 \in DOMAIN left
      BY <1>1, <2>4
    <3> QED BY <3>1
  <2>11. Started(whole)
    BY <2>8, <2>9, <2>10, Beginning
  <2> HIDE DEF whole
  <2> QED BY <2>4, <2>10, <2>11 DEF Started
<1> QED BY <1>4, <1>5, <1>6 DEF Torn

LEMMA RunSteps ==
  ASSUME EnRows, RunInv, [EnNext]_enVars
  PROVE  RunInv'
<1> SUFFICES ASSUME IsInjective(enInput)'
    PROVE  /\ enPc' \in {"validating", "opening"} =>
                enTodo' = Remaining(enInput', Readable(enFile')) /\ enMode' = ModeFor(Readable(enFile'))
           /\ enPc' = "opening" => RowsFor(enLines', enTodo')
           /\ enPc' # "writing" => (NoJunk(enFile') /\ Readable(enFile') # {} => Started(enFile'))
           /\ enPc' = "writing" => (NoJunk(enFile') => Finished(enFile \o enLines)')
  BY DEF RunInv
<1>0. UNCHANGED enInput
  BY DEF EnNext, EnStep, enVars, EnStart, EnTake, EnRecord, EnRaise, EnBins, EnOpen, EnWrite, EnFinish, EnCrash
<1>1. IsInjective(enInput)
  BY <1>0
<1>2. /\ enPc \in {"validating", "opening"} =>
           enTodo = Remaining(enInput, Readable(enFile)) /\ enMode = ModeFor(Readable(enFile))
      /\ enPc = "opening" => RowsFor(enLines, enTodo)
      /\ enPc # "writing" => (NoJunk(enFile) /\ Readable(enFile) # {} => Started(enFile))
      /\ enPc = "writing" => (NoJunk(enFile) => Finished(enFile \o enLines))
  BY <1>1 DEF RunInv
<1>3. IsSeq(enFile) /\ IsSeq(enLines)
  BY DEF EnRows, RowsOf
<1>5. CASE UNCHANGED <<enFile, enLines, enPc, enTodo, enMode>>
  BY <1>0, <1>2, <1>5 DEF Finished
<1>6. CASE UNCHANGED enVars
  BY <1>5, <1>6 DEF enVars
<1>7. CASE EnStart
  BY <1>0, <1>2, <1>7 DEF EnStart
<1>8. CASE EnTake
  BY <1>5, <1>8 DEF EnTake
<1>9. ASSUME NEW i, NEW trace, EnRecord(i, trace) PROVE UNCHANGED <<enFile, enLines, enPc, enTodo, enMode>>
  BY <1>9 DEF EnRecord
<1>10. CASE EnBins
  <2>1. PICK cov, novel, novT : enLines' = Rows(enTodo, enTraces, cov, novel, novT)
    BY <1>10 DEF EnBins
  <2>2. UNCHANGED <<enFile, enTodo, enMode>> /\ enPc = "validating" /\ enPc' = "opening"
    BY <1>10 DEF EnBins
  <2>3. /\ DOMAIN enLines' = DOMAIN enTodo
        /\ \A i \in DOMAIN enTodo : enLines'[i].kind = "row" /\ enLines'[i].sample = enTodo[i]
    BY <2>1 DEF Rows
  <2>4. IsSeq(enLines')
    BY EnRowsSteps DEF EnRows, RowsOf
  <2> QED BY <1>0, <1>2, <2>2, <2>3, <2>4 DEF RowsFor
<1>11. CASE EnOpen
  <2>1. /\ enPc = "opening" /\ enPc' = "writing" /\ enTodo = Remaining(enInput, Readable(enFile))
        /\ enMode = ModeFor(Readable(enFile)) /\ RowsFor(enLines, enTodo)
    BY <1>2, <1>11 DEF EnOpen
  <2>2. CASE enMode = "w"
    <3>1. enFile' = <<>> /\ enLines' = <<Meta>> \o enLines
      BY <1>11, <2>2 DEF EnOpen
    <3>2. Readable(enFile) = {}
      BY <2>1, <2>2 DEF ModeFor
    <3>3. IsSeq(<<Meta>>) /\ Started(<<Meta>>) /\ Readable(<<Meta>>) = {}
      <4>1. <<Meta>> \in Seq({Meta}) /\ <<Meta>> # <<>> /\ <<Meta>>[1] = Meta
        OBVIOUS
      <4>2. DOMAIN <<Meta>> = {1}
        <5>1. DOMAIN <<Meta>> = 1 .. 1
          OBVIOUS
        <5> QED BY <5>1
      <4>3. Meta.kind = "meta"
        BY DEF Meta
      <4>4. IsSeq(<<Meta>>)
        BY <4>1 DEF IsSeq
      <4>5. ASSUME NEW m, m # <<>>, m[1].kind = "meta", DOMAIN m = {1} PROVE Started(m) /\ Readable(m) = {}
        BY <4>5 DEF Started, Readable
      <4> QED BY <4>1, <4>2, <4>3, <4>4, <4>5
    <3>4. Finished(<<Meta>> \o enLines)
      BY <1>1, <2>1, <3>2, <3>3, MissingCompletes
    <3>5. enFile' \o enLines' = <<Meta>> \o enLines
      <4>1. PICK S : enLines' \in Seq(S)
        BY EnRowsSteps DEF EnRows, RowsOf, IsSeq
      <4>2. enFile' \o enLines' = enLines'
        BY <3>1, <4>1
      <4> QED BY <3>1, <4>2
    <3> QED BY <1>0, <2>1, <3>4, <3>5 DEF Finished
  <2>3. CASE enMode # "w"
    <3>1. UNCHANGED <<enFile, enLines>>
      BY <1>11, <2>3 DEF EnOpen
    <3>2. Readable(enFile) # {}
      BY <2>1, <2>3 DEF ModeFor
    <3>3. NoJunk(enFile) => Finished(enFile \o enLines)
      BY <1>1, <1>2, <1>3, <2>1, <3>2, MissingCompletes
    <3> QED BY <1>0, <2>1, <3>1, <3>3 DEF Finished
  <2> QED BY <2>2, <2>3
<1>12. CASE EnWrite
  <2>1. enFile' = AddLine(enFile, Head(enLines)) /\ enLines' = Tail(enLines) /\ enLines # <<>> /\ enPc = "writing" /\ enPc' = "writing"
    BY <1>12 DEF EnWrite
  <2>2. NoJunk(enFile') => enFile' \o enLines' = enFile \o enLines /\ NoJunk(enFile)
    BY <1>3, <2>1, OneLineOver
  <2> QED BY <1>0, <1>2, <2>1, <2>2 DEF Finished
<1>13. CASE EnFinish \/ EnRaise
  <2>1. UNCHANGED enFile /\ enPc' = "idle"
    BY <1>13 DEF EnFinish, EnRaise, EnForget
  <2> QED BY <1>2, <1>3, <2>1, StoppedRun
<1>14. CASE EnCrash
  <2>1. enPc' = "idle"
    BY <1>14 DEF EnCrash, EnForget
  <2>2. CASE enPc = "writing" /\ enLines # <<>>
    <3>1. enFile' \in Torn(enFile, Head(enLines))
      BY <1>14, <2>2 DEF EnCrash
    <3> QED BY <1>2, <1>3, <2>1, <2>2, <3>1, TornRun
  <2>3. CASE ~(enPc = "writing" /\ enLines # <<>>)
    <3>1. UNCHANGED enFile
      BY <1>14, <2>3 DEF EnCrash
    <3> QED BY <1>2, <1>3, <2>1, <3>1, StoppedRun
  <2> QED BY <2>2, <2>3
<1> QED BY <1>5, <1>6, <1>7, <1>8, <1>9, <1>10, <1>11, <1>12, <1>13, <1>14 DEF EnNext, EnStep

\* A run of enrich_dataset.py that writes its last line to a file without junk
\* (src/ml/enrich_dataset.py:348-358) leaves the metadata first and one row per
\* sample of the input, whatever runs stopped in the middle before it.
THEOREM RunCompletesHolds == OfflineSpec => []RunCompletes
<1> DEFINE Inv == EnRows /\ RunInv
<1>1. OfflineInit => Inv
  BY EnRowsInitial, EnPart, RunInitial
<1>2. Inv /\ [OfflineNext]_offlineVars => Inv'
  BY EnPartStep, EnRowsSteps, RunSteps
<1>3. Inv => RunCompletes
  <2> SUFFICES ASSUME EnRows, RunInv, enPc = "writing", enLines = <<>>, IsInjective(enInput), NoJunk(enFile)
      PROVE  /\ enFile[1].kind = "meta"
             /\ \A k \in DOMAIN enFile \ {1} : enFile[k].kind = "row"
             /\ \A s \in Range(enInput) : Quantify(DOMAIN enFile \ {1}, LAMBDA k : enFile[k].sample = s) = 1
    BY DEF RunCompletes, NoJunk
  <2>1. enFile \o enLines = enFile
    <3>1. PICK S : enFile \in Seq(S)
      BY DEF EnRows, RowsOf, IsSeq
    <3> QED BY <3>1
  <2>2. Finished(enFile)
    BY <2>1 DEF RunInv
  <2>3. ASSUME NEW s \in Range(enInput)
        PROVE  Quantify(DOMAIN enFile \ {1}, LAMBDA k : enFile[k].sample = s) = 1
    <3>1. PICK k \in DOMAIN enFile \ {1} : enFile[k].sample = s
      BY <2>2 DEF Finished
    <3>2. {j \in DOMAIN enFile \ {1} : enFile[j].sample = s} = {k}
      BY <2>2, <3>1 DEF Finished, Started
    <3> QED BY <3>2, FS_Singleton DEF Quantify
  <2> QED BY <2>2, <2>3 DEF Finished, Started
<1> QED BY <1>1, <1>2, <1>3, PTL DEF OfflineSpec

-----------------------------------------------------------------------------
(***************************************************************************)
(* What the rows of enrich_dataset.py say.  The sidecar has one record per *)
(* result, in any order (Results), so that its two passes count the same   *)
(* programs as the results by position do.                                 *)
(***************************************************************************)
Trace(t) == t.n \in DOMAIN Log /\ IsFiniteSet(t.pcs)

Results(sidecar, traces) ==
  /\ \A i \in DOMAIN traces : Trace(traces[i])
  /\ IsSeq(sidecar)
  /\ \A k \in DOMAIN sidecar : sidecar[k].idx \in DOMAIN traces /\ sidecar[k].pcs = traces[sidecar[k].idx].pcs
  /\ \A j, k \in DOMAIN sidecar : sidecar[j].idx = sidecar[k].idx => j = k
  /\ \A i \in DOMAIN traces : \E k \in DOMAIN sidecar : sidecar[k].idx = i

\* Some results, counted by their records.
LEMMA CountedByRecord ==
  ASSUME NEW sidecar, NEW traces, Results(sidecar, traces), NEW B \in SUBSET DOMAIN traces
  PROVE  LET A == {k \in DOMAIN sidecar : sidecar[k].idx \in B}
         IN  IsFiniteSet(B) /\ Cardinality(A) = Cardinality(B) /\ Cardinality(B) \in Nat
<1> DEFINE A == {k \in DOMAIN sidecar : sidecar[k].idx \in B}
           idx == [k \in A |-> sidecar[k].idx]
<1>1. IsFiniteSet(A)
  <2>1. PICK S : sidecar \in Seq(S)
    BY DEF Results, IsSeq
  <2>2. A \in SUBSET (1 .. Len(sidecar)) /\ Len(sidecar) \in Nat
    BY <2>1
  <2>3. IsFiniteSet(1 .. Len(sidecar))
    BY <2>2, FS_Interval
  <2> HIDE DEF A
  <2> QED BY <2>2, <2>3, FS_Subset
<1>2. idx \in [A -> B]
  OBVIOUS
<1>3. \A j, k \in A : idx[j] = idx[k] => j = k
  BY DEF Results
<1>4. \A i \in B : \E k \in A : idx[k] = i
  <2> SUFFICES ASSUME NEW i \in B PROVE \E k \in A : idx[k] = i
    OBVIOUS
  <2>1. PICK k \in DOMAIN sidecar : sidecar[k].idx = i
    BY DEF Results
  <2> QED BY <2>1
<1> HIDE DEF A, idx
<1>5. idx \in Bijection(A, B)
  BY <1>2, <1>3, <1>4 DEF Bijection, Injection, Surjection, IsInjective
<1>6. IsFiniteSet(B) /\ Cardinality(A) = Cardinality(B)
  BY <1>1, <1>5, FS_Bijection, FS_Surjection DEF ExistsBijection, Bijection
<1> QED BY <1>6, FS_CardinalityType DEF A

Covering(traces, pc) == {i \in DOMAIN traces : pc \in traces[i].pcs}
Covered(traces) == {i \in DOMAIN traces : traces[i].pcs # {}}

LEMMA PassesCount ==
  ASSUME NEW sidecar, NEW traces, Results(sidecar, traces)
  PROVE  /\ WithTrace(sidecar) = Cardinality(Covered(traces)) /\ WithTrace(sidecar) \in Nat
         /\ \A pc : /\ PcFreq(sidecar, pc) = Cardinality(Covering(traces, pc)) /\ PcFreq(sidecar, pc) \in Nat
                    /\ PcFreq(sidecar, pc) <= WithTrace(sidecar)
<1>1. Cardinality(Covered(traces)) \in Nat /\ WithTrace(sidecar) = Cardinality(Covered(traces)) /\ IsFiniteSet(Covered(traces))
  <2>1. Covered(traces) \in SUBSET DOMAIN traces
    BY DEF Covered
  <2>2. {k \in DOMAIN sidecar : sidecar[k].pcs # {}} = {k \in DOMAIN sidecar : sidecar[k].idx \in Covered(traces)}
    BY DEF Results, Covered
  <2>3. /\ Cardinality({k \in DOMAIN sidecar : sidecar[k].idx \in Covered(traces)}) = Cardinality(Covered(traces))
        /\ Cardinality(Covered(traces)) \in Nat /\ IsFiniteSet(Covered(traces))
    BY <2>1, CountedByRecord
  <2>4. WithTrace(sidecar) = Cardinality({k \in DOMAIN sidecar : sidecar[k].pcs # {}})
    BY DEF WithTrace, Quantify
  <2> QED BY <2>2, <2>3, <2>4
<1>2. ASSUME NEW pc PROVE /\ PcFreq(sidecar, pc) = Cardinality(Covering(traces, pc)) /\ PcFreq(sidecar, pc) \in Nat
                          /\ PcFreq(sidecar, pc) <= WithTrace(sidecar)
  <2>1. Covering(traces, pc) \in SUBSET DOMAIN traces
    BY DEF Covering
  <2>2. {k \in DOMAIN sidecar : pc \in sidecar[k].pcs} = {k \in DOMAIN sidecar : sidecar[k].idx \in Covering(traces, pc)}
    BY DEF Results, Covering
  <2>6. /\ Cardinality({k \in DOMAIN sidecar : sidecar[k].idx \in Covering(traces, pc)}) = Cardinality(Covering(traces, pc))
        /\ Cardinality(Covering(traces, pc)) \in Nat
    BY <2>1, CountedByRecord
  <2>3. PcFreq(sidecar, pc) = Cardinality(Covering(traces, pc)) /\ PcFreq(sidecar, pc) \in Nat
    BY <2>2, <2>6 DEF PcFreq, Quantify
  <2>4. Covering(traces, pc) \in SUBSET Covered(traces)
    BY DEF Covering, Covered
  <2>5. Cardinality(Covering(traces, pc)) <= Cardinality(Covered(traces))
    BY <1>1, <2>4, FS_Subset
  <2> QED BY <1>1, <2>3, <2>5
<1> QED BY <1>1, <1>2

\* The mean rarity of some addresses among the programs at positions D.
MeanRarity(D, traces, pcs) ==
  LET covering(pc) == Quantify(D, LAMBDA i : pc \in traces[i].pcs)
      n == Quantify(D, LAMBDA i : traces[i].pcs # {})
  IN  (NovUnit * (n * Cardinality(pcs) - MapThenSumSet(covering, pcs))) \div (n * Cardinality(pcs))

\* The rarity a program gets from the sidecar is the one of its results.
LEMMA RarityIs ==
  ASSUME NEW sidecar, NEW traces, Results(sidecar, traces), NEW pcs, IsFiniteSet(pcs)
  PROVE  Rarity(sidecar, pcs) = MeanRarity(DOMAIN traces, traces, pcs)
<1> DEFINE covering(pc) == Quantify(DOMAIN traces, LAMBDA i : pc \in traces[i].pcs)
           n == Quantify(DOMAIN traces, LAMBDA i : traces[i].pcs # {})
           w == WithTrace(sidecar)
           f == [pc \in pcs |-> PcFreq(sidecar, pc)]
           g == [pc \in pcs |-> w - PcFreq(sidecar, pc)]
           SolvesF(h) == h = [s \in SUBSET pcs |-> IF s = {} THEN 0 ELSE covering(Some(s)) + h[s \ {Some(s)}]]
           SolvesG(h) == h = [s \in SUBSET pcs |-> IF s = {} THEN 0 ELSE (w - PcFreq(sidecar, Some(s))) + h[s \ {Some(s)}]]
<1>1. w = n
  BY PassesCount DEF Covered, Quantify
<1>2. \A pc \in pcs : covering(pc) = f[pc]
  BY PassesCount DEF Covering, Quantify
<1>3. w \in Nat /\ \A pc \in pcs : f[pc] \in Nat /\ g[pc] \in Nat /\ g[pc] + f[pc] = w
  <2>1. w \in Nat /\ \A pc \in pcs : PcFreq(sidecar, pc) \in Nat /\ PcFreq(sidecar, pc) <= w
    BY PassesCount
  <2> HIDE DEF w
  <2> QED BY <2>1
<1>4. \A s \in SUBSET pcs : s # {} => Some(s) \in pcs
  BY DEF Some
<1>5. MapThenSumSet(covering, pcs) = (CHOOSE h : SolvesF(h))[pcs]
  BY DEF MapThenSumSet, MapThenFoldSet, Some
<1>6. MapThenSumSet(LAMBDA pc : WithTrace(sidecar) - PcFreq(sidecar, pc), pcs) = (CHOOSE h : SolvesG(h))[pcs]
  BY DEF MapThenSumSet, MapThenFoldSet, Some
<1>7. \A h : SolvesG(h) <=> Adds(h, g, pcs)
  BY <1>4 DEF Adds
<1> HIDE DEF w, g
<1>8. \A h : SolvesF(h) <=> Adds(h, f, pcs)
  <2> HIDE DEF covering, f
  <2> QED BY <1>2, <1>4 DEF Adds
<1> HIDE DEF f, covering
<1>9. MapThenSumSet(covering, pcs) = SumOf(f, pcs)
  <2>1. \E h : SolvesF(h)
    BY <1>3, <1>8, SumsAdd
  <2>2. SolvesF(CHOOSE h : SolvesF(h))
    BY <2>1
  <2> DEFINE h0 == CHOOSE h : SolvesF(h)
  <2> HIDE DEF SolvesF
  <2>3. Adds(h0, f, pcs)
    BY <1>8, <2>2
  <2> HIDE DEF h0
  <2>4. h0[pcs] = SumOf(f, pcs)
    BY <1>3, <2>3, SumsAdd
  <2> QED BY <1>5, <2>4 DEF h0
<1>10. MapThenSumSet(LAMBDA pc : WithTrace(sidecar) - PcFreq(sidecar, pc), pcs) = SumOf(g, pcs)
  <2>1. \E h : SolvesG(h)
    BY <1>3, <1>7, SumsAdd
  <2>2. SolvesG(CHOOSE h : SolvesG(h))
    BY <2>1
  <2> DEFINE h0 == CHOOSE h : SolvesG(h)
  <2> HIDE DEF SolvesG
  <2>3. Adds(h0, g, pcs)
    BY <1>7, <2>2
  <2> HIDE DEF h0
  <2>4. h0[pcs] = SumOf(g, pcs)
    BY <1>3, <2>3, SumsAdd
  <2> QED BY <1>6, <2>4 DEF h0
<1>11. SumOf(g, pcs) = w * Cardinality(pcs) - SumOf(f, pcs)
  BY <1>3, SumComplement
<1>12. Rarity(sidecar, pcs)
         = (NovUnit * MapThenSumSet(LAMBDA pc : WithTrace(sidecar) - PcFreq(sidecar, pc), pcs)) \div (w * Cardinality(pcs))
  BY DEF Rarity, w
<1>13. Rarity(sidecar, pcs) = (NovUnit * (n * Cardinality(pcs) - MapThenSumSet(covering, pcs))) \div (n * Cardinality(pcs))
  BY <1>1, <1>9, <1>10, <1>11, <1>12
<1> QED BY <1>13 DEF covering, MeanRarity

-----------------------------------------------------------------------------
\* There is a k-th smallest of at least k numbers.
LEMMA SmallestIs ==
  ASSUME NEW values \in Seq(Nat), NEW k \in 1 .. Len(values)
  PROVE  Smallest(k, values) \in Nat
<1> DEFINE D == 1 .. Len(values)
           all == Range(values)
           below(v) == {i \in D : values[i] < v}
           upto(v) == {i \in D : values[i] <= v}
           high == {v \in all : Cardinality(upto(v)) >= k}
<1>1. DOMAIN values = D /\ Len(values) \in Nat /\ IsFiniteSet(D) /\ Cardinality(D) = Len(values)
  <2>1. DOMAIN values = 1 .. Len(values) /\ Len(values) \in Nat /\ 0 < Len(values)
    OBVIOUS
  <2>2. \A l \in Nat : 0 < l => IsFiniteSet(1 .. l) /\ Cardinality(1 .. l) = l
    BY FS_Interval
  <2> QED BY <2>1, <2>2
<1>2. all \in SUBSET Nat /\ IsFiniteSet(all) /\ \A i \in D : values[i] \in all
  <2>1. values \in Surjection(D, all)
    BY <1>1 DEF Surjection, Range
  <2>2. IsFiniteSet(all)
    BY <1>1, <2>1, FS_Surjection
  <2> QED BY <1>1, <2>2 DEF Range
<1>3. \A v : /\ IsFiniteSet(below(v)) /\ Cardinality(below(v)) \in Nat
             /\ IsFiniteSet(upto(v)) /\ Cardinality(upto(v)) \in Nat
  BY <1>1, FS_Subset, FS_CardinalityType
<1>4. high # {}
  <2>1. all # {}
    BY <1>2
  <2>2. PICK v \in all : \A u \in all : u <= v
    BY <1>2, <2>1, MaxNat
  <2>3. upto(v) = D
    BY <1>2, <2>2
  <2> QED BY <1>1, <2>3
<1> HIDE DEF D, all
<1>5. high \in SUBSET Nat
  BY <1>2
<1>6. PICK v \in high : \A u \in high : v <= u
  BY <1>4, <1>5, LeastNat
<1>7. v \in all /\ v \in Nat /\ Cardinality(upto(v)) >= k
  BY <1>2, <1>6
<1>8. Cardinality(below(v)) < k
  <2> SUFFICES ASSUME Cardinality(below(v)) >= k PROVE FALSE
    <3>1. Cardinality(below(v)) \in Nat
      BY <1>3
    <3> HIDE DEF below
    <3> QED BY <3>1
  <2> DEFINE lower == {u \in all : u < v}
  <2>1. lower # {}
    <3>1. below(v) # {}
      <4>1. Cardinality({}) = 0
        BY FS_EmptySet
      <4>2. k >= 1 /\ k \in Nat
        OBVIOUS
      <4>3. below(v) = {} => Cardinality(below(v)) = 0
        BY <4>1
      <4> HIDE DEF below
      <4> QED BY <4>2, <4>3
    <3> QED BY <1>2, <3>1
  <2>2. lower \in SUBSET Nat /\ IsFiniteSet(lower)
    BY <1>2, FS_Subset
  <2>3. PICK u \in lower : \A t \in lower : t <= u
    BY <2>1, <2>2, MaxNat
  <2>4. u \in all /\ u \in Nat /\ u < v
    BY <1>2, <2>3
  <2>5. upto(u) = below(v)
    <3>1. ASSUME NEW i \in D PROVE values[i] <= u <=> values[i] < v
      <4>1. values[i] \in all /\ values[i] \in Nat
        BY <1>2
      <4> QED BY <1>7, <2>3, <2>4, <4>1
    <3> QED BY <3>1
  <2>6. u \in high
    BY <2>4, <2>5
  <2> QED BY <1>6, <1>7, <2>4, <2>6
<1>9. \E x \in Range(values) : /\ Quantify(DOMAIN values, LAMBDA i : values[i] < x) < k
                               /\ Quantify(DOMAIN values, LAMBDA i : values[i] <= x) >= k
  BY <1>1, <1>7, <1>8 DEF Quantify, all
<1>10. Smallest(k, values) \in Range(values)
  BY <1>9 DEF Smallest
<1> QED BY <1>2, <1>10 DEF all

LEMMA PercentileIs ==
  ASSUME NEW values \in Seq(Nat), values # <<>>, NEW q \in 0 .. 100
  PROVE  Percentile(q, values) \in Int
<1> DEFINE pos == q * (Len(values) - 1)
           k == pos \div 100 + 1
<1>1. Len(values) \in Nat /\ Len(values) >= 1
  OBVIOUS
<1>2. pos \in Nat /\ pos <= 100 * (Len(values) - 1)
  BY <1>1
<1> HIDE DEF pos
<1>3. k \in 1 .. Len(values) /\ pos % 100 \in Nat
  BY <1>1, <1>2
<1>4. Smallest(k, values) \in Nat
  BY <1>3, SmallestIs
<1>5. k < Len(values) => Smallest(k + 1, values) \in Nat
  BY <1>1, <1>3, SmallestIs
<1> HIDE DEF k
<1>6. Percentile(q, values) = 100 * Smallest(k, values)
        + (pos % 100) * ((IF k < Len(values) THEN Smallest(k + 1, values) ELSE Smallest(k, values)) - Smallest(k, values))
  BY DEF Percentile, k, pos
<1> QED BY <1>3, <1>4, <1>5, <1>6

-----------------------------------------------------------------------------
LEMMA TertilesAre ==
  ASSUME NEW values \in Seq(Nat), values # <<>>
  PROVE  Tertiles(values).t33 \in Int /\ Tertiles(values).t67 \in Int
<1>1. Percentile(33, values) \in Int /\ Percentile(67, values) \in Int
  BY PercentileIs
<1> QED BY <1>1 DEF Tertiles

Rank == [low |-> 1, medium |-> 2, high |-> 3]

\* A higher value is in no lower bin.
LEMMA BinsGrow ==
  ASSUME NEW t, t.t33 \in Int, t.t67 \in Int, NEW u \in Nat, NEW v \in Nat, u <= v
  PROVE  Rank[BinOf(u, t)] <= Rank[BinOf(v, t)]
<1>1. Rank["low"] = 1 /\ Rank["medium"] = 2 /\ Rank["high"] = 3
  BY DEF Rank
<1>2. 100 * u <= 100 * v /\ 100 * u \in Nat /\ 100 * v \in Nat
  OBVIOUS
<1> QED BY <1>1, <1>2 DEF BinOf

\* math.log grows, and so does the identity.
LEMMA ScalesGrow ==
  ASSUME NEW scale, NEW m \in DOMAIN Log, NEW n \in DOMAIN Log
  PROVE  OnScale(scale, m) \in Nat /\ (m <= n => OnScale(scale, m) <= OnScale(scale, n))
<1>1. /\ m \in Nat /\ n \in Nat /\ Log[m] \in Nat /\ Log[n] \in Nat
      /\ m <= n => Log[m] <= Log[n]
  BY EnrichAssumption
<1> QED BY <1>1 DEF OnScale

\* The counts the bins are made from, of traces by position.
LEMMA CountsAre ==
  ASSUME NEW todo \in Seq(Samples), NEW traces, DOMAIN traces = DOMAIN todo,
         \A i \in DOMAIN traces : Trace(traces[i])
  PROVE  ValidCounts(todo, traces) \in Seq(DOMAIN Log) /\ ValidCounts(todo, traces) # <<>>
<1> DEFINE counts == [i \in DOMAIN todo |-> traces[i].n]
           valid == {i \in DOMAIN todo : todo[i] \in Valid}
<1>1. DOMAIN todo = 1 .. Len(todo) /\ Len(todo) \in Nat
  OBVIOUS
<1>2. counts \in Seq(DOMAIN Log) /\ Len(counts) = Len(todo)
  <2>1. \A i \in 1 .. Len(todo) : traces[i].n \in DOMAIN Log
    BY <1>1 DEF Trace
  <2>2. counts \in [1 .. Len(todo) -> DOMAIN Log]
    BY <1>1, <2>1
  <2> QED BY <1>1, <2>2
<1>3. ASSUME valid # {} PROVE ItemsAt(counts, valid) # <<>>
  <2>1. valid \cap 1 .. Len(counts) # {}
    BY <1>1, <1>2, <1>3
  <2> HIDE DEF counts, valid
  <2>2. Len(ItemsAt(counts, valid)) # 0
    <3>1. /\ IsFiniteSet(valid \cap 1 .. Len(counts))
          /\ Len(ItemsAt(counts, valid)) = Cardinality(valid \cap 1 .. Len(counts))
      BY <1>2, AtIs
    <3> QED BY <2>1, <3>1, FS_EmptySet
  <2>3. ItemsAt(counts, valid) \in Seq(DOMAIN Log)
    BY <1>2, AtIs
  <2> QED BY <2>2, <2>3
<1>4. ItemsAt(counts, valid) \in Seq(DOMAIN Log)
  <2> HIDE DEF counts, valid
  <2> QED BY <1>2, AtIs
<1>5. <<0>> \in Seq(DOMAIN Log) /\ <<0>> # <<>>
  <2>1. 0 \in DOMAIN Log
    BY EnrichAssumption
  <2> QED BY <2>1
<1>6. todo # <<>> => counts # <<>>
  <2>1. todo # <<>> => Len(todo) # 0
    OBVIOUS
  <2> HIDE DEF counts
  <2> QED BY <1>2, <2>1
<1>7. ValidCounts(todo, traces)
        = IF valid # {} THEN ItemsAt(counts, valid) ELSE IF todo # <<>> THEN counts ELSE <<0>>
  BY DEF ValidCounts
<1> HIDE DEF counts, valid
<1> QED BY <1>2, <1>3, <1>4, <1>5, <1>6, <1>7

LEMMA BinsAre ==
  ASSUME NEW counts \in Seq(DOMAIN Log), counts # <<>>
  PROVE  CoverageBins(counts).t.t33 \in Int /\ CoverageBins(counts).t.t67 \in Int
<1> DEFINE scale == CoverageScale(counts)
           scaled == [j \in DOMAIN counts |-> OnScale(scale, counts[j])]
<1>1. CoverageBins(counts).t = Tertiles(scaled)
  BY DEF CoverageBins
<1> HIDE DEF scale
<1>2. scaled \in Seq(Nat) /\ scaled # <<>>
  <2>1. DOMAIN counts = 1 .. Len(counts) /\ Len(counts) \in Nat \ {0} /\ \A j \in 1 .. Len(counts) : counts[j] \in DOMAIN Log
    OBVIOUS
  <2>2. scaled \in [1 .. Len(counts) -> Nat]
    BY <2>1, ScalesGrow
  <2> HIDE DEF scaled
  <2>3. scaled \in Seq(Nat) /\ Len(scaled) = Len(counts)
    BY <2>1, <2>2
  <2> QED BY <2>1, <2>3
<1> HIDE DEF scaled
<1> QED BY <1>1, <1>2, TertilesAre

\* The score of a program is read from the record of its result.
LEMMA ScoresAre ==
  ASSUME NEW sidecar, NEW traces, Results(sidecar, traces), NEW n, DOMAIN traces = 1 .. n, NEW i \in 1 .. n
  PROVE  NoveltyScores(sidecar, n)[i]
           = IF traces[i].pcs = {} THEN 0 ELSE MeanRarity(DOMAIN traces, traces, traces[i].pcs)
<1> DEFINE k == CHOOSE k \in DOMAIN sidecar : sidecar[k].idx = i
<1>1. NoveltyScores(sidecar, n)[i] = IF sidecar[k].pcs = {} THEN 0 ELSE Rarity(sidecar, sidecar[k].pcs)
  BY DEF NoveltyScores
<1>2. k \in DOMAIN sidecar /\ sidecar[k].idx = i
  BY DEF Results
<1> HIDE DEF k
<1>3. sidecar[k].pcs = traces[i].pcs /\ IsFiniteSet(traces[i].pcs)
  BY <1>2 DEF Results, Trace
<1>4. Rarity(sidecar, traces[i].pcs) = MeanRarity(DOMAIN traces, traces, traces[i].pcs)
  BY <1>3, RarityIs
<1> QED BY <1>1, <1>3, <1>4

-----------------------------------------------------------------------------
(***************************************************************************)
(* The pool: a sample that was handed out is with a thread or has its      *)
(* result, and each result has its record, whatever order they came in.    *)
(***************************************************************************)
OwnRows(lines, todo, traces) ==
  /\ Len(lines) = Len(todo)
  /\ \A i \in DOMAIN todo :
       /\ lines[i].sample = todo[i] /\ lines[i].count = traces[i].n
       /\ lines[i].novelty = IF traces[i].pcs = {} THEN 0 ELSE MeanRarity(DOMAIN todo, traces, traces[i].pcs)
       /\ \A j \in DOMAIN todo : lines[i].count <= lines[j].count => Rank[lines[i].bin] <= Rank[lines[j].bin]

Afresh == enPc \in {"validating", "opening"} /\ enMode = "w" => Len(enTodo) = Len(enInput)

LEMMA OwnRowsAre == (enPc = "opening" => OwnRows(enLines, enTodo, enTraces)) /\ Afresh => RowsAreOwn
  BY DEF RowsAreOwn, OwnRows, Afresh, MeanRarity, Rank

\* Where no sample is done, all are left to do.
LEMMA AfreshSteps ==
  ASSUME EnRows, Afresh, [EnNext]_enVars
  PROVE  Afresh'
<1>1. CASE UNCHANGED <<enPc, enMode, enTodo, enInput>>
  BY <1>1 DEF Afresh
<1>2. CASE EnStart
  <2>1. /\ enMode' = ModeFor(Readable(enFile)) /\ enTodo' = Remaining(enInput, Readable(enFile)) /\ enInput' = enInput
        /\ enInput \in Seq(Samples)
    BY <1>2 DEF EnStart, EnRows
  <2>2. ASSUME enMode' = "w" PROVE Len(enTodo') = Len(enInput)
    <3>1. Readable(enFile) = {}
      BY <2>1, <2>2 DEF ModeFor
    <3>2. {i \in DOMAIN enInput : enInput[i] \notin {}} = 1 .. Len(enInput) /\ Len(enInput) \in Nat
      BY <2>1
    <3>3. enTodo' = ItemsAt(enInput, 1 .. Len(enInput))
      BY <2>1, <3>1, <3>2 DEF Remaining
    <3>4. Len(enTodo') = Cardinality((1 .. Len(enInput)) \cap 1 .. Len(enInput))
      BY <2>1, <3>3, AtIs
    <3>5. (1 .. Len(enInput)) \cap 1 .. Len(enInput) = 1 .. Len(enInput)
      OBVIOUS
    <3>6. Cardinality(1 .. Len(enInput)) = Len(enInput)
      <4>1. ASSUME NEW n \in Nat PROVE Cardinality(1 .. n) = n
        <5>1. CASE n = 0
          <6>1. 1 .. n = {}
            BY <5>1
          <6> QED BY <5>1, <6>1, FS_EmptySet
        <5>2. CASE n # 0
          BY <5>2, FS_Interval
        <5> QED BY <5>1, <5>2
      <4> QED BY <3>2, <4>1
    <3> QED BY <3>4, <3>5, <3>6
  <2> QED BY <2>1, <2>2 DEF Afresh
<1>3. CASE EnTake \/ EnBins \/ (\E i \in enRunning : EnRecord(i, TraceOf[enTodo[i]]) \/ EnRecord(i, NoTrace))
  <2>1. CASE EnTake
    BY <2>1 DEF EnTake, Afresh
  <2>2. CASE EnBins
    <3>1. UNCHANGED <<enMode, enTodo, enInput>> /\ enPc = "validating"
      BY <2>2, Zenon DEF EnBins
    <3> QED BY <3>1 DEF Afresh
  <2>3. ASSUME NEW i, NEW trace, EnRecord(i, trace) PROVE Afresh'
    BY <2>3 DEF EnRecord, Afresh
  <2> QED BY <1>3, <2>1, <2>2, <2>3
<1>4. CASE EnOpen \/ EnWrite \/ EnFinish \/ EnRaise \/ EnCrash
  <2>1. enPc' \in {"writing", "idle"}
    BY <1>4 DEF EnOpen, EnWrite, EnFinish, EnRaise, EnCrash, EnForget
  <2> QED BY <2>1 DEF Afresh
<1> QED BY <1>1, <1>2, <1>3, <1>4 DEF EnNext, EnStep, enVars

PoolInv ==
  /\ enPc \in {"validating", "opening"} =>
       /\ enTaken \in 0 .. Len(enTodo)
       /\ enRunning \cap DOMAIN enTraces = {} /\ enRunning \cup DOMAIN enTraces = 1 .. enTaken
       /\ Results(enSidecar, enTraces)
  /\ enPc = "opening" => enRunning = {} /\ OwnRows(enLines, enTodo, enTraces)

\* The rows of a pool that is done.
LEMMA RowsFromResults ==
  ASSUME EnRows, Results(enSidecar, enTraces), DOMAIN enTraces = DOMAIN enTodo, EnBins
  PROVE  OwnRows(enLines', enTodo', enTraces')
<1> DEFINE n == Len(enTodo)
           counts == ValidCounts(enTodo, enTraces)
           novel == NoveltyScores(enSidecar, n)
           cov == CoverageBins(counts)
           novT == NoveltyThresholds(novel)
<1>1. /\ enLines' = Rows(enTodo, enTraces, cov, novel, novT)
      /\ UNCHANGED <<enTodo, enTraces>> /\ enPc' = "opening"
  BY DEF EnBins
<1>2. DOMAIN enTodo = 1 .. n /\ n \in Nat /\ enTodo \in Seq(Samples)
  BY DEF EnRows
<1>3. \A i \in DOMAIN enTraces : enTraces[i].n \in DOMAIN Log /\ IsFiniteSet(enTraces[i].pcs)
  BY DEF Results, Trace
<1>4. counts \in Seq(DOMAIN Log) /\ counts # <<>>
  BY <1>2, CountsAre DEF Results
<1> HIDE DEF counts
<1>5. cov.t.t33 \in Int /\ cov.t.t67 \in Int
  BY <1>4, BinsAre
<1>6. \A i \in DOMAIN enTodo :
        novel[i] = IF enTraces[i].pcs = {} THEN 0 ELSE MeanRarity(DOMAIN enTodo, enTraces, enTraces[i].pcs)
  BY <1>2, ScoresAre
<1> HIDE DEF cov, novel, novT, n
<1>7. DOMAIN enLines' = 1 .. n
  BY <1>1, <1>2 DEF Rows
<1>8. Len(enLines') = Len(enTodo)
  <2>1. enLines' \in [1 .. n -> {enLines'[i] : i \in 1 .. n}]
    BY <1>1, <1>2 DEF Rows
  <2>2. enLines' \in Seq({enLines'[i] : i \in 1 .. n}) /\ Len(enLines') = n
    BY <1>2, <2>1
  <2> QED BY <2>2 DEF n
<1>9. ASSUME NEW i \in DOMAIN enTodo
      PROVE  /\ enLines'[i].sample = enTodo[i] /\ enLines'[i].count = enTraces[i].n
             /\ enLines'[i].bin = BinOf(OnScale(cov.scale, enTraces[i].n), cov.t)
             /\ enLines'[i].novelty
                  = IF enTraces[i].pcs = {} THEN 0 ELSE MeanRarity(DOMAIN enTodo, enTraces, enTraces[i].pcs)
  <2>1. /\ enLines'[i].sample = enTodo[i] /\ enLines'[i].count = enTraces[i].n
        /\ enLines'[i].bin = BinOf(OnScale(cov.scale, enTraces[i].n), cov.t)
        /\ enLines'[i].novelty = novel[i]
    BY <1>1 DEF Rows
  <2> QED BY <1>6, <2>1
<1>10. ASSUME NEW i \in DOMAIN enTodo, NEW j \in DOMAIN enTodo, enLines'[i].count <= enLines'[j].count
       PROVE  Rank[enLines'[i].bin] <= Rank[enLines'[j].bin]
  <2>1. enTraces[i].n \in DOMAIN Log /\ enTraces[j].n \in DOMAIN Log /\ enTraces[i].n <= enTraces[j].n
    BY <1>3, <1>9, <1>10
  <2>2. PICK u \in Nat : u = OnScale(cov.scale, enTraces[i].n)
    BY <2>1, ScalesGrow
  <2>3. PICK v \in Nat : v = OnScale(cov.scale, enTraces[j].n)
    BY <2>1, ScalesGrow
  <2>4. u <= v
    BY <2>1, <2>2, <2>3, ScalesGrow
  <2>5. Rank[BinOf(u, cov.t)] <= Rank[BinOf(v, cov.t)]
    BY <1>5, <2>4, BinsGrow
  <2> QED BY <1>9, <2>2, <2>3, <2>5
<1>11. UNCHANGED <<enTodo, enTraces>>
  BY <1>1
<1> QED BY <1>8, <1>9, <1>10, <1>11 DEF OwnRows

\* A record for a sample that had none.
LEMMA ResultsAppend ==
  ASSUME NEW sidecar, NEW traces, Results(sidecar, traces), NEW i, i \notin DOMAIN traces, NEW t, Trace(t),
         NEW r, r.idx = i, r.pcs = t.pcs, NEW more, more = Append(sidecar, r),
         NEW traces2, DOMAIN traces2 = DOMAIN traces \cup {i}, traces2[i] = t,
         \A k \in DOMAIN traces : traces2[k] = traces[k]
  PROVE  Results(more, traces2)
<1> DEFINE m == Len(sidecar) + 1
<1>1. PICK S : sidecar \in Seq(S)
  BY DEF Results, IsSeq
<1>2. more \in Seq(S \cup {r})
  BY <1>1
<1>3. /\ DOMAIN more = DOMAIN sidecar \cup {m} /\ m \notin DOMAIN sidecar /\ more[m] = r
      /\ \A k \in DOMAIN sidecar : more[k] = sidecar[k]
  <2>1. sidecar \in Seq(S \cup {r}) /\ r \in S \cup {r}
    BY <1>1
  <2> QED BY <2>1
<1> HIDE DEF m
<1>4. \A k \in DOMAIN traces2 : Trace(traces2[k])
  BY DEF Results
<1>5. \A k \in DOMAIN more : more[k].idx \in DOMAIN traces2 /\ more[k].pcs = traces2[more[k].idx].pcs
  BY <1>3 DEF Results
<1>6. \A j, k \in DOMAIN more : more[j].idx = more[k].idx => j = k
  BY <1>3 DEF Results
<1>7. \A l \in DOMAIN traces2 : \E k \in DOMAIN more : more[k].idx = l
  BY <1>3 DEF Results
<1> QED BY <1>2, <1>4, <1>5, <1>6, <1>7 DEF Results, IsSeq

LEMMA PoolSteps ==
  ASSUME EnRows, PoolInv, [EnNext]_enVars
  PROVE  PoolInv'
<1> DEFINE Pool == /\ enTaken \in 0 .. Len(enTodo)
                   /\ enRunning \cap DOMAIN enTraces = {} /\ enRunning \cup DOMAIN enTraces = 1 .. enTaken
                   /\ Results(enSidecar, enTraces)
<1>1. enPc \in {"validating", "opening"} => Pool
  BY DEF PoolInv
<1>2. enTodo \in Seq(Samples) /\ Len(enTodo) \in Nat
  BY DEF EnRows
<1>3. CASE UNCHANGED enVars
  BY <1>3 DEF PoolInv, enVars
<1>4. CASE EnStart
  <2>1. enPc' = "validating" /\ enRunning' = {} /\ enTaken' = 0 /\ enTraces' = <<>> /\ enSidecar' = <<>>
    BY <1>4 DEF EnStart
  <2>2. DOMAIN <<>> = {} /\ <<>> \in Seq({}) /\ 1 .. 0 = {}
    OBVIOUS
  <2>3. Results(<<>>, <<>>)
    BY <2>2 DEF Results, IsSeq
  <2>4. Len(enTodo') \in Nat
    BY <1>4, EnRowsSteps DEF EnRows
  <2> QED BY <2>1, <2>2, <2>3, <2>4 DEF PoolInv
<1>5. CASE EnTake
  <2>1. /\ enPc = "validating" /\ enTaken < Len(enTodo) /\ enTaken' = enTaken + 1
        /\ enRunning' = enRunning \cup {enTaken + 1} /\ UNCHANGED <<enPc, enTodo, enTraces, enSidecar>>
    BY <1>5 DEF EnTake
  <2>2. Pool
    BY <1>1, <2>1
  <2>3. enTaken + 1 \notin 1 .. enTaken /\ 1 .. enTaken + 1 = (1 .. enTaken) \cup {enTaken + 1} /\ enTaken + 1 \in 0 .. Len(enTodo)
    BY <1>2, <2>1, <2>2
  <2>4. enRunning' \cap DOMAIN enTraces = {} /\ enRunning' \cup DOMAIN enTraces = 1 .. enTaken + 1
    BY <2>1, <2>2, <2>3
  <2> QED BY <2>1, <2>2, <2>3, <2>4 DEF PoolInv
<1>6. ASSUME NEW i, NEW trace, EnRecord(i, trace) PROVE PoolInv'
  <2>1. /\ i \in enRunning /\ trace \in {TraceOf[enTodo[i]], NoTrace}
        /\ enSidecar' = Append(enSidecar, [idx |-> i, pcs |-> trace.pcs])
        /\ enTraces' = [k \in DOMAIN enTraces \cup {i} |-> IF k = i THEN trace ELSE enTraces[k]]
        /\ enRunning' = enRunning \ {i} /\ UNCHANGED <<enPc, enTodo, enTaken>>
    BY <1>6 DEF EnRecord
  <2>2. enPc # "opening"
    BY <2>1 DEF PoolInv
  <2>3. ASSUME enPc = "validating" PROVE PoolInv'
    <3>1. Pool
      BY <1>1, <2>3
    <3>2. i \in 1 .. Len(enTodo) /\ i \notin DOMAIN enTraces
      BY <1>2, <2>1, <3>1
    <3>3. Trace(trace)
      <4>1. enTodo[i] \in Samples
        BY <1>2, <3>2
      <4>2. Trace(TraceOf[enTodo[i]])
        BY <4>1, EnrichAssumption DEF Trace
      <4>3. Trace(NoTrace)
        BY EnrichAssumption, FS_EmptySet DEF Trace, NoTrace
      <4> QED BY <2>1, <4>2, <4>3
    <3>4. Results(enSidecar', enTraces')
      <4>1. /\ DOMAIN enTraces' = DOMAIN enTraces \cup {i} /\ enTraces'[i] = trace
            /\ \A k \in DOMAIN enTraces : enTraces'[k] = enTraces[k]
        BY <2>1, <3>2
      <4>2. PICK r : r.idx = i /\ r.pcs = trace.pcs /\ enSidecar' = Append(enSidecar, r)
        BY <2>1
      <4> QED BY <3>1, <3>2, <3>3, <4>1, <4>2, ResultsAppend
    <3>5. DOMAIN enTraces' = DOMAIN enTraces \cup {i}
      BY <2>1
    <3>6. enRunning' \cap DOMAIN enTraces' = {} /\ enRunning' \cup DOMAIN enTraces' = 1 .. enTaken
      BY <2>1, <3>1, <3>5
    <3> QED BY <2>1, <2>3, <3>1, <3>4, <3>6 DEF PoolInv
  <2> QED BY <2>1, <2>2, <2>3 DEF PoolInv
<1>7. CASE EnBins
  <2>1. /\ enPc = "validating" /\ enTaken = Len(enTodo) /\ enRunning = {}
        /\ UNCHANGED <<enTodo, enRunning, enTaken, enTraces, enSidecar>> /\ enPc' = "opening"
    BY <1>7 DEF EnBins
  <2>2. Pool
    BY <1>1, <2>1
  <2>3. DOMAIN enTraces = DOMAIN enTodo
    BY <1>2, <2>1, <2>2
  <2>4. OwnRows(enLines', enTodo', enTraces')
    BY <1>7, <2>2, <2>3, RowsFromResults
  <2> QED BY <2>1, <2>2, <2>4 DEF PoolInv
<1>8. CASE EnOpen \/ EnWrite
  <2>1. enPc' = "writing"
    BY <1>8 DEF EnOpen, EnWrite
  <2> QED BY <2>1 DEF PoolInv
<1>9. CASE EnFinish \/ EnRaise \/ EnCrash
  <2>1. enPc' = "idle"
    BY <1>9 DEF EnFinish, EnRaise, EnCrash, EnForget
  <2> QED BY <2>1 DEF PoolInv
<1> QED BY <1>3, <1>4, <1>5, <1>6, <1>7, <1>8, <1>9 DEF EnNext, EnStep

\* What the rows say of a sample is its own and does not depend on the order in
\* which the threads ended (src/ml/enrich_dataset.py:222-240), and in an output made
\* afresh its novelty is among the whole input, for any number of samples and workers,
\* any traces and any logarithm that grows.
THEOREM RowsAreOwnHolds == OfflineSpec => []RowsAreOwn
<1> DEFINE Inv == EnRows /\ PoolInv /\ Afresh
<1>1. OfflineInit => Inv
  <2>1. EnInit => PoolInv /\ Afresh
    BY DEF EnInit, PoolInv, Afresh
  <2> QED BY <2>1, EnRowsInitial, EnPart
<1>2. Inv /\ [OfflineNext]_offlineVars => Inv'
  BY EnPartStep, EnRowsSteps, PoolSteps, AfreshSteps
<1>3. Inv => RowsAreOwn
  BY OwnRowsAre DEF PoolInv
<1> QED BY <1>1, <1>2, <1>3, PTL DEF OfflineSpec

-----------------------------------------------------------------------------
(***************************************************************************)
(* The tables of the encoder are those of the instruction set.             *)
(***************************************************************************)
LEMMA NibbleIs ==
  ASSUME NEW ops, IsInjective(ops), NEW k \in DOMAIN ops
  PROVE  Nibble(ops, ops[k]) = 16 * (k - 1)
<1>1. \A j \in DOMAIN ops : ops[j] = ops[k] => j = k
  BY DEF IsInjective
<1>2. (CHOOSE j \in DOMAIN ops : ops[j] = ops[k]) = k
  BY <1>1
<1> QED BY <1>2 DEF Nibble

LEMMA JmpNibbles ==
  /\ Nibble(JmpOps, "==") = 16 /\ Nibble(JmpOps, ">") = 32 /\ Nibble(JmpOps, ">=") = 48 /\ Nibble(JmpOps, "&") = 64
  /\ Nibble(JmpOps, "!=") = 80 /\ Nibble(JmpOps, "s>") = 96 /\ Nibble(JmpOps, "s>=") = 112
  /\ Nibble(JmpOps, "call") = 128 /\ Nibble(JmpOps, "exit") = 144 /\ Nibble(JmpOps, "<") = 160
  /\ Nibble(JmpOps, "<=") = 176 /\ Nibble(JmpOps, "s<") = 192 /\ Nibble(JmpOps, "s<=") = 208
<1>1. IsInjective(JmpOps)
  BY DEF IsInjective, JmpOps
<1>2. /\ DOMAIN JmpOps = 1 .. 14
      /\ JmpOps[2] = "==" /\ JmpOps[3] = ">" /\ JmpOps[4] = ">=" /\ JmpOps[5] = "&" /\ JmpOps[6] = "!="
      /\ JmpOps[7] = "s>" /\ JmpOps[8] = "s>=" /\ JmpOps[9] = "call" /\ JmpOps[10] = "exit" /\ JmpOps[11] = "<"
      /\ JmpOps[12] = "<=" /\ JmpOps[13] = "s<" /\ JmpOps[14] = "s<="
  BY DEF JmpOps
<1>3. \A k \in 1 .. 14 : Nibble(JmpOps, JmpOps[k]) = 16 * (k - 1)
  BY <1>1, <1>2, NibbleIs
<1> QED BY <1>2, <1>3

LEMMA AluNibbles ==
  /\ Nibble(AluOps, "+=") = 0 /\ Nibble(AluOps, "-=") = 16 /\ Nibble(AluOps, "*=") = 32 /\ Nibble(AluOps, "/=") = 48
  /\ Nibble(AluOps, "|=") = 64 /\ Nibble(AluOps, "&=") = 80 /\ Nibble(AluOps, "<<=") = 96 /\ Nibble(AluOps, ">>=") = 112
  /\ Nibble(AluOps, "neg") = 128 /\ Nibble(AluOps, "%=") = 144 /\ Nibble(AluOps, "^=") = 160
  /\ Nibble(AluOps, "mov") = 176 /\ Nibble(AluOps, "s>>=") = 192
<1>1. IsInjective(AluOps)
  BY DEF IsInjective, AluOps
<1>2. /\ DOMAIN AluOps = 1 .. 13
      /\ AluOps[1] = "+=" /\ AluOps[2] = "-=" /\ AluOps[3] = "*=" /\ AluOps[4] = "/=" /\ AluOps[5] = "|="
      /\ AluOps[6] = "&=" /\ AluOps[7] = "<<=" /\ AluOps[8] = ">>=" /\ AluOps[9] = "neg" /\ AluOps[10] = "%="
      /\ AluOps[11] = "^=" /\ AluOps[12] = "mov" /\ AluOps[13] = "s>>="
  BY DEF AluOps
<1>3. \A k \in 1 .. 13 : Nibble(AluOps, AluOps[k]) = 16 * (k - 1)
  BY <1>1, <1>2, NibbleIs
<1> QED BY <1>2, <1>3

LEMMA JmpPerIsa ==
  ASSUME NEW op \in JmpNames
  PROVE  /\ JmpOpcodes[op] = Jmp(5 + Nibble(JmpOps, op) + 8, 5 + Nibble(JmpOps, op))
         /\ Nibble(JmpOps, op) # 144 /\ Nibble(JmpOps, op) \in Nat
  BY JmpNibbles DEF JmpNames, JmpOpcodes, Jmp

LEMMA AluPerIsa ==
  ASSUME NEW op \in AluNames
  PROVE  /\ AluOpcodes[op]["r"].reg = 7 + Nibble(AluOps, op) + 8 /\ AluOpcodes[op]["r"].imm = 7 + Nibble(AluOps, op)
         /\ AluOpcodes[op]["w"].reg = 4 + Nibble(AluOps, op) + 8 /\ AluOpcodes[op]["w"].imm = 4 + Nibble(AluOps, op)
         /\ \E k \in 0 .. 15 : Nibble(AluOps, op) = 16 * k
<1>1. AluOpcodes[op]["r"].reg = 7 + Nibble(AluOps, op) + 8
  BY AluNibbles DEF AluNames, AluOpcodes, Alu
<1>2. AluOpcodes[op]["r"].imm = 7 + Nibble(AluOps, op)
  BY AluNibbles DEF AluNames, AluOpcodes, Alu
<1>3. AluOpcodes[op]["w"].reg = 4 + Nibble(AluOps, op) + 8
  BY AluNibbles DEF AluNames, AluOpcodes, Alu
<1>4. AluOpcodes[op]["w"].imm = 4 + Nibble(AluOps, op)
  BY AluNibbles DEF AluNames, AluOpcodes, Alu
<1>5. Nibble(AluOps, op) \in {0, 16, 32, 48, 64, 80, 96, 112, 144, 160, 192}
  BY AluNibbles DEF AluNames
<1>6. \E k \in 0 .. 15 : Nibble(AluOps, op) = 16 * k
  BY <1>5
<1> QED BY <1>1, <1>2, <1>3, <1>4, <1>6

LEMMA MemPerIsa ==
  ASSUME NEW size \in MemSizes
  PROVE  /\ MemOf(size).ldx = 1 + 96 + SizeBits[size] /\ MemOf(size).stx = 3 + 96 + SizeBits[size]
         /\ MemOf(size).st = 2 + 96 + SizeBits[size]
         /\ SizeBits[size] \in {0, 8, 16, 24}
  BY DEF MemSizes, MemOf, MemOpcodes, Mem, SizeBits

Fields(code, dst, src, off, imm) == [code |-> code, dst |-> dst, src |-> src, off |-> off, imm |-> imm]

LEMMA PackedIs ==
  ASSUME NEW code, NEW dst \in 0 .. 15, NEW src \in 0 .. 15,
         NEW off \in -OffMax - 1 .. OffMax, NEW imm \in -ImmMax - 1 .. ImmMax
  PROVE  PackInsn(code, dst, src, off, imm) = Fields(code, dst, src, off, imm)
<1>1. OffMax \in Nat /\ ImmMax \in Nat
  BY EncoderAssumption
<1>2. dst % 16 = dst /\ src % 16 = src
  OBVIOUS
<1>3. Clamp(off, OffMax) = off /\ Clamp(imm, ImmMax) = imm
  BY <1>1 DEF Clamp
<1> QED BY <1>2, <1>3 DEF PackInsn, Fields

\* The encoder reads the operands of a right side as the instruction set does.
LEMMA RhsPerIsa ==
  ASSUME NEW opcodes, NEW dst \in 0 .. 15, NEW rhs \in Rhs, NEW off \in -OffMax - 1 .. OffMax,
         IF rhs.reg THEN rhs.n \in 0 .. 15 ELSE rhs.n \in -ImmMax - 1 .. ImmMax
  PROVE  WithRhs(opcodes, dst, rhs, off)
           = IF rhs.reg THEN [code |-> opcodes.reg, dst |-> dst, src |-> rhs.n, off |-> off, imm |-> 0]
                        ELSE [code |-> opcodes.imm, dst |-> dst, src |-> 0, off |-> off, imm |-> rhs.n]
<1>1. 0 \in 0 .. 15 /\ 0 \in -ImmMax - 1 .. ImmMax
  BY EncoderAssumption
<1>2. CASE rhs.reg
  <2>1. WithRhs(opcodes, dst, rhs, off) = PackInsn(opcodes.reg, dst, rhs.n, off, 0) /\ rhs.n \in 0 .. 15
    BY <1>2 DEF WithRhs
  <2>2. PackInsn(opcodes.reg, dst, rhs.n, off, 0)
          = Fields(opcodes.reg, dst, rhs.n, off, 0)
    BY <1>1, <2>1, PackedIs
  <2> QED BY <1>2, <2>1, <2>2 DEF Fields
<1>3. CASE ~rhs.reg
  <2>1. WithRhs(opcodes, dst, rhs, off) = PackInsn(opcodes.imm, dst, 0, off, rhs.n) /\ rhs.n \in -ImmMax - 1 .. ImmMax
    BY <1>3 DEF WithRhs
  <2>2. PackInsn(opcodes.imm, dst, 0, off, rhs.n)
          = Fields(opcodes.imm, dst, 0, off, rhs.n)
    BY <1>1, <2>1, PackedIs
  <2> QED BY <1>3, <2>1, <2>2 DEF Fields
<1> QED BY <1>2, <1>3

LEMMA InsnForms ==
  ASSUME NEW t \in Insns
  PROVE  \/ t.form = "exit"
         \/ t.form = "goto" /\ t.off \in Int
         \/ t.form = "call" /\ t.named \in BOOLEAN /\ t.id \in Nat
         \/ t.form = "load" /\ t.size \in Nat /\ t.dst \in Nat /\ t.src \in Nat /\ t.off \in Int
         \/ t.form = "store" /\ t.size \in Nat /\ t.dst \in Nat /\ t.rhs \in Rhs /\ t.off \in Int
         \/ t.form = "if" /\ t.op \in JmpNames /\ t.width \in Widths /\ t.dst \in Nat /\ t.rhs \in Rhs /\ t.off \in Int
         \/ t.form = "neg" /\ t.width \in Widths /\ t.dst \in Nat
         \/ t.form = "mov" /\ t.width \in Widths /\ t.dst \in Nat /\ t.rhs \in Rhs
         \/ t.form = "alu" /\ t.op \in AluNames /\ t.width \in Widths /\ t.dst \in Nat /\ t.rhs \in Rhs
         \/ t.form = "lddw"
  BY DEF Insns

LEMMA ExitIs == Exit = [code |-> 149, dst |-> 0, src |-> 0, off |-> 0, imm |-> 0]
<1>1. 0 \in 0 .. 15 /\ 0 \in -ImmMax - 1 .. ImmMax /\ 0 \in -OffMax - 1 .. OffMax
  BY EncoderAssumption
<1> QED BY <1>1, PackedIs DEF Exit, Fields

LEMMA ExitPerIsa ==
  ASSUME NEW t, t.form = "exit"
  PROVE  IsaInsn(t) = Exit /\ EncodeInsn(t) = Exit
<1>1. IsaInsn(t) = [code |-> 5 + 144, dst |-> 0, src |-> 0, off |-> 0, imm |-> 0]
  BY JmpNibbles DEF IsaInsn
<1>2. EncodeInsn(t) = Exit
  BY DEF EncodeInsn
<1> QED BY <1>1, <1>2, ExitIs

\* Every instruction the fields can express is encoded as the instruction set
\* says, and only an exit is encoded as one.
LEMMA EncodedPerIsa ==
  ASSUME NEW t \in Insns, Expressible(t)
  PROVE  EncodeInsn(t) = IsaInsn(t) /\ (IsaInsn(t) = Exit <=> t.form = "exit")
<1> DEFINE e == IsaInsn(t)
<1>1. /\ t.form # "lddw" /\ (t.form = "if" => t.width = "r") /\ (t.form = "call" => ~t.named)
      /\ e.off \in -OffMax - 1 .. OffMax /\ e.imm \in -ImmMax - 1 .. ImmMax
      /\ e.dst \in 0 .. 15 /\ e.src \in 0 .. 15
      /\ t.form \in {"load", "store"} => t.size \in MemSizes
  BY DEF Expressible
<1>2. 0 \in 0 .. 15 /\ 0 \in -ImmMax - 1 .. ImmMax /\ 0 \in -OffMax - 1 .. OffMax
  BY EncoderAssumption
<1>3. Exit.code = 149
  BY ExitIs
<1>4. CASE t.form = "exit"
  BY <1>4, ExitPerIsa
<1>5. CASE t.form = "goto"
  <2>1. IsaInsn(t) = [code |-> 5, dst |-> 0, src |-> 0, off |-> t.off, imm |-> 0]
    BY <1>5 DEF IsaInsn
  <2>2. EncodeInsn(t) = PackInsn(5, 0, 0, t.off, 0)
    BY <1>5 DEF EncodeInsn
  <2>3. t.off \in -OffMax - 1 .. OffMax
    BY <1>1, <2>1
  <2>4. EncodeInsn(t) = IsaInsn(t)
    BY <1>2, <2>1, <2>2, <2>3, PackedIs DEF Fields
  <2> QED BY <1>3, <1>5, <2>1, <2>4
<1>6. CASE t.form = "call"
  <2>1. IsaInsn(t) = [code |-> 133, dst |-> 0, src |-> 0, off |-> 0, imm |-> t.id]
    BY <1>6, JmpNibbles DEF IsaInsn
  <2>2. EncodeInsn(t) = PackInsn(133, 0, 0, 0, t.id)
    BY <1>1, <1>6 DEF EncodeInsn
  <2>3. t.id \in -ImmMax - 1 .. ImmMax
    BY <1>1, <2>1
  <2>4. EncodeInsn(t) = IsaInsn(t)
    BY <1>2, <2>1, <2>2, <2>3, PackedIs DEF Fields
  <2> QED BY <1>3, <1>6, <2>1, <2>4
<1>7. CASE t.form = "load"
  <2>0. t.size \in MemSizes
    BY <1>1, <1>7
  <2>1. IsaInsn(t) = [code |-> 1 + 96 + SizeBits[t.size], dst |-> t.dst, src |-> t.src, off |-> t.off, imm |-> 0]
    BY <1>7 DEF IsaInsn
  <2>2. EncodeInsn(t) = PackInsn(1 + 96 + SizeBits[t.size], t.dst, t.src, t.off, 0)
    BY <1>7, <2>0, MemPerIsa DEF EncodeInsn
  <2>3. t.dst \in 0 .. 15 /\ t.src \in 0 .. 15 /\ t.off \in -OffMax - 1 .. OffMax
    BY <1>1, <2>1
  <2>6. \A code : PackInsn(code, t.dst, t.src, t.off, 0) = Fields(code, t.dst, t.src, t.off, 0)
    BY <1>2, <2>3, PackedIs
  <2>4. EncodeInsn(t) = IsaInsn(t)
    BY <2>1, <2>2, <2>6 DEF Fields
  <2>5. IsaInsn(t).code # 149
    BY <2>0, <2>1, MemPerIsa
  <2> QED BY <1>3, <1>7, <2>4, <2>5
<1>8. CASE t.form = "store"
  <2> DEFINE mode == IF t.rhs.reg THEN 3 ELSE 2
             opcodes == [reg |-> MemOf(t.size).stx, imm |-> MemOf(t.size).st]
  <2>1. t.size \in MemSizes /\ t.rhs \in Rhs
    BY <1>1, <1>8, InsnForms
  <2>2. IsaInsn(t) = IF t.rhs.reg
                     THEN [code |-> 3 + 96 + SizeBits[t.size], dst |-> t.dst, src |-> t.rhs.n, off |-> t.off, imm |-> 0]
                     ELSE [code |-> 2 + 96 + SizeBits[t.size], dst |-> t.dst, src |-> 0, off |-> t.off, imm |-> t.rhs.n]
    BY <1>8 DEF IsaInsn
  <2>3. EncodeInsn(t) = WithRhs(opcodes, t.dst, t.rhs, t.off)
    BY <1>8 DEF EncodeInsn
  <2>4. /\ t.dst \in 0 .. 15 /\ t.off \in -OffMax - 1 .. OffMax
        /\ IF t.rhs.reg THEN t.rhs.n \in 0 .. 15 ELSE t.rhs.n \in -ImmMax - 1 .. ImmMax
    BY <1>1, <2>2
  <2>5. WithRhs(opcodes, t.dst, t.rhs, t.off)
          = IF t.rhs.reg THEN [code |-> opcodes.reg, dst |-> t.dst, src |-> t.rhs.n, off |-> t.off, imm |-> 0]
                         ELSE [code |-> opcodes.imm, dst |-> t.dst, src |-> 0, off |-> t.off, imm |-> t.rhs.n]
    <3> HIDE DEF opcodes
    <3> QED BY <2>1, <2>4, RhsPerIsa
  <2>6. opcodes.reg = 3 + 96 + SizeBits[t.size] /\ opcodes.imm = 2 + 96 + SizeBits[t.size]
    BY <2>1, MemPerIsa
  <2> HIDE DEF opcodes
  <2>7. EncodeInsn(t) = IsaInsn(t)
    BY <2>2, <2>3, <2>5, <2>6
  <2>8. IsaInsn(t).code # 149
    BY <2>1, <2>2, MemPerIsa
  <2> QED BY <1>3, <1>8, <2>7, <2>8
<1>9. CASE t.form = "if"
  <2> DEFINE opcodes == JmpOpcodes[t.op]
             code == 5 + Nibble(JmpOps, t.op)
  <2>1. t.op \in JmpNames /\ t.rhs \in Rhs /\ t.width = "r"
    BY <1>1, <1>9, InsnForms
  <2>2. IsaInsn(t) = IF t.rhs.reg
                     THEN [code |-> code + 8, dst |-> t.dst, src |-> t.rhs.n, off |-> t.off, imm |-> 0]
                     ELSE [code |-> code, dst |-> t.dst, src |-> 0, off |-> t.off, imm |-> t.rhs.n]
    BY <1>9, <2>1 DEF IsaInsn
  <2>3. EncodeInsn(t) = WithRhs(opcodes, t.dst, t.rhs, t.off)
    BY <1>9 DEF EncodeInsn
  <2>4. /\ t.dst \in 0 .. 15 /\ t.off \in -OffMax - 1 .. OffMax
        /\ IF t.rhs.reg THEN t.rhs.n \in 0 .. 15 ELSE t.rhs.n \in -ImmMax - 1 .. ImmMax
    BY <1>1, <2>2
  <2>5. WithRhs(opcodes, t.dst, t.rhs, t.off)
          = IF t.rhs.reg THEN [code |-> opcodes.reg, dst |-> t.dst, src |-> t.rhs.n, off |-> t.off, imm |-> 0]
                         ELSE [code |-> opcodes.imm, dst |-> t.dst, src |-> 0, off |-> t.off, imm |-> t.rhs.n]
    <3> HIDE DEF opcodes
    <3> QED BY <2>1, <2>4, RhsPerIsa
  <2>6. opcodes.reg = code + 8 /\ opcodes.imm = code
    <3>1. JmpOpcodes[t.op] = Jmp(5 + Nibble(JmpOps, t.op) + 8, 5 + Nibble(JmpOps, t.op))
      BY <2>1, JmpPerIsa
    <3> QED BY <3>1 DEF Jmp
  <2>7. code # 149 /\ code + 8 # 149
    BY <2>1, JmpNibbles DEF JmpNames
  <2> HIDE DEF opcodes, code
  <2>8. EncodeInsn(t) = IsaInsn(t)
    BY <2>2, <2>3, <2>5, <2>6
  <2>9. IsaInsn(t).code # 149
    BY <2>2, <2>7
  <2> QED BY <1>3, <1>9, <2>8, <2>9
<1>10. CASE t.form = "neg"
  <2>0. t.width \in {"r", "w"}
    BY <1>10, InsnForms DEF Widths
  <2>1. IsaInsn(t) = [code |-> IF t.width = "r" THEN 135 ELSE 132, dst |-> t.dst, src |-> 0, off |-> 0, imm |-> 0]
    BY <1>10, AluNibbles DEF IsaInsn
  <2>2. EncodeInsn(t) = PackInsn(IF t.width = "r" THEN 135 ELSE 132, t.dst, 0, 0, 0)
    BY <1>10 DEF EncodeInsn
  <2>3. t.dst \in 0 .. 15
    BY <1>1, <2>1
  <2>4. \A code : PackInsn(code, t.dst, 0, 0, 0) = [code |-> code, dst |-> t.dst, src |-> 0, off |-> 0, imm |-> 0]
    BY <1>2, <2>3, PackedIs DEF Fields
  <2>5. EncodeInsn(t) = IsaInsn(t)
    BY <2>1, <2>2, <2>4
  <2> QED BY <1>3, <1>10, <2>1, <2>5
<1>11. CASE t.form = "mov"
  <2> DEFINE opcodes == IF t.width = "r" THEN Jmp(191, 183) ELSE Jmp(188, 180)
             code == IF t.width = "r" THEN 183 ELSE 180
  <2>1. t.rhs \in Rhs
    BY <1>11, InsnForms
  <2>2. IsaInsn(t) = IF t.rhs.reg
                     THEN [code |-> code + 8, dst |-> t.dst, src |-> t.rhs.n, off |-> 0, imm |-> 0]
                     ELSE [code |-> code, dst |-> t.dst, src |-> 0, off |-> 0, imm |-> t.rhs.n]
    BY <1>11, AluNibbles DEF IsaInsn
  <2>3. EncodeInsn(t) = WithRhs(opcodes, t.dst, t.rhs, 0)
    BY <1>11 DEF EncodeInsn
  <2>4. /\ t.dst \in 0 .. 15
        /\ IF t.rhs.reg THEN t.rhs.n \in 0 .. 15 ELSE t.rhs.n \in -ImmMax - 1 .. ImmMax
    BY <1>1, <2>2
  <2>5. WithRhs(opcodes, t.dst, t.rhs, 0)
          = IF t.rhs.reg THEN [code |-> opcodes.reg, dst |-> t.dst, src |-> t.rhs.n, off |-> 0, imm |-> 0]
                         ELSE [code |-> opcodes.imm, dst |-> t.dst, src |-> 0, off |-> 0, imm |-> t.rhs.n]
    <3> HIDE DEF opcodes
    <3> QED BY <1>2, <2>1, <2>4, RhsPerIsa
  <2>6. opcodes.reg = code + 8 /\ opcodes.imm = code
    BY DEF Jmp
  <2>7. code # 149 /\ code + 8 # 149
    OBVIOUS
  <2> HIDE DEF opcodes, code
  <2>8. EncodeInsn(t) = IsaInsn(t)
    BY <2>2, <2>3, <2>5, <2>6
  <2>9. IsaInsn(t).code # 149
    BY <2>2, <2>7
  <2> QED BY <1>3, <1>11, <2>8, <2>9
<1>12. CASE t.form = "alu"
  <2> DEFINE opcodes == AluOpcodes[t.op][t.width]
             code == (IF t.width = "r" THEN 7 ELSE 4) + Nibble(AluOps, t.op)
  <2>1. t.rhs \in Rhs /\ t.op \in AluNames /\ t.width \in {"r", "w"}
    BY <1>12, InsnForms DEF Widths
  <2>2. IsaInsn(t) = IF t.rhs.reg
                     THEN [code |-> code + 8, dst |-> t.dst, src |-> t.rhs.n, off |-> 0, imm |-> 0]
                     ELSE [code |-> code, dst |-> t.dst, src |-> 0, off |-> 0, imm |-> t.rhs.n]
    BY <1>12 DEF IsaInsn
  <2>3. EncodeInsn(t) = WithRhs(opcodes, t.dst, t.rhs, 0)
    BY <1>12 DEF EncodeInsn
  <2>4. /\ t.dst \in 0 .. 15
        /\ IF t.rhs.reg THEN t.rhs.n \in 0 .. 15 ELSE t.rhs.n \in -ImmMax - 1 .. ImmMax
    BY <1>1, <2>2
  <2>5. WithRhs(opcodes, t.dst, t.rhs, 0)
          = IF t.rhs.reg THEN [code |-> opcodes.reg, dst |-> t.dst, src |-> t.rhs.n, off |-> 0, imm |-> 0]
                         ELSE [code |-> opcodes.imm, dst |-> t.dst, src |-> 0, off |-> 0, imm |-> t.rhs.n]
    <3> HIDE DEF opcodes
    <3> QED BY <1>2, <2>1, <2>4, RhsPerIsa
  <2>6. opcodes.reg = code + 8 /\ opcodes.imm = code
    BY <2>1, AluPerIsa
  <2>7. code # 149 /\ code + 8 # 149
    BY <2>1, AluPerIsa
  <2> HIDE DEF opcodes, code
  <2>8. EncodeInsn(t) = IsaInsn(t)
    BY <2>2, <2>3, <2>5, <2>6
  <2>9. IsaInsn(t).code # 149
    BY <2>2, <2>7
  <2> QED BY <1>3, <1>12, <2>8, <2>9
<1> QED BY <1>1, <1>4, <1>5, <1>6, <1>7, <1>8, <1>9, <1>10, <1>11, <1>12, InsnForms

-----------------------------------------------------------------------------
(***************************************************************************)
(* What is left of a verifier log is the program it is the log of.         *)
(***************************************************************************)
LEMMA LineIs ==
  ASSUME NEW l \in AsmLines
  PROVE  /\ l.kind = "insn" /\ l.insn \in Insns
         /\ l = [kind |-> "insn", insn |-> l.insn, num |-> l.num, byte |-> l.byte, comment |-> l.comment, pc |-> l.pc]
  BY EncoderAssumption

Undecorated(l, m) ==
  m.kind = "insn" /\ m.insn = l.insn /\ m.num = FALSE /\ m.byte = FALSE /\ m.comment = FALSE /\ m.pc = FALSE
WithoutDecorations(asm, text) ==
  asm = [i \in 1 .. Len(text) |-> asm[i]] /\ \A i \in 1 .. Len(text) : Undecorated(text[i], asm[i])

LEMMA StrippedLog ==
  ASSUME NEW text \in Seq(AsmLines)
  PROVE  WithoutDecorations(StripVerifierLog(VerifierLog(text)), text)
<1> DEFINE n == Len(text)
           log == VerifierLog(text)
           P == {k \in DOMAIN log : Stays(log[k])}
           jumps(l) == l.insn.form \in {"goto", "if"}
           shown(l) == [kind |-> "insn", insn |-> l.insn, num |-> TRUE, byte |-> TRUE, comment |-> TRUE, pc |-> jumps(l)]
<1>1. n \in Nat /\ \A i \in 1 .. n : text[i] \in AsmLines
  OBVIOUS
<1>2. log = [k \in 1 .. 2 * n |-> IF k % 2 = 0 THEN shown(text[k \div 2]) ELSE [kind |-> "state"]]
  BY DEF VerifierLog
<1>3. ASSUME NEW l \in AsmLines PROVE shown(l).kind = "insn" /\ Undecorated(l, Bare(shown(l)))
  <2> HIDE DEF jumps
  <2>1. /\ Bare(shown(l)).kind = "insn" /\ Bare(shown(l)).insn = l.insn /\ Bare(shown(l)).num = FALSE
        /\ Bare(shown(l)).byte = FALSE /\ Bare(shown(l)).comment = FALSE /\ Bare(shown(l)).pc = FALSE
    BY DEF Bare
  <2> QED BY <2>1 DEF Undecorated
<1> HIDE DEF shown, jumps
<1>4. ASSUME NEW k \in 1 .. 2 * n PROVE Stays(log[k]) <=> k % 2 = 0
  <2>1. CASE k % 2 = 0
    <3>1. k \div 2 \in 1 .. n
      BY <1>1, <2>1
    <3>2. log[k] = shown(text[k \div 2])
      BY <1>2, <2>1
    <3> QED BY <1>1, <1>3, <2>1, <3>1, <3>2 DEF Stays
  <2>2. CASE k % 2 # 0
    <3>1. log[k] = [kind |-> "state"]
      BY <1>2, <2>2
    <3>2. log[k].kind = "state"
      BY <3>1
    <3> QED BY <2>2, <3>2 DEF Stays
  <2> QED BY <2>1, <2>2
<1>5. \A i \in 1 .. n : log[2 * i] = shown(text[i])
  <2> SUFFICES ASSUME NEW i \in 1 .. n PROVE log[2 * i] = shown(text[i])
    OBVIOUS
  <2>1. 2 * i \in 1 .. 2 * n /\ (2 * i) % 2 = 0 /\ (2 * i) \div 2 = i
    BY <1>1
  <2> QED BY <1>2, <2>1
<1>6. DOMAIN log = 1 .. 2 * n
  BY <1>2
<1>7. \A k \in 1 .. 2 * n : k \in P <=> k % 2 = 0
  BY <1>4, <1>6
<1>8. StripVerifierLog(log) = [i \in DOMAIN ItemsAt(log, P) |-> Bare(ItemsAt(log, P)[i])]
  BY DEF StripVerifierLog
<1> HIDE DEF log, P, n
<1>9. ItemsAt(log, P) = [i \in 1 .. n |-> log[2 * i]]
  BY <1>1, <1>6, <1>7, AtEven
<1>10. StripVerifierLog(log) = [i \in 1 .. n |-> Bare(log[2 * i])]
  BY <1>8, <1>9
<1>11. \A i \in 1 .. n : Undecorated(text[i], Bare(log[2 * i]))
  BY <1>1, <1>3, <1>5
<1>12. WithoutDecorations(StripVerifierLog(log), text)
  BY <1>10, <1>11 DEF WithoutDecorations, n
<1> QED BY <1>12 DEF log

\* Of lines without a decoration the encoder drops none.
LEMMA EncodedText ==
  ASSUME NEW text \in Seq(AsmLines), NEW asm, WithoutDecorations(asm, text),
         \A i \in 1 .. Len(text) : text[i].insn.form # "lddw"
  PROVE  LET insns == [i \in 1 .. Len(text) |-> EncodeInsn(text[i].insn)]
         IN  EncodeToHex(asm)
               = IF text = <<>> THEN NoCode
                 ELSE IF insns[Len(text)] = Exit THEN insns ELSE Append(insns, Exit)
<1> DEFINE n == Len(text)
           P == {i \in DOMAIN asm : Recognised(asm[i])}
           insns == [i \in 1 .. n |-> EncodeInsn(text[i].insn)]
           kept == ItemsAt(asm, P)
<1>1. n \in Nat /\ asm = [i \in 1 .. n |-> asm[i]] /\ DOMAIN asm = 1 .. n /\ \A i \in 1 .. n : Undecorated(text[i], asm[i])
  BY DEF WithoutDecorations
<1>2. \A i \in 1 .. n : Recognised(asm[i]) /\ Read(asm[i]) = text[i].insn
  BY <1>1 DEF Recognised, Read, Undecorated
<1>3. \A i \in 1 .. n : i \in P
  BY <1>1, <1>2
<1>4. EncodeToHex(asm) =
        LET is == [i \in DOMAIN kept |-> EncodeInsn(Read(kept[i]))]
        IN  IF kept = <<>> THEN NoCode ELSE IF is[Len(is)] = Exit THEN is ELSE Append(is, Exit)
  BY DEF EncodeToHex
<1>6. text = <<>> <=> n = 0
  OBVIOUS
<1> HIDE DEF P, n
<1>7. kept = asm
  BY <1>1, <1>3, AtAll
<1>8. [i \in DOMAIN kept |-> EncodeInsn(Read(kept[i]))] = insns
  BY <1>1, <1>2, <1>7
<1>9. kept = <<>> <=> n = 0
  BY <1>1, <1>7
<1>10. Len(insns) = n
  BY <1>1
<1> HIDE DEF kept, insns
<1>11. EncodeToHex(asm) = IF n = 0 THEN NoCode ELSE IF insns[n] = Exit THEN insns ELSE Append(insns, Exit)
  BY <1>4, <1>8, <1>9, <1>10
<1> QED BY <1>6, <1>11 DEF insns, n

LEMMA LogEncoded ==
  ASSUME asmText \in Seq(AsmLines)
  PROVE  LogEncodesPerIsa
<1> SUFFICES ASSUME \A i \in DOMAIN asmText : Expressible(asmText[i].insn)
    PROVE  LET hex  == EncodeToHex(StripVerifierLog(VerifierLog(asmText)))
               isa  == [i \in DOMAIN asmText |-> IsaInsn(asmText[i].insn)]
           IN  IF asmText = <<>> THEN hex = NoCode
               ELSE hex = IF asmText[Len(asmText)].insn.form = "exit" THEN isa ELSE Append(isa, IsaInsn([form |-> "exit"]))
  BY DEF LogEncodesPerIsa
<1> DEFINE n == Len(asmText)
           hex == EncodeToHex(StripVerifierLog(VerifierLog(asmText)))
           isa == [i \in DOMAIN asmText |-> IsaInsn(asmText[i].insn)]
           insns == [i \in 1 .. n |-> EncodeInsn(asmText[i].insn)]
<1>1. DOMAIN asmText = 1 .. n /\ n \in Nat /\ \A i \in 1 .. n : asmText[i].insn \in Insns
  <2>1. \A i \in 1 .. n : asmText[i] \in AsmLines
    OBVIOUS
  <2> QED BY <2>1, LineIs
<1>2. \A i \in 1 .. n : asmText[i].insn.form # "lddw"
  BY <1>1 DEF Expressible
<1>3. hex = IF asmText = <<>> THEN NoCode ELSE IF insns[n] = Exit THEN insns ELSE Append(insns, Exit)
  BY <1>2, StrippedLog, EncodedText
<1>4. \A i \in 1 .. n : /\ EncodeInsn(asmText[i].insn) = IsaInsn(asmText[i].insn)
                        /\ IsaInsn(asmText[i].insn) = Exit <=> asmText[i].insn.form = "exit"
  BY <1>1, EncodedPerIsa
<1>5. insns = isa
  BY <1>1, <1>4
<1>6. IsaInsn([form |-> "exit"]) = Exit
  BY ExitPerIsa
<1>7. asmText # <<>> => n \in 1 .. n /\ (insns[n] = Exit <=> asmText[n].insn.form = "exit")
  <2>1. asmText # <<>> => n \in 1 .. n
    BY <1>1
  <2> QED BY <1>4, <2>1
<1> HIDE DEF hex, insns, isa
<1>8. IF asmText = <<>> THEN hex = NoCode
      ELSE hex = IF asmText[n].insn.form = "exit" THEN isa ELSE Append(isa, IsaInsn([form |-> "exit"]))
  BY <1>3, <1>5, <1>6, <1>7
<1> QED BY <1>8 DEF hex, isa, n

LEMMA AsmPart == OfflineInit => AsmInit
  BY DEF OfflineInit
LEMMA AsmPartStep == [OfflineNext]_offlineVars => [AsmNext]_asmText
  BY DEF OfflineNext, offlineVars, Ladder, Assembler, LogLine, Tools, Data, Sampling, Bench, Grpo, Models

\* The bytecode of the verifier's log of any program, of any length and of any
\* instructions that fit the fields, is the program as the kernel's instruction
\* set encodes it, line by line, with an exit at the end
\* (strip_verifier_log and _encode_to_hex, ml/reward.py:365-392).
THEOREM LogEncodesPerIsaHolds == OfflineSpec => []LogEncodesPerIsa
<1> DEFINE Text == asmText \in Seq(AsmLines)
<1>1. OfflineInit => Text
  BY AsmPart DEF AsmInit
<1>2. Text /\ [OfflineNext]_offlineVars => Text'
  <2>1. Text /\ [AsmNext]_asmText => Text'
    BY DEF AsmNext
  <2> QED BY <2>1, AsmPartStep
<1>3. Text => LogEncodesPerIsa
  BY LogEncoded
<1> QED BY <1>1, <1>2, <1>3, PTL DEF OfflineSpec

-----------------------------------------------------------------------------
(***************************************************************************)
(* The figures of the sampled programs.  FoldIs says what a fold of answers *)
(* has made of the programs at some positions, whatever their order.       *)
(***************************************************************************)
Accepting(programs, D) == {i \in D : programs[i].verdict = "ACCEPTED"}
Lengths(programs) == [i \in DOMAIN programs |-> programs[i].n]
Traces(programs, D) == UNION {programs[i].pcs : i \in D}
Holding(programs, D, pc) == {i \in D : pc \in programs[i].pcs}

PcsOf == UNION {p.pcs : p \in Kinds}
FoldStates == [union : SUBSET PcsOf, valid : SUBSET PcsOf, freq : UNION {[S -> Nat] : S \in SUBSET PcsOf},
          accepted : Nat, sum : Nat, distinct : Nat, max : Nat]

FoldIs(v, programs, D) ==
  /\ v \in FoldStates
  /\ v.union = Traces(programs, D) /\ v.valid = Traces(programs, Accepting(programs, D))
  /\ DOMAIN v.freq = v.union /\ \A pc \in v.union : v.freq[pc] = Cardinality(Holding(programs, D, pc))
  /\ v.accepted = Cardinality(Accepting(programs, D))
  /\ v.sum = SumOf(Lengths(programs), Accepting(programs, D))
  /\ \A i \in D : programs[i].n <= v.max
  /\ v.max = 0 \/ \E i \in D : programs[i].n = v.max

LEMMA ProgramIs ==
  ASSUME NEW programs \in Seq(Kinds)
  PROVE  /\ DOMAIN programs = 1 .. Len(programs) /\ Len(programs) \in Nat /\ IsFiniteSet(DOMAIN programs)
         /\ \A i \in DOMAIN programs : /\ programs[i] \in Kinds /\ programs[i].n \in Nat /\ IsFiniteSet(programs[i].pcs)
                                       /\ programs[i].pcs \in SUBSET PcsOf
                                       /\ programs[i].insns \in Nat /\ programs[i].jumps \in Nat
                                       /\ programs[i].encoded \in BOOLEAN /\ programs[i].hex \in BOOLEAN
<1>1. DOMAIN programs = 1 .. Len(programs) /\ Len(programs) \in Nat
  OBVIOUS
<1>2. IsFiniteSet(DOMAIN programs)
  BY <1>1, FS_Interval
<1>3. \A i \in DOMAIN programs : programs[i] \in Kinds
  BY <1>1
<1>4. ASSUME NEW p \in Kinds
      PROVE  /\ p.n \in Nat /\ IsFiniteSet(p.pcs) /\ p.pcs \in SUBSET PcsOf /\ p.insns \in Nat /\ p.jumps \in Nat
             /\ p.encoded \in BOOLEAN /\ p.hex \in BOOLEAN
  <2>1. p.encoded \in BOOLEAN /\ p.hex \in BOOLEAN /\ {p.n, p.insns, p.jumps} \subseteq Nat /\ IsFiniteSet(p.pcs)
    BY KindsAssumption
  <2> QED BY <2>1 DEF PcsOf
<1> QED BY <1>1, <1>2, <1>3, <1>4

\* The fields of a fold.
LEMMA FoldFields ==
  ASSUME NEW v \in FoldStates
  PROVE  /\ v.union \in SUBSET PcsOf /\ v.valid \in SUBSET PcsOf /\ v.accepted \in Nat /\ v.sum \in Nat
         /\ v.distinct \in Nat /\ v.max \in Nat
         /\ v.freq \in [DOMAIN v.freq -> Nat] /\ DOMAIN v.freq \in SUBSET PcsOf
<1>1. \E S \in SUBSET PcsOf : v.freq \in [S -> Nat]
  BY DEF FoldStates
<1> QED BY <1>1 DEF FoldStates

LEMMA FoldResultIn ==
  ASSUME NEW v \in FoldStates, NEW p \in Kinds
  PROVE  FoldResult(Answer(p), v) \in FoldStates
<1> DEFINE w == FoldResult(Answer(p), v)
           known == DOMAIN v.freq
           counts == [pc \in known \cup p.pcs |-> (IF pc \in known THEN v.freq[pc] ELSE 0) + (IF pc \in p.pcs THEN 1 ELSE 0)]
<1>1. p.n \in Nat /\ IsFiniteSet(p.pcs) /\ p.pcs \in SUBSET PcsOf /\ Cardinality(p.pcs) \in Nat
  <2>1. {p.n, p.insns, p.jumps} \subseteq Nat /\ IsFiniteSet(p.pcs)
    BY KindsAssumption
  <2> QED BY <2>1, FS_CardinalityType DEF PcsOf
<1>2. Answer(p).verdict = p.verdict /\ Answer(p).n = p.n /\ Answer(p).pcs = p.pcs
  BY DEF Answer
<1>3. w = [union |-> v.union \cup p.pcs, valid |-> IF p.verdict = "ACCEPTED" THEN v.valid \cup p.pcs ELSE v.valid,
           freq |-> counts, accepted |-> v.accepted + (IF p.verdict = "ACCEPTED" THEN 1 ELSE 0),
           sum |-> v.sum + (IF p.verdict = "ACCEPTED" THEN p.n ELSE 0),
           distinct |-> v.distinct + (IF p.verdict = "ACCEPTED" THEN Cardinality(p.pcs) ELSE 0),
           max |-> IF p.n > v.max THEN p.n ELSE v.max]
  BY <1>2 DEF FoldResult
<1>4. known \cup p.pcs \in SUBSET PcsOf
  BY <1>1, FoldFields
<1>5. \A pc \in known : v.freq[pc] \in Nat
  BY FoldFields
<1>6. counts \in [known \cup p.pcs -> Nat]
  BY <1>5
<1>7. counts \in UNION {[S -> Nat] : S \in SUBSET PcsOf}
  BY <1>4, <1>6
<1>8. /\ v.union \in SUBSET PcsOf /\ v.valid \in SUBSET PcsOf /\ v.accepted \in Nat /\ v.sum \in Nat
      /\ v.distinct \in Nat /\ v.max \in Nat
  BY FoldFields
<1> HIDE DEF counts, w
<1>9. CASE p.verdict = "ACCEPTED"
  <2>1. w = [union |-> v.union \cup p.pcs, valid |-> v.valid \cup p.pcs, freq |-> counts, accepted |-> v.accepted + 1,
             sum |-> v.sum + p.n, distinct |-> v.distinct + Cardinality(p.pcs), max |-> IF p.n > v.max THEN p.n ELSE v.max]
    BY <1>3, <1>9
  <2> QED BY <1>1, <1>7, <1>8, <2>1 DEF FoldStates, w
<1>10. CASE p.verdict # "ACCEPTED"
  <2>1. w = [union |-> v.union \cup p.pcs, valid |-> v.valid, freq |-> counts, accepted |-> v.accepted + 0,
             sum |-> v.sum + 0, distinct |-> v.distinct + 0, max |-> IF p.n > v.max THEN p.n ELSE v.max]
    BY <1>3, <1>10
  <2> QED BY <1>1, <1>7, <1>8, <2>1 DEF FoldStates, w
<1> QED BY <1>9, <1>10

LEMMA FoldIs0 == \A programs : FoldIs(Fold0, programs, {})
<1>1. Fold0 \in FoldStates
  <2>1. [pc \in {} |-> 0] \in [{} -> Nat]
    OBVIOUS
  <2>2. [pc \in {} |-> 0] \in UNION {[S -> Nat] : S \in SUBSET PcsOf}
    BY <2>1
  <2> HIDE DEF PcsOf
  <2> DEFINE counts == [pc \in {} |-> 0]
  <2>3. counts \in UNION {[S -> Nat] : S \in SUBSET PcsOf}
    BY <2>2
  <2> HIDE DEF counts
  <2>4. [union |-> {}, valid |-> {}, freq |-> counts, accepted |-> 0, sum |-> 0, distinct |-> 0, max |-> 0] \in FoldStates
    BY <2>3 DEF FoldStates
  <2> QED BY <2>4 DEF Fold0, counts
<1> SUFFICES ASSUME NEW programs PROVE FoldIs(Fold0, programs, {})
  OBVIOUS
<1>2. Accepting(programs, {}) = {} /\ Traces(programs, {}) = {}
  BY DEF Accepting, Traces
<1>3. SumOf(Lengths(programs), {}) = 0
  <2>1. Cells(Lengths(programs), {}) = {}
    BY DEF Cells
  <2>2. \A x \in {} : Lengths(programs)[x] \in Nat
    OBVIOUS
  <2>3. IsFiniteSet({}) /\ Cardinality({}) = 0
    BY FS_EmptySet
  <2> QED BY <2>1, <2>2, <2>3, SumIsCells
<1>4. Cardinality({}) = 0
  BY FS_EmptySet
<1>5. DOMAIN [pc \in {} |-> 0] = {}
  OBVIOUS
<1> QED BY <1>1, <1>2, <1>3, <1>4, <1>5 DEF FoldIs, Fold0

\* One answer more.
LEMMA FoldIsStep ==
  ASSUME NEW programs \in Seq(Kinds), NEW D \in SUBSET DOMAIN programs, NEW i \in DOMAIN programs, i \notin D,
         NEW v, FoldIs(v, programs, D)
  PROVE  FoldIs(FoldResult(Answer(programs[i]), v), programs, D \cup {i})
<1> DEFINE p == programs[i]
           w == FoldResult(Answer(p), v)
           E == D \cup {i}
           ok == p.verdict = "ACCEPTED"
<1>1. /\ p \in Kinds /\ p.n \in Nat /\ IsFiniteSet(p.pcs) /\ IsFiniteSet(DOMAIN programs)
      /\ \A j \in DOMAIN programs : programs[j].n \in Nat
  BY ProgramIs
<1>2. /\ v \in FoldStates /\ v.union = Traces(programs, D) /\ v.valid = Traces(programs, Accepting(programs, D))
      /\ DOMAIN v.freq = v.union /\ (\A pc \in v.union : v.freq[pc] = Cardinality(Holding(programs, D, pc)))
      /\ v.accepted = Cardinality(Accepting(programs, D))
      /\ v.sum = SumOf(Lengths(programs), Accepting(programs, D))
      /\ (\A j \in D : programs[j].n <= v.max)
      /\ (v.max = 0 \/ \E j \in D : programs[j].n = v.max)
  BY DEF FoldIs
<1>3. v.max \in Nat /\ v.accepted \in Nat /\ v.sum \in Nat
  BY <1>2, FoldFields
<1>4. w \in FoldStates
  BY <1>1, <1>2, FoldResultIn
<1>5. /\ w.union = v.union \cup p.pcs /\ w.valid = IF ok THEN v.valid \cup p.pcs ELSE v.valid
      /\ w.freq = [pc \in DOMAIN v.freq \cup p.pcs |->
                     (IF pc \in DOMAIN v.freq THEN v.freq[pc] ELSE 0) + (IF pc \in p.pcs THEN 1 ELSE 0)]
      /\ w.accepted = v.accepted + (IF ok THEN 1 ELSE 0) /\ w.sum = v.sum + (IF ok THEN p.n ELSE 0)
      /\ w.max = IF p.n > v.max THEN p.n ELSE v.max
  BY DEF FoldResult, Answer
<1>6. IsFiniteSet(D)
  BY <1>1, FS_Subset
<1>7. \A S \in SUBSET D : IsFiniteSet(S) /\ Cardinality(S) \in Nat /\ i \notin S
  BY <1>6, FS_Subset, FS_CardinalityType
<1>8. Accepting(programs, E) = IF ok THEN Accepting(programs, D) \cup {i} ELSE Accepting(programs, D)
  <2>1. \A j : j \in Accepting(programs, E) <=> j \in IF ok THEN Accepting(programs, D) \cup {i} ELSE Accepting(programs, D)
    BY DEF Accepting
  <2> QED BY <2>1
<1>9. Accepting(programs, D) \in SUBSET D /\ \A pc : Holding(programs, D, pc) \in SUBSET D
  BY DEF Accepting, Holding
<1> HIDE DEF w, E, ok
<1>10. w.union = Traces(programs, E)
  <2>1. Traces(programs, E) = Traces(programs, D) \cup p.pcs
    BY DEF Traces, E
  <2> QED BY <1>2, <1>5, <2>1
<1>11. w.valid = Traces(programs, Accepting(programs, E))
  <2>1. Traces(programs, Accepting(programs, D) \cup {i}) = Traces(programs, Accepting(programs, D)) \cup p.pcs
    BY DEF Traces
  <2> QED BY <1>2, <1>5, <1>8, <2>1
<1>12. DOMAIN w.freq = w.union
  BY <1>2, <1>5
<1>13. ASSUME NEW pc \in w.union PROVE w.freq[pc] = Cardinality(Holding(programs, E, pc))
  <2>1. Holding(programs, E, pc) = IF pc \in p.pcs THEN Holding(programs, D, pc) \cup {i} ELSE Holding(programs, D, pc)
    <3>1. \A j : j \in Holding(programs, E, pc)
                   <=> j \in IF pc \in p.pcs THEN Holding(programs, D, pc) \cup {i} ELSE Holding(programs, D, pc)
      BY DEF Holding, E
    <3> QED BY <3>1
  <2>2. Holding(programs, D, pc) \in SUBSET D
    BY <1>9
  <2>3. Cardinality(Holding(programs, D, pc) \cup {i}) = Cardinality(Holding(programs, D, pc)) + 1
    BY <1>7, <2>2, FS_AddElement
  <2>4. pc \notin v.union => Holding(programs, D, pc) = {}
    BY <1>2 DEF Traces, Holding
  <2>5. w.freq[pc] = (IF pc \in DOMAIN v.freq THEN v.freq[pc] ELSE 0) + (IF pc \in p.pcs THEN 1 ELSE 0)
    BY <1>2, <1>5
  <2>6. Cardinality({}) = 0 /\ Cardinality(Holding(programs, D, pc)) \in Nat
    BY <1>7, <2>2, FS_EmptySet
  <2>7. (IF pc \in DOMAIN v.freq THEN v.freq[pc] ELSE 0) = Cardinality(Holding(programs, D, pc))
    BY <1>2, <2>4, <2>6
  <2> QED BY <2>1, <2>3, <2>5, <2>6, <2>7
<1>14. w.accepted = Cardinality(Accepting(programs, E))
  <2>1. Cardinality(Accepting(programs, D) \cup {i}) = Cardinality(Accepting(programs, D)) + 1
    BY <1>7, <1>9, FS_AddElement
  <2> QED BY <1>2, <1>3, <1>5, <1>8, <2>1
<1>15. w.sum = SumOf(Lengths(programs), Accepting(programs, E))
  <2>1. CASE ok
    <3> DEFINE A == Accepting(programs, D) \cup {i}
    <3>1. IsFiniteSet(A) /\ A \ {i} = Accepting(programs, D) /\ i \in A /\ A \in SUBSET DOMAIN programs
      BY <1>7, <1>9, FS_AddElement
    <3>2. \A j \in A : Lengths(programs)[j] \in Nat
      BY <1>1, <3>1 DEF Lengths
    <3>3. Lengths(programs)[i] = p.n
      BY DEF Lengths
    <3> HIDE DEF A, p
    <3>4. SumOf(Lengths(programs), A) = Lengths(programs)[i] + SumOf(Lengths(programs), A \ {i})
      BY <3>1, <3>2, SumSplit
    <3>5. Accepting(programs, E) = A
      BY <1>8, <2>1 DEF A
    <3>6. w.sum = v.sum + p.n
      BY <1>5, <2>1
    <3>7. v.sum = SumOf(Lengths(programs), Accepting(programs, D)) /\ v.sum \in Nat /\ p.n \in Nat
      BY <1>1, <1>2, <1>3
    <3>8. SumOf(Lengths(programs), A) = p.n + v.sum
      BY <3>1, <3>3, <3>4, <3>7
    <3>9. w.sum = SumOf(Lengths(programs), A)
      BY <3>6, <3>7, <3>8
    <3> QED BY <3>5, <3>9
  <2>2. CASE ~ok
    BY <1>2, <1>3, <1>5, <1>8, <2>2
  <2> QED BY <2>1, <2>2
<1>16. \A j \in E : programs[j].n <= w.max
  BY <1>1, <1>2, <1>3, <1>5 DEF E
<1>17. w.max = 0 \/ \E j \in E : programs[j].n = w.max
  BY <1>1, <1>2, <1>3, <1>5 DEF E
<1>18. FoldIs(w, programs, E)
  BY <1>4, <1>10, <1>11, <1>12, <1>13, <1>14, <1>15, <1>16, <1>17 DEF FoldIs
<1> QED BY <1>18 DEF w, E

Answers == {Answer(p) : p \in Kinds}
FoldOne == [z \in FoldStates \X Answers |-> FoldResult(z[2], z[1])]

LEMMA FoldOneIs == FoldOne \in [FoldStates \X Answers -> FoldStates]
<1>1. ASSUME NEW z \in FoldStates \X Answers PROVE FoldResult(z[2], z[1]) \in FoldStates
  <2>1. z[1] \in FoldStates /\ z[2] \in Answers
    OBVIOUS
  <2>2. PICK p \in Kinds : z[2] = Answer(p)
    BY <2>1 DEF Answers
  <2>3. FoldResult(Answer(p), z[1]) \in FoldStates
    BY <2>1, FoldResultIn
  <2> QED BY <2>2, <2>3
<1> QED BY <1>1 DEF FoldOne

LEMMA FoldOneRuns ==
  ASSUME NEW m \in Nat, NEW results, \A i \in 1 .. m : results[i] \in Answers, NEW acc \in FoldStates
  PROVE  Folded(FoldStates, FoldOne, acc, results, m)
BY FoldOneIs, FoldRuns

\* FoldLeft solves the recursion over the sets of positions that FoldRuns runs.
LEMMA FoldChunkRuns ==
  ASSUME NEW m \in Nat, NEW results, DOMAIN results = 1 .. m, \A i \in 1 .. m : results[i] \in Answers,
         NEW acc \in FoldStates
  PROVE  \E F : Runs(F, FoldStates, FoldOne, acc, results, m) /\ F[m] = FoldChunk(results, acc)
<1> DEFINE S == DOMAIN results
           Solves(h) == h = [s \in SUBSET S |-> IF s = {} THEN acc
                                              ELSE FoldResult(results[Max(s)], h[s \ {Max(s)}])]
<1>1. FoldChunk(results, acc) = (CHOOSE h : Solves(h))[S]
  BY DEF FoldChunk, FoldLeft, MapThenFoldSet
<1>2. PICK h \in [SUBSET S -> FoldStates], F \in [0 .. m -> FoldStates] :
         FoldsTo(h, FoldOne, acc, results, S) /\ Runs(F, FoldStates, FoldOne, acc, results, m) /\ F[m] = h[S]
  <2>1. Folded(FoldStates, FoldOne, acc, results, m)
    BY FoldOneRuns
  <2>2. S = 1 .. m
    OBVIOUS
  <2> HIDE DEF S, Solves
  <2> QED BY <2>1, <2>2 DEF Folded
<1>3. IsFiniteSet(S) /\ S \in SUBSET Nat
  BY FS_Interval
<1>4. ASSUME NEW s \in SUBSET S, s # {}
      PROVE  Max(s) \in s /\ s \ {Max(s)} \in SUBSET S /\ results[Max(s)] \in Answers
  <2>1. IsFiniteSet(s) /\ s \in SUBSET Nat
    BY <1>3, FS_Subset
  <2>2. Max(s) \in s
    BY <2>1, <1>4, MaxIs
  <2> QED BY <2>2
<1>5. Solves(h)
  <2>1. ASSUME NEW s \in SUBSET S
        PROVE  FoldStep(h, FoldOne, acc, results, s) = IF s = {} THEN acc ELSE FoldResult(results[Max(s)], h[s \ {Max(s)}])
    <3>1. CASE s = {}
      BY <3>1 DEF FoldStep
    <3>2. CASE s # {}
      <4>1. s \ {Max(s)} \in SUBSET S /\ results[Max(s)] \in Answers
        BY <1>4, <3>2
      <4> DEFINE z == <<h[s \ {Max(s)}], results[Max(s)]>>
      <4>2. z \in FoldStates \X Answers
        BY <4>1
      <4>3. z[1] = h[s \ {Max(s)}] /\ z[2] = results[Max(s)]
        OBVIOUS
      <4>4. FoldStep(h, FoldOne, acc, results, s) = FoldOne[z]
        BY <3>2 DEF FoldStep
      <4> HIDE DEF z
      <4>5. FoldOne[z] = FoldResult(z[2], z[1])
        BY <4>2 DEF FoldOne
      <4> QED BY <3>2, <4>3, <4>4, <4>5
    <3> QED BY <3>1, <3>2
  <2>2. h = [s \in SUBSET S |-> FoldStep(h, FoldOne, acc, results, s)]
    BY <1>2 DEF FoldsTo
  <2> QED BY <2>1, <2>2
<1> DEFINE c == CHOOSE g : Solves(g)
<1>6. Solves(c)
  <2> HIDE DEF Solves
  <2> QED BY <1>5
<1>7. c[S] = h[S]
  <2>1. c[{}] = h[{}]
    BY <1>5, <1>6
  <2>2. ASSUME NEW s \in SUBSET S, s # {}, c[s \ {Max(s)}] = h[s \ {Max(s)}] PROVE c[s] = h[s]
    <3> HIDE DEF c
    <3> QED BY <1>5, <1>6, <2>2
  <2> HIDE DEF c, Solves
  <2> QED BY <1>3, <2>1, <2>2, SetsAgree
<1> QED BY <1>1, <1>2, <1>7

\* The answers of a chunk.
LEMMA FoldOfChunk ==
  ASSUME NEW programs \in Seq(Kinds), NEW m \in Nat, NEW g \in [1 .. m -> DOMAIN programs], IsInjective(g),
         NEW D \in SUBSET DOMAIN programs, \A j \in 1 .. m : g[j] \notin D,
         NEW results, DOMAIN results = 1 .. m, \A j \in 1 .. m : results[j] = Answer(programs[g[j]]),
         NEW acc, FoldIs(acc, programs, D)
  PROVE  FoldIs(FoldChunk(results, acc), programs, D \cup {g[j] : j \in 1 .. m})
<1>1. \A i \in DOMAIN programs : programs[i] \in Kinds
  BY ProgramIs
<1>2. acc \in FoldStates /\ \A j \in 1 .. m : results[j] \in Answers
  BY <1>1 DEF FoldIs, Answers
<1>3. PICK F : Runs(F, FoldStates, FoldOne, acc, results, m) /\ F[m] = FoldChunk(results, acc)
  BY <1>2, FoldChunkRuns
<1> DEFINE Upto(n) == D \cup {g[j] : j \in 1 .. n}
           Good == {n \in Nat : n <= m => FoldIs(F[n], programs, Upto(n))}
<1>4. 0 \in Good
  <2>1. Upto(0) = D
    OBVIOUS
  <2> QED BY <1>3, <2>1 DEF Runs
<1>5. ASSUME NEW n \in Nat, n \in Good PROVE n + 1 \in Good
  <2> SUFFICES ASSUME n + 1 <= m PROVE FoldIs(F[n + 1], programs, Upto(n + 1))
    OBVIOUS
  <2>1. FoldIs(F[n], programs, Upto(n)) /\ n + 1 \in 1 .. m /\ n \in 0 .. m
    BY <1>5
  <2>2. F[n + 1] = FoldOne[<<F[n], results[n + 1]>>] /\ F[n] \in FoldStates
    <3>1. \A i \in 1 .. m : F[i] = FoldOne[<<F[i - 1], results[i]>>]
      BY <1>3 DEF Runs
    <3>2. F[n + 1] = FoldOne[<<F[(n + 1) - 1], results[n + 1]>>] /\ (n + 1) - 1 = n
      BY <2>1, <3>1
    <3> QED BY <1>3, <2>1, <3>2 DEF Runs
  <2>3. F[n + 1] = FoldResult(Answer(programs[g[n + 1]]), F[n])
    <3> DEFINE z == <<F[n], results[n + 1]>>
    <3>1. z \in FoldStates \X Answers /\ z[1] = F[n] /\ z[2] = results[n + 1]
      BY <1>2, <2>1, <2>2
    <3> HIDE DEF z
    <3>2. FoldOne[z] = FoldResult(z[2], z[1])
      BY <3>1 DEF FoldOne
    <3>3. results[n + 1] = Answer(programs[g[n + 1]])
      BY <2>1
    <3> QED BY <2>2, <3>1, <3>2, <3>3 DEF z
  <2>4. Upto(n + 1) = Upto(n) \cup {g[n + 1]}
    OBVIOUS
  <2>5. g[n + 1] \notin Upto(n) /\ Upto(n) \in SUBSET DOMAIN programs /\ g[n + 1] \in DOMAIN programs
    <3>1. \A j \in 1 .. n : j \in 1 .. m /\ j # n + 1
      BY <2>1
    <3>2. \A j \in 1 .. n : g[j] # g[n + 1]
      BY <2>1, <3>1 DEF IsInjective
    <3> QED BY <2>1, <3>1, <3>2
  <2> HIDE DEF Upto
  <2>6. FoldIs(FoldResult(Answer(programs[g[n + 1]]), F[n]), programs, Upto(n) \cup {g[n + 1]})
    BY <2>1, <2>5, FoldIsStep
  <2> QED BY <2>3, <2>4, <2>6
<1>6. m \in Good
  <2> HIDE DEF Good
  <2> QED BY <1>4, <1>5, SetInduction
<1> QED BY <1>3, <1>6

\* The positions of the programs that have bytecode, in order.
Bytecoded(programs) == {i \in DOMAIN programs : programs[i].hex}
LEMMA EncodedIs ==
  ASSUME NEW programs \in Seq(Kinds)
  PROVE  /\ Len(Encoded(programs)) \in Nat /\ DOMAIN Encoded(programs) = 1 .. Len(Encoded(programs))
         /\ Encoded(programs) \in [1 .. Len(Encoded(programs)) -> DOMAIN programs]
         /\ IsInjective(Encoded(programs))
<1> DEFINE S == Bytecoded(programs)
           n == Cardinality(S)
           f == InOrder(S)
<1>1. DOMAIN programs \in SUBSET Nat /\ IsFiniteSet(DOMAIN programs)
  BY ProgramIs
<1>2. S \in SUBSET DOMAIN programs
  BY DEF Bytecoded
<1>3. S \in SUBSET Nat /\ IsFiniteSet(S)
  BY <1>1, <1>2, FS_Subset
<1>4. n \in Nat /\ f \in Bijection(1 .. n, S)
  BY <1>3, InOrderIs
<1>5. f \in [1 .. n -> S] /\ IsInjective(f)
  BY <1>4 DEF Bijection, Injection
<1> HIDE DEF S, f, n
<1>6. f \in [1 .. n -> DOMAIN programs] /\ Len(f) = n /\ DOMAIN f = 1 .. n
  BY <1>2, <1>4, <1>5
<1>7. Encoded(programs) = f
  BY DEF Encoded, f, S, Bytecoded
<1> QED BY <1>4, <1>5, <1>6, <1>7

\* The places of a chunk.
LEMMA ChunkPlaces ==
  ASSUME NEW k \in Nat, k >= 1, NEW c \in Nat, c >= 1
  PROVE  /\ ChunkOf(k) \in Nat /\ ChunkOf(k) >= 1
         /\ ChunkOf(k) = c <=> (c - 1) * ChunkSize < k /\ k <= (c - 1) * ChunkSize + ChunkSize
<1> DEFINE l == ChunkSize
<1>1. l \in Nat /\ l > 0
  BY ChunkAssumption
<1> HIDE DEF l
<1>2. PICK q \in Nat, r \in 0 .. l - 1 : q = (k - 1) \div l /\ k - 1 = l * q + r
  <2>1. k - 1 \in Nat
    OBVIOUS
  <2> DEFINE m == k - 1
  <2>2. m \div l \in Nat /\ m % l \in 0 .. l - 1 /\ m = l * (m \div l) + (m % l)
    BY <1>1, <2>1, DivMod
  <2> QED BY <2>2
<1>3. ChunkOf(k) = q + 1
  BY <1>2 DEF ChunkOf, l
<1>4. ASSUME c = q + 1 PROVE (c - 1) * l < k /\ k <= (c - 1) * l + l
  <2>1. (c - 1) * l = l * q
    BY <1>1, <1>4
  <2> QED BY <1>1, <1>2, <2>1
<1>5. ASSUME (c - 1) * l < k, k <= (c - 1) * l + l PROVE c = q + 1
  <2>1. PICK d \in Nat : d = c - 1
    OBVIOUS
  <2> DEFINE s == k - 1 - l * d
  <2>2. d * l = l * d /\ l * d \in Nat
    BY <1>1, <2>1
  <2>3. s \in 0 .. l - 1
    BY <1>1, <1>5, <2>1, <2>2
  <2>4. k - 1 = l * d + s
    BY <2>2
  <2> HIDE DEF s
  <2>5. (l * d + s) \div l = d
    BY <1>1, <2>3, DivModUnique
  <2>6. q = d
    BY <1>2, <2>4, <2>5
  <2> QED BY <2>1, <2>6
<1>6. ChunkOf(k) \in Nat /\ ChunkOf(k) >= 1
  BY <1>2, <1>3
<1> QED BY <1>3, <1>4, <1>5, <1>6 DEF l

\* The number of chunks.
LEMMA ChunkCount ==
  ASSUME NEW n \in Nat, NEW c \in Nat, c >= 1
  PROVE  /\ (n + ChunkSize - 1) \div ChunkSize \in Nat
         /\ c <= (n + ChunkSize - 1) \div ChunkSize <=> (c - 1) * ChunkSize < n
<1> DEFINE l == ChunkSize
           m == n + l - 1
<1>1. l \in Nat /\ l > 0
  BY ChunkAssumption
<1> HIDE DEF l
<1>2. m \in Nat
  BY <1>1
<1>3. PICK q \in Nat, r \in 0 .. l - 1 : q = m \div l /\ m = l * q + r
  <2>1. m \div l \in Nat /\ m % l \in 0 .. l - 1 /\ m = l * (m \div l) + (m % l)
    BY <1>1, <1>2, DivMod
  <2> QED BY <2>1
<1>4. PICK d \in Nat : d = c - 1
  OBVIOUS
<1>5. l * d = d * l /\ l * d \in Nat /\ l * q \in Nat /\ l * (d + 1) = l * d + l
  BY <1>1, <1>3, <1>4
<1>6. ASSUME c <= q PROVE d * l < n
  <2>1. l * (d + 1) <= l * q
    BY <1>1, <1>3, <1>4, <1>6
  <2> QED BY <1>1, <1>3, <1>5, <2>1
<1>7. ASSUME q < c PROVE ~(d * l < n)
  <2>1. l * q <= l * d
    BY <1>1, <1>3, <1>4, <1>7
  <2> QED BY <1>1, <1>3, <1>5, <2>1
<1> QED BY <1>3, <1>4, <1>6, <1>7 DEF l

\* The programs whose answers have been folded before a chunk.
Done(programs, next, failed) ==
  {Encoded(programs)[k] : k \in {k \in DOMAIN Encoded(programs) : ChunkOf(k) < next /\ ChunkOf(k) \notin failed}}

LEMMA DoneIs ==
  ASSUME NEW programs \in Seq(Kinds), NEW next, NEW failed
  PROVE  Done(programs, next, failed) \in SUBSET DOMAIN programs
BY EncodedIs DEF Done

LEMMA NothingDone ==
  ASSUME NEW programs \in Seq(Kinds), NEW failed
  PROVE  Done(programs, 1, failed) = {}
<1>1. \A k \in DOMAIN Encoded(programs) : ChunkOf(k) \in Nat /\ ChunkOf(k) >= 1
  <2> SUFFICES ASSUME NEW k \in DOMAIN Encoded(programs) PROVE ChunkOf(k) \in Nat /\ ChunkOf(k) >= 1
    OBVIOUS
  <2>1. k \in Nat /\ k >= 1
    BY EncodedIs
  <2>2. 1 \in Nat /\ 1 >= 1
    OBVIOUS
  <2> QED BY <2>1, <2>2, ChunkPlaces
<1>2. \A k \in DOMAIN Encoded(programs) : ~(ChunkOf(k) < 1)
  BY <1>1
<1> QED BY <1>2 DEF Done

\* A chunk without an answer, and one with it.
LEMMA ChunkLost ==
  ASSUME NEW programs \in Seq(Kinds), NEW c \in Nat, c >= 1, NEW failed \in SUBSET (1 .. c - 1)
  PROVE  Done(programs, c + 1, failed \cup {c}) = Done(programs, c, failed)
<1>1. \A k \in DOMAIN Encoded(programs) : ChunkOf(k) \in Nat
  <2> SUFFICES ASSUME NEW k \in DOMAIN Encoded(programs) PROVE ChunkOf(k) \in Nat
    OBVIOUS
  <2>1. k \in Nat /\ k >= 1
    BY EncodedIs
  <2> QED BY <2>1, ChunkPlaces
<1>2. \A k \in DOMAIN Encoded(programs) :
         (ChunkOf(k) < c + 1 /\ ChunkOf(k) \notin failed \cup {c}) <=> (ChunkOf(k) < c /\ ChunkOf(k) \notin failed)
  BY <1>1
<1> QED BY <1>2 DEF Done

LEMMA ChunkFolded ==
  ASSUME NEW programs \in Seq(Kinds), NEW c \in Nat, c >= 1, c <= Chunks(programs),
         NEW failed \in SUBSET (1 .. c - 1), NEW v, FoldIs(v, programs, Done(programs, c, failed))
  PROVE  FoldIs(FoldChunk(ChunkResults(programs, c), v), programs, Done(programs, c + 1, failed))
<1> DEFINE idx == Encoded(programs)
           n == Len(idx)
           first == (c - 1) * ChunkSize
           m == Lesser(ChunkSize, n - first)
           D == Done(programs, c, failed)
           g == [j \in 1 .. m |-> idx[first + j]]
           results == ChunkResults(programs, c)
<1>1. n \in Nat /\ DOMAIN idx = 1 .. n /\ idx \in [1 .. n -> DOMAIN programs] /\ IsInjective(idx)
  BY EncodedIs
<1>2. ChunkSize \in Nat /\ ChunkSize >= 1
  BY ChunkAssumption
<1>3. first \in Nat
  BY <1>2
<1>4. first < n
  <2>1. c <= (n + ChunkSize - 1) \div ChunkSize
    BY DEF Chunks
  <2> HIDE DEF n
  <2> QED BY <1>1, <2>1, ChunkCount
<1>5. results = [j \in 1 .. m |-> Answer(programs[idx[first + j]])]
  BY DEF ChunkResults
<1>6. \A k \in 1 .. n : /\ ChunkOf(k) \in Nat
                        /\ ChunkOf(k) = c <=> first < k /\ k <= first + ChunkSize
  <2> SUFFICES ASSUME NEW k \in 1 .. n
               PROVE  ChunkOf(k) \in Nat /\ (ChunkOf(k) = c <=> first < k /\ k <= first + ChunkSize)
    OBVIOUS
  <2>1. k \in Nat /\ k >= 1
    BY <1>1
  <2> HIDE DEF n
  <2> QED BY <2>1, ChunkPlaces
<1>7. Done(programs, c + 1, failed) = {idx[k] : k \in {k \in 1 .. n : ChunkOf(k) < c + 1 /\ ChunkOf(k) \notin failed}}
  BY <1>1 DEF Done
<1>8. D = {idx[k] : k \in {k \in 1 .. n : ChunkOf(k) < c /\ ChunkOf(k) \notin failed}}
  BY <1>1 DEF Done
<1>9. D \in SUBSET DOMAIN programs
  BY DoneIs
<1> HIDE DEF idx, n, first, D, results
<1>10. /\ m \in Nat /\ \A j \in 1 .. m : first + j \in 1 .. n /\ ChunkOf(first + j) = c
       /\ \A k \in 1 .. n : ChunkOf(k) = c => k - first \in 1 .. m
  <2>1. m = ChunkSize \/ m = n - first
    BY DEF Lesser
  <2>2. m <= ChunkSize /\ m <= n - first /\ m \in Nat
    BY <1>1, <1>2, <1>3, <1>4 DEF Lesser
  <2> HIDE DEF m
  <2>3. \A j \in 1 .. m : first + j \in 1 .. n /\ first < first + j /\ first + j <= first + ChunkSize
    BY <1>1, <1>2, <1>3, <2>2
  <2>4. \A k \in 1 .. n : first < k /\ k <= first + ChunkSize => k - first \in 1 .. m
    BY <1>1, <1>2, <1>3, <2>1, <2>2
  <2> QED BY <1>6, <2>2, <2>3, <2>4
<1> HIDE DEF m
<1>11. \A j \in 1 .. m : g[j] = idx[first + j] /\ idx[first + j] \in DOMAIN programs
  BY <1>1, <1>10
<1>12. g \in [1 .. m -> DOMAIN programs]
  BY <1>11
<1>13. DOMAIN g = 1 .. m
  OBVIOUS
<1> HIDE DEF g
<1>14. IsInjective(g)
  <2> SUFFICES ASSUME NEW i \in 1 .. m, NEW j \in 1 .. m, g[i] = g[j] PROVE i = j
    BY <1>13 DEF IsInjective
  <2>1. idx[first + i] = idx[first + j] /\ first + i \in 1 .. n /\ first + j \in 1 .. n
    BY <1>10, <1>11
  <2>2. first + i = first + j
    BY <1>1, <2>1 DEF IsInjective
  <2> QED BY <1>3, <1>10, <2>2
<1>15. \A j \in 1 .. m : g[j] \notin D
  <2> SUFFICES ASSUME NEW j \in 1 .. m, g[j] \in D PROVE FALSE
    OBVIOUS
  <2>1. PICK k \in 1 .. n : idx[k] = g[j] /\ ChunkOf(k) < c
    BY <1>8
  <2>2. k = first + j
    BY <1>1, <1>10, <1>11, <2>1 DEF IsInjective
  <2> QED BY <1>10, <2>1, <2>2
<1>16. DOMAIN results = 1 .. m /\ \A j \in 1 .. m : results[j] = Answer(programs[g[j]])
  BY <1>5, <1>11
<1>17. FoldIs(FoldChunk(results, v), programs, D \cup {g[j] : j \in 1 .. m})
  BY <1>9, <1>10, <1>12, <1>14, <1>15, <1>16, FoldOfChunk DEF D
<1>18. Done(programs, c + 1, failed) = D \cup {g[j] : j \in 1 .. m}
  <2>1. \A k \in 1 .. n : (ChunkOf(k) < c + 1 /\ ChunkOf(k) \notin failed)
                             <=> ((ChunkOf(k) < c /\ ChunkOf(k) \notin failed) \/ ChunkOf(k) = c)
    <3>1. c \notin failed
      OBVIOUS
    <3> QED BY <1>6, <3>1
  <2>2. \A i : i \in Done(programs, c + 1, failed) <=> \E k \in 1 .. n : i = idx[k] /\ ChunkOf(k) < c + 1 /\ ChunkOf(k) \notin failed
    BY <1>7
  <2>3. \A i : i \in D <=> \E k \in 1 .. n : i = idx[k] /\ ChunkOf(k) < c /\ ChunkOf(k) \notin failed
    BY <1>8
  <2>4. \A i : i \in {g[j] : j \in 1 .. m} <=> \E k \in 1 .. n : i = idx[k] /\ ChunkOf(k) = c
    <3>1. ASSUME NEW j \in 1 .. m PROVE \E k \in 1 .. n : g[j] = idx[k] /\ ChunkOf(k) = c
      BY <1>10, <1>11
    <3>2. ASSUME NEW k \in 1 .. n, ChunkOf(k) = c PROVE \E j \in 1 .. m : g[j] = idx[k]
      <4>1. k - first \in 1 .. m /\ first + (k - first) = k
        BY <1>1, <1>3, <1>10, <3>2
      <4> QED BY <1>11, <4>1
    <3> QED BY <3>1, <3>2
  <2> QED BY <2>1, <2>2, <2>3, <2>4
<1> QED BY <1>17, <1>18 DEF results

\* What the other fold makes of the first programs.
Opcodes(p) == <<p.distinct, p.insns>>
ProgramStates == [n : Nat, insns : Nat, jumps : Nat, div : Seq({Opcodes(p) : p \in Kinds})]
EncodedTo(programs, m) == {i \in DOMAIN programs : i <= m /\ programs[i].encoded}
InsnsOf(programs) == [i \in DOMAIN programs |-> programs[i].insns]
JumpsOf(programs) == [i \in DOMAIN programs |-> programs[i].jumps]
OpcodesAt(programs, order) == [k \in DOMAIN order |-> Opcodes(programs[order[k]])]

ProgramsAre(c, programs, m) ==
  LET E == EncodedTo(programs, m)
  IN  /\ c \in ProgramStates
      /\ c.n = Cardinality(E) /\ c.insns = SumOf(InsnsOf(programs), E) /\ c.jumps = SumOf(JumpsOf(programs), E)
      /\ c.div = OpcodesAt(programs, InOrder(E))

Programs0 == [n |-> 0, insns |-> 0, jumps |-> 0, div |-> <<>>]
ProgramOne == [z \in ProgramStates \X Kinds |-> FoldProgram(z[2], z[1])]

LEMMA Programs0Is == Programs0 \in ProgramStates
BY DEF Programs0, ProgramStates

LEMMA StateFields ==
  ASSUME NEW c \in ProgramStates
  PROVE  c.n \in Nat /\ c.insns \in Nat /\ c.jumps \in Nat /\ c.div \in Seq({Opcodes(p) : p \in Kinds})
BY DEF ProgramStates

LEMMA KindFields ==
  ASSUME NEW p \in Kinds
  PROVE  p.insns \in Nat /\ p.jumps \in Nat /\ p.n \in Nat /\ p.encoded \in BOOLEAN
<1>1. p.encoded \in BOOLEAN /\ {p.n, p.insns, p.jumps} \subseteq Nat
  BY KindsAssumption
<1> QED BY <1>1

LEMMA FoldProgramIn ==
  ASSUME NEW c \in ProgramStates, NEW p \in Kinds
  PROVE  FoldProgram(p, c) \in ProgramStates
<1>1. p.insns \in Nat /\ p.jumps \in Nat
  BY KindFields
<1>2. c.n \in Nat /\ c.insns \in Nat /\ c.jumps \in Nat /\ c.div \in Seq({Opcodes(q) : q \in Kinds})
  BY StateFields
<1> DEFINE T == {Opcodes(q) : q \in Kinds}
<1>3. Append(c.div, Opcodes(p)) \in Seq(T)
  <2>1. Opcodes(p) \in T
    OBVIOUS
  <2> HIDE DEF T
  <2> QED BY <1>2, <2>1 DEF T
<1>4. CASE p.encoded
  <2>1. FoldProgram(p, c) = [n |-> c.n + 1, insns |-> c.insns + p.insns, jumps |-> c.jumps + p.jumps,
                             div |-> Append(c.div, Opcodes(p))]
    BY <1>4 DEF FoldProgram, Opcodes
  <2> DEFINE d == Append(c.div, Opcodes(p))
  <2>2. d \in Seq(T)
    BY <1>3
  <2> HIDE DEF d, T
  <2>3. [n |-> c.n + 1, insns |-> c.insns + p.insns, jumps |-> c.jumps + p.jumps, div |-> d]
          \in [n : Nat, insns : Nat, jumps : Nat, div : Seq(T)]
    BY <1>1, <1>2, <2>2
  <2> QED BY <2>1, <2>3 DEF ProgramStates, T, d
<1>5. CASE ~p.encoded
  BY <1>5 DEF FoldProgram
<1> QED BY <1>4, <1>5

LEMMA ProgramOneIs == ProgramOne \in [ProgramStates \X Kinds -> ProgramStates]
<1>1. ASSUME NEW z \in ProgramStates \X Kinds PROVE FoldProgram(z[2], z[1]) \in ProgramStates
  <2>1. z[1] \in ProgramStates /\ z[2] \in Kinds
    OBVIOUS
  <2> QED BY <2>1, FoldProgramIn
<1> QED BY <1>1 DEF ProgramOne

LEMMA ProgramsFolded ==
  ASSUME NEW m \in Nat, NEW programs, \A i \in 1 .. m : programs[i] \in Kinds
  PROVE  Folded(ProgramStates, ProgramOne, Programs0, programs, m)
BY ProgramOneIs, Programs0Is, FoldRuns

LEMMA ComplexityRuns ==
  ASSUME NEW m \in Nat, NEW programs, DOMAIN programs = 1 .. m, \A i \in 1 .. m : programs[i] \in Kinds
  PROVE  \E F : Runs(F, ProgramStates, ProgramOne, Programs0, programs, m) /\ F[m] = Complexity(programs)
<1> DEFINE S == DOMAIN programs
           Solves(h) == h = [s \in SUBSET S |-> IF s = {} THEN Programs0
                                              ELSE FoldProgram(programs[Max(s)], h[s \ {Max(s)}])]
<1>1. Complexity(programs) = (CHOOSE h : Solves(h))[S]
  BY DEF Complexity, FoldLeft, MapThenFoldSet, Programs0
<1>2. PICK h \in [SUBSET S -> ProgramStates], F \in [0 .. m -> ProgramStates] :
         FoldsTo(h, ProgramOne, Programs0, programs, S) /\ Runs(F, ProgramStates, ProgramOne, Programs0, programs, m) /\ F[m] = h[S]
  <2>1. Folded(ProgramStates, ProgramOne, Programs0, programs, m)
    BY ProgramsFolded
  <2>2. S = 1 .. m
    OBVIOUS
  <2> HIDE DEF S, Solves
  <2> QED BY <2>1, <2>2 DEF Folded
<1>3. IsFiniteSet(S) /\ S \in SUBSET Nat
  BY FS_Interval
<1>4. ASSUME NEW s \in SUBSET S, s # {}
      PROVE  Max(s) \in s /\ s \ {Max(s)} \in SUBSET S /\ programs[Max(s)] \in Kinds
  <2>1. IsFiniteSet(s) /\ s \in SUBSET Nat
    BY <1>3, FS_Subset
  <2>2. Max(s) \in s
    BY <2>1, <1>4, MaxIs
  <2> QED BY <2>2
<1>5. Solves(h)
  <2>1. ASSUME NEW s \in SUBSET S
        PROVE  FoldStep(h, ProgramOne, Programs0, programs, s) = IF s = {} THEN Programs0 ELSE FoldProgram(programs[Max(s)], h[s \ {Max(s)}])
    <3>1. CASE s = {}
      BY <3>1 DEF FoldStep
    <3>2. CASE s # {}
      <4>1. s \ {Max(s)} \in SUBSET S /\ programs[Max(s)] \in Kinds
        BY <1>4, <3>2
      <4> DEFINE z == <<h[s \ {Max(s)}], programs[Max(s)]>>
      <4>2. z \in ProgramStates \X Kinds
        BY <4>1
      <4>3. z[1] = h[s \ {Max(s)}] /\ z[2] = programs[Max(s)]
        OBVIOUS
      <4>4. FoldStep(h, ProgramOne, Programs0, programs, s) = ProgramOne[z]
        BY <3>2 DEF FoldStep
      <4> HIDE DEF z
      <4>5. ProgramOne[z] = FoldProgram(z[2], z[1])
        BY <4>2 DEF ProgramOne
      <4> QED BY <3>2, <4>3, <4>4, <4>5
    <3> QED BY <3>1, <3>2
  <2>2. h = [s \in SUBSET S |-> FoldStep(h, ProgramOne, Programs0, programs, s)]
    BY <1>2 DEF FoldsTo
  <2> QED BY <2>1, <2>2
<1> DEFINE c == CHOOSE g : Solves(g)
<1>6. Solves(c)
  <2> HIDE DEF Solves
  <2> QED BY <1>5
<1>7. c[S] = h[S]
  <2>1. c[{}] = h[{}]
    BY <1>5, <1>6
  <2>2. ASSUME NEW s \in SUBSET S, s # {}, c[s \ {Max(s)}] = h[s \ {Max(s)}] PROVE c[s] = h[s]
    <3> HIDE DEF c
    <3> QED BY <1>5, <1>6, <2>2
  <2> HIDE DEF c, Solves
  <2> QED BY <1>3, <2>1, <2>2, SetsAgree
<1> QED BY <1>1, <1>2, <1>7

LEMMA Programs0Are ==
  ASSUME NEW programs \in Seq(Kinds)
  PROVE  ProgramsAre(Programs0, programs, 0)
<1>1. EncodedTo(programs, 0) = {}
  BY ProgramIs DEF EncodedTo
<1>2. IsFiniteSet({}) /\ Cardinality({}) = 0
  BY FS_EmptySet
<1>3. ASSUME NEW g PROVE SumOf(g, {}) = 0
  <2>1. Cells(g, {}) = {}
    BY DEF Cells
  <2>2. \A x \in {} : g[x] \in Nat
    OBVIOUS
  <2> QED BY <1>2, <2>1, <2>2, SumIsCells
<1>4. InOrder({}) = <<>>
  <2>1. 1 .. 0 = {}
    OBVIOUS
  <2>2. DOMAIN InOrder({}) = 1 .. 0
    BY <1>2 DEF InOrder
  <2> QED BY <1>2, <2>1, <2>2 DEF InOrder
<1>5. OpcodesAt(programs, <<>>) = <<>>
  BY DEF OpcodesAt
<1> QED BY <1>1, <1>2, <1>3, <1>4, <1>5, Programs0Is DEF ProgramsAre, Programs0

LEMMA ProgramsStep ==
  ASSUME NEW programs \in Seq(Kinds), NEW m \in Nat, m + 1 \in DOMAIN programs, NEW c, ProgramsAre(c, programs, m)
  PROVE  ProgramsAre(FoldProgram(programs[m + 1], c), programs, m + 1)
<1> DEFINE p == programs[m + 1]
           E == EncodedTo(programs, m)
           f == InOrder(E)
           w == FoldProgram(p, c)
<1>1. p \in Kinds /\ p.encoded \in BOOLEAN /\ p.insns \in Nat /\ p.jumps \in Nat
      /\ DOMAIN programs = 1 .. Len(programs) /\ Len(programs) \in Nat /\ IsFiniteSet(DOMAIN programs)
      /\ \A i \in DOMAIN programs : programs[i].insns \in Nat /\ programs[i].jumps \in Nat
  BY ProgramIs
<1>2. /\ c \in ProgramStates /\ c.n = Cardinality(E)
      /\ c.insns = SumOf(InsnsOf(programs), E) /\ c.jumps = SumOf(JumpsOf(programs), E)
      /\ c.div = OpcodesAt(programs, f)
  BY DEF ProgramsAre
<1>3. c.n \in Nat /\ c.insns \in Nat /\ c.jumps \in Nat
  BY <1>2, StateFields
<1>4. w \in ProgramStates
  BY <1>1, <1>2, FoldProgramIn
<1>5. E \in SUBSET DOMAIN programs /\ m + 1 \notin E
  BY <1>1 DEF EncodedTo
<1>6. IsFiniteSet(E) /\ E \in SUBSET Nat
  BY <1>1, <1>5, FS_Subset
<1>7. \A i \in DOMAIN programs : i <= m + 1 <=> i <= m \/ i = m + 1
  BY <1>1
<1>8. CASE ~p.encoded
  <2>1. EncodedTo(programs, m + 1) = E
    BY <1>7, <1>8 DEF EncodedTo
  <2>2. w = c
    BY <1>8 DEF FoldProgram
  <2> QED BY <2>1, <2>2 DEF ProgramsAre
<1>9. CASE p.encoded
  <2> DEFINE x == m + 1
             B == E \cup {x}
  <2>1. EncodedTo(programs, x) = B
    BY <1>7, <1>9 DEF EncodedTo
  <2>2. /\ w.n = c.n + 1 /\ w.insns = c.insns + p.insns /\ w.jumps = c.jumps + p.jumps
        /\ w.div = Append(c.div, Opcodes(p))
    BY <1>9 DEF FoldProgram, Opcodes
  <2>3. IsFiniteSet(B) /\ Cardinality(B) = Cardinality(E) + 1 /\ B \ {x} = E /\ x \in B /\ B \in SUBSET DOMAIN programs
    BY <1>5, <1>6, FS_AddElement
  <2>4. InOrder(B) = Append(f, x)
    <3>1. \A i \in E : i < x
      BY <1>1 DEF EncodedTo
    <3>2. x \in Nat
      OBVIOUS
    <3> HIDE DEF x, E
    <3> QED BY <1>6, <3>1, <3>2, InOrderAdd
  <2>5. f \in Seq(DOMAIN programs)
    <3>1. Cardinality(E) \in Nat /\ f \in Bijection(1 .. Cardinality(E), E)
      BY <1>6, InOrderIs
    <3>2. f \in [1 .. Cardinality(E) -> E]
      BY <3>1 DEF Bijection, Injection
    <3> HIDE DEF f, E
    <3> QED BY <1>5, <3>1, <3>2
  <2> HIDE DEF x, w, E, f, p
  <2>6. OpcodesAt(programs, Append(f, x)) = Append(OpcodesAt(programs, f), Opcodes(programs[x]))
    <3> DEFINE a == Append(f, x)
               T == {Opcodes(programs[i]) : i \in DOMAIN programs}
               d == OpcodesAt(programs, f)
               e == OpcodesAt(programs, a)
    <3>1. x \in DOMAIN programs
      BY DEF x
    <3>2. /\ a \in Seq(DOMAIN programs) /\ Len(a) = Len(f) + 1 /\ a[Len(f) + 1] = x
          /\ \A k \in 1 .. Len(f) : a[k] = f[k] /\ f[k] \in DOMAIN programs
      BY <2>5, <3>1
    <3>3. Len(f) \in Nat /\ DOMAIN f = 1 .. Len(f) /\ DOMAIN a = 1 .. Len(f) + 1
      BY <2>5, <3>2
    <3> HIDE DEF a
    <3>4. d = [k \in 1 .. Len(f) |-> Opcodes(programs[f[k]])]
      BY <3>3 DEF OpcodesAt
    <3>5. e = [k \in 1 .. Len(f) + 1 |-> Opcodes(programs[a[k]])]
      BY <3>3 DEF OpcodesAt
    <3>6. \A k \in 1 .. Len(f) + 1 : k \in 1 .. Len(f) \/ k = Len(f) + 1
      BY <3>3
    <3>7. d \in [1 .. Len(f) -> T]
      BY <3>2, <3>4
    <3>8. e \in [1 .. Len(f) + 1 -> T]
      BY <3>1, <3>2, <3>5, <3>6
    <3>9. Opcodes(programs[x]) \in T
      BY <3>1
    <3>10. \A k \in 1 .. Len(f) : k \in 1 .. Len(f) + 1 /\ e[k] = d[k]
      BY <3>2, <3>3, <3>4, <3>5
    <3>11. e[Len(f) + 1] = Opcodes(programs[x])
      BY <3>2, <3>3, <3>5
    <3> DEFINE o == Opcodes(programs[x])
    <3>12. o \in T /\ e[Len(f) + 1] = o
      BY <3>9, <3>11
    <3> HIDE DEF d, e, T, o
    <3>13. d \in Seq(T) /\ Len(d) = Len(f) /\ e \in Seq(T) /\ Len(e) = Len(f) + 1
      BY <3>3, <3>7, <3>8
    <3>14. Append(d, o) \in Seq(T) /\ Len(Append(d, o)) = Len(f) + 1
           /\ Append(d, o)[Len(f) + 1] = o /\ \A k \in 1 .. Len(f) : Append(d, o)[k] = d[k]
      BY <3>12, <3>13
    <3>15. \A k \in 1 .. Len(f) + 1 : Append(d, o)[k] = e[k]
      BY <3>6, <3>10, <3>12, <3>14
    <3> DEFINE ad == Append(d, o)
    <3>16. ad = e
      <4>1. ad \in Seq(T) /\ Len(ad) = Len(e) /\ \A k \in 1 .. Len(ad) : ad[k] = e[k]
        BY <3>13, <3>14, <3>15
      <4> HIDE DEF ad
      <4> QED BY <3>13, <4>1, SeqEqual
    <3> QED BY <3>16 DEF d, e, a, o
  <2>7. w.n = Cardinality(B) /\ w.div = OpcodesAt(programs, InOrder(B))
    BY <1>2, <2>2, <2>3, <2>4, <2>6 DEF p, x
  <2>8. w.insns = SumOf(InsnsOf(programs), B)
    <3>1. (\A i \in B : InsnsOf(programs)[i] \in Nat) /\ InsnsOf(programs)[x] = p.insns
      BY <1>1, <2>3 DEF InsnsOf, x, p
    <3>2. SumOf(InsnsOf(programs), B) = InsnsOf(programs)[x] + SumOf(InsnsOf(programs), B \ {x})
      <4> HIDE DEF B
      <4> QED BY <2>3, <3>1, SumSplit
    <3>3. SumOf(InsnsOf(programs), B) = p.insns + c.insns
      BY <1>2, <2>3, <3>1, <3>2
    <3> QED BY <1>1, <1>3, <2>2, <3>3
  <2>9. w.jumps = SumOf(JumpsOf(programs), B)
    <3>1. (\A i \in B : JumpsOf(programs)[i] \in Nat) /\ JumpsOf(programs)[x] = p.jumps
      BY <1>1, <2>3 DEF JumpsOf, x, p
    <3>2. SumOf(JumpsOf(programs), B) = JumpsOf(programs)[x] + SumOf(JumpsOf(programs), B \ {x})
      <4> HIDE DEF B
      <4> QED BY <2>3, <3>1, SumSplit
    <3>3. SumOf(JumpsOf(programs), B) = p.jumps + c.jumps
      BY <1>2, <2>3, <3>1, <3>2
    <3> QED BY <1>1, <1>3, <2>2, <3>3
  <2>10. ProgramsAre(w, programs, x)
    <3> HIDE DEF B
    <3> QED BY <1>4, <2>1, <2>7, <2>8, <2>9 DEF ProgramsAre
  <2> QED BY <2>10 DEF w, x, p
<1> QED BY <1>1, <1>8, <1>9

LEMMA ComplexityIs ==
  ASSUME NEW programs \in Seq(Kinds)
  PROVE  ProgramsAre(Complexity(programs), programs, Len(programs))
<1> DEFINE m == Len(programs)
<1>1. DOMAIN programs = 1 .. m /\ m \in Nat /\ \A i \in 1 .. m : programs[i] \in Kinds
  BY ProgramIs
<1>2. PICK F : Runs(F, ProgramStates, ProgramOne, Programs0, programs, m) /\ F[m] = Complexity(programs)
  <2> HIDE DEF m
  <2> QED BY <1>1, ComplexityRuns
<1> DEFINE Good == {n \in Nat : n <= m => ProgramsAre(F[n], programs, n)}
<1> HIDE DEF m
<1>3. 0 \in Good
  BY <1>2, Programs0Are DEF Runs
<1>4. ASSUME NEW n \in Nat, n \in Good PROVE n + 1 \in Good
  <2> SUFFICES ASSUME n + 1 <= m PROVE ProgramsAre(F[n + 1], programs, n + 1)
    OBVIOUS
  <2>1. ProgramsAre(F[n], programs, n) /\ n + 1 \in 1 .. m /\ n \in 0 .. m /\ (n + 1) - 1 = n
    BY <1>1, <1>4
  <2>2. F[n + 1] = ProgramOne[<<F[n], programs[n + 1]>>] /\ F[n] \in ProgramStates
    <3>1. \A i \in 1 .. m : F[i] = ProgramOne[<<F[i - 1], programs[i]>>]
      BY <1>2 DEF Runs
    <3>2. F[n + 1] = ProgramOne[<<F[(n + 1) - 1], programs[n + 1]>>]
      BY <2>1, <3>1
    <3> QED BY <1>2, <2>1, <3>2 DEF Runs
  <2>3. F[n + 1] = FoldProgram(programs[n + 1], F[n])
    <3> DEFINE z == <<F[n], programs[n + 1]>>
    <3>1. z \in ProgramStates \X Kinds /\ z[1] = F[n] /\ z[2] = programs[n + 1]
      BY <1>1, <2>1, <2>2
    <3> HIDE DEF z
    <3>2. ProgramOne[z] = FoldProgram(z[2], z[1])
      BY <3>1 DEF ProgramOne
    <3> QED BY <2>2, <3>1, <3>2 DEF z
  <2>4. ProgramsAre(FoldProgram(programs[n + 1], F[n]), programs, n + 1)
    BY <1>1, <2>1, ProgramsStep
  <2> QED BY <2>3, <2>4
<1>5. m \in Good
  <2> HIDE DEF Good
  <2> QED BY <1>1, <1>3, <1>4, SetInduction
<1> QED BY <1>1, <1>2, <1>5 DEF m

(* What aggregate makes of the answers to the programs at positions D. *)
AnswersAt(programs, D) == [i \in DOMAIN programs |-> IF i \in D THEN Answer(programs[i]) ELSE NoResult]

LEMMA AnswersAre ==
  ASSUME NEW programs \in Seq(Kinds), NEW D \in SUBSET DOMAIN programs
  PROVE  /\ DOMAIN AnswersAt(programs, D) = DOMAIN programs
         /\ \A i \in DOMAIN programs : AnswersAt(programs, D)[i].n = (IF i \in D THEN programs[i].n ELSE 0)
         /\ \A i \in DOMAIN programs : AnswersAt(programs, D)[i].pcs = (IF i \in D THEN programs[i].pcs ELSE {})
         /\ {i \in DOMAIN programs : AnswersAt(programs, D)[i].verdict = "ACCEPTED"} = Accepting(programs, D)
<1>1. \A i \in DOMAIN programs : AnswersAt(programs, D)[i] = IF i \in D THEN Answer(programs[i]) ELSE NoResult
  BY DEF AnswersAt
<1>2. \A p : Answer(p).n = p.n /\ Answer(p).pcs = p.pcs /\ Answer(p).verdict = p.verdict
  BY DEF Answer
<1>3. NoResult.n = 0 /\ NoResult.pcs = {} /\ NoResult.verdict # "ACCEPTED"
  BY DEF NoResult
<1>4. DOMAIN AnswersAt(programs, D) = DOMAIN programs
  BY DEF AnswersAt
<1>5. \A i \in DOMAIN programs : AnswersAt(programs, D)[i].verdict = "ACCEPTED" <=> i \in Accepting(programs, D)
  <2> SUFFICES ASSUME NEW i \in DOMAIN programs
               PROVE  AnswersAt(programs, D)[i].verdict = "ACCEPTED" <=> i \in Accepting(programs, D)
    OBVIOUS
  <2>1. CASE i \in D
    BY <1>1, <1>2, <2>1 DEF Accepting
  <2>2. CASE i \notin D
    BY <1>1, <1>3, <2>2 DEF Accepting
  <2> QED BY <2>1, <2>2
<1>6. Accepting(programs, D) \in SUBSET DOMAIN programs
  BY DEF Accepting
<1> QED BY <1>1, <1>2, <1>3, <1>4, <1>5, <1>6

LengthSum(results, E) == Total(LAMBDA i : results[i].n, E)
Rest(n, f, T) == Total(LAMBDA pc : n - f[pc], T)
RestBy(n, D, results, T) == Total(LAMBDA pc : n - Quantify(D, LAMBDA i : pc \in results[i].pcs), T)
LongAs(results, programs, E) == \A i \in E : results[i].n = programs[i].n
CountsAt(f, n, T, D, results) ==
  \A x \in T : f[x] \in Nat /\ f[x] <= n /\ Cardinality({k \in D : x \in results[k].pcs}) = f[x]

\* The sums of the figures of the programs at some positions, and of their answers.
LEMMA TotalInsns ==
  ASSUME NEW programs \in Seq(Kinds), NEW E \in SUBSET DOMAIN programs
  PROVE  Total(LAMBDA i : programs[i].insns, E) = SumOf(InsnsOf(programs), E)
<1> DEFINE T == E
           g == InsnsOf(programs)
           Solves(h) == h = [s \in SUBSET T |-> IF s = {} THEN 0 ELSE programs[Some(s)].insns + h[s \ {Some(s)}]]
<1>1. IsFiniteSet(T)
  BY ProgramIs, FS_Subset
<1>2. \A i \in T : g[i] \in Nat /\ g[i] = programs[i].insns
  BY ProgramIs DEF InsnsOf
<1>3. \A s \in SUBSET T : s # {} => Some(s) \in T
  BY DEF Some
<1>4. Total(LAMBDA i : programs[i].insns, T) = (CHOOSE h : Solves(h))[T]
  BY DEF Total, MapThenSumSet, MapThenFoldSet, Some
<1>5. \A h : Solves(h) <=> Adds(h, g, T)
  <2> HIDE DEF g, T
  <2> QED BY <1>2, <1>3 DEF Adds
<1> DEFINE h0 == CHOOSE h : Solves(h)
<1>6. Adds(h0, g, T)
  <2>1. \E h : Adds(h, g, T)
    <3> HIDE DEF g, T
    <3> QED BY <1>1, <1>2, SumsAdd
  <2>2. \E h : Solves(h)
    BY <1>5, <2>1
  <2> HIDE DEF Solves
  <2>3. Solves(h0)
    BY <2>2
  <2> QED BY <1>5, <2>3
<1>7. h0[T] = SumOf(g, T)
  <2> HIDE DEF h0, g, T
  <2> QED BY <1>1, <1>2, <1>6, SumsAdd
<1> QED BY <1>4, <1>7

LEMMA TotalJumps ==
  ASSUME NEW programs \in Seq(Kinds), NEW E \in SUBSET DOMAIN programs
  PROVE  Total(LAMBDA i : programs[i].jumps, E) = SumOf(JumpsOf(programs), E)
<1> DEFINE T == E
           g == JumpsOf(programs)
           Solves(h) == h = [s \in SUBSET T |-> IF s = {} THEN 0 ELSE programs[Some(s)].jumps + h[s \ {Some(s)}]]
<1>1. IsFiniteSet(T)
  BY ProgramIs, FS_Subset
<1>2. \A i \in T : g[i] \in Nat /\ g[i] = programs[i].jumps
  BY ProgramIs DEF JumpsOf
<1>3. \A s \in SUBSET T : s # {} => Some(s) \in T
  BY DEF Some
<1>4. Total(LAMBDA i : programs[i].jumps, T) = (CHOOSE h : Solves(h))[T]
  BY DEF Total, MapThenSumSet, MapThenFoldSet, Some
<1>5. \A h : Solves(h) <=> Adds(h, g, T)
  <2> HIDE DEF g, T
  <2> QED BY <1>2, <1>3 DEF Adds
<1> DEFINE h0 == CHOOSE h : Solves(h)
<1>6. Adds(h0, g, T)
  <2>1. \E h : Adds(h, g, T)
    <3> HIDE DEF g, T
    <3> QED BY <1>1, <1>2, SumsAdd
  <2>2. \E h : Solves(h)
    BY <1>5, <2>1
  <2> HIDE DEF Solves
  <2>3. Solves(h0)
    BY <2>2
  <2> QED BY <1>5, <2>3
<1>7. h0[T] = SumOf(g, T)
  <2> HIDE DEF h0, g, T
  <2> QED BY <1>1, <1>2, <1>6, SumsAdd
<1> QED BY <1>4, <1>7

LEMMA TotalLengths ==
  ASSUME NEW programs \in Seq(Kinds), NEW E \in SUBSET DOMAIN programs, NEW results, LongAs(results, programs, E)
  PROVE  LengthSum(results, E) = SumOf(Lengths(programs), E)
<1> DEFINE T == E
           g == Lengths(programs)
           Solves(h) == h = [s \in SUBSET T |-> IF s = {} THEN 0 ELSE results[Some(s)].n + h[s \ {Some(s)}]]
<1>1. IsFiniteSet(T)
  BY ProgramIs, FS_Subset
<1>2. \A i \in T : g[i] \in Nat /\ g[i] = results[i].n
  BY ProgramIs DEF Lengths, LongAs
<1>3. \A s \in SUBSET T : s # {} => Some(s) \in T
  BY DEF Some
<1>4. LengthSum(results, T) = (CHOOSE h : Solves(h))[T]
  BY DEF LengthSum, Total, MapThenSumSet, MapThenFoldSet, Some
<1>5. \A h : Solves(h) <=> Adds(h, g, T)
  <2> HIDE DEF g, T
  <2> QED BY <1>2, <1>3 DEF Adds
<1> DEFINE h0 == CHOOSE h : Solves(h)
<1>6. Adds(h0, g, T)
  <2>1. \E h : Adds(h, g, T)
    <3> HIDE DEF g, T
    <3> QED BY <1>1, <1>2, SumsAdd
  <2>2. \E h : Solves(h)
    BY <1>5, <2>1
  <2> HIDE DEF Solves
  <2>3. Solves(h0)
    BY <2>2
  <2> QED BY <1>5, <2>3
<1>7. h0[T] = SumOf(g, T)
  <2> HIDE DEF h0, g, T
  <2> QED BY <1>1, <1>2, <1>6, SumsAdd
<1> QED BY <1>4, <1>7

\* The sum of what some counts leave of n.
LEMMA TotalRest ==
  ASSUME NEW T0, IsFiniteSet(T0), NEW n \in Nat, NEW f, \A x \in T0 : f[x] \in Nat /\ f[x] <= n
  PROVE  Rest(n, f, T0) = SumOf([x \in T0 |-> n - f[x]], T0)
<1> DEFINE T == T0
           g == [x \in T0 |-> n - f[x]]
           Solves(h) == h = [s \in SUBSET T |-> IF s = {} THEN 0 ELSE (n - f[Some(s)]) + h[s \ {Some(s)}]]
<1>1. IsFiniteSet(T)
  OBVIOUS
<1>2. \A i \in T : g[i] \in Nat /\ g[i] = (n - f[i])
  OBVIOUS
<1>3. \A s \in SUBSET T : s # {} => Some(s) \in T
  BY DEF Some
<1>4. Rest(n, f, T) = (CHOOSE h : Solves(h))[T]
  BY DEF Rest, Total, MapThenSumSet, MapThenFoldSet, Some
<1>5. \A h : Solves(h) <=> Adds(h, g, T)
  <2> HIDE DEF g, T
  <2> QED BY <1>2, <1>3 DEF Adds
<1> DEFINE h0 == CHOOSE h : Solves(h)
<1>6. Adds(h0, g, T)
  <2>1. \E h : Adds(h, g, T)
    <3> HIDE DEF g, T
    <3> QED BY <1>1, <1>2, SumsAdd
  <2>2. \E h : Solves(h)
    BY <1>5, <2>1
  <2> HIDE DEF Solves
  <2>3. Solves(h0)
    BY <2>2
  <2> QED BY <1>5, <2>3
<1>7. h0[T] = SumOf(g, T)
  <2> HIDE DEF h0, g, T
  <2> QED BY <1>1, <1>2, <1>6, SumsAdd
<1> QED BY <1>4, <1>7

LEMMA TotalCounted ==
  ASSUME NEW T0, IsFiniteSet(T0), NEW n \in Nat, NEW f, NEW D, NEW results, CountsAt(f, n, T0, D, results)
  PROVE  RestBy(n, D, results, T0) = SumOf([x \in T0 |-> n - f[x]], T0)
<1> DEFINE T == T0
           g == [x \in T0 |-> n - f[x]]
           Solves(h) == h = [s \in SUBSET T |-> IF s = {} THEN 0 ELSE (n - Cardinality({k \in D : Some(s) \in results[k].pcs})) + h[s \ {Some(s)}]]
<1>1. IsFiniteSet(T)
  OBVIOUS
<1>2. \A i \in T : g[i] \in Nat /\ g[i] = (n - Cardinality({k \in D : i \in results[k].pcs}))
  BY DEF CountsAt
<1>3. \A s \in SUBSET T : s # {} => Some(s) \in T
  BY DEF Some
<1>4. RestBy(n, D, results, T) = (CHOOSE h : Solves(h))[T]
  BY DEF RestBy, Total, MapThenSumSet, MapThenFoldSet, Some, Quantify
<1>5. \A h : Solves(h) <=> Adds(h, g, T)
  <2> HIDE DEF g, T
  <2> QED BY <1>2, <1>3 DEF Adds
<1> DEFINE h0 == CHOOSE h : Solves(h)
<1>6. Adds(h0, g, T)
  <2>1. \E h : Adds(h, g, T)
    <3> HIDE DEF g, T
    <3> QED BY <1>1, <1>2, SumsAdd
  <2>2. \E h : Solves(h)
    BY <1>5, <2>1
  <2> HIDE DEF Solves
  <2>3. Solves(h0)
    BY <2>2
  <2> QED BY <1>5, <2>3
<1>7. h0[T] = SumOf(g, T)
  <2> HIDE DEF h0, g, T
  <2> QED BY <1>1, <1>2, <1>6, SumsAdd
<1> QED BY <1>4, <1>7

(* The positions that have been answered, when the chunks have all gone by. *)
Answered(programs, failed) ==
  {Encoded(programs)[k] : k \in {k \in DOMAIN Encoded(programs) : ChunkOf(k) \notin failed}}

LEMMA ResultsAre ==
  ASSUME NEW programs \in Seq(Kinds), NEW failed
  PROVE  /\ Answered(programs, failed) \in SUBSET DOMAIN programs
         /\ ValidationsFromBatch(programs, failed) = AnswersAt(programs, Answered(programs, failed))
<1>1. Answered(programs, failed) \in SUBSET DOMAIN programs
  BY EncodedIs DEF Answered
<1>2. \A i \in DOMAIN programs : (\E k \in DOMAIN Encoded(programs) : Encoded(programs)[k] = i /\ ChunkOf(k) \notin failed)
                                    <=> i \in Answered(programs, failed)
  BY DEF Answered
<1>3. ValidationsFromBatch(programs, failed)
        = [i \in DOMAIN programs |->
             IF \E k \in DOMAIN Encoded(programs) : Encoded(programs)[k] = i /\ ChunkOf(k) \notin failed
             THEN Answer(programs[i]) ELSE NoResult]
  BY DEF ValidationsFromBatch
<1> QED BY <1>1, <1>2, <1>3 DEF AnswersAt

LEMMA AllDone ==
  ASSUME NEW programs \in Seq(Kinds), NEW c \in Nat, c >= 1, c > Chunks(programs), NEW failed
  PROVE  Done(programs, c, failed) = Answered(programs, failed)
<1> DEFINE n == Len(Encoded(programs))
<1>1. n \in Nat /\ DOMAIN Encoded(programs) = 1 .. n
  BY EncodedIs
<1>2. \A k \in 1 .. n : ChunkOf(k) < c
  <2> SUFFICES ASSUME NEW k \in 1 .. n PROVE ChunkOf(k) < c
    OBVIOUS
  <2>1. k \in Nat /\ k >= 1 /\ k <= n
    BY <1>1
  <2>2. ChunkOf(k) \in Nat /\ ChunkOf(k) >= 1
    BY <2>1, ChunkPlaces
  <2> DEFINE d == ChunkOf(k)
  <2>3. (d - 1) * ChunkSize < k
    <3> HIDE DEF n
    <3>1. d \in Nat /\ d >= 1
      BY <2>2
    <3>2. ChunkOf(k) = d <=> (d - 1) * ChunkSize < k /\ k <= (d - 1) * ChunkSize + ChunkSize
      <4> HIDE DEF d
      <4> QED BY <2>1, <3>1, ChunkPlaces
    <3> QED BY <3>2
  <2>4. (d - 1) * ChunkSize < n
    <3>1. ChunkSize \in Nat
      BY ChunkAssumption
    <3>2. (d - 1) * ChunkSize \in Int
      BY <2>2, <3>1
    <3> HIDE DEF n, d
    <3> QED BY <1>1, <2>1, <2>3, <3>2
  <2>5. d <= (n + ChunkSize - 1) \div ChunkSize /\ (n + ChunkSize - 1) \div ChunkSize \in Nat
    <3>1. d \in Nat /\ d >= 1
      BY <2>2
    <3> HIDE DEF n, d
    <3> QED BY <1>1, <2>4, <3>1, ChunkCount
  <2>6. Chunks(programs) = (n + ChunkSize - 1) \div ChunkSize
    BY DEF Chunks
  <2> DEFINE q == (n + ChunkSize - 1) \div ChunkSize
  <2>7. d <= q /\ q \in Nat /\ c > q /\ d \in Nat
    BY <2>2, <2>5, <2>6
  <2> HIDE DEF d, q
  <2>8. d < c
    BY <2>7
  <2> QED BY <2>8 DEF d
<1>3. {k \in 1 .. n : ChunkOf(k) < c /\ ChunkOf(k) \notin failed} = {k \in 1 .. n : ChunkOf(k) \notin failed}
  BY <1>2
<1> HIDE DEF n
<1> QED BY <1>1, <1>3 DEF Done, Answered

\* The figures of aggregate, one by one.
Figures(v, programs, results) ==
  /\ UNION {results[i].pcs : i \in DOMAIN programs} = v.union
  /\ IsFiniteSet(v.union)
  /\ CountsAt(v.freq, Len(programs), v.union, DOMAIN programs, results)
  /\ Len(programs) # 0 => Max({results[i].n : i \in DOMAIN programs}) = v.max
  /\ Len(programs) = 0 => v.max = 0

LEMMA FiguresAre ==
  ASSUME NEW programs \in Seq(Kinds), NEW D \in SUBSET DOMAIN programs, NEW v, FoldIs(v, programs, D)
  PROVE  Figures(v, programs, AnswersAt(programs, D))
<1> DEFINE results == AnswersAt(programs, D)
           Longs == {results[i].n : i \in DOMAIN programs}
<1>1. /\ v \in FoldStates /\ v.union = Traces(programs, D)
      /\ DOMAIN v.freq = v.union /\ (\A pc \in v.union : v.freq[pc] = Cardinality(Holding(programs, D, pc)))
      /\ (\A j \in D : programs[j].n <= v.max)
      /\ (v.max = 0 \/ \E j \in D : programs[j].n = v.max)
  <2> HIDE DEF results
  <2> QED BY DEF FoldIs
<1>2. v.max \in Nat
  BY <1>1, FoldFields
<1>3. /\ DOMAIN programs = 1 .. Len(programs) /\ Len(programs) \in Nat /\ IsFiniteSet(DOMAIN programs)
      /\ \A i \in DOMAIN programs : programs[i].n \in Nat /\ IsFiniteSet(programs[i].pcs)
  BY ProgramIs
<1>4. /\ \A i \in DOMAIN programs : results[i].n = (IF i \in D THEN programs[i].n ELSE 0)
      /\ \A i \in DOMAIN programs : results[i].pcs = (IF i \in D THEN programs[i].pcs ELSE {})
  BY AnswersAre
<1> HIDE DEF results
<1>5. UNION {results[i].pcs : i \in DOMAIN programs} = v.union
  <2>1. \A x : (\E i \in DOMAIN programs : x \in results[i].pcs) <=> (\E i \in D : x \in programs[i].pcs)
    BY <1>4
  <2> DEFINE A == UNION {results[i].pcs : i \in DOMAIN programs}
             B == UNION {programs[i].pcs : i \in D}
  <2>2. \A x : x \in A <=> \E i \in DOMAIN programs : x \in results[i].pcs
    OBVIOUS
  <2>3. \A x : x \in B <=> \E i \in D : x \in programs[i].pcs
    OBVIOUS
  <2>4. \A x : x \in A <=> x \in B
    <3> HIDE DEF A, B
    <3> QED BY <2>1, <2>2, <2>3
  <2>5. A = B
    <3> HIDE DEF A, B
    <3> QED BY <2>4
  <2> QED BY <1>1, <2>5 DEF Traces
<1>6. IsFiniteSet(v.union)
  <2>1. IsFiniteSet(D)
    BY <1>3, FS_Subset
  <2> DEFINE h == [i \in D |-> programs[i].pcs]
  <2>2. IsFiniteSet({programs[i].pcs : i \in D})
    <3>1. IsFiniteSet({h[i] : i \in D})
      <4> HIDE DEF h
      <4> QED BY <2>1, ValuesFinite
    <3>2. {h[i] : i \in D} = {programs[i].pcs : i \in D}
      OBVIOUS
    <3> QED BY <3>1, <3>2
  <2>3. \A S \in {programs[i].pcs : i \in D} : IsFiniteSet(S)
    BY <1>3
  <2>4. IsFiniteSet(UNION {programs[i].pcs : i \in D})
    BY <2>2, <2>3, FS_UNION
  <2> QED BY <1>1, <2>4 DEF Traces
<1>7. ASSUME NEW pc \in v.union
      PROVE  /\ v.freq[pc] \in Nat /\ v.freq[pc] <= Len(programs)
             /\ Cardinality({k \in DOMAIN programs : pc \in results[k].pcs}) = v.freq[pc]
  <2>1. {k \in DOMAIN programs : pc \in results[k].pcs} = Holding(programs, D, pc)
    BY <1>4 DEF Holding
  <2>2. Holding(programs, D, pc) \in SUBSET DOMAIN programs
    BY DEF Holding
  <2>3. Cardinality(DOMAIN programs) = Len(programs)
    BY <1>3, FS_Interval
  <2>4. Cardinality(Holding(programs, D, pc)) \in Nat /\ Cardinality(Holding(programs, D, pc)) <= Cardinality(DOMAIN programs)
    BY <1>3, <2>2, FS_Subset, FS_CardinalityType
  <2> QED BY <1>1, <2>1, <2>3, <2>4
<1>8. ASSUME Len(programs) # 0 PROVE Max(Longs) = v.max
  <2>1. 1 \in DOMAIN programs
    BY <1>3, <1>8
  <2>2. Longs # {}
    BY <2>1
  <2>3. IsFiniteSet(Longs)
    <3> DEFINE h == [i \in DOMAIN programs |-> results[i].n]
    <3>1. IsFiniteSet({h[i] : i \in DOMAIN programs})
      <4> HIDE DEF h
      <4> QED BY <1>3, ValuesFinite
    <3>2. {h[i] : i \in DOMAIN programs} = Longs
      OBVIOUS
    <3> QED BY <3>1, <3>2
  <2>4. Longs \in SUBSET Nat
    BY <1>3, <1>4
  <2>5. \A i \in DOMAIN programs : results[i].n <= v.max
    BY <1>1, <1>2, <1>4
  <2>6. \A y \in Longs : y <= v.max
    BY <2>5
  <2> DEFINE top == Max(Longs)
  <2>7. top \in Longs /\ \A y \in Longs : y <= top
    <3> HIDE DEF Longs
    <3> QED BY <2>2, <2>3, <2>4, MaxIs
  <2> HIDE DEF top
  <2>8. v.max = 0 \/ v.max \in Longs
    <3>1. ASSUME NEW j \in D, programs[j].n = v.max PROVE v.max \in Longs
      <4>1. j \in DOMAIN programs /\ results[j].n = v.max
        BY <1>4, <3>1
      <4> QED BY <4>1
    <3> HIDE DEF Longs
    <3> QED BY <1>1, <3>1
  <2> HIDE DEF Longs
  <2>9. top = v.max
    BY <1>2, <2>4, <2>6, <2>7, <2>8
  <2> QED BY <2>9 DEF top
<1>9. ASSUME Len(programs) = 0 PROVE v.max = 0
  BY <1>1, <1>3, <1>9
<1>10. CountsAt(v.freq, Len(programs), v.union, DOMAIN programs, results)
  BY <1>7 DEF CountsAt
<1>11. Figures(v, programs, results)
  BY <1>5, <1>6, <1>8, <1>9, <1>10 DEF Figures
<1> QED BY <1>11 DEF results

\* The report is what aggregate makes of the same answers.
Kpi(n, accepted, encoded, sum, max, unique, novelty, insns, jumps, diversities) ==
  [pass_rate |-> <<accepted, n>>, encode_rate |-> <<encoded, n>>, avg_pcs |-> <<sum, accepted>>, max_pcs |-> max,
   total_unique |-> unique, novelty |-> <<novelty, n * unique>>, avg_insns |-> <<insns, encoded>>,
   avg_jumps |-> <<jumps, encoded>>, diversities |-> diversities]

LEMMA StreamedIs ==
  ASSUME NEW n, NEW c, NEW v
  PROVE  StreamedKpis(n, c, v)
           = Kpi(n, v.accepted, c.n, v.sum, v.max, Cardinality(v.union), Rest(n, v.freq, v.union),
                 c.insns, c.jumps, c.div)
BY DEF StreamedKpis, Kpi, Rest

LEMMA AggregateIs ==
  ASSUME NEW programs, NEW results
  PROVE  LET n == Len(programs)
             accepted == {i \in DOMAIN programs : results[i].verdict = "ACCEPTED"}
             encoded  == {i \in DOMAIN programs : programs[i].encoded}
             union    == UNION {results[i].pcs : i \in DOMAIN programs}
         IN  Aggregate(programs, results)
               = Kpi(n, Cardinality(accepted), Cardinality(encoded), LengthSum(results, accepted),
                     IF n = 0 THEN 0 ELSE Max({results[i].n : i \in DOMAIN programs}), Cardinality(union),
                     RestBy(n, DOMAIN programs, results, union),
                     Total(LAMBDA i : programs[i].insns, encoded), Total(LAMBDA i : programs[i].jumps, encoded),
                     Diversities(programs))
BY DEF Aggregate, Kpi, LengthSum, RestBy

LEMMA DiversitiesAre ==
  ASSUME NEW programs \in Seq(Kinds)
  PROVE  Diversities(programs) = OpcodesAt(programs, InOrder(EncodedTo(programs, Len(programs))))
<1> DEFINE E == EncodedTo(programs, Len(programs))
           f == InOrder(E)
<1>1. DOMAIN programs = 1 .. Len(programs) /\ Len(programs) \in Nat
  BY ProgramIs
<1>2. {i \in DOMAIN programs : programs[i].encoded} = E
  BY <1>1 DEF EncodedTo
<1>3. E \cap DOMAIN programs = E
  BY DEF EncodedTo
<1> DEFINE enc == ItemsAt(programs, E)
<1> HIDE DEF E
<1>4. enc = [k \in DOMAIN f |-> programs[f[k]]]
  BY <1>3 DEF ItemsAt
<1>5. Diversities(programs) = [k \in DOMAIN enc |-> <<enc[k].distinct, enc[k].insns>>]
  BY <1>2 DEF Diversities
<1> HIDE DEF enc, f
<1>6. Diversities(programs) = [k \in DOMAIN f |-> <<programs[f[k]].distinct, programs[f[k]].insns>>]
  BY <1>4, <1>5
<1> QED BY <1>6 DEF OpcodesAt, Opcodes, f, E

LEMMA ReportIs ==
  ASSUME NEW programs \in Seq(Kinds), NEW failed, NEW v, FoldIs(v, programs, Answered(programs, failed))
  PROVE  LET results == ValidationsFromBatch(programs, failed)
         IN  /\ StreamedKpis(Len(programs), Complexity(programs), v) = Aggregate(programs, results)
             /\ v.accepted = StreamedKpis(Len(programs), Complexity(programs), v).pass_rate[1]
             /\ Cardinality(v.valid)
                  = Cardinality(UNION {results[i].pcs : i \in {i \in DOMAIN results : results[i].verdict = "ACCEPTED"}})
<1> DEFINE D == Answered(programs, failed)
           results == ValidationsFromBatch(programs, failed)
           n == Len(programs)
           c == Complexity(programs)
           accepted == {i \in DOMAIN programs : results[i].verdict = "ACCEPTED"}
           encoded  == {i \in DOMAIN programs : programs[i].encoded}
           union    == UNION {results[i].pcs : i \in DOMAIN programs}
<1>1. D \in SUBSET DOMAIN programs /\ results = AnswersAt(programs, D)
  BY ResultsAre
<1>2. FoldIs(v, programs, D)
  OBVIOUS
<1>3. ProgramsAre(c, programs, n)
  BY ComplexityIs
<1>4. DOMAIN programs = 1 .. n /\ n \in Nat /\ IsFiniteSet(DOMAIN programs)
  BY ProgramIs
<1>5. encoded = EncodedTo(programs, n)
  BY <1>4 DEF EncodedTo
<1> HIDE DEF D, results, c
<1>6. /\ DOMAIN results = DOMAIN programs
      /\ \A i \in DOMAIN programs : results[i].n = (IF i \in D THEN programs[i].n ELSE 0)
      /\ \A i \in DOMAIN programs : results[i].pcs = (IF i \in D THEN programs[i].pcs ELSE {})
      /\ accepted = Accepting(programs, D)
  <2> HIDE DEF accepted, n
  <2> QED BY <1>1, AnswersAre DEF accepted
<1>7. /\ union = v.union /\ IsFiniteSet(v.union)
      /\ CountsAt(v.freq, n, v.union, DOMAIN programs, results)
      /\ n # 0 => Max({results[i].n : i \in DOMAIN programs}) = v.max
      /\ n = 0 => v.max = 0
  <2>1. Figures(v, programs, results)
    BY <1>1, <1>2, FiguresAre
  <2> QED BY <2>1 DEF Figures
<1>8. v.accepted = Cardinality(Accepting(programs, D)) /\ v.sum = SumOf(Lengths(programs), Accepting(programs, D))
      /\ v.valid = Traces(programs, Accepting(programs, D))
  BY <1>2 DEF FoldIs
<1>9. c.n = Cardinality(encoded) /\ c.insns = SumOf(InsnsOf(programs), encoded)
      /\ c.jumps = SumOf(JumpsOf(programs), encoded) /\ c.div = OpcodesAt(programs, InOrder(encoded))
  BY <1>3, <1>5 DEF ProgramsAre
<1>10. accepted \in SUBSET DOMAIN programs /\ encoded \in SUBSET DOMAIN programs /\ accepted \in SUBSET D
  BY <1>6 DEF Accepting
<1>11. Diversities(programs) = c.div
  BY <1>5, <1>9, DiversitiesAre
<1> DEFINE sum == LengthSum(results, accepted)
           rest == RestBy(n, DOMAIN programs, results, union)
           left == Rest(n, v.freq, v.union)
           insns == Total(LAMBDA i : programs[i].insns, encoded)
           jumps == Total(LAMBDA i : programs[i].jumps, encoded)
           max == IF n = 0 THEN 0 ELSE Max({results[i].n : i \in DOMAIN programs})
<1> HIDE DEF accepted, encoded, union, n
<1>12. insns = c.insns
  BY <1>9, <1>10, TotalInsns
<1>13. jumps = c.jumps
  BY <1>9, <1>10, TotalJumps
<1>14. sum = v.sum
  <2>1. LongAs(results, programs, accepted)
    BY <1>6, <1>10 DEF LongAs
  <2>2. sum = SumOf(Lengths(programs), accepted)
    BY <1>10, <2>1, TotalLengths
  <2> QED BY <1>6, <1>8, <2>2
<1>15. left = SumOf([x \in v.union |-> n - v.freq[x]], v.union)
  <2>1. \A x \in v.union : v.freq[x] \in Nat /\ v.freq[x] <= n
    BY <1>7 DEF CountsAt
  <2> QED BY <1>4, <1>7, <2>1, TotalRest DEF n
<1>16. rest = SumOf([x \in v.union |-> n - v.freq[x]], v.union)
  BY <1>4, <1>7, TotalCounted DEF n
<1>17. max = v.max
  BY <1>7
<1>18. Aggregate(programs, results)
         = Kpi(n, Cardinality(accepted), Cardinality(encoded), sum, max, Cardinality(union), rest, insns, jumps, Diversities(programs))
  BY AggregateIs DEF n, accepted, encoded, union
<1>19. StreamedKpis(n, c, v)
         = Kpi(n, v.accepted, c.n, v.sum, v.max, Cardinality(v.union), left, c.insns, c.jumps, c.div)
  BY StreamedIs
<1> HIDE DEF sum, rest, left, insns, jumps, max
<1>20. StreamedKpis(n, c, v) = Aggregate(programs, results)
  BY <1>6, <1>7, <1>8, <1>9, <1>11, <1>12, <1>13, <1>14, <1>15, <1>16, <1>17, <1>18, <1>19
<1>21. v.accepted = StreamedKpis(n, c, v).pass_rate[1]
  BY DEF StreamedKpis
<1>22. UNION {results[i].pcs : i \in {i \in DOMAIN results : results[i].verdict = "ACCEPTED"}} = v.valid
  <2>1. {i \in DOMAIN results : results[i].verdict = "ACCEPTED"} = accepted
    BY <1>6 DEF accepted
  <2>2. \A i \in accepted : results[i].pcs = programs[i].pcs
    BY <1>6, <1>10
  <2>3. UNION {results[i].pcs : i \in accepted} = Traces(programs, accepted)
    BY <2>2 DEF Traces
  <2> QED BY <1>6, <1>8, <2>1, <2>3
<1> QED BY <1>20, <1>21, <1>22 DEF n, c, results

LEMMA DsPart == OfflineInit => DsInit
  BY DEF OfflineInit
LEMMA DsPartStep == [OfflineNext]_offlineVars => [DsNextStep]_dsVars
  BY DEF OfflineNext, offlineVars, Ladder, Assembler, LogLine, Tools, Data, Sampling, Bench, Grpo, Models

Candidates == [exists : BOOLEAN, meta : BOOLEAN, programs : Seq(Kinds), torn : BOOLEAN]
DsFiles == dsTexts \in Seq(Kinds) /\ dsFile \in Candidates /\ dsHub \in Candidates /\ dsFrom \in Candidates
Writing == dsPc = "writing" => Len(dsTexts) = NPrograms
Folding ==
  dsPc = "folding" =>
    /\ dsNext \in Nat /\ dsNext >= 1 /\ dsFailed \in SUBSET (1 .. dsNext - 1)
    /\ FoldIs(dsFold, dsFrom.programs, Done(dsFrom.programs, dsNext, dsFailed))
DsInv == DsFiles /\ Writing /\ Folding /\ StreamingMatches

LEMMA NothingIs == Nothing \in Candidates /\ Empty \in Candidates
<1>1. <<>> \in Seq(Kinds)
  OBVIOUS
<1> DEFINE e == <<>>
<1>2. e \in Seq(Kinds)
  BY <1>1
<1> HIDE DEF e
<1>3. \A b \in BOOLEAN : [exists |-> b, meta |-> FALSE, programs |-> e, torn |-> FALSE] \in Candidates
  BY <1>2 DEF Candidates
<1>4. Nothing \in Candidates
  BY <1>3 DEF Nothing, e
<1>5. \A f \in Candidates : [f EXCEPT !.exists = TRUE] \in Candidates
  BY DEF Candidates
<1> QED BY <1>4, <1>5 DEF Empty

LEMMA DsInitial == DsInit => DsInv
<1> SUFFICES ASSUME DsInit PROVE DsInv
  OBVIOUS
<1>1. DsFiles
  BY NothingIs DEF DsInit, DsFiles
<1>2. Writing /\ Folding /\ StreamingMatches
  BY DEF DsInit, Writing, Folding, StreamingMatches
<1> QED BY <1>1, <1>2 DEF DsInv

\* A report that nothing touches stays right.
LEMMA ReportKept == StreamingMatches /\ UNCHANGED dsReport => StreamingMatches'
BY DEF StreamingMatches

LEMMA CandidateFields ==
  ASSUME NEW f \in Candidates
  PROVE  f.programs \in Seq(Kinds) /\ [f EXCEPT !.torn = TRUE] \in Candidates /\ [f EXCEPT !.meta = TRUE] \in Candidates
         /\ \A p \in Kinds : [f EXCEPT !.programs = Append(@, p)] \in Candidates
<1>1. f.programs \in Seq(Kinds) /\ [f EXCEPT !.torn = TRUE] \in Candidates /\ [f EXCEPT !.meta = TRUE] \in Candidates
  BY DEF Candidates
<1>2. ASSUME NEW p \in Kinds PROVE [f EXCEPT !.programs = Append(@, p)] \in Candidates
  <2> DEFINE a == Append(f.programs, p)
  <2>1. a \in Seq(Kinds)
    BY <1>1
  <2> HIDE DEF a
  <2>2. [f EXCEPT !.programs = a] \in Candidates
    BY <2>1 DEF Candidates
  <2> QED BY <2>2 DEF a
<1> QED BY <1>1, <1>2

LEMMA DsSteps == DsInv /\ [DsNextStep]_dsVars => DsInv'
<1> SUFFICES ASSUME DsInv, [DsNextStep]_dsVars PROVE DsInv'
  OBVIOUS
<1>0. DsFiles /\ Writing /\ Folding /\ StreamingMatches
  BY DEF DsInv
<1>1. CASE DsGenerate
  <2>1. DsFiles'
    BY <1>0, <1>1 DEF DsGenerate, DsFiles
  <2>2. Writing' /\ Folding'
    BY <1>1 DEF DsGenerate, Writing, Folding
  <2>3. StreamingMatches'
    BY <1>0, <1>1, ReportKept DEF DsGenerate
  <2> QED BY <2>1, <2>2, <2>3 DEF DsInv
<1>2. CASE DsBatch
  <2>0. dsPc = "generating" /\ UNCHANGED <<dsPc, dsFile, dsHub, dsFrom, dsReport>>
    BY <1>2 DEF DsBatch
  <2>1. dsTexts' \in Seq(Kinds)
    <3>1. PICK rows \in [1 .. Lesser(BatchSize, NPrograms - Len(dsTexts)) -> Kinds] : dsTexts' = dsTexts \o rows
      BY <1>2 DEF DsBatch
    <3>2. dsTexts \in Seq(Kinds) /\ Len(dsTexts) \in Nat
      BY <1>0 DEF DsFiles
    <3>3. Len(dsTexts) < NPrograms
      BY <1>2 DEF DsBatch
    <3>4. Lesser(BatchSize, NPrograms - Len(dsTexts)) \in Nat
      BY <3>2, <3>3, SizesAssumption DEF Lesser
    <3>5. rows \in Seq(Kinds)
      BY <3>4
    <3> QED BY <3>1, <3>2, <3>5
  <2>2. DsFiles'
    BY <1>0, <2>0, <2>1 DEF DsFiles
  <2>3. Writing' /\ Folding'
    BY <2>0 DEF Writing, Folding
  <2>4. StreamingMatches'
    BY <1>0, <2>0, ReportKept
  <2> QED BY <2>2, <2>3, <2>4 DEF DsInv
<1>3. CASE DsOpen
  <2>1. DsFiles'
    BY <1>0, <1>3, NothingIs DEF DsOpen, DsFiles
  <2>2. Writing' /\ Folding'
    BY <1>3 DEF DsOpen, Writing, Folding
  <2>3. StreamingMatches'
    BY <1>0, <1>3, ReportKept DEF DsOpen
  <2> QED BY <2>1, <2>2, <2>3 DEF DsInv
<1>4. CASE DsWrite
  <2>0. dsPc = "writing" /\ UNCHANGED <<dsPc, dsTexts, dsHub, dsFrom, dsReport>>
    BY <1>4 DEF DsWrite
  <2>1. dsFile' \in Candidates
    <3>1. dsFile \in Candidates /\ dsTexts \in Seq(Kinds)
      BY <1>0 DEF DsFiles
    <3>2. CASE dsFile.meta
      <4>1. Len(dsFile.programs) < Len(dsTexts)
        BY <1>0, <1>4, <2>0 DEF DsWrite, Writing
      <4> DEFINE p == dsTexts[Len(dsFile.programs) + 1]
      <4>2. p \in Kinds
        BY <3>1, <4>1, CandidateFields
      <4>3. dsFile' = [dsFile EXCEPT !.programs = Append(@, p)]
        BY <1>4, <3>2 DEF DsWrite
      <4> HIDE DEF p
      <4> QED BY <3>1, <4>2, <4>3, CandidateFields
    <3>3. CASE ~dsFile.meta
      <4>1. dsFile' = [dsFile EXCEPT !.meta = TRUE]
        BY <1>4, <3>3 DEF DsWrite
      <4> QED BY <3>1, <4>1, CandidateFields
    <3> QED BY <3>2, <3>3
  <2>2. DsFiles'
    BY <1>0, <2>0, <2>1 DEF DsFiles
  <2>3. Writing' /\ Folding'
    BY <1>0, <2>0 DEF Writing, Folding
  <2>4. StreamingMatches'
    BY <1>0, <2>0, ReportKept
  <2> QED BY <2>2, <2>3, <2>4 DEF DsInv
<1>5. CASE DsWritten
  <2>1. DsFiles'
    BY <1>0, <1>5 DEF DsWritten, DsFiles
  <2>2. Writing' /\ Folding'
    BY <1>5 DEF DsWritten, Writing, Folding
  <2>3. StreamingMatches'
    BY <1>0, <1>5, ReportKept DEF DsWritten
  <2> QED BY <2>1, <2>2, <2>3 DEF DsInv
<1>6. ASSUME NEW file \in {dsFile, dsHub}, NEW command \in {"folding", "measuring"}, DsRead(file, command)
      PROVE  DsInv'
  <2>1. file \in Candidates
    BY <1>0 DEF DsFiles
  <2>2. DsFiles'
    BY <1>0, <1>6, <2>1 DEF DsRead, DsFiles
  <2>3. Writing'
    BY <1>6 DEF DsRead, Writing
  <2>4. Folding'
    <3> SUFFICES ASSUME dsPc' = "folding"
                 PROVE  /\ dsNext' \in Nat /\ dsNext' >= 1 /\ dsFailed' \in SUBSET (1 .. dsNext' - 1)
                        /\ FoldIs(dsFold', dsFrom'.programs, Done(dsFrom'.programs, dsNext', dsFailed'))
      BY DEF Folding
    <3>1. dsFrom' \in Candidates /\ dsNext' = 1 /\ dsFailed' = {} /\ dsFold' = Fold0
      BY <1>6, <2>2 DEF DsRead, DsFiles
    <3>2. dsFrom'.programs \in Seq(Kinds)
      BY <3>1, CandidateFields
    <3>3. Done(dsFrom'.programs, 1, {}) = {}
      BY <3>2, NothingDone
    <3>4. FoldIs(Fold0, dsFrom'.programs, {})
      BY FoldIs0
    <3> QED BY <3>1, <3>3, <3>4
  <2>5. StreamingMatches'
    BY <1>0, <1>6, ReportKept DEF DsRead
  <2> QED BY <2>2, <2>3, <2>4, <2>5 DEF DsInv
<1>7. ASSUME NEW answered \in BOOLEAN, DsChunk(answered) PROVE DsInv'
  <2>1. DsFiles'
    BY <1>0, <1>7 DEF DsChunk, DsFiles
  <2>2. Writing'
    BY <1>0, <1>7 DEF DsChunk, Writing
  <2>3. StreamingMatches'
    BY <1>0, <1>7, ReportKept DEF DsChunk
  <2>4. Folding'
    <3> DEFINE programs == dsFrom.programs
    <3> SUFFICES ASSUME dsPc' = "folding"
                 PROVE  /\ dsNext' \in Nat /\ dsNext' >= 1 /\ dsFailed' \in SUBSET (1 .. dsNext' - 1)
                        /\ FoldIs(dsFold', dsFrom'.programs, Done(dsFrom'.programs, dsNext', dsFailed'))
      BY DEF Folding
    <3>1. dsPc = "folding" /\ dsFrom' = dsFrom /\ dsNext' = dsNext + 1 /\ dsNext <= Chunks(programs)
          /\ dsFailed' = (IF answered THEN dsFailed ELSE dsFailed \cup {dsNext})
          /\ dsFold' = (IF answered /\ dsPc = "folding" THEN FoldChunk(ChunkResults(programs, dsNext), dsFold) ELSE dsFold)
      BY <1>7 DEF DsChunk
    <3>2. programs \in Seq(Kinds)
      BY <1>0, CandidateFields DEF DsFiles
    <3>3. /\ dsNext \in Nat /\ dsNext >= 1 /\ dsFailed \in SUBSET (1 .. dsNext - 1)
          /\ FoldIs(dsFold, programs, Done(programs, dsNext, dsFailed))
      BY <1>0, <3>1 DEF Folding
    <3> HIDE DEF programs
    <3>4. dsNext' \in Nat /\ dsNext' >= 1 /\ dsFailed' \in SUBSET (1 .. dsNext' - 1)
      BY <3>1, <3>3
    <3>5. FoldIs(dsFold', programs, Done(programs, dsNext + 1, dsFailed'))
      <4>1. CASE answered
        BY <3>1, <3>2, <3>3, <4>1, ChunkFolded
      <4>2. CASE ~answered
        <5>1. Done(programs, dsNext + 1, dsFailed \cup {dsNext}) = Done(programs, dsNext, dsFailed)
          BY <3>2, <3>3, ChunkLost
        <5> QED BY <3>1, <3>3, <4>2, <5>1
      <4> QED BY <4>1, <4>2
    <3> QED BY <3>1, <3>4, <3>5 DEF programs
  <2> QED BY <2>1, <2>2, <2>3, <2>4 DEF DsInv
<1>8. CASE DsReport
  <2>1. DsFiles'
    BY <1>0, <1>8 DEF DsReport, DsFiles
  <2>2. Writing' /\ Folding'
    BY <1>8 DEF DsReport, Writing, Folding
  <2>3. StreamingMatches'
    <3> DEFINE programs == dsFrom.programs
               c == Complexity(programs)
               results == ValidationsFromBatch(programs, dsFailed)
               kpis == StreamedKpis(Len(programs), c, dsFold)
               valid == ValidOnly(dsFold)
    <3>1. dsPc = "folding" /\ dsNext > Chunks(programs)
          /\ dsReport' = [from |-> dsFrom, failed |-> dsFailed, kpis |-> kpis, valid |-> valid]
      BY <1>8 DEF DsReport
    <3>2. programs \in Seq(Kinds)
      BY <1>0, CandidateFields DEF DsFiles
    <3>3. dsNext \in Nat /\ dsNext >= 1 /\ FoldIs(dsFold, programs, Done(programs, dsNext, dsFailed))
      BY <1>0, <3>1 DEF Folding
    <3>4. Done(programs, dsNext, dsFailed) = Answered(programs, dsFailed)
      <4> HIDE DEF programs
      <4> QED BY <3>1, <3>2, <3>3, AllDone
    <3>5. /\ kpis = Aggregate(programs, results) /\ dsFold.accepted = kpis.pass_rate[1]
          /\ Cardinality(dsFold.valid)
               = Cardinality(UNION {results[i].pcs : i \in {i \in DOMAIN results : results[i].verdict = "ACCEPTED"}})
      <4>1. FoldIs(dsFold, programs, Answered(programs, dsFailed))
        BY <3>3, <3>4
      <4> HIDE DEF programs
      <4> QED BY <3>2, <4>1, ReportIs
    <3>6. valid.n_accepted = dsFold.accepted /\ valid.unique = Cardinality(dsFold.valid)
      BY DEF ValidOnly
    <3>7. dsReport'.from = dsFrom /\ dsReport'.failed = dsFailed /\ dsReport'.kpis = kpis /\ dsReport'.valid = valid
      <4> HIDE DEF kpis, valid
      <4> QED BY <3>1
    <3>8. dsReport'.from.programs = programs
      BY <3>7
    <3>9. ValidationsFromBatch(dsReport'.from.programs, dsReport'.failed) = results
      BY <3>7
    <3> HIDE DEF kpis, valid, results, programs, c
    <3> QED BY <3>5, <3>6, <3>7, <3>8, <3>9 DEF StreamingMatches
  <2> QED BY <2>1, <2>2, <2>3 DEF DsInv
<1>9. CASE DsReplicate
  <2>1. DsFiles'
    BY <1>0, <1>9 DEF DsReplicate, DsFiles
  <2>2. Writing' /\ Folding'
    BY <1>9 DEF DsReplicate, Writing, Folding
  <2>3. StreamingMatches'
    BY <1>0, <1>9, ReportKept DEF DsReplicate
  <2> QED BY <2>1, <2>2, <2>3 DEF DsInv
<1>10. CASE DsSave
  <2>1. DsFiles'
    BY <1>0, <1>10 DEF DsSave, DsFiles
  <2>2. Writing' /\ Folding'
    BY <1>10 DEF DsSave, Writing, Folding
  <2>3. StreamingMatches'
    BY <1>0, <1>10, ReportKept DEF DsSave
  <2> QED BY <2>1, <2>2, <2>3 DEF DsInv
<1>11. CASE DsCrash
  <2>1. dsFile' \in Candidates
    BY <1>0, <1>11, CandidateFields DEF DsCrash, DsFiles
  <2>2. DsFiles'
    BY <1>0, <1>11, <2>1 DEF DsCrash, DsFiles
  <2>3. Writing' /\ Folding'
    BY <1>11 DEF DsCrash, Writing, Folding
  <2>4. StreamingMatches'
    BY <1>0, <1>11, ReportKept DEF DsCrash
  <2> QED BY <2>2, <2>3, <2>4 DEF DsInv
<1>12. CASE UNCHANGED dsVars
  <2>1. DsFiles' /\ Writing' /\ Folding'
    BY <1>0, <1>12 DEF dsVars, DsFiles, Writing, Folding
  <2>2. StreamingMatches'
    BY <1>0, <1>12, ReportKept DEF dsVars
  <2> QED BY <2>1, <2>2 DEF DsInv
<1> QED BY <1>1, <1>2, <1>3, <1>4, <1>5, <1>6, <1>7, <1>8, <1>9, <1>10, <1>11, <1>12 DEF DsNextStep, DsStep

(* Whatever chunks the VM leaves without an answer, the report that        *)
(* aggregate_streaming makes of its two folds is what aggregate makes of   *)
(* the list of all results, field by field, and the unique addresses of    *)
(* the accepted programs are those of their union                          *)
(* (tools/diversity_sample.py:153).                                        *)
THEOREM StreamingMatchesHolds == OfflineSpec => []StreamingMatches
<1>1. DsInv => StreamingMatches
  BY DEF DsInv
<1> QED BY <1>1, DsPart, DsPartStep, DsInitial, DsSteps, PTL DEF OfflineSpec

-----------------------------------------------------------------------------
\* FlattenSeq runs through its sequences.
Cat(T) == [z \in Seq(T) \X Seq(T) |-> z[1] \o z[2]]

LEMMA CatIs == \A T : Cat(T) \in [Seq(T) \X Seq(T) -> Seq(T)]
BY ConcatProperties DEF Cat

LEMMA CatsFolded ==
  ASSUME NEW T, NEW n \in Nat, NEW seqs, \A i \in 1 .. n : seqs[i] \in Seq(T)
  PROVE  Folded(Seq(T), Cat(T), <<>>, seqs, n)
<1>1. <<>> \in Seq(T)
  OBVIOUS
<1>2. Cat(T) \in [Seq(T) \X Seq(T) -> Seq(T)]
  BY CatIs
<1> QED BY <1>1, <1>2, FoldRuns

JoinsUp(F, T, seqs, n) ==
  /\ F \in [0 .. n -> Seq(T)]
  /\ F[0] = <<>>
  /\ \A i \in 1 .. n : F[i] = F[i - 1] \o seqs[i]

LEMMA JoinsExist ==
  ASSUME NEW T, NEW n \in Nat, NEW seqs, \A i \in 1 .. n : seqs[i] \in Seq(T)
  PROVE  \E F : JoinsUp(F, T, seqs, n)
<1>1. PICK F \in [0 .. n -> Seq(T)] : Runs(F, Seq(T), Cat(T), <<>>, seqs, n)
  BY CatsFolded DEF Folded
<1>2. F[0] = <<>> /\ \A i \in 1 .. n : F[i] = Cat(T)[<<F[i - 1], seqs[i]>>]
  BY <1>1 DEF Runs
<1>3. ASSUME NEW i \in 1 .. n PROVE F[i] = F[i - 1] \o seqs[i]
  <2>1. i - 1 \in 0 .. n
    OBVIOUS
  <2> DEFINE z == <<F[i - 1], seqs[i]>>
  <2>2. z \in Seq(T) \X Seq(T) /\ z[1] = F[i - 1] /\ z[2] = seqs[i]
    BY <2>1
  <2> HIDE DEF z
  <2>3. Cat(T)[z] = z[1] \o z[2]
    BY <2>2 DEF Cat
  <2>4. F[i] = Cat(T)[z]
    BY <1>2 DEF z
  <2> QED BY <2>2, <2>3, <2>4
<1> QED BY <1>2, <1>3 DEF JoinsUp

LEMMA FlattenIs ==
  ASSUME NEW T, NEW n \in Nat, n > 0, NEW seqs \in Seq(Seq(T)), Len(seqs) = n, NEW F, JoinsUp(F, T, seqs, n)
  PROVE  FlattenSeq(seqs) = F[n]
<1> DEFINE Solves(f) == f = [i \in 1 .. Len(seqs) |-> IF i = 1 THEN seqs[i] ELSE f[i - 1] \o seqs[i]]
           f0 == CHOOSE f : Solves(f)
           G == [i \in 1 .. n |-> F[i]]
<1>1. FlattenSeq(seqs) = f0[n]
  BY DEF FlattenSeq
<1>2. Solves(G)
  <2>1. \A i \in 1 .. n : seqs[i] \in Seq(T)
    OBVIOUS
  <2>2. ASSUME NEW i \in 1 .. n PROVE F[i] = IF i = 1 THEN seqs[i] ELSE G[i - 1] \o seqs[i]
    <3>1. F[i] = F[i - 1] \o seqs[i] /\ F[0] = <<>>
      BY DEF JoinsUp
    <3>2. CASE i = 1
      <4>0. i - 1 = 0 /\ F[i - 1] = <<>>
        BY <3>1, <3>2
      <4>1. F[1] = <<>> \o seqs[1] /\ seqs[1] \in Seq(T)
        BY <2>1, <3>1, <3>2, <4>0
      <4>2. <<>> \o seqs[1] = seqs[1]
        BY <4>1, ConcatEmptySeq
      <4> QED BY <3>2, <4>1, <4>2
    <3>3. CASE i # 1
      <4>1. i - 1 \in 1 .. n
        BY <3>3
      <4>2. G[i - 1] = F[i - 1]
        BY <4>1
      <4> QED BY <3>1, <3>3, <4>2
    <3> QED BY <3>2, <3>3
  <2> HIDE DEF Solves
  <2>3. G = [i \in 1 .. n |-> IF i = 1 THEN seqs[i] ELSE G[i - 1] \o seqs[i]]
    BY <2>2
  <2> QED BY <2>3 DEF Solves
<1>3. Solves(f0)
  <2> HIDE DEF Solves, G
  <2> QED BY <1>2
<1> DEFINE Good == {i \in Nat : i = 0 \/ i > n \/ f0[i] = G[i]}
<1> HIDE DEF f0, G
<1>4. 0 \in Good
  OBVIOUS
<1>5. ASSUME NEW i \in Nat, i \in Good PROVE i + 1 \in Good
  <2> SUFFICES ASSUME i + 1 <= n PROVE f0[i + 1] = G[i + 1]
    OBVIOUS
  <2>1. i + 1 \in 1 .. n
    OBVIOUS
  <2>1a. \A j \in 1 .. n : f0[j] = IF j = 1 THEN seqs[j] ELSE f0[j - 1] \o seqs[j]
    BY <1>3
  <2>1b. \A j \in 1 .. n : G[j] = IF j = 1 THEN seqs[j] ELSE G[j - 1] \o seqs[j]
    BY <1>2
  <2>2. f0[i + 1] = (IF i + 1 = 1 THEN seqs[i + 1] ELSE f0[i + 1 - 1] \o seqs[i + 1])
    BY <2>1, <2>1a
  <2>3. G[i + 1] = (IF i + 1 = 1 THEN seqs[i + 1] ELSE G[i + 1 - 1] \o seqs[i + 1])
    BY <2>1, <2>1b
  <2>4. CASE i = 0
    BY <2>2, <2>3, <2>4
  <2>5. CASE i # 0
    <3>1. f0[i] = G[i] /\ i + 1 - 1 = i
      BY <1>5, <2>5, <2>1
    <3> QED BY <2>2, <2>3, <2>5, <3>1
  <2> QED BY <2>4, <2>5
<1>6. n \in Good
  <2> HIDE DEF Good
  <2> QED BY <1>4, <1>5, SetInduction
<1>7. f0[n] = G[n] /\ n \in 1 .. n
  BY <1>6
<1>8. G[n] = F[n]
  BY <1>7 DEF G
<1> QED BY <1>1, <1>7, <1>8

LEMMA FlattenAppend ==
  ASSUME NEW T, NEW seqs \in Seq(Seq(T)), NEW x \in Seq(T)
  PROVE  /\ FlattenSeq(seqs) \in Seq(T)
         /\ FlattenSeq(Append(seqs, x)) = FlattenSeq(seqs) \o x
<1> DEFINE n == Len(seqs)
           more == Append(seqs, x)
<1>1. n \in Nat /\ (\A i \in 1 .. n : seqs[i] \in Seq(T)) /\ \A i \in 1 .. n : more[i] = seqs[i]
  OBVIOUS
<1>2. more[n + 1] = x /\ Len(more) = n + 1
  OBVIOUS
<1>2a. more \in Seq(Seq(T)) /\ \A i \in 1 .. n + 1 : more[i] \in Seq(T)
  <2> DEFINE U == Seq(T)
  <2>1. more \in Seq(U) /\ Len(more) = n + 1
    <3> HIDE DEF U
    <3> QED BY DEF U
  <2> QED BY <2>1
<1> HIDE DEF more
<1>3. PICK F : JoinsUp(F, T, more, n + 1)
  <2> DEFINE m == n + 1
  <2>1. m \in Nat /\ \A i \in 1 .. m : more[i] \in Seq(T)
    BY <1>1, <1>2a
  <2> HIDE DEF m
  <2>2. \E F : JoinsUp(F, T, more, m)
    BY <2>1, JoinsExist
  <2> QED BY <2>2 DEF m
<1>4. /\ F \in [0 .. n + 1 -> Seq(T)]
      /\ F[0] = <<>>
      /\ \A i \in 1 .. n + 1 : F[i] = F[i - 1] \o more[i]
  BY <1>3 DEF JoinsUp
<1>5. FlattenSeq(more) = F[n + 1]
  <2> DEFINE m == n + 1
  <2>1. m \in Nat /\ m > 0 /\ Len(more) = m /\ JoinsUp(F, T, more, m)
    BY <1>1, <1>2, <1>3
  <2> HIDE DEF m
  <2>2. FlattenSeq(more) = F[m]
    BY <2>1, <1>2a, FlattenIs
  <2> QED BY <2>2 DEF m
<1>6. F[n + 1] = F[n] \o x
  <2>1. n + 1 \in 1 .. n + 1 /\ n + 1 - 1 = n
    BY <1>1
  <2> DEFINE Longer(i) == F[i - 1] \o more[i]
  <2>2. \A i \in 1 .. n + 1 : F[i] = Longer(i)
    BY <1>4
  <2> HIDE DEF Longer
  <2>3. F[n + 1] = Longer(n + 1)
    BY <2>1, <2>2
  <2> QED BY <1>2, <2>1, <2>3 DEF Longer
<1>7. FlattenSeq(seqs) = F[n]
  <2>1. CASE n = 0
    <3>1. FlattenSeq(seqs) = seqs /\ seqs = <<>>
      BY <2>1 DEF FlattenSeq
    <3> QED BY <1>4, <2>1, <3>1
  <2>2. CASE n # 0
    <3> DEFINE E == [i \in 0 .. n |-> F[i]]
    <3>1. E \in [0 .. n -> Seq(T)] /\ E[0] = <<>> /\ E[n] = F[n]
      BY <1>1, <1>4
    <3>2. ASSUME NEW i \in 1 .. n PROVE E[i] = E[i - 1] \o seqs[i]
      <4>1. E[i] = F[i] /\ E[i - 1] = F[i - 1] /\ F[i] = F[i - 1] \o more[i] /\ more[i] = seqs[i]
        <5>1. i \in 0 .. n /\ i - 1 \in 0 .. n /\ i \in 1 .. n + 1
          BY <1>1
        <5>2. \A k \in 0 .. n : E[k] = F[k]
          OBVIOUS
        <5> HIDE DEF E
        <5>3. E[i] = F[i] /\ E[i - 1] = F[i - 1]
          BY <5>1, <5>2
        <5>4. F[i] = F[i - 1] \o more[i]
          BY <1>4, <5>1
        <5> QED BY <1>1, <5>3, <5>4
      <4> QED BY <4>1
    <3> HIDE DEF E
    <3>3. JoinsUp(E, T, seqs, n)
      BY <3>1, <3>2 DEF JoinsUp
    <3> HIDE DEF n
    <3>4. n > 0 /\ Len(seqs) = n
      BY <1>1, <2>2 DEF n
    <3> QED BY <1>1, <3>1, <3>3, <3>4, FlattenIs
  <2> QED BY <2>1, <2>2
<1>8. F[n] \in Seq(T)
  BY <1>1, <1>4
<1> QED BY <1>5, <1>6, <1>7, <1>8 DEF more

-----------------------------------------------------------------------------
(* The log of the runs, cut where a batch 0 follows a later one. *)

LogRecords ==
  [batch : Nat, run : Nat, verdict : {line[1] : line \in LogLines} \cup {"ENCODE_FAIL", "FLOOR", "BATCH_TIMEOUT"}, new : Nat]

LEMMA RecordsAre ==
  ASSUME NEW log \in Seq(LogRecords)
  PROVE  /\ Len(log) \in Nat /\ DOMAIN log = 1 .. Len(log)
         /\ \A k \in 1 .. Len(log) : log[k] \in LogRecords /\ log[k].batch \in Nat /\ log[k].run \in Nat /\ log[k].new \in Nat
<1>2. Len(log) \in Nat /\ DOMAIN log = 1 .. Len(log) /\ \A k \in 1 .. Len(log) : log[k] \in LogRecords
  <2> DEFINE R == LogRecords
  <2>1. log \in Seq(R)
    OBVIOUS
  <2> HIDE DEF R
  <2> QED BY <2>1 DEF R
<1> QED BY <1>2 DEF LogRecords

\* The runs follow one another in the log, and so do the batches of a run whose
\* calls did not overlap (the others are in wild).
Climbs(log, wild, n) ==
  \A j, k \in 1 .. n : j <= k =>
     /\ log[j].run <= log[k].run
     /\ log[j].run = log[k].run /\ log[k].run \notin wild => log[j].batch <= log[k].batch

\* The segment of every line (own), and the highest batch in it so far (top).
CutsAs(own, top, log, m) ==
  /\ own \in [1 .. m -> Nat] /\ top \in [1 .. m -> Int]
  /\ own[1] = 1 /\ top[1] = log[1].batch
  /\ \A i \in 1 .. m : i + 1 \in 1 .. m =>
       IF log[i + 1].batch = 0 /\ top[i] > 0
       THEN own[i + 1] = own[i] + 1 /\ top[i + 1] = 0
       ELSE own[i + 1] = own[i] /\ top[i + 1] = IF log[i + 1].batch > top[i] THEN log[i + 1].batch ELSE top[i]

LEMMA OwnOne ==
  ASSUME NEW log, NEW m \in Nat, NEW own, NEW top, CutsAs(own, top, log, m),
         NEW j \in 1 .. m, NEW n \in Nat, j + n \in 1 .. m
  PROVE  own[j] <= own[j + n]
<1>0. /\ \A i \in 1 .. m : own[i] \in Nat
      /\ \A i \in 1 .. m : i + 1 \in 1 .. m => own[i + 1] = own[i] \/ own[i + 1] = own[i] + 1
  BY DEF CutsAs
<1> DEFINE Good == {x \in Nat : j + x \in 1 .. m => own[j] <= own[j + x]}
<1>1. 0 \in Good
  BY <1>0
<1>2. ASSUME NEW x \in Nat, x \in Good PROVE x + 1 \in Good
  <2> SUFFICES ASSUME j + (x + 1) \in 1 .. m PROVE own[j] <= own[j + (x + 1)]
    OBVIOUS
  <2> DEFINE i == j + x
  <2>1. i \in 1 .. m /\ i + 1 \in 1 .. m /\ j + (x + 1) = i + 1
    OBVIOUS
  <2>2. own[j] <= own[i]
    BY <1>2, <2>1
  <2> HIDE DEF i
  <2> QED BY <1>0, <2>1, <2>2
<1>3. n \in Good
  <2> HIDE DEF Good
  <2> QED BY <1>1, <1>2, SetInduction
<1> QED BY <1>3

LEMMA OwnClimbs ==
  ASSUME NEW log, NEW m \in Nat, NEW own, NEW top, CutsAs(own, top, log, m),
         NEW j \in 1 .. m, NEW k \in 1 .. m, j <= k
  PROVE  own[j] <= own[k]
<1>1. k - j \in Nat /\ j + (k - j) = k
  OBVIOUS
<1> DEFINE n == k - j
<1>2. n \in Nat /\ j + n = k
  BY <1>1
<1> HIDE DEF n
<1> QED BY <1>2, OwnOne

\* The number of a segment is at least 1, and none is left out.
AllOwned(own, i) == own[i] >= 1 /\ \A s \in 1 .. own[i] : \E j \in 1 .. i : own[j] = s

LEMMA OwnAll ==
  ASSUME NEW log, NEW m \in Nat, NEW own, NEW top, CutsAs(own, top, log, m), NEW i \in 1 .. m
  PROVE  AllOwned(own, i)
<1>0. /\ \A k \in 1 .. m : own[k] \in Nat
      /\ \A k \in 1 .. m : k + 1 \in 1 .. m => own[k + 1] = own[k] \/ own[k + 1] = own[k] + 1
      /\ own[1] = 1
  BY DEF CutsAs
<1> DEFINE Good == {x \in Nat : x \in 1 .. m => own[x] >= 1 /\ \A s \in 1 .. own[x] : \E j \in 1 .. x : own[j] = s}
<1>1. 0 \in Good
  OBVIOUS
<1>2. ASSUME NEW x \in Nat, x \in Good PROVE x + 1 \in Good
  <2> DEFINE y == x + 1
  <2> SUFFICES ASSUME y \in 1 .. m PROVE own[y] >= 1 /\ \A s \in 1 .. own[y] : \E j \in 1 .. y : own[j] = s
    OBVIOUS
  <2>1. CASE x = 0
    <3>1. y = 1 /\ 1 \in 1 .. 1
      BY <2>1
    <3>2. \A s \in 1 .. 1 : s = 1
      OBVIOUS
    <3> HIDE DEF y
    <3> QED BY <1>0, <3>1, <3>2
  <2>2. CASE x # 0
    <3>1. x \in 1 .. m /\ y \in 1 .. y /\ \A j \in 1 .. x : j \in 1 .. y
      BY <2>2
    <3>2. own[x] >= 1 /\ \A s \in 1 .. own[x] : \E j \in 1 .. x : own[j] = s
      BY <1>2, <3>1
    <3>3. own[y] = own[x] \/ own[y] = own[x] + 1
      BY <1>0, <3>1
    <3>4. own[x] \in Nat /\ own[y] \in Nat
      BY <1>0, <3>1
    <3> HIDE DEF y
    <3>5. ASSUME NEW s \in 1 .. own[y] PROVE \E j \in 1 .. y : own[j] = s
      <4>1. s \in 1 .. own[x] \/ s = own[y]
        BY <3>3, <3>4
      <4> QED BY <3>1, <3>2, <4>1
    <3> QED BY <3>2, <3>3, <3>4, <3>5
  <2> QED BY <2>1, <2>2
<1>3. i \in Good
  <2> HIDE DEF Good
  <2>1. i \in Nat
    OBVIOUS
  <2> QED BY <1>1, <1>2, <2>1, SetInduction
<1> QED BY <1>3 DEF AllOwned

\* What the highest batch of a segment is.
LEMMA TopIs ==
  ASSUME NEW log, NEW m \in Nat, \A k \in 1 .. m : log[k].batch \in Nat,
         NEW own, NEW top, CutsAs(own, top, log, m), NEW i \in 1 .. m
  PROVE  /\ \A j \in 1 .. i : own[j] = own[i] => log[j].batch <= top[i]
         /\ \E j \in 1 .. i : own[j] = own[i] /\ log[j].batch = top[i]
<1>0. /\ \A k \in 1 .. m : own[k] \in Nat /\ top[k] \in Int
      /\ \A k \in 1 .. m : k + 1 \in 1 .. m =>
           IF log[k + 1].batch = 0 /\ top[k] > 0
           THEN own[k + 1] = own[k] + 1 /\ top[k + 1] = 0
           ELSE own[k + 1] = own[k] /\ top[k + 1] = IF log[k + 1].batch > top[k] THEN log[k + 1].batch ELSE top[k]
      /\ top[1] = log[1].batch
  BY DEF CutsAs
<1> DEFINE Is(x) == /\ \A j \in 1 .. x : own[j] = own[x] => log[j].batch <= top[x]
                    /\ \E j \in 1 .. x : own[j] = own[x] /\ log[j].batch = top[x]
           Good == {x \in Nat : x \in 1 .. m => Is(x)}
<1>1. 0 \in Good
  OBVIOUS
<1>2. ASSUME NEW x \in Nat, x \in Good PROVE x + 1 \in Good
  <2> DEFINE y == x + 1
  <2> SUFFICES ASSUME y \in 1 .. m PROVE Is(y)
    OBVIOUS
  <2>0. /\ y \in 1 .. y /\ log[y].batch \in Nat /\ own[y] \in Nat /\ top[y] \in Int
        /\ \A j \in 1 .. y : (j \in 1 .. x \/ j = y) /\ j \in 1 .. m
    BY <1>0
  <2>1. CASE x = 0
    <3>1. y = 1 /\ \A j \in 1 .. y : j = 1
      BY <2>1
    <3> HIDE DEF y
    <3> QED BY <1>0, <2>0, <3>1
  <2>2. CASE x # 0
    <3>1. x \in 1 .. m /\ \A j \in 1 .. x : j \in 1 .. y /\ j \in 1 .. m /\ j <= x
      BY <2>2
    <3>2. Is(x)
      BY <1>2, <3>1
    <3>3. /\ own[x] \in Nat /\ top[x] \in Int
          /\ IF log[y].batch = 0 /\ top[x] > 0
             THEN own[y] = own[x] + 1 /\ top[y] = 0
             ELSE own[y] = own[x] /\ top[y] = IF log[y].batch > top[x] THEN log[y].batch ELSE top[x]
      BY <1>0, <3>1
    <3> HIDE DEF y
    <3>4. CASE log[y].batch = 0 /\ top[x] > 0
      <4>1. ASSUME NEW j \in 1 .. y, own[j] = own[y] PROVE j = y
        <5>1. CASE j \in 1 .. x
          <6>1. own[j] <= own[x] /\ own[j] \in Nat
            BY <1>0, <3>1, <5>1, OwnClimbs
          <6> QED BY <3>3, <3>4, <4>1, <6>1
        <5> QED BY <2>0, <5>1
      <4> QED BY <2>0, <3>3, <3>4, <4>1
    <3>5. CASE ~(log[y].batch = 0 /\ top[x] > 0)
      <4>1. own[y] = own[x] /\ top[x] <= top[y] /\ log[y].batch <= top[y] /\ (top[y] = log[y].batch \/ top[y] = top[x])
        BY <2>0, <3>3, <3>5
      <4>2. ASSUME NEW j \in 1 .. y, own[j] = own[y] PROVE log[j].batch <= top[y]
        <5>1. CASE j \in 1 .. x
          <6>1. log[j].batch <= top[x] /\ log[j].batch \in Nat
            BY <3>1, <3>2, <4>1, <4>2, <5>1
          <6> QED BY <2>0, <3>3, <4>1, <6>1
        <5> QED BY <2>0, <4>1, <5>1
      <4>3. \E j \in 1 .. y : own[j] = own[y] /\ log[j].batch = top[y]
        <5>1. CASE top[y] = log[y].batch
          BY <2>0, <5>1
        <5>2. CASE top[y] = top[x]
          <6>1. PICK j \in 1 .. x : own[j] = own[x] /\ log[j].batch = top[x]
            BY <3>2
          <6> QED BY <3>1, <4>1, <5>2, <6>1
        <5> QED BY <4>1, <5>1, <5>2
      <4> QED BY <4>2, <4>3
    <3> QED BY <3>4, <3>5
  <2> QED BY <2>1, <2>2
<1>3. i \in Good
  <2> HIDE DEF Good
  <2>1. i \in Nat
    OBVIOUS
  <2> QED BY <1>1, <1>2, <2>1, SetInduction
<1> QED BY <1>3

\* Within a segment a batch 0 follows no later batch.
LEMMA ZerosFirst ==
  ASSUME NEW log, NEW m \in Nat, \A k \in 1 .. m : log[k].batch \in Nat,
         NEW own, NEW top, CutsAs(own, top, log, m),
         NEW j \in 1 .. m, NEW k \in 1 .. m, j < k, own[j] = own[k], log[k].batch = 0
  PROVE  log[j].batch = 0
<1> DEFINE i == k - 1
<1>1. i \in 1 .. m /\ i + 1 = k /\ j <= i /\ j \in 1 .. i
  OBVIOUS
<1> HIDE DEF i
<1>2. own[j] <= own[i] /\ own[i] <= own[k] /\ own[i] \in Nat /\ own[k] \in Nat /\ own[j] \in Nat /\ top[i] \in Int
  <2>1. own[j] <= own[i]
    BY <1>1, OwnClimbs
  <2>2. i <= k
    BY <1>1
  <2>3. own[i] <= own[k]
    BY <1>1, <2>2, OwnClimbs
  <2> QED BY <1>1, <2>1, <2>3 DEF CutsAs
<1>3. own[i] = own[k]
  BY <1>2
<1>4. ~(log[k].batch = 0 /\ top[i] > 0)
  <2>1. log[k].batch = 0 /\ top[i] > 0 => own[k] = own[i] + 1
    BY <1>1 DEF CutsAs
  <2> QED BY <1>2, <1>3, <2>1
<1>5. log[j].batch <= top[i] /\ log[j].batch \in Nat
  BY <1>1, <1>3, TopIs
<1> QED BY <1>2, <1>4, <1>5

\* A run whose batches climb is in one segment.
LEMMA RunsKeepTogether ==
  ASSUME NEW log, NEW m \in Nat, \A k \in 1 .. m : log[k].batch \in Nat /\ log[k].run \in Nat,
         NEW wild, Climbs(log, wild, m), NEW own, NEW top, CutsAs(own, top, log, m),
         NEW j \in 1 .. m, NEW k \in 1 .. m, own[j] < own[k], log[j].run = log[k].run
  PROVE  log[k].run \in wild
<1> SUFFICES ASSUME log[k].run \notin wild PROVE FALSE
  OBVIOUS
<1>0. \A x \in 1 .. m : own[x] \in Nat /\ top[x] \in Int
  BY DEF CutsAs
<1>1. j < k
  <2>1. CASE k <= j
    <3>1. own[k] <= own[j]
      BY <2>1, OwnClimbs
    <3> QED BY <1>0, <3>1
  <2> QED BY <2>1
<1> DEFINE T == {x \in 1 .. m : j <= x /\ own[x] # own[j]}
<1>2. T \in SUBSET Nat /\ k \in T
  BY <1>0, <1>1
<1>3. PICK x \in T : \A y \in T : x <= y
  BY <1>2, LeastNat
<1> DEFINE i == x - 1
<1>4. i \in 1 .. m /\ i + 1 = x /\ j <= i /\ x <= k /\ x \in 1 .. m /\ j < x /\ i < x
  BY <1>2, <1>3
<1>5. own[i] = own[j]
  <2>1. i \notin T
    BY <1>3, <1>4
  <2> HIDE DEF i
  <2> QED BY <1>4, <2>1
<1>6. own[x] # own[i]
  BY <1>3, <1>5
<1> HIDE DEF i, T
<1>7. log[x].batch = 0 /\ top[i] > 0
  BY <1>4, <1>6 DEF CutsAs
<1>8. log[x].run = log[k].run
  <2>1. log[j].run <= log[x].run /\ log[x].run <= log[k].run
    BY <1>4 DEF Climbs
  <2> QED BY <1>4, <2>1
<1>9. PICK p \in 1 .. i : own[p] = own[i] /\ log[p].batch = top[i]
  <2>1. (\A z \in 1 .. m : log[z].batch \in Nat) /\ i \in 1 .. m
    BY <1>4
  <2>2. \E p \in 1 .. i : own[p] = own[i] /\ log[p].batch = top[i]
    BY <2>1, TopIs
  <2> QED BY <2>2
<1>10. p \in 1 .. m /\ p <= x /\ log[p].batch \in Nat /\ log[p].batch > 0
  BY <1>4, <1>7, <1>9
<1>11. CASE j <= p
  <2>1. log[j].run <= log[p].run /\ log[p].run <= log[x].run
    BY <1>4, <1>10, <1>11 DEF Climbs
  <2>2. log[p].run = log[x].run /\ log[x].run \notin wild
    BY <1>4, <1>8, <1>10, <2>1
  <2>3. log[p].batch <= log[x].batch
    BY <1>4, <1>10, <2>2 DEF Climbs
  <2> QED BY <1>7, <1>10, <2>3
<1>12. CASE p < j
  <2>1. log[j].batch <= log[x].batch
    BY <1>4, <1>8 DEF Climbs
  <2>2. log[j].batch = 0
    BY <1>7, <2>1
  <2>3. log[p].batch = 0
    BY <1>5, <1>9, <1>10, <1>12, <2>2, ZerosFirst
  <2> QED BY <1>10, <2>3
<1> QED BY <1>10, <1>11, <1>12

\* Two runs that each went from batch 0 to a later one are in two segments.
LEMMA RunsKeepApart ==
  ASSUME NEW log, NEW m \in Nat, \A k \in 1 .. m : log[k].batch \in Nat /\ log[k].run \in Nat,
         NEW wild, Climbs(log, wild, m), NEW own, NEW top, CutsAs(own, top, log, m),
         NEW j \in 1 .. m, NEW k \in 1 .. m, log[j].run < log[k].run,
         log[j].run \notin wild, log[k].run \notin wild,
         NEW x \in 1 .. m, log[x].run = log[j].run, log[x].batch > 0,
         NEW y \in 1 .. m, log[y].run = log[k].run, log[y].batch = 0
  PROVE  own[j] # own[k]
<1> SUFFICES ASSUME own[j] = own[k] PROVE FALSE
  OBVIOUS
<1>0. own[x] \in Nat /\ own[j] \in Nat /\ own[y] \in Nat /\ own[k] \in Nat
  BY DEF CutsAs
<1>1. own[x] = own[j]
  <2>1. ~(own[x] < own[j]) /\ ~(own[j] < own[x])
    BY RunsKeepTogether
  <2> QED BY <1>0, <2>1
<1>2. own[y] = own[k]
  <2>1. ~(own[y] < own[k]) /\ ~(own[k] < own[y])
    BY RunsKeepTogether
  <2> QED BY <1>0, <2>1
<1>3. x < y
  <2>1. CASE y <= x
    <3>1. log[y].run <= log[x].run
      BY <2>1 DEF Climbs
    <3> QED BY <3>1
  <2> QED BY <2>1
<1>4. log[x].batch = 0
  BY <1>1, <1>2, <1>3, ZerosFirst
<1> QED BY <1>4

-----------------------------------------------------------------------------
\* What the cutting carries.
CutStates == [done : Seq(Seq(LogRecords)), current : Seq(LogRecords), max : Int]
CutOne == [z \in CutStates \X LogRecords |-> Cut(z[1], z[2])]
Uncut == [done |-> <<>>, current |-> <<>>, max |-> -1]

CutOff(acc, r) == [done |-> Append(acc.done, acc.current), current |-> <<r>>, max |-> 0]
CutOn(acc, r) == [done |-> acc.done, current |-> Append(acc.current, r), max |-> IF r.batch > acc.max THEN r.batch ELSE acc.max]

LEMMA CutCases ==
  ASSUME NEW acc \in CutStates, NEW r \in LogRecords
  PROVE  /\ Cut(acc, r) = IF r.batch = 0 /\ acc.max > 0 THEN CutOff(acc, r) ELSE CutOn(acc, r)
         /\ Cut(acc, r) \in CutStates
<1> DEFINE R == LogRecords
           U == Seq(R)
<1>1. acc.done \in Seq(U) /\ acc.current \in Seq(R) /\ acc.max \in Int
      /\ acc = [done |-> acc.done, current |-> acc.current, max |-> acc.max]
  BY DEF CutStates
<1>2. r.batch \in Nat /\ r \in R
  BY DEF LogRecords
<1>3. acc.current \in U
  BY <1>1
<1>4. Append(acc.done, acc.current) \in Seq(U)
  <2> HIDE DEF U, R
  <2> QED BY <1>1, <1>3
<1>5. <<r>> \in Seq(R) /\ Append(acc.current, r) \in Seq(R)
  <2> HIDE DEF U, R
  <2> QED BY <1>1, <1>2
<1>6. CutOff(acc, r) \in CutStates /\ CutOn(acc, r) \in CutStates
  <2> DEFINE p == Append(acc.done, acc.current)
             q == Append(acc.current, r)
             m == IF r.batch > acc.max THEN r.batch ELSE acc.max
  <2>1. m \in Int /\ p \in Seq(U) /\ q \in Seq(R)
    BY <1>1, <1>2, <1>4, <1>5
  <2> HIDE DEF p, q, m, U, R
  <2>2. [done |-> p, current |-> <<r>>, max |-> 0] \in [done : Seq(U), current : Seq(R), max : Int]
    BY <1>5, <2>1
  <2>3. [done |-> acc.done, current |-> q, max |-> m] \in [done : Seq(U), current : Seq(R), max : Int]
    BY <1>1, <2>1
  <2> QED BY <2>2, <2>3 DEF CutOff, CutOn, CutStates, p, q, m, U, R
<1>7. CASE r.batch = 0 /\ acc.max > 0
  BY <1>6, <1>7 DEF Cut, CutOff
<1>8. CASE ~(r.batch = 0 /\ acc.max > 0)
  <2>1. Cut(acc, r) = [acc EXCEPT !.max = IF r.batch > @ THEN r.batch ELSE @, !.current = Append(@, r)]
    BY <1>8 DEF Cut
  <2> DEFINE q == Append(acc.current, r)
             m == IF r.batch > acc.max THEN r.batch ELSE acc.max
  <2>2. Cut(acc, r) = [acc EXCEPT !.max = m, !.current = q]
    BY <2>1
  <2> HIDE DEF q, m
  <2>3. [acc EXCEPT !.max = m, !.current = q] = [done |-> acc.done, current |-> q, max |-> m]
    <3> DEFINE a == [done |-> acc.done, current |-> acc.current, max |-> m]
    <3>1. [acc EXCEPT !.max = m] = a
      BY <1>1
    <3>2. [a EXCEPT !.current = q] = [done |-> acc.done, current |-> q, max |-> m]
      OBVIOUS
    <3> HIDE DEF a
    <3>3. [acc EXCEPT !.max = m, !.current = q] = [a EXCEPT !.current = q]
      BY <3>1
    <3> QED BY <3>2, <3>3
  <2>4. Cut(acc, r) = CutOn(acc, r)
    BY <2>2, <2>3 DEF CutOn, q, m
  <2> QED BY <1>6, <1>8, <2>4
<1> QED BY <1>7, <1>8

LEMMA CutOneIs == CutOne \in [CutStates \X LogRecords -> CutStates]
<1>1. ASSUME NEW z \in CutStates \X LogRecords PROVE Cut(z[1], z[2]) \in CutStates
  <2>1. z[1] \in CutStates /\ z[2] \in LogRecords
    OBVIOUS
  <2> QED BY <2>1, CutCases
<1> QED BY <1>1 DEF CutOne

LEMMA UncutIs == Uncut \in CutStates
<1>1. <<>> \in Seq(Seq(LogRecords)) /\ <<>> \in Seq(LogRecords) /\ -1 \in Int
  OBVIOUS
<1> QED BY <1>1 DEF Uncut, CutStates

LEMMA CutFolded ==
  ASSUME NEW m \in Nat, NEW log, \A i \in 1 .. m : log[i] \in LogRecords
  PROVE  Folded(CutStates, CutOne, Uncut, log, m)
BY CutOneIs, UncutIs, FoldRuns

\* What parse_log has carried to the end of the log.
CutAll(log) == FoldLeft(Cut, Uncut, log)

LEMMA CutRuns ==
  ASSUME NEW m \in Nat, NEW log, DOMAIN log = 1 .. m, \A i \in 1 .. m : log[i] \in LogRecords
  PROVE  \E F : Runs(F, CutStates, CutOne, Uncut, log, m) /\ F[m] = CutAll(log)
<1> DEFINE S == DOMAIN log
           Solves(h) == h = [s \in SUBSET S |-> IF s = {} THEN Uncut
                                              ELSE Cut(h[s \ {Max(s)}], log[Max(s)])]
<1>1. CutAll(log) = (CHOOSE h : Solves(h))[S]
  BY DEF CutAll, FoldLeft, MapThenFoldSet
<1>2. PICK h \in [SUBSET S -> CutStates], F \in [0 .. m -> CutStates] :
         FoldsTo(h, CutOne, Uncut, log, S) /\ Runs(F, CutStates, CutOne, Uncut, log, m) /\ F[m] = h[S]
  <2>1. Folded(CutStates, CutOne, Uncut, log, m)
    BY CutFolded
  <2>2. S = 1 .. m
    OBVIOUS
  <2> HIDE DEF S, Solves
  <2> QED BY <2>1, <2>2 DEF Folded
<1>3. IsFiniteSet(S) /\ S \in SUBSET Nat
  BY FS_Interval
<1>4. ASSUME NEW s \in SUBSET S, s # {}
      PROVE  Max(s) \in s /\ s \ {Max(s)} \in SUBSET S /\ log[Max(s)] \in LogRecords
  <2>1. IsFiniteSet(s) /\ s \in SUBSET Nat
    BY <1>3, FS_Subset
  <2>2. Max(s) \in s
    BY <2>1, <1>4, MaxIs
  <2> QED BY <2>2
<1>5. Solves(h)
  <2>1. ASSUME NEW s \in SUBSET S
        PROVE  FoldStep(h, CutOne, Uncut, log, s) = IF s = {} THEN Uncut ELSE Cut(h[s \ {Max(s)}], log[Max(s)])
    <3>1. CASE s = {}
      BY <3>1 DEF FoldStep
    <3>2. CASE s # {}
      <4>1. s \ {Max(s)} \in SUBSET S /\ log[Max(s)] \in LogRecords
        BY <1>4, <3>2
      <4> DEFINE z == <<h[s \ {Max(s)}], log[Max(s)]>>
      <4>2. z \in CutStates \X LogRecords
        BY <4>1
      <4>3. z[1] = h[s \ {Max(s)}] /\ z[2] = log[Max(s)]
        OBVIOUS
      <4>4. FoldStep(h, CutOne, Uncut, log, s) = CutOne[z]
        BY <3>2 DEF FoldStep
      <4> HIDE DEF z
      <4>5. CutOne[z] = Cut(z[1], z[2])
        BY <4>2 DEF CutOne
      <4> QED BY <3>2, <4>3, <4>4, <4>5
    <3> QED BY <3>1, <3>2
  <2>2. h = [s \in SUBSET S |-> FoldStep(h, CutOne, Uncut, log, s)]
    BY <1>2 DEF FoldsTo
  <2> QED BY <2>1, <2>2
<1> DEFINE c == CHOOSE g : Solves(g)
<1>6. Solves(c)
  <2> HIDE DEF Solves
  <2> QED BY <1>5
<1>7. c[S] = h[S]
  <2>1. c[{}] = h[{}]
    BY <1>5, <1>6
  <2>2. ASSUME NEW s \in SUBSET S, s # {}, c[s \ {Max(s)}] = h[s \ {Max(s)}] PROVE c[s] = h[s]
    <3> HIDE DEF c
    <3> QED BY <1>5, <1>6, <2>2
  <2> HIDE DEF c, Solves
  <2> QED BY <1>3, <2>1, <2>2, SetsAgree
<1> QED BY <1>1, <1>2, <1>7

-----------------------------------------------------------------------------
CutParts(acc, log, i) ==
  /\ FlattenSeq(acc.done) \o acc.current = SubSeq(log, 1, i)
  /\ acc.current # <<>>

\* What is cut off and what is not, together.
LEMMA PartsNext ==
  ASSUME NEW log \in Seq(LogRecords), NEW i \in 1 .. Len(log), i + 1 <= Len(log), NEW acc \in CutStates, CutParts(acc, log, i)
  PROVE  CutParts(Cut(acc, log[i + 1]), log, i + 1)
<1> DEFINE r == log[i + 1]
           R == LogRecords
           U == Seq(R)
           D == FlattenSeq(acc.done)
<1>1. r \in R /\ r.batch \in Nat /\ Len(log) \in Nat /\ log \in Seq(R) /\ i + 1 \in 1 .. Len(log)
  BY RecordsAre
<1>2. acc.done \in Seq(Seq(R)) /\ acc.current \in Seq(R) /\ acc.max \in Int
  BY DEF CutStates
<1>3. SubSeq(log, 1, i + 1) = Append(SubSeq(log, 1, i), r)
  <2> HIDE DEF R, U, D
  <2> QED BY <1>1 DEF r
<1>4. D \in Seq(R) /\ FlattenSeq(Append(acc.done, acc.current)) = D \o acc.current
  BY <1>2, FlattenAppend
<1>5. D \o acc.current = SubSeq(log, 1, i)
  BY DEF CutParts
<1>6. D \o acc.current \in Seq(R)
  BY <1>2, <1>4, ConcatProperties
<1>7. Append(D \o acc.current, r) = (D \o acc.current) \o <<r>> /\ Append(D \o acc.current, r) = D \o Append(acc.current, r)
  <2>1. r \in R /\ <<r>> \in Seq(R) /\ D \in Seq(R) /\ acc.current \in Seq(R) /\ D \o acc.current \in Seq(R)
    <3>1. r \in R
      BY <1>1
    <3> HIDE DEF R, r, D, U
    <3> QED BY <3>1, <1>2, <1>4, <1>6 DEF R
  <2> HIDE DEF R, U, D, r
  <2> DEFINE c == acc.current
  <2>2. c \in Seq(R)
    BY <2>1
  <2> HIDE DEF c
  <2>3. Append(Conc(D, c), r) = Conc(D, Append(c, r)) /\ Append(Conc(D, c), r) = Conc(Conc(D, c), <<r>>)
    BY <2>1, <2>2, AppendMoves
  <2> QED BY <2>3 DEF c, Conc
<1>8. CASE r.batch = 0 /\ acc.max > 0
  <2>1. Cut(acc, r) = CutOff(acc, r)
    BY <1>1, <1>8, CutCases
  <2> DEFINE p == Append(acc.done, acc.current)
             next == Cut(acc, r)
  <2>2. next.done = p /\ next.current = <<r>>
    BY <2>1 DEF CutOff
  <2> HIDE DEF p, next
  <2>3. FlattenSeq(p) \o <<r>> = SubSeq(log, 1, i + 1)
    BY <1>3, <1>4, <1>5, <1>7 DEF p
  <2>4. <<r>> # <<>>
    OBVIOUS
  <2>5. CutParts(next, log, i + 1)
    BY <2>2, <2>3, <2>4 DEF CutParts
  <2> QED BY <2>5 DEF next
<1>9. CASE ~(r.batch = 0 /\ acc.max > 0)
  <2>1. Cut(acc, r) = CutOn(acc, r)
    BY <1>1, <1>9, CutCases
  <2> DEFINE q == Append(acc.current, r)
             next == Cut(acc, r)
  <2>2. next.done = acc.done /\ next.current = q
    BY <2>1 DEF CutOn
  <2> HIDE DEF q, next
  <2>3. D \o q = SubSeq(log, 1, i + 1)
    BY <1>3, <1>5, <1>7 DEF q
  <2>4. q # <<>>
    <3>1. acc.current \in Seq(R) /\ r \in R
      BY <1>1, <1>2
    <3> HIDE DEF R, U, D, r
    <3>2. Append(acc.current, r) # <<>>
      BY <3>1, AppendProperties
    <3> QED BY <3>2 DEF q
  <2>5. CutParts(next, log, i + 1)
    BY <2>2, <2>3, <2>4 DEF CutParts
  <2> QED BY <2>5 DEF next
<1> QED BY <1>8, <1>9

LEMMA PartsFirst ==
  ASSUME NEW log \in Seq(LogRecords), Len(log) > 0
  PROVE  /\ Cut(Uncut, log[1]) = [done |-> <<>>, current |-> <<log[1]>>, max |-> log[1].batch]
         /\ CutParts(Cut(Uncut, log[1]), log, 1)
<1> DEFINE r == log[1]
           R == LogRecords
<1>1. r \in R /\ r.batch \in Nat /\ Len(log) \in Nat /\ log \in Seq(R)
  BY RecordsAre
<1>2. Cut(Uncut, r) = CutOn(Uncut, r)
  BY <1>1, UncutIs, CutCases DEF Uncut
<1>3. Cut(Uncut, r) = [done |-> <<>>, current |-> <<r>>, max |-> r.batch]
  <2>1. Append(<<>>, r) = <<r>>
    OBVIOUS
  <2>2. r.batch > -1
    BY <1>1
  <2> QED BY <1>1, <1>2, <2>1, <2>2 DEF CutOn, Uncut
<1> DEFINE acc == Cut(Uncut, r)
<1>4. acc.done = <<>> /\ acc.current = <<r>>
  BY <1>3
<1> HIDE DEF acc
<1>5. CutParts(acc, log, 1)
  <2>1. FlattenSeq(<<>>) = <<>>
    BY DEF FlattenSeq
  <2>2. <<>> \o <<r>> = <<r>> /\ SubSeq(log, 1, 1) = <<r>> /\ <<r>> # <<>>
    <3>1. <<r>> \in Seq(R) /\ <<r>> # <<>> /\ 1 \in 1 .. Len(log) /\ 1 \in 1 .. Len(log) /\ log \in Seq(R)
      BY <1>1
    <3> HIDE DEF R
    <3>2. <<>> \o <<r>> = <<r>>
      BY <3>1, ConcatEmptySeq
    <3>3. SubSeq(log, 1, 1) = SubSeq(log, 1, 1 - 1) \o <<log[1]>>
      BY <3>1, SubSeqRecursiveSecond
    <3>4. SubSeq(log, 1, 1 - 1) = <<>>
      BY SubSeqEmpty
    <3> QED BY <3>1, <3>2, <3>3, <3>4
  <2> QED BY <1>4, <2>1, <2>2 DEF CutParts
<1> QED BY <1>3, <1>5 DEF acc

\* A segment has the lines of its number, and no other.
Has(segment, own, s, log, i) ==
  /\ \A k \in 1 .. Len(segment) : \E j \in 1 .. i : own[j] = s /\ segment[k] = log[j]
  /\ \A j \in 1 .. i : own[j] = s => \E k \in 1 .. Len(segment) : segment[k] = log[j]

CutHas(acc, own, log, i) ==
  /\ own[i] = Len(acc.done) + 1
  /\ \A s \in 1 .. Len(acc.done) : Has(acc.done[s], own, s, log, i)
  /\ Has(acc.current, own, own[i], log, i)

LEMMA HasStays ==
  ASSUME NEW log, NEW own, NEW i \in Nat, NEW s, NEW segment, Has(segment, own, s, log, i), own[i + 1] # s
  PROVE  Has(segment, own, s, log, i + 1)
<1>1. \A j : j \in 1 .. i + 1 <=> j \in 1 .. i \/ j = i + 1
  OBVIOUS
<1> QED BY <1>1 DEF Has

LEMMA HasMore ==
  ASSUME NEW log \in Seq(LogRecords), NEW own, NEW i \in Nat, i + 1 \in 1 .. Len(log), NEW s,
         NEW segment \in Seq(LogRecords), Has(segment, own, s, log, i), own[i + 1] = s
  PROVE  Has(Append(segment, log[i + 1]), own, s, log, i + 1)
<1> DEFINE r == log[i + 1]
           R == LogRecords
           longer == Append(segment, r)
           n == Len(segment)
<1>1. r \in R
  BY RecordsAre
<1>2. n \in Nat /\ Len(longer) = n + 1 /\ longer[n + 1] = r /\ \A k \in 1 .. n : longer[k] = segment[k]
  <2> HIDE DEF R, r
  <2>1. segment \in Seq(R) /\ r \in R
    BY <1>1 DEF R
  <2> QED BY <2>1
<1>3. \A j : j \in 1 .. i + 1 <=> j \in 1 .. i \/ j = i + 1
  OBVIOUS
<1>4. \A k : k \in 1 .. n + 1 <=> k \in 1 .. n \/ k = n + 1
  BY <1>2
<1> HIDE DEF longer, n
<1>5. ASSUME NEW k \in 1 .. n + 1 PROVE \E j \in 1 .. i + 1 : own[j] = s /\ longer[k] = log[j]
  <2>1. CASE k \in 1 .. n
    <3>1. \E j \in 1 .. i : own[j] = s /\ segment[k] = log[j]
      BY <2>1, Zenon DEF Has, n
    <3> QED BY <1>2, <1>3, <2>1, <3>1
  <2>2. CASE k = n + 1
    <3>1. i + 1 \in 1 .. i + 1 /\ longer[k] = log[i + 1]
      BY <1>2, <1>3, <2>2
    <3> QED BY <3>1
  <2> QED BY <1>4, <2>1, <2>2
<1>6. ASSUME NEW j \in 1 .. i + 1, own[j] = s PROVE \E k \in 1 .. n + 1 : longer[k] = log[j]
  <2>1. CASE j \in 1 .. i
    BY <1>2, <1>4, <1>6, <2>1 DEF Has, n
  <2>2. CASE j = i + 1
    <3>1. n + 1 \in 1 .. n + 1
      BY <1>4
    <3> QED BY <1>2, <2>2, <3>1
  <2> QED BY <1>3, <2>1, <2>2
<1>7. Has(longer, own, s, log, i + 1)
  BY <1>2, <1>5, <1>6 DEF Has
<1> QED BY <1>7 DEF longer, r

LEMMA HasOne ==
  ASSUME NEW log \in Seq(LogRecords), NEW own, NEW i \in Nat, i + 1 \in 1 .. Len(log), NEW s,
         \A j \in 1 .. i : own[j] # s, own[i + 1] = s
  PROVE  Has(<<log[i + 1]>>, own, s, log, i + 1)
<1> DEFINE r == log[i + 1]
           t == <<r>>
<1>1. Len(t) = 1 /\ t[1] = r
  <2> HIDE DEF r
  <2> QED OBVIOUS
<1>2. \A j : j \in 1 .. i + 1 <=> j \in 1 .. i \/ j = i + 1
  OBVIOUS
<1>3. \A k : k \in 1 .. 1 <=> k = 1
  OBVIOUS
<1> HIDE DEF t
<1>4. Has(t, own, s, log, i + 1)
  BY <1>1, <1>2, <1>3 DEF Has
<1> QED BY <1>4 DEF t, r

LEMMA HasNext ==
  ASSUME NEW log \in Seq(LogRecords), NEW m, m = Len(log), NEW own, NEW top, CutsAs(own, top, log, m),
         NEW i \in 1 .. m, i + 1 \in 1 .. m, NEW acc \in CutStates, CutHas(acc, own, log, i), acc.max = top[i]
  PROVE  CutHas(Cut(acc, log[i + 1]), own, log, i + 1)
<1> DEFINE r == log[i + 1]
           R == LogRecords
           U == Seq(R)
           n == Len(acc.done)
           next == Cut(acc, r)
<1>1. i \in Nat /\ m \in Nat /\ r \in R
  BY RecordsAre
<1>2. acc.done \in Seq(U) /\ acc.current \in U /\ acc.max \in Int /\ n \in Nat
  BY DEF CutStates
<1>3. /\ own[i] = n + 1 /\ own[i + 1] \in Nat
      /\ IF r.batch = 0 /\ top[i] > 0 THEN own[i + 1] = own[i] + 1 ELSE own[i + 1] = own[i]
  BY <1>1 DEF CutsAs, CutHas
<1>4. /\ \A s \in 1 .. n : Has(acc.done[s], own, s, log, i)
      /\ Has(acc.current, own, n + 1, log, i)
  BY <1>3 DEF CutHas
<1>5. \A s \in 1 .. n : Has(acc.done[s], own, s, log, i + 1)
  <2> SUFFICES ASSUME NEW s \in 1 .. n PROVE Has(acc.done[s], own, s, log, i + 1)
    OBVIOUS
  <2>1. own[i + 1] # s
    BY <1>2, <1>3
  <2> QED BY <1>1, <1>4, <2>1, HasStays
<1>6. CASE r.batch = 0 /\ top[i] > 0
  <2>1. next = CutOff(acc, r)
    BY <1>1, <1>6, CutCases
  <2> DEFINE p == Append(acc.done, acc.current)
  <2>2. next.done = p /\ next.current = <<r>>
    BY <2>1 DEF CutOff
  <2>3. Len(p) = n + 1 /\ p[n + 1] = acc.current /\ \A s \in 1 .. n : p[s] = acc.done[s]
    <3> HIDE DEF U, R
    <3> QED BY <1>2
  <2> HIDE DEF next, p
  <2>4. own[i + 1] = n + 2 /\ own[i + 1] # n + 1
    BY <1>2, <1>3, <1>6
  <2>5. Has(acc.current, own, n + 1, log, i + 1)
    BY <1>1, <1>4, <2>4, HasStays
  <2>6. \A s \in 1 .. n + 1 : Has(p[s], own, s, log, i + 1)
    <3> SUFFICES ASSUME NEW s \in 1 .. n + 1 PROVE Has(p[s], own, s, log, i + 1)
      OBVIOUS
    <3>1. s \in 1 .. n \/ s = n + 1
      <4>1. n \in Nat
        BY <1>2
      <4> HIDE DEF n
      <4> QED BY <4>1
    <3> QED BY <1>5, <2>3, <2>5, <3>1
  <2>7. Has(<<r>>, own, n + 2, log, i + 1)
    <3>1. ASSUME NEW j \in 1 .. i PROVE own[j] # n + 2
      <4>1. j \in 1 .. m /\ i \in 1 .. m /\ j <= i
        BY <1>1
      <4>2. own[j] <= own[i]
        BY <1>1, <4>1, OwnClimbs
      <4>3. own[j] \in Nat
        BY <4>1 DEF CutsAs
      <4> QED BY <1>2, <1>3, <4>2, <4>3
    <3> QED BY <1>1, <2>4, <3>1, HasOne
  <2>8. Len(next.done) + 1 = n + 2
    BY <1>2, <2>2, <2>3
  <2>9. CutHas(next, own, log, i + 1)
    BY <2>2, <2>3, <2>4, <2>6, <2>7, <2>8 DEF CutHas
  <2> QED BY <2>9 DEF next
<1>7. CASE ~(r.batch = 0 /\ top[i] > 0)
  <2>1. next = CutOn(acc, r)
    BY <1>1, <1>7, CutCases
  <2> DEFINE q == Append(acc.current, r)
  <2>2. next.done = acc.done /\ next.current = q
    BY <2>1 DEF CutOn
  <2> HIDE DEF next
  <2>3. own[i + 1] = n + 1
    BY <1>3, <1>7
  <2>4. Has(q, own, n + 1, log, i + 1)
    <3>1. acc.current \in Seq(LogRecords)
      BY <1>2
    <3> HIDE DEF n
    <3> QED BY <1>1, <1>4, <2>3, <3>1, HasMore
  <2> HIDE DEF q
  <2>5. CutHas(next, own, log, i + 1)
    BY <1>5, <2>2, <2>3, <2>4 DEF CutHas
  <2> QED BY <2>5 DEF next
<1> QED BY <1>6, <1>7

\* The segments of a log: its lines in their order, each in the segment of its number.
LEMMA ParseIs ==
  ASSUME NEW raw, NEW log \in Seq(LogRecords), log = Matched(raw), Len(log) > 0
  PROVE  /\ ParseLog(raw) \in Seq(Seq(LogRecords))
         /\ FlattenSeq(ParseLog(raw)) = log
         /\ \E own, top : /\ CutsAs(own, top, log, Len(log))
                          /\ own[Len(log)] = Len(ParseLog(raw))
                          /\ \A s \in 1 .. Len(ParseLog(raw)) : Has(ParseLog(raw)[s], own, s, log, Len(log))
<1> DEFINE m == Len(log)
<1>1. m \in Nat /\ DOMAIN log = 1 .. m /\ m > 0 /\ \A i \in 1 .. m : log[i] \in LogRecords /\ log[i].batch \in Nat
  BY RecordsAre
<1>2. PICK F : Runs(F, CutStates, CutOne, Uncut, log, m) /\ F[m] = CutAll(log)
  <2>1. \A i \in 1 .. m : log[i] \in LogRecords
    BY <1>1
  <2> HIDE DEF m
  <2> QED BY <1>1, <2>1, CutRuns
<1>3. /\ F \in [0 .. m -> CutStates] /\ F[0] = Uncut
      /\ \A i \in 1 .. m : F[i] = CutOne[<<F[i - 1], log[i]>>]
  BY <1>2 DEF Runs
<1>4. ASSUME NEW i \in Nat, i + 1 <= m PROVE F[i] \in CutStates /\ F[i + 1] = Cut(F[i], log[i + 1])
  <2>1. i \in 0 .. m /\ i + 1 \in 1 .. m /\ (i + 1) - 1 = i
    BY <1>1, <1>4
  <2> DEFINE z == <<F[i], log[i + 1]>>
  <2>2. z \in CutStates \X LogRecords /\ z[1] = F[i] /\ z[2] = log[i + 1]
    BY <1>1, <1>3, <2>1
  <2>3. F[i + 1] = CutOne[z]
    BY <1>3, <2>1
  <2> HIDE DEF z
  <2>4. CutOne[z] = Cut(z[1], z[2])
    BY <2>2 DEF CutOne
  <2> QED BY <1>3, <2>1, <2>2, <2>3, <2>4
<1>5. F[1] = [done |-> <<>>, current |-> <<log[1]>>, max |-> log[1].batch] /\ CutParts(F[1], log, 1)
  <2>1. F[0 + 1] = Cut(F[0], log[0 + 1])
    BY <1>1, <1>4
  <2>2. F[1] = Cut(Uncut, log[1])
    BY <1>3, <2>1
  <2> QED BY <1>1, <2>2, PartsFirst
<1> DEFINE own == [i \in 1 .. m |-> Len(F[i].done) + 1]
           top == [i \in 1 .. m |-> F[i].max]
<1>6. \A i \in 1 .. m : own[i] = Len(F[i].done) + 1 /\ top[i] = F[i].max
  OBVIOUS
<1>7. \A i \in 1 .. m : F[i] \in CutStates /\ F[i].done \in Seq(Seq(LogRecords)) /\ Len(F[i].done) \in Nat /\ F[i].max \in Int
  BY <1>1, <1>3 DEF CutStates
<1>8. CutsAs(own, top, log, m)
  <2>1. own \in [1 .. m -> Nat] /\ top \in [1 .. m -> Int]
    BY <1>7
  <2>2. own[1] = 1 /\ top[1] = log[1].batch
    <3>1. 1 \in 1 .. m /\ Len(<<>>) = 0
      BY <1>1
    <3> QED BY <1>5, <1>6, <3>1
  <2> HIDE DEF own, top
  <2>3. ASSUME NEW i \in 1 .. m, i + 1 \in 1 .. m
        PROVE  IF log[i + 1].batch = 0 /\ top[i] > 0
               THEN own[i + 1] = own[i] + 1 /\ top[i + 1] = 0
               ELSE own[i + 1] = own[i] /\ top[i + 1] = IF log[i + 1].batch > top[i] THEN log[i + 1].batch ELSE top[i]
    <3> DEFINE r == log[i + 1]
               acc == F[i]
    <3>1. i \in Nat /\ acc \in CutStates /\ r \in LogRecords /\ F[i + 1] = Cut(acc, r)
      BY <1>1, <1>4, <2>3
    <3>2. /\ own[i] = Len(acc.done) + 1 /\ top[i] = acc.max
          /\ own[i + 1] = Len(F[i + 1].done) + 1 /\ top[i + 1] = F[i + 1].max
      BY <1>6, <2>3
    <3>3. acc.done \in Seq(Seq(LogRecords)) /\ acc.current \in Seq(LogRecords)
      BY <3>1 DEF CutStates
    <3>4. Len(Append(acc.done, acc.current)) = Len(acc.done) + 1 /\ Len(acc.done) \in Nat
      <4> DEFINE U == Seq(LogRecords)
      <4>1. acc.done \in Seq(U) /\ acc.current \in U
        BY <3>3
      <4> HIDE DEF U
      <4> QED BY <4>1
    <3> HIDE DEF r, acc
    <3>5. CASE r.batch = 0 /\ top[i] > 0
      <4>1. F[i + 1] = CutOff(acc, r)
        BY <3>1, <3>2, <3>5, CutCases
      <4>2. F[i + 1].done = Append(acc.done, acc.current) /\ F[i + 1].max = 0
        BY <4>1 DEF CutOff
      <4> QED BY <3>2, <3>4, <3>5, <4>2 DEF r
    <3>6. CASE ~(r.batch = 0 /\ top[i] > 0)
      <4>1. F[i + 1] = CutOn(acc, r)
        BY <3>1, <3>2, <3>6, CutCases
      <4>2. F[i + 1].done = acc.done /\ F[i + 1].max = IF r.batch > acc.max THEN r.batch ELSE acc.max
        BY <4>1 DEF CutOn
      <4> QED BY <3>2, <3>6, <4>2 DEF r
    <3> QED BY <3>5, <3>6
  <2> QED BY <2>1, <2>2, <2>3 DEF CutsAs
<1> HIDE DEF own, top
<1> DEFINE Is(i) == CutParts(F[i], log, i) /\ CutHas(F[i], own, log, i)
           Good == {i \in Nat : i = 0 \/ i > m \/ Is(i)}
<1>9. 0 \in Good
  OBVIOUS
<1>10. ASSUME NEW i \in Nat, i \in Good PROVE i + 1 \in Good
  <2> SUFFICES ASSUME i + 1 <= m PROVE Is(i + 1)
    BY <1>1
  <2>1. F[i] \in CutStates /\ F[i + 1] = Cut(F[i], log[i + 1])
    BY <1>4
  <2>2. CASE i = 0
    <3>1. i + 1 = 1 /\ 1 \in 1 .. m
      BY <1>1, <2>2
    <3> DEFINE acc == F[1]
               t == <<log[1]>>
    <3>2. acc.done = <<>> /\ acc.current = t /\ Len(<<>>) = 0
      BY <1>5
    <3>3. own[1] = 1
      BY <1>8 DEF CutsAs
    <3>4. Has(t, own, 1, log, 1)
      <4>1. 0 + 1 \in 1 .. Len(log) /\ own[0 + 1] = 1 /\ \A j \in 1 .. 0 : own[j] # 1
        BY <3>1, <3>3
      <4>2. Has(<<log[0 + 1]>>, own, 1, log, 0 + 1)
        BY <4>1, HasOne
      <4> QED BY <4>2
    <3> HIDE DEF acc, t
    <3>5. CutHas(acc, own, log, 1)
      BY <3>2, <3>3, <3>4 DEF CutHas
    <3> QED BY <1>5, <3>1, <3>5 DEF acc
  <2>3. CASE i # 0
    <3>1. i \in 1 .. m /\ i + 1 \in 1 .. m
      BY <1>1, <2>3
    <3>2. Is(i)
      BY <1>1, <1>10, <2>3, <3>1
    <3>3. CutParts(F[i + 1], log, i + 1)
      BY <2>1, <3>1, <3>2, PartsNext
    <3>4. F[i].max = top[i]
      BY <1>6, <3>1
    <3>5. CutHas(F[i + 1], own, log, i + 1)
      <4> HIDE DEF Good
      <4> QED BY <1>8, <2>1, <3>1, <3>2, <3>4, HasNext
    <3> QED BY <3>3, <3>5
  <2> QED BY <2>2, <2>3
<1>11. m \in Good
  <2> HIDE DEF Good, m
  <2> QED BY <1>1, <1>9, <1>10, SetInduction
<1>12. Is(m)
  BY <1>1, <1>11
<1> DEFINE cut == CutAll(log)
           R == LogRecords
           U == Seq(R)
           p == Append(cut.done, cut.current)
           n == Len(cut.done)
<1>13. cut \in CutStates /\ CutParts(cut, log, m) /\ CutHas(cut, own, log, m)
  <2>1. m \in 1 .. m
    BY <1>1
  <2> QED BY <1>2, <1>7, <1>12, <2>1
<1>14. ParseLog(raw) = IF cut.current = <<>> THEN cut.done ELSE p
  BY DEF ParseLog, CutAll, Uncut
<1> HIDE DEF cut, Is, Good
<1>15. cut.done \in Seq(U) /\ cut.current \in U /\ n \in Nat
  BY <1>13 DEF CutStates
<1>16. ParseLog(raw) = p
  BY <1>13, <1>14 DEF CutParts
<1>17. FlattenSeq(p) = log
  <2>1. FlattenSeq(p) = FlattenSeq(cut.done) \o cut.current
    BY <1>15, FlattenAppend
  <2>2. FlattenSeq(p) = SubSeq(log, 1, m)
    BY <1>13, <2>1 DEF CutParts
  <2>3. SubSeq(log, 1, m) = log
    <3>1. log \in Seq(R)
      OBVIOUS
    <3> HIDE DEF R
    <3> QED BY <1>1, <3>1, SubSeqFull
  <2> QED BY <2>2, <2>3
<1>18. p \in Seq(U) /\ Len(p) = n + 1 /\ p[n + 1] = cut.current /\ \A t \in 1 .. n : p[t] = cut.done[t]
  <2> HIDE DEF U, R
  <2> QED BY <1>15
<1> HIDE DEF p
<1>19. own[m] = Len(p) /\ \A s \in 1 .. Len(p) : Has(p[s], own, s, log, m)
  <2>1. /\ own[m] = n + 1
        /\ \A s \in 1 .. n : Has(cut.done[s], own, s, log, m)
        /\ Has(cut.current, own, own[m], log, m)
    BY <1>13 DEF CutHas
  <2>2. \A s \in 1 .. n + 1 : s \in 1 .. n \/ s = n + 1
    BY <1>15
  <2>3. ASSUME NEW s \in 1 .. n + 1 PROVE Has(p[s], own, s, log, m)
    <3>1. CASE s \in 1 .. n
      BY <1>18, <2>1, <3>1
    <3>2. CASE s = n + 1
      BY <1>18, <2>1, <3>2
    <3> QED BY <2>2, <3>1, <3>2
  <2> HIDE DEF n, m
  <2> QED BY <1>18, <2>1, <2>3
<1> QED BY <1>8, <1>16, <1>17, <1>18, <1>19

LEMMA ParseEmpty ==
  ASSUME NEW raw, Matched(raw) = <<>>
  PROVE  ParseLog(raw) = <<>>
<1>1. DOMAIN <<>> = 1 .. 0 /\ \A i \in 1 .. 0 : <<>>[i] \in LogRecords
  OBVIOUS
<1>2. PICK F : Runs(F, CutStates, CutOne, Uncut, <<>>, 0) /\ F[0] = CutAll(<<>>)
  BY <1>1, CutRuns
<1>3. CutAll(<<>>) = Uncut
  BY <1>2 DEF Runs
<1>4. Uncut.current = <<>> /\ Uncut.done = <<>>
  BY DEF Uncut
<1> QED BY <1>3, <1>4 DEF ParseLog, CutAll, Uncut

-----------------------------------------------------------------------------
(* The table of a segment. *)

Within(segment, b) == {k \in DOMAIN segment : segment[k].batch = b}
NotAfter(segment, b) == {k \in DOMAIN segment : segment[k].batch <= b}
BatchesOf(segment) == {segment[k].batch : k \in DOMAIN segment}
NewSum(log, T) == MapThenSumSet(LAMBDA k : log[k].new, T)
RewardSum(rows, T) == MapThenSumSet(LAMBDA j : rows[j].reward[1], T)
TiersOf(segment, b) == [t \in Range(Tiers) |-> Quantify(Within(segment, b), LAMBDA k : Tier(segment[k]) = t)]
RewardsOf(segment, b) ==
  <<Cardinality(Within(segment, b)),
    MapThenSumSet(LAMBDA k : TierReward[Tier(segment[k])], Within(segment, b)),
    MapThenSumSet(LAMBDA k : TierReward[Tier(segment[k])] * TierReward[Tier(segment[k])], Within(segment, b))>>
RowOf(segment, b) ==
  [batch |-> b, tiers |-> TiersOf(segment, b), reward |-> RewardsOf(segment, b),
   cumulative_pcs |-> NewSum(segment, NotAfter(segment, b))]

LEMMA RowsAre ==
  ASSUME NEW segment
  PROVE  AggregateLog(segment) = [j \in DOMAIN InOrder(BatchesOf(segment)) |-> RowOf(segment, InOrder(BatchesOf(segment))[j])]
BY DEF AggregateLog, RowOf, TiersOf, RewardsOf, NewSum, Within, NotAfter, BatchesOf

LEMMA RowIs ==
  ASSUME NEW segment, NEW b
  PROVE  /\ RowOf(segment, b).reward[1] = Cardinality(Within(segment, b))
         /\ RowOf(segment, b).tiers = TiersOf(segment, b)
         /\ RowOf(segment, b).cumulative_pcs = NewSum(segment, NotAfter(segment, b))
<1>1. RowOf(segment, b).reward = RewardsOf(segment, b)
  BY DEF RowOf
<1>2. RewardsOf(segment, b)[1] = Cardinality(Within(segment, b))
  BY DEF RewardsOf
<1>3. RowOf(segment, b).tiers = TiersOf(segment, b)
  BY DEF RowOf
<1>4. RowOf(segment, b).cumulative_pcs = NewSum(segment, NotAfter(segment, b))
  BY DEF RowOf
<1> QED BY <1>1, <1>2, <1>3, <1>4

LEMMA NewSumIs ==
  ASSUME NEW log, NEW T, IsFiniteSet(T), NEW g, \A k \in T : g[k] \in Nat /\ g[k] = log[k].new
  PROVE  NewSum(log, T) = SumOf(g, T)
<1> DEFINE Solves(h) == h = [s \in SUBSET T |-> IF s = {} THEN 0 ELSE log[Some(s)].new + h[s \ {Some(s)}]]
<1>3. \A s \in SUBSET T : s # {} => Some(s) \in T
  BY DEF Some
<1>4. NewSum(log, T) = (CHOOSE h : Solves(h))[T]
  BY DEF NewSum, MapThenSumSet, MapThenFoldSet, Some
<1>5. \A h : Solves(h) <=> Adds(h, g, T)
  BY <1>3 DEF Adds
<1> DEFINE h0 == CHOOSE h : Solves(h)
<1>6. Adds(h0, g, T)
  <2>1. \E h : Adds(h, g, T)
    BY SumsAdd
  <2>2. \E h : Solves(h)
    BY <1>5, <2>1
  <2> HIDE DEF Solves
  <2>3. Solves(h0)
    BY <2>2
  <2> QED BY <1>5, <2>3
<1>7. h0[T] = SumOf(g, T)
  <2> HIDE DEF h0
  <2> QED BY <1>6, SumsAdd
<1> QED BY <1>4, <1>7

LEMMA RewardSumIs ==
  ASSUME NEW rows, NEW T, IsFiniteSet(T), NEW g, \A j \in T : g[j] \in Nat /\ g[j] = rows[j].reward[1]
  PROVE  RewardSum(rows, T) = SumOf(g, T)
<1> DEFINE Solves(h) == h = [s \in SUBSET T |-> IF s = {} THEN 0 ELSE rows[Some(s)].reward[1] + h[s \ {Some(s)}]]
<1>3. \A s \in SUBSET T : s # {} => Some(s) \in T
  BY DEF Some
<1>4. RewardSum(rows, T) = (CHOOSE h : Solves(h))[T]
  BY DEF RewardSum, MapThenSumSet, MapThenFoldSet, Some
<1>5. \A h : Solves(h) <=> Adds(h, g, T)
  BY <1>3 DEF Adds
<1> DEFINE h0 == CHOOSE h : Solves(h)
<1>6. Adds(h0, g, T)
  <2>1. \E h : Adds(h, g, T)
    BY SumsAdd
  <2>2. \E h : Solves(h)
    BY <1>5, <2>1
  <2> HIDE DEF Solves
  <2>3. Solves(h0)
    BY <2>2
  <2> QED BY <1>5, <2>3
<1>7. h0[T] = SumOf(g, T)
  <2> HIDE DEF h0
  <2> QED BY <1>6, SumsAdd
<1> QED BY <1>4, <1>7

LEMMA TierIs == Range(Tiers) = {"new_pcs", "valid", "rejected", "encode_fail", "crash"} /\ IsFiniteSet(Range(Tiers)) /\ \A r : Tier(r) \in Range(Tiers)
<1>1. DOMAIN Tiers = 1 .. 5 /\ Tiers[1] = "new_pcs" /\ Tiers[2] = "valid" /\ Tiers[3] = "rejected" /\ Tiers[4] = "encode_fail" /\ Tiers[5] = "crash"
  BY DEF Tiers
<1>2. \A i : i \in 1 .. 5 <=> i = 1 \/ i = 2 \/ i = 3 \/ i = 4 \/ i = 5
  OBVIOUS
<1>3. Range(Tiers) = {"new_pcs", "valid", "rejected", "encode_fail", "crash"}
  BY <1>1, <1>2 DEF Range
<1>4. IsFiniteSet(Range(Tiers))
  <2>1. IsFiniteSet(1 .. 5)
    <3>1. \A n \in Nat : IsFiniteSet(1 .. n)
      BY FS_Interval
    <3> QED BY <3>1
  <2>2. IsFiniteSet({Tiers[i] : i \in 1 .. 5})
    BY <2>1, ValuesFinite
  <2> QED BY <1>1, <2>2 DEF Range
<1>5. ASSUME NEW r PROVE Tier(r) \in {"new_pcs", "valid", "rejected", "encode_fail", "crash"}
  BY DEF Tier
<1> QED BY <1>3, <1>4, <1>5

\* The batches of a segment in order, and a row for each.
Table(segment, J, b) ==
  /\ J >= 1
  /\ b \in [1 .. J -> BatchesOf(segment)]
  /\ \A x \in BatchesOf(segment) : \E j \in 1 .. J : b[j] = x
  /\ \A i, j \in 1 .. J : i < j => b[i] < b[j]
  /\ BatchesOf(segment) \in SUBSET Nat
  /\ AggregateLog(segment) = [j \in 1 .. J |-> RowOf(segment, b[j])]

LEMMA BatchesAre ==
  ASSUME NEW segment, NEW n \in Nat, n >= 1, DOMAIN segment = 1 .. n, \A k \in 1 .. n : segment[k].batch \in Nat
  PROVE  \E J \in Nat : \E b : Table(segment, J, b)
<1> DEFINE B == BatchesOf(segment)
           J == Cardinality(B)
           b == InOrder(B)
<1>1. IsFiniteSet(B)
  <2> DEFINE h == [k \in 1 .. n |-> segment[k].batch]
  <2>1. IsFiniteSet(1 .. n)
    BY FS_Interval
  <2>2. IsFiniteSet({h[k] : k \in 1 .. n})
    <3> HIDE DEF h
    <3> QED BY <2>1, ValuesFinite
  <2>3. B = {h[k] : k \in 1 .. n}
    BY DEF BatchesOf
  <2> HIDE DEF h, B
  <2> QED BY <2>2, <2>3
<1>2. B \in SUBSET Nat /\ segment[1].batch \in B
  BY DEF BatchesOf
<1> HIDE DEF B
<1>3. J \in Nat /\ J # 0
  BY <1>1, <1>2, FS_CardinalityType, FS_EmptySet
<1>4. Enumerates(b, J, B)
  BY <1>1, <1>2, InOrderUp
<1>5. /\ b \in [1 .. J -> B] /\ (\A x \in B : \E j \in 1 .. J : b[j] = x)
      /\ \A i, j \in 1 .. J : i < j => b[i] < b[j]
  BY <1>4 DEF Enumerates
<1>6. AggregateLog(segment) = [j \in DOMAIN b |-> RowOf(segment, b[j])]
  BY RowsAre DEF B
<1>7. AggregateLog(segment) = [j \in 1 .. J |-> RowOf(segment, b[j])]
  <2>1. DOMAIN b = 1 .. J
    BY <1>5
  <2> HIDE DEF b, J
  <2> QED BY <1>6, <2>1
<1> HIDE DEF b, J
<1>8. J >= 1
  BY <1>3
<1>9. Table(segment, J, b)
  BY <1>2, <1>3, <1>5, <1>7, <1>8 DEF B, Table
<1> QED BY <1>3, <1>9

\* The rows of a segment count every line of it once.
LEMMA LinesCounted ==
  ASSUME NEW segment, NEW n \in Nat, n >= 1, DOMAIN segment = 1 .. n, \A k \in 1 .. n : segment[k].batch \in Nat
  PROVE  RewardSum(AggregateLog(segment), DOMAIN AggregateLog(segment)) = n
<1> DEFINE B == BatchesOf(segment)
           rows == AggregateLog(segment)
<1>0. PICK J \in Nat : \E b : Table(segment, J, b)
  BY BatchesAre
<1>0a. PICK b : Table(segment, J, b)
  BY <1>0
<1>1.    /\ b \in [1 .. J -> B] /\ (\A x \in B : \E j \in 1 .. J : b[j] = x)
         /\ (\A i, j \in 1 .. J : i < j => b[i] < b[j]) /\ B \in SUBSET Nat
         /\ rows = [j \in 1 .. J |-> RowOf(segment, b[j])]
  BY <1>0a DEF Table
<1> DEFINE T == 1 .. J
           S == 1 .. n
           C == [j \in T |-> Within(segment, b[j])]
           g == [j \in T |-> Cardinality(C[j])]
           label == [k \in S |-> CHOOSE j \in T : b[j] = segment[k].batch]
<1>2. IsFiniteSet(T) /\ IsFiniteSet(S) /\ Cardinality(S) = n
  BY FS_Interval
<1>3. DOMAIN rows = T
  BY <1>1
<1>4. \A k \in S : label[k] \in T /\ b[label[k]] = segment[k].batch
  <2>1. \A k \in S : segment[k].batch \in B
    BY DEF BatchesOf
  <2>2. \A k \in S : \E j \in T : b[j] = segment[k].batch
    BY <1>1, <2>1
  <2> HIDE DEF B, T
  <2> QED BY <2>2
<1>5. \A i, j \in T : b[i] = b[j] => i = j
  <2> SUFFICES ASSUME NEW i \in T, NEW j \in T, b[i] = b[j], i < j \/ j < i PROVE FALSE
    OBVIOUS
  <2>1. b[i] < b[j] \/ b[j] < b[i]
    BY <1>1
  <2>2. b[i] \in Nat /\ b[j] \in Nat
    BY <1>1
  <2> QED BY <2>1, <2>2
<1>6. \A j \in T : C[j] = {k \in S : segment[k].batch = b[j]}
  BY DEF Within
<1> HIDE DEF label, T, S, C, B, rows
<1>7. Classes(C, T, S, label)
  <2>1. ASSUME NEW j \in T, NEW k \in S PROVE segment[k].batch = b[j] <=> label[k] = j
    BY <1>4, <1>5
  <2>2. ASSUME NEW j \in T PROVE C[j] = {k \in S : label[k] = j}
    <3>1. {k \in S : segment[k].batch = b[j]} = {k \in S : label[k] = j}
      BY <2>1
    <3> QED BY <1>6, <3>1
  <2> QED BY <2>2 DEF Classes
<1>8. \A j \in T : g[j] = Cardinality(C[j])
  OBVIOUS
<1> HIDE DEF g
<1>9. SumOf(g, T) = Cardinality(S)
  <2>1. \A k \in S : label[k] \in T
    BY <1>4
  <2> QED BY <1>2, <1>7, <1>8, <2>1, SumPartition
<1>10. \A j \in T : g[j] \in Nat /\ g[j] = rows[j].reward[1]
  <2> SUFFICES ASSUME NEW j \in T PROVE g[j] \in Nat /\ g[j] = rows[j].reward[1]
    OBVIOUS
  <2>1. IsFiniteSet(C[j])
    <3>1. C[j] \in SUBSET S
      BY <1>6
    <3> QED BY <1>2, <3>1, FS_Subset
  <2>2. g[j] \in Nat
    BY <1>8, <2>1, FS_CardinalityType
  <2>3. rows[j] = RowOf(segment, b[j])
    BY <1>1 DEF T
  <2>4. rows[j].reward[1] = Cardinality(Within(segment, b[j]))
    BY <2>3, RowIs
  <2>5. C[j] = Within(segment, b[j])
    BY DEF C
  <2> QED BY <1>8, <2>2, <2>4, <2>5
<1>11. RewardSum(rows, T) = SumOf(g, T)
  BY <1>2, <1>10, RewardSumIs
<1> QED BY <1>2, <1>3, <1>9, <1>11 DEF rows

\* The tiers of a row share its lines.
LEMMA TiersCounted ==
  ASSUME NEW segment, NEW n \in Nat, DOMAIN segment = 1 .. n, NEW b
  PROVE  SumOf(RowOf(segment, b).tiers, Range(Tiers)) = RowOf(segment, b).reward[1]
<1> DEFINE T == Range(Tiers)
           S == Within(segment, b)
           label == [k \in S |-> Tier(segment[k])]
           C == [t \in T |-> {k \in S : Tier(segment[k]) = t}]
           g == TiersOf(segment, b)
<1>1. IsFiniteSet(S)
  <2>1. IsFiniteSet(1 .. n)
    BY FS_Interval
  <2>2. S \in SUBSET (1 .. n)
    BY DEF Within
  <2> HIDE DEF S
  <2> QED BY <2>1, <2>2, FS_Subset
<1>2. IsFiniteSet(T) /\ \A r : Tier(r) \in T
  BY TierIs
<1>3. \A t \in T : g[t] = Cardinality(C[t])
  BY DEF TiersOf, Quantify
<1> HIDE DEF T, S, g
<1>4. \A k \in S : label[k] = Tier(segment[k]) /\ label[k] \in T
  BY <1>2
<1>5. Classes(C, T, S, label)
  <2>1. \A t \in T : C[t] = {k \in S : label[k] = t}
    BY <1>4
  <2> QED BY <2>1 DEF Classes
<1> HIDE DEF C, label
<1>6. SumOf(g, T) = Cardinality(S)
  BY <1>1, <1>2, <1>3, <1>4, <1>5, SumPartition
<1> QED BY <1>6, RowIs DEF g, S, T

\* The last row has the counters of every line.
LEMMA LastRow ==
  ASSUME NEW segment, NEW n \in Nat, n >= 1, DOMAIN segment = 1 .. n,
         \A k \in 1 .. n : segment[k].batch \in Nat
  PROVE  AggregateLog(segment)[Len(AggregateLog(segment))].cumulative_pcs = NewSum(segment, 1 .. n)
<1>1. PICK J \in Nat : \E b : Table(segment, J, b)
  BY BatchesAre
<1>2. PICK b : Table(segment, J, b)
  BY <1>1
<1> DEFINE B == BatchesOf(segment)
           rows == AggregateLog(segment)
<1>3. /\ J >= 1 /\ b \in [1 .. J -> B] /\ (\A x \in B : \E j \in 1 .. J : b[j] = x)
      /\ (\A i, j \in 1 .. J : i < j => b[i] < b[j]) /\ B \in SUBSET Nat
      /\ rows = [j \in 1 .. J |-> RowOf(segment, b[j])]
  BY <1>2 DEF Table
<1>4. Len(rows) = J /\ rows[J] = RowOf(segment, b[J])
  <2> HIDE DEF rows
  <2>1. J \in 1 .. J
    BY <1>3
  <2> QED BY <1>3, <2>1
<1>5. ASSUME NEW k \in 1 .. n PROVE segment[k].batch <= b[J]
  <2>1. segment[k].batch \in B
    BY DEF BatchesOf
  <2>2. PICK j \in 1 .. J : b[j] = segment[k].batch
    BY <1>3, <2>1
  <2>3. J \in 1 .. J /\ (j = J \/ j < J)
    BY <1>3
  <2>4. b[J] \in Nat /\ b[j] \in Nat
    BY <1>3, <2>3
  <2> QED BY <1>3, <2>2, <2>3, <2>4
<1>6. NotAfter(segment, b[J]) = 1 .. n
  BY <1>5 DEF NotAfter
<1> HIDE DEF rows
<1>7. rows[Len(rows)].cumulative_pcs = NewSum(segment, NotAfter(segment, b[J]))
  BY <1>4, RowIs
<1> QED BY <1>6, <1>7 DEF rows

\* What the table of a segment counts.
TableIs(segment) ==
  LET rows == AggregateLog(segment)
  IN  /\ RewardSum(rows, DOMAIN rows) = Len(segment)
      /\ \A j \in DOMAIN rows : SumOf(rows[j].tiers, Range(Tiers)) = rows[j].reward[1]
      /\ rows[Len(rows)].cumulative_pcs = NewSum(segment, DOMAIN segment)

LEMMA SegmentTable ==
  ASSUME NEW segment \in Seq(LogRecords), Len(segment) >= 1
  PROVE  TableCounts(segment)
<1> DEFINE n == Len(segment)
           rows == AggregateLog(segment)
<1>1. n \in Nat /\ n >= 1 /\ DOMAIN segment = 1 .. n /\ \A k \in 1 .. n : segment[k].batch \in Nat
  BY RecordsAre
<1>2. n = Len(segment)
  OBVIOUS
<1> HIDE DEF n
<1>5. RewardSum(rows, DOMAIN rows) = n
  BY <1>1, LinesCounted
<1>6. \A j \in DOMAIN rows : SumOf(rows[j].tiers, Range(Tiers)) = rows[j].reward[1]
  <2>1. PICK J \in Nat : \E b : Table(segment, J, b)
    BY <1>1, BatchesAre
  <2>2. PICK b : Table(segment, J, b)
    BY <2>1
  <2>3. rows = [j \in 1 .. J |-> RowOf(segment, b[j])]
    BY <2>2 DEF Table
  <2> HIDE DEF rows
  <2> SUFFICES ASSUME NEW j \in DOMAIN rows PROVE SumOf(rows[j].tiers, Range(Tiers)) = rows[j].reward[1]
    OBVIOUS
  <2>4. rows[j] = RowOf(segment, b[j])
    BY <2>3
  <2>5. SumOf(RowOf(segment, b[j]).tiers, Range(Tiers)) = RowOf(segment, b[j]).reward[1]
    BY <1>1, TiersCounted
  <2> QED BY <2>4, <2>5
<1>7. rows[Len(rows)].cumulative_pcs = NewSum(segment, DOMAIN segment)
  BY <1>1, LastRow
<1>8. TableIs(segment)
  BY <1>2, <1>5, <1>6, <1>7 DEF TableIs
<1> QED BY <1>8 DEF TableIs, TableCounts, RewardSum, SumOf, NewSum

\* The lines that the pattern matches keep the order of the log.
LEMMA MatchedIs ==
  ASSUME NEW raw \in Seq(LogRecords), NEW wild, Climbs(raw, wild, Len(raw))
  PROVE  Matched(raw) \in Seq(LogRecords) /\ Climbs(Matched(raw), wild, Len(Matched(raw)))
<1> DEFINE P == {k \in DOMAIN raw : Matches(raw[k])}
           K == P \cap DOMAIN raw
           n == Cardinality(K)
           f == InOrder(K)
           log == [i \in 1 .. n |-> raw[f[i]]]
           R == LogRecords
<1>1. Len(raw) \in Nat /\ DOMAIN raw = 1 .. Len(raw) /\ \A k \in 1 .. Len(raw) : raw[k] \in R
  BY RecordsAre
<1>2. IsFiniteSet(K) /\ K \in SUBSET Nat /\ K \in SUBSET (1 .. Len(raw))
  <2>1. IsFiniteSet(1 .. Len(raw))
    BY <1>1, FS_Interval
  <2>2. K \in SUBSET (1 .. Len(raw))
    BY <1>1
  <2>3. K \in SUBSET Nat
    BY <1>1, <2>2
  <2> HIDE DEF K
  <2> QED BY <2>1, <2>2, <2>3, FS_Subset
<1>3. n \in Nat
  BY <1>2, FS_CardinalityType
<1>4. Enumerates(f, n, K)
  <2> HIDE DEF K
  <2> QED BY <1>2, InOrderUp
<1>5. f \in [1 .. n -> K] /\ \A i, j \in 1 .. n : i < j => f[i] < f[j]
  BY <1>4 DEF Enumerates
<1>6. Matched(raw) = log
  <2>1. Matched(raw) = [i \in DOMAIN f |-> raw[f[i]]]
    BY DEF Matched, ItemsAt
  <2>2. DOMAIN f = 1 .. n
    BY <1>5
  <2> HIDE DEF f, n
  <2> QED BY <2>1, <2>2
<1> HIDE DEF P, K, n, f
<1>7. \A i \in 1 .. n : f[i] \in 1 .. Len(raw) /\ log[i] = raw[f[i]] /\ log[i] \in R
  BY <1>1, <1>2, <1>5
<1>8. log \in Seq(R) /\ Len(log) = n
  <2>1. log \in [1 .. n -> R]
    BY <1>7
  <2> HIDE DEF log, R
  <2> QED BY <1>3, <2>1
<1> HIDE DEF log
<1>9. Climbs(log, wild, n)
  <2>1. ASSUME NEW i \in 1 .. n, NEW j \in 1 .. n, i <= j PROVE f[i] <= f[j]
    <3>1. f[i] \in Int /\ f[j] \in Int
      BY <1>7
    <3>2. i < j \/ i = j
      BY <1>3, <2>1
    <3>3. i < j => f[i] < f[j]
      BY <1>5
    <3> QED BY <3>1, <3>2, <3>3
  <2>2. ASSUME NEW i \in 1 .. n, NEW j \in 1 .. n, i <= j
        PROVE  /\ log[i].run <= log[j].run
               /\ log[i].run = log[j].run /\ log[j].run \notin wild => log[i].batch <= log[j].batch
    <3>1. f[i] <= f[j] /\ f[i] \in 1 .. Len(raw) /\ f[j] \in 1 .. Len(raw) /\ log[i] = raw[f[i]] /\ log[j] = raw[f[j]]
      BY <1>7, <2>1, <2>2
    <3> QED BY <3>1 DEF Climbs
  <2> QED BY <2>2 DEF Climbs
<1> QED BY <1>6, <1>8, <1>9 DEF R

-----------------------------------------------------------------------------
\* What the cutting promises of the lines log and the segments.
Promise(log, segments, wild) ==
  /\ FlattenSeq(segments) = log
  /\ \A s \in DOMAIN segments : TableCounts(segments[s])
  /\ \A s, t \in DOMAIN segments : s # t => RunsOf(segments[s]) \cap RunsOf(segments[t]) \subseteq wild
  /\ (\A run \in RunsOf(log) : run \notin wild /\ Shows(log, run)) =>
       /\ Len(segments) = Cardinality(RunsOf(log))
       /\ \A s \in DOMAIN segments : Cardinality(RunsOf(segments[s])) = 1

LEMMA RunsCut ==
  ASSUME NEW raw \in Seq(LogRecords), NEW wild, Climbs(raw, wild, Len(raw))
  PROVE  Promise(Matched(raw), ParseLog(raw), wild)
<1> DEFINE log == Matched(raw)
           segments == ParseLog(raw)
           m == Len(log)
           n == Len(segments)
<1>1. log \in Seq(LogRecords) /\ Climbs(log, wild, m)
  BY MatchedIs
<1>2. /\ m \in Nat /\ DOMAIN log = 1 .. m
      /\ \A k \in 1 .. m : log[k].batch \in Nat /\ log[k].run \in Nat
  BY <1>1, RecordsAre
<1>3. CASE log = <<>>
  <2>1. segments = <<>>
    BY <1>3, ParseEmpty
  <2>2. FlattenSeq(<<>>) = <<>>
    BY DEF FlattenSeq
  <2>3. Len(<<>>) = 0 /\ DOMAIN <<>> = {}
    OBVIOUS
  <2>4. RunsOf(<<>>) = {}
    BY <2>3 DEF RunsOf
  <2>5. Cardinality(RunsOf(<<>>)) = 0
    BY <2>4, FS_EmptySet
  <2> HIDE DEF log, segments
  <2> QED BY <1>3, <2>1, <2>2, <2>3, <2>5 DEF Promise, log, segments
<1>4. CASE log # <<>>
  <2>1. m > 0
    BY <1>1, <1>2, <1>4
  <2>2. /\ segments \in Seq(Seq(LogRecords)) /\ FlattenSeq(segments) = log
        /\ \E own, top : /\ CutsAs(own, top, log, m)
                         /\ own[m] = Len(segments)
                         /\ \A s \in 1 .. Len(segments) : Has(segments[s], own, s, log, m)
    BY <1>1, <2>1, ParseIs
  <2>3. PICK own, top : /\ CutsAs(own, top, log, m) /\ own[m] = n
                        /\ \A s \in 1 .. n : Has(segments[s], own, s, log, m)
    BY <2>2
  <2> HIDE DEF log, segments
  <2>4. n \in Nat /\ DOMAIN segments = 1 .. n /\ \A s \in 1 .. n : segments[s] \in Seq(LogRecords)
    <3> DEFINE U == Seq(LogRecords)
    <3>1. segments \in Seq(U)
      BY <2>2
    <3> HIDE DEF U
    <3> QED BY <3>1 DEF U
  <2> HIDE DEF n, m
  <2>5. \A k \in 1 .. m : own[k] \in 1 .. n
    <3> SUFFICES ASSUME NEW k \in 1 .. m PROVE own[k] \in 1 .. n
      OBVIOUS
    <3>1. m \in 1 .. m /\ k <= m
      BY <1>2, <2>1
    <3>2. own[k] <= own[m]
      BY <1>2, <2>3, <3>1, OwnClimbs
    <3>3. own[k] >= 1
      BY <1>2, <2>3, OwnAll DEF AllOwned
    <3>4. own[k] \in Nat
      BY <2>3 DEF CutsAs
    <3> QED BY <2>3, <2>4, <3>2, <3>3, <3>4
  <2>6. \A s \in 1 .. n : \E k \in 1 .. m : own[k] = s
    <3>1. m \in 1 .. m
      BY <1>2, <2>1
    <3>2. m \in Nat /\ CutsAs(own, top, log, m)
      BY <1>2, <2>3
    <3>3. AllOwned(own, m)
      BY <3>1, <3>2, OwnAll
    <3> QED BY <2>3, <3>3 DEF AllOwned
  <2>7. ASSUME NEW s \in 1 .. n
        PROVE  RunsOf(segments[s]) = {log[k].run : k \in {j \in 1 .. m : own[j] = s}}
    <3> DEFINE segment == segments[s]
               J == {j \in 1 .. m : own[j] = s}
               V == {log[k].run : k \in J}
    <3>1. /\ \A k \in 1 .. Len(segment) : \E j \in 1 .. m : own[j] = s /\ segment[k] = log[j]
          /\ \A j \in 1 .. m : own[j] = s => \E k \in 1 .. Len(segment) : segment[k] = log[j]
          /\ DOMAIN segment = 1 .. Len(segment)
      BY <2>3, <2>4, RecordsAre DEF Has
    <3> HIDE DEF segment
    <3>2. ASSUME NEW x \in RunsOf(segment) PROVE x \in V
      <4>1. PICK k \in 1 .. Len(segment) : x = segment[k].run
        BY <3>1 DEF RunsOf
      <4>2. PICK j \in 1 .. m : own[j] = s /\ segment[k] = log[j]
        BY <3>1
      <4> QED BY <4>1, <4>2
    <3>3. ASSUME NEW x \in V PROVE x \in RunsOf(segment)
      <4>1. PICK j \in 1 .. m : own[j] = s /\ x = log[j].run
        OBVIOUS
      <4>2. PICK k \in 1 .. Len(segment) : segment[k] = log[j]
        BY <3>1, <4>1
      <4> QED BY <3>1, <4>1, <4>2 DEF RunsOf
    <3> HIDE DEF V
    <3>4. RunsOf(segment) \subseteq V /\ V \subseteq RunsOf(segment)
      BY <3>2, <3>3
    <3>5. RunsOf(segment) = V
      BY <3>4, Zenon
    <3> QED BY <3>5 DEF V, J, segment
  <2>8. ASSUME NEW s \in 1 .. n PROVE TableCounts(segments[s])
    <3>1. PICK k \in 1 .. m : own[k] = s
      BY <2>6
    <3>2. \E x \in 1 .. Len(segments[s]) : segments[s][x] = log[k]
      BY <2>3, <3>1 DEF Has
    <3>3. segments[s] \in Seq(LogRecords) /\ Len(segments[s]) \in Nat
      BY <2>4, RecordsAre
    <3>4. Len(segments[s]) >= 1
      BY <3>2, <3>3
    <3> QED BY <3>3, <3>4, SegmentTable
  <2>9. ASSUME NEW s \in 1 .. n, NEW t \in 1 .. n, s # t, NEW run \in RunsOf(segments[s]) \cap RunsOf(segments[t])
        PROVE  run \in wild
    <3>1. PICK j \in 1 .. m : own[j] = s /\ log[j].run = run
      BY <2>7
    <3>2. PICK k \in 1 .. m : own[k] = t /\ log[k].run = run
      BY <2>7
    <3>3. own[j] < own[k] \/ own[k] < own[j]
      BY <2>9, <3>1, <3>2
    <3>4. CASE own[j] < own[k]
      <4>1. log[k].run \in wild
        BY <1>1, <1>2, <2>3, <3>1, <3>2, <3>4, RunsKeepTogether
      <4> QED BY <3>2, <4>1
    <3>5. CASE own[k] < own[j]
      <4>1. log[j].run \in wild
        BY <1>1, <1>2, <2>3, <3>1, <3>2, <3>5, RunsKeepTogether
      <4> QED BY <3>1, <4>1
    <3> QED BY <3>3, <3>4, <3>5
  <2>10. ASSUME \A run \in RunsOf(log) : run \notin wild /\ Shows(log, run)
         PROVE  /\ n = Cardinality(RunsOf(log))
                /\ \A s \in 1 .. n : Cardinality(RunsOf(segments[s])) = 1
    <3>1. RunsOf(log) = {log[k].run : k \in 1 .. m}
      BY <1>2 DEF RunsOf, m
    <3>2. ASSUME NEW k \in 1 .. m PROVE log[k].run \notin wild /\ Shows(log, log[k].run)
      BY <2>10, <3>1
    <3>3. ASSUME NEW j \in 1 .. m, NEW k \in 1 .. m, own[j] = own[k] PROVE log[j].run = log[k].run
      <4>1. ASSUME NEW a \in 1 .. m, NEW b \in 1 .. m, own[a] = own[b], log[a].run < log[b].run PROVE FALSE
        <5>1. PICK x \in 1 .. m : log[x].run = log[a].run /\ log[x].batch > 0
          BY <1>2, <3>2 DEF Shows, m
        <5>2. PICK y \in 1 .. m : log[y].run = log[b].run /\ log[y].batch = 0
          BY <1>2, <3>2 DEF Shows, m
        <5>3. log[a].run \notin wild /\ log[b].run \notin wild
          BY <3>2
        <5>4. own[a] # own[b]
          BY <1>1, <1>2, <2>3, <4>1, <5>1, <5>2, <5>3, RunsKeepApart DEF m
        <5> QED BY <4>1, <5>4
      <4>2. ~(log[j].run < log[k].run) /\ ~(log[k].run < log[j].run)
        BY <3>3, <4>1
      <4>3. log[j].run \in Nat /\ log[k].run \in Nat
        BY <1>2 DEF m
      <4> QED BY <4>2, <4>3
    <3> DEFINE h == [s \in 1 .. n |-> CHOOSE k \in 1 .. m : own[k] = s]
               g == [s \in 1 .. n |-> log[h[s]].run]
    <3>4. \A s \in 1 .. n : h[s] \in 1 .. m /\ own[h[s]] = s /\ g[s] = log[h[s]].run
      BY <2>6
    <3> HIDE DEF h, g
    <3>5. ASSUME NEW s \in 1 .. n PROVE RunsOf(segments[s]) = {g[s]}
      <4>1. RunsOf(segments[s]) = {log[k].run : k \in {j \in 1 .. m : own[j] = s}}
        BY <2>7
      <4>2. \A k \in 1 .. m : own[k] = s => log[k].run = g[s]
        BY <3>3, <3>4
      <4> QED BY <3>4, <4>1, <4>2
    <3>6. \A s \in 1 .. n : Cardinality(RunsOf(segments[s])) = 1
      BY <3>5, FS_Singleton
    <3>7. g \in Bijection(1 .. n, RunsOf(log))
      <4>1. g \in [1 .. n -> RunsOf(log)]
        BY <3>1, <3>4 DEF g
      <4>2. ASSUME NEW s \in 1 .. n, NEW t \in 1 .. n, g[s] = g[t] PROVE s = t
        <5>1. h[s] \in 1 .. m /\ own[h[s]] = s /\ h[t] \in 1 .. m /\ own[h[t]] = t /\ log[h[s]].run = log[h[t]].run
          BY <3>4, <4>2
        <5>2. ~(own[h[s]] < own[h[t]]) /\ ~(own[h[t]] < own[h[s]])
          BY <1>1, <1>2, <2>3, <3>2, <5>1, RunsKeepTogether DEF m
        <5> QED BY <5>1, <5>2
      <4>3. ASSUME NEW x \in RunsOf(log) PROVE \E s \in 1 .. n : g[s] = x
        <5>1. PICK k \in 1 .. m : x = log[k].run
          BY <3>1
        <5> DEFINE s == own[k]
        <5>2. s \in 1 .. n /\ h[s] \in 1 .. m /\ own[h[s]] = own[k] /\ g[s] = log[h[s]].run
          BY <2>5, <3>4
        <5>3. log[h[s]].run = log[k].run
          BY <3>3, <5>2
        <5> QED BY <5>1, <5>2, <5>3
      <4> QED BY <4>1, <4>2, <4>3 DEF Bijection, Injection, Surjection, IsInjective
    <3>8. Cardinality(RunsOf(log)) = n
      <4>1. IsFiniteSet(1 .. n) /\ Cardinality(1 .. n) = n
        BY <2>4, FS_Interval
      <4> QED BY <3>7, <4>1, FS_Bijection DEF ExistsBijection
    <3> QED BY <3>6, <3>8
  <2>11. Promise(log, segments, wild)
    <3>1. n = Len(segments)
      BY DEF n
    <3> QED BY <2>2, <2>4, <2>8, <2>9, <2>10, <3>1 DEF Promise
  <2> QED BY <2>11 DEF log, segments
<1> QED BY <1>3, <1>4

-----------------------------------------------------------------------------
LEMMA RlPart == OfflineInit => RlInit
BY DEF OfflineInit
LEMMA RlPartStep == [OfflineNext]_offlineVars => [RlNext]_rlVars
BY DEF OfflineNext, offlineVars, rlVars, Ladder, Assembler, LogLine, Tools, Data, Sampling, Bench, Grpo, Models

\* As long as its calls do not overlap, a process has one call at a time, with the
\* number of calls it has counted, and has logged no later batch.
OneCall ==
  rlRun \notin rlOverlapped =>
    /\ \A k \in 1 .. Len(rlLog) : rlLog[k].run = rlRun => rlLog[k].batch <= rlCalls
    /\ \A t \in RlCallers : rlOpen[t].pass # "none" => rlOpen[t].batch = rlCalls
    /\ \A t, u \in RlCallers : rlOpen[t].pass # "none" /\ rlOpen[u].pass # "none" => t = u

RlTyped ==
  /\ rlLog \in Seq(LogRecords) /\ rlRun \in Nat /\ rlCalls \in Nat
  /\ rlOpen \in [RlCallers -> [batch : Nat, pass : Passes]]
  /\ \A t \in RlCallers : rlOpen[t] = NoCall <=> rlOpen[t].pass = "none"

RlInv ==
  /\ RlTyped
  /\ \A k \in 1 .. Len(rlLog) : rlLog[k].run <= rlRun
  /\ Climbs(rlLog, rlOverlapped, Len(rlLog))
  /\ OneCall

LEMMA RlInitial == RlInit => RlInv
<1> SUFFICES ASSUME RlInit PROVE RlInv
  OBVIOUS
<1>1. Len(<<>>) = 0 /\ <<>> \in Seq(LogRecords)
  OBVIOUS
<1>2. NoCall \in [batch : Nat, pass : Passes] /\ NoCall.pass = "none"
  BY DEF NoCall, Passes
<1>3. \A t \in RlCallers : rlOpen[t] = NoCall
  BY DEF RlInit
<1>4. RlTyped
  BY <1>1, <1>2, <1>3 DEF RlInit, RlTyped
<1>5. Len(rlLog) = 0
  BY <1>1 DEF RlInit
<1> QED BY <1>2, <1>3, <1>4, <1>5 DEF RlInv, OneCall, Climbs

LEMMA RlWritten ==
  ASSUME RlInv, NEW t \in RlCallers, NEW line, NEW passes, NEW next, RlWrite(t, line, passes, next),
         line[1] \in {l[1] : l \in LogLines} \cup {"ENCODE_FAIL", "FLOOR", "BATCH_TIMEOUT"}, line[2] \in Nat,
         passes \subseteq {"encode", "scored"}, next \in Passes \ {"none"}
  PROVE  RlInv'
<1> DEFINE r == [batch |-> rlOpen[t].batch, run |-> rlRun, verdict |-> line[1], new |-> line[2]]
           R == LogRecords
           n == Len(rlLog)
           o == [batch |-> rlOpen[t].batch, pass |-> next]
           O == [batch : Nat, pass : Passes]
<1>0. /\ rlLog \in Seq(R) /\ rlRun \in Nat /\ rlCalls \in Nat /\ rlOpen \in [RlCallers -> O]
      /\ (\A u \in RlCallers : rlOpen[u] = NoCall <=> rlOpen[u].pass = "none")
      /\ \A k \in 1 .. n : rlLog[k].run <= rlRun
  BY DEF RlInv, RlTyped
<1>1. /\ rlOpen[t].pass \in passes
      /\ rlLog' = Append(rlLog, r) /\ rlOpen' = [rlOpen EXCEPT ![t] = o]
      /\ UNCHANGED <<rlRun, rlCalls, rlOverlapped>>
  BY DEF RlWrite
<1>2. rlOpen[t] \in O /\ rlOpen[t].batch \in Nat /\ rlOpen[t].pass # "none"
  BY <1>0, <1>1
<1>3. r \in R /\ r.run = rlRun /\ r.batch = rlOpen[t].batch
  BY <1>0, <1>2 DEF LogRecords
<1>4. o \in O /\ o.batch = rlOpen[t].batch /\ o.pass = next /\ o # NoCall /\ next # "none"
  BY <1>2 DEF NoCall, Passes
<1>5. \A k \in 1 .. n : rlLog[k].run \in Nat /\ rlLog[k].batch \in Nat
  BY <1>0, RecordsAre
<1> HIDE DEF r, R, o, O
<1>6. rlLog' \in Seq(R) /\ Len(rlLog') = n + 1 /\ (\A k \in 1 .. n : rlLog'[k] = rlLog[k]) /\ rlLog'[n + 1] = r /\ n \in Nat
  BY <1>0, <1>1, <1>3
<1>7. \A u \in RlCallers : rlOpen'[u] = IF u = t THEN o ELSE rlOpen[u]
  BY <1>0, <1>1
<1>8. RlTyped'
  <2>1. rlOpen' \in [RlCallers -> O]
    BY <1>0, <1>1, <1>4
  <2>2. \A u \in RlCallers : rlOpen'[u] = NoCall <=> rlOpen'[u].pass = "none"
    BY <1>0, <1>4, <1>7
  <2> QED BY <1>0, <1>1, <1>6, <2>1, <2>2 DEF RlTyped, R, O
<1> HIDE DEF n
<1>9. \A k \in 1 .. n + 1 : (k \in 1 .. n \/ k = n + 1) /\ k <= n + 1
  BY <1>6
<1>10. \A k \in 1 .. n + 1 : rlLog'[k].run <= rlRun'
  <2> SUFFICES ASSUME NEW k \in 1 .. n + 1 PROVE rlLog'[k].run <= rlRun'
    OBVIOUS
  <2>1. CASE k \in 1 .. n
    BY <1>0, <1>1, <1>6, <2>1
  <2>2. CASE k = n + 1
    BY <1>0, <1>1, <1>3, <1>6, <2>2
  <2> QED BY <1>9, <2>1, <2>2
<1>11. rlRun \notin rlOverlapped => /\ r.batch = rlCalls
                                    /\ \A k \in 1 .. n : rlLog[k].run = rlRun => rlLog[k].batch <= rlCalls
                                    /\ \A u \in RlCallers : rlOpen[u].pass # "none" => rlOpen[u].batch = rlCalls
                                    /\ \A u, v \in RlCallers : rlOpen[u].pass # "none" /\ rlOpen[v].pass # "none" => u = v
  BY <1>2, <1>3 DEF RlInv, OneCall, n
<1>12. ASSUME NEW j \in 1 .. n + 1, NEW k \in 1 .. n + 1, j <= k
       PROVE  /\ rlLog'[j].run <= rlLog'[k].run
              /\ rlLog'[j].run = rlLog'[k].run /\ rlLog'[k].run \notin rlOverlapped => rlLog'[j].batch <= rlLog'[k].batch
  <2>1. CASE k \in 1 .. n
    <3>1. j \in 1 .. n /\ rlLog'[j] = rlLog[j] /\ rlLog'[k] = rlLog[k]
      BY <1>6, <1>12, <2>1
    <3> QED BY <1>12, <2>1, <3>1 DEF RlInv, Climbs, n
  <2>2. CASE k = n + 1 /\ j \in 1 .. n
    <3>1. rlLog'[j] = rlLog[j] /\ rlLog'[k] = r /\ r.run = rlRun
      BY <1>3, <1>6, <2>2
    <3>2. rlLog[j].run <= rlRun
      BY <1>0, <2>2 DEF n
    <3> QED BY <1>11, <2>2, <3>1, <3>2
  <2>3. CASE k = n + 1 /\ j = n + 1
    <3>1. rlLog'[j] = r /\ rlLog'[k] = r /\ r.run \in Nat /\ r.batch \in Nat
      BY <1>0, <1>2, <1>3, <1>6, <2>3
    <3> QED BY <3>1
  <2> QED BY <1>9, <2>1, <2>2, <2>3
<1>13. Climbs(rlLog, rlOverlapped, Len(rlLog))'
  BY <1>1, <1>6, <1>12 DEF Climbs
<1>14. OneCall'
  <2> SUFFICES ASSUME rlRun \notin rlOverlapped
               PROVE  /\ \A k \in 1 .. n + 1 : rlLog'[k].run = rlRun => rlLog'[k].batch <= rlCalls
                      /\ \A u \in RlCallers : rlOpen'[u].pass # "none" => rlOpen'[u].batch = rlCalls
                      /\ \A u, v \in RlCallers : rlOpen'[u].pass # "none" /\ rlOpen'[v].pass # "none" => u = v
    BY <1>1, <1>6 DEF OneCall
  <2>1. ASSUME NEW k \in 1 .. n + 1, rlLog'[k].run = rlRun PROVE rlLog'[k].batch <= rlCalls
    <3>1. CASE k \in 1 .. n
      BY <1>6, <1>11, <2>1, <3>1
    <3>2. CASE k = n + 1
      BY <1>0, <1>6, <1>11, <3>2
    <3> QED BY <1>9, <3>1, <3>2
  <2>2. \A u \in RlCallers : rlOpen'[u].pass # "none" => rlOpen[u].pass # "none" /\ rlOpen'[u].batch = rlOpen[u].batch
    BY <1>2, <1>4, <1>7
  <2> QED BY <1>11, <2>1, <2>2
<1> QED BY <1>6, <1>8, <1>10, <1>13, <1>14 DEF RlInv

LEMMA RlSteps == RlInv /\ [RlNext]_rlVars => RlInv'
<1> SUFFICES ASSUME RlInv, [RlNext]_rlVars PROVE RlInv'
  OBVIOUS
<1> DEFINE O == [batch : Nat, pass : Passes]
<1>0. /\ rlLog \in Seq(LogRecords) /\ rlRun \in Nat /\ rlCalls \in Nat /\ rlOpen \in [RlCallers -> O]
      /\ (\A u \in RlCallers : rlOpen[u] = NoCall <=> rlOpen[u].pass = "none")
      /\ \A k \in 1 .. Len(rlLog) : rlLog[k].run <= rlRun /\ rlLog[k].run \in Nat /\ rlLog[k].batch \in Nat
  BY RecordsAre DEF RlInv, RlTyped
<1>n. NoCall \in O /\ NoCall.pass = "none"
  BY DEF NoCall, Passes
<1> HIDE DEF O
<1>1. CASE UNCHANGED rlVars
  BY <1>1 DEF rlVars, RlInv, RlTyped, OneCall, Climbs
<1>2. CASE RlStart
  <2>1. /\ rlRun' = rlRun + 1 /\ rlCalls' = 0 /\ rlOpen' = [t \in RlCallers |-> NoCall]
        /\ UNCHANGED <<rlLog, rlOverlapped>>
    BY <1>2 DEF RlStart
  <2>2. \A t \in RlCallers : rlOpen'[t] = NoCall
    BY <2>1
  <2>3. RlTyped'
    BY <1>0, <1>n, <2>1, <2>2 DEF RlTyped, O
  <2>4. \A k \in 1 .. Len(rlLog) : rlLog[k].run <= rlRun' /\ rlLog[k].run # rlRun'
    BY <1>0, <2>1
  <2>5. OneCall'
    BY <1>n, <2>1, <2>2, <2>4 DEF OneCall
  <2> QED BY <2>1, <2>3, <2>4, <2>5 DEF RlInv, Climbs
<1>3. ASSUME NEW t \in RlCallers, RlBegin(t) PROVE RlInv'
  <2> DEFINE o == [batch |-> rlCalls, pass |-> "encode"]
  <2>1. /\ rlOpen[t] = NoCall /\ rlOpen' = [rlOpen EXCEPT ![t] = o]
        /\ rlOverlapped' = IF \E u \in RlCallers : rlOpen[u] # NoCall THEN rlOverlapped \cup {rlRun} ELSE rlOverlapped
        /\ UNCHANGED <<rlLog, rlRun, rlCalls>>
    BY <1>3 DEF RlBegin
  <2>2. o \in O /\ o.batch = rlCalls /\ o.pass # "none" /\ o # NoCall
    BY <1>0 DEF O, NoCall, Passes
  <2> HIDE DEF o
  <2>3. \A u \in RlCallers : rlOpen'[u] = IF u = t THEN o ELSE rlOpen[u]
    BY <1>0, <2>1
  <2>4. RlTyped'
    <3>1. rlOpen' \in [RlCallers -> O]
      BY <1>0, <2>1, <2>2
    <3> QED BY <1>0, <2>1, <2>2, <2>3, <3>1 DEF RlTyped, O
  <2>5. rlOverlapped \subseteq rlOverlapped'
    BY <2>1
  <2>6. OneCall'
    <3> SUFFICES ASSUME rlRun \notin rlOverlapped'
                 PROVE  /\ \A k \in 1 .. Len(rlLog) : rlLog[k].run = rlRun => rlLog[k].batch <= rlCalls
                        /\ \A u \in RlCallers : rlOpen'[u].pass # "none" => rlOpen'[u].batch = rlCalls
                        /\ \A u, v \in RlCallers : rlOpen'[u].pass # "none" /\ rlOpen'[v].pass # "none" => u = v
      BY <2>1 DEF OneCall
    <3>1. \A u \in RlCallers : rlOpen[u] = NoCall
      BY <2>1
    <3>2. \A u \in RlCallers : rlOpen'[u].pass # "none" => u = t
      BY <1>n, <2>3, <3>1
    <3>3. rlRun \notin rlOverlapped
      BY <2>5
    <3> QED BY <2>2, <2>3, <3>2, <3>3 DEF RlInv, OneCall
  <2>7. Climbs(rlLog, rlOverlapped', Len(rlLog))
    BY <2>5 DEF RlInv, Climbs
  <2> QED BY <1>0, <2>1, <2>4, <2>6, <2>7 DEF RlInv
<1>4. ASSUME NEW t \in RlCallers, RlEncode(t) PROVE RlInv'
  <2>1. PICK verdict \in {"ENCODE_FAIL", "FLOOR"} : RlWrite(t, <<verdict, 0>>, {"encode"}, "encode")
    BY <1>4 DEF RlEncode
  <2> QED BY <2>1, RlWritten DEF Passes
<1>5. ASSUME NEW t \in RlCallers, RlTimeout(t) PROVE RlInv'
  <2>1. RlWrite(t, <<"BATCH_TIMEOUT", 0>>, {"encode"}, "over")
    BY <1>5 DEF RlTimeout
  <2> QED BY <2>1, RlWritten DEF Passes
<1>6. ASSUME NEW t \in RlCallers, RlScore(t) PROVE RlInv'
  <2>1. PICK line \in LogLines : RlWrite(t, line, {"encode", "scored"}, "scored")
    BY <1>6 DEF RlScore
  <2>2. line[2] \in Nat
    BY LogLinesAssumption
  <2> QED BY <2>1, <2>2, RlWritten DEF Passes
<1>7. ASSUME NEW t \in RlCallers, RlEnd(t) PROVE RlInv'
  <2>1. /\ rlOpen[t] # NoCall /\ rlOpen' = [rlOpen EXCEPT ![t] = NoCall] /\ rlCalls' = rlCalls + 1
        /\ UNCHANGED <<rlLog, rlRun, rlOverlapped>>
    BY <1>7 DEF RlEnd
  <2>2. \A u \in RlCallers : rlOpen'[u] = IF u = t THEN NoCall ELSE rlOpen[u]
    BY <1>0, <2>1
  <2>3. RlTyped'
    <3>1. rlOpen' \in [RlCallers -> O]
      BY <1>0, <1>n, <2>1
    <3> QED BY <1>0, <1>n, <2>1, <2>2, <3>1 DEF RlTyped, O
  <2>4. OneCall'
    <3> SUFFICES ASSUME rlRun \notin rlOverlapped
                 PROVE  /\ \A k \in 1 .. Len(rlLog) : rlLog[k].run = rlRun => rlLog[k].batch <= rlCalls + 1
                        /\ \A u \in RlCallers : rlOpen'[u].pass = "none"
      BY <2>1 DEF OneCall
    <3>1. /\ \A k \in 1 .. Len(rlLog) : rlLog[k].run = rlRun => rlLog[k].batch <= rlCalls
          /\ \A u, v \in RlCallers : rlOpen[u].pass # "none" /\ rlOpen[v].pass # "none" => u = v
      BY DEF RlInv, OneCall
    <3>2. \A k \in 1 .. Len(rlLog) : rlLog[k].run = rlRun => rlLog[k].batch <= rlCalls + 1
      BY <1>0, <3>1
    <3>3. \A u \in RlCallers : rlOpen'[u].pass = "none"
      BY <1>0, <1>n, <2>1, <2>2, <3>1
    <3> QED BY <3>2, <3>3
  <2> QED BY <1>0, <2>1, <2>3, <2>4 DEF RlInv, Climbs
<1> QED BY <1>1, <1>2, <1>3, <1>4, <1>5, <1>6, <1>7 DEF RlNext, RlCall

LEMMA SegmentsFollow == RlInv => SegmentsAreRuns
<1> SUFFICES ASSUME RlInv PROVE SegmentsAreRuns
  OBVIOUS
<1>1. rlLog \in Seq(LogRecords) /\ Climbs(rlLog, rlOverlapped, Len(rlLog))
  BY DEF RlInv, RlTyped
<1>2. Promise(Matched(rlLog), ParseLog(rlLog), rlOverlapped)
  BY <1>1, RunsCut
<1> QED BY <1>2 DEF Promise, SegmentsAreRuns

(* Whatever the processes logged - batches without a line, lines the       *)
(* pattern skips, calls that overlap, processes that never got beyond      *)
(* their first batch - cutting the log where a batch 0 follows a later one *)
(* loses no matched line and reorders none, and every table has each line  *)
(* of its segment in exactly one row and one tier.  A process whose calls  *)
(* did not overlap is never cut in two, and if all processes are so and    *)
(* show a batch 0 and a later one, there is one segment for each           *)
(* (tools/analyze_rl_run.py:67).                                           *)
THEOREM SegmentsAreRunsHolds == OfflineSpec => []SegmentsAreRuns
BY SegmentsFollow, RlPart, RlPartStep, RlInitial, RlSteps, PTL DEF OfflineSpec
=============================================================================
