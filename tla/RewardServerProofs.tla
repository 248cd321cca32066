------------------------- MODULE RewardServerProofs -------------------------
(***************************************************************************)
(* Proofs about RewardServer and about RemoteTraining, the trainer that    *)
(* calls it, for any number of threads, any batches, any ageing, any       *)
(* interleaving and any number of crashes; and, for one request at a time, *)
(* that its steps implement AtomicRewards.                                 *)
(***************************************************************************)
EXTENDS RemoteTraining, RewardServerRefinement, RewardLadderProofs, DataInduction

\* The labels of the loops over the validated programs, and over the accepted.
LoopLabels == {"merge", "raise", "raiseStore", "reject", "accept", "decay", "decayStore",
               "bump", "bumpStore"}
AcceptedLabels == {"accept", "decay", "decayStore", "bump", "bumpStore"}

\* What the loops of thread t still have to visit.
Loops(t) ==
  /\ pc[t] \notin LoopLabels => left[t] = {}
  /\ pc[t] = "raiseStore" => \A i \in left[t] : NextIs(t, i) => Depth(batch[t], i) # 0
  /\ pc[t] = "reject" => left[t] \subseteq Rejected(batch[t])
  /\ pc[t] \in AcceptedLabels => left[t] \subseteq Accepted(batch[t]) /\ vmOk[t]
  /\ pc[t] \in {"decayStore", "bumpStore"} => key[t] \in PCs

Control ==
  /\ ~up => \A t \in Threads : pc[t] = "idle"
  /\ \A t \in Threads : Loops(t)

TypeInv == TypeOK /\ Control

-----------------------------------------------------------------------------

LEMMA FrontierFacts ==
  ASSUME NEW f, IsFrontier(f)
  PROVE  /\ DOMAIN f \in SUBSET PCs
         /\ \A p \in DOMAIN f : f[p] \in Nat
         /\ Counting(f)
BY DEF IsFrontier, Counting, Get

LEMMA FrontierPut ==
  ASSUME NEW f, IsFrontier(f), NEW p \in PCs, NEW v \in Nat
  PROVE  IsFrontier(Put(f, p, v))
<1>1. DOMAIN f \cup {p} \in SUBSET PCs
  BY FrontierFacts
<1>2. Put(f, p, v) \in [DOMAIN f \cup {p} -> Nat]
  BY FrontierFacts DEF Put
<1> QED BY <1>1, <1>2 DEF IsFrontier

LEMMA InitTypeInv == Init => TypeInv
<1> SUFFICES ASSUME Init PROVE TypeInv
  OBVIOUS
<1>1. IsFrontier([p \in {} |-> 0])
  <2>1. {} \in SUBSET PCs /\ [p \in {} |-> 0] \in [{} -> Nat]
    OBVIOUS
  <2> QED BY <2>1 DEF IsFrontier
<1>2. TypeOK
  <2>1. IsFrontier(freq) /\ disk.freq = freq /\ disk = [pcs |-> disk.pcs, max |-> disk.max, freq |-> disk.freq]
    BY <1>1 DEF Init
  <2>2. \A t \in Threads : /\ left[t] \subseteq ToValidate(batch[t])
                          /\ Len(rewards[t]) = Len(batch[t])
    BY DEF Init
  <2>3. /\ pc \in [Threads -> Labels] /\ batch \in [Threads -> Seq(Programs)]
        /\ rewards \in [Threads -> Seq(Nat)]
    BY DEF Init, Labels
  <2> QED BY <2>1, <2>2, <2>3 DEF Init, TypeOK
<1>3. Control
  BY DEF Init, Control, Loops, LoopLabels, AcceptedLabels
<1> QED BY <1>2, <1>3 DEF TypeInv

\* The position a loop visits is one of its batch, and its program covers
\* counters.
LEMMA LoopPosition ==
  ASSUME TypeOK, NEW t \in Threads, NEW i \in left[t]
  PROVE  /\ batch[t] \in Seq(Programs) /\ i \in DOMAIN batch[t] /\ i \in DOMAIN rewards[t] /\ i \in Nat
         /\ Covers(batch[t], i) \in SUBSET PCs /\ Depth(batch[t], i) \in Nat
<1>1. batch[t] \in Seq(Programs) /\ i \in ToValidate(batch[t])
  BY DEF TypeOK
<1>2. i \in DOMAIN batch[t] /\ i \in Nat
  BY <1>1 DEF ToValidate
<1>3. DOMAIN rewards[t] = DOMAIN batch[t]
  <2>1. rewards[t] \in Seq(Nat) /\ Len(rewards[t]) = Len(batch[t])
    BY DEF TypeOK
  <2> QED BY <1>1, <2>1
<1> QED BY <1>1, <1>2, <1>3, CoversFinite

\* zip puts every result back where its program was sent from.
LEMMA PairedIs ==
  ASSUME NEW b \in Seq(Programs)
  PROVE  Paired(b, ResultsOf(b)) = b
<1> DEFINE S == ToValidate(b)
           sent == InOrder(S)
           n == Cardinality(S)
           results == ResultsOf(b)
<1>1. S \in SUBSET Nat /\ S \subseteq DOMAIN b /\ IsFiniteSet(S)
  <2>1. S \subseteq 1 .. Len(b) /\ DOMAIN b = 1 .. Len(b) /\ Len(b) \in Nat
    BY DEF ToValidate
  <2>2. IsFiniteSet(1 .. Len(b))
    BY <2>1, FS_Interval
  <2>3. S \in SUBSET (1 .. Len(b)) /\ S \subseteq Nat
    BY <2>1
  <2>4. IsFiniteSet(S)
    BY <2>2, <2>3, FS_Subset
  <2> QED BY <2>1, <2>3, <2>4
<1>2. n \in Nat /\ sent \in Bijection(1 .. n, S)
  BY <1>1, InOrderIs
<1>3. DOMAIN sent = 1 .. n /\ \A i \in S : \E k \in 1 .. n : sent[k] = i
  BY <1>2 DEF Bijection, Injection, Surjection
<1>4. \A k \in 1 .. n : results[k] = b[sent[k]]
  <2>1. S \cap DOMAIN b = S
    BY <1>1
  <2> QED BY <1>3, <2>1 DEF ResultsOf, ItemsAt
<1> HIDE DEF S, sent, results, n
<1> DEFINE back(i) == IF i \in S THEN results[CHOOSE k \in DOMAIN sent : sent[k] = i] ELSE b[i]
<1>5. \A i : back(i) = b[i]
  BY <1>3, <1>4
<1>6. Paired(b, results) = [i \in DOMAIN b |-> back(i)]
  BY DEF Paired, S, sent
<1> HIDE DEF back
<1>7. Paired(b, results) = [i \in DOMAIN b |-> b[i]]
  BY <1>5, <1>6
<1>8. b = [i \in DOMAIN b |-> b[i]]
  OBVIOUS
<1> QED BY <1>7, <1>8 DEF results

\* So the answer of the VM leaves every completion in its place.
LEMMA AnswersInPlace ==
  ASSUME TypeInv, NEW t \in Threads, VmAnswers(t)
  PROVE  batch' = batch
<1>1. batch[t] \in Seq(Programs) /\ batch \in [Threads -> Seq(Programs)]
  BY DEF TypeInv, TypeOK
<1>2. batch' = [batch EXCEPT ![t] = batch[t]]
  BY <1>1, PairedIs DEF VmAnswers
<1> QED BY <1>1, <1>2

\* The request and the VM.
LEMMA RequestSteps ==
  ASSUME TypeInv, NEW t \in Threads,
         \/ \E b \in Batches : Receive(t, b)
         \/ VmAnswers(t) \/ VmFails(t) \/ WatchdogReturns(t)
  PROVE  TypeInv'
<1> USE DEF TypeInv, Control, Loops, LoopLabels, AcceptedLabels, NextIs, At, Goto, globals, process
<1>1. ASSUME NEW b \in Batches, Receive(t, b) PROVE TypeInv'
  <2>1. b \in Seq(Programs)
    BY ServerAssumption
  <2>2. [i \in DOMAIN b |-> 0] \in Seq(Nat) /\ Len([i \in DOMAIN b |-> 0]) = Len(b)
    BY <2>1
  <2>3. TypeOK'
    BY <1>1, <2>1, <2>2 DEF Receive, TypeOK, Labels
  <2>4. Control'
    BY <1>1 DEF Receive, TypeOK
  <2> QED BY <2>3, <2>4
<1>2. CASE VmAnswers(t)
  <2>1. ToValidate(batch[t]) \in SUBSET Nat
    BY DEF TypeOK, ToValidate
  <2>2. TypeOK'
    BY <1>2, <2>1, AnswersInPlace DEF VmAnswers, Visit, TypeOK, Labels
  <2>3. Control'
    BY <1>2, <2>1, AnswersInPlace DEF VmAnswers, Visit, TypeOK
  <2> QED BY <2>2, <2>3
<1>3. CASE VmFails(t)
  BY <1>3 DEF VmFails, TypeOK, Labels
<1>4. CASE WatchdogReturns(t)
  BY <1>4 DEF WatchdogReturns, TypeOK, Labels, locals
<1> QED BY <1>1, <1>2, <1>3, <1>4

\* The merge of the results.
LEMMA MergeSteps ==
  ASSUME TypeInv, NEW t \in Threads,
         MergeCoverage(t) \/ CompareDepth(t) \/ StoreDepth(t) \/ MergeDone(t)
  PROVE  TypeInv'
<1> USE DEF TypeInv, Control, Loops, LoopLabels, AcceptedLabels, NextIs, At, Goto, Visit, process
<1>1. CASE MergeCoverage(t)
  <2>1. pcSet' \in SUBSET PCs
    BY <1>1, LoopPosition DEF MergeCoverage, TypeOK
  <2>2. TypeOK'
    BY <1>1, <2>1 DEF MergeCoverage, TypeOK, Labels, locals
  <2>3. Control'
    BY <1>1 DEF MergeCoverage, TypeOK, locals
  <2> QED BY <2>2, <2>3
<1>2. CASE CompareDepth(t)
  <2>1. PICK i \in left[t] :
          /\ NextIs(t, i)
          /\ \/ Depth(batch[t], i) > maxPcs /\ pc' = [pc EXCEPT ![t] = "raiseStore"] /\ UNCHANGED left
             \/ pc' = [pc EXCEPT ![t] = "merge"] /\ left' = [left EXCEPT ![t] = left[t] \ {i}]
    BY <1>2 DEF CompareDepth
  <2>2. UNCHANGED <<globals, process, batch, vmOk, todo, key, val, rewards, response, hits, received>>
        /\ up /\ pc[t] = "raise"
    BY <1>2 DEF CompareDepth
  <2>3. TypeOK'
    <3>1. pc' \in [Threads -> Labels]
      BY <2>1 DEF TypeOK, Labels
    <3>2. left' \in [Threads -> SUBSET Nat] /\ \A u \in Threads : left'[u] \subseteq ToValidate(batch[u])
      <4>1. CASE UNCHANGED left
        BY <4>1 DEF TypeOK
      <4>2. CASE left' = [left EXCEPT ![t] = left[t] \ {i}]
        BY <4>2 DEF TypeOK
      <4> QED BY <2>1, <4>1, <4>2
    <3> QED BY <2>2, <3>1, <3>2 DEF TypeOK, globals
  <2>4. Depth(batch[t], i) > maxPcs => Depth(batch[t], i) # 0
    BY LoopPosition DEF TypeOK
  <2>5. \A j \in left[t] : NextIs(t, j) => j = i
    BY <2>1 DEF TypeOK
  <2>6. Control'
    BY <2>1, <2>2, <2>4, <2>5 DEF TypeOK, globals
  <2> QED BY <2>3, <2>6
<1>3. CASE StoreDepth(t)
  <2>1. PICK i \in left[t] : /\ NextIs(t, i) /\ maxPcs' = Depth(batch[t], i)
                             /\ left' = [left EXCEPT ![t] = left[t] \ {i}]
    BY <1>3 DEF StoreDepth
  <2>2. maxPcs' \in Nat \ {0}
    BY <1>3, <2>1, LoopPosition DEF StoreDepth
  <2>3. TypeOK'
    BY <1>3, <2>1, <2>2 DEF StoreDepth, TypeOK, Labels
  <2>4. Control'
    BY <1>3, <2>1 DEF StoreDepth, TypeOK
  <2> QED BY <2>3, <2>4
<1>4. CASE MergeDone(t)
  <2>1. /\ Rejected(batch[t]) \in SUBSET Nat
        /\ Rejected(batch[t]) \subseteq ToValidate(batch[t])
    BY RungsAreDisjoint DEF TypeOK, Rejected
  <2>2. TypeOK'
    BY <1>4, <2>1 DEF MergeDone, TypeOK, Labels, globals
  <2>3. Control'
    BY <1>4, <2>1 DEF MergeDone, TypeOK, globals
  <2> QED BY <2>2, <2>3
<1> QED BY <1>1, <1>2, <1>3, <1>4

\* Scoring.
LEMMA ScoringSteps ==
  ASSUME TypeInv, NEW t \in Threads,
         PayRejected(t) \/ RejectedDone(t) \/ PayAccepted(t) \/ AcceptedDone(t)
  PROVE  TypeInv'
<1> USE DEF TypeInv, Control, Loops, LoopLabels, AcceptedLabels, NextIs, At, Goto, Visit, globals, process
<1>1. ASSUME NEW i \in left[t], NEW r \in Nat,
             rewards' = [rewards EXCEPT ![t][i] = r], left' = [left EXCEPT ![t] = left[t] \ {i}],
             pc[t] \in {"reject", "accept"},
             UNCHANGED <<globals, process, pc, batch, vmOk, todo, key, val, response, hits, received>>
      PROVE  TypeInv'
  <2>1. rewards[t] \in Seq(Nat) /\ i \in DOMAIN rewards[t]
    BY LoopPosition DEF TypeOK
  <2>2. [rewards[t] EXCEPT ![i] = r] \in Seq(Nat) /\ Len([rewards[t] EXCEPT ![i] = r]) = Len(rewards[t])
    BY <2>1
  <2>3. rewards' = [rewards EXCEPT ![t] = [rewards[t] EXCEPT ![i] = r]]
    BY <1>1
  <2>4. /\ rewards' \in [Threads -> Seq(Nat)]
        /\ \A u \in Threads : Len(rewards'[u]) = Len(batch[u])
    BY <2>2, <2>3 DEF TypeOK
  <2>5. left' \in [Threads -> SUBSET Nat] /\ \A u \in Threads : left'[u] \subseteq left[u]
    BY <1>1 DEF TypeOK
  <2>6. TypeOK'
    BY <1>1, <2>4, <2>5 DEF TypeOK
  <2>7. Control'
    BY <1>1, <2>5 DEF TypeOK
  <2> QED BY <2>6, <2>7
<1>2. CASE PayRejected(t)
  <2>1. PICK i \in left[t] :
          /\ rewards' = [rewards EXCEPT ![t][i] = RejectedReward(Depth(batch[t], i), maxPcs)]
          /\ left' = [left EXCEPT ![t] = left[t] \ {i}]
    BY <1>2 DEF PayRejected
  <2>2. RejectedReward(Depth(batch[t], i), maxPcs) \in Nat
    <3>1. Depth(batch[t], i) \in Nat /\ maxPcs \in Nat \ {0}
      BY LoopPosition DEF TypeOK
    <3> QED BY <3>1, RejectedBound, WeightsAssumption
  <2> QED BY <1>1, <1>2, <2>1, <2>2 DEF PayRejected
<1>3. CASE PayAccepted(t)
  <2>1. PICK i \in left[t] :
          /\ rewards' = [rewards EXCEPT ![t][i] = AcceptedReward(freq, batch[t], i)]
          /\ left' = [left EXCEPT ![t] = left[t] \ {i}]
    BY <1>3 DEF PayAccepted
  <2>2. AcceptedReward(freq, batch[t], i) \in Nat
    <3>1. batch[t] \in Seq(Programs) /\ i \in Accepted(batch[t])
      BY <1>3, LoopPosition DEF PayAccepted
    <3> QED BY <3>1, AcceptedBound, WeightsAssumption
  <2> QED BY <1>1, <1>3, <2>1, <2>2 DEF PayAccepted
<1>4. /\ Accepted(batch[t]) \in SUBSET Nat
      /\ Accepted(batch[t]) \subseteq ToValidate(batch[t])
  BY RungsAreDisjoint DEF TypeOK, Accepted
<1>5. CASE RejectedDone(t)
  <2>1. left' \in [Threads -> SUBSET Nat] /\ \A u \in Threads : left'[u] \subseteq ToValidate(batch[u])
    <3>1. CASE left' = [left EXCEPT ![t] = Accepted(batch[t])]
      BY <1>4, <3>1 DEF TypeOK
    <3>2. CASE UNCHANGED left
      BY <3>2 DEF TypeOK
    <3> QED BY <1>5, <3>1, <3>2 DEF RejectedDone
  <2>2. TypeOK'
    <3>1. pc' \in [Threads -> Labels]
      BY <1>5 DEF RejectedDone, TypeOK, Labels
    <3>2. UNCHANGED <<globals, process, batch, vmOk, todo, key, val, rewards, response, hits>>
      BY <1>5 DEF RejectedDone
    <3> QED BY <3>1, <3>2, <2>1 DEF TypeOK
  <2>3. Control'
    BY <1>4, <1>5 DEF RejectedDone, TypeOK
  <2> QED BY <2>2, <2>3
<1>6. CASE AcceptedDone(t)
  <2>1. todo' \in [Threads -> SUBSET PCs]
    <3>1. DOMAIN freq \in SUBSET PCs
      BY FrontierFacts DEF TypeOK
    <3>2. CASE todo' = [todo EXCEPT ![t] = DOMAIN freq]
      BY <3>1, <3>2 DEF TypeOK
    <3>3. CASE UNCHANGED todo
      BY <3>3 DEF TypeOK
    <3> QED BY <1>6, <3>2, <3>3 DEF AcceptedDone, Scan
  <2>2. left' \in [Threads -> SUBSET Nat] /\ \A u \in Threads : left'[u] \subseteq ToValidate(batch[u])
    BY <1>4, <1>6 DEF AcceptedDone, TypeOK
  <2>3. TypeOK'
    <3>1. pc' \in [Threads -> Labels]
      BY <1>6 DEF AcceptedDone, TypeOK, Labels
    <3>2. UNCHANGED <<globals, process, batch, vmOk, key, val, rewards, response, hits>>
      BY <1>6 DEF AcceptedDone
    <3> QED BY <3>1, <3>2, <2>1, <2>2 DEF TypeOK
  <2>4. Control'
    BY <1>4, <1>6 DEF AcceptedDone, Scan, TypeOK
  <2> QED BY <2>3, <2>4
<1> QED BY <1>2, <1>3, <1>5, <1>6

\* The frontier.
LEMMA FrontierSteps ==
  ASSUME TypeInv, NEW t \in Threads,
         \/ DecayRead(t) \/ DecayStore(t) \/ DecayDone(t)
         \/ BumpProgram(t) \/ BumpRead(t) \/ BumpStore(t) \/ BumpDone(t)
  PROVE  TypeInv'
<1> USE DEF TypeInv, Control, Loops, LoopLabels, AcceptedLabels, NextIs, At, Goto, Visit, Scan, process
<1>1. ASSUME NEW label \in {"decayStore", "bumpStore"}, ReadFreq(t, label), up, pc[t] \in {"decay", "bump"}
      PROVE  TypeInv'
  <2>1. PICK p \in todo[t] : key' = [key EXCEPT ![t] = p] /\ val' = [val EXCEPT ![t] = Get(freq, p)]
    BY <1>1 DEF ReadFreq
  <2>2. p \in PCs /\ Get(freq, p) \in Nat
    BY FrontierFacts DEF TypeOK, Counting
  <2>3. TypeOK'
    BY <1>1, <2>1, <2>2 DEF ReadFreq, TypeOK, Labels, globals
  <2>4. Control'
    BY <1>1, <2>1, <2>2 DEF ReadFreq, TypeOK, globals
  <2> QED BY <2>3, <2>4
<1>2. ASSUME NEW v \in Nat, NEW label \in {"decay", "bump"}, pc[t] \in {"decayStore", "bumpStore"}, up,
             freq' = Put(freq, key[t], v), todo' = [todo EXCEPT ![t] = todo[t] \ {key[t]}],
             Consume(t), pc' = [pc EXCEPT ![t] = label], hits' \in [PCs -> Nat],
             UNCHANGED <<pcSet, maxPcs, callCount, lastDepths, lastCounts, process, batch, vmOk, left,
                         rewards, response, received>>
      PROVE  TypeInv'
  <2>1. IsFrontier(freq')
    BY <1>2, FrontierPut DEF TypeOK
  <2>2. TypeOK'
    BY <1>2, <2>1 DEF Consume, TypeOK, Labels
  <2>3. Control'
    BY <1>2 DEF Consume, TypeOK
  <2> QED BY <2>2, <2>3
<1>3. CASE DecayRead(t)
  BY <1>1, <1>3 DEF DecayRead
<1>4. CASE DecayStore(t)
  <2>1. (val[t] * DecayNum) \div DecayDen \in Nat
    <3>1. val[t] * DecayNum \in Nat
      BY ServerAssumption DEF TypeOK
    <3> QED BY <3>1, DivNat, ServerAssumption
  <2>2. hits' \in [PCs -> Nat]
    BY <1>4 DEF DecayStore, TypeOK
  <2> QED BY <1>2, <1>4, <2>1, <2>2 DEF DecayStore
<1>5. CASE DecayDone(t)
  BY <1>5 DEF DecayDone, TypeOK, Labels, globals, locals
<1>6. CASE BumpProgram(t)
  <2>1. PICK i \in left[t] : /\ left' = [left EXCEPT ![t] = left[t] \ {i}]
                             /\ todo' = [todo EXCEPT ![t] = Covers(batch[t], i)]
    BY <1>6 DEF BumpProgram
  <2>2. Covers(batch[t], i) \in SUBSET PCs
    BY LoopPosition
  <2>3. TypeOK'
    BY <1>6, <2>1, <2>2 DEF BumpProgram, TypeOK, globals
  <2>4. Control'
    BY <1>6, <2>1 DEF BumpProgram, TypeOK, globals
  <2> QED BY <2>3, <2>4
<1>7. CASE BumpRead(t)
  BY <1>1, <1>7 DEF BumpRead
<1>8. CASE BumpStore(t)
  <2>1. val[t] + FreqUnit \in Nat
    BY WeightsAssumption DEF TypeOK
  <2>2. hits' \in [PCs -> Nat]
    BY <1>8 DEF BumpStore, TypeOK
  <2> QED BY <1>2, <1>8, <2>1, <2>2 DEF BumpStore
<1>9. CASE BumpDone(t)
  BY <1>9 DEF BumpDone, TypeOK, Labels, globals, locals
<1> QED BY <1>3, <1>4, <1>5, <1>6, <1>7, <1>8, <1>9

\* Telemetry and the call counter.
LEMMA PublishSteps ==
  ASSUME TypeInv, NEW t \in Threads,
         PublishDepths(t) \/ PublishCounts(t) \/ CountRead(t) \/ CountStore(t) \/ CheckCadence(t)
  PROVE  TypeInv'
<1> USE DEF TypeInv, Control, Loops, LoopLabels, AcceptedLabels, NextIs, At, Goto, process
<1>1. CASE PublishDepths(t)
  BY <1>1 DEF PublishDepths, TypeOK, Labels, locals
<1>2. CASE PublishCounts(t)
  BY <1>2 DEF PublishCounts, TypeOK, Labels, locals
<1>3. CASE CountRead(t)
  BY <1>3 DEF CountRead, TypeOK, Labels, globals
<1>4. CASE CountStore(t)
  BY <1>4 DEF CountStore, Consume, TypeOK, Labels
<1>5. CASE CheckCadence(t)
  BY <1>5 DEF CheckCadence, TypeOK, Labels, globals, locals
<1> QED BY <1>1, <1>2, <1>3, <1>4, <1>5

\* Saving and answering.
LEMMA SaveSteps ==
  ASSUME TypeInv, NEW t \in Threads,
         \/ OpenPcs(t) \/ WritePcs(t) \/ OpenMax(t) \/ WriteMax(t)
         \/ OpenFreq(t) \/ WriteFreq(t) \/ WriteFreqRaises(t) \/ Respond(t)
  PROVE  TypeInv'
<1> USE DEF TypeInv, Control, Loops, LoopLabels, AcceptedLabels, NextIs, At, Goto, Scan
<1>1. DOMAIN freq \in SUBSET PCs
  BY FrontierFacts DEF TypeOK
<1>2. /\ disk = [pcs |-> disk.pcs, max |-> disk.max, freq |-> disk.freq]
      /\ pcSet \in SUBSET PCs /\ maxPcs \in Nat \ {0} /\ IsFrontier(freq)
      /\ disk.pcs = None \/ disk.pcs \in SUBSET PCs
      /\ disk.max = None \/ disk.max \in Nat \ {0}
      /\ disk.freq = None \/ IsFrontier(disk.freq)
  BY DEF TypeOK
<1>3. ASSUME NEW to \in Labels \ LoopLabels, pc[t] \in Labels \ LoopLabels, up,
             pc' = [pc EXCEPT ![t] = to],
             disk' = [pcs |-> disk.pcs, max |-> disk.max, freq |-> disk.freq]',
             (disk.pcs = None \/ disk.pcs \in SUBSET PCs)',
             (disk.max = None \/ disk.max \in Nat \ {0})',
             (disk.freq = None \/ IsFrontier(disk.freq))',
             todo' \in [Threads -> SUBSET PCs], savedHits' \in [PCs -> Nat],
             UNCHANGED <<globals, up, batch, vmOk, left, key, val, rewards, response, hits>>
      PROVE  TypeInv'
  <2>1. pc' \in [Threads -> Labels]
    BY <1>3 DEF TypeOK
  <2>2. TypeOK'
    BY <1>3, <2>1 DEF TypeOK, globals
  <2>3. Control'
    BY <1>3 DEF TypeOK
  <2> QED BY <2>2, <2>3
<1>4. ASSUME UNCHANGED todo \/ todo' = [todo EXCEPT ![t] = {}] \/ todo' = [todo EXCEPT ![t] = DOMAIN freq]
      PROVE  todo' \in [Threads -> SUBSET PCs]
  BY <1>1, <1>4 DEF TypeOK
<1>5. hits \in [PCs -> Nat] /\ savedHits \in [PCs -> Nat]
  BY DEF TypeOK
<1>6. CASE OpenPcs(t)
  <2>1. /\ disk' = [pcs |-> disk.pcs, max |-> disk.max, freq |-> disk.freq]'
        /\ (disk.pcs = None \/ disk.pcs \in SUBSET PCs)'
        /\ (disk.max = None \/ disk.max \in Nat \ {0})'
        /\ (disk.freq = None \/ IsFrontier(disk.freq))'
    BY <1>2, <1>6 DEF OpenPcs, OpenFile
  <2>2. todo' \in [Threads -> SUBSET PCs] /\ savedHits' \in [PCs -> Nat]
    BY <1>4, <1>5, <1>6 DEF OpenPcs, OpenFile
  <2>3. /\ "writePcs" \in Labels \ LoopLabels /\ pc[t] \in Labels \ LoopLabels /\ up
        /\ pc' = [pc EXCEPT ![t] = "writePcs"]
        /\ UNCHANGED <<globals, up, batch, vmOk, left, key, val, rewards, response, hits>>
    BY <1>6 DEF OpenPcs, OpenFile, Labels
  <2> QED BY <1>3, <2>1, <2>2, <2>3
<1>7. CASE WritePcs(t)
  <2>1. /\ disk' = [pcs |-> disk.pcs, max |-> disk.max, freq |-> disk.freq]'
        /\ (disk.pcs = None \/ disk.pcs \in SUBSET PCs)'
        /\ (disk.max = None \/ disk.max \in Nat \ {0})'
        /\ (disk.freq = None \/ IsFrontier(disk.freq))'
    BY <1>2, <1>7 DEF WritePcs, WriteFile
  <2>2. todo' \in [Threads -> SUBSET PCs] /\ savedHits' \in [PCs -> Nat]
    BY <1>4, <1>5, <1>7 DEF WritePcs, WriteFile
  <2>3. /\ "saveMax" \in Labels \ LoopLabels /\ pc[t] \in Labels \ LoopLabels /\ up
        /\ pc' = [pc EXCEPT ![t] = "saveMax"]
        /\ UNCHANGED <<globals, up, batch, vmOk, left, key, val, rewards, response, hits>>
    BY <1>7 DEF WritePcs, WriteFile, Labels
  <2> QED BY <1>3, <2>1, <2>2, <2>3
<1>8. CASE OpenMax(t)
  <2>1. /\ disk' = [pcs |-> disk.pcs, max |-> disk.max, freq |-> disk.freq]'
        /\ (disk.pcs = None \/ disk.pcs \in SUBSET PCs)'
        /\ (disk.max = None \/ disk.max \in Nat \ {0})'
        /\ (disk.freq = None \/ IsFrontier(disk.freq))'
    BY <1>2, <1>8 DEF OpenMax, OpenFile
  <2>2. todo' \in [Threads -> SUBSET PCs] /\ savedHits' \in [PCs -> Nat]
    BY <1>4, <1>5, <1>8 DEF OpenMax, OpenFile
  <2>3. /\ "writeMax" \in Labels \ LoopLabels /\ pc[t] \in Labels \ LoopLabels /\ up
        /\ pc' = [pc EXCEPT ![t] = "writeMax"]
        /\ UNCHANGED <<globals, up, batch, vmOk, left, key, val, rewards, response, hits>>
    BY <1>8 DEF OpenMax, OpenFile, Labels
  <2> QED BY <1>3, <2>1, <2>2, <2>3
<1>9. CASE WriteMax(t)
  <2>1. /\ disk' = [pcs |-> disk.pcs, max |-> disk.max, freq |-> disk.freq]'
        /\ (disk.pcs = None \/ disk.pcs \in SUBSET PCs)'
        /\ (disk.max = None \/ disk.max \in Nat \ {0})'
        /\ (disk.freq = None \/ IsFrontier(disk.freq))'
    BY <1>2, <1>9 DEF WriteMax, WriteFile
  <2>2. todo' \in [Threads -> SUBSET PCs] /\ savedHits' \in [PCs -> Nat]
    BY <1>4, <1>5, <1>9 DEF WriteMax, WriteFile
  <2>3. /\ "saveFreq" \in Labels \ LoopLabels /\ pc[t] \in Labels \ LoopLabels /\ up
        /\ pc' = [pc EXCEPT ![t] = "saveFreq"]
        /\ UNCHANGED <<globals, up, batch, vmOk, left, key, val, rewards, response, hits>>
    BY <1>9 DEF WriteMax, WriteFile, Labels
  <2> QED BY <1>3, <2>1, <2>2, <2>3
<1>10. CASE OpenFreq(t)
  <2>1. /\ disk' = [pcs |-> disk.pcs, max |-> disk.max, freq |-> disk.freq]'
        /\ (disk.pcs = None \/ disk.pcs \in SUBSET PCs)'
        /\ (disk.max = None \/ disk.max \in Nat \ {0})'
        /\ (disk.freq = None \/ IsFrontier(disk.freq))'
    BY <1>2, <1>10 DEF OpenFreq, OpenFile
  <2>2. todo' \in [Threads -> SUBSET PCs] /\ savedHits' \in [PCs -> Nat]
    BY <1>4, <1>5, <1>10 DEF OpenFreq, OpenFile
  <2>3. /\ "writeFreq" \in Labels \ LoopLabels /\ pc[t] \in Labels \ LoopLabels /\ up
        /\ pc' = [pc EXCEPT ![t] = "writeFreq"]
        /\ UNCHANGED <<globals, up, batch, vmOk, left, key, val, rewards, response, hits>>
    BY <1>10 DEF OpenFreq, OpenFile, Labels
  <2> QED BY <1>3, <2>1, <2>2, <2>3
<1>11. CASE WriteFreq(t)
  <2>1. /\ disk' = [pcs |-> disk.pcs, max |-> disk.max, freq |-> disk.freq]'
        /\ (disk.pcs = None \/ disk.pcs \in SUBSET PCs)'
        /\ (disk.max = None \/ disk.max \in Nat \ {0})'
        /\ (disk.freq = None \/ IsFrontier(disk.freq))'
    BY <1>2, <1>11 DEF WriteFreq, WriteFile
  <2>2. todo' \in [Threads -> SUBSET PCs] /\ savedHits' \in [PCs -> Nat]
    BY <1>4, <1>5, <1>11 DEF WriteFreq, WriteFile
  <2>3. /\ "respond" \in Labels \ LoopLabels /\ pc[t] \in Labels \ LoopLabels /\ up
        /\ pc' = [pc EXCEPT ![t] = "respond"]
        /\ UNCHANGED <<globals, up, batch, vmOk, left, key, val, rewards, response, hits>>
    BY <1>11 DEF WriteFreq, WriteFile, Labels
  <2> QED BY <1>3, <2>1, <2>2, <2>3
<1>12. ASSUME Return(t), pc[t] \notin LoopLabels,
              UNCHANGED <<globals, process, hits, received>>, DOMAIN response' = Threads
       PROVE  TypeInv'
  <2>1. left[t] = {} /\ <<>> \in Seq(Programs) /\ <<>> \in Seq(Nat)
    BY <1>12
  <2>2. TypeOK'
    BY <1>12, <2>1 DEF Return, TypeOK, Labels, globals, process
  <2>3. Control'
    BY <1>12, <2>1 DEF Return, TypeOK, Labels, globals, process
  <2> QED BY <2>2, <2>3
<1>13. CASE WriteFreqRaises(t)
  BY <1>12, <1>13 DEF WriteFreqRaises, TypeOK
<1>14. CASE Respond(t)
  BY <1>12, <1>14 DEF Respond, TypeOK
<1> QED BY <1>6, <1>7, <1>8, <1>9, <1>10, <1>11, <1>13, <1>14

\* The process dies and starts again.
LEMMA ProcessSteps ==
  ASSUME TypeInv, Crash \/ Restart
  PROVE  TypeInv'
<1> USE DEF TypeInv, Control, Loops, LoopLabels, AcceptedLabels, NextIs
<1>1. CASE Crash
  <2>1. /\ pc' \in [Threads -> Labels] /\ vmOk' \in [Threads -> BOOLEAN]
        /\ left' \in [Threads -> SUBSET Nat] /\ todo' \in [Threads -> SUBSET PCs]
        /\ key' \in [Threads -> PCs \cup {None}] /\ val' \in [Threads -> Nat]
    BY <1>1 DEF Crash, Labels
  <2>2. batch' \in [Threads -> Seq(Programs)] /\ rewards' \in [Threads -> Seq(Nat)]
    BY <1>1 DEF Crash
  <2>3. \A t \in Threads : left'[t] \subseteq ToValidate(batch'[t]) /\ Len(rewards'[t]) = Len(batch'[t])
    BY <1>1 DEF Crash
  <2>4. TypeOK'
    BY <1>1, <2>1, <2>2, <2>3 DEF Crash, TypeOK, globals
  <2>5. Control'
    BY <1>1 DEF Crash
  <2> QED BY <2>4, <2>5
<1>2. CASE Restart
  <2>1. pcSet' \in SUBSET PCs /\ maxPcs' \in Nat \ {0} /\ IsFrontier(freq')
    BY <1>2 DEF Restart, TypeOK
  <2>2. TypeOK'
    BY <1>2, <2>1 DEF Restart, TypeOK, locals
  <2>3. Control'
    BY <1>2 DEF Restart, locals
  <2> QED BY <2>2, <2>3
<1> QED BY <1>1, <1>2

LEMMA NextTypeInv == TypeInv /\ [Next]_vars => TypeInv'
<1> SUFFICES ASSUME TypeInv, [Next]_vars PROVE TypeInv'
  OBVIOUS
<1>1. ASSUME NEW t \in Threads, Compute(t) \/ \E b \in Batches : Receive(t, b)
      PROVE  TypeInv'
  BY <1>1, RequestSteps, MergeSteps, ScoringSteps, FrontierSteps, PublishSteps, SaveSteps DEF Compute
<1>2. CASE Crash \/ Restart
  BY <1>2, ProcessSteps
<1>3. CASE UNCHANGED vars
  BY <1>3 DEF vars, globals, process, locals, TypeInv, TypeOK, Control, Loops, LoopLabels,
              AcceptedLabels, NextIs
<1> QED BY <1>1, <1>2, <1>3 DEF Next

LEMMA TypeInvHolds == Spec => []TypeInv
BY InitTypeInv, NextTypeInv, PTL DEF Spec

\* The variables keep their types: the depth record is never 0, so that the
\* soft floor divides by it safely (ml/reward.py:105, 524), no reward and no
\* count is negative, and a loop only visits programs the VM was asked about.
THEOREM TypeCorrect == Spec => []TypeOK
<1>1. TypeInv => TypeOK
  BY DEF TypeInv
<1> QED BY <1>1, TypeInvHolds, PTL

-----------------------------------------------------------------------------
(* The frontier never overcounts.                                          *)
(*                                                                         *)
(* A thread that is between reading a count and storing it may overwrite   *)
(* the increments of others, so what it is about to store must itself be   *)
(* within the increments made so far (InHand); these only grow while a     *)
(* value is in hand.  What a restart reads is bounded by the increments    *)
(* that were counted when it was saved (Saved).                            *)

Stores == {"decayStore", "bumpStore"}

Counted == up => \A p \in PCs : Get(freq, p) <= FreqUnit * hits[p]
InHand == \A t \in Threads : pc[t] \in Stores => val[t] <= FreqUnit * hits[key[t]]
Saved == disk.freq # None => \A p \in PCs : Get(disk.freq, p) <= FreqUnit * savedHits[p]

Tally == Counted /\ InHand /\ Saved

\* Steps that leave the frontier, its tally and every value in hand alone.
LEMMA TallyUndisturbed ==
  ASSUME Tally, UNCHANGED <<freq, hits, savedHits>>, up' => up,
         disk'.freq = disk.freq \/ disk'.freq = None,
         \A t \in Threads : pc'[t] \in Stores =>
           pc[t] \in Stores /\ key'[t] = key[t] /\ val'[t] = val[t]
  PROVE  Tally'
BY DEF Tally, Counted, InHand, Saved

LEMMA InitTally == Init => Tally
<1> SUFFICES ASSUME Init PROVE Tally
  OBVIOUS
<1>1. \A p \in PCs : Get(freq, p) = 0 /\ Get(disk.freq, p) = 0
  BY DEF Init, Get
<1>2. \A p \in PCs : FreqUnit * hits[p] = 0 /\ FreqUnit * savedHits[p] = 0
  BY WeightsAssumption DEF Init
<1>3. \A t \in Threads : pc[t] \notin Stores
  BY DEF Init, Stores
<1> QED BY <1>1, <1>2, <1>3 DEF Tally, Counted, InHand, Saved

\* A count that is read is within the increments.
LEMMA ReadTally ==
  ASSUME TypeInv, Tally, NEW t \in Threads, DecayRead(t) \/ BumpRead(t)
  PROVE  Tally'
<1>1. PICK p \in todo[t] : key' = [key EXCEPT ![t] = p] /\ val' = [val EXCEPT ![t] = Get(freq, p)]
  BY DEF DecayRead, BumpRead, ReadFreq
<1>2. p \in PCs /\ up
  BY DEF TypeInv, TypeOK, DecayRead, BumpRead, At
<1>3. UNCHANGED <<freq, hits, savedHits, up, disk>>
      /\ (pc' = [pc EXCEPT ![t] = "decayStore"] \/ pc' = [pc EXCEPT ![t] = "bumpStore"])
  BY DEF DecayRead, BumpRead, ReadFreq, Goto, globals, process
<1>4. Get(freq, p) <= FreqUnit * hits[p]
  BY <1>2 DEF Tally, Counted
<1>5. InHand'
  <2> SUFFICES ASSUME NEW u \in Threads, pc'[u] \in Stores
      PROVE  val'[u] <= FreqUnit * hits'[key'[u]]
    BY DEF InHand
  <2>1. CASE u = t
    BY <1>1, <1>3, <1>4, <2>1 DEF TypeInv, TypeOK
  <2>2. CASE u # t
    BY <1>1, <1>3, <2>2 DEF TypeInv, TypeOK, Tally, InHand
  <2> QED BY <2>1, <2>2
<1> QED BY <1>3, <1>5 DEF Tally, Counted, Saved

\* What is stored is within the increments, those of the step included.
LEMMA StoreTally ==
  ASSUME TypeInv, Tally, NEW t \in Threads, DecayStore(t) \/ BumpStore(t)
  PROVE  Tally'
<1> DEFINE k == key[t]
<1>1. k \in PCs /\ pc[t] \in Stores /\ up
  BY DEF TypeInv, Control, Loops, DecayStore, BumpStore, At, Stores
<1>2. UNCHANGED <<savedHits, up, disk>> /\ Consume(t)
      /\ (pc' = [pc EXCEPT ![t] = "decay"] \/ pc' = [pc EXCEPT ![t] = "bump"])
  BY DEF DecayStore, BumpStore, Goto, process
<1>3. hits \in [PCs -> Nat] /\ hits' \in [PCs -> Nat] /\ val[t] \in Nat
  <2>1. hits \in [PCs -> Nat] /\ val[t] \in Nat
    BY DEF TypeInv, TypeOK
  <2>2. hits' = hits \/ hits' = [hits EXCEPT ![k] = @ + 1]
    BY DEF DecayStore, BumpStore
  <2> QED BY <2>1, <2>2
<1>4. \A p \in PCs : hits[p] <= hits'[p]
  BY <1>3 DEF DecayStore, BumpStore
<1>5. \A p \in PCs : FreqUnit * hits[p] <= FreqUnit * hits'[p] /\ FreqUnit * hits[p] \in Nat
                     /\ FreqUnit * hits'[p] \in Nat
  BY <1>3, <1>4, WeightsAssumption
<1>6. val[t] <= FreqUnit * hits[k]
  BY <1>1 DEF Tally, InHand
<1>7. PICK v \in Nat : freq' = Put(freq, k, v) /\ v <= FreqUnit * hits'[k]
  <2>1. CASE DecayStore(t)
    <3> DEFINE v == (val[t] * DecayNum) \div DecayDen
    <3>1. freq' = Put(freq, k, v)
      BY <2>1 DEF DecayStore
    <3>2. v \in 0 .. val[t]
      BY <1>3, DivBound, ServerAssumption
    <3> HIDE DEF v
    <3> QED BY <1>1, <1>3, <1>5, <1>6, <3>1, <3>2
  <2>2. CASE BumpStore(t)
    <3>1. freq' = Put(freq, k, val[t] + FreqUnit) /\ hits' = [hits EXCEPT ![k] = @ + 1]
      BY <2>2 DEF BumpStore
    <3>2. FreqUnit * hits'[k] = FreqUnit * hits[k] + FreqUnit
      BY <1>1, <1>3, <3>1, WeightsAssumption
    <3>3. val[t] + FreqUnit \in Nat /\ val[t] + FreqUnit <= FreqUnit * hits'[k]
      BY <1>1, <1>3, <1>5, <1>6, <3>2, WeightsAssumption
    <3> QED BY <3>1, <3>3
  <2> QED BY <2>1, <2>2
<1>8. Counted'
  <2> SUFFICES ASSUME NEW p \in PCs PROVE Get(freq', p) <= FreqUnit * hits'[p]
    BY DEF Counted
  <2>1. CASE p = k
    BY <1>7, <2>1 DEF Get, Put
  <2>2. CASE p # k
    <3>1. Get(freq', p) = Get(freq, p)
      BY <1>7, <2>2 DEF Get, Put
    <3>2. Get(freq, p) \in Nat /\ Get(freq, p) <= FreqUnit * hits[p]
      BY <1>1, FrontierFacts DEF TypeInv, TypeOK, Counting, Tally, Counted
    <3> QED BY <1>5, <3>1, <3>2
  <2> QED BY <2>1, <2>2
<1>9. InHand'
  <2> SUFFICES ASSUME NEW u \in Threads, pc'[u] \in Stores
      PROVE  val'[u] <= FreqUnit * hits'[key'[u]]
    BY DEF InHand
  <2>1. u # t
    BY <1>2 DEF TypeInv, TypeOK, Stores
  <2>2. pc[u] \in Stores /\ key'[u] = key[u] /\ val'[u] = val[u]
    BY <1>2, <2>1 DEF TypeInv, TypeOK, Consume
  <2>3. key[u] \in PCs /\ val[u] \in Nat /\ val[u] <= FreqUnit * hits[key[u]]
    BY <2>2 DEF TypeInv, TypeOK, Control, Loops, Stores, Tally, InHand
  <2> QED BY <1>5, <2>2, <2>3
<1> QED BY <1>2, <1>8, <1>9 DEF Tally, Saved

\* The other steps of a request.
LEMMA QuietTally ==
  ASSUME TypeInv, Tally, NEW t \in Threads,
         \/ \E b \in Batches : Receive(t, b)
         \/ VmAnswers(t) \/ VmFails(t) \/ WatchdogReturns(t)
         \/ MergeCoverage(t) \/ CompareDepth(t) \/ StoreDepth(t) \/ MergeDone(t)
         \/ PayRejected(t) \/ RejectedDone(t) \/ PayAccepted(t) \/ AcceptedDone(t)
         \/ DecayDone(t) \/ BumpProgram(t) \/ BumpDone(t)
         \/ PublishDepths(t) \/ PublishCounts(t)
         \/ CountRead(t) \/ CountStore(t) \/ CheckCadence(t)
         \/ OpenPcs(t) \/ WritePcs(t) \/ OpenMax(t) \/ WriteMax(t)
         \/ OpenFreq(t) \/ WriteFreqRaises(t) \/ Respond(t)
  PROVE  Tally'
<1> USE DEF At, Goto, globals, process, locals
<1>1. pc \in [Threads -> Labels] /\ key \in [Threads -> PCs \cup {None}] /\ val \in [Threads -> Nat]
  BY DEF TypeInv, TypeOK
<1>2. disk = [pcs |-> disk.pcs, max |-> disk.max, freq |-> disk.freq]
  BY DEF TypeInv, TypeOK
<1>3. UNCHANGED <<freq, hits, savedHits, up>>
  BY DEF Receive, VmAnswers, VmFails, WatchdogReturns, MergeCoverage, CompareDepth, StoreDepth,
         MergeDone, PayRejected, RejectedDone, PayAccepted, AcceptedDone, DecayDone, BumpProgram,
         BumpDone, PublishDepths, PublishCounts, CountRead, CountStore, CheckCadence, OpenFile,
         WriteFile, OpenPcs, WritePcs, OpenMax, WriteMax, OpenFreq, WriteFreqRaises, Respond
<1>4. disk'.freq = disk.freq \/ disk'.freq = None
  <2>1. CASE OpenPcs(t) \/ WritePcs(t) \/ OpenMax(t) \/ WriteMax(t) \/ OpenFreq(t)
    BY <1>2, <2>1 DEF OpenFile, WriteFile, OpenPcs, WritePcs, OpenMax, WriteMax, OpenFreq
  <2>2. CASE UNCHANGED disk
    BY <2>2
  <2> QED
    BY <2>1, <2>2
       DEF Receive, VmAnswers, VmFails, WatchdogReturns, MergeCoverage, CompareDepth, StoreDepth,
           MergeDone, PayRejected, RejectedDone, PayAccepted, AcceptedDone, DecayDone, BumpProgram,
           BumpDone, PublishDepths, PublishCounts, CountRead, CountStore, CheckCadence,
           WriteFreqRaises, Respond
<1>5. pc' = pc \/ \E label \in Labels \ Stores : pc' = [pc EXCEPT ![t] = label]
  BY DEF Receive, VmAnswers, VmFails, WatchdogReturns, MergeCoverage, CompareDepth, StoreDepth,
         MergeDone, PayRejected, RejectedDone, PayAccepted, AcceptedDone, DecayDone, BumpProgram,
         BumpDone, PublishDepths, PublishCounts, CountRead, CountStore, CheckCadence, OpenFile,
         WriteFile, OpenPcs, WritePcs, OpenMax, WriteMax, OpenFreq, WriteFreqRaises, Respond,
         Return, Labels, Stores
<1>6. \/ UNCHANGED <<key, val>>
      \/ /\ pc[t] \notin Stores
         /\ \A u \in Threads \ {t} : key'[u] = key[u] /\ val'[u] = val[u]
  <2>1. CASE CountRead(t) \/ CountStore(t)
    BY <1>1, <2>1 DEF CountRead, CountStore, Consume, Stores
  <2>2. CASE UNCHANGED <<key, val>>
    BY <2>2
  <2> QED
    BY <2>1, <2>2
       DEF Receive, VmAnswers, VmFails, WatchdogReturns, MergeCoverage, CompareDepth, StoreDepth,
           MergeDone, PayRejected, RejectedDone, PayAccepted, AcceptedDone, DecayDone, BumpProgram,
           BumpDone, PublishDepths, PublishCounts, CheckCadence, OpenFile, WriteFile,
           OpenPcs, WritePcs, OpenMax, WriteMax, OpenFreq, WriteFreqRaises, Respond, Return
<1>7. \A u \in Threads : pc'[u] \in Stores =>
        pc[u] \in Stores /\ key'[u] = key[u] /\ val'[u] = val[u]
  BY <1>1, <1>5, <1>6
<1> QED BY <1>3, <1>4, <1>7, TallyUndisturbed

\* The frontier is saved together with the increments it was bounded by.
LEMMA SaveTally ==
  ASSUME TypeInv, Tally, NEW t \in Threads, WriteFreq(t)
  PROVE  Tally'
<1>1. UNCHANGED <<freq, hits, up, key, val>> /\ pc' = [pc EXCEPT ![t] = "respond"] /\ up
      /\ disk' = [disk EXCEPT !.freq = freq] /\ savedHits' = hits
  BY DEF WriteFreq, WriteFile, At, Goto, globals
<1>2. disk'.freq = freq
  <2>1. disk = [pcs |-> disk.pcs, max |-> disk.max, freq |-> disk.freq]
    BY DEF TypeInv, TypeOK
  <2> QED BY <1>1, <2>1
<1>3. Counted' /\ Saved'
  BY <1>1, <1>2 DEF Tally, Counted, Saved
<1>4. InHand'
  BY <1>1 DEF Tally, InHand, Stores, TypeInv, TypeOK
<1> QED BY <1>3, <1>4 DEF Tally

LEMMA ProcessTally ==
  ASSUME TypeInv, Tally, Crash \/ Restart
  PROVE  Tally'
<1>1. CASE Crash
  BY <1>1 DEF Crash, globals, Tally, Counted, InHand, Saved, Stores
<1>2. CASE Restart
  <2>1. /\ freq' = disk.freq /\ hits' = savedHits /\ disk.freq # None /\ ~up
        /\ UNCHANGED <<disk, savedHits, pc, key, val>>
    BY <1>2 DEF Restart, locals
  <2>2. \A t \in Threads : pc[t] \notin Stores
    BY <2>1 DEF TypeInv, Control, Stores
  <2> QED BY <2>1, <2>2 DEF Tally, Counted, InHand, Saved
<1> QED BY <1>1, <1>2

LEMMA NextTally == TypeInv /\ Tally /\ [Next]_vars => Tally'
<1> SUFFICES ASSUME TypeInv, Tally, [Next]_vars PROVE Tally'
  OBVIOUS
<1>1. ASSUME NEW t \in Threads, Compute(t) \/ \E b \in Batches : Receive(t, b)
      PROVE  Tally'
  BY <1>1, ReadTally, StoreTally, QuietTally, SaveTally DEF Compute
<1>2. CASE Crash \/ Restart
  BY <1>2, ProcessTally
<1>3. CASE UNCHANGED vars
  BY <1>3 DEF vars, globals, process, locals, Tally, Counted, InHand, Saved
<1> QED BY <1>1, <1>2, <1>3 DEF Next

\* No counter of the frontier exceeds the increments made for it, however the
\* requests of any number of threads interleave, whatever increments they
\* overwrite, with ageing on or off, and after any crash and restart.
THEOREM FrontierNeverOvercountsHolds == Spec => []FrontierNeverOvercounts
<1>1. TypeInv /\ Tally => FrontierNeverOvercounts
  <2> SUFFICES ASSUME TypeInv, Tally, up, NEW p \in DOMAIN freq
      PROVE  freq[p] <= FreqUnit * hits[p]
    BY DEF FrontierNeverOvercounts
  <2>1. p \in PCs /\ Get(freq, p) = freq[p]
    BY FrontierFacts DEF TypeInv, TypeOK, Get
  <2> QED BY <2>1 DEF Tally, Counted
<1> QED BY <1>1, InitTally, NextTally, TypeInvHolds, PTL DEF Spec

-----------------------------------------------------------------------------
(* A valid program beats an invalid one.                                   *)
(*                                                                         *)
(* The answer is only as good as the list under construction: at every     *)
(* step a program that is not ACCEPTED holds at most the soft floor, and   *)
(* the ACCEPTED ones the loop has passed hold the gate at least.           *)

AfterScoring == Labels \ {"idle", "vm", "watchdog", "merge", "raise", "raiseStore", "reject", "accept"}

RightPay(t) ==
  /\ \A j \in DOMAIN batch[t] \ Accepted(batch[t]) : rewards[t][j] <= W_REJECT_MAX
  /\ pc[t] = "accept" => \A i \in Accepted(batch[t]) \ left[t] : rewards[t][i] >= W_VALID
  /\ pc[t] \in AfterScoring /\ vmOk[t] => \A i \in Accepted(batch[t]) : rewards[t][i] >= W_VALID

RightAnswer(r) ==
  (r # None /\ r.vmOk) =>
    /\ \A i \in DOMAIN r.batch : r.rewards[i] \in Nat
    /\ \A j \in DOMAIN r.batch \ Accepted(r.batch) : r.rewards[j] <= W_REJECT_MAX
    /\ \A i \in Accepted(r.batch) : r.rewards[i] >= W_VALID

Ladder == \A t \in Threads : RightPay(t) /\ RightAnswer(response[t])

\* Steps that change no reward and bring no thread past the scoring.
LEMMA LadderUndisturbed ==
  ASSUME Ladder, UNCHANGED <<batch, vmOk, rewards, response>>,
         \A t \in Threads :
           /\ pc'[t] \in AfterScoring => pc[t] \in AfterScoring
           /\ pc'[t] = "accept" => pc[t] = "accept" /\ left'[t] = left[t]
  PROVE  Ladder'
BY DEF Ladder, RightPay, RightAnswer, Accepted

LEMMA InitLadder == Init => Ladder
BY DEF Init, Ladder, RightPay, RightAnswer, AfterScoring

\* A request enters with rewards 0.
LEMMA EnterLadder ==
  ASSUME TypeInv, Ladder, NEW t \in Threads, NEW b \in Batches, Receive(t, b)
  PROVE  Ladder'
<1>1. /\ batch' = [batch EXCEPT ![t] = b]
      /\ rewards' = [rewards EXCEPT ![t] = [i \in DOMAIN b |-> 0]]
      /\ response' = [response EXCEPT ![t] = None]
      /\ \E label \in Labels \ (AfterScoring \cup {"accept"}) : pc' = [pc EXCEPT ![t] = label]
      /\ UNCHANGED <<vmOk, left>>
  BY DEF Receive, Goto, Labels, AfterScoring
<1>2. ASSUME NEW u \in Threads \ {t} PROVE RightPay(u)' /\ RightAnswer(response[u])'
  BY <1>1, <1>2 DEF TypeInv, TypeOK, Ladder, RightPay, RightAnswer, Accepted
<1>3. RightPay(t)'
  <2>1. batch'[t] = b /\ rewards'[t] = [i \in DOMAIN b |-> 0] /\ pc'[t] \notin AfterScoring \cup {"accept"}
    BY <1>1 DEF TypeInv, TypeOK
  <2>2. \A j \in DOMAIN b \ Accepted(b) : rewards'[t][j] <= W_REJECT_MAX
    BY <2>1, WeightsAssumption
  <2> QED BY <2>1, <2>2 DEF RightPay, Accepted
<1>4. RightAnswer(response[t])'
  BY <1>1 DEF TypeInv, TypeOK, RightAnswer
<1> QED BY <1>2, <1>3, <1>4 DEF Ladder

\* Scoring pays each rung what it is due.
LEMMA ScoreLadder ==
  ASSUME TypeInv, Ladder, NEW t \in Threads, PayRejected(t) \/ PayAccepted(t)
  PROVE  Ladder'
<1>1. PICK i \in left[t], r \in Nat :
        /\ rewards' = [rewards EXCEPT ![t][i] = r] /\ left' = [left EXCEPT ![t] = left[t] \ {i}]
        /\ IF i \in Accepted(batch[t]) THEN r >= W_VALID ELSE r <= W_REJECT_MAX
  <2>1. CASE PayRejected(t)
    <3>1. PICK i \in left[t] :
            /\ rewards' = [rewards EXCEPT ![t][i] = RejectedReward(Depth(batch[t], i), maxPcs)]
            /\ left' = [left EXCEPT ![t] = left[t] \ {i}]
      BY <2>1 DEF PayRejected, Visit
    <3>2. i \in Rejected(batch[t]) /\ Accepted(batch[t]) \cap Rejected(batch[t]) = {}
      BY <2>1, RungsAreDisjoint DEF PayRejected, At, TypeInv, TypeOK, Control, Loops
    <3>3. Depth(batch[t], i) \in Nat /\ maxPcs \in Nat \ {0}
      BY LoopPosition DEF TypeInv, TypeOK
    <3>4. RejectedReward(Depth(batch[t], i), maxPcs) \in 0 .. W_REJECT_MAX
      BY <3>3, RejectedBound
    <3> DEFINE r == RejectedReward(Depth(batch[t], i), maxPcs)
    <3>5. r \in Nat /\ r <= W_REJECT_MAX /\ i \notin Accepted(batch[t])
      BY <3>2, <3>4, WeightsAssumption
    <3>6. rewards' = [rewards EXCEPT ![t][i] = r]
      BY <3>1
    <3> HIDE DEF r
    <3> QED BY <3>1, <3>5, <3>6
  <2>2. CASE PayAccepted(t)
    <3>1. PICK i \in left[t] :
            /\ rewards' = [rewards EXCEPT ![t][i] = AcceptedReward(freq, batch[t], i)]
            /\ left' = [left EXCEPT ![t] = left[t] \ {i}]
      BY <2>2 DEF PayAccepted, Visit
    <3>2. batch[t] \in Seq(Programs) /\ i \in Accepted(batch[t])
      BY <2>2 DEF PayAccepted, At, TypeInv, TypeOK, Control, Loops, AcceptedLabels
    <3>3. AcceptedReward(freq, batch[t], i) \in W_VALID .. W_VALID + W_NOVELTY + W_GLOBAL
      BY <3>2, AcceptedBound
    <3> DEFINE r == AcceptedReward(freq, batch[t], i)
    <3>4. r \in Nat /\ r >= W_VALID
      BY <3>3, WeightsAssumption
    <3>5. rewards' = [rewards EXCEPT ![t][i] = r]
      BY <3>1
    <3> HIDE DEF r
    <3> QED BY <3>1, <3>2, <3>4, <3>5
  <2> QED BY <2>1, <2>2
<1>2. UNCHANGED <<pc, batch, vmOk, response>> /\ pc[t] \in {"reject", "accept"}
  BY DEF PayRejected, PayAccepted, At
<1>3. i \in DOMAIN rewards[t] /\ rewards[t] \in Seq(Nat)
  BY LoopPosition DEF TypeInv, TypeOK
<1>4. /\ rewards'[t] = [rewards[t] EXCEPT ![i] = r] /\ left'[t] = left[t] \ {i}
      /\ \A u \in Threads \ {t} : rewards'[u] = rewards[u] /\ left'[u] = left[u]
  BY <1>1 DEF TypeInv, TypeOK
<1>5. ASSUME NEW u \in Threads \ {t} PROVE RightPay(u)' /\ RightAnswer(response[u])'
  BY <1>2, <1>4, <1>5 DEF Ladder, RightPay, RightAnswer, Accepted
<1>6. RightPay(t)'
  <2>1. RightPay(t)
    BY DEF Ladder
  <2>2. \A j \in DOMAIN batch[t] : rewards'[t][j] = IF j = i THEN r ELSE rewards[t][j]
    <3>1. DOMAIN rewards[t] = DOMAIN batch[t]
      BY DEF TypeInv, TypeOK
    <3> QED BY <1>3, <1>4, <3>1
  <2>3. Accepted(batch[t]) \subseteq DOMAIN batch[t]
    BY DEF Accepted
  <2>4. \A j \in DOMAIN batch[t] \ Accepted(batch[t]) : rewards'[t][j] <= W_REJECT_MAX
    BY <1>1, <2>1, <2>2 DEF RightPay
  <2>5. pc[t] = "accept" => \A j \in Accepted(batch[t]) \ left'[t] : rewards'[t][j] >= W_VALID
    BY <1>1, <1>4, <2>1, <2>2, <2>3 DEF RightPay
  <2>6. pc'[t] \notin AfterScoring
    BY <1>2 DEF AfterScoring
  <2> QED BY <1>2, <2>4, <2>5, <2>6 DEF RightPay, Accepted
<1>7. RightAnswer(response[t])'
  BY <1>2 DEF Ladder, RightAnswer, Accepted
<1> QED BY <1>5, <1>6, <1>7 DEF Ladder

\* A loop ends when every program of its rung was paid.
LEMMA PassLadder ==
  ASSUME TypeInv, Ladder, NEW t \in Threads, RejectedDone(t) \/ AcceptedDone(t)
  PROVE  Ladder'
<1>1. UNCHANGED <<batch, vmOk, rewards, response>> /\ pc \in [Threads -> Labels] /\ left \in [Threads -> SUBSET Nat]
  BY DEF RejectedDone, AcceptedDone, TypeInv, TypeOK
<1>2. ASSUME NEW u \in Threads \ {t} PROVE pc'[u] = pc[u] /\ left'[u] = left[u]
  BY <1>1, <1>2 DEF RejectedDone, AcceptedDone, Goto, Visit
<1>3. ASSUME NEW u \in Threads \ {t} PROVE RightPay(u)' /\ RightAnswer(response[u])'
  BY <1>1, <1>2, <1>3 DEF Ladder, RightPay, RightAnswer, Accepted
<1>4. RightPay(t)'
  <2>1. RightPay(t)
    BY DEF Ladder
  <2>2. CASE RejectedDone(t)
    <3>1. \/ pc'[t] = "accept" /\ left'[t] = Accepted(batch[t])
          \/ pc'[t] = "publish" /\ (~vmOk[t] \/ Accepted(batch[t]) = {})
      BY <1>1, <2>2 DEF RejectedDone, Goto, Visit
    <3>2. "accept" \notin AfterScoring
      BY DEF AfterScoring
    <3> QED BY <1>1, <2>1, <3>1, <3>2 DEF RightPay, Accepted
  <2>3. CASE AcceptedDone(t)
    <3>1. pc[t] = "accept" /\ left[t] = {} /\ pc'[t] # "accept"
      BY <1>1, <2>3 DEF AcceptedDone, At, Goto
    <3> QED BY <1>1, <2>1, <3>1 DEF RightPay, Accepted
  <2> QED BY <2>2, <2>3
<1>5. RightAnswer(response[t])'
  BY <1>1 DEF Ladder, RightAnswer, Accepted
<1> QED BY <1>3, <1>4, <1>5 DEF Ladder

\* A batch the VM lost is excused.
LEMMA LoseLadder ==
  ASSUME TypeInv, Ladder, NEW t \in Threads, VmFails(t)
  PROVE  Ladder'
<1>1. /\ vmOk' = [vmOk EXCEPT ![t] = FALSE] /\ pc' = [pc EXCEPT ![t] = "watchdog"]
      /\ UNCHANGED <<batch, left, rewards, response>>
  BY DEF VmFails, Goto
<1>2. ASSUME NEW u \in Threads PROVE RightPay(u)' /\ RightAnswer(response[u])'
  BY <1>1, <1>2 DEF TypeInv, TypeOK, Ladder, RightPay, RightAnswer, Accepted, AfterScoring
<1> QED BY <1>2 DEF Ladder

\* The answer takes the list as it is, after the scoring.
LEMMA AnswerLadder ==
  ASSUME TypeInv, Ladder, NEW t \in Threads, WriteFreqRaises(t) \/ Respond(t)
  PROVE  Ladder'
<1>1. /\ batch' = [batch EXCEPT ![t] = <<>>] /\ rewards' = [rewards EXCEPT ![t] = <<>>]
      /\ vmOk' = [vmOk EXCEPT ![t] = TRUE] /\ pc' = [pc EXCEPT ![t] = "idle"] /\ UNCHANGED left
  BY DEF WriteFreqRaises, Respond, Return, Goto
<1>2. \A u \in Threads \ {t} : response'[u] = response[u]
  BY DEF WriteFreqRaises, Respond, TypeInv, TypeOK
<1>3. ASSUME NEW u \in Threads \ {t} PROVE RightPay(u)' /\ RightAnswer(response[u])'
  BY <1>1, <1>2, <1>3 DEF TypeInv, TypeOK, Ladder, RightPay, RightAnswer, Accepted
<1>4. RightPay(t)'
  BY <1>1 DEF TypeInv, TypeOK, RightPay, AfterScoring, Accepted
<1>5. RightAnswer(response[t])'
  <2>1. CASE WriteFreqRaises(t)
    BY <2>1 DEF WriteFreqRaises, Ladder, RightAnswer, Accepted
  <2>2. CASE Respond(t)
    <3>1. /\ response'[t].batch = batch[t] /\ response'[t].vmOk = vmOk[t]
          /\ response'[t].rewards = rewards[t] /\ pc[t] = "respond"
      BY <2>2 DEF Respond, At, TypeInv, TypeOK
    <3>2. rewards[t] \in Seq(Nat) /\ batch[t] \in Seq(Programs) /\ Len(rewards[t]) = Len(batch[t])
      BY DEF TypeInv, TypeOK
    <3>3. \A i \in DOMAIN batch[t] : rewards[t][i] \in Nat
      BY <3>2
    <3>4. RightPay(t) /\ "respond" \in AfterScoring
      BY DEF Ladder, AfterScoring, Labels
    <3> QED BY <3>1, <3>3, <3>4 DEF RightPay, RightAnswer, Accepted
  <2> QED BY <2>1, <2>2
<1> QED BY <1>3, <1>4, <1>5 DEF Ladder

LEMMA ProcessLadder ==
  ASSUME TypeInv, Ladder, Crash \/ Restart
  PROVE  Ladder'
<1>1. CASE Crash
  <2>1. /\ batch' = [t \in Threads |-> <<>>] /\ rewards' = [t \in Threads |-> <<>>]
        /\ pc' = [t \in Threads |-> "idle"] /\ UNCHANGED response
    BY <1>1 DEF Crash
  <2>2. ASSUME NEW u \in Threads PROVE RightPay(u)' /\ RightAnswer(response[u])'
    BY <2>1, <2>2 DEF Ladder, RightPay, RightAnswer, Accepted, AfterScoring
  <2> QED BY <2>2 DEF Ladder
<1>2. CASE Restart
  BY <1>2, LadderUndisturbed DEF Restart, locals
<1> QED BY <1>1, <1>2

\* The other steps of a request.
LEMMA QuietLadder ==
  ASSUME TypeInv, Ladder, NEW t \in Threads,
         \/ VmAnswers(t) \/ WatchdogReturns(t)
         \/ MergeCoverage(t) \/ CompareDepth(t) \/ StoreDepth(t) \/ MergeDone(t)
         \/ DecayRead(t) \/ DecayStore(t) \/ DecayDone(t)
         \/ BumpProgram(t) \/ BumpRead(t) \/ BumpStore(t) \/ BumpDone(t)
         \/ PublishDepths(t) \/ PublishCounts(t)
         \/ CountRead(t) \/ CountStore(t) \/ CheckCadence(t)
         \/ OpenPcs(t) \/ WritePcs(t) \/ OpenMax(t) \/ WriteMax(t) \/ OpenFreq(t) \/ WriteFreq(t)
  PROVE  Ladder'
<1> USE DEF At, Goto, locals
<1>1. pc \in [Threads -> Labels] /\ left \in [Threads -> SUBSET Nat]
  BY DEF TypeInv, TypeOK
<1>2. UNCHANGED <<batch, vmOk, rewards, response>>
  BY AnswersInPlace
     DEF VmAnswers, WatchdogReturns, MergeCoverage, CompareDepth, StoreDepth, MergeDone,
         DecayRead, DecayStore, DecayDone, BumpProgram, BumpRead, BumpStore, BumpDone, ReadFreq,
         PublishDepths, PublishCounts, CountRead, CountStore, CheckCadence, OpenFile, WriteFile,
         OpenPcs, WritePcs, OpenMax, WriteMax, OpenFreq, WriteFreq
<1>3. \/ pc[t] \in AfterScoring /\ \E label \in AfterScoring : pc' = [pc EXCEPT ![t] = label]
      \/ pc[t] \in AfterScoring /\ UNCHANGED pc
      \/ \E label \in Labels \ (AfterScoring \cup {"accept"}) : pc' = [pc EXCEPT ![t] = label]
  BY DEF VmAnswers, WatchdogReturns, MergeCoverage, CompareDepth, StoreDepth, MergeDone,
         DecayRead, DecayStore, DecayDone, BumpProgram, BumpRead, BumpStore, BumpDone, ReadFreq,
         PublishDepths, PublishCounts, CountRead, CountStore, CheckCadence, OpenFile, WriteFile,
         OpenPcs, WritePcs, OpenMax, WriteMax, OpenFreq, WriteFreq, AfterScoring, Labels
<1>4. \A u \in Threads \ {t} : left'[u] = left[u]
  BY <1>1
     DEF VmAnswers, WatchdogReturns, MergeCoverage, CompareDepth, StoreDepth, MergeDone,
         DecayRead, DecayStore, DecayDone, BumpProgram, BumpRead, BumpStore, BumpDone, ReadFreq,
         PublishDepths, PublishCounts, CountRead, CountStore, CheckCadence, OpenFile, WriteFile,
         OpenPcs, WritePcs, OpenMax, WriteMax, OpenFreq, WriteFreq, Visit
<1>5. "accept" \notin AfterScoring
  BY DEF AfterScoring
<1>6. \A u \in Threads :
        /\ pc'[u] \in AfterScoring => pc[u] \in AfterScoring
        /\ pc'[u] = "accept" => pc[u] = "accept" /\ left'[u] = left[u]
  BY <1>1, <1>3, <1>4, <1>5
<1> QED BY <1>2, <1>6, LadderUndisturbed

LEMMA NextLadder == TypeInv /\ Ladder /\ [Next]_vars => Ladder'
<1> SUFFICES ASSUME TypeInv, Ladder, [Next]_vars PROVE Ladder'
  OBVIOUS
<1>1. ASSUME NEW t \in Threads, Compute(t) \/ \E b \in Batches : Receive(t, b)
      PROVE  Ladder'
  BY <1>1, EnterLadder, ScoreLadder, PassLadder, LoseLadder, AnswerLadder, QuietLadder DEF Compute
<1>2. CASE Crash \/ Restart
  BY <1>2, ProcessLadder
<1>3. CASE UNCHANGED vars
  BY <1>3, LadderUndisturbed DEF vars, locals
<1> QED BY <1>1, <1>2, <1>3 DEF Next

\* In the answer to a batch the VM validated, every valid program is paid more
\* than every other one, for all weights with W_REJECT_MAX < W_VALID, however
\* many requests overlap and whatever they do to the frontier and the record.
THEOREM ValidBeatsInvalidHolds == Spec => []ValidBeatsInvalid
<1>1. Ladder => ValidBeatsInvalid
  <2> SUFFICES ASSUME Ladder, NEW t \in Threads, response[t] # None, response[t].vmOk,
                      NEW i \in Accepted(response[t].batch),
                      NEW j \in DOMAIN response[t].batch \ Accepted(response[t].batch)
      PROVE  response[t].rewards[i] > response[t].rewards[j]
    BY DEF ValidBeatsInvalid
  <2>1. RightAnswer(response[t]) /\ i \in DOMAIN response[t].batch
    BY DEF Ladder, Accepted
  <2> QED BY <2>1, WeightsAssumption DEF RightAnswer
<1> QED BY <1>1, InitLadder, NextLadder, TypeInvHolds, PTL DEF Spec

-----------------------------------------------------------------------------
(* The frontier is never ahead of the coverage set.                        *)
(*                                                                         *)
(* While the server runs, any number of requests may interleave: what a    *)
(* thread is about to count was merged before (Merged), and the coverage   *)
(* set only grows.  Across a restart it takes more: the files must agree,  *)
(* which they do if no other request runs between the saving of the        *)
(* coverage set and that of the frontier (Files).                          *)

MergeLabels == {"merge", "raise", "raiseStore"}
SaveLabels == {"saveMax", "writeMax", "saveFreq", "writeFreq"}

\* What thread t counts or is going to count is in the coverage set.
Merged(t) ==
  /\ todo[t] \subseteq pcSet
  /\ pc[t] \in Stores => key[t] \in pcSet
  /\ pc[t] = "watchdog" => ~vmOk[t]
  /\ pc[t] \in MergeLabels =>
       \A i \in Accepted(batch[t]) \ left[t] : Covers(batch[t], i) \subseteq pcSet
  /\ pc[t] \in {"raise", "raiseStore"} =>
       \A i \in left[t] : NextIs(t, i) => Covers(batch[t], i) \subseteq pcSet
  /\ (pc[t] \in {"reject"} \cup AcceptedLabels /\ vmOk[t]) =>
       \A i \in Accepted(batch[t]) : Covers(batch[t], i) \subseteq pcSet

Alive ==
  /\ crashes \in 0 .. MaxCrashes
  /\ crashes = 0 => up
  /\ ~up => \A t \in Threads : todo[t] = {}

OneThread == \A t, u \in Threads : t = u

Files ==
  /\ (disk.pcs # None /\ disk.freq # None) => DOMAIN disk.freq \subseteq disk.pcs
  /\ (up /\ disk.freq # None) => DOMAIN disk.freq \subseteq pcSet
  /\ \A t \in Threads : pc[t] \in SaveLabels => disk.pcs = pcSet

Sighted ==
  /\ \A t \in Threads : Merged(t)
  /\ FrontierCovered
  /\ Alive
  /\ OneThread => Files

\* A step of thread t leaves the locals of the others alone.
LEMMA OthersKeep ==
  ASSUME TypeInv, NEW t \in Threads, Compute(t) \/ \E b \in Batches : Receive(t, b),
         NEW u \in Threads, u # t
  PROVE  /\ pc'[u] = pc[u] /\ batch'[u] = batch[u] /\ vmOk'[u] = vmOk[u]
         /\ left'[u] = left[u] /\ todo'[u] = todo[u] /\ key'[u] = key[u]
<1> USE DEF Goto, Visit, Scan, Consume, Return, locals
<1>1. /\ pc \in [Threads -> Labels] /\ vmOk \in [Threads -> BOOLEAN] /\ left \in [Threads -> SUBSET Nat]
      /\ todo \in [Threads -> SUBSET PCs] /\ key \in [Threads -> PCs \cup {None}]
      /\ batch \in [Threads -> Seq(Programs)]
  BY DEF TypeInv, TypeOK
<1>2. CASE \E b \in Batches : Receive(t, b)
  BY <1>1, <1>2 DEF Receive
<1>3. CASE VmAnswers(t) \/ VmFails(t) \/ WatchdogReturns(t)
  BY <1>1, <1>3 DEF VmAnswers, VmFails, WatchdogReturns
<1>4. CASE MergeCoverage(t) \/ CompareDepth(t) \/ StoreDepth(t) \/ MergeDone(t)
  BY <1>1, <1>4 DEF MergeCoverage, CompareDepth, StoreDepth, MergeDone
<1>5. CASE PayRejected(t) \/ RejectedDone(t) \/ PayAccepted(t) \/ AcceptedDone(t)
  BY <1>1, <1>5 DEF PayRejected, RejectedDone, PayAccepted, AcceptedDone
<1>6. CASE DecayRead(t) \/ DecayStore(t) \/ DecayDone(t)
  BY <1>1, <1>6 DEF DecayRead, ReadFreq, DecayStore, DecayDone
<1>7. CASE BumpProgram(t) \/ BumpRead(t) \/ BumpStore(t) \/ BumpDone(t)
  BY <1>1, <1>7 DEF BumpProgram, BumpRead, ReadFreq, BumpStore, BumpDone
<1>8. CASE PublishDepths(t) \/ PublishCounts(t) \/ CountRead(t) \/ CountStore(t) \/ CheckCadence(t)
  BY <1>1, <1>8 DEF PublishDepths, PublishCounts, CountRead, CountStore, CheckCadence
<1>9. CASE OpenPcs(t) \/ WritePcs(t) \/ OpenMax(t) \/ WriteMax(t) \/ OpenFreq(t) \/ WriteFreq(t)
  BY <1>1, <1>9 DEF OpenPcs, WritePcs, OpenMax, WriteMax, OpenFreq, WriteFreq, OpenFile, WriteFile
<1>10. CASE WriteFreqRaises(t) \/ Respond(t)
  BY <1>1, <1>10 DEF WriteFreqRaises, Respond
<1> QED BY <1>2, <1>3, <1>4, <1>5, <1>6, <1>7, <1>8, <1>9, <1>10 DEF Compute

LEMMA OthersMerged ==
  ASSUME TypeInv, NEW t \in Threads, Compute(t) \/ \E b \in Batches : Receive(t, b),
         NEW u \in Threads, u # t, Merged(u), pcSet \subseteq pcSet'
  PROVE  Merged(u)'
BY OthersKeep DEF Merged, NextIs

LEMMA InitSighted == Init => Sighted
BY ServerAssumption
   DEF Init, Sighted, Merged, FrontierCovered, Alive, Files, Stores, MergeLabels, SaveLabels,
       AcceptedLabels, Labels

\* From the request to the scoring: a program is merged before it leaves the loop.
LEMMA ArrivalMerged ==
  ASSUME TypeInv, Sighted, NEW t \in Threads,
         (\E b \in Batches : Receive(t, b)) \/ VmAnswers(t) \/ VmFails(t) \/ WatchdogReturns(t)
  PROVE  Merged(t)' /\ pcSet' = pcSet
<1> USE DEF Goto, Visit, globals, locals, At
<1>1. /\ pc \in [Threads -> Labels] /\ vmOk \in [Threads -> BOOLEAN] /\ left \in [Threads -> SUBSET Nat]
      /\ batch \in [Threads -> Seq(Programs)]
  BY DEF TypeInv, TypeOK
<1>2. Merged(t)
  BY DEF Sighted
<1>3. ASSUME NEW b \in Batches, Receive(t, b) PROVE Merged(t)' /\ pcSet' = pcSet
  <2>1. /\ batch'[t] = b /\ todo' = todo /\ pcSet' = pcSet
        /\ pc'[t] = IF ToValidate(b) = {} THEN "reject" ELSE "vm"
    BY <1>1, <1>3 DEF Receive
  <2>2. pc'[t] = "reject" => Accepted(b) = {}
    BY <2>1 DEF Accepted, ToValidate
  <2> QED BY <1>2, <2>1, <2>2 DEF Merged, Stores, MergeLabels, AcceptedLabels
<1>4. CASE VmAnswers(t)
  <2>1. /\ pc'[t] = "merge" /\ left'[t] = ToValidate(batch[t])
        /\ UNCHANGED <<batch, todo, pcSet, key, vmOk>>
    BY <1>1, <1>4, AnswersInPlace DEF VmAnswers
  <2>2. Accepted(batch[t]) \subseteq ToValidate(batch[t])
    BY DEF Accepted, ToValidate
  <2> QED BY <1>2, <2>1, <2>2 DEF Merged, Stores, MergeLabels, AcceptedLabels
<1>5. CASE VmFails(t) \/ WatchdogReturns(t)
  <2>1. /\ pc'[t] \in {"watchdog", "reject"} /\ vmOk'[t] = FALSE
        /\ UNCHANGED <<batch, todo, pcSet, key, left>>
    BY <1>1, <1>2, <1>5 DEF VmFails, WatchdogReturns, Merged
  <2> QED BY <1>2, <2>1 DEF Merged, Stores, MergeLabels, AcceptedLabels
<1> QED BY <1>3, <1>4, <1>5

LEMMA LoopMerged ==
  ASSUME TypeInv, Sighted, NEW t \in Threads,
         MergeCoverage(t) \/ CompareDepth(t) \/ StoreDepth(t) \/ MergeDone(t)
  PROVE  Merged(t)' /\ pcSet \subseteq pcSet'
<1> USE DEF Goto, Visit, globals, locals, At
<1>1. /\ pc \in [Threads -> Labels] /\ left \in [Threads -> SUBSET Nat]
  BY DEF TypeInv, TypeOK
<1>2. Merged(t)
  BY DEF Sighted
<1>3. UNCHANGED <<batch, todo, key, vmOk>>
  BY DEF MergeCoverage, CompareDepth, StoreDepth, MergeDone
<1>4. \A i, j \in left[t] : NextIs(t, i) /\ NextIs(t, j) => i = j
  BY <1>1 DEF NextIs
<1>5. CASE MergeCoverage(t)
  <2>1. PICK i \in left[t] : NextIs(t, i) /\ pcSet' = pcSet \cup Covers(batch[t], i)
    BY <1>5 DEF MergeCoverage
  <2>2. pc[t] = "merge" /\ pc'[t] = "raise" /\ left' = left
    BY <1>1, <1>5 DEF MergeCoverage
  <2>3. \A j \in left'[t] : NextIs(t, j)' => Covers(batch[t], j) \subseteq pcSet'
    BY <1>4, <2>1, <2>2 DEF NextIs
  <2> QED BY <1>2, <1>3, <2>1, <2>2, <2>3 DEF Merged, Stores, MergeLabels, AcceptedLabels
<1>6. CASE CompareDepth(t) \/ StoreDepth(t)
  <2>1. PICK i \in left[t] :
          /\ NextIs(t, i)
          /\ \/ pc'[t] = "raiseStore" /\ left' = left
             \/ pc'[t] = "merge" /\ left'[t] = left[t] \ {i}
    BY <1>1, <1>6 DEF CompareDepth, StoreDepth
  <2>2. pc[t] \in {"raise", "raiseStore"} /\ pcSet' = pcSet
    BY <1>6 DEF CompareDepth, StoreDepth
  <2>3. Covers(batch[t], i) \subseteq pcSet
    BY <1>2, <2>1, <2>2 DEF Merged
  <2>4. CASE pc'[t] = "raiseStore" /\ left' = left
    BY <1>2, <1>3, <2>2, <2>4 DEF Merged, Stores, MergeLabels, AcceptedLabels, NextIs
  <2>5. CASE pc'[t] = "merge" /\ left'[t] = left[t] \ {i}
    <3>1. \A j \in Accepted(batch[t]) \ left'[t] : Covers(batch[t], j) \subseteq pcSet
      BY <1>2, <2>2, <2>3, <2>5 DEF Merged, MergeLabels
    <3> QED BY <1>2, <1>3, <2>2, <2>5, <3>1 DEF Merged, Stores, MergeLabels, AcceptedLabels
  <2> QED BY <2>1, <2>2, <2>4, <2>5
<1>7. CASE MergeDone(t)
  <2>1. pc[t] = "merge" /\ left[t] = {} /\ pc'[t] = "reject" /\ pcSet' = pcSet
    BY <1>1, <1>7 DEF MergeDone
  <2> QED BY <1>2, <1>3, <2>1 DEF Merged, Stores, MergeLabels, AcceptedLabels
<1> QED BY <1>5, <1>6, <1>7

\* Scoring and counting: what is scanned was covered by an accepted program of
\* the batch or was in the frontier already.
LEMMA CountingMerged ==
  ASSUME TypeInv, Sighted, NEW t \in Threads,
         \/ PayRejected(t) \/ RejectedDone(t) \/ PayAccepted(t) \/ AcceptedDone(t)
         \/ DecayRead(t) \/ DecayStore(t) \/ DecayDone(t)
         \/ BumpProgram(t) \/ BumpRead(t) \/ BumpStore(t) \/ BumpDone(t)
  PROVE  Merged(t)' /\ pcSet' = pcSet
<1> USE DEF Goto, Visit, Scan, globals, locals, At, Stores, MergeLabels, AcceptedLabels
<1>1. /\ pc \in [Threads -> Labels] /\ left \in [Threads -> SUBSET Nat] /\ todo \in [Threads -> SUBSET PCs]
      /\ key \in [Threads -> PCs \cup {None}]
  BY DEF TypeInv, TypeOK
<1>2. Merged(t) /\ (up => DOMAIN freq \subseteq pcSet)
  BY DEF Sighted, FrontierCovered
<1>3. UNCHANGED <<batch, vmOk, pcSet>>
  BY DEF PayRejected, RejectedDone, PayAccepted, AcceptedDone, DecayRead, DecayStore, DecayDone,
         BumpProgram, BumpRead, BumpStore, BumpDone, ReadFreq
<1>4. CASE PayRejected(t) \/ PayAccepted(t)
  BY <1>2, <1>3, <1>4 DEF PayRejected, PayAccepted, Merged
<1>5. CASE RejectedDone(t) \/ DecayDone(t) \/ BumpDone(t)
  <2>1. /\ todo' = todo
        /\ \/ pc[t] = "reject" /\ pc'[t] \in {"accept", "publish"}
           \/ pc[t] = "decay" /\ pc'[t] = "bump"
           \/ pc'[t] = "publish"
    BY <1>1, <1>5 DEF RejectedDone, DecayDone, BumpDone
  <2> QED BY <1>2, <1>3, <2>1 DEF Merged
<1>6. CASE AcceptedDone(t)
  <2>1. /\ pc[t] = "accept" /\ pc'[t] \in {"decay", "bump"} /\ up
        /\ todo'[t] = todo[t] \/ todo'[t] = DOMAIN freq
    BY <1>1, <1>6 DEF AcceptedDone
  <2> QED BY <1>2, <1>3, <2>1 DEF Merged
<1>7. CASE DecayRead(t) \/ BumpRead(t)
  <2>1. PICK p \in todo[t] : key'[t] = p
    BY <1>1, <1>7 DEF DecayRead, BumpRead, ReadFreq
  <2>2. pc[t] \in {"decay", "bump"} /\ pc'[t] \in Stores /\ todo' = todo
    BY <1>1, <1>7 DEF DecayRead, BumpRead, ReadFreq
  <2> QED BY <1>2, <1>3, <2>1, <2>2 DEF Merged
<1>8. CASE DecayStore(t) \/ BumpStore(t)
  <2>1. pc[t] \in Stores /\ pc'[t] \in {"decay", "bump"} /\ todo'[t] \subseteq todo[t]
    BY <1>1, <1>8 DEF DecayStore, BumpStore
  <2> QED BY <1>2, <1>3, <2>1 DEF Merged
<1>9. CASE BumpProgram(t)
  <2>1. PICK i \in left[t] : todo'[t] = Covers(batch[t], i)
    BY <1>1, <1>9 DEF BumpProgram
  <2>2. pc[t] = "bump" /\ pc' = pc /\ i \in Accepted(batch[t]) /\ vmOk[t]
    BY <1>9 DEF BumpProgram, TypeInv, Control, Loops
  <2> QED BY <1>2, <1>3, <2>1, <2>2 DEF Merged
<1> QED BY <1>4, <1>5, <1>6, <1>7, <1>8, <1>9

LEMMA RestMerged ==
  ASSUME TypeInv, Sighted, NEW t \in Threads,
         \/ PublishDepths(t) \/ PublishCounts(t) \/ CountRead(t) \/ CountStore(t) \/ CheckCadence(t)
         \/ OpenPcs(t) \/ WritePcs(t) \/ OpenMax(t) \/ WriteMax(t)
         \/ OpenFreq(t) \/ WriteFreq(t) \/ WriteFreqRaises(t) \/ Respond(t)
  PROVE  Merged(t)' /\ pcSet' = pcSet
<1> USE DEF Goto, Scan, Return, globals, locals, At
<1>1. pc \in [Threads -> Labels] /\ todo \in [Threads -> SUBSET PCs]
  BY DEF TypeInv, TypeOK
<1>2. Merged(t) /\ (up => DOMAIN freq \subseteq pcSet)
  BY DEF Sighted, FrontierCovered
<1>3. pcSet' = pcSet
  BY DEF PublishDepths, PublishCounts, CountRead, CountStore, CheckCadence, OpenPcs, WritePcs, OpenMax,
         WriteMax, OpenFreq, WriteFreq, OpenFile, WriteFile, WriteFreqRaises, Respond
<1>4. pc'[t] \in Labels \ ({"watchdog", "reject"} \cup Stores \cup MergeLabels \cup AcceptedLabels)
  BY <1>1
     DEF PublishDepths, PublishCounts, CountRead, CountStore, CheckCadence, OpenPcs, WritePcs, OpenMax,
         WriteMax, OpenFreq, WriteFreq, OpenFile, WriteFile, WriteFreqRaises, Respond,
         Labels, Stores, MergeLabels, AcceptedLabels
<1>5. up /\ (todo'[t] = todo[t] \/ todo'[t] = {} \/ todo'[t] = DOMAIN freq)
  BY <1>1
     DEF PublishDepths, PublishCounts, CountRead, CountStore, CheckCadence, OpenPcs, WritePcs, OpenMax,
         WriteMax, OpenFreq, WriteFreq, OpenFile, WriteFile, WriteFreqRaises, Respond
<1> QED BY <1>2, <1>3, <1>4, <1>5 DEF Merged, MergeLabels

\* The frontier grows by counters in hand only.
LEMMA StepCovered ==
  ASSUME TypeInv, Sighted, NEW t \in Threads, Compute(t) \/ \E b \in Batches : Receive(t, b),
         pcSet \subseteq pcSet'
  PROVE  FrontierCovered'
<1> USE DEF globals, process, At
<1>1. Merged(t) /\ (up => DOMAIN freq \subseteq pcSet)
  BY DEF Sighted, FrontierCovered
<1>2. CASE DecayStore(t) \/ BumpStore(t)
  <2>1. PICK v : freq' = Put(freq, key[t], v)
    BY <1>2 DEF DecayStore, BumpStore
  <2>2. up /\ key[t] \in pcSet
    BY <1>1, <1>2 DEF DecayStore, BumpStore, Merged, Stores
  <2>3. DOMAIN freq' = DOMAIN freq \cup {key[t]}
    BY <2>1 DEF Put
  <2> QED BY <1>1, <2>2, <2>3 DEF FrontierCovered
<1>3. CASE UNCHANGED <<freq, up>>
  BY <1>1, <1>3 DEF FrontierCovered
<1> QED
  BY <1>2, <1>3
     DEF Compute, Receive, VmAnswers, VmFails, WatchdogReturns, MergeCoverage, CompareDepth, StoreDepth,
         MergeDone, PayRejected, RejectedDone, PayAccepted, AcceptedDone, DecayRead, BumpRead, ReadFreq,
         DecayDone, BumpProgram, BumpDone, PublishDepths, PublishCounts, CountRead, CountStore,
         CheckCadence, OpenFile, WriteFile, OpenPcs, WritePcs, OpenMax, WriteMax, OpenFreq, WriteFreq,
         WriteFreqRaises, Respond

LEMMA StepAlive ==
  ASSUME Sighted, NEW t \in Threads, Compute(t) \/ \E b \in Batches : Receive(t, b)
  PROVE  Alive'
<1> USE DEF process, At
<1>1. up /\ UNCHANGED <<up, crashes>>
  BY DEF Compute, Receive, VmAnswers, VmFails, WatchdogReturns, MergeCoverage, CompareDepth, StoreDepth,
         MergeDone, PayRejected, RejectedDone, PayAccepted, AcceptedDone, DecayRead, BumpRead, ReadFreq,
         DecayStore, BumpStore,
         DecayDone, BumpProgram, BumpDone, PublishDepths, PublishCounts, CountRead, CountStore,
         CheckCadence, OpenFile, WriteFile, OpenPcs, WritePcs, OpenMax, WriteMax, OpenFreq, WriteFreq,
         WriteFreqRaises, Respond
<1> QED BY <1>1 DEF Sighted, Alive

\* With one thread nothing is merged while a save is under way.
LEMMA StepFiles ==
  ASSUME TypeInv, Sighted, NEW t \in Threads, Compute(t) \/ \E b \in Batches : Receive(t, b),
         OneThread, pcSet \subseteq pcSet'
  PROVE  Files'
<1> USE DEF globals, process, At, Goto, SaveLabels
<1>1. Files /\ (up => DOMAIN freq \subseteq pcSet) /\ pc \in [Threads -> Labels]
      /\ disk = [pcs |-> disk.pcs, max |-> disk.max, freq |-> disk.freq]
  BY DEF Sighted, FrontierCovered, TypeInv, TypeOK
<1>2. \A u \in Threads : u = t
  BY DEF OneThread
<1>3. CASE OpenPcs(t)
  <2>1. disk'.pcs = None /\ disk'.freq = disk.freq /\ pc'[t] = "writePcs" /\ pcSet' = pcSet /\ up' = up
    BY <1>1, <1>3 DEF OpenPcs, OpenFile
  <2> QED BY <1>1, <1>2, <2>1 DEF Files
<1>4. CASE WritePcs(t)
  <2>1. disk'.pcs = pcSet /\ disk'.freq = disk.freq /\ up /\ pcSet' = pcSet /\ up' = up
    BY <1>1, <1>4 DEF WritePcs, WriteFile
  <2> QED BY <1>1, <2>1 DEF Files
<1>5. CASE OpenMax(t) \/ WriteMax(t)
  <2>1. /\ disk'.pcs = disk.pcs /\ disk'.freq = disk.freq /\ pcSet' = pcSet /\ up' = up
        /\ pc[t] \in SaveLabels
    BY <1>1, <1>5 DEF OpenMax, OpenFile, WriteMax, WriteFile
  <2> QED BY <1>1, <1>2, <2>1 DEF Files
<1>6. CASE OpenFreq(t)
  <2>1. /\ disk'.pcs = disk.pcs /\ disk'.freq = None /\ pcSet' = pcSet /\ up' = up
        /\ pc[t] \in SaveLabels
    BY <1>1, <1>6 DEF OpenFreq, OpenFile
  <2> QED BY <1>1, <1>2, <2>1 DEF Files
<1>7. CASE WriteFreq(t)
  <2>1. /\ disk'.pcs = disk.pcs /\ disk'.freq = freq /\ pcSet' = pcSet /\ up' = up /\ up
        /\ pc[t] \in SaveLabels /\ pc'[t] = "respond"
    BY <1>1, <1>7 DEF WriteFreq, WriteFile
  <2> QED BY <1>1, <1>2, <2>1 DEF Files
<1>8. CASE UNCHANGED <<disk, up>> /\ pc'[t] \notin SaveLabels
  <2>1. (up /\ disk.freq # None) => DOMAIN disk.freq \subseteq pcSet'
    BY <1>1 DEF Files
  <2> QED BY <1>1, <1>2, <1>8, <2>1 DEF Files
<1>9. ASSUME ~(OpenPcs(t) \/ WritePcs(t) \/ OpenMax(t) \/ WriteMax(t) \/ OpenFreq(t) \/ WriteFreq(t))
      PROVE  UNCHANGED <<disk, up>> /\ pc'[t] \notin SaveLabels
  <2>1. UNCHANGED <<disk, up>>
    BY <1>9
       DEF Compute, Receive, VmAnswers, VmFails, WatchdogReturns, MergeCoverage, CompareDepth, StoreDepth,
           MergeDone, PayRejected, RejectedDone, PayAccepted, AcceptedDone, DecayRead, BumpRead, ReadFreq,
           DecayStore, BumpStore, DecayDone, BumpProgram, BumpDone, PublishDepths, PublishCounts,
           CountRead, CountStore, CheckCadence, WriteFreqRaises, Respond
  <2>2. pc'[t] \notin SaveLabels
    BY <1>1, <1>9
       DEF Compute, Receive, VmAnswers, VmFails, WatchdogReturns, MergeCoverage, CompareDepth, StoreDepth,
           MergeDone, PayRejected, RejectedDone, PayAccepted, AcceptedDone, DecayRead, BumpRead, ReadFreq,
           DecayStore, BumpStore, DecayDone, BumpProgram, BumpDone, PublishDepths, PublishCounts,
           CountRead, CountStore, CheckCadence, WriteFreqRaises, Respond, Return
  <2> QED BY <2>1, <2>2
<1> QED BY <1>3, <1>4, <1>5, <1>6, <1>7, <1>8, <1>9

LEMMA ProcessSighted ==
  ASSUME TypeInv, Sighted, Crash \/ Restart, OneThread \/ MaxCrashes = 0
  PROVE  Sighted'
<1>1. CASE Crash
  <2>1. /\ up' = FALSE /\ crashes' = crashes + 1 /\ crashes < MaxCrashes
        /\ \A t \in Threads : pc'[t] = "idle" /\ todo'[t] = {}
        /\ disk' = disk
    BY <1>1 DEF Crash
  <2>2. crashes \in Nat /\ MaxCrashes \in Nat
    BY ServerAssumption DEF Sighted, Alive
  <2>3. Alive'
    BY <2>1, <2>2 DEF Alive
  <2>4. OneThread => Files'
    BY <2>1 DEF Sighted, Files, SaveLabels
  <2> QED
    BY <2>1, <2>3, <2>4 DEF Sighted, Merged, FrontierCovered, Stores, MergeLabels, AcceptedLabels
<1>2. CASE Restart
  <2>1. /\ ~up /\ up' = TRUE /\ pcSet' = disk.pcs /\ freq' = disk.freq
        /\ disk.pcs # None /\ disk.freq # None
        /\ UNCHANGED <<disk, crashes, pc, todo, key, vmOk, batch, left>>
    BY <1>2 DEF Restart, locals
  <2>2. \A t \in Threads : pc[t] = "idle" /\ todo[t] = {}
    BY <2>1 DEF Sighted, Alive, TypeInv, Control
  <2>3. OneThread
    BY <2>1 DEF Sighted, Alive
  <2>4. DOMAIN disk.freq \subseteq disk.pcs
    BY <2>1, <2>3 DEF Sighted, Files
  <2>5. Alive' /\ Files' /\ FrontierCovered'
    BY <2>1, <2>2, <2>4 DEF Sighted, Alive, Files, SaveLabels, FrontierCovered
  <2> QED
    BY <2>1, <2>2, <2>5 DEF Sighted, Merged, Stores, MergeLabels, AcceptedLabels
<1> QED BY <1>1, <1>2

LEMMA NextSighted ==
  ASSUME OneThread \/ MaxCrashes = 0
  PROVE  TypeInv /\ Sighted /\ [Next]_vars => Sighted'
<1> SUFFICES ASSUME TypeInv, Sighted, [Next]_vars PROVE Sighted'
  OBVIOUS
<1>1. ASSUME NEW t \in Threads, Compute(t) \/ \E b \in Batches : Receive(t, b)
      PROVE  Sighted'
  <2>1. Merged(t)' /\ pcSet \subseteq pcSet'
    BY <1>1, ArrivalMerged, LoopMerged, CountingMerged, RestMerged DEF Compute
  <2>2. \A u \in Threads : Merged(u)'
    BY <1>1, <2>1, OthersMerged DEF Sighted
  <2> QED BY <1>1, <2>1, <2>2, StepCovered, StepAlive, StepFiles DEF Sighted
<1>2. CASE Crash \/ Restart
  BY <1>2, ProcessSighted
<1>3. CASE UNCHANGED vars
  BY <1>3 DEF vars, globals, process, locals, Sighted, Merged, NextIs, FrontierCovered, Alive, Files
<1> QED BY <1>1, <1>2, <1>3 DEF Next

\* The frontier holds only counters of the coverage set, for any number of
\* interleaved requests as long as the server does not crash, and across any
\* number of crashes as long as requests come one at a time.
THEOREM FrontierCoveredHolds ==
  ASSUME OneThread \/ MaxCrashes = 0
  PROVE  Spec => []FrontierCovered
<1>1. Sighted => FrontierCovered
  BY DEF Sighted
<1> QED BY <1>1, InitSighted, NextSighted, TypeInvHolds, PTL DEF Spec

-----------------------------------------------------------------------------
(* The frontier is exact when nobody overlaps and nothing ages.            *)
(*                                                                         *)
(* A value in hand is the current one, because the only thread that could  *)
(* change it holds it; the frontier on disk was written together with its  *)
(* tally.                                                                  *)

Exact ==
  /\ up => \A p \in PCs : Get(freq, p) = FreqUnit * hits[p]
  /\ \A t \in Threads : pc[t] = "bumpStore" => val[t] = Get(freq, key[t])
  /\ \A t \in Threads : pc[t] \notin {"decay", "decayStore"}
  /\ disk.freq # None => \A p \in PCs : Get(disk.freq, p) = FreqUnit * savedHits[p]

\* Nothing is counted yet, on disk either.
LEMMA InitExact == Init => Exact
<1> SUFFICES ASSUME Init PROVE Exact
  OBVIOUS
<1>1. \A p \in PCs : Get(freq, p) = 0 /\ Get(disk.freq, p) = 0
  BY DEF Init, Get
<1>2. \A p \in PCs : FreqUnit * hits[p] = 0 /\ FreqUnit * savedHits[p] = 0
  BY WeightsAssumption DEF Init
<1>3. \A t \in Threads : pc[t] = "idle"
  BY DEF Init
<1> QED BY <1>1, <1>2, <1>3 DEF Exact

\* The increment: the frontier and the tally take it together.
LEMMA BumpExact ==
  ASSUME TypeInv, Exact, OneThread, NEW t \in Threads, BumpRead(t) \/ BumpStore(t)
  PROVE  Exact'
<1> USE DEF OneThread
<1>1. pc \in [Threads -> Labels] /\ key \in [Threads -> PCs \cup {None}] /\ val \in [Threads -> Nat]
      /\ hits \in [PCs -> Nat] /\ todo \in [Threads -> SUBSET PCs]
  BY DEF TypeInv, TypeOK
<1>2. CASE BumpRead(t)
  <2>1. /\ UNCHANGED <<freq, hits, savedHits, up, disk>> /\ pc'[t] = "bumpStore"
        /\ val'[t] = Get(freq, key'[t])
    BY <1>1, <1>2 DEF BumpRead, ReadFreq, Goto, globals, process
  <2> QED BY <2>1 DEF Exact
<1>3. CASE BumpStore(t)
  <2> DEFINE k == key[t]
  <2>1. /\ freq' = Put(freq, k, val[t] + FreqUnit) /\ hits' = [hits EXCEPT ![k] = @ + 1]
        /\ UNCHANGED <<savedHits, up, disk>> /\ up /\ pc[t] = "bumpStore" /\ pc'[t] = "bump"
    BY <1>1, <1>3 DEF BumpStore, At, Goto, process
  <2>2. k \in PCs /\ val[t] = Get(freq, k)
    BY <2>1 DEF TypeInv, Control, Loops, Exact
  <2>3. ASSUME NEW p \in PCs PROVE Get(freq', p) = FreqUnit * hits'[p]
    <3>1. Get(freq, p) = FreqUnit * hits[p] /\ hits[p] \in Nat
      BY <1>1, <2>1 DEF Exact
    <3>2. CASE p = k
      <4>1. Get(freq', p) = Get(freq, p) + FreqUnit BY <2>1, <2>2, <3>2 DEF Get, Put
      <4>2. hits'[p] = hits[p] + 1 BY <1>1, <2>1, <2>2, <3>2
      <4> QED BY <3>1, <4>1, <4>2, WeightsAssumption
    <3>3. CASE p # k
      BY <1>1, <2>1, <3>1, <3>3 DEF Get, Put
    <3> QED BY <3>2, <3>3
  <2> QED BY <2>1, <2>3 DEF Exact
<1> QED BY <1>2, <1>3

\* The frontier is saved together with its tally.
LEMMA SaveExact ==
  ASSUME TypeInv, Exact, OneThread, NEW t \in Threads, WriteFreq(t)
  PROVE  Exact'
<1>1. /\ UNCHANGED <<freq, hits, up, key, val>> /\ pc' = [pc EXCEPT ![t] = "respond"] /\ up
      /\ disk' = [disk EXCEPT !.freq = freq] /\ savedHits' = hits
  BY DEF WriteFreq, WriteFile, At, Goto, globals
<1>2. disk'.freq = freq /\ pc'[t] = "respond"
  <2>1. disk = [pcs |-> disk.pcs, max |-> disk.max, freq |-> disk.freq] /\ pc \in [Threads -> Labels]
    BY DEF TypeInv, TypeOK
  <2> QED BY <1>1, <2>1
<1> QED BY <1>1, <1>2 DEF Exact, OneThread

\* The other steps of a request.
LEMMA QuietExact ==
  ASSUME TypeInv, Exact, OneThread, DecayNum = DecayDen, NEW t \in Threads,
         \/ \E b \in Batches : Receive(t, b)
         \/ VmAnswers(t) \/ VmFails(t) \/ WatchdogReturns(t)
         \/ MergeCoverage(t) \/ CompareDepth(t) \/ StoreDepth(t) \/ MergeDone(t)
         \/ PayRejected(t) \/ RejectedDone(t) \/ PayAccepted(t) \/ AcceptedDone(t)
         \/ BumpProgram(t) \/ BumpDone(t)
         \/ PublishDepths(t) \/ PublishCounts(t)
         \/ CountRead(t) \/ CountStore(t) \/ CheckCadence(t)
         \/ OpenPcs(t) \/ WritePcs(t) \/ OpenMax(t) \/ WriteMax(t)
         \/ OpenFreq(t) \/ WriteFreqRaises(t) \/ Respond(t)
  PROVE  Exact'
<1> USE DEF At, Goto, globals, process, locals
<1>1. pc \in [Threads -> Labels] /\ disk = [pcs |-> disk.pcs, max |-> disk.max, freq |-> disk.freq]
  BY DEF TypeInv, TypeOK
<1>2. UNCHANGED <<freq, hits, savedHits, up>>
  BY DEF Receive, VmAnswers, VmFails, WatchdogReturns, MergeCoverage, CompareDepth, StoreDepth,
         MergeDone, PayRejected, RejectedDone, PayAccepted, AcceptedDone, BumpProgram,
         BumpDone, PublishDepths, PublishCounts, CountRead, CountStore, CheckCadence, OpenFile,
         WriteFile, OpenPcs, WritePcs, OpenMax, WriteMax, OpenFreq, WriteFreqRaises, Respond
<1>3. disk'.freq = disk.freq \/ disk'.freq = None
  <2>1. CASE OpenPcs(t) \/ WritePcs(t) \/ OpenMax(t) \/ WriteMax(t) \/ OpenFreq(t)
    BY <1>1, <2>1 DEF OpenFile, WriteFile, OpenPcs, WritePcs, OpenMax, WriteMax, OpenFreq
  <2>2. CASE UNCHANGED disk
    BY <2>2
  <2> QED
    BY <2>1, <2>2
       DEF Receive, VmAnswers, VmFails, WatchdogReturns, MergeCoverage, CompareDepth, StoreDepth,
           MergeDone, PayRejected, RejectedDone, PayAccepted, AcceptedDone, BumpProgram,
           BumpDone, PublishDepths, PublishCounts, CountRead, CountStore, CheckCadence,
           WriteFreqRaises, Respond
<1>4. pc'[t] \in Labels \ {"decay", "decayStore", "bumpStore"}
  <2>1. CASE AcceptedDone(t)
    BY <1>1, <2>1, ServerAssumption DEF AcceptedDone, Labels
  <2>2. CASE UNCHANGED pc
    <3>1. pc[t] # "bumpStore" BY <1>1, <2>2 DEF Receive, VmAnswers, VmFails, WatchdogReturns, MergeCoverage, CompareDepth, StoreDepth, MergeDone,
         PayRejected, RejectedDone, PayAccepted, AcceptedDone, BumpProgram, BumpDone, PublishDepths, PublishCounts,
         CountRead, CountStore, CheckCadence, OpenFile,
         WriteFile, OpenPcs, WritePcs, OpenMax, WriteMax, OpenFreq, WriteFreqRaises, Respond
    <3> QED BY <1>1, <2>2, <3>1 DEF Exact
  <2>3. CASE ~AcceptedDone(t) /\ pc' # pc
    BY <1>1, <2>3
       DEF Receive, VmAnswers, VmFails, WatchdogReturns, MergeCoverage, CompareDepth, StoreDepth, MergeDone,
         PayRejected, RejectedDone, PayAccepted, BumpProgram, BumpDone, PublishDepths, PublishCounts,
         CountRead, CountStore, CheckCadence, OpenFile,
         WriteFile, OpenPcs, WritePcs, OpenMax, WriteMax, OpenFreq, WriteFreqRaises, Respond, Return, Labels
  <2> QED BY <2>1, <2>2, <2>3
<1> QED BY <1>2, <1>3, <1>4 DEF Exact, OneThread

\* A crash ends the increments in hand; a restart reads back what was saved.
LEMMA ProcessExact ==
  ASSUME TypeInv, Exact, Crash \/ Restart
  PROVE  Exact'
<1>1. CASE Crash
  BY <1>1 DEF Crash, globals, Exact
<1>2. CASE Restart
  <2>1. /\ freq' = disk.freq /\ hits' = savedHits /\ disk.freq # None /\ ~up
        /\ UNCHANGED <<disk, savedHits, pc, key, val>>
    BY <1>2 DEF Restart, locals
  <2>2. \A t \in Threads : pc[t] = "idle"
    BY <2>1 DEF TypeInv, Control
  <2> QED BY <2>1, <2>2 DEF Exact
<1> QED BY <1>1, <1>2

\* Every step.
LEMMA NextExact ==
  ASSUME OneThread, DecayNum = DecayDen
  PROVE  TypeInv /\ Exact /\ [Next]_vars => Exact'
<1> SUFFICES ASSUME TypeInv, Exact, [Next]_vars PROVE Exact'
  OBVIOUS
<1>1. ASSUME NEW t \in Threads, Compute(t) \/ \E b \in Batches : Receive(t, b)
      PROVE  Exact'
  <2>1. ~(DecayRead(t) \/ DecayStore(t) \/ DecayDone(t))
    BY DEF DecayRead, DecayStore, DecayDone, At, Exact
  <2> QED BY <1>1, <2>1, BumpExact, SaveExact, QuietExact DEF Compute
<1>2. CASE Crash \/ Restart
  BY <1>2, ProcessExact
<1>3. CASE UNCHANGED vars
  BY <1>3 DEF vars, globals, process, locals, Exact
<1> QED BY <1>1, <1>2, <1>3 DEF Next

\* "a persistent count of how many times each PC has been hit by an ACCEPTED
\* program" (ml/reward.py:26) is what the frontier is while requests come one at
\* a time and nothing ages, across any number of crashes and restarts.
THEOREM FrontierExactHolds ==
  ASSUME OneThread, DecayNum = DecayDen
  PROVE  Spec => []FrontierExact
<1>1. Exact => FrontierExact
  BY DEF Exact, FrontierExact
<1> QED BY <1>1, InitExact, NextExact, TypeInvHolds, PTL DEF Spec
-----------------------------------------------------------------------------
(***************************************************************************)
(* The trainer that asks the server, for any number of threads, attempts   *)
(* and steps: what it learns from.  The server half adds to the ladder     *)
(* what a batch whose VM call failed holds; the client half follows the    *)
(* attempt that is being waited for from its thread to the answer.         *)
(***************************************************************************)

\* A batch that was not scored yet, or that the VM lost, pays nobody above the
\* soft floor; only a batch the VM answered reaches the scoring.
Unpaid(t) ==
  /\ pc[t] = "accept" => vmOk[t] = TRUE
  /\ pc[t] \notin AfterScoring \cup {"accept"} \/ vmOk[t] = FALSE =>
       \A i \in Accepted(batch[t]) : rewards[t][i] <= W_REJECT_MAX

LostAnswer(r) ==
  r # None /\ r.vmOk = FALSE => \A i \in DOMAIN r.batch : r.rewards[i] <= W_REJECT_MAX

Typed(r) == r # None => r.vmOk \in BOOLEAN

Lost == \A t \in Threads : Unpaid(t) /\ LostAnswer(response[t]) /\ Typed(response[t])

-----------------------------------------------------------------------------
(* The server.                                                             *)

LEMMA OthersAnswer ==
  ASSUME TypeInv, NEW t \in Threads, Compute(t) \/ \E b \in Batches : Receive(t, b),
         NEW u \in Threads, u # t
  PROVE  rewards'[u] = rewards[u] /\ response'[u] = response[u]
<1> USE DEF Return, locals
<1>1. rewards \in [Threads -> Seq(Nat)] /\ DOMAIN response = Threads
  BY DEF TypeInv, TypeOK
<1>2. CASE \E b \in Batches : Receive(t, b)
  BY <1>1, <1>2 DEF Receive
<1>3. CASE VmAnswers(t) \/ VmFails(t) \/ WatchdogReturns(t)
  BY <1>1, <1>3 DEF VmAnswers, VmFails, WatchdogReturns
<1>4. CASE MergeCoverage(t) \/ CompareDepth(t) \/ StoreDepth(t) \/ MergeDone(t)
  BY <1>1, <1>4 DEF MergeCoverage, CompareDepth, StoreDepth, MergeDone
<1>5. CASE PayRejected(t) \/ RejectedDone(t) \/ PayAccepted(t) \/ AcceptedDone(t)
  BY <1>1, <1>5 DEF PayRejected, RejectedDone, PayAccepted, AcceptedDone
<1>6. CASE DecayRead(t) \/ DecayStore(t) \/ DecayDone(t)
  BY <1>1, <1>6 DEF DecayRead, ReadFreq, DecayStore, DecayDone
<1>7. CASE BumpProgram(t) \/ BumpRead(t) \/ BumpStore(t) \/ BumpDone(t)
  BY <1>1, <1>7 DEF BumpProgram, BumpRead, ReadFreq, BumpStore, BumpDone
<1>8. CASE PublishDepths(t) \/ PublishCounts(t) \/ CountRead(t) \/ CountStore(t) \/ CheckCadence(t)
  BY <1>1, <1>8 DEF PublishDepths, PublishCounts, CountRead, CountStore, CheckCadence
<1>9. CASE OpenPcs(t) \/ WritePcs(t) \/ OpenMax(t) \/ WriteMax(t) \/ OpenFreq(t) \/ WriteFreq(t)
  BY <1>1, <1>9 DEF OpenPcs, WritePcs, OpenMax, WriteMax, OpenFreq, WriteFreq, OpenFile, WriteFile
<1>10. CASE WriteFreqRaises(t) \/ Respond(t)
  BY <1>1, <1>10 DEF WriteFreqRaises, Respond
<1> QED BY <1>2, <1>3, <1>4, <1>5, <1>6, <1>7, <1>8, <1>9, <1>10 DEF Compute

\* What a step of a running request does to its own batch and answer.
LEMMA OwnStep ==
  ASSUME TypeInv, NEW t \in Threads, Compute(t)
  PROVE  /\ pc[t] # "idle"
         /\ pc'[t] = "idle" \/ batch'[t] = batch[t]
         /\ response'[t] = response[t] \/ (response'[t] # None => response'[t].batch = batch[t])
<1> USE DEF Goto, Visit, Scan, Consume, Return, locals, At
<1>1. /\ pc \in [Threads -> Labels] /\ batch \in [Threads -> Seq(Programs)]
      /\ DOMAIN response = Threads
  BY DEF TypeInv, TypeOK
<1>2. CASE ~Respond(t) /\ ~WriteFreqRaises(t)
  BY <1>1, <1>2, AnswersInPlace DEF Compute, VmAnswers, VmFails, WatchdogReturns, MergeCoverage, CompareDepth, StoreDepth,
         MergeDone, PayRejected, RejectedDone, PayAccepted, AcceptedDone,
         DecayRead, DecayStore, DecayDone, BumpProgram, BumpRead, BumpStore, BumpDone, ReadFreq,
         PublishDepths, PublishCounts, CountRead, CountStore, CheckCadence, OpenFile, WriteFile,
         OpenPcs, WritePcs, OpenMax, WriteMax, OpenFreq, WriteFreq
<1>3. CASE WriteFreqRaises(t)
  BY <1>1, <1>3 DEF WriteFreqRaises
<1>4. CASE Respond(t)
  BY <1>1, <1>4 DEF Respond
<1> QED BY <1>2, <1>3, <1>4

\* A request enters unpaid and unanswered.
LEMMA EnterUnpaid ==
  ASSUME TypeInv, NEW t \in Threads, NEW b \in Batches, Receive(t, b)
  PROVE  Unpaid(t)' /\ response'[t] = None /\ pc'[t] # "idle" /\ batch'[t] = b
<1>1. /\ batch'[t] = b /\ rewards'[t] = [i \in DOMAIN b |-> 0] /\ response'[t] = None
      /\ pc'[t] \in {"reject", "vm"}
  BY DEF Receive, Goto, TypeInv, TypeOK
<1>2. \A i \in Accepted(b) : rewards'[t][i] <= W_REJECT_MAX
  BY <1>1, WeightsAssumption DEF Accepted
<1> QED BY <1>1, <1>2 DEF Unpaid, Accepted

\* A step that is not a payment moves an unpaid batch on, or comes after scoring.
LEMMA PassUnpaid ==
  ASSUME TypeInv, NEW t \in Threads, Unpaid(t), Compute(t),
         ~PayRejected(t), ~PayAccepted(t), ~Respond(t), ~WriteFreqRaises(t)
  PROVE  Unpaid(t)' /\ response'[t] = response[t]
<1> USE DEF At, Goto, locals
<1>1. pc \in [Threads -> Labels] /\ vmOk \in [Threads -> BOOLEAN]
  BY DEF TypeInv, TypeOK
<1>2. UNCHANGED <<batch, rewards, response>>
  BY AnswersInPlace DEF Compute, VmAnswers, VmFails, WatchdogReturns, MergeCoverage, CompareDepth, StoreDepth,
         MergeDone, RejectedDone, AcceptedDone,
         DecayRead, DecayStore, DecayDone, BumpProgram, BumpRead, BumpStore, BumpDone, ReadFreq,
         PublishDepths, PublishCounts, CountRead, CountStore, CheckCadence, OpenFile, WriteFile,
         OpenPcs, WritePcs, OpenMax, WriteMax, OpenFreq, WriteFreq
<1>3. CASE VmFails(t) \/ RejectedDone(t) \/ AcceptedDone(t)
  <2>1. CASE VmFails(t)
    <3>1. pc[t] = "vm" /\ pc'[t] = "watchdog"
      BY <1>1, <2>1 DEF VmFails
    <3> QED BY <1>2, <3>1 DEF Unpaid, AfterScoring, Accepted
  <2>2. CASE RejectedDone(t)
    <3>1. pc[t] = "reject" /\ vmOk' = vmOk /\ ((pc'[t] = "accept" /\ vmOk[t] = TRUE) \/ pc'[t] = "publish")
      BY <1>1, <2>2 DEF RejectedDone
    <3> QED BY <1>2, <3>1 DEF Unpaid, AfterScoring, Accepted
  <2>3. CASE AcceptedDone(t)
    <3>1. pc[t] = "accept" /\ vmOk' = vmOk /\ pc'[t] \in {"decay", "bump"}
      BY <1>1, <2>3 DEF AcceptedDone
    <3> QED BY <1>2, <3>1 DEF Unpaid, AfterScoring, Accepted, Labels
  <2> QED BY <1>3, <2>1, <2>2, <2>3
<1>4. CASE ~VmFails(t) /\ ~RejectedDone(t) /\ ~AcceptedDone(t)
  <2>1. UNCHANGED vmOk
    BY <1>4 DEF Compute, VmAnswers, WatchdogReturns, MergeCoverage, CompareDepth, StoreDepth, MergeDone,
         DecayRead, DecayStore, DecayDone, BumpProgram, BumpRead, BumpStore, BumpDone, ReadFreq,
         PublishDepths, PublishCounts, CountRead, CountStore, CheckCadence, OpenFile, WriteFile,
         OpenPcs, WritePcs, OpenMax, WriteMax, OpenFreq, WriteFreq
  <2>2. \/ pc[t] \in AfterScoring /\ pc'[t] \in AfterScoring
        \/ pc[t] \notin AfterScoring \cup {"accept"} /\ pc'[t] \notin AfterScoring \cup {"accept"}
    <3> USE DEF AfterScoring, Labels
    <3>1. CASE VmAnswers(t) \/ WatchdogReturns(t)
      BY <1>1, <3>1 DEF VmAnswers, WatchdogReturns
    <3>2. CASE MergeCoverage(t) \/ CompareDepth(t) \/ StoreDepth(t) \/ MergeDone(t)
      BY <1>1, <3>2 DEF MergeCoverage, CompareDepth, StoreDepth, MergeDone
    <3>3. CASE DecayRead(t) \/ DecayStore(t) \/ DecayDone(t)
      BY <1>1, <3>3 DEF DecayRead, DecayStore, DecayDone, ReadFreq
    <3>4. CASE BumpProgram(t) \/ BumpRead(t) \/ BumpStore(t) \/ BumpDone(t)
      BY <1>1, <3>4 DEF BumpProgram, BumpRead, BumpStore, BumpDone, ReadFreq
    <3>5. CASE PublishDepths(t) \/ PublishCounts(t) \/ CountRead(t) \/ CountStore(t) \/ CheckCadence(t)
      BY <1>1, <3>5 DEF PublishDepths, PublishCounts, CountRead, CountStore, CheckCadence
    <3>6. CASE OpenPcs(t) \/ WritePcs(t) \/ OpenMax(t) \/ WriteMax(t) \/ OpenFreq(t) \/ WriteFreq(t)
      BY <1>1, <3>6 DEF OpenFile, WriteFile, OpenPcs, WritePcs, OpenMax, WriteMax, OpenFreq, WriteFreq
    <3> HIDE DEF AfterScoring, Labels
    <3> QED BY <1>4, <3>1, <3>2, <3>3, <3>4, <3>5, <3>6 DEF Compute
  <2>3. "accept" \notin AfterScoring
    BY DEF AfterScoring
  <2> QED BY <1>2, <2>1, <2>2, <2>3 DEF Unpaid, Accepted
<1> QED BY <1>2, <1>3, <1>4

\* The soft floor keeps a batch unpaid; the gate is paid in an answered batch.
LEMMA PayUnpaid ==
  ASSUME TypeInv, NEW t \in Threads, Unpaid(t), PayRejected(t) \/ PayAccepted(t)
  PROVE  Unpaid(t)' /\ response'[t] = response[t]
<1>1. UNCHANGED <<pc, batch, vmOk, response>>
  BY DEF PayRejected, PayAccepted
<1>2. CASE PayAccepted(t)
  BY <1>1, <1>2 DEF PayAccepted, At, Unpaid
<1>3. CASE PayRejected(t)
  <2>1. PICK i \in left[t] : rewards' = [rewards EXCEPT ![t][i] = RejectedReward(Depth(batch[t], i), maxPcs)]
    BY <1>3 DEF PayRejected
  <2>2. i \in Rejected(batch[t]) /\ Accepted(batch[t]) \cap Rejected(batch[t]) = {}
    BY <1>3, RungsAreDisjoint DEF PayRejected, At, TypeInv, TypeOK, Control, Loops
  <2>3. \A j \in Accepted(batch[t]) : rewards'[t][j] = rewards[t][j]
    <3> DEFINE r == RejectedReward(Depth(batch[t], i), maxPcs)
    <3>1. rewards' = [rewards EXCEPT ![t][i] = r]
      BY <2>1
    <3>2. i \notin Accepted(batch[t])
      BY <2>2
    <3> HIDE DEF r
    <3> QED BY <3>1, <3>2 DEF TypeInv, TypeOK
  <2> QED BY <1>1, <2>3 DEF Unpaid, Accepted
<1> QED BY <1>2, <1>3

\* An answer carries the list of its batch.
LEMMA AnswerUnpaid ==
  ASSUME TypeInv, NEW t \in Threads, Unpaid(t), RightPay(t), LostAnswer(response[t]),
         Typed(response[t]), WriteFreqRaises(t) \/ Respond(t)
  PROVE  Unpaid(t)' /\ LostAnswer(response[t])' /\ Typed(response[t])'
<1>1. /\ batch'[t] = <<>> /\ vmOk'[t] = TRUE /\ pc'[t] = "idle"
  BY DEF WriteFreqRaises, Respond, Return, Goto, TypeInv, TypeOK
<1>2. Unpaid(t)'
  BY <1>1 DEF Unpaid, Accepted
<1>3. CASE WriteFreqRaises(t)
  BY <1>2, <1>3 DEF WriteFreqRaises, LostAnswer, Typed, Accepted
<1>4. CASE Respond(t)
  <2>1. /\ response'[t].batch = batch[t] /\ response'[t].vmOk = vmOk[t]
        /\ response'[t].rewards = rewards[t] /\ vmOk[t] \in BOOLEAN
    BY <1>4 DEF Respond, TypeInv, TypeOK
  <2>2. vmOk[t] = FALSE => \A i \in DOMAIN batch[t] : rewards[t][i] <= W_REJECT_MAX
    BY DEF Unpaid, RightPay
  <2> QED BY <1>2, <2>1, <2>2 DEF LostAnswer, Typed
<1> QED BY <1>3, <1>4

LEMMA InitLost == Init => Lost
BY DEF Init, Lost, Unpaid, LostAnswer, Typed, Accepted

LEMMA NextLost == TypeInv /\ Ladder /\ Lost /\ [Next]_vars => Lost'
<1> SUFFICES ASSUME TypeInv, Ladder, Lost, [Next]_vars PROVE Lost'
  OBVIOUS
<1>1. ASSUME NEW t \in Threads, Compute(t) \/ \E b \in Batches : Receive(t, b)
      PROVE  Lost'
  <2>1. ASSUME NEW u \in Threads, u # t PROVE Unpaid(u)' /\ LostAnswer(response[u])' /\ Typed(response[u])'
    <3>1. /\ pc'[u] = pc[u] /\ batch'[u] = batch[u] /\ vmOk'[u] = vmOk[u]
          /\ rewards'[u] = rewards[u] /\ response'[u] = response[u]
      BY <1>1, <2>1, OthersKeep, OthersAnswer
    <3> QED BY <3>1 DEF Lost, Unpaid, LostAnswer, Typed, Accepted
  <2>2. Unpaid(t)' /\ LostAnswer(response[t])' /\ Typed(response[t])'
    <3>1. Unpaid(t) /\ LostAnswer(response[t]) /\ Typed(response[t])
      BY DEF Lost
    <3>2. CASE \E b \in Batches : Receive(t, b)
      BY <3>2, EnterUnpaid DEF LostAnswer, Typed
    <3>3. CASE Compute(t) /\ ~Respond(t) /\ ~WriteFreqRaises(t)
      <4>1. Unpaid(t)' /\ response'[t] = response[t]
        BY <3>1, <3>3, PassUnpaid, PayUnpaid
      <4> QED BY <3>1, <4>1 DEF LostAnswer, Typed, Accepted
    <3>4. CASE WriteFreqRaises(t) \/ Respond(t)
      BY <3>1, <3>4, AnswerUnpaid DEF Ladder
    <3> QED BY <1>1, <3>2, <3>3, <3>4
  <2> QED BY <2>1, <2>2 DEF Lost
<1>2. CASE Crash
  <2>1. /\ \A t \in Threads : pc'[t] = "idle" /\ batch'[t] = <<>>
        /\ UNCHANGED response
    BY <1>2 DEF Crash
  <2> QED BY <2>1 DEF Lost, Unpaid, LostAnswer, Typed, Accepted
<1>3. CASE Restart \/ UNCHANGED vars
  <2>1. UNCHANGED <<pc, batch, vmOk, rewards, response>>
    BY <1>3 DEF Restart, vars, locals
  <2> QED BY <2>1 DEF Lost, Unpaid, LostAnswer, Typed, Accepted
<1> QED BY <1>1, <1>2, <1>3 DEF Next

-----------------------------------------------------------------------------
(* The trainer.                                                            *)

\* Each completion of an answer on its rung.
Graded(r) ==
  \A i \in DOMAIN r.batch :
    IF r.vmOk /\ i \in Accepted(r.batch)
    THEN r.rewards[i] >= W_VALID ELSE r.rewards[i] <= W_REJECT_MAX

\* The attempt being waited for is about the current prompt, from the thread
\* that runs it to the answer it leaves.
Attempt ==
  serving # None =>
    /\ serving \in Threads /\ client = "waiting"
    /\ pc[serving] # "idle" => batch[serving] = prompt
    /\ response[serving] # None => response[serving].batch = prompt

Trail ==
  /\ \E S : learned \in Seq(S)
  /\ client # "sampling" => prompt \in Batches
  /\ client = "sampling" /\ learned # <<>> => learned[Len(learned)].batch = prompt
  /\ \A n \in 1 .. Len(learned) : Graded(learned[n])

Client == Attempt /\ Trail

\* What the server holds for the taking is graded.
LEMMA AnswersAreGraded ==
  ASSUME Ladder, Lost, NEW t \in Threads, response[t] # None
  PROVE  Graded(response[t])
<1> DEFINE r == response[t]
<1>1. RightAnswer(r) /\ LostAnswer(r) /\ r.vmOk \in BOOLEAN
  BY DEF Ladder, Lost, Typed
<1>2. CASE r.vmOk = TRUE
  BY <1>1, <1>2 DEF RightAnswer, Graded, Accepted
<1>3. CASE r.vmOk = FALSE
  BY <1>1, <1>3 DEF LostAnswer, Graded
<1> QED BY <1>1, <1>2, <1>3

\* The attempt being waited for: only its own thread's steps concern it.
LEMMA StepAttempt ==
  ASSUME TypeInv, NEW t \in Threads, Compute(t), UNCHANGED clientVars, Attempt
  PROVE  Attempt'
<1>1. UNCHANGED <<client, prompt, serving>>
  BY DEF clientVars
<1> SUFFICES ASSUME serving # None
    PROVE  /\ serving \in Threads /\ client = "waiting"
           /\ pc'[serving] # "idle" => batch'[serving] = prompt
           /\ response'[serving] # None => response'[serving].batch = prompt
  BY <1>1 DEF Attempt
<1>2. CASE serving = t
  BY <1>2, OwnStep DEF Attempt
<1>3. CASE serving # t
  BY <1>3, OthersKeep, OthersAnswer DEF Attempt
<1> QED BY <1>2, <1>3

LEMMA ServerClient ==
  ASSUME TypeInv, Client, ServerStep
  PROVE  Client'
<1>1. UNCHANGED clientVars
  BY DEF ServerStep
<1>2. Trail'
  BY <1>1 DEF Client, Trail, clientVars, Graded
<1>3. Attempt'
  <2>1. CASE \E t \in Threads : Compute(t)
    BY <1>1, <2>1, StepAttempt DEF Client
  <2>2. CASE Crash
    BY <1>1, <2>2 DEF Crash, Client, Attempt, clientVars
  <2>3. CASE Restart
    BY <1>1, <2>3 DEF Restart, locals, Client, Attempt, clientVars
  <2> QED BY <2>1, <2>2, <2>3 DEF ServerStep
<1> QED BY <1>2, <1>3 DEF Client

\* The answer of the attempt's thread is the one taken.
LEMMA TakeClient ==
  ASSUME TypeInv, Ladder, Lost, Client, TakeAnswer
  PROVE  Client'
<1> DEFINE r == response[serving]
<1>1. /\ client' = "sampling" /\ serving' = None /\ prompt' = prompt
      /\ learned' = Append(learned, r)
      /\ serving # None /\ serving \in Threads /\ r # None
  BY DEF TakeAnswer, Answered, Client, Attempt
<1>2. r.batch = prompt
  BY <1>1 DEF Client, Attempt
<1>3. Graded(r)
  BY <1>1, AnswersAreGraded
<1> HIDE DEF r
<1>4. PICK S : learned \in Seq(S)
  BY DEF Client, Trail
<1>5. /\ learned' \in Seq(S \cup {r}) /\ Len(learned') = Len(learned) + 1 /\ Len(learned) \in Nat
      /\ learned'[Len(learned')] = r /\ \A n \in 1 .. Len(learned) : learned'[n] = learned[n]
  <2>1. learned \in Seq(S \cup {r}) /\ r \in S \cup {r}
    BY <1>4
  <2> QED BY <1>1, <2>1
<1>6. \A n \in 1 .. Len(learned') : Graded(learned'[n])
  <2> SUFFICES ASSUME NEW n \in 1 .. Len(learned') PROVE Graded(learned'[n])
    OBVIOUS
  <2>1. CASE n \in 1 .. Len(learned)
    BY <1>5, <2>1 DEF Client, Trail
  <2>2. CASE n = Len(learned')
    BY <1>3, <1>5, <2>2
  <2> QED BY <1>5, <2>1, <2>2
<1>7. Trail'
  <2>1. \E T : learned' \in Seq(T)
    BY <1>5
  <2>2. (\A n \in 1 .. Len(learned) : Graded(learned[n]))'
    BY <1>6 DEF Graded, Accepted
  <2> QED BY <1>1, <1>2, <1>5, <2>1, <2>2 DEF Trail
<1>8. Attempt'
  BY <1>1 DEF Attempt
<1> QED BY <1>7, <1>8 DEF Client

LEMMA StepClient ==
  ASSUME TypeInv, Client,
         \/ \E b \in Batches : Sample(b)
         \/ \E t \in Threads : Post(t)
         \/ PostLost \/ AttemptFails
  PROVE  Client'
<1>1. UNCHANGED learned /\ client' # "sampling"
  BY DEF Sample, Post, PostLost, AttemptFails
<1>2. prompt' \in Batches
  BY DEF Sample, Post, PostLost, AttemptFails, Client, Trail
<1>3. Trail'
  BY <1>1, <1>2 DEF Client, Trail, Graded
<1>4. Attempt'
  <2>1. CASE PostLost \/ AttemptFails
    BY <2>1 DEF PostLost, AttemptFails, Attempt
  <2>2. CASE \E b \in Batches : Sample(b)
    BY <2>2 DEF Sample, Client, Attempt
  <2>3. ASSUME NEW t \in Threads, Post(t) PROVE Attempt'
    <3>1. prompt \in Batches /\ Receive(t, prompt)
      BY <2>3 DEF Post, Client, Trail
    <3>2. response'[t] = None /\ batch'[t] = prompt
      BY <3>1, EnterUnpaid
    <3> QED BY <2>3, <3>2 DEF Post, Attempt
  <2> QED BY <2>1, <2>2, <2>3
<1> QED BY <1>3, <1>4 DEF Client

\* A step of the composition is a step of the server, or leaves it alone.
LEMMA IsServerStep == Client /\ [RTNext]_allVars => [Next]_vars
<1> SUFFICES ASSUME Client, [RTNext]_allVars PROVE [Next]_vars
  OBVIOUS
<1>1. CASE ServerStep
  BY <1>1 DEF ServerStep, Next
<1>2. ASSUME NEW t \in Threads, Post(t) PROVE [Next]_vars
  BY <1>2 DEF Post, Client, Trail, Next
<1>3. CASE UNCHANGED allVars \/ (\E b \in Batches : Sample(b)) \/ PostLost \/ TakeAnswer \/ AttemptFails
  BY <1>3 DEF allVars, Sample, PostLost, TakeAnswer, AttemptFails
<1> QED BY <1>1, <1>2, <1>3 DEF RTNext, ClientStep

LEMMA NextClient == TypeInv /\ Ladder /\ Lost /\ Client /\ [RTNext]_allVars => Client'
<1> SUFFICES ASSUME TypeInv, Ladder, Lost, Client, [RTNext]_allVars PROVE Client'
  OBVIOUS
<1>1. CASE UNCHANGED allVars
  <2>1. UNCHANGED <<client, prompt, serving, learned, pc, batch, response>>
    BY <1>1 DEF allVars, clientVars, vars, locals
  <2> QED BY <2>1 DEF Client, Attempt, Trail, Graded
<1> QED BY <1>1, ServerClient, TakeClient, StepClient DEF RTNext, ClientStep

\* Whatever attempts are abandoned, lost or answered late, and however often
\* the server crashes, the trainer learns from an answer about the completions
\* of its own step, and each of them is paid on its rung: the gate at least for
\* a program the VM accepted, the soft floor at most for every other one.
THEOREM LearnsOwnRewardsHolds == RTSpec => []LearnsOwnRewards
<1> DEFINE Inv == TypeInv /\ Ladder /\ Lost /\ Client
<1>1. RTInit => Inv
  <2> SUFFICES ASSUME RTInit PROVE Inv
    OBVIOUS
  <2>1. Init /\ learned = <<>> /\ serving = None /\ client = "sampling"
    BY DEF RTInit
  <2>2. Client
    <3>1. <<>> \in Seq({})
      OBVIOUS
    <3> QED BY <2>1, <3>1 DEF Client, Attempt, Trail
  <2> QED BY <2>1, <2>2, InitTypeInv, InitLadder, InitLost
<1>2. Inv /\ [RTNext]_allVars => Inv'
  BY IsServerStep, NextTypeInv, NextLadder, NextLost, NextClient
<1>3. Inv => LearnsOwnRewards
  <2> SUFFICES ASSUME Client PROVE LearnsOwnRewards
    OBVIOUS
  <2>1. \A n \in 1 .. Len(learned) : Graded(learned[n])
    BY DEF Client, Trail
  <2>2. client = "sampling" /\ learned # <<>> => learned[Len(learned)].batch = prompt
    BY DEF Client, Trail
  <2>3. \A n \in 1 .. Len(learned) : learned # <<>>
    OBVIOUS
  <2> QED BY <2>1, <2>2, <2>3 DEF LearnsOwnRewards, Graded
<1> QED BY <1>1, <1>2, <1>3, PTL DEF RTSpec

-----------------------------------------------------------------------------
(***************************************************************************)
(* The promise: with one request at a time and no crash, compute_rewards   *)
(* implements AtomicRewards.  The invariant says, label by label, what the *)
(* request has done so far to the globals it found.                        *)
(***************************************************************************)

CountLabels == {"decay", "decayStore", "bump", "bumpStore"}
AfterCount == {"publish", "publishCounts", "count", "countStore", "cadence", "savePcs", "writePcs",
               "saveMax", "writeMax", "saveFreq", "writeFreq", "respond"}
AfterCall == AfterCount \ {"publish", "publishCounts", "count", "countStore"}

\* The programs whose coverage is in the set, and those whose reward is assigned.
Validated(t) ==
  IF pc[t] \in {"vm", "watchdog"} \/ ~vmOk[t] THEN {}
  ELSE IF pc[t] \in MergeLabels THEN ToValidate(batch[t]) \ left[t] ELSE ToValidate(batch[t])

Scored(t) ==
  IF pc[t] \in {"vm", "watchdog"} \cup MergeLabels \/ ~vmOk[t] THEN {}
  ELSE IF pc[t] = "reject" THEN Rejected(batch[t]) \ left[t]
  ELSE IF pc[t] = "accept" THEN (Rejected(batch[t]) \cup Accepted(batch[t])) \ left[t]
  ELSE Rejected(batch[t]) \cup Accepted(batch[t])

CoverageIs(t, D) == pcSet = found.pcSet \cup UNION {Covers(batch[t], i) : i \in D}

DeepestIs(t, D) ==
  /\ found.maxPcs <= maxPcs /\ \A i \in D : Depth(batch[t], i) <= maxPcs
  /\ maxPcs = found.maxPcs \/ \E i \in D : maxPcs = Depth(batch[t], i)

PaidIs(t, D) ==
  rewards[t] = [i \in DOMAIN batch[t] |->
                  IF i \in D THEN Reward(found.freq, maxPcs, batch[t], i) ELSE 0]

\* The branch a request took.
Route(t) ==
  /\ pc[t] \in {"idle", "vm", "accept"} \cup MergeLabels \cup CountLabels => vmOk[t]
  /\ pc[t] = "watchdog" => ~vmOk[t]
  /\ pc[t] # "idle" => batch[t] \in Batches
  /\ pc[t] = "vm" \/ ~vmOk[t] => ToValidate(batch[t]) # {}
  /\ pc[t] \in {"accept"} \cup CountLabels => Accepted(batch[t]) # {}
  /\ pc[t] = "reject" /\ ~vmOk[t] => left[t] = {}
  /\ pc[t] \notin CountLabels \cup {"writeFreq"} => todo[t] = {}

Seeing(t) ==
  /\ pc[t] # "idle" => DeepestIs(t, Validated(t))
  /\ pc[t] \notin {"idle", "raise", "raiseStore"} => CoverageIs(t, Validated(t))
  /\ pc[t] \in {"raise", "raiseStore"} =>
       \A i \in left[t] : NextIs(t, i) => CoverageIs(t, Validated(t) \cup {i})
  /\ pc[t] = "raiseStore" => \A i \in left[t] : NextIs(t, i) => Depth(batch[t], i) > maxPcs

Paying(t) == pc[t] # "idle" => PaidIs(t, Scored(t))

\* The frontier while it is aged, and while the hits are counted.
Older(p) == IF p \in DOMAIN found.freq THEN (found.freq[p] * DecayNum) \div DecayDen ELSE 0

Ageing(t) ==
  /\ left[t] = Accepted(batch[t])
  /\ DOMAIN freq = DOMAIN found.freq /\ todo[t] \subseteq DOMAIN freq
  /\ \A p \in DOMAIN freq : freq[p] = IF p \in todo[t] THEN found.freq[p] ELSE Older(p)
  /\ pc[t] = "decayStore" => key[t] \in todo[t] /\ val[t] = found.freq[key[t]]

\* The valid programs that cover p and whose turn came; one of them still owes
\* the hit if p is to be visited.
Takers(b, S, p) == {i \in S : p \in Covers(b, i)}
Taken(t, p) == Takers(batch[t], Accepted(batch[t]) \ left[t], p)
Hits(t, p) == Cardinality(Taken(t, p)) - (IF p \in todo[t] THEN 1 ELSE 0)

Tallied(t) ==
  /\ \A p \in PCs : Get(freq, p) = Older(p) + FreqUnit * Hits(t, p)
  /\ DOMAIN freq = DOMAIN found.freq \cup {p \in PCs : Hits(t, p) > 0}
  /\ todo[t] # {} => \E i \in Accepted(batch[t]) \ left[t] : todo[t] \subseteq Covers(batch[t], i)
  /\ pc[t] = "bumpStore" => key[t] \in todo[t] /\ val[t] = Get(freq, key[t])

Learned(t) ==
  IF ~vmOk[t] \/ Accepted(batch[t]) = {} THEN found.freq
  ELSE [p \in DOMAIN found.freq \cup UNION {Covers(batch[t], i) : i \in Accepted(batch[t])} |->
          Older(p) + FreqUnit * Cardinality(Takers(batch[t], Accepted(batch[t]), p))]

Learning(t) ==
  /\ pc[t] \notin {"idle"} \cup CountLabels \cup AfterCount => freq = found.freq
  /\ pc[t] \in {"decay", "decayStore"} => Ageing(t)
  /\ pc[t] \in {"bump", "bumpStore"} => Tallied(t)
  /\ pc[t] \in AfterCount => freq = Learned(t)

Publishing(t) ==
  /\ pc[t] \in AfterCount \ {"publish"} => lastDepths = DepthsOf(batch[t], vmOk[t])
  /\ pc[t] \in AfterCount \ {"publish", "publishCounts"} => lastCounts = Counts(batch[t], vmOk[t])
  /\ pc[t] \notin {"idle"} \cup AfterCall => callCount = found.callCount
  /\ pc[t] = "countStore" => val[t] = found.callCount
  /\ pc[t] \in AfterCall => callCount = found.callCount + 1
  /\ pc[t] = "writeFreq" => todo[t] = DOMAIN freq

FoundTyped ==
  /\ found = [pcSet |-> found.pcSet, maxPcs |-> found.maxPcs, freq |-> found.freq,
              callCount |-> found.callCount, answer |-> found.answer]
  /\ found.maxPcs \in Nat /\ IsFrontier(found.freq) /\ found.callCount \in Nat

SoFar == \A t \in Threads : Route(t) /\ Seeing(t) /\ Paying(t) /\ Learning(t) /\ Publishing(t)

Progress == FoundTyped /\ SoFar

-----------------------------------------------------------------------------

LEMMA Alone ==
  ASSUME OneThread, NEW t \in Threads, FoundTyped',
         Route(t)', Seeing(t)', Paying(t)', Learning(t)', Publishing(t)'
  PROVE  Progress'
BY DEF OneThread, Progress, SoFar

LEMMA OneNext ==
  ASSUME TypeInv, NEW t \in Threads, NEW i \in left[t], NEW j \in left[t], NextIs(t, i), NextIs(t, j)
  PROVE  i = j
<1>1. left[t] \subseteq Nat
  BY DEF TypeInv, TypeOK
<1> QED BY <1>1 DEF NextIs

\* Once the results are merged, only the record and the set matter.
LEMMA SeeingKept ==
  ASSUME NEW t \in Threads, Seeing(t), UNCHANGED <<pcSet, maxPcs, found, batch, vmOk>>,
         pc[t] \notin {"idle", "vm", "watchdog"} \cup MergeLabels,
         pc'[t] \notin {"idle", "vm", "watchdog"} \cup MergeLabels
  PROVE  Seeing(t)'
BY DEF Seeing, Validated, DeepestIs, CoverageIs, Covers, Depth, ToValidate, MergeLabels

LEMMA PayingKept ==
  ASSUME NEW t \in Threads, Paying(t), UNCHANGED <<rewards, found, batch>>, pc[t] # "idle",
         Scored(t)' = Scored(t), maxPcs' = maxPcs \/ Scored(t) = {}
  PROVE  Paying(t)'
BY DEF Paying, PaidIs

\* The request arrives.
LEMMA ReceiveProgress ==
  ASSUME OneThread, TypeInv, Progress, NEW t \in Threads, NEW b \in Batches, Receive(t, b),
         found' = [Kept EXCEPT !.answer = found.answer]
  PROVE  Progress'
<1>1. /\ pc[t] = "idle" /\ pc'[t] = (IF ToValidate(b) = {} THEN "reject" ELSE "vm")
      /\ batch'[t] = b /\ rewards'[t] = [i \in DOMAIN b |-> 0] /\ left[t] = {}
      /\ UNCHANGED <<pcSet, maxPcs, freq, callCount, vmOk, left, todo>>
  BY DEF Receive, At, Goto, globals, TypeInv, TypeOK, Control, Loops, LoopLabels
<1>2. /\ found'.pcSet = pcSet /\ found'.maxPcs = maxPcs /\ found'.freq = freq /\ found'.callCount = callCount
      /\ found' = [pcSet |-> pcSet, maxPcs |-> maxPcs, freq |-> freq, callCount |-> callCount,
                   answer |-> found.answer]
  BY DEF Kept
<1>3. FoundTyped'
  BY <1>1, <1>2 DEF FoundTyped, TypeInv, TypeOK, IsFrontier
<1>4. vmOk[t] /\ todo[t] = {}
  BY <1>1 DEF Progress, SoFar, Route, CountLabels
<1>5. Route(t)'
  BY <1>1, <1>4 DEF Route, CountLabels, MergeLabels
<1>6. Validated(t)' = {} /\ Scored(t)' = {}
  <2>1. b \in Seq(Programs)
    BY ServerAssumption
  <2> QED BY <1>1, <1>4, <2>1, RungsAreDisjoint DEF Validated, Scored, MergeLabels
<1>7. Seeing(t)'
  BY <1>1, <1>2, <1>6 DEF Seeing, DeepestIs, CoverageIs, TypeInv, TypeOK
<1>8. Paying(t)'
  BY <1>1, <1>6 DEF Paying, PaidIs
<1>9. Learning(t)'
  BY <1>1, <1>2 DEF Learning, CountLabels, AfterCount
<1>10. Publishing(t)'
  BY <1>1, <1>2 DEF Publishing, AfterCount, AfterCall
<1> QED BY <1>3, <1>5, <1>7, <1>8, <1>9, <1>10, Alone

\* The VM answers, or does not.
LEMMA VmProgress ==
  ASSUME OneThread, TypeInv, Progress, NEW t \in Threads, UNCHANGED found,
         VmAnswers(t) \/ VmFails(t) \/ WatchdogReturns(t)
  PROVE  Progress'
<1>1. UNCHANGED <<pcSet, maxPcs, freq, callCount, batch, todo, rewards, found>>
  BY AnswersInPlace DEF VmAnswers, VmFails, WatchdogReturns, globals, locals
<1>2. /\ pc \in [Threads -> Labels] /\ vmOk \in [Threads -> BOOLEAN] /\ left \in [Threads -> SUBSET Nat]
      /\ left[t] \subseteq ToValidate(batch[t]) /\ (left[t] = {} \/ pc[t] \in LoopLabels)
  BY DEF TypeInv, TypeOK, Control, Loops
<1>3. FoundTyped'
  BY <1>1 DEF Progress, FoundTyped
<1>4. Route(t) /\ Seeing(t) /\ Paying(t) /\ Learning(t) /\ Publishing(t)
  BY DEF Progress, SoFar
<1>5. \/ pc[t] = "vm" /\ pc'[t] = "merge" /\ left'[t] = ToValidate(batch[t]) /\ vmOk' = vmOk
      \/ pc[t] = "vm" /\ pc'[t] = "watchdog" /\ left'[t] = {} /\ vmOk'[t] = FALSE
      \/ pc[t] = "watchdog" /\ pc'[t] = "reject" /\ left'[t] = {} /\ vmOk' = vmOk
  BY <1>2 DEF VmAnswers, VmFails, WatchdogReturns, At, Goto, Visit, LoopLabels, locals
<1>6. Route(t)'
  BY <1>1, <1>4, <1>5 DEF Route, CountLabels, MergeLabels
<1>7. /\ Validated(t)' = {} /\ Validated(t) = {} /\ Scored(t)' = {} /\ Scored(t) = {}
  BY <1>1, <1>4, <1>5 DEF Validated, Scored, MergeLabels, Route
<1>8. Seeing(t)'
  BY <1>1, <1>4, <1>5, <1>7 DEF Seeing, DeepestIs, CoverageIs
<1>9. Paying(t)'
  BY <1>1, <1>4, <1>5, <1>7, PayingKept
<1>10. Learning(t)'
  BY <1>1, <1>4, <1>5 DEF Learning, CountLabels, AfterCount
<1>11. Publishing(t)'
  BY <1>1, <1>4, <1>5 DEF Publishing, AfterCount, AfterCall
<1> QED BY <1>3, <1>6, <1>8, <1>9, <1>10, <1>11, Alone

\* What no step of the loops over the results and over the rewards touches.
LEMMA LoopFacts ==
  ASSUME TypeInv, Progress, NEW t \in Threads, UNCHANGED found,
         \/ MergeCoverage(t) \/ CompareDepth(t) \/ StoreDepth(t) \/ MergeDone(t)
         \/ PayRejected(t) \/ RejectedDone(t) \/ PayAccepted(t)
  PROVE  /\ UNCHANGED <<freq, callCount, batch, vmOk, todo, found>> /\ FoundTyped'
         /\ pc \in [Threads -> Labels] /\ left \in [Threads -> SUBSET Nat] /\ maxPcs \in Nat
         /\ batch[t] \in Seq(Programs) /\ left[t] \subseteq ToValidate(batch[t])
         /\ Route(t) /\ Seeing(t) /\ Paying(t) /\ Learning(t) /\ Publishing(t)
<1>1. UNCHANGED <<freq, callCount, batch, vmOk, todo, found>>
  BY DEF MergeCoverage, CompareDepth, StoreDepth, MergeDone, PayRejected, RejectedDone, PayAccepted,
         globals, locals
<1>2. FoundTyped'
  BY <1>1 DEF Progress, FoundTyped
<1>3. Route(t) /\ Seeing(t) /\ Paying(t) /\ Learning(t) /\ Publishing(t)
  BY DEF Progress, SoFar
<1> QED BY <1>1, <1>2, <1>3 DEF TypeInv, TypeOK

\* The merge of the results.
LEMMA MergeProgress ==
  ASSUME OneThread, TypeInv, Progress, NEW t \in Threads, UNCHANGED found,
         MergeCoverage(t) \/ CompareDepth(t) \/ StoreDepth(t) \/ MergeDone(t)
  PROVE  Progress'
<1> DEFINE V == ToValidate(batch[t]) \ left[t]
<1>1. /\ UNCHANGED <<freq, callCount, batch, vmOk, todo, found>> /\ FoundTyped'
      /\ pc \in [Threads -> Labels] /\ left \in [Threads -> SUBSET Nat] /\ maxPcs \in Nat
      /\ batch[t] \in Seq(Programs) /\ left[t] \subseteq ToValidate(batch[t])
      /\ Route(t) /\ Seeing(t) /\ Paying(t) /\ Learning(t) /\ Publishing(t)
  BY LoopFacts
<1>2. pc[t] \in MergeLabels /\ pc'[t] \in MergeLabels \cup {"reject"} /\ rewards' = rewards
  BY <1>1 DEF MergeCoverage, CompareDepth, StoreDepth, MergeDone, At, Goto, MergeLabels, locals
<1>3. vmOk[t]
  BY <1>1, <1>2 DEF Route
<1>4. Route(t)'
  BY <1>1, <1>2, <1>3 DEF Route, CountLabels, MergeLabels
<1>5. Scored(t)' = {} /\ Scored(t) = {}
  <2>1. pc'[t] = "reject" => left'[t] = Rejected(batch[t])
    BY <1>1 DEF MergeCoverage, CompareDepth, StoreDepth, MergeDone, At, Goto, Visit, MergeLabels, locals
  <2> QED BY <1>1, <1>2, <1>3, <2>1 DEF Scored, MergeLabels
<1>6. Paying(t)'
  BY <1>1, <1>2, <1>5, PayingKept DEF MergeLabels
<1>7. Learning(t)'
  BY <1>1, <1>2 DEF Learning, CountLabels, AfterCount, MergeLabels
<1>8. Publishing(t)'
  BY <1>1, <1>2 DEF Publishing, AfterCount, AfterCall, MergeLabels
<1>9. Validated(t) = V /\ DeepestIs(t, V)
  BY <1>1, <1>2, <1>3 DEF Validated, Seeing, MergeLabels
<1>10. Seeing(t)'
  <2>1. CASE MergeCoverage(t)
    <3>1. PICK i \in left[t] : NextIs(t, i) /\ pcSet' = pcSet \cup Covers(batch[t], i)
      BY <2>1 DEF MergeCoverage
    <3>2. pc[t] = "merge" /\ pc'[t] = "raise" /\ left' = left /\ maxPcs' = maxPcs
      BY <1>1, <2>1 DEF MergeCoverage, At, Goto, locals
    <3>3. Validated(t)' = V
      BY <1>1, <1>3, <3>2 DEF Validated, MergeLabels
    <3>4. CoverageIs(t, V)
      BY <1>1, <1>9, <3>2 DEF Seeing
    <3>5. ASSUME NEW j \in left[t], NextIs(t, j) PROVE CoverageIs(t, V \cup {j})'
      <4>1. i = j
        BY <3>1, <3>5, OneNext
      <4> QED BY <1>1, <3>1, <3>2, <3>4, <4>1 DEF CoverageIs, Covers
    <3> QED BY <1>1, <1>9, <3>2, <3>3, <3>5 DEF Seeing, NextIs, DeepestIs, Depth, Covers
  <2>2. CASE CompareDepth(t)
    <3>1. PICK i \in left[t] :
            /\ NextIs(t, i)
            /\ \/ Depth(batch[t], i) > maxPcs /\ pc'[t] = "raiseStore" /\ UNCHANGED left
               \/ ~(Depth(batch[t], i) > maxPcs) /\ pc'[t] = "merge" /\ left'[t] = left[t] \ {i}
      BY <1>1, <2>2 DEF CompareDepth, Goto, Visit
    <3>2. pc[t] = "raise" /\ UNCHANGED <<pcSet, maxPcs>>
      BY <2>2 DEF CompareDepth, At, globals
    <3>3. CoverageIs(t, V \cup {i})
      BY <1>1, <1>9, <3>1, <3>2 DEF Seeing
    <3>4. CASE pc'[t] = "raiseStore"
      <4>1. Depth(batch[t], i) > maxPcs /\ UNCHANGED left
        BY <3>1, <3>4
      <4>2. Validated(t)' = V
        BY <1>1, <1>3, <3>4, <4>1 DEF Validated, MergeLabels
      <4>3. \A j \in left[t] : NextIs(t, j) => j = i
        BY <3>1, OneNext
      <4> QED BY <1>1, <1>9, <3>2, <3>3, <3>4, <4>1, <4>2, <4>3
              DEF Seeing, NextIs, DeepestIs, CoverageIs, Depth, Covers
    <3>5. CASE pc'[t] = "merge"
      <4>1. ~(Depth(batch[t], i) > maxPcs) /\ left'[t] = left[t] \ {i}
        BY <3>1, <3>5
      <4>2. Validated(t)' = V \cup {i}
        BY <1>1, <1>3, <3>5, <4>1 DEF Validated, MergeLabels
      <4>3. Depth(batch[t], i) \in Nat
        BY <1>1, CoversFinite, RungsAreDisjoint
      <4>4. DeepestIs(t, V \cup {i})
        BY <1>1, <1>9, <4>1, <4>3 DEF DeepestIs
      <4> QED BY <1>1, <3>2, <3>3, <3>5, <4>2, <4>4 DEF Seeing, DeepestIs, CoverageIs, Depth, Covers
    <3> QED BY <3>1, <3>4, <3>5
  <2>3. CASE StoreDepth(t)
    <3>1. PICK i \in left[t] : /\ NextIs(t, i) /\ maxPcs' = Depth(batch[t], i)
                               /\ left'[t] = left[t] \ {i}
      BY <1>1, <2>3 DEF StoreDepth, Visit
    <3>2. pc[t] = "raiseStore" /\ pc'[t] = "merge" /\ UNCHANGED pcSet
      BY <1>1, <2>3 DEF StoreDepth, At, Goto
    <3>3. CoverageIs(t, V \cup {i}) /\ Depth(batch[t], i) > maxPcs
      BY <1>1, <1>9, <3>1, <3>2 DEF Seeing
    <3>4. Validated(t)' = V \cup {i}
      BY <1>1, <1>3, <3>1, <3>2 DEF Validated, MergeLabels
    <3>5. /\ \A j \in V \cup {i} : Depth(batch[t], j) \in Nat
          /\ found.maxPcs \in Nat
      BY <1>1, CoversFinite, RungsAreDisjoint DEF Progress, FoundTyped
    <3>6. DeepestIs(t, Validated(t))'
      <4>1. \A j \in V : Depth(batch[t], j) <= maxPcs
        BY <1>9 DEF DeepestIs
      <4>2. \A j \in V \cup {i} : Depth(batch[t], j) <= maxPcs'
        BY <1>1, <3>1, <3>3, <3>5, <4>1
      <4>3. found.maxPcs <= maxPcs'
        BY <1>1, <1>9, <3>1, <3>3, <3>5 DEF DeepestIs
      <4> QED BY <1>1, <3>1, <3>4, <4>2, <4>3 DEF DeepestIs, Depth, Covers
    <3>7. CoverageIs(t, Validated(t))'
      BY <1>1, <3>2, <3>3, <3>4 DEF CoverageIs, Covers
    <3> QED BY <3>2, <3>6, <3>7 DEF Seeing
  <2>4. CASE MergeDone(t)
    <3>1. /\ pc[t] = "merge" /\ pc'[t] = "reject" /\ left[t] = {} /\ UNCHANGED <<pcSet, maxPcs>>
      BY <1>1, <2>4 DEF MergeDone, At, Goto, globals
    <3>2. Validated(t)' = V
      BY <1>1, <1>3, <3>1 DEF Validated, MergeLabels
    <3> QED BY <1>1, <1>9, <3>1, <3>2 DEF Seeing, DeepestIs, CoverageIs, Depth, Covers
  <2> QED BY <2>1, <2>2, <2>3, <2>4
<1> QED BY <1>1, <1>4, <1>6, <1>7, <1>8, <1>10, Alone

\* One more reward is assigned.
LEMMA PayOne ==
  ASSUME TypeInv, NEW t \in Threads, NEW D, PaidIs(t, D), NEW i \in DOMAIN batch[t],
         rewards' = [rewards EXCEPT ![t][i] = Reward(found.freq, maxPcs, batch[t], i)],
         UNCHANGED <<found, batch, maxPcs>>
  PROVE  PaidIs(t, D \cup {i})'
<1> DEFINE F(j) == Reward(found.freq, maxPcs, batch[t], j)
<1>1. rewards[t] = [j \in DOMAIN batch[t] |-> IF j \in D THEN F(j) ELSE 0]
  BY DEF PaidIs
<1>2. rewards' = [rewards EXCEPT ![t][i] = F(i)]
  OBVIOUS
<1>3. rewards \in [Threads -> Seq(Nat)]
  BY DEF TypeInv, TypeOK
<1>4. F(i)' = F(i) /\ \A j \in DOMAIN batch[t] : F(j)' = F(j)
  BY DEF Reward, AcceptedReward, GroupNovelty, GlobalNovelty, Unshared, Accepted, Rejected, Covers, Depth
<1>5. PaidIs(t, D \cup {i})' <=>
        rewards'[t] = [j \in DOMAIN batch'[t] |-> IF j \in D' \cup {i} THEN F(j)' ELSE 0]
  BY DEF PaidIs
<1>6. rewards'[t] = [j \in DOMAIN batch[t] |-> IF j \in D \cup {i} THEN F(j) ELSE 0]
  <2> HIDE DEF F
  <2> QED BY <1>1, <1>2, <1>3
<1> QED BY <1>4, <1>5, <1>6

LEMMA ScoreProgress ==
  ASSUME OneThread, TypeInv, Progress, NEW t \in Threads, UNCHANGED found,
         PayRejected(t) \/ RejectedDone(t) \/ PayAccepted(t)
  PROVE  Progress'
<1> DEFINE b == batch[t]
<1>1. /\ UNCHANGED <<freq, callCount, batch, vmOk, todo, found>> /\ FoundTyped'
      /\ pc \in [Threads -> Labels] /\ left \in [Threads -> SUBSET Nat] /\ maxPcs \in Nat
      /\ b \in Seq(Programs) /\ left[t] \subseteq ToValidate(b)
      /\ Route(t) /\ Seeing(t) /\ Paying(t) /\ Learning(t) /\ Publishing(t)
  BY LoopFacts
<1>2. /\ pc[t] \in {"reject", "accept"} /\ pc'[t] \in {"reject", "accept", "publish"}
      /\ UNCHANGED <<pcSet, maxPcs>>
  BY <1>1 DEF PayRejected, RejectedDone, PayAccepted, At, Goto, globals
<1>3. Seeing(t)'
  BY <1>1, <1>2, SeeingKept DEF MergeLabels
<1>4. /\ Rejected(b) \cap Accepted(b) = {} /\ Rejected(b) \subseteq DOMAIN b /\ Accepted(b) \subseteq DOMAIN b
      /\ Rejected(b)' = Rejected(b) /\ Accepted(b)' = Accepted(b)
  BY <1>1 DEF Rejected, Accepted
<1>5. CASE PayRejected(t) \/ PayAccepted(t)
  <2> DEFINE R(i) == Reward(found.freq, maxPcs, b, i)
  <2>1. PICK i \in left[t] :
          /\ left'[t] = left[t] \ {i} /\ vmOk[t]
          /\ rewards' = [rewards EXCEPT ![t][i] = R(i)]
          /\ i \in IF pc[t] = "reject" THEN Rejected(b) ELSE Accepted(b)
    <3>1. CASE PayRejected(t)
      <4>1. PICK i \in left[t] :
              /\ rewards' = [rewards EXCEPT ![t][i] = RejectedReward(Depth(b, i), maxPcs)]
              /\ left'[t] = left[t] \ {i}
        BY <1>1, <3>1 DEF PayRejected, Visit
      <4>2. pc[t] = "reject"
        BY <3>1 DEF PayRejected, At
      <4>3. i \in Rejected(b) /\ vmOk[t]
        BY <1>1, <4>2 DEF TypeInv, Control, Loops, Route
      <4>4. R(i) = RejectedReward(Depth(b, i), maxPcs)
        BY <1>4, <4>3 DEF Reward
      <4> HIDE DEF R
      <4> QED BY <4>1, <4>2, <4>3, <4>4
    <3>2. CASE PayAccepted(t)
      <4>1. PICK i \in left[t] :
              /\ rewards' = [rewards EXCEPT ![t][i] = AcceptedReward(freq, b, i)]
              /\ left'[t] = left[t] \ {i}
        BY <1>1, <3>2 DEF PayAccepted, Visit
      <4>2. pc[t] = "accept"
        BY <3>2 DEF PayAccepted, At
      <4>3. i \in Accepted(b) /\ vmOk[t] /\ freq = found.freq
        BY <1>1, <4>2 DEF TypeInv, Control, Loops, AcceptedLabels, Learning, CountLabels, AfterCount, Route
      <4>4. R(i) = AcceptedReward(freq, b, i)
        BY <1>4, <4>3 DEF Reward
      <4> HIDE DEF R
      <4> QED BY <4>1, <4>2, <4>3, <4>4
    <3> QED BY <1>5, <3>1, <3>2
  <2>2. pc' = pc
    BY <1>5 DEF PayRejected, PayAccepted
  <2>3. i \in DOMAIN b /\ Scored(t)' = Scored(t) \cup {i}
    BY <1>1, <1>2, <1>4, <2>1, <2>2 DEF Scored, MergeLabels
  <2>4. PaidIs(t, Scored(t))
    BY <1>1, <1>2 DEF Paying
  <2> HIDE DEF R
  <2>6. Paying(t)'
    <3>1. ASSUME NEW D, D = Scored(t) PROVE PaidIs(t, D \cup {i})'
      BY <1>1, <1>2, <2>1, <2>3, <2>4, <3>1, PayOne DEF R
    <3> QED BY <2>3, <3>1 DEF Paying, PaidIs
  <2>7. Route(t)'
    BY <1>1, <1>2, <2>1, <2>2 DEF Route, CountLabels, MergeLabels
  <2>8. Learning(t)'
    BY <1>1, <1>2, <2>2 DEF Learning, CountLabels, AfterCount
  <2>9. Publishing(t)'
    BY <1>1, <1>2, <2>2 DEF Publishing, AfterCount, AfterCall
  <2> QED BY <1>1, <1>3, <2>6, <2>7, <2>8, <2>9, Alone
<1>6. CASE RejectedDone(t)
  <2>1. /\ pc[t] = "reject" /\ left[t] = {} /\ rewards' = rewards
        /\ \/ pc'[t] = "accept" /\ left'[t] = Accepted(b) /\ vmOk[t] /\ Accepted(b) # {}
           \/ pc'[t] = "publish" /\ left'[t] = {} /\ (~vmOk[t] \/ Accepted(b) = {})
    BY <1>1, <1>6 DEF RejectedDone, At, Goto, Visit
  <2>2. Scored(t)' = Scored(t)
    <3>1. CASE pc'[t] = "accept"
      <4>1. Scored(t)' = (Rejected(b) \cup Accepted(b)) \ Accepted(b)
        BY <1>1, <1>4, <2>1, <3>1 DEF Scored, MergeLabels
      <4>2. Scored(t) = Rejected(b)
        BY <1>1, <2>1, <3>1 DEF Scored, MergeLabels
      <4> QED BY <1>4, <4>1, <4>2
    <3>2. CASE pc'[t] = "publish"
      <4>1. Scored(t)' = IF ~vmOk[t] THEN {} ELSE Rejected(b) \cup Accepted(b)
        BY <1>1, <1>4, <2>1, <3>2 DEF Scored, MergeLabels
      <4>2. Scored(t) = IF ~vmOk[t] THEN {} ELSE Rejected(b)
        BY <1>1, <2>1, <3>2 DEF Scored, MergeLabels
      <4> QED BY <2>1, <3>2, <4>1, <4>2
    <3> QED BY <2>1, <3>1, <3>2
  <2>3. Paying(t)'
    BY <1>1, <1>2, <2>1, <2>2, PayingKept
  <2>4. Route(t)'
    BY <1>1, <1>4, <2>1 DEF Route, CountLabels, MergeLabels
  <2>5. Learning(t)'
    BY <1>1, <1>4, <2>1 DEF Learning, Learned, CountLabels, AfterCount
  <2>6. Publishing(t)'
    BY <1>1, <2>1 DEF Publishing, AfterCount, AfterCall
  <2> QED BY <1>1, <1>3, <2>3, <2>4, <2>5, <2>6, Alone
<1> QED BY <1>5, <1>6

\* After the scoring the rewards, the record and the set stay.
LEMMA ScoredFacts ==
  ASSUME TypeInv, Progress, NEW t \in Threads, UNCHANGED found,
         \/ AcceptedDone(t) \/ DecayRead(t) \/ DecayStore(t) \/ DecayDone(t)
         \/ BumpProgram(t) \/ BumpRead(t) \/ BumpStore(t) \/ BumpDone(t)
         \/ PublishDepths(t) \/ PublishCounts(t)
         \/ CountRead(t) \/ CountStore(t) \/ CheckCadence(t)
         \/ OpenPcs(t) \/ WritePcs(t) \/ OpenMax(t) \/ WriteMax(t) \/ OpenFreq(t) \/ WriteFreq(t)
  PROVE  /\ UNCHANGED <<pcSet, maxPcs, rewards, batch, vmOk, found>> /\ FoundTyped'
         /\ pc'[t] \in CountLabels \cup AfterCount
         /\ pc[t] \in CountLabels \cup AfterCount \/ AcceptedDone(t)
         /\ Route(t) /\ Learning(t) /\ Publishing(t) /\ Seeing(t)' /\ Paying(t)'
<1>1. UNCHANGED <<pcSet, maxPcs, rewards, batch, vmOk, found>>
  BY DEF AcceptedDone, DecayRead, DecayStore, DecayDone, BumpProgram, BumpRead, BumpStore, BumpDone,
         ReadFreq, PublishDepths, PublishCounts, CountRead, CountStore, CheckCadence, OpenFile, WriteFile,
         OpenPcs, WritePcs, OpenMax, WriteMax, OpenFreq, WriteFreq, globals, locals
<1>2. pc \in [Threads -> Labels]
  BY DEF TypeInv, TypeOK
<1>3. /\ pc'[t] \in CountLabels \cup AfterCount
      /\ pc[t] \in CountLabels \cup AfterCount \/ AcceptedDone(t)
      /\ AcceptedDone(t) => pc[t] = "accept" /\ left[t] = {}
  BY <1>2
     DEF AcceptedDone, DecayRead, DecayStore, DecayDone, BumpProgram, BumpRead, BumpStore, BumpDone,
         ReadFreq, PublishDepths, PublishCounts, CountRead, CountStore, CheckCadence, OpenFile, WriteFile,
         OpenPcs, WritePcs, OpenMax, WriteMax, OpenFreq, WriteFreq, At, Goto, CountLabels, AfterCount
<1>4. Route(t) /\ Seeing(t) /\ Paying(t) /\ Learning(t) /\ Publishing(t) /\ FoundTyped
  BY DEF Progress, SoFar
<1>5. FoundTyped'
  BY <1>1, <1>4 DEF FoundTyped
<1>6. Seeing(t)'
  BY <1>1, <1>3, <1>4, SeeingKept DEF MergeLabels, CountLabels, AfterCount
<1>7. Rejected(batch[t])' = Rejected(batch[t]) /\ Accepted(batch[t])' = Accepted(batch[t])
  BY <1>1 DEF Rejected, Accepted
<1>8. Scored(t)' = Scored(t)
  BY <1>1, <1>3, <1>7 DEF Scored, MergeLabels, CountLabels, AfterCount
<1>9. Paying(t)'
  BY <1>1, <1>3, <1>4, <1>8, PayingKept DEF CountLabels, AfterCount
<1> QED BY <1>1, <1>3, <1>4, <1>5, <1>6, <1>9

\* Before the first hit the frontier is the aged one.
LEMMA NoHitYet ==
  ASSUME NEW t \in Threads, pc'[t] = "bump", todo'[t] = {}, left'[t] = Accepted(batch[t])',
         DOMAIN freq' = DOMAIN found'.freq, DOMAIN freq' \subseteq PCs,
         \A p \in DOMAIN freq' : freq'[p] = Older(p)' /\ freq'[p] \in Nat
  PROVE  Tallied(t)'
<1>1. \A p : Taken(t, p)' = {}
  BY DEF Taken, Takers
<1>2. \A p : Hits(t, p)' = 0
  BY <1>1, FS_EmptySet DEF Hits
<1>3. \A p \in PCs : Get(freq, p)' = Older(p)' /\ Get(freq, p)' \in Nat
  BY DEF Get, Older
<1>4. \A p \in PCs : (Get(freq, p) = Older(p) + FreqUnit * Hits(t, p))'
  BY <1>2, <1>3, WeightsAssumption
<1> QED BY <1>2, <1>4 DEF Tallied

\* The ageing.
LEMMA AgeFirst ==
  ASSUME TypeInv, Progress, OneThread, NEW t \in Threads, UNCHANGED found, AcceptedDone(t)
  PROVE  Progress'
<1>1. /\ UNCHANGED <<pcSet, maxPcs, rewards, batch, vmOk, found>> /\ FoundTyped'
      /\ Route(t) /\ Learning(t) /\ Publishing(t) /\ Seeing(t)' /\ Paying(t)'
  BY ScoredFacts
<1>2. /\ pc[t] = "accept" /\ left[t] = {} /\ UNCHANGED <<freq, callCount>> /\ left'[t] = Accepted(batch[t])
      /\ \/ pc'[t] = "decay" /\ todo'[t] = DOMAIN freq
         \/ pc'[t] = "bump" /\ todo'[t] = todo[t] /\ ~(DecayNum < DecayDen)
  BY DEF AcceptedDone, At, Goto, Visit, Scan, TypeInv, TypeOK, globals
<1>3. Route(t)'
  <2>1. Accepted(batch[t])' = Accepted(batch[t])
    BY <1>1 DEF Accepted
  <2> QED BY <1>1, <1>2, <2>1 DEF Route, CountLabels, MergeLabels
<1>4. Publishing(t)'
  BY <1>1, <1>2 DEF Publishing, AfterCount, AfterCall
<1>5. freq = found.freq /\ todo[t] = {} /\ IsFrontier(freq)
  BY <1>1, <1>2 DEF Route, Learning, CountLabels, AfterCount, TypeInv, TypeOK
<1>6. CASE pc'[t] = "decay"
  <2>1. Ageing(t)'
    BY <1>1, <1>2, <1>5, <1>6 DEF Ageing, Accepted
  <2> QED BY <1>1, <1>3, <1>4, <1>6, <2>1, Alone DEF Learning, CountLabels, AfterCount
<1>7. CASE pc'[t] = "bump"
  <2>1. DecayNum = DecayDen /\ todo'[t] = {}
    BY <1>2, <1>5, <1>7, ServerAssumption
  <2>2. ASSUME NEW p \in DOMAIN freq PROVE freq[p] = Older(p)' /\ freq[p] \in Nat
    <3>1. freq[p] \in Nat
      BY <1>5, FrontierFacts
    <3>2. (freq[p] * DecayNum) \div DecayDen = freq[p]
      BY <2>1, <3>1, ServerAssumption
    <3> QED BY <1>1, <1>5, <3>1, <3>2 DEF Older
  <2>3. Tallied(t)'
    <3>1. left'[t] = Accepted(batch[t])' /\ DOMAIN freq \subseteq PCs
      BY <1>1, <1>2, <1>5, FrontierFacts DEF Accepted
    <3> QED BY <1>1, <1>2, <1>5, <1>7, <2>1, <2>2, <3>1, NoHitYet
  <2> QED BY <1>1, <1>3, <1>4, <1>7, <2>3, Alone DEF Learning, CountLabels, AfterCount
<1> QED BY <1>2, <1>6, <1>7

LEMMA AgeProgress ==
  ASSUME OneThread, TypeInv, Progress, NEW t \in Threads, UNCHANGED found,
         DecayRead(t) \/ DecayStore(t) \/ DecayDone(t)
  PROVE  Progress'
<1>1. /\ UNCHANGED <<pcSet, maxPcs, rewards, batch, vmOk, found>> /\ FoundTyped'
      /\ Route(t) /\ Learning(t) /\ Publishing(t) /\ Seeing(t)' /\ Paying(t)'
  BY ScoredFacts
<1>2. /\ pc \in [Threads -> Labels] /\ key \in [Threads -> PCs \cup {None}] /\ val \in [Threads -> Nat]
      /\ todo \in [Threads -> SUBSET PCs] /\ IsFrontier(freq)
  BY DEF TypeInv, TypeOK
<1>3. /\ pc[t] \in {"decay", "decayStore"} /\ pc'[t] \in {"decay", "decayStore", "bump"}
      /\ UNCHANGED <<callCount, left>>
  BY <1>2 DEF DecayRead, DecayStore, DecayDone, ReadFreq, At, Goto, globals, locals
<1>4. Route(t)'
  <2>1. Accepted(batch[t])' = Accepted(batch[t]) /\ ToValidate(batch[t])' = ToValidate(batch[t])
    BY <1>1 DEF Accepted, ToValidate
  <2> QED BY <1>1, <1>3, <2>1 DEF Route, CountLabels, MergeLabels
<1>5. Publishing(t)'
  BY <1>1, <1>3 DEF Publishing, AfterCount, AfterCall
<1>6. Ageing(t)
  BY <1>1, <1>3 DEF Learning
<1>7. \A p : Older(p)' = Older(p)
  BY <1>1 DEF Older
<1>8. CASE DecayRead(t)
  <2>1. PICK p \in todo[t] : key'[t] = p /\ val'[t] = Get(freq, p)
    BY <1>2, <1>8 DEF DecayRead, ReadFreq
  <2>2. /\ pc[t] = "decay" /\ pc'[t] = "decayStore" /\ UNCHANGED <<freq, todo>>
    BY <1>2, <1>8 DEF DecayRead, ReadFreq, At, Goto, globals
  <2>3. val'[t] = found.freq[p]
    BY <1>6, <2>1 DEF Ageing, Get
  <2>4. Ageing(t)'
    BY <1>1, <1>3, <1>6, <1>7, <2>1, <2>2, <2>3 DEF Ageing, Accepted
  <2> QED BY <1>1, <1>4, <1>5, <2>2, <2>4, Alone DEF Learning, CountLabels, AfterCount
<1>9. CASE DecayStore(t)
  <2> DEFINE k == key[t]
  <2>1. /\ pc[t] = "decayStore" /\ pc'[t] = "decay" /\ todo'[t] = todo[t] \ {k}
        /\ freq' = Put(freq, k, (val[t] * DecayNum) \div DecayDen)
    BY <1>2, <1>9 DEF DecayStore, At, Goto, Scan
  <2>2. k \in todo[t] /\ val[t] = found.freq[k]
    BY <1>6, <2>1 DEF Ageing
  <2>3. k \in DOMAIN freq /\ Older(k) = (val[t] * DecayNum) \div DecayDen
    BY <1>6, <2>2 DEF Ageing, Older
  <2>4. freq' = [p \in DOMAIN freq |-> IF p = k THEN Older(k) ELSE freq[p]]
    BY <2>1, <2>3 DEF Put
  <2>5. Ageing(t)'
    BY <1>1, <1>3, <1>6, <1>7, <2>1, <2>4 DEF Ageing, Accepted
  <2> QED BY <1>1, <1>4, <1>5, <2>1, <2>5, Alone DEF Learning, CountLabels, AfterCount
<1>10. CASE DecayDone(t)
  <2>1. /\ pc[t] = "decay" /\ pc'[t] = "bump" /\ todo[t] = {} /\ UNCHANGED <<freq, todo>>
    BY <1>2, <1>10 DEF DecayDone, At, Goto, globals, locals
  <2>2. left'[t] = Accepted(batch[t])'
    BY <1>1, <1>3, <1>6 DEF Ageing, Accepted
  <2>3. Tallied(t)'
    <3>1. DOMAIN freq \subseteq PCs /\ \A p \in DOMAIN freq : freq[p] \in Nat
      BY <1>2, FrontierFacts
    <3> QED BY <1>1, <1>6, <1>7, <2>1, <2>2, <3>1, NoHitYet DEF Ageing
  <2> QED BY <1>1, <1>4, <1>5, <2>1, <2>3, Alone DEF Learning, CountLabels, AfterCount
<1> QED BY <1>8, <1>9, <1>10

\* The hits.
LEMMA TakersFacts ==
  ASSUME NEW b \in Seq(Programs), NEW S \in SUBSET Accepted(b), NEW p
  PROVE  /\ IsFiniteSet(Takers(b, S, p)) /\ Cardinality(Takers(b, S, p)) \in Nat
         /\ (\E i \in S : p \in Covers(b, i)) <=> Cardinality(Takers(b, S, p)) > 0
<1>1. Takers(b, S, p) \in SUBSET Accepted(b)
  BY DEF Takers
<1>2. IsFiniteSet(Takers(b, S, p))
  BY <1>1, AcceptedFinite, FS_Subset
<1> QED BY <1>2, FS_CardinalityType, FS_EmptySet DEF Takers

LEMMA BumpProgress ==
  ASSUME OneThread, TypeInv, Progress, NEW t \in Threads, UNCHANGED found,
         BumpProgram(t) \/ BumpRead(t) \/ BumpStore(t) \/ BumpDone(t)
  PROVE  Progress'
<1> DEFINE b == batch[t]
           S == Accepted(b) \ left[t]
<1>1. /\ UNCHANGED <<pcSet, maxPcs, rewards, batch, vmOk, found>> /\ FoundTyped'
      /\ Route(t) /\ Learning(t) /\ Publishing(t) /\ Seeing(t)' /\ Paying(t)'
  BY ScoredFacts
<1>2. /\ pc \in [Threads -> Labels] /\ key \in [Threads -> PCs \cup {None}] /\ val \in [Threads -> Nat]
      /\ todo \in [Threads -> SUBSET PCs] /\ left \in [Threads -> SUBSET Nat]
      /\ IsFrontier(freq) /\ b \in Seq(Programs)
  BY DEF TypeInv, TypeOK
<1>3. /\ pc[t] \in {"bump", "bumpStore"} /\ pc'[t] \in {"bump", "bumpStore", "publish"}
      /\ pc'[t] = "publish" => todo'[t] = {}
      /\ UNCHANGED callCount
  BY <1>2 DEF BumpProgram, BumpRead, BumpStore, BumpDone, ReadFreq, At, Goto, globals, locals
<1>4. Accepted(b)' = Accepted(b) /\ ToValidate(b)' = ToValidate(b)
  BY <1>1 DEF Accepted, ToValidate
<1>5. Route(t)'
  BY <1>1, <1>3, <1>4 DEF Route, CountLabels, MergeLabels
<1>6. Publishing(t)'
  BY <1>1, <1>3 DEF Publishing, AfterCount, AfterCall
<1>7. Tallied(t) /\ vmOk[t] /\ Accepted(b) # {}
  BY <1>1, <1>3 DEF Learning, Route, CountLabels
<1>8. /\ \A p : Older(p)' = Older(p)
      /\ \A R, p : Takers(b, R, p)' = Takers(b, R, p)
      /\ \A i : Covers(b, i)' = Covers(b, i)
  BY <1>1 DEF Older, Takers, Covers
<1>9. left[t] \subseteq Accepted(b)
  BY <1>3 DEF TypeInv, Control, Loops, AcceptedLabels
<1>10. ASSUME NEW p
       PROVE  /\ Cardinality(Takers(b, S, p)) \in Nat /\ IsFiniteSet(Takers(b, S, p))
              /\ (\E i \in S : p \in Covers(b, i)) <=> Cardinality(Takers(b, S, p)) > 0
  <2>1. S \in SUBSET Accepted(b)
    OBVIOUS
  <2> HIDE DEF S
  <2> QED BY <1>2, <2>1, TakersFacts
<1>11. CASE BumpProgram(t)
  <2>1. PICK i \in left[t] : left'[t] = left[t] \ {i} /\ todo'[t] = Covers(b, i)
    BY <1>2, <1>11 DEF BumpProgram, Visit, Scan
  <2>2. pc[t] = "bump" /\ pc' = pc /\ todo[t] = {} /\ freq' = freq
    BY <1>11 DEF BumpProgram, At, globals
  <2>3. Accepted(b) \ left'[t] = S \cup {i} /\ i \notin S
    BY <1>9, <2>1
  <2>4. ASSUME NEW p \in PCs PROVE Hits(t, p)' = Hits(t, p)
    <3>1. /\ Hits(t, p) = Cardinality(Takers(b, S, p))
          /\ Cardinality(Takers(b, S, p)) \in Nat /\ IsFiniteSet(Takers(b, S, p))
      <4>1. Hits(t, p) = Cardinality(Takers(b, S, p)) - 0
        BY <2>2 DEF Hits, Taken
      <4> QED BY <1>10, <4>1
    <3>2. Taken(t, p)' = Takers(b, S \cup {i}, p)
      BY <1>1, <1>4, <2>3 DEF Taken, Takers, Covers
    <3>3. Hits(t, p)' = Cardinality(Takers(b, S \cup {i}, p)) - (IF p \in Covers(b, i) THEN 1 ELSE 0)
      BY <2>1, <3>2 DEF Hits
    <3>4. CASE p \in Covers(b, i)
      <4>1. Takers(b, S \cup {i}, p) = Takers(b, S, p) \cup {i} /\ i \notin Takers(b, S, p)
        BY <2>3, <3>4 DEF Takers
      <4>2. Cardinality(Takers(b, S \cup {i}, p)) = Cardinality(Takers(b, S, p)) + 1
        BY <3>1, <4>1, FS_AddElement
      <4> QED BY <3>1, <3>3, <3>4, <4>2
    <3>5. CASE p \notin Covers(b, i)
      <4>1. Takers(b, S \cup {i}, p) = Takers(b, S, p)
        BY <3>5 DEF Takers
      <4> QED BY <3>1, <3>3, <3>5, <4>1
    <3> QED BY <3>4, <3>5
  <2>5. Tallied(t)'
    <3>1. (\A p \in PCs : Get(freq, p) = Older(p) + FreqUnit * Hits(t, p))'
      BY <1>7, <1>8, <2>2, <2>4 DEF Tallied, Get
    <3>2. (DOMAIN freq = DOMAIN found.freq \cup {p \in PCs : Hits(t, p) > 0})'
      BY <1>1, <1>7, <2>2, <2>4 DEF Tallied
    <3>3. (todo[t] # {} => \E j \in Accepted(batch[t]) \ left[t] : todo[t] \subseteq Covers(batch[t], j))'
      BY <1>4, <1>8, <2>1, <2>3
    <3> QED BY <2>2, <3>1, <3>2, <3>3 DEF Tallied
  <2> QED BY <1>1, <1>5, <1>6, <2>2, <2>5, Alone DEF Learning, CountLabels, AfterCount
<1>12. CASE BumpRead(t)
  <2>1. PICK p \in todo[t] : key'[t] = p /\ val'[t] = Get(freq, p)
    BY <1>2, <1>12 DEF BumpRead, ReadFreq
  <2>2. /\ pc[t] = "bump" /\ pc'[t] = "bumpStore" /\ UNCHANGED <<freq, todo, left>>
    BY <1>2, <1>12 DEF BumpRead, ReadFreq, At, Goto, globals
  <2>3. \A q : Hits(t, q)' = Hits(t, q)
    BY <1>1, <2>2 DEF Hits, Taken, Takers, Covers, Accepted
  <2>4. Tallied(t)'
    <3>1. (\A q \in PCs : Get(freq, q) = Older(q) + FreqUnit * Hits(t, q))'
      BY <1>7, <1>8, <2>2, <2>3 DEF Tallied, Get
    <3>2. (DOMAIN freq = DOMAIN found.freq \cup {q \in PCs : Hits(t, q) > 0})'
      BY <1>1, <1>7, <2>2, <2>3 DEF Tallied
    <3>3. (todo[t] # {} => \E j \in Accepted(batch[t]) \ left[t] : todo[t] \subseteq Covers(batch[t], j))'
      BY <1>4, <1>7, <1>8, <2>2 DEF Tallied
    <3>4. key'[t] \in todo'[t] /\ val'[t] = Get(freq, key[t])'
      BY <2>1, <2>2 DEF Get
    <3> QED BY <3>1, <3>2, <3>3, <3>4 DEF Tallied
  <2> QED BY <1>1, <1>5, <1>6, <2>2, <2>4, Alone DEF Learning, CountLabels, AfterCount
<1>13. CASE BumpStore(t)
  <2>0. PICK k \in PCs : k = key[t]
    BY <1>2, <1>7, <1>13 DEF BumpStore, At, Tallied
  <2>1. /\ pc[t] = "bumpStore" /\ pc'[t] = "bump" /\ todo'[t] = todo[t] \ {k} /\ left' = left
        /\ freq' = Put(freq, k, val[t] + FreqUnit)
    BY <1>2, <1>13, <2>0 DEF BumpStore, At, Goto, Scan
  <2>2. k \in todo[t] /\ val[t] = Get(freq, k)
    BY <1>7, <2>0, <2>1 DEF Tallied
  <2>3. PICK i \in S : todo[t] \subseteq Covers(b, i)
    BY <1>7, <2>2 DEF Tallied
  <2>4. \A q : Taken(t, q) = Takers(b, S, q) /\ Taken(t, q)' = Takers(b, S, q)
    BY <1>1, <1>4, <2>1 DEF Taken, Takers, Covers
  <2>6. Hits(t, k) \in Nat /\ Hits(t, k)' = Hits(t, k) + 1 /\ Hits(t, k)' > 0
    <3>1. Cardinality(Takers(b, S, k)) > 0
      BY <1>10, <2>2, <2>3
    <3>2. Hits(t, k) = Cardinality(Takers(b, S, k)) - 1
      BY <2>2, <2>4 DEF Hits
    <3>3. Hits(t, k)' = Cardinality(Takers(b, S, k)) - 0
      BY <2>1, <2>4 DEF Hits
    <3>4. Cardinality(Takers(b, S, k)) \in Nat
      BY <1>10
    <3> QED BY <3>1, <3>2, <3>3, <3>4
  <2>7. ASSUME NEW q, q # k PROVE Hits(t, q)' = Hits(t, q) /\ Hits(t, q) \in Int
    <3>1. Hits(t, q)' = Hits(t, q)
      BY <2>1, <2>4, <2>7 DEF Hits
    <3>2. Hits(t, q) = Cardinality(Takers(b, S, q)) - (IF q \in todo[t] THEN 1 ELSE 0)
      BY <2>4 DEF Hits
    <3>3. Cardinality(Takers(b, S, q)) \in Nat
      BY <1>10
    <3> QED BY <3>1, <3>2, <3>3
  <2>8. DOMAIN freq' = DOMAIN freq \cup {k} /\ Get(freq', k) = Get(freq, k) + FreqUnit
        /\ \A q : q # k => Get(freq', q) = Get(freq, q)
    BY <2>1, <2>2 DEF Put, Get
  <2>9. Tallied(t)'
    <3>1. ASSUME NEW q \in PCs PROVE (Get(freq, q) = Older(q) + FreqUnit * Hits(t, q))'
      <4>1. Get(freq, q) = Older(q) + FreqUnit * Hits(t, q) /\ Get(freq, q)' = Get(freq', q)
        BY <1>7 DEF Tallied, Get
      <4>2. CASE q = k
        <5> DEFINE h == Hits(t, k)
                   o == Older(k)
                   g == Get(freq, k)
        <5>1. g = o + FreqUnit * h /\ h \in Nat /\ g \in Nat
          BY <1>2, <2>6, <4>1, <4>2, FrontierFacts DEF Counting
        <5>2. o \in Nat
          <6>1. IsFrontier(found.freq)
            BY DEF Progress, FoundTyped
          <6>2. CASE k \in DOMAIN found.freq
            <7>1. found.freq[k] \in Nat
              BY <6>1, <6>2, FrontierFacts
            <7> QED BY <6>2, <7>1, DivNat, ServerAssumption DEF Older
          <6> QED BY <6>2 DEF Older
        <5>3. Get(freq, q)' = g + FreqUnit /\ Hits(t, q)' = h + 1 /\ Older(q)' = o
          BY <1>8, <2>6, <2>8, <4>1, <4>2
        <5> HIDE DEF h, o, g
        <5>4. g + FreqUnit = o + FreqUnit * (h + 1)
          BY <5>1, <5>2, WeightsAssumption
        <5> QED BY <5>3, <5>4
      <4>3. CASE q # k
        BY <1>8, <2>7, <2>8, <4>1, <4>3
      <4> QED BY <4>2, <4>3
    <3>2. (DOMAIN freq = DOMAIN found.freq \cup {q \in PCs : Hits(t, q) > 0})'
      <4>1. DOMAIN freq = DOMAIN found.freq \cup {q \in PCs : Hits(t, q) > 0}
        BY <1>7 DEF Tallied
      <4>2. \A q \in PCs : Hits(t, q)' > 0 <=> Hits(t, q) > 0 \/ q = k
        BY <2>6, <2>7
      <4> QED BY <1>1, <2>2, <2>8, <4>1, <4>2
    <3>3. (todo[t] # {} => \E j \in Accepted(batch[t]) \ left[t] : todo[t] \subseteq Covers(batch[t], j))'
      BY <1>4, <1>8, <2>1, <2>3
    <3> QED BY <2>1, <3>1, <3>2, <3>3 DEF Tallied
  <2> QED BY <1>1, <1>5, <1>6, <2>1, <2>9, Alone DEF Learning, CountLabels, AfterCount
<1>14. CASE BumpDone(t)
  <2>1. pc[t] = "bump" /\ pc'[t] = "publish" /\ todo[t] = {} /\ left[t] = {} /\ freq' = freq
    BY <1>2, <1>14 DEF BumpDone, At, Goto, globals
  <2> DEFINE N(p) == Cardinality(Takers(b, Accepted(b), p))
             R == UNION {Covers(b, i) : i \in Accepted(b)}
  <2>2. ASSUME NEW p \in PCs PROVE Hits(t, p) = N(p) /\ N(p) \in Nat /\ (N(p) > 0 <=> p \in R)
    <3>0. S = Accepted(b)
      BY <2>1
    <3>1. Hits(t, p) = N(p) - 0 /\ N(p) \in Nat /\ (N(p) > 0 <=> p \in R)
      BY <1>10, <2>1, <3>0 DEF Hits, Taken
    <3> QED BY <3>1
  <2>3. R \subseteq PCs
    BY <1>2, CoversFinite, AcceptedFinite
  <2>4. DOMAIN freq = DOMAIN found.freq \cup R /\ DOMAIN freq \subseteq PCs
    <3>1. DOMAIN freq = DOMAIN found.freq \cup {p \in PCs : Hits(t, p) > 0}
      BY <1>7 DEF Tallied
    <3>2. DOMAIN freq \subseteq PCs
      BY <1>2, FrontierFacts
    <3> HIDE DEF N, R
    <3> QED BY <2>2, <2>3, <3>1, <3>2
  <2>5. \A p \in DOMAIN freq : freq[p] = Older(p) + FreqUnit * N(p)
    BY <1>7, <2>2, <2>4 DEF Tallied, Get
  <2>6. freq = [p \in DOMAIN found.freq \cup R |-> Older(p) + FreqUnit * N(p)]
    <3>1. freq = [p \in DOMAIN freq |-> freq[p]]
      BY <1>2 DEF IsFrontier
    <3> HIDE DEF N, R
    <3> QED BY <2>4, <2>5, <3>1
  <2>7. freq = Learned(t)
    BY <1>7, <2>6 DEF Learned
  <2>8. Learned(t)' = Learned(t)
    BY <1>1 DEF Learned, Accepted, Takers, Covers, Older
  <2> QED BY <1>1, <1>5, <1>6, <2>1, <2>7, <2>8, Alone DEF Learning, CountLabels, AfterCount
<1> QED BY <1>11, <1>12, <1>13, <1>14

\* Telemetry, the call counter and the files.
LEMMA PublishProgress ==
  ASSUME OneThread, TypeInv, Progress, NEW t \in Threads, UNCHANGED found,
         \/ PublishDepths(t) \/ PublishCounts(t)
         \/ CountRead(t) \/ CountStore(t) \/ CheckCadence(t)
         \/ OpenPcs(t) \/ WritePcs(t) \/ OpenMax(t) \/ WriteMax(t) \/ OpenFreq(t) \/ WriteFreq(t)
  PROVE  Progress'
<1>1. /\ UNCHANGED <<pcSet, maxPcs, rewards, batch, vmOk, found>> /\ FoundTyped'
      /\ Route(t) /\ Learning(t) /\ Publishing(t) /\ Seeing(t)' /\ Paying(t)'
  BY ScoredFacts
<1>2. /\ pc \in [Threads -> Labels] /\ val \in [Threads -> Nat] /\ todo \in [Threads -> SUBSET PCs]
      /\ IsFrontier(freq)
  BY DEF TypeInv, TypeOK
<1>3. UNCHANGED <<freq, left>>
  BY DEF PublishDepths, PublishCounts, CountRead, CountStore, CheckCadence, OpenFile, WriteFile,
         OpenPcs, WritePcs, OpenMax, WriteMax, OpenFreq, WriteFreq, globals, locals
<1>4. /\ pc[t] \in AfterCount /\ pc'[t] \in AfterCount
      /\ pc'[t] # "writeFreq" => todo'[t] = {}
      /\ pc'[t] = "writeFreq" => todo'[t] = DOMAIN freq
  <2>1. pc[t] # "writeFreq" => todo[t] = {} \/ pc[t] \in CountLabels
    BY <1>1 DEF Route
  <2> QED
    BY <1>2, <2>1
       DEF PublishDepths, PublishCounts, CountRead, CountStore, CheckCadence, OpenFile, WriteFile,
           OpenPcs, WritePcs, OpenMax, WriteMax, OpenFreq, WriteFreq, locals, At, Goto, Scan, AfterCount,
           CountLabels
<1>5. ToValidate(batch[t])' = ToValidate(batch[t]) /\ Learned(t)' = Learned(t)
      /\ DepthsOf(batch[t], vmOk[t])' = DepthsOf(batch[t], vmOk[t])
      /\ Counts(batch[t], vmOk[t])' = Counts(batch[t], vmOk[t])
  BY <1>1 DEF ToValidate, Learned, Accepted, Takers, Covers, Older, DepthsOf, Counts
<1>6. Route(t)'
  BY <1>1, <1>3, <1>4, <1>5 DEF Route, CountLabels, AfterCount, MergeLabels
<1>7. Learning(t)'
  BY <1>1, <1>3, <1>4, <1>5 DEF Learning, CountLabels, AfterCount
<1>8. Publishing(t)'
  <2>1. CASE PublishDepths(t)
    <3>1. /\ pc[t] = "publish" /\ pc'[t] = "publishCounts" /\ callCount' = callCount
          /\ lastDepths' = DepthsOf(batch[t], vmOk[t])
      BY <1>2, <2>1 DEF PublishDepths, At, Goto
    <3> QED BY <1>1, <1>5, <3>1 DEF Publishing, AfterCount, AfterCall
  <2>2. CASE PublishCounts(t)
    <3>1. /\ pc[t] = "publishCounts" /\ pc'[t] = "count" /\ UNCHANGED <<callCount, lastDepths>>
          /\ lastCounts' = Counts(batch[t], vmOk[t])
      BY <1>2, <2>2 DEF PublishCounts, At, Goto
    <3> QED BY <1>1, <1>5, <3>1 DEF Publishing, AfterCount, AfterCall
  <2>3. CASE CountRead(t)
    <3>1. /\ pc[t] = "count" /\ pc'[t] = "countStore" /\ UNCHANGED <<callCount, lastDepths, lastCounts>>
          /\ val'[t] = callCount
      BY <1>2, <2>3 DEF CountRead, At, Goto, globals
    <3> QED BY <1>1, <1>5, <3>1 DEF Publishing, AfterCount, AfterCall
  <2>4. CASE CountStore(t)
    <3>1. /\ pc[t] = "countStore" /\ pc'[t] = "cadence" /\ UNCHANGED <<lastDepths, lastCounts>>
          /\ callCount' = val[t] + 1
      BY <1>2, <2>4 DEF CountStore, At, Goto
    <3> QED BY <1>1, <1>5, <3>1 DEF Publishing, AfterCount, AfterCall
  <2>5. CASE UNCHANGED <<callCount, lastDepths, lastCounts>> /\ pc[t] \in AfterCall /\ pc'[t] \in AfterCall
    BY <1>1, <1>3, <1>4, <1>5, <2>5 DEF Publishing, AfterCount, AfterCall
  <2> QED
    BY <1>2, <2>1, <2>2, <2>3, <2>4, <2>5
       DEF CheckCadence, OpenFile, WriteFile, OpenPcs, WritePcs, OpenMax, WriteMax, OpenFreq, WriteFreq,
           At, Goto, AfterCount, AfterCall, globals
<1> QED BY <1>1, <1>6, <1>7, <1>8, Alone

\* The answer leaves.
LEMMA AnswerProgress ==
  ASSUME OneThread, TypeInv, Progress, NEW t \in Threads, Respond(t),
         found' = [Kept EXCEPT !.answer = AnswerOf(response'[t])]
  PROVE  Progress'
<1>1. /\ pc'[t] = "idle" /\ vmOk'[t] = TRUE /\ todo'[t] = {} /\ pc[t] = "respond"
      /\ UNCHANGED <<maxPcs, freq, callCount>>
  BY DEF Respond, Return, At, Goto, Scan, globals, TypeInv, TypeOK
<1>2. /\ found'.maxPcs = maxPcs /\ found'.freq = freq /\ found'.callCount = callCount
      /\ found' = [pcSet |-> found'.pcSet, maxPcs |-> found'.maxPcs, freq |-> found'.freq,
                   callCount |-> found'.callCount, answer |-> found'.answer]
  BY DEF Kept
<1>3. FoundTyped'
  BY <1>1, <1>2 DEF FoundTyped, TypeInv, TypeOK, IsFrontier
<1>4. Route(t)'
  BY <1>1 DEF Route, CountLabels, MergeLabels
<1>5. Seeing(t)' /\ Paying(t)' /\ Learning(t)' /\ Publishing(t)'
  BY <1>1 DEF Seeing, Paying, Learning, Publishing, CountLabels, AfterCount, AfterCall
<1> QED BY <1>3, <1>4, <1>5, Alone

-----------------------------------------------------------------------------
(* What the promise sees.                                                  *)

LEMMA SameSize == \A S : Promise!Cardinality(S) = Cardinality(S)
BY DEF Promise!Cardinality, Cardinality

LEMMA SameLadder ==
  /\ \A b : Promise!ToValidate(b) = ToValidate(b)
  /\ \A b : Promise!Accepted(b) = Accepted(b)
  /\ \A b : Promise!Rejected(b) = Rejected(b)
  /\ \A b, i : Promise!Covers(b, i) = Covers(b, i)
  /\ \A b, i : Promise!Depth(b, i) = Depth(b, i)
  /\ \A f, p : Promise!Get(f, p) = Get(f, p)
<1>1. \A b : Promise!ToValidate(b) = ToValidate(b)
  BY DEF Promise!ToValidate, ToValidate
<1>2. \A b : Promise!Accepted(b) = Accepted(b)
  BY DEF Promise!Accepted, Accepted
<1>3. \A b : Promise!Rejected(b) = Rejected(b)
  BY DEF Promise!Rejected, Rejected
<1>4. \A b, i : Promise!Covers(b, i) = Covers(b, i)
  BY DEF Promise!Covers, Covers
<1>5. \A b, i : Promise!Depth(b, i) = Depth(b, i)
  BY <1>4, SameSize DEF Promise!Depth, Depth
<1>6. \A f, p : Promise!Get(f, p) = Get(f, p)
  BY DEF Promise!Get, Get
<1> QED BY <1>1, <1>2, <1>3, <1>4, <1>5, <1>6

LEMMA SameRewards ==
  /\ \A f, m, b, i : Promise!Reward(f, m, b, i) = Reward(f, m, b, i)
  /\ \A b, ok : Promise!Counts(b, ok) = Counts(b, ok)
  /\ \A b, ok : Promise!DepthsOf(b, ok) = DepthsOf(b, ok)
<1>1. \A b, i : Promise!Unshared(b, i) = Unshared(b, i)
  BY SameLadder DEF Promise!Unshared, Unshared
<1>2. \A b, i : Promise!GroupNovelty(b, i) = GroupNovelty(b, i)
  BY <1>1, SameLadder, SameSize DEF Promise!GroupNovelty, GroupNovelty
<1>3. \A f, p : Promise!FreshnessUnits(f, p) = FreshnessUnits(f, p)
  BY SameLadder DEF Promise!FreshnessUnits, FreshnessUnits
<1>4. \A f, b, i : Promise!GlobalNovelty(f, b, i) = GlobalNovelty(f, b, i)
  <2>1. TAKE f, b, i
  <2>2. {x \in Covers(b, i) \X (1 .. Unit) : x[2] \in Promise!FreshnessUnits(f, x[1])}
        = {x \in Covers(b, i) \X (1 .. Unit) : x[2] \in FreshnessUnits(f, x[1])}
    BY <1>3
  <2>3. Promise!Covers(b, i) = Covers(b, i) /\ Promise!Depth(b, i) = Depth(b, i)
    BY SameLadder
  <2> QED BY <2>2, <2>3, SameSize DEF Promise!GlobalNovelty, GlobalNovelty
<1>5. \A f, b, i : Promise!AcceptedReward(f, b, i) = AcceptedReward(f, b, i)
  BY <1>2, <1>4 DEF Promise!AcceptedReward, AcceptedReward
<1>6. \A d, m : Promise!RejectedReward(d, m) = RejectedReward(d, m)
  BY DEF Promise!RejectedReward, RejectedReward
<1>7. \A f, m, b, i : Promise!Reward(f, m, b, i) = Reward(f, m, b, i)
  BY <1>5, <1>6, SameLadder DEF Promise!Reward, Reward
<1>8. \A b, ok : Promise!Counts(b, ok) = Counts(b, ok)
  BY SameLadder, SameSize DEF Promise!Counts, Counts
<1>9. \A b, ok : Promise!DepthsOf(b, ok) = DepthsOf(b, ok)
  BY SameLadder DEF Promise!DepthsOf, DepthsOf
<1> QED BY <1>7, <1>8, <1>9

\* A greatest number of a set is its Max.
LEMMA PromisedMaxIs ==
  ASSUME NEW S \in SUBSET Nat, NEW m \in S, \A n \in S : n <= m
  PROVE  Promise!Max(S) = m
<1>1. Promise!Max(S) = CHOOSE x \in S : \A y \in S : x >= y
  BY DEF Promise!Max
<1>2. \E x \in S : \A y \in S : x >= y
  OBVIOUS
<1>3. Promise!Max(S) \in S /\ \A y \in S : Promise!Max(S) >= y
  BY <1>1, <1>2
<1>4. Promise!Max(S) \in Nat /\ m \in Nat /\ Promise!Max(S) >= m /\ Promise!Max(S) <= m
  BY <1>3
<1> HIDE DEF Promise!Max
<1> QED BY <1>4

\* Only a request in progress takes a step, and only two steps end it.
LEMMA WhoEnds ==
  ASSUME TypeInv, NEW t \in Threads, Compute(t)
  PROVE  pc[t] # "idle" /\ (pc'[t] = "idle" => Respond(t) \/ WriteFreqRaises(t))
<1> USE DEF At, Goto
<1>1. pc \in [Threads -> Labels]
  BY DEF TypeInv, TypeOK
<1>2. CASE \/ VmAnswers(t) \/ VmFails(t) \/ WatchdogReturns(t)
           \/ MergeCoverage(t) \/ CompareDepth(t) \/ StoreDepth(t) \/ MergeDone(t)
  BY <1>1, <1>2 DEF VmAnswers, VmFails, WatchdogReturns, MergeCoverage, CompareDepth, StoreDepth, MergeDone
<1>3. CASE PayRejected(t) \/ RejectedDone(t) \/ PayAccepted(t) \/ AcceptedDone(t)
  BY <1>1, <1>3 DEF PayRejected, RejectedDone, PayAccepted, AcceptedDone
<1>4. CASE \/ DecayRead(t) \/ DecayStore(t) \/ DecayDone(t)
           \/ BumpProgram(t) \/ BumpRead(t) \/ BumpStore(t) \/ BumpDone(t)
  BY <1>1, <1>4 DEF DecayRead, DecayStore, DecayDone, BumpProgram, BumpRead, BumpStore, BumpDone, ReadFreq
<1>5. CASE PublishDepths(t) \/ PublishCounts(t) \/ CountRead(t) \/ CountStore(t) \/ CheckCadence(t)
  BY <1>1, <1>5 DEF PublishDepths, PublishCounts, CountRead, CountStore, CheckCadence
<1>6. CASE \/ OpenPcs(t) \/ WritePcs(t) \/ OpenMax(t) \/ WriteMax(t) \/ OpenFreq(t) \/ WriteFreq(t)
  BY <1>1, <1>6 DEF OpenPcs, WritePcs, OpenMax, WriteMax, OpenFreq, WriteFreq, OpenFile, WriteFile
<1>7. CASE WriteFreqRaises(t) \/ Respond(t)
  BY <1>7 DEF WriteFreqRaises, Respond
<1> QED BY <1>2, <1>3, <1>4, <1>5, <1>6, <1>7 DEF Compute

\* Alone, a request finds the frontier it listed when the file was opened.
LEMMA NothingRaises ==
  ASSUME TypeInv, Progress, NEW t \in Threads
  PROVE  ~WriteFreqRaises(t)
BY DEF WriteFreqRaises, At, Progress, SoFar, Publishing

LEMMA SeenIs ==
  ASSUME OneThread, NEW t \in Threads
  PROVE  /\ pc[t] = "idle" => Seen = [Kept EXCEPT !.answer = found.answer]
         /\ pc[t] # "idle" => Seen = found
         /\ pc'[t] = "idle" => Seen' = [Kept EXCEPT !.answer = found.answer]'
         /\ pc'[t] # "idle" => Seen' = found'
<1>1. InProgress = {} <=> pc[t] = "idle"
  BY DEF OneThread, InProgress
<1>2. InProgress' = {} <=> pc'[t] = "idle"
  BY DEF OneThread, InProgress
<1> QED BY <1>1, <1>2 DEF Seen

\* What the answer carries, and what the promise sees before and after it.
LEMMA AnswerFacts ==
  ASSUME OneThread, TypeInv, Progress, NEW t \in Threads, Respond(t),
         found' = [Kept EXCEPT !.answer = AnswerOf(response'[t])]
  PROVE  /\ pc[t] = "respond" /\ batch[t] \in Batches
         /\ Seen = found
         /\ Seen'.pcSet = pcSet /\ Seen'.maxPcs = maxPcs /\ Seen'.freq = freq
         /\ Seen'.callCount = found.callCount + 1
         /\ Seen'.answer =
              [rewards |-> rewards[t], depths |-> DepthsOf(batch[t], vmOk[t]),
               counts |-> Counts(batch[t], vmOk[t]), cumulative |-> Cardinality(pcSet),
               max |-> maxPcs, frontier |-> Cardinality(DOMAIN freq)]
<1>1. /\ pc[t] = "respond" /\ pc'[t] = "idle"
      /\ UNCHANGED <<pcSet, maxPcs, freq, callCount>>
      /\ response'[t] = [batch |-> batch[t], vmOk |-> vmOk[t], rewards |-> rewards[t],
                         cumulative |-> Cardinality(pcSet), depths |-> lastDepths, max |-> maxPcs,
                         counts |-> lastCounts, frontier |-> Cardinality(DOMAIN freq)]
  BY DEF Respond, Return, At, Goto, globals, TypeInv, TypeOK
<1>2. Route(t) /\ Publishing(t)
  BY DEF Progress, SoFar
<1>3. /\ batch[t] \in Batches /\ callCount = found.callCount + 1
      /\ lastDepths = DepthsOf(batch[t], vmOk[t]) /\ lastCounts = Counts(batch[t], vmOk[t])
  BY <1>1, <1>2 DEF Route, Publishing, AfterCount, AfterCall
<1>4. /\ Seen = found
      /\ Seen' = [Kept' EXCEPT !.answer = AnswerOf(response'[t])]
  <2>1. Seen = found /\ Seen' = [Kept' EXCEPT !.answer = found'.answer]
    BY <1>1, SeenIs
  <2>2. found'.answer = AnswerOf(response'[t])
    BY DEF Kept
  <2> QED BY <2>1, <2>2
<1>5. AnswerOf(response'[t]) =
        [rewards |-> rewards[t], depths |-> DepthsOf(batch[t], vmOk[t]),
         counts |-> Counts(batch[t], vmOk[t]), cumulative |-> Cardinality(pcSet),
         max |-> maxPcs, frontier |-> Cardinality(DOMAIN freq)]
  BY <1>1, <1>3 DEF AnswerOf
<1> QED BY <1>1, <1>3, <1>4, <1>5 DEF Kept

\* The answer to a batch the VM scored.
LEMMA AnswerScores ==
  ASSUME OneThread, TypeInv, Progress, NEW t \in Threads, Respond(t), vmOk[t],
         found' = [Kept EXCEPT !.answer = AnswerOf(response'[t])]
  PROVE  Promise!ScoreBatch(batch[t])
<1>1. PICK b \in Batches : b = batch[t]
  BY AnswerFacts
<1>2. /\ Seen = found
      /\ Seen'.pcSet = pcSet /\ Seen'.maxPcs = maxPcs /\ Seen'.freq = freq
      /\ Seen'.callCount = found.callCount + 1
      /\ Seen'.answer =
           [rewards |-> rewards[t], depths |-> DepthsOf(b, TRUE),
            counts |-> Counts(b, TRUE), cumulative |-> Cardinality(pcSet),
            max |-> maxPcs, frontier |-> Cardinality(DOMAIN freq)]
  BY <1>1, AnswerFacts
<1>3. /\ CoverageIs(t, ToValidate(b)) /\ DeepestIs(t, ToValidate(b))
      /\ PaidIs(t, Rejected(b) \cup Accepted(b)) /\ freq = Learned(t)
  <2>1. Seeing(t) /\ Paying(t) /\ Learning(t) /\ pc[t] = "respond"
    BY AnswerFacts DEF Progress, SoFar
  <2>2. Validated(t) = ToValidate(b) /\ Scored(t) = Rejected(b) \cup Accepted(b)
    BY <1>1, <2>1 DEF Validated, Scored, MergeLabels
  <2> QED BY <2>1, <2>2 DEF Seeing, Paying, Learning, AfterCount
<1>4. Seen'.pcSet = Seen.pcSet \cup UNION {Promise!Covers(b, i) : i \in Promise!ToValidate(b)}
  BY <1>1, <1>2, <1>3, SameLadder DEF CoverageIs
<1> DEFINE depth == Promise!Max({Seen.maxPcs} \cup {Promise!Depth(b, i) : i \in Promise!ToValidate(b)})
<1>5. depth = maxPcs
  <2> DEFINE S == {found.maxPcs} \cup {Depth(b, i) : i \in ToValidate(b)}
  <2>1. found.maxPcs \in Nat /\ maxPcs \in Nat
    BY DEF Progress, FoundTyped, TypeInv, TypeOK
  <2>2. \A i \in ToValidate(b) : Depth(b, i) \in Nat
    BY <1>1, CoversFinite, ServerAssumption DEF ToValidate
  <2>3. S \in SUBSET Nat /\ maxPcs \in S /\ \A n \in S : n <= maxPcs
    BY <1>1, <1>3, <2>1, <2>2 DEF DeepestIs
  <2>4. {Seen.maxPcs} \cup {Promise!Depth(b, i) : i \in Promise!ToValidate(b)} = S
    BY <1>2, SameLadder
  <2> HIDE DEF S
  <2> QED BY <2>3, <2>4, PromisedMaxIs
<1>6. Promise!Aged(b) = freq
  <2>1. \A p : Promise!Get([q \in DOMAIN found.freq |-> (found.freq[q] * DecayNum) \div DecayDen], p)
              = Older(p)
    BY SameLadder DEF Get, Older
  <2>2. \A p : Cardinality({i \in Accepted(b) : p \in Covers(b, i)}) = Cardinality(Takers(b, Accepted(b), p))
    BY DEF Takers
  <2>3. CASE Accepted(b) = {}
    BY <1>1, <1>2, <1>3, <2>3, SameLadder DEF Learned, Promise!Aged
  <2>4. CASE Accepted(b) # {}
    <3>1. Promise!Aged(b) =
            [p \in DOMAIN found.freq \cup UNION {Covers(b, i) : i \in Accepted(b)} |->
               Older(p) + FreqUnit * Cardinality(Takers(b, Accepted(b), p))]
      BY <1>2, <2>1, <2>2, <2>4, SameLadder, SameSize DEF Promise!Aged
    <3> QED BY <1>1, <1>3, <2>4, <3>1 DEF Learned
  <2> QED BY <2>3, <2>4
<1>7. rewards[t] = [i \in DOMAIN b |-> Promise!Reward(Seen.freq, maxPcs, b, i)]
  <2>1. \A i \in DOMAIN b : i \notin Rejected(b) \cup Accepted(b) => Reward(found.freq, maxPcs, b, i) = 0
    BY DEF Reward
  <2>2. rewards[t] = [i \in DOMAIN b |-> Reward(found.freq, maxPcs, b, i)]
    BY <1>1, <1>3, <2>1 DEF PaidIs
  <2> QED BY <1>2, <2>2, SameRewards
<1>8. /\ DepthsOf(b, TRUE) = Promise!DepthsOf(b, TRUE) /\ Counts(b, TRUE) = Promise!Counts(b, TRUE)
      /\ Cardinality(pcSet) = Promise!Cardinality(pcSet)
      /\ Cardinality(DOMAIN freq) = Promise!Cardinality(DOMAIN freq)
  BY SameRewards, SameSize
<1>9. Seen'.answer =
        [rewards |-> [i \in DOMAIN b |-> Promise!Reward(Seen.freq, depth, b, i)],
         depths |-> Promise!DepthsOf(b, TRUE), counts |-> Promise!Counts(b, TRUE),
         cumulative |-> Promise!Cardinality(Seen'.pcSet), max |-> depth,
         frontier |-> Promise!Cardinality(DOMAIN Seen'.freq)]
  <2> HIDE DEF depth
  <2> QED BY <1>2, <1>5, <1>7, <1>8
<1>10. /\ Seen'.maxPcs = depth /\ Seen'.freq = Promise!Aged(b)
       /\ Seen'.callCount = Seen.callCount + 1
  BY <1>2, <1>5, <1>6
<1> QED BY <1>1, <1>4, <1>9, <1>10 DEF Promise!ScoreBatch

\* The answer when the VM call was lost.
LEMMA AnswerLoses ==
  ASSUME OneThread, TypeInv, Progress, NEW t \in Threads, Respond(t), ~vmOk[t],
         found' = [Kept EXCEPT !.answer = AnswerOf(response'[t])]
  PROVE  Promise!LoseBatch(batch[t])
<1>1. PICK b \in Batches : b = batch[t]
  BY AnswerFacts
<1>2. vmOk[t] = FALSE
  BY DEF TypeInv, TypeOK
<1>3. /\ Seen = found
      /\ Seen'.pcSet = pcSet /\ Seen'.maxPcs = maxPcs /\ Seen'.freq = freq
      /\ Seen'.callCount = found.callCount + 1
      /\ Seen'.answer =
           [rewards |-> rewards[t], depths |-> DepthsOf(b, FALSE),
            counts |-> Counts(b, FALSE), cumulative |-> Cardinality(pcSet),
            max |-> maxPcs, frontier |-> Cardinality(DOMAIN freq)]
  BY <1>1, <1>2, AnswerFacts
<1>4. /\ ToValidate(b) # {} /\ CoverageIs(t, {}) /\ DeepestIs(t, {}) /\ PaidIs(t, {})
      /\ freq = found.freq
  <2>1. Route(t) /\ Seeing(t) /\ Paying(t) /\ Learning(t) /\ pc[t] = "respond"
    BY AnswerFacts DEF Progress, SoFar
  <2>2. Validated(t) = {} /\ Scored(t) = {}
    BY <1>2, <2>1 DEF Validated, Scored, MergeLabels
  <2> QED BY <1>1, <1>2, <2>1, <2>2 DEF Route, Seeing, Paying, Learning, Learned, AfterCount
<1>5. pcSet = found.pcSet /\ maxPcs = found.maxPcs /\ rewards[t] = [i \in DOMAIN b |-> 0]
  BY <1>1, <1>4 DEF CoverageIs, DeepestIs, PaidIs
<1>6. /\ DepthsOf(b, FALSE) = Promise!DepthsOf(b, FALSE) /\ Counts(b, FALSE) = Promise!Counts(b, FALSE)
      /\ Cardinality(pcSet) = Promise!Cardinality(pcSet)
      /\ Cardinality(DOMAIN freq) = Promise!Cardinality(DOMAIN freq)
      /\ Promise!ToValidate(b) = ToValidate(b)
  BY SameRewards, SameSize, SameLadder
<1> QED BY <1>1, <1>3, <1>4, <1>5, <1>6 DEF Promise!LoseBatch

-----------------------------------------------------------------------------
(* The promise is kept.                                                    *)

LEMMA InitProgress == RInit => TypeInv /\ Progress /\ Promise!Init
<1> SUFFICES ASSUME RInit PROVE TypeInv /\ Progress /\ Promise!Init
  OBVIOUS
<1>1. TypeInv
  BY InitTypeInv DEF RInit
<1>2. /\ pcSet = {} /\ maxPcs = 1 /\ freq = [p \in {} |-> 0] /\ callCount = 0
      /\ \A t \in Threads : pc[t] = "idle" /\ vmOk[t] /\ todo[t] = {}
      /\ found = Kept
  BY DEF RInit, Init
<1>3. FoundTyped
  BY <1>1, <1>2 DEF FoundTyped, Kept, TypeInv, TypeOK
<1>4. SoFar
  BY <1>2 DEF SoFar, Route, Seeing, Paying, Learning, Publishing, MergeLabels, CountLabels,
              AfterCount, AfterCall
<1>5. Seen = [Kept EXCEPT !.answer = found.answer]
  BY <1>2 DEF Seen, InProgress
<1>6. Promise!Init
  BY <1>2, <1>5 DEF Promise!Init, Kept
<1> QED BY <1>1, <1>3, <1>4, <1>6 DEF Progress

\* What the promise sees.
promised == <<Seen.pcSet, Seen.maxPcs, Seen.freq, Seen.callCount, Seen.answer>>

LEMMA ComputeProgress ==
  ASSUME OneThread, TypeInv, Progress, NEW t \in Threads, Compute(t), pc'[t] # "idle", UNCHANGED found
  PROVE  Progress'
<1>1. ~Respond(t) /\ ~WriteFreqRaises(t)
  <2>1. pc \in [Threads -> Labels]
    BY DEF TypeInv, TypeOK
  <2> QED BY <2>1, NothingRaises DEF Respond, Return, Goto
<1> QED
  BY <1>1, VmProgress, MergeProgress, ScoreProgress, AgeFirst, AgeProgress, BumpProgress, PublishProgress
     DEF Compute

\* Each step continues the request or gives its answer, and the promise sees
\* nothing or one of its own steps.
LEMMA StepKeepsPromise ==
  ASSUME OneThread, TypeInv, Progress, [RNext]_<<vars, found>>
  PROVE  TypeInv' /\ Progress' /\ [Promise!Next]_promised
<1>1. ASSUME NEW t \in Threads, NEW b \in Batches, Receive(t, b),
             found' = [Kept EXCEPT !.answer = found.answer]
      PROVE  Progress' /\ UNCHANGED promised
  <2>1. pc[t] = "idle" /\ pc'[t] # "idle"
    BY <1>1 DEF Receive, At, Goto, TypeInv, TypeOK
  <2>2. Seen = [Kept EXCEPT !.answer = found.answer] /\ Seen' = found'
    BY <2>1, SeenIs
  <2> QED BY <1>1, <2>2, ReceiveProgress DEF promised
<1>2. ASSUME NEW t \in Threads, Compute(t), pc'[t] # "idle", UNCHANGED found
      PROVE  Progress' /\ UNCHANGED promised
  <2>1. pc[t] # "idle"
    BY <1>2, WhoEnds
  <2>2. Seen = found /\ Seen' = found'
    BY <1>2, <2>1, SeenIs
  <2> QED BY <1>2, <2>2, ComputeProgress DEF promised
<1>3. ASSUME NEW t \in Threads, Compute(t), pc'[t] = "idle",
             found' = [Kept EXCEPT !.answer = AnswerOf(response'[t])]
      PROVE  Progress' /\ Promise!Next
  <2>1. Respond(t)
    BY <1>3, WhoEnds, NothingRaises
  <2>2. batch[t] \in Batches /\ (Promise!ScoreBatch(batch[t]) \/ Promise!LoseBatch(batch[t]))
    BY <1>3, <2>1, AnswerFacts, AnswerScores, AnswerLoses
  <2> QED BY <1>3, <2>1, <2>2, AnswerProgress DEF Promise!Next
<1>4. ASSUME UNCHANGED <<vars, found>>
      PROVE  Progress' /\ UNCHANGED promised
  <2> USE DEF vars, globals, process, locals
  <2>1. FoundTyped'
    BY <1>4 DEF Progress, FoundTyped
  <2>2. ASSUME NEW t \in Threads
        PROVE  (Route(t) /\ Seeing(t) /\ Paying(t) /\ Learning(t) /\ Publishing(t))'
    <3>1. Route(t) /\ Seeing(t) /\ Paying(t) /\ Learning(t) /\ Publishing(t)
      BY DEF Progress, SoFar
    <3>2. Route(t)' /\ Publishing(t)'
      BY <1>4, <3>1 DEF Route, Publishing
    <3>3. Seeing(t)' /\ Paying(t)'
      BY <1>4, <3>1 DEF Seeing, Paying, Validated, Scored, CoverageIs, DeepestIs, PaidIs, NextIs
    <3>4. \A p : Older(p)' = Older(p) /\ Hits(t, p)' = Hits(t, p)
      BY <1>4 DEF Older, Hits, Taken
    <3>5. (Ageing(t) => Ageing(t)') /\ (Tallied(t) => Tallied(t)')
      BY <1>4, <3>4 DEF Ageing, Tallied
    <3>6. Learned(t)' = Learned(t)
      BY <1>4, <3>4 DEF Learned
    <3>7. Learning(t)'
      BY <1>4, <3>1, <3>5, <3>6 DEF Learning
    <3> QED BY <3>2, <3>3, <3>7
  <2>3. Seen' = Seen
    BY <1>4 DEF Seen, Kept, InProgress
  <2> QED BY <2>1, <2>2, <2>3 DEF promised, Progress, SoFar
<1>5. [Next]_vars
  BY DEF RNext, Next
<1>6. TypeInv'
  BY <1>5, NextTypeInv
<1> QED BY <1>1, <1>2, <1>3, <1>4, <1>6 DEF RNext

\* compute_rewards keeps its promise (ml/reward.py:458-570): as long as
\* requests come one at a time and the server stays up, the steps a request
\* takes add up to the one step AtomicRewards takes for its batch, with
\* the rewards, the telemetry, the coverage, the depth record and the frontier
\* that step gives, for every batch, verdict and weight.
THEOREM ImplementsPromiseHolds ==
  ASSUME OneThread
  PROVE  RSpec => ImplementsPromise
<1>1. RInit => TypeInv /\ Progress /\ Promise!Init
  BY InitProgress
<1>2. TypeInv /\ Progress /\ [RNext]_<<vars, found>> => TypeInv' /\ Progress' /\ [Promise!Next]_promised
  BY StepKeepsPromise
<1> QED BY <1>1, <1>2, PTL DEF RSpec, ImplementsPromise, Promise!Spec, promised

-----------------------------------------------------------------------------
(***************************************************************************)
(* What the trainer is sure the frontier has counted, for any number of    *)
(* threads, abandoned attempts, crashes and ageing.  The hits of a batch   *)
(* are a balance: what the frontier has counted of it and what its thread  *)
(* has still to count (Uncounted).  A step of a request moves hits from    *)
(* one side to the other; a batch the VM lost, and what a crash loses, are *)
(* written off, and only a new attempt adds to the balance.                *)
(***************************************************************************)

\* The hits of counter p that thread t has still to count: those of the
\* programs in left, and one, written 0, for the program it is at.
Uncounted(t, p) ==
  IF pc[t] \in {"idle"} \cup AfterCount THEN {}
  ELSE IF pc[t] \in {"bump", "bumpStore"}
       THEN {i \in left[t] : p \in Covers(batch[t], i)} \cup (IF p \in todo[t] THEN {0} ELSE {})
       ELSE HitsIn(batch[t], p)

\* The order in which a request comes to its hits.
Orderly(t) ==
  /\ pc[t] # "idle" => batch[t] \in Batches /\ response[t] = None
  /\ pc[t] \in {"accept"} \cup CountLabels => vmOk[t]
  /\ pc[t] \in {"decay", "decayStore"} => left[t] = Accepted(batch[t])
  /\ pc[t] = "bumpStore" => key[t] \in todo[t]
  /\ pc[t] \notin CountLabels \cup {"writeFreq"} => todo[t] = {}

\* What all the threads, and all but t, have still to count.
Owing(p) == UNION {{t} \X Uncounted(t, p) : t \in Threads}
OwingBut(t, p) == UNION {{u} \X Uncounted(u, p) : u \in Threads \ {t}}

\* The VM answered the request that thread t runs or ran last.
Scoring(t) == IF pc[t] = "idle" THEN response[t] # None /\ response[t].vmOk ELSE vmOk[t]

\* Attempts of the current step that were sent.
Sent == IF client = "waiting" THEN tries + 1 ELSE tries

Steady == crashes \in Nat /\ (crashes = 0 => up)

InTime ==
  /\ client \in {"sampling", "posting", "waiting", "failed"} /\ tries \in Nat
  /\ client # "sampling" => Sent <= MaxTries
  /\ client = "posting" => tries < MaxTries

Tried(p) == IF client = "sampling" THEN 0 ELSE Sent * Cardinality(HitsIn(prompt, p))

NoMore(p) == hits[p] + Cardinality(Owing(p)) <= MaxTries * Cardinality(StepHits(p)) + Tried(p)

Learnt(p) == {x \in StepHits(p) : learned[x[1]].vmOk}

NoLess(p) ==
  /\ Cardinality(Learnt(p)) <= hits[p]
  /\ serving # None /\ Scoring(serving) =>
       Cardinality(Learnt(p)) + Cardinality(HitsIn(prompt, p))
         <= hits[p] + Cardinality(Uncounted(serving, p))

Books(p) ==
  /\ IsFiniteSet(Owing(p)) /\ IsFiniteSet(StepHits(p))
  /\ savedHits[p] <= hits[p]
  /\ NoMore(p)
  /\ crashes = 0 => NoLess(p)

Balance == Steady /\ InTime /\ (\A t \in Threads : Orderly(t)) /\ \A p \in PCs : Books(p)

-----------------------------------------------------------------------------

\* A column more of pairs.
LEMMA AddColumn ==
  ASSUME NEW R, IsFiniteSet(R), NEW x, \A y \in R : y[1] # x, NEW U, IsFiniteSet(U)
  PROVE  /\ IsFiniteSet(R \cup ({x} \X U)) /\ Cardinality(R) \in Nat /\ Cardinality(U) \in Nat
         /\ Cardinality(R \cup ({x} \X U)) = Cardinality(R) + Cardinality(U)
<1> DEFINE col == {x} \X U
<1>1. IsFiniteSet({x}) /\ Cardinality({x}) = 1
  BY FS_Singleton
<1>2. /\ IsFiniteSet(col) /\ Cardinality(col) = Cardinality({x}) * Cardinality(U)
      /\ Cardinality(R) \in Nat /\ Cardinality(U) \in Nat
  BY <1>1, FS_Product, FS_CardinalityType
<1>3. R \cap col = {}
  OBVIOUS
<1> HIDE DEF col
<1>4. /\ IsFiniteSet(R \cup col)
      /\ Cardinality(R \cup col) = Cardinality(R) + Cardinality(col) - Cardinality(R \cap col)
  BY <1>2, FS_Union
<1>5. Cardinality(R \cap col) = 0
  BY <1>3, FS_EmptySet
<1>6. Cardinality(col) = Cardinality(U)
  BY <1>1, <1>2
<1> QED BY <1>2, <1>4, <1>5, <1>6 DEF col

\* The hits of a batch are finitely many.
LEMMA HitsFinite ==
  ASSUME NEW b \in Seq(Programs), NEW p
  PROVE  IsFiniteSet(HitsIn(b, p)) /\ Cardinality(HitsIn(b, p)) \in Nat /\ 0 \notin HitsIn(b, p)
<1>1. HitsIn(b, p) \in SUBSET Accepted(b)
  BY DEF HitsIn
<1>2. IsFiniteSet(HitsIn(b, p)) /\ 0 \notin HitsIn(b, p)
  BY <1>1, AcceptedFinite, FS_Subset
<1> QED BY <1>2, FS_CardinalityType

LEMMA UncountedFinite ==
  ASSUME TypeInv, NEW t \in Threads, NEW p
  PROVE  IsFiniteSet(Uncounted(t, p)) /\ Cardinality(Uncounted(t, p)) \in Nat
<1>1. batch[t] \in Seq(Programs)
  BY DEF TypeInv, TypeOK
<1>2. pc[t] \in {"bump", "bumpStore"} => left[t] \subseteq Accepted(batch[t])
  BY DEF TypeInv, Control, Loops, AcceptedLabels
<1>3. Uncounted(t, p) \in SUBSET (Accepted(batch[t]) \cup {0})
  BY <1>2 DEF Uncounted, HitsIn
<1>4. IsFiniteSet(Accepted(batch[t]) \cup {0})
  BY <1>1, AcceptedFinite, FS_AddElement
<1>5. IsFiniteSet(Uncounted(t, p))
  BY <1>3, <1>4, FS_Subset
<1> QED BY <1>5, FS_CardinalityType

LEMMA UncountedNext ==
  ASSUME TypeInv', NEW t \in Threads, NEW p
  PROVE  IsFiniteSet(Uncounted(t, p)')
<1>1. batch'[t] \in Seq(Programs) /\ IsFiniteSet(Accepted(batch'[t]) \cup {0})
  BY AcceptedFinite, FS_AddElement DEF TypeInv, TypeOK
<1>2. pc'[t] \in {"bump", "bumpStore"} => left'[t] \subseteq Accepted(batch'[t])
  BY DEF TypeInv, Control, Loops, AcceptedLabels, Accepted
<1>3. Uncounted(t, p)' \in SUBSET (Accepted(batch'[t]) \cup {0})
  BY <1>2 DEF Uncounted, HitsIn, Accepted, Covers
<1> QED BY <1>1, <1>3, FS_Subset

\* The debt is that of one thread and that of the others.
LEMMA OwingSplits ==
  ASSUME NEW p, IsFiniteSet(Owing(p)), NEW t \in Threads
  PROVE  /\ IsFiniteSet(OwingBut(t, p)) /\ \A y \in OwingBut(t, p) : y[1] # t
         /\ Owing(p) = OwingBut(t, p) \cup ({t} \X Uncounted(t, p))
<1>1. Owing(p) = OwingBut(t, p) \cup ({t} \X Uncounted(t, p))
  <2>1. {{u} \X Uncounted(u, p) : u \in Threads} =
          {{u} \X Uncounted(u, p) : u \in Threads \ {t}} \cup {{t} \X Uncounted(t, p)}
    OBVIOUS
  <2> QED BY <2>1 DEF Owing, OwingBut
<1>2. IsFiniteSet(OwingBut(t, p))
  BY <1>1, FS_Subset
<1>3. \A y \in OwingBut(t, p) : y[1] # t
  BY DEF OwingBut
<1> QED BY <1>1, <1>2, <1>3

-----------------------------------------------------------------------------
(* The balance of one request.                                             *)

\* hits[p] and the hits still to count: nothing is counted twice, and nothing
\* is lost unless the VM lost the batch.
SumKept(t, p) ==
  /\ hits[p] <= hits'[p]
  /\ hits'[p] + Cardinality(Uncounted(t, p)') <= hits[p] + Cardinality(Uncounted(t, p))
  /\ Scoring(t)' => /\ Scoring(t)
                    /\ hits'[p] + Cardinality(Uncounted(t, p)') = hits[p] + Cardinality(Uncounted(t, p))

LEMMA SameKept ==
  ASSUME TypeInv, NEW t \in Threads, NEW p \in PCs, UNCHANGED hits,
         Uncounted(t, p)' = Uncounted(t, p), Scoring(t)' => Scoring(t)
  PROVE  SumKept(t, p)
BY UncountedFinite DEF SumKept, TypeInv, TypeOK

\* Before the counting, and after it.
Early == {"vm", "watchdog", "reject", "accept", "decay", "decayStore"} \cup MergeLabels

LEMMA EarlyKept ==
  ASSUME TypeInv, NEW t \in Threads, NEW p \in PCs,
         \/ VmAnswers(t) \/ VmFails(t) \/ WatchdogReturns(t)
         \/ MergeCoverage(t) \/ CompareDepth(t) \/ StoreDepth(t) \/ MergeDone(t)
         \/ PayRejected(t) \/ PayAccepted(t) \/ DecayRead(t) \/ DecayStore(t)
  PROVE  SumKept(t, p)
<1> USE DEF At, Goto, locals
<1>1. pc \in [Threads -> Labels] /\ vmOk \in [Threads -> BOOLEAN]
  BY DEF TypeInv, TypeOK
<1>2. UNCHANGED <<batch, hits>> /\ pc[t] \in Early /\ pc'[t] \in Early /\ (vmOk'[t] => vmOk[t])
  <2> USE DEF Early, MergeLabels
  <2>1. CASE VmAnswers(t) \/ VmFails(t) \/ WatchdogReturns(t)
    BY <1>1, <2>1, AnswersInPlace DEF VmAnswers, VmFails, WatchdogReturns
  <2>2. CASE MergeCoverage(t) \/ CompareDepth(t) \/ StoreDepth(t) \/ MergeDone(t)
    BY <1>1, <2>2 DEF MergeCoverage, CompareDepth, StoreDepth, MergeDone
  <2>3. CASE PayRejected(t) \/ PayAccepted(t)
    BY <1>1, <2>3 DEF PayRejected, PayAccepted
  <2>4. CASE DecayRead(t) \/ DecayStore(t)
    BY <1>1, <2>4 DEF DecayRead, DecayStore, ReadFreq
  <2> QED BY <2>1, <2>2, <2>3, <2>4
<1>3. Uncounted(t, p) = HitsIn(batch[t], p) /\ Uncounted(t, p)' = HitsIn(batch[t], p)
  BY <1>2 DEF Uncounted, AfterCount, Early, MergeLabels, HitsIn, Accepted, Covers
<1>4. Scoring(t)' => Scoring(t)
  BY <1>2 DEF Scoring, Early, MergeLabels
<1> QED BY <1>2, <1>3, <1>4, SameKept

LEMMA LateKept ==
  ASSUME TypeInv, NEW t \in Threads, Orderly(t), NEW p \in PCs,
         \/ BumpDone(t) \/ PublishDepths(t) \/ PublishCounts(t)
         \/ CountRead(t) \/ CountStore(t) \/ CheckCadence(t)
         \/ OpenPcs(t) \/ WritePcs(t) \/ OpenMax(t) \/ WriteMax(t) \/ OpenFreq(t) \/ WriteFreq(t)
         \/ WriteFreqRaises(t) \/ Respond(t)
  PROVE  SumKept(t, p)
<1> USE DEF At, Goto, locals
<1>1. pc \in [Threads -> Labels] /\ vmOk \in [Threads -> BOOLEAN] /\ DOMAIN response = Threads
  BY DEF TypeInv, TypeOK
<1>2. CASE WriteFreqRaises(t) \/ Respond(t)
  <2>1. UNCHANGED hits /\ pc[t] \in AfterCount /\ pc'[t] = "idle"
    BY <1>1, <1>2 DEF WriteFreqRaises, Respond, Return, AfterCount
  <2>2. response'[t] # None => response'[t].vmOk = vmOk[t]
    <3>1. response[t] = None
      BY <2>1 DEF Orderly, AfterCount
    <3> QED BY <1>1, <1>2, <3>1 DEF WriteFreqRaises, Respond
  <2>3. Uncounted(t, p) = {} /\ Uncounted(t, p)' = {}
    BY <2>1 DEF Uncounted
  <2>4. Scoring(t)' => Scoring(t)
    BY <2>1, <2>2 DEF Scoring, AfterCount
  <2> QED BY <2>1, <2>3, <2>4, SameKept
<1>3. CASE ~WriteFreqRaises(t) /\ ~Respond(t)
  <2>1. UNCHANGED <<hits, vmOk>> /\ pc'[t] \in AfterCount
        /\ (pc[t] \in AfterCount \/ (pc[t] = "bump" /\ todo[t] = {} /\ left[t] = {}))
    <3> USE DEF AfterCount
    <3>1. CASE BumpDone(t) \/ PublishDepths(t) \/ PublishCounts(t)
      BY <1>1, <3>1 DEF BumpDone, PublishDepths, PublishCounts
    <3>2. CASE CountRead(t) \/ CountStore(t) \/ CheckCadence(t)
      BY <1>1, <3>2 DEF CountRead, CountStore, CheckCadence
    <3>3. CASE OpenPcs(t) \/ WritePcs(t) \/ OpenMax(t) \/ WriteMax(t) \/ OpenFreq(t) \/ WriteFreq(t)
      BY <1>1, <3>3 DEF OpenPcs, WritePcs, OpenMax, WriteMax, OpenFreq, WriteFreq, OpenFile, WriteFile
    <3> HIDE DEF AfterCount
    <3> QED BY <1>3, <3>1, <3>2, <3>3
  <2>2. Uncounted(t, p) = {} /\ Uncounted(t, p)' = {}
    BY <2>1 DEF Uncounted, AfterCount
  <2>3. Scoring(t)' => Scoring(t)
    BY <2>1 DEF Scoring, AfterCount
  <2> QED BY <2>1, <2>2, <2>3, SameKept
<1> QED BY <1>2, <1>3

\* The ways into the counting, and past it.
LEMMA TurnKept ==
  ASSUME TypeInv, NEW t \in Threads, Orderly(t), NEW p \in PCs,
         RejectedDone(t) \/ AcceptedDone(t) \/ DecayDone(t)
  PROVE  SumKept(t, p)
<1> USE DEF At, Goto, Visit, locals
<1>1. /\ pc \in [Threads -> Labels] /\ left \in [Threads -> SUBSET Nat] /\ todo \in [Threads -> SUBSET PCs]
      /\ batch[t] \in Seq(Programs)
  BY DEF TypeInv, TypeOK
<1>2. UNCHANGED <<batch, hits, vmOk>> /\ pc[t] \in Early
  BY DEF RejectedDone, AcceptedDone, DecayDone, Early
<1>3. Uncounted(t, p) = HitsIn(batch[t], p)
  BY <1>2 DEF Uncounted, AfterCount, Early, MergeLabels
<1>4. CASE pc'[t] \in {"accept", "decay"}
  <2>1. Uncounted(t, p)' = HitsIn(batch[t], p)
    BY <1>2, <1>4 DEF Uncounted, AfterCount, HitsIn, Accepted, Covers
  <2>2. Scoring(t)' => Scoring(t)
    BY <1>2, <1>4 DEF Scoring, Early, MergeLabels
  <2> QED BY <1>2, <1>3, <2>1, <2>2, SameKept
<1>5. CASE pc'[t] = "bump"
  <2>1. left'[t] = Accepted(batch[t]) /\ todo'[t] = {}
    <3>1. CASE AcceptedDone(t)
      BY <1>1, <1>5, <3>1 DEF AcceptedDone, Orderly, CountLabels
    <3>2. CASE DecayDone(t)
      BY <1>1, <3>2 DEF DecayDone, Orderly
    <3> QED BY <1>1, <1>5, <3>1, <3>2 DEF RejectedDone
  <2>2. Uncounted(t, p)' = HitsIn(batch[t], p)
    BY <1>2, <1>5, <2>1 DEF Uncounted, AfterCount, HitsIn, Covers, Accepted
  <2>3. Scoring(t)' => Scoring(t)
    BY <1>2, <1>5 DEF Scoring, Early, MergeLabels
  <2> QED BY <1>2, <1>3, <2>2, <2>3, SameKept
<1>6. CASE pc'[t] = "publish"
  <2>1. vmOk[t] => Accepted(batch[t]) = {}
    BY <1>1, <1>6 DEF RejectedDone, AcceptedDone, DecayDone
  <2>2. Uncounted(t, p)' = {}
    BY <1>6 DEF Uncounted, AfterCount
  <2>3. CASE vmOk[t]
    <3>1. Uncounted(t, p) = {}
      BY <1>3, <2>1, <2>3 DEF HitsIn
    <3>2. Scoring(t)' => Scoring(t)
      BY <1>2, <1>6 DEF Scoring, Early, MergeLabels
    <3> QED BY <1>2, <2>2, <3>1, <3>2, SameKept
  <2>4. CASE ~vmOk[t]
    <3>1. ~Scoring(t)'
      BY <1>2, <1>6, <2>4 DEF Scoring
    <3>2. Cardinality(Uncounted(t, p)') = 0 /\ Cardinality(Uncounted(t, p)) \in Nat /\ hits[p] \in Nat
      BY <2>2, FS_EmptySet, UncountedFinite DEF TypeInv, TypeOK
    <3> QED BY <1>2, <3>1, <3>2 DEF SumKept
  <2> QED BY <2>3, <2>4
<1> QED BY <1>1, <1>4, <1>5, <1>6 DEF RejectedDone, AcceptedDone, DecayDone

\* The counting: a program of left becomes the one being counted, and each of
\* its counters one hit.
LEMMA BumpKept ==
  ASSUME TypeInv, NEW t \in Threads, Orderly(t), NEW p \in PCs,
         BumpProgram(t) \/ BumpRead(t) \/ BumpStore(t)
  PROVE  SumKept(t, p)
<1> USE DEF At, Goto, Visit, Scan
<1> DEFINE b == batch[t]
           Ahead(L) == {i \in L : p \in Covers(b, i)}
<1>1. /\ pc \in [Threads -> Labels] /\ left \in [Threads -> SUBSET Nat] /\ todo \in [Threads -> SUBSET PCs]
      /\ b \in Seq(Programs) /\ hits \in [PCs -> Nat] /\ key \in [Threads -> PCs \cup {None}]
  BY DEF TypeInv, TypeOK
<1>2. /\ pc[t] \in {"bump", "bumpStore"} /\ pc'[t] \in {"bump", "bumpStore"} /\ UNCHANGED <<batch, vmOk>>
  BY <1>1 DEF BumpProgram, BumpRead, BumpStore, ReadFreq
<1>3. Scoring(t)' => Scoring(t)
  BY <1>2 DEF Scoring
<1>4. left[t] \subseteq Accepted(b) /\ 0 \notin left[t]
  <2>1. left[t] \subseteq Accepted(b)
    BY <1>2 DEF TypeInv, Control, Loops, AcceptedLabels
  <2> QED BY <1>1, <2>1 DEF Accepted
<1>5. /\ Uncounted(t, p) = Ahead(left[t]) \cup (IF p \in todo[t] THEN {0} ELSE {})
      /\ Uncounted(t, p)' = Ahead(left'[t]) \cup (IF p \in todo'[t] THEN {0} ELSE {})
  BY <1>2 DEF Uncounted, AfterCount, Covers
<1>6. IsFiniteSet(Uncounted(t, p)) /\ Cardinality(Uncounted(t, p)) \in Nat
  BY UncountedFinite
<1>7. CASE BumpRead(t)
  <2>1. UNCHANGED <<left, todo, hits>>
    BY <1>7 DEF BumpRead, ReadFreq
  <2> QED BY <1>3, <1>5, <2>1, SameKept
<1>8. CASE BumpProgram(t)
  <2>1. PICK i \in left[t] : left'[t] = left[t] \ {i} /\ todo'[t] = Covers(b, i)
    BY <1>1, <1>8 DEF BumpProgram
  <2>2. todo[t] = {} /\ UNCHANGED hits
    BY <1>8 DEF BumpProgram
  <2>3. CASE p \notin Covers(b, i)
    <3>1. Uncounted(t, p)' = Uncounted(t, p)
      BY <1>5, <2>1, <2>2, <2>3
    <3> QED BY <1>3, <2>2, <3>1, SameKept
  <2>4. CASE p \in Covers(b, i)
    <3> DEFINE A == Ahead(left[t] \ {i})
    <3>1. Uncounted(t, p) = A \cup {i} /\ Uncounted(t, p)' = A \cup {0} /\ i \notin A /\ 0 \notin A
      BY <1>4, <1>5, <2>1, <2>2, <2>4
    <3>2. IsFiniteSet(A)
      BY <1>6, <3>1, FS_Subset
    <3> HIDE DEF A
    <3>3. Cardinality(A \cup {i}) = Cardinality(A) + 1 /\ Cardinality(A \cup {0}) = Cardinality(A) + 1
      BY <3>1, <3>2, FS_AddElement
    <3>4. Cardinality(Uncounted(t, p)') = Cardinality(Uncounted(t, p))
      BY <3>1, <3>3
    <3> QED BY <1>1, <1>3, <1>6, <2>2, <3>4 DEF SumKept
  <2> QED BY <2>3, <2>4
<1>9. CASE BumpStore(t)
  <2>1. PICK k \in PCs : k = key[t]
    BY <1>1, <1>9 DEF BumpStore, Orderly
  <2>2. /\ k \in todo[t] /\ todo'[t] = todo[t] \ {k} /\ left' = left
        /\ hits' = [hits EXCEPT ![k] = @ + 1]
    BY <1>1, <1>9, <2>1 DEF BumpStore, Orderly
  <2>3. CASE p # k
    <3>1. Uncounted(t, p)' = Uncounted(t, p)
      BY <1>5, <2>2, <2>3
    <3> QED BY <1>1, <1>3, <1>6, <2>2, <2>3, <3>1 DEF SumKept
  <2>4. CASE p = k
    <3> DEFINE A == Ahead(left[t])
    <3>1. Uncounted(t, p) = A \cup {0} /\ Uncounted(t, p)' = A /\ 0 \notin A
      BY <1>4, <1>5, <2>2, <2>4
    <3>2. IsFiniteSet(A)
      BY <1>6, <3>1, FS_Subset
    <3> HIDE DEF A
    <3>3. Cardinality(Uncounted(t, p)) = Cardinality(Uncounted(t, p)') + 1
          /\ Cardinality(Uncounted(t, p)') \in Nat
      BY <3>1, <3>2, FS_AddElement, FS_CardinalityType
    <3>4. hits'[p] = hits[p] + 1 /\ hits[p] \in Nat
      BY <1>1, <2>2, <2>4
    <3> QED BY <1>3, <3>3, <3>4 DEF SumKept
  <2> QED BY <2>3, <2>4
<1> QED BY <1>7, <1>8, <1>9

LEMMA StepKept ==
  ASSUME TypeInv, NEW t \in Threads, Orderly(t), NEW p \in PCs, Compute(t)
  PROVE  SumKept(t, p)
BY EarlyKept, LateKept, TurnKept, BumpKept DEF Compute

LEMMA StepOrderly ==
  ASSUME TypeInv, NEW t \in Threads, Orderly(t), Compute(t)
  PROVE  Orderly(t)'
<1> USE DEF At, Goto, Visit, Scan, Consume, locals
<1>1. /\ pc \in [Threads -> Labels] /\ vmOk \in [Threads -> BOOLEAN] /\ left \in [Threads -> SUBSET Nat]
      /\ todo \in [Threads -> SUBSET PCs] /\ key \in [Threads -> PCs \cup {None}]
      /\ batch \in [Threads -> Seq(Programs)]
  BY DEF TypeInv, TypeOK
<1>2. CASE WriteFreqRaises(t) \/ Respond(t)
  <2>1. pc'[t] = "idle" /\ todo'[t] = {}
    BY <1>1, <1>2 DEF WriteFreqRaises, Respond, Return
  <2> QED BY <2>1 DEF Orderly, CountLabels
<1>3. ASSUME UNCHANGED <<batch, response>>, pc[t] # "idle",
             pc'[t] \in {"accept"} \cup CountLabels => vmOk'[t],
             pc'[t] \in {"decay", "decayStore"} => left'[t] = Accepted(batch[t]),
             pc'[t] = "bumpStore" => key'[t] \in todo'[t],
             pc'[t] \notin CountLabels \cup {"writeFreq"} => todo'[t] = {}
      PROVE  Orderly(t)'
  BY <1>3 DEF Orderly, Accepted
<1>4. CASE VmAnswers(t) \/ VmFails(t) \/ WatchdogReturns(t)
  <2>1. /\ UNCHANGED <<batch, response, todo>>
        /\ pc[t] \in {"vm", "watchdog"} /\ pc'[t] \in {"merge", "watchdog", "reject"}
    BY <1>1, <1>4, AnswersInPlace DEF VmAnswers, VmFails, WatchdogReturns
  <2> QED BY <1>3, <2>1 DEF Orderly, CountLabels
<1>5. CASE MergeCoverage(t) \/ CompareDepth(t) \/ StoreDepth(t) \/ MergeDone(t) \/ PayRejected(t)
  <2>1. /\ UNCHANGED <<batch, response, todo>>
        /\ pc[t] \in MergeLabels \cup {"reject"} /\ pc'[t] \in MergeLabels \cup {"reject"}
    BY <1>1, <1>5 DEF MergeCoverage, CompareDepth, StoreDepth, MergeDone, PayRejected, MergeLabels
  <2> QED BY <1>3, <2>1 DEF Orderly, CountLabels, MergeLabels
<1>6. CASE RejectedDone(t)
  <2>1. /\ UNCHANGED <<batch, response, todo, vmOk>> /\ pc[t] = "reject"
        /\ pc'[t] = "publish" \/ (pc'[t] = "accept" /\ vmOk[t])
    BY <1>1, <1>6 DEF RejectedDone
  <2> QED BY <1>3, <2>1 DEF Orderly, CountLabels
<1>7. CASE PayAccepted(t)
  <2>1. UNCHANGED <<batch, response, todo, vmOk, pc>> /\ pc[t] = "accept"
    BY <1>1, <1>7 DEF PayAccepted
  <2> QED BY <1>3, <2>1 DEF Orderly, CountLabels
<1>8. CASE AcceptedDone(t)
  <2>1. /\ UNCHANGED <<batch, response, vmOk>> /\ pc[t] = "accept"
        /\ pc'[t] \in {"decay", "bump"} /\ left'[t] = Accepted(batch[t])
    BY <1>1, <1>8 DEF AcceptedDone
  <2> QED BY <1>3, <2>1 DEF Orderly, CountLabels
<1>9. CASE DecayRead(t) \/ DecayStore(t) \/ DecayDone(t)
  <2>1. /\ UNCHANGED <<batch, response, vmOk, left>> /\ pc[t] \in {"decay", "decayStore"}
        /\ pc'[t] \in {"decay", "decayStore", "bump"}
    BY <1>1, <1>9 DEF DecayRead, DecayStore, DecayDone, ReadFreq
  <2> QED BY <1>3, <2>1 DEF Orderly, CountLabels
<1>10. CASE BumpProgram(t) \/ BumpRead(t) \/ BumpStore(t) \/ BumpDone(t)
  <2>1. /\ UNCHANGED <<batch, response, vmOk>> /\ pc[t] \in {"bump", "bumpStore"}
        /\ pc'[t] \in {"bump", "bumpStore", "publish"}
        /\ pc'[t] = "bumpStore" => key'[t] \in todo'[t]
        /\ pc'[t] = "publish" => todo'[t] = {}
    BY <1>1, <1>10 DEF BumpProgram, BumpRead, BumpStore, BumpDone, ReadFreq
  <2> QED BY <1>3, <2>1 DEF Orderly, CountLabels
<1>11. CASE PublishDepths(t) \/ PublishCounts(t) \/ CountRead(t) \/ CountStore(t) \/ CheckCadence(t)
  <2>1. /\ UNCHANGED <<batch, response, todo>>
        /\ pc[t] \in {"publish", "publishCounts", "count", "countStore", "cadence"}
        /\ pc'[t] \in {"publishCounts", "count", "countStore", "cadence", "savePcs", "respond"}
    BY <1>1, <1>11 DEF PublishDepths, PublishCounts, CountRead, CountStore, CheckCadence
  <2> QED BY <1>3, <2>1 DEF Orderly, CountLabels
<1>12. CASE OpenPcs(t) \/ WritePcs(t) \/ OpenMax(t) \/ WriteMax(t) \/ OpenFreq(t) \/ WriteFreq(t)
  <2>1. /\ UNCHANGED <<batch, response>> /\ pc[t] \in AfterCount
        /\ pc'[t] \in {"writePcs", "saveMax", "writeMax", "saveFreq", "writeFreq", "respond"}
        /\ pc'[t] # "writeFreq" =>
             (todo'[t] = {} \/ (todo' = todo /\ pc[t] \notin CountLabels \cup {"writeFreq"}))
    BY <1>1, <1>12 DEF OpenPcs, WritePcs, OpenMax, WriteMax, OpenFreq, WriteFreq, OpenFile, WriteFile,
           AfterCount, CountLabels
  <2> QED BY <1>3, <2>1 DEF Orderly, CountLabels, AfterCount
<1> QED BY <1>2, <1>4, <1>5, <1>6, <1>7, <1>8, <1>9, <1>10, <1>11, <1>12 DEF Compute

LEMMA EnterOrderly ==
  ASSUME TypeInv, NEW t \in Threads, Orderly(t), NEW b \in Batches, Receive(t, b)
  PROVE  Orderly(t)'
<1>1. /\ pc[t] = "idle" /\ pc'[t] \in {"reject", "vm"} /\ batch'[t] = b /\ response'[t] = None
      /\ todo' = todo
  BY DEF Receive, At, Goto, TypeInv, TypeOK
<1> QED BY <1>1 DEF Orderly, CountLabels

LEMMA OthersOrderly ==
  ASSUME TypeInv, NEW t \in Threads, Compute(t) \/ \E b \in Batches : Receive(t, b),
         NEW u \in Threads, u # t
  PROVE  /\ Orderly(u) => Orderly(u)'
         /\ \A p : Uncounted(u, p)' = Uncounted(u, p)
         /\ Scoring(u)' = Scoring(u)
<1>1. /\ pc'[u] = pc[u] /\ batch'[u] = batch[u] /\ vmOk'[u] = vmOk[u]
      /\ left'[u] = left[u] /\ todo'[u] = todo[u] /\ key'[u] = key[u]
      /\ response'[u] = response[u]
  BY OthersKeep, OthersAnswer
<1> QED BY <1>1 DEF Orderly, Uncounted, Scoring, HitsIn, Accepted, Covers

\* A step of a request leaves what the other threads have still to count.
LEMMA OwingMoves ==
  ASSUME TypeInv, TypeInv', NEW t \in Threads, Compute(t) \/ \E b \in Batches : Receive(t, b),
         NEW p, IsFiniteSet(Owing(p))
  PROVE  \E n \in Nat :
           /\ Cardinality(Owing(p)) = n + Cardinality(Uncounted(t, p))
           /\ IsFiniteSet(Owing(p)') /\ Cardinality(Owing(p)') = n + Cardinality(Uncounted(t, p)')
<1> DEFINE R == OwingBut(t, p)
<1>1. IsFiniteSet(R) /\ (\A y \in R : y[1] # t) /\ Owing(p) = R \cup ({t} \X Uncounted(t, p))
  BY OwingSplits
<1>2. Owing(p)' = R \cup ({t} \X Uncounted(t, p)')
  <2>1. \A u \in Threads \ {t} : Uncounted(u, p)' = Uncounted(u, p)
    BY OthersOrderly
  <2>2. Owing(p)' = UNION {{u} \X Uncounted(u, p)' : u \in Threads}
    BY DEF Owing
  <2>3. {{u} \X Uncounted(u, p)' : u \in Threads} =
          {{u} \X Uncounted(u, p) : u \in Threads \ {t}} \cup {{t} \X Uncounted(t, p)'}
    BY <2>1
  <2> QED BY <2>2, <2>3 DEF OwingBut
<1>3. IsFiniteSet(Uncounted(t, p)) /\ IsFiniteSet(Uncounted(t, p)')
  BY UncountedFinite, UncountedNext
<1> HIDE DEF R
<1>4. ASSUME NEW U, IsFiniteSet(U)
      PROVE  /\ IsFiniteSet(R \cup ({t} \X U)) /\ Cardinality(R) \in Nat
             /\ Cardinality(R \cup ({t} \X U)) = Cardinality(R) + Cardinality(U)
  BY <1>1, <1>4, AddColumn
<1>5. Cardinality(R) \in Nat /\ Cardinality(Owing(p)) = Cardinality(R) + Cardinality(Uncounted(t, p))
  BY <1>1, <1>3, <1>4
<1>6. IsFiniteSet(Owing(p)') /\ Cardinality(Owing(p)') = Cardinality(R) + Cardinality(Uncounted(t, p)')
  BY <1>2, <1>3, <1>4
<1> QED BY <1>5, <1>6

-----------------------------------------------------------------------------
(* The balance of all the requests.                                        *)

LEMMA BalanceTyped ==
  ASSUME TypeInv, Client, Balance, NEW p \in PCs
  PROVE  /\ hits[p] \in Nat /\ tries \in Nat /\ Sent \in Nat /\ MaxTries \in Nat
         /\ Cardinality(StepHits(p)) \in Nat /\ Cardinality(Owing(p)) \in Nat
         /\ MaxTries * Cardinality(StepHits(p)) \in Nat
         /\ IsFiniteSet(Learnt(p)) /\ Cardinality(Learnt(p)) \in Nat
         /\ client # "sampling" =>
              /\ IsFiniteSet(HitsIn(prompt, p)) /\ Cardinality(HitsIn(prompt, p)) \in Nat
              /\ Sent * Cardinality(HitsIn(prompt, p)) \in Nat
         /\ Tried(p) \in Nat
<1>1. hits[p] \in Nat /\ tries \in Nat /\ Sent \in Nat /\ MaxTries \in Nat
  BY ClientAssumption DEF TypeInv, TypeOK, Balance, InTime, Sent
<1>2. IsFiniteSet(StepHits(p)) /\ IsFiniteSet(Owing(p))
  BY DEF Balance, Books
<1>3. Cardinality(StepHits(p)) \in Nat /\ Cardinality(Owing(p)) \in Nat
  BY <1>2, FS_CardinalityType
<1>4. MaxTries * Cardinality(StepHits(p)) \in Nat
  BY <1>1, <1>3
<1>5. IsFiniteSet(Learnt(p)) /\ Cardinality(Learnt(p)) \in Nat
  <2>1. Learnt(p) \in SUBSET StepHits(p)
    BY DEF Learnt
  <2>2. IsFiniteSet(Learnt(p))
    BY <1>2, <2>1, FS_Subset
  <2> QED BY <2>2, FS_CardinalityType
<1>6. client # "sampling" =>
        /\ IsFiniteSet(HitsIn(prompt, p)) /\ Cardinality(HitsIn(prompt, p)) \in Nat
        /\ Sent * Cardinality(HitsIn(prompt, p)) \in Nat
  <2>1. client # "sampling" => prompt \in Seq(Programs)
    BY ServerAssumption DEF Client, Trail
  <2>2. client # "sampling" => IsFiniteSet(HitsIn(prompt, p)) /\ Cardinality(HitsIn(prompt, p)) \in Nat
    BY <2>1, HitsFinite
  <2> QED BY <1>1, <2>2
<1>7. Tried(p) \in Nat
  BY <1>6 DEF Tried
<1> QED BY <1>1, <1>3, <1>4, <1>5, <1>6, <1>7

\* What is saved of the increments was executed.
LEMMA StepSaves ==
  ASSUME NEW t \in Threads, Compute(t)
  PROVE  UNCHANGED <<up, crashes>> /\ (savedHits' = savedHits \/ savedHits' = hits)
<1>1. CASE WriteFreq(t)
  BY <1>1 DEF WriteFreq, WriteFile
<1>2. CASE ~WriteFreq(t)
  BY <1>2 DEF Compute, VmAnswers, VmFails, WatchdogReturns, MergeCoverage, CompareDepth, StoreDepth,
       MergeDone, PayRejected, RejectedDone, PayAccepted, AcceptedDone,
       DecayRead, DecayStore, DecayDone, BumpProgram, BumpRead, BumpStore, BumpDone, ReadFreq,
       PublishDepths, PublishCounts, CountRead, CountStore, CheckCadence, OpenFile, WriteFile,
       OpenPcs, WritePcs, OpenMax, WriteMax, OpenFreq, WriteFreqRaises, Respond, process
<1> QED BY <1>1, <1>2

\* A step of a request.
LEMMA ComputeBooks ==
  ASSUME TypeInv, TypeInv', Client, Balance, NEW t \in Threads, Compute(t), UNCHANGED clientVars,
         NEW p \in PCs
  PROVE  Books(p)'
<1>1. UNCHANGED <<client, prompt, tries, serving, learned>>
  BY DEF clientVars
<1>2. /\ StepHits(p)' = StepHits(p) /\ Learnt(p)' = Learnt(p)
      /\ HitsIn(prompt, p)' = HitsIn(prompt, p) /\ Tried(p)' = Tried(p)
  BY <1>1 DEF StepHits, Learnt, HitsIn, Tried, Sent, Accepted, Covers
<1>3. Books(p) /\ Orderly(t)
  BY DEF Balance
<1>4. SumKept(t, p)
  BY <1>3, StepKept
<1>5. PICK n \in Nat :
        /\ Cardinality(Owing(p)) = n + Cardinality(Uncounted(t, p))
        /\ IsFiniteSet(Owing(p)') /\ Cardinality(Owing(p)') = n + Cardinality(Uncounted(t, p)')
  BY <1>3, OwingMoves DEF Books
<1>6. /\ Cardinality(Uncounted(t, p)) \in Nat /\ Cardinality(Uncounted(t, p)') \in Nat
      /\ hits[p] \in Nat /\ hits'[p] \in Nat
  <2>1. batch'[t] \in Seq(Programs) /\ hits'[p] \in Nat
    BY DEF TypeInv, TypeOK
  <2>2. IsFiniteSet(Uncounted(t, p)')
    BY UncountedNext
  <2> QED BY <2>1, <2>2, UncountedFinite, BalanceTyped, FS_CardinalityType
<1>7. NoMore(p)'
  <2> DEFINE budget == MaxTries * Cardinality(StepHits(p)) + Tried(p)
  <2>1. budget \in Nat /\ hits[p] + Cardinality(Owing(p)) <= budget
    BY <1>3, BalanceTyped DEF Books, NoMore
  <2>2. hits'[p] + Cardinality(Owing(p)') <= hits[p] + Cardinality(Owing(p))
    BY <1>4, <1>5, <1>6 DEF SumKept
  <2>3. (MaxTries * Cardinality(StepHits(p)) + Tried(p))' = budget
    BY <1>2
  <2> HIDE DEF budget
  <2>4. hits'[p] + Cardinality(Owing(p)') <= budget
    BY <1>5, <1>6, <2>1, <2>2
  <2> QED BY <2>3, <2>4 DEF NoMore
<1>8. ASSUME crashes = 0 PROVE NoLess(p)'
  <2>1. Cardinality(Learnt(p)) \in Nat /\ Cardinality(Learnt(p)) <= hits'[p]
    BY <1>3, <1>4, <1>6, <1>8, BalanceTyped DEF Books, NoLess, SumKept
  <2>2. ASSUME NEW s \in Threads, s = serving, serving # None, Scoring(s)'
        PROVE  Cardinality(Learnt(p)) + Cardinality(HitsIn(prompt, p))
                 <= hits'[p] + Cardinality(Uncounted(s, p)')
    <3>1. client = "waiting" /\ Cardinality(HitsIn(prompt, p)) \in Nat
      BY <2>2, BalanceTyped DEF Client, Attempt
    <3>2. Cardinality(Uncounted(s, p)) \in Nat /\ Cardinality(Uncounted(s, p)') \in Nat
      <4>1. IsFiniteSet(Uncounted(s, p)')
        BY UncountedNext
      <4> QED BY <4>1, UncountedFinite, FS_CardinalityType
    <3>3. /\ Scoring(s)
          /\ hits[p] + Cardinality(Uncounted(s, p)) <= hits'[p] + Cardinality(Uncounted(s, p)')
      <4>1. CASE s = t
        BY <1>4, <1>6, <2>2, <4>1 DEF SumKept
      <4>2. CASE s # t
        <5>1. Scoring(s) /\ Uncounted(s, p)' = Uncounted(s, p)
          BY <2>2, <4>2, OthersOrderly
        <5> QED BY <1>4, <1>6, <3>2, <5>1 DEF SumKept
      <4> QED BY <4>1, <4>2
    <3>4. Cardinality(Learnt(p)) + Cardinality(HitsIn(prompt, p)) <= hits[p] + Cardinality(Uncounted(s, p))
      BY <1>3, <1>8, <2>2, <3>3 DEF Books, NoLess
    <3> QED BY <1>6, <2>1, <3>1, <3>2, <3>3, <3>4
  <2>3. serving # None => serving \in Threads
    BY DEF Client, Attempt
  <2>4. (/\ Cardinality(Learnt(p)) <= hits[p]
         /\ \A s \in Threads : s = serving /\ serving # None /\ Scoring(s) =>
              Cardinality(Learnt(p)) + Cardinality(HitsIn(prompt, p)) <= hits[p] + Cardinality(Uncounted(s, p)))'
    BY <1>1, <1>2, <2>1, <2>2
  <2> QED BY <1>1, <2>3, <2>4 DEF NoLess
<1>9. savedHits'[p] <= hits'[p]
  <2>1. savedHits[p] \in Nat /\ savedHits[p] <= hits[p] /\ hits[p] <= hits'[p]
    BY <1>3, <1>4 DEF Books, SumKept, TypeInv, TypeOK
  <2> QED BY <1>6, <2>1, StepSaves
<1>10. crashes' = crashes
  BY StepSaves
<1> QED BY <1>2, <1>3, <1>5, <1>7, <1>8, <1>9, <1>10 DEF Books

\* What is counted depends on the control of the requests only.
LEMMA StillOwing ==
  ASSUME UNCHANGED <<pc, locals, response>>, NEW p
  PROVE  /\ Owing(p)' = Owing(p)
         /\ \A t \in Threads : Uncounted(t, p)' = Uncounted(t, p) /\ Scoring(t)' = Scoring(t)
         /\ \A t \in Threads : Orderly(t) => Orderly(t)'
<1>1. UNCHANGED <<pc, batch, vmOk, left, todo, key, response>>
  BY DEF locals
<1>2. \A t \in Threads : Uncounted(t, p)' = Uncounted(t, p)
  BY <1>1 DEF Uncounted, HitsIn, Accepted, Covers
<1>3. Owing(p)' = Owing(p)
  BY <1>2 DEF Owing
<1>4. \A t \in Threads : (Scoring(t)' = Scoring(t)) /\ (Orderly(t) => Orderly(t)')
  BY <1>1 DEF Scoring, Orderly, Accepted
<1> QED BY <1>2, <1>3, <1>4

\* A crash writes off what was not counted, the restart what was not saved.
LEMMA ProcessBalance ==
  ASSUME TypeInv, Client, Balance, Crash \/ Restart, UNCHANGED clientVars
  PROVE  Balance'
<1>1. UNCHANGED <<client, prompt, tries, learned>> /\ UNCHANGED <<savedHits, response>>
  BY DEF clientVars, Crash, Restart
<1>2. crashes' \in Nat \ {0} /\ Steady'
  BY DEF Crash, Restart, Balance, Steady
<1>3. InTime'
  BY <1>1 DEF Balance, InTime, Sent
<1>4. \A t \in Threads : Orderly(t)'
  <2>1. CASE Crash
    BY <2>1 DEF Crash, Orderly, CountLabels
  <2>2. CASE Restart
    <3>1. UNCHANGED <<pc, locals, response>>
      BY <2>2 DEF Restart
    <3> QED BY <3>1, StillOwing DEF Balance
  <2> QED BY <2>1, <2>2
<1>5. ASSUME NEW p \in PCs PROVE Books(p)'
  <2>1. Books(p) /\ savedHits[p] \in Nat /\ hits[p] \in Nat
    BY DEF Balance, TypeInv, TypeOK
  <2>2. /\ IsFiniteSet(Owing(p)') /\ Cardinality(Owing(p)') \in Nat
        /\ Cardinality(Owing(p)') <= Cardinality(Owing(p))
    <3>1. CASE Crash
      <4>1. Owing(p)' = {}
        BY <3>1 DEF Crash, Owing, Uncounted
      <4> QED BY <4>1, FS_EmptySet, BalanceTyped
    <3>2. CASE Restart
      <4>1. Owing(p)' = Owing(p)
        <5>1. UNCHANGED <<pc, locals, response>>
          BY <3>2 DEF Restart
        <5> QED BY <5>1, StillOwing
      <4> QED BY <2>1, <4>1, BalanceTyped DEF Books
    <3> QED BY <3>1, <3>2
  <2>3. hits'[p] \in Nat /\ hits'[p] <= hits[p] /\ savedHits[p] <= hits'[p]
    BY <2>1 DEF Crash, Restart, Books
  <2>4. StepHits(p)' = StepHits(p) /\ Tried(p)' = Tried(p)
    BY <1>1 DEF StepHits, Tried, Sent, HitsIn, Accepted, Covers
  <2>5. NoMore(p)'
    BY <2>1, <2>2, <2>3, <2>4, BalanceTyped DEF Books, NoMore
  <2> QED BY <1>1, <1>2, <2>1, <2>2, <2>3, <2>4, <2>5 DEF Books
<1> QED BY <1>2, <1>3, <1>4, <1>5 DEF Balance

LEMMA ServerBalance ==
  ASSUME TypeInv, TypeInv', Client, Balance, ServerStep
  PROVE  Balance'
<1>1. UNCHANGED clientVars
  BY DEF ServerStep
<1>2. ASSUME NEW t \in Threads, Compute(t) PROVE Balance'
  <2>1. Steady' /\ InTime'
    BY <1>1, <1>2, StepSaves DEF Balance, Steady, InTime, Sent, clientVars
  <2>2. \A u \in Threads : Orderly(u)'
    BY <1>2, StepOrderly, OthersOrderly DEF Balance
  <2>3. \A p \in PCs : Books(p)'
    BY <1>1, <1>2, ComputeBooks
  <2> QED BY <2>1, <2>2, <2>3 DEF Balance
<1> QED BY <1>1, <1>2, ProcessBalance DEF ServerStep

\* A step of the trainer alone.
LEMMA StillBooks ==
  ASSUME UNCHANGED vars, NEW p
  PROVE  /\ UNCHANGED <<up, crashes, hits, savedHits>> /\ Owing(p)' = Owing(p)
         /\ \A t \in Threads : Uncounted(t, p)' = Uncounted(t, p) /\ Scoring(t)' = Scoring(t)
         /\ \A t \in Threads : Orderly(t) => Orderly(t)'
<1>1. UNCHANGED <<pc, locals, response>> /\ UNCHANGED <<up, crashes, hits, savedHits>>
  BY DEF vars, process
<1> QED BY <1>1, StillOwing

\* The trainer samples, loses a request, or gives an attempt up.
LEMMA WaitBalance ==
  ASSUME TypeInv, Client, Balance, (\E b \in Batches : Sample(b)) \/ PostLost \/ AttemptFails
  PROVE  Balance'
<1>1. UNCHANGED <<vars, learned>> /\ serving' = None
  BY DEF Sample, PostLost, AttemptFails, Client, Attempt
<1>2. Steady' /\ \A t \in Threads : Orderly(t)'
  BY <1>1, StillBooks DEF Balance, Steady, vars, process
<1>3. InTime'
  <2>1. CASE \E b \in Batches : Sample(b)
    BY <2>1, ClientAssumption DEF Sample, Balance, InTime, Sent
  <2>2. CASE PostLost
    BY <2>2, ClientAssumption DEF PostLost, Balance, InTime, Sent
  <2>3. CASE AttemptFails
    BY <2>3, ClientAssumption DEF AttemptFails, Balance, InTime, Sent
  <2> QED BY <2>1, <2>2, <2>3
<1>4. ASSUME NEW p \in PCs PROVE Books(p)'
  <2>1. /\ UNCHANGED <<crashes, hits, savedHits>> /\ Owing(p)' = Owing(p)
        /\ StepHits(p)' = StepHits(p) /\ Learnt(p)' = Learnt(p)
    BY <1>1, StillBooks DEF StepHits, Learnt, HitsIn, Accepted, Covers
  <2>2. Tried(p) \in Nat /\ Tried(p)' \in Nat /\ Tried(p) <= Tried(p)'
    <3> DEFINE n == Cardinality(HitsIn(prompt, p))
    <3>1. CASE \E b \in Batches : Sample(b)
      <4>1. PICK b \in Batches : client = "sampling" /\ client' = "posting" /\ prompt' = b /\ tries' = 0
        BY <3>1 DEF Sample
      <4>2. Tried(p) = 0 /\ Tried(p)' = 0 * Cardinality(HitsIn(b, p))
        BY <4>1 DEF Tried, Sent, HitsIn, Accepted, Covers
      <4>3. Cardinality(HitsIn(b, p)) \in Nat
        BY HitsFinite, ServerAssumption
      <4> QED BY <4>2, <4>3
    <3>2. CASE PostLost
      <4>1. client = "posting" /\ client' = "waiting" /\ UNCHANGED <<prompt, tries>>
        BY <3>2 DEF PostLost
      <4>2. Tried(p) = tries * n /\ Tried(p)' = (tries + 1) * n /\ n \in Nat /\ tries \in Nat
        BY <4>1, BalanceTyped DEF Tried, Sent, HitsIn, Accepted, Covers
      <4> HIDE DEF n
      <4> QED BY <4>2
    <3>3. CASE AttemptFails
      <4>1. /\ client = "waiting" /\ client' \in {"posting", "failed"} /\ prompt' = prompt
            /\ tries' = tries + 1
        BY <3>3 DEF AttemptFails
      <4>2. Tried(p) = (tries + 1) * n /\ Tried(p)' = (tries + 1) * n
        BY <4>1 DEF Tried, Sent, HitsIn, Accepted, Covers
      <4> QED BY <4>2, BalanceTyped
    <3> QED BY <3>1, <3>2, <3>3
  <2>3. Books(p)
    BY DEF Balance
  <2>4. NoMore(p)'
    BY <2>1, <2>2, <2>3, BalanceTyped DEF Books, NoMore
  <2>5. crashes = 0 => NoLess(p)'
    BY <1>1, <2>1, <2>3 DEF Books, NoLess
  <2> QED BY <2>1, <2>3, <2>4, <2>5 DEF Books
<1> QED BY <1>2, <1>3, <1>4 DEF Balance

\* A new attempt adds the hits of its batch to the balance.
LEMMA PostBalance ==
  ASSUME TypeInv, TypeInv', Client, Balance, NEW t \in Threads, Post(t)
  PROVE  Balance'
<1>1. /\ client = "posting" /\ Receive(t, prompt) /\ client' = "waiting" /\ serving' = t
      /\ UNCHANGED <<prompt, tries, learned>> /\ prompt \in Batches
  BY DEF Post, Client, Trail
<1>2. /\ UNCHANGED <<hits, savedHits, up, crashes>> /\ pc[t] = "idle" /\ batch'[t] = prompt
      /\ pc'[t] \in {"vm", "reject"}
  BY <1>1 DEF Receive, At, Goto, process, TypeInv, TypeOK
<1>3. Steady'
  BY <1>2 DEF Balance, Steady
<1>4. InTime'
  BY <1>1, ClientAssumption DEF Balance, InTime, Sent
<1>5. \A u \in Threads : Orderly(u)'
  BY <1>1, EnterOrderly, OthersOrderly DEF Balance
<1>6. ASSUME NEW p \in PCs PROVE Books(p)'
  <2> DEFINE n == Cardinality(HitsIn(prompt, p))
  <2>1. /\ StepHits(p)' = StepHits(p) /\ Learnt(p)' = Learnt(p)
        /\ HitsIn(prompt, p)' = HitsIn(prompt, p)
    BY <1>1 DEF StepHits, Learnt, HitsIn, Accepted, Covers
  <2>2. Uncounted(t, p) = {} /\ Uncounted(t, p)' = HitsIn(prompt, p)
    BY <1>2 DEF Uncounted, AfterCount, HitsIn, Accepted, Covers
  <2>3. Books(p)
    BY DEF Balance
  <2>4. /\ n \in Nat /\ tries \in Nat /\ hits[p] \in Nat
        /\ MaxTries * Cardinality(StepHits(p)) \in Nat
        /\ Cardinality(Learnt(p)) \in Nat
    BY <1>1, BalanceTyped
  <2>5. IsFiniteSet(Owing(p)') /\ Cardinality(Owing(p)') = Cardinality(Owing(p)) + n
        /\ Cardinality(Owing(p)) \in Nat
    <3>1. PICK k \in Nat :
            /\ Cardinality(Owing(p)) = k + Cardinality(Uncounted(t, p))
            /\ IsFiniteSet(Owing(p)') /\ Cardinality(Owing(p)') = k + Cardinality(Uncounted(t, p)')
      BY <1>1, <2>3, OwingMoves DEF Books
    <3>2. Cardinality(Owing(p)) = k
      BY <2>2, <3>1, FS_EmptySet
    <3> QED BY <2>2, <3>1, <3>2
  <2>6. NoMore(p)'
    <3>1. Tried(p) = tries * n /\ Tried(p)' = (tries + 1) * n
      BY <1>1, <2>1 DEF Tried, Sent
    <3>2. hits[p] + Cardinality(Owing(p)) <= MaxTries * Cardinality(StepHits(p)) + tries * n
      BY <2>3, <3>1 DEF Books, NoMore
    <3> HIDE DEF n
    <3>3. (tries + 1) * n = tries * n + n /\ tries * n \in Nat
      BY <2>4
    <3>4. hits[p] + Cardinality(Owing(p)') <= MaxTries * Cardinality(StepHits(p)) + (tries + 1) * n
      BY <2>4, <2>5, <3>2, <3>3
    <3> QED BY <1>2, <2>1, <3>1, <3>4 DEF NoMore
  <2>7. ASSUME crashes = 0 PROVE NoLess(p)'
    <3>1. Cardinality(Learnt(p)) <= hits[p]
      BY <2>3, <2>7 DEF Books, NoLess
    <3>2. Cardinality(Learnt(p)) + n <= hits[p] + n
      BY <2>4, <3>1
    <3>3. Uncounted(serving, p)' = HitsIn(prompt, p)
      BY <1>1, <1>2 DEF Uncounted, AfterCount, HitsIn, Accepted, Covers
    <3> QED BY <1>2, <2>1, <3>1, <3>2, <3>3 DEF NoLess
  <2> QED BY <1>2, <2>1, <2>3, <2>5, <2>6, <2>7 DEF Books
<1> QED BY <1>3, <1>4, <1>5, <1>6 DEF Balance

\* The step that is done adds its hits to those of the steps before.
LEMMA TakeBalance ==
  ASSUME TypeInv, Lost, Client, Balance, TakeAnswer
  PROVE  Balance'
<1>1. /\ client = "waiting" /\ client' = "sampling" /\ serving' = None
      /\ learned' = Append(learned, response[serving]) /\ UNCHANGED <<vars, prompt, tries>>
      /\ serving # None /\ serving \in Threads /\ pc[serving] = "idle" /\ response[serving] # None
  BY DEF TakeAnswer, Answered, Client, Attempt
<1>2. Steady' /\ \A t \in Threads : Orderly(t)'
  BY <1>1, StillBooks DEF Balance, Steady, vars, process
<1>3. InTime'
  BY <1>1 DEF Balance, InTime
<1>4. PICK r : r = response[serving] /\ r # None /\ r.batch = prompt /\ r.vmOk \in BOOLEAN
  BY <1>1 DEF Client, Attempt, Lost, Typed
<1>5. PICK n \in Nat :
        /\ DOMAIN learned = 1 .. n /\ DOMAIN learned' = 1 .. (n + 1)
        /\ \A m \in 1 .. n : learned'[m] = learned[m]
        /\ learned'[n + 1] = r
  <2>1. PICK S : learned \in Seq(S)
    BY DEF Client, Trail
  <2>2. learned \in Seq(S \cup {r}) /\ r \in S \cup {r}
    BY <2>1
  <2>3. /\ learned' \in Seq(S \cup {r}) /\ Len(learned') = Len(learned) + 1 /\ Len(learned) \in Nat
        /\ learned'[Len(learned) + 1] = r /\ \A m \in 1 .. Len(learned) : learned'[m] = learned[m]
    BY <1>1, <1>4, <2>2
  <2> QED BY <2>1, <2>3
<1>6. ASSUME NEW p \in PCs PROVE Books(p)'
  <2> DEFINE H == HitsIn(prompt, p)
  <2>1. UNCHANGED <<crashes, hits, savedHits>> /\ Owing(p)' = Owing(p)
    BY <1>1, StillBooks
  <2>2. Books(p)
    BY DEF Balance
  <2>3. /\ IsFiniteSet(H) /\ Cardinality(H) \in Nat /\ Sent \in Nat /\ MaxTries \in Nat
        /\ Sent <= MaxTries /\ hits[p] \in Nat /\ Cardinality(Owing(p)) \in Nat
        /\ Cardinality(StepHits(p)) \in Nat /\ IsFiniteSet(StepHits(p))
        /\ Cardinality(Learnt(p)) \in Nat /\ IsFiniteSet(Learnt(p))
    BY <1>1, <2>2, BalanceTyped DEF Balance, InTime, Books
  <2>4. StepHits(p)' = StepHits(p) \cup ({n + 1} \X H)
    <3>1. StepHits(p)' = UNION {{m} \X HitsIn(learned'[m].batch, p) : m \in 1 .. (n + 1)}
      BY <1>5 DEF StepHits, HitsIn, Accepted, Covers
    <3>2. StepHits(p) = UNION {{m} \X HitsIn(learned[m].batch, p) : m \in 1 .. n}
      BY <1>5 DEF StepHits
    <3>3. 1 .. (n + 1) = (1 .. n) \cup {n + 1}
      OBVIOUS
    <3>4. HitsIn(learned'[n + 1].batch, p) = H
      BY <1>4, <1>5
    <3>5. {{m} \X HitsIn(learned'[m].batch, p) : m \in 1 .. (n + 1)} =
            {{m} \X HitsIn(learned[m].batch, p) : m \in 1 .. n} \cup {{n + 1} \X H}
      <4> HIDE DEF H
      <4> QED BY <1>5, <3>3, <3>4
    <3> HIDE DEF H
    <3> QED BY <3>1, <3>2, <3>5
  <2>5. \A x \in StepHits(p) : x[1] \in 1 .. n
    BY <1>5 DEF StepHits
  <2>6. n + 1 \notin 1 .. n
    OBVIOUS
  <2>7. ASSUME NEW R, IsFiniteSet(R), \A x \in R : x[1] # n + 1
         PROVE  /\ IsFiniteSet(R \cup ({n + 1} \X H))
                /\ Cardinality(R \cup ({n + 1} \X H)) = Cardinality(R) + Cardinality(H)
    <3> HIDE DEF H
    <3> QED BY <2>3, <2>7, AddColumn
  <2>8. /\ IsFiniteSet(StepHits(p)')
        /\ Cardinality(StepHits(p)') = Cardinality(StepHits(p)) + Cardinality(H)
    <3> HIDE DEF H
    <3>1. \A x \in StepHits(p) : x[1] # n + 1
      BY <2>5, <2>6
    <3> QED BY <2>3, <2>4, <2>7, <3>1
  <2>9. NoMore(p)'
    <3> DEFINE s == Cardinality(StepHits(p))
               h == Cardinality(H)
               o == Cardinality(Owing(p))
    <3>1. hits[p] + o <= MaxTries * s + Sent * h
      BY <1>1, <2>2 DEF Books, NoMore, Tried
    <3>2. /\ Cardinality(StepHits(p)') = s + h
          /\ s \in Nat /\ h \in Nat /\ o \in Nat
      BY <2>3, <2>8
    <3>3. (MaxTries * Cardinality(StepHits(p)) + Tried(p))' = MaxTries * (s + h) + 0
      BY <1>1, <3>2 DEF Tried
    <3> HIDE DEF s, h, o
    <3>4. MaxTries * (s + h) = MaxTries * s + MaxTries * h /\ MaxTries * s \in Nat /\ MaxTries * h \in Nat
      BY <2>3, <3>2
    <3>5. Sent * h <= MaxTries * h /\ Sent * h \in Nat
      BY <2>3, <3>2
    <3>6. hits[p] + o <= MaxTries * (s + h) + 0
      BY <2>3, <3>1, <3>2, <3>4, <3>5
    <3> QED BY <2>1, <3>3, <3>6 DEF NoMore, o
  <2>10. ASSUME crashes = 0 PROVE NoLess(p)'
    <3>1. Cardinality(Learnt(p)) <= hits[p]
      BY <2>2, <2>10 DEF Books, NoLess
    <3>2. \A x \in StepHits(p) : learned'[x[1]] = learned[x[1]]
      BY <1>5, <2>5
    <3>3. Learnt(p)' = {x \in StepHits(p)' : learned'[x[1]].vmOk}
      BY DEF Learnt
    <3>4. \A x \in {n + 1} \X H : learned'[x[1]] = r
      BY <1>5
    <3>5. CASE r.vmOk = TRUE
      <4>1. Learnt(p)' = Learnt(p) \cup ({n + 1} \X H)
        <5> HIDE DEF H
        <5> QED BY <2>4, <3>2, <3>3, <3>4, <3>5 DEF Learnt
      <4>2. \A x \in Learnt(p) : x[1] # n + 1
        BY <2>5, <2>6 DEF Learnt
      <4>3. Cardinality(Learnt(p)') = Cardinality(Learnt(p)) + Cardinality(H)
        <5> HIDE DEF H
        <5> QED BY <2>3, <2>7, <4>1, <4>2
      <4>4. Scoring(serving)
        BY <1>1, <1>4, <3>5 DEF Scoring
      <4>5. Cardinality(Uncounted(serving, p)) = 0
        BY <1>1, FS_EmptySet DEF Uncounted
      <4>6. Cardinality(Learnt(p)) + Cardinality(H) <= hits[p] + 0
        BY <1>1, <2>2, <2>10, <4>4, <4>5 DEF Books, NoLess
      <4>7. Cardinality(Learnt(p)') <= hits[p]
        BY <2>3, <4>3, <4>6
      <4> QED BY <1>1, <2>1, <4>7 DEF NoLess
    <3>6. CASE r.vmOk = FALSE
      <4>1. Learnt(p)' = Learnt(p)
        <5> HIDE DEF H
        <5> QED BY <2>4, <3>2, <3>3, <3>4, <3>6 DEF Learnt
      <4> QED BY <1>1, <2>1, <3>1, <4>1 DEF NoLess
    <3> QED BY <1>4, <3>5, <3>6
  <2> QED BY <2>1, <2>2, <2>8, <2>9, <2>10 DEF Books
<1> QED BY <1>2, <1>3, <1>6 DEF Balance

LEMMA StutterBalance ==
  ASSUME Balance, UNCHANGED allVars
  PROVE  Balance'
<1>1. UNCHANGED vars /\ UNCHANGED <<client, prompt, tries, serving, learned>>
  BY DEF allVars, clientVars
<1>2. Steady' /\ InTime' /\ \A t \in Threads : Orderly(t)'
  BY <1>1, StillBooks DEF Balance, Steady, InTime, Sent, vars, process
<1>3. ASSUME NEW p \in PCs PROVE Books(p)'
  <2>1. /\ UNCHANGED <<crashes, hits, savedHits>> /\ Owing(p)' = Owing(p)
        /\ StepHits(p)' = StepHits(p) /\ Learnt(p)' = Learnt(p)
        /\ HitsIn(prompt, p)' = HitsIn(prompt, p)
    BY <1>1, StillBooks DEF StepHits, Learnt, HitsIn, Accepted, Covers
  <2>2. Tried(p)' = Tried(p)
    BY <1>1, <2>1 DEF Tried, Sent
  <2>3. Uncounted(serving, p)' = Uncounted(serving, p) /\ Scoring(serving)' = Scoring(serving)
    BY <1>1 DEF Uncounted, Scoring, HitsIn, Accepted, Covers, vars, locals
  <2> QED BY <1>1, <2>1, <2>2, <2>3 DEF Balance, Books, NoMore, NoLess
<1> QED BY <1>2, <1>3 DEF Balance

LEMMA InitBalance == RTInit => Balance
<1> SUFFICES ASSUME RTInit PROVE Balance
  OBVIOUS
<1>1. Init /\ client = "sampling" /\ tries = 0 /\ serving = None /\ learned = <<>>
  BY DEF RTInit
<1>2. Steady /\ InTime /\ \A t \in Threads : Orderly(t)
  BY <1>1, ClientAssumption DEF Init, Steady, InTime, Orderly, CountLabels
<1>3. ASSUME NEW p \in PCs PROVE Books(p)
  <2>1. hits[p] = 0 /\ savedHits[p] = 0 /\ Owing(p) = {}
    BY <1>1 DEF Init, Owing, Uncounted
  <2>2. StepHits(p) = {} /\ Learnt(p) = {}
    BY <1>1 DEF StepHits, Learnt
  <2>3. IsFiniteSet({}) /\ Cardinality({}) = 0
    BY FS_EmptySet
  <2>4. MaxTries \in Nat
    BY ClientAssumption
  <2> QED BY <1>1, <2>1, <2>2, <2>3, <2>4 DEF Books, NoMore, NoLess, Tried
<1> QED BY <1>2, <1>3 DEF Balance

LEMMA NextBalance == TypeInv /\ Lost /\ Client /\ Balance /\ [RTNext]_allVars => Balance'
<1> SUFFICES ASSUME TypeInv, Lost, Client, Balance, [RTNext]_allVars PROVE Balance'
  OBVIOUS
<1>1. TypeInv'
  BY IsServerStep, NextTypeInv
<1>2. CASE ServerStep
  BY <1>1, <1>2, ServerBalance
<1>3. CASE ClientStep
  BY <1>1, <1>3, WaitBalance, PostBalance, TakeBalance DEF ClientStep
<1> QED BY <1>2, <1>3, StutterBalance DEF RTNext

\* However requests interleave, attempts are abandoned, lost or repeated and
\* the server crashes: the frontier counts no step, nor the current one, more
\* often than it was tried, and until a crash it holds every hit of every
\* validated step the trainer learned from.
THEOREM CountedPerTryHolds == RTSpec => []CountedPerTry
<1> DEFINE Inv == TypeInv /\ Ladder /\ Lost /\ Client /\ Balance
<1>1. RTInit => Inv
  <2> SUFFICES ASSUME RTInit PROVE Inv
    OBVIOUS
  <2>1. Init /\ learned = <<>> /\ serving = None /\ client = "sampling"
    BY DEF RTInit
  <2>2. Client
    <3>1. <<>> \in Seq({})
      OBVIOUS
    <3> QED BY <2>1, <3>1 DEF Client, Attempt, Trail
  <2> QED BY <2>1, <2>2, InitTypeInv, InitLadder, InitLost, InitBalance
<1>2. Inv /\ [RTNext]_allVars => Inv'
  BY IsServerStep, NextTypeInv, NextLadder, NextLost, NextClient, NextBalance
<1>3. Inv => CountedPerTry
  <2> SUFFICES ASSUME Inv, NEW p \in PCs
      PROVE  /\ crashes = 0 => Cardinality(Learnt(p)) <= hits[p]
             /\ hits[p] <= MaxTries * ( Cardinality(StepHits(p))
                   + IF client = "sampling" THEN 0 ELSE Cardinality(HitsIn(prompt, p)) )
    BY DEF CountedPerTry, Learnt
  <2> DEFINE s == Cardinality(StepHits(p))
             h == Cardinality(HitsIn(prompt, p))
             o == Cardinality(Owing(p))
  <2>1. /\ hits[p] \in Nat /\ Sent \in Nat /\ MaxTries \in Nat /\ s \in Nat /\ o \in Nat
        /\ client # "sampling" => h \in Nat
    BY BalanceTyped
  <2>2. /\ hits[p] + o <= MaxTries * s + Tried(p)
        /\ crashes = 0 => Cardinality(Learnt(p)) <= hits[p]
    BY DEF Balance, Books, NoMore, NoLess
  <2>3. CASE client = "sampling"
    <3>1. Tried(p) = 0
      BY <2>3 DEF Tried
    <3> HIDE DEF s, o
    <3>2. hits[p] <= MaxTries * s /\ MaxTries * s = MaxTries * (s + 0)
      BY <2>1, <2>2, <3>1
    <3> QED BY <2>2, <2>3, <3>2 DEF s
  <2>4. CASE client # "sampling"
    <3>1. Tried(p) = Sent * h /\ Sent <= MaxTries /\ h \in Nat
      BY <2>1, <2>4 DEF Tried, Balance, InTime
    <3> HIDE DEF s, o, h
    <3>2. Sent * h <= MaxTries * h /\ Sent * h \in Nat /\ MaxTries * h \in Nat
      BY <2>1, <3>1
    <3>3. MaxTries * (s + h) = MaxTries * s + MaxTries * h /\ MaxTries * s \in Nat
      BY <2>1, <3>1
    <3>4. hits[p] <= MaxTries * (s + h)
      BY <2>1, <2>2, <3>1, <3>2, <3>3
    <3> QED BY <2>2, <2>4, <3>4 DEF s, h
  <2> QED BY <2>3, <2>4
<1> QED BY <1>1, <1>2, <1>3, PTL DEF RTSpec

=============================================================================
