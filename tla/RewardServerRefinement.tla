----------------------- MODULE RewardServerRefinement -----------------------
(***************************************************************************)
(* With one request at a time and no crash, the steps of compute_rewards   *)
(* add up to the one step AtomicRewards promises, taken when the answer    *)
(* leaves.  While a request is in progress the promise still sees the      *)
(* globals as the request found them; `found` remembers those.             *)
(***************************************************************************)
EXTENDS RewardServer

VARIABLE found

Kept == [pcSet |-> pcSet, maxPcs |-> maxPcs, freq |-> freq, callCount |-> callCount,
         answer |-> <<>>]

AnswerOf(r) == [rewards |-> r.rewards, depths |-> r.depths, counts |-> r.counts,
                cumulative |-> r.cumulative, max |-> r.max, frontier |-> r.frontier]

RInit == Init /\ found = Kept

RNext ==
  \/ /\ \E t \in Threads, b \in Batches : Receive(t, b)
     /\ found' = [Kept EXCEPT !.answer = found.answer]
  \/ /\ \E t \in Threads : Compute(t) /\ pc'[t] # "idle"
     /\ UNCHANGED found
  \/ /\ \E t \in Threads : Compute(t) /\ pc'[t] = "idle" /\ found' =
          [Kept EXCEPT !.answer = AnswerOf(response'[t])]

RSpec == RInit /\ [][RNext]_<<vars, found>>

\* The globals as the promise sees them.
Seen == IF InProgress = {} THEN [Kept EXCEPT !.answer = found.answer] ELSE found

Promise == INSTANCE AtomicRewards WITH
  pcSet <- Seen.pcSet, maxPcs <- Seen.maxPcs, freq <- Seen.freq,
  callCount <- Seen.callCount, answer <- Seen.answer

\* compute_rewards implements its promise (ml/reward.py:458-570).
ImplementsPromise == Promise!Spec
=============================================================================
