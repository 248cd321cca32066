--------------------------- MODULE MCRewardServer ---------------------------
(***************************************************************************)
(* A small instance of RewardServer: one program for each way compute_     *)
(* rewards treats a completion, with two valid programs that share a       *)
(* counter and an invalid one that walks deeper than both.                 *)
(***************************************************************************)
EXTENDS RewardServer

MCPCs == 1 .. 3

MCOutcome ==
  [garbled |-> [verdict |-> "encode_fail", pcs |-> {}],
   broken  |-> [verdict |-> "ERROR",       pcs |-> {}],
   plain   |-> [verdict |-> "ACCEPTED",    pcs |-> {1}],
   wide    |-> [verdict |-> "ACCEPTED",    pcs |-> {1, 2}],
   walk    |-> [verdict |-> "REJECTED",    pcs |-> {1, 2, 3}],
   stall   |-> [verdict |-> "REJECTED",    pcs |-> {1}],
   stub    |-> [verdict |-> "REJECTED",    pcs |-> {3}]]

MCPrograms == DOMAIN MCOutcome

\* Overlapping requests: a clone pair, a batch with a deep rejection, and one
\* with nothing valid.
OverlapBatches == {<<"plain", "plain">>, <<"wide", "walk">>, <<"stub", "garbled">>}

\* One request at a time: every program at either of two positions.
PairBatches == {<<p, q>> : p, q \in MCPrograms} \cup {<<"wide", "garbled", "plain", "walk">>}

\* Batches of a run with crashes, in which the coverage and the record grow.
CrashBatches == {<<"plain">>, <<"wide", "stub">>, <<"garbled">>}
=============================================================================
