---------------------- MODULE MCRewardServerRefinement ----------------------
(***************************************************************************)
(* The programs of MCRewardServer, one request at a time.                  *)
(***************************************************************************)
EXTENDS RewardServerRefinement

MCPCs == 1 .. 3

MCOutcome ==
  [garbled |-> [verdict |-> "encode_fail", pcs |-> {}],
   broken  |-> [verdict |-> "ERROR",       pcs |-> {}],
   plain   |-> [verdict |-> "ACCEPTED",    pcs |-> {1}],
   wide    |-> [verdict |-> "ACCEPTED",    pcs |-> {1, 2}],
   blank   |-> [verdict |-> "ACCEPTED",    pcs |-> {}],
   walk    |-> [verdict |-> "REJECTED",    pcs |-> {1, 2, 3}],
   stub    |-> [verdict |-> "REJECTED",    pcs |-> {3}]]

MCPrograms == DOMAIN MCOutcome

MCBatches == {<<p, q>> : p, q \in MCPrograms \ {"broken"}}
               \cup {<<>>, <<"wide", "garbled", "plain", "broken">>}
=============================================================================
