-------------------------- MODULE MCRemoteTraining --------------------------
(***************************************************************************)
(* Instances of RemoteTraining: one program for each way compute_rewards   *)
(* treats a completion, and batches whose programs share coverage.         *)
(***************************************************************************)
EXTENDS RemoteTraining

MCPCs == 1 .. 3

MCOutcome ==
  [garbled |-> [verdict |-> "encode_fail", pcs |-> {}],
   plain   |-> [verdict |-> "ACCEPTED",    pcs |-> {1}],
   wide    |-> [verdict |-> "ACCEPTED",    pcs |-> {1, 2}],
   walk    |-> [verdict |-> "REJECTED",    pcs |-> {1, 2, 3}]]

MCPrograms == DOMAIN MCOutcome

\* clones; a growing record with an invalid program that walks deepest
MCBatches == {<<"plain", "plain">>, <<"wide", "walk">>}
ShortBatches == {<<"plain">>, <<"walk">>}
=============================================================================
