-------------------------------- MODULE Fuzzer --------------------------------
(***************************************************************************)
(* The Buzzer fuzzer: the loop with the kernel and the metrics             *)
(* (BuzzerControl), and the tables of the strategy that feeds it           *)
(* (CoverageBased).  A behaviour is one of the two parts: the loop, with a *)
(* strategy that may say anything, or the strategy, with a loop that may   *)
(* show it any coverage.                                                   *)
(***************************************************************************)
EXTENDS BuzzerControl, CoverageBased

VARIABLE part  \* "loop" or "strategy"

fzVars == <<vars, cvVars, part>>

FzInit ==
  /\ part \in {"loop", "strategy"}
  /\ Init /\ CvInit
  /\ part = "strategy" => /\ strategy = "coverage_based"
                          /\ prog = CHOOSE p \in Programs : TRUE

InLoop(A) == part = "loop" /\ A /\ UNCHANGED <<cvVars, part>>

FzNext ==
  \/ InLoop(Next)
  \/ part = "strategy" /\ CvNext /\ UNCHANGED <<vars, part>>

FzSpec == FzInit /\ [][FzNext]_fzVars

(* Each part with the fairness of its own specification. *)
FzFairSpec ==
  /\ FzSpec
  /\ SF_fzVars(InLoop(Loop))
  /\ SF_fzVars(InLoop(WorkerRuns))
  /\ SF_fzVars(InLoop(AnswerRuns))
  /\ WF_fzVars(part = "strategy" /\ CvNext /\ UNCHANGED <<vars, part>>)
=============================================================================
