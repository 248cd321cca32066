--------------------------- MODULE MCKcovValidator ---------------------------
(***************************************************************************)
(* Programs that are accepted with a short and with a long trace, rejected,*)
(* refused before the verifier, or any of these from run to run; a buffer  *)
(* of three counters, which the long trace overflows.                      *)
(***************************************************************************)
EXTENDS KcovValidator, SequencesExt

MCLines == {"blank", "garbage", "short", "long", "rejected", "refused", "flaky"}
MCBlank == {"blank"}
MCMalformed == {"garbage"}
MCPCs == {"a", "b", "c", "d"}

Call(loaded, logged, trace) == [loaded |-> loaded, logged |-> logged, trace |-> trace]

MCKernel ==
  [blank    |-> {},
   garbage  |-> {},
   short    |-> {Call(TRUE, TRUE, <<"a">>)},
   long     |-> {Call(TRUE, TRUE, <<"a", "b", "c", "d">>)},
   rejected |-> {Call(FALSE, TRUE, <<"b", "d">>)},
   refused  |-> {Call(FALSE, FALSE, <<"c">>)},
   flaky    |-> {Call(TRUE, TRUE, <<"d">>), Call(FALSE, TRUE, <<>>), Call(FALSE, FALSE, <<"c">>)}]

MCInputs == SeqOf(MCLines, 3)
=============================================================================
