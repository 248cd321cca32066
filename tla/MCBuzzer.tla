------------------------------- MODULE MCBuzzer -------------------------------
(* An accepted program, and a rejected one that shares an address and      *)
(* fills the buffer: behind what the last ioctl left in it, it is cut.     *)
(* For the strategy, three addresses of which one is the XOR of the other  *)
(* two, so that their sum has the fingerprint of the empty coverage.       *)
EXTENDS Fuzzer, TLC

CONSTANTS good, bad, a1, a2, a3, tail

MCPrograms == {good, bad}
MCAccepted == {good}
MCTrace == good :> <<a1, a2>> @@ bad :> <<a2, a2, a3>>
MCAddresses == {a1, a2, a3, tail}
MCNoise == <<tail>>

MCCvAddresses == {{0}, {1}, {0, 1}}
=============================================================================
