----------------------------- MODULE Positions -----------------------------
(***************************************************************************)
(* What a list comprehension with a condition keeps of a list: the items   *)
(* at some positions, in their order.                                      *)
(***************************************************************************)
EXTENDS Integers, Sequences, FiniteSets

UpTo(S, i) == {j \in S : j <= i}

\* The positions of a finite set S in order.
InOrder(S) == [n \in 1 .. Cardinality(S) |-> CHOOSE i \in S : Cardinality(UpTo(S, i)) = n]

ItemsAt(s, positions) ==
    LET kept == InOrder(positions \cap DOMAIN s)
    IN  [n \in DOMAIN kept |-> s[kept[n]]]
=============================================================================
