---------------------------- MODULE MCSettlement ----------------------------
(* Instances of Settlement for TLC. *)
EXTENDS Settlement, TLC

Interchangeable == Permutations(Operators) \union Permutations(Refunds) \union Permutations(Payouts)
=============================================================================
