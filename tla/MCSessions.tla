----------------------------- MODULE MCSessions -----------------------------
(* Instances of Sessions for TLC. *)
EXTENDS Sessions, TLC

CONSTANT b1

OneBrowser == [t \in Tabs |-> b1]
=============================================================================
