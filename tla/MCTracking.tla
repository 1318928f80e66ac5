----------------------------- MODULE MCTracking -----------------------------
(* Instances of Tracking for TLC. *)
EXTENDS Tracking, TLC
=============================================================================
