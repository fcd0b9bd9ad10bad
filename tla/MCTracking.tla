------------------------------- MODULE MCTracking -------------------------------
(* Instances of Tracking for TLC. *)
EXTENDS Tracking, TLC

Symmetric == Permutations(Sessions)
=============================================================================
