-------------------------- MODULE MCPaygateAdapter --------------------------
(* Instances of PaygateAdapter for TLC. *)
EXTENDS BookingRefinement, TLC

HandlerSymmetry == Permutations(Handlers)
=============================================================================
