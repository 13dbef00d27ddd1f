-------------------------- MODULE MCRunObservation --------------------------
(* Instances of RunObservation for TLC; the bounds are in the configurations. *)
EXTENDS RunObservation
=============================================================================
