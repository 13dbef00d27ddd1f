------------------------------ MODULE MCLabTurn ------------------------------
(* Instances of LabTurn for TLC. *)
EXTENDS LabTurn
=============================================================================
