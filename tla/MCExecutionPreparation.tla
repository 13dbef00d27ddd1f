----------------------- MODULE MCExecutionPreparation -----------------------
(* Instances of ExecutionPreparation for TLC. *)
EXTENDS ExecutionPreparation
=============================================================================
