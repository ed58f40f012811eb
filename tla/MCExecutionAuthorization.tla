---------------------- MODULE MCExecutionAuthorization ----------------------
(* Instances of ExecutionAuthorization for TLC. *)
EXTENDS ExecutionAuthorization
=============================================================================
