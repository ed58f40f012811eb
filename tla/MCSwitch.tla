------------------------------ MODULE MCSwitch ------------------------------
(***************************************************************************)
(* Instances of KillSwitch and ExecutionGates for TLC.  One machine runs   *)
(* in each behaviour: part says which, and the variables of the other one  *)
(* never change.                                                           *)
(***************************************************************************)
EXTENDS KillSwitch, ExecutionGates, TLC

CONSTANT q1  \* a request

VARIABLE part  \* the machine that runs; the other one stands still

-----------------------------------------------------------------------------
(* The machines.  Both are extended, ExecutionGates with the bounds of all *)
(* its instances.                                                          *)

AllChanging == {"campaign", "manifest", "page", "account", "permissions", "geography", "adapter"}

\* Two operators prepare and confirm, twice if the first attempt fails, while the switch of
\* the campaign is changed.
Two == INSTANCE ExecutionGates WITH
  Operations <- {"prepare", "confirm"}, MaxChanges <- 1, Changing <- {"campaign"}

\* One operator prepares, confirms and runs preflights of one attempt; any of the gates may
\* be closed.
Alone == INSTANCE ExecutionGates WITH Requests <- {q1}, MaxAttempts <- 1

ASSUME MachineAssumptions ==
  /\ OperationsAssumption /\ GatesBoundAssumption
  /\ Two!OperationsAssumption /\ Two!GatesBoundAssumption
  /\ Alone!OperationsAssumption /\ Alone!GatesBoundAssumption

-----------------------------------------------------------------------------

\* Nobody executes anything.
NoExecution == GInit /\ open = Gates

SuiteInit ==
  \/ part = "switch" /\ Init /\ NoExecution
  \/ part = "gates" /\ Init /\ Two!GInit
  \/ part = "preflights" /\ Init /\ GInit

\* Nobody need ask for an execution.
Rest == part \in {"gates", "preflights"} /\ UNCHANGED <<part, vars, gateVars>>

SuiteNext ==
  \/ part = "switch" /\ Next /\ UNCHANGED <<part, gateVars>>
  \/ part = "gates" /\ Two!GNext /\ UNCHANGED <<part, vars>>
  \/ part = "preflights" /\ Alone!GNext /\ UNCHANGED <<part, vars>>
  \/ Rest

SuiteSpec == SuiteInit /\ [][SuiteNext]_<<part, vars, gateVars>>

Symmetry == Permutations(Changes) \cup Permutations(Requests)
=============================================================================
