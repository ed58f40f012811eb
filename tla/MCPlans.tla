------------------------------ MODULE MCPlans ------------------------------
(***************************************************************************)
(* Instances of CampaignPlans and of Ecosystem, the orchestrator over it,  *)
(* for TLC.  All have the same variables: part says which of them runs in  *)
(* a behaviour.                                                            *)
(***************************************************************************)
EXTENDS Ecosystem, TLC

CONSTANTS
  r1,   \* a request
  good  \* a creative content without validation issues

VARIABLE part  \* the instance that runs

-----------------------------------------------------------------------------
(* The instances.  What is extended are the requests that take a campaign  *)
(* from its context to dry runs that are ready, without any advance.       *)

\* Requests that ask for approvals and decide them, across an expiry, while a plan for a
\* second context replaces the first and statements fail.
Approvals == INSTANCE CampaignPlans WITH
  Contexts <- {1, 2}, Contents <- {good}, CleanContents <- {good},
  Operations <- {"generate", "request", "get", "approve", "reject", "revoke"},
  Failures <- TRUE, MaxBuilds <- 2, MaxVersions <- 0, MaxApprovals <- 2

\* Requests that append and approve creative versions.
Versions == INSTANCE CampaignPlans WITH
  Contexts <- {1}, CleanContents <- {good},
  Operations <- {"generate", "append", "approveCreative"}, Failures <- FALSE, MaxBuilds <- 5,
  MaxVersions <- 3, MaxApprovals <- 0

Advancement == {"generate", "bind", "append", "approveCreative", "request", "approve"}

\* One advance while a person generates plans, reviews the creative and decides.
Advancing == INSTANCE Ecosystem WITH
  Contents <- {good}, CleanContents <- {good}, Operations <- Advancement, Advances <- {r1}

\* The same with fewer plans, when any statement may fail.
Failing == INSTANCE Ecosystem WITH
  Contents <- {good}, CleanContents <- {good}, Operations <- Advancement, Failures <- TRUE,
  MaxBuilds <- 3, Advances <- {r1}

\* Analyses of a campaign that spent twice its target for nothing, had a cost that rose by
\* half, kept its cost, or does not deliver; running and paused.
SomeAnalyses ==
  {[status |-> status,
    verdict |-> [health |-> v[1], action |-> v[2], approval |-> v[2] = "AJUSTAR"]] :
     status \in {"ACTIVE", "PAUSED"},
     v \in {<<"INTERVENTION_RECOMMENDED", "AJUSTAR">>, <<"HEALTHY", "MANTER">>,
            <<"OPERATIONAL_PROBLEM", "AJUSTAR">>}}

\* What people are told when the requests of one campaign come one after the other.
Told == INSTANCE Ecosystem WITH
  Requests <- {r1}, Contents <- {good}, CleanContents <- {good},
  Operations <- Advancement \cup {"get", "reject"}, MaxApprovals <- 2, Analyses <- SomeAnalyses

ASSUME MachineAssumptions ==
  /\ Approvals!BoundAssumption /\ Approvals!ContentAssumption
  /\ Approvals!TargetAssumption /\ Approvals!OperationAssumption
  /\ Versions!BoundAssumption /\ Versions!ContentAssumption
  /\ Versions!TargetAssumption /\ Versions!OperationAssumption
  /\ AdvanceAssumption /\ AnalysisAssumption
  /\ Advancing!AdvanceAssumption /\ Failing!AdvanceAssumption
  /\ Told!AdvanceAssumption /\ Told!AnalysisAssumption

-----------------------------------------------------------------------------

SuiteInit ==
  \/ part \in {"ready", "approvals", "versions", "told"} /\ EInit
  \/ part \in {"advancing", "failing"} /\ Advancing!EInit

\* Over its bounds an advance may stop.
Rest == part \in {"advancing", "failing", "told"} /\ UNCHANGED <<allVars, part>>

SuiteNext ==
  \/ part = "ready" /\ Next /\ UNCHANGED <<ecosystem, part>>
  \/ part = "approvals" /\ Approvals!Next /\ UNCHANGED <<ecosystem, part>>
  \/ part = "versions" /\ Versions!Next /\ UNCHANGED <<ecosystem, part>>
  \/ part = "advancing" /\ Advancing!ENext /\ UNCHANGED part
  \/ part = "failing" /\ Failing!ENext /\ UNCHANGED part
  \/ part = "told" /\ Told!ENext /\ UNCHANGED part
  \/ Rest

SuiteSpec == SuiteInit /\ [][SuiteNext]_<<allVars, part>>

Symmetry == Permutations(Requests)
=============================================================================
