-------------------------- MODULE MCAuthorization --------------------------
(***************************************************************************)
(* Instances of ExecutionAuthorization, OperatorAccess and OperatorViews   *)
(* for TLC.  One machine runs in each behaviour: part says which, and the  *)
(* variables of the others never change.                                   *)
(***************************************************************************)
EXTENDS ExecutionAuthorization, OperatorAccess, OperatorViews, TLC

CONSTANTS
  r1,         \* a request
  a, b,       \* tenants
  n1,         \* a display name
  ca, cb, cc  \* campaigns

VARIABLE part  \* the machine that runs; the others stand still

-----------------------------------------------------------------------------
(* The machines.  All are extended, OperatorAccess and OperatorViews with  *)
(* the bounds of all their instances.                                      *)

Bare == [subject |-> TRUE, digest |-> None, generated |-> "t1", secondary |-> None,
         tenant |-> None, display |-> n1]

\* An environment that seeds a tenant, a rotation to a second token, no configuration.
Deployments ==
  {[Bare EXCEPT !.tenant = a], [Bare EXCEPT !.digest = "t2", !.secondary = "t1"],
   [Bare EXCEPT !.subject = FALSE]}

AllEnvironments == Deployments \cup {Bare}

\* Two requests send packages, and ask for their status, without naming a tenant.
ByPackage == INSTANCE OperatorAccess WITH
  Operations <- {"submitAutoResolved", "getStatusAutoResolved"}, Tokens <- {"t1"},
  Environments <- {Bare}, MaxChanges <- 1

\* One request for any operation, while memberships and deployments change.
Access == INSTANCE OperatorAccess WITH
  Calls <- {r1}, Names <- {n1}, Environments <- Deployments

Waiting == [status |-> "action_required", blockers |-> {"operator", "system"}]
Blocked == [status |-> "blocked", blockers |-> {"operator"}]

AllDecisions == {Waiting, Blocked}

OfWhom == [c \in {ca, cb, cc} |-> IF c = cb THEN b ELSE a]

\* The portfolio and the work queue of two tenants while plans, decisions and memberships
\* change.
Portfolios == INSTANCE OperatorViews WITH
  Readings <- {r1}, Kinds <- {"portfolio", "workQueue", "plans"}, Campaigns <- {ca, cb},
  MaxEvents <- 1

\* Two work queues at once around midnight: each saves a snapshot per tenant and day.
Queues == INSTANCE OperatorViews WITH
  Kinds <- {"workQueue"}, Campaigns <- {ca, cb}, Decisions <- {Waiting}, MaxVersions <- 1,
  MaxEvents <- 1, MaxOthers <- 2

\* The views of one tenant; its timelines while events of its two campaigns arrive out of
\* order.
Lists == INSTANCE OperatorViews WITH
  Readings <- {r1}, Kinds <- {"contexts", "readiness", "timeline"}, Tenants <- {a},
  Campaigns <- {ca, cc}, Decisions <- {Waiting}, MaxVersions <- 1, MaxOthers <- 1

ASSUME MachineAssumptions ==
  /\ Access!OperationsAssumption /\ Access!EnvironmentsAssumption
  /\ ByPackage!OperationsAssumption /\ ByPackage!EnvironmentsAssumption
  /\ Portfolios!KindsAssumption /\ Portfolios!ViewNumbersAssumption
  /\ Queues!KindsAssumption /\ Queues!ViewNumbersAssumption
  /\ Lists!KindsAssumption /\ Lists!ViewNumbersAssumption

-----------------------------------------------------------------------------

\* Nobody asks for anything, and nobody looks.
NoPackages == \A p \in Packages : package[p] = None
NoAccess ==
  AInit /\ running = {Bare} /\ NoPackages /\ \A t \in Tenants : role[t] = None /\ name[t] = n1
NoViews == VInit /\ member = {}

\* An operator may do what an owner may, with packages; which name is a's is no matter.
WithoutOperators ==
  /\ AInit /\ running = {Bare} /\ NoPackages
  /\ name[a] = n1 /\ \A t \in Tenants : role[t] # "operator"

OneName == AInit /\ running # {Bare} /\ \A t \in Tenants : name[t] = n1

SuiteInit ==
  \/ part = "authorization" /\ Init /\ NoAccess /\ NoViews
  \/ part = "access" /\ Init /\ OneName /\ NoViews
  \/ part = "packages" /\ Init /\ WithoutOperators /\ NoViews
  \/ part \in {"portfolios", "queues"} /\ Init /\ NoAccess /\ VInit /\ a \in member
  \/ part = "lists" /\ Init /\ NoAccess /\ VInit /\ b \notin member

\* Only authorizations are asked for without end.
Rest == part # "authorization" /\ UNCHANGED <<part, vars, accessVars, viewVars>>

SuiteNext ==
  \/ part = "authorization" /\ Next /\ UNCHANGED <<part, accessVars, viewVars>>
  \/ part = "access" /\ Access!ANext /\ UNCHANGED <<part, vars, viewVars>>
  \/ part = "packages" /\ ByPackage!ANext /\ UNCHANGED <<part, vars, viewVars>>
  \/ part = "portfolios" /\ Portfolios!VNext /\ UNCHANGED <<part, vars, accessVars>>
  \/ part = "queues" /\ Queues!VNext /\ UNCHANGED <<part, vars, accessVars>>
  \/ part = "lists" /\ Lists!VNext /\ UNCHANGED <<part, vars, accessVars>>
  \/ Rest

SuiteSpec == SuiteInit /\ [][SuiteNext]_<<part, vars, accessVars, viewVars>>

Symmetry == Permutations(Requests)
=============================================================================
