------------------------------- MODULE MCEnds -------------------------------
(***************************************************************************)
(* Instances for TLC of the machines that promise that something ends.     *)
(* One machine runs in each behaviour: part says which, and the variables  *)
(* of the others never change.                                             *)
(***************************************************************************)
EXTENDS Naturals

CONSTANTS
  tenant, campaign,  \* what switches are about
  w1, w2,      \* workers
  r1, r2,      \* requests
  s1, s2, s3,  \* two changes of a switch and a reading of it
  a1, a2,      \* assets of Meta
  c1, c2, c3,  \* contents, cursors, a campaign of Meta
  None,
  Off          \* the value of the variables of a machine that stands still

VARIABLES
  part,  \* the machine that runs; the others stand still
  \* those of MetaExecution
  executionLedger, executionManifests, executionAuthorized, executionProtocols,
  executionObjects, executionWorker, executionCrashes,
  \* those of KillSwitch
  switchRows, switchChange, switchReading, switchFree, switchBlocked,
  \* those of MetaOAuth
  oauthConnection, oauthAttempts, oauthVault, oauthCompensations, oauthRequest, oauthFaults,
  oauthUsed,
  \* those of MetaAssets
  assetsOffered, assetsGranted, assetsDiscovered, assetsSelected, assetsCapabilities,
  assetsReports, assetsSnapshots, assetsLock, assetsRequest, assetsStarts, assetsChanges,
  \* those of GraphReading
  graphNext, graphReader,
  \* those of CampaignHandoff
  handoffContexts, handoffPlans, handoffCreatives, handoffSelection, handoffRequest,
  handoffSent, handoffAnswers, handoffStarts, handoffFailures, handoffSelections,
  \* those of CampaignPlans
  planPlans, planPackages, planApprovals, planLate, planBuilds, planReports, planRequest,
  \* those of AnalystTracking
  trackingManifests, trackingProtocol, trackingRegistration, trackingRegistered,
  trackingRequest

\* The creative refers to nothing.
NoDeps == [o \in 1..2 |-> {}]

\* Three versions of a package.
Drafts == {[version |-> 1, content |-> c1], [version |-> 2, content |-> c2],
           [version |-> 3, content |-> c1]}

-----------------------------------------------------------------------------
(* The machines.                                                           *)

executionVars ==
  <<executionLedger, executionManifests, executionAuthorized, executionProtocols,
      executionObjects, executionWorker, executionCrashes>>

ExecutionOff ==
  /\ executionLedger = Off /\ executionManifests = Off /\ executionAuthorized = Off
  /\ executionProtocols = Off /\ executionObjects = Off /\ executionWorker = Off
  /\ executionCrashes = Off

switchVars ==
  <<switchRows, switchChange, switchReading, switchFree, switchBlocked>>

SwitchOff ==
  /\ switchRows = Off /\ switchChange = Off /\ switchReading = Off /\ switchFree = Off
  /\ switchBlocked = Off

oauthVars ==
  <<oauthConnection, oauthAttempts, oauthVault, oauthCompensations, oauthRequest,
      oauthFaults, oauthUsed>>

OauthOff ==
  /\ oauthConnection = Off /\ oauthAttempts = Off /\ oauthVault = Off
  /\ oauthCompensations = Off /\ oauthRequest = Off /\ oauthFaults = Off /\ oauthUsed = Off

assetsVars ==
  <<assetsOffered, assetsGranted, assetsDiscovered, assetsSelected, assetsCapabilities,
      assetsReports, assetsSnapshots, assetsLock, assetsRequest, assetsStarts, assetsChanges>>

AssetsOff ==
  /\ assetsOffered = Off /\ assetsGranted = Off /\ assetsDiscovered = Off
  /\ assetsSelected = Off /\ assetsCapabilities = Off /\ assetsReports = Off
  /\ assetsSnapshots = Off /\ assetsLock = Off /\ assetsRequest = Off /\ assetsStarts = Off
  /\ assetsChanges = Off

graphVars ==
  <<graphNext, graphReader>>

GraphOff ==
  /\ graphNext = Off /\ graphReader = Off

handoffVars ==
  <<handoffContexts, handoffPlans, handoffCreatives, handoffSelection, handoffRequest,
      handoffSent, handoffAnswers, handoffStarts, handoffFailures, handoffSelections>>

HandoffOff ==
  /\ handoffContexts = Off /\ handoffPlans = Off /\ handoffCreatives = Off
  /\ handoffSelection = Off /\ handoffRequest = Off /\ handoffSent = Off
  /\ handoffAnswers = Off /\ handoffStarts = Off /\ handoffFailures = Off
  /\ handoffSelections = Off

planVars ==
  <<planPlans, planPackages, planApprovals, planLate, planBuilds, planReports, planRequest>>

PlanOff ==
  /\ planPlans = Off /\ planPackages = Off /\ planApprovals = Off /\ planLate = Off
  /\ planBuilds = Off /\ planReports = Off /\ planRequest = Off

trackingVars ==
  <<trackingManifests, trackingProtocol, trackingRegistration, trackingRegistered,
      trackingRequest>>

TrackingOff ==
  /\ trackingManifests = Off /\ trackingProtocol = Off /\ trackingRegistration = Off
  /\ trackingRegistered = Off /\ trackingRequest = Off

\* Two workers create a campaign and a creative.
Execution == INSTANCE MetaExecution WITH
  Targets <- {tenant, campaign}, MaxManifests <- 1, Workers <- {w1, w2}, Tenant <- tenant,
  Campaign <- campaign, NumOps <- 2, Creatives <- {2}, Videos <- {}, Deps <- NoDeps,
  MaxVersion <- 2, MaxAttempts <- 2, MaxCrashes <- 0, MaxActivations <- 0,
  ledger <- executionLedger, manifests <- executionManifests,
  authorized <- executionAuthorized, protocols <- executionProtocols,
  objects <- executionObjects, worker <- executionWorker, crashes <- executionCrashes

\* Two changes of a switch and a reading that share one connection.
Switch == INSTANCE KillSwitch WITH
  Changes <- {s1, s2}, Readings <- {s3}, Tenant <- tenant, Campaign <- campaign,
  Connections <- 1, MaxVersion <- 2, rows <- switchRows, change <- switchChange,
  reading <- switchReading, free <- switchFree, blocked <- switchBlocked

\* Callbacks under every kind of fault.
OAuth == INSTANCE MetaOAuth WITH
  Requests <- {r1, r2}, Faults <- {"fail", "lost", "crash"}, MaxFaults <- 2, MaxAttempts <- 2,
  connection <- oauthConnection, attempts <- oauthAttempts, vault <- oauthVault,
  compensations <- oauthCompensations, request <- oauthRequest, faults <- oauthFaults,
  used <- oauthUsed

\* Two requests about the assets of a connection.
Assets == INSTANCE MetaAssets WITH
  Requests <- {r1, r2}, Operations <- {"discover", "select", "validateExecution", "smoke"},
  Accounts <- {a1}, Pages <- {a2}, Phones <- {}, NoAsset <- None, NoRequest <- None,
  Faults <- TRUE, MaxStarts <- 2, MaxChanges <- 1, offered <- assetsOffered,
  granted <- assetsGranted, discovered <- assetsDiscovered, selected <- assetsSelected,
  capabilities <- assetsCapabilities, reports <- assetsReports, snapshots <- assetsSnapshots,
  lock <- assetsLock, request <- assetsRequest, starts <- assetsStarts,
  changes <- assetsChanges

\* Every list of pages of three cursors.
Graph == INSTANCE GraphReading WITH
  Cursors <- {c1, c2, c3}, First <- None, Last <- Off, MaxPages <- 3, next <- graphNext,
  reader <- graphReader

\* A sender that submits each of three versions until it is accepted.
Handoff == INSTANCE CampaignHandoff WITH
  Requests <- {r1}, Operations <- {"submit"}, Contents <- {c1, c2}, Lacking <- {c2},
  Accounts <- {a1, a2}, NoAccount <- None, OneByOne <- TRUE, MaxStarts <- 6, MaxFailures <- 3,
  MaxSelections <- 0, contexts <- handoffContexts, plans <- handoffPlans,
  creatives <- handoffCreatives, selection <- handoffSelection, request <- handoffRequest,
  sent <- handoffSent, answers <- handoffAnswers, starts <- handoffStarts,
  failures <- handoffFailures, selections <- handoffSelections

\* Two requests that bind targets and decide an approval.
Plan == INSTANCE CampaignPlans WITH
  Requests <- {r1, r2}, Contexts <- {1}, Targets <- {a1}, Contents <- {c1},
  CleanContents <- {c1}, Operations <- {"generate", "bind", "request", "approve"},
  Failures <- FALSE, MaxBuilds <- 3, MaxVersions <- 0, MaxApprovals <- 1, NoTarget <- None,
  plans <- planPlans, packages <- planPackages, approvals <- planApprovals, late <- planLate,
  builds <- planBuilds, reports <- planReports, request <- planRequest

\* One resolution after the other while two plans are executed.
Tracking == INSTANCE AnalystTracking WITH
  Resolutions <- {r1}, ExternalIds <- {c1}, Absent <- None, MaxPlans <- 2, MaxManifests <- 1,
  manifests <- trackingManifests, protocol <- trackingProtocol,
  registration <- trackingRegistration, registered <- trackingRegistered,
  resolution <- trackingRequest

ASSUME MachineAssumptions ==
  /\ Switch!PoolAssumption /\ Switch!TargetAssumption /\ OAuth!AttemptBound /\ OAuth!FaultAssumption
  /\ Assets!BoundAssumption /\ Assets!SwitchAssumption /\ Assets!KindsAssumption
  /\ Graph!PagesAssumption /\ Graph!CursorsAssumption
  /\ Handoff!BoundAssumption /\ Handoff!SetAssumption
  /\ Plan!BoundAssumption /\ Plan!ContentAssumption
  /\ Plan!TargetAssumption /\ Plan!OperationAssumption
  /\ Tracking!TrackingNumbersAssumption /\ Tracking!AbsentAssumption

-----------------------------------------------------------------------------

vars ==
  <<part, executionVars, switchVars, oauthVars, assetsVars, graphVars, handoffVars, planVars,
    trackingVars>>

\* The machines other than name do not exist.
Alone(name, initial) ==
  /\ initial
  /\ name = "execution" \/ ExecutionOff
  /\ name = "switch" \/ SwitchOff
  /\ name = "oauth" \/ OauthOff
  /\ name = "assets" \/ AssetsOff
  /\ name = "graph" \/ GraphOff
  /\ name = "handoff" \/ HandoffOff
  /\ name = "plan" \/ PlanOff
  /\ name = "tracking" \/ TrackingOff

SuiteInit ==
  \/ part = "execution" /\ Alone("execution", Execution!Init)
  \/ part = "switch" /\ Alone("switch", Switch!Init)
  \/ part = "oauth" /\ Alone("oauth", OAuth!Init)
  \/ part = "assets" /\ Alone("assets", Assets!Init)
  \/ part = "graph" /\ Alone("graph", Graph!Init)
  \/ part = "handoff" /\ Alone("handoff", Handoff!Init)
  \/ part = "plan" /\ Alone("plan", Plan!Init)
  \/ part = "tracking" /\ Alone("tracking", Tracking!TrackingInit)

\* Everything but the variables of one machine.
butExecution ==
  <<part, switchVars, oauthVars, assetsVars, graphVars, handoffVars, planVars, trackingVars>>
butSwitch ==
  <<part, executionVars, oauthVars, assetsVars, graphVars, handoffVars, planVars, trackingVars>>
butOauth ==
  <<part, executionVars, switchVars, assetsVars, graphVars, handoffVars, planVars, trackingVars>>
butAssets ==
  <<part, executionVars, switchVars, oauthVars, graphVars, handoffVars, planVars, trackingVars>>
butGraph ==
  <<part, executionVars, switchVars, oauthVars, assetsVars, handoffVars, planVars, trackingVars>>
butHandoff ==
  <<part, executionVars, switchVars, oauthVars, assetsVars, graphVars, planVars, trackingVars>>
butPlan ==
  <<part, executionVars, switchVars, oauthVars, assetsVars, graphVars, handoffVars, trackingVars>>
butTracking ==
  <<part, executionVars, switchVars, oauthVars, assetsVars, graphVars, handoffVars, planVars>>

SuiteNext ==
  \/ part = "execution" /\ Execution!Next /\ UNCHANGED butExecution
  \/ part = "switch" /\ Switch!Next /\ UNCHANGED butSwitch
  \/ part = "oauth" /\ OAuth!Next /\ UNCHANGED butOauth
  \/ part = "assets" /\ Assets!Next /\ UNCHANGED butAssets
  \/ part = "graph" /\ Graph!Next /\ UNCHANGED butGraph
  \/ part = "handoff" /\ Handoff!Next /\ UNCHANGED butHandoff
  \/ part = "plan" /\ Plan!Next /\ UNCHANGED butPlan
  \/ part = "tracking" /\ Tracking!TrackingNext /\ UNCHANGED butTracking
  \/ UNCHANGED vars

\* The steps that a server, a sender or a job that goes on takes sooner or later, by who
\* takes them: the first and the second request of a machine.
FirstGoesOn ==
  \/ part = "execution" /\ Execution!Request(w1) /\ UNCHANGED butExecution
  \/ part = "oauth" /\ OAuth!Step(r1) /\ UNCHANGED butOauth
  \/ part = "graph" /\ Graph!Step /\ UNCHANGED butGraph
  \/ part = "handoff" /\ Handoff!Step(r1) /\ UNCHANGED butHandoff
  \/ part = "plan" /\ Plan!Step(r1) /\ UNCHANGED butPlan
  \/ part = "tracking" /\ Tracking!Resolve(r1) /\ UNCHANGED butTracking

SecondGoesOn ==
  \/ part = "execution" /\ Execution!Request(w2) /\ UNCHANGED butExecution
  \/ part = "oauth" /\ OAuth!Step(r2) /\ UNCHANGED butOauth
  \/ part = "handoff" /\ (\E d \in Drafts : Handoff!Submit(r1, d)) /\ UNCHANGED butHandoff
  \/ part = "plan" /\ Plan!Step(r2) /\ UNCHANGED butPlan
  \/ part = "tracking" /\ Tracking!Again(r1) /\ UNCHANGED butTracking

\* Those that wait for a connection of the pool, or for the lock of a row: both are given
\* in turn.
FirstIsServed ==
  \/ part = "switch" /\ Switch!ChangeStep(s1) /\ UNCHANGED butSwitch
  \/ part = "assets" /\ Assets!Step(r1) /\ UNCHANGED butAssets

SecondIsServed ==
  \/ part = "switch" /\ Switch!ChangeStep(s2) /\ UNCHANGED butSwitch
  \/ part = "assets" /\ Assets!Step(r2) /\ UNCHANGED butAssets

ThirdIsServed == part = "switch" /\ Switch!ReadingStep(s3) /\ UNCHANGED butSwitch

\* A machine whose steps these are is the only one that moves: each condition is the
\* fairness that its own module is given.
SuiteSpec ==
  /\ SuiteInit /\ [][SuiteNext]_vars
  /\ WF_vars(FirstGoesOn) /\ WF_vars(SecondGoesOn)
  /\ SF_vars(FirstIsServed) /\ SF_vars(SecondIsServed)
  /\ SF_vars(ThirdIsServed)

-----------------------------------------------------------------------------
(* Properties.                                                             *)

Requested == <<r1, r2>>
Changed == <<s1, s2>>
Attempt == CHOOSE m \in Execution!Manifests : TRUE

\* What is under way: an attempt, a change or a reading of a switch, a secret that a
\* callback holds, a request about assets, a list being read, a version submitted, an
\* approval of a replaced plan, a confirmed campaign that is not registered.
UnderWay(i) ==
  \/ part = "execution" /\ i < 3 /\ Execution!AttemptStatus(Attempt, i) = "running"
  \/ part = "switch" /\ i < 3 /\ switchChange[Changed[i]].pc # "idle"
  \/ part = "switch" /\ i = 3 /\ switchReading[s3].pc # "idle"
  \/ part = "oauth" /\ i < 3 /\ OAuth!CustodyOf(i) = "held"
  \/ part = "assets" /\ i < 3 /\ assetsRequest[Requested[i]].pc # "idle"
  \/ part = "graph" /\ i = 1 /\ graphReader.pc # "done"
  \/ part = "handoff" /\ i \in handoffSent /\ ~Handoff!Answered(i)
  \/ part = "plan" /\ i = 1 /\ Plan!ReplacedApproval(i)
  \/ part = "tracking" /\ i = 1 /\ Tracking!LatestIsConfirmed /\ trackingRegistration = None

\* An approval of a replaced plan is settled only when it is not approved any more.
Settled(i) ==
  IF part = "plan" THEN i \in DOMAIN planApprovals /\ planApprovals[i].status # "approved"
  ELSE ~UnderWay(i)

\* Whatever fails or interferes, what is under way comes to its end: no request waits for
\* ever for a connection or a lock, no answer of Meta leaves an attempt running, no secret
\* is left with a callback, a package that is submitted again arrives, the approval of a
\* replaced plan ends and a registration that failed is made up for.
PromisesAreKept == \A i \in 1..3 : UnderWay(i) ~> Settled(i)

\* An attempt that begins ends in success or with the campaign's switch engaged
\* (an operator may release it later): a failure never leaves writes open.
AttemptsEngageOrSucceed ==
  \A a \in 1..2 :
    (part = "execution" /\ Execution!AttemptStatus(Attempt, a) = "running")
      ~> /\ part = "execution"
         /\ \/ Execution!AttemptStatus(Attempt, a) = "succeeded"
            \/ Execution!Latest(campaign) = "engaged"
=============================================================================
