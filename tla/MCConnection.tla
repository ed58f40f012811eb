---------------------------- MODULE MCConnection ----------------------------
(***************************************************************************)
(* Instances of MetaOAuth, MetaAssets and GraphReading, and of the modules *)
(* of the Analyst, for TLC.  One machine runs in each behaviour: part says *)
(* which, and the variables of the others never change.                    *)
(***************************************************************************)
EXTENDS MetaOAuth, TLC

CONSTANTS
  a1, a2, page1, phone1, \* ad accounts, a page, a phone number
  c1, c2, c3, c4,         \* cursors, and campaigns of Meta
  None,
  Off                     \* the value of the variables of a machine that stands still

VARIABLES
  part,  \* the machine that runs; the others stand still
  \* those of MetaOAuth
  wideConnection, wideAttempts, wideVault, wideCompensations, wideRequest, wideFaults, wideUsed,
  \* those of MetaAssets
  assetsOffered, assetsGranted, assetsDiscovered, assetsSelected, assetsCapabilities,
  assetsReports, assetsSnapshots, assetsLock, assetsRequest, assetsStarts, assetsChanges,
  \* those of GraphReading
  graphNext, graphReader,
  \* those of AnalystPairs
  pairCurrent, pairPrevious, pairConstraints,
  \* those of Analyst
  analystClock, analystCollected, analystAnalysis, analystDecisions, analystLearnings,
  analystRequest, analystPast,
  \* those of AnalystTracking
  trackingManifests, trackingProtocol, trackingRegistration, trackingRegistered,
  trackingRequest,
  \* those of AnalystCollector
  jobPc, jobTargets, jobTotals, jobResults

-----------------------------------------------------------------------------
(* The machines.  MetaOAuth is the one that is extended, with statements   *)
(* that fail and processes that stop.                                      *)

wideVars ==
  <<wideConnection, wideAttempts, wideVault, wideCompensations, wideRequest, wideFaults,
      wideUsed>>

WideOff ==
  /\ wideConnection = Off /\ wideAttempts = Off /\ wideVault = Off /\ wideCompensations = Off
  /\ wideRequest = Off /\ wideFaults = Off /\ wideUsed = Off

assetsVars ==
  <<assetsOffered, assetsGranted, assetsDiscovered, assetsSelected, assetsCapabilities,
      assetsReports, assetsSnapshots, assetsLock, assetsRequest, assetsStarts, assetsChanges>>

AssetsOff ==
  /\ assetsOffered = Off /\ assetsGranted = Off /\ assetsDiscovered = Off
  /\ assetsSelected = Off /\ assetsCapabilities = Off /\ assetsReports = Off
  /\ assetsSnapshots = Off /\ assetsLock = Off /\ assetsRequest = Off /\ assetsStarts = Off
  /\ assetsChanges = Off

graphVars ==
  <<graphNext, graphReader>>

GraphOff ==
  /\ graphNext = Off /\ graphReader = Off

pairVars ==
  <<pairCurrent, pairPrevious, pairConstraints>>

PairOff ==
  /\ pairCurrent = Off /\ pairPrevious = Off /\ pairConstraints = Off

analystVars ==
  <<analystClock, analystCollected, analystAnalysis, analystDecisions, analystLearnings,
      analystRequest, analystPast>>

AnalystOff ==
  /\ analystClock = Off /\ analystCollected = Off /\ analystAnalysis = Off
  /\ analystDecisions = Off /\ analystLearnings = Off /\ analystRequest = Off
  /\ analystPast = Off

trackingVars ==
  <<trackingManifests, trackingProtocol, trackingRegistration, trackingRegistered,
      trackingRequest>>

TrackingOff ==
  /\ trackingManifests = Off /\ trackingProtocol = Off /\ trackingRegistration = Off
  /\ trackingRegistered = Off /\ trackingRequest = Off

jobVars ==
  <<jobPc, jobTargets, jobTotals, jobResults>>

JobOff ==
  /\ jobPc = Off /\ jobTargets = Off /\ jobTotals = Off /\ jobResults = Off

\* Every kind of fault: statements fail, their answers are lost, the process stops.
Wide == INSTANCE MetaOAuth WITH
  Faults <- Fault, MaxFaults <- 2, MaxAttempts <- 2, connection <- wideConnection,
  attempts <- wideAttempts, vault <- wideVault, compensations <- wideCompensations,
  request <- wideRequest, faults <- wideFaults, used <- wideUsed

AssetOperations == {"discover", "select", "validateExecution", "smoke", "capture"}

\* Two requests about the assets of a connection, while Meta changes once.
Assets == INSTANCE MetaAssets WITH
  Operations <- AssetOperations, Accounts <- {a1, a2}, Pages <- {page1}, Phones <- {phone1},
  NoAsset <- None, NoRequest <- None, Faults <- TRUE, MaxStarts <- 3, MaxChanges <- 1,
  offered <- assetsOffered, granted <- assetsGranted, discovered <- assetsDiscovered,
  selected <- assetsSelected, capabilities <- assetsCapabilities, reports <- assetsReports,
  snapshots <- assetsSnapshots, lock <- assetsLock, request <- assetsRequest,
  starts <- assetsStarts, changes <- assetsChanges

\* Every list of pages of four cursors, longer than the limit or in a circle.
Graph == INSTANCE GraphReading WITH
  Cursors <- {c1, c2, c3, c4}, First <- None, Last <- Off, MaxPages <- 4, next <- graphNext,
  reader <- graphReader

\* Values on both sides of every threshold of the rules of the Analyst.
Spends == {99, 1000, 1100, 1120, 1350, 4999, 6000}
Measurements ==
  [period : {1}, status : {"ACTIVE", "PAUSED", "DISAPPROVED"}, age : {5, 6, 24},
   sinceChange : {None, 3}, impressions : {499, 500, 1500}, spend : Spends,
   results : {0, 1, 2}, cost : {None, <<900, 1>>}]
EarlierMeasurements ==
  [period : {0}, status : {"ACTIVE"}, age : {24}, sinceChange : {None},
   impressions : {1500}, spend : {0, 1000, 2500}, results : {0, 1, 2}, cost : {None}]
GivenConstraints == [minimum : {6, 12}, target : {None, 2000}]

Pair == INSTANCE AnalystPairs WITH
  Snapshots <- Measurements, Earlier <- EarlierMeasurements, Constraints <- GivenConstraints,
  current <- pairCurrent, previous <- pairPrevious, constraints <- pairConstraints

Reading(period, status, spend, results) ==
  [period |-> period, status |-> status, age |-> 24, sinceChange |-> None,
   impressions |-> 1500, spend |-> spend, results |-> results, cost |-> None]

Good    == Reading(1, "ACTIVE", 1000, 2)
Worse   == Reading(2, "ACTIVE", 2000, 1)
Blocked == Reading(2, "DISAPPROVED", 2000, 1)
Usual   == {[minimum |-> 6, target |-> None]}

\* Collections and decisions of two requests, in any order.
Deciding == INSTANCE Analyst WITH
  Kinds <- {"collect", "decide"}, Snapshots <- {Good, Worse, Blocked}, Constraints <- Usual,
  MaxClock <- 1, MaxEvents <- 1, clock <- analystClock, collected <- analystCollected,
  analysis <- analystAnalysis, decisions <- analystDecisions, learnings <- analystLearnings,
  request <- analystRequest, past <- analystPast

\* Collections, what is learned from them, and summaries.
Learning == INSTANCE Analyst WITH
  Kinds <- {"collect", "refresh", "summary"}, Snapshots <- {Good, Worse},
  Constraints <- Usual, MaxClock <- 2, MaxEvents <- 1, clock <- analystClock,
  collected <- analystCollected, analysis <- analystAnalysis, decisions <- analystDecisions,
  learnings <- analystLearnings, request <- analystRequest, past <- analystPast

\* Two resolutions while two plans are executed, and the trigger may fail.
Tracking == INSTANCE AnalystTracking WITH
  Resolutions <- Requests, ExternalIds <- {c1, c2}, Absent <- None, MaxPlans <- 2,
  MaxManifests <- 1, manifests <- trackingManifests, protocol <- trackingProtocol,
  registration <- trackingRegistration, registered <- trackingRegistered,
  resolution <- trackingRequest

\* Portfolios of up to four items: campaigns, some of them twice, and items without ids.
Job == INSTANCE AnalystCollector WITH
  Items <- {c1, c2, c3, None}, NoIds <- None, MaxItems <- 4, pc <- jobPc,
  targets <- jobTargets, totals <- jobTotals, results <- jobResults

ASSUME MachineAssumptions ==
  /\ Assets!BoundAssumption /\ Assets!SwitchAssumption /\ Assets!KindsAssumption
  /\ Graph!PagesAssumption /\ Graph!CursorsAssumption
  /\ Pair!ReadingsAssumption
  /\ Deciding!OperationsAssumption /\ Deciding!AnalystNumbersAssumption
  /\ Deciding!NoneAssumption
  /\ Learning!OperationsAssumption /\ Learning!AnalystNumbersAssumption
  /\ Learning!NoneAssumption
  /\ Tracking!TrackingNumbersAssumption /\ Tracking!AbsentAssumption
  /\ Job!ItemsAssumption /\ Job!MaxItemsAssumption

-----------------------------------------------------------------------------

sides ==
  <<part, wideVars, assetsVars, graphVars, pairVars, analystVars, trackingVars, jobVars>>

\* The machines but one stand still.
Only(name, running) ==
  /\ part = name
  /\ "wide" = running \/ WideOff
  /\ "assets" = running \/ AssetsOff
  /\ "graph" = running \/ GraphOff
  /\ "pair" = running \/ PairOff
  /\ "analyst" = running \/ AnalystOff
  /\ "tracking" = running \/ TrackingOff
  /\ "job" = running \/ JobOff

SuiteInit ==
  \/ part = "oauth" /\ Init /\ Only("oauth", "none")
  \/ part = "wide" /\ Init /\ Wide!Init /\ Only("wide", "wide")
  \/ part = "assets" /\ Init /\ Assets!Init /\ Only("assets", "assets")
  \/ part = "graph" /\ Init /\ Graph!Init /\ Only("graph", "graph")
  \/ part = "pair" /\ Init /\ Pair!Init /\ Only("pair", "pair")
  \/ part = "deciding" /\ Init /\ Deciding!Init /\ Only("deciding", "analyst")
  \/ part = "learning" /\ Init /\ Learning!Init /\ Only("learning", "analyst")
  \/ part = "tracking" /\ Init /\ Tracking!TrackingInit /\ Only("tracking", "tracking")
  \/ part = "job" /\ Init /\ Job!Init /\ Only("job", "job")

\* Judgements, jobs and the readings of lists end.
Rest == part \in {"pair", "job", "graph"} /\ UNCHANGED <<vars, sides>>

SuiteNext ==
  \/ part = "oauth" /\ Next /\ UNCHANGED sides
  \/ /\ part = "wide" /\ Wide!Next
     /\ UNCHANGED <<vars, part, assetsVars, graphVars, pairVars, analystVars, trackingVars,
                    jobVars>>
  \/ /\ part = "assets" /\ Assets!Next
     /\ UNCHANGED <<vars, part, wideVars, graphVars, pairVars, analystVars, trackingVars, jobVars>>
  \/ /\ part = "graph" /\ Graph!Next
     /\ UNCHANGED <<vars, part, wideVars, assetsVars, pairVars, analystVars, trackingVars, jobVars>>
  \/ /\ part = "pair" /\ Pair!Next
     /\ UNCHANGED <<vars, part, wideVars, assetsVars, graphVars, analystVars, trackingVars,
                    jobVars>>
  \/ /\ part = "deciding" /\ Deciding!Next
     /\ UNCHANGED <<vars, part, wideVars, assetsVars, graphVars, pairVars, trackingVars, jobVars>>
  \/ /\ part = "learning" /\ Learning!Next
     /\ UNCHANGED <<vars, part, wideVars, assetsVars, graphVars, pairVars, trackingVars, jobVars>>
  \/ /\ part = "tracking" /\ Tracking!TrackingNext
     /\ UNCHANGED <<vars, part, wideVars, assetsVars, graphVars, pairVars, analystVars, jobVars>>
  \/ /\ part = "job" /\ Job!Next
     /\ UNCHANGED <<vars, part, wideVars, assetsVars, graphVars, pairVars, analystVars,
                    trackingVars>>
  \/ Rest

SuiteSpec == SuiteInit /\ [][SuiteNext]_<<vars, sides>>

Symmetry == Permutations(Requests) \cup Permutations({a1, a2})

-----------------------------------------------------------------------------
(* Properties.                                                             *)

\* The evidence about a connection is whole: its capabilities are those of one validation,
\* one asset of each kind is selected, what Meta lists is listed, a list that was read is
\* the whole list; no discovery undoes a choice and no failure erases evidence.  And
\* whatever answers are lost, an attempt has one credential, its scope never shrinks, and
\* a secret is left in the vault only by its own callback or by what replaced it.
ConnectionIsWhole ==
  /\ [](/\ part = "assets" => /\ Assets!TypeOK /\ Assets!RegistryIsOneValidation
                              /\ Assets!OneSelectedPerKind /\ Assets!ListedIsNotDropped
        /\ part = "graph" => /\ Graph!TypeOK /\ Graph!CollectedIsComplete
                             /\ Graph!RepetitionIsNotRetried
        /\ part = "wide" => /\ Wide!TypeOK /\ Wide!OneCredentialPerAttempt
                            /\ Wide!SecretsLeftAreExplained)
  /\ [][part = "assets" => Assets!ChoiceIsKept /\ Assets!EvidenceIsNeverErased]_<<part, assetsVars>>
  /\ [][part = "wide" /\ wideConnection.credential # 0
           /\ Wide!ScopeOf(wideConnection.credential) = "execution"
         => Wide!ScopeOf(wideConnection.credential)' = "execution"]_<<part, wideVars>>

\* The Analyst agrees with itself: its services judge a pair of snapshots alike; an answer
\* is the analysis that is kept, comparisons go back in time, evidence stays as it was
\* saved and a decision is of a recommendation that was the latest; the campaign of Meta
\* is one that its own protocol confirmed; and the job's summary adds up.
AnalystAgrees ==
  /\ [](/\ part = "pair" => /\ Pair!SpendingMoreIsNotHealthier /\ Pair!LearningAgreesWithAnalysis
                            /\ Pair!BriefAndAlertAsk /\ Pair!ReviewIsLateEnough
        /\ part = "deciding" => /\ Deciding!TypeOK /\ Deciding!AnswersAreKept
                                /\ Deciding!ComparisonsGoBack
        /\ part = "learning" => Learning!AnswersAreKept /\ Learning!ComparisonsGoBack
        /\ part = "tracking" => Tracking!TrackingTypeOK /\ Tracking!RegistrationsAreConfirmed
        /\ part = "job" => Job!TotalsAddUp /\ Job!FailsWhenNothingWasCollected)
  /\ [][part = "deciding" => /\ Deciding!EvidenceIsKept
                            /\ Deciding!DecisionsAreOfARecommendation]_<<part, analystVars>>
  /\ [][part = "tracking" => Tracking!ResolverChangesAreAudited]_<<part, trackingVars>>
=============================================================================
