----------------------------- MODULE MCCampaign -----------------------------
(***************************************************************************)
(* Instances of CampaignHandoff, PackageMapping, PlanObjects and           *)
(* ReadinessEvidence for TLC.  One machine runs in each behaviour: part    *)
(* says which, and the variables of the others never change.               *)
(***************************************************************************)
EXTENDS CampaignHandoff, ReadinessEvidence, TLC

CONSTANTS
  r1,      \* a request
  a1,      \* an ad account
  c1, c2,  \* contents of a package
  Off      \* the value of the variables of a machine that stands still

VARIABLES
  part,  \* the machine that runs; the others stand still
  \* those of PackageMapping
  mappingPackage, mappingStage, mappingAnswer, mappingInputs, mappingIssues,
  \* those of PlanObjects
  objectsPlan, objectsPackage, objectsManifest

-----------------------------------------------------------------------------
(* The machines.  CampaignHandoff and ReadinessEvidence are extended, with *)
(* the bounds of all their instances.                                      *)

mappingVars ==
  <<mappingPackage, mappingStage, mappingAnswer, mappingInputs, mappingIssues>>

MappingOff ==
  /\ mappingPackage = Off /\ mappingStage = Off /\ mappingAnswer = Off /\ mappingInputs = Off
  /\ mappingIssues = Off

objectsVars ==
  <<objectsPlan, objectsPackage, objectsManifest>>

ObjectsOff ==
  /\ objectsPlan = Off /\ objectsPackage = Off /\ objectsManifest = Off

\* Two versions of a package, and another content for the first.
FirstDraft == [version |-> 1, content |-> c1]
Rewritten == {FirstDraft, [version |-> 1, content |-> c2], [version |-> 2, content |-> c1]}

\* Submissions that may fail, and versions of the context that the operator appends.
Appending == INSTANCE CampaignHandoff WITH
  Operations <- {"submit", "update", "generate"}, MaxStarts <- 3

\* Submissions of one package, and the plans the operator generates, revises and binds.
Binding == INSTANCE CampaignHandoff WITH
  Operations <- {"submit", "generate", "revise", "bind"}, Contents <- {c1}, Lacking <- {},
  Drafts <- {FirstDraft}

\* All lists of up to three ads and two media.
Ads == INSTANCE PackageMapping WITH
  Amounts <- {10}, Durations <- {1}, Ages <- {0}, AdRefs <- {"a", "b", "c"},
  MediaIds <- {"a", "m"}, Texts <- {"fits"}, Checksums <- {"lower", "upper"}, Sizes <- {0, 1},
  MaxAds <- 3, MaxMedia <- 2, package <- mappingPackage, stage <- mappingStage,
  answer <- mappingAnswer, inputs <- mappingInputs, issues <- mappingIssues

\* Budgets, durations, ages and limits of one ad.
Budget == INSTANCE PackageMapping WITH
  Amounts <- {0, 1, 4, 5, 6, 9, 10, 14, 15, 16}, Durations <- {0, 1},
  Ages <- {0, 17, 18, 65, 66}, AdRefs <- {"", "a"}, MediaIds <- {"m"},
  Texts <- {"none", "fits", "long"}, Checksums <- {"lower", "other"}, Sizes <- {1},
  MaxAds <- 1, MaxMedia <- 1, package <- mappingPackage, stage <- mappingStage,
  answer <- mappingAnswer, inputs <- mappingInputs, issues <- mappingIssues

\* Two items, one of which must carry a message; a file that cannot be fetched; a claim
\* with the name of a text.
Copies == {[id |-> "a", whatsapp |-> FALSE, message |-> FALSE],
           [id |-> "b", whatsapp |-> TRUE, message |-> TRUE],
           [id |-> "c", whatsapp |-> TRUE, message |-> FALSE]}
Assets == {[id |-> "m", https |-> TRUE], [id |-> "n", https |-> TRUE],
           [id |-> "n", https |-> FALSE]}
Claims == {[id |-> "a", sources |-> 1], [id |-> "d", sources |-> 0]}

\* Plans of small budgets and all packages of at most two items a list.
Objects == INSTANCE PlanObjects WITH
  Amounts <- {3}, Days <- {2, 3}, Precision <- 3, Checks <- {"claimsVerified"}, MaxItems <- 2,
  plan <- objectsPlan, package <- objectsPackage, manifest <- objectsManifest

\* Two requests about one plan while a fact changes.
Together == INSTANCE ReadinessEvidence WITH Failures <- FALSE, MaxChanges <- 1

\* One request after the other, whose queries may fail.
Sequence == INSTANCE ReadinessEvidence WITH Evaluations <- {r1}, MaxReports <- 2

ASSUME MachineAssumptions ==
  /\ Appending!BoundAssumption /\ Appending!SetAssumption
  /\ Binding!BoundAssumption /\ Binding!SetAssumption
  /\ Ads!NumberAssumption /\ Ads!NameAssumption
  /\ Budget!NumberAssumption /\ Budget!NameAssumption
  /\ Objects!NumberAssumption
  /\ Together!EvidenceBounds /\ Sequence!EvidenceBounds

-----------------------------------------------------------------------------

sides == <<part, mappingVars, objectsVars, evidenceVars>>

\* Requests that come together find a plan that is approved, with its creatives and the
\* capabilities it needs, one of which may change; the requests that come in turn begin with
\* any plan.
Granted == facts.approvals # <<>> /\ facts.creative /\ facts.capabilities.available

\* Nothing is submitted, and nothing is evaluated.
NoHandoff == Init /\ selection = a1
NoEvidence ==
  EvidenceInit /\ facts.creative /\ facts.approvals = <<>> /\ facts.capabilities = NoSnapshot

SuiteInit ==
  \/ part = "appending" /\ Appending!Init /\ MappingOff /\ ObjectsOff /\ NoEvidence
  \/ part = "binding" /\ Binding!Init /\ MappingOff /\ ObjectsOff /\ NoEvidence
  \/ part = "ads" /\ NoHandoff /\ Ads!Init /\ ObjectsOff /\ NoEvidence
  \/ part = "budget" /\ NoHandoff /\ Budget!Init /\ ObjectsOff /\ NoEvidence
  \/ part = "objects" /\ NoHandoff /\ MappingOff /\ Objects!Init /\ NoEvidence
  \/ part = "together" /\ NoHandoff /\ MappingOff /\ ObjectsOff /\ EvidenceInit /\ Granted
  \/ part = "sequence" /\ NoHandoff /\ MappingOff /\ ObjectsOff /\ EvidenceInit

\* Over its bounds a submission or a mapping may stop.
Rest == part \in {"appending", "binding", "ads", "budget"} /\ UNCHANGED <<vars, sides>>

SuiteNext ==
  \/ part = "appending" /\ Appending!Next /\ UNCHANGED sides
  \/ part = "binding" /\ Binding!Next /\ UNCHANGED sides
  \/ part = "ads" /\ Ads!Next /\ UNCHANGED <<vars, part, objectsVars, evidenceVars>>
  \/ part = "budget" /\ Budget!Next /\ UNCHANGED <<vars, part, objectsVars, evidenceVars>>
  \/ part = "objects" /\ Objects!Next /\ UNCHANGED <<vars, part, mappingVars, evidenceVars>>
  \/ /\ \/ part = "together" /\ Together!EvidenceNext
        \/ part = "sequence" /\ Sequence!EvidenceNext
     /\ UNCHANGED <<vars, part, mappingVars, objectsVars>>
  \/ Rest

SuiteSpec == SuiteInit /\ [][SuiteNext]_<<vars, sides>>

Symmetry == Permutations(Requests \cup Evaluations)

-----------------------------------------------------------------------------
(* Properties.                                                             *)

\* What is accepted can be created: ads keep their images, a budget is a closest amount
\* and what is refused is explained; the objects of a plan have an order for the dry run,
\* an ad has a creative of its own, the manifest creates the pairs that were approved,
\* once each, and the ceiling people approve is the exact product.
ObjectsCanBeCreated ==
  /\ part = "ads" => Ads!AdsKeepTheirImage /\ Ads!IssuesAreExplained
  /\ part = "budget" => Budget!BudgetIsClosest
  /\ part = "objects" => /\ Objects!CanBeOrdered /\ Objects!AdsAndCreativesPair
                         /\ Objects!ManifestCreatesApprovedPairs /\ Objects!CeilingIsExact
=============================================================================
