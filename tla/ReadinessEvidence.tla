------------------------- MODULE ReadinessEvidence -------------------------
(***************************************************************************)
(* The evidence about one plan: the dry run that evaluates it query by     *)
(* query, the readiness decision that is stored once per evidence, and the *)
(* execution manifest that rests on a decision that is ready.  The facts   *)
(* move on while the queries of a request are under way.                   *)
(***************************************************************************)
EXTENDS Naturals, Sequences, FiniteSets

CONSTANTS
  Evaluations, \* concurrent requests
  Failures,    \* whether a query may fail
  MaxReports,  \* bound: reports built
  MaxChanges   \* bound: changes of the facts

ASSUME EvidenceBounds == MaxReports \in Nat /\ MaxChanges \in Nat /\ Failures \in BOOLEAN

VARIABLES
  facts,     \* what the queries find now
  reports,   \* execution_simulation_reports, in the order of insertion
  decisions, \* operational_readiness_decisions
  manifests, \* execution_manifests
  clock,     \* reports stamped so far: what generated_at is read from
  changes,   \* changes of the facts so far
  evaluation \* [Evaluations -> the local state of the request]

evidenceVars == <<facts, reports, decisions, manifests, clock, changes, evaluation>>

\* A validation of the capabilities replaces the snapshot; 0: none is stored.
Snapshot == [id : Nat, available : BOOLEAN]
ApprovalStatus == {"pending", "approved", "ended"}

\* What the checks of a dry run found, with the evidence they name.  proved is
\* FALSE when a query about the target failed.
Checks == [proved : BOOLEAN, listed : BOOLEAN, capabilities : Snapshot,
           approval : Nat, status : ApprovalStatus \cup {"none", "unproved"},
           creative : BOOLEAN]

\* since (history): the reports that were stored when its request began.
Report == [checks : Checks, at : Nat, since : Nat]
Decision == [checks : Checks, report : Nat]
Manifest == [decision : Nat, report : Nat]

NoSnapshot == [id |-> 0, available |-> FALSE]
NoChecks == [proved |-> TRUE, listed |-> FALSE, capabilities |-> NoSnapshot,
             approval |-> 0, status |-> "none", creative |-> FALSE]

EvaluationPC == {"idle", "account", "capabilities", "approval", "creative",
                 "saving", "deciding", "preparing", "answered"}

\* hopeless (history): when it began, what its approval needs was lost for good.
NoEvaluation ==
  [pc |-> "idle", op |-> "evaluate", seen |-> NoChecks, at |-> 0, report |-> 0,
   decision |-> 0, manifest |-> 0, hopeless |-> FALSE, since |-> 0]
Evaluation ==
  [pc : EvaluationPC, op : {"evaluate", "prepare"}, seen : Checks, at : Nat,
   report : Nat, decision : Nat, manifest : Nat, hopeless : BOOLEAN, since : Nat]

\* The target of the plan was listed when it was bound; it may have been validated,
\* and the plan approved, before anyone evaluates it.
EvidenceInit ==
  /\ facts \in [current : {TRUE}, listed : {TRUE}, creative : BOOLEAN,
                capabilities : {NoSnapshot, [id |-> 1, available |-> TRUE]},
                approvals : {<<>>, <<"approved">>}]
  /\ reports = <<>> /\ decisions = <<>> /\ manifests = <<>>
  /\ clock = 0 /\ changes = 0
  /\ evaluation = [r \in Evaluations |-> NoEvaluation]

-----------------------------------------------------------------------------
(* What a dry run concludes.                                               *)

Keys == {"meta_connection", "ad_account_binding", "write_capabilities",
         "creative_approval", "plan_approval"}

PassedKeys(checks) ==
  (IF checks.proved THEN {"meta_connection"} ELSE {})
    \cup (IF checks.proved /\ checks.listed THEN {"ad_account_binding"} ELSE {})
    \cup (IF checks.capabilities.available THEN {"write_capabilities"} ELSE {})
    \cup (IF checks.creative THEN {"creative_approval"} ELSE {})
    \cup (IF checks.status = "approved" THEN {"plan_approval"} ELSE {})

\* What is missing; the order of PRIORITY only matters for how it is shown.
Blockers(checks) == Keys \ PassedKeys(checks)

DecisionStatus(checks) ==
  IF Blockers(checks) = {} THEN "ready_for_executor_validation" ELSE "action_required"

\* The reports of a plan are read by generated_at, which is set before the insert.  Nothing
\* here depends on when a decision or a manifest was generated.
LatestRow(rows) ==
  IF rows = <<>> THEN 0
  ELSE CHOOSE i \in DOMAIN rows : \A j \in DOMAIN rows : rows[j].at <= rows[i].at

-----------------------------------------------------------------------------
(* The facts.                                                              *)

Change(new) ==
  /\ changes < MaxChanges
  /\ changes' = changes + 1
  /\ facts' = new
  /\ UNCHANGED <<reports, decisions, manifests, clock, evaluation>>

Supersede == facts.current /\ Change([facts EXCEPT !.current = FALSE])
Discover == Change([facts EXCEPT !.listed = ~facts.listed])
NewCreative == facts.creative /\ Change([facts EXCEPT !.creative = FALSE])

\* A validation writes a new snapshot; a validation of other capabilities writes
\* one without those the plan needs.
Validate ==
  \/ \E available \in BOOLEAN :
       Change([facts EXCEPT !.capabilities = [id |-> changes + 2, available |-> available]])
  \/ facts.capabilities # NoSnapshot /\ Change([facts EXCEPT !.capabilities = NoSnapshot])

\* One approval of a plan is active at a time.
ActiveApprovals == {a \in DOMAIN facts.approvals : facts.approvals[a] # "ended"}

Approvals ==
  \/ /\ ActiveApprovals = {}
     /\ Change([facts EXCEPT !.approvals = Append(@, "pending")])
  \/ \E a \in ActiveApprovals, status \in {"approved", "ended"} :
       /\ facts.approvals[a] # status
       /\ Change([facts EXCEPT !.approvals[a] = status])

-----------------------------------------------------------------------------
(* The requests.                                                           *)

Rows == <<facts, reports, decisions, manifests, changes>>
Proceeds(r, local) == evaluation' = [evaluation EXCEPT ![r] = local]

\* The approval a request evaluates when it is given none.
CarriedApproval == IF reports = <<>> THEN 0 ELSE reports[LatestRow(reports)].checks.approval

\* (history) An approval of the plan can no longer lead to a manifest.
LostGrounds(a) == ~facts.current \/ ~facts.creative \/ (a # 0 /\ facts.approvals[a] = "ended")

Begin(r, op, approval) ==
  /\ evaluation[r].pc = "idle"
  /\ LET a == IF approval = 0 THEN CarriedApproval ELSE approval IN
     Proceeds(r, [NoEvaluation EXCEPT !.pc = "account", !.op = op, !.seen.approval = a,
       !.hopeless = LostGrounds(a), !.since = Len(reports)])
  /\ UNCHANGED <<Rows, clock>>

\* An operator asks for the readiness, or binds creatives: no approval is named.
Evaluate(r) == Begin(r, "evaluate", 0)

\* The readiness that goes with the answer to a request or a decision of approval.
Present(r) == \E a \in DOMAIN facts.approvals : Begin(r, "evaluate", a)

\* A manifest is prepared, with or without naming an approval.  The plan is looked
\* up here as well; the dry run looks it up again.
Prepare(r) == \E a \in 0..Len(facts.approvals) : Begin(r, "prepare", a)

\* currentPlan, then the assets of the connection.  A plan that is superseded stays
\* superseded and nothing later depends on it: the two reads are one step.
ReadAccount(r) ==
  /\ evaluation[r].pc = "account" /\ facts.current
  /\ Proceeds(r, [evaluation[r] EXCEPT !.pc = "capabilities", !.seen.listed = facts.listed])
  /\ UNCHANGED <<Rows, clock>>

NotCurrent(r) ==
  /\ evaluation[r].pc = "account" /\ ~facts.current
  /\ Proceeds(r, NoEvaluation)
  /\ UNCHANGED <<Rows, clock>>

ReadCapabilities(r) ==
  /\ evaluation[r].pc = "capabilities"
  /\ Proceeds(r, [evaluation[r] EXCEPT !.pc = "approval", !.seen.capabilities = facts.capabilities])
  /\ UNCHANGED <<Rows, clock>>

\* A query about the target fails: the dry run goes on, the target is not proved.
TargetUnproved(r) ==
  /\ Failures
  /\ evaluation[r].pc \in {"account", "capabilities"} /\ (evaluation[r].pc = "account" => facts.current)
  /\ Proceeds(r, [evaluation[r] EXCEPT !.pc = "approval", !.seen.proved = FALSE, !.seen.listed = FALSE])
  /\ UNCHANGED <<Rows, clock>>

ReadApproval(r) ==
  /\ evaluation[r].pc = "approval"
  /\ LET a == evaluation[r].seen.approval IN
     Proceeds(r, [evaluation[r] EXCEPT !.pc = "creative",
       !.seen.status = IF a = 0 THEN "none" ELSE facts.approvals[a]])
  /\ UNCHANGED <<Rows, clock>>

\* A failing query about the approval is caught as well.
ApprovalUnproved(r) ==
  /\ Failures
  /\ evaluation[r].pc = "approval" /\ evaluation[r].seen.approval # 0
  /\ Proceeds(r, [evaluation[r] EXCEPT !.pc = "creative", !.seen.status = "unproved"])
  /\ UNCHANGED <<Rows, clock>>

\* The last check; the report is built, and stamped, when it is read.
ReadCreativeCheck(r) ==
  /\ evaluation[r].pc = "creative" /\ clock < MaxReports
  /\ clock' = clock + 1
  /\ Proceeds(r, [evaluation[r] EXCEPT !.pc = "saving", !.at = clock', !.seen.creative = facts.creative])
  /\ UNCHANGED Rows

BuiltReport(r) ==
  [checks |-> evaluation[r].seen, at |-> evaluation[r].at, since |-> evaluation[r].since]

\* simulations.save.
SaveReport(r) ==
  /\ evaluation[r].pc = "saving"
  /\ reports' = Append(reports, BuiltReport(r))
  /\ Proceeds(r, [evaluation[r] EXCEPT !.pc = "deciding", !.at = 0, !.report = Len(reports'),
       !.since = 0])
  /\ UNCHANGED <<facts, decisions, manifests, clock, changes>>

\* Mutant: the hash covers what the checks conclude and not the evidence they name.
SameConclusion(a, b) == PassedKeys(a) = PassedKeys(b)

\* decisionHash covers the checks and the evidence they name.
SameEvidence(a, b) == a = b

\* saveIdempotent: inserts, or returns the row with the same hash.
StoredDecision(checks) == {i \in DOMAIN decisions : SameEvidence(decisions[i].checks, checks)}

BuiltDecision(r) == [checks |-> evaluation[r].seen, report |-> evaluation[r].report]

SaveDecision(r) ==
  /\ evaluation[r].pc = "deciding"
  /\ LET found == StoredDecision(evaluation[r].seen)
         answer == IF found = {} THEN Len(decisions) + 1 ELSE CHOOSE i \in found : TRUE
         prepares == evaluation[r].op = "prepare"
                       /\ DecisionStatus(decisions'[answer].checks) # "action_required" IN
     /\ decisions' = IF found # {} THEN decisions ELSE Append(decisions, BuiltDecision(r))
     /\ Proceeds(r, [evaluation[r] EXCEPT !.decision = answer, !.report = 0,
          !.pc = IF prepares THEN "preparing" ELSE "answered"])
  /\ UNCHANGED <<facts, reports, manifests, clock, changes>>

\* The dry run a manifest rests on: that of the decision, not the one just made.
BuiltManifest(r) ==
  [decision |-> evaluation[r].decision, report |-> decisions[evaluation[r].decision].report]

\* prepare: saveIdempotent of the manifest; manifestHash covers the decision and
\* the dry run.
SaveManifest(r) ==
  /\ evaluation[r].pc = "preparing"
  /\ LET same == {i \in DOMAIN manifests : manifests[i] = BuiltManifest(r)} IN
     /\ manifests' = IF same # {} THEN manifests ELSE Append(manifests, BuiltManifest(r))
     /\ Proceeds(r, [evaluation[r] EXCEPT !.pc = "answered",
          !.manifest = IF same # {} THEN CHOOSE i \in same : TRUE ELSE Len(manifests')])
  /\ UNCHANGED <<facts, reports, decisions, clock, changes>>

\* An answered request ends, a request whose statement fails ends at once, and
\* over the bound nothing is built.
EndEvaluation(r) ==
  /\ \/ evaluation[r].pc = "answered"
     \/ Failures /\ evaluation[r].pc \in {"creative", "saving", "deciding", "preparing"}
     \/ evaluation[r].pc = "creative" /\ clock = MaxReports
  /\ Proceeds(r, NoEvaluation)
  /\ UNCHANGED <<Rows, clock>>

EvidenceNext ==
  \/ Supersede \/ Discover \/ NewCreative \/ Validate \/ Approvals
  \/ \E r \in Evaluations :
       \/ Evaluate(r) \/ Present(r) \/ Prepare(r)
       \/ ReadAccount(r) \/ NotCurrent(r) \/ ReadCapabilities(r) \/ TargetUnproved(r)
       \/ ReadApproval(r) \/ ApprovalUnproved(r) \/ ReadCreativeCheck(r)
       \/ SaveReport(r) \/ SaveDecision(r) \/ SaveManifest(r) \/ EndEvaluation(r)

EvidenceSpec == EvidenceInit /\ [][EvidenceNext]_evidenceVars

-----------------------------------------------------------------------------
(* Properties.                                                             *)

\* Whatever the stored decision it was answered with, a manifest that a request
\* obtains rests on a dry run that found exactly what this request just found:
\* passing checks, with the same approval, snapshot and account (generate, prepare).
ManifestsRestOnFreshEvidence ==
  \A r \in Evaluations : evaluation[r].manifest # 0 =>
    LET manifest == manifests[evaluation[r].manifest] IN
    /\ reports[manifest.report].checks = evaluation[r].seen
    /\ Blockers(evaluation[r].seen) = {}

\* Requests that find the same evidence, at the same time or not, are answered with
\* one decision and one manifest, although each makes a dry run of its own.
OneManifestPerEvidence ==
  /\ \A i, j \in DOMAIN decisions :
       decisions[i].checks = decisions[j].checks => i = j
  /\ \A i, j \in DOMAIN manifests :
       reports[manifests[i].report].checks = reports[manifests[j].report].checks => i = j

\* A request that began when its approval had ended, a new creative version had
\* replaced the plan's or the plan had been superseded prepares nothing, whatever
\* earlier dry runs found.
LostGroundsPrepareNothing ==
  \A r \in Evaluations : evaluation[r].hopeless => evaluation[r].manifest = 0

\* The requests of two reports were under way at the same time.
Overlap(i, j) == reports[i].since < j /\ reports[j].since < i

\* A request that names no approval evaluates the one that was last presented ("reuses the
\* latest approval reference"): only a request that runs beside the one that presented it
\* makes the plan forget it.
ApprovalCarriedOver ==
  \A i, j \in DOMAIN reports :
    (i < j /\ reports[i].checks.approval # 0 /\ reports[j].checks.approval = 0)
      => \E k \in 1..j : k # i /\ Overlap(i, k)

\* Requests that find the same evidence share one decision and one manifest; a manifest
\* rests on a dry run that found what its own request just found; what was lost before a
\* request began prepares nothing; and a request that names no approval goes on with the
\* one presented last.
EvidenceIsShared ==
  /\ ManifestsRestOnFreshEvidence /\ OneManifestPerEvidence /\ LostGroundsPrepareNothing
  /\ ApprovalCarriedOver

-----------------------------------------------------------------------------
(* Why they hold: what a request has found and stored so far.              *)

EvidenceTypeOK ==
  /\ facts \in [current : BOOLEAN, listed : BOOLEAN, creative : BOOLEAN,
               capabilities : Snapshot, approvals : Seq(ApprovalStatus)]
  /\ reports \in Seq(Report) /\ decisions \in Seq(Decision) /\ manifests \in Seq(Manifest)
  /\ clock \in 0..MaxReports /\ changes \in 0..MaxChanges
  /\ evaluation \in [Evaluations -> Evaluation]

\* A decision rests on a report with its checks, a manifest on a decision without blockers.
RowsAreGrounded ==
  /\ \A i \in DOMAIN reports : reports[i].checks.approval \in 0..Len(facts.approvals)
  /\ \A i \in DOMAIN decisions : /\ decisions[i].report \in DOMAIN reports
                                /\ reports[decisions[i].report].checks = decisions[i].checks
  /\ \A i \in DOMAIN manifests :
       /\ manifests[i].decision \in DOMAIN decisions
       /\ manifests[i].report = decisions[manifests[i].decision].report
       /\ Blockers(decisions[manifests[i].decision].checks) = {}

\* What is unique in the tables: the hash of a decision, and that of a manifest.
RowsAreUnique ==
  /\ \A i, j \in DOMAIN decisions : decisions[i].checks = decisions[j].checks => i = j
  /\ \A i, j \in DOMAIN manifests : manifests[i].decision = manifests[j].decision => i = j

\* Reports are stamped in the order of their requests, when these did not overlap; one of
\* them is the latest.
ReportsAreInOrder ==
  /\ \A i \in DOMAIN reports : reports[i].since < i /\ reports[i].at <= clock
  /\ \A i, j \in DOMAIN reports : i <= reports[j].since => reports[i].at < reports[j].at
  /\ reports # <<>> => \E m \in DOMAIN reports : \A j \in DOMAIN reports :
                        reports[j].at <= reports[m].at

WithReport == {"deciding", "preparing", "answered"}

\* What the rows hold of a request.
HasRows(r) ==
  LET q == evaluation[r]
  IN /\ q.since <= Len(reports)
     /\ q.seen.approval \in 0..Len(facts.approvals)
     /\ q.pc = "saving" => /\ q.at <= clock
                           /\ \A i \in 1..q.since : reports[i].at < q.at
     /\ q.pc = "deciding" => /\ q.report \in DOMAIN reports
                             /\ reports[q.report].checks = q.seen
     /\ q.pc \in {"preparing", "answered"} => /\ q.decision \in DOMAIN decisions
                                             /\ decisions[q.decision].checks = q.seen
     /\ q.pc = "preparing" => Blockers(q.seen) = {}
     /\ q.manifest # 0 => /\ q.pc = "answered" /\ q.manifest \in DOMAIN manifests
                          /\ manifests[q.manifest].decision = q.decision

\* What was lost when a request began is not found again.
IsHopeless(r) ==
  LET q == evaluation[r]
      ended == q.seen.approval # 0 /\ facts.approvals[q.seen.approval] = "ended"
  IN q.hopeless =>
       /\ q.pc = "account" => ~facts.current \/ ~facts.creative \/ ended
       /\ q.pc \in {"capabilities", "approval"} => ~facts.creative \/ ended
       /\ q.pc = "creative" => ~facts.creative \/ q.seen.status # "approved"
       /\ q.pc \in {"saving"} \cup WithReport => ~q.seen.creative \/ q.seen.status # "approved"

\* A request that evaluates no approval found none, or one that an overlapping request
\* made the plan forget.
Forgets(r) ==
  LET q == evaluation[r]
  IN (q.pc \notin {"idle"} \cup WithReport /\ q.seen.approval = 0) =>
       \A i \in 1..q.since : reports[i].checks.approval # 0 =>
         \E k \in DOMAIN reports : k # i /\ Overlap(i, k)

EvidenceInvariant ==
  /\ EvidenceTypeOK /\ RowsAreGrounded /\ RowsAreUnique /\ ReportsAreInOrder
  /\ ApprovalCarriedOver
  /\ \A r \in Evaluations : HasRows(r) /\ IsHopeless(r) /\ Forgets(r)
=============================================================================
