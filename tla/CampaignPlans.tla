--------------------------- MODULE CampaignPlans ---------------------------
(***************************************************************************)
(* The plans of one campaign and what is decided about them: plans derived *)
(* from a context, a target or a creative version; the versions of the     *)
(* creative package; the approvals of plans; and the dry run that relies   *)
(* on all three.  An action is what a request does between two awaits.     *)
(***************************************************************************)
EXTENDS Naturals, Sequences, FiniteSets, FiniteSetsExt

CONSTANTS
  Requests,      \* concurrent requests
  Contexts,      \* versions of the campaign context that are ready
  Targets,       \* ad accounts that can be bound
  Contents,      \* creative contents
  CleanContents, \* those without validation issues
  Operations,    \* bound: the operations requests perform
  Failures,      \* whether a statement, and its request, may fail
  MaxBuilds,     \* bound: plans built
  MaxVersions,   \* bound: creative versions
  MaxApprovals,  \* bound: approvals
  NoTarget

Operation == {"generate", "bind", "append", "approveCreative", "request",
              "get", "approve", "reject", "revoke", "simulate"}

ASSUME BoundAssumption == {MaxBuilds, MaxVersions, MaxApprovals} \subseteq Nat
ASSUME ContentAssumption == CleanContents \subseteq Contents
ASSUME TargetAssumption == NoTarget \notin Targets
ASSUME OperationAssumption == Operations \subseteq Operation /\ Failures \in BOOLEAN

VARIABLES
  plans,     \* execution_plans, in the order of insertion
  packages,  \* creative_package_versions: the version is the position
  approvals, \* plan_approvals
  late,      \* approvals that are past their validity
  builds,    \* plans built so far: the clock that created_at is read from
  reports,   \* dry runs that were ready_for_execution
  request    \* [Requests -> the local state of the request]

vars == <<plans, packages, approvals, late, builds, reports, request>>

PackageStatus == {"needs_review", "approved", "superseded"}

\* A hash identifies what a plan is derived from: its source plan (0: none) and
\* the change.  version and reviewed are what its creative objects refer to.
Change == [kind : {"context", "target", "creative"},
           value : Contexts \cup Targets \cup Nat, status : PackageStatus \cup {"none"}]
Plan == [source : Nat, change : Change, stamp : Nat,
         target : Targets \cup {NoTarget}, version : Nat, reviewed : BOOLEAN]
Package == [plan : Nat, content : Contents, status : PackageStatus]

Status == {"pending", "approved", "rejected", "revoked", "expired", "invalidated"}
Active == {"pending", "approved"}
\* granted: approved_at is set.
Approval == [plan : Nat, status : Status, granted : BOOLEAN]

Report == [plan : Nat, approval : Nat, version : Nat]

PC == {"idle", "saving", "invalidating", "binding", "appending", "inserting",
       "approvingCreative", "deriving", "rebinding", "requesting",
       "reading", "refreshing", "deciding", "reviewing"}

NoPlan == [source |-> 0, change |-> [kind |-> "creative", value |-> 0, status |-> "none"],
           stamp |-> 0, target |-> NoTarget, version |-> 0, reviewed |-> FALSE]

\* plan, id: the plan and the approval or version the request read.  arg: what it
\* was asked to bind or append.  new: the plan it built.  copy: a status as read.
\* seen: the approvals that were late, or the versions approved, when it looked.
Idle == [pc |-> "idle", op |-> "get", plan |-> 0, id |-> 0, arg |-> NoTarget,
         new |-> NoPlan, copy |-> "pending", seen |-> {}]

Request == [pc : PC, op : Operation, plan : Nat, id : Nat,
            arg : Targets \cup Contents \cup {NoTarget}, new : Plan,
            copy : Status, seen : SUBSET Nat]

Init ==
  /\ plans = <<>> /\ packages = <<>> /\ approvals = <<>>
  /\ late = {} /\ builds = 0 /\ reports = {}
  /\ request = [r \in Requests |-> Idle]

-----------------------------------------------------------------------------

\* The latest plan is the one with the latest created_at, which is set when the
\* plan is built: a plan that is inserted late may never be the latest.
Latest == CHOOSE i \in DOMAIN plans :
            \A j \in DOMAIN plans : plans[j].stamp <= plans[i].stamp

ActiveRows == {i \in DOMAIN approvals : approvals[i].status \in Active}

EndRows(rows, status) ==
  [i \in DOMAIN approvals |->
     IF i \in rows THEN [approvals[i] EXCEPT !.status = status] ELSE approvals[i]]

Goto(r, local) == request' = [request EXCEPT ![r] = local]
Return(r) == Goto(r, Idle)

Start(r, op) == request[r].pc = "idle" /\ op \in Operations

\* The request goes on to store the plan it built; over the bound it fails.
StampAndSave(r, local, new) ==
  \/ /\ builds < MaxBuilds
     /\ builds' = builds + 1
     /\ Goto(r, [local EXCEPT !.pc = "saving", !.new = [new EXCEPT !.stamp = builds + 1]])
  \/ builds = MaxBuilds /\ Return(r) /\ UNCHANGED builds

\* A plan derived from plan s.
Build(r, s, change, target, version, reviewed) ==
  StampAndSave(r, [request[r] EXCEPT !.plan = s],
    [source |-> s, change |-> change, stamp |-> 0,
     target |-> target, version |-> version, reviewed |-> reviewed])

-----------------------------------------------------------------------------
(* Plans.                                                                  *)

\* generate: from any ready version of the context.
Generate(r, c) ==
  /\ Start(r, "generate")
  /\ StampAndSave(r, [Idle EXCEPT !.op = "generate"],
       [NoPlan EXCEPT !.change = [kind |-> "context", value |-> c, status |-> "none"]])
  /\ UNCHANGED <<plans, packages, approvals, late, reports>>

\* The plan stored with the same idempotency key.
Persisted(new) ==
  {i \in DOMAIN plans : plans[i].source = new.source /\ plans[i].change = new.change}

\* Mutant: goes on with the plan it built although another was stored before.
SaveOwn(r) ==
  LET q == request[r]
      goOn(i) == IF q.op = "generate" THEN Return(r)
                 ELSE Goto(r, [q EXCEPT !.pc = "invalidating", !.plan = i])
  IN  /\ q.pc = "saving"
      /\ plans' = IF Persisted(q.new) = {} THEN Append(plans, q.new) ELSE plans
      /\ goOn(Len(plans) + 1)
      /\ UNCHANGED <<packages, approvals, late, builds, reports>>

\* saveIdempotent: inserts, or returns the plan that was originally stored.
\* generate invalidates nothing, the derived plans do.
Save(r) ==
  LET q == request[r]
      same == Persisted(q.new)
      goOn(i) == IF q.op = "generate" THEN Return(r)
                 ELSE Goto(r, [q EXCEPT !.pc = "invalidating", !.plan = i])
  IN  /\ q.pc = "saving"
      /\ \/ /\ same = {}
            /\ plans' = Append(plans, q.new)
            /\ goOn(Len(plans) + 1)
         \/ /\ \E i \in same : goOn(i)
            /\ UNCHANGED plans
      /\ UNCHANGED <<packages, approvals, late, builds, reports>>

\* Mutant: only pending approvals end.
InvalidatePending(r) ==
  /\ request[r].pc = "invalidating"
  /\ approvals' = EndRows({i \in ActiveRows : /\ approvals[i].plan # request[r].plan
                                              /\ approvals[i].status = "pending"},
                          "invalidated")
  /\ Return(r)
  /\ UNCHANGED <<plans, packages, late, builds, reports>>

\* invalidateForCampaignExceptHash, a transaction of its own.
Invalidate(r) ==
  /\ request[r].pc = "invalidating"
  /\ approvals' = EndRows({i \in ActiveRows : approvals[i].plan # request[r].plan},
                          "invalidated")
  /\ Return(r)
  /\ UNCHANGED <<plans, packages, late, builds, reports>>

\* Where an operation that names the current plan begins: currentPlan.
StartOnPlan(r, op, pc, local) ==
  /\ Start(r, op) /\ plans # <<>>
  /\ Goto(r, [local EXCEPT !.pc = pc, !.op = op, !.plan = Latest])
  /\ UNCHANGED <<plans, packages, approvals, late, builds, reports>>

\* bindTarget: the account is looked up in the discovered assets in between.
StartBind(r, t) == StartOnPlan(r, "bind", "binding", [Idle EXCEPT !.arg = t])

Bind(r) ==
  LET q == request[r]
      s == plans[q.plan]
  IN  /\ q.pc = "binding"
      /\ IF s.target = q.arg
         THEN Goto(r, [q EXCEPT !.pc = "invalidating"]) /\ UNCHANGED builds
         ELSE Build(r, q.plan, [kind |-> "target", value |-> q.arg, status |-> "none"],
                    q.arg, s.version, s.reviewed)
      /\ UNCHANGED <<plans, packages, approvals, late, reports>>

-----------------------------------------------------------------------------
(* Creative versions.                                                      *)

\* Mutant: whatever is bound counts as reviewed.
BuildCreativeReviewed(r, s, v, status) ==
  Build(r, s, [kind |-> "creative", value |-> v, status |-> status],
        plans[s].target, v, TRUE)

\* persistDerivedPlan, as far as the insert.
BuildCreative(r, s, v, status) ==
  Build(r, s, [kind |-> "creative", value |-> v, status |-> status],
        plans[s].target, v, status = "approved")

StartAppend(r, x) == StartOnPlan(r, "append", "appending", [Idle EXCEPT !.arg = x])

\* appendNext, under the lock of the campaign: the same content for the same plan
\* is answered with its version, whatever became of it; otherwise the approved
\* versions are superseded, which nobody sees before the commit.
Supersede(r) ==
  LET q == request[r]
      same == {v \in DOMAIN packages : /\ packages[v].plan = q.plan
                                       /\ packages[v].content = q.arg}
  IN  /\ q.pc = "appending"
      /\ \A s \in Requests : request[s].pc # "inserting"
      /\ \/ \E v \in same : BuildCreative(r, q.plan, v, packages[v].status)
         \/ /\ same = {}
            /\ IF Len(packages) = MaxVersions THEN Return(r)
               ELSE Goto(r, [q EXCEPT !.pc = "inserting",
                      !.seen = {v \in DOMAIN packages : packages[v].status = "approved"}])
            /\ UNCHANGED builds
      /\ UNCHANGED <<plans, packages, approvals, late, reports>>

\* The next version is inserted and the transaction commits.
InsertVersion(r) ==
  LET q == request[r]
  IN  /\ q.pc = "inserting"
      /\ packages' =
           Append([v \in DOMAIN packages |->
                     IF v \in q.seen THEN [packages[v] EXCEPT !.status = "superseded"]
                     ELSE packages[v]],
                  [plan |-> q.plan, content |-> q.arg, status |-> "needs_review"])
      /\ BuildCreative(r, q.plan, Len(packages) + 1, "needs_review")
      /\ UNCHANGED <<plans, approvals, late, reports>>

\* Only the latest version, and only without issues.
Reviewable(v) == v = Len(packages) /\ packages[v].content \in CleanContents

\* approve: the candidate and the latest version are read (in two queries; what
\* changes in between is only refused).  An approved candidate is only bound again.
StartApproveCreative(r, v) ==
  /\ Start(r, "approveCreative") /\ Reviewable(v)
  /\ Goto(r, [Idle EXCEPT
       !.pc = IF packages[v].status = "approved" THEN "rebinding" ELSE "approvingCreative",
       !.op = "approveCreative", !.id = v])
  /\ UNCHANGED <<plans, packages, approvals, late, builds, reports>>

\* The conditions of the statement of approveLatest.
Approvable(v) == packages[v].status = "needs_review" /\ v = Len(packages)

\* approveLatest.  uq_creative_package_approved_campaign refuses a second one.
ApproveCreative(r) ==
  LET q == request[r]
      free == \A v \in DOMAIN packages : packages[v].status # "approved"
  IN  /\ q.pc = "approvingCreative"
      /\ IF Approvable(q.id) /\ free
         THEN /\ packages' = [packages EXCEPT ![q.id].status = "approved"]
              /\ Goto(r, [q EXCEPT !.pc = "deriving"])
         ELSE UNCHANGED packages /\ Return(r)
      /\ UNCHANGED <<plans, approvals, late, builds, reports>>

\* The approved version is bound to whatever plan is the latest by now.
Derive(r) ==
  /\ request[r].pc = "deriving"
  /\ BuildCreative(r, Latest, request[r].id, "approved")
  /\ UNCHANGED <<plans, packages, approvals, late, reports>>

Rebind(r) ==
  LET v == request[r].id
  IN  /\ request[r].pc = "rebinding"
      /\ IF plans[Latest].version = v /\ plans[Latest].reviewed
         THEN Return(r) /\ UNCHANGED builds
         ELSE BuildCreative(r, Latest, v, "approved")
      /\ UNCHANGED <<plans, packages, approvals, late, reports>>

-----------------------------------------------------------------------------
(* Approvals.                                                              *)

Late(i) ==
  /\ i \notin late
  /\ late' = late \cup {i}
  /\ UNCHANGED <<plans, packages, approvals, builds, reports, request>>

StartRequest(r) == StartOnPlan(r, "request", "requesting", [Idle EXCEPT !.seen = late])

\* Mutant: rows that timed out are not expired first, and do not conflict.
ConflictingInTime(q) == {i \in ActiveRows : approvals[i].plan = q.plan} \ late

\* The row in the way of an insert, by uq_plan_approval_active.
Conflicting(q) == {i \in ActiveRows : approvals[i].plan = q.plan} \ q.seen

\* request: expires what timed out and inserts, unless a row is in the way; then
\* that row is the answer, or an error if it has just ended.
InsertApproval(r) ==
  LET q == request[r]
      timedOut == {i \in ActiveRows : approvals[i].plan = q.plan} \cap q.seen
  IN  /\ q.pc = "requesting"
      /\ \/ /\ Conflicting(q) = {} /\ Len(approvals) < MaxApprovals
            /\ approvals' = Append(EndRows(timedOut, "expired"),
                                   [plan |-> q.plan, status |-> "pending", granted |-> FALSE])
         \/ /\ Conflicting(q) # {} \/ Len(approvals) = MaxApprovals
            /\ UNCHANGED approvals
      /\ Return(r)
      /\ UNCHANGED <<plans, packages, late, builds, reports>>

\* Where an operation goes on with an approval it believes to have the status.
GoesOn(op, status) ==
  CASE op = "simulate"                                    -> "reviewing"
    [] op \in {"approve", "reject"} /\ status = "pending" -> "deciding"
    [] op = "revoke" /\ status = "approved"               -> "deciding"
    [] OTHER                                              -> "idle"

Continue(r, local, status) ==
  LET pc == GoesOn(local.op, status)
  IN  Goto(r, IF pc = "idle" THEN Idle
              ELSE [local EXCEPT !.pc = pc, !.copy = status, !.seen = late])

\* refresh begins with findById; an active row is refreshed as of now.
ReadApproval(r, local) ==
  LET status == approvals[local.id].status
  IN  IF status \in Active
      THEN Goto(r, [local EXCEPT !.pc = "refreshing", !.copy = status, !.seen = late])
      ELSE Continue(r, local, status)

StartRefresh(r, i, op) ==
  /\ Start(r, op) /\ op \in {"get", "approve", "reject", "revoke"}
  /\ ReadApproval(r, [Idle EXCEPT !.op = op, !.id = i])
  /\ UNCHANGED <<plans, packages, approvals, late, builds, reports>>

\* The dry run reads the plan first.
StartSimulate(r, i) == StartOnPlan(r, "simulate", "reading", [Idle EXCEPT !.id = i])

Read(r) ==
  /\ request[r].pc = "reading"
  /\ ReadApproval(r, request[r])
  /\ UNCHANGED <<plans, packages, approvals, late, builds, reports>>

Stale(i) == approvals[i].plan # Latest

\* expire, then invalidateIfStale: whichever applies to the row if it is still
\* active.  Otherwise the row is taken to be as it was read at first.
Refresh(r) ==
  LET q == request[r]
      end == IF q.id \in q.seen THEN "expired" ELSE "invalidated"
  IN  /\ q.pc = "refreshing"
      /\ IF q.id \in ActiveRows /\ (q.id \in q.seen \/ Stale(q.id))
         THEN approvals' = EndRows({q.id}, end) /\ Continue(r, q, end)
         ELSE UNCHANGED approvals /\ Continue(r, q, q.copy)
      /\ UNCHANGED <<plans, packages, late, builds, reports>>

\* Mutant: approves whatever it read.
ApproveAnyway(r) ==
  LET q == request[r]
  IN  /\ q.pc = "deciding" /\ q.op = "approve"
      /\ approvals' = [approvals EXCEPT ![q.id].status = "approved", ![q.id].granted = TRUE]
      /\ Return(r)
      /\ UNCHANGED <<plans, packages, late, builds, reports>>

\* approveIfCurrent; a refusal refreshes the row once more.
Approve(r) ==
  LET q == request[r]
      a == approvals[q.id]
  IN  /\ q.pc = "deciding" /\ q.op = "approve"
      /\ IF a.status = "pending" /\ q.id \notin q.seen /\ a.plan = Latest
         THEN /\ approvals' = [approvals EXCEPT ![q.id] =
                   [a EXCEPT !.status = "approved", !.granted = TRUE]]
              /\ Return(r)
         ELSE /\ Goto(r, [q EXCEPT !.pc = "reading", !.op = "get"])
              /\ UNCHANGED approvals
      /\ UNCHANGED <<plans, packages, late, builds, reports>>

\* transition: if the row still has the status it is decided from.
Decide(r, op, from, to) ==
  LET q == request[r]
  IN  /\ q.pc = "deciding" /\ q.op = op
      /\ approvals' = IF approvals[q.id].status = from THEN EndRows({q.id}, to) ELSE approvals
      /\ Return(r)
      /\ UNCHANGED <<plans, packages, late, builds, reports>>

Reject(r) == Decide(r, "reject", "pending", "rejected")
Revoke(r) == Decide(r, "revoke", "approved", "revoked")

-----------------------------------------------------------------------------
(* The dry run.                                                            *)

\* Mutant: a pending approval will do.
ApprovalPassesActive(q) == q.copy \in Active /\ approvals[q.id].plan = q.plan

\* approvalCheck, with the approval as it was answered.
ApprovalPasses(q) == q.copy = "approved" /\ approvals[q.id].plan = q.plan

\* creativeCheck: the plan refers to the latest version, and it is approved.
CreativePasses(p) ==
  /\ p.reviewed /\ p.version = Len(packages)
  /\ packages[Len(packages)].status = "approved"

\* The last checks of simulate; the connection and the capabilities may block
\* any report, and a report that is blocked is nothing to rely on.
Review(r) ==
  LET q == request[r]
      p == plans[q.plan]
      ready == p.target # NoTarget /\ ApprovalPasses(q) /\ CreativePasses(p)
  IN  /\ q.pc = "reviewing"
      /\ \/ /\ ready
            /\ reports' = reports \cup
                 {[plan |-> q.plan, approval |-> q.id, version |-> p.version]}
         \/ UNCHANGED reports
      /\ Return(r)
      /\ UNCHANGED <<plans, packages, approvals, late, builds>>

-----------------------------------------------------------------------------

\* A lookup refuses, a statement fails, or the process dies.
Fail(r) ==
  /\ Failures /\ request[r].pc # "idle"
  /\ Return(r)
  /\ UNCHANGED <<plans, packages, approvals, late, builds, reports>>

Step(r) ==
  \/ Save(r) \/ Invalidate(r) \/ Bind(r)
  \/ Supersede(r) \/ InsertVersion(r)
  \/ ApproveCreative(r) \/ Derive(r) \/ Rebind(r)
  \/ InsertApproval(r) \/ Read(r) \/ Refresh(r)
  \/ Approve(r) \/ Reject(r) \/ Revoke(r) \/ Review(r)

Begin(r) ==
  \/ \E c \in Contexts : Generate(r, c)
  \/ \E t \in Targets : StartBind(r, t)
  \/ \E x \in Contents : StartAppend(r, x)
  \/ \E v \in DOMAIN packages : StartApproveCreative(r, v)
  \/ StartRequest(r)
  \/ \E i \in DOMAIN approvals :
       StartSimulate(r, i) \/ \E op \in Operation : StartRefresh(r, i, op)

Next ==
  \/ \E i \in DOMAIN approvals : Late(i)
  \/ \E r \in Requests : Begin(r) \/ Step(r) \/ Fail(r)

Spec == Init /\ [][Next]_vars

\* A request that began goes on: nothing in the process waits for another request
\* but the lock of the campaign.
FairSpec == Spec /\ \A r \in Requests : WF_vars(Step(r))

-----------------------------------------------------------------------------
(* Properties.                                                             *)

\* What requests know exists: the plan they read and the row they decide on.
TypeOK ==
  /\ plans \in Seq(Plan) /\ packages \in Seq(Package) /\ approvals \in Seq(Approval)
  /\ late \subseteq DOMAIN approvals /\ builds \in Nat
  /\ reports \subseteq Report
  /\ request \in [Requests -> Request]
  /\ \A r \in Requests :
       LET q == request[r]
       IN  /\ q.pc \in {"binding", "appending", "inserting", "requesting", "reviewing",
                        "invalidating"} => q.plan \in DOMAIN plans
           /\ q.pc \in {"reading", "refreshing", "deciding", "reviewing"}
                => q.id \in DOMAIN approvals
           /\ q.pc \in {"approvingCreative", "deriving", "rebinding"}
                => q.id \in DOMAIN packages /\ plans # <<>>

\* A dry run is ready only for a plan with a target, on an approval that somebody
\* granted for that very plan, with a creative version that was approved without
\* issues, however the plan, the approval and the version changed between its reads.
ReadyWasDecided ==
  \A rep \in reports :
    LET p == plans[rep.plan]
        a == approvals[rep.approval]
    IN  /\ p.target # NoTarget
        /\ a.plan = rep.plan /\ a.granted
        /\ packages[rep.version].status # "needs_review"
        /\ packages[rep.version].content \in CleanContents

\* A plan says its creative is reviewed only of a version that was approved, even
\* when the plan was derived from an answer that repeats an old version.
ReviewedWasApproved ==
  \A i \in DOMAIN plans :
    plans[i].reviewed => packages[plans[i].version].status # "needs_review"

\* "A mesma entrada ... retorna o plano originalmente persistido, inclusive sob
\* requisições concorrentes": no input has two plans, and no two plans are derived
\* from each other in a circle.
OnePlanPerInput ==
  \A i, j \in DOMAIN plans :
    /\ plans[i].source = plans[j].source /\ plans[i].change = plans[j].change => i = j
    /\ plans[i].source < i

\* "Solicitações concorrentes para o mesmo hash retornam uma única aprovação ativa",
\* and it is the newest: concurrent and repeated requests around an expiry never
\* leave an older one that could be approved or relied on.
OneActivePerPlan ==
  \A i, j \in DOMAIN approvals :
    i < j /\ approvals[i].plan = approvals[j].plan => approvals[i].status \notin Active

\* One creative version at most is approved at a time, and a version that was
\* superseded never is again.
OneApprovedVersion ==
  \A v, w \in DOMAIN packages :
    packages[v].status = "approved" /\ packages[w].status = "approved" => v = w

\* What is stored once stays one, whichever requests come together: no input has two
\* plans, no plan two active approvals, no campaign two approved creative versions.
StoredOnce == OnePlanPerInput /\ OneActivePerPlan /\ OneApprovedVersion

Transitions ==
  {<<"pending", "approved">>, <<"pending", "rejected">>, <<"approved", "revoked">>}
    \cup Active \X {"expired", "invalidated"}

\* Decisions on approvals are final: neither a concurrent decision nor a refresh or
\* an invalidation that read the row earlier overwrites one.
DecisionsAreFinal ==
  [][\A i \in DOMAIN approvals :
       approvals'[i].status # approvals[i].status
         => <<approvals[i].status, approvals'[i].status>> \in Transitions]_approvals

\* An approval of a plan that was replaced by a derived plan.  It does not stay approved:
\* the request that derived the plan gets to invalidate it, as long as requests go on.
ReplacedApproval(i) ==
  /\ i \in DOMAIN approvals /\ approvals[i].status = "approved"
  /\ approvals[i].plan # Latest /\ plans[Latest].change.kind # "context"
=============================================================================
