----------------------------- MODULE Ecosystem -----------------------------
(***************************************************************************)
(* The orchestrator over the plans of one campaign: what it tells people   *)
(* about the campaign, and the internal steps it takes by itself.  An      *)
(* advance reads the package, binds the selected account, reads again and  *)
(* opens the approval, each through requests of CampaignPlans, while       *)
(* people generate plans, review creatives and decide.                     *)
(***************************************************************************)
EXTENDS CampaignPlans

CONSTANTS
  Advances,  \* the requests that are steps of an advance, one at a time each
  Analyses,  \* analyses of the campaign that can be the latest one
  NoAnalysis

Rules == INSTANCE AnalystRules WITH None <- NoAnalysis

AdvanceAssumption ==
  Advances \subseteq Requests /\ {"bind", "request"} \subseteq Operations
AnalysisAssumption == NoAnalysis \notin Analyses

VARIABLES
  advance,  \* [Advances -> the local state of an advance]
  told,     \* [Advances -> how the last one ended]
  opened,   \* the approvals that advances opened, with the creative version they read
  tracked,  \* the campaign is registered with the Analyst
  analysis  \* the latest analysis: the status of the campaign and the verdict

people == <<tracked, analysis>>
ecosystem == <<advance, told, opened, tracked, analysis>>
allVars == <<vars, ecosystem>>

Action == {"review", "resolve", "ask", "decide", "create"}
SafeActions == {"resolve", "ask"}
Ending == {"none", "completed", "user", "gate", "failed"}

\* pass: which reading of the package this is; "peek" is the one of the batch.
\* plan, version, reviewed: as read so far.
Unread == [pc |-> "idle", pass |-> "first", plan |-> 0, version |-> 0, reviewed |-> FALSE,
           action |-> "review"]

Advance == [pc : {"idle", "plan", "creative", "approval", "acting", "calling"},
            pass : {"peek", "first", "again"}, plan : Nat, version : Nat,
            reviewed : BOOLEAN, action : Action]

EInit ==
  /\ Init
  /\ advance = [a \in Advances |-> Unread]
  /\ told = [a \in Advances |-> [ending |-> "none", action |-> "review"]]
  /\ opened = {}
  /\ tracked = FALSE /\ analysis = NoAnalysis

-----------------------------------------------------------------------------
(* What the package needs next, and what people are told.                  *)

\* The status of the approval of plan p in force: findCurrentForPlan.
InForce(p) ==
  {approvals[i].status : i \in {j \in ActiveRows \ late : approvals[j].plan = p}}

NextAction(bound, reviewed, statuses) ==
  IF ~reviewed THEN "review"
  ELSE IF ~bound THEN "resolve"
  ELSE IF "approved" \in statuses THEN "create"
  ELSE IF "pending" \in statuses THEN "decide"
  ELSE "ask"

\* The latest creative version is approved.
CreativeApproved ==
  packages # <<>> /\ packages[Len(packages)].status = "approved"

NextActionNow ==
  NextAction(plans[Latest].target # NoTarget, CreativeApproved, InForce(Latest))

\* describeCampaign; there is a plan.
Stage ==
  IF tracked /\ analysis # NoAnalysis /\ analysis.verdict.approval THEN "ANALYST_DECISION"
  ELSE IF tracked /\ analysis # NoAnalysis THEN "MONITORING"
  ELSE IF tracked THEN "ANALYSIS_WAITING"
  ELSE IF ~CreativeApproved THEN "CREATIVE_REVIEW"
  ELSE IF plans[Latest].target = NoTarget THEN "TARGET_RESOLUTION"
  ELSE IF NextActionNow = "ask" THEN "PLAN_APPROVAL_PREPARATION"
  ELSE IF NextActionNow = "decide" THEN "PLAN_APPROVAL_REQUIRED"
  ELSE "EXTERNAL_EXECUTION_GATE"

Brief == Rules!Present(analysis, analysis.verdict)

UserActionRequired ==
  \/ Stage \in {"ANALYST_DECISION", "CREATIVE_REVIEW", "PLAN_APPROVAL_REQUIRED",
                "EXTERNAL_EXECUTION_GATE"}
  \/ Stage = "MONITORING" /\ Brief.asks

-----------------------------------------------------------------------------
(* An advance.                                                             *)

Local(a, pc, local) == [advance EXCEPT ![a] = [local EXCEPT !.pc = pc]]

End(a, ending) ==
  /\ advance' = [advance EXCEPT ![a] = Unread]
  /\ told' = [told EXCEPT ![a] = [ending |-> ending, action |-> advance[a].action]]

\* advanceAllSafe looks at the package first, advanceSafe does not.
StartAdvance(a, pass) ==
  /\ advance[a].pc = "idle" /\ plans # <<>> /\ pass # "again"
  /\ advance' = Local(a, "plan", [Unread EXCEPT !.pass = pass])
  /\ UNCHANGED <<vars, told, opened, people>>

ReadPlan(a) ==
  /\ advance[a].pc = "plan"
  /\ advance' = Local(a, "creative", [advance[a] EXCEPT !.plan = Latest])
  /\ UNCHANGED <<vars, told, opened, people>>

ReadCreative(a) ==
  /\ advance[a].pc = "creative"
  /\ advance' = Local(a, "approval",
       [advance[a] EXCEPT !.version = Len(packages), !.reviewed = CreativeApproved])
  /\ UNCHANGED <<vars, told, opened, people>>

ReadCurrentApproval(a) ==
  LET v == advance[a]
  IN  /\ v.pc = "approval"
      /\ advance' = Local(a, "acting",
           [v EXCEPT !.action =
              NextAction(plans[v.plan].target # NoTarget, v.reviewed, InForce(v.plan))])
      /\ UNCHANGED <<vars, told, opened, people>>

\* What the batch does with a campaign it has looked at.
Peeked(a) ==
  /\ advance[a].pc = "acting" /\ advance[a].pass = "peek"
  /\ IF advance[a].action \in SafeActions
     THEN advance' = Local(a, "plan", [Unread EXCEPT !.pass = "first"]) /\ UNCHANGED told
     ELSE End(a, "none")
  /\ UNCHANGED <<vars, opened, people>>

Acting(a, action) ==
  advance[a].pc = "acting" /\ advance[a].pass # "peek" /\ advance[a].action = action

\* selectedExecutionTarget and bindExecutionTarget, which refuses an old plan.
BindSelected(a) ==
  /\ Acting(a, "resolve") /\ advance[a].pass = "first"
  /\ advance[a].plan = Latest
  /\ \E t \in Targets : StartBind(a, t)
  /\ advance' = Local(a, "calling", advance[a])
  /\ UNCHANGED <<told, opened, people>>

\* Mutant: asks for whatever plan is the latest by now.
OpenApprovalOfLatest(a) ==
  /\ Acting(a, "ask")
  /\ StartRequest(a)
  /\ advance' = Local(a, "calling", advance[a])
  /\ UNCHANGED <<told, opened, people>>

\* requestPlanApproval, which refuses an old plan.
OpenApproval(a) ==
  /\ Acting(a, "ask") /\ advance[a].plan = Latest
  /\ StartRequest(a)
  /\ advance' = Local(a, "calling", advance[a])
  /\ UNCHANGED <<told, opened, people>>

\* The plan is not the latest any more.
Refused(a) ==
  /\ \/ Acting(a, "resolve") /\ advance[a].pass = "first"
     \/ Acting(a, "ask")
  /\ advance[a].plan # Latest
  /\ End(a, "failed")
  /\ UNCHANGED <<vars, opened, people>>

\* A step of the request an advance waits for.  A bind ends after it invalidated
\* the approvals, and the package is read again; an approval that was opened is
\* the end.  A request that stops short (over a bound) has failed.
CallStep(a) ==
  LET returns == request'[a].pc = "idle"
      v == advance[a]
  IN  /\ v.pc = "calling" /\ Step(a)
      /\ IF ~returns THEN UNCHANGED <<advance, told>>
         ELSE IF request[a].pc = "requesting" /\ approvals' # <<>> THEN End(a, "completed")
         ELSE IF request[a].pc = "invalidating"
           THEN advance' = Local(a, "plan", [Unread EXCEPT !.pass = "again"]) /\ UNCHANGED told
         ELSE End(a, "failed")
      /\ opened' = IF Len(approvals') > Len(approvals)
                   THEN opened \cup {[approval |-> Len(approvals'), version |-> v.version]}
                   ELSE opened
      /\ UNCHANGED people

CallFails(a) ==
  /\ advance[a].pc = "calling" /\ Fail(a)
  /\ End(a, "failed")
  /\ UNCHANGED <<opened, people>>

\* The other next actions are answered; a target that is still missing after it
\* was bound is answered like an external gate.
Answer(a) ==
  /\ \/ Acting(a, "review") /\ End(a, "user")
     \/ Acting(a, "decide") /\ End(a, "user")
     \/ Acting(a, "create") /\ End(a, "gate")
     \/ Acting(a, "resolve") /\ advance[a].pass = "again" /\ End(a, "gate")
  /\ UNCHANGED <<vars, opened, people>>

-----------------------------------------------------------------------------
(* The campaign exists and the Analyst observes it.                        *)

\* A campaign is registered after it was created, on a plan somebody approved.
Register ==
  /\ ~tracked /\ \E i \in DOMAIN approvals : approvals[i].granted
  /\ tracked' = TRUE
  /\ UNCHANGED <<vars, advance, told, opened, analysis>>

Analyse(x) ==
  /\ tracked
  /\ analysis' = x
  /\ UNCHANGED <<vars, advance, told, opened, tracked>>

-----------------------------------------------------------------------------

AdvanceStep(a) ==
  \/ ReadPlan(a) \/ ReadCreative(a) \/ ReadCurrentApproval(a)
  \/ Peeked(a) \/ BindSelected(a) \/ OpenApproval(a) \/ Refused(a)
  \/ CallStep(a) \/ Answer(a)

ByOthers ==
  /\ \/ \E i \in DOMAIN approvals : Late(i)
     \/ \E r \in Requests \ Advances : Begin(r) \/ Step(r) \/ Fail(r)
  /\ UNCHANGED ecosystem

ENext ==
  \/ ByOthers
  \/ \E a \in Advances :
       \/ \E pass \in {"peek", "first"} : StartAdvance(a, pass)
       \/ AdvanceStep(a) \/ CallFails(a)
  \/ Register \/ \E x \in Analyses : Analyse(x)

ESpec == EInit /\ [][ENext]_allVars

-----------------------------------------------------------------------------
(* Properties.                                                             *)

\* An advance calls something only while a request of its own is under way.
ETypeOK ==
  /\ advance \in [Advances -> Advance]
  /\ told \in [Advances -> [ending : Ending, action : Action]]
  /\ opened \subseteq [approval : DOMAIN approvals, version : Nat]
  /\ tracked \in BOOLEAN /\ analysis \in Analyses \cup {NoAnalysis}
  /\ \A a \in Advances : advance[a].pc = "calling" <=> request[a].pc # "idle"

\* "O sistema deve parar quando houver revisão de fidelidade visual que ainda não
\* foi realmente realizada": an approval that an advance opened is for a plan with a
\* target, after a version of the creative without issues was approved by a person,
\* whatever replaced the plan or the version between its reads and the insert.
OpenedWasPrepared ==
  \A o \in opened :
    /\ plans[approvals[o.approval].plan].target # NoTarget
    /\ o.version \in DOMAIN packages
    /\ packages[o.version].status # "needs_review"
    /\ packages[o.version].content \in CleanContents

\* Until the campaign is tracked, people are told that the Generator is working
\* exactly when an advance has something to do: nobody waits for a step that no
\* advance takes, and nobody is asked what the system can do by itself.
ToldWhoActs ==
  plans # <<>> /\ ~tracked =>
    /\ Stage \in {"TARGET_RESOLUTION", "PLAN_APPROVAL_PREPARATION"}
         <=> NextActionNow \in SafeActions
    /\ UserActionRequired <=> NextActionNow \notin SafeActions

\* The orchestrator opens approvals only of plans with a target, after a person approved
\* their creatives, and tells who acts next, a person or an advance.
OrchestratorWaitsForPeople == OpenedWasPrepared /\ ToldWhoActs
=============================================================================
