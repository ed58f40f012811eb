-------------------------- MODULE CampaignHandoff --------------------------
(***************************************************************************)
(* The submission of a campaign package: its version of the context, the   *)
(* plan generated from it, the creative package, the plan that carries it, *)
(* and the plan bound to the ad account.  A submission is no transaction:  *)
(* it may stop after any of these, and the sender submits again.  The      *)
(* operator meanwhile edits the context, generates, revises and binds.     *)
(*                                                                         *)
(* An action is what a request does between two awaits.  The campaign is   *)
(* one, its id is the id of the package.  CampaignPlans has the approvals  *)
(* and the clock of the plans; here the latest plan is the last inserted.  *)
(***************************************************************************)
EXTENDS Naturals, Sequences, FiniteSets, SequencesExt

CONSTANTS
  Requests,     \* concurrent requests
  Operations,   \* the operations they perform
  Contents,     \* what packages, contexts and creatives say
  Lacking,      \* contents without a required fact (a lifetime budget, no duration)
  Accounts,     \* ad accounts discovered
  NoAccount,    \* not bound
  Drafts,       \* the packages the sender has: [version, content]
  OneByOne,     \* does the sender wait for an answer before the next version?
  MaxStarts,    \* bound: requests started
  MaxFailures,  \* bound: requests that fail or are interrupted
  MaxSelections \* bound: changes of the selected account

Operation == {"submit", "update", "generate", "revise", "bind"}
Draft == [version : Nat \ {0}, content : Contents]

BoundAssumption == {MaxStarts, MaxFailures, MaxSelections} \subseteq Nat
SetAssumption ==
  /\ Operations \subseteq Operation /\ Drafts \subseteq Draft /\ Lacking \subseteq Contents
  /\ Contents # {} /\ NoAccount \notin Accounts /\ OneByOne \in BOOLEAN

VARIABLES
  contexts,   \* campaign_context_versions: the version is the position
  plans,      \* execution_plans, in the order of insertion
  creatives,  \* creative_package_versions: the version is the position
  selection,  \* the ad account selected for the tenant
  request,    \* [Requests -> the local state of the request]
  sent,       \* versions submitted at least once
  answers,    \* submissions accepted
  starts, failures, selections  \* counted up to their bounds

tables == <<contexts, plans, creatives>>
counts == <<starts, failures, selections>>
vars == <<contexts, plans, creatives, selection, request, sent, answers,
          starts, failures, selections>>

-----------------------------------------------------------------------------
(* Rows.  A hash identifies what it is computed from, so equal rows have   *)
(* equal hashes: package 0 and creative 0 mean none.                       *)

Versions == {d.version : d \in Drafts}

ContextStatus == {"ready_for_generation", "needs_information"}
Context == [package : Versions \cup {0}, content : Contents,
            account : Accounts \cup {NoAccount}, status : ContextStatus]

\* source: the plan it is derived from.  The other fields are inherited from it, but
\* for the one that makes the difference.
Plan == [source : Nat, context : Nat, creative : Nat, account : Accounts \cup {NoAccount}]

Creative == [plan : Nat, content : Contents, package : Versions \cup {0}]

Answer == [version : Versions, content : Contents, account : Accounts,
           context : Nat, creative : Nat, plan : Nat]

PC == {"idle", "finding", "latest", "storing", "generating", "creative", "current",
       "checking", "inserting", "deriving", "binding", "saving"}

Idle == [pc |-> "idle", op |-> "submit", version |-> 0,
         content |-> CHOOSE c \in Contents : TRUE, account |-> NoAccount,
         context |-> 0, plan |-> 0, creative |-> 0]

Request == [pc : PC, op : Operation, version : Versions \cup {0}, content : Contents,
            account : Accounts \cup {NoAccount}, context : Nat, plan : Nat, creative : Nat]

Init ==
  /\ contexts = <<>> /\ plans = <<>> /\ creatives = <<>>
  /\ selection \in Accounts
  /\ request = [r \in Requests |-> Idle]
  /\ sent = {} /\ answers = {}
  /\ starts = 0 /\ failures = 0 /\ selections = 0

-----------------------------------------------------------------------------
(* Requests.                                                               *)

Set(r, local) == request' = [request EXCEPT ![r] = local]
Goto(r, pc) == Set(r, [request[r] EXCEPT !.pc = pc])
Return(r) == Set(r, Idle)

At(r, pc) == request[r].pc = pc
Submitting(r) == request[r].op = "submit"

Start(r, local) ==
  /\ At(r, "idle") /\ local.op \in Operations /\ starts < MaxStarts
  /\ starts' = starts + 1
  /\ Set(r, local)
  /\ UNCHANGED <<tables, selection, answers, failures, selections>>

Answered(version) == \E a \in answers : a.version = version

\* A sender that waits submits a version until it is accepted, then the next one.
InTurn(version) ==
  OneByOne => /\ ~Answered(version)
              /\ \A w \in 1..(version - 1) : Answered(w)
              /\ \A r \in Requests : At(r, "idle")

\* submitAutoResolved, submit: the package is completed with the selected account.
Submit(r, d) ==
  /\ InTurn(d.version)
  /\ Start(r, [Idle EXCEPT !.pc = "finding", !.version = d.version,
                           !.content = d.content, !.account = selection])
  /\ sent' = sent \cup {d.version}

\* The operator's requests.
GeneratePlan(r, version) ==
  /\ Start(r, [Idle EXCEPT !.op = "generate", !.pc = "generating", !.context = version])
  /\ UNCHANGED sent

Revise(r, plan, content) ==
  /\ Start(r, [Idle EXCEPT !.op = "revise", !.pc = "checking",
                           !.plan = plan, !.content = content])
  /\ UNCHANGED sent

Bind(r, plan, account) ==
  /\ Start(r, [Idle EXCEPT !.op = "bind", !.pc = "binding",
                           !.plan = plan, !.account = account])
  /\ UNCHANGED sent

\* An error, a restart of the server or the end of a connection: nothing is undone.
Fails(r) ==
  /\ ~At(r, "idle") /\ failures < MaxFailures
  /\ failures' = failures + 1
  /\ Return(r)
  /\ UNCHANGED <<tables, selection, sent, answers, starts, selections>>

-----------------------------------------------------------------------------
(* The context.                                                            *)

\* What the submission stores: always ready, whatever the package lacks.
PackageContext(q) ==
  [package |-> q.version, content |-> q.content, account |-> q.account,
   status |-> "ready_for_generation"]

\* buildContext: what the operator stores.
OperatorContext(content) ==
  [package |-> 0, content |-> content, account |-> NoAccount,
   status |-> IF content \in Lacking THEN "needs_information" ELSE "ready_for_generation"]

\* appendVersion: the campaign is locked, the version is the next one.
Update(r, content) ==
  /\ At(r, "idle") /\ "update" \in Operations /\ starts < MaxStarts
  /\ contexts # <<>>
  /\ contexts' = Append(contexts, OperatorContext(content))
  /\ starts' = starts + 1
  /\ UNCHANGED <<plans, creatives, selection, request, sent, answers, failures, selections>>

UnchangedButContexts == UNCHANGED <<plans, creatives, selection, sent, answers, counts>>

\* persistContextVersion: the same content is taken up, another one is refused.
FindVersion(r) ==
  LET q == request[r] IN
  /\ At(r, "finding")
  /\ IF q.version \notin DOMAIN contexts THEN Goto(r, "latest")
     ELSE IF contexts[q.version] = PackageContext(q)
     THEN Set(r, [q EXCEPT !.pc = "generating", !.context = q.version])
     ELSE Return(r)
  /\ UNCHANGED contexts /\ UnchangedButContexts

\* campaign_package_version_conflict, campaign_package_version_gap.
ReadLatest(r) ==
  /\ At(r, "latest")
  /\ IF Len(contexts) = request[r].version - 1 THEN Goto(r, "storing") ELSE Return(r)
  /\ UNCHANGED contexts /\ UnchangedButContexts

\* create: the campaign must be new.
StoreFirst(r) ==
  LET q == request[r] IN
  /\ At(r, "storing") /\ q.version = 1
  /\ IF contexts = <<>>
     THEN /\ contexts' = <<PackageContext(q)>>
          /\ Set(r, [q EXCEPT !.pc = "generating", !.context = 1])
     ELSE Return(r) /\ UNCHANGED contexts
  /\ UnchangedButContexts

\* The id of a row is made of the version of the package, and is unique.
Stored(version) == \E i \in DOMAIN contexts : contexts[i].package = version

\* Mutant: the version the row got is not compared with the one submitted.
StoreNextAnywhere(r) ==
  LET q == request[r] IN
  /\ At(r, "storing") /\ q.version > 1
  /\ IF Stored(q.version) THEN Return(r) /\ UNCHANGED contexts
     ELSE /\ contexts' = Append(contexts, PackageContext(q))
          /\ Set(r, [q EXCEPT !.pc = "generating", !.context = Len(contexts) + 1])
  /\ UnchangedButContexts

\* appendNext, then campaign_package_version_race: the row is committed all the same.
StoreNext(r) ==
  LET q == request[r] IN
  /\ At(r, "storing") /\ q.version > 1
  /\ IF Stored(q.version) THEN Return(r) /\ UNCHANGED contexts
     ELSE /\ contexts' = Append(contexts, PackageContext(q))
          /\ IF Len(contexts) + 1 = q.version
             THEN Set(r, [q EXCEPT !.pc = "generating", !.context = q.version])
             ELSE Return(r)
  /\ UnchangedButContexts

-----------------------------------------------------------------------------
(* The plans.                                                              *)

\* saveIdempotent: a plan derived in the same way is stored once; where it is.
Position(plan) ==
  IF plan \in Range(plans) THEN CHOOSE i \in DOMAIN plans : plans[i] = plan
  ELSE Len(plans) + 1

Save(plan) == plans' = IF plan \in Range(plans) THEN plans ELSE Append(plans, plan)

Latest == Len(plans)

Accept(r, plan) ==
  LET q == request[r] IN
  /\ answers' = IF ~Submitting(r) THEN answers
                ELSE answers \cup {[version |-> q.version, content |-> q.content,
                                    account |-> q.account, context |-> q.context,
                                    creative |-> q.creative, plan |-> plan]}
  /\ Return(r)

UnchangedButPlans == UNCHANGED <<contexts, selection, sent, counts>>

\* generate: the plan of a context that is ready.
Generate(r) ==
  LET q == request[r]
      new == [source |-> 0, context |-> q.context, creative |-> 0, account |-> NoAccount]
  IN  /\ At(r, "generating")
      /\ IF contexts[q.context].status = "needs_information"
         THEN Return(r) /\ UNCHANGED plans
         ELSE /\ Save(new)
              /\ IF Submitting(r)
                 THEN Set(r, [q EXCEPT !.pc = "creative", !.plan = Position(new)])
                 ELSE Return(r)
      /\ UNCHANGED <<creatives, answers>> /\ UnchangedButPlans

\* bindCreativeIdempotently: the latest creative package, if made for this plan.
ReadCreative(r) ==
  LET q == request[r] IN
  /\ At(r, "creative")
  /\ IF creatives # <<>> /\ Last(creatives).plan = q.plan
     THEN Set(r, [q EXCEPT !.pc = "current", !.creative = Len(creatives)])
     ELSE Goto(r, "checking")
  /\ UNCHANGED <<tables, answers>> /\ UnchangedButPlans

\* It goes on with the latest plan, whichever that is.
TakeLatestPlan(r) ==
  /\ At(r, "current")
  /\ Set(r, [request[r] EXCEPT !.pc = "binding", !.plan = Latest])
  /\ UNCHANGED <<tables, answers>> /\ UnchangedButPlans

\* appendVersion of the creative package: only the latest plan can receive it.
CheckPlan(r) ==
  /\ At(r, "checking")
  /\ IF request[r].plan = Latest THEN Goto(r, "inserting") ELSE Return(r)
  /\ UNCHANGED <<tables, answers>> /\ UnchangedButPlans

InsertCreative(r) ==
  LET q == request[r] IN
  /\ At(r, "inserting")
  /\ creatives' = Append(creatives, [plan |-> q.plan, content |-> q.content,
                                     package |-> q.version])
  /\ Set(r, [q EXCEPT !.pc = "deriving", !.creative = Len(creatives) + 1])
  /\ UNCHANGED <<plans, answers>> /\ UnchangedButPlans

\* persistDerivedPlan.
Derive(r) ==
  LET q == request[r]
      new == [plans[q.plan] EXCEPT !.source = q.plan, !.creative = q.creative]
  IN  /\ At(r, "deriving")
      /\ Save(new)
      /\ IF Submitting(r) THEN Set(r, [q EXCEPT !.pc = "binding", !.plan = Position(new)])
         ELSE Return(r)
      /\ UNCHANGED <<creatives, answers>> /\ UnchangedButPlans

\* bindTarget, the plan must be the latest and may already be bound to the account.
CheckTarget(r) ==
  LET q == request[r] IN
  /\ At(r, "binding")
  /\ IF q.plan # Latest THEN Return(r) /\ UNCHANGED answers
     ELSE IF plans[q.plan].account = q.account THEN Accept(r, q.plan)
     ELSE Goto(r, "saving") /\ UNCHANGED answers
  /\ UNCHANGED tables /\ UnchangedButPlans

SaveTarget(r) ==
  LET q == request[r]
      new == [plans[q.plan] EXCEPT !.source = q.plan, !.account = q.account]
  IN  /\ At(r, "saving")
      /\ Save(new)
      /\ Accept(r, Position(new))
      /\ UNCHANGED creatives /\ UnchangedButPlans

-----------------------------------------------------------------------------

\* selectBindings: the operator selects another account.
Select(account) ==
  /\ selections < MaxSelections /\ account # selection
  /\ selection' = account /\ selections' = selections + 1
  /\ UNCHANGED <<tables, request, sent, answers, starts, failures>>

Step(r) ==
  \/ FindVersion(r) \/ ReadLatest(r) \/ StoreFirst(r) \/ StoreNext(r)
  \/ Generate(r) \/ ReadCreative(r) \/ TakeLatestPlan(r)
  \/ CheckPlan(r) \/ InsertCreative(r) \/ Derive(r)
  \/ CheckTarget(r) \/ SaveTarget(r)

Begins(r) ==
  \/ \E d \in Drafts : Submit(r, d)
  \/ \E version \in DOMAIN contexts : GeneratePlan(r, version)
  \/ \E plan \in DOMAIN plans, content \in Contents : Revise(r, plan, content)
  \/ \E plan \in DOMAIN plans, account \in Accounts : Bind(r, plan, account)
  \/ \E content \in Contents : Update(r, content)

\* No more requests are accepted by the bounds.
Done ==
  /\ \A r \in Requests : At(r, "idle")
  /\ starts = MaxStarts \/ (OneByOne /\ \A d \in Drafts : Answered(d.version))

Next ==
  \/ \E r \in Requests : Begins(r) \/ Step(r) \/ Fails(r)
  \/ \E account \in Accounts : Select(account)
  \/ Done /\ UNCHANGED vars

Spec == Init /\ [][Next]_vars

\* The server goes on with its requests, and the sender submits until it is answered.
FairSpec ==
  /\ Spec
  /\ \A r \in Requests : WF_vars(Step(r))
  /\ WF_vars(\E r \in Requests, d \in Drafts : Submit(r, d))

-----------------------------------------------------------------------------
(* Properties.                                                             *)

TypeOK ==
  /\ contexts \in Seq(Context) /\ plans \in Seq(Plan) /\ creatives \in Seq(Creative)
  /\ selection \in Accounts /\ request \in [Requests -> Request]
  /\ sent \subseteq Versions /\ answers \subseteq Answer
  /\ starts \in 0..MaxStarts /\ failures \in 0..MaxFailures
  /\ selections \in 0..MaxSelections

\* Two accepted submissions of one version say the same, whoever interferes: another
\* content or another selected account is refused (persistContextVersion).
OneContentPerVersion ==
  \A a, b \in answers :
    a.version = b.version => a.content = b.content /\ a.account = b.account

\* What an accepted submission calls its context is the row with its package and its
\* number, although the operator appends versions in between.
ContextIsThePackage ==
  \A a \in answers :
    /\ a.context = a.version
    /\ contexts[a.context] = [package |-> a.version, content |-> a.content,
                              account |-> a.account, status |-> "ready_for_generation"]

\* No version of a package is stored as two versions of the context, not even by a
\* submission that loses a race and leaves its row behind.
PackageStoredOnce ==
  \A i, j \in DOMAIN contexts :
    contexts[i].package # 0 /\ contexts[i].package = contexts[j].package => i = j

\* The plan of an accepted submission is bound to its account, also when it took up
\* a plan that another request bound (bindTarget).
AcceptedIsBound == \A a \in answers : plans[a.plan].account = a.account

\* An accepted submission is answered with what is stored for its version, once, whoever
\* interferes, and with a plan bound to its account.
HandoffIsKept ==
  /\ TypeOK /\ OneContentPerVersion /\ ContextIsThePackage
  /\ PackageStoredOnce /\ AcceptedIsBound

-----------------------------------------------------------------------------
(* What the documentation says and the code does not ensure.               *)

\* campaign-package-handoff.service.spec: an identical package that is repeated has
\* its derived plan.  Interrupted between the creative package and its plan, the
\* repetition is accepted with another plan.
AcceptedPlanCarriesThePackage ==
  \A a \in answers :
    plans[a.plan].context = a.context /\ plans[a.plan].creative = a.creative
=============================================================================
