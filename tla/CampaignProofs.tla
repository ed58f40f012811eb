--------------------------- MODULE CampaignProofs ---------------------------
(***************************************************************************)
(* What an accepted submission of a campaign may rely on, for every number *)
(* of requests, packages and operators who interfere; the evidence that    *)
(* requests about its plan share, however they interleave; what becomes of *)
(* a package that is mapped; and what a plan says is to be created, for    *)
(* lists of any length.                                                    *)
(***************************************************************************)
EXTENDS CampaignHandoff, ReadinessEvidence, Integers, SequenceTheorems, FiniteSetTheorems,
        WellFoundedInduction, TLAPS

-----------------------------------------------------------------------------
(* The inductive invariant of the submissions.                             *)

\* Past "storing", a submission has stored or found its version of the context.
HasContext(q) ==
  /\ q.context = q.version /\ q.version \in DOMAIN contexts
  /\ contexts[q.version] = PackageContext(q)

\* What a request holds: its operation fits its place, and what it refers to is there.
RequestOK(q) ==
  q.pc # "idle" =>
    /\ q.pc \in {"finding", "latest", "storing", "creative", "current"} => q.op = "submit"
    /\ q.op = "submit" => q.version \in Versions /\ q.account \in Accounts
    /\ q.op = "submit" /\ q.pc \notin {"finding", "latest", "storing"} => HasContext(q)
    /\ q.op = "bind" => q.pc \in {"binding", "saving"}
    /\ q.pc \in {"binding", "saving"} => q.account \in Accounts
    /\ q.pc = "generating" => q.context \in DOMAIN contexts
    /\ q.pc \in {"creative", "current", "checking", "inserting", "deriving", "binding", "saving"}
         => q.plan \in DOMAIN plans

AnswerOK(a) ==
  /\ a.context = a.version /\ a.context \in DOMAIN contexts
  /\ contexts[a.context] = [package |-> a.version, content |-> a.content,
                            account |-> a.account, status |-> "ready_for_generation"]
  /\ a.plan \in DOMAIN plans /\ plans[a.plan].account = a.account

HandoffInvariant ==
  /\ TypeOK
  /\ \A r \in Requests : RequestOK(request[r])
  /\ \A a \in answers : AnswerOK(a)
  /\ PackageStoredOnce

-----------------------------------------------------------------------------
(* The pieces.                                                             *)

\* The tables only grow at the end.
Grown ==
  /\ DOMAIN contexts \subseteq DOMAIN contexts'
  /\ \A i \in DOMAIN contexts : contexts'[i] = contexts[i]
  /\ DOMAIN plans \subseteq DOMAIN plans' /\ \A i \in DOMAIN plans : plans'[i] = plans[i]

\* A step of one request, or of nobody.
Stepped(r) ==
  /\ TypeOK' /\ Grown
  /\ \A s \in Requests \ {r} : request'[s] = request[s]
  /\ RequestOK(request[r])'
  /\ \A a \in answers' : a \in answers \/ AnswerOK(a)'
  /\ PackageStoredOnce'

LEMMA IdleType ==
  ASSUME SetAssumption
  PROVE  Idle \in Request /\ Idle.pc = "idle"
BY DEF SetAssumption, Idle, Request, PC, Operation

\* What is known when a request takes a step.
LEMMA Given ==
  ASSUME NEW r \in Requests, HandoffInvariant
  PROVE  /\ request \in [Requests -> Request] /\ request[r] \in Request /\ RequestOK(request[r])
         /\ contexts \in Seq(Context) /\ plans \in Seq(Plan) /\ creatives \in Seq(Creative)
         /\ DOMAIN contexts = 1..Len(contexts) /\ DOMAIN plans = 1..Len(plans)
         /\ Len(contexts) \in Nat /\ Len(plans) \in Nat /\ Len(creatives) \in Nat
         /\ PackageStoredOnce
BY DEF HandoffInvariant, TypeOK

LEMMA VersionsAreNat ==
  ASSUME SetAssumption, NEW v \in Versions
  PROVE  v \in Nat \ {0}
BY DEF SetAssumption, Versions, Draft

\* A row at the end of a table.
LEMMA RowAppended ==
  ASSUME NEW S, NEW table \in Seq(S), NEW row \in S
  PROVE  /\ Append(table, row) \in Seq(S)
         /\ DOMAIN Append(table, row) = 1..(Len(table) + 1)
         /\ DOMAIN table \subseteq DOMAIN Append(table, row)
         /\ \A i \in DOMAIN table : Append(table, row)[i] = table[i]
         /\ Append(table, row)[Len(table) + 1] = row
  OBVIOUS

\* A plan is saved where Position says, and nothing else is touched.
LEMMA Saved ==
  ASSUME NEW plan \in Plan, plans \in Seq(Plan), Save(plan)
  PROVE  /\ plans' \in Seq(Plan) /\ DOMAIN plans \subseteq DOMAIN plans'
         /\ \A i \in DOMAIN plans : plans'[i] = plans[i]
         /\ Position(plan) \in DOMAIN plans' /\ plans'[Position(plan)] = plan
<1>1. CASE plan \in Range(plans)
  <2>1. plans' = plans /\ \E i \in DOMAIN plans : plans[i] = plan
    BY <1>1 DEF Save, Range
  <2>2. Position(plan) = CHOOSE i \in DOMAIN plans : plans[i] = plan
    BY <1>1 DEF Position
  <2>3. Position(plan) \in DOMAIN plans /\ plans[Position(plan)] = plan
    BY <2>1, <2>2
  <2>. QED
    BY <2>1, <2>3
<1>2. CASE plan \notin Range(plans)
  <2>1. plans' = Append(plans, plan) /\ Position(plan) = Len(plans) + 1
    BY <1>2 DEF Save, Position
  <2>2. Len(plans) \in Nat
    OBVIOUS
  <2>. QED
    BY <2>1, <2>2, RowAppended
<1>. QED
  BY <1>1, <1>2

\* What a request holds and what was answered stays so while the tables grow.
LEMMA RequestStays ==
  ASSUME NEW s \in Requests, RequestOK(request[s]), Grown, request'[s] = request[s]
  PROVE  RequestOK(request[s])'
BY DEF RequestOK, HasContext, Grown, PackageContext

LEMMA AnswerStays ==
  ASSUME NEW a, AnswerOK(a), Grown
  PROVE  AnswerOK(a)'
BY DEF AnswerOK, Grown

\* A request that ends holds nothing.
LEMMA Returned ==
  ASSUME NEW r \in Requests, SetAssumption, request \in [Requests -> Request], Return(r)
  PROVE  /\ request' \in [Requests -> Request] /\ RequestOK(request[r])'
         /\ \A s \in Requests \ {r} : request'[s] = request[s]
<1>1. request' = [request EXCEPT ![r] = Idle]
  BY DEF Return, Set
<1>2. request' \in [Requests -> Request] /\ request'[r].pc = "idle"
      /\ \A s \in Requests \ {r} : request'[s] = request[s]
  BY <1>1, IdleType
<1>. QED
  BY <1>2 DEF RequestOK

\* A request whose local state is replaced.
LEMMA WasSet ==
  ASSUME NEW r \in Requests, request \in [Requests -> Request], NEW q \in Request, Set(r, q)
  PROVE  /\ request' \in [Requests -> Request] /\ request'[r] = q
         /\ \A s \in Requests \ {r} : request'[s] = request[s]
BY DEF Set

\* A request that goes to another place.
LEMMA Went ==
  ASSUME NEW r \in Requests, request \in [Requests -> Request], NEW pc \in PC, Goto(r, pc)
  PROVE  /\ request' \in [Requests -> Request] /\ request'[r].pc = pc
         /\ request'[r].op = request[r].op /\ request'[r].version = request[r].version
         /\ request'[r].content = request[r].content /\ request'[r].account = request[r].account
         /\ request'[r].context = request[r].context /\ request'[r].plan = request[r].plan
         /\ \A s \in Requests \ {r} : request'[s] = request[s]
BY DEF Goto, Set, Request

\* A step that leaves the tables alone.
LEMMA TablesStay ==
  ASSUME NEW r \in Requests, HandoffInvariant, UNCHANGED tables
  PROVE  Grown /\ PackageStoredOnce'
BY DEF tables, Grown, HandoffInvariant, PackageStoredOnce

-----------------------------------------------------------------------------
(* The requests begin and end.                                             *)

\* Starting leaves the tables alone.
LEMMA Started ==
  ASSUME NEW r \in Requests, HandoffInvariant, SetAssumption, BoundAssumption,
         NEW q \in Request, Start(r, q), sent' \subseteq Versions
  PROVE  /\ TypeOK' /\ Grown /\ PackageStoredOnce' /\ request'[r] = q
         /\ \A s \in Requests \ {r} : request'[s] = request[s]
         /\ answers' = answers /\ UNCHANGED tables
<1>1. /\ UNCHANGED tables /\ UNCHANGED <<selection, answers, failures, selections>>
      /\ starts < MaxStarts /\ starts' = starts + 1 /\ Set(r, q)
  BY DEF Start
<1>2. /\ request' \in [Requests -> Request] /\ request'[r] = q
      /\ \A s \in Requests \ {r} : request'[s] = request[s]
  BY <1>1, Given, WasSet
<1>3. TypeOK'
  BY <1>1, <1>2 DEF HandoffInvariant, TypeOK, tables, BoundAssumption
<1>. QED
  BY <1>1, <1>2, <1>3, TablesStay

\* A local state made of nothing but its first fields.
LEMMA FreshSubmit ==
  ASSUME SetAssumption, NEW pc \in PC, NEW version \in Versions, NEW content \in Contents,
         NEW account \in Accounts
  PROVE  [Idle EXCEPT !.pc = pc, !.version = version, !.content = content,
                      !.account = account] \in Request
BY IdleType DEF Request

LEMMA FreshGenerate ==
  ASSUME SetAssumption, NEW op \in Operation, NEW pc \in PC, NEW context \in Nat
  PROVE  [Idle EXCEPT !.op = op, !.pc = pc, !.context = context] \in Request
BY IdleType DEF Request

LEMMA FreshRevise ==
  ASSUME SetAssumption, NEW op \in Operation, NEW pc \in PC, NEW plan \in Nat,
         NEW content \in Contents
  PROVE  [Idle EXCEPT !.op = op, !.pc = pc, !.plan = plan, !.content = content] \in Request
BY IdleType DEF Request

LEMMA FreshBind ==
  ASSUME SetAssumption, NEW op \in Operation, NEW pc \in PC, NEW plan \in Nat,
         NEW account \in Accounts
  PROVE  [Idle EXCEPT !.op = op, !.pc = pc, !.plan = plan, !.account = account] \in Request
BY IdleType DEF Request

LEMMA SubmitStep ==
  ASSUME NEW r \in Requests, HandoffInvariant, SetAssumption, BoundAssumption,
         NEW d \in Drafts, Submit(r, d)
  PROVE  Stepped(r)
<1>. DEFINE q == [Idle EXCEPT !.pc = "finding", !.version = d.version, !.content = d.content,
                              !.account = selection]
<1>1. /\ d.version \in Versions /\ d.content \in Contents /\ selection \in Accounts
      /\ sent \subseteq Versions
  BY DEF SetAssumption, Versions, Draft, HandoffInvariant, TypeOK
<1>2. q \in Request
  BY <1>1, FreshSubmit DEF PC
<1>3. q.pc = "finding" /\ q.op = "submit" /\ q.version = d.version /\ q.account = selection
  <2>1. Idle \in Request /\ Idle.op = "submit"
    BY IdleType DEF Idle
  <2>. QED
    BY <2>1 DEF Request
<1>4. Start(r, q) /\ sent' \subseteq Versions
  BY <1>1, Zenon DEF Submit
<1>. HIDE DEF q
<1>5. /\ TypeOK' /\ Grown /\ PackageStoredOnce' /\ request'[r] = q /\ answers' = answers
      /\ \A s \in Requests \ {r} : request'[s] = request[s]
  BY <1>2, <1>4, Started
<1>6. RequestOK(request[r])'
  BY <1>1, <1>3, <1>5 DEF RequestOK
<1>. QED
  BY <1>5, <1>6 DEF Stepped

LEMMA OperatorStep ==
  ASSUME NEW r \in Requests, HandoffInvariant, SetAssumption, BoundAssumption,
         \/ \E version \in DOMAIN contexts : GeneratePlan(r, version)
         \/ \E plan \in DOMAIN plans, content \in Contents : Revise(r, plan, content)
         \/ \E plan \in DOMAIN plans, account \in Accounts : Bind(r, plan, account)
  PROVE  Stepped(r)
<1>1. /\ Idle \in Request /\ sent \subseteq Versions
      /\ DOMAIN contexts \subseteq Nat /\ DOMAIN plans \subseteq Nat
  BY IdleType, Given DEF HandoffInvariant, TypeOK
<1>2. ASSUME NEW q \in Request, Start(r, q), sent' = sent, q.op # "submit",
             q.pc \in {"generating", "checking", "binding"},
             q.pc = "generating" => q.op = "generate" /\ q.context \in DOMAIN contexts,
             q.pc # "generating" => q.plan \in DOMAIN plans,
             q.pc = "checking" => q.op = "revise",
             q.pc = "binding" => q.account \in Accounts
      PROVE  Stepped(r)
  <2>1. /\ TypeOK' /\ Grown /\ PackageStoredOnce' /\ request'[r] = q /\ answers' = answers
        /\ \A s \in Requests \ {r} : request'[s] = request[s]
        /\ contexts' = contexts /\ plans' = plans
    BY <1>1, <1>2, Started DEF tables
  <2>2. RequestOK(request[r])'
    BY <1>2, <2>1 DEF RequestOK
  <2>. QED
    BY <2>1, <2>2 DEF Stepped
<1>3. ASSUME NEW version \in DOMAIN contexts, GeneratePlan(r, version)
      PROVE  Stepped(r)
  <2>. DEFINE q == [Idle EXCEPT !.op = "generate", !.pc = "generating", !.context = version]
  <2>1. q.op = "generate" /\ q.pc = "generating" /\ q.context = version
    BY <1>1 DEF Request
  <2>2. q \in Request
    BY <1>1, FreshGenerate DEF PC, Operation
  <2>3. Start(r, q) /\ sent' = sent
    BY <1>3, Zenon DEF GeneratePlan
  <2>. HIDE DEF q
  <2>. QED
    BY <1>2, <2>1, <2>2, <2>3
<1>4. ASSUME NEW plan \in DOMAIN plans, NEW content \in Contents, Revise(r, plan, content)
      PROVE  Stepped(r)
  <2>. DEFINE q == [Idle EXCEPT !.op = "revise", !.pc = "checking", !.plan = plan,
                                !.content = content]
  <2>1. q.op = "revise" /\ q.pc = "checking" /\ q.plan = plan
    BY <1>1 DEF Request
  <2>2. q \in Request
    BY <1>1, FreshRevise DEF PC, Operation
  <2>3. Start(r, q) /\ sent' = sent
    BY <1>4, Zenon DEF Revise
  <2>. HIDE DEF q
  <2>. QED
    BY <1>2, <2>1, <2>2, <2>3
<1>5. ASSUME NEW plan \in DOMAIN plans, NEW account \in Accounts, Bind(r, plan, account)
      PROVE  Stepped(r)
  <2>. DEFINE q == [Idle EXCEPT !.op = "bind", !.pc = "binding", !.plan = plan,
                                !.account = account]
  <2>1. q.op = "bind" /\ q.pc = "binding" /\ q.plan = plan /\ q.account = account
    BY <1>1 DEF Request
  <2>2. q \in Request
    BY <1>1, FreshBind DEF PC, Operation
  <2>3. Start(r, q) /\ sent' = sent
    BY <1>5, Zenon DEF Bind
  <2>. HIDE DEF q
  <2>. QED
    BY <1>2, <2>1, <2>2, <2>3
<1>. QED
  BY <1>3, <1>4, <1>5

LEMMA FailsStep ==
  ASSUME NEW r \in Requests, HandoffInvariant, SetAssumption, BoundAssumption, Fails(r)
  PROVE  Stepped(r)
<1>1. /\ failures < MaxFailures /\ failures' = failures + 1 /\ Return(r)
      /\ UNCHANGED tables /\ UNCHANGED <<selection, sent, answers, starts, selections>>
  BY DEF Fails
<1>2. /\ request' \in [Requests -> Request] /\ RequestOK(request[r])'
      /\ \A s \in Requests \ {r} : request'[s] = request[s]
  BY <1>1, Given, Returned
<1>3. TypeOK'
  BY <1>1, <1>2 DEF HandoffInvariant, TypeOK, tables, BoundAssumption
<1>. QED
  BY <1>1, <1>2, <1>3, TablesStay DEF Stepped

-----------------------------------------------------------------------------
(* The context.                                                            *)

\* A version of the context that is new, or the operator's, keeps packages apart.
LEMMA ContextAppended ==
  ASSUME HandoffInvariant, NEW row \in Context, contexts' = Append(contexts, row),
         row.package = 0 \/ ~Stored(row.package), plans' = plans
  PROVE  Grown /\ PackageStoredOnce' /\ contexts' \in Seq(Context)
         /\ DOMAIN contexts' = 1..(Len(contexts) + 1) /\ contexts'[Len(contexts) + 1] = row
<1>1. /\ contexts \in Seq(Context) /\ DOMAIN contexts = 1..Len(contexts) /\ Len(contexts) \in Nat
      /\ PackageStoredOnce
  BY DEF HandoffInvariant, TypeOK
<1>2. /\ contexts' \in Seq(Context) /\ DOMAIN contexts' = 1..(Len(contexts) + 1)
      /\ DOMAIN contexts \subseteq DOMAIN contexts'
      /\ \A i \in DOMAIN contexts : contexts'[i] = contexts[i]
      /\ contexts'[Len(contexts) + 1] = row
  BY <1>1, RowAppended
<1>3. \A i \in DOMAIN contexts' : i \in DOMAIN contexts \/ i = Len(contexts) + 1
  BY <1>1, <1>2
<1>4. row.package # 0 => \A i \in DOMAIN contexts : contexts[i].package # row.package
  BY DEF Stored
<1>5. PackageStoredOnce'
  BY <1>1, <1>2, <1>3, <1>4 DEF PackageStoredOnce
<1>. QED
  BY <1>2, <1>5 DEF Grown

LEMMA UpdateStep ==
  ASSUME NEW r \in Requests, HandoffInvariant, SetAssumption, BoundAssumption,
         NEW content \in Contents, Update(r, content)
  PROVE  Stepped(r)
<1>1. /\ contexts' = Append(contexts, OperatorContext(content)) /\ plans' = plans
      /\ starts < MaxStarts /\ starts' = starts + 1
      /\ UNCHANGED <<plans, creatives, selection, request, sent, answers, failures, selections>>
  BY DEF Update
<1>2. OperatorContext(content) \in Context /\ OperatorContext(content).package = 0
  BY DEF OperatorContext, Context, ContextStatus
<1>3. Grown /\ PackageStoredOnce' /\ contexts' \in Seq(Context)
  BY <1>1, <1>2, ContextAppended
<1>4. TypeOK'
  BY <1>1, <1>3 DEF HandoffInvariant, TypeOK, BoundAssumption
<1>5. RequestOK(request[r])'
  BY <1>1, <1>3, Given, RequestStays
<1>. QED
  BY <1>1, <1>3, <1>4, <1>5 DEF Stepped

\* A step that ends the request and leaves everything else alone.
LEMMA ReturnStep ==
  ASSUME NEW r \in Requests, HandoffInvariant, SetAssumption, Return(r),
         UNCHANGED tables, UNCHANGED <<selection, sent, answers, counts>>
  PROVE  Stepped(r)
<1>1. /\ request' \in [Requests -> Request] /\ RequestOK(request[r])'
      /\ \A s \in Requests \ {r} : request'[s] = request[s]
  BY Given, Returned
<1>2. TypeOK'
  BY <1>1 DEF HandoffInvariant, TypeOK, tables, counts
<1>. QED
  BY <1>1, <1>2, TablesStay DEF Stepped

\* A step of a request that goes on with the tables as they are.
LEMMA GoOnStep ==
  ASSUME NEW r \in Requests, HandoffInvariant, UNCHANGED tables,
         UNCHANGED <<selection, sent, answers, counts>>,
         request' \in [Requests -> Request], \A s \in Requests \ {r} : request'[s] = request[s],
         RequestOK(request[r])'
  PROVE  Stepped(r)
<1>1. TypeOK'
  BY DEF HandoffInvariant, TypeOK, tables, counts
<1>. QED
  BY <1>1, TablesStay DEF Stepped

\* What a replaced local state keeps.
Kept(q, n) == n.op = q.op /\ n.version = q.version /\ n.content = q.content /\ n.account = q.account

LEMMA ToContext ==
  ASSUME NEW r \in Requests, request \in [Requests -> Request], NEW context \in Nat, NEW pc \in PC,
         Set(r, [request[r] EXCEPT !.pc = pc, !.context = context])
  PROVE  /\ request' \in [Requests -> Request] /\ Kept(request[r], request'[r])
         /\ request'[r].pc = pc /\ request'[r].context = context
         /\ \A s \in Requests \ {r} : request'[s] = request[s]
BY DEF Request, Set, Kept

LEMMA ToPlan ==
  ASSUME NEW r \in Requests, request \in [Requests -> Request], NEW plan \in Nat, NEW pc \in PC,
         Set(r, [request[r] EXCEPT !.pc = pc, !.plan = plan])
  PROVE  /\ request' \in [Requests -> Request] /\ Kept(request[r], request'[r])
         /\ request'[r].pc = pc /\ request'[r].plan = plan
         /\ request'[r].context = request[r].context
         /\ \A s \in Requests \ {r} : request'[s] = request[s]
BY DEF Request, Set, Kept

LEMMA ToCreative ==
  ASSUME NEW r \in Requests, request \in [Requests -> Request], NEW creative \in Nat, NEW pc \in PC,
         Set(r, [request[r] EXCEPT !.pc = pc, !.creative = creative])
  PROVE  /\ request' \in [Requests -> Request] /\ Kept(request[r], request'[r])
         /\ request'[r].pc = pc /\ request'[r].plan = request[r].plan
         /\ request'[r].context = request[r].context
         /\ \A s \in Requests \ {r} : request'[s] = request[s]
BY DEF Request, Set, Kept

\* The context that a request has stays its context.
LEMMA ContextStays ==
  ASSUME NEW q, NEW n, HasContext(q), Kept(q, n), n.context = q.context, Grown
  PROVE  /\ n.context = n.version /\ n.version \in DOMAIN contexts'
         /\ contexts'[n.version] = PackageContext(n)
BY DEF HasContext, Kept, Grown, PackageContext

LEMMA FindVersionStep ==
  ASSUME NEW r \in Requests, HandoffInvariant, SetAssumption, FindVersion(r)
  PROVE  Stepped(r)
<1>1. /\ At(r, "finding") /\ UNCHANGED tables
      /\ UNCHANGED <<selection, sent, answers, counts>>
  BY DEF FindVersion, UnchangedButContexts, tables
<1>2. /\ request[r].op = "submit" /\ request[r].version \in Versions
      /\ request[r].account \in Accounts /\ request[r].version \in Nat
  BY <1>1, Given, VersionsAreNat DEF RequestOK, At
<1>3. CASE Goto(r, "latest")
  <2>1. "latest" \in PC
    BY DEF PC
  <2>2. /\ request' \in [Requests -> Request] /\ request'[r].pc = "latest"
        /\ request'[r].op = request[r].op /\ request'[r].version = request[r].version
        /\ request'[r].account = request[r].account
        /\ \A s \in Requests \ {r} : request'[s] = request[s]
    BY <1>3, <2>1, Given, Went
  <2>3. RequestOK(request[r])'
    BY <1>2, <2>2 DEF RequestOK
  <2>. QED
    BY <1>1, <2>2, <2>3, GoOnStep
<1>4. CASE /\ request[r].version \in DOMAIN contexts
           /\ contexts[request[r].version] = PackageContext(request[r])
           /\ Set(r, [request[r] EXCEPT !.pc = "generating", !.context = request[r].version])
  <2>1. "generating" \in PC
    BY DEF PC
  <2>2. /\ request' \in [Requests -> Request] /\ Kept(request[r], request'[r])
        /\ request'[r].pc = "generating" /\ request'[r].context = request[r].version
        /\ \A s \in Requests \ {r} : request'[s] = request[s]
    BY <1>2, <1>4, <2>1, Given, ToContext
  <2>3. RequestOK(request[r])'
    BY <1>1, <1>2, <1>4, <2>2 DEF RequestOK, HasContext, Kept, PackageContext, tables
  <2>. QED
    BY <1>1, <2>2, <2>3, GoOnStep
<1>5. CASE Return(r)
  BY <1>1, <1>5, ReturnStep
<1>. QED
  BY <1>3, <1>4, <1>5 DEF FindVersion

LEMMA ReadLatestStep ==
  ASSUME NEW r \in Requests, HandoffInvariant, SetAssumption, ReadLatest(r)
  PROVE  Stepped(r)
<1>1. /\ At(r, "latest") /\ UNCHANGED tables
      /\ UNCHANGED <<selection, sent, answers, counts>>
      /\ Goto(r, "storing") \/ Return(r)
  BY DEF ReadLatest, UnchangedButContexts, tables
<1>2. CASE Goto(r, "storing")
  <2>1. "storing" \in PC
    BY DEF PC
  <2>2. /\ request' \in [Requests -> Request] /\ request'[r].pc = "storing"
        /\ request'[r].op = request[r].op /\ request'[r].version = request[r].version
        /\ request'[r].account = request[r].account
        /\ \A s \in Requests \ {r} : request'[s] = request[s]
    BY <1>2, <2>1, Given, Went
  <2>3. RequestOK(request[r])'
    BY <1>1, <2>2, Given DEF RequestOK, At
  <2>. QED
    BY <1>1, <2>2, <2>3, GoOnStep
<1>. QED
  BY <1>1, <1>2, ReturnStep

\* The row of a submission is stored: the request goes on with it, or is refused.
LEMMA RowStored ==
  ASSUME NEW r \in Requests, HandoffInvariant, SetAssumption, At(r, "storing"),
         ~Stored(request[r].version),
         contexts' = Append(contexts, PackageContext(request[r])),
         UNCHANGED <<plans, creatives, selection, sent, answers, counts>>,
         \/ Return(r)
         \/ /\ request[r].version = Len(contexts) + 1
            /\ Set(r, [request[r] EXCEPT !.pc = "generating", !.context = request[r].version])
  PROVE  Stepped(r)
<1>1. /\ request[r].op = "submit" /\ request[r].version \in Versions
      /\ request[r].account \in Accounts /\ request[r].version \in Nat
      /\ request[r].content \in Contents
  BY Given, VersionsAreNat DEF RequestOK, At, Request
<1>2. /\ PackageContext(request[r]) \in Context
      /\ PackageContext(request[r]).package = request[r].version
  BY <1>1 DEF PackageContext, Context, ContextStatus
<1>3. /\ Grown /\ PackageStoredOnce' /\ contexts' \in Seq(Context)
      /\ DOMAIN contexts' = 1..(Len(contexts) + 1)
      /\ contexts'[Len(contexts) + 1] = PackageContext(request[r])
  BY <1>2, ContextAppended
<1>4. /\ request' \in [Requests -> Request] /\ RequestOK(request[r])'
      /\ \A s \in Requests \ {r} : request'[s] = request[s]
  <2>1. CASE Return(r)
    BY <2>1, Given, Returned
  <2>2. CASE /\ request[r].version = Len(contexts) + 1
             /\ Set(r, [request[r] EXCEPT !.pc = "generating", !.context = request[r].version])
    <3>1. "generating" \in PC
      BY DEF PC
    <3>2. /\ request' \in [Requests -> Request] /\ Kept(request[r], request'[r])
          /\ request'[r].pc = "generating" /\ request'[r].context = request[r].version
          /\ \A s \in Requests \ {r} : request'[s] = request[s]
      BY <1>1, <2>2, <3>1, Given, ToContext
    <3>3. request[r].version \in DOMAIN contexts'
          /\ contexts'[request[r].version] = PackageContext(request[r])
      BY <1>3, <2>2, Given
    <3>4. RequestOK(request[r])'
      BY <1>1, <3>2, <3>3 DEF RequestOK, HasContext, Kept, PackageContext
    <3>. QED
      BY <3>2, <3>4
  <2>. QED
    BY <2>1, <2>2
<1>5. TypeOK'
  BY <1>3, <1>4 DEF HandoffInvariant, TypeOK, counts
<1>. QED
  BY <1>3, <1>4, <1>5 DEF Stepped

LEMMA StoreFirstStep ==
  ASSUME NEW r \in Requests, HandoffInvariant, SetAssumption, StoreFirst(r)
  PROVE  Stepped(r)
<1>1. /\ At(r, "storing") /\ request[r].version = 1
      /\ UNCHANGED <<plans, creatives, selection, sent, answers, counts>>
  BY DEF StoreFirst, UnchangedButContexts
<1>2. CASE contexts = <<>>
  <2>1. /\ contexts' = <<PackageContext(request[r])>>
        /\ Set(r, [request[r] EXCEPT !.pc = "generating", !.context = request[r].version])
    BY <1>1, <1>2 DEF StoreFirst
  <2>2. /\ contexts' = Append(contexts, PackageContext(request[r]))
        /\ request[r].version = Len(contexts) + 1
    BY <1>1, <1>2, <2>1
  <2>3. ~Stored(request[r].version)
    BY <1>2 DEF Stored
  <2>. QED
    BY <1>1, <2>1, <2>2, <2>3, RowStored
<1>3. CASE contexts # <<>>
  BY <1>1, <1>3, ReturnStep DEF StoreFirst, tables
<1>. QED
  BY <1>2, <1>3

LEMMA StoreNextStep ==
  ASSUME NEW r \in Requests, HandoffInvariant, SetAssumption, StoreNext(r)
  PROVE  Stepped(r)
<1>1. /\ At(r, "storing")
      /\ UNCHANGED <<plans, creatives, selection, sent, answers, counts>>
  BY DEF StoreNext, UnchangedButContexts
<1>2. CASE Stored(request[r].version)
  BY <1>1, <1>2, ReturnStep DEF StoreNext, tables
<1>3. CASE ~Stored(request[r].version)
  <2>1. /\ contexts' = Append(contexts, PackageContext(request[r]))
        /\ \/ Return(r)
           \/ /\ request[r].version = Len(contexts) + 1
              /\ Set(r, [request[r] EXCEPT !.pc = "generating", !.context = request[r].version])
    BY <1>3 DEF StoreNext
  <2>. QED
    BY <1>1, <1>3, <2>1, RowStored
<1>. QED
  BY <1>2, <1>3

-----------------------------------------------------------------------------
(* The plans.                                                              *)

\* A step that saves a plan, and ends the request or goes on with it.
LEMMA PlanSaved ==
  ASSUME NEW r \in Requests, HandoffInvariant, SetAssumption,
         NEW plan \in Plan, Save(plan), UNCHANGED <<contexts, creatives, selection, sent, counts>>,
         request' \in [Requests -> Request], \A s \in Requests \ {r} : request'[s] = request[s],
         RequestOK(request[r])', answers' \subseteq Answer,
         \A a \in answers' : a \in answers \/ AnswerOK(a)'
  PROVE  Stepped(r)
<1>1. plans' \in Seq(Plan) /\ Grown
  BY Saved DEF HandoffInvariant, TypeOK, Grown
<1>2. TypeOK' /\ PackageStoredOnce'
  BY <1>1 DEF HandoffInvariant, TypeOK, counts, PackageStoredOnce
<1>. QED
  BY <1>1, <1>2 DEF Stepped

\* A submission goes on with the plan it saved.
LEMMA WithSavedPlan ==
  ASSUME NEW r \in Requests, HandoffInvariant, SetAssumption, NEW plan \in Plan, Save(plan),
         UNCHANGED contexts, request[r].op = "submit", request[r].pc \in {"generating", "deriving"},
         NEW pc \in {"creative", "binding"},
         Set(r, [request[r] EXCEPT !.pc = pc, !.plan = Position(plan)])
  PROVE  /\ request' \in [Requests -> Request] /\ RequestOK(request[r])'
         /\ \A s \in Requests \ {r} : request'[s] = request[s]
<1>1. plans \in Seq(Plan) /\ request \in [Requests -> Request] /\ RequestOK(request[r])
  BY Given
<1>2. /\ plans' \in Seq(Plan) /\ DOMAIN plans \subseteq DOMAIN plans'
      /\ Position(plan) \in DOMAIN plans'
      /\ \A i \in DOMAIN plans : plans'[i] = plans[i]
  BY <1>1, Saved
<1>3. Position(plan) \in Nat /\ pc \in PC
  BY <1>2 DEF PC
<1>4. /\ request' \in [Requests -> Request] /\ Kept(request[r], request'[r])
      /\ request'[r].pc = pc /\ request'[r].plan = Position(plan)
      /\ request'[r].context = request[r].context
      /\ \A s \in Requests \ {r} : request'[s] = request[s]
  BY <1>1, <1>3, ToPlan
<1>5. /\ HasContext(request[r]) /\ request[r].version \in Versions
      /\ request[r].account \in Accounts
  BY <1>1 DEF RequestOK
<1>6. RequestOK(request[r])'
  BY <1>2, <1>4, <1>5 DEF RequestOK, HasContext, Kept, PackageContext
<1>. QED
  BY <1>4, <1>6

LEMMA GenerateStep ==
  ASSUME NEW r \in Requests, HandoffInvariant, SetAssumption, Generate(r)
  PROVE  Stepped(r)
<1>. DEFINE new == [source |-> 0, context |-> request[r].context, creative |-> 0,
                    account |-> NoAccount]
<1>1. /\ At(r, "generating")
      /\ UNCHANGED <<creatives, answers>> /\ UNCHANGED <<contexts, selection, sent, counts>>
  BY DEF Generate, UnchangedButPlans
<1>2. new \in Plan
  BY Given DEF Plan, Request
<1>3. CASE contexts[request[r].context].status = "needs_information"
  BY <1>1, <1>3, ReturnStep DEF Generate, tables
<1>4. CASE contexts[request[r].context].status # "needs_information"
  <2>1. /\ Save(new)
        /\ IF Submitting(r)
           THEN Set(r, [request[r] EXCEPT !.pc = "creative", !.plan = Position(new)])
           ELSE Return(r)
    BY <1>4 DEF Generate
  <2>. HIDE DEF new
  <2>2. /\ request' \in [Requests -> Request] /\ RequestOK(request[r])'
        /\ \A s \in Requests \ {r} : request'[s] = request[s]
    <3>1. CASE Submitting(r)
      BY <1>1, <1>2, <2>1, <3>1, WithSavedPlan DEF Submitting, At
    <3>2. CASE ~Submitting(r)
      BY <2>1, <3>2, Given, Returned
    <3>. QED
      BY <3>1, <3>2
  <2>3. answers' \subseteq Answer /\ \A a \in answers' : a \in answers
    BY <1>1 DEF HandoffInvariant, TypeOK
  <2>. QED
    BY <1>1, <1>2, <2>1, <2>2, <2>3, PlanSaved
<1>. QED
  BY <1>3, <1>4

LEMMA ReadCreativeStep ==
  ASSUME NEW r \in Requests, HandoffInvariant, SetAssumption, ReadCreative(r)
  PROVE  Stepped(r)
<1>1. /\ At(r, "creative") /\ UNCHANGED tables
      /\ UNCHANGED <<selection, sent, answers, counts>>
      /\ \/ Set(r, [request[r] EXCEPT !.pc = "current", !.creative = Len(creatives)])
         \/ Goto(r, "checking")
  BY DEF ReadCreative, UnchangedButPlans, tables
<1>2. RequestOK(request[r]) /\ request[r].op = "submit" /\ HasContext(request[r])
  BY <1>1, Given DEF RequestOK, At
<1>3. "current" \in PC /\ "checking" \in PC /\ Len(creatives) \in Nat
  BY Given DEF PC
<1>4. /\ request' \in [Requests -> Request] /\ Kept(request[r], request'[r])
      /\ request'[r].pc \in {"current", "checking"} /\ request'[r].plan = request[r].plan
      /\ request'[r].context = request[r].context
      /\ \A s \in Requests \ {r} : request'[s] = request[s]
  <2>1. CASE Set(r, [request[r] EXCEPT !.pc = "current", !.creative = Len(creatives)])
    BY <1>3, <2>1, Given, ToCreative
  <2>2. CASE Goto(r, "checking")
    BY <1>3, <2>2, Given, Went DEF Kept
  <2>. QED
    BY <1>1, <2>1, <2>2
<1>5. RequestOK(request[r])'
  BY <1>1, <1>2, <1>4 DEF RequestOK, HasContext, Kept, PackageContext, At, tables
<1>. QED
  BY <1>1, <1>4, <1>5, GoOnStep

LEMMA TakeLatestPlanStep ==
  ASSUME NEW r \in Requests, HandoffInvariant, SetAssumption, TakeLatestPlan(r)
  PROVE  Stepped(r)
<1>1. /\ At(r, "current") /\ UNCHANGED tables
      /\ UNCHANGED <<selection, sent, answers, counts>>
      /\ Set(r, [request[r] EXCEPT !.pc = "binding", !.plan = Latest])
  BY DEF TakeLatestPlan, UnchangedButPlans, tables
<1>2. /\ request[r].op = "submit" /\ HasContext(request[r]) /\ request[r].plan \in DOMAIN plans
      /\ request[r].version \in Versions /\ request[r].account \in Accounts
  BY <1>1, Given DEF RequestOK, At
<1>3. "binding" \in PC /\ Latest \in Nat /\ Latest \in DOMAIN plans
  BY <1>2, Given DEF PC, Latest
<1>4. /\ request' \in [Requests -> Request] /\ Kept(request[r], request'[r])
      /\ request'[r].pc = "binding" /\ request'[r].plan = Latest
      /\ request'[r].context = request[r].context
      /\ \A s \in Requests \ {r} : request'[s] = request[s]
  BY <1>1, <1>3, Given, ToPlan
<1>5. RequestOK(request[r])'
  BY <1>1, <1>2, <1>3, <1>4 DEF RequestOK, HasContext, Kept, PackageContext, tables
<1>. QED
  BY <1>1, <1>4, <1>5, GoOnStep

LEMMA CheckPlanStep ==
  ASSUME NEW r \in Requests, HandoffInvariant, SetAssumption, CheckPlan(r)
  PROVE  Stepped(r)
<1>1. /\ At(r, "checking") /\ UNCHANGED tables
      /\ UNCHANGED <<selection, sent, answers, counts>>
      /\ Goto(r, "inserting") \/ Return(r)
  BY DEF CheckPlan, UnchangedButPlans, tables
<1>2. CASE Goto(r, "inserting")
  <2>1. "inserting" \in PC
    BY DEF PC
  <2>2. /\ request' \in [Requests -> Request] /\ Kept(request[r], request'[r])
        /\ request'[r].pc = "inserting" /\ request'[r].plan = request[r].plan
        /\ request'[r].context = request[r].context
        /\ \A s \in Requests \ {r} : request'[s] = request[s]
    BY <1>2, <2>1, Given, Went DEF Kept
  <2>3. RequestOK(request[r])'
    BY <1>1, <2>2, Given DEF RequestOK, HasContext, Kept, PackageContext, At, tables
  <2>. QED
    BY <1>1, <2>2, <2>3, GoOnStep
<1>. QED
  BY <1>1, <1>2, ReturnStep

LEMMA InsertCreativeStep ==
  ASSUME NEW r \in Requests, HandoffInvariant, SetAssumption, InsertCreative(r)
  PROVE  Stepped(r)
<1>. DEFINE row == [plan |-> request[r].plan, content |-> request[r].content,
                    package |-> request[r].version]
<1>1. /\ At(r, "inserting") /\ creatives' = Append(creatives, row)
      /\ Set(r, [request[r] EXCEPT !.pc = "deriving", !.creative = Len(creatives) + 1])
      /\ UNCHANGED <<plans, answers>> /\ UNCHANGED <<contexts, selection, sent, counts>>
  BY DEF InsertCreative, UnchangedButPlans
<1>2. row \in Creative
  BY Given DEF Creative, Request
<1>. HIDE DEF row
<1>3. creatives' \in Seq(Creative)
  BY <1>1, <1>2, Given, RowAppended
<1>4. "deriving" \in PC /\ Len(creatives) + 1 \in Nat
  BY Given DEF PC
<1>5. /\ request' \in [Requests -> Request] /\ Kept(request[r], request'[r])
      /\ request'[r].pc = "deriving" /\ request'[r].plan = request[r].plan
      /\ request'[r].context = request[r].context
      /\ \A s \in Requests \ {r} : request'[s] = request[s]
  BY <1>1, <1>4, Given, ToCreative
<1>6. RequestOK(request[r])'
  BY <1>1, <1>5, Given DEF RequestOK, HasContext, Kept, PackageContext, At
<1>7. TypeOK' /\ Grown /\ PackageStoredOnce'
  BY <1>1, <1>3, <1>5 DEF HandoffInvariant, TypeOK, counts, Grown, PackageStoredOnce
<1>. QED
  BY <1>1, <1>5, <1>6, <1>7 DEF Stepped

LEMMA DeriveStep ==
  ASSUME NEW r \in Requests, HandoffInvariant, SetAssumption, Derive(r)
  PROVE  Stepped(r)
<1>. DEFINE new == [plans[request[r].plan] EXCEPT !.source = request[r].plan,
                                                  !.creative = request[r].creative]
<1>1. /\ At(r, "deriving") /\ Save(new)
      /\ IF Submitting(r)
         THEN Set(r, [request[r] EXCEPT !.pc = "binding", !.plan = Position(new)])
         ELSE Return(r)
      /\ UNCHANGED <<creatives, answers>> /\ UNCHANGED <<contexts, selection, sent, counts>>
  BY DEF Derive, UnchangedButPlans
<1>2. new \in Plan
  <2>1. request[r].plan \in DOMAIN plans
    BY <1>1, Given DEF RequestOK, At
  <2>2. plans[request[r].plan] \in Plan /\ request[r].plan \in Nat /\ request[r].creative \in Nat
    BY <2>1, Given DEF Request
  <2>. QED
    BY <2>2 DEF Plan
<1>. HIDE DEF new
<1>3. /\ request' \in [Requests -> Request] /\ RequestOK(request[r])'
      /\ \A s \in Requests \ {r} : request'[s] = request[s]
  <2>1. CASE Submitting(r)
    BY <1>1, <1>2, <2>1, WithSavedPlan DEF Submitting, At
  <2>2. CASE ~Submitting(r)
    BY <1>1, <2>2, Given, Returned
  <2>. QED
    BY <2>1, <2>2
<1>4. answers' \subseteq Answer /\ \A a \in answers' : a \in answers
  BY <1>1 DEF HandoffInvariant, TypeOK
<1>. QED
  BY <1>1, <1>2, <1>3, <1>4, PlanSaved

\* A submission is accepted with a plan that is bound to its account.
LEMMA Accepted ==
  ASSUME NEW r \in Requests, HandoffInvariant, SetAssumption, NEW plan, Accept(r, plan),
         request[r].pc \in {"binding", "saving"}, Grown,
         plan \in DOMAIN plans', plan \in Nat, plans'[plan].account = request[r].account
  PROVE  /\ Return(r) /\ answers' \subseteq Answer
         /\ \A a \in answers' : a \in answers \/ AnswerOK(a)'
<1>1. /\ Return(r) /\ answers \subseteq Answer
      /\ \/ answers' = answers
         \/ /\ request[r].op = "submit"
            /\ answers' = answers \cup
                 {[version |-> request[r].version, content |-> request[r].content,
                   account |-> request[r].account, context |-> request[r].context,
                   creative |-> request[r].creative, plan |-> plan]}
  BY DEF Accept, Submitting, HandoffInvariant, TypeOK
<1>2. CASE answers' = answers
  BY <1>1, <1>2
<1>3. CASE request[r].op = "submit"
  <2>. DEFINE answer == [version |-> request[r].version, content |-> request[r].content,
                         account |-> request[r].account, context |-> request[r].context,
                         creative |-> request[r].creative, plan |-> plan]
  <2>1. HasContext(request[r]) /\ request[r].version \in Versions /\ request[r].account \in Accounts
    BY <1>3, Given DEF RequestOK
  <2>2. answer \in Answer
    BY <2>1, Given DEF Answer, Request
  <2>3. ASSUME NEW a, a = answer
        PROVE  AnswerOK(a)'
    BY <2>1, <2>3 DEF AnswerOK, HasContext, PackageContext, Grown
  <2>. HIDE DEF answer
  <2>4. answers' = answers \/ answers' = answers \cup {answer}
    BY <1>1 DEF answer
  <2>. QED
    BY <1>1, <2>2, <2>3, <2>4
<1>. QED
  BY <1>1, <1>2, <1>3

LEMMA CheckTargetStep ==
  ASSUME NEW r \in Requests, HandoffInvariant, SetAssumption, CheckTarget(r)
  PROVE  Stepped(r)
<1>1. /\ At(r, "binding") /\ UNCHANGED tables
      /\ UNCHANGED <<selection, sent, counts>>
  BY DEF CheckTarget, UnchangedButPlans, tables
<1>2. CASE Return(r) /\ UNCHANGED answers
  BY <1>1, <1>2, ReturnStep
<1>3. CASE plans[request[r].plan].account = request[r].account /\ Accept(r, request[r].plan)
  <2>1. /\ request[r].pc = "binding" /\ request[r].plan \in DOMAIN plans'
        /\ request[r].plan \in Nat /\ plans'[request[r].plan].account = request[r].account
    BY <1>1, <1>3, Given DEF At, RequestOK, tables
  <2>2. Grown /\ PackageStoredOnce'
    BY <1>1, TablesStay
  <2>3. /\ Return(r) /\ answers' \subseteq Answer
        /\ \A a \in answers' : a \in answers \/ AnswerOK(a)'
    BY <1>3, <2>1, <2>2, Accepted
  <2>4. /\ request' \in [Requests -> Request] /\ RequestOK(request[r])'
        /\ \A s \in Requests \ {r} : request'[s] = request[s]
    BY <2>3, Given, Returned
  <2>5. TypeOK'
    BY <1>1, <2>3, <2>4 DEF HandoffInvariant, TypeOK, tables, counts
  <2>. QED
    BY <2>2, <2>3, <2>4, <2>5 DEF Stepped
<1>4. CASE Goto(r, "saving") /\ UNCHANGED answers
  <2>1. "saving" \in PC
    BY DEF PC
  <2>2. /\ request' \in [Requests -> Request] /\ Kept(request[r], request'[r])
        /\ request'[r].pc = "saving" /\ request'[r].plan = request[r].plan
        /\ request'[r].context = request[r].context
        /\ \A s \in Requests \ {r} : request'[s] = request[s]
    BY <1>4, <2>1, Given, Went DEF Kept
  <2>3. RequestOK(request[r])'
    BY <1>1, <2>2, Given DEF RequestOK, HasContext, Kept, PackageContext, At, tables
  <2>. QED
    BY <1>1, <1>4, <2>2, <2>3, GoOnStep
<1>. QED
  BY <1>2, <1>3, <1>4 DEF CheckTarget

LEMMA SaveTargetStep ==
  ASSUME NEW r \in Requests, HandoffInvariant, SetAssumption, SaveTarget(r)
  PROVE  Stepped(r)
<1>. DEFINE new == [plans[request[r].plan] EXCEPT !.source = request[r].plan,
                                                  !.account = request[r].account]
<1>1. /\ At(r, "saving") /\ Save(new) /\ Accept(r, Position(new))
      /\ UNCHANGED <<contexts, creatives, selection, sent, counts>>
  BY DEF SaveTarget, UnchangedButPlans
<1>2. new \in Plan /\ new.account = request[r].account
  <2>1. request[r].plan \in DOMAIN plans
    BY <1>1, Given DEF RequestOK, At
  <2>2. /\ plans[request[r].plan] \in Plan /\ request[r].plan \in Nat
        /\ request[r].account \in Accounts \cup {NoAccount}
    BY <2>1, Given DEF Request
  <2>. QED
    BY <2>2 DEF Plan
<1>. HIDE DEF new
<1>3. /\ plans' \in Seq(Plan) /\ DOMAIN plans \subseteq DOMAIN plans'
      /\ \A i \in DOMAIN plans : plans'[i] = plans[i]
      /\ Position(new) \in DOMAIN plans' /\ plans'[Position(new)] = new
  BY <1>1, <1>2, Given, Saved
<1>4. Grown /\ Position(new) \in Nat /\ plans'[Position(new)].account = request[r].account
  BY <1>1, <1>2, <1>3 DEF Grown
<1>5. /\ Return(r) /\ answers' \subseteq Answer
      /\ \A a \in answers' : a \in answers \/ AnswerOK(a)'
  BY <1>1, <1>3, <1>4, Accepted DEF At
<1>6. /\ request' \in [Requests -> Request] /\ RequestOK(request[r])'
      /\ \A s \in Requests \ {r} : request'[s] = request[s]
  BY <1>5, Given, Returned
<1>. QED
  BY <1>1, <1>2, <1>5, <1>6, PlanSaved

-----------------------------------------------------------------------------
(* The theorems.                                                           *)

LEMMA StepKeeps ==
  ASSUME NEW r \in Requests, HandoffInvariant, Stepped(r)
  PROVE  HandoffInvariant'
<1>1. TypeOK' /\ PackageStoredOnce' /\ Grown
  BY DEF Stepped
<1>2. ASSUME NEW s \in Requests
      PROVE  RequestOK(request[s])'
  <2>1. CASE s = r
    BY <2>1 DEF Stepped
  <2>2. CASE s # r
    <3>1. request'[s] = request[s] /\ RequestOK(request[s])
      BY <2>2 DEF Stepped, HandoffInvariant
    <3>. QED
      BY <1>1, <3>1, RequestStays
  <2>. QED
    BY <2>1, <2>2
<1>3. ASSUME NEW a \in answers'
      PROVE  AnswerOK(a)'
  <2>1. CASE AnswerOK(a)'
    BY <2>1
  <2>2. CASE a \in answers
    BY <1>1, <2>2, AnswerStays DEF HandoffInvariant
  <2>. QED
    BY <2>1, <2>2 DEF Stepped
<1>. QED
  BY <1>1, <1>2, <1>3 DEF HandoffInvariant

LEMMA BeginsStep ==
  ASSUME NEW r \in Requests, HandoffInvariant, SetAssumption, BoundAssumption, Begins(r)
  PROVE  Stepped(r)
BY SubmitStep, OperatorStep, UpdateStep DEF Begins

LEMMA RequestStep ==
  ASSUME NEW r \in Requests, HandoffInvariant, SetAssumption, Step(r)
  PROVE  Stepped(r)
BY FindVersionStep, ReadLatestStep, StoreFirstStep, StoreNextStep, GenerateStep,
   ReadCreativeStep, TakeLatestPlanStep, CheckPlanStep, InsertCreativeStep, DeriveStep,
   CheckTargetStep, SaveTargetStep DEF Step

\* A step that leaves the tables, the requests and the answers alone.
LEMMA NothingHappens ==
  ASSUME HandoffInvariant, UNCHANGED <<tables, request, answers>>, TypeOK'
  PROVE  HandoffInvariant'
BY DEF HandoffInvariant, tables, RequestOK, HasContext, PackageContext, AnswerOK,
       PackageStoredOnce

LEMMA Initially ==
  ASSUME SetAssumption, BoundAssumption, Init
  PROVE  HandoffInvariant
<1>1. TypeOK
  BY IdleType DEF Init, TypeOK, BoundAssumption
<1>2. \A r \in Requests : request[r].pc = "idle"
  BY IdleType DEF Init
<1>. QED
  BY <1>1, <1>2 DEF Init, HandoffInvariant, RequestOK, PackageStoredOnce

\* The invariant holds of every submission, however many requests interfere.
THEOREM HandoffCorrect ==
  ASSUME SetAssumption, BoundAssumption
  PROVE  Spec => []HandoffInvariant
<1>1. Init => HandoffInvariant
  BY Initially
<1>2. HandoffInvariant /\ [Next]_vars => HandoffInvariant'
  <2> SUFFICES ASSUME HandoffInvariant, [Next]_vars
               PROVE  HandoffInvariant'
    OBVIOUS
  <2>1. ASSUME NEW r \in Requests, Begins(r)
        PROVE  HandoffInvariant'
    BY <2>1, BeginsStep, StepKeeps
  <2>2. ASSUME NEW r \in Requests, Step(r)
        PROVE  HandoffInvariant'
    BY <2>2, RequestStep, StepKeeps
  <2>3. ASSUME NEW r \in Requests, Fails(r)
        PROVE  HandoffInvariant'
    BY <2>3, FailsStep, StepKeeps
  <2>4. ASSUME NEW account \in Accounts, Select(account)
        PROVE  HandoffInvariant'
    <3>1. UNCHANGED <<tables, request, answers>>
      BY <2>4 DEF Select
    <3>2. TypeOK'
      BY <2>4 DEF Select, HandoffInvariant, TypeOK, tables, BoundAssumption
    <3>. QED
      BY <3>1, <3>2, NothingHappens
  <2>5. CASE UNCHANGED vars
    <3>1. UNCHANGED <<tables, request, answers>> /\ TypeOK'
      BY <2>5 DEF vars, tables, HandoffInvariant, TypeOK
    <3>. QED
      BY <3>1, NothingHappens
  <2>. QED
    BY <2>1, <2>2, <2>3, <2>4, <2>5 DEF Next
<1>. QED
  BY <1>1, <1>2, PTL DEF Spec

\* Every variable keeps to its type.
THEOREM HandoffTypeCorrect ==
  ASSUME SetAssumption, BoundAssumption
  PROVE  Spec => []TypeOK
<1>1. HandoffInvariant => TypeOK
  BY DEF HandoffInvariant
<1>. QED
  BY <1>1, HandoffCorrect, PTL

\* What an accepted submission calls its context is the row with its package and its
\* number, although the operator appends versions in between (persistContextVersion).
THEOREM ContextKept ==
  ASSUME SetAssumption, BoundAssumption
  PROVE  Spec => []ContextIsThePackage
<1>1. HandoffInvariant => ContextIsThePackage
  BY DEF HandoffInvariant, AnswerOK, ContextIsThePackage
<1>. QED
  BY <1>1, HandoffCorrect, PTL

\* Two accepted submissions of one version have one content and one account: both
\* name the same row, and a row is never written twice.
THEOREM OneContent ==
  ASSUME SetAssumption, BoundAssumption
  PROVE  Spec => []OneContentPerVersion
<1>1. HandoffInvariant => OneContentPerVersion
  <2> SUFFICES ASSUME HandoffInvariant, NEW a \in answers, NEW b \in answers,
                      a.version = b.version
               PROVE  a.content = b.content /\ a.account = b.account
    BY DEF OneContentPerVersion
  <2>1. /\ contexts[a.version] = [package |-> a.version, content |-> a.content,
                                  account |-> a.account, status |-> "ready_for_generation"]
        /\ contexts[b.version] = [package |-> b.version, content |-> b.content,
                                  account |-> b.account, status |-> "ready_for_generation"]
    BY DEF HandoffInvariant, AnswerOK
  <2>2. /\ contexts[a.version].content = a.content /\ contexts[a.version].account = a.account
        /\ contexts[b.version].content = b.content /\ contexts[b.version].account = b.account
    BY <2>1
  <2>. QED
    BY <2>2
<1>. QED
  BY <1>1, HandoffCorrect, PTL

\* No version of a package is stored as two versions of the context, not even by a
\* submission that loses the race (campaign_package_version_race) and leaves its row.
THEOREM StoredOnce ==
  ASSUME SetAssumption, BoundAssumption
  PROVE  Spec => []PackageStoredOnce
<1>1. HandoffInvariant => PackageStoredOnce
  BY DEF HandoffInvariant
<1>. QED
  BY <1>1, HandoffCorrect, PTL

\* The plan of an accepted submission is bound to its account, also when another
\* request bound it (bindTarget).
THEOREM AcceptedBound ==
  ASSUME SetAssumption, BoundAssumption
  PROVE  Spec => []AcceptedIsBound
<1>1. HandoffInvariant => AcceptedIsBound
  BY DEF HandoffInvariant, AnswerOK, AcceptedIsBound
<1>. QED
  BY <1>1, HandoffCorrect, PTL

\* All of it: what an accepted submission is told stays true, whoever interferes.
THEOREM HandoffKept ==
  ASSUME SetAssumption, BoundAssumption
  PROVE  Spec => []HandoffIsKept
BY HandoffTypeCorrect, OneContent, ContextKept, StoredOnce, AcceptedBound, PTL DEF HandoffIsKept

-----------------------------------------------------------------------------
(* The evidence for a manifest.                                            *)

LEMMA MissingBlocks ==
  ASSUME NEW checks \in Checks, Blockers(checks) = {}
  PROVE  checks.creative /\ checks.status = "approved"
BY DEF Blockers, Keys, PassedKeys

LEMMA NoEvaluationType == NoEvaluation \in Evaluation
<1>1. NoSnapshot \in Snapshot BY DEF NoSnapshot, Snapshot
<1>2. NoChecks \in Checks BY <1>1 DEF NoChecks, Checks, ApprovalStatus
<1> QED BY <1>2 DEF NoEvaluation, Evaluation, EvaluationPC

\* What an appended table holds.
LEMMA AddedAtTheEnd ==
  ASSUME NEW S, NEW rows \in Seq(S), NEW row \in S
  PROVE  /\ Append(rows, row) \in Seq(S)
         /\ Len(rows) \in Nat /\ DOMAIN rows = 1..Len(rows)
         /\ Len(Append(rows, row)) = Len(rows) + 1
         /\ DOMAIN Append(rows, row) = 1..(Len(rows) + 1)
         /\ \A i \in DOMAIN rows : Append(rows, row)[i] = rows[i]
         /\ Append(rows, row)[Len(rows) + 1] = row
BY AppendProperties, LenProperties

\* The facts change, but what is lost stays lost.
FactsMoveOn ==
  /\ facts' \in [current : BOOLEAN, listed : BOOLEAN, creative : BOOLEAN,
                 capabilities : Snapshot, approvals : Seq(ApprovalStatus)]
  /\ ~facts.current => ~facts.current'
  /\ ~facts.creative => ~facts.creative'
  /\ Len(facts.approvals) <= Len(facts.approvals')
  /\ \A a \in DOMAIN facts.approvals :
       facts.approvals[a] = "ended" => facts.approvals'[a] = "ended"

LEMMA ChangesMoveOn ==
  ASSUME EvidenceTypeOK,
         Supersede \/ Discover \/ NewCreative \/ Validate \/ Approvals
  PROVE  /\ FactsMoveOn /\ changes' \in 0..MaxChanges
         /\ UNCHANGED <<reports, decisions, manifests, clock, evaluation>>
<1> DEFINE Facts == [current : BOOLEAN, listed : BOOLEAN, creative : BOOLEAN,
                     capabilities : Snapshot, approvals : Seq(ApprovalStatus)]
<1>1. facts \in Facts /\ changes \in Nat BY DEF EvidenceTypeOK
<1>2. ASSUME NEW new, Change(new)
      PROVE  /\ facts' = new /\ changes' \in 0..MaxChanges
             /\ UNCHANGED <<reports, decisions, manifests, clock, evaluation>>
  BY <1>2, EvidenceBounds DEF Change, EvidenceTypeOK
<1>3. facts.approvals \in Seq(ApprovalStatus) BY <1>1
<1>4. ASSUME NEW new \in Facts, Change(new), new.approvals = facts.approvals,
             ~facts.current => ~new.current, ~facts.creative => ~new.creative
      PROVE  FactsMoveOn
  <2>1. Len(facts.approvals) \in Nat BY <1>3, LenProperties
  <2> QED BY <1>2, <1>4, <2>1 DEF FactsMoveOn
<1>5. CASE Supersede
  <2>1. [facts EXCEPT !.current = FALSE] \in Facts BY <1>1
  <2> QED BY <1>1, <1>2, <1>4, <1>5, <2>1 DEF Supersede
<1>6. CASE Discover
  <2>1. [facts EXCEPT !.listed = ~facts.listed] \in Facts BY <1>1
  <2> QED BY <1>1, <1>2, <1>4, <1>6, <2>1 DEF Discover
<1>7. CASE NewCreative
  <2>1. [facts EXCEPT !.creative = FALSE] \in Facts BY <1>1
  <2> QED BY <1>1, <1>2, <1>4, <1>7, <2>1 DEF NewCreative
<1>8. CASE Validate
  <2>1. PICK capabilities \in Snapshot : Change([facts EXCEPT !.capabilities = capabilities])
    <3>1. NoSnapshot \in Snapshot BY DEF NoSnapshot, Snapshot
    <3>2. \A available \in BOOLEAN : [id |-> changes + 2, available |-> available] \in Snapshot
      BY <1>1 DEF Snapshot
    <3> QED BY <1>8, <3>1, <3>2 DEF Validate
  <2>2. [facts EXCEPT !.capabilities = capabilities] \in Facts BY <1>1
  <2> QED BY <1>1, <1>2, <1>4, <2>1, <2>2
<1>9. CASE Approvals
  <2>1. PICK approvals \in Seq(ApprovalStatus) :
          /\ Change([facts EXCEPT !.approvals = approvals])
          /\ Len(facts.approvals) <= Len(approvals)
          /\ \A a \in DOMAIN facts.approvals :
               facts.approvals[a] = "ended" => approvals[a] = "ended"
    <3>1. CASE Change([facts EXCEPT !.approvals = Append(facts.approvals, "pending")])
      <4>1. "pending" \in ApprovalStatus BY DEF ApprovalStatus
      <4> DEFINE after == Append(facts.approvals, "pending")
      <4>2. /\ after \in Seq(ApprovalStatus) /\ Len(facts.approvals) <= Len(after)
            /\ \A b \in DOMAIN facts.approvals : after[b] = facts.approvals[b]
        BY <1>3, <4>1, AddedAtTheEnd
      <4>3. Change([facts EXCEPT !.approvals = after]) BY <3>1
      <4> HIDE DEF after
      <4> QED BY <4>2, <4>3
    <3>2. ASSUME NEW a \in ActiveApprovals, NEW status \in {"approved", "ended"},
                 Change([facts EXCEPT !.approvals = [facts.approvals EXCEPT ![a] = status]])
          PROVE  \E approvals \in Seq(ApprovalStatus) :
                   /\ Change([facts EXCEPT !.approvals = approvals])
                   /\ Len(facts.approvals) <= Len(approvals)
                   /\ \A b \in DOMAIN facts.approvals :
                        facts.approvals[b] = "ended" => approvals[b] = "ended"
      <4>1. a \in DOMAIN facts.approvals /\ facts.approvals[a] # "ended"
        BY DEF ActiveApprovals
      <4> DEFINE after == [facts.approvals EXCEPT ![a] = status]
      <4>2. after \in Seq(ApprovalStatus) /\ Len(after) = Len(facts.approvals)
        BY <1>3, <4>1, ExceptSeq DEF ApprovalStatus
      <4>3. \A b \in DOMAIN facts.approvals :
              facts.approvals[b] = "ended" => after[b] = "ended"
        BY <4>1
      <4>4. Len(facts.approvals) <= Len(after) BY <1>3, <4>2, LenProperties
      <4>5. Change([facts EXCEPT !.approvals = after]) BY <3>2
      <4> HIDE DEF after
      <4> QED BY <4>2, <4>3, <4>4, <4>5
    <3>3. [facts EXCEPT !.approvals = Append(@, "pending")]
            = [facts EXCEPT !.approvals = Append(facts.approvals, "pending")]
      OBVIOUS
    <3>4. \A a \in ActiveApprovals, status \in {"approved", "ended"} :
            [facts EXCEPT !.approvals[a] = status]
              = [facts EXCEPT !.approvals = [facts.approvals EXCEPT ![a] = status]]
      OBVIOUS
    <3> QED BY <1>9, <3>1, <3>2, <3>3, <3>4 DEF Approvals
  <2>2. [facts EXCEPT !.approvals = approvals] \in Facts BY <1>1
  <2>3. [facts EXCEPT !.approvals = approvals].approvals = approvals BY <1>1
  <2>4. [facts EXCEPT !.approvals = approvals].current = facts.current
        /\ [facts EXCEPT !.approvals = approvals].creative = facts.creative BY <1>1
  <2> QED BY <1>2, <2>1, <2>2, <2>3, <2>4 DEF FactsMoveOn
<1> QED BY <1>5, <1>6, <1>7, <1>8, <1>9

LEMMA RowsAreSequences ==
  ASSUME EvidenceTypeOK
  PROVE  /\ Len(reports) \in Nat /\ DOMAIN reports = 1..Len(reports)
         /\ Len(decisions) \in Nat /\ DOMAIN decisions = 1..Len(decisions)
         /\ Len(manifests) \in Nat /\ DOMAIN manifests = 1..Len(manifests)
         /\ facts.approvals \in Seq(ApprovalStatus) /\ Len(facts.approvals) \in Nat
         /\ DOMAIN facts.approvals = 1..Len(facts.approvals)
         /\ \A i \in DOMAIN reports : reports[i] \in Report
         /\ \A i \in DOMAIN decisions : decisions[i] \in Decision
         /\ \A i \in DOMAIN manifests : manifests[i] \in Manifest
<1>1. facts.approvals \in Seq(ApprovalStatus) BY DEF EvidenceTypeOK
<1> QED BY <1>1, LenProperties, ElementOfSeq DEF EvidenceTypeOK

\* Whatever changes, what was found is found, and what is lost stays lost.
LEMMA FactsKeep ==
  ASSUME EvidenceInvariant, FactsMoveOn, changes' \in 0..MaxChanges,
         UNCHANGED <<reports, decisions, manifests, clock, evaluation>>
  PROVE  EvidenceInvariant'
<1>1. EvidenceTypeOK' BY DEF EvidenceInvariant, EvidenceTypeOK, FactsMoveOn
<1>2. /\ Len(facts.approvals) \in Nat /\ Len(facts.approvals)' \in Nat
      /\ DOMAIN facts.approvals = 1..Len(facts.approvals)
      /\ \A i \in DOMAIN reports : reports[i].checks.approval \in Nat
  <2>1. facts.approvals' \in Seq(ApprovalStatus) BY <1>1 DEF EvidenceTypeOK
  <2> QED BY <2>1, RowsAreSequences, LenProperties DEF EvidenceInvariant, Report, Checks
<1>3. RowsAreGrounded'
  <2>1. \A i \in DOMAIN reports : reports[i].checks.approval \in 0..Len(facts.approvals)'
    BY <1>2 DEF EvidenceInvariant, RowsAreGrounded, FactsMoveOn
  <2> QED BY <2>1 DEF EvidenceInvariant, RowsAreGrounded
<1>4. RowsAreUnique' BY DEF EvidenceInvariant, RowsAreUnique
<1>5. ReportsAreInOrder' BY DEF EvidenceInvariant, ReportsAreInOrder
<1>6. ApprovalCarriedOver' BY DEF EvidenceInvariant, ApprovalCarriedOver, Overlap
<1>7. ASSUME NEW r \in Evaluations PROVE HasRows(r)' /\ IsHopeless(r)' /\ Forgets(r)'
  <2>1. HasRows(r) /\ IsHopeless(r) /\ Forgets(r) BY DEF EvidenceInvariant
  <2>2. HasRows(r)' BY <1>2, <2>1 DEF HasRows, FactsMoveOn
  <2>3. evaluation[r].seen.approval \in 0..Len(facts.approvals) BY <2>1 DEF HasRows
  <2>4. IsHopeless(r)' BY <1>2, <2>1, <2>3 DEF IsHopeless, FactsMoveOn
  <2>5. Forgets(r)' BY <2>1 DEF Forgets, Overlap
  <2> QED BY <2>2, <2>4, <2>5
<1> QED BY <1>1, <1>3, <1>4, <1>5, <1>6, <1>7 DEF EvidenceInvariant

\* The tables only grow at the end, and the facts do not change.
RowsGrow ==
  /\ facts' = facts /\ clock' \in 0..MaxReports /\ clock <= clock'
  /\ Len(reports) <= Len(reports') /\ \A i \in DOMAIN reports : reports'[i] = reports[i]
  /\ Len(decisions) <= Len(decisions') /\ \A i \in DOMAIN decisions : decisions'[i] = decisions[i]
  /\ Len(manifests) <= Len(manifests') /\ \A i \in DOMAIN manifests : manifests'[i] = manifests[i]

RowsInvariant ==
  /\ EvidenceTypeOK /\ RowsAreGrounded /\ RowsAreUnique /\ ReportsAreInOrder
  /\ ApprovalCarriedOver

\* A step of one request, with what it stores.
Evaluated(r) ==
  /\ RowsGrow /\ RowsInvariant'
  /\ \A s \in Evaluations \ {r} : evaluation'[s] = evaluation[s]
  /\ HasRows(r)' /\ IsHopeless(r)' /\ Forgets(r)'

LEMMA OthersAreKept ==
  ASSUME EvidenceInvariant, NEW r \in Evaluations, Evaluated(r)
  PROVE  EvidenceInvariant'
<1>1. EvidenceTypeOK' BY DEF Evaluated, RowsInvariant
<1>2. /\ DOMAIN reports \subseteq DOMAIN reports' /\ DOMAIN decisions \subseteq DOMAIN decisions'
      /\ DOMAIN manifests \subseteq DOMAIN manifests'
      /\ Len(reports) \in Nat /\ Len(reports)' \in Nat /\ clock \in Nat /\ clock' \in Nat
      /\ DOMAIN reports = 1..Len(reports)
  <2>1. /\ Len(reports') \in Nat /\ DOMAIN reports' = 1..Len(reports')
        /\ Len(decisions') \in Nat /\ DOMAIN decisions' = 1..Len(decisions')
        /\ Len(manifests') \in Nat /\ DOMAIN manifests' = 1..Len(manifests')
    BY <1>1, LenProperties DEF EvidenceTypeOK
  <2> QED BY <2>1, RowsAreSequences DEF EvidenceInvariant, EvidenceTypeOK, Evaluated, RowsGrow
<1>3. ASSUME NEW s \in Evaluations \ {r} PROVE HasRows(s)' /\ IsHopeless(s)' /\ Forgets(s)'
  <2>1. HasRows(s) /\ IsHopeless(s) /\ Forgets(s) /\ evaluation[s] \in Evaluation
    BY DEF EvidenceInvariant, EvidenceTypeOK
  <2>2. evaluation'[s] = evaluation[s] /\ facts' = facts BY DEF Evaluated, RowsGrow
  <2>3. evaluation[s].since \in Nat /\ evaluation[s].at \in Nat /\ evaluation[s].since <= Len(reports)
    BY <2>1 DEF Evaluation, HasRows
  <2>4. \A i \in 1..evaluation[s].since : i \in DOMAIN reports BY <1>2, <2>3
  <2>5. HasRows(s)'
    <3>1. evaluation[s].since <= Len(reports)' BY <1>2, <2>3 DEF Evaluated, RowsGrow
    <3>2. evaluation[s].pc = "saving" =>
            /\ evaluation[s].at <= clock'
            /\ \A i \in 1..evaluation[s].since : reports'[i].at < evaluation[s].at
      <4>1. \A i \in 1..evaluation[s].since : reports'[i] = reports[i]
        BY <2>4 DEF Evaluated, RowsGrow
      <4>2. clock <= clock' BY DEF Evaluated, RowsGrow
      <4> QED BY <1>2, <2>1, <2>3, <4>1, <4>2 DEF HasRows
    <3>3. /\ evaluation[s].pc = "deciding" =>
               /\ evaluation[s].report \in DOMAIN reports'
               /\ reports'[evaluation[s].report].checks = evaluation[s].seen
          /\ evaluation[s].pc \in {"preparing", "answered"} =>
               /\ evaluation[s].decision \in DOMAIN decisions'
               /\ decisions'[evaluation[s].decision].checks = evaluation[s].seen
          /\ evaluation[s].manifest # 0 =>
               /\ evaluation[s].pc = "answered" /\ evaluation[s].manifest \in DOMAIN manifests'
               /\ manifests'[evaluation[s].manifest].decision = evaluation[s].decision
      BY <1>2, <2>1 DEF HasRows, Evaluated, RowsGrow
    <3> QED BY <2>1, <2>2, <3>1, <3>2, <3>3 DEF HasRows
  <2>6. IsHopeless(s)' BY <2>1, <2>2 DEF IsHopeless
  <2>7. Forgets(s)' BY <1>2, <2>1, <2>2, <2>4 DEF Forgets, Overlap, Evaluated, RowsGrow
  <2> QED BY <2>5, <2>6, <2>7
<1> QED BY <1>3 DEF EvidenceInvariant, Evaluated, RowsInvariant

\* The rows stay what they are while a request reads.
LEMMA ReadingsStore ==
  ASSUME EvidenceInvariant, NEW r \in Evaluations, NEW q \in Evaluation,
         UNCHANGED Rows, clock' \in clock..MaxReports, Proceeds(r, q)
  PROVE  /\ evaluation'[r] = q /\ RowsGrow /\ RowsInvariant'
         /\ \A s \in Evaluations \ {r} : evaluation'[s] = evaluation[s]
         /\ facts' = facts /\ reports' = reports
         /\ decisions' = decisions /\ manifests' = manifests
<1>0. clock \in Nat /\ clock' \in 0..MaxReports /\ clock <= clock'
  BY EvidenceBounds DEF EvidenceInvariant, EvidenceTypeOK
<1>1. /\ evaluation'[r] = q /\ \A s \in Evaluations \ {r} : evaluation'[s] = evaluation[s]
      /\ evaluation' \in [Evaluations -> Evaluation]
  BY DEF EvidenceInvariant, EvidenceTypeOK, Proceeds
<1>2. EvidenceTypeOK' BY <1>0, <1>1 DEF EvidenceInvariant, EvidenceTypeOK, Rows
<1>3. RowsGrow BY <1>0, RowsAreSequences DEF EvidenceInvariant, RowsGrow, Rows
<1>4. \A i \in DOMAIN reports : reports[i].at \in Nat
  BY RowsAreSequences DEF EvidenceInvariant, Report
<1>5. ReportsAreInOrder' BY <1>0, <1>4 DEF EvidenceInvariant, ReportsAreInOrder, Rows
<1>6. RowsAreGrounded' /\ RowsAreUnique' /\ ApprovalCarriedOver'
  BY DEF EvidenceInvariant, RowsAreGrounded, RowsAreUnique, ApprovalCarriedOver, Overlap, Rows
<1> QED BY <1>1, <1>2, <1>3, <1>5, <1>6 DEF RowsInvariant, Rows

LEMMA LatestIsStored ==
  ASSUME EvidenceInvariant, reports # <<>>
  PROVE  /\ LatestRow(reports) \in DOMAIN reports
         /\ \A j \in DOMAIN reports : reports[j].at <= reports[LatestRow(reports)].at
BY DEF EvidenceInvariant, ReportsAreInOrder, LatestRow

\* The approval that a request evaluates is one of the plan's.
LEMMA CarriedIsThere ==
  ASSUME EvidenceInvariant
  PROVE  CarriedApproval \in 0..Len(facts.approvals)
<1>1. CASE reports = <<>> BY <1>1, RowsAreSequences DEF EvidenceInvariant, CarriedApproval
<1>2. CASE reports # <<>>
  BY <1>2, LatestIsStored DEF EvidenceInvariant, RowsAreGrounded, CarriedApproval
<1> QED BY <1>1, <1>2

\* When no approval is carried, those that were presented were forgotten beside another.
LEMMA CarriedOrForgotten ==
  ASSUME EvidenceInvariant, CarriedApproval = 0,
         NEW i \in DOMAIN reports, reports[i].checks.approval # 0
  PROVE  \E k \in DOMAIN reports : k # i /\ Overlap(i, k)
<1> DEFINE l == LatestRow(reports)
<1>1. /\ DOMAIN reports = 1..Len(reports) /\ Len(reports) \in Nat /\ reports # <<>>
      /\ \A j \in DOMAIN reports : reports[j].at \in Nat /\ reports[j].since \in Nat
  BY RowsAreSequences DEF EvidenceInvariant, Report
<1>2. /\ l \in DOMAIN reports /\ reports[l].checks.approval = 0 /\ l # i
      /\ reports[i].at <= reports[l].at
  BY <1>1, LatestIsStored DEF CarriedApproval
<1> HIDE DEF l
<1>3. CASE i < l
  <2>1. \E k \in 1..l : k # i /\ Overlap(i, k)
    BY <1>2, <1>3 DEF EvidenceInvariant, ApprovalCarriedOver
  <2> QED BY <1>1, <1>2, <2>1
<1>4. CASE l < i
  <2>1. ~(l <= reports[i].since) BY <1>1, <1>2 DEF EvidenceInvariant, ReportsAreInOrder
  <2>2. reports[l].since < l BY <1>2 DEF EvidenceInvariant, ReportsAreInOrder
  <2> QED BY <1>1, <1>2, <1>4, <2>1, <2>2 DEF Overlap
<1> QED BY <1>1, <1>2, <1>3, <1>4

LEMMA BeginKeeps ==
  ASSUME EvidenceInvariant, NEW r \in Evaluations,
         NEW op \in {"evaluate", "prepare"}, NEW approval \in 0..Len(facts.approvals),
         Begin(r, op, approval)
  PROVE  Evaluated(r)
<1> DEFINE a == IF approval = 0 THEN CarriedApproval ELSE approval
           q == [NoEvaluation EXCEPT !.pc = "account", !.op = op, !.seen.approval = a,
                   !.hopeless = LostGrounds(a), !.since = Len(reports)]
<1>1. a \in 0..Len(facts.approvals) /\ (a = 0 => CarriedApproval = 0) BY CarriedIsThere
<1>2. Len(facts.approvals) \in Nat /\ Len(reports) \in Nat
  BY RowsAreSequences DEF EvidenceInvariant
<1>3. LostGrounds(a) \in BOOLEAN BY DEF LostGrounds
<1>4. /\ q \in Evaluation /\ q.pc = "account" /\ q.seen.approval = a
      /\ q.hopeless = LostGrounds(a) /\ q.since = Len(reports) /\ q.manifest = 0
  <2>1. NoEvaluation.seen \in Checks /\ NoEvaluation.manifest = 0
    BY NoEvaluationType DEF Evaluation, NoEvaluation
  <2>2. [NoEvaluation.seen EXCEPT !.approval = a] \in Checks
        /\ [NoEvaluation.seen EXCEPT !.approval = a].approval = a
    BY <1>1, <1>2, <2>1 DEF Checks
  <2> DEFINE seen == [NoEvaluation.seen EXCEPT !.approval = a]
  <2>3. q = [NoEvaluation EXCEPT !.pc = "account", !.op = op, !.seen = seen,
              !.hopeless = LostGrounds(a), !.since = Len(reports)]
    OBVIOUS
  <2> HIDE DEF seen, a
  <2>4. seen \in Checks /\ seen.approval = a BY <2>2 DEF seen
  <2> QED BY <1>2, <1>3, <2>1, <2>3, <2>4, NoEvaluationType DEF Evaluation, EvaluationPC
<1>5. Proceeds(r, q) /\ UNCHANGED Rows /\ clock' = clock BY DEF Begin
<1> HIDE DEF a, q
<1>6. clock' \in clock..MaxReports
  BY <1>5, EvidenceBounds DEF EvidenceInvariant, EvidenceTypeOK
<1>7. /\ evaluation'[r] = q /\ RowsGrow /\ RowsInvariant'
      /\ \A s \in Evaluations \ {r} : evaluation'[s] = evaluation[s]
      /\ facts' = facts /\ reports' = reports
  BY <1>4, <1>5, <1>6, ReadingsStore
<1>8. HasRows(r)' BY <1>1, <1>2, <1>4, <1>7 DEF HasRows
<1>9. IsHopeless(r)' BY <1>4, <1>7 DEF IsHopeless, LostGrounds, WithReport
<1>10. Forgets(r)'
  <2>1. ASSUME a = 0, NEW i \in 1..Len(reports), reports[i].checks.approval # 0
        PROVE  \E k \in DOMAIN reports : k # i /\ Overlap(i, k)
    BY <1>1, <2>1, RowsAreSequences, CarriedOrForgotten DEF EvidenceInvariant
  <2> QED BY <1>4, <1>7, <2>1 DEF Forgets, Overlap
<1> QED BY <1>7, <1>8, <1>9, <1>10 DEF Evaluated

\* What a check of the dry run found, with what was found before.
LEMMA ReadKeeps ==
  ASSUME EvidenceInvariant, NEW r \in Evaluations, NEW q \in Evaluation,
         UNCHANGED <<Rows, clock>>, Proceeds(r, q),
         evaluation[r].pc \in {"account", "capabilities", "approval"},
         q.pc \in {"capabilities", "approval", "creative"},
         q.since = evaluation[r].since, q.hopeless = evaluation[r].hopeless,
         q.manifest = evaluation[r].manifest, q.seen.approval = evaluation[r].seen.approval,
         q.hopeless =>
           /\ q.pc \in {"capabilities", "approval"} =>
                (evaluation[r].pc = "account" => facts.current)
           /\ q.pc \in {"capabilities", "approval"} => evaluation[r].pc # "approval"
           /\ q.pc = "creative" =>
                /\ evaluation[r].pc = "approval"
                /\ q.seen.status # "approved" \/ q.seen.approval = 0
                      \/ q.seen.status = facts.approvals[q.seen.approval]
  PROVE  Evaluated(r)
<1>1. clock' \in clock..MaxReports
  BY EvidenceBounds DEF EvidenceInvariant, EvidenceTypeOK
<1>2. /\ evaluation'[r] = q /\ RowsGrow /\ RowsInvariant'
      /\ \A s \in Evaluations \ {r} : evaluation'[s] = evaluation[s]
      /\ facts' = facts /\ reports' = reports
  BY <1>1, ReadingsStore
<1>3. HasRows(r) /\ IsHopeless(r) /\ Forgets(r) BY DEF EvidenceInvariant
<1>4. HasRows(r)' BY <1>2, <1>3 DEF HasRows
<1>5. IsHopeless(r)' BY <1>2, <1>3 DEF IsHopeless, WithReport
<1>6. Forgets(r)' BY <1>2, <1>3 DEF Forgets, Overlap, WithReport
<1> QED BY <1>2, <1>4, <1>5, <1>6 DEF Evaluated

LEMMA ChecksKeep ==
  ASSUME EvidenceInvariant, NEW r \in Evaluations,
         ReadAccount(r) \/ ReadCapabilities(r) \/ TargetUnproved(r) \/ ReadApproval(r)
           \/ ApprovalUnproved(r)
  PROVE  Evaluated(r)
<1>1. evaluation[r] \in Evaluation /\ evaluation[r].seen \in Checks
  BY DEF EvidenceInvariant, EvidenceTypeOK, Evaluation
<1>2. /\ facts.listed \in BOOLEAN /\ facts.capabilities \in Snapshot
      /\ evaluation[r].seen.approval \in 0..Len(facts.approvals)
  BY DEF EvidenceInvariant, EvidenceTypeOK, HasRows
\* The request goes on to pc with what it has seen.
<1> DEFINE With(pc, seen) == [evaluation[r] EXCEPT !.pc = pc, !.seen = seen]
<1>3. ASSUME NEW pc \in {"capabilities", "approval", "creative"}, NEW seen \in Checks
      PROVE  /\ With(pc, seen) \in Evaluation /\ With(pc, seen).pc = pc
             /\ With(pc, seen).seen = seen /\ With(pc, seen).since = evaluation[r].since
             /\ With(pc, seen).hopeless = evaluation[r].hopeless
             /\ With(pc, seen).manifest = evaluation[r].manifest
  BY <1>1 DEF Evaluation, EvaluationPC
<1>4. CASE ReadAccount(r)
  <2> DEFINE seen == [evaluation[r].seen EXCEPT !.listed = facts.listed]
  <2>1. seen \in Checks /\ seen.approval = evaluation[r].seen.approval BY <1>1, <1>2 DEF Checks
  <2>2. /\ Proceeds(r, With("capabilities", seen)) /\ UNCHANGED <<Rows, clock>>
        /\ evaluation[r].pc = "account" /\ facts.current
    BY <1>4 DEF ReadAccount
  <2> HIDE DEF seen, With
  <2> QED BY <1>3, <2>1, <2>2, ReadKeeps
<1>5. CASE ReadCapabilities(r)
  <2> DEFINE seen == [evaluation[r].seen EXCEPT !.capabilities = facts.capabilities]
  <2>1. seen \in Checks /\ seen.approval = evaluation[r].seen.approval BY <1>1, <1>2 DEF Checks
  <2>2. /\ Proceeds(r, With("approval", seen)) /\ UNCHANGED <<Rows, clock>>
        /\ evaluation[r].pc = "capabilities"
    BY <1>5 DEF ReadCapabilities
  <2> HIDE DEF seen, With
  <2> QED BY <1>3, <2>1, <2>2, ReadKeeps
<1>6. CASE TargetUnproved(r)
  <2> DEFINE seen == [evaluation[r].seen EXCEPT !.proved = FALSE, !.listed = FALSE]
  <2>1. seen \in Checks /\ seen.approval = evaluation[r].seen.approval BY <1>1, <1>2 DEF Checks
  <2>2. /\ Proceeds(r, With("approval", seen)) /\ UNCHANGED <<Rows, clock>>
        /\ evaluation[r].pc \in {"account", "capabilities"}
        /\ evaluation[r].pc = "account" => facts.current
    BY <1>6 DEF TargetUnproved
  <2> HIDE DEF seen, With
  <2> QED BY <1>3, <2>1, <2>2, ReadKeeps
<1>7. CASE ReadApproval(r)
  <2> DEFINE a == evaluation[r].seen.approval
             seen == [evaluation[r].seen EXCEPT !.status =
                        IF a = 0 THEN "none" ELSE facts.approvals[a]]
  <2>1. /\ seen \in Checks /\ seen.approval = a
        /\ a = 0 \/ seen.status = facts.approvals[a]
    <3>1. a = 0 \/ facts.approvals[a] \in ApprovalStatus
      BY <1>2, RowsAreSequences, ElementOfSeq DEF EvidenceInvariant
    <3> QED BY <1>1, <1>2, <3>1 DEF Checks
  <2>2. /\ Proceeds(r, With("creative", seen)) /\ UNCHANGED <<Rows, clock>>
        /\ evaluation[r].pc = "approval"
    BY <1>7 DEF ReadApproval
  <2> HIDE DEF seen, With
  <2> QED BY <1>3, <2>1, <2>2, ReadKeeps
<1>8. CASE ApprovalUnproved(r)
  <2> DEFINE seen == [evaluation[r].seen EXCEPT !.status = "unproved"]
  <2>1. /\ seen \in Checks /\ seen.approval = evaluation[r].seen.approval
        /\ seen.status # "approved"
    BY <1>1, <1>2 DEF Checks
  <2>2. /\ Proceeds(r, With("creative", seen)) /\ UNCHANGED <<Rows, clock>>
        /\ evaluation[r].pc = "approval"
    BY <1>8 DEF ApprovalUnproved
  <2> HIDE DEF seen, With
  <2> QED BY <1>3, <2>1, <2>2, ReadKeeps
<1> QED BY <1>4, <1>5, <1>6, <1>7, <1>8

LEMMA EndsKeep ==
  ASSUME EvidenceInvariant, NEW r \in Evaluations,
         NotCurrent(r) \/ EndEvaluation(r)
  PROVE  Evaluated(r)
<1>1. Proceeds(r, NoEvaluation) /\ UNCHANGED Rows /\ clock' \in clock..MaxReports
  BY EvidenceBounds DEF NotCurrent, EndEvaluation, EvidenceInvariant, EvidenceTypeOK
<1>2. /\ evaluation'[r] = NoEvaluation /\ RowsGrow /\ RowsInvariant'
      /\ \A s \in Evaluations \ {r} : evaluation'[s] = evaluation[s]
      /\ facts' = facts /\ reports' = reports
  BY <1>1, NoEvaluationType, ReadingsStore
<1>3. /\ NoEvaluation.pc = "idle" /\ NoEvaluation.since = 0 /\ NoEvaluation.manifest = 0
      /\ NoEvaluation.seen.approval = 0 /\ ~NoEvaluation.hopeless
  BY DEF NoEvaluation, NoChecks
<1>4. HasRows(r)' BY <1>2, <1>3, RowsAreSequences DEF HasRows, EvidenceInvariant
<1>5. IsHopeless(r)' /\ Forgets(r)' BY <1>2, <1>3 DEF IsHopeless, Forgets
<1> QED BY <1>2, <1>4, <1>5 DEF Evaluated

LEMMA ReadCreativeCheckKeeps ==
  ASSUME EvidenceInvariant, NEW r \in Evaluations, ReadCreativeCheck(r)
  PROVE  Evaluated(r)
<1>1. evaluation[r] \in Evaluation /\ evaluation[r].seen \in Checks /\ facts.creative \in BOOLEAN
      /\ clock \in Nat /\ MaxReports \in Nat
  BY EvidenceBounds DEF EvidenceInvariant, EvidenceTypeOK, Evaluation
<1> DEFINE seen == [evaluation[r].seen EXCEPT !.creative = facts.creative]
           q == [evaluation[r] EXCEPT !.pc = "saving", !.at = clock', !.seen = seen]
<1>2. /\ seen \in Checks /\ seen.approval = evaluation[r].seen.approval
      /\ seen.status = evaluation[r].seen.status /\ seen.creative = facts.creative
  BY <1>1 DEF Checks
<1>3. /\ evaluation[r].pc = "creative" /\ clock' = clock + 1 /\ clock' \in clock..MaxReports
      /\ UNCHANGED Rows /\ Proceeds(r, q)
  BY <1>1 DEF ReadCreativeCheck
<1>4. /\ q \in Evaluation /\ q.pc = "saving" /\ q.at = clock' /\ q.seen = seen
      /\ q.since = evaluation[r].since /\ q.hopeless = evaluation[r].hopeless
      /\ q.manifest = evaluation[r].manifest
  <2>1. clock' \in Nat BY <1>1, <1>3
  <2>2. ASSUME NEW at \in Nat, NEW checks \in Checks
        PROVE  LET new == [evaluation[r] EXCEPT !.pc = "saving", !.at = at, !.seen = checks]
               IN /\ new \in Evaluation /\ new.pc = "saving" /\ new.at = at
                  /\ new.seen = checks /\ new.since = evaluation[r].since
                  /\ new.hopeless = evaluation[r].hopeless
                  /\ new.manifest = evaluation[r].manifest
    BY <1>1 DEF Evaluation, EvaluationPC
  <2> HIDE DEF seen
  <2> QED BY <1>2, <2>1, <2>2
<1> HIDE DEF q, seen
<1>5. /\ evaluation'[r] = q /\ RowsGrow /\ RowsInvariant'
      /\ \A s \in Evaluations \ {r} : evaluation'[s] = evaluation[s]
      /\ facts' = facts /\ reports' = reports
  BY <1>3, <1>4, ReadingsStore
<1>6. HasRows(r) /\ IsHopeless(r) /\ Forgets(r) BY DEF EvidenceInvariant
<1>7. HasRows(r)'
  <2>1. \A i \in 1..q.since : reports[i].at < clock'
    <3>1. q.since <= Len(reports) /\ q.since \in Nat BY <1>1, <1>4, <1>6 DEF HasRows, Evaluation
    <3>2. \A i \in DOMAIN reports : reports[i].at <= clock /\ reports[i].at \in Nat
      BY RowsAreSequences DEF EvidenceInvariant, ReportsAreInOrder, Report
    <3> QED BY <1>1, <1>3, <3>1, <3>2, RowsAreSequences DEF EvidenceInvariant
  <2> QED BY <1>1, <1>2, <1>3, <1>4, <1>5, <1>6, <2>1 DEF HasRows
<1>8. IsHopeless(r)' BY <1>2, <1>3, <1>4, <1>5, <1>6 DEF IsHopeless
<1>9. Forgets(r)' BY <1>2, <1>3, <1>4, <1>5, <1>6 DEF Forgets, Overlap, WithReport
<1> QED BY <1>5, <1>7, <1>8, <1>9 DEF Evaluated

LEMMA SaveReportKeeps ==
  ASSUME EvidenceInvariant, NEW r \in Evaluations, SaveReport(r)
  PROVE  Evaluated(r)
<1> DEFINE old == evaluation[r]
           row == BuiltReport(r)
           n == Len(reports) + 1
           q == [old EXCEPT !.pc = "deciding", !.at = 0, !.report = n, !.since = 0]
<1>1. old \in Evaluation /\ old.pc = "saving" BY DEF EvidenceInvariant, EvidenceTypeOK, SaveReport
<1>2. HasRows(r) /\ IsHopeless(r) /\ Forgets(r) BY DEF EvidenceInvariant
<1>3. /\ row \in Report /\ row.checks = old.seen /\ row.at = old.at /\ row.since = old.since
      /\ old.seen \in Checks /\ old.at \in Nat /\ old.since \in Nat
  BY <1>1 DEF BuiltReport, Report, Evaluation
<1>4. reports \in Seq(Report) /\ reports' = Append(reports, row)
  BY DEF EvidenceInvariant, EvidenceTypeOK, SaveReport
<1> HIDE DEF row
<1>5. /\ reports' \in Seq(Report) /\ Len(reports) \in Nat /\ DOMAIN reports = 1..Len(reports)
      /\ Len(reports') = n /\ DOMAIN reports' = 1..n
      /\ \A i \in DOMAIN reports : reports'[i] = reports[i]
      /\ reports'[n] = row
  BY <1>3, <1>4, AddedAtTheEnd
<1>6. /\ facts' = facts /\ decisions' = decisions /\ manifests' = manifests
      /\ clock' = clock /\ changes' = changes /\ Proceeds(r, q)
  BY <1>5 DEF SaveReport
<1>7. /\ q \in Evaluation /\ q.pc = "deciding" /\ q.report = n /\ q.seen = old.seen
      /\ q.since = 0 /\ q.hopeless = old.hopeless /\ q.manifest = old.manifest
  <2>1. n \in Nat BY <1>5
  <2> HIDE DEF n, old
  <2> QED BY <1>1, <2>1 DEF Evaluation, EvaluationPC
<1> HIDE DEF q, old
<1>8. /\ evaluation'[r] = q /\ \A s \in Evaluations \ {r} : evaluation'[s] = evaluation[s]
      /\ evaluation' \in [Evaluations -> Evaluation]
  BY <1>6, <1>7 DEF EvidenceInvariant, EvidenceTypeOK, Proceeds
<1>9. EvidenceTypeOK' BY <1>5, <1>6, <1>8 DEF EvidenceInvariant, EvidenceTypeOK
<1>10. RowsGrow
  BY <1>5, <1>6, RowsAreSequences, EvidenceBounds DEF EvidenceInvariant, EvidenceTypeOK, RowsGrow
<1>11. RowsAreGrounded'
  <2>1. row.checks.approval \in 0..Len(facts.approvals) BY <1>2, <1>3 DEF HasRows, old
  <2>2. \A i \in DOMAIN reports' : reports'[i].checks.approval \in 0..Len(facts.approvals)
    BY <1>5, <2>1 DEF EvidenceInvariant, RowsAreGrounded
  <2>3. \A i \in DOMAIN decisions : /\ decisions[i].report \in DOMAIN reports'
                                  /\ reports'[decisions[i].report].checks = decisions[i].checks
    BY <1>5 DEF EvidenceInvariant, RowsAreGrounded
  <2> QED BY <1>6, <2>2, <2>3 DEF EvidenceInvariant, RowsAreGrounded
<1>12. RowsAreUnique' BY <1>6 DEF EvidenceInvariant, RowsAreUnique
<1>13. ReportsAreInOrder'
  <2>1. /\ old.since < n /\ old.at <= clock /\ \A i \in 1..old.since : reports[i].at < old.at
        /\ \A i \in 1..old.since : i \in DOMAIN reports
    BY <1>1, <1>2, <1>3, <1>5 DEF HasRows, old
  <2>2. \A i \in DOMAIN reports : /\ reports[i].since < i /\ reports[i].at <= clock
                                /\ reports[i].since \in Nat /\ reports[i].at \in Nat
    BY RowsAreSequences DEF EvidenceInvariant, ReportsAreInOrder, Report
  <2>3. \A i \in DOMAIN reports' : reports'[i].since < i /\ reports'[i].at <= clock
    BY <1>3, <1>5, <2>1, <2>2
  <2>4. \A i, j \in DOMAIN reports' : i <= reports'[j].since => reports'[i].at < reports'[j].at
    <3>1. ASSUME NEW i \in DOMAIN reports', NEW j \in DOMAIN reports, i <= reports[j].since
          PROVE  reports'[i].at < reports'[j].at
      <4>1. i \in DOMAIN reports BY <1>5, <2>2, <3>1
      <4> QED BY <1>5, <3>1, <4>1 DEF EvidenceInvariant, ReportsAreInOrder
    <3>2. ASSUME NEW i \in DOMAIN reports', i <= old.since PROVE reports'[i].at < row.at
      BY <1>3, <1>5, <2>1, <3>2
    <3> QED BY <1>3, <1>5, <3>1, <3>2
  <2>5. \E m \in DOMAIN reports' : \A j \in DOMAIN reports' : reports'[j].at <= reports'[m].at
    <3>1. CASE reports = <<>> BY <1>3, <1>5, <3>1
    <3>2. CASE reports # <<>>
      <4>1. PICK m \in DOMAIN reports : \A j \in DOMAIN reports : reports[j].at <= reports[m].at
        BY <3>2 DEF EvidenceInvariant, ReportsAreInOrder
      <4>2. CASE row.at <= reports[m].at BY <1>5, <4>1, <4>2
      <4>3. CASE reports[m].at <= row.at
        <5>1. \A j \in DOMAIN reports' : reports'[j].at <= row.at BY <1>3, <1>5, <2>2, <4>1, <4>3
        <5> QED BY <1>5, <5>1
      <4> QED BY <1>3, <2>2, <4>1, <4>2, <4>3
    <3> QED BY <3>1, <3>2
  <2> QED BY <1>6, <2>3, <2>4, <2>5 DEF ReportsAreInOrder
<1>14. ApprovalCarriedOver'
  <2>1. \A i, k \in DOMAIN reports : Overlap(i, k) => Overlap(i, k)' BY <1>5 DEF Overlap
  <2>2. ASSUME NEW i \in DOMAIN reports, NEW j \in DOMAIN reports, i < j,
               reports[i].checks.approval # 0, reports[j].checks.approval = 0
        PROVE  \E k \in 1..j : k # i /\ Overlap(i, k)'
    BY <1>5, <2>1, <2>2 DEF EvidenceInvariant, ApprovalCarriedOver
  <2>3. ASSUME NEW i \in DOMAIN reports, reports[i].checks.approval # 0, old.seen.approval = 0
        PROVE  \E k \in 1..n : k # i /\ Overlap(i, k)'
    <3>1. CASE i <= old.since
      <4>1. PICK k \in DOMAIN reports : k # i /\ Overlap(i, k)
        BY <1>1, <1>2, <1>5, <2>3, <3>1 DEF Forgets, WithReport, old
      <4> QED BY <1>5, <2>1, <4>1
    <3>2. CASE old.since < i
      <4>1. reports[i].since < i /\ reports[i].since \in Nat
        BY RowsAreSequences DEF EvidenceInvariant, ReportsAreInOrder, Report
      <4>2. reports'[i].since < n /\ reports'[n].since < i /\ n # i
        BY <1>3, <1>5, <3>2, <4>1
      <4> QED BY <1>5, <4>2 DEF Overlap
    <3> QED BY <1>3, <1>5, <3>1, <3>2
  <2>4. ASSUME NEW i \in DOMAIN reports', NEW j \in DOMAIN reports', i < j,
               reports'[i].checks.approval # 0, reports'[j].checks.approval = 0
        PROVE  \E k \in 1..j : k # i /\ Overlap(i, k)'
    <3>1. i \in DOMAIN reports BY <1>5, <2>4
    <3>2. CASE j \in DOMAIN reports BY <1>5, <2>2, <2>4, <3>1, <3>2
    <3>3. CASE j = n BY <1>3, <1>5, <2>3, <2>4, <3>1, <3>3
    <3> QED BY <1>5, <3>2, <3>3
  <2> QED BY <2>4 DEF ApprovalCarriedOver
<1>15. HasRows(r)' BY <1>1, <1>2, <1>3, <1>5, <1>6, <1>7, <1>8 DEF HasRows, old
<1>16. IsHopeless(r)' BY <1>1, <1>2, <1>7, <1>8 DEF IsHopeless, WithReport, old
<1>17. Forgets(r)' BY <1>7, <1>8 DEF Forgets, WithReport
<1> QED BY <1>8, <1>9, <1>10, <1>11, <1>12, <1>13, <1>14, <1>15, <1>16, <1>17
      DEF Evaluated, RowsInvariant

LEMMA SaveDecisionKeeps ==
  ASSUME EvidenceInvariant, NEW r \in Evaluations, SaveDecision(r)
  PROVE  Evaluated(r)
<1> DEFINE old == evaluation[r]
           found == StoredDecision(old.seen)
           answer == IF found = {} THEN Len(decisions) + 1 ELSE CHOOSE i \in found : TRUE
           prepares == old.op = "prepare"
                         /\ DecisionStatus(decisions'[answer].checks) # "action_required"
           q == [old EXCEPT !.decision = answer, !.report = 0,
                   !.pc = IF prepares THEN "preparing" ELSE "answered"]
<1>1. old \in Evaluation /\ old.pc = "deciding" BY DEF EvidenceInvariant, EvidenceTypeOK, SaveDecision
<1>2. HasRows(r) /\ IsHopeless(r) BY DEF EvidenceInvariant
<1>3. /\ decisions \in Seq(Decision) /\ Len(decisions) \in Nat
      /\ DOMAIN decisions = 1..Len(decisions) /\ old.seen \in Checks
      /\ old.report \in DOMAIN reports /\ reports[old.report].checks = old.seen
      /\ old.report \in Nat
  BY <1>1, <1>2, RowsAreSequences DEF EvidenceInvariant, EvidenceTypeOK, HasRows, Evaluation
<1>4. /\ reports' = reports /\ facts' = facts /\ manifests' = manifests /\ clock' = clock
      /\ changes' = changes /\ Proceeds(r, q)
  BY DEF SaveDecision
<1>5. /\ decisions' \in Seq(Decision) /\ Len(decisions) <= Len(decisions')
      /\ \A i \in DOMAIN decisions : i \in DOMAIN decisions' /\ decisions'[i] = decisions[i]
      /\ answer \in DOMAIN decisions' /\ decisions'[answer].checks = old.seen
      /\ \A i \in DOMAIN decisions' :
           \/ i \in DOMAIN decisions
           \/ i = answer /\ decisions'[i].report = old.report /\ found = {}
      /\ answer \in Nat
  <2>1. CASE found = {}
    <3> DEFINE row == BuiltDecision(r)
    <3>1. row \in Decision /\ row.checks = old.seen /\ row.report = old.report
      BY <1>3 DEF BuiltDecision, Decision
    <3>2. decisions' = Append(decisions, row) BY <2>1 DEF SaveDecision
    <3> HIDE DEF row, found
    <3>3. /\ decisions' \in Seq(Decision) /\ Len(decisions') = Len(decisions) + 1
          /\ DOMAIN decisions' = 1..(Len(decisions) + 1)
          /\ \A i \in DOMAIN decisions : decisions'[i] = decisions[i]
          /\ decisions'[Len(decisions) + 1] = row
      BY <1>3, <3>1, <3>2, AddedAtTheEnd
    <3>4. answer = Len(decisions) + 1 BY <2>1
    <3> HIDE DEF answer
    <3>5. /\ answer \in DOMAIN decisions' /\ answer \in Nat /\ decisions'[answer] = row
      BY <1>3, <3>3, <3>4
    <3>6. \A i \in DOMAIN decisions' : i \in DOMAIN decisions \/ i = answer
      BY <1>3, <3>3, <3>4
    <3>7. \A i \in DOMAIN decisions : i \in DOMAIN decisions' BY <1>3, <3>3
    <3> QED BY <1>3, <2>1, <3>1, <3>3, <3>5, <3>6, <3>7
  <2>2. CASE found # {}
    <3>1. decisions' = decisions BY <2>2 DEF SaveDecision
    <3>2. answer \in found BY <2>2
    <3>3. answer \in DOMAIN decisions /\ decisions[answer].checks = old.seen
      BY <3>2 DEF StoredDecision, SameEvidence
    <3> HIDE DEF answer, found, old
    <3>4. answer \in Nat /\ Len(decisions) <= Len(decisions) BY <1>3, <3>3
    <3> QED BY <1>3, <3>1, <3>3, <3>4
  <2> QED BY <2>1, <2>2
<1>6. found = {} => \A i \in DOMAIN decisions : decisions[i].checks # old.seen
  BY DEF StoredDecision, SameEvidence
<1>7. prepares => Blockers(old.seen) = {} BY <1>5 DEF DecisionStatus
<1> HIDE DEF answer, found
<1>8. /\ q \in Evaluation /\ q.pc \in {"preparing", "answered"} /\ q.decision = answer
      /\ q.pc = "preparing" => Blockers(old.seen) = {}
      /\ q.seen = old.seen /\ q.since = old.since /\ q.hopeless = old.hopeless
      /\ q.manifest = old.manifest
  <2> HIDE DEF prepares
  <2> QED BY <1>1, <1>5, <1>7 DEF Evaluation, EvaluationPC
<1> HIDE DEF q, old, prepares
<1>9. /\ evaluation'[r] = q /\ \A s \in Evaluations \ {r} : evaluation'[s] = evaluation[s]
      /\ evaluation' \in [Evaluations -> Evaluation]
  BY <1>4, <1>8 DEF EvidenceInvariant, EvidenceTypeOK, Proceeds
<1>10. EvidenceTypeOK' BY <1>4, <1>5, <1>9 DEF EvidenceInvariant, EvidenceTypeOK
<1>11. RowsGrow
  BY <1>4, <1>5, RowsAreSequences, EvidenceBounds DEF EvidenceInvariant, EvidenceTypeOK, RowsGrow
<1>12. RowsAreGrounded'
  <2>1. \A i \in DOMAIN decisions' : /\ decisions'[i].report \in DOMAIN reports
                                   /\ reports[decisions'[i].report].checks = decisions'[i].checks
    BY <1>3, <1>5 DEF EvidenceInvariant, RowsAreGrounded
  <2>2. \A i \in DOMAIN manifests :
          /\ manifests[i].decision \in DOMAIN decisions'
          /\ manifests[i].report = decisions'[manifests[i].decision].report
          /\ Blockers(decisions'[manifests[i].decision].checks) = {}
    BY <1>5 DEF EvidenceInvariant, RowsAreGrounded
  <2> QED BY <1>4, <2>1, <2>2 DEF EvidenceInvariant, RowsAreGrounded
<1>13. RowsAreUnique'
  <2>1. \A i, j \in DOMAIN decisions' : decisions'[i].checks = decisions'[j].checks => i = j
    BY <1>5, <1>6 DEF EvidenceInvariant, RowsAreUnique
  <2> QED BY <1>4, <2>1 DEF EvidenceInvariant, RowsAreUnique
<1>14. ReportsAreInOrder' /\ ApprovalCarriedOver'
  BY <1>4 DEF EvidenceInvariant, ReportsAreInOrder, ApprovalCarriedOver, Overlap
<1>15. HasRows(r)' BY <1>1, <1>2, <1>4, <1>5, <1>8, <1>9 DEF HasRows, old
<1>16. IsHopeless(r)' BY <1>1, <1>2, <1>8, <1>9 DEF IsHopeless, WithReport, old
<1>17. Forgets(r)' BY <1>8, <1>9 DEF Forgets, WithReport
<1> QED BY <1>9, <1>10, <1>11, <1>12, <1>13, <1>14, <1>15, <1>16, <1>17
      DEF Evaluated, RowsInvariant

LEMMA SaveManifestKeeps ==
  ASSUME EvidenceInvariant, NEW r \in Evaluations, SaveManifest(r)
  PROVE  Evaluated(r)
<1> DEFINE old == evaluation[r]
           row == BuiltManifest(r)
           same == {i \in DOMAIN manifests : manifests[i] = row}
           answer == IF same # {} THEN CHOOSE i \in same : TRUE ELSE Len(manifests) + 1
           q == [old EXCEPT !.pc = "answered", !.manifest = answer]
<1>1. old \in Evaluation /\ old.pc = "preparing"
  BY DEF EvidenceInvariant, EvidenceTypeOK, SaveManifest
<1>2. HasRows(r) /\ IsHopeless(r) BY DEF EvidenceInvariant
<1>3. /\ manifests \in Seq(Manifest) /\ Len(manifests) \in Nat
      /\ DOMAIN manifests = 1..Len(manifests)
      /\ old.decision \in DOMAIN decisions /\ decisions[old.decision].checks = old.seen
      /\ Blockers(old.seen) = {} /\ old.manifest = 0
      /\ decisions[old.decision] \in Decision
  BY <1>1, <1>2, RowsAreSequences DEF EvidenceInvariant, EvidenceTypeOK, HasRows
<1>4. /\ reports' = reports /\ facts' = facts /\ decisions' = decisions /\ clock' = clock
      /\ changes' = changes
  BY DEF SaveManifest
<1>5. /\ row \in Manifest /\ row.decision = old.decision
      /\ row.report = decisions[old.decision].report
  BY <1>1, <1>3 DEF BuiltManifest, Manifest, Decision, Evaluation
<1>6. manifests' = IF same # {} THEN manifests ELSE Append(manifests, row)
  BY DEF SaveManifest
<1> HIDE DEF row
<1>7. /\ manifests' \in Seq(Manifest) /\ Len(manifests) <= Len(manifests')
      /\ \A i \in DOMAIN manifests : i \in DOMAIN manifests' /\ manifests'[i] = manifests[i]
      /\ answer \in DOMAIN manifests' /\ manifests'[answer] = row /\ answer \in Nat
      /\ \A i \in DOMAIN manifests' : i \in DOMAIN manifests \/ (i = answer /\ same = {})
      /\ same = {} => answer = Len(manifests')
  <2>1. CASE same = {}
    <3>1. manifests' = Append(manifests, row) /\ answer = Len(manifests) + 1 BY <1>6, <2>1
    <3> HIDE DEF answer, same
    <3>2. /\ manifests' \in Seq(Manifest) /\ Len(manifests') = Len(manifests) + 1
          /\ DOMAIN manifests' = 1..(Len(manifests) + 1)
          /\ \A i \in DOMAIN manifests : manifests'[i] = manifests[i]
          /\ manifests'[Len(manifests) + 1] = row
      BY <1>3, <1>5, <3>1, AddedAtTheEnd
    <3> QED BY <1>3, <2>1, <3>1, <3>2
  <2>2. CASE same # {}
    <3>1. manifests' = manifests BY <1>6, <2>2
    <3>2. answer \in same BY <2>2
    <3>3. answer \in DOMAIN manifests /\ manifests[answer] = row BY <3>2
    <3> HIDE DEF answer, same
    <3>4. answer \in Nat /\ Len(manifests) <= Len(manifests) BY <1>3, <3>3
    <3> QED BY <1>3, <2>2, <3>1, <3>3, <3>4
  <2> QED BY <2>1, <2>2
<1>8. Proceeds(r, q)
  <2>1. CASE same = {}
    <3>1. Proceeds(r, [old EXCEPT !.pc = "answered", !.manifest = Len(manifests')])
      BY <2>1 DEF SaveManifest, row
    <3> QED BY <1>7, <2>1, <3>1
  <2>2. CASE same # {} BY <2>2 DEF SaveManifest, row
  <2> QED BY <2>1, <2>2
<1>9. same = {} => \A i \in DOMAIN manifests : manifests[i].decision # old.decision
  <2>1. ASSUME NEW i \in DOMAIN manifests, manifests[i].decision = old.decision
        PROVE  manifests[i] = row
    <3>1. manifests[i].report = decisions[old.decision].report
      BY <2>1 DEF EvidenceInvariant, RowsAreGrounded
    <3>2. manifests[i] \in Manifest BY RowsAreSequences DEF EvidenceInvariant
    <3> QED BY <1>5, <2>1, <3>1, <3>2 DEF Manifest
  <2> QED BY <2>1
<1> HIDE DEF answer, same
<1>10. /\ q \in Evaluation /\ q.pc = "answered" /\ q.decision = old.decision
       /\ q.manifest = answer /\ q.seen = old.seen /\ q.since = old.since
       /\ q.hopeless = old.hopeless
  BY <1>1, <1>7 DEF Evaluation, EvaluationPC
<1> HIDE DEF q, old
<1>11. /\ evaluation'[r] = q /\ \A s \in Evaluations \ {r} : evaluation'[s] = evaluation[s]
       /\ evaluation' \in [Evaluations -> Evaluation]
  BY <1>8, <1>10 DEF EvidenceInvariant, EvidenceTypeOK, Proceeds
<1>12. EvidenceTypeOK' BY <1>4, <1>7, <1>11 DEF EvidenceInvariant, EvidenceTypeOK
<1>13. RowsGrow
  BY <1>4, <1>7, RowsAreSequences, EvidenceBounds DEF EvidenceInvariant, EvidenceTypeOK, RowsGrow
<1>14. RowsAreGrounded'
  <2>1. \A i \in DOMAIN manifests' :
          /\ manifests'[i].decision \in DOMAIN decisions
          /\ manifests'[i].report = decisions[manifests'[i].decision].report
          /\ Blockers(decisions[manifests'[i].decision].checks) = {}
    BY <1>3, <1>5, <1>7 DEF EvidenceInvariant, RowsAreGrounded
  <2> QED BY <1>4, <2>1 DEF EvidenceInvariant, RowsAreGrounded
<1>15. RowsAreUnique'
  <2>1. \A i, j \in DOMAIN manifests' : manifests'[i].decision = manifests'[j].decision => i = j
    BY <1>5, <1>7, <1>9 DEF EvidenceInvariant, RowsAreUnique
  <2> QED BY <1>4, <2>1 DEF EvidenceInvariant, RowsAreUnique
<1>16. ReportsAreInOrder' /\ ApprovalCarriedOver'
  BY <1>4 DEF EvidenceInvariant, ReportsAreInOrder, ApprovalCarriedOver, Overlap
<1>17. HasRows(r)' BY <1>1, <1>2, <1>3, <1>4, <1>5, <1>7, <1>10, <1>11 DEF HasRows, old
<1>18. IsHopeless(r)' BY <1>1, <1>2, <1>10, <1>11 DEF IsHopeless, WithReport, old
<1>19. Forgets(r)' BY <1>10, <1>11 DEF Forgets, WithReport
<1> QED BY <1>11, <1>12, <1>13, <1>14, <1>15, <1>16, <1>17, <1>18, <1>19
      DEF Evaluated, RowsInvariant

LEMMA EvidenceInitial ==
  ASSUME EvidenceInit
  PROVE  EvidenceInvariant
<1>1. /\ reports = <<>> /\ decisions = <<>> /\ manifests = <<>> /\ clock = 0 /\ changes = 0
      /\ \A r \in Evaluations : evaluation[r] = NoEvaluation
      /\ evaluation \in [Evaluations -> Evaluation]
  BY NoEvaluationType DEF EvidenceInit
<1>2. /\ Len(reports) = 0 /\ DOMAIN reports = {} /\ DOMAIN decisions = {}
      /\ DOMAIN manifests = {} /\ reports \in Seq(Report) /\ decisions \in Seq(Decision)
      /\ manifests \in Seq(Manifest)
  BY <1>1, EmptySeq
<1>3. /\ facts.approvals \in Seq(ApprovalStatus) /\ Len(facts.approvals) \in Nat
      /\ facts \in [current : BOOLEAN, listed : BOOLEAN, creative : BOOLEAN,
                    capabilities : Snapshot, approvals : Seq(ApprovalStatus)]
  <2>1. {NoSnapshot, [id |-> 1, available |-> TRUE]} \subseteq Snapshot
    BY DEF NoSnapshot, Snapshot
  <2>2. {<<>>, <<"approved">>} \subseteq Seq(ApprovalStatus) BY DEF ApprovalStatus
  <2>3. facts \in [current : BOOLEAN, listed : BOOLEAN, creative : BOOLEAN,
                   capabilities : Snapshot, approvals : Seq(ApprovalStatus)]
    BY <2>1, <2>2 DEF EvidenceInit
  <2>4. facts.approvals \in Seq(ApprovalStatus) BY <2>3
  <2> QED BY <2>3, <2>4, LenProperties
<1>4. EvidenceTypeOK BY <1>1, <1>2, <1>3, EvidenceBounds DEF EvidenceTypeOK
<1>5. RowsAreGrounded /\ RowsAreUnique /\ ReportsAreInOrder /\ ApprovalCarriedOver
  BY <1>1, <1>2 DEF RowsAreGrounded, RowsAreUnique, ReportsAreInOrder, ApprovalCarriedOver
<1>6. ASSUME NEW r \in Evaluations PROVE HasRows(r) /\ IsHopeless(r) /\ Forgets(r)
  <2>1. /\ NoEvaluation.pc = "idle" /\ NoEvaluation.since = 0 /\ NoEvaluation.manifest = 0
        /\ NoEvaluation.seen.approval = 0 /\ ~NoEvaluation.hopeless
    BY DEF NoEvaluation, NoChecks
  <2> QED BY <1>1, <1>2, <1>3, <2>1 DEF HasRows, IsHopeless, Forgets
<1> QED BY <1>4, <1>5, <1>6 DEF EvidenceInvariant

LEMMA EvaluationsKeep ==
  ASSUME EvidenceInvariant, NEW r \in Evaluations,
         \/ Evaluate(r) \/ Present(r) \/ Prepare(r)
         \/ ReadAccount(r) \/ NotCurrent(r) \/ ReadCapabilities(r) \/ TargetUnproved(r)
         \/ ReadApproval(r) \/ ApprovalUnproved(r) \/ ReadCreativeCheck(r)
         \/ SaveReport(r) \/ SaveDecision(r) \/ SaveManifest(r) \/ EndEvaluation(r)
  PROVE  EvidenceInvariant'
<1>1. CASE Evaluate(r) \/ Present(r) \/ Prepare(r)
  <2>1. 0 \in 0..Len(facts.approvals) /\ DOMAIN facts.approvals \subseteq 0..Len(facts.approvals)
    BY RowsAreSequences DEF EvidenceInvariant
  <2> QED BY <1>1, <2>1, BeginKeeps, OthersAreKept DEF Evaluate, Present, Prepare
<1>2. CASE ReadAccount(r) \/ ReadCapabilities(r) \/ TargetUnproved(r) \/ ReadApproval(r)
             \/ ApprovalUnproved(r)
  BY <1>2, ChecksKeep, OthersAreKept
<1>3. CASE NotCurrent(r) \/ EndEvaluation(r) BY <1>3, EndsKeep, OthersAreKept
<1>4. CASE ReadCreativeCheck(r) BY <1>4, ReadCreativeCheckKeeps, OthersAreKept
<1>5. CASE SaveReport(r) BY <1>5, SaveReportKeeps, OthersAreKept
<1>6. CASE SaveDecision(r) BY <1>6, SaveDecisionKeeps, OthersAreKept
<1>7. CASE SaveManifest(r) BY <1>7, SaveManifestKeeps, OthersAreKept
<1> QED BY <1>1, <1>2, <1>3, <1>4, <1>5, <1>6, <1>7

\* What dry runs, decisions and manifests rest on, and what a request has found so far, for
\* any number of requests and changes (ExecutionManifestService.prepare).
THEOREM EvidenceIsInvariant == EvidenceSpec => []EvidenceInvariant
<1>1. EvidenceInit => EvidenceInvariant BY EvidenceInitial
<1>2. EvidenceInvariant /\ [EvidenceNext]_evidenceVars => EvidenceInvariant'
  <2> SUFFICES ASSUME EvidenceInvariant, [EvidenceNext]_evidenceVars
               PROVE  EvidenceInvariant'
    OBVIOUS
  <2>1. CASE Supersede \/ Discover \/ NewCreative \/ Validate \/ Approvals
    <3>1. EvidenceTypeOK BY DEF EvidenceInvariant
    <3> QED BY <2>1, <3>1, ChangesMoveOn, FactsKeep
  <2>2. CASE UNCHANGED evidenceVars
    BY <2>2 DEF evidenceVars, EvidenceInvariant, EvidenceTypeOK, RowsAreGrounded, RowsAreUnique,
      ReportsAreInOrder, ApprovalCarriedOver, Overlap, HasRows, IsHopeless, Forgets
  <2> QED BY <2>1, <2>2, EvaluationsKeep DEF EvidenceNext
<1> QED BY <1>1, <1>2, PTL DEF EvidenceSpec

LEMMA InvariantIsShared ==
  ASSUME EvidenceInvariant
  PROVE  EvidenceIsShared
<1>1. ManifestsRestOnFreshEvidence
  <2> SUFFICES ASSUME NEW r \in Evaluations, evaluation[r].manifest # 0
               PROVE  /\ reports[manifests[evaluation[r].manifest].report].checks = evaluation[r].seen
                      /\ Blockers(evaluation[r].seen) = {}
    BY DEF ManifestsRestOnFreshEvidence
  <2>1. HasRows(r) BY DEF EvidenceInvariant
  <2> QED BY <2>1 DEF EvidenceInvariant, HasRows, RowsAreGrounded
<1>2. OneManifestPerEvidence
  BY DEF EvidenceInvariant, RowsAreGrounded, RowsAreUnique, OneManifestPerEvidence
<1>3. LostGroundsPrepareNothing
  <2> SUFFICES ASSUME NEW r \in Evaluations, evaluation[r].hopeless, evaluation[r].manifest # 0
               PROVE  FALSE
    BY DEF LostGroundsPrepareNothing
  <2>1. HasRows(r) /\ IsHopeless(r) /\ evaluation[r].seen \in Checks
    BY DEF EvidenceInvariant, EvidenceTypeOK, Evaluation
  <2>2. Blockers(evaluation[r].seen) = {}
    <3>1. /\ evaluation[r].manifest \in DOMAIN manifests
          /\ manifests[evaluation[r].manifest].decision = evaluation[r].decision
          /\ decisions[evaluation[r].decision].checks = evaluation[r].seen
      BY <2>1 DEF HasRows
    <3>2. \A i \in DOMAIN manifests : Blockers(decisions[manifests[i].decision].checks) = {}
      BY DEF EvidenceInvariant, RowsAreGrounded
    <3> QED BY <3>1, <3>2
  <2> QED BY <2>1, <2>2, MissingBlocks DEF HasRows, IsHopeless, WithReport
<1> QED BY <1>1, <1>2, <1>3 DEF EvidenceInvariant, EvidenceIsShared

\* Requests that find the same evidence share one decision and one manifest, which rests on
\* what they found themselves; what was lost prepares nothing, and an approval is forgotten
\* only beside a request that overlaps (ExecutionSimulationService, OperationalReadinessService,
\* ExecutionManifestService).
THEOREM EvidenceStaysShared == EvidenceSpec => []EvidenceIsShared
BY EvidenceIsInvariant, InvariantIsShared, PTL

-----------------------------------------------------------------------------
(* Induction over the length of a list.                                    *)

\* A set of naturals has a least element: what an induction is made of here.
LEMMA LeastNatural ==
  ASSUME NEW T \in SUBSET Nat, T # {}
  PROVE \E n \in T : \A m \in T : n <= m
<1> DEFINE R == OpToRel(<, Nat)
<1>1. R = {ss \in Nat \X Nat : ss[1] < ss[2]}
  BY Zenon DEF OpToRel
<1>2. IsWellFoundedOn(R, Nat)
  BY NatLessThanWellFounded, Zenon
<1>. HIDE DEF R
<1>3. PICK n \in T : \A m \in T : ~(<<m, n>> \in R)
  BY <1>2, WFMin
<1>4. \A m \in T : ~(m < n)
  BY <1>1, <1>3
<1>. QED
  BY <1>4

\* S has every natural when it has the first one and the next one of each.
LEMMA Induction ==
  ASSUME NEW S, 0 \in S, \A n \in Nat : n \in S => n + 1 \in S
  PROVE Nat \subseteq S
<1> DEFINE T == Nat \ S
<1>. SUFFICES ASSUME T # {}
              PROVE FALSE
  OBVIOUS
<1>1. PICK n \in T : \A i \in T : n <= i
  <2>1. T \in SUBSET Nat
    OBVIOUS
  <2>. HIDE DEF T
  <2>. QED
    BY <2>1, LeastNatural
<1>2. n \in Nat /\ n \notin S /\ n # 0
  OBVIOUS
<1>3. n - 1 \in Nat /\ (n - 1) + 1 = n /\ n - 1 < n
  BY <1>2
<1>4. n - 1 \in S
  BY <1>1, <1>3
<1>. QED
  BY <1>2, <1>3, <1>4

\* The first n + 1 values of a sequence that begins with x and goes on with step.
IsBegun(g, n, X, x, step) ==
  /\ g \in [0..n -> X] /\ g[0] = x
  /\ \A i \in 0..n : i # n => g[i + 1] = step[i][g[i]]

\* There is a sequence in X that begins with x and goes on with step.
IsRecursive(X, x, step) ==
  \E f \in [Nat -> X] : f[0] = x /\ \A n \in Nat : f[n + 1] = step[n][f[n]]

\* What is defined by recursion exists.
LEMMA RecursionIsDefined ==
  ASSUME NEW X, NEW x \in X, NEW step \in [Nat -> [X -> X]]
  PROVE IsRecursive(X, x, step)
<1> DEFINE Starts(g, n) == IsBegun(g, n, X, x, step)
           S == {n \in Nat : \E g : Starts(g, n)}
<1>1. \A n \in Nat : \E g : Starts(g, n)
  <2>1. 0 \in S
    <3>1. Starts([i \in 0..0 |-> x], 0)
      BY DEF IsBegun
    <3>. QED
      BY <3>1
  <2>2. ASSUME NEW n \in Nat, n \in S
        PROVE n + 1 \in S
    <3>1. PICK g : Starts(g, n)
      BY <2>2
    <3> DEFINE h == [i \in 0..(n + 1) |-> IF i = n + 1 THEN step[n][g[n]] ELSE g[i]]
    <3>2. g \in [0..n -> X] /\ g[0] = x /\ \A i \in 0..n : i # n => g[i + 1] = step[i][g[i]]
      BY <3>1 DEF IsBegun
    <3>3. h \in [0..(n + 1) -> X] /\ h[0] = x
      BY <3>2
    <3>4. ASSUME NEW i \in 0..(n + 1), i # n + 1
          PROVE h[i + 1] = step[i][h[i]]
      BY <3>2, <3>4
    <3>5. Starts(h, n + 1)
      BY <3>3, <3>4 DEF IsBegun
    <3>. QED
      BY <3>5
  <2>. QED
    <3>. HIDE DEF S
    <3>1. Nat \subseteq S
      BY <2>1, <2>2, Induction
    <3>. QED
      BY <3>1 DEF S
<1>2. ASSUME NEW m \in Nat, NEW n \in Nat, m <= n, NEW g, Starts(g, m), NEW h, Starts(h, n)
      PROVE g[m] = h[m]
  <2> DEFINE A == {i \in Nat : i <= m => g[i] = h[i]}
  <2>1. 0 \in A
    BY <1>2 DEF IsBegun
  <2>2. ASSUME NEW i \in Nat, i \in A
        PROVE i + 1 \in A
    <3>. SUFFICES ASSUME i + 1 <= m
                  PROVE g[i + 1] = h[i + 1]
      OBVIOUS
    <3>1. g[i] = h[i] /\ i \in 0..m /\ i # m /\ i \in 0..n /\ i # n
      BY <1>2, <2>2
    <3>. QED
      BY <1>2, <3>1 DEF IsBegun
  <2>3. m \in A
    <3>. HIDE DEF A
    <3>. QED
      BY <2>1, <2>2, Induction
  <2>. QED
    BY <2>3
<1> DEFINE begun(n) == CHOOSE g : Starts(g, n)
           f == [n \in Nat |-> begun(n)[n]]
<1>3. \A n \in Nat : Starts(begun(n), n)
  BY <1>1
<1>. HIDE DEF begun
<1>4. f \in [Nat -> X] /\ f[0] = x
  BY <1>3 DEF IsBegun
<1>5. ASSUME NEW n \in Nat
      PROVE f[n + 1] = step[n][f[n]]
  <2>1. begun(n + 1)[n + 1] = step[n][begun(n + 1)[n]]
    BY <1>3 DEF IsBegun
  <2>2. begun(n)[n] = begun(n + 1)[n]
    BY <1>2, <1>3
  <2>. QED
    BY <2>1, <2>2
<1>. QED
  BY <1>4, <1>5 DEF IsRecursive

-----------------------------------------------------------------------------
(* The mapping of a package.                                               *)

CONSTANTS
  Tenths, Durations, Ages, AdRefs, MediaIds, Texts, Checksums, Sizes, MaxAds, MaxMedia
                                                         \* those of PackageMapping

VARIABLES
  mappingPackage, stage, answer, inputs, issues

Mapping == INSTANCE PackageMapping WITH Amounts <- Tenths, package <- mappingPackage

MappingAssumptions == Mapping!NumberAssumption /\ Mapping!NameAssumption

\* What is past the validation was found valid, and what it is mapped to is of it.
MappingInvariant ==
  /\ mappingPackage \in Mapping!Package
  /\ stage = "validated" /\ answer = "VALID" => Mapping!Valid(mappingPackage)
  /\ stage \in {"mapped", "stored", "halfway"} =>
       /\ Mapping!Valid(mappingPackage)
       /\ inputs.amount \in Mapping!MinorUnits(mappingPackage.amount)
       /\ inputs.copies = Mapping!CopiesOf(mappingPackage)
       /\ inputs.assets = Mapping!AssetsOf(mappingPackage)
  /\ stage = "stored" => issues = Mapping!Issues(inputs.copies, inputs.assets)

LEMMA MappingKeepsInvariant ==
  ASSUME MappingInvariant, [Mapping!Next]_Mapping!vars
  PROVE MappingInvariant'
<1>1. CASE Mapping!Validate
  BY <1>1 DEF MappingInvariant, Mapping!Validate
<1>2. CASE Mapping!Map
  <2>1. CASE answer = "VALID"
    <3>1. /\ stage = "validated" /\ stage' = "mapped" /\ UNCHANGED mappingPackage
          /\ inputs'.amount \in Mapping!MinorUnits(mappingPackage.amount)
          /\ inputs'.copies = Mapping!CopiesOf(mappingPackage)
          /\ inputs'.assets = Mapping!AssetsOf(mappingPackage)
      BY <1>2, <2>1 DEF Mapping!Map
    <3>. QED
      BY <2>1, <3>1 DEF MappingInvariant
  <2>2. CASE answer # "VALID"
    BY <1>2, <2>2 DEF MappingInvariant, Mapping!Map
  <2>. QED
    BY <2>1, <2>2
<1>3. CASE Mapping!Receive
  BY <1>3 DEF MappingInvariant, Mapping!Receive
<1>4. CASE UNCHANGED Mapping!vars
  BY <1>4 DEF MappingInvariant, Mapping!vars
<1>. QED
  BY <1>1, <1>2, <1>3, <1>4 DEF Mapping!Next, Mapping!Done

\* What the ads of a valid package have.
LEMMA ValidAds ==
  ASSUME NEW p \in Mapping!Package, Mapping!Valid(p)
  PROVE /\ p.ads \in Seq(Mapping!Ad) /\ p.media \in Seq(Mapping!Media)
        /\ \A i \in 1..Len(p.ads) :
             p.ads[i].ref # "" /\ \E j \in 1..Len(p.media) : p.media[j].id = p.ads[i].media
        /\ \A i, j \in 1..Len(p.ads) : p.ads[i].ref = p.ads[j].ref => i = j
<1>1. p.ads \in Seq(Mapping!Ad) /\ p.media \in Seq(Mapping!Media)
  <2>1. \A S, max : Mapping!Lists(S, max) \subseteq Seq(S)
    BY SeqDef DEF Mapping!Lists
  <2>. QED
    BY <2>1 DEF Mapping!Package
<1>2. /\ ~Mapping!Some(p.ads, LAMBDA a : a.ref = "")
      /\ ~Mapping!Some(p.ads, LAMBDA a : a.media = "")
  <2>1. /\ Mapping!If(Mapping!Some(p.ads, LAMBDA a : a.ref = ""), "ad_reference") = {}
        /\ Mapping!If(Mapping!Some(p.ads, LAMBDA a : a.media = ""), "ad_media") = {}
    BY DEF Mapping!Valid, Mapping!Missing
  <2>. QED
    BY <2>1 DEF Mapping!If
<1>3. /\ ~Mapping!Repeated(Mapping!References(p.ads))
      /\ ~Mapping!Some(p.ads, LAMBDA a : /\ a.media # ""
                                         /\ a.media \notin Mapping!ToSet(Mapping!Names(p.media)))
  <2>1. /\ Mapping!If(Mapping!Repeated(Mapping!References(p.ads)), "duplicate_ad_reference") = {}
        /\ Mapping!If(Mapping!Some(p.ads, LAMBDA a :
             a.media # "" /\ a.media \notin Mapping!ToSet(Mapping!Names(p.media))),
             "unknown_media") = {}
    BY DEF Mapping!Valid, Mapping!Blockers
  <2>. QED
    BY <2>1 DEF Mapping!If
<1>4. DOMAIN p.ads = 1..Len(p.ads) /\ DOMAIN p.media = 1..Len(p.media)
  BY <1>1
<1>5. ASSUME NEW i \in 1..Len(p.ads)
      PROVE p.ads[i].ref # "" /\ \E j \in 1..Len(p.media) : p.media[j].id = p.ads[i].media
  <2>1. p.ads[i].ref # "" /\ p.ads[i].media # ""
    BY <1>2, <1>4 DEF Mapping!Some
  <2>2. p.ads[i].media \in Mapping!ToSet(Mapping!Names(p.media))
    BY <1>3, <1>4, <2>1 DEF Mapping!Some
  <2>. QED
    BY <1>4, <2>1, <2>2 DEF Mapping!ToSet, Mapping!Names
<1>6. ASSUME NEW i \in 1..Len(p.ads), NEW j \in 1..Len(p.ads), p.ads[i].ref = p.ads[j].ref
      PROVE i = j
  BY <1>3, <1>4, <1>5, <1>6 DEF Mapping!Repeated, Mapping!References
<1>. QED
  BY <1>1, <1>5, <1>6

\* The media that mediaById gives has the id it is asked for.
LEMMA MediaHasItsId ==
  ASSUME NEW p, p.media \in Seq(Mapping!Media), NEW id,
         \E j \in 1..Len(p.media) : p.media[j].id = id
  PROVE /\ Mapping!MediaById(p, id) \in Mapping!ToSet(p.media)
        /\ Mapping!MediaById(p, id).id = id
<1> DEFINE of == {i \in DOMAIN p.media : p.media[i].id = id}
<1>1. of # {} /\ \E i \in of : \A j \in of : j <= i
  <2>. PICK n \in Nat : n = Len(p.media)
    OBVIOUS
  <2> DEFINE T == {n - i : i \in of}
  <2>1. of \subseteq 1..n /\ of # {}
    OBVIOUS
  <2>. HIDE DEF of
  <2>2. T \in SUBSET Nat /\ T # {}
    <3>1. \A i \in of : n - i \in Nat
      BY <2>1
    <3>. QED
      BY <2>1, <3>1
  <2>3. PICK least \in T : \A m \in T : least <= m
    <3>. HIDE DEF T
    <3>. QED
      BY <2>2, LeastNatural
  <2>4. PICK i \in of : least = n - i
    OBVIOUS
  <2>5. ASSUME NEW j \in of
        PROVE j <= i
    <3>1. n - j \in T
      OBVIOUS
    <3>2. least <= n - j
      BY <2>3, <3>1
    <3>. QED
      BY <2>1, <2>4, <3>2
  <2>. QED
    BY <2>1, <2>5
<1>2. Mapping!MediaById(p, id) = p.media[CHOOSE i \in of : \A j \in of : j <= i]
  BY <1>1 DEF Mapping!MediaById
<1>3. (CHOOSE i \in of : \A j \in of : j <= i) \in of
  <2>. HIDE DEF of
  <2>. QED
    BY <1>1
<1>. QED
  BY <1>2, <1>3 DEF Mapping!ToSet

\* Names that repeat are fewer than there are ads.
LEMMA RepeatedAreFewer ==
  ASSUME NEW n \in Nat, NEW f, DOMAIN f = 1..n,
         NEW i \in 1..n, NEW j \in 1..n, i # j, f[i] = f[j]
  PROVE Cardinality({f[k] : k \in 1..n}) < n
<1> DEFINE T == {f[k] : k \in 1..n}
           g == [k \in 1..n |-> f[k]]
<1>1. g \in Surjection(1..n, T)
  BY DEF Surjection
<1>2. g \notin Injection(1..n, T)
  BY DEF Injection, IsInjective
<1>3. IsFiniteSet(1..n) /\ Cardinality(1..n) = n
  BY FS_Interval
<1>4. IsFiniteSet(T) /\ Cardinality(T) <= n /\ Cardinality(T) # n
  <2>. HIDE DEF g, T
  <2>. QED
    BY <1>1, <1>2, <1>3, FS_Surjection
<1>. QED
  BY <1>4, FS_CardinalityType

\* A package that is mapped keeps what it says: each ad its text and its image, the budget
\* the closest amount, and issues are told only of what a package says twice, for any number of
\* ads and media.
THEOREM PackagesAreKept ==
  MappingAssumptions =>
    (Mapping!Spec => [](/\ Mapping!AdsKeepTheirImage /\ Mapping!BudgetIsClosest
                        /\ Mapping!IssuesAreExplained))
<1> DEFINE Says == /\ Mapping!AdsKeepTheirImage /\ Mapping!BudgetIsClosest
                   /\ Mapping!IssuesAreExplained
<1>. SUFFICES ASSUME MappingAssumptions
              PROVE Mapping!Spec => []Says
  OBVIOUS
<1>1. Mapping!Init => MappingInvariant
  BY DEF Mapping!Init, MappingInvariant
<1>2. MappingInvariant /\ [Mapping!Next]_Mapping!vars => MappingInvariant'
  BY MappingKeepsInvariant
<1>3. ASSUME MappingInvariant
      PROVE Says
  <2>1. ASSUME stage \in {"mapped", "stored"}
        PROVE /\ Len(inputs.assets) = Len(mappingPackage.ads)
              /\ Len(inputs.copies) = Len(mappingPackage.ads)
              /\ DOMAIN inputs.copies = 1..Len(mappingPackage.ads)
              /\ DOMAIN inputs.assets = 1..Len(mappingPackage.ads)
              /\ \A i \in 1..Len(mappingPackage.ads) :
                   /\ inputs.copies[i].id = mappingPackage.ads[i].ref
                   /\ inputs.assets[i] \in Mapping!ToSet(mappingPackage.media)
                   /\ inputs.assets[i].id = mappingPackage.ads[i].media
    <3>. PICK p \in Mapping!Package : p = mappingPackage
      BY <1>3 DEF MappingInvariant
    <3>1. /\ Mapping!Valid(p) /\ inputs.copies = Mapping!CopiesOf(p)
          /\ inputs.assets = Mapping!AssetsOf(p)
      BY <1>3, <2>1 DEF MappingInvariant
    <3>2. /\ p.ads \in Seq(Mapping!Ad) /\ p.media \in Seq(Mapping!Media)
          /\ DOMAIN p.ads = 1..Len(p.ads) /\ Len(p.ads) \in Nat
      <4>1. p.ads \in Seq(Mapping!Ad) /\ p.media \in Seq(Mapping!Media)
        BY <3>1, ValidAds
      <4>. QED
        BY <4>1
    <3>3. /\ inputs.copies = [i \in 1..Len(p.ads) |-> [id |-> p.ads[i].ref, text |-> p.ads[i].text]]
          /\ inputs.assets = [i \in 1..Len(p.ads) |-> Mapping!MediaById(p, p.ads[i].media)]
      BY <3>1, <3>2 DEF Mapping!CopiesOf, Mapping!AssetsOf
    <3>4. \A i \in 1..Len(p.ads) :
            /\ Mapping!MediaById(p, p.ads[i].media) \in Mapping!ToSet(p.media)
            /\ Mapping!MediaById(p, p.ads[i].media).id = p.ads[i].media
      <4>1. \A i \in 1..Len(p.ads) : \E j \in 1..Len(p.media) : p.media[j].id = p.ads[i].media
        BY <3>1, ValidAds
      <4>. QED
        BY <3>2, <4>1, MediaHasItsId
    <3>5. \A i \in 1..Len(p.ads) :
            /\ inputs.copies[i].id = p.ads[i].ref
            /\ inputs.assets[i] = Mapping!MediaById(p, p.ads[i].media)
      BY <3>3
    <3>. QED
      BY <3>2, <3>3, <3>4, <3>5
  <2>2. ASSUME stage \in {"mapped", "stored"}
        PROVE /\ mappingPackage.ads \in Seq(Mapping!Ad) /\ Len(mappingPackage.ads) \in Nat
              /\ DOMAIN mappingPackage.ads = 1..Len(mappingPackage.ads)
              /\ \A i, j \in 1..Len(mappingPackage.ads) :
                   mappingPackage.ads[i].ref = mappingPackage.ads[j].ref => i = j
    <3>. PICK p \in Mapping!Package : p = mappingPackage
      BY <1>3 DEF MappingInvariant
    <3>1. Mapping!Valid(p)
      BY <1>3, <2>2 DEF MappingInvariant
    <3>2. /\ p.ads \in Seq(Mapping!Ad)
          /\ \A i, j \in 1..Len(p.ads) : p.ads[i].ref = p.ads[j].ref => i = j
      BY <3>1, ValidAds
    <3>. QED
      BY <3>2
  <2>3. Mapping!AdsKeepTheirImage
    BY <2>1, <2>2 DEF Mapping!AdsKeepTheirImage
  <2>4. Mapping!BudgetIsClosest
    <3>. SUFFICES ASSUME stage \in {"mapped", "stored"}
                  PROVE /\ 10 * inputs.amount - mappingPackage.amount <= 5
                        /\ mappingPackage.amount - 10 * inputs.amount <= 5
      BY DEF Mapping!BudgetIsClosest
    <3>1. /\ mappingPackage.amount \in Int
          /\ \/ inputs.amount = (mappingPackage.amount + 4) \div 10
             \/ inputs.amount = (mappingPackage.amount + 5) \div 10
      BY <1>3 DEF MappingInvariant, Mapping!MinorUnits, Mapping!Package, MappingAssumptions,
                  Mapping!NumberAssumption
    <3>. QED
      BY <3>1
  <2>5. Mapping!IssuesAreExplained
    <3>. SUFFICES ASSUME stage = "stored", "duplicate_item_identifier" \in issues
                  PROVE \/ Mapping!Cardinality({mappingPackage.ads[i].media :
                                               i \in DOMAIN mappingPackage.ads})
                             < Len(mappingPackage.ads)
                        \/ \E i, j \in DOMAIN mappingPackage.ads :
                             mappingPackage.ads[i].ref = mappingPackage.ads[j].media
      BY DEF Mapping!IssuesAreExplained
    <3>. PICK ads : ads = mappingPackage.ads
      OBVIOUS
    <3>. PICK n \in Nat : n = Len(ads)
      BY <2>2
    <3> DEFINE refs == Mapping!Names(inputs.copies)
               files == Mapping!Names(inputs.assets)
    <3>1. /\ ads \in Seq(Mapping!Ad) /\ DOMAIN ads = 1..n
          /\ \A i, j \in 1..n : ads[i].ref = ads[j].ref => i = j
      BY <2>2
    <3>2. /\ refs = [i \in 1..n |-> ads[i].ref] /\ files = [i \in 1..n |-> ads[i].media]
      BY <2>1 DEF Mapping!Names
    <3>3. ~Mapping!IsInjective(refs \o files)
      <4>1. "duplicate_item_identifier" \in Mapping!Issues(inputs.copies, inputs.assets)
        BY <1>3 DEF MappingInvariant
      <4>. QED
        BY <4>1 DEF Mapping!Issues, Mapping!If
    <3>4. refs \in Seq(AdRefs) /\ files \in Seq(MediaIds) /\ Len(refs) = n /\ Len(files) = n
      <4>1. \A i \in 1..n : ads[i].ref \in AdRefs /\ ads[i].media \in MediaIds
        <5>1. \A i \in 1..n : ads[i] \in Mapping!Ad
          BY <3>1
        <5>. QED
          BY <5>1 DEF Mapping!Ad
      <4>. QED
        BY <3>2, <4>1, SeqDef
    <3>. HIDE DEF refs, files
    <3>5. /\ DOMAIN (refs \o files) = 1..(n + n)
          /\ \A k \in 1..(n + n) : (refs \o files)[k] = IF k <= n THEN refs[k] ELSE files[k - n]
      <4>. PICK S : S = AdRefs \cup MediaIds
        OBVIOUS
      <4>1. refs \in Seq(S) /\ files \in Seq(S)
        BY <3>4
      <4>. QED
        BY <3>4, <4>1
    <3>6. PICK a \in 1..(n + n), b \in 1..(n + n) :
            a # b /\ a < b /\ (refs \o files)[a] = (refs \o files)[b]
      BY <3>3, <3>5 DEF Mapping!IsInjective
    <3>7. CASE b <= n
      BY <3>1, <3>2, <3>5, <3>6, <3>7
    <3>8. CASE a <= n /\ n < b
      <4>1. b - n \in 1..n /\ a \in 1..n /\ ads[a].ref = ads[b - n].media
        BY <3>2, <3>5, <3>6, <3>8
      <4>. QED
        BY <3>1, <4>1
    <3>9. CASE n < a
      <4>1. a - n \in 1..n /\ b - n \in 1..n /\ a - n # b - n /\ files[a - n] = files[b - n]
        BY <3>5, <3>6, <3>9
      <4>2. DOMAIN files = 1..n
        BY <3>2
      <4>3. Cardinality({files[k] : k \in 1..n}) < n
        BY <4>1, <4>2, RepeatedAreFewer
      <4>4. {files[k] : k \in 1..n}
              = {mappingPackage.ads[i].media : i \in DOMAIN mappingPackage.ads}
        BY <3>1, <3>2
      <4>5. \A S : Mapping!Cardinality(S) = Cardinality(S)
        BY DEF Mapping!Cardinality, Cardinality
      <4>. QED
        BY <4>3, <4>4, <4>5
    <3>. QED
      BY <3>6, <3>7, <3>8, <3>9
  <2>. QED
    BY <2>3, <2>4, <2>5
<1>. QED
  BY <1>1, <1>2, <1>3, PTL DEF Mapping!Spec

-----------------------------------------------------------------------------
(* The items of a list that are selected.                                 *)

CONSTANTS
  Amounts, Days, Precision, Copies, Assets, Claims, Fields, MaxItems   \* those of PlanObjects

VARIABLES
  objectsPlan, objectsPackage, objectsManifest

Objects == INSTANCE PlanObjects WITH
  Checks <- Fields, plan <- objectsPlan, package <- objectsPackage, manifest <- objectsManifest

\* The items of t are those of the first n of s that are in S, in their order: f has their
\* places.
SelectsBy(t, f, s, S, n) ==
  /\ f \in [1..Len(t) -> 1..n]
  /\ \A k \in 1..Len(t) : t[k] = s[f[k]]
  /\ \A k, l \in 1..Len(t) : k < l => f[k] < f[l]
  /\ \A i \in 1..n : s[i] \in S <=> \E k \in 1..Len(t) : f[k] = i

IsSelection(t, s, S, n) == \E f : SelectsBy(t, f, s, S, n)

LEMMA SelectionGrows ==
  ASSUME NEW X, NEW s \in Seq(X), NEW S, NEW n \in Nat, n < Len(s),
         NEW t \in Seq(X), IsSelection(t, s, S, n)
  PROVE IsSelection(IF s[n + 1] \in S THEN Append(t, s[n + 1]) ELSE t, s, S, n + 1)
<1>. PICK m \in Nat : m = Len(t)
  OBVIOUS
<1>1. PICK f : SelectsBy(t, f, s, S, n)
  BY DEF IsSelection
<1>2. /\ f \in [1..m -> 1..n]
      /\ \A k \in 1..m : t[k] = s[f[k]]
      /\ \A k, l \in 1..m : k < l => f[k] < f[l]
      /\ \A i \in 1..n : s[i] \in S <=> \E k \in 1..m : f[k] = i
  BY <1>1 DEF SelectsBy
<1>3. CASE s[n + 1] \in S
  <2> DEFINE g == [k \in 1..(m + 1) |-> IF k = m + 1 THEN n + 1 ELSE f[k]]
             u == Append(t, s[n + 1])
  <2>1. s[n + 1] \in X
    OBVIOUS
  <2>2. Len(u) = m + 1 /\ u[m + 1] = s[n + 1] /\ \A k \in 1..m : u[k] = t[k]
    BY <2>1, AppendProperties
  <2>. HIDE DEF u
  <2>3. g \in [1..(m + 1) -> 1..(n + 1)] /\ \A k \in 1..(m + 1) : u[k] = s[g[k]]
    BY <1>2, <2>2
  <2>4. ASSUME NEW k \in 1..(m + 1), NEW l \in 1..(m + 1), k < l
        PROVE g[k] < g[l]
    <3>1. k \in 1..m /\ g[k] = f[k] /\ f[k] \in 1..n
      BY <1>2, <2>4
    <3>2. CASE l = m + 1
      BY <3>1, <3>2
    <3>3. CASE l # m + 1
      <4>1. l \in 1..m /\ g[l] = f[l]
        BY <3>3
      <4>. QED
        BY <1>2, <2>4, <3>1, <4>1
    <3>. QED
      BY <3>2, <3>3
  <2>5. ASSUME NEW i \in 1..(n + 1)
        PROVE s[i] \in S <=> \E k \in 1..(m + 1) : g[k] = i
    <3>1. CASE i = n + 1
      <4>1. m + 1 \in 1..(m + 1) /\ g[m + 1] = n + 1
        OBVIOUS
      <4>. QED
        BY <1>3, <3>1, <4>1
    <3>2. CASE i # n + 1
      <4>1. i \in 1..n /\ \A k \in 1..m : k \in 1..(m + 1) /\ g[k] = f[k]
        BY <3>2
      <4>2. \A k \in 1..(m + 1) : g[k] = i => k \in 1..m
        BY <3>2
      <4>. QED
        BY <1>2, <4>1, <4>2
    <3>. QED
      BY <3>1, <3>2
  <2>. HIDE DEF g
  <2>6. SelectsBy(u, g, s, S, n + 1)
    BY <2>2, <2>3, <2>4, <2>5 DEF SelectsBy
  <2>. QED
    BY <1>3, <2>6 DEF IsSelection, u
<1>4. CASE s[n + 1] \notin S
  <2>1. f \in [1..m -> 1..(n + 1)] /\ \A i \in 1..n : i # n + 1
    BY <1>2
  <2>2. \A i \in 1..(n + 1) : s[i] \in S <=> \E k \in 1..m : f[k] = i
    BY <1>2, <1>4, <2>1
  <2>3. SelectsBy(t, f, s, S, n + 1)
    BY <1>2, <2>1, <2>2 DEF SelectsBy
  <2>. QED
    BY <1>4, <2>3 DEF IsSelection
<1>. QED
  BY <1>3, <1>4

LEMMA OnlySelects ==
  ASSUME NEW X, NEW s \in Seq(X), NEW S
  PROVE Objects!Only(s, S) \in Seq(X) /\ IsSelection(Objects!Only(s, S), s, S, Len(s))
<1> DEFINE Y == Seq(X)
           next(t, i) == IF i \in S THEN Append(t, i) ELSE t
           step == [n \in Nat |-> [t \in Y |-> IF n < Len(s) THEN next(t, s[n + 1]) ELSE t]]
           body(k) == [n \in 0..Len(s) |->
                         IF n = 0 THEN <<>>
                         ELSE IF s[n] \in S THEN Append(k[n - 1], s[n]) ELSE k[n - 1]]
<1>1. <<>> \in Y /\ \A n \in Nat : n < Len(s) => s[n + 1] \in X
  BY EmptySeq
<1>2. ASSUME NEW t \in Y, NEW i \in X
      PROVE next(t, i) \in Y
  BY AppendProperties
<1>3. step \in [Nat -> [Y -> Y]]
  <2>. HIDE DEF Y, next
  <2>. QED
    BY <1>1, <1>2
<1>4. PICK f \in [Nat -> Y] : f[0] = <<>> /\ \A n \in Nat : f[n + 1] = step[n][f[n]]
  <2>1. <<>> \in Y /\ step \in [Nat -> [Y -> Y]]
    BY <1>1, <1>3
  <2>2. IsRecursive(Y, <<>>, step)
    <3>. HIDE DEF Y, step
    <3>. QED
      BY <2>1, RecursionIsDefined
  <2>. QED
    BY <2>2 DEF IsRecursive
<1> DEFINE k == [n \in 0..Len(s) |-> f[n]]
<1>5. k = body(k)
  <2>1. Len(s) \in Nat
    OBVIOUS
  <2>2. ASSUME NEW n \in 0..Len(s), n # 0
        PROVE k[n] = next(k[n - 1], s[n])
    <3>1. n - 1 \in Nat /\ (n - 1) + 1 = n /\ n - 1 < Len(s) /\ n - 1 \in 0..Len(s)
      BY <2>1, <2>2
    <3>2. f[n - 1] \in Y
      BY <3>1
    <3>. HIDE DEF Y, next
    <3>3. f[n] = step[n - 1][f[n - 1]]
      BY <1>4, <3>1
    <3>. QED
      BY <3>1, <3>2, <3>3
  <2>3. k[0] = <<>>
    BY <1>4, <2>1
  <2>. HIDE DEF k
  <2>4. k = [n \in 0..Len(s) |-> k[n]]
    BY DEF k
  <2>5. [n \in 0..Len(s) |-> k[n]] = body(k)
    BY <2>2, <2>3
  <2>. QED
    BY <2>4, <2>5
<1>6. PICK kept : kept = body(kept) /\ Objects!Only(s, S) = kept[Len(s)]
  <2>. HIDE DEF k
  <2>. QED
    BY <1>5 DEF Objects!Only
<1> DEFINE A == {n \in Nat : n <= Len(s) => kept[n] \in Y /\ IsSelection(kept[n], s, S, n)}
<1>7. 0 \in A
  <2>1. kept[0] = <<>>
    BY <1>6
  <2> DEFINE f0 == [j \in 1..0 |-> j]
  <2>2. SelectsBy(<<>>, f0, s, S, 0)
    BY DEF SelectsBy
  <2>. QED
    BY <1>1, <2>1, <2>2 DEF IsSelection
<1>8. ASSUME NEW n \in Nat, n \in A
      PROVE n + 1 \in A
  <2>. SUFFICES ASSUME n + 1 <= Len(s)
                PROVE kept[n + 1] \in Y /\ IsSelection(kept[n + 1], s, S, n + 1)
    OBVIOUS
  <2>1. kept[n + 1] = next(kept[n], s[n + 1]) /\ kept[n] \in Y /\ IsSelection(kept[n], s, S, n)
    <3>1. n + 1 \in 0..Len(s) /\ n + 1 # 0 /\ (n + 1) - 1 = n /\ n <= Len(s)
      OBVIOUS
    <3>. HIDE DEF Y
    <3>. QED
      BY <1>6, <1>8, <3>1
  <2>2. n < Len(s) /\ s[n + 1] \in X
    OBVIOUS
  <2>3. kept[n + 1] \in Y
    <3>. HIDE DEF Y, next
    <3>. QED
      BY <1>2, <2>1, <2>2
  <2>4. IsSelection(next(kept[n], s[n + 1]), s, S, n + 1)
    BY <2>1, <2>2, SelectionGrows
  <2>. QED
    BY <2>1, <2>3, <2>4
<1>9. Len(s) \in A
  <2>. HIDE DEF A
  <2>1. Nat \subseteq A
    BY <1>7, <1>8, Induction
  <2>. QED
    BY <2>1
<1>. QED
  BY <1>6, <1>9

\* A strictly increasing enumeration of 1..n is 1, 2, ..., n.
IsIncreasing(h, m, n) ==
  /\ h \in [1..m -> 1..n] /\ \A k, l \in 1..m : k < l => h[k] < h[l]
  /\ \A i \in 1..n : \E k \in 1..m : h[k] = i

IsIdentity(h, m, n) == m = n /\ \A k \in 1..m : h[k] = k

LEMMA IncreasingIsIdentity ==
  ASSUME NEW m \in Nat, NEW n \in Nat, NEW h, IsIncreasing(h, m, n)
  PROVE IsIdentity(h, m, n)
<1>. /\ h \in [1..m -> 1..n] /\ \A k, l \in 1..m : k < l => h[k] < h[l]
     /\ \A i \in 1..n : \E k \in 1..m : h[k] = i
  BY DEF IsIncreasing
<1>1. ASSUME NEW k \in 1..m, \A j \in 1..m : j < k => h[j] = j
      PROVE h[k] = k
  <2>1. h[k] >= k
    <3>1. CASE k = 1
      BY <3>1
    <3>2. CASE k # 1
      <4>1. k - 1 \in 1..m /\ k - 1 < k
        BY <3>2
      <4>. QED
        BY <1>1, <4>1
    <3>. QED
      BY <3>1, <3>2
  <2>2. ASSUME h[k] > k
        PROVE FALSE
    <3>1. PICK j \in 1..m : h[j] = k
      BY <2>2
    <3>. QED
      BY <1>1, <2>2, <3>1
  <2>. QED
    BY <2>1, <2>2
<1> DEFINE T == {k \in 1..m : h[k] # k}
<1>2. T = {}
  <2>. SUFFICES ASSUME T # {}
                PROVE FALSE
    OBVIOUS
  <2>1. PICK k \in T : \A i \in T : k <= i
    <3>1. T \in SUBSET Nat
      OBVIOUS
    <3>. HIDE DEF T
    <3>. QED
      BY <3>1, LeastNatural
  <2>2. k \in 1..m /\ h[k] # k /\ \A j \in 1..m : j < k => h[j] = j
    BY <2>1
  <2>. QED
    BY <1>1, <2>2
<1>3. \A k \in 1..m : h[k] = k
  BY <1>2
<1>4. m <= n
  BY <1>3
<1>5. n <= m
  BY <1>3
<1>. QED
  BY <1>3, <1>4, <1>5 DEF IsIdentity

-----------------------------------------------------------------------------
(* The order of a plan's objects.                                          *)

CreativeOf(i, review, variant) ==
  [id |-> Objects!Creative(i), type |-> "creative", dependsOn |-> <<>>,
   review |-> review, variant |-> variant]

\* The objects of a plan: a campaign, an ad set, and n creatives, each with its ad, that are
\* numbered from 1 - from on.
IsPlanOf(objects, n, from) ==
  /\ objects = [i \in 1..(2 * n + 2) |-> objects[i]]
  /\ objects[1] = Objects!Object(Objects!Campaign, "campaign", <<>>)
  /\ objects[2] = Objects!Object(Objects!AdSet, "ad_set", <<Objects!Campaign>>)
  /\ \A j \in 1..n :
       /\ objects[2 * j + 1] =
            CreativeOf(j - from, objects[2 * j + 1].review, objects[2 * j + 1].variant)
       /\ objects[2 * j + 2] = Objects!Object(Objects!Ad(j - from), "ad",
                                              <<Objects!AdSet, Objects!Creative(j - from)>>)

\* What there is at a place of a plan, and the level of the dry run that it is created in.
Level(i) == IF i = 2 THEN 2 ELSE IF i % 2 = 1 THEN 1 ELSE 3
TypeAt(i) == IF i = 1 THEN "campaign" ELSE IF i = 2 THEN "ad_set"
             ELSE IF i % 2 = 1 THEN "creative" ELSE "ad"
IdAt(i, from) ==
  IF i = 1 THEN Objects!Campaign ELSE IF i = 2 THEN Objects!AdSet
  ELSE IF i % 2 = 1 THEN Objects!Creative((i - 1) \div 2 - from)
  ELSE Objects!Ad((i - 2) \div 2 - from)
NeededAt(i) == IF Level(i) = 1 THEN {} ELSE IF i = 2 THEN {1} ELSE {2, i - 1}

Before(i, j) == Level(i) < Level(j) \/ (Level(i) = Level(j) /\ i < j)

\* The places of a plan.
LEMMA Places ==
  ASSUME NEW n \in Nat, NEW i \in 1..(2 * n + 2)
  PROVE i = 1 \/ i = 2 \/ \E j \in 1..n : i = 2 * j + 1 \/ i = 2 * j + 2
<1>. SUFFICES ASSUME i # 1, i # 2
              PROVE \E j \in 1..n : i = 2 * j + 1 \/ i = 2 * j + 2
  OBVIOUS
<1> DEFINE j == (i - 1) \div 2
<1>1. j \in Int /\ 2 * j <= i - 1 /\ i - 1 < 2 * j + 2
  OBVIOUS
<1>. HIDE DEF j
<1>2. j \in 1..n /\ (i = 2 * j + 1 \/ i = 2 * j + 2)
  BY <1>1
<1>. QED
  BY <1>2

LEMMA AtTheBeginning ==
  ASSUME NEW from
  PROVE /\ Level(1) = 1 /\ TypeAt(1) = "campaign" /\ NeededAt(1) = {}
        /\ Level(2) = 2 /\ TypeAt(2) = "ad_set" /\ NeededAt(2) = {1}
        /\ IdAt(1, from) = Objects!Campaign /\ IdAt(2, from) = Objects!AdSet
  BY DEF Level, TypeAt, IdAt, NeededAt

\* The j-th creative and its ad.
IsPairAt(j, from) ==
  /\ Level(2 * j + 1) = 1 /\ TypeAt(2 * j + 1) = "creative" /\ NeededAt(2 * j + 1) = {}
  /\ Level(2 * j + 2) = 3 /\ TypeAt(2 * j + 2) = "ad" /\ NeededAt(2 * j + 2) = {2, 2 * j + 1}
  /\ IdAt(2 * j + 1, from) = Objects!Creative(j - from)
  /\ IdAt(2 * j + 2, from) = Objects!Ad(j - from)

LEMMA AtPairs ==
  ASSUME NEW j \in Nat, j > 0, NEW from
  PROVE IsPairAt(j, from)
<1>1. /\ (2 * j + 1) % 2 = 1 /\ (2 * j + 2) % 2 = 0
      /\ ((2 * j + 1) - 1) \div 2 = j /\ ((2 * j + 2) - 2) \div 2 = j
      /\ 2 * j + 1 # 1 /\ 2 * j + 1 # 2 /\ 2 * j + 2 # 1 /\ 2 * j + 2 # 2
      /\ (2 * j + 2) - 1 = 2 * j + 1
  OBVIOUS
<1>. QED
  BY <1>1 DEF Level, TypeAt, IdAt, NeededAt, IsPairAt

\* What the i-th object of a plan is and depends on.
IsItemAt(objects, i, n, from) ==
  /\ objects[i].id = IdAt(i, from) /\ objects[i].type = TypeAt(i)
  /\ Objects!Range(objects[i].dependsOn) = {IdAt(d, from) : d \in NeededAt(i)}
  /\ NeededAt(i) \subseteq 1..(2 * n + 2)

LEMMA PlanItems ==
  ASSUME NEW n \in Nat, NEW from \in {0, 1}, NEW objects, IsPlanOf(objects, n, from),
         NEW i \in 1..(2 * n + 2)
  PROVE IsItemAt(objects, i, n, from)
<1>1. /\ Objects!Range(<<>>) = {}
      /\ \A x, y : Objects!Range(<<x>>) = {x} /\ Objects!Range(<<x, y>>) = {x, y}
  BY DEF Objects!Range
<1>2. CASE i = 1
  <2>1. /\ objects[i].id = Objects!Campaign /\ objects[i].type = "campaign"
        /\ objects[i].dependsOn = <<>>
    BY <1>2 DEF IsPlanOf, Objects!Object
  <2>. QED
    BY <1>1, <1>2, <2>1, AtTheBeginning DEF IsItemAt
<1>3. CASE i = 2
  <2>1. /\ objects[i].id = Objects!AdSet /\ objects[i].type = "ad_set"
        /\ objects[i].dependsOn = <<Objects!Campaign>>
    BY <1>3 DEF IsPlanOf, Objects!Object
  <2>2. {IdAt(d, from) : d \in {1}} = {Objects!Campaign}
    BY AtTheBeginning
  <2>. QED
    BY <1>1, <1>3, <2>1, <2>2, AtTheBeginning DEF IsItemAt
<1>4. ASSUME NEW j \in 1..n, i = 2 * j + 1
      PROVE IsItemAt(objects, i, n, from)
  <2>1. objects[i] = CreativeOf(j - from, objects[i].review, objects[i].variant)
    BY <1>4 DEF IsPlanOf
  <2>2. /\ objects[i].id = Objects!Creative(j - from) /\ objects[i].type = "creative"
        /\ objects[i].dependsOn = <<>>
    BY <2>1 DEF CreativeOf
  <2>3. IdAt(i, from) = Objects!Creative(j - from) /\ TypeAt(i) = "creative" /\ NeededAt(i) = {}
    <3>1. IsPairAt(j, from)
      BY <1>4, AtPairs
    <3>. QED
      BY <1>4, <3>1 DEF IsPairAt
  <2>. QED
    BY <1>1, <2>2, <2>3 DEF IsItemAt
<1>5. ASSUME NEW j \in 1..n, i = 2 * j + 2
      PROVE IsItemAt(objects, i, n, from)
  <2>1. objects[i] = Objects!Object(Objects!Ad(j - from), "ad",
                                    <<Objects!AdSet, Objects!Creative(j - from)>>)
    BY <1>5 DEF IsPlanOf
  <2>2. /\ objects[i].id = Objects!Ad(j - from) /\ objects[i].type = "ad"
        /\ objects[i].dependsOn = <<Objects!AdSet, Objects!Creative(j - from)>>
    BY <2>1 DEF Objects!Object
  <2>3. IdAt(i, from) = Objects!Ad(j - from) /\ TypeAt(i) = "ad" /\ NeededAt(i) = {2, 2 * j + 1}
    <3>1. IsPairAt(j, from)
      BY <1>5, AtPairs
    <3>. QED
      BY <1>5, <3>1 DEF IsPairAt
  <2>4. IdAt(2, from) = Objects!AdSet /\ IdAt(2 * j + 1, from) = Objects!Creative(j - from)
    <3>1. IsPairAt(j, from)
      BY <1>5, AtPairs
    <3>. QED
      BY <3>1, AtTheBeginning DEF IsPairAt
  <2>5. 2 * j + 1 \in 1..(2 * n + 2) /\ 2 \in 1..(2 * n + 2)
    OBVIOUS
  <2>6. {IdAt(d, from) : d \in {2, 2 * j + 1}} = {Objects!AdSet, Objects!Creative(j - from)}
    BY <2>4
  <2>. QED
    BY <1>1, <2>2, <2>3, <2>5, <2>6 DEF IsItemAt
<1>. QED
  BY <1>2, <1>3, <1>4, <1>5, Places

\* No two places have the same object.
LEMMA IdsDiffer ==
  ASSUME NEW n \in Nat, NEW from \in {0, 1},
         NEW a \in 1..(2 * n + 2), NEW b \in 1..(2 * n + 2), IdAt(a, from) = IdAt(b, from)
  PROVE a = b
<1>1. \A i, j \in Int : /\ Objects!Creative(i) = Objects!Creative(j) => i = j
                        /\ Objects!Ad(i) = Objects!Ad(j) => i = j
                        /\ Objects!Ad(i) # Objects!Creative(j)
                        /\ Objects!Ad(i) # Objects!Campaign /\ Objects!Ad(i) # Objects!AdSet
                        /\ Objects!Creative(i) # Objects!Campaign
                        /\ Objects!Creative(i) # Objects!AdSet
                        /\ Objects!AdSet # Objects!Campaign
  BY DEF Objects!Creative, Objects!Ad, Objects!Campaign, Objects!AdSet
<1>2. IdAt(1, from) = Objects!Campaign /\ IdAt(2, from) = Objects!AdSet
  BY AtTheBeginning
<1>3. \A j \in 1..n : /\ IdAt(2 * j + 1, from) = Objects!Creative(j - from)
                      /\ IdAt(2 * j + 2, from) = Objects!Ad(j - from)
                      /\ j - from \in Int
  <2>1. \A j \in 1..n : IsPairAt(j, from) /\ j - from \in Int
    BY AtPairs
  <2>. QED
    BY <2>1 DEF IsPairAt
<1>4. CASE a \in {1, 2} /\ b \in {1, 2}
  BY <1>1, <1>2, <1>4
<1>5. ASSUME a \in {1, 2}, NEW j \in 1..n, b = 2 * j + 1 \/ b = 2 * j + 2
      PROVE FALSE
  BY <1>1, <1>2, <1>3, <1>5
<1>6. ASSUME b \in {1, 2}, NEW j \in 1..n, a = 2 * j + 1 \/ a = 2 * j + 2
      PROVE FALSE
  BY <1>1, <1>2, <1>3, <1>6
<1>7. ASSUME NEW i \in 1..n, a = 2 * i + 1 \/ a = 2 * i + 2,
             NEW j \in 1..n, b = 2 * j + 1 \/ b = 2 * j + 2
      PROVE a = b
  <2>1. i - from = j - from => i = j
    OBVIOUS
  <2>. QED
    BY <1>1, <1>3, <1>7, <2>1
<1>. QED
  BY <1>4, <1>5, <1>6, <1>7, Places

\* t has the objects of one level, in the order of the plan; f has their places.
HasLevel(t, f, objects, size, level) ==
  /\ f \in [1..Len(t) -> 1..size]
  /\ \A k \in 1..Len(t) : t[k] = objects[f[k]]
  /\ \A k, l \in 1..Len(t) : k < l => f[k] < f[l]
  /\ \A i \in 1..size : Level(i) = level <=> \E k \in 1..Len(t) : f[k] = i

\* t has all the objects, level by level; g has their places.
IsOrdered(t, g, objects, size) ==
  /\ Len(t) = size /\ g \in [1..size -> 1..size]
  /\ \A k \in 1..size : t[k] = objects[g[k]]
  /\ \A k, l \in 1..size : k < l => Before(g[k], g[l])
  /\ \A i \in 1..size : \E k \in 1..size : g[k] = i

LEMMA LevelsAreOrdered ==
  ASSUME NEW X, NEW t1 \in Seq(X), NEW t2 \in Seq(X), NEW t3 \in Seq(X),
         NEW size \in Nat, NEW objects,
         NEW f1, HasLevel(t1, f1, objects, size, 1), NEW f2, HasLevel(t2, f2, objects, size, 2),
         NEW f3, HasLevel(t3, f3, objects, size, 3)
  PROVE \E g : IsOrdered((t1 \o t2) \o t3, g, objects, size)
<1>. PICK a \in Nat, b \in Nat, c \in Nat : a = Len(t1) /\ b = Len(t2) /\ c = Len(t3)
  OBVIOUS
<1> DEFINE t == (t1 \o t2) \o t3
           g == [k \in 1..(a + b + c) |-> IF k <= a THEN f1[k]
                                          ELSE IF k <= a + b THEN f2[k - a] ELSE f3[k - (a + b)]]
<1>1. /\ t \in Seq(X) /\ Len(t) = a + b + c
      /\ \A k \in 1..(a + b + c) : t[k] = IF k <= a THEN t1[k]
                                         ELSE IF k <= a + b THEN t2[k - a] ELSE t3[k - (a + b)]
  <2>. PICK u \in Seq(X) : u = t1 \o t2
    BY ConcatProperties
  <2>1. Len(u) = a + b /\ \A k \in 1..(a + b) : u[k] = IF k <= a THEN t1[k] ELSE t2[k - a]
    BY ConcatProperties
  <2>2. /\ u \o t3 \in Seq(X) /\ Len(u \o t3) = a + b + c
        /\ \A k \in 1..(a + b + c) : (u \o t3)[k] = IF k <= a + b THEN u[k] ELSE t3[k - (a + b)]
    BY <2>1, ConcatProperties
  <2>. QED
    BY <2>1, <2>2
<1>. HIDE DEF t
<1>9. /\ \A k \in 1..a : f1[k] \in 1..size /\ t1[k] = objects[f1[k]] /\ Level(f1[k]) = 1
      /\ \A k, l \in 1..a : k < l => f1[k] < f1[l]
  BY DEF HasLevel
<1>10. /\ \A k \in 1..b : f2[k] \in 1..size /\ t2[k] = objects[f2[k]] /\ Level(f2[k]) = 2
       /\ \A k, l \in 1..b : k < l => f2[k] < f2[l]
  BY DEF HasLevel
<1>11. /\ \A k \in 1..c : f3[k] \in 1..size /\ t3[k] = objects[f3[k]] /\ Level(f3[k]) = 3
       /\ \A k, l \in 1..c : k < l => f3[k] < f3[l]
  BY DEF HasLevel
<1>2. ASSUME NEW k \in 1..(a + b + c)
      PROVE /\ g[k] \in 1..size /\ t[k] = objects[g[k]]
            /\ Level(g[k]) = IF k <= a THEN 1 ELSE IF k <= a + b THEN 2 ELSE 3
  <2>1. CASE k <= a
    <3>1. k \in 1..a /\ g[k] = f1[k] /\ t[k] = t1[k]
      BY <1>1, <2>1
    <3>. QED
      BY <1>9, <2>1, <3>1
  <2>2. CASE a < k /\ k <= a + b
    <3>1. k - a \in 1..b /\ g[k] = f2[k - a] /\ t[k] = t2[k - a]
      BY <1>1, <2>2
    <3>. QED
      BY <1>10, <2>2, <3>1
  <2>3. CASE a + b < k
    <3>1. k - (a + b) \in 1..c /\ g[k] = f3[k - (a + b)] /\ t[k] = t3[k - (a + b)]
      BY <1>1, <2>3
    <3>. QED
      BY <1>11, <2>3, <3>1
  <2>. QED
    BY <2>1, <2>2, <2>3
<1>3. ASSUME NEW k \in 1..(a + b + c), NEW l \in 1..(a + b + c), k < l, Level(g[k]) = Level(g[l])
      PROVE g[k] < g[l]
  <2>1. CASE k <= a
    <3>1. l <= a
      <4>1. Level(g[k]) = 1 /\ Level(g[l]) = 1
        BY <1>2, <1>3, <2>1
      <4>2. l > a => Level(g[l]) # 1
        <5>1. Level(g[l]) = IF l <= a THEN 1 ELSE IF l <= a + b THEN 2 ELSE 3
          BY <1>2
        <5>. QED
          BY <5>1
      <4>. QED
        BY <4>1, <4>2
    <3>2. k \in 1..a /\ l \in 1..a /\ g[k] = f1[k] /\ g[l] = f1[l]
      BY <2>1, <3>1
    <3>. QED
      BY <1>3, <1>9, <3>2
  <2>2. CASE a < k /\ k <= a + b
    <3>1. a < l /\ l <= a + b
      <4>1. Level(g[l]) = 2
        BY <1>2, <1>3, <2>2
      <4>2. Level(g[l]) = IF l <= a THEN 1 ELSE IF l <= a + b THEN 2 ELSE 3
        BY <1>2
      <4>. QED
        BY <4>1, <4>2
    <3>2. k - a \in 1..b /\ l - a \in 1..b /\ k - a < l - a /\ g[k] = f2[k - a] /\ g[l] = f2[l - a]
      BY <1>3, <2>2, <3>1
    <3>. QED
      BY <1>10, <3>2
  <2>3. CASE a + b < k
    <3>1. /\ k - (a + b) \in 1..c /\ l - (a + b) \in 1..c /\ k - (a + b) < l - (a + b)
          /\ g[k] = f3[k - (a + b)] /\ g[l] = f3[l - (a + b)]
      BY <1>3, <2>3
    <3>. QED
      BY <1>11, <3>1
  <2>. QED
    BY <2>1, <2>2, <2>3
<1>4. ASSUME NEW k \in 1..(a + b + c), NEW l \in 1..(a + b + c), k < l
      PROVE Before(g[k], g[l])
  <2>1. Level(g[k]) < Level(g[l]) \/ Level(g[k]) = Level(g[l])
    <3>1. /\ Level(g[k]) = IF k <= a THEN 1 ELSE IF k <= a + b THEN 2 ELSE 3
          /\ Level(g[l]) = IF l <= a THEN 1 ELSE IF l <= a + b THEN 2 ELSE 3
      BY <1>2
    <3>. HIDE DEF g
    <3>. QED
      BY <1>4, <3>1
  <2>2. Level(g[k]) = Level(g[l]) => g[k] < g[l]
    BY <1>3, <1>4
  <2>. QED
    BY <2>1, <2>2 DEF Before
<1>5. ASSUME NEW i \in 1..size
      PROVE \E k \in 1..(a + b + c) : g[k] = i
  <2>1. Level(i) \in {1, 2, 3}
    BY DEF Level
  <2>2. CASE Level(i) = 1
    <3>1. PICK k \in 1..a : f1[k] = i
      BY <2>2 DEF HasLevel
    <3>2. k \in 1..(a + b + c) /\ g[k] = i
      BY <3>1
    <3>. QED
      BY <3>2
  <2>3. CASE Level(i) = 2
    <3>1. PICK k \in 1..b : f2[k] = i
      BY <2>3 DEF HasLevel
    <3>2. a + k \in 1..(a + b + c) /\ g[a + k] = i
      BY <3>1
    <3>. QED
      BY <3>2
  <2>4. CASE Level(i) = 3
    <3>1. PICK k \in 1..c : f3[k] = i
      BY <2>4 DEF HasLevel
    <3>2. a + b + k \in 1..(a + b + c) /\ g[a + b + k] = i
      BY <3>1
    <3>. QED
      BY <3>2
  <2>. QED
    BY <2>1, <2>2, <2>3, <2>4
<1>6. g \in [1..(a + b + c) -> 1..size]
  BY <1>2
<1>. HIDE DEF g
<1>7. a + b + c = size
  <2>1. \A k, l \in 1..(a + b + c) : k < l => g[k] # g[l]
    <3>1. \A i \in 1..size : ~Before(i, i)
      BY DEF Before, Level
    <3>. QED
      BY <1>4, <1>6, <3>1
  <2>2. \A k, l \in 1..(a + b + c) : g[k] = g[l] => k = l
    BY <2>1
  <2>3. g \in Bijection(1..(a + b + c), 1..size)
    BY <1>5, <1>6, <2>2 DEF Bijection, Injection, Surjection, IsInjective
  <2>4. ExistsBijection(1..(a + b + c), 1..size)
    BY <2>3 DEF ExistsBijection
  <2>5. Cardinality(1..size) = a + b + c
    <3>1. a + b + c \in Nat
      OBVIOUS
    <3>. QED
      BY <2>4, <3>1, FS_CountingElements
  <2>. QED
    BY <2>5, FS_Interval
<1>8. IsOrdered(t, g, objects, size)
  BY <1>1, <1>2, <1>4, <1>5, <1>6, <1>7 DEF IsOrdered
<1>. QED
  BY <1>8 DEF t

LEMMA RangesAreJoined ==
  ASSUME NEW X, NEW t \in Seq(X), NEW u \in Seq(X)
  PROVE Objects!Range(t \o u) = Objects!Range(t) \cup Objects!Range(u)
<1>. PICK a \in Nat, b \in Nat : a = Len(t) /\ b = Len(u)
  OBVIOUS
<1>. PICK w \in Seq(X) : w = t \o u
  BY ConcatProperties
<1>1. Len(w) = a + b /\ \A i \in 1..(a + b) : w[i] = IF i <= a THEN t[i] ELSE u[i - a]
  BY ConcatProperties
<1>2. /\ Objects!Range(w) = {w[i] : i \in 1..(a + b)}
      /\ Objects!Range(t) = {t[i] : i \in 1..a} /\ Objects!Range(u) = {u[i] : i \in 1..b}
  <2>1. DOMAIN w = 1..(a + b) /\ DOMAIN t = 1..a /\ DOMAIN u = 1..b
    BY <1>1
  <2>. QED
    BY <2>1 DEF Objects!Range
<1>3. \A i \in 1..a : i \in 1..(a + b) /\ w[i] = t[i]
  BY <1>1
<1>4. \A i \in 1..b : i + a \in 1..(a + b) /\ w[i + a] = u[i]
  BY <1>1
<1>5. \A i \in 1..(a + b) : (i \in 1..a /\ w[i] = t[i]) \/ (i - a \in 1..b /\ w[i] = u[i - a])
  BY <1>1
<1>6. Objects!Range(w) \subseteq Objects!Range(t) \cup Objects!Range(u)
  BY <1>2, <1>5
<1>7. Objects!Range(t) \subseteq Objects!Range(w) /\ Objects!Range(u) \subseteq Objects!Range(w)
  BY <1>2, <1>3, <1>4
<1>. QED
  BY <1>6, <1>7

\* What is ready once the objects of before are there.
ReadyAfter(objects, before) ==
  {o \in Objects!Range(objects) :
     o \notin Objects!Range(before) /\ Objects!Range(o.dependsOn) \subseteq Objects!Ids(before)}

\* e has what is emitted at each depth.
AreLevels(e, objects, X) ==
  /\ e \in [Nat -> Seq(X)]
  /\ Objects!Levels(objects) = e[Len(objects)]
  /\ e[0] = <<>>
  /\ \A n \in Nat : e[n + 1] = e[n] \o Objects!Only(objects, ReadyAfter(objects, e[n]))

HasAllLevels(objects, X) == \E e : AreLevels(e, objects, X)

LEMMA LevelsAreDefined ==
  ASSUME NEW X, NEW objects \in Seq(X)
  PROVE HasAllLevels(objects, X)
<1> DEFINE Y == Seq(X)
           next(t) == t \o Objects!Only(objects, ReadyAfter(objects, t))
           step == [n \in Nat |-> [t \in Y |-> next(t)]]
           body(e) == [depth \in Nat |->
                         IF depth = 0 THEN <<>>
                         ELSE LET before == e[depth - 1]
                              IN  before \o Objects!Only(objects, {o \in Objects!Range(objects) :
                                    /\ o \notin Objects!Range(before)
                                    /\ Objects!Range(o.dependsOn) \subseteq Objects!Ids(before)})]
<1>1. \A t \in Y : next(t) \in Y
  BY OnlySelects, ConcatProperties
<1>2. <<>> \in Y /\ step \in [Nat -> [Y -> Y]]
  <2>1. <<>> \in Y
    BY EmptySeq
  <2>. HIDE DEF Y, next
  <2>. QED
    BY <1>1, <2>1
<1>3. PICK e \in [Nat -> Y] : e[0] = <<>> /\ \A n \in Nat : e[n + 1] = step[n][e[n]]
  <2>1. IsRecursive(Y, <<>>, step)
    <3>. HIDE DEF Y, step
    <3>. QED
      BY <1>2, RecursionIsDefined
  <2>. QED
    BY <2>1 DEF IsRecursive
<1>4. \A n \in Nat : e[n + 1] = next(e[n])
  <2>. HIDE DEF Y, next
  <2>. QED
    BY <1>3
<1>5. e = body(e)
  <2>1. ASSUME NEW n \in Nat, n # 0
        PROVE e[n] = next(e[n - 1])
    <3>1. n - 1 \in Nat /\ (n - 1) + 1 = n
      BY <2>1
    <3>. HIDE DEF next
    <3>. QED
      BY <1>4, <3>1
  <2>2. e = [n \in Nat |-> e[n]]
    BY <1>3
  <2>3. [n \in Nat |-> e[n]] = body(e)
    BY <1>3, <2>1 DEF ReadyAfter
  <2>. QED
    BY <2>2, <2>3
<1>6. PICK emitted : emitted = body(emitted) /\ Objects!Levels(objects) = emitted[Len(objects)]
  BY <1>5 DEF Objects!Levels
<1>7. emitted[0] = <<>> /\ \A n \in Nat : emitted[n + 1] = next(emitted[n])
  <2>1. emitted[0] = <<>> /\ \A n \in Nat : n # 0 => emitted[n] = next(emitted[n - 1])
    BY <1>6 DEF ReadyAfter
  <2>2. \A n \in Nat : n + 1 \in Nat /\ n + 1 # 0 /\ (n + 1) - 1 = n
    OBVIOUS
  <2>. HIDE DEF next
  <2>. QED
    BY <2>1, <2>2
<1> DEFINE A == {n \in Nat : emitted[n] \in Y}
<1>8. Nat \subseteq A
  <2>1. 0 \in A
    BY <1>2, <1>7
  <2>2. ASSUME NEW n \in Nat, n \in A
        PROVE n + 1 \in A
    <3>1. emitted[n] \in Y /\ emitted[n + 1] = next(emitted[n])
      BY <1>7, <2>2
    <3>. HIDE DEF Y, next
    <3>. QED
      BY <1>1, <3>1
  <2>. HIDE DEF A
  <2>. QED
    BY <2>1, <2>2, Induction
<1>9. emitted \in [Nat -> Y]
  <2>1. emitted = [n \in Nat |-> emitted[n]]
    <3>. HIDE DEF Y
    <3>. QED
      BY <1>6
  <2>. QED
    BY <1>8, <2>1
<1>10. AreLevels(emitted, objects, X)
  BY <1>6, <1>7, <1>9 DEF AreLevels
<1>. QED
  BY <1>10 DEF HasAllLevels

\* t has the objects of the first levels.
HasLevels(t, objects, size, level) ==
  Objects!Range(t) = {objects[i] : i \in {i \in 1..size : Level(i) <= level}}

LEMMA ReadyIsNextLevel ==
  ASSUME NEW n \in Nat, NEW from \in {0, 1}, NEW objects, IsPlanOf(objects, n, from),
         NEW t, NEW level \in 0..3, HasLevels(t, objects, 2 * n + 2, level),
         NEW i \in 1..(2 * n + 2)
  PROVE objects[i] \in ReadyAfter(objects, t) <=> Level(i) = level + 1
<1>. PICK size \in Nat : size = 2 * n + 2
  OBVIOUS
<1>1. \A j \in 1..size : /\ objects[j].id = IdAt(j, from)
                         /\ Objects!Range(objects[j].dependsOn)
                              = {IdAt(d, from) : d \in NeededAt(j)}
                         /\ NeededAt(j) \subseteq 1..size
  <2>1. \A j \in 1..size : IsItemAt(objects, j, n, from)
    BY PlanItems
  <2>. QED
    BY <2>1 DEF IsItemAt
<1>2. \A a, b \in 1..size : IdAt(a, from) = IdAt(b, from) => a = b
  BY IdsDiffer
<1>3. objects[i] \in Objects!Range(objects)
  <2>1. DOMAIN objects = 1..size
    BY DEF IsPlanOf
  <2>. QED
    BY <2>1 DEF Objects!Range
<1>4. objects[i] \in Objects!Range(t) <=> Level(i) <= level
  BY <1>1, <1>2 DEF HasLevels
<1>5. Objects!Ids(t) = {IdAt(j, from) : j \in {j \in 1..size : Level(j) <= level}}
  BY <1>1 DEF HasLevels, Objects!Ids
<1>6. Objects!Range(objects[i].dependsOn) \subseteq Objects!Ids(t)
      <=> \A d \in NeededAt(i) : Level(d) <= level
  <2>1. \A d \in NeededAt(i) : IdAt(d, from) \in Objects!Ids(t) <=> Level(d) <= level
    BY <1>1, <1>2, <1>5
  <2>. QED
    BY <1>1, <2>1
<1>7. Level(i) > level =>
        ((\A d \in NeededAt(i) : Level(d) <= level) <=> Level(i) = level + 1)
  <2>1. CASE i = 1 \/ \E j \in 1..n : i = 2 * j + 1
    <3>1. Level(i) = 1 /\ NeededAt(i) = {}
      <4>1. \A j \in 1..n : IsPairAt(j, from)
        BY AtPairs
      <4>. QED
        BY <2>1, <4>1, AtTheBeginning DEF IsPairAt
    <3>. QED
      BY <3>1
  <2>2. CASE i = 2
    <3>1. Level(2) = 2 /\ NeededAt(2) = {1} /\ Level(1) = 1
      BY AtTheBeginning
    <3>. QED
      BY <2>2, <3>1
  <2>3. ASSUME NEW j \in 1..n, i = 2 * j + 2
        PROVE <1>7!:
    <3>1. IsPairAt(j, from)
      BY AtPairs
    <3>2. Level(i) = 3 /\ NeededAt(i) = {2, 2 * j + 1} /\ Level(2) = 2 /\ Level(2 * j + 1) = 1
      BY <2>3, <3>1, AtTheBeginning DEF IsPairAt
    <3>. QED
      BY <3>2
  <2>. QED
    BY <2>1, <2>2, <2>3, Places
<1>8. Level(i) \in 1..3
  BY DEF Level
<1>. QED
  BY <1>3, <1>4, <1>6, <1>7, <1>8 DEF ReadyAfter

\* u has one level, which t, with the lower ones, lacks.
AddsLevel(u, t, X, objects, size, level) ==
  /\ u \in Seq(X) /\ \E f : HasLevel(u, f, objects, size, level)
  /\ HasLevels(t \o u, objects, size, level)

\* What the dry run adds to the first levels is the next one.
LEMMA NextLevelIsAdded ==
  ASSUME NEW n \in Nat, NEW from \in {0, 1}, NEW X, NEW objects \in Seq(X),
         IsPlanOf(objects, n, from), NEW t \in Seq(X), NEW level \in 0..3,
         HasLevels(t, objects, 2 * n + 2, level),
         NEW u, u = Objects!Only(objects, ReadyAfter(objects, t))
  PROVE AddsLevel(u, t, X, objects, 2 * n + 2, level + 1)
<1>. PICK size \in Nat : size = 2 * n + 2
  OBVIOUS
<1>1. Len(objects) = size
  BY DEF IsPlanOf
<1>2. u \in Seq(X) /\ IsSelection(u, objects, ReadyAfter(objects, t), size)
  BY <1>1, OnlySelects
<1>3. PICK f : SelectsBy(u, f, objects, ReadyAfter(objects, t), size)
  BY <1>2 DEF IsSelection
<1>4. \A i \in 1..size : objects[i] \in ReadyAfter(objects, t) <=> Level(i) = level + 1
  BY ReadyIsNextLevel
<1>5. HasLevel(u, f, objects, size, level + 1)
  BY <1>3, <1>4 DEF SelectsBy, HasLevel
<1>6. Objects!Range(u) = {objects[i] : i \in {i \in 1..size : Level(i) = level + 1}}
  <2>. PICK m \in Nat : m = Len(u) /\ DOMAIN u = 1..m
    BY <1>2
  <2>1. /\ \A k \in 1..m : f[k] \in 1..size /\ u[k] = objects[f[k]]
        /\ \A i \in 1..size : Level(i) = level + 1 <=> \E k \in 1..m : f[k] = i
    BY <1>5 DEF HasLevel
  <2>2. Objects!Range(u) = {u[k] : k \in 1..m}
    BY DEF Objects!Range
  <2>3. \A k \in 1..m : \E i \in 1..size : Level(i) = level + 1 /\ u[k] = objects[i]
    BY <2>1
  <2>4. \A i \in 1..size : Level(i) = level + 1 => \E k \in 1..m : u[k] = objects[i]
    BY <2>1
  <2>. PICK T : T = {objects[i] : i \in {i \in 1..size : Level(i) = level + 1}}
    OBVIOUS
  <2>5. ASSUME NEW x \in Objects!Range(u)
        PROVE x \in T
    <3>1. PICK k \in 1..m : x = u[k]
      BY <2>2
    <3>2. PICK i \in 1..size : Level(i) = level + 1 /\ u[k] = objects[i]
      BY <2>3
    <3>. QED
      BY <3>1, <3>2
  <2>6. ASSUME NEW x \in T
        PROVE x \in Objects!Range(u)
    <3>1. PICK i \in 1..size : Level(i) = level + 1 /\ x = objects[i]
      OBVIOUS
    <3>2. PICK k \in 1..m : u[k] = objects[i]
      BY <2>4, <3>1
    <3>. QED
      BY <2>2, <3>1, <3>2
  <2>. QED
    BY <2>5, <2>6
<1>7. Objects!Range(t \o u) = Objects!Range(t) \cup Objects!Range(u)
  BY <1>2, RangesAreJoined
<1>8. \A i \in 1..size : Level(i) <= level + 1 <=> (Level(i) <= level \/ Level(i) = level + 1)
  BY DEF Level
<1>. QED
  <2>1. HasLevels(t \o u, objects, size, level + 1)
    BY <1>6, <1>7, <1>8 DEF HasLevels
  <2>. QED
    BY <1>2, <1>5, <2>1 DEF AddsLevel

\* The dry run has every object of a plan, level by level.
LEMMA PlanIsOrdered ==
  ASSUME NEW n \in Nat \ {0}, NEW from \in {0, 1}, NEW X, NEW objects \in Seq(X),
         IsPlanOf(objects, n, from)
  PROVE /\ Objects!Levels(objects) \in Seq(X)
        /\ \E g : IsOrdered(Objects!Levels(objects), g, objects, 2 * n + 2)
<1>. PICK size \in Nat : size = 2 * n + 2 /\ size >= 4
  OBVIOUS
<1>12. PICK e : AreLevels(e, objects, X)
  BY LevelsAreDefined DEF HasAllLevels
<1>1. /\ e \in [Nat -> Seq(X)]
      /\ Objects!Levels(objects) = e[Len(objects)]
      /\ e[0] = <<>>
      /\ \A k \in Nat : e[k + 1] = e[k] \o Objects!Only(objects, ReadyAfter(objects, e[k]))
  BY <1>12 DEF AreLevels
<1>2. Len(objects) = size
  BY DEF IsPlanOf
<1> DEFINE added(k) == Objects!Only(objects, ReadyAfter(objects, e[k]))
<1>3. HasLevels(e[0], objects, size, 0)
  <2>1. \A i \in 1..size : ~(Level(i) <= 0)
    BY DEF Level
  <2>. QED
    BY <1>1, <2>1 DEF HasLevels, Objects!Range
<1>4. ASSUME NEW k \in 0..3, HasLevels(e[k], objects, size, k)
      PROVE /\ added(k) \in Seq(X) /\ \E f : HasLevel(added(k), f, objects, size, k + 1)
            /\ HasLevels(e[k + 1], objects, size, k + 1)
  <2>1. e[k] \in Seq(X) /\ e[k + 1] = e[k] \o added(k)
    <3>1. k \in Nat
      OBVIOUS
    <3>. QED
      BY <1>1, <3>1, Zenon
  <2>. QED
    <3>1. added(k) = Objects!Only(objects, ReadyAfter(objects, e[k]))
      OBVIOUS
    <3>. HIDE DEF added
    <3>2. AddsLevel(added(k), e[k], X, objects, size, k + 1)
      BY <1>4, <2>1, <3>1, NextLevelIsAdded
    <3>. QED
      BY <2>1, <3>2 DEF AddsLevel
<1>. HIDE DEF added
<1>5. /\ HasLevels(e[1], objects, size, 1) /\ HasLevels(e[2], objects, size, 2)
      /\ HasLevels(e[3], objects, size, 3)
  <2>1. HasLevels(e[0 + 1], objects, size, 0 + 1)
    BY <1>3, <1>4
  <2>2. HasLevels(e[1 + 1], objects, size, 1 + 1)
    BY <1>4, <2>1
  <2>3. HasLevels(e[2 + 1], objects, size, 2 + 1)
    BY <1>4, <2>2
  <2>. QED
    BY <2>1, <2>2, <2>3
<1>6. /\ added(0) \in Seq(X) /\ added(1) \in Seq(X) /\ added(2) \in Seq(X) /\ added(3) \in Seq(X)
      /\ \E f : HasLevel(added(0), f, objects, size, 1)
      /\ \E f : HasLevel(added(1), f, objects, size, 2)
      /\ \E f : HasLevel(added(2), f, objects, size, 3)
      /\ \E f : HasLevel(added(3), f, objects, size, 4)
  <2>1. \E f : HasLevel(added(0), f, objects, size, 0 + 1)
    BY <1>3, <1>4
  <2>2. \E f : HasLevel(added(1), f, objects, size, 1 + 1)
    BY <1>4, <1>5
  <2>3. \E f : HasLevel(added(2), f, objects, size, 2 + 1)
    BY <1>4, <1>5
  <2>4. \E f : HasLevel(added(3), f, objects, size, 3 + 1)
    BY <1>4, <1>5
  <2>. QED
    BY <1>3, <1>4, <1>5, <2>1, <2>2, <2>3, <2>4
<1>7. e[3] = (added(0) \o added(1)) \o added(2)
  <2>1. e[0 + 1] = e[0] \o added(0) /\ e[1 + 1] = e[1] \o added(1) /\ e[2 + 1] = e[2] \o added(2)
    BY <1>1 DEF added
  <2>2. e[0] \o added(0) = added(0)
    BY <1>1, <1>6, ConcatEmptySeq
  <2>3. 0 + 1 = 1 /\ 1 + 1 = 2 /\ 2 + 1 = 3
    OBVIOUS
  <2>. QED
    BY <2>1, <2>2, <2>3, Zenon
<1>8. added(3) = <<>>
  <2>1. PICK f : HasLevel(added(3), f, objects, size, 4)
    BY <1>6
  <2>2. \A i \in 1..size : Level(i) # 4
    BY DEF Level
  <2>3. Len(added(3)) = 0
    <3>1. Len(added(3)) \in Nat /\ (Len(added(3)) # 0 => 1 \in 1..Len(added(3)))
      BY <1>6
    <3>. QED
      BY <2>1, <2>2, <3>1 DEF HasLevel
  <2>. QED
    BY <1>6, <2>3
<1> DEFINE A == {k \in Nat : e[k + 3] = e[3]}
<1>9. size - 3 \in A
  <2>1. 0 \in A
    OBVIOUS
  <2>2. ASSUME NEW k \in Nat, k \in A
        PROVE k + 1 \in A
    <3>1. e[(k + 3) + 1] = e[k + 3] \o added(k + 3)
      <4>1. k + 3 \in Nat
        OBVIOUS
      <4>. QED
        BY <1>1, <4>1, Zenon DEF added
    <3>2. e[k + 3] = e[3] /\ added(k + 3) = <<>>
      BY <1>8, <2>2 DEF added
    <3>3. e[3] \o <<>> = e[3]
      BY <1>1, ConcatEmptySeq
    <3>4. (k + 3) + 1 = (k + 1) + 3
      OBVIOUS
    <3>5. e[(k + 1) + 3] = e[3]
      BY <3>1, <3>2, <3>3, <3>4, Zenon
    <3>. QED
      BY <3>5
  <2>. HIDE DEF A
  <2>3. Nat \subseteq A
    BY <2>1, <2>2, Induction
  <2>. QED
    BY <2>3
<1>10. Objects!Levels(objects) = e[3]
  <2>1. (size - 3) + 3 = size
    OBVIOUS
  <2>. QED
    BY <1>1, <1>2, <1>9, <2>1
<1>11. \E g : IsOrdered((added(0) \o added(1)) \o added(2), g, objects, size)
  BY <1>6, LevelsAreOrdered
<1>. QED
  BY <1>1, <1>7, <1>10, <1>11

\* Nothing a plan depends on is missing, and the dry run is the order of its levels.
LEMMA OperationsAreTheLevels ==
  ASSUME NEW n \in Nat \ {0}, NEW from \in {0, 1}, NEW X, NEW objects \in Seq(X),
         IsPlanOf(objects, n, from)
  PROVE Objects!OperationSequence(objects)
          = [valid |-> TRUE, operations |-> Objects!Levels(objects)]
<1>. PICK size \in Nat : size = 2 * n + 2
  OBVIOUS
<1>1. \A j \in 1..size : /\ objects[j].id = IdAt(j, from)
                         /\ Objects!Range(objects[j].dependsOn)
                              = {IdAt(d, from) : d \in NeededAt(j)}
                         /\ NeededAt(j) \subseteq 1..size
  <2>1. \A j \in 1..size : IsItemAt(objects, j, n, from)
    BY PlanItems
  <2>. QED
    BY <2>1 DEF IsItemAt
<1>2. Objects!Range(objects) = {objects[i] : i \in 1..size} /\ Len(objects) = size
  BY DEF IsPlanOf, Objects!Range
<1>3. Objects!Ids(objects) = {objects[i].id : i \in 1..size}
  BY <1>2 DEF Objects!Ids
<1>4. ASSUME NEW o \in Objects!Range(objects)
      PROVE Objects!Range(o.dependsOn) \subseteq Objects!Ids(objects)
  <2>1. PICK i \in 1..size : o = objects[i]
    BY <1>2
  <2>2. \A d \in NeededAt(i) : d \in 1..size /\ objects[d].id = IdAt(d, from)
    BY <1>1
  <2>3. \A d \in NeededAt(i) : IdAt(d, from) \in Objects!Ids(objects)
    BY <1>3, <2>2
  <2>4. Objects!Range(objects[i].dependsOn) = {IdAt(d, from) : d \in NeededAt(i)}
    BY <1>1
  <2>. QED
    BY <2>1, <2>3, <2>4
<1>5. Objects!MissingDependencies(objects) = {}
  <2>. PICK needed : needed = UNION {Objects!Range(o.dependsOn) : o \in Objects!Range(objects)}
    OBVIOUS
  <2>1. needed \subseteq Objects!Ids(objects)
    BY <1>4
  <2>2. Objects!MissingDependencies(objects) = needed \ Objects!Ids(objects)
    BY Zenon DEF Objects!MissingDependencies
  <2>. QED
    BY <2>1, <2>2
<1>6. Len(Objects!Levels(objects)) = Len(objects)
  BY <1>2, PlanIsOrdered DEF IsOrdered
<1>. QED
  BY <1>5, <1>6 DEF Objects!OperationSequence

\* What an object depends on is in a lower level; the types of the objects follow the order.
IsAfterNeeded(i, size) ==
  \A d \in NeededAt(i) : d \in 1..size /\ Level(d) < Level(i)

LEMMA NeededIsLower ==
  ASSUME NEW n \in Nat, NEW i \in 1..(2 * n + 2)
  PROVE IsAfterNeeded(i, 2 * n + 2)
<1>1. CASE i = 1
  BY <1>1, AtTheBeginning DEF IsAfterNeeded
<1>2. CASE i = 2
  BY <1>2, AtTheBeginning DEF IsAfterNeeded
<1>3. ASSUME NEW j \in 1..n, i = 2 * j + 1 \/ i = 2 * j + 2
      PROVE IsAfterNeeded(i, 2 * n + 2)
  <2>1. IsPairAt(j, 0)
    BY AtPairs
  <2>2. NeededAt(i) \subseteq {2, 2 * j + 1} /\ (NeededAt(i) # {} => Level(i) = 3)
    BY <1>3, <2>1 DEF IsPairAt
  <2>3. Level(2) = 2 /\ Level(2 * j + 1) = 1 /\ 2 \in 1..(2 * n + 2) /\ 2 * j + 1 \in 1..(2 * n + 2)
    BY <2>1, AtTheBeginning DEF IsPairAt
  <2>. QED
    BY <2>2, <2>3 DEF IsAfterNeeded
<1>. QED
  BY <1>1, <1>2, <1>3, Places

Ranks == [campaign |-> 1, creative |-> 2, ad_set |-> 3, ad |-> 4]

LEMMA TypesFollowTheOrder ==
  ASSUME NEW n \in Nat, NEW a \in 1..(2 * n + 2), NEW b \in 1..(2 * n + 2), Before(a, b)
  PROVE Ranks[TypeAt(a)] <= Ranks[TypeAt(b)]
<1>1. \A i \in 1..(2 * n + 2) :
        /\ Level(i) = 1 => Ranks[TypeAt(i)] = IF i = 1 THEN 1 ELSE 2
        /\ Level(i) = 2 => Ranks[TypeAt(i)] = 3
        /\ Level(i) = 3 => Ranks[TypeAt(i)] = 4
        /\ Level(i) \in 1..3
  BY DEF Level, TypeAt, Ranks
<1>2. \/ Level(a) < Level(b)
      \/ Level(a) = Level(b) /\ a < b
  BY DEF Before
<1>3. CASE Level(a) < Level(b)
  <2>1. Ranks[TypeAt(a)] <= (IF Level(a) = 1 THEN 2 ELSE IF Level(a) = 2 THEN 3 ELSE 4)
    BY <1>1
  <2>2. (IF Level(b) = 1 THEN 1 ELSE IF Level(b) = 2 THEN 3 ELSE 4) <= Ranks[TypeAt(b)]
    BY <1>1
  <2>3. Ranks[TypeAt(a)] \in Nat /\ Ranks[TypeAt(b)] \in Nat
    BY <1>1
  <2>. QED
    BY <1>1, <1>3, <2>1, <2>2, <2>3
<1>4. CASE Level(a) = Level(b) /\ a < b
  BY <1>1, <1>4
<1>. QED
  BY <1>2, <1>3, <1>4

\* The order of the dry run is one in which every object comes after what it depends on.
LEMMA OrderedIsAnOrder ==
  ASSUME NEW n \in Nat \ {0}, NEW from \in {0, 1}, NEW X, NEW objects \in Seq(X),
         IsPlanOf(objects, n, from), NEW s \in Seq(X), NEW g, IsOrdered(s, g, objects, 2 * n + 2)
  PROVE /\ Objects!IsOrderOf(s, objects)
        /\ \A i, j \in DOMAIN s : i < j => Ranks[s[i].type] <= Ranks[s[j].type]
<1>. PICK size \in Nat : size = 2 * n + 2
  OBVIOUS
<1>1. \A j \in 1..size : IsItemAt(objects, j, n, from)
  BY PlanItems
<1>2. \A a, b \in 1..size : IdAt(a, from) = IdAt(b, from) => a = b
  BY IdsDiffer
<1>3. /\ Len(s) = size /\ DOMAIN s = 1..size /\ g \in [1..size -> 1..size]
      /\ \A k \in 1..size : s[k] = objects[g[k]]
      /\ \A k, l \in 1..size : k < l => Before(g[k], g[l])
      /\ \A i \in 1..size : \E k \in 1..size : g[k] = i
  <2>1. IsOrdered(s, g, objects, size)
    OBVIOUS
  <2>2. DOMAIN s = 1..Len(s)
    OBVIOUS
  <2>. QED
    BY <2>1, <2>2 DEF IsOrdered
<1>4. ASSUME NEW k \in 1..size, NEW l \in 1..size, g[k] = g[l]
      PROVE k = l
  <2>1. ~Before(g[k], g[k])
    <3>1. \A i \in 1..size : ~Before(i, i)
      BY DEF Before, Level
    <3>. QED
      BY <1>3, <3>1
  <2>2. ~(k < l) /\ ~(l < k)
    BY <1>3, <1>4, <2>1
  <2>. QED
    BY <2>2
<1>5. Len(objects) = size /\ Objects!Range(objects) = {objects[i] : i \in 1..size}
  BY DEF IsPlanOf, Objects!Range
<1>6. Objects!Range(s) = Objects!Range(objects)
  <2>1. Objects!Range(s) = {s[k] : k \in 1..size}
    BY <1>3 DEF Objects!Range
  <2>2. \A k \in 1..size : \E i \in 1..size : s[k] = objects[i]
    BY <1>3
  <2>3. ASSUME NEW i \in 1..size
        PROVE \E k \in 1..size : s[k] = objects[i]
    <3>1. PICK k \in 1..size : g[k] = i
      BY <1>3
    <3>2. s[k] = objects[i]
      BY <1>3, <3>1
    <3>. QED
      BY <3>2
  <2>4. Objects!Range(s) \subseteq Objects!Range(objects)
    BY <1>5, <2>1, <2>2
  <2>5. Objects!Range(objects) \subseteq Objects!Range(s)
    BY <1>5, <2>1, <2>3
  <2>. QED
    BY <2>4, <2>5
<1>11. ASSUME NEW k \in 1..size
       PROVE /\ g[k] \in 1..size /\ s[k].id = IdAt(g[k], from) /\ s[k].type = TypeAt(g[k])
             /\ Objects!Range(s[k].dependsOn) = {IdAt(d, from) : d \in NeededAt(g[k])}
  <2>1. g[k] \in 1..size /\ s[k] = objects[g[k]]
    BY <1>3
  <2>2. IsItemAt(objects, g[k], n, from)
    BY <1>1, <2>1
  <2>. QED
    BY <2>1, <2>2 DEF IsItemAt
<1>7. Objects!IsInjective(s)
  <2>1. ASSUME NEW k \in 1..size, NEW l \in 1..size, s[k] = s[l]
        PROVE k = l
    <3>1. IdAt(g[k], from) = IdAt(g[l], from) /\ g[k] \in 1..size /\ g[l] \in 1..size
      BY <1>11, <2>1
    <3>2. g[k] = g[l]
      BY <1>2, <3>1
    <3>. QED
      BY <1>4, <3>2
  <2>. QED
    BY <1>3, <2>1 DEF Objects!IsInjective
<1>8. ASSUME NEW i \in 1..size, NEW id \in Objects!Range(s[i].dependsOn)
      PROVE Objects!Position(s, id) < i
  <2>1. PICK d \in NeededAt(g[i]) : id = IdAt(d, from)
    <3>1. Objects!Range(s[i].dependsOn) = {IdAt(d, from) : d \in NeededAt(g[i])}
      BY <1>11
    <3>. QED
      BY <3>1
  <2>2. d \in 1..size /\ Level(d) < Level(g[i])
    <3>1. IsAfterNeeded(g[i], size)
      BY <1>3, NeededIsLower
    <3>. QED
      BY <3>1 DEF IsAfterNeeded
  <2>3. PICK k \in 1..size : g[k] = d
    BY <1>3, <2>2
  <2>4. ASSUME NEW l \in 1..size, s[l].id = id
        PROVE l = k
    <3>1. IdAt(g[l], from) = IdAt(d, from) /\ g[l] \in 1..size
      BY <1>11, <2>1, <2>4
    <3>2. g[l] = g[k]
      BY <1>2, <2>2, <2>3, <3>1
    <3>. QED
      BY <1>4, <3>2
  <2>5. s[k].id = id
    BY <1>11, <2>1, <2>3
  <2>6. Objects!Position(s, id) = k
    BY <1>3, <2>4, <2>5 DEF Objects!Position
  <2>7. ~(i < k) /\ i # k
    <3>1. ~Before(g[i], d) /\ g[i] # d
      <4>1. Level(d) \in Nat /\ Level(g[i]) \in Nat
        BY DEF Level
      <4>. QED
        BY <2>2, <4>1 DEF Before
    <3>. QED
      BY <1>3, <2>3, <3>1
  <2>. QED
    BY <2>6, <2>7
<1>9. Objects!IsOrderOf(s, objects)
  BY <1>3, <1>5, <1>6, <1>7, <1>8 DEF Objects!IsOrderOf
<1>10. ASSUME NEW i \in 1..size, NEW j \in 1..size, i < j
       PROVE Ranks[s[i].type] <= Ranks[s[j].type]
  <2>1. Before(g[i], g[j])
    BY <1>3, <1>10
  <2>2. /\ s[i].type = TypeAt(g[i]) /\ s[j].type = TypeAt(g[j])
        /\ g[i] \in 1..size /\ g[j] \in 1..size
    BY <1>11
  <2>3. Ranks[TypeAt(g[i])] <= Ranks[TypeAt(g[j])]
    BY <2>1, <2>2, TypesFollowTheOrder
  <2>. QED
    BY <2>2, <2>3
<1>. QED
  BY <1>3, <1>9, <1>10

LEMMA PlanCanBeOrdered ==
  ASSUME NEW n \in Nat \ {0}, NEW from \in {0, 1}, NEW X, NEW objects \in Seq(X),
         IsPlanOf(objects, n, from), objectsPlan.objects = objects
  PROVE Objects!CanBeOrdered
<1>1. PICK s \in Seq(X) : s = Objects!Levels(objects) /\ \E g : IsOrdered(s, g, objects, 2 * n + 2)
  BY PlanIsOrdered
<1>2. Objects!OperationSequence(objects) = [valid |-> TRUE, operations |-> s]
  BY <1>1, OperationsAreTheLevels
<1>3. /\ Objects!IsOrderOf(s, objects)
      /\ \A i, j \in DOMAIN s : i < j => Ranks[s[i].type] <= Ranks[s[j].type]
  BY <1>1, OrderedIsAnOrder
<1>. QED
  BY <1>2, <1>3 DEF Objects!CanBeOrdered, Ranks

\* Every ad of a plan has a creative of its own.
LEMMA PlanIsPaired ==
  ASSUME NEW n \in Nat \ {0}, NEW from \in {0, 1}, NEW objects, IsPlanOf(objects, n, from),
         objectsPlan.objects = objects
  PROVE Objects!AdsAndCreativesPair
<1>. PICK size \in Nat : size = 2 * n + 2
  OBVIOUS
<1>1. \A j \in 1..size : /\ objects[j].id = IdAt(j, from) /\ objects[j].type = TypeAt(j)
                         /\ Objects!Range(objects[j].dependsOn)
                              = {IdAt(d, from) : d \in NeededAt(j)}
                         /\ NeededAt(j) \subseteq 1..size
  <2>1. \A j \in 1..size : IsItemAt(objects, j, n, from)
    BY PlanItems
  <2>. QED
    BY <2>1 DEF IsItemAt
<1>2. \A a, b \in 1..size : IdAt(a, from) = IdAt(b, from) => a = b
  BY IdsDiffer
<1>3. Objects!Range(objects) = {objects[i] : i \in 1..size}
  BY DEF IsPlanOf, Objects!Range
<1>4. /\ TypeAt(1) = "campaign" /\ TypeAt(2) = "ad_set"
      /\ \A j \in 1..n : /\ 2 * j + 1 \in 1..size /\ TypeAt(2 * j + 1) = "creative"
                         /\ 2 * j + 2 \in 1..size /\ TypeAt(2 * j + 2) = "ad"
                         /\ NeededAt(2 * j + 2) = {2, 2 * j + 1}
  <2>1. \A j \in 1..n : IsPairAt(j, from)
    BY AtPairs
  <2>. QED
    BY <2>1, AtTheBeginning DEF IsPairAt
<1> DEFINE of(t) == {o \in Objects!Range(objectsPlan.objects) : o.type = t}
<1>5. /\ of("creative") = {objects[2 * j + 1] : j \in 1..n}
      /\ of("ad") = {objects[2 * j + 2] : j \in 1..n}
  <2>1. of("creative") = {objects[i] : i \in {i \in 1..size : TypeAt(i) = "creative"}}
        /\ of("ad") = {objects[i] : i \in {i \in 1..size : TypeAt(i) = "ad"}}
    BY <1>1, <1>3
  <2>2. \A i \in 1..size : /\ TypeAt(i) = "creative" <=> \E j \in 1..n : i = 2 * j + 1
                           /\ TypeAt(i) = "ad" <=> \E j \in 1..n : i = 2 * j + 2
    <3>1. \A i \in 1..size : i = 1 \/ i = 2 \/ \E j \in 1..n : i = 2 * j + 1 \/ i = 2 * j + 2
      BY Places
    <3>. QED
      BY <1>4, <3>1
  <2>. QED
    BY <1>4, <2>1, <2>2
<1>6. \A i, j \in 1..n : /\ objects[2 * i + 1] = objects[2 * j + 1] => i = j
                         /\ objects[2 * i + 2] = objects[2 * j + 2] => i = j
  <2>1. \A i, j \in 1..n : (2 * i + 1 = 2 * j + 1 => i = j) /\ (2 * i + 2 = 2 * j + 2 => i = j)
    OBVIOUS
  <2>. QED
    BY <1>1, <1>2, <1>4, <2>1
<1>. HIDE DEF of
<1>7. Objects!Cardinality(of("creative")) = n /\ Objects!Cardinality(of("ad")) = n
  <2> DEFINE c == [j \in 1..n |-> objects[2 * j + 1]]
             a == [j \in 1..n |-> objects[2 * j + 2]]
  <2>1. c \in Bijection(1..n, of("creative")) /\ a \in Bijection(1..n, of("ad"))
    BY <1>5, <1>6 DEF Bijection, Injection, Surjection, IsInjective
  <2>2. Cardinality(of("creative")) = n /\ Cardinality(of("ad")) = n
    <3>1. ExistsBijection(1..n, of("creative")) /\ ExistsBijection(1..n, of("ad"))
      BY <2>1 DEF ExistsBijection
    <3>. QED
      BY <3>1, FS_CountingElements
  <2>3. \A S : Objects!Cardinality(S) = Cardinality(S)
    BY DEF Objects!Cardinality, Cardinality
  <2>. QED
    BY <2>2, <2>3
<1>8. ASSUME NEW c \in of("creative")
      PROVE Objects!Cardinality({a \in of("ad") : c.id \in Objects!Range(a.dependsOn)}) = 1
  <2>1. PICK j \in 1..n : c = objects[2 * j + 1]
    BY <1>5
  <2>2. \A i \in 1..n : c.id \in Objects!Range(objects[2 * i + 2].dependsOn) <=> i = j
    <3>1. c.id = IdAt(2 * j + 1, from) /\ 2 * j + 1 \in 1..size /\ 2 * j + 1 # 2
      BY <1>1, <1>4, <2>1
    <3>2. \A i \in 1..n : /\ Objects!Range(objects[2 * i + 2].dependsOn)
                               = {IdAt(2, from), IdAt(2 * i + 1, from)}
                          /\ 2 * i + 1 \in 1..size
      BY <1>1, <1>4
    <3>3. 2 \in 1..size /\ \A i \in 1..n : 2 * i + 1 = 2 * j + 1 <=> i = j
      OBVIOUS
    <3>. QED
      BY <1>2, <3>1, <3>2, <3>3
  <2>3. {a \in of("ad") : c.id \in Objects!Range(a.dependsOn)} = {objects[2 * j + 2]}
    BY <1>5, <2>2
  <2>4. Cardinality({objects[2 * j + 2]}) = 1
    BY FS_Singleton
  <2>5. \A S : Objects!Cardinality(S) = Cardinality(S)
    BY DEF Objects!Cardinality, Cardinality
  <2>. QED
    BY <2>3, <2>4, <2>5
<1>. QED
  BY <1>7, <1>8 DEF Objects!AdsAndCreativesPair, of

-----------------------------------------------------------------------------
(* What a creative package makes of a plan.                                *)

LEMMA PlanIsASequence ==
  ASSUME NEW n \in Nat, NEW from, NEW objects, IsPlanOf(objects, n, from)
  PROVE objects \in Seq({objects[i] : i \in 1..(2 * n + 2)}) /\ Len(objects) = 2 * n + 2
<1>. PICK size \in Nat : size = 2 * n + 2
  OBVIOUS
<1>1. objects = [i \in 1..size |-> objects[i]]
  BY DEF IsPlanOf
<1>2. objects \in [1..size -> {objects[i] : i \in 1..size}]
  BY <1>1
<1>. QED
  BY <1>2

\* t has the first two items of each of the first n of seqs.
IsJoined(t, seqs, n) ==
  Len(t) = 2 * n /\ \A j \in 1..n : t[2 * j - 1] = seqs[j][1] /\ t[2 * j] = seqs[j][2]

\* w is s, of length a, and t, of length b.
IsConcat(w, s, t, a, b, Y) ==
  /\ w \in Seq(Y) /\ Len(w) = a + b
  /\ \A i \in 1..a : w[i] = s[i]
  /\ \A i \in 1..b : w[a + i] = t[i]

LEMMA TwoAreJoined ==
  ASSUME NEW Y, NEW s \in Seq(Y), NEW t \in Seq(Y), NEW a \in Nat, NEW b \in Nat,
         Len(s) = a, Len(t) = b
  PROVE IsConcat(s \o t, s, t, a, b, Y)
<1>. PICK w \in Seq(Y) : w = s \o t
  BY ConcatProperties
<1>1. /\ Len(w) = Len(s) + Len(t)
      /\ \A i \in 1..(Len(s) + Len(t)) : w[i] = IF i <= Len(s) THEN s[i] ELSE t[i - Len(s)]
  BY ConcatProperties, Zenon
<1>2. Len(w) = a + b /\ \A i \in 1..(a + b) : w[i] = IF i <= a THEN s[i] ELSE t[i - a]
  BY <1>1
<1>3. \A i \in 1..a : i \in 1..(a + b) /\ i <= a
  OBVIOUS
<1>4. \A i \in 1..b : a + i \in 1..(a + b) /\ ~(a + i <= a) /\ (a + i) - a = i
  OBVIOUS
<1>5. \A i \in 1..a : w[i] = s[i]
  BY <1>2, <1>3
<1>6. \A i \in 1..b : w[a + i] = t[i]
  BY <1>2, <1>4
<1>. QED
  BY <1>2, <1>5, <1>6 DEF IsConcat

LEMMA PairsAreJoined ==
  ASSUME NEW Y, NEW n \in Nat \ {0}, NEW seqs \in [1..n -> Seq(Y)], \A i \in 1..n : Len(seqs[i]) = 2
  PROVE Objects!FlattenSeq(seqs) \in Seq(Y) /\ IsJoined(Objects!FlattenSeq(seqs), seqs, n)
<1> DEFINE Z == Seq(Y)
           step == [k \in Nat |-> [t \in Z |-> IF k + 2 <= n THEN t \o seqs[k + 2] ELSE t]]
           body(f) == [i \in 1..n |-> IF i = 1 THEN seqs[i] ELSE f[i - 1] \o seqs[i]]
<1>1. \A s, t \in Z : s \o t \in Z
  BY ConcatProperties
<1>2. Len(seqs) = n /\ 1 \in 1..n /\ seqs[1] \in Z
  OBVIOUS
<1>3. step \in [Nat -> [Z -> Z]]
  <2>1. \A k \in Nat : k + 2 <= n => seqs[k + 2] \in Z
    OBVIOUS
  <2>. HIDE DEF Z
  <2>. QED
    BY <1>1, <2>1
<1>4. PICK e \in [Nat -> Z] : e[0] = seqs[1] /\ \A k \in Nat : e[k + 1] = step[k][e[k]]
  <2>1. IsRecursive(Z, seqs[1], step)
    <3>. HIDE DEF Z, step
    <3>. QED
      BY <1>2, <1>3, RecursionIsDefined
  <2>. QED
    BY <2>1 DEF IsRecursive
<1> DEFINE f == [i \in 1..n |-> e[i - 1]]
<1>5. f = body(f)
  <2>1. f[1] = seqs[1]
    BY <1>2, <1>4
  <2>2. ASSUME NEW i \in 1..n, i # 1
        PROVE f[i] = f[i - 1] \o seqs[i]
    <3>1. i - 1 \in 1..n /\ i - 2 \in Nat /\ (i - 2) + 1 = i - 1 /\ (i - 1) - 1 = i - 2
          /\ (i - 2) + 2 = i /\ i <= n
      BY <2>2
    <3>2. e[i - 1] = step[i - 2][e[i - 2]] /\ e[i - 2] \in Z
      BY <1>4, <3>1
    <3>. HIDE DEF Z
    <3>. QED
      BY <3>1, <3>2
  <2>. HIDE DEF f
  <2>3. f = [i \in 1..n |-> f[i]]
    BY DEF f
  <2>4. [i \in 1..n |-> f[i]] = body(f)
    BY <2>1, <2>2
  <2>. QED
    BY <2>3, <2>4
<1>. HIDE DEF f
<1>6. PICK flatten : flatten = body(flatten) /\ Objects!FlattenSeq(seqs) = flatten[n]
  BY <1>2, <1>5 DEF Objects!FlattenSeq
<1> DEFINE A == {k \in Nat : k + 1 <= n => /\ flatten[k + 1] \in Z
                                          /\ IsJoined(flatten[k + 1], seqs, k + 1)}
<1>7. 0 \in A
  <2>1. flatten[1] = seqs[1]
    BY <1>2, <1>6
  <2>. QED
    BY <1>2, <2>1 DEF IsJoined
<1>8. ASSUME NEW k \in Nat, k \in A
      PROVE k + 1 \in A
  <2>. SUFFICES ASSUME (k + 1) + 1 <= n
                PROVE flatten[k + 2] \in Z /\ IsJoined(flatten[k + 2], seqs, k + 2)
    OBVIOUS
  <2>1. flatten[k + 1] \in Z /\ IsJoined(flatten[k + 1], seqs, k + 1)
    BY <1>8
  <2>2. k + 2 \in 1..n /\ k + 2 # 1 /\ (k + 2) - 1 = k + 1
    OBVIOUS
  <2>3. flatten[k + 2] = flatten[k + 1] \o seqs[k + 2] /\ seqs[k + 2] \in Z /\ Len(seqs[k + 2]) = 2
    BY <1>6, <2>2
  <2>. PICK s \in Seq(Y), t \in Seq(Y) : s = flatten[k + 1] /\ t = seqs[k + 2]
    BY <2>1, <2>3
  <2>. PICK u : u = s \o t
    OBVIOUS
  <2>4. /\ u \in Seq(Y) /\ Len(u) = 2 * k + 4 /\ u[2 * k + 3] = t[1] /\ u[2 * k + 4] = t[2]
        /\ \A i \in 1..(2 * k + 2) : u[i] = s[i]
    <3>. PICK l \in Nat : l = 2 * k + 2
      OBVIOUS
    <3>1. Len(s) = l /\ Len(t) = 2
      BY <2>1, <2>3 DEF IsJoined
    <3>2. IsConcat(u, s, t, l, 2, Y)
      BY <3>1, TwoAreJoined
    <3>3. /\ u \in Seq(Y) /\ Len(u) = l + 2 /\ u[l + 1] = t[1] /\ u[l + 2] = t[2]
          /\ \A i \in 1..l : u[i] = s[i]
      <4>1. 1 \in 1..2 /\ 2 \in 1..2
        OBVIOUS
      <4>2. /\ u \in Seq(Y) /\ Len(u) = l + 2 /\ \A i \in 1..l : u[i] = s[i]
            /\ \A i \in 1..2 : u[l + i] = t[i]
        BY <3>2, Zenon DEF IsConcat
      <4>. QED
        BY <4>1, <4>2, Zenon
    <3>4. l + 1 = 2 * k + 3 /\ l + 2 = 2 * k + 4
      OBVIOUS
    <3>. QED
      BY <3>3, <3>4, Zenon
  <2>5. ASSUME NEW j \in 1..(k + 2)
        PROVE u[2 * j - 1] = seqs[j][1] /\ u[2 * j] = seqs[j][2]
    <3>1. CASE j = k + 2
      <4>1. 2 * j - 1 = 2 * k + 3 /\ 2 * j = 2 * k + 4
        BY <3>1
      <4>. QED
        BY <2>4, <3>1, <4>1
    <3>2. CASE j # k + 2
      <4>1. j \in 1..(k + 1) /\ 2 * j - 1 \in 1..(2 * k + 2) /\ 2 * j \in 1..(2 * k + 2)
        BY <3>2
      <4>2. s[2 * j - 1] = seqs[j][1] /\ s[2 * j] = seqs[j][2]
        BY <2>1, <4>1 DEF IsJoined
      <4>3. u[2 * j - 1] = s[2 * j - 1] /\ u[2 * j] = s[2 * j]
        BY <2>4, <4>1
      <4>. QED
        BY <4>2, <4>3
    <3>. QED
      BY <3>1, <3>2
  <2>6. Len(u) = 2 * (k + 2)
    BY <2>4
  <2>7. IsJoined(u, seqs, k + 2)
    BY <2>5, <2>6 DEF IsJoined
  <2>. QED
    BY <2>3, <2>4, <2>7
<1>9. n - 1 \in A
  <2>. HIDE DEF A
  <2>1. Nat \subseteq A
    BY <1>7, <1>8, Induction
  <2>. QED
    BY <2>1
<1>10. (n - 1) + 1 = n /\ n <= n
  OBVIOUS
<1>. QED
  BY <1>6, <1>9, <1>10

\* The creatives of a plan are the pairs of text and media of a package.
IsBoundTo(objects, p, n) ==
  \A j \in 1..n :
    /\ objects[2 * j + 1].review = Objects!Review(p)
    /\ objects[2 * j + 1].variant =
         [copy |-> p.copies[j].id, asset |-> p.assets[j].id, https |-> p.assets[j].https]

\* What is neither a creative nor an ad stays: the campaign and the ad set.
LEMMA CampaignAndAdSetStay ==
  ASSUME NEW n \in Nat, NEW from \in {0, 1}, NEW X, NEW objects \in Seq(X),
         IsPlanOf(objects, n, from), NEW u,
         u = Objects!Only(objects,
               {o \in Objects!Range(objects) : o.type \notin {"creative", "ad"}})
  PROVE u \in Seq(X) /\ Len(u) = 2 /\ u[1] = objects[1] /\ u[2] = objects[2]
<1>. PICK size \in Nat : size = 2 * n + 2
  OBVIOUS
<1> DEFINE S == {o \in Objects!Range(objects) : o.type \notin {"creative", "ad"}}
<1>1. Len(objects) = size /\ Objects!Range(objects) = {objects[i] : i \in 1..size}
  BY DEF IsPlanOf, Objects!Range
<1>2. \A i \in 1..size : objects[i] \in S <=> i \in {1, 2}
  <2>1. \A i \in 1..size : objects[i].type = TypeAt(i)
    <3>1. \A i \in 1..size : IsItemAt(objects, i, n, from)
      BY PlanItems
    <3>. QED
      BY <3>1 DEF IsItemAt
  <2>2. \A i \in 1..size : TypeAt(i) \notin {"creative", "ad"} <=> i \in {1, 2}
    BY DEF TypeAt
  <2>. QED
    BY <1>1, <2>1, <2>2
<1>3. u \in Seq(X) /\ IsSelection(u, objects, S, size)
  <2>. HIDE DEF S
  <2>1. u = Objects!Only(objects, S)
    BY DEF S
  <2>. QED
    BY <1>1, <2>1, OnlySelects
<1>4. PICK f : SelectsBy(u, f, objects, S, size)
  BY <1>3 DEF IsSelection
<1>. PICK m \in Nat : m = Len(u)
  BY <1>3, LenProperties
<1>. HIDE DEF S
<1>5. /\ f \in [1..m -> 1..size]
      /\ \A k \in 1..m : u[k] = objects[f[k]]
      /\ \A k, l \in 1..m : k < l => f[k] < f[l]
      /\ \A i \in 1..size : objects[i] \in S <=> \E k \in 1..m : f[k] = i
  BY <1>4 DEF SelectsBy
<1>6. f \in [1..m -> 1..2] /\ \A i \in 1..2 : \E k \in 1..m : f[k] = i
  <2>1. \A k \in 1..m : f[k] \in {1, 2}
    BY <1>2, <1>5
  <2>2. \A i \in 1..2 : i \in 1..size /\ i \in {1, 2}
    OBVIOUS
  <2>3. {1, 2} = 1..2
    OBVIOUS
  <2>. QED
    BY <1>2, <1>5, <2>1, <2>2, <2>3
<1>7. m = 2 /\ \A k \in 1..m : f[k] = k
  <2>1. \A k, l \in 1..m : k < l => f[k] < f[l]
    BY <1>5
  <2>2. f \in [1..m -> 1..2] /\ \A i \in 1..2 : \E k \in 1..m : f[k] = i
    BY <1>6
  <2>3. IsIncreasing(f, m, 2)
    BY <2>1, <2>2 DEF IsIncreasing
  <2>4. IsIdentity(f, m, 2)
    BY <2>3, IncreasingIsIdentity
  <2>. QED
    BY <2>4 DEF IsIdentity
<1>. QED
  BY <1>3, <1>5, <1>7

\* A creative with another review and another variant.
Renewed(o, review, variant) == [o EXCEPT !.review = review, !.variant = variant]

LEMMA CreativeIsRenewed ==
  ASSUME NEW i, NEW review, NEW variant, NEW newReview, NEW newVariant
  PROVE Renewed(CreativeOf(i, review, variant), newReview, newVariant)
          = CreativeOf(i, newReview, newVariant)
<1>. PICK id : id = Objects!Creative(i)
  OBVIOUS
<1>1. [CreativeOf(i, review, variant) EXCEPT !.review = newReview]
        = CreativeOf(i, newReview, variant)
  BY DEF CreativeOf
<1>2. [CreativeOf(i, newReview, variant) EXCEPT !.variant = newVariant]
        = CreativeOf(i, newReview, newVariant)
  BY DEF CreativeOf
<1>. QED
  BY <1>1, <1>2 DEF Renewed

LEMMA PackagesArePlans ==
  ASSUME NEW m \in Nat, NEW from \in {0, 1}, NEW objects, IsPlanOf(objects, m, from),
         NEW p, NEW n \in Nat \ {0}, Len(p.copies) = n, Len(p.assets) = n, DOMAIN p.copies = 1..n,
         NEW bound, bound = Objects!BindCreativeVariants(objects, p)
  PROVE IsPlanOf(bound, n, 0) /\ IsBoundTo(bound, p, n)
<1> DEFINE creative(i) == CreativeOf(i, Objects!Review(p),
                            [copy |-> p.copies[i].id, asset |-> p.assets[i].id,
                             https |-> p.assets[i].https])
           ad(i) == Objects!Object(Objects!Ad(i), "ad", <<Objects!AdSet, Objects!Creative(i)>>)
           pairs == [i \in 1..n |-> <<creative(i), ad(i)>>]
           X == {objects[i] : i \in 1..(2 * m + 2)}
           Y == X \cup {creative(i) : i \in 1..n} \cup {ad(i) : i \in 1..n}
<1>1. ASSUME NEW i \in 1..n
      PROVE Objects!Variants(p, i) = <<creative(i), ad(i)>>
  <2>. PICK variant : variant = [copy |-> p.copies[i].id, asset |-> p.assets[i].id,
                                 https |-> p.assets[i].https]
    OBVIOUS
  <2>1. Renewed(Objects!Object(Objects!Creative(i), "creative", <<>>), Objects!Review(p), variant)
          = CreativeOf(i, Objects!Review(p), variant)
    <3>1. Objects!Object(Objects!Creative(i), "creative", <<>>)
            = CreativeOf(i, "requires_generation", Objects!NoVariant)
      BY DEF Objects!Object, CreativeOf
    <3>. QED
      BY <3>1, CreativeIsRenewed
  <2>. QED
    BY <2>1 DEF Objects!Variants, Renewed
<1>14. PICK u : u = Objects!Only(objects,
                      {o \in Objects!Range(objects) : o.type \notin {"creative", "ad"}})
  OBVIOUS
<1>15. PICK v : v = Objects!FlattenSeq(pairs)
  OBVIOUS
<1>2. bound = u \o v
  <2>1. [i \in DOMAIN p.copies |-> Objects!Variants(p, i)] = pairs
    BY <1>1
  <2>. HIDE DEF pairs
  <2>. QED
    BY <1>14, <1>15, <2>1 DEF Objects!BindCreativeVariants
<1>3. u \in Seq(Y) /\ Len(u) = 2 /\ u[1] = objects[1] /\ u[2] = objects[2]
  <2>1. objects \in Seq(X)
    BY PlanIsASequence
  <2>2. X \subseteq Y
    OBVIOUS
  <2>. HIDE DEF X, Y
  <2>3. u \in Seq(X) /\ Len(u) = 2 /\ u[1] = objects[1] /\ u[2] = objects[2]
    BY <1>14, <2>1, CampaignAndAdSetStay
  <2>. QED
    BY <2>2, <2>3, SeqMonotonic
<1>4. v \in Seq(Y) /\ IsJoined(v, pairs, n)
  <2>1. \A i \in 1..n : creative(i) \in Y /\ ad(i) \in Y
    OBVIOUS
  <2>. HIDE DEF creative, ad, Y
  <2>2. pairs \in [1..n -> Seq(Y)] /\ \A i \in 1..n : Len(pairs[i]) = 2
    BY <2>1
  <2>. HIDE DEF pairs
  <2>. QED
    BY <1>15, <2>2, PairsAreJoined
<1>5. \A j \in 1..n : v[2 * j - 1] = creative(j) /\ v[2 * j] = ad(j)
  <2>. HIDE DEF creative, ad
  <2>. QED
    BY <1>4 DEF IsJoined
<1>. HIDE DEF creative, ad, pairs, X, Y
<1>6. /\ bound \in Seq(Y) /\ Len(bound) = 2 * n + 2
      /\ bound[1] = u[1] /\ bound[2] = u[2] /\ \A i \in 1..(2 * n) : bound[2 + i] = v[i]
  <2>1. Len(v) = 2 * n
    BY <1>4 DEF IsJoined
  <2>. PICK l \in Nat : l = 2 * n
    OBVIOUS
  <2>2. IsConcat(bound, u, v, 2, l, Y)
    BY <1>2, <1>3, <1>4, <2>1, TwoAreJoined
  <2>. QED
    BY <2>2 DEF IsConcat
<1>7. bound = [i \in 1..(2 * n + 2) |-> bound[i]] /\ bound[1] = objects[1] /\ bound[2] = objects[2]
  BY <1>3, <1>6
<1>8. \A j \in 1..n : bound[2 * j + 1] = creative(j) /\ bound[2 * j + 2] = ad(j)
  <2>1. \A j \in 1..n : /\ 2 * j - 1 \in 1..(2 * n) /\ 2 + (2 * j - 1) = 2 * j + 1
                        /\ 2 * j \in 1..(2 * n) /\ 2 + (2 * j) = 2 * j + 2
    OBVIOUS
  <2>2. \A j \in 1..n : bound[2 * j + 1] = v[2 * j - 1] /\ bound[2 * j + 2] = v[2 * j]
    BY <1>6, <2>1
  <2>. QED
    BY <1>5, <2>2
<1>9. \A j \in 1..n : /\ creative(j).review = Objects!Review(p)
                      /\ creative(j).variant = [copy |-> p.copies[j].id, asset |-> p.assets[j].id,
                                                https |-> p.assets[j].https]
                      /\ creative(j) = CreativeOf(j, creative(j).review, creative(j).variant)
  BY DEF creative, CreativeOf
<1>10. IsBoundTo(bound, p, n)
  BY <1>8, <1>9 DEF IsBoundTo
<1>11. objects[1] = Objects!Object(Objects!Campaign, "campaign", <<>>)
       /\ objects[2] = Objects!Object(Objects!AdSet, "ad_set", <<Objects!Campaign>>)
  BY DEF IsPlanOf
<1>12. \A j \in 1..n : j - 0 = j
  OBVIOUS
<1>13. IsPlanOf(bound, n, 0)
  BY <1>7, <1>8, <1>9, <1>11, <1>12 DEF IsPlanOf, ad
<1>. QED
  BY <1>10, <1>13

\* An object of a plan to which lists were bound that do not pair.
Marked(o, p) ==
  IF o.type # "creative" THEN o
  ELSE Renewed(o, Objects!Review(p), Objects!NoVariant)

\* Lists that do not pair leave the objects as they are.
LEMMA UnpairedKeepPlans ==
  ASSUME NEW n \in Nat, NEW from \in {0, 1}, NEW objects, IsPlanOf(objects, n, from),
         NEW p, Len(p.copies) # Len(p.assets)
  PROVE IsPlanOf(Objects!BindCreativeVariants(objects, p), n, from)
<1>. PICK size \in Nat : size = 2 * n + 2
  OBVIOUS
<1>6. PICK bound : bound = Objects!BindCreativeVariants(objects, p)
  OBVIOUS
<1>1. DOMAIN objects = 1..size
  BY DEF IsPlanOf
<1>2. bound = [i \in 1..size |-> Marked(objects[i], p)]
  BY <1>1, <1>6, Zenon DEF Objects!BindCreativeVariants, Marked, Renewed
<1>3. bound[1] = objects[1] /\ bound[2] = objects[2]
  <2>1. objects[1].type = "campaign" /\ objects[2].type = "ad_set" /\ 1 \in 1..size /\ 2 \in 1..size
    BY DEF IsPlanOf, Objects!Object
  <2>2. Marked(objects[1], p) = objects[1] /\ Marked(objects[2], p) = objects[2]
    BY <2>1 DEF Marked
  <2>. QED
    BY <1>2, <2>1, <2>2
<1>4. ASSUME NEW j \in 1..n
      PROVE /\ bound[2 * j + 1]
                 = CreativeOf(j - from, bound[2 * j + 1].review, bound[2 * j + 1].variant)
            /\ bound[2 * j + 2] = objects[2 * j + 2]
  <2>1. 2 * j + 1 \in 1..size /\ 2 * j + 2 \in 1..size
    OBVIOUS
  <2>. PICK c, a : c = objects[2 * j + 1] /\ a = objects[2 * j + 2]
    OBVIOUS
  <2>2. /\ c = CreativeOf(j - from, c.review, c.variant)
        /\ a = Objects!Object(Objects!Ad(j - from), "ad",
                              <<Objects!AdSet, Objects!Creative(j - from)>>)
    BY DEF IsPlanOf
  <2>3. c.type = "creative" /\ a.type = "ad"
    BY <2>2 DEF CreativeOf, Objects!Object
  <2>4. Marked(c, p) = CreativeOf(j - from, Objects!Review(p), Objects!NoVariant)
    <3>1. Marked(c, p) = Renewed(c, Objects!Review(p), Objects!NoVariant)
      BY <2>3 DEF Marked
    <3>. QED
      BY <2>2, <3>1, CreativeIsRenewed
  <2>5. Marked(a, p) = a
    BY <2>3 DEF Marked
  <2>6. bound[2 * j + 1] = Marked(c, p) /\ bound[2 * j + 2] = Marked(a, p)
    BY <1>2, <2>1
  <2>7. bound[2 * j + 1].review = Objects!Review(p) /\ bound[2 * j + 1].variant = Objects!NoVariant
    BY <2>4, <2>6 DEF CreativeOf
  <2>. QED
    BY <2>4, <2>5, <2>6, <2>7
<1>5. bound = [i \in 1..size |-> bound[i]]
  BY <1>2
<1>. QED
  BY <1>3, <1>4, <1>5, <1>6 DEF IsPlanOf

-----------------------------------------------------------------------------
(* The manifest.                                                           *)

\* The creatives of a manifest are those of the plan, in their order.
LEMMA ManifestHasItsCreatives ==
  ASSUME NEW n \in Nat \ {0}, NEW objects, IsPlanOf(objects, n, 0),
         NEW operations, operations = Objects!ManifestOperations(Objects!Levels(objects)),
         NEW made, made = Objects!Only(operations,
                            {o \in Objects!Range(operations) : o.type = "creative"})
  PROVE Len(made) = n /\ DOMAIN made = 1..n
        /\ \A k \in 1..n : made[k].variant = objects[2 * k + 1].variant
<1>. PICK size \in Nat : size = 2 * n + 2
  OBVIOUS
<1>1. /\ \A j \in 1..size : objects[j].type = TypeAt(j)
      /\ \A i \in 1..size : TypeAt(i) = "creative" <=> \E j \in 1..n : i = 2 * j + 1
  <2>1. \A j \in 1..size : IsItemAt(objects, j, n, 0)
    BY PlanItems
  <2>2. \A i \in 1..size : i = 1 \/ i = 2 \/ \E j \in 1..n : i = 2 * j + 1 \/ i = 2 * j + 2
    BY Places
  <2>3. \A j \in 1..n : TypeAt(2 * j + 1) = "creative" /\ TypeAt(2 * j + 2) = "ad"
    <3>1. \A j \in 1..n : IsPairAt(j, 0)
      BY AtPairs
    <3>. QED
      BY <3>1 DEF IsPairAt
  <2>. QED
    BY <2>1, <2>2, <2>3, AtTheBeginning DEF IsItemAt
<1> DEFINE X == {objects[i] : i \in 1..size}
<1>2. PICK s \in Seq(X) : s = Objects!Levels(objects) /\ \E g : IsOrdered(s, g, objects, size)
  <2>1. objects \in Seq(X)
    BY PlanIsASequence
  <2>. HIDE DEF X
  <2>. QED
    BY <2>1, PlanIsOrdered
<1>. HIDE DEF X
<1>3. PICK g : IsOrdered(s, g, objects, size)
  BY <1>2
<1>4. /\ Len(s) = size /\ DOMAIN s = 1..size /\ g \in [1..size -> 1..size]
      /\ \A k \in 1..size : s[k] = objects[g[k]]
      /\ \A k, l \in 1..size : k < l => Before(g[k], g[l])
      /\ \A i \in 1..size : \E k \in 1..size : g[k] = i
  <2>1. DOMAIN s = 1..Len(s)
    BY LenProperties
  <2>. QED
    BY <1>3, <2>1 DEF IsOrdered
<1> DEFINE operation(i) == [order |-> i, key |-> s[i].id, type |-> s[i].type,
                            dependsOn |-> Objects!Range(s[i].dependsOn), variant |-> s[i].variant]
           W == {operation(i) : i \in 1..size}
           S == {o \in Objects!Range(operations) : o.type = "creative"}
<1>5. operations = [i \in 1..size |-> operation(i)]
  BY <1>2, <1>4 DEF Objects!ManifestOperations
<1>6. \A i \in 1..size : /\ operation(i).type = TypeAt(g[i])
                         /\ operation(i).variant = objects[g[i]].variant
  BY <1>1, <1>4
<1>. HIDE DEF operation
<1>7. operations \in Seq(W) /\ Len(operations) = size
  BY <1>5
<1>8. ASSUME NEW i \in 1..size
      PROVE operations[i] \in S <=> \E j \in 1..n : g[i] = 2 * j + 1
  <2>1. operations[i] = operation(i) /\ operations[i] \in Objects!Range(operations)
    BY <1>5 DEF Objects!Range
  <2>2. operations[i] \in S <=> operation(i).type = "creative"
    BY <2>1
  <2>3. operation(i).type = TypeAt(g[i]) /\ g[i] \in 1..size
    BY <1>4, <1>6
  <2>. QED
    BY <1>1, <2>2, <2>3
<1>9. made \in Seq(W) /\ \E f : SelectsBy(made, f, operations, S, size)
  <2>1. made = Objects!Only(operations, S)
    OBVIOUS
  <2>. HIDE DEF S, W
  <2>2. made \in Seq(W) /\ IsSelection(made, operations, S, size)
    BY <1>7, <2>1, OnlySelects
  <2>. QED
    BY <2>2 DEF IsSelection
<1>. HIDE DEF S, W
<1>10. PICK f : SelectsBy(made, f, operations, S, size)
  BY <1>9
<1>. PICK m \in Nat : m = Len(made) /\ DOMAIN made = 1..m
  BY <1>9, LenProperties
<1>11. /\ f \in [1..m -> 1..size]
       /\ \A k \in 1..m : made[k] = operations[f[k]]
       /\ \A k, l \in 1..m : k < l => f[k] < f[l]
       /\ \A i \in 1..size : operations[i] \in S <=> \E k \in 1..m : f[k] = i
  BY <1>10 DEF SelectsBy
<1> DEFINE h == [k \in 1..m |-> (g[f[k]] - 1) \div 2]
<1>12. \A j \in 1..n : ((2 * j + 1) - 1) \div 2 = j /\ 2 * j + 1 \in 1..size /\ Level(2 * j + 1) = 1
  <2>1. \A j \in 1..n : ((2 * j + 1) - 1) \div 2 = j /\ 2 * j + 1 \in 1..size
    OBVIOUS
  <2>2. \A j \in 1..n : IsPairAt(j, 0)
    BY AtPairs
  <2>. QED
    BY <2>1, <2>2 DEF IsPairAt
<1>13. \A k \in 1..m : h[k] \in 1..n /\ g[f[k]] = 2 * h[k] + 1
  <2>1. \A k \in 1..m : \E j \in 1..n : g[f[k]] = 2 * j + 1
    BY <1>8, <1>11
  <2>. QED
    BY <1>12, <2>1
<1>14. \A j \in 1..n : \E k \in 1..m : h[k] = j
  <2>. SUFFICES ASSUME NEW j \in 1..n
                PROVE \E k \in 1..m : h[k] = j
    OBVIOUS
  <2>1. PICK i \in 1..size : g[i] = 2 * j + 1
    BY <1>4, <1>12
  <2>2. operations[i] \in S
    BY <1>8, <2>1
  <2>3. PICK k \in 1..m : f[k] = i
    BY <1>11, <2>2
  <2>4. h[k] = j
    BY <1>12, <2>1, <2>3
  <2>. QED
    BY <2>4
<1>. HIDE DEF h
<1>15. ASSUME NEW k \in 1..m, NEW l \in 1..m, k < l
       PROVE h[k] < h[l]
  <2>1. f[k] \in 1..size /\ f[l] \in 1..size /\ f[k] < f[l]
    BY <1>11, <1>15
  <2>4. Before(g[f[k]], g[f[l]])
    BY <1>4, <2>1
  <2>2. Before(2 * h[k] + 1, 2 * h[l] + 1) /\ h[k] \in 1..n /\ h[l] \in 1..n
    BY <1>13, <2>4
  <2>3. Level(2 * h[k] + 1) = 1 /\ Level(2 * h[l] + 1) = 1
    BY <1>12, <2>2
  <2>. QED
    BY <2>2, <2>3 DEF Before
<1>16. h \in [1..m -> 1..n]
  BY <1>13 DEF h
<1>17. m = n /\ \A k \in 1..m : h[k] = k
  <2>1. IsIncreasing(h, m, n)
    BY <1>14, <1>15, <1>16 DEF IsIncreasing
  <2>2. IsIdentity(h, m, n)
    BY <2>1, IncreasingIsIdentity
  <2>. QED
    BY <2>2 DEF IsIdentity
<1>18. ASSUME NEW k \in 1..n
       PROVE made[k].variant = objects[2 * k + 1].variant
  <2>1. k \in 1..m /\ h[k] = k
    BY <1>17
  <2>2. f[k] \in 1..size /\ made[k] = operations[f[k]] /\ g[f[k]] = 2 * k + 1
    BY <1>11, <1>13, <2>1
  <2>3. made[k] = operation(f[k])
    BY <1>5, <2>2
  <2>4. operation(f[k]).variant = objects[g[f[k]]].variant
    BY <1>6, <2>2
  <2>. QED
    BY <2>2, <2>3, <2>4
<1>. QED
  BY <1>17, <1>18

-----------------------------------------------------------------------------
(* What holds of a plan, of its creative package and of its manifest.      *)

IsPlan(objects) == \E n \in Nat \ {0}, from \in {0, 1} : IsPlanOf(objects, n, from)

IsPaired(p, n) ==
  Len(p.copies) = n /\ Len(p.assets) = n /\ DOMAIN p.copies = 1..n

IsApprovedPlan(objects, p) ==
  \E n \in Nat \ {0} : IsPaired(p, n) /\ IsPlanOf(objects, n, 0) /\ IsBoundTo(objects, p, n)

ObjectsInvariant ==
  /\ objectsPlan = [objects |-> objectsPlan.objects, budget |-> objectsPlan.budget,
                    spend |-> objectsPlan.spend, capabilities |-> objectsPlan.capabilities]
  /\ IsPlan(objectsPlan.objects)
  /\ objectsPackage = [status |-> objectsPackage.status, copies |-> objectsPackage.copies,
                       assets |-> objectsPackage.assets,
                       claims |-> objectsPackage.claims, checklist |-> objectsPackage.checklist]
  /\ objectsPackage.status # "none" =>
       \E n \in Nat \ {0} : Len(objectsPackage.copies) = n /\ DOMAIN objectsPackage.copies = 1..n
  /\ objectsPackage.status = "approved" => IsApprovedPlan(objectsPlan.objects, objectsPackage)
  /\ objectsManifest # <<>> =>
       /\ objectsPackage.status = "approved" /\ Objects!ExecutableMedia
       /\ objectsManifest = Objects!ManifestOperations(Objects!Levels(objectsPlan.objects))

LEMMA GeneratedIsAPlan ==
  IsPlanOf(Objects!GeneratedObjects, 1, 1)
<1>. PICK objects : objects = Objects!GeneratedObjects
  OBVIOUS
<1>1. /\ objects = [i \in 1..4 |-> objects[i]]
      /\ objects[1] = Objects!Object(Objects!Campaign, "campaign", <<>>)
      /\ objects[2] = Objects!Object(Objects!AdSet, "ad_set", <<Objects!Campaign>>)
      /\ objects[3] = Objects!Object(Objects!Creative(0), "creative", <<>>)
      /\ objects[4] = Objects!Object(Objects!Ad(0), "ad", <<Objects!AdSet, Objects!Creative(0)>>)
  BY DEF Objects!GeneratedObjects
<1>2. objects[3] = CreativeOf(0, objects[3].review, objects[3].variant)
  BY <1>1 DEF Objects!Object, CreativeOf
<1>3. \A j \in 1..1 : j = 1 /\ j - 1 = 0 /\ 2 * j + 1 = 3 /\ 2 * j + 2 = 4
  OBVIOUS
<1>4. 2 * 1 + 2 = 4
  OBVIOUS
<1>. QED
  BY <1>1, <1>2, <1>3, <1>4 DEF IsPlanOf

\* A package is bound to any plan.
LEMMA BoundIsAPlan ==
  ASSUME NEW objects, IsPlan(objects), NEW p, NEW n \in Nat \ {0},
         Len(p.copies) = n, DOMAIN p.copies = 1..n
  PROVE /\ IsPlan(Objects!BindCreativeVariants(objects, p))
        /\ Len(p.assets) = n => IsApprovedPlan(Objects!BindCreativeVariants(objects, p), p)
<1>. PICK m \in Nat \ {0}, from \in {0, 1} : IsPlanOf(objects, m, from)
  BY DEF IsPlan
<1>1. CASE Len(p.assets) = n
  <2>1. /\ IsPlanOf(Objects!BindCreativeVariants(objects, p), n, 0)
        /\ IsBoundTo(Objects!BindCreativeVariants(objects, p), p, n)
    BY <1>1, PackagesArePlans
  <2>. QED
    BY <1>1, <2>1 DEF IsPlan, IsApprovedPlan, IsPaired
<1>2. CASE Len(p.assets) # n
  <2>1. IsPlanOf(Objects!BindCreativeVariants(objects, p), m, from)
    BY <1>2, UnpairedKeepPlans
  <2>. QED
    BY <1>2, <2>1 DEF IsPlan
<1>. QED
  BY <1>1, <1>2

LEMMA ObjectsKeepInvariant ==
  ASSUME MaxItems \in Nat, ObjectsInvariant, [Objects!Next]_(Objects!vars)
  PROVE ObjectsInvariant'
<1>1. ASSUME NEW budget, NEW destination, Objects!Generate(budget, destination)
      PROVE ObjectsInvariant'
  <2>1. IsPlan(Objects!GeneratedObjects)
    BY GeneratedIsAPlan DEF IsPlan
  <2>2. /\ objectsPlan' = [objects |-> Objects!GeneratedObjects, budget |-> budget,
                    spend |-> Objects!MaximumSpend(budget),
                    capabilities |-> Objects!RequiredCapabilities(destination)]
        /\ objectsPackage' = Objects!NoPackage /\ objectsManifest' = <<>>
    BY <1>1 DEF Objects!Generate
  <2>. QED
    BY <2>1, <2>2 DEF ObjectsInvariant, Objects!NoPackage
<1>2. ASSUME NEW input \in Objects!Inputs, Objects!AppendVersion(input)
      PROVE ObjectsInvariant'
  <2>1. PICK n \in Nat \ {0} : Len(input.copies) = n /\ DOMAIN input.copies = 1..n
    <3>1. input.copies \in Objects!Lists(Copies, 1)
      BY DEF Objects!Inputs
    <3>2. PICK n \in 1..MaxItems : input.copies \in [1..n -> Copies]
      BY <3>1 DEF Objects!Lists
    <3>. QED
      BY <3>2
  <2>. PICK p : p = [status |-> "needs_review", copies |-> input.copies, assets |-> input.assets,
                     claims |-> input.claims, checklist |-> input.checklist]
    OBVIOUS
  <2>2. /\ objectsPackage' = p /\ objectsManifest' = <<>>
        /\ objectsPlan' = [objectsPlan EXCEPT !.objects = Objects!BindCreativeVariants(@, p)]
    BY <1>2 DEF Objects!AppendVersion
  <2>3. IsPlan(Objects!BindCreativeVariants(objectsPlan.objects, p))
    BY <2>1, BoundIsAPlan DEF ObjectsInvariant
  <2>4. objectsPlan' = [objects |-> Objects!BindCreativeVariants(objectsPlan.objects, p),
                        budget |-> objectsPlan.budget, spend |-> objectsPlan.spend,
                        capabilities |-> objectsPlan.capabilities]
    BY <2>2 DEF ObjectsInvariant
  <2>. QED
    BY <2>1, <2>2, <2>3, <2>4 DEF ObjectsInvariant
<1>3. ASSUME Objects!ApproveVersion
      PROVE ObjectsInvariant'
  <2>1. objectsPackage.status = "needs_review" /\ Objects!ValidationIssues(objectsPackage) = {}
        /\ objectsPackage' = [objectsPackage EXCEPT !.status = "approved"] /\ objectsManifest' = <<>>
        /\ objectsPlan' =
             [objectsPlan EXCEPT !.objects = Objects!BindCreativeVariants(@, objectsPackage')]
    BY <1>3 DEF Objects!ApproveVersion
  <2>. PICK p : p = [status |-> "approved", copies |-> objectsPackage.copies,
                     assets |-> objectsPackage.assets, claims |-> objectsPackage.claims,
                     checklist |-> objectsPackage.checklist]
    OBVIOUS
  <2>2. objectsPackage' = p
    BY <2>1 DEF ObjectsInvariant
  <2>3. Len(objectsPackage.copies) = Len(objectsPackage.assets)
    <3>. SUFFICES ASSUME Len(objectsPackage.copies) # Len(objectsPackage.assets)
                  PROVE FALSE
      OBVIOUS
    <3>1. <<"creative_variant_pairing_mismatch", "">> \in Objects!ValidationIssues(objectsPackage)
      BY DEF Objects!ValidationIssues
    <3>. QED
      BY <2>1, <3>1
  <2>4. PICK n \in Nat \ {0} : Len(objectsPackage.copies) = n /\ DOMAIN objectsPackage.copies = 1..n
    BY <2>1 DEF ObjectsInvariant
  <2>5. /\ IsPlan(Objects!BindCreativeVariants(objectsPlan.objects, p))
        /\ IsApprovedPlan(Objects!BindCreativeVariants(objectsPlan.objects, p), p)
    BY <2>3, <2>4, BoundIsAPlan DEF ObjectsInvariant
  <2>6. objectsPlan' = [objects |-> Objects!BindCreativeVariants(objectsPlan.objects, p),
                        budget |-> objectsPlan.budget, spend |-> objectsPlan.spend,
                        capabilities |-> objectsPlan.capabilities]
    BY <2>1, <2>2 DEF ObjectsInvariant
  <2>. QED
    BY <2>1, <2>2, <2>4, <2>5, <2>6 DEF ObjectsInvariant
<1>4. ASSUME Objects!PrepareManifest
      PROVE ObjectsInvariant'
  <2>1. /\ Objects!ExecutableMedia /\ objectsPackage.status = "approved"
        /\ UNCHANGED <<objectsPlan, objectsPackage>>
        /\ objectsManifest' = Objects!ManifestOperations(
                                Objects!OperationSequence(objectsPlan.objects).operations)
    BY <1>4 DEF Objects!PrepareManifest, Objects!ObjectsReady
  <2>2. PICK n \in Nat \ {0} : IsPlanOf(objectsPlan.objects, n, 0)
    BY <2>1 DEF ObjectsInvariant, IsApprovedPlan
  <2>3. Objects!OperationSequence(objectsPlan.objects).operations = Objects!Levels(objectsPlan.objects)
    <3>. PICK objects, X : objects = objectsPlan.objects /\ X = {objects[i] : i \in 1..(2 * n + 2)}
      OBVIOUS
    <3>1. objects \in Seq(X) /\ IsPlanOf(objects, n, 0)
      BY <2>2, PlanIsASequence
    <3>2. Objects!OperationSequence(objects)
            = [valid |-> TRUE, operations |-> Objects!Levels(objects)]
      BY <3>1, OperationsAreTheLevels
    <3>. QED
      BY <3>2
  <2>. QED
    BY <2>1, <2>3 DEF ObjectsInvariant, Objects!ExecutableMedia
<1>5. CASE UNCHANGED Objects!vars
  BY <1>5 DEF Objects!vars, ObjectsInvariant, Objects!ExecutableMedia
<1>. QED
  BY <1>1, <1>2, <1>3, <1>4, <1>5 DEF Objects!Next

LEMMA ObjectsAreCorrect ==
  ASSUME ObjectsInvariant
  PROVE Objects!CanBeOrdered /\ Objects!AdsAndCreativesPair /\ Objects!ManifestCreatesApprovedPairs
<1>. PICK objects : objects = objectsPlan.objects
  OBVIOUS
<1>1. PICK n \in Nat \ {0}, from \in {0, 1} : IsPlanOf(objects, n, from)
  BY DEF ObjectsInvariant, IsPlan
<1>2. Objects!CanBeOrdered
  BY <1>1, PlanIsASequence, PlanCanBeOrdered
<1>3. Objects!AdsAndCreativesPair
  BY <1>1, PlanIsPaired
<1>4. ASSUME objectsManifest # <<>>
      PROVE Objects!ManifestCreatesApprovedPairs
  <2>1. /\ objectsPackage.status = "approved" /\ Objects!ExecutableMedia
        /\ objectsManifest = Objects!ManifestOperations(Objects!Levels(objects))
        /\ IsApprovedPlan(objects, objectsPackage)
    BY <1>4 DEF ObjectsInvariant
  <2>2. PICK m \in Nat \ {0} : IsPaired(objectsPackage, m) /\ IsPlanOf(objects, m, 0)
                               /\ IsBoundTo(objects, objectsPackage, m)
    BY <2>1 DEF IsApprovedPlan
  <2>. PICK made : made = Objects!Only(objectsManifest,
                            {o \in Objects!Range(objectsManifest) : o.type = "creative"})
    OBVIOUS
  <2>3. Len(made) = m /\ DOMAIN made = 1..m
        /\ \A k \in 1..m : made[k].variant = objects[2 * k + 1].variant
    BY <2>1, <2>2, ManifestHasItsCreatives
  <2>4. \A k \in 1..m : made[k].variant = [copy |-> objectsPackage.copies[k].id,
                                           asset |-> objectsPackage.assets[k].id,
                                           https |-> objectsPackage.assets[k].https]
    BY <2>2, <2>3 DEF IsBoundTo
  <2>5. \A k \in 1..m : made[k].variant.https
    <3>1. \A k \in 1..m : 2 * k + 1 \in 1..(2 * m + 2)
      OBVIOUS
    <3>2. DOMAIN objects = 1..(2 * m + 2)
      BY <2>2 DEF IsPlanOf
    <3>3. \A i \in DOMAIN objects : objects[i] \in Objects!Range(objects)
      BY DEF Objects!Range
    <3>4. ASSUME NEW k \in 1..m
          PROVE objects[2 * k + 1] \in Objects!Range(objects) /\ objects[2 * k + 1].type = "creative"
      <4>. PICK c : c = objects[2 * k + 1]
        OBVIOUS
      <4>1. c = CreativeOf(k - 0, c.review, c.variant)
        BY <2>2 DEF IsPlanOf
      <4>2. c.type = "creative"
        BY <4>1 DEF CreativeOf
      <4>. QED
        BY <3>1, <3>2, <3>3, <4>2
    <3>5. \A o \in Objects!Range(objects) : o.type = "creative" => o.variant.https
      BY <2>1 DEF Objects!ExecutableMedia
    <3>6. \A k \in 1..m : objects[2 * k + 1].variant.https
      BY <3>4, <3>5
    <3>. QED
      BY <2>3, <3>6
  <2>6. Len(made) = Len(objectsPackage.copies)
    BY <2>2, <2>3 DEF IsPaired
  <2>. QED
    <3>1. /\ objectsPackage.status = "approved" /\ Len(made) = Len(objectsPackage.copies)
          /\ \A i \in DOMAIN made : /\ made[i].variant.copy = objectsPackage.copies[i].id
                                   /\ made[i].variant.asset = objectsPackage.assets[i].id
                                   /\ made[i].variant.https
      <4>1. ASSUME NEW i \in 1..m
            PROVE made[i].variant.copy = objectsPackage.copies[i].id
                  /\ made[i].variant.asset = objectsPackage.assets[i].id
        <5>. PICK copy, asset, https : /\ copy = objectsPackage.copies[i].id
                                      /\ asset = objectsPackage.assets[i].id
                                      /\ https = objectsPackage.assets[i].https
          OBVIOUS
        <5>1. made[i].variant = [copy |-> copy, asset |-> asset, https |-> https]
          BY <2>4
        <5>. QED
          BY <5>1
      <4>2. DOMAIN made = 1..m
        BY <2>3
      <4>. QED
        BY <2>1, <2>5, <2>6, <4>1, <4>2
    <3>. QED
      BY <3>1, Zenon DEF Objects!ManifestCreatesApprovedPairs
<1>5. objectsManifest = <<>> => Objects!ManifestCreatesApprovedPairs
  BY DEF Objects!ManifestCreatesApprovedPairs
<1>. QED
  BY <1>2, <1>3, <1>4, <1>5

\* Whatever packages were bound to a plan and in whatever order they were approved, its objects
\* can be created in the order of the dry run, each ad has a creative of its own, and a manifest
\* creates exactly the approved pairs of text and media: operationSequence, bindCreativeVariants
\* and the operations of prepareManifest, for lists of any length.
THEOREM PlansAreExecutable ==
  Objects!NumberAssumption
    => (Objects!Spec => [](/\ Objects!CanBeOrdered /\ Objects!AdsAndCreativesPair
                           /\ Objects!ManifestCreatesApprovedPairs))
<1>. SUFFICES ASSUME Objects!NumberAssumption
              PROVE Objects!Spec => [](/\ Objects!CanBeOrdered /\ Objects!AdsAndCreativesPair
                                       /\ Objects!ManifestCreatesApprovedPairs)
  OBVIOUS
<1>1. Objects!Init => ObjectsInvariant
  <2>1. IsPlan(Objects!GeneratedObjects)
    BY GeneratedIsAPlan DEF IsPlan
  <2>. QED
    BY <2>1 DEF Objects!Init, ObjectsInvariant, Objects!NoPackage
<1>2. ObjectsInvariant /\ [Objects!Next]_(Objects!vars) => ObjectsInvariant'
  <2>1. MaxItems \in Nat
    BY DEF Objects!NumberAssumption
  <2>. QED
    BY <2>1, ObjectsKeepInvariant
<1>3. ObjectsInvariant => /\ Objects!CanBeOrdered /\ Objects!AdsAndCreativesPair
                          /\ Objects!ManifestCreatesApprovedPairs
  BY ObjectsAreCorrect
<1>. QED
  BY <1>1, <1>2, <1>3, PTL DEF Objects!Spec
=============================================================================
