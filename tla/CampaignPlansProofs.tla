------------------------ MODULE CampaignPlansProofs ------------------------
(***************************************************************************)
(* What is decided about plans, creatives and approvals stays decided, for *)
(* every number of requests, plans, versions and approvals; and what the   *)
(* orchestrator does by itself rests on those decisions.                   *)
(***************************************************************************)
EXTENDS Ecosystem, WellFoundedInduction, SequenceTheorems, TLAPS

-----------------------------------------------------------------------------
(* The inductive invariant.                                                *)

\* Version v was approved at some time.
Decided(v) == v \in DOMAIN packages /\ packages[v].status # "needs_review"

\* Plan p, stored or about to be, is derived from a plan stored before.
Derived(p, n) ==
  /\ p.source \in 0..n /\ p.stamp <= builds
  /\ p.reviewed => Decided(p.version)

\* What a request relies on at each of its awaits.
ReliesOn(q) ==
  /\ q \in Request
  /\ q.pc \in {"binding", "appending", "inserting", "requesting", "reviewing",
               "invalidating"} => q.plan \in DOMAIN plans
  /\ q.pc \in {"reading", "refreshing"} /\ q.op = "simulate" => q.plan \in DOMAIN plans
  /\ q.pc \in {"reading", "refreshing", "deciding", "reviewing"} => q.id \in DOMAIN approvals
  /\ q.pc \in {"approvingCreative", "deriving", "rebinding"}
       => q.id \in DOMAIN packages /\ plans # <<>>
  /\ q.pc \in {"appending", "inserting"} => q.arg \in Contents
  /\ q.pc = "binding" => q.arg \in Targets
  /\ q.pc = "saving" => Derived(q.new, Len(plans))
  /\ q.pc \in {"deriving", "rebinding"} => Decided(q.id)
  /\ q.pc = "approvingCreative" => packages[q.id].content \in CleanContents
  /\ q.pc = "inserting" => \A v \in q.seen : Decided(v)
  /\ q.pc \in {"refreshing", "deciding", "reviewing"} /\ q.copy = "approved"
       => approvals[q.id].granted

\* A report names a granted approval of its plan and a decided version.
Backed(rep) ==
  /\ rep.plan \in DOMAIN plans /\ plans[rep.plan].target # NoTarget
  /\ rep.approval \in DOMAIN approvals
  /\ approvals[rep.approval].plan = rep.plan /\ approvals[rep.approval].granted
  /\ Decided(rep.version)

Stored ==
  /\ plans \in Seq(Plan) /\ packages \in Seq(Package) /\ approvals \in Seq(Approval)
  /\ late \subseteq DOMAIN approvals /\ builds \in Nat /\ reports \subseteq Report

TablesInvariant ==
  /\ Stored
  /\ \A i \in DOMAIN plans : Derived(plans[i], i - 1)
  /\ \A i, j \in DOMAIN plans :
       plans[i].source = plans[j].source /\ plans[i].change = plans[j].change => i = j
  /\ \A v \in DOMAIN packages : packages[v].plan \in DOMAIN plans
  /\ \A v \in DOMAIN packages : Decided(v) => packages[v].content \in CleanContents
  /\ OneApprovedVersion
  /\ \A i \in DOMAIN approvals :
       approvals[i].status \in {"approved", "revoked"} => approvals[i].granted
  /\ OneActivePerPlan
  /\ \A rep \in reports : Backed(rep)

PlansInvariant ==
  /\ TablesInvariant
  /\ request \in [Requests -> Request]
  /\ \A r \in Requests : ReliesOn(request[r])

-----------------------------------------------------------------------------
(* The latest plan.                                                        *)

\* A non-empty set of bounded numbers has a greatest element.
LEMMA Greatest ==
  ASSUME NEW n \in Nat, NEW T, T # {}, T \subseteq 0..n
  PROVE  \E x \in T : \A y \in T : y <= x
<1> DEFINE U == {n - x : x \in T}
<1>1. \A x \in T : n - x \in Nat OBVIOUS
<1>2. U \subseteq Nat BY <1>1
<1>3. U # {} OBVIOUS
<1>4. PICK u \in U : \A w \in U : ~ (<<w, u>> \in OpToRel(<, Nat))
  BY <1>2, <1>3, NatLessThanWellFounded, WFMin
<1>5. \A w \in U : ~ (w < u) BY <1>2, <1>4 DEF OpToRel
<1>6. PICK x \in T : u = n - x OBVIOUS
<1>7. \A y \in T : n - y \in U OBVIOUS
<1>8. \A y \in T : ~ (n - y < n - x) BY <1>5, <1>6, <1>7
<1> QED BY <1>8

LEMMA LatestStored ==
  ASSUME PlansInvariant, plans # <<>>
  PROVE  Latest \in DOMAIN plans
<1> DEFINE T == {plans[i].stamp : i \in DOMAIN plans}
<1>1. /\ plans \in Seq(Plan) /\ builds \in Nat
      /\ \A i \in DOMAIN plans : plans[i] \in Plan /\ plans[i].stamp <= builds
  BY ElementOfSeq DEF PlansInvariant, TablesInvariant, Stored, Derived
<1>2. \A i \in DOMAIN plans : plans[i].stamp \in 0..builds BY <1>1 DEF Plan
<1>3. T \subseteq 0..builds BY <1>2
<1>4. 1 \in DOMAIN plans
  <2>1. Len(plans) \in Nat /\ DOMAIN plans = 1..Len(plans) BY <1>1, LenProperties
  <2>2. Len(plans) # 0 BY <1>1, EmptySeq
  <2> QED BY <2>1, <2>2
<1>5. T # {} BY <1>4
<1>6. PICK x \in T : \A y \in T : y <= x
  <2> HIDE DEF T
  <2> QED BY <1>1, <1>3, <1>5, Greatest
<1>7. PICK i \in DOMAIN plans : x = plans[i].stamp OBVIOUS
<1>8. \A j \in DOMAIN plans : plans[j].stamp <= plans[i].stamp BY <1>6, <1>7
<1> QED BY <1>8 DEF Latest

-----------------------------------------------------------------------------
(* Tables only grow, and what a request relies on stays.                    *)

Grows ==
  /\ Len(plans) <= Len(plans')
  /\ \A i \in DOMAIN plans : i \in DOMAIN plans' /\ plans'[i] = plans[i]
  /\ \A v \in DOMAIN packages :
       /\ v \in DOMAIN packages' /\ packages'[v].content = packages[v].content
       /\ packages[v].status # "needs_review" => packages'[v].status # "needs_review"
  /\ \A i \in DOMAIN approvals :
       /\ i \in DOMAIN approvals' /\ approvals'[i].plan = approvals[i].plan
       /\ approvals[i].granted => approvals'[i].granted
  /\ builds <= builds'

LEMMA Lengths ==
  ASSUME Stored
  PROVE  /\ Len(plans) \in Nat /\ DOMAIN plans = 1..Len(plans)
         /\ Len(packages) \in Nat /\ DOMAIN packages = 1..Len(packages)
         /\ Len(approvals) \in Nat /\ DOMAIN approvals = 1..Len(approvals)
         /\ \A i \in DOMAIN plans : plans[i] \in Plan
         /\ \A v \in DOMAIN packages : packages[v] \in Package
         /\ \A i \in DOMAIN approvals : approvals[i] \in Approval
         /\ plans # <<>> <=> Len(plans) # 0
BY LenProperties, ElementOfSeq, EmptySeq DEF Stored

\* A table after an insert.
LEMMA Appended ==
  ASSUME NEW T, NEW s \in Seq(T), NEW e \in T, NEW t, t = Append(s, e)
  PROVE  /\ t \in Seq(T) /\ Len(t) = Len(s) + 1 /\ Len(s) \in Nat
         /\ DOMAIN s = 1..Len(s) /\ DOMAIN t = 1..(Len(s) + 1)
         /\ t[Len(s) + 1] = e /\ \A i \in 1..Len(s) : t[i] = s[i]
<1>1. /\ t \in Seq(T) /\ Len(t) = Len(s) + 1
      /\ t[Len(s) + 1] = e /\ \A i \in 1..Len(s) : t[i] = s[i]
  BY AppendProperties
<1>2. Len(s) \in Nat /\ DOMAIN s = 1..Len(s) /\ DOMAIN t = 1..Len(t)
  BY <1>1, LenProperties
<1> QED BY <1>1, <1>2

LEMMA DerivedPersists ==
  ASSUME Stored, Stored', Grows, NEW p \in Plan, NEW n \in Nat, NEW m \in Nat, n <= m,
         Derived(p, n)
  PROVE  Derived(p, m)'
<1>1. /\ p.stamp \in Nat /\ p.stamp <= builds /\ builds <= builds'
      /\ builds \in Nat /\ builds' \in Nat
  BY DEF Derived, Grows, Stored, Plan
<1>2. p.stamp <= builds' BY <1>1
<1>3. p.source \in 0..m BY DEF Derived, Plan
<1>4. p.reviewed => Decided(p.version)' BY DEF Derived, Decided, Grows
<1> QED BY <1>2, <1>3, <1>4 DEF Derived

LEMMA ReliancePersists ==
  ASSUME Stored, Stored', Grows, NEW q, ReliesOn(q)
  PROVE  ReliesOn(q)'
<1>1. q \in Request BY DEF ReliesOn
<1>2. q.pc \in {"approvingCreative", "deriving", "rebinding"} => plans' # <<>>
  <2>1. plans # <<>> => plans' # <<>>
    <3>1. /\ Len(plans) \in Nat /\ Len(plans') \in Nat /\ Len(plans) <= Len(plans')
          /\ plans # <<>> <=> Len(plans) # 0
      BY Lengths, LenProperties DEF Stored, Grows
    <3>2. plans' # <<>> <=> Len(plans') # 0 BY EmptySeq DEF Stored
    <3> QED BY <3>1, <3>2
  <2> QED BY <2>1 DEF ReliesOn
<1>3. q.pc = "saving" => Derived(q.new, Len(plans))'
  <2> SUFFICES ASSUME q.pc = "saving" PROVE Derived(q.new, Len(plans))' OBVIOUS
  <2> PICK m : m = Len(plans') OBVIOUS
  <2> PICK n : n = Len(plans) OBVIOUS
  <2>1. n \in Nat /\ m \in Nat /\ n <= m BY LenProperties DEF Stored, Grows
  <2>2. q.new \in Plan BY <1>1 DEF Request
  <2>4. Derived(q.new, n) BY DEF ReliesOn, Derived
  <2>3. Derived(q.new, m)' BY <1>1, <2>1, <2>2, <2>4, DerivedPersists
  <2> QED BY <2>3 DEF Derived
<1>4. \A v : Decided(v) => Decided(v)' BY DEF Decided, Grows
<1>5. /\ q.pc = "inserting" => \A v \in q.seen : Decided(v)'
      /\ q.pc \in {"deriving", "rebinding"} => Decided(q.id)'
  BY <1>4 DEF ReliesOn
<1>6. /\ q.pc \in {"binding", "appending", "inserting", "requesting", "reviewing",
                   "invalidating"} => q.plan \in DOMAIN plans'
      /\ q.pc \in {"reading", "refreshing"} /\ q.op = "simulate" => q.plan \in DOMAIN plans'
  BY DEF ReliesOn, Grows
<1>7. /\ q.pc \in {"reading", "refreshing", "deciding", "reviewing"}
           => q.id \in DOMAIN approvals'
      /\ q.pc \in {"refreshing", "deciding", "reviewing"} /\ q.copy = "approved"
           => approvals'[q.id].granted
  BY DEF ReliesOn, Grows
<1>8. /\ q.pc \in {"approvingCreative", "deriving", "rebinding"} => q.id \in DOMAIN packages'
      /\ q.pc = "approvingCreative" => packages'[q.id].content \in CleanContents
  BY DEF ReliesOn, Grows
<1>9. /\ q.pc \in {"appending", "inserting"} => q.arg \in Contents
      /\ q.pc = "binding" => q.arg \in Targets
  BY DEF ReliesOn
<1> QED BY <1>1, <1>2, <1>3, <1>5, <1>6, <1>7, <1>8, <1>9 DEF ReliesOn

LEMMA BackedPersists ==
  ASSUME Stored, Grows, NEW rep, Backed(rep)
  PROVE  Backed(rep)'
<1>1. Decided(rep.version)' BY DEF Backed, Decided, Grows
<1> QED BY <1>1 DEF Backed, Grows

\* A step of request r that leaves the tables right.
LEMMA StepKeepsInvariant ==
  ASSUME PlansInvariant, TablesInvariant', Grows, NEW r \in Requests, NEW local,
         request' = [request EXCEPT ![r] = local], ReliesOn(local)'
  PROVE  PlansInvariant' /\ Grows
<1>1. Stored /\ Stored' BY DEF PlansInvariant, TablesInvariant
<1>2. local \in Request BY DEF ReliesOn
<1>3. /\ request' \in [Requests -> Request] /\ request'[r] = local
      /\ \A s \in Requests \ {r} : request'[s] = request[s]
  BY <1>2 DEF PlansInvariant
<1>4. ASSUME NEW s \in Requests PROVE ReliesOn(request[s])'
  <2>1. CASE s = r
    <3> PICK q : q = request'[s] OBVIOUS
    <3>1. ReliesOn(q)' BY <1>3, <2>1
    <3> QED BY <3>1 DEF ReliesOn
  <2>2. CASE s # r
    <3> PICK q : q = request[s] OBVIOUS
    <3>1. ReliesOn(q) BY DEF PlansInvariant
    <3>2. ReliesOn(q)' BY <1>1, <3>1, ReliancePersists
    <3>3. request'[s] = q BY <1>3, <2>2
    <3> QED BY <3>2, <3>3 DEF ReliesOn
  <2> QED BY <2>1, <2>2
<1> QED BY <1>3, <1>4 DEF PlansInvariant

LEMMA IdleRelies == ReliesOn(Idle) /\ ReliesOn(Idle)'
<1>1. NoPlan \in Plan BY DEF NoPlan, Plan, Change
<1>2. Idle \in Request BY <1>1 DEF Idle, Request, PC, Operation, Status
<1>3. Idle.pc = "idle" BY DEF Idle
<1> QED BY <1>2, <1>3 DEF ReliesOn

\* A step that changes no table, other than the clock.
LEMMA LocalStep ==
  ASSUME PlansInvariant, NEW r \in Requests, NEW local,
         Goto(r, local), UNCHANGED <<plans, packages, approvals, late, reports>>,
         builds' \in Nat, builds <= builds', ReliesOn(local)'
  PROVE  PlansInvariant' /\ Grows
<1>1. Stored BY DEF PlansInvariant, TablesInvariant
<1>2. Stored' BY <1>1 DEF Stored
<1>3. Grows BY <1>1, Lengths DEF Grows
<1>4. ASSUME NEW i \in DOMAIN plans PROVE Derived(plans[i], i - 1)'
  <2> PICK p : p = plans[i] OBVIOUS
  <2>1. p \in Plan /\ i \in Nat /\ i - 1 \in Nat BY <1>1, Lengths
  <2>2. Derived(p, i - 1) BY DEF PlansInvariant, TablesInvariant, Derived
  <2>3. Derived(p, i - 1)' BY <1>1, <1>2, <1>3, <2>1, <2>2, DerivedPersists
  <2> QED BY <2>3 DEF Derived
<1>5. TablesInvariant'
  <2>1. \A v : Decided(v)' <=> Decided(v) BY DEF Decided
  <2>2. \A rep \in reports : Backed(rep)' BY <2>1 DEF PlansInvariant, TablesInvariant, Backed
  <2> QED BY <1>2, <1>4, <2>1, <2>2
          DEF PlansInvariant, TablesInvariant, OneApprovedVersion, OneActivePerPlan
<1> QED BY <1>3, <1>5, StepKeepsInvariant DEF Goto

LEMMA ReturnStep ==
  ASSUME PlansInvariant, NEW r \in Requests, Return(r),
         UNCHANGED <<plans, packages, approvals, late, builds, reports>>
  PROVE  PlansInvariant' /\ Grows
<1>1. builds' \in Nat /\ builds <= builds' BY DEF PlansInvariant, TablesInvariant, Stored
<1>2. Goto(r, Idle) BY DEF Return
<1> QED BY <1>1, <1>2, IdleRelies, LocalStep

LEMMA GotoStep ==
  ASSUME PlansInvariant, NEW r \in Requests, NEW local, ReliesOn(local), Goto(r, local),
         UNCHANGED <<plans, packages, approvals, late, builds, reports>>
  PROVE  PlansInvariant' /\ Grows
<1>1. builds' \in Nat /\ builds <= builds' BY DEF PlansInvariant, TablesInvariant, Stored
<1>2. ReliesOn(local)' BY DEF ReliesOn, Derived, Decided
<1> QED BY <1>1, <1>2, LocalStep

LEMMA BuildStep ==
  ASSUME PlansInvariant, NEW r \in Requests, NEW local \in Request, NEW new \in Plan,
         Derived(new, Len(plans)), StampAndSave(r, local, new),
         UNCHANGED <<plans, packages, approvals, late, reports>>
  PROVE  PlansInvariant' /\ Grows
<1>1. builds \in Nat BY DEF PlansInvariant, TablesInvariant, Stored
<1>2. CASE builds' = builds + 1 /\ builds < MaxBuilds
  <2> PICK n : n = builds + 1 OBVIOUS
  <2> DEFINE stamped == [new EXCEPT !.stamp = n]
             next == [local EXCEPT !.pc = "saving", !.new = stamped]
  <2>1. /\ stamped \in Plan /\ stamped.stamp = n /\ stamped.source = new.source
        /\ stamped.reviewed = new.reviewed /\ stamped.version = new.version
    BY <1>1 DEF Plan
  <2>2. Goto(r, next) BY <1>1, <1>2 DEF StampAndSave
  <2>3. Derived(stamped, Len(plans))'
    BY <1>1, <1>2, <2>1 DEF Derived, Decided
  <2>4. next \in Request /\ next.pc = "saving" /\ next.new = stamped
    BY <2>1 DEF Request, PC
  <2> HIDE DEF stamped, next
  <2>5. ReliesOn(next)'
    <3> PICK x : x = next OBVIOUS
    <3> QED BY <2>3, <2>4 DEF ReliesOn
  <2> QED BY <1>1, <1>2, <2>2, <2>5, LocalStep
<1>3. CASE ~ (builds' = builds + 1 /\ builds < MaxBuilds)
  BY <1>3, ReturnStep DEF StampAndSave
<1> QED BY <1>2, <1>3

-----------------------------------------------------------------------------
(* Plans.                                                                  *)

\* A plan derived from the stored plan i.
LEMMA BuildFromStored ==
  ASSUME PlansInvariant, NEW r \in Requests, NEW i \in DOMAIN plans, NEW change \in Change,
         NEW target \in Targets \cup {NoTarget}, NEW version \in Nat, NEW reviewed \in BOOLEAN,
         reviewed => Decided(version),
         Build(r, i, change, target, version, reviewed),
         UNCHANGED <<plans, packages, approvals, late, reports>>
  PROVE  PlansInvariant' /\ Grows
<1> PICK q : q = request[r] OBVIOUS
<1> DEFINE new == [source |-> i, change |-> change, stamp |-> 0,
                   target |-> target, version |-> version, reviewed |-> reviewed]
           local == [q EXCEPT !.plan = i]
<1>1. /\ Stored /\ q \in Request /\ builds \in Nat
      /\ i \in 1..Len(plans) /\ Len(plans) \in Nat
  BY Lengths DEF PlansInvariant, TablesInvariant, Stored
<1>2. new \in Plan BY <1>1 DEF Plan
<1>3. Derived(new, Len(plans)) BY <1>1 DEF Derived
<1>4. local \in Request BY <1>1 DEF Request
<1>5. StampAndSave(r, local, new) BY DEF Build
<1> HIDE DEF new, local
<1> QED BY <1>2, <1>3, <1>4, <1>5, BuildStep

LEMMA GenerateStep ==
  ASSUME PlansInvariant, NEW r \in Requests, NEW c \in Contexts, Generate(r, c)
  PROVE  PlansInvariant' /\ Grows
<1> DEFINE new == [NoPlan EXCEPT !.change = [kind |-> "context", value |-> c, status |-> "none"]]
           local == [Idle EXCEPT !.op = "generate"]
<1>1. new \in Plan /\ new.source = 0 /\ new.stamp = 0 /\ new.reviewed = FALSE
  BY DEF NoPlan, Plan, Change
<1>2. Stored /\ builds \in Nat /\ Len(plans) \in Nat
  BY Lengths DEF PlansInvariant, TablesInvariant, Stored
<1>3. Derived(new, Len(plans)) BY <1>1, <1>2 DEF Derived
<1>4. Idle \in Request BY IdleRelies DEF ReliesOn
<1>5. local \in Request BY <1>4 DEF Request, Operation
<1>6. StampAndSave(r, local, new) BY DEF Generate
<1> HIDE DEF new, local
<1> QED BY <1>1, <1>3, <1>5, <1>6, BuildStep DEF Generate

LEMMA StartOnPlanStep ==
  ASSUME PlansInvariant, NEW r \in Requests, NEW op \in Operation,
         NEW pc \in {"binding", "appending", "requesting", "reading"},
         NEW local \in Request, StartOnPlan(r, op, pc, local),
         pc = "binding" => local.arg \in Targets,
         pc = "appending" => local.arg \in Contents,
         pc = "reading" => local.id \in DOMAIN approvals
  PROVE  PlansInvariant' /\ Grows
<1> PICK n : n = Latest OBVIOUS
<1> DEFINE next == [local EXCEPT !.pc = pc, !.op = op, !.plan = n]
<1>1. n \in DOMAIN plans BY LatestStored DEF StartOnPlan
<1>2. n \in Nat BY <1>1, Lengths DEF PlansInvariant, TablesInvariant
<1>3. /\ next \in Request /\ next.pc = pc /\ next.plan = n /\ next.arg = local.arg
      /\ next.id = local.id
  BY <1>2 DEF Request, PC
<1>4. Goto(r, next) BY DEF StartOnPlan
<1> HIDE DEF next
<1>5. ReliesOn(next) BY <1>1, <1>3 DEF ReliesOn
<1> QED BY <1>4, <1>5, GotoStep DEF StartOnPlan

LEMMA SaveStep ==
  ASSUME PlansInvariant, NEW r \in Requests, Save(r)
  PROVE  PlansInvariant' /\ Grows
<1> PICK q : q = request[r] OBVIOUS
<1> DEFINE goOn(i) == IF q.op = "generate" THEN Idle
                      ELSE [q EXCEPT !.pc = "invalidating", !.plan = i]
<1>1. /\ Stored /\ q \in Request /\ q.pc = "saving" /\ q.new \in Plan
      /\ builds \in Nat /\ Len(plans) \in Nat /\ DOMAIN plans = 1..Len(plans)
  BY Lengths DEF PlansInvariant, TablesInvariant, Stored, Save, Request
<1>2. ASSUME NEW i \in Nat
      PROVE  /\ i \in DOMAIN plans => ReliesOn(goOn(i))
             /\ i \in DOMAIN plans' => ReliesOn(goOn(i))'
  <2>1. CASE q.op = "generate" BY <2>1, IdleRelies
  <2>2. CASE q.op # "generate"
    <3> DEFINE next == [q EXCEPT !.pc = "invalidating", !.plan = i]
    <3>1. next \in Request /\ next.pc = "invalidating" /\ next.plan = i
      BY <1>1 DEF Request, PC
    <3> HIDE DEF next
    <3>2. /\ i \in DOMAIN plans => ReliesOn(next)
          /\ i \in DOMAIN plans' => ReliesOn(next)'
      BY <3>1 DEF ReliesOn
    <3> QED BY <2>2, <3>2 DEF next
  <2> QED BY <2>1, <2>2
<1>3. CASE \E i \in Persisted(q.new) : Goto(r, goOn(i)) /\ UNCHANGED plans
  <2> PICK i \in Persisted(q.new) : Goto(r, goOn(i)) /\ UNCHANGED plans BY <1>3
  <2>1. i \in DOMAIN plans /\ i \in Nat BY <1>1 DEF Persisted
  <2>2. ReliesOn(goOn(i)) BY <1>2, <2>1
  <2>3. UNCHANGED <<packages, approvals, late, builds, reports>> BY DEF Save
  <2> HIDE DEF goOn
  <2> QED BY <2>2, <2>3, GotoStep
<1>4. CASE Persisted(q.new) = {} /\ plans' = Append(plans, q.new) /\ Goto(r, goOn(Len(plans) + 1))
  <2> PICK n : n = Len(plans) OBVIOUS
  <2>1. /\ plans' \in Seq(Plan) /\ Len(plans') = n + 1 /\ DOMAIN plans' = 1..(n + 1)
        /\ plans'[n + 1] = q.new /\ \A i \in DOMAIN plans : plans'[i] = plans[i]
        /\ DOMAIN plans = 1..n /\ n \in Nat
    <3>1. plans \in Seq(Plan) BY <1>1 DEF Stored
    <3>2. /\ plans' \in Seq(Plan) /\ Len(plans') = n + 1
          /\ plans'[n + 1] = q.new /\ \A i \in 1..n : plans'[i] = plans[i]
      BY <1>1, <1>4, <3>1, AppendProperties
    <3> QED BY <1>1, <3>2, LenProperties
  <2>2. UNCHANGED <<packages, approvals, late, builds, reports>> BY DEF Save
  <2>3. Stored' BY <1>1, <2>1, <2>2 DEF Stored
  <2>4. Grows BY <1>1, <2>1, <2>2 DEF Grows
  <2>5. ASSUME NEW i \in DOMAIN plans' PROVE Derived(plans[i], i - 1)'
    <3>1. \A v : Decided(v)' <=> Decided(v) BY <2>2 DEF Decided
    <3>2. CASE i = n + 1
      <4>1. Derived(q.new, n) BY <1>1 DEF PlansInvariant, ReliesOn, Derived
      <4>2. q.new = plans'[i] /\ i - 1 = n BY <2>1, <3>2
      <4> QED BY <2>2, <3>1, <4>1, <4>2 DEF Derived
    <3>3. CASE i \in DOMAIN plans
      <4>1. Derived(plans[i], i - 1) BY <3>3 DEF PlansInvariant, TablesInvariant
      <4> QED BY <2>1, <2>2, <3>1, <3>3, <4>1 DEF Derived
    <3> QED BY <2>1, <3>2, <3>3
  <2>6. ASSUME NEW i \in DOMAIN plans', NEW j \in DOMAIN plans',
               plans'[i].source = plans'[j].source, plans'[i].change = plans'[j].change
        PROVE  i = j
    <3>1. \A k \in DOMAIN plans : ~ (plans[k].source = q.new.source
                                   /\ plans[k].change = q.new.change)
      BY <1>4 DEF Persisted
    <3>2. \A k, l \in DOMAIN plans :
            plans[k].source = plans[l].source /\ plans[k].change = plans[l].change => k = l
      BY DEF PlansInvariant, TablesInvariant
    <3> QED BY <2>1, <2>6, <3>1, <3>2
  <2>7. \A rep \in reports' : Backed(rep)'
    BY <1>1, <2>2, <2>4, BackedPersists DEF PlansInvariant, TablesInvariant
  <2>8. \A v \in DOMAIN packages' : packages'[v].plan \in DOMAIN plans'
    BY <2>1, <2>2 DEF PlansInvariant, TablesInvariant
  <2>11. TablesInvariant'
    BY <2>2, <2>3, <2>5, <2>6, <2>7, <2>8
       DEF PlansInvariant, TablesInvariant, OneApprovedVersion, OneActivePerPlan, Decided
  <2> PICK k : k = n + 1 OBVIOUS
  <2>9. ReliesOn(goOn(k))'
    <3>1. k \in Nat /\ k \in DOMAIN plans' BY <2>1
    <3> QED BY <1>2, <3>1
  <2>10. Goto(r, goOn(k)) BY <1>4
  <2> HIDE DEF goOn
  <2> QED BY <2>4, <2>11, <2>9, <2>10, StepKeepsInvariant DEF Goto
<1> QED
  <2>1. \/ Persisted(q.new) = {} /\ plans' = Append(plans, q.new) /\ Goto(r, goOn(Len(plans) + 1))
        \/ \E i \in Persisted(q.new) : Goto(r, goOn(i)) /\ UNCHANGED plans
    BY DEF Save, Return
  <2> QED BY <1>3, <1>4, <2>1

LEMMA BindStep ==
  ASSUME PlansInvariant, NEW r \in Requests, Bind(r)
  PROVE  PlansInvariant' /\ Grows
<1> PICK q : q = request[r] OBVIOUS
<1>1. /\ Stored /\ ReliesOn(q) /\ q \in Request /\ q.pc = "binding"
      /\ q.plan \in DOMAIN plans /\ q.arg \in Targets
  BY DEF PlansInvariant, TablesInvariant, Bind, ReliesOn
<1>2. CASE plans[q.plan].target = q.arg
  <2> DEFINE next == [q EXCEPT !.pc = "invalidating"]
  <2>1. next \in Request /\ next.pc = "invalidating" /\ next.plan = q.plan
    BY <1>1 DEF Request, PC
  <2>2. Goto(r, next) /\ UNCHANGED <<plans, packages, approvals, late, builds, reports>>
    BY <1>2 DEF Bind
  <2> HIDE DEF next
  <2>3. ReliesOn(next) BY <1>1, <2>1 DEF ReliesOn
  <2> QED BY <2>2, <2>3, GotoStep
<1>3. CASE plans[q.plan].target # q.arg
  <2> PICK s : s = plans[q.plan] OBVIOUS
  <2> DEFINE change == [kind |-> "target", value |-> q.arg, status |-> "none"]
  <2>1. s \in Plan BY <1>1, Lengths
  <2>2. s.version \in Nat /\ s.reviewed \in BOOLEAN BY <2>1 DEF Plan
  <2>3. s.reviewed => Decided(s.version)
    BY <1>1 DEF PlansInvariant, TablesInvariant, Derived
  <2>4. change \in Change BY <1>1 DEF Change
  <2>5. Build(r, q.plan, change, q.arg, s.version, s.reviewed)
    BY <1>3 DEF Bind
  <2> HIDE DEF change
  <2> QED BY <1>1, <2>2, <2>3, <2>4, <2>5, BuildFromStored DEF Bind
<1> QED BY <1>2, <1>3

-----------------------------------------------------------------------------
(* Approvals.                                                              *)

LEMMA EndedRows ==
  ASSUME Stored, NEW rows, NEW status \in Status
  PROVE  LET new == EndRows(rows, status)
         IN  /\ new \in Seq(Approval) /\ Len(new) = Len(approvals)
             /\ DOMAIN new = DOMAIN approvals
             /\ \A i \in DOMAIN approvals :
                  /\ new[i] \in Approval
                  /\ new[i].plan = approvals[i].plan /\ new[i].granted = approvals[i].granted
                  /\ new[i].status = IF i \in rows THEN status ELSE approvals[i].status
<1> PICK n : n = Len(approvals) OBVIOUS
<1>1. /\ n \in Nat /\ DOMAIN approvals = 1..n
      /\ \A i \in 1..n : approvals[i] \in Approval
  BY Lengths
<1>2. \A i \in 1..n :
        LET x == IF i \in rows THEN [approvals[i] EXCEPT !.status = status] ELSE approvals[i]
        IN  /\ x \in Approval
            /\ x.plan = approvals[i].plan /\ x.granted = approvals[i].granted
            /\ x.status = IF i \in rows THEN status ELSE approvals[i].status
  BY <1>1 DEF Approval
<1> DEFINE new == EndRows(rows, status)
<1>3. /\ DOMAIN new = 1..n
      /\ \A i \in 1..n : new[i] = IF i \in rows THEN [approvals[i] EXCEPT !.status = status]
                                 ELSE approvals[i]
      /\ new = [i \in 1..n |-> new[i]]
  BY <1>1 DEF EndRows
<1> HIDE DEF new
<1>4. \A i \in 1..n : new[i] \in Approval BY <1>2, <1>3
<1>5. new \in [1..n -> Approval] BY <1>3, <1>4
<1>6. new \in Seq(Approval) /\ Len(new) = n
  BY <1>1, <1>5
<1> QED BY <1>1, <1>2, <1>3, <1>4, <1>6 DEF new

\* Rows that end are not active any more.
LEMMA EndStep ==
  ASSUME PlansInvariant, NEW r \in Requests, NEW rows \in SUBSET DOMAIN approvals,
         NEW status \in {"rejected", "revoked", "expired", "invalidated"},
         approvals' = EndRows(rows, status),
         status = "revoked" => \A i \in rows : approvals[i].granted,
         UNCHANGED <<plans, packages, late, builds, reports>>,
         NEW local, ReliesOn(local), Goto(r, local)
  PROVE  PlansInvariant' /\ Grows
<1>1. Stored BY DEF PlansInvariant, TablesInvariant
<1>2. /\ approvals' \in Seq(Approval) /\ Len(approvals') = Len(approvals)
      /\ DOMAIN approvals' = DOMAIN approvals
      /\ \A i \in DOMAIN approvals :
           /\ approvals'[i].plan = approvals[i].plan
           /\ approvals'[i].granted = approvals[i].granted
           /\ approvals'[i].status = IF i \in rows THEN status ELSE approvals[i].status
  BY <1>1, EndedRows DEF Status
<1>3. Stored' BY <1>1, <1>2 DEF Stored
<1>4. Grows BY <1>1, <1>2, Lengths DEF Grows, Stored
<1>5. \A rep \in reports' : Backed(rep)'
  BY <1>1, <1>4, BackedPersists DEF PlansInvariant, TablesInvariant
<1>6. \A i \in DOMAIN approvals' :
        approvals'[i].status \in {"approved", "revoked"} => approvals'[i].granted
  BY <1>2 DEF PlansInvariant, TablesInvariant
<1>7. OneActivePerPlan'
  BY <1>2 DEF PlansInvariant, TablesInvariant, OneActivePerPlan, Active
<1>8. \A i \in DOMAIN plans : Derived(plans[i], i - 1)'
  BY DEF PlansInvariant, TablesInvariant, Derived, Decided
<1>9. TablesInvariant'
  BY <1>3, <1>5, <1>6, <1>7, <1>8
     DEF PlansInvariant, TablesInvariant, OneApprovedVersion, Decided
<1>10. ReliesOn(local)' BY <1>1, <1>3, <1>4, ReliancePersists
<1> QED BY <1>4, <1>9, <1>10, StepKeepsInvariant DEF Goto

LEMMA InvalidateStep ==
  ASSUME PlansInvariant, NEW r \in Requests, Invalidate(r)
  PROVE  PlansInvariant' /\ Grows
<1> PICK rows : rows = {i \in ActiveRows : approvals[i].plan # request[r].plan} OBVIOUS
<1>1. rows \in SUBSET DOMAIN approvals BY DEF ActiveRows
<1>2. approvals' = EndRows(rows, "invalidated") BY DEF Invalidate
<1>3. Goto(r, Idle) /\ UNCHANGED <<plans, packages, late, builds, reports>>
  BY DEF Invalidate, Return
<1> QED BY <1>1, <1>2, <1>3, IdleRelies, EndStep

LEMMA DecideStep ==
  ASSUME PlansInvariant, NEW r \in Requests, Reject(r) \/ Revoke(r)
  PROVE  PlansInvariant' /\ Grows
<1> PICK q : q = request[r] OBVIOUS
<1>1. q.pc = "deciding" /\ q.id \in DOMAIN approvals
  BY DEF Reject, Revoke, Decide, PlansInvariant, ReliesOn
<1>2. /\ Goto(r, Idle) /\ UNCHANGED <<plans, packages, late, builds, reports>>
      /\ \/ UNCHANGED approvals
         \/ approvals' = EndRows({q.id}, "rejected")
         \/ approvals[q.id].status = "approved" /\ approvals' = EndRows({q.id}, "revoked")
  BY DEF Reject, Revoke, Decide, Return
<1> PICK rows : rows = {q.id} OBVIOUS
<1>3. rows \in SUBSET DOMAIN approvals BY <1>1
<1>4. approvals[q.id].status = "approved" => \A i \in rows : approvals[i].granted
  BY <1>1 DEF PlansInvariant, TablesInvariant
<1>5. CASE UNCHANGED approvals BY <1>2, <1>5, ReturnStep DEF Return
<1>6. CASE approvals' = EndRows(rows, "rejected") BY <1>2, <1>3, <1>6, IdleRelies, EndStep
<1>7. CASE approvals[q.id].status = "approved" /\ approvals' = EndRows(rows, "revoked")
  BY <1>2, <1>3, <1>4, <1>7, IdleRelies, EndStep
<1> QED BY <1>2, <1>5, <1>6, <1>7

\* What a request relies on when it goes on with an approval as it read it.
LEMMA GoingOn ==
  ASSUME PlansInvariant, NEW q \in Request, NEW status \in Status,
         q.id \in DOMAIN approvals,
         q.op = "simulate" => q.plan \in DOMAIN plans,
         status = "approved" => approvals[q.id].granted
  PROVE  LET pc == GoesOn(q.op, status)
             next == [q EXCEPT !.pc = pc, !.copy = status, !.seen = late]
         IN  pc # "idle" => ReliesOn(next)
<1> DEFINE pc == GoesOn(q.op, status)
           next == [q EXCEPT !.pc = pc, !.copy = status, !.seen = late]
<1>1. pc \in {"reviewing", "deciding", "idle"} /\ (pc = "reviewing" => q.op = "simulate")
  BY DEF GoesOn
<1>2. late \in SUBSET Nat BY Lengths DEF PlansInvariant, TablesInvariant, Stored
<1>3. /\ next \in Request /\ next.pc = pc /\ next.copy = status /\ next.id = q.id
      /\ next.plan = q.plan
  <2> HIDE DEF pc
  <2> QED BY <1>1, <1>2 DEF Request, PC
<1> HIDE DEF next, pc
<1>4. ASSUME pc # "idle" PROVE ReliesOn(next)
  BY <1>1, <1>3, <1>4 DEF ReliesOn
<1> QED BY <1>4 DEF next, pc

LEMMA ReadApprovalStep ==
  ASSUME PlansInvariant, NEW r \in Requests, NEW q \in Request,
         q.id \in DOMAIN approvals, q.op = "simulate" => q.plan \in DOMAIN plans,
         ReadApproval(r, q),
         UNCHANGED <<plans, packages, approvals, late, builds, reports>>
  PROVE  PlansInvariant' /\ Grows
<1> PICK status : status = approvals[q.id].status OBVIOUS
<1>1. status \in Status /\ (status = "approved" => approvals[q.id].granted)
  BY Lengths DEF PlansInvariant, TablesInvariant, Approval
<1>2. CASE status \in Active
  <2> DEFINE next == [q EXCEPT !.pc = "refreshing", !.copy = status, !.seen = late]
  <2>1. late \in SUBSET Nat BY Lengths DEF PlansInvariant, TablesInvariant, Stored
  <2>2. /\ next \in Request /\ next.pc = "refreshing" /\ next.copy = status
        /\ next.id = q.id /\ next.plan = q.plan /\ next.op = q.op
    BY <1>1, <2>1 DEF Request, PC
  <2>3. Goto(r, next) BY <1>2 DEF ReadApproval
  <2> HIDE DEF next
  <2>4. ReliesOn(next) BY <1>1, <2>2 DEF ReliesOn
  <2> QED BY <2>3, <2>4, GotoStep
<1>3. CASE status \notin Active
  <2> DEFINE pc == GoesOn(q.op, status)
             next == [q EXCEPT !.pc = pc, !.copy = status, !.seen = late]
  <2>1. pc # "idle" => ReliesOn(next) BY <1>1, GoingOn
  <2>2. Goto(r, IF pc = "idle" THEN Idle ELSE next) BY <1>3 DEF ReadApproval, Continue
  <2> HIDE DEF next, pc
  <2>3. CASE pc = "idle" BY <2>2, <2>3, IdleRelies, GotoStep
  <2>4. CASE pc # "idle" BY <2>1, <2>2, <2>4, GotoStep
  <2> QED BY <2>3, <2>4
<1> QED BY <1>2, <1>3

LEMMA RefreshStep ==
  ASSUME PlansInvariant, NEW r \in Requests, Refresh(r)
  PROVE  PlansInvariant' /\ Grows
<1> PICK q : q = request[r] OBVIOUS
<1> PICK rows : rows = {q.id} OBVIOUS
<1> PICK end : end = IF q.id \in q.seen THEN "expired" ELSE "invalidated" OBVIOUS
<1> DEFINE next(status) == [q EXCEPT !.pc = GoesOn(q.op, status), !.copy = status, !.seen = late]
           local(status) == IF GoesOn(q.op, status) = "idle" THEN Idle ELSE next(status)
<1>0. ReliesOn(q) /\ q \in Request /\ q.pc = "refreshing"
  BY DEF PlansInvariant, Refresh, ReliesOn
<1>1. /\ q \in Request /\ q.pc = "refreshing" /\ q.id \in DOMAIN approvals
      /\ q.op = "simulate" => q.plan \in DOMAIN plans
      /\ q.copy \in Status /\ (q.copy = "approved" => approvals[q.id].granted)
  BY <1>0 DEF ReliesOn, Request
<1>2. ASSUME NEW status \in Status, status = "approved" => approvals[q.id].granted
      PROVE  ReliesOn(local(status))
  <2>1. GoesOn(q.op, status) # "idle" => ReliesOn(next(status)) BY <1>1, <1>2, GoingOn
  <2> HIDE DEF next
  <2>2. CASE GoesOn(q.op, status) = "idle" BY <2>2, IdleRelies
  <2>3. CASE GoesOn(q.op, status) # "idle" BY <2>1, <2>3
  <2> QED BY <2>2, <2>3
<1>3. /\ UNCHANGED <<plans, packages, late, builds, reports>>
      /\ \/ approvals' = EndRows(rows, end) /\ Goto(r, local(end))
         \/ UNCHANGED approvals /\ Goto(r, local(q.copy))
  BY DEF Refresh, Continue
<1>4. ReliesOn(local(end)) BY <1>2 DEF Status
<1>5. ReliesOn(local(q.copy)) BY <1>1, <1>2
<1>6. rows \in SUBSET DOMAIN approvals /\ end \in {"expired", "invalidated"} BY <1>1
<1> HIDE DEF local, next
<1>7. CASE approvals' = EndRows(rows, end) /\ Goto(r, local(end))
  BY <1>3, <1>4, <1>6, <1>7, EndStep
<1>8. CASE UNCHANGED approvals /\ Goto(r, local(q.copy))
  BY <1>3, <1>5, <1>8, GotoStep
<1> QED BY <1>3, <1>7, <1>8

\* A row becomes, or stays, approved.
LEMMA ApproveStep ==
  ASSUME PlansInvariant, NEW r \in Requests, Approve(r)
  PROVE  PlansInvariant' /\ Grows
<1> PICK q : q = request[r] OBVIOUS
<1> PICK a : a = approvals[q.id] OBVIOUS
<1>1. /\ Stored /\ ReliesOn(q) /\ q \in Request /\ q.pc = "deciding"
      /\ q.id \in DOMAIN approvals /\ a \in Approval
      /\ UNCHANGED <<plans, packages, late, builds, reports>>
  BY Lengths DEF PlansInvariant, TablesInvariant, Approve, ReliesOn
<1>2. CASE a.status = "pending" /\ q.id \notin q.seen /\ a.plan = Latest
  <2> DEFINE b == [a EXCEPT !.status = "approved", !.granted = TRUE]
  <2>1. b \in Approval /\ b.status = "approved" /\ b.granted = TRUE /\ b.plan = a.plan
    BY <1>1 DEF Approval, Status
  <2>2. approvals' = [approvals EXCEPT ![q.id] = b] /\ Goto(r, Idle)
    BY <1>2 DEF Approve, Return
  <2> HIDE DEF b
  <2>3. /\ approvals' \in Seq(Approval) /\ Len(approvals') = Len(approvals)
        /\ DOMAIN approvals' = DOMAIN approvals /\ approvals'[q.id] = b
        /\ \A i \in DOMAIN approvals : i # q.id => approvals'[i] = approvals[i]
    <3>1. /\ approvals \in Seq(Approval) /\ q.id \in 1..Len(approvals)
          /\ DOMAIN approvals = 1..Len(approvals)
      BY <1>1, Lengths DEF Stored
    <3> QED BY <2>1, <2>2, <3>1, ExceptSeq
  <2>4. Stored' BY <1>1, <2>3 DEF Stored
  <2>5. Grows BY <1>1, <2>1, <2>3, Lengths DEF Grows, Stored
  <2>6. \A rep \in reports' : Backed(rep)'
    BY <1>1, <2>5, BackedPersists DEF PlansInvariant, TablesInvariant
  <2>7. \A i \in DOMAIN approvals' :
          approvals'[i].status \in {"approved", "revoked"} => approvals'[i].granted
    BY <2>1, <2>3 DEF PlansInvariant, TablesInvariant
  <2>8. OneActivePerPlan'
    BY <1>2, <2>1, <2>3 DEF PlansInvariant, TablesInvariant, OneActivePerPlan, Active
  <2>9. \A i \in DOMAIN plans' : Derived(plans[i], i - 1)'
    BY <1>1 DEF PlansInvariant, TablesInvariant, Derived, Decided
  <2>10. TablesInvariant'
    BY <1>1, <2>4, <2>6, <2>7, <2>8, <2>9
       DEF PlansInvariant, TablesInvariant, OneApprovedVersion, Decided
  <2> QED BY <2>2, <2>5, <2>10, IdleRelies, StepKeepsInvariant DEF Goto
<1>3. CASE ~ (a.status = "pending" /\ q.id \notin q.seen /\ a.plan = Latest)
  <2> DEFINE next == [q EXCEPT !.pc = "reading", !.op = "get"]
  <2>0. UNCHANGED approvals /\ Goto(r, next) BY <1>3 DEF Approve
  <2>1. next \in Request /\ next.pc = "reading" /\ next.op = "get" /\ next.id = q.id
    BY <1>1 DEF Request, PC, Operation
  <2> HIDE DEF next
  <2>2. ReliesOn(next) BY <1>1, <2>1 DEF ReliesOn
  <2> QED BY <1>1, <2>0, <2>2, GotoStep
<1> QED BY <1>2, <1>3

LEMMA InsertApprovalStep ==
  ASSUME PlansInvariant, NEW r \in Requests, InsertApproval(r)
  PROVE  PlansInvariant' /\ Grows
<1> PICK q : q = request[r] OBVIOUS
<1> PICK n : n = Len(approvals) OBVIOUS
<1> PICK timedOut : timedOut = {i \in ActiveRows : approvals[i].plan = q.plan} \cap q.seen OBVIOUS
<1>0. PICK new : new = [plan |-> q.plan, status |-> "pending", granted |-> FALSE] OBVIOUS
<1>1. /\ Stored /\ q \in Request /\ n \in Nat /\ DOMAIN approvals = 1..n
      /\ UNCHANGED <<plans, packages, late, builds, reports>> /\ Goto(r, Idle)
  BY Lengths DEF PlansInvariant, TablesInvariant, InsertApproval, Return
<1>2. new \in Approval BY <1>0, <1>1 DEF Approval, Request, Status
<1>3. CASE UNCHANGED approvals BY <1>1, <1>3, ReturnStep DEF Return
<1>4. CASE Conflicting(q) = {} /\ approvals' = Append(EndRows(timedOut, "expired"), new)
  <2>0. PICK rows : rows = EndRows(timedOut, "expired") OBVIOUS
  <2>1. /\ rows \in Seq(Approval) /\ Len(rows) = n
        /\ \A i \in 1..n :
             /\ rows[i].plan = approvals[i].plan /\ rows[i].granted = approvals[i].granted
             /\ rows[i].status = IF i \in timedOut THEN "expired" ELSE approvals[i].status
    BY <1>1, <2>0, EndedRows DEF Status
  <2>2. approvals' = Append(rows, new) BY <1>4, <2>0
  <2>3. /\ approvals' \in Seq(Approval) /\ Len(approvals') = n + 1
        /\ approvals'[n + 1] = new /\ \A i \in 1..n : approvals'[i] = rows[i]
    <3>1. rows \in Seq(Approval) /\ Len(rows) = n BY <2>1
    <3> PICK t : t = approvals' OBVIOUS
    <3>2. t = Append(rows, new) BY <2>2
    <3>3. /\ t \in Seq(Approval) /\ Len(t) = n + 1
          /\ t[n + 1] = new /\ \A i \in 1..n : t[i] = rows[i]
      BY <1>2, <3>1, <3>2, Appended
    <3> QED BY <3>3
  <2>4. /\ DOMAIN approvals' = 1..(n + 1)
        /\ \A i \in 1..n : i \in DOMAIN approvals'
        /\ \A i \in DOMAIN approvals' : i \in 1..n \/ i = n + 1
    BY <1>1, <2>3, LenProperties
  <2>5. \A i \in 1..n :
          /\ approvals'[i].plan = approvals[i].plan
          /\ approvals'[i].granted = approvals[i].granted
          /\ approvals'[i].status = IF i \in timedOut THEN "expired" ELSE approvals[i].status
    BY <2>1, <2>3
  <2>6. Stored' BY <1>1, <2>3, <2>4 DEF Stored
  <2>7. Grows BY <1>1, <2>4, <2>5, Lengths DEF Grows, Stored
  <2>8. \A rep \in reports' : Backed(rep)'
    BY <1>1, <2>7, BackedPersists DEF PlansInvariant, TablesInvariant
  <2>9. \A i \in DOMAIN approvals' :
          approvals'[i].status \in {"approved", "revoked"} => approvals'[i].granted
    BY <1>0, <1>1, <2>3, <2>4, <2>5 DEF PlansInvariant, TablesInvariant
  <2>10. \A i \in 1..n : approvals'[i].plan = q.plan => approvals'[i].status \notin Active
    <3> SUFFICES ASSUME NEW i \in 1..n, approvals[i].plan = q.plan,
                        approvals[i].status \in Active, i \notin timedOut
                 PROVE  FALSE
      BY <2>5 DEF Active
    <3>1. i \in ActiveRows BY <1>1 DEF ActiveRows
    <3>2. i \in Conflicting(q) BY <3>1 DEF Conflicting
    <3> QED BY <1>4, <3>2
  <2>11. OneActivePerPlan'
    <3> SUFFICES ASSUME NEW i \in DOMAIN approvals', NEW j \in DOMAIN approvals', i < j,
                        approvals'[i].plan = approvals'[j].plan
                 PROVE  approvals'[i].status \notin Active
      BY DEF OneActivePerPlan
    <3>1. i \in 1..n BY <1>1, <2>4
    <3>2. CASE j = n + 1 BY <1>0, <2>3, <2>10, <3>1, <3>2
    <3>3. CASE j \in 1..n
      <4>1. approvals[i].status \notin Active
        BY <1>1, <2>5, <3>1, <3>3 DEF PlansInvariant, TablesInvariant, OneActivePerPlan
      <4> QED BY <2>5, <3>1, <4>1 DEF Active
    <3> QED BY <2>4, <3>2, <3>3
  <2>12. \A i \in DOMAIN plans' : Derived(plans[i], i - 1)'
    BY <1>1 DEF PlansInvariant, TablesInvariant, Derived, Decided
  <2>13. TablesInvariant'
    BY <1>1, <2>6, <2>8, <2>9, <2>11, <2>12
       DEF PlansInvariant, TablesInvariant, OneApprovedVersion, Decided
  <2> QED BY <1>1, <2>7, <2>13, IdleRelies, StepKeepsInvariant DEF Goto
<1> QED BY <1>0, <1>3, <1>4 DEF InsertApproval

LEMMA ReadSteps ==
  ASSUME PlansInvariant, NEW r \in Requests,
         \/ Read(r)
         \/ \E i \in DOMAIN approvals : \E op \in Operation : StartRefresh(r, i, op)
  PROVE  PlansInvariant' /\ Grows
<1>1. CASE Read(r)
  <2> PICK q : q = request[r] OBVIOUS
  <2>1. ReliesOn(q) /\ q.pc = "reading" BY <1>1 DEF PlansInvariant, Read
  <2>2. /\ q \in Request /\ q.id \in DOMAIN approvals
        /\ q.op = "simulate" => q.plan \in DOMAIN plans
    BY <2>1 DEF ReliesOn
  <2> QED BY <1>1, <2>2, ReadApprovalStep DEF Read
<1>2. CASE \E i \in DOMAIN approvals : \E op \in Operation : StartRefresh(r, i, op)
  <2> PICK i \in DOMAIN approvals, op \in Operation : StartRefresh(r, i, op) BY <1>2
  <2> DEFINE q == [Idle EXCEPT !.op = op, !.id = i]
  <2>1. Idle \in Request /\ i \in Nat
    BY IdleRelies, Lengths DEF ReliesOn, PlansInvariant, TablesInvariant
  <2>2. q \in Request /\ q.id = i /\ q.op = op BY <2>1 DEF Request
  <2>3. /\ op # "simulate" /\ ReadApproval(r, q)
        /\ UNCHANGED <<plans, packages, approvals, late, builds, reports>>
    BY DEF StartRefresh
  <2> HIDE DEF q
  <2> QED BY <2>2, <2>3, ReadApprovalStep
<1> QED BY <1>1, <1>2

LEMMA LateStep ==
  ASSUME PlansInvariant, NEW i \in DOMAIN approvals, Late(i)
  PROVE  PlansInvariant' /\ Grows
<1>1. Stored /\ UNCHANGED <<plans, packages, approvals, builds, reports, request>>
  BY DEF PlansInvariant, TablesInvariant, Late
<1>2. Stored' BY <1>1 DEF Stored, Late
<1>3. Grows BY <1>1, Lengths DEF Grows, Stored
<1>4. \A rep \in reports' : Backed(rep)'
  BY <1>1, <1>3, BackedPersists DEF PlansInvariant, TablesInvariant
<1>5. TablesInvariant'
  BY <1>1, <1>2, <1>4
     DEF PlansInvariant, TablesInvariant, OneApprovedVersion, OneActivePerPlan, Derived, Decided
<1>6. ASSUME NEW r \in Requests PROVE ReliesOn(request[r])'
  <2> PICK q : q = request[r] OBVIOUS
  <2>1. ReliesOn(q) BY DEF PlansInvariant
  <2>2. ReliesOn(q)' BY <1>1, <1>2, <1>3, <2>1, ReliancePersists
  <2> QED BY <1>1, <2>2 DEF ReliesOn
<1> QED BY <1>1, <1>3, <1>5, <1>6 DEF PlansInvariant

-----------------------------------------------------------------------------
(* Creative versions.                                                      *)

LEMMA VersionsHavePlans ==
  ASSUME PlansInvariant, NEW v \in DOMAIN packages
  PROVE  plans # <<>>
<1>1. packages[v].plan \in DOMAIN plans /\ Stored BY DEF PlansInvariant, TablesInvariant
<1> QED BY <1>1, Lengths

\* A plan for version v, derived from the stored plan i.
LEMMA BuildCreativeStep ==
  ASSUME PlansInvariant, NEW r \in Requests, NEW i \in DOMAIN plans, NEW v \in Nat,
         NEW status \in PackageStatus, status = "approved" => Decided(v),
         BuildCreative(r, i, v, status),
         UNCHANGED <<plans, packages, approvals, late, reports>>
  PROVE  PlansInvariant' /\ Grows
<1> DEFINE change == [kind |-> "creative", value |-> v, status |-> status]
<1> PICK reviewed \in BOOLEAN : reviewed = (status = "approved") BY Zenon
<1>1. change \in Change BY DEF Change
<1>2. plans[i].target \in Targets \cup {NoTarget}
  BY Lengths DEF PlansInvariant, TablesInvariant, Plan
<1>3. Build(r, i, change, plans[i].target, v, reviewed) BY DEF BuildCreative
<1> HIDE DEF change
<1> QED BY <1>1, <1>2, <1>3, BuildFromStored

LEMMA StartApproveCreativeStep ==
  ASSUME PlansInvariant, NEW r \in Requests, NEW v \in DOMAIN packages,
         StartApproveCreative(r, v)
  PROVE  PlansInvariant' /\ Grows
<1> PICK pc : pc = IF packages[v].status = "approved" THEN "rebinding" ELSE "approvingCreative"
  OBVIOUS
<1> DEFINE next == [Idle EXCEPT !.pc = pc, !.op = "approveCreative", !.id = v]
<1>1. Idle \in Request /\ v \in Nat
  BY IdleRelies, Lengths DEF ReliesOn, PlansInvariant, TablesInvariant
<1>2. /\ next \in Request /\ next.pc = pc /\ next.id = v
  BY <1>1 DEF Request, PC, Operation
<1>3. Goto(r, next) BY DEF StartApproveCreative
<1>4. packages[v].content \in CleanContents BY DEF StartApproveCreative, Reviewable
<1>5. pc = "rebinding" => Decided(v) BY DEF Decided
<1>6. plans # <<>> BY VersionsHavePlans
<1> HIDE DEF next
<1>7. ReliesOn(next) BY <1>2, <1>4, <1>5, <1>6 DEF ReliesOn
<1> QED BY <1>3, <1>7, GotoStep DEF StartApproveCreative

LEMMA SupersedeStep ==
  ASSUME PlansInvariant, NEW r \in Requests, Supersede(r)
  PROVE  PlansInvariant' /\ Grows
<1> PICK q : q = request[r] OBVIOUS
<1> PICK seen : seen = {v \in DOMAIN packages : packages[v].status = "approved"} OBVIOUS
<1> DEFINE next == [q EXCEPT !.pc = "inserting", !.seen = seen]
<1>1. /\ ReliesOn(q) /\ q.pc = "appending"
      /\ UNCHANGED <<plans, packages, approvals, late, reports>>
  BY DEF PlansInvariant, Supersede
<1>2. q \in Request /\ q.plan \in DOMAIN plans /\ q.arg \in Contents BY <1>1 DEF ReliesOn
<1>3. CASE \E v \in DOMAIN packages : BuildCreative(r, q.plan, v, packages[v].status)
  <2> PICK v \in DOMAIN packages : BuildCreative(r, q.plan, v, packages[v].status) BY <1>3
  <2> PICK status : status = packages[v].status OBVIOUS
  <2>1. v \in Nat /\ status \in PackageStatus /\ (status = "approved" => Decided(v))
    BY Lengths DEF PlansInvariant, TablesInvariant, Decided, Package
  <2> QED BY <1>1, <1>2, <2>1, BuildCreativeStep
<1>4. CASE Return(r) /\ UNCHANGED builds BY <1>1, <1>4, ReturnStep
<1>5. CASE Goto(r, next) /\ UNCHANGED builds
  <2>1. seen \in SUBSET Nat BY Lengths DEF PlansInvariant, TablesInvariant
  <2>2. /\ next \in Request /\ next.pc = "inserting" /\ next.seen = seen
        /\ next.plan = q.plan /\ next.arg = q.arg
    BY <1>2, <2>1 DEF Request, PC
  <2>3. \A v \in seen : Decided(v) BY DEF Decided
  <2> HIDE DEF next
  <2>4. ReliesOn(next) BY <1>2, <2>2, <2>3 DEF ReliesOn
  <2> QED BY <1>1, <1>5, <2>4, GotoStep
<1>6. \/ \E v \in DOMAIN packages : BuildCreative(r, q.plan, v, packages[v].status)
      \/ Return(r) /\ UNCHANGED builds
      \/ Goto(r, next) /\ UNCHANGED builds
  BY DEF Supersede
<1> QED BY <1>3, <1>4, <1>5, <1>6

LEMMA DeriveSteps ==
  ASSUME PlansInvariant, NEW r \in Requests, Derive(r) \/ Rebind(r)
  PROVE  PlansInvariant' /\ Grows
<1> PICK q : q = request[r] OBVIOUS
<1>1. ReliesOn(q) /\ q.pc \in {"deriving", "rebinding"} BY DEF PlansInvariant, Derive, Rebind
<1>2. q.id \in Nat /\ Decided(q.id) /\ plans # <<>> BY <1>1 DEF ReliesOn, Request
<1>3. Latest \in DOMAIN plans BY <1>2, LatestStored
<1>4. UNCHANGED <<plans, packages, approvals, late, reports>> BY DEF Derive, Rebind
<1>5. \/ BuildCreative(r, Latest, q.id, "approved")
      \/ Return(r) /\ UNCHANGED builds
  BY DEF Derive, Rebind
<1>6. "approved" \in PackageStatus BY DEF PackageStatus
<1> QED BY <1>2, <1>3, <1>4, <1>5, <1>6, BuildCreativeStep, ReturnStep

LEMMA ApproveCreativeStep ==
  ASSUME PlansInvariant, NEW r \in Requests, ApproveCreative(r)
  PROVE  PlansInvariant' /\ Grows
<1> PICK q : q = request[r] OBVIOUS
<1>1. /\ Stored /\ ReliesOn(q) /\ q.pc = "approvingCreative"
      /\ UNCHANGED <<plans, approvals, late, builds, reports>>
  BY DEF PlansInvariant, TablesInvariant, ApproveCreative
<1>2. /\ q \in Request /\ q.id \in DOMAIN packages /\ plans # <<>>
      /\ packages[q.id].content \in CleanContents /\ packages[q.id] \in Package
  BY <1>1, Lengths DEF ReliesOn
<1>3. CASE UNCHANGED packages /\ Return(r) BY <1>1, <1>3, ReturnStep
<1>4. CASE /\ \A v \in DOMAIN packages : packages[v].status # "approved"
           /\ packages' = [packages EXCEPT ![q.id].status = "approved"]
           /\ Goto(r, [q EXCEPT !.pc = "deriving"])
  <2> DEFINE b == [packages[q.id] EXCEPT !.status = "approved"]
             next == [q EXCEPT !.pc = "deriving"]
  <2>1. /\ b \in Package /\ b.status = "approved"
        /\ b.content = packages[q.id].content /\ b.plan = packages[q.id].plan
    BY <1>2 DEF Package, PackageStatus
  <2>2. packages' = [packages EXCEPT ![q.id] = b] BY <1>4
  <2>3. next \in Request /\ next.pc = "deriving" /\ next.id = q.id
    BY <1>2 DEF Request, PC
  <2>4. Goto(r, next) BY <1>4
  <2> HIDE DEF b, next
  <2>5. /\ packages' \in Seq(Package) /\ Len(packages') = Len(packages)
        /\ DOMAIN packages' = DOMAIN packages /\ packages'[q.id] = b
        /\ \A v \in DOMAIN packages : v # q.id => packages'[v] = packages[v]
    <3>1. /\ packages \in Seq(Package) /\ q.id \in 1..Len(packages)
          /\ DOMAIN packages = 1..Len(packages)
      BY <1>1, <1>2, Lengths DEF Stored
    <3> QED BY <2>1, <2>2, <3>1, ExceptSeq
  <2>6. Stored' BY <1>1, <2>5 DEF Stored
  <2>7. Grows BY <1>1, <2>1, <2>5, Lengths DEF Grows, Stored
  <2>8. \A rep \in reports' : Backed(rep)'
    BY <1>1, <2>7, BackedPersists DEF PlansInvariant, TablesInvariant
  <2>9. \A v \in DOMAIN packages' : packages'[v].plan \in DOMAIN plans'
    BY <1>1, <2>1, <2>5 DEF PlansInvariant, TablesInvariant
  <2>10. \A v \in DOMAIN packages' : Decided(v)' => packages'[v].content \in CleanContents
    BY <1>1, <1>2, <2>1, <2>5 DEF PlansInvariant, TablesInvariant, Decided
  <2>11. OneApprovedVersion' BY <1>4, <2>5 DEF OneApprovedVersion
  <2>12. ASSUME NEW i \in DOMAIN plans' PROVE Derived(plans[i], i - 1)'
    <3>1. Derived(plans[i], i - 1) BY <1>1 DEF PlansInvariant, TablesInvariant
    <3> QED BY <1>1, <2>7, <3>1 DEF Derived, Decided, Grows
  <2>13. TablesInvariant'
    BY <1>1, <2>6, <2>8, <2>9, <2>10, <2>11, <2>12
       DEF PlansInvariant, TablesInvariant, OneActivePerPlan
  <2>14. Decided(q.id)' BY <1>2, <2>1, <2>5 DEF Decided
  <2>15. ReliesOn(next)' BY <1>1, <1>2, <2>3, <2>5, <2>14 DEF ReliesOn
  <2> QED BY <2>4, <2>7, <2>13, <2>15, StepKeepsInvariant DEF Goto
<1> QED BY <1>3, <1>4 DEF ApproveCreative

LEMMA InsertVersionStep ==
  ASSUME PlansInvariant, NEW r \in Requests, InsertVersion(r)
  PROVE  PlansInvariant' /\ Grows
<1> PICK q : q = request[r] OBVIOUS
<1> PICK n : n = Len(packages) OBVIOUS
<1>1. /\ Stored /\ ReliesOn(q) /\ q.pc = "inserting"
      /\ UNCHANGED <<plans, approvals, late, reports>>
      /\ n \in Nat /\ DOMAIN packages = 1..n
      /\ \A v \in 1..n : packages[v] \in Package
  BY Lengths DEF PlansInvariant, TablesInvariant, InsertVersion
<1>2. /\ q \in Request /\ q.plan \in DOMAIN plans /\ q.arg \in Contents
      /\ \A v \in q.seen : Decided(v)
  BY <1>1 DEF ReliesOn
<1>3. PICK rows : rows = [v \in DOMAIN packages |->
                           IF v \in q.seen THEN [packages[v] EXCEPT !.status = "superseded"]
                           ELSE packages[v]]
  OBVIOUS
<1>4. PICK new : new = [plan |-> q.plan, content |-> q.arg, status |-> "needs_review"] OBVIOUS
<1>5. packages' = Append(rows, new) BY <1>3, <1>4 DEF InsertVersion
<1>6. /\ rows \in Seq(Package) /\ Len(rows) = n
      /\ \A v \in 1..n :
           /\ rows[v].plan = packages[v].plan /\ rows[v].content = packages[v].content
           /\ rows[v].status = IF v \in q.seen THEN "superseded" ELSE packages[v].status
  <2>1. \A v \in 1..n :
          LET x == IF v \in q.seen THEN [packages[v] EXCEPT !.status = "superseded"]
                   ELSE packages[v]
          IN  /\ x \in Package /\ x.plan = packages[v].plan /\ x.content = packages[v].content
              /\ x.status = IF v \in q.seen THEN "superseded" ELSE packages[v].status
    BY <1>1 DEF Package, PackageStatus
  <2>2. rows \in [1..n -> Package] BY <1>1, <1>3, <2>1
  <2>3. rows \in Seq(Package) /\ Len(rows) = n BY <1>1, <2>2
  <2> QED BY <1>1, <1>3, <2>1, <2>3
<1>7. new \in Package BY <1>1, <1>2, <1>4, Lengths DEF Package, PackageStatus, Request
<1>8. /\ packages' \in Seq(Package) /\ Len(packages') = n + 1
      /\ DOMAIN packages' = 1..(n + 1)
      /\ packages'[n + 1] = new /\ \A v \in 1..n : packages'[v] = rows[v]
  <2> PICK t : t = packages' OBVIOUS
  <2>1. t = Append(rows, new) BY <1>5
  <2>2. rows \in Seq(Package) /\ Len(rows) = n BY <1>6
  <2>3. /\ t \in Seq(Package) /\ Len(t) = n + 1 /\ DOMAIN t = 1..(n + 1)
        /\ t[n + 1] = new /\ \A v \in 1..n : t[v] = rows[v]
    BY <1>7, <2>1, <2>2, Appended
  <2> QED BY <2>3
<1>9. \A v \in 1..n :
        /\ packages'[v].plan = packages[v].plan /\ packages'[v].content = packages[v].content
        /\ packages'[v].status = IF v \in q.seen THEN "superseded" ELSE packages[v].status
  BY <1>6, <1>8
<1> DEFINE change == [kind |-> "creative", value |-> n + 1, status |-> "needs_review"]
           built == [source |-> q.plan, change |-> change, stamp |-> 0,
                     target |-> plans[q.plan].target, version |-> n + 1, reviewed |-> FALSE]
           stamped == [built EXCEPT !.stamp = builds + 1]
           next == [q EXCEPT !.plan = q.plan, !.pc = "saving", !.new = stamped]
<1>10. \/ builds' = builds + 1 /\ Goto(r, next)
       \/ builds' = builds /\ Goto(r, Idle)
  <2>1. BuildCreative(r, q.plan, n + 1, "needs_review") BY DEF InsertVersion
  <2> QED BY <2>1 DEF BuildCreative, Build, StampAndSave, Return
<1>11. builds \in Nat /\ builds' \in Nat /\ builds <= builds'
  BY <1>1, <1>10 DEF Stored
<1>12. Stored' BY <1>1, <1>8, <1>11 DEF Stored
<1>13. Grows
  <2>1. \A v \in 1..n : packages[v].status # "needs_review" => packages'[v].status # "needs_review"
    BY <1>9
  <2>2. \A v \in 1..n : v \in DOMAIN packages' BY <1>1, <1>8
  <2> QED BY <1>1, <1>9, <1>11, <2>1, <2>2, Lengths DEF Grows
<1>14. TablesInvariant'
  <2>1. \A rep \in reports' : Backed(rep)'
    BY <1>1, <1>13, BackedPersists DEF PlansInvariant, TablesInvariant
  <2>2. \A v \in DOMAIN packages' : v \in 1..n \/ v = n + 1 BY <1>1, <1>8
  <2>3. \A v \in DOMAIN packages' : packages'[v].plan \in DOMAIN plans'
    BY <1>1, <1>2, <1>4, <1>8, <1>9, <2>2 DEF PlansInvariant, TablesInvariant
  <2>4. \A v \in DOMAIN packages' : Decided(v)' => v \in 1..n /\ Decided(v)
    BY <1>1, <1>2, <1>4, <1>8, <1>9, <2>2 DEF Decided
  <2>5. \A v \in DOMAIN packages' : Decided(v)' => packages'[v].content \in CleanContents
    BY <1>1, <1>9, <2>4 DEF PlansInvariant, TablesInvariant
  <2>6. \A v \in DOMAIN packages' :
          packages'[v].status = "approved" => v \in 1..n /\ packages[v].status = "approved"
    BY <1>4, <1>8, <1>9, <2>2
  <2>7. OneApprovedVersion'
    BY <1>1, <2>6 DEF PlansInvariant, TablesInvariant, OneApprovedVersion
  <2>8. ASSUME NEW i \in DOMAIN plans' PROVE Derived(plans[i], i - 1)'
    <3> PICK p : p = plans[i] OBVIOUS
    <3>1. p \in Plan /\ i \in Nat /\ i - 1 \in Nat BY <1>1, Lengths
    <3>2. Derived(p, i - 1) BY <1>1 DEF PlansInvariant, TablesInvariant, Derived
    <3>3. Derived(p, i - 1)' BY <1>1, <1>12, <1>13, <3>1, <3>2, DerivedPersists
    <3> QED BY <1>1, <3>3 DEF Derived
  <2> QED BY <1>1, <1>12, <2>1, <2>3, <2>5, <2>7, <2>8
          DEF PlansInvariant, TablesInvariant, OneActivePerPlan
<1>15. CASE builds' = builds /\ Goto(r, Idle)
  BY <1>13, <1>14, <1>15, IdleRelies, StepKeepsInvariant DEF Goto
<1>16. CASE builds' = builds + 1 /\ Goto(r, next)
  <2>1. change \in Change BY <1>1 DEF Change, PackageStatus
  <2>2. plans[q.plan].target \in Targets \cup {NoTarget} /\ q.plan \in 1..Len(plans)
    BY <1>1, <1>2, Lengths DEF Plan
  <2>3. /\ stamped \in Plan /\ stamped.source = q.plan /\ stamped.stamp = builds + 1
        /\ stamped.reviewed = FALSE
    <3> HIDE DEF change
    <3>1. n + 1 \in Nat /\ builds + 1 \in Nat /\ q.plan \in Nat
      BY <1>1, <1>2, <1>11 DEF Request
    <3>2. built \in Plan /\ built.source = q.plan /\ built.reviewed = FALSE
      BY <2>1, <2>2, <3>1 DEF Plan
    <3> HIDE DEF built
    <3> QED BY <3>1, <3>2 DEF Plan
  <2>4. next \in Request /\ next.pc = "saving" /\ next.new = stamped
    <3> HIDE DEF stamped
    <3> QED BY <1>2, <2>3 DEF Request, PC
  <2> HIDE DEF stamped, next
  <2> PICK x : x = next OBVIOUS
  <2> PICK p : p = stamped OBVIOUS
  <2>5. Derived(p, Len(plans))'
    BY <1>1, <1>11, <1>16, <2>2, <2>3, Lengths DEF Derived
  <2>6. ReliesOn(x)' BY <2>4, <2>5 DEF ReliesOn, Derived
  <2> QED BY <1>13, <1>14, <1>16, <2>6, StepKeepsInvariant DEF Goto
<1> QED BY <1>10, <1>15, <1>16

-----------------------------------------------------------------------------
(* The dry run.                                                            *)

LEMMA ReviewStep ==
  ASSUME PlansInvariant, NEW r \in Requests, Review(r)
  PROVE  PlansInvariant' /\ Grows
<1> PICK q : q = request[r] OBVIOUS
<1> PICK p : p = plans[q.plan] OBVIOUS
<1> PICK rep : rep = [plan |-> q.plan, approval |-> q.id, version |-> p.version] OBVIOUS
<1>1. /\ Stored /\ ReliesOn(q) /\ q.pc = "reviewing" /\ Goto(r, Idle)
      /\ UNCHANGED <<plans, packages, approvals, late, builds>>
  BY DEF PlansInvariant, TablesInvariant, Review, Return
<1>2. /\ q.plan \in DOMAIN plans /\ q.id \in DOMAIN approvals /\ p \in Plan
      /\ q.copy = "approved" => approvals[q.id].granted
  BY <1>1, Lengths DEF ReliesOn
<1>3. CASE UNCHANGED reports BY <1>1, <1>3, ReturnStep DEF Return
<1>4. CASE /\ p.target # NoTarget /\ ApprovalPasses(q) /\ CreativePasses(p)
           /\ reports' = reports \cup {rep}
  <2>1. rep \in Report BY <1>1, <1>2, Lengths DEF Report, Plan
  <2>2. Decided(p.version)
    <3>1. Derived(p, q.plan - 1) BY <1>2 DEF PlansInvariant, TablesInvariant
    <3> QED BY <1>4, <3>1 DEF Derived, CreativePasses
  <2>3. Backed(rep) BY <1>2, <1>4, <2>2 DEF Backed, ApprovalPasses
  <2>4. Stored' BY <1>1, <1>4, <2>1 DEF Stored
  <2>5. Grows BY <1>1, Lengths DEF Grows, Stored
  <2>6. \A x \in reports' : Backed(x)'
    BY <1>1, <1>4, <2>3, <2>5, BackedPersists DEF PlansInvariant, TablesInvariant
  <2>7. TablesInvariant'
    BY <1>1, <2>4, <2>6
       DEF PlansInvariant, TablesInvariant, OneApprovedVersion, OneActivePerPlan, Derived, Decided
  <2> QED BY <1>1, <2>5, <2>7, IdleRelies, StepKeepsInvariant DEF Goto
<1> QED BY <1>3, <1>4 DEF Review

-----------------------------------------------------------------------------
(* The theorems.                                                           *)

LEMMA InitInvariant == Init => PlansInvariant
<1> SUFFICES ASSUME Init PROVE PlansInvariant OBVIOUS
<1>1. /\ DOMAIN plans = {} /\ DOMAIN packages = {} /\ DOMAIN approvals = {}
      /\ late = {} /\ builds = 0 /\ reports = {}
      /\ plans \in Seq(Plan) /\ packages \in Seq(Package) /\ approvals \in Seq(Approval)
  BY DEF Init
<1>2. TablesInvariant
  BY <1>1 DEF TablesInvariant, Stored, OneApprovedVersion, OneActivePerPlan
<1>3. Idle \in Request BY IdleRelies DEF ReliesOn
<1>4. request \in [Requests -> Request] /\ \A r \in Requests : request[r] = Idle
  BY <1>3 DEF Init
<1>5. ASSUME NEW r \in Requests PROVE ReliesOn(request[r])
  BY <1>4, IdleRelies
<1> QED BY <1>2, <1>4, <1>5 DEF PlansInvariant

LEMMA BeginSteps ==
  ASSUME PlansInvariant, NEW r \in Requests, Begin(r)
  PROVE  PlansInvariant' /\ Grows
<1> USE DEF Operation
<1>0. Idle \in Request /\ request[r] \in Request
  BY IdleRelies DEF ReliesOn, PlansInvariant
<1>1. CASE \E c \in Contexts : Generate(r, c) BY <1>1, GenerateStep
<1>2. CASE \E t \in Targets : StartBind(r, t)
  <2> PICK t \in Targets : StartBind(r, t) BY <1>2
  <2> DEFINE local == [Idle EXCEPT !.arg = t]
  <2>1. local \in Request /\ local.arg = t BY <1>0 DEF Request
  <2>2. StartOnPlan(r, "bind", "binding", local) BY DEF StartBind
  <2> HIDE DEF local
  <2> QED BY <2>1, <2>2, StartOnPlanStep
<1>3. CASE \E x \in Contents : StartAppend(r, x)
  <2> PICK x \in Contents : StartAppend(r, x) BY <1>3
  <2> DEFINE local == [Idle EXCEPT !.arg = x]
  <2>1. local \in Request /\ local.arg = x BY <1>0 DEF Request
  <2>2. StartOnPlan(r, "append", "appending", local) BY DEF StartAppend
  <2> HIDE DEF local
  <2> QED BY <2>1, <2>2, StartOnPlanStep
<1>4. CASE \E v \in DOMAIN packages : StartApproveCreative(r, v)
  BY <1>4, StartApproveCreativeStep
<1>5. CASE StartRequest(r)
  <2> DEFINE local == [Idle EXCEPT !.seen = late]
  <2>1. late \in SUBSET Nat BY Lengths DEF PlansInvariant, TablesInvariant, Stored
  <2>2. local \in Request BY <1>0, <2>1 DEF Request
  <2>3. StartOnPlan(r, "request", "requesting", local) BY <1>5 DEF StartRequest
  <2> HIDE DEF local
  <2> QED BY <2>2, <2>3, StartOnPlanStep
<1>6. CASE \E i \in DOMAIN approvals : StartSimulate(r, i)
  <2> PICK i \in DOMAIN approvals : StartSimulate(r, i) BY <1>6
  <2> DEFINE local == [Idle EXCEPT !.id = i]
  <2>1. i \in Nat BY Lengths DEF PlansInvariant, TablesInvariant
  <2>2. local \in Request /\ local.id = i BY <1>0, <2>1 DEF Request
  <2>3. StartOnPlan(r, "simulate", "reading", local) BY DEF StartSimulate
  <2> HIDE DEF local
  <2> QED BY <2>2, <2>3, StartOnPlanStep
<1>7. CASE \E i \in DOMAIN approvals : \E op \in Operation : StartRefresh(r, i, op)
  BY <1>7, ReadSteps
<1> QED BY <1>1, <1>2, <1>3, <1>4, <1>5, <1>6, <1>7 DEF Begin

LEMMA NextInvariant == PlansInvariant /\ [Next]_vars => PlansInvariant' /\ Grows
<1> SUFFICES ASSUME PlansInvariant, [Next]_vars PROVE PlansInvariant' /\ Grows OBVIOUS
<1>1. CASE UNCHANGED vars
  <2>1. PlansInvariant'
    BY <1>1 DEF vars, PlansInvariant, TablesInvariant, Stored, OneApprovedVersion,
                OneActivePerPlan, Backed, Decided, Derived, ReliesOn
  <2>2. Grows
    BY <1>1, Lengths DEF vars, Grows, PlansInvariant, TablesInvariant, Stored
  <2> QED BY <2>1, <2>2
<1>2. CASE \E i \in DOMAIN approvals : Late(i) BY <1>2, LateStep
<1>3. ASSUME NEW r \in Requests, Begin(r) \/ Step(r) \/ Fail(r) PROVE PlansInvariant' /\ Grows
  <2>1. CASE Begin(r) BY <2>1, BeginSteps
  <2>2. CASE Fail(r) BY <2>2, ReturnStep DEF Fail
  <2>3. CASE Save(r) BY <2>3, SaveStep
  <2>4. CASE Invalidate(r) BY <2>4, InvalidateStep
  <2>5. CASE Bind(r) BY <2>5, BindStep
  <2>6. CASE Supersede(r) BY <2>6, SupersedeStep
  <2>7. CASE InsertVersion(r) BY <2>7, InsertVersionStep
  <2>8. CASE ApproveCreative(r) BY <2>8, ApproveCreativeStep
  <2>9. CASE Derive(r) \/ Rebind(r) BY <2>9, DeriveSteps
  <2>10. CASE InsertApproval(r) BY <2>10, InsertApprovalStep
  <2>11. CASE Read(r) BY <2>11, ReadSteps
  <2>12. CASE Refresh(r) BY <2>12, RefreshStep
  <2>13. CASE Approve(r) BY <2>13, ApproveStep
  <2>14. CASE Reject(r) \/ Revoke(r) BY <2>14, DecideStep
  <2>15. CASE Review(r) BY <2>15, ReviewStep
  <2> QED BY <1>3, <2>1, <2>2, <2>3, <2>4, <2>5, <2>6, <2>7, <2>8, <2>9, <2>10, <2>11,
             <2>12, <2>13, <2>14, <2>15 DEF Step
<1> QED BY <1>1, <1>2, <1>3 DEF Next

LEMMA Invariant == Spec => []PlansInvariant
BY InitInvariant, NextInvariant, PTL DEF Spec

\* What requests know about plans, versions and approvals exists when they use it
\* (the services of plans, creatives, approvals and the dry run between their awaits).
THEOREM TypeCorrect == Spec => []TypeOK
<1>1. PlansInvariant => TypeOK
  <2> SUFFICES ASSUME PlansInvariant PROVE TypeOK OBVIOUS
  <2>1. \A r \in Requests : ReliesOn(request[r]) BY DEF PlansInvariant
  <2> QED BY <2>1 DEF PlansInvariant, TablesInvariant, Stored, TypeOK, ReliesOn
<1> QED BY <1>1, Invariant, PTL

\* A plan that says its creative is reviewed names a version that was approved,
\* through every order of appends, approvals and derivations of concurrent requests.
THEOREM ReviewedPlansWereApproved == Spec => []ReviewedWasApproved
<1>1. PlansInvariant => ReviewedWasApproved
  BY DEF PlansInvariant, TablesInvariant, Derived, Decided, ReviewedWasApproved
<1> QED BY <1>1, Invariant, PTL

\* The dry run is ready only for a target, a granted approval of that plan and a
\* version approved without issues, whatever changed between its reads.
THEOREM ReadyReportsWereDecided == Spec => []ReadyWasDecided
<1>1. PlansInvariant => ReadyWasDecided
  BY DEF PlansInvariant, TablesInvariant, Backed, Decided, ReadyWasDecided
<1> QED BY <1>1, Invariant, PTL

\* saveIdempotent keeps one plan per input, and plans are derived from older ones.
THEOREM PlansAreUnique == Spec => []OnePlanPerInput
<1>1. PlansInvariant => OnePlanPerInput
  <2> SUFFICES ASSUME PlansInvariant, NEW i \in DOMAIN plans PROVE plans[i].source < i
    BY DEF PlansInvariant, TablesInvariant, OnePlanPerInput
  <2>1. Derived(plans[i], i - 1) /\ i \in 1..Len(plans) /\ Len(plans) \in Nat
    BY Lengths DEF PlansInvariant, TablesInvariant
  <2> QED BY <2>1 DEF Derived
<1> QED BY <1>1, Invariant, PTL

\* Repeated and concurrent requests for approval, around an expiry, never leave an
\* older approval of a plan that could still be approved or relied on.
THEOREM NewestApprovalOnly == Spec => []OneActivePerPlan
<1>1. PlansInvariant => OneActivePerPlan BY DEF PlansInvariant, TablesInvariant
<1> QED BY <1>1, Invariant, PTL

\* No interleaving of appends and approvals leaves two approved creative versions.
THEOREM ApprovedVersionUnique == Spec => []OneApprovedVersion
<1>1. PlansInvariant => OneApprovedVersion BY DEF PlansInvariant, TablesInvariant
<1> QED BY <1>1, Invariant, PTL

\* Unique plans, active approvals and approved versions together: the rows that
\* saveIdempotent, create and approve of the repositories keep one of.
THEOREM StoredRowsAreUnique == Spec => []StoredOnce
<1> QED BY PlansAreUnique, NewestApprovalOnly, ApprovedVersionUnique, PTL DEF StoredOnce

LEMMA FinalStep ==
  ASSUME PlansInvariant, [Next]_vars,
         NEW i \in DOMAIN approvals, approvals'[i].status # approvals[i].status
  PROVE  <<approvals[i].status, approvals'[i].status>> \in Transitions
<1> USE DEF Transitions, Active
<1>1. Stored BY DEF PlansInvariant, TablesInvariant
<1>2. ASSUME NEW rows, NEW status \in {"expired", "invalidated"},
             approvals' = EndRows(rows, status), rows \subseteq ActiveRows
      PROVE  <<approvals[i].status, approvals'[i].status>> \in Transitions
  <2>1. i \in rows /\ approvals'[i].status = status BY <1>1, <1>2, EndedRows DEF Status
  <2> QED BY <1>2, <2>1 DEF ActiveRows
<1>3. ~ UNCHANGED approvals OBVIOUS
<1>4. ASSUME NEW r \in Requests, Invalidate(r)
      PROVE  <<approvals[i].status, approvals'[i].status>> \in Transitions
  <2> PICK rows : rows = {j \in ActiveRows : approvals[j].plan # request[r].plan} OBVIOUS
  <2> QED BY <1>2, <1>4 DEF Invalidate
<1>5. ASSUME NEW r \in Requests, Refresh(r)
      PROVE  <<approvals[i].status, approvals'[i].status>> \in Transitions
  <2> PICK rows : rows = {request[r].id} OBVIOUS
  <2> PICK end : end = IF request[r].id \in request[r].seen THEN "expired" ELSE "invalidated"
    OBVIOUS
  <2>1. approvals' = EndRows(rows, end) /\ rows \subseteq ActiveRows
    BY <1>3, <1>5 DEF Refresh
  <2> QED BY <1>2, <2>1
<1>6. ASSUME NEW r \in Requests, InsertApproval(r)
      PROVE  <<approvals[i].status, approvals'[i].status>> \in Transitions
  <2> PICK n : n = Len(approvals) OBVIOUS
  <2> PICK timedOut : timedOut = {j \in ActiveRows : approvals[j].plan = request[r].plan}
                                   \cap request[r].seen OBVIOUS
  <2>1. PICK rows : rows = EndRows(timedOut, "expired") OBVIOUS
  <2>2. PICK new : new = [plan |-> request[r].plan, status |-> "pending", granted |-> FALSE]
    OBVIOUS
  <2>3. approvals' = Append(rows, new) BY <1>3, <1>6, <2>1, <2>2 DEF InsertApproval
  <2>4. new \in Approval
    <3>1. request[r] \in Request BY DEF PlansInvariant
    <3> QED BY <2>2, <3>1 DEF Approval, Status, Request
  <2>5. /\ rows \in Seq(Approval) /\ Len(rows) = n /\ DOMAIN approvals = 1..n
        /\ rows[i].status = IF i \in timedOut THEN "expired" ELSE approvals[i].status
    BY <1>1, <2>1, EndedRows, Lengths DEF Status
  <2>6. approvals'[i] = rows[i]
    <3> PICK t : t = approvals' OBVIOUS
    <3>1. t = Append(rows, new) /\ rows \in Seq(Approval) /\ i \in 1..Len(rows)
      BY <2>3, <2>5
    <3>2. t[i] = rows[i] BY <2>4, <3>1, Appended
    <3> QED BY <3>2
  <2>7. approvals[i].status \in Active /\ approvals'[i].status = "expired"
    BY <2>5, <2>6 DEF ActiveRows
  <2> QED BY <2>7
<1>7. ASSUME NEW r \in Requests, Approve(r)
      PROVE  <<approvals[i].status, approvals'[i].status>> \in Transitions
  <2> PICK q : q = request[r] OBVIOUS
  <2> PICK a : a = approvals[q.id] OBVIOUS
  <2>1. a.status = "pending" /\ approvals' = [approvals EXCEPT ![q.id] =
                                   [a EXCEPT !.status = "approved", !.granted = TRUE]]
    BY <1>3, <1>7 DEF Approve
  <2>2. q.id = i BY <2>1
  <2>3. a \in Approval BY <1>1, <2>2, Lengths
  <2>4. approvals'[i].status = "approved" BY <2>1, <2>2, <2>3 DEF Approval
  <2> QED BY <2>1, <2>2, <2>4
<1>8. ASSUME NEW r \in Requests, NEW op,
             NEW from, NEW to \in Status, <<from, to>> \in Transitions, Decide(r, op, from, to)
      PROVE  <<approvals[i].status, approvals'[i].status>> \in Transitions
  <2> PICK rows : rows = {request[r].id} OBVIOUS
  <2>1. approvals[request[r].id].status = from /\ approvals' = EndRows(rows, to)
    BY <1>3, <1>8 DEF Decide
  <2>2. i \in rows /\ approvals'[i].status = to BY <1>1, <2>1, EndedRows
  <2> QED BY <1>8, <2>1, <2>2
<1>9. ASSUME NEW r \in Requests, Reject(r) \/ Revoke(r)
      PROVE  <<approvals[i].status, approvals'[i].status>> \in Transitions
  <2>1. /\ <<"pending", "rejected">> \in Transitions
        /\ <<"approved", "revoked">> \in Transitions
        /\ "rejected" \in Status /\ "revoked" \in Status
    BY DEF Status
  <2>2. CASE Reject(r) BY <1>8, <2>1, <2>2 DEF Reject
  <2>3. CASE Revoke(r) BY <1>8, <2>1, <2>3 DEF Revoke
  <2> QED BY <1>9, <2>2, <2>3
<1>10. PICK r \in Requests : \/ Invalidate(r) \/ Refresh(r) \/ InsertApproval(r)
                             \/ Approve(r) \/ Reject(r) \/ Revoke(r)
  BY <1>3 DEF Next, vars, Late, Begin, Step, Fail, Generate, StartBind, StartAppend,
              StartRequest, StartSimulate, StartRefresh, StartApproveCreative, StartOnPlan,
              Save, Bind, Supersede, InsertVersion, ApproveCreative, Derive, Rebind, Read, Review
<1> QED BY <1>4, <1>5, <1>6, <1>7, <1>9, <1>10

\* No decision about an approval is overwritten: every change of a row is one of the
\* few that approve, reject, revoke, expire and invalidate make.
THEOREM ApprovalDecisionsAreFinal == Spec => DecisionsAreFinal
<1> DEFINE Final == \A i \in DOMAIN approvals :
                      approvals'[i].status # approvals[i].status
                        => <<approvals[i].status, approvals'[i].status>> \in Transitions
<1>1. PlansInvariant /\ [Next]_vars => [Final]_approvals BY FinalStep
<1>2. Spec => [][Final]_approvals
  <2> HIDE DEF Final
  <2> QED BY <1>1, Invariant, PTL DEF Spec
<1> QED BY <1>2 DEF DecisionsAreFinal

-----------------------------------------------------------------------------
(* The advances of the orchestrator, over the same tables.                 *)

\* Version v was approved by a person, and without issues.
Clean(v) == Decided(v) /\ packages[v].content \in CleanContents

\* What an advance relies on: v is its local state, q that of the request it waits for.
\* It asks for an approval only of a plan with a target, after it read the review.
AdvanceRelies(v, q) ==
  /\ v.pc # "idle" => plans # <<>>
  /\ v.pc \in {"creative", "approval", "acting", "calling"} => v.plan \in DOMAIN plans
  /\ v.pc \in {"approval", "acting", "calling"} /\ v.reviewed => Clean(v.version)
  /\ v.pc \in {"acting", "calling"} /\ v.action = "ask"
       => v.reviewed /\ plans[v.plan].target # NoTarget
  /\ v.pc = "calling" <=> q.pc # "idle"
  /\ v.pc = "calling" =>
       \/ q.pc \in {"binding", "saving", "invalidating"} /\ q.op = "bind"
       \/ q.pc = "requesting" /\ v.action = "ask" /\ q.plan = v.plan

\* An approval that was opened is for a plan with a target, after a clean review.
Prepared(o) ==
  /\ o.approval \in DOMAIN approvals /\ o.version \in Nat
  /\ approvals[o.approval].plan \in DOMAIN plans
  /\ plans[approvals[o.approval].plan].target # NoTarget
  /\ Clean(o.version)

AdvancesInvariant ==
  /\ PlansInvariant /\ ETypeOK
  /\ \A a \in Advances : AdvanceRelies(advance[a], request[a])
  /\ \A o \in opened : Prepared(o)

LEMMA CleanPersists ==
  ASSUME Grows, NEW v, Clean(v)
  PROVE  Clean(v)'
BY DEF Clean, Decided, Grows

LEMMA PreparedPersists ==
  ASSUME Grows, NEW o, Prepared(o)
  PROVE  Prepared(o)'
<1>1. Clean(o.version)' BY CleanPersists DEF Prepared
<1> QED BY <1>1 DEF Prepared, Grows

LEMMA AdvancePersists ==
  ASSUME Stored, Stored', Grows, NEW v, NEW q, AdvanceRelies(v, q)
  PROVE  AdvanceRelies(v, q)'
<1>1. v.pc # "idle" => plans' # <<>>
  <2>1. /\ plans # <<>> <=> Len(plans) # 0
        /\ plans' # <<>> <=> Len(plans') # 0
        /\ Len(plans) \in Nat /\ Len(plans') \in Nat
    BY LenProperties, EmptySeq DEF Stored
  <2> QED BY <2>1 DEF AdvanceRelies, Grows
<1>2. v.pc \in {"approval", "acting", "calling"} /\ v.reviewed => Clean(v.version)'
  BY CleanPersists DEF AdvanceRelies
<1> QED BY <1>1, <1>2 DEF AdvanceRelies, Grows

\* A step of one advance, or of nobody: what the others rely on stays.
LEMMA AdvanceStepKeeps ==
  ASSUME AdvancesInvariant, PlansInvariant', Grows, NEW a \in Advances,
         advance' \in [Advances -> Advance],
         told' \in [Advances -> [ending : Ending, action : Action]],
         UNCHANGED people,
         \A b \in Advances \ {a} : advance'[b] = advance[b] /\ request'[b] = request[b],
         AdvanceRelies(advance[a], request[a])',
         \A o \in opened' : \/ o \in opened
                            \/ o = [approval |-> o.approval, version |-> o.version] /\ Prepared(o)'
  PROVE  AdvancesInvariant'
<1>1. Stored /\ Stored' BY DEF AdvancesInvariant, PlansInvariant, TablesInvariant
<1>2. ASSUME NEW b \in Advances PROVE AdvanceRelies(advance[b], request[b])'
  <2>1. CASE b = a BY <2>1
  <2>2. CASE b # a
    <3> PICK v, q : v = advance[b] /\ q = request[b] OBVIOUS
    <3>1. AdvanceRelies(v, q) BY DEF AdvancesInvariant
    <3>2. AdvanceRelies(v, q)' BY <1>1, <3>1, AdvancePersists
    <3>3. advance'[b] = v /\ request'[b] = q BY <2>2
    <3> QED BY <3>2, <3>3 DEF AdvanceRelies
  <2> QED BY <2>1, <2>2
<1>3. ASSUME NEW o \in opened' PROVE Prepared(o)'
  <2>1. CASE o \in opened BY <2>1, PreparedPersists DEF AdvancesInvariant
  <2> QED BY <2>1
<1>4. opened' \subseteq [approval : DOMAIN approvals', version : Nat]
  <2> SUFFICES ASSUME NEW o \in opened'
               PROVE  o \in [approval : DOMAIN approvals', version : Nat]
    OBVIOUS
  <2>1. o.approval \in DOMAIN approvals' /\ o.version \in Nat BY <1>3 DEF Prepared
  <2>2. o = [approval |-> o.approval, version |-> o.version]
    BY DEF AdvancesInvariant, ETypeOK
  <2> QED BY <2>1, <2>2
<1>5. ETypeOK'
  BY <1>2, <1>4 DEF AdvancesInvariant, ETypeOK, people, AdvanceRelies
<1> QED BY <1>2, <1>3, <1>5 DEF AdvancesInvariant

\* What is known of an advance that takes a step.
LEMMA OfAdvance ==
  ASSUME AdvanceAssumption, AdvancesInvariant, NEW a \in Advances
  PROVE  /\ a \in Requests /\ PlansInvariant /\ Stored /\ Len(packages) \in Nat
         /\ advance \in [Advances -> Advance] /\ advance[a] \in Advance
         /\ request \in [Requests -> Request] /\ request[a] \in Request
         /\ told \in [Advances -> [ending : Ending, action : Action]]
         /\ AdvanceRelies(advance[a], request[a])
BY Lengths DEF AdvanceAssumption, AdvancesInvariant, ETypeOK, PlansInvariant, TablesInvariant

\* Reading, and what is decided from what was read, leaves the tables alone.
LEMMA NothingGrows ==
  ASSUME PlansInvariant, UNCHANGED vars
  PROVE  PlansInvariant' /\ Grows
BY NextInvariant

LEMMA ReadingStep ==
  ASSUME AdvanceAssumption, AdvancesInvariant, NEW a \in Advances, NEW v \in Advance,
         advance' = [advance EXCEPT ![a] = v],
         told' \in [Advances -> [ending : Ending, action : Action]],
         UNCHANGED <<vars, opened, people>>, AdvanceRelies(v, request[a])
  PROVE  AdvancesInvariant'
<1>1. PlansInvariant' /\ Grows BY OfAdvance, NothingGrows
<1>2. /\ advance' \in [Advances -> Advance] /\ advance'[a] = v
      /\ \A b \in Advances \ {a} : advance'[b] = advance[b]
  BY OfAdvance
<1>3. UNCHANGED <<plans, packages, approvals, request>> BY DEF vars
<1>4. AdvanceRelies(advance[a], request[a])'
  BY <1>2, <1>3 DEF AdvanceRelies, Clean, Decided
<1> QED BY <1>1, <1>2, <1>3, <1>4, AdvanceStepKeeps

LEMMA UnreadType == Unread \in Advance /\ Unread.pc = "idle"
BY DEF Unread, Advance, Action

\* An advance that ends.
LEMMA Ended ==
  ASSUME AdvanceAssumption, AdvancesInvariant, NEW a \in Advances, NEW ending \in Ending,
         End(a, ending)
  PROVE  /\ advance' = [advance EXCEPT ![a] = Unread]
         /\ told' \in [Advances -> [ending : Ending, action : Action]]
<1>1. advance[a].action \in Action BY OfAdvance DEF Advance
<1> QED BY <1>1, OfAdvance DEF End

\* An advance that ends without a request, or after it.
LEMMA EndWhileReading ==
  ASSUME AdvanceAssumption, AdvancesInvariant, NEW a \in Advances, NEW ending \in Ending,
         End(a, ending), advance[a].pc # "calling", UNCHANGED <<vars, opened, people>>
  PROVE  AdvancesInvariant'
<1>1. AdvanceRelies(Unread, request[a])
  BY OfAdvance, UnreadType DEF AdvanceRelies
<1> QED BY <1>1, Ended, UnreadType, ReadingStep

\* The readings of an advance: each keeps what was read before.
LEMMA ReadingSteps ==
  ASSUME AdvanceAssumption, AdvancesInvariant, NEW a \in Advances,
         \/ \E pass \in {"peek", "first"} : StartAdvance(a, pass)
         \/ ReadPlan(a) \/ ReadCreative(a) \/ ReadCurrentApproval(a)
  PROVE  AdvancesInvariant'
<1> PICK v, q : v = advance[a] /\ q = request[a] OBVIOUS
<1>1. v \in Advance /\ AdvanceRelies(v, q) /\ PlansInvariant BY OfAdvance
<1>2. CASE \E pass \in {"peek", "first"} : StartAdvance(a, pass)
  <2> PICK pass \in {"peek", "first"} : StartAdvance(a, pass) BY <1>2
  <2> DEFINE next == [[Unread EXCEPT !.pass = pass] EXCEPT !.pc = "plan"]
  <2>1. next \in Advance /\ next.pc = "plan" BY UnreadType DEF Advance
  <2>2. advance' = [advance EXCEPT ![a] = next] BY DEF StartAdvance, Local
  <2>3. plans # <<>> /\ v.pc = "idle" /\ UNCHANGED <<vars, told, opened, people>>
    BY DEF StartAdvance
  <2> HIDE DEF next
  <2>4. AdvanceRelies(next, q) BY <1>1, <2>1, <2>3 DEF AdvanceRelies
  <2> QED BY <2>1, <2>2, <2>3, <2>4, ReadingStep, OfAdvance
<1>3. CASE ReadPlan(a)
  <2> PICK n : n = Latest OBVIOUS
  <2> DEFINE next == [[v EXCEPT !.plan = n] EXCEPT !.pc = "creative"]
  <2>1. v.pc = "plan" /\ UNCHANGED <<vars, told, opened, people>> BY <1>3 DEF ReadPlan
  <2>2. n \in DOMAIN plans /\ n \in Nat
    BY <1>1, <2>1, LatestStored, Lengths DEF AdvanceRelies, PlansInvariant, TablesInvariant
  <2>3. next \in Advance /\ next.pc = "creative" /\ next.plan = n BY <1>1, <2>2 DEF Advance
  <2>4. advance' = [advance EXCEPT ![a] = next] BY <1>3 DEF ReadPlan, Local
  <2> HIDE DEF next
  <2>5. AdvanceRelies(next, q) BY <1>1, <2>1, <2>2, <2>3 DEF AdvanceRelies
  <2> QED BY <2>1, <2>3, <2>4, <2>5, ReadingStep, OfAdvance
<1>4. CASE ReadCreative(a)
  <2> PICK n, x : n = Len(packages) /\ x = CreativeApproved OBVIOUS
  <2> DEFINE next == [[v EXCEPT !.version = n, !.reviewed = x] EXCEPT !.pc = "approval"]
  <2>1. v.pc = "creative" /\ UNCHANGED <<vars, told, opened, people>> BY <1>4 DEF ReadCreative
  <2>2. n \in Nat /\ x \in BOOLEAN BY OfAdvance DEF CreativeApproved
  <2>3. /\ next \in Advance /\ next.pc = "approval" /\ next.plan = v.plan
        /\ next.version = n /\ next.reviewed = x
    BY <1>1, <2>2 DEF Advance
  <2>4. advance' = [advance EXCEPT ![a] = next] BY <1>4 DEF ReadCreative, Local
  <2>5. x => Clean(n)
    <3> SUFFICES ASSUME x PROVE Clean(n) OBVIOUS
    <3>1. packages # <<>> /\ packages[n].status = "approved" BY DEF CreativeApproved
    <3>2. n \in DOMAIN packages
      BY <1>1, <3>1, Lengths, EmptySeq DEF PlansInvariant, TablesInvariant, Stored
    <3> QED BY <1>1, <3>1, <3>2 DEF Clean, Decided, PlansInvariant, TablesInvariant
  <2> HIDE DEF next
  <2>6. AdvanceRelies(next, q) BY <1>1, <2>1, <2>3, <2>5 DEF AdvanceRelies
  <2> QED BY <2>1, <2>3, <2>4, <2>6, ReadingStep, OfAdvance
<1>5. CASE ReadCurrentApproval(a)
  <2> PICK act : act = NextAction(plans[v.plan].target # NoTarget, v.reviewed, InForce(v.plan))
    OBVIOUS
  <2> DEFINE next == [[v EXCEPT !.action = act] EXCEPT !.pc = "acting"]
  <2>1. v.pc = "approval" /\ UNCHANGED <<vars, told, opened, people>>
    BY <1>5 DEF ReadCurrentApproval
  <2>2. act \in Action /\ (act = "ask" => v.reviewed /\ plans[v.plan].target # NoTarget)
    BY DEF NextAction, Action
  <2>3. /\ next \in Advance /\ next.pc = "acting" /\ next.plan = v.plan
        /\ next.version = v.version /\ next.reviewed = v.reviewed /\ next.action = act
    BY <1>1, <2>2 DEF Advance
  <2>4. advance' = [advance EXCEPT ![a] = next] BY <1>5 DEF ReadCurrentApproval, Local
  <2> HIDE DEF next
  <2>5. AdvanceRelies(next, q) BY <1>1, <2>1, <2>2, <2>3 DEF AdvanceRelies
  <2> QED BY <2>1, <2>3, <2>4, <2>5, ReadingStep, OfAdvance
<1> QED BY <1>2, <1>3, <1>4, <1>5

\* What an advance does without a request.
LEMMA AnsweringSteps ==
  ASSUME AdvanceAssumption, AdvancesInvariant, NEW a \in Advances,
         Peeked(a) \/ Refused(a) \/ Answer(a)
  PROVE  AdvancesInvariant'
<1> PICK v, q : v = advance[a] /\ q = request[a] OBVIOUS
<1>1. /\ v \in Advance /\ AdvanceRelies(v, q) /\ v.pc = "acting"
      /\ UNCHANGED <<vars, opened, people>>
  BY OfAdvance DEF Peeked, Refused, Answer, Acting
<1>2. CASE \E ending \in Ending : End(a, ending)
  BY <1>1, <1>2, EndWhileReading
<1>3. CASE /\ advance' = Local(a, "plan", [Unread EXCEPT !.pass = "first"])
           /\ UNCHANGED told
  <2> DEFINE next == [[Unread EXCEPT !.pass = "first"] EXCEPT !.pc = "plan"]
  <2>1. next \in Advance /\ next.pc = "plan" BY UnreadType DEF Advance
  <2>2. advance' = [advance EXCEPT ![a] = next] BY <1>3 DEF Local
  <2> HIDE DEF next
  <2>3. AdvanceRelies(next, q) BY <1>1, <2>1 DEF AdvanceRelies
  <2> QED BY <1>1, <1>3, <2>1, <2>2, <2>3, ReadingStep, OfAdvance
<1> QED BY <1>2, <1>3 DEF Peeked, Refused, Answer, Ending

\* A step of a request changes no other request.
LEMMA OneRequest ==
  ASSUME NEW r \in Requests, Begin(r) \/ Step(r) \/ Fail(r)
  PROVE  \E local : Goto(r, local)
<1>1. ASSUME NEW local, NEW new, StampAndSave(r, local, new) PROVE \E x : Goto(r, x)
  BY <1>1 DEF StampAndSave, Return
<1>2. ASSUME NEW local, ReadApproval(r, local) PROVE \E x : Goto(r, x)
  BY <1>2 DEF ReadApproval, Continue
<1>3. CASE Begin(r)
  <2>1. ASSUME NEW op, NEW pc, NEW local, StartOnPlan(r, op, pc, local) PROVE \E x : Goto(r, x)
    BY <2>1 DEF StartOnPlan
  <2> QED BY <1>1, <1>2, <1>3, <2>1 DEF Begin, Generate, StartBind, StartAppend,
             StartApproveCreative, StartRequest, StartSimulate, StartRefresh
<1>4. CASE Fail(r) BY <1>4 DEF Fail, Return
<1>5. CASE Save(r) BY <1>5 DEF Save, Return
<1>6. CASE Bind(r) \/ Supersede(r) \/ InsertVersion(r) \/ Derive(r) \/ Rebind(r)
  BY <1>1, <1>6 DEF Bind, Supersede, InsertVersion, Derive, Rebind, BuildCreative, Build, Return
<1>7. CASE Read(r) \/ Refresh(r) BY <1>2, <1>7 DEF Read, Refresh, Continue
<1>8. CASE \/ Invalidate(r) \/ ApproveCreative(r) \/ InsertApproval(r) \/ Approve(r)
           \/ Reject(r) \/ Revoke(r) \/ Review(r)
  BY <1>8 DEF Invalidate, ApproveCreative, InsertApproval, Approve, Reject, Revoke, Decide,
              Review, Return
<1> QED BY <1>3, <1>4, <1>5, <1>6, <1>7, <1>8 DEF Step

LEMMA RequestSteps ==
  ASSUME PlansInvariant, NEW r \in Requests, Begin(r) \/ Step(r) \/ Fail(r)
  PROVE  /\ PlansInvariant' /\ Grows
         /\ \A s \in Requests \ {r} : request'[s] = request[s]
<1>1. Next BY DEF Next
<1>2. PlansInvariant' /\ Grows BY <1>1, NextInvariant
<1>3. request \in [Requests -> Request] BY DEF PlansInvariant
<1> QED BY <1>2, <1>3, OneRequest DEF Goto

\* An advance calls a request.
LEMMA CallingSteps ==
  ASSUME AdvanceAssumption, AdvancesInvariant, NEW a \in Advances,
         BindSelected(a) \/ OpenApproval(a)
  PROVE  AdvancesInvariant'
<1> PICK v, q : v = advance[a] /\ q = request[a] OBVIOUS
<1> PICK n : n = Latest OBVIOUS
<1> DEFINE next == [v EXCEPT !.pc = "calling"]
<1>1. /\ v \in Advance /\ AdvanceRelies(v, q) /\ a \in Requests /\ PlansInvariant
      /\ v.pc = "acting" /\ v.plan = n
      /\ UNCHANGED <<told, opened, people>>
  BY OfAdvance DEF BindSelected, OpenApproval, Acting
<1>2. Begin(a) BY DEF BindSelected, OpenApproval, Begin
<1>3. /\ PlansInvariant' /\ Grows
      /\ \A s \in Requests \ {a} : request'[s] = request[s]
  BY <1>1, <1>2, RequestSteps
<1>4. /\ next \in Advance /\ next.pc = "calling" /\ next.plan = v.plan
      /\ next.version = v.version /\ next.reviewed = v.reviewed /\ next.action = v.action
  BY <1>1 DEF Advance
<1>5. advance' = [advance EXCEPT ![a] = next] BY DEF BindSelected, OpenApproval, Local
<1> HIDE DEF next
<1>6. /\ advance' \in [Advances -> Advance] /\ advance'[a] = next
      /\ \A b \in Advances \ {a} : advance'[b] = advance[b]
  BY <1>4, <1>5, OfAdvance
<1>7. \/ request'[a].pc = "binding" /\ request'[a].op = "bind"
      \/ request'[a].pc = "requesting" /\ request'[a].plan = n /\ v.action = "ask"
  <2>1. Idle \in Request /\ request \in [Requests -> Request] BY IdleRelies, <1>1 DEF ReliesOn, PlansInvariant
  <2>2. ASSUME NEW t \in Targets, StartBind(a, t)
        PROVE  request'[a].pc = "binding" /\ request'[a].op = "bind"
    <3> DEFINE local == [Idle EXCEPT !.arg = t]
    <3>1. local \in Request BY <2>1 DEF Request
    <3>2. Goto(a, [local EXCEPT !.pc = "binding", !.op = "bind", !.plan = Latest])
      BY <2>2 DEF StartBind, StartOnPlan
    <3> HIDE DEF local
    <3> QED BY <1>1, <2>1, <3>1, <3>2 DEF Goto, Request
  <2>3. ASSUME StartRequest(a), v.action = "ask"
        PROVE  request'[a].pc = "requesting" /\ request'[a].plan = n
    <3> DEFINE local == [Idle EXCEPT !.seen = late]
    <3>1. late \in SUBSET Nat BY <1>1, Lengths DEF PlansInvariant, TablesInvariant, Stored
    <3>2. local \in Request BY <2>1, <3>1 DEF Request
    <3>3. Goto(a, [local EXCEPT !.pc = "requesting", !.op = "request", !.plan = n])
      BY <2>3 DEF StartRequest, StartOnPlan
    <3> HIDE DEF local
    <3> QED BY <1>1, <2>1, <3>2, <3>3 DEF Goto, Request
  <2> QED BY <2>2, <2>3 DEF BindSelected, OpenApproval, Acting
<1>8. AdvanceRelies(advance[a], request[a])'
  <2> PICK x, y : x = next /\ y = request'[a] OBVIOUS
  <2>1. AdvanceRelies(v, q) /\ Stored /\ Stored'
    BY <1>1, <1>3 DEF PlansInvariant, TablesInvariant
  <2>2. AdvanceRelies(v, q)' BY <1>3, <2>1, AdvancePersists
  <2>3. AdvanceRelies(x, y)'
    BY <1>1, <1>4, <1>7, <2>2 DEF AdvanceRelies
  <2> QED BY <1>6, <2>3 DEF AdvanceRelies
<1>9. \A b \in Advances \ {a} : request'[b] = request[b]
  BY <1>3 DEF AdvanceAssumption
<1> QED BY <1>1, <1>3, <1>6, <1>8, <1>9, OfAdvance, AdvanceStepKeeps

\* The steps of a request that binds or asks for an approval.
LEMMA StepOfCall ==
  ASSUME NEW r \in Requests, Step(r)
  PROVE  /\ request[r].pc = "binding" => Bind(r)
         /\ request[r].pc = "saving" => Save(r)
         /\ request[r].pc = "invalidating" => Invalidate(r)
         /\ request[r].pc = "requesting" => InsertApproval(r)
BY DEF Step, Save, Invalidate, Bind, Supersede, InsertVersion, ApproveCreative, Derive, Rebind,
       InsertApproval, Read, Refresh, Approve, Reject, Revoke, Decide, Review

LEMMA CallOfBind ==
  ASSUME PlansInvariant, NEW r \in Requests, Step(r),
         request[r].pc \in {"binding", "saving", "invalidating"}, request[r].op = "bind"
  PROVE  /\ Len(approvals') = Len(approvals)
         /\ \/ request'[r].pc \in {"saving", "invalidating"} /\ request'[r].op = "bind"
            \/ request'[r].pc = "idle"
<1> PICK q : q = request[r] OBVIOUS
<1>1. /\ Stored /\ q \in Request /\ request \in [Requests -> Request]
      /\ Idle \in Request /\ Idle.pc = "idle"
  BY IdleRelies DEF PlansInvariant, TablesInvariant, ReliesOn, Idle
<1>2. ASSUME Return(r) PROVE request'[r].pc = "idle" BY <1>1, <1>2 DEF Return, Goto
<1>3. CASE q.pc = "binding"
  <2>1. Bind(r) /\ approvals' = approvals BY <1>3, StepOfCall DEF Bind
  <2>2. CASE Goto(r, [q EXCEPT !.pc = "invalidating"])
    BY <1>1, <2>1, <2>2 DEF Goto, Request
  <2>3. ASSUME NEW change, NEW target, NEW version, NEW reviewed,
               Build(r, q.plan, change, target, version, reviewed)
        PROVE  \/ request'[r].pc = "saving" /\ request'[r].op = "bind"
               \/ request'[r].pc = "idle"
    <3>1. CASE Return(r) BY <1>2, <3>1
    <3>2. CASE \E new : Goto(r, [[q EXCEPT !.plan = q.plan] EXCEPT !.pc = "saving", !.new = new])
      <4> PICK new : Goto(r, [[q EXCEPT !.plan = q.plan] EXCEPT !.pc = "saving", !.new = new])
        BY <3>2
      <4> DEFINE local == [[q EXCEPT !.plan = q.plan] EXCEPT !.pc = "saving", !.new = new]
      <4>1. local.pc = "saving" /\ local.op = "bind" BY <1>1 DEF Request
      <4>2. request'[r] = local BY <1>1 DEF Goto
      <4> QED BY <4>1, <4>2
    <3> QED BY <2>3, <3>1, <3>2 DEF Build, StampAndSave
  <2> QED BY <2>1, <2>2, <2>3 DEF Bind
<1>4. CASE q.pc = "saving"
  <2>1. Save(r) /\ approvals' = approvals BY <1>4, StepOfCall DEF Save
  <2>2. PICK i : Goto(r, [q EXCEPT !.pc = "invalidating", !.plan = i]) BY <2>1 DEF Save
  <2>3. request'[r].pc = "invalidating" /\ request'[r].op = "bind"
    BY <1>1, <2>2 DEF Goto, Request
  <2> QED BY <2>1, <2>3
<1>5. CASE q.pc = "invalidating"
  <2>1. Invalidate(r) /\ Return(r) BY <1>5, StepOfCall DEF Invalidate
  <2> PICK rows : rows = {i \in ActiveRows : approvals[i].plan # request[r].plan} OBVIOUS
  <2>2. approvals' = EndRows(rows, "invalidated") BY <2>1 DEF Invalidate
  <2> QED BY <1>1, <1>2, <2>1, <2>2, EndedRows DEF Status
<1> QED BY <1>3, <1>4, <1>5

LEMMA CallOfRequest ==
  ASSUME PlansInvariant, NEW r \in Requests, Step(r), request[r].pc = "requesting"
  PROVE  /\ request'[r].pc = "idle"
         /\ \/ Len(approvals') = Len(approvals)
            \/ /\ Len(approvals') \in DOMAIN approvals'
               /\ approvals'[Len(approvals')].plan = request[r].plan
<1> PICK q : q = request[r] OBVIOUS
<1> PICK timedOut : timedOut = {i \in ActiveRows : approvals[i].plan = q.plan} \cap q.seen OBVIOUS
<1>0. PICK new : new = [plan |-> q.plan, status |-> "pending", granted |-> FALSE] OBVIOUS
<1>1. /\ Stored /\ q \in Request /\ request \in [Requests -> Request] /\ InsertApproval(r)
      /\ Idle \in Request /\ Idle.pc = "idle"
  BY IdleRelies, StepOfCall DEF PlansInvariant, TablesInvariant, ReliesOn, Idle
<1>2. request'[r].pc = "idle" BY <1>1 DEF InsertApproval, Return, Goto
<1>3. CASE approvals' = Append(EndRows(timedOut, "expired"), new)
  <2>0. PICK rows : rows = EndRows(timedOut, "expired") OBVIOUS
  <2>1. rows \in Seq(Approval) BY <1>1, <2>0, EndedRows DEF Status
  <2>2. new \in Approval BY <1>0, <1>1 DEF Approval, Request, Status
  <2> PICK t : t = approvals' OBVIOUS
  <2>3. t = Append(rows, new) BY <1>3, <2>0
  <2>4. /\ Len(t) = Len(rows) + 1 /\ Len(rows) \in Nat /\ DOMAIN t = 1..(Len(rows) + 1)
        /\ t[Len(rows) + 1] = new
    BY <2>1, <2>2, <2>3, Appended
  <2>5. Len(t) \in DOMAIN t /\ t[Len(t)].plan = q.plan BY <1>0, <2>4
  <2> QED BY <1>2, <2>5
<1>4. CASE UNCHANGED approvals BY <1>2, <1>4
<1> QED BY <1>0, <1>1, <1>3, <1>4 DEF InsertApproval

\* A request that an advance waits for goes on, or fails.
LEMMA CallSteps ==
  ASSUME AdvanceAssumption, AdvancesInvariant, NEW a \in Advances,
         CallStep(a) \/ CallFails(a)
  PROVE  AdvancesInvariant'
<1> PICK v, q : v = advance[a] /\ q = request[a] OBVIOUS
<1>1. /\ v \in Advance /\ AdvanceRelies(v, q) /\ a \in Requests /\ PlansInvariant
      /\ v.pc = "calling" /\ UNCHANGED people
      /\ \/ q.pc \in {"binding", "saving", "invalidating"} /\ q.op = "bind"
         \/ q.pc = "requesting" /\ v.action = "ask" /\ q.plan = v.plan
  BY OfAdvance DEF CallStep, CallFails, AdvanceRelies
<1>2. /\ PlansInvariant' /\ Grows /\ Stored /\ Stored'
      /\ \A b \in Advances \ {a} : request'[b] = request[b]
  <2>1. Step(a) \/ Fail(a) BY DEF CallStep, CallFails
  <2> QED BY <1>1, <2>1, RequestSteps DEF AdvanceAssumption, PlansInvariant, TablesInvariant
<1>3. AdvanceRelies(v, q)' BY <1>1, <1>2, AdvancePersists
<1>4. \/ request'[a].pc = "idle"
      \/ /\ CallStep(a) /\ UNCHANGED <<advance, told>>
         /\ request'[a].pc \in {"saving", "invalidating"} /\ request'[a].op = "bind"
  <2>1. CASE CallFails(a)
    <3>1. Idle \in Request /\ Idle.pc = "idle" /\ Goto(a, Idle)
      BY <2>1, IdleRelies DEF ReliesOn, Idle, CallFails, Fail, Return
    <3> QED BY <1>1, <3>1 DEF Goto, PlansInvariant
  <2>2. CASE CallStep(a)
    <3>1. Step(a) BY <2>2 DEF CallStep
    <3>2. \/ request'[a].pc = "idle"
          \/ request'[a].pc \in {"saving", "invalidating"} /\ request'[a].op = "bind"
      BY <1>1, <3>1, CallOfBind, CallOfRequest
    <3> QED BY <2>2, <3>2 DEF CallStep
  <2> QED BY <2>1, <2>2
<1>5. CASE request'[a].pc # "idle"
  <2>1. AdvanceRelies(advance[a], request[a])'
    <3> PICK y : y = request'[a] OBVIOUS
    <3>1. AdvanceRelies(v, y)' BY <1>1, <1>3, <1>4, <1>5 DEF AdvanceRelies
    <3> QED BY <1>4, <1>5, <3>1 DEF AdvanceRelies
  <2>2. Len(approvals') = Len(approvals)
    <3>1. Step(a) /\ q.pc # "requesting" BY <1>1, <1>4, <1>5, CallOfRequest DEF CallStep
    <3> QED BY <1>1, <3>1, CallOfBind
  <2>3. opened' = opened BY <1>2, <1>4, <1>5, <2>2, LenProperties DEF CallStep, Stored
  <2> QED BY <1>1, <1>2, <1>4, <1>5, <2>1, <2>3, OfAdvance, AdvanceStepKeeps
<1>6. CASE request'[a].pc = "idle"
  <2>1. \/ \E ending \in Ending : End(a, ending)
        \/ /\ advance' = Local(a, "plan", [Unread EXCEPT !.pass = "again"]) /\ UNCHANGED told
    BY <1>6 DEF CallStep, CallFails, Ending
  <2>2. PICK next \in Advance : /\ advance' = [advance EXCEPT ![a] = next]
                                /\ next.pc \in {"idle", "plan"}
    <3>1. CASE \E ending \in Ending : End(a, ending) BY <3>1, Ended, UnreadType
    <3>2. CASE advance' = Local(a, "plan", [Unread EXCEPT !.pass = "again"])
      <4> DEFINE next == [[Unread EXCEPT !.pass = "again"] EXCEPT !.pc = "plan"]
      <4>1. next \in Advance /\ next.pc = "plan" BY UnreadType DEF Advance
      <4>2. advance' = [advance EXCEPT ![a] = next] BY <3>2 DEF Local
      <4> HIDE DEF next
      <4> QED BY <4>1, <4>2
    <3> QED BY <2>1, <3>1, <3>2
  <2>3. told' \in [Advances -> [ending : Ending, action : Action]]
    BY <2>1, Ended, OfAdvance
  <2>4. /\ advance' \in [Advances -> Advance] /\ advance'[a] = next
        /\ \A b \in Advances \ {a} : advance'[b] = advance[b]
    BY <2>2, OfAdvance
  <2>5. AdvanceRelies(advance[a], request[a])'
    <3> PICK y : y = request'[a] OBVIOUS
    <3>1. AdvanceRelies(next, y)' BY <1>1, <1>3, <1>6, <2>2 DEF AdvanceRelies
    <3> QED BY <2>4, <3>1 DEF AdvanceRelies
  <2>6. ASSUME NEW o \in opened', o \notin opened
        PROVE  o = [approval |-> o.approval, version |-> o.version] /\ Prepared(o)'
    <3>1. /\ Step(a) /\ Len(approvals') > Len(approvals)
          /\ o = [approval |-> Len(approvals'), version |-> v.version]
      BY <2>6 DEF CallStep, CallFails
    <3>2. Len(approvals) \in Nat BY <1>2, Lengths
    <3>3. q.pc = "requesting" /\ v.action = "ask" /\ q.plan = v.plan
      BY <1>1, <3>1, <3>2, CallOfBind
    <3>4. Len(approvals') \in DOMAIN approvals' /\ approvals'[Len(approvals')].plan = v.plan
      BY <1>1, <3>1, <3>2, <3>3, CallOfRequest
    <3>5. /\ v.plan \in DOMAIN plans' /\ plans'[v.plan].target # NoTarget
          /\ Clean(v.version)'
      BY <1>1, <1>3, <3>3 DEF AdvanceRelies
    <3>6. v.version \in Nat BY <1>1 DEF Advance
    <3>7. /\ o = [approval |-> o.approval, version |-> o.version]
          /\ o.approval = Len(approvals') /\ o.version = v.version
      BY <3>1
    <3> QED BY <3>4, <3>5, <3>6, <3>7 DEF Prepared
  <2> QED BY <1>1, <1>2, <2>3, <2>4, <2>5, <2>6, AdvanceStepKeeps
<1> QED BY <1>5, <1>6

\* Everybody else: people and their requests, time, and the Analyst.
LEMMA OthersSteps ==
  ASSUME AdvanceAssumption, AdvancesInvariant,
         ByOthers \/ Register \/ \E x \in Analyses : Analyse(x)
  PROVE  AdvancesInvariant'
<1>1. /\ PlansInvariant' /\ Grows /\ \A a \in Advances : request'[a] = request[a]
      /\ UNCHANGED <<advance, told, opened>>
  <2>1. CASE \E i \in DOMAIN approvals : Late(i) /\ UNCHANGED ecosystem
    BY <2>1, LateStep DEF AdvancesInvariant, ecosystem, Late
  <2>2. CASE /\ \E r \in Requests \ Advances : Begin(r) \/ Step(r) \/ Fail(r)
             /\ UNCHANGED ecosystem
    BY <2>2, RequestSteps DEF AdvancesInvariant, ecosystem, AdvanceAssumption
  <2>3. CASE Register \/ \E x \in Analyses : Analyse(x)
    <3>1. UNCHANGED vars /\ UNCHANGED <<advance, told, opened>> BY <2>3 DEF Register, Analyse
    <3> QED BY <3>1, NothingGrows DEF AdvancesInvariant, vars
  <2> QED BY <2>1, <2>2, <2>3 DEF ByOthers
<1>2. tracked' \in BOOLEAN /\ analysis' \in Analyses \cup {NoAnalysis}
  BY DEF AdvancesInvariant, ETypeOK, ByOthers, ecosystem, Register, Analyse
<1>3. Stored /\ Stored' BY <1>1 DEF AdvancesInvariant, PlansInvariant, TablesInvariant
<1>4. ASSUME NEW a \in Advances PROVE AdvanceRelies(advance[a], request[a])'
  <2> PICK v, q : v = advance[a] /\ q = request[a] OBVIOUS
  <2>1. AdvanceRelies(v, q)' BY <1>1, <1>3, AdvancePersists DEF AdvancesInvariant
  <2> QED BY <1>1, <2>1 DEF AdvanceRelies
<1>5. \A o \in opened' : Prepared(o)' BY <1>1, PreparedPersists DEF AdvancesInvariant
<1>6. ETypeOK'
  <2>1. opened' \subseteq [approval : DOMAIN approvals', version : Nat]
    BY <1>1, <1>5 DEF AdvancesInvariant, ETypeOK, Prepared
  <2> QED BY <1>1, <1>2, <2>1 DEF AdvancesInvariant, ETypeOK
<1> QED BY <1>1, <1>4, <1>5, <1>6 DEF AdvancesInvariant

LEMMA AdvancesInit ==
  ASSUME AdvanceAssumption, EInit
  PROVE  AdvancesInvariant
<1>1. PlansInvariant BY InitInvariant DEF EInit
<1>2. advance \in [Advances -> Advance] /\ \A a \in Advances : advance[a].pc = "idle"
  BY UnreadType DEF EInit
<1>3. \A a \in Advances : request[a].pc = "idle"
  BY DEF EInit, Init, Idle, AdvanceAssumption
<1>4. /\ told \in [Advances -> [ending : Ending, action : Action]]
      /\ opened = {} /\ tracked \in BOOLEAN /\ analysis \in Analyses \cup {NoAnalysis}
  BY DEF EInit, Ending, Action
<1>5. \A a \in Advances : AdvanceRelies(advance[a], request[a])
  BY <1>2, <1>3 DEF AdvanceRelies
<1> QED BY <1>1, <1>2, <1>3, <1>4, <1>5 DEF AdvancesInvariant, ETypeOK

LEMMA AdvancesNext ==
  ASSUME AdvanceAssumption, AdvancesInvariant, [ENext]_allVars
  PROVE  AdvancesInvariant'
<1>1. CASE ENext
  <2>1. CASE \E a \in Advances : \/ \E pass \in {"peek", "first"} : StartAdvance(a, pass)
                                 \/ AdvanceStep(a) \/ CallFails(a)
    BY <2>1, ReadingSteps, AnsweringSteps, CallingSteps, CallSteps DEF AdvanceStep
  <2> QED BY <1>1, <2>1, OthersSteps DEF ENext
<1>2. CASE UNCHANGED allVars
  <2>1. UNCHANGED vars /\ UNCHANGED ecosystem BY <1>2 DEF allVars
  <2>2. PlansInvariant' BY <2>1, NothingGrows DEF AdvancesInvariant
  <2>3. UNCHANGED <<plans, packages, approvals, request>> BY <2>1 DEF vars
  <2> QED BY <2>1, <2>2, <2>3
          DEF AdvancesInvariant, ETypeOK, AdvanceRelies, Prepared, Clean, Decided, ecosystem
<1> QED BY <1>1, <1>2

\* What an advance relies on, between its reads and the request it calls, is so, while
\* people generate plans, replace versions and decide (advanceSafe, advanceAllSafe).
THEOREM AdvancesCorrect ==
  ASSUME AdvanceAssumption
  PROVE  ESpec => []AdvancesInvariant
BY AdvancesInit, AdvancesNext, PTL DEF ESpec

\* What is told and what an advance does agree, whatever is stored.
LEMMA Agreement == ToldWhoActs
<1> SUFFICES ASSUME ~tracked PROVE ToldWhoActs BY DEF ToldWhoActs
<1>1. CASE ~CreativeApproved
  <2>1. Stage = "CREATIVE_REVIEW" /\ NextActionNow = "review"
    BY <1>1 DEF Stage, NextActionNow, NextAction
  <2> QED BY <2>1 DEF ToldWhoActs, UserActionRequired, SafeActions
<1>2. CASE CreativeApproved /\ plans[Latest].target = NoTarget
  <2>1. Stage = "TARGET_RESOLUTION" /\ NextActionNow = "resolve"
    BY <1>2 DEF Stage, NextActionNow, NextAction
  <2> QED BY <2>1 DEF ToldWhoActs, UserActionRequired, SafeActions
<1>3. CASE CreativeApproved /\ plans[Latest].target # NoTarget
  <2>1. NextActionNow \in {"create", "decide", "ask"}
    BY <1>3 DEF NextActionNow, NextAction
  <2>2. Stage = CASE NextActionNow = "ask" -> "PLAN_APPROVAL_PREPARATION"
                  [] NextActionNow = "decide" -> "PLAN_APPROVAL_REQUIRED"
                  [] NextActionNow = "create" -> "EXTERNAL_EXECUTION_GATE"
    BY <1>3, <2>1 DEF Stage
  <2> QED BY <2>1, <2>2 DEF ToldWhoActs, UserActionRequired, SafeActions
<1> QED BY <1>1, <1>2, <1>3

\* Every variable of an advance keeps to its type, and an advance calls something only
\* while a request of its own is under way.
THEOREM AdvanceTypeCorrect ==
  ASSUME AdvanceAssumption
  PROVE  ESpec => []ETypeOK
<1>1. AdvancesInvariant => ETypeOK BY DEF AdvancesInvariant
<1> QED BY <1>1, AdvancesCorrect, PTL

\* An approval that the orchestrator opened by itself is for a plan with a target, after
\* a person approved the version it read without issues; and people are told that the
\* Generator works exactly when an advance has something to do.
THEOREM WaitsForPeople ==
  ASSUME AdvanceAssumption
  PROVE  ESpec => []OrchestratorWaitsForPeople
<1>1. AdvancesInvariant => OpenedWasPrepared
  BY DEF AdvancesInvariant, Prepared, Clean, Decided, OpenedWasPrepared
<1>2. AdvancesInvariant => OrchestratorWaitsForPeople
  BY <1>1, Agreement DEF OrchestratorWaitsForPeople
<1> QED BY <1>2, AdvancesCorrect, PTL
=============================================================================
