---------------------------- MODULE OperatorViews --------------------------
(***************************************************************************)
(* What the operator is shown: the portfolio and the work queue over all   *)
(* tenants of his memberships, the plans and contexts of one tenant, the   *)
(* readiness of one plan, the timeline of one campaign.  A view is read by *)
(* several queries run together, while plans, decisions and memberships go *)
(* on changing; the work queue also saves one snapshot per tenant and day. *)
(* A read that fails refuses the answer and does not stop the others.      *)
(***************************************************************************)
EXTENDS OperatorRoles, Naturals, Sequences, FiniteSets

CONSTANTS
  Readings,       \* concurrent requests for a view
  Kinds,          \* bound: the views that requests ask for
  Campaigns,
  TenantOf,       \* [Campaigns -> Tenants]
  Decisions,      \* readiness decisions: [status, blockers: a set of owners]
  Limit,          \* events a timeline reads
  TicksPerDay,    \* the clock's steps in a day
  MaxVersions,    \* bound: plans, and contexts, of a campaign
  MaxTicks,       \* bound: the clock
  MaxEvents,      \* bound: audit events
  MaxOthers       \* bound: changes by others

ViewKinds == {"portfolio", "workQueue", "plans", "contexts", "readiness", "timeline"}

\* Those over all tenants of the operator.
Wide == {"portfolio", "workQueue"}

Owners == {"operator", "system"}

ASSUME KindsAssumption == Kinds \subseteq ViewKinds
ASSUME TenantOfAssumption == TenantOf \in [Campaigns -> Tenants]
ASSUME DecisionsAssumption ==
  Decisions \subseteq [status : {"blocked", "action_required", "ready_for_executor_validation"},
                       blockers : SUBSET Owners]
ASSUME ViewNumbersAssumption ==
  {Limit, TicksPerDay, MaxVersions, MaxTicks, MaxEvents, MaxOthers} \subseteq Nat \ {0}

VARIABLES
  member,     \* the tenants with an active membership of the subject
  plan,       \* [Campaigns -> the version of the latest plan; 0 before the first]
  context,    \* [Campaigns -> the version of the latest context]
  decision,   \* [Campaigns -> sequence of the latest decision of each plan, or None]
  events,     \* the campaigns' audit events, as they were inserted
  snapshot,   \* [Tenants \X days -> the row of the work queue, or None]
  viewed,     \* <<request, tenant>>: the views of a tenant that were audited
  time,
  reading,    \* [Readings -> the local state of the request]
  seen,       \* [Readings -> the plans and decisions that were the latest at some moment]
  others

facts == <<member, plan, context, decision, events, time, others>>
viewVars == <<member, plan, context, decision, events, snapshot, viewed, time, reading, seen,
              others>>

Days == 0..(MaxTicks \div TicksPerDay)
DayOf(at) == at \div TicksPerDay

Of(t) == {c \in Campaigns : TenantOf[c] = t}

-----------------------------------------------------------------------------
(* Items, priorities, snapshots and timelines as functions of what was read. *)

Verdict == Decisions \cup {None}
Version == 0..MaxVersions

\* An item of the portfolio, of the work queue, of the plans, of the contexts.
Item == [campaign : Campaigns, plan : Version, of : Verdict]
  \cup [campaign : Campaigns, plan : Version, of : Verdict, owner : Owners,
        priority : {"critical", "high", "normal"}]
  \cup [campaign : Campaigns, plan : Version] \cup [campaign : Campaigns, version : Version]

SnapshotRow == [items : SUBSET Item, generated : 0..MaxTicks]

WorkPriority(status, owner) ==
  IF status = "blocked" THEN "critical"
  ELSE IF status = "action_required" \/ owner = "operator" THEN "high" ELSE "normal"

\* The items of a plan: one per blocker of its decision, or that there is no decision.
WorkItems(c, v, d) ==
  IF d = None
  THEN {[campaign |-> c, plan |-> v, of |-> d, owner |-> "system", priority |-> "normal"]}
  ELSE {[campaign |-> c, plan |-> v, of |-> d, owner |-> o,
         priority |-> WorkPriority(d.status, o)] : o \in d.blockers}

\* The portfolio has one item per plan, with its decision.
PortfolioItem(c, v, d) == [campaign |-> c, plan |-> v, of |-> d]

ItemsOf(kind, c, v, d) ==
  IF kind = "workQueue" THEN WorkItems(c, v, d) ELSE {PortfolioItem(c, v, d)}

TenantItems(items, t) == {i \in items : TenantOf[i.campaign] = t}

\* The hash of a snapshot: its tenant, its day and its items, and not when it was made.
SameHash(row, items) == row.items = items

\* listForCampaign, then TIMELINE_COPY: of the newest events of the campaign, or of its
\* tenant, those that have a text.
Concerns(e, c) == TenantOf[e.campaign] = TenantOf[c] /\ (e.campaign = c \/ e.tenantWide)

Concerning(c) == {e \in DOMAIN events : Concerns(events[e], c)}

Newer(e, f) == events[e].at > events[f].at \/ (events[e].at = events[f].at /\ e > f)

\* The limit is reached by newer events.
Hidden(e, c) == Cardinality({f \in Concerning(c) : Newer(f, e)}) >= Limit

Timeline(c) == {e \in Concerning(c) : events[e].known /\ ~Hidden(e, c)}

-----------------------------------------------------------------------------
(* A request: its membership, its reads, and what it still has to do.      *)

ReadingPC == {"idle", "read", "save", "audit", "answered", "refused"}

Reading ==
  [pc : ReadingPC, kind : ViewKinds \cup {"none"}, tenants : SUBSET Tenants,
   campaign : Campaigns \cup {None}, toRead : SUBSET Tenants, listed : [Campaigns -> Version],
   toDecide : SUBSET Campaigns, items : SUBSET Item, shown : SUBSET Nat,
   generated : 0..MaxTicks, toSave : SUBSET Tenants, toSelect : SUBSET Tenants,
   unchanged : SUBSET Tenants, saved : [Tenants -> SnapshotRow \cup {None}],
   toAudit : SUBSET Tenants]

NoReading ==
  [pc |-> "idle", kind |-> "none", tenants |-> {}, campaign |-> None, toRead |-> {},
   listed |-> [c \in Campaigns |-> 0], toDecide |-> {}, items |-> {}, shown |-> {},
   generated |-> 0, toSave |-> {}, toSelect |-> {}, unchanged |-> {},
   saved |-> [t \in Tenants |-> None], toAudit |-> {}]

NothingSeen == [plans |-> {}, decisions |-> {}, events |-> {}]

LatestDecision(c, v) == IF v = 0 THEN None ELSE decision[c][v]

\* After every step: the latest at some moment, and the events that were there at first.
LatestPlans == {<<c, plan[c]>> : c \in Campaigns}

LatestDecisions ==
  UNION {{<<c, v, decision[c][v]>> : v \in DOMAIN decision[c]} : c \in Campaigns}

Meet ==
  seen' = [r \in Readings |->
             IF reading'[r].pc \in {"idle", "refused"} THEN NothingSeen
             ELSE IF reading[r].pc = "answered" THEN seen[r]
             ELSE [plans     |-> seen[r].plans \cup LatestPlans',
                   decisions |-> seen[r].decisions \cup LatestDecisions',
                   events    |-> IF reading[r].pc = "idle" THEN DOMAIN events'
                                 ELSE seen[r].events]]

VInit ==
  /\ member \in SUBSET Tenants
  /\ plan = [c \in Campaigns |-> 0] /\ context = plan
  /\ decision = [c \in Campaigns |-> <<>>]
  /\ events = <<>>
  /\ snapshot = [k \in Tenants \X Days |-> None]
  /\ viewed = {} /\ time = 0 /\ others = 0
  /\ reading = [r \in Readings |-> NoReading]
  /\ seen = [r \in Readings |-> NothingSeen]

\* A step of a request that changes nothing that is stored.
Turns(r, q) == reading' = [reading EXCEPT ![r] = q] /\ UNCHANGED <<facts, snapshot, viewed>>

\* Authenticated; the memberships: all of them, or the one of the tenant asked for.
List(r, kind) ==
  LET q == reading[r]
  IN /\ q.pc = "idle"
     /\ \/ /\ kind \in Wide
           /\ Turns(r, [q EXCEPT !.pc = "read", !.kind = kind, !.tenants = member,
                                 !.toRead = member])
        \/ /\ kind \notin Wide
           /\ \E c \in Campaigns :
                IF TenantOf[c] \notin member THEN Turns(r, [q EXCEPT !.pc = "refused"])
                ELSE Turns(r, [q EXCEPT !.pc = "read", !.kind = kind, !.campaign = c,
                                        !.tenants = {TenantOf[c]}, !.toRead = {TenantOf[c]}])

\* listLatestForTenant: the plans that exist, each with its decision to be read.
ReadPlans(r, t) ==
  LET q == reading[r]
      latest == {c \in Of(t) : plan[c] > 0}
  IN /\ q.pc = "read" /\ q.kind \in Wide \cup {"plans"} /\ t \in q.toRead
     /\ Turns(r, [q EXCEPT
                    !.toRead = @ \ {t},
                    !.listed = [c \in DOMAIN @ |-> IF c \in latest THEN plan[c] ELSE @[c]],
                    !.toDecide = @ \cup (IF q.kind \in Wide THEN latest ELSE {}),
                    !.items = @ \cup
                      (IF q.kind = "plans"
                       THEN {[campaign |-> c, plan |-> plan[c]] : c \in latest} ELSE {})])

\* Mutant: the decision is that of the campaign's latest plan.
ReadLatestDecision(r, c) ==
  LET q == reading[r]
  IN /\ q.pc = "read" /\ q.kind \in Wide /\ c \in q.toDecide
     /\ Turns(r, [q EXCEPT
                    !.toDecide = @ \ {c},
                    !.items = @ \cup ItemsOf(q.kind, c, q.listed[c],
                                             LatestDecision(c, plan[c]))])

\* latestForPlan: the latest decision of the plan that was listed.
ReadDecision(r, c) ==
  LET q == reading[r]
  IN /\ q.pc = "read" /\ q.kind \in Wide /\ c \in q.toDecide
     /\ Turns(r, [q EXCEPT
                    !.toDecide = @ \ {c},
                    !.items = @ \cup ItemsOf(q.kind, c, q.listed[c],
                                             LatestDecision(c, q.listed[c]))])

ReadContexts(r, t) ==
  LET q == reading[r]
  IN /\ q.pc = "read" /\ q.kind = "contexts" /\ t \in q.toRead
     /\ Turns(r, [q EXCEPT
                    !.toRead = {},
                    !.items = {[campaign |-> c, version |-> context[c]] :
                                 c \in {x \in Of(t) : context[x] > 0}}])

\* latestReadiness asks for a plan of the tenant and then for its decision; campaignTimeline
\* for a plan of the campaign and then for its events.  What is missing is not found.
ReadPlan(r, t) ==
  LET q == reading[r]
  IN /\ q.pc = "read" /\ q.kind \in {"readiness", "timeline"} /\ t \in q.toRead
     /\ \E v \in 1..MaxVersions :
          IF v > plan[q.campaign] THEN Turns(r, [q EXCEPT !.pc = "refused"])
          ELSE Turns(r, [q EXCEPT !.toRead = {}, !.listed = [@ EXCEPT ![q.campaign] = v],
                                  !.toDecide = {q.campaign}])

ReadReadiness(r, c) ==
  LET q == reading[r]
      d == LatestDecision(c, q.listed[c])
  IN /\ q.pc = "read" /\ q.kind = "readiness" /\ c \in q.toDecide
     /\ IF d = None THEN Turns(r, [q EXCEPT !.pc = "refused"])
        ELSE Turns(r, [q EXCEPT !.toDecide = {}, !.items = {PortfolioItem(c, q.listed[c], d)}])

\* A timeline is the one view that is not audited.
ReadTimeline(r, c) ==
  LET q == reading[r]
  IN /\ q.pc = "read" /\ q.kind = "timeline" /\ c \in q.toDecide
     /\ Turns(r, [q EXCEPT !.pc = "answered", !.toDecide = {}, !.shown = Timeline(c)])

\* Every read is in: the answer gets its time, the work queue its day.
Compute(r) ==
  LET q == reading[r]
  IN /\ q.pc = "read" /\ q.toRead = {} /\ q.toDecide = {}
     /\ Turns(r, [q EXCEPT !.generated = time, !.toAudit = q.tenants,
                           !.pc = IF q.kind = "workQueue" THEN "save" ELSE "audit",
                           !.toSave = IF q.kind = "workQueue" THEN q.tenants ELSE {}])

\* saveDaily: the row of the day is inserted, or replaced when its content differs; when
\* nothing changed a second statement selects it.
Save(r, t) ==
  LET q == reading[r]
      key == <<t, DayOf(q.generated)>>
      row == [items |-> TenantItems(q.items, t), generated |-> q.generated]
      kept == snapshot[key] # None /\ SameHash(snapshot[key], row.items)
  IN /\ t \in q.toSave
     /\ IF kept
        THEN Turns(r, [q EXCEPT !.toSave = @ \ {t}, !.toSelect = @ \cup {t},
                                !.unchanged = @ \cup {t}])
        ELSE /\ snapshot' = [snapshot EXCEPT ![key] = row]
             /\ reading' = [reading EXCEPT
                              ![r] = [q EXCEPT !.toSave = @ \ {t},
                                               !.saved = [@ EXCEPT ![t] = row]]]
             /\ UNCHANGED <<facts, viewed>>

SelectSaved(r, t) ==
  LET q == reading[r]
  IN /\ t \in q.toSelect
     /\ Turns(r, [q EXCEPT
                    !.toSelect = @ \ {t},
                    !.saved = [@ EXCEPT ![t] = snapshot[<<t, DayOf(q.generated)>>]]])

AllSaved(r) ==
  LET q == reading[r]
  IN /\ q.pc = "save" /\ q.toSave = {} /\ q.toSelect = {}
     /\ Turns(r, [q EXCEPT !.pc = "audit"])

AuditView(r, t) ==
  LET q == reading[r]
  IN /\ q.pc \in {"audit", "refused"} /\ t \in q.toAudit
     /\ viewed' = viewed \cup {<<r, t>>}
     /\ reading' = [reading EXCEPT ![r] = [q EXCEPT !.toAudit = @ \ {t}]]
     /\ UNCHANGED <<facts, snapshot>>

AnswerView(r) ==
  LET q == reading[r]
  IN /\ q.pc = "audit" /\ q.toAudit = {}
     /\ Turns(r, [q EXCEPT !.pc = "answered"])

\* A statement fails.  The answer is an error; the statements started with it go on.
StatementFails(r) ==
  LET q == reading[r]
  IN \/ /\ q.pc = "read"
        /\ Turns(r, [q EXCEPT !.pc = "refused"])
     \/ /\ q.pc = "save"
        /\ \E t \in q.toSave \cup q.toSelect :
             Turns(r, [q EXCEPT !.pc = "refused", !.toSave = @ \ {t},
                                !.toSelect = @ \ {t}, !.toAudit = {}])
     \/ /\ q.pc = "audit"
        /\ \E t \in q.toAudit :
             Turns(r, [q EXCEPT !.pc = "refused", !.toAudit = @ \ {t}])

ReadingStep(r) ==
  \/ \E kind \in Kinds : List(r, kind)
  \/ \E t \in Tenants : \/ ReadPlans(r, t) \/ ReadContexts(r, t) \/ ReadPlan(r, t)
                        \/ Save(r, t) \/ SelectSaved(r, t) \/ AuditView(r, t)
  \/ \E c \in Campaigns : ReadDecision(r, c) \/ ReadReadiness(r, c) \/ ReadTimeline(r, c)
  \/ Compute(r) \/ AllSaved(r) \/ AnswerView(r) \/ StatementFails(r)

-----------------------------------------------------------------------------
(* The others: the services that write plans, decisions and events.        *)

Another == others < MaxOthers /\ others' = others + 1

MembershipChanges(t) ==
  /\ Another
  /\ member' = (member \ {t}) \cup ({t} \ member)
  /\ UNCHANGED <<plan, context, decision, events, time, snapshot, viewed, reading>>

NewPlan(c) ==
  /\ Another
  /\ plan[c] < MaxVersions
  /\ plan' = [plan EXCEPT ![c] = @ + 1]
  /\ decision' = [decision EXCEPT ![c] = Append(@, None)]
  /\ UNCHANGED <<member, context, events, time, snapshot, viewed, reading>>

NewContext(c) ==
  /\ Another
  /\ "contexts" \in Kinds
  /\ context[c] < MaxVersions
  /\ context' = [context EXCEPT ![c] = @ + 1]
  /\ UNCHANGED <<member, plan, decision, events, time, snapshot, viewed, reading>>

DecideReadiness(c, d) ==
  /\ Another
  /\ plan[c] > 0
  /\ \E v \in DOMAIN decision[c] :
       decision[c][v] # d /\ decision' = [decision EXCEPT ![c] = [@ EXCEPT ![v] = d]]
  /\ UNCHANGED <<member, plan, context, events, time, snapshot, viewed, reading>>

\* An event has the time its request took before it was inserted.
NewEvent(c) ==
  /\ Len(events) < MaxEvents
  /\ "timeline" \in Kinds
  /\ \E known, tenantWide \in BOOLEAN, at \in {time, time - 1} \cap Nat :
       events' = Append(events, [campaign |-> c, known |-> known, tenantWide |-> tenantWide,
                                 at |-> at])
  /\ UNCHANGED <<member, plan, context, decision, time, snapshot, viewed, reading, others>>

TimePasses ==
  /\ time < MaxTicks
  /\ time' = time + 1
  /\ UNCHANGED <<member, plan, context, decision, events, snapshot, viewed, reading, others>>

Others ==
  \/ \E t \in Tenants : MembershipChanges(t)
  \/ \E c \in Campaigns : NewPlan(c) \/ NewContext(c) \/ NewEvent(c)
                          \/ \E d \in Decisions : DecideReadiness(c, d)
  \/ TimePasses

VNext == ((\E r \in Readings : ReadingStep(r)) \/ Others) /\ Meet

VSpec == VInit /\ [][VNext]_viewVars

-----------------------------------------------------------------------------
(* Properties.                                                             *)

Event == [campaign : Campaigns, known : BOOLEAN, tenantWide : BOOLEAN, at : 0..MaxTicks]

VTypeOK ==
  /\ member \subseteq Tenants /\ time \in 0..MaxTicks /\ others \in 0..MaxOthers
  /\ plan \in [Campaigns -> Version] /\ context \in [Campaigns -> Version]
  /\ decision \in [Campaigns -> Seq(Verdict)]
  /\ \A c \in Campaigns : Len(decision[c]) = plan[c]
  /\ events \in Seq(Event)
  /\ snapshot \in [Tenants \X Days -> SnapshotRow \cup {None}]
  /\ viewed \subseteq Readings \X Tenants
  /\ reading \in [Readings -> Reading]

\* Whatever changes between the queries of a view, an item it shows joins a plan that was
\* its campaign's latest and a decision that was this plan's latest during the request.
ItemsWereCurrent ==
  \A r \in Readings :
    (reading[r].pc = "answered" /\ reading[r].kind \in Wide) =>
      \A i \in reading[r].items :
        /\ <<i.campaign, i.plan>> \in seen[r].plans
        /\ <<i.campaign, i.plan, i.of>> \in seen[r].decisions

\* Every view of a tenant but the timeline is answered only with its audit kept: "falha ao
\* auditar impede a resposta" (README.md).
AnsweredViewsAreAudited ==
  \A r \in Readings :
    (reading[r].pc = "answered" /\ reading[r].kind # "timeline")
      => \A t \in reading[r].tenants : <<r, t>> \in viewed

\* A snapshot, also one that a refused request left behind, holds items of its tenant only
\* and is of the day in which it was generated.
SnapshotsAreOfTheirTenantAndDay ==
  \A k \in DOMAIN snapshot :
    snapshot[k] # None =>
      /\ \A i \in snapshot[k].items : TenantOf[i.campaign] = k[1]
      /\ DayOf(snapshot[k].generated) = k[2]

\* A timeline shows events of its campaign or its tenant, and every such event with a text
\* that was there when the request arrived, unless Limit newer ones hide it.
TimelineIsComplete ==
  \A r \in Readings :
    (reading[r].pc = "answered" /\ reading[r].kind = "timeline") =>
      LET q == reading[r]
      IN /\ q.shown \subseteq Concerning(q.campaign)
         /\ \A e \in seen[r].events \cap Concerning(q.campaign) :
              events[e].known => e \in q.shown \/ Hidden(e, q.campaign)

\* The operator's views show what was current during the request, audited, of the right
\* tenant and day, and no timeline misses an event that was there.
ViewsAreSound ==
  /\ VTypeOK /\ ItemsWereCurrent /\ AnsweredViewsAreAudited
  /\ SnapshotsAreOfTheirTenantAndDay /\ TimelineIsComplete

-----------------------------------------------------------------------------
(* Why they hold: what a request under way already has.                    *)

\* What is done in which order.
IsInOrder(r) ==
  LET q == reading[r]
  IN /\ q.pc = "idle" => q = NoReading
     /\ q.pc \in {"idle", "read", "audit", "answered"} => q.toSave = {} /\ q.toSelect = {}
     /\ (q.pc = "read" /\ q.kind \in {"readiness", "timeline"})
          => q.campaign \in Campaigns /\ q.toDecide \subseteq {q.campaign}
     /\ q.kind \in ViewKinds \ Wide => q.campaign \in Campaigns
     /\ q.kind = "timeline" => \/ q.pc = "read" /\ (q.toRead # {} \/ q.toDecide # {})
                               \/ q.pc \in {"answered", "refused"}
     /\ q.pc = "read" => \A c \in q.toDecide : q.listed[c] \in DOMAIN decision[c]

\* What was listed and what was decided of it was the latest at some moment.
HasSeen(r) ==
  LET q == reading[r]
  IN (q.pc \in {"read", "save", "audit", "answered"} /\ q.kind \in Wide) =>
       /\ q.pc = "read" => \A c \in q.toDecide : <<c, q.listed[c]>> \in seen[r].plans
       /\ \A i \in q.items : /\ <<i.campaign, i.plan>> \in seen[r].plans
                             /\ <<i.campaign, i.plan, i.of>> \in seen[r].decisions

\* What is not audited is still to be.
IsViewed(r) ==
  LET q == reading[r]
  IN /\ q.pc = "save" => q.toAudit = q.tenants
     /\ q.pc = "audit" => \A t \in q.tenants \ q.toAudit : <<r, t>> \in viewed
     /\ (q.pc = "answered" /\ q.kind # "timeline") => \A t \in q.tenants : <<r, t>> \in viewed

\* The events that were there at first still are.
HasEvents(r) ==
  LET q == reading[r]
  IN (q.kind = "timeline" /\ q.pc \in {"read", "answered"}) =>
       /\ seen[r].events \subseteq DOMAIN events
       /\ q.pc = "answered" =>
            /\ q.shown \subseteq Concerning(q.campaign)
            /\ \A e \in seen[r].events \cap Concerning(q.campaign) :
                 events[e].known => e \in q.shown \/ Hidden(e, q.campaign)

ReadingInvariant(r) == IsInOrder(r) /\ HasSeen(r) /\ IsViewed(r) /\ HasEvents(r)

ViewsInvariant ==
  /\ VTypeOK /\ SnapshotsAreOfTheirTenantAndDay
  /\ \A r \in Readings : ReadingInvariant(r)
=============================================================================
