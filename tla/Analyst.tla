------------------------------ MODULE Analyst ------------------------------
(***************************************************************************)
(* The Analyst of one campaign: collections save the snapshot they read    *)
(* from Meta and its analysis, in two transactions; the operator decides   *)
(* on the latest recommendation; a refresh records what two snapshots      *)
(* teach; a summary shows the latest.  Every one of them reads first and   *)
(* writes later, and any of them can stop between two statements.          *)
(*                                                                         *)
(* A snapshot is identified by its contents (snapshotHash).                *)
(***************************************************************************)
EXTENDS AnalystRules, Sequences

CONSTANTS
  Requests,
  Kinds,        \* bound: the operations that requests ask for
  Snapshots,    \* what the readings of the campaign can be
  Constraints,  \* [minimum: hours, target: cost or None], as a request states them
  MaxClock,     \* bound: milliseconds
  MaxEvents     \* bound: decisions, and learnings

OperationKinds == {"collect", "decide", "refresh", "summary"}

OperationsAssumption == Kinds \subseteq OperationKinds
AnalystNumbersAssumption == {MaxClock, MaxEvents} \subseteq Nat \ {0}

VARIABLES
  clock,
  collected,  \* [Snapshots -> the collected_at of its row, or None]
  analysis,   \* [Snapshots -> the row of its analysis, or None]
  decisions,  \* audit events: [of, decision, at, handoff]
  learnings,  \* audit events: [of, snapshot, previous, learning, at]
  request,    \* [Requests -> the local state of the request]
  past        \* [Requests -> the analyses that were the latest at some moment of it]

vars == <<clock, collected, analysis, decisions, learnings, request, past>>

Idle == [pc |-> "idle", kind |-> "none", snapshot |-> None, constraints |-> None,
         previous |-> None, draft |-> None, decision |-> None, stamp |-> None, answer |-> None,
         toRead |-> {}]

Goes(r, q) == request' = [request EXCEPT ![r] = q]

\* An operation other than a collection is answered.
Answered(q) == [q EXCEPT !.pc = "answered", !.snapshot = None, !.previous = None,
                         !.decision = None, !.stamp = None, !.answer = None]

Analyses == {s \in Snapshots : analysis[s] # None}
Collected == {s \in Snapshots : collected[s] # None}

\* latestSnapshot, latestAnalysis, previousSnapshot: one with the greatest time.  Which of two
\* with the same time comes first is up to their random identifiers.
LatestOf(S, at) == {s \in S : \A u \in S : at[u] <= at[s]}
GeneratedAt == [s \in Analyses |-> analysis[s].at]
LatestSnapshots == LatestOf(Collected, collected)
LatestAnalyses == LatestOf(Analyses, GeneratedAt)

Before(at) == LatestOf({u \in Collected : collected[u] < at}, collected)

\* A read of at most one row.
OneOf(S) == IF S = {} THEN {None} ELSE S

Remember ==
  past' = [r \in Requests |->
             IF request'[r].kind # "decide" \/ request'[r].pc = "idle" THEN {}
             ELSE past[r] \cup LatestAnalyses']

Init ==
  /\ clock = 0
  /\ collected = [s \in Snapshots |-> None] /\ analysis = collected
  /\ decisions = <<>> /\ learnings = <<>>
  /\ request = [r \in Requests |-> Idle]
  /\ past = [r \in Requests |-> {}]

Tick ==
  /\ clock < MaxClock /\ clock' = clock + 1
  /\ UNCHANGED <<collected, analysis, decisions, learnings, request, past>>

-----------------------------------------------------------------------------
(* Collecting: POST collect-meta, and POST analyze with a snapshot given.  *)

rows == <<collected, analysis, decisions, learnings>>

\* The snapshot was read from Meta; collectedAt is taken before it is saved.
Collect(r, s, c) ==
  /\ "collect" \in Kinds /\ request[r].pc = "idle"
  /\ Goes(r, [Idle EXCEPT !.pc = "save", !.kind = "collect", !.snapshot = s,
                          !.constraints = c, !.stamp = clock])
  /\ UNCHANGED <<clock, rows>>

\* saveSnapshot inserts the row, or returns the one with the same contents.
SaveSnapshot(r) ==
  LET s  == request[r].snapshot
      at == IF collected[s] = None THEN request[r].stamp ELSE collected[s]
  IN /\ request[r].pc = "save"
     /\ collected' = [collected EXCEPT ![s] = at]
     /\ Goes(r, [request[r] EXCEPT !.pc = "previous", !.stamp = at])
     /\ UNCHANGED <<clock, analysis, decisions, learnings>>

\* previousSnapshot, then buildAnalysis with the time of now.
ReadPrevious(r) ==
  /\ request[r].pc = "previous"
  /\ \E p \in OneOf(Before(request[r].stamp)) :
       Goes(r, [request[r] EXCEPT
                  !.pc = "saveAnalysis",
                  !.draft =
                    [previous |-> p, at |-> clock,
                     verdict |-> BuildAnalysis(request[r].snapshot, p, request[r].constraints)]])
  /\ UNCHANGED <<clock, rows>>

\* saveAnalysis inserts the analysis, or returns the one the snapshot already has.
SaveAnalysis(r) ==
  LET s == request[r].snapshot
      a == IF analysis[s] = None THEN request[r].draft ELSE analysis[s]
  IN /\ request[r].pc = "saveAnalysis"
     /\ analysis' = [analysis EXCEPT ![s] = a]
     /\ Goes(r, [request[r] EXCEPT !.pc = "answered", !.answer = a, !.draft = None,
                                   !.stamp = None])
     /\ UNCHANGED <<clock, collected, decisions, learnings>>

-----------------------------------------------------------------------------
(* Deciding on the latest recommendation: decideLatest.                    *)

\* latest reads a snapshot too; decideLatest uses the analysis alone.
Decide(r, d) ==
  /\ "decide" \in Kinds /\ request[r].pc = "idle" /\ Len(decisions) < MaxEvents
  /\ \E s \in OneOf(LatestAnalyses) :
       IF s = None \/ ~analysis[s].verdict.approval
       THEN Goes(r, Answered([Idle EXCEPT !.kind = "decide"]))
       ELSE Goes(r, [Idle EXCEPT !.pc = "decisions", !.kind = "decide", !.snapshot = s,
                                 !.decision = d])
  /\ UNCHANGED <<clock, rows>>

DecidedAt == [i \in DOMAIN decisions |-> decisions[i].at]
LatestDecisions(s) == LatestOf({i \in DOMAIN decisions : decisions[i].of = s}, DecidedAt)

\* latestDecisionRow: the same decision is answered as it is recorded; another one is stamped.
ReadDecision(r) ==
  /\ request[r].pc = "decisions"
  /\ \E i \in OneOf(LatestDecisions(request[r].snapshot)) :
       IF i # None /\ decisions[i].decision = request[r].decision
       THEN Goes(r, Answered(request[r]))
       ELSE Goes(r, [request[r] EXCEPT !.pc = "decide", !.stamp = clock])
  /\ UNCHANGED <<clock, rows>>

\* Mutant: the decision is recorded of what is the latest recommendation by then.
RecordDecisionOfLatest(r) ==
  /\ request[r].pc = "decide"
  /\ \E s \in LatestAnalyses :
       LET e == [of |-> s, decision |-> request[r].decision, at |-> request[r].stamp,
                 handoff |-> None]
       IN /\ decisions' = Append(decisions, e)
          /\ Goes(r, Answered(request[r]))
  /\ UNCHANGED <<clock, collected, analysis, learnings>>

RecordDecision(r) ==
  LET q == request[r]
      e == [of |-> q.snapshot, decision |-> q.decision, at |-> q.stamp,
            handoff |-> IF q.decision = "reject" THEN None
                        ELSE HandoffTarget(analysis[q.snapshot].verdict.action)]
  IN /\ request[r].pc = "decide"
     /\ decisions' = Append(decisions, e)
     /\ Goes(r, Answered(request[r]))
     /\ UNCHANGED <<clock, collected, analysis, learnings>>

-----------------------------------------------------------------------------
(* Learning: refresh.  The two queries of latest run together.             *)

Refresh(r) ==
  /\ "refresh" \in Kinds /\ request[r].pc = "idle" /\ Len(learnings) < MaxEvents
  /\ Goes(r, [Idle EXCEPT !.pc = "latest", !.kind = "refresh",
                          !.toRead = {"snapshot", "analysis"}])
  /\ UNCHANGED <<clock, rows>>

\* What refresh does when both have answered; answer holds the analysis.
Continue(r, toRead, s, a) ==
  Goes(r, [request[r] EXCEPT !.toRead = toRead, !.snapshot = s, !.answer = a,
                             !.pc = IF toRead # {} THEN "latest"
                                    ELSE IF None \in {s, a} THEN "answered" ELSE "learnings"])

LookSnapshot(r) ==
  /\ request[r].pc = "latest" /\ "snapshot" \in request[r].toRead
  /\ \E s \in OneOf(LatestSnapshots) :
       Continue(r, request[r].toRead \ {"snapshot"}, s, request[r].answer)
  /\ UNCHANGED <<clock, rows>>

LookAnalysis(r) ==
  /\ request[r].pc = "latest" /\ "analysis" \in request[r].toRead
  /\ \E a \in OneOf(LatestAnalyses) :
       Continue(r, request[r].toRead \ {"analysis"}, request[r].snapshot, a)
  /\ UNCHANGED <<clock, rows>>

\* learningRow: what was learned of the analysis is answered as it is.
ReadLearning(r) ==
  /\ request[r].pc = "learnings"
  /\ IF \E i \in DOMAIN learnings : learnings[i].of = request[r].answer
     THEN Goes(r, Answered(request[r]))
     ELSE Goes(r, [request[r] EXCEPT !.pc = "derive"])
  /\ UNCHANGED <<clock, rows>>

\* previousSnapshot of the latest snapshot, and derive.
DeriveLearning(r) ==
  LET s == request[r].snapshot
  IN /\ request[r].pc = "derive"
     /\ \E p \in OneOf(Before(collected[s])) :
          IF p # None /\ Derive(s, p) # None
          THEN Goes(r, [request[r] EXCEPT !.pc = "learn", !.previous = p, !.stamp = clock])
          ELSE Goes(r, Answered(request[r]))
     /\ UNCHANGED <<clock, rows>>

RecordLearning(r) ==
  LET q == request[r]
  IN /\ q.pc = "learn"
     /\ learnings' = Append(learnings,
          [of |-> q.answer, snapshot |-> q.snapshot, previous |-> q.previous,
           learning |-> Derive(q.snapshot, q.previous), at |-> q.stamp])
     /\ Goes(r, Answered(request[r]))
     /\ UNCHANGED <<clock, collected, analysis, decisions>>

-----------------------------------------------------------------------------
(* Showing the latest, and the end of a request.                           *)

\* summary, alert and latest present the analysis that latest returns.
Summarize(r) ==
  /\ "summary" \in Kinds /\ request[r].pc = "idle"
  /\ \E s \in OneOf(LatestAnalyses) :
       Goes(r, [Idle EXCEPT !.pc = "answered", !.kind = "summary", !.snapshot = s,
                            !.answer = IF s = None THEN None
                                       ELSE Present(s, analysis[s].verdict)])
  /\ UNCHANGED <<clock, rows>>

\* The client has its answer; or a statement failed, or the process stopped.
Over(r) ==
  /\ request[r].pc # "idle"
  /\ Goes(r, Idle)
  /\ UNCHANGED <<clock, rows>>

Step(r) ==
  \/ \E s \in Snapshots, c \in Constraints : Collect(r, s, c)
  \/ SaveSnapshot(r) \/ ReadPrevious(r) \/ SaveAnalysis(r)
  \/ \E d \in {"approve", "reject"} : Decide(r, d)
  \/ ReadDecision(r) \/ RecordDecision(r)
  \/ Refresh(r) \/ LookSnapshot(r) \/ LookAnalysis(r) \/ ReadLearning(r)
  \/ DeriveLearning(r) \/ RecordLearning(r)
  \/ Summarize(r) \/ Over(r)

Next == Tick \/ \E r \in Requests : Step(r) /\ Remember

Spec == Init /\ [][Next]_vars

-----------------------------------------------------------------------------
(* Properties.  EvidenceIsKept and DecisionsAreOfARecommendation are about *)
(* steps.                                                                  *)

Times == 0..MaxClock

\* Of the declared actions these are the ones an analysis recommends.
Actions == {"AJUSTAR", "AGUARDAR", "OBSERVAR", "MANTER"}
Verdicts ==
  [health : {"OPERATIONAL_PROBLEM", "INSUFFICIENT_DATA", "OBSERVATION", "HEALTHY", "ATTENTION",
             "INTERVENTION_RECOMMENDED"},
   action : Actions, approval : BOOLEAN]
Analysis == [previous : Snapshots \cup {None}, at : Times, verdict : Verdicts]
Decision == [of : Snapshots, decision : {"approve", "reject"}, at : Times,
             handoff : {None, "generator", "contexto_ads", "operational_review"}]
Learning == [of : Snapshots, snapshot : Snapshots, previous : Snapshots, at : Times,
             learning : {"improved", "worsened", "stable", "lost"}]

Answer == Analysis \cup Snapshots \cup {None} \cup [decision : Actions, asks : BOOLEAN]

Request ==
  [pc : {"idle", "save", "previous", "saveAnalysis", "decisions", "decide", "latest",
         "learnings", "derive", "learn", "answered"},
   kind : OperationKinds \cup {"none"}, snapshot : Snapshots \cup {None},
   constraints : Constraints \cup {None}, previous : Snapshots \cup {None},
   draft : Analysis \cup {None}, decision : {None, "approve", "reject"},
   stamp : Times \cup {None},
   answer : Answer,
   toRead : SUBSET {"snapshot", "analysis"}]

\* None is no row and no time.
NoneAssumption ==
  /\ None \notin Snapshots /\ None \notin Times /\ None \notin Analysis

\* Every table holds rows of its kind.
TypeOK ==
  /\ clock \in Times
  /\ collected \in [Snapshots -> Times \cup {None}]
  /\ analysis \in [Snapshots -> Analysis \cup {None}]
  /\ decisions \in Seq(Decision) /\ learnings \in Seq(Learning)
  /\ request \in [Requests -> Request]
  /\ past \in [Requests -> SUBSET Snapshots]

\* A collection answers the analysis that is kept of the snapshot it collected, also when
\* another request collected the same one at the same time or long before.
AnswersAreKept ==
  \A r \in Requests :
    request[r].kind = "collect" /\ request[r].pc = "answered" =>
      /\ collected[request[r].snapshot] # None
      /\ request[r].answer = analysis[request[r].snapshot]

\* An analysis compares a snapshot with one collected earlier, and so does a learning:
\* no chain of comparisons leads back to where it began.
ComparisonsGoBack ==
  /\ \A s \in Analyses :
       /\ collected[s] # None
       /\ analysis[s].previous # None =>
            /\ collected[analysis[s].previous] # None
            /\ collected[analysis[s].previous] < collected[s]
  /\ \A i \in DOMAIN learnings :
       /\ collected[learnings[i].previous] # None
       /\ collected[learnings[i].previous] < collected[learnings[i].snapshot]

\* Snapshots and analyses stay as they were first saved: what a decision or a learning
\* refers to is what it was made of.
EvidenceIsKept ==
  \A s \in Snapshots : /\ collected[s] # None => collected'[s] = collected[s]
                       /\ analysis[s] # None => analysis'[s] = analysis[s]

\* A decision is recorded of a recommendation that needs one, that was the latest at some
\* moment of the request, and is not older than it.
DecisionsAreOfARecommendation ==
  \A i \in DOMAIN decisions' \ DOMAIN decisions :
    LET e == decisions'[i]
    IN /\ analysis[e.of] # None /\ analysis[e.of].verdict.approval
       /\ e.at >= analysis[e.of].at
       /\ \E r \in Requests : /\ request[r].kind = "decide" /\ request[r].stamp = e.at
                              /\ e.of \in past[r] /\ e.of = request[r].snapshot
=============================================================================
