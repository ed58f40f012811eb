---------------------------- MODULE AnalystRules ---------------------------
(***************************************************************************)
(* What the Analyst concludes from a snapshot of a campaign and from the   *)
(* snapshot before it: how mature the data are, the verdict, the waiting   *)
(* time, what was learned, and how the verdict is shown to the operator.   *)
(*                                                                         *)
(* A snapshot is [period, status, age, sinceChange, impressions, spend,    *)
(* results, cost]; cost is the fraction <<amount, results>> that the input *)
(* states itself, or None.  Ratios of costs are compared as fractions:     *)
(* what floating point does at a threshold itself is not modelled.         *)
(***************************************************************************)
EXTENDS Integers, FiniteSetsExt

CONSTANT None

ProblemStatuses ==
  {"ERROR", "DISAPPROVED", "NOT_DELIVERING", "DELIVERY_ERROR", "PAYMENT_ERROR"}

PausedStatuses == {"PAUSED", "CAMPAIGN_PAUSED", "INACTIVE"}

-----------------------------------------------------------------------------
(* Maturity of the data, and cost per result.                              *)

\* c.minimum: hours of observation before anything is concluded (6 unless given).
Unobserved(s, c) ==
  \/ s.age < c.minimum
  \/ s.impressions < 500
  \/ s.sinceChange # None /\ s.sinceChange < c.minimum

DataMaturity(s, c) ==
  IF Unobserved(s, c) THEN "insufficient"
  ELSE IF s.age < 24 \/ s.impressions < 1500 THEN "emerging"
  ELSE "mature"

RemainingObservationHours(s, c) ==
  Max({1, c.minimum - s.age, 3}
      \cup (IF s.sinceChange = None THEN {} ELSE {c.minimum - s.sinceChange}))

\* A fraction <<n, d>> with d > 0, or None.
CostPerResult(s) ==
  IF s.cost # None THEN s.cost
  ELSE IF s.results > 0 THEN <<s.spend, s.results>> ELSE None

Comparable(s, p) ==
  CostPerResult(s) # None /\ CostPerResult(p) # None /\ CostPerResult(p)[1] > 0

\* The cost of s over the cost of p, compared with percent / 100; the costs are Comparable.
Scaled(s, p) == LET x == CostPerResult(s) y == CostPerResult(p) IN 100 * x[1] * y[2]
Share(s, p, percent) == LET x == CostPerResult(s) y == CostPerResult(p) IN percent * y[1] * x[2]
AtLeast(s, p, percent) == Scaled(s, p) >= Share(s, p, percent)
AtMost(s, p, percent) == Scaled(s, p) <= Share(s, p, percent)

\* The spending that without a result is too much: twice the target, or the cost before.
SpentForNothing(s, p, c) ==
  LET before == CostPerResult(p)
  IN /\ s.results = 0 /\ s.spend >= 5000
     /\ IF c.target # None THEN s.spend >= 2 * c.target
        ELSE before # None => s.spend * before[2] >= 2 * before[1]

-----------------------------------------------------------------------------
(* The analysis: its health, the action it recommends and its consequences. *)

Verdict(health, action) ==
  [health |-> health, action |-> action, approval |-> action = "AJUSTAR"]

Worsened(s, p) == AtLeast(s, p, 135) /\ s.results <= p.results

Compared(s, p, c) ==
  LET mature == DataMaturity(s, c) = "mature"
      still  == Verdict("OBSERVATION",
                        IF mature /\ s.results > 0 THEN "MANTER" ELSE "OBSERVAR")
  IN IF mature /\ SpentForNothing(s, p, c) THEN Verdict("INTERVENTION_RECOMMENDED", "AJUSTAR")
     ELSE IF ~Comparable(s, p) THEN still
     ELSE IF mature /\ Worsened(s, p) THEN Verdict("INTERVENTION_RECOMMENDED", "AJUSTAR")
     ELSE IF AtLeast(s, p, 115) THEN Verdict("ATTENTION", "OBSERVAR")
     ELSE IF s.results >= p.results /\ AtMost(s, p, 110) THEN Verdict("HEALTHY", "MANTER")
     ELSE still

\* p is the previous snapshot, or None.
BuildAnalysis(s, p, c) ==
  IF s.status \in ProblemStatuses THEN Verdict("OPERATIONAL_PROBLEM", "AJUSTAR")
  ELSE IF DataMaturity(s, c) = "insufficient" THEN Verdict("INSUFFICIENT_DATA", "AGUARDAR")
  ELSE IF p = None THEN Verdict("OBSERVATION", "OBSERVAR")
  ELSE Compared(s, p, c)

-----------------------------------------------------------------------------
(* What is learned from two snapshots: "improved", "worsened", "stable",   *)
(* "lost" results, or None.                                                *)

LostResults(s, p) ==
  /\ p.results > 0 /\ s.results = 0
  /\ s.spend >= 100 /\ 2 * s.spend >= p.spend

Derive(s, p) ==
  IF Comparable(s, p) /\ AtMost(s, p, 90) THEN "improved"
  ELSE IF Comparable(s, p) /\ AtLeast(s, p, 120) THEN "worsened"
  ELSE IF Comparable(s, p) /\ s.impressions >= 500 /\ p.impressions >= 500 THEN "stable"
  ELSE IF LostResults(s, p) THEN "lost"
  ELSE None

-----------------------------------------------------------------------------
(* What the operator is shown of an analysis v of the snapshot s.          *)

OperationalState(s, v) ==
  IF s.status \in PausedStatuses THEN "PAUSED"
  ELSE IF v.health = "OPERATIONAL_PROBLEM" THEN "BLOCKED"
  ELSE IF s.status = "ACTIVE" THEN "RUNNING"
  ELSE "UNKNOWN"

\* present: the decision shown, and whether the operator has something to do.
Present(s, v) ==
  LET paused == OperationalState(s, v) = "PAUSED"
  IN [decision |-> IF paused THEN "OBSERVAR" ELSE v.action, asks |-> ~paused /\ v.approval]

EssentialAlert(s, v) ==
  IF OperationalState(s, v) = "PAUSED" THEN [level |-> "info", asks |-> FALSE]
  ELSE IF v.health = "OPERATIONAL_PROBLEM" THEN [level |-> "critical", asks |-> TRUE]
  ELSE IF v.health = "INTERVENTION_RECOMMENDED" THEN [level |-> "action_required", asks |-> TRUE]
  ELSE IF v.health = "ATTENTION" THEN [level |-> "watch", asks |-> FALSE]
  ELSE [level |-> "none", asks |-> FALSE]

HandoffTarget(action) ==
  CASE action = "GERAR_NOVA_VARIACAO" -> "generator"
    [] action = "REAVALIAR_ESTRATEGIA" -> "contexto_ads"
    [] OTHER -> "operational_review"
=============================================================================
