---------------------------- MODULE AnalystPairs ---------------------------
(***************************************************************************)
(* The rules of the Analyst over all pairs of a snapshot and an earlier    *)
(* one: services that judge the same pair, each by rules of its own, must  *)
(* not contradict each other.                                              *)
(***************************************************************************)
EXTENDS AnalystRules

CONSTANTS
  Snapshots,    \* what is known of a campaign now
  Spends,       \* the spendings among them
  Earlier,      \* what was known of it before
  Constraints   \* [minimum: hours, target: cost or None]

\* What the service accepts of numbers: none of them is negative (assertNonNegative).
Reading ==
  [period : Int, status : STRING, age : Nat, sinceChange : Nat \cup {None}, impressions : Nat,
   spend : Nat, results : Nat, cost : {None} \cup (Nat \X (Nat \ {0}))]

ReadingsAssumption ==
  /\ Snapshots \cup Earlier \subseteq Reading /\ Spends \subseteq Nat
  /\ Constraints \subseteq [minimum : Nat, target : Nat \cup {None}]
  /\ None \notin Nat /\ None \notin Nat \X Nat /\ None \notin Reading
  /\ None \notin {"improved", "worsened", "stable", "lost"}

VARIABLES
  current,      \* the snapshot
  previous,     \* the one before it, or None
  constraints

vars == <<current, previous, constraints>>

\* The first analysis of a campaign has no previous snapshot.
Init == previous = None /\ current \in Snapshots /\ constraints \in Constraints

\* A later one is compared with an earlier snapshot.
Next == previous = None /\ previous' \in Earlier /\ UNCHANGED <<current, constraints>>

Spec == Init /\ [][Next]_vars

Now == BuildAnalysis(current, previous, constraints)

\* The input states no cost of its own that its spending and results contradict.
Measured(s) == s.cost = None

-----------------------------------------------------------------------------
(* Properties.                                                             *)

Severity(v) ==
  CASE v.health = "HEALTHY" -> 0
    [] v.health \in {"OBSERVATION", "INSUFFICIENT_DATA"} -> 1
    [] v.health = "ATTENTION" -> 2
    [] v.health = "INTERVENTION_RECOMMENDED" -> 3
    [] v.health = "OPERATIONAL_PROBLEM" -> 4

\* Of two snapshots that differ in their spending alone, the one that spent more is never
\* judged healthier: the five rules of buildAnalysis leave no gap between their thresholds.
SpendingMoreIsNotHealthier ==
  Measured(current) =>
    \A more \in {n \in Spends : n >= current.spend} :
      Severity(Now) <=
        Severity(BuildAnalysis([current EXCEPT !.spend = more], previous, constraints))

\* What the learning service derives from two snapshots agrees with what the analysis of
\* the same two says: an improvement is no sign to act on, a deterioration is not health.
LearningAgreesWithAnalysis ==
  previous # None /\ Measured(current) =>
    /\ Derive(current, previous) = "improved" =>
         Now.health \notin {"ATTENTION", "INTERVENTION_RECOMMENDED"}
    /\ Derive(current, previous) \in {"worsened", "lost"} => Now.health # "HEALTHY"

\* The brief and the alert, written by two services, ask the operator for a decision in the
\* same cases, and never of a paused campaign.
BriefAndAlertAsk ==
  /\ Present(current, Now).asks = EssentialAlert(current, Now).asks
  /\ Present(current, Now).asks => current.status \notin PausedStatuses

\* The next review of an analysis without enough data is late enough: when nothing changes
\* until then, only a lack of impressions can keep the data insufficient.
ReviewIsLateEnough ==
  Now.health = "INSUFFICIENT_DATA" =>
    LET wait == RemainingObservationHours(current, constraints)
        then == [current EXCEPT !.age = @ + wait,
                                !.sinceChange = IF @ = None THEN None ELSE @ + wait]
    IN current.impressions >= 500 => ~Unobserved(then, constraints)
=============================================================================
