-------------------------- MODULE AnalystCollector -------------------------
(***************************************************************************)
(* The job that runs every six hours: it reads the portfolio of the        *)
(* operator, and for each campaign of it asks the API to collect and, when *)
(* that gave an analysis, to refresh what was learned.  Each request can   *)
(* fail, be refused, or answer something the job takes for unsafe; one     *)
(* campaign that fails does not keep the others from being collected.      *)
(***************************************************************************)
EXTENDS Naturals, Sequences, SequencesExt, FiniteSets

CONSTANTS
  Items,     \* items of portfolios: campaigns, or NoIds
  NoIds,     \* an item without its tenant or its campaign
  MaxItems   \* bound: items of a portfolio

ItemsAssumption == NoIds \in Items
MaxItemsAssumption == MaxItems \in Nat \ {0}

VARIABLES
  pc,       \* "portfolio", "collect", "learn", "ended", "failed"
  targets,  \* the campaigns to collect, in order
  totals,   \* what the summary counts
  results   \* one per target that was dealt with: [target, status]

vars == <<pc, targets, totals, results>>

Counters == {"discovered", "analyzed", "awaitingMetaLink", "unavailable", "skipped", "failed",
             "learningRecorded", "learningNoLearning", "learningFailed"}

\* What collect-meta can answer, and an error: no answer, a refusal, or an unsafe one.
Answers == {"analyzed", "awaitingMetaLink", "unavailable", "skipped", "error"}

Zero == [c \in Counters |-> 0]
Count(cs) == totals' = [c \in Counters |-> totals[c] + IF c \in cs THEN 1 ELSE 0]

\* Each campaign of the portfolio once, where it comes first.
UniqueTargets(portfolio) ==
  LET kept[n \in 0..Len(portfolio)] ==  \* of the first n items
        IF n = 0 THEN <<>>
        ELSE IF portfolio[n] = NoIds \/ portfolio[n] \in Range(kept[n - 1]) THEN kept[n - 1]
        ELSE Append(kept[n - 1], portfolio[n])
  IN kept[Len(portfolio)]

Target == targets[Len(results) + 1]

\* The end of the loop: an error only when no campaign at all could be collected.
End(done, count) ==
  IF Len(done) < Len(targets) THEN "collect"
  ELSE IF targets # <<>> /\ count.failed = Len(targets) THEN "failed" ELSE "ended"

Init == pc = "portfolio" /\ targets = <<>> /\ totals = Zero /\ results = <<>>

\* The portfolio is read; when that fails so does the job.
ReadPortfolio ==
  /\ pc = "portfolio"
  /\ \/ \E portfolio \in SeqOf(Items, MaxItems) :
          LET found == UniqueTargets(portfolio)
          IN /\ targets' = found
             /\ totals' = [Zero EXCEPT !.discovered = Len(found)]
             /\ pc' = IF found = <<>> THEN "ended" ELSE "collect"
     \/ pc' = "failed" /\ UNCHANGED <<targets, totals>>
  /\ UNCHANGED results

Dealt(status) ==
  /\ results' = Append(results, [target |-> Target, status |-> status])
  /\ pc' = End(results', totals')

\* collect-meta of a target: counted by what it answered; an analysis is followed by a refresh.
CollectMeta ==
  /\ pc = "collect"
  /\ \E answer \in Answers :
       IF answer = "analyzed"
       THEN Count({"analyzed"}) /\ pc' = "learn" /\ UNCHANGED results
       ELSE IF answer = "error" THEN Count({"failed"}) /\ Dealt("FAILED")
       ELSE Count({answer}) /\ Dealt(answer)
  /\ UNCHANGED targets

\* learning/refresh: its own errors are counted apart.
Learn ==
  /\ pc = "learn"
  /\ \E c \in {"learningRecorded", "learningNoLearning", "learningFailed"} :
       Count({c}) /\ Dealt("analyzed")
  /\ UNCHANGED targets

Next == ReadPortfolio \/ CollectMeta \/ Learn

\* Every request of the job is answered or ends in an error.
Spec == Init /\ [][Next]_vars /\ WF_vars(Next)

-----------------------------------------------------------------------------
(* Properties.                                                             *)

Campaigns == Items \ {NoIds}
\* The summary adds up: each campaign of the portfolio is counted in one way and listed once,
\* also when its refresh fails after it was counted; and each analysis has one learning.
TotalsAddUp ==
  /\ pc \in {"ended", "failed"} =>
       /\ totals.discovered =
            totals.analyzed + totals.awaitingMetaLink + totals.unavailable + totals.skipped
              + totals.failed
       /\ totals.analyzed =
            totals.learningRecorded + totals.learningNoLearning + totals.learningFailed
       /\ totals.discovered = Len(results)
  /\ \A i, j \in DOMAIN results : results[i].target = results[j].target => i = j
  /\ \A i \in DOMAIN results : results[i].target \in Campaigns

\* The job fails when it collected nothing that it should have, and only then.
FailsWhenNothingWasCollected ==
  /\ pc = "failed" => \A i \in DOMAIN results : results[i].status = "FAILED"
  /\ pc = "ended" => results = <<>> \/ \E i \in DOMAIN results : results[i].status # "FAILED"
=============================================================================
