--------------------------- MODULE PackageMapping ---------------------------
(***************************************************************************)
(* What becomes of a campaign package on its way to a plan: the validation *)
(* that accepts it, the inputs of the generator it is mapped to, and what  *)
(* the context and the creative package then make of these inputs.         *)
(* CampaignHandoff has the requests that carry it.                         *)
(***************************************************************************)
EXTENDS Integers, FiniteSets, SequencesExt

CONSTANTS
  Amounts,    \* budgets, in tenths of a minor unit: the number has no fixed precision
  Durations,  \* days; 0: not given
  Ages,       \* ages; 0: not given
  AdRefs, MediaIds, \* names; "" is not given
  Texts,      \* lengths of a text: "none", "fits", "long"
  Checksums,  \* "lower", "upper" or "other" digits
  Sizes,      \* widths: 0 (none) and up
  MaxAds,     \* bound: ads of a package that are tried (the limit is 3)
  MaxMedia    \* bound: media

NumberAssumption ==
  /\ Amounts \subseteq Int /\ Durations \cup Ages \cup Sizes \subseteq Nat
  /\ MaxAds \in Nat /\ MaxMedia \in Nat
NameAssumption ==
  /\ Texts \subseteq {"none", "fits", "long"} /\ Checksums \subseteq {"lower", "upper", "other"}

VARIABLES
  package,   \* the package
  stage,     \* how far it got
  answer,    \* what the validation says of it
  inputs,    \* what it is mapped to
  issues     \* what the creative package must still have put right

vars == <<package, stage, answer, inputs, issues>>

\* complete: the texts and constants every package has are there.
Ad == [ref : AdRefs, text : Texts, media : MediaIds]
Media == [id : MediaIds, checksum : Checksums, width : Sizes]
Lists(S, max) == UNION {[1..n -> S] : n \in 0..max}
Package == [complete : BOOLEAN, type : {"DAILY", "LIFETIME"}, amount : Amounts,
            days : Durations, youngest : Ages, oldest : Ages,
            ads : Lists(Ad, MaxAds), media : Lists(Media, MaxMedia)]

-----------------------------------------------------------------------------
(* Validation.                                                             *)

Some(s, Test(_)) == \E i \in DOMAIN s : Test(s[i])
Repeated(names) ==
  \E i, j \in DOMAIN names : i # j /\ names[i] = names[j] /\ names[i] # ""

If(condition, code) == IF condition THEN {code} ELSE {}

Names(s) == [i \in DOMAIN s |-> s[i].id]
References(ads) == [i \in DOMAIN ads |-> ads[i].ref]

Missing(p) ==
  UNION {If(~p.complete, "texts"), If(p.amount <= 0, "budget_amount"),
         If(p.type = "DAILY" /\ p.days < 1, "duration_days"),
         If(p.media = <<>>, "media"),
         If(Some(p.media, LAMBDA m : m.id = ""), "media_id"),
         If(Some(p.media, LAMBDA m : m.width < 1), "media_width"),
         If(Some(p.ads, LAMBDA a : a.ref = ""), "ad_reference"),
         If(Some(p.ads, LAMBDA a : a.text = "none"), "ad_text"),
         If(Some(p.ads, LAMBDA a : a.media = ""), "ad_media")}

WrongAge(age) == age # 0 /\ (age < 18 \/ age > 65)

Blockers(p) ==
  UNION {If(WrongAge(p.youngest), "age_min"), If(WrongAge(p.oldest), "age_max"),
         If(p.oldest # 0 /\ p.youngest > p.oldest, "ages"),
         If(Len(p.ads) < 1 \/ Len(p.ads) > 3, "ads"),
         If(Repeated(Names(p.media)), "duplicate_media_id"),
         If(Some(p.media, LAMBDA m : m.checksum = "other"), "checksum"),
         If(Repeated(References(p.ads)), "duplicate_ad_reference"),
         If(Some(p.ads, LAMBDA a : a.media # "" /\ a.media \notin ToSet(Names(p.media))),
            "unknown_media")}

Valid(p) == Missing(p) = {} /\ Blockers(p) = {}

NoInputs == [mode |-> "daily", amount |-> 0, days |-> 0, copies |-> <<>>, assets |-> <<>>]

Init ==
  /\ package \in Package
  /\ stage = "received" /\ answer = "none" /\ inputs = NoInputs /\ issues = {}

\* validate, which the handoff relies on again.
Validate ==
  /\ stage = "received" /\ stage' = "validated"
  /\ answer' = IF Valid(package) THEN "VALID" ELSE "INVALID"
  /\ UNCHANGED <<package, inputs, issues>>

-----------------------------------------------------------------------------
(* Mapping.                                                                *)

NoMedia == [id |-> "", checksum |-> "other", width |-> 0]

\* mediaById: the last media of an id; one that is not there gives no media.
MediaById(p, id) ==
  LET of == {i \in DOMAIN p.media : p.media[i].id = id}
  IN  IF of = {} THEN NoMedia
      ELSE p.media[CHOOSE i \in of : \A j \in of : j <= i]

\* One asset per ad, even if two ads show the same image.
AssetsOf(p) == [i \in DOMAIN p.ads |-> MediaById(p, p.ads[i].media)]

CopiesOf(p) == [i \in DOMAIN p.ads |-> [id |-> p.ads[i].ref, text |-> p.ads[i].text]]

\* Math.round of the amount in units times 100.  The product is a floating-point number,
\* which at an exact half may lie on either side of it (of 1.005 it is below 100.5).
MinorUnits(amount) == {(amount + 4) \div 10, (amount + 5) \div 10}

Map ==
  /\ stage = "validated" /\ stage' = IF answer = "VALID" THEN "mapped" ELSE "refused"
  /\ \E amount \in MinorUnits(package.amount) :
       inputs' = IF answer # "VALID" THEN NoInputs
                 ELSE [mode |-> IF package.type = "DAILY" THEN "daily" ELSE "lifetime",
                       amount |-> amount, days |-> package.days,
                       copies |-> CopiesOf(package), assets |-> AssetsOf(package)]
  /\ UNCHANGED <<package, answer, issues>>

-----------------------------------------------------------------------------
(* What receives the inputs.                                               *)

\* normalize: limits the validation does not have.
Normalizes(copies, assets) ==
  /\ \A i \in DOMAIN copies : copies[i].text = "fits"
  /\ \A i \in DOMAIN assets : assets[i].checksum = "lower" /\ assets[i].width \in 1..20000

\* validationIssues: no claims, and a checklist that is not complete.
Issues(copies, assets) ==
  {"review_check_pending"}
    \cup If(~IsInjective(Names(copies) \o Names(assets)), "duplicate_item_identifier")
    \cup If(Len(copies) # Len(assets), "creative_variant_pairing_mismatch")

\* The creative package is the first that refuses: the context takes whatever it is given.
Receive ==
  /\ stage = "mapped"
  /\ IF Normalizes(inputs.copies, inputs.assets)
     THEN stage' = "stored" /\ issues' = Issues(inputs.copies, inputs.assets)
     ELSE stage' = "halfway" /\ UNCHANGED issues
  /\ UNCHANGED <<package, answer, inputs>>

Done == stage \in {"refused", "stored", "halfway"} /\ UNCHANGED vars

Next == Validate \/ Map \/ Receive \/ Done

Spec == Init /\ [][Next]_vars

-----------------------------------------------------------------------------
(* Properties.                                                             *)

\* Every ad keeps its own text and its own image, although the creative package knows
\* them only by their position.
AdsKeepTheirImage ==
  stage \in {"mapped", "stored"} =>
    /\ Len(inputs.assets) = Len(package.ads)
    /\ \A i \in DOMAIN package.ads :
         /\ inputs.copies[i].id = package.ads[i].ref
         /\ inputs.assets[i] \in ToSet(package.media)
         /\ inputs.assets[i].id = package.ads[i].media

\* The amount the plan is computed from is a closest one (campaign-package.mapper.ts): it is
\* never more than half a minor unit above or below that of the package.
BudgetIsClosest ==
  stage \in {"mapped", "stored"} =>
    /\ 10 * inputs.amount - package.amount <= 5
    /\ package.amount - 10 * inputs.amount <= 5

\* Two ads that can be told apart in the package can be told apart in the plan, and
\* what awaits the review never says otherwise unless they share a name.
IssuesAreExplained ==
  stage = "stored" =>
    ("duplicate_item_identifier" \in issues
       => \/ Cardinality({package.ads[i].media : i \in DOMAIN package.ads}) < Len(package.ads)
          \/ \E i, j \in DOMAIN package.ads : package.ads[i].ref = package.ads[j].media)
=============================================================================
