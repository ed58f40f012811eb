---------------------------- MODULE PlanObjects ----------------------------
(***************************************************************************)
(* What a plan says is to be created: the objects it is generated with,    *)
(* the variants a creative package puts in their place, the order in which *)
(* the dry run creates them, and the operations of the manifest.  One      *)
(* operator sees to it at a time: who races with whom is in CampaignPlans. *)
(***************************************************************************)
EXTENDS Naturals, FiniteSets, SequencesExt

CONSTANTS
  Amounts,     \* budgets, in minor units
  Days,        \* durations
  Precision,   \* bits of a number's significand (53 in the program)
  Copies,      \* [id, whatsapp, message]: what an item of copies can be
  Assets,      \* [id, https]: what an item of assets can be
  Claims,      \* [id, sources]
  Checks,      \* fields of the review checklist
  MaxItems     \* bound: items of a list (10 copies, 20 assets, 50 claims)

NumberAssumption ==
  Amounts \cup Days \subseteq Nat /\ Precision \in Nat /\ MaxItems \in Nat \ {0}

VARIABLES
  plan,      \* the latest plan
  package,   \* the latest creative version and its status
  manifest   \* the operations of the manifest of this plan, if prepared

vars == <<plan, package, manifest>>

\* The items of s that are in S, in the order of s.
Only(s, S) ==
  LET kept[n \in 0..Len(s)] ==  \* of the first n items
        IF n = 0 THEN <<>>
        ELSE IF s[n] \in S THEN Append(kept[n - 1], s[n]) ELSE kept[n - 1]
  IN  kept[Len(s)]

-----------------------------------------------------------------------------
(* Generation.                                                             *)

\* A product as the runtime computes it: above the precision it is rounded to
\* the nearest multiple of a power of two.
Rounded(n) ==
  LET units == {2 ^ k : k \in 0..Precision}
      u == CHOOSE x \in units : n < x * 2 ^ Precision
                               /\ \A y \in units : y < x => n >= y * 2 ^ Precision
      down == n - (n % u)
  IN  IF 2 * (n % u) > u \/ (2 * (n % u) = u /\ (down \div u) % 2 = 1) THEN down + u ELSE down

SafeInteger(n) == n <= 2 ^ Precision - 1

MaximumSpend(budget) ==
  IF budget.mode = "daily" THEN Rounded(budget.amount * budget.days) ELSE budget.amount

NoVariant == [copy |-> "none", asset |-> "none", https |-> FALSE]

Object(id, type, dependsOn) ==
  [id |-> id, type |-> type, dependsOn |-> dependsOn,
   review |-> "requires_generation", variant |-> NoVariant]

Campaign == <<"campaign", 0>>
AdSet == <<"ad_set", 0>>
Creative(i) == <<"creative", i>>
Ad(i) == <<"ad", i>>

GeneratedObjects ==
  << Object(Campaign, "campaign", <<>>), Object(AdSet, "ad_set", <<Campaign>>),
     Object(Creative(0), "creative", <<>>), Object(Ad(0), "ad", <<AdSet, Creative(0)>>) >>

RequiredCapabilities(destination) ==
  {"CREATE_CAMPAIGN", "CREATE_ADSET", "CREATE_CREATIVE", "CREATE_AD"}
    \cup IF destination = "whatsapp" THEN {"CLICK_TO_WHATSAPP"} ELSE {}

Budgets == [mode : {"daily", "lifetime"}, amount : Amounts, days : Days]

NoPackage == [status |-> "none", copies |-> <<>>, assets |-> <<>>, claims |-> <<>>,
              checklist |-> {}]

\* A ceiling that cannot be represented refuses the plan.
Generate(budget, destination) ==
  /\ SafeInteger(MaximumSpend(budget))
  /\ plan' = [objects |-> GeneratedObjects, budget |-> budget,
              spend |-> MaximumSpend(budget),
              capabilities |-> RequiredCapabilities(destination)]
  /\ package' = NoPackage /\ manifest' = <<>>

-----------------------------------------------------------------------------
(* Creative packages.                                                      *)

Lists(S, from) == UNION {[1..n -> S] : n \in from..MaxItems}

\* normalize: a text for WhatsApp carries its message and a claim its sources.
Inputs ==
  [copies : {c \in Lists(Copies, 1) : \A i \in DOMAIN c : c[i].whatsapp => c[i].message},
   assets : Lists(Assets, 1),
   claims : {c \in Lists(Claims, 0) : \A i \in DOMAIN c : c[i].sources > 0},
   checklist : SUBSET Checks]

ItemIds(p) ==
  LET ids(s) == [i \in DOMAIN s |-> s[i].id]
  IN  ids(p.copies) \o ids(p.claims) \o ids(p.assets)

ValidationIssues(p) ==
  {<<"review_check_pending", c>> : c \in Checks \ p.checklist}
    \cup (IF IsInjective(ItemIds(p)) THEN {} ELSE {<<"duplicate_item_identifier", "">>})
    \cup IF Len(p.copies) = Len(p.assets) THEN {}
         ELSE {<<"creative_variant_pairing_mismatch", "">>}

Review(p) == IF p.status = "approved" THEN "approved" ELSE "requires_review"

\* Mutant: the first file is used for every text.
VariantsOfFirstFile(p, i) ==
  << [Object(Creative(i), "creative", <<>>) EXCEPT
        !.review = Review(p),
        !.variant = [copy |-> p.copies[i].id, asset |-> p.assets[1].id,
                     https |-> p.assets[1].https]],
     Object(Ad(i), "ad", <<AdSet, Creative(i)>>) >>

\* The creative and the ad of one variant.
Variants(p, i) ==
  << [Object(Creative(i), "creative", <<>>) EXCEPT
        !.review = Review(p),
        !.variant = [copy |-> p.copies[i].id, asset |-> p.assets[i].id,
                     https |-> p.assets[i].https]],
     Object(Ad(i), "ad", <<AdSet, Creative(i)>>) >>

\* bindCreativeVariants: texts and media in pairs replace every creative and ad;
\* lists that do not pair only mark the creatives there are.
BindCreativeVariants(objects, p) ==
  IF Len(p.copies) # Len(p.assets)
  THEN [i \in DOMAIN objects |->
          IF objects[i].type # "creative" THEN objects[i]
          ELSE [objects[i] EXCEPT !.review = Review(p), !.variant = NoVariant]]
  ELSE Only(objects, {o \in Range(objects) : o.type \notin {"creative", "ad"}})
         \o FlattenSeq([i \in DOMAIN p.copies |-> Variants(p, i)])

\* appendVersion.
AppendVersion(input) ==
  /\ package' = [status |-> "needs_review", copies |-> input.copies, assets |-> input.assets,
                 claims |-> input.claims, checklist |-> input.checklist]
  /\ plan' = [plan EXCEPT !.objects = BindCreativeVariants(@, package')]
  /\ manifest' = <<>>

\* approve.
ApproveVersion ==
  /\ package.status = "needs_review" /\ ValidationIssues(package) = {}
  /\ package' = [package EXCEPT !.status = "approved"]
  /\ plan' = [plan EXCEPT !.objects = BindCreativeVariants(@, package')]
  /\ manifest' = <<>>

-----------------------------------------------------------------------------
(* The order of the dry run, and the manifest.                             *)

Ids(objects) == {o.id : o \in Range(objects)}

MissingDependencies(objects) ==
  (UNION {Range(o.dependsOn) : o \in Range(objects)}) \ Ids(objects)

\* operationSequence: level by level, each level in the order of the plan, until
\* none is left or none is ready.  depth is the number of levels emitted.
Levels(objects) ==
  LET emitted[depth \in Nat] ==
        IF depth = 0 THEN <<>>
        ELSE LET before == emitted[depth - 1]
             IN  before \o Only(objects, {o \in Range(objects) :
                   o \notin Range(before) /\ Range(o.dependsOn) \subseteq Ids(before)})
  IN  emitted[Len(objects)]

OperationSequence(objects) ==
  LET ordered == Levels(objects)
      valid == MissingDependencies(objects) = {} /\ Len(ordered) = Len(objects)
  IN  [valid |-> valid, operations |-> IF valid THEN ordered ELSE <<>>]

\* assertExecutableCreativeMedia: every creative has one file that can be fetched.
ExecutableMedia ==
  \A o \in Range(plan.objects) :
    o.type = "creative" => o.variant # NoVariant /\ o.variant.https

\* The part of the dry run that looks at the objects: a valid sequence, and every
\* creative refers to the approved version.
ObjectsReady ==
  /\ OperationSequence(plan.objects).valid
  /\ package.status = "approved"
  /\ \A o \in Range(plan.objects) : o.type = "creative" => o.review = "approved"

\* operations: keys identify the operation within the plan, dependencies are keys.
ManifestOperations(operations) ==
  [i \in DOMAIN operations |->
     [order |-> i, key |-> operations[i].id, type |-> operations[i].type,
      dependsOn |-> Range(operations[i].dependsOn), variant |-> operations[i].variant]]

PrepareManifest ==
  /\ ExecutableMedia /\ ObjectsReady
  /\ manifest' = ManifestOperations(OperationSequence(plan.objects).operations)
  /\ UNCHANGED <<plan, package>>

-----------------------------------------------------------------------------

Init ==
  /\ \E budget \in Budgets, destination \in {"whatsapp", "website"} :
       /\ SafeInteger(MaximumSpend(budget))
       /\ plan = [objects |-> GeneratedObjects, budget |-> budget,
                  spend |-> MaximumSpend(budget),
                  capabilities |-> RequiredCapabilities(destination)]
  /\ package = NoPackage /\ manifest = <<>>

Next ==
  \/ \E budget \in Budgets, destination \in {"whatsapp", "website"} :
       Generate(budget, destination)
  \/ \E input \in Inputs : AppendVersion(input)
  \/ ApproveVersion
  \/ PrepareManifest

Spec == Init /\ [][Next]_vars

-----------------------------------------------------------------------------
(* Properties.                                                             *)

Position(s, id) == CHOOSE i \in DOMAIN s : s[i].id = id

\* An order of the objects in which each comes after what it depends on.
IsOrderOf(s, objects) ==
  /\ Len(s) = Len(objects) /\ Range(s) = Range(objects) /\ IsInjective(s)
  /\ \A i \in DOMAIN s : \A id \in Range(s[i].dependsOn) : Position(s, id) < i

\* Whatever was bound to a plan, its objects can be created in the order of the dry
\* run: "campanha, criativo, conjunto e anúncio" and nothing before what it needs.
CanBeOrdered ==
  LET s == OperationSequence(plan.objects)
      rank == [campaign |-> 1, creative |-> 2, ad_set |-> 3, ad |-> 4]
  IN  /\ s.valid /\ IsOrderOf(s.operations, plan.objects)
      /\ \A i, j \in DOMAIN s.operations :
           i < j => rank[s.operations[i].type] <= rank[s.operations[j].type]

\* Each ad has a creative of its own, through every sequence of bindings: no
\* creative is created for nothing and none is shared.
AdsAndCreativesPair ==
  LET of(t) == {o \in Range(plan.objects) : o.type = t}
  IN  /\ Cardinality(of("ad")) = Cardinality(of("creative"))
      /\ \A c \in of("creative") :
           Cardinality({a \in of("ad") : c.id \in Range(a.dependsOn)}) = 1

\* The manifest creates exactly the approved pairs of text and media, once each.
ManifestCreatesApprovedPairs ==
  manifest # <<>> =>
    LET made == Only(manifest, {o \in Range(manifest) : o.type = "creative"})
    IN  /\ package.status = "approved"
        /\ Len(made) = Len(package.copies)
        /\ \A i \in DOMAIN made : /\ made[i].variant.copy = package.copies[i].id
                                 /\ made[i].variant.asset = package.assets[i].id
                                 /\ made[i].variant.https

\* The ceiling people approve is the exact product: a budget too large to compute
\* exactly is refused, never rounded.
CeilingIsExact ==
  plan.spend = IF plan.budget.mode = "daily" THEN plan.budget.amount * plan.budget.days
               ELSE plan.budget.amount
=============================================================================
