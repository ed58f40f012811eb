--------------------------- MODULE AnalystProofs ---------------------------
(***************************************************************************)
(* Theorems about the Analyst, for any number of requests, snapshots,      *)
(* decisions, plans and manifests.  Which campaign of Meta it looks at is  *)
(* what a protocol confirmed; what it concludes rests on rows that are     *)
(* never changed once they are saved; its rules agree with each other; and *)
(* the summary of the job that collects for it adds up.                    *)
(***************************************************************************)
EXTENDS Analyst, AnalystTracking, SequenceTheorems, WellFoundedInduction, TLAPS

-----------------------------------------------------------------------------
(* The registration of the tracked campaign.                               *)

TrackingAssumptions == TrackingNumbersAssumption /\ AbsentAssumption

\* The row says of its manifest what the protocol of the manifest confirmed.
IsConfirmed(row) ==
  /\ protocol[row.of] # Absent /\ ExternalCampaign(protocol[row.of]) # Absent
  /\ row = Registration(row.of, protocol[row.of])

\* What a resolution has read: its protocol is a confirmed one, which nothing changes any
\* more, and so is that of every row it holds.
HasResolved(q) ==
  /\ q.pc = "manifest" => q.plan \in 1..LatestPlan
  /\ q.pc \in {"protocol", "previous", "ensure"} => q.of \in Keys
  /\ q.pc \in {"previous", "ensure"} =>
       /\ q.protocol # Absent /\ ExternalCampaign(q.protocol) # Absent
       /\ protocol[q.of] = q.protocol
  /\ q.previous # Absent => IsConfirmed(q.previous)
  /\ q.answer # Absent => IsConfirmed(q.answer)

TrackingInvariant ==
  /\ TrackingTypeOK
  /\ registration # Absent => IsConfirmed(registration)
  /\ \A r \in Resolutions : HasResolved(resolution[r])

\* A protocol is confirmed with a campaign of Meta.
LEMMA CampaignOfConfirmed ==
  ASSUME AbsentAssumption, NEW k \in Keys, NEW p \in Protocols, ExternalCampaign(p) # Absent
  PROVE /\ p.status = "external_validation_succeeded" /\ p # Absent
        /\ Registration(k, p) \in Rows /\ Registration(k, p).of = k
        /\ Registration(k, p) # Absent
<1>1. /\ p.status = "external_validation_succeeded"
      /\ p.executed # Absent \/ p.reconciled # Absent
  BY DEF ExternalCampaign
<1>2. /\ p.executed \in ExternalIds \cup {Absent} /\ p.reconciled \in ExternalIds \cup {Absent}
      /\ p # Absent
  BY DEF Protocols, AbsentAssumption
<1>3. /\ ExternalCampaign(p).id \in ExternalIds
      /\ ExternalCampaign(p).source \in {"execution_operation", "reconciled_operation"}
  BY <1>1, <1>2 DEF ExternalCampaign
<1>4. Registration(k, p) \in Rows /\ Registration(k, p).of = k
  BY <1>3 DEF Registration, Rows
<1>. QED
  BY <1>1, <1>2, <1>4 DEF AbsentAssumption

\* What is confirmed stays so: a protocol changes only while it is prepared.
ConfirmedStay ==
  /\ LatestPlan <= LatestPlan'
  /\ \A k \in Keys : protocol[k] # Absent /\ protocol[k].status # "prepared" =>
                       protocol'[k] = protocol[k]

LEMMA ConfirmedRowStays ==
  ASSUME TrackingAssumptions, TrackingInvariant, ConfirmedStay, NEW row \in Rows,
         IsConfirmed(row)
  PROVE IsConfirmed(row)'
<1>1. row.of \in Keys /\ protocol[row.of] \in Protocols
  BY DEF Rows, IsConfirmed, TrackingInvariant, TrackingTypeOK
<1>2. protocol'[row.of] = protocol[row.of]
  BY <1>1, CampaignOfConfirmed DEF ConfirmedStay, IsConfirmed, TrackingAssumptions
<1>. QED
  BY <1>2 DEF IsConfirmed

LEMMA ResolvedStays ==
  ASSUME TrackingAssumptions, TrackingInvariant, ConfirmedStay, (LatestPlan \in Nat)',
         NEW q \in Resolution, HasResolved(q)
  PROVE HasResolved(q)'
<1>1. LatestPlan \in Nat /\ q.plan \in Nat
  BY DEF TrackingInvariant, TrackingTypeOK, Resolution, LatestPlan, TrackingAssumptions,
         TrackingNumbersAssumption
<1>2. q.pc = "manifest" => (q.plan \in 1..LatestPlan)'
  BY <1>1 DEF HasResolved, ConfirmedStay
<1>3. q.pc \in {"previous", "ensure"} => protocol'[q.of] = q.protocol
  <2>. SUFFICES ASSUME q.pc \in {"previous", "ensure"}
                PROVE protocol'[q.of] = q.protocol
    OBVIOUS
  <2>1. q.of \in Keys /\ protocol[q.of] = q.protocol /\ q.protocol \in Protocols
        /\ ExternalCampaign(q.protocol) # Absent
    BY DEF HasResolved, Resolution
  <2>. QED
    BY <2>1, CampaignOfConfirmed DEF ConfirmedStay, TrackingAssumptions
<1>4. /\ q.previous # Absent => IsConfirmed(q.previous)'
      /\ q.answer # Absent => IsConfirmed(q.answer)'
  BY ConfirmedRowStays DEF HasResolved, Resolution
<1>. QED
  BY <1>2, <1>3, <1>4 DEF HasResolved

LEMMA HistoryKeepsInvariant ==
  ASSUME TrackingAssumptions, TrackingInvariant, History
  PROVE TrackingInvariant'
<1>0. /\ manifests \in Seq(0..MaxManifests) /\ LatestPlan \in Nat /\ LatestPlan <= MaxPlans
      /\ MaxPlans \in Nat /\ MaxManifests \in Nat
      /\ protocol \in [Keys -> Protocols \cup {Absent}]
  BY DEF TrackingInvariant, TrackingTypeOK, LatestPlan, TrackingAssumptions,
         TrackingNumbersAssumption
<1> DEFINE
  plansGrow ==
    /\ manifests' \in Seq(0..MaxManifests) /\ LatestPlan' \in Nat /\ LatestPlan' <= MaxPlans
    /\ LatestPlan <= LatestPlan'
  confirmedStay ==
    /\ protocol' \in [Keys -> Protocols \cup {Absent}]
    /\ \A k \in Keys : protocol[k] # Absent /\ protocol[k].status # "prepared" =>
                         protocol'[k] = protocol[k]
  rowConfirmed ==
    /\ registration' \in Rows \cup {Absent}
    /\ registration' # Absent => IsConfirmed(registration)'
<1>1. plansGrow
  <2>1. CASE NewPlan
    BY <1>0, <2>1, AppendProperties DEF NewPlan, LatestPlan
  <2>2. ASSUME NEW n \in Plans, NewManifest(n)
        PROVE plansGrow
    <3>1. n \in 1..Len(manifests) /\ manifests[n] \in 0..MaxManifests
      BY <1>0, <2>2, ElementOfSeq DEF Plans
    <3>2. manifests[n] + 1 \in 0..MaxManifests
      BY <1>0, <2>2, <3>1 DEF NewManifest
    <3>3. manifests' = [manifests EXCEPT ![n] = manifests[n] + 1]
      BY <2>2 DEF NewManifest
    <3>. QED
      BY <1>0, <3>1, <3>2, <3>3, ExceptSeq DEF LatestPlan
  <2>3. ASSUME NEW k \in Keys, Prepare(k) \/ \E p \in Protocols : Conclude(k, p)
        PROVE plansGrow
    BY <1>0, <2>3 DEF Prepare, Conclude, LatestPlan
  <2>. QED
    BY <2>1, <2>2, <2>3 DEF History
<1>2. confirmedStay
  <2>1. CASE NewPlan \/ \E n \in Plans : NewManifest(n)
    BY <1>0, <2>1 DEF NewPlan, NewManifest
  <2>2. ASSUME NEW k \in Keys, Prepare(k)
        PROVE confirmedStay
    <3>1. [status |-> "prepared", executed |-> Absent, reconciled |-> Absent] \in Protocols
      BY DEF Protocols
    <3>. QED
      BY <1>0, <2>2, <3>1 DEF Prepare
  <2>3. ASSUME NEW k \in Keys, NEW p \in Protocols, Conclude(k, p)
        PROVE confirmedStay
    BY <1>0, <2>3 DEF Conclude
  <2>. QED
    BY <2>1, <2>2, <2>3 DEF History
<1>3. ConfirmedStay
  BY <1>1, <1>2 DEF ConfirmedStay
<1>4. UNCHANGED <<registered, resolution>>
  BY DEF History, NewPlan, NewManifest, Prepare, Conclude
<1>5. rowConfirmed
  <2>1. CASE UNCHANGED registration
    BY <1>3, <2>1, ConfirmedRowStays DEF TrackingInvariant, TrackingTypeOK, IsConfirmed
  <2>2. ASSUME NEW k \in Keys, NEW p \in Protocols, Conclude(k, p),
               ExternalCampaign(p) # Absent, registration' = Triggered(k, p)
        PROVE rowConfirmed
    <3>1. registration' \in Rows /\ registration'.of = k /\ p # Absent
      BY <2>2, CampaignOfConfirmed DEF TrackingAssumptions, Triggered
    <3>2. protocol'[k] = p
      BY <1>0, <2>2 DEF Conclude
    <3>. QED
      BY <2>2, <3>1, <3>2 DEF IsConfirmed, Triggered
  <2>. QED
    BY <2>1, <2>2 DEF History, NewPlan, NewManifest, Prepare, Conclude
<1>6. TrackingTypeOK'
  BY <1>1, <1>2, <1>4, <1>5 DEF TrackingInvariant, TrackingTypeOK
<1>7. ASSUME NEW r \in Resolutions
      PROVE HasResolved(resolution[r])'
  <2>1. resolution[r] \in Resolution /\ HasResolved(resolution[r])
    BY DEF TrackingInvariant, TrackingTypeOK
  <2>2. \A q \in Resolution : HasResolved(q) => HasResolved(q)'
    BY <1>1, <1>3, ResolvedStays
  <2>. QED
    BY <1>4, <2>1, <2>2
<1>. QED
  BY <1>5, <1>6, <1>7 DEF TrackingInvariant

\* A step of a resolution that goes on with q, and registers at most what is confirmed.
LEMMA ProceedKeepsInvariant ==
  ASSUME TrackingInvariant, NEW r \in Resolutions, NEW q \in Resolution, HasResolved(q),
         resolution' = [resolution EXCEPT ![r] = q], UNCHANGED history,
         registration' \in Rows \cup {Absent},
         registration' # Absent => IsConfirmed(registration'),
         registered' \subseteq Rows
  PROVE TrackingInvariant'
<1>1. /\ resolution' \in [Resolutions -> Resolution]
      /\ \A s \in Resolutions : resolution'[s] = IF s = r THEN q ELSE resolution[s]
  BY DEF TrackingInvariant, TrackingTypeOK
<1>2. TrackingTypeOK'
  BY <1>1 DEF TrackingInvariant, TrackingTypeOK, history, LatestPlan
<1>3. \A s \in Resolutions : HasResolved(resolution'[s])
  BY <1>1 DEF TrackingInvariant
<1>4. \A s \in Resolutions : HasResolved(resolution[s])'
  BY <1>3 DEF HasResolved, IsConfirmed, history, LatestPlan
<1>5. registration' # Absent => IsConfirmed(registration)'
  BY DEF IsConfirmed, history
<1>. QED
  BY <1>2, <1>4, <1>5 DEF TrackingInvariant

\* The row that an upsert writes, and answers, is confirmed.
LEMMA UpsertedIsConfirmed ==
  ASSUME TrackingAssumptions, TrackingInvariant, NEW r \in Resolutions,
         resolution[r].pc = "ensure"
  PROVE LET row == Registration(resolution[r].of, resolution[r].protocol)
        IN row \in Rows /\ row # Absent /\ row.of = resolution[r].of /\ IsConfirmed(row)
<1> DEFINE k == resolution[r].of
           p == resolution[r].protocol
<1>1. /\ k \in Keys /\ p \in Protocols /\ ExternalCampaign(p) # Absent
      /\ p # Absent /\ protocol[k] = p
  BY DEF TrackingInvariant, TrackingTypeOK, HasResolved, Resolution
<1>. HIDE DEF k, p
<1>2. /\ Registration(k, p) \in Rows /\ Registration(k, p).of = k
      /\ Registration(k, p) # Absent
  BY <1>1, CampaignOfConfirmed DEF TrackingAssumptions
<1>3. IsConfirmed(Registration(k, p))
  BY <1>1, <1>2 DEF IsConfirmed
<1>. QED
  BY <1>2, <1>3 DEF k, p

LEMMA AnswerKeepsInvariant ==
  ASSUME TrackingAssumptions, TrackingInvariant, NEW r \in Resolutions,
         NEW row \in Rows \cup {Absent}, Answers(r, row), row # Absent => IsConfirmed(row),
         UNCHANGED history, registration' \in {registration, row}, registered' \subseteq Rows
  PROVE TrackingInvariant'
<1> DEFINE q == [resolution[r] EXCEPT !.pc = "answered", !.answer = row]
<1>1. resolution[r] \in Resolution /\ HasResolved(resolution[r])
  BY DEF TrackingInvariant, TrackingTypeOK
<1>2. /\ q \in Resolution /\ q.pc = "answered" /\ q.answer = row
      /\ q.previous = resolution[r].previous
  BY <1>1 DEF Resolution
<1>3. resolution' = [resolution EXCEPT ![r] = q]
  BY DEF Answers, Proceeds
<1>. HIDE DEF q
<1>4. HasResolved(q)
  BY <1>1, <1>2 DEF HasResolved
<1>5. /\ registration' \in Rows \cup {Absent}
      /\ registration' # Absent => IsConfirmed(registration')
  BY DEF TrackingInvariant, TrackingTypeOK
<1>. QED
  BY <1>2, <1>3, <1>4, <1>5, ProceedKeepsInvariant

LEMMA ReadingKeepsInvariant ==
  ASSUME TrackingAssumptions, TrackingInvariant, NEW r \in Resolutions,
         \/ Find(r) \/ ReadPlan(r) \/ ReadManifest(r) \/ ReadProtocol(r)
         \/ ReadRegistration(r) \/ Again(r)
  PROVE TrackingInvariant'
<1>0. /\ resolution[r] \in Resolution /\ HasResolved(resolution[r])
      /\ UNCHANGED <<history, registration, registered>>
      /\ registration \in Rows \cup {Absent} /\ registered \subseteq Rows
      /\ registration # Absent => IsConfirmed(registration)
  BY DEF TrackingInvariant, TrackingTypeOK, Find, ReadPlan, ReadManifest, ReadProtocol,
         ReadRegistration, Again
<1>1. ASSUME NEW row \in {registration, Absent}, Answers(r, row)
      PROVE TrackingInvariant'
  BY <1>0, <1>1, AnswerKeepsInvariant
<1>2. ASSUME NEW q \in Resolution, HasResolved(q), Proceeds(r, q)
      PROVE TrackingInvariant'
  BY <1>0, <1>2, ProceedKeepsInvariant DEF Proceeds
<1>3. CASE Find(r)
  <2> DEFINE q == [resolution[r] EXCEPT !.pc = "plan"]
  <2>1. /\ q \in Resolution /\ q.pc = "plan" /\ q.answer = resolution[r].answer
        /\ q.previous = resolution[r].previous
    BY <1>0 DEF Resolution
  <2>2. Answers(r, registration) \/ Proceeds(r, q)
    BY <1>3 DEF Find
  <2>. HIDE DEF q
  <2>3. HasResolved(q)
    BY <1>0, <2>1 DEF HasResolved
  <2>. QED
    BY <1>1, <1>2, <2>1, <2>2, <2>3
<1>4. CASE ReadPlan(r)
  <2> DEFINE q == [resolution[r] EXCEPT !.pc = "manifest", !.plan = LatestPlan]
  <2>1. LatestPlan \in 0..MaxPlans
    BY DEF TrackingInvariant, TrackingTypeOK, LatestPlan, TrackingAssumptions,
           TrackingNumbersAssumption
  <2>2. /\ q \in Resolution /\ q.pc = "manifest" /\ q.answer = resolution[r].answer
        /\ q.previous = resolution[r].previous /\ q.plan = LatestPlan
    BY <1>0, <2>1 DEF Resolution
  <2>3. NotFound(r) \/ (LatestPlan # 0 /\ Proceeds(r, q))
    BY <1>4 DEF ReadPlan
  <2>. HIDE DEF q
  <2>4. LatestPlan # 0 => HasResolved(q)
    BY <1>0, <2>1, <2>2 DEF HasResolved
  <2>. QED
    BY <1>1, <1>2, <2>2, <2>3, <2>4 DEF NotFound
<1>5. CASE ReadManifest(r)
  <2> DEFINE n == resolution[r].plan
             q == [resolution[r] EXCEPT !.pc = "protocol", !.of = <<n, manifests[n]>>]
  <2>1. n \in 1..LatestPlan
    BY <1>0, <1>5 DEF ReadManifest, HasResolved
  <2>2. n \in 1..MaxPlans /\ manifests[n] \in 0..MaxManifests
    BY <2>1, ElementOfSeq DEF TrackingInvariant, TrackingTypeOK, LatestPlan,
       TrackingAssumptions, TrackingNumbersAssumption
  <2>3. manifests[n] # 0 => <<n, manifests[n]>> \in Keys
    BY <2>2 DEF Keys
  <2>4. NotFound(r) \/ (manifests[n] # 0 /\ Proceeds(r, q))
    BY <1>5 DEF ReadManifest
  <2>5. manifests[n] # 0 =>
          /\ q \in Resolution /\ q.pc = "protocol" /\ q.answer = resolution[r].answer
          /\ q.previous = resolution[r].previous /\ q.of \in Keys
    BY <1>0, <2>3 DEF Resolution
  <2>. HIDE DEF q, n
  <2>6. manifests[n] # 0 => HasResolved(q)
    BY <1>0, <2>5 DEF HasResolved
  <2>. QED
    BY <1>1, <1>2, <2>4, <2>5, <2>6 DEF NotFound
<1>6. CASE ReadProtocol(r)
  <2> DEFINE p == protocol[resolution[r].of]
             q == [resolution[r] EXCEPT !.pc = "previous", !.protocol = p]
  <2>1. resolution[r].of \in Keys
    BY <1>0, <1>6 DEF ReadProtocol, HasResolved
  <2>2. p \in Protocols \cup {Absent}
    BY <2>1 DEF TrackingInvariant, TrackingTypeOK
  <2>3. /\ q \in Resolution /\ q.pc = "previous" /\ q.answer = resolution[r].answer
        /\ q.previous = resolution[r].previous /\ q.of = resolution[r].of
        /\ q.protocol = p
    BY <1>0, <2>2 DEF Resolution
  <2>4. NotFound(r) \/ (p # Absent /\ ExternalCampaign(p) # Absent /\ Proceeds(r, q))
    BY <1>6 DEF ReadProtocol
  <2>5. p # Absent /\ ExternalCampaign(p) # Absent => HasResolved(q)
    <3>. HIDE DEF q
    <3>. QED
      BY <1>0, <2>1, <2>3 DEF HasResolved
  <2>. QED
    BY <1>1, <1>2, <2>3, <2>4, <2>5 DEF NotFound
<1>7. CASE ReadRegistration(r)
  <2> DEFINE q == [resolution[r] EXCEPT !.pc = "ensure", !.previous = registration]
  <2>1. /\ q \in Resolution /\ q.pc = "ensure" /\ q.answer = resolution[r].answer
        /\ q.previous = registration /\ q.of = resolution[r].of
        /\ q.protocol = resolution[r].protocol
    BY <1>0 DEF Resolution
  <2>2. Proceeds(r, q) /\ resolution[r].pc = "previous"
    BY <1>7 DEF ReadRegistration
  <2>. HIDE DEF q
  <2>3. HasResolved(q)
    BY <1>0, <2>1, <2>2 DEF HasResolved
  <2>. QED
    BY <1>2, <2>1, <2>2, <2>3
<1>8. CASE Again(r)
  <2>1. Waiting \in Resolution /\ HasResolved(Waiting)
    BY DEF Waiting, Resolution, HasResolved, TrackingAssumptions, TrackingNumbersAssumption
  <2>. QED
    BY <1>2, <1>8, <2>1 DEF Again
<1>. QED
  BY <1>3, <1>4, <1>5, <1>6, <1>7, <1>8

LEMMA UpsertKeepsInvariant ==
  ASSUME TrackingAssumptions, TrackingInvariant, NEW r \in Resolutions, Upsert(r)
  PROVE TrackingInvariant'
<1> DEFINE row == Registration(resolution[r].of, resolution[r].protocol)
<1>1. /\ resolution[r].pc = "ensure" /\ registration' = row /\ Answers(r, row)
      /\ registered' \in {registered, registered \cup {row}} /\ UNCHANGED history
  BY DEF Upsert
<1>2. row \in Rows /\ IsConfirmed(row)
  BY <1>1, UpsertedIsConfirmed
<1>. HIDE DEF row
<1>3. registered' \subseteq Rows
  BY <1>1, <1>2 DEF TrackingInvariant, TrackingTypeOK
<1>. QED
  BY <1>1, <1>2, <1>3, AnswerKeepsInvariant

\* Whatever a resolution has read, and whatever the trigger does meanwhile: the rows it
\* holds are what their own protocols confirmed, for any number of plans and manifests.
THEOREM TrackingIsInvariant == TrackingAssumptions => (TrackingSpec => []TrackingInvariant)
<1>. SUFFICES ASSUME TrackingAssumptions
              PROVE TrackingSpec => []TrackingInvariant
  OBVIOUS
<1>1. TrackingInit => TrackingInvariant
  <2>. SUFFICES ASSUME TrackingInit
                PROVE TrackingInvariant
    OBVIOUS
  <2>1. manifests \in Seq(0..MaxManifests) /\ LatestPlan = 0
    BY EmptySeq DEF TrackingInit, LatestPlan
  <2>2. Waiting \in Resolution /\ HasResolved(Waiting)
    BY DEF Waiting, Resolution, HasResolved, TrackingAssumptions, TrackingNumbersAssumption
  <2>. QED
    BY <2>1, <2>2 DEF TrackingInit, TrackingInvariant, TrackingTypeOK, TrackingAssumptions,
                      TrackingNumbersAssumption
<1>2. TrackingInvariant /\ [TrackingNext]_trackingVars => TrackingInvariant'
  <2>. SUFFICES ASSUME TrackingInvariant, [TrackingNext]_trackingVars
                PROVE TrackingInvariant'
    OBVIOUS
  <2>1. CASE UNCHANGED trackingVars
    BY <2>1 DEF trackingVars, history, TrackingInvariant, TrackingTypeOK, HasResolved,
                IsConfirmed, LatestPlan
  <2>. QED
    BY <2>1, HistoryKeepsInvariant, ReadingKeepsInvariant, UpsertKeepsInvariant
    DEF TrackingNext, Resolve
<1>. QED
  BY <1>1, <1>2, PTL DEF TrackingSpec

\* The registration, and every answer about it, is what the row's own protocol confirmed,
\* whichever of the trigger and the resolver wrote it last.
THEOREM RegistrationsStayConfirmed ==
  TrackingAssumptions => (TrackingSpec => []RegistrationsAreConfirmed)
<1>. SUFFICES ASSUME TrackingAssumptions
              PROVE TrackingSpec => []RegistrationsAreConfirmed
  OBVIOUS
<1>1. TrackingInvariant => RegistrationsAreConfirmed
  BY DEF TrackingInvariant, HasResolved, IsConfirmed, RegistrationsAreConfirmed
<1>2. TrackingSpec => []TrackingInvariant
  BY TrackingIsInvariant
<1>. QED
  BY <1>1, <1>2, PTL

\* What the resolver changes is audited.  It compares the campaign and the protocol alone,
\* which is enough: both rows are confirmed by that protocol, so they agree in the rest.
THEOREM ChangesAreAudited ==
  TrackingAssumptions => (TrackingSpec => [][ResolverChangesAreAudited]_trackingVars)
<1>. SUFFICES ASSUME TrackingAssumptions
              PROVE TrackingSpec => [][ResolverChangesAreAudited]_trackingVars
  OBVIOUS
<1>1. ASSUME TrackingInvariant, TrackingNext
      PROVE ResolverChangesAreAudited
  <2>. SUFFICES ASSUME NEW r \in Resolutions, resolution[r].pc = "ensure",
                       resolution'[r].pc = "answered",
                       resolution[r].previous # registration'
                PROVE registration' \in registered'
    BY DEF ResolverChangesAreAudited
  <2>1. resolution \in [Resolutions -> Resolution] /\ HasResolved(resolution[r])
    BY <1>1 DEF TrackingInvariant, TrackingTypeOK
  <2>2. Upsert(r)
    <3>1. \A s \in Resolutions : Find(s) \/ ReadPlan(s) \/ ReadManifest(s) \/ ReadProtocol(s)
                                 \/ ReadRegistration(s) \/ Again(s) \/ Upsert(s) =>
            s = r \/ resolution'[r] = resolution[r]
      BY <2>1 DEF Find, ReadPlan, ReadManifest, ReadProtocol, ReadRegistration, Again, Upsert,
                  Answers, NotFound, Proceeds
    <3>2. ~(Find(r) \/ ReadPlan(r) \/ ReadManifest(r) \/ ReadProtocol(r)
            \/ ReadRegistration(r) \/ Again(r))
      BY DEF Find, ReadPlan, ReadManifest, ReadProtocol, ReadRegistration, Again
    <3>3. History => UNCHANGED resolution
      BY DEF History, NewPlan, NewManifest, Prepare, Conclude
    <3>. QED
      BY <1>1, <3>1, <3>2, <3>3 DEF TrackingNext, Resolve
  <2> DEFINE row == Registration(resolution[r].of, resolution[r].protocol)
             old == resolution[r].previous
  <2>3. registration' = row /\ (Differs(old, row) => row \in registered')
    BY <2>2 DEF Upsert
  <2>4. row.of = resolution[r].of /\ IsConfirmed(row)
    BY <1>1, UpsertedIsConfirmed
  <2>5. old # Absent => IsConfirmed(old)
    BY <2>1 DEF HasResolved
  <2>. HIDE DEF row, old
  <2>6. ~Differs(old, row) => old = row
    BY <2>4, <2>5 DEF Differs, IsConfirmed
  <2>. QED
    BY <2>3, <2>6 DEF old
<1>2. TrackingSpec => []TrackingInvariant
  BY TrackingIsInvariant
<1>. QED
  BY <1>1, <1>2, PTL DEF TrackingSpec

-----------------------------------------------------------------------------
(* Collections, decisions and learnings.                                   *)

AnalystAssumptions == OperationsAssumption /\ AnalystNumbersAssumption /\ NoneAssumption

\* p was collected before s.
Precedes(p, s) ==
  /\ p \in Snapshots /\ s \in Snapshots
  /\ collected[p] # None /\ collected[s] # None /\ collected[p] < collected[s]

\* What a request has read of the tables, which is as it was because rows are kept.
Recalls(q) ==
  /\ q.kind = "collect" => q.pc \in {"save", "previous", "saveAnalysis", "answered"}
  /\ q.pc \in {"save", "previous", "saveAnalysis"} =>
       q.kind = "collect" /\ q.snapshot \in Snapshots /\ q.constraints \in Constraints
  /\ q.pc \in {"save", "decide", "learn"} => q.stamp \in Times
  /\ q.pc \in {"previous", "saveAnalysis"} => collected[q.snapshot] # None
  /\ q.pc = "previous" => q.stamp = collected[q.snapshot]
  /\ q.pc = "saveAnalysis" =>
       /\ q.draft \in Analysis /\ q.draft.at <= clock
       /\ q.draft.previous # None => Precedes(q.draft.previous, q.snapshot)
  /\ q.kind = "collect" /\ q.pc = "answered" =>
       /\ q.snapshot \in Snapshots /\ collected[q.snapshot] # None
       /\ q.answer # None /\ q.answer = analysis[q.snapshot]
  /\ q.pc \in {"decisions", "decide"} =>
       /\ q.kind = "decide" /\ q.snapshot \in Snapshots /\ analysis[q.snapshot] # None
       /\ analysis[q.snapshot].verdict.approval /\ q.decision \in {"approve", "reject"}
  /\ q.pc = "decide" => analysis[q.snapshot].at <= q.stamp
  /\ q.pc = "latest" =>
       /\ q.kind = "refresh" /\ q.answer \in Snapshots \cup {None}
       /\ q.snapshot # None => collected[q.snapshot] # None
  /\ q.pc \in {"learnings", "derive", "learn"} =>
       /\ q.kind = "refresh" /\ q.snapshot \in Snapshots /\ collected[q.snapshot] # None
       /\ q.answer \in Snapshots
  /\ q.pc = "learn" =>
       Precedes(q.previous, q.snapshot) /\ Derive(q.snapshot, q.previous) # None

\* The recommendation that a decision is about was the latest at some moment of the request.
HasMet(q, met) == q.pc \in {"decisions", "decide"} => q.snapshot \in met

\* Analyses and learnings compare with what was collected before.
RowsAreGrounded ==
  /\ \A s \in Snapshots :
       analysis[s] # None =>
         /\ collected[s] # None /\ analysis[s].at <= clock
         /\ analysis[s].previous # None => Precedes(analysis[s].previous, s)
  /\ \A i \in DOMAIN learnings : Precedes(learnings[i].previous, learnings[i].snapshot)

TablesOK ==
  /\ clock \in Times
  /\ collected \in [Snapshots -> Times \cup {None}]
  /\ analysis \in [Snapshots -> Analysis \cup {None}]
  /\ decisions \in Seq(Decision) /\ learnings \in Seq(Learning)

AnalystInvariant ==
  /\ TypeOK /\ RowsAreGrounded
  /\ \A r \in Requests : Recalls(request[r]) /\ HasMet(request[r], past[r])

LEMMA Answering == None \in Answer /\ Analysis \subseteq Answer /\ Snapshots \subseteq Answer
  BY DEF Answer

LEMMA RowTypes ==
  ASSUME AnalystAssumptions, TablesOK
  PROVE /\ clock \in Int
        /\ \A s \in Snapshots :
             /\ collected[s] # None => collected[s] \in Int
             /\ analysis[s] # None => /\ analysis[s] \in Analysis /\ analysis[s].at \in Int
                                      /\ analysis[s].previous \in Snapshots \cup {None}
  BY DEF TablesOK, Analysis, Times, AnalystAssumptions, AnalystNumbersAssumption

\* What was read stays true while rows are kept.
LEMMA RecallStays ==
  ASSUME AnalystAssumptions, TablesOK, TablesOK', EvidenceIsKept, clock <= clock',
         NEW q \in Request, Recalls(q)
  PROVE Recalls(q)'
<1>1. ASSUME NEW p, NEW s, Precedes(p, s)
      PROVE Precedes(p, s)'
  BY <1>1 DEF Precedes, EvidenceIsKept
<1>2. q.snapshot \in Snapshots \cup {None}
  BY DEF Request
<1>3. q.pc = "saveAnalysis" => q.draft.at <= clock'
  <2>1. clock \in Int /\ clock' \in Int /\ (q.draft \in Analysis => q.draft.at \in Int)
    BY DEF TablesOK, Times, Analysis, AnalystAssumptions, AnalystNumbersAssumption
  <2>. QED
    BY <2>1 DEF Recalls
<1>4. \A s \in Snapshots : /\ collected[s] # None => collected'[s] = collected[s]
                           /\ analysis[s] # None => analysis'[s] = analysis[s]
  BY DEF EvidenceIsKept
<1>5. None \notin Snapshots
  BY DEF AnalystAssumptions, NoneAssumption
<1>. QED
  BY <1>1, <1>2, <1>3, <1>4, <1>5 DEF Recalls

LEMMA GroundedStays ==
  ASSUME AnalystAssumptions, TablesOK, TablesOK', EvidenceIsKept, clock <= clock',
         RowsAreGrounded, UNCHANGED <<analysis, learnings>>
  PROVE RowsAreGrounded'
<1>1. ASSUME NEW p, NEW s, Precedes(p, s)
      PROVE Precedes(p, s)'
  BY <1>1 DEF Precedes, EvidenceIsKept
<1>2. \A s \in Snapshots : analysis[s] # None => analysis[s].at <= clock'
  <2>1. clock' \in Int
    BY DEF TablesOK, Times
  <2>. QED
    BY <2>1, RowTypes DEF RowsAreGrounded
<1>. QED
  BY <1>1, <1>2 DEF RowsAreGrounded, EvidenceIsKept

\* A step of a request that goes on with q.
LEMMA RequestKeepsInvariant ==
  ASSUME AnalystAssumptions, AnalystInvariant, Remember, NEW r \in Requests,
         NEW q \in Request, Goes(r, q), UNCHANGED clock, TablesOK', EvidenceIsKept,
         RowsAreGrounded', Recalls(q)',
         HasMet(q, past[r] \cup LatestAnalyses')
  PROVE AnalystInvariant'
<1>1. TablesOK /\ request \in [Requests -> Request] /\ past \in [Requests -> SUBSET Snapshots]
  BY DEF AnalystInvariant, TypeOK, TablesOK
<1>2. /\ request' \in [Requests -> Request]
      /\ \A s \in Requests : request'[s] = IF s = r THEN q ELSE request[s]
  BY <1>1 DEF Goes
<1>3. /\ past' \in [Requests -> SUBSET Snapshots]
      /\ \A s \in Requests :
           request'[s].kind = "decide" /\ request'[s].pc # "idle" =>
             past'[s] = past[s] \cup LatestAnalyses'
  BY <1>1 DEF Remember, LatestAnalyses, LatestOf, Analyses
<1>4. clock <= clock'
  BY <1>1, RowTypes
<1>5. ASSUME NEW s \in Requests
      PROVE Recalls(request[s])' /\ HasMet(request[s], past[s])'
  <2>1. CASE s = r
    <3>1. HasMet(q, past'[r])
      BY <1>2, <1>3 DEF HasMet, Recalls
    <3>. QED
      BY <1>2, <2>1, <3>1 DEF HasMet
  <2>2. CASE s # r
    <3>1. request'[s] = request[s] /\ request[s] \in Request /\ Recalls(request[s])
          /\ HasMet(request[s], past[s])
      BY <1>1, <1>2, <2>2 DEF AnalystInvariant
    <3>2. \A x \in Request : Recalls(x) => Recalls(x)'
      BY <1>1, <1>4, RecallStays
    <3>3. Recalls(request[s])'
      BY <3>1, <3>2
    <3>4. HasMet(request[s], past'[s])
      BY <1>3, <3>1 DEF HasMet, Recalls
    <3>. QED
      BY <3>1, <3>3, <3>4 DEF HasMet
  <2>. QED
    BY <2>1, <2>2
<1>6. TypeOK'
  BY <1>2, <1>3 DEF TypeOK, TablesOK
<1>. QED
  BY <1>5, <1>6 DEF AnalystInvariant

\* A step that writes nothing.
LEMMA LookingKeepsInvariant ==
  ASSUME AnalystAssumptions, AnalystInvariant, Remember, NEW r \in Requests,
         NEW q \in Request, Goes(r, q), UNCHANGED <<clock, rows>>, Recalls(q),
         HasMet(q, past[r] \cup LatestAnalyses)
  PROVE AnalystInvariant'
<1>1. TablesOK /\ TablesOK'
  BY DEF AnalystInvariant, TypeOK, TablesOK, rows
<1>2. EvidenceIsKept /\ clock <= clock'
  BY <1>1, RowTypes DEF EvidenceIsKept, rows
<1>3. RowsAreGrounded'
  BY <1>1, <1>2, GroundedStays DEF AnalystInvariant, rows
<1>4. Recalls(q)'
  BY <1>1, <1>2, RecallStays
<1>5. LatestAnalyses' = LatestAnalyses
  BY DEF rows, LatestAnalyses, LatestOf, Analyses, GeneratedAt
<1>. QED
  BY <1>1, <1>2, <1>3, <1>4, <1>5, RequestKeepsInvariant DEF rows

\* What reads of at most one row return.
LEMMA Reads ==
  /\ \A s \in OneOf(LatestAnalyses) :
       s = None \/ (s \in LatestAnalyses /\ s \in Snapshots /\ analysis[s] # None)
  /\ \A s \in OneOf(LatestSnapshots) : s = None \/ (s \in Snapshots /\ collected[s] # None)
  /\ \A at : \A p \in OneOf(Before(at)) :
       p = None \/ (p \in Snapshots /\ collected[p] # None /\ collected[p] < at)
  BY DEF OneOf, LatestAnalyses, LatestSnapshots, Before, LatestOf, Analyses, Collected

\* A request that is over, or answered otherwise than a collection, recalls nothing.
LEMMA AnsweredRecalls ==
  ASSUME AnalystAssumptions, NEW q \in Request, q.kind # "collect"
  PROVE /\ Answered(q) \in Request /\ Recalls(Answered(q))
        /\ \A met : HasMet(Answered(q), met)
<1>1. /\ Answered(q) \in Request /\ Answered(q).pc = "answered"
      /\ Answered(q).kind = q.kind
  BY Answering DEF Answered, Request
<1>. QED
  BY <1>1 DEF Recalls, HasMet

LEMMA IdleRecalls ==
  /\ Idle \in Request /\ Idle.kind = "none" /\ Recalls(Idle)
  /\ \A met : HasMet(Idle, met)
<1>1. Idle \in Request /\ Idle.kind = "none" /\ Idle.pc = "idle"
  BY Answering DEF Idle, Request
<1>. QED
  BY <1>1 DEF Recalls, HasMet

LEMMA RequestFacts ==
  ASSUME AnalystAssumptions, AnalystInvariant, NEW r \in Requests
  PROVE /\ TablesOK /\ RowsAreGrounded
        /\ request[r] \in Request /\ Recalls(request[r]) /\ HasMet(request[r], past[r])
  BY DEF AnalystInvariant, TypeOK, TablesOK

LEMMA CollectingKeepsInvariant ==
  ASSUME AnalystAssumptions, AnalystInvariant, Remember, NEW r \in Requests,
         \/ \E s \in Snapshots, c \in Constraints : Collect(r, s, c)
         \/ SaveSnapshot(r) \/ ReadPrevious(r) \/ SaveAnalysis(r)
  PROVE AnalystInvariant'
<1>1. ASSUME NEW s \in Snapshots, NEW c \in Constraints, Collect(r, s, c)
      PROVE AnalystInvariant'
  <2> DEFINE q == [Idle EXCEPT !.pc = "save", !.kind = "collect", !.snapshot = s,
                               !.constraints = c, !.stamp = clock]
  <2>1. clock \in Times /\ Idle \in Request
    BY RequestFacts, IdleRecalls DEF TablesOK
  <2>3. /\ q \in Request /\ q.pc = "save" /\ q.kind = "collect" /\ q.snapshot = s
        /\ q.constraints = c /\ q.stamp \in Times
    BY <2>1 DEF Request, OperationKinds
  <2>4. Goes(r, q) /\ UNCHANGED <<clock, rows>>
    BY <1>1 DEF Collect
  <2>. HIDE DEF q
  <2>5. Recalls(q) /\ HasMet(q, past[r] \cup LatestAnalyses)
    BY <2>3 DEF Recalls, HasMet
  <2>. QED
    BY <2>3, <2>4, <2>5, LookingKeepsInvariant
<1>2. CASE SaveSnapshot(r)
  <2>. PICK p : p = request[r]
    OBVIOUS
  <2>1. /\ p.snapshot \in Snapshots /\ p.stamp \in Times /\ p.kind = "collect"
        /\ p.constraints \in Constraints /\ p \in Request
    BY <1>2, RequestFacts DEF SaveSnapshot, Recalls
  <2>. PICK at : at = IF collected[p.snapshot] = None THEN p.stamp ELSE collected[p.snapshot]
    OBVIOUS
  <2>2. at \in Times /\ at # None
    BY <2>1, RequestFacts DEF TablesOK, AnalystAssumptions, NoneAssumption
  <2> DEFINE s == p.snapshot
             q == [p EXCEPT !.pc = "previous", !.stamp = at]
  <2>3. /\ collected' = [collected EXCEPT ![s] = at] /\ Goes(r, q)
        /\ UNCHANGED <<clock, analysis, decisions, learnings>>
    BY <1>2 DEF SaveSnapshot
  <2>4. /\ q \in Request /\ q.pc = "previous" /\ q.kind = "collect" /\ q.snapshot = s
        /\ q.constraints \in Constraints /\ q.stamp = at
    <3>1. q \in Request
      BY <2>1, <2>2 DEF Request
    <3>. QED
      BY <2>1, <3>1 DEF Request
  <2>5. collected \in [Snapshots -> Times \cup {None}]
    BY RequestFacts DEF TablesOK
  <2>6. collected'[s] = at
    BY <2>1, <2>3, <2>5
  <2>7. EvidenceIsKept
    BY <2>1, <2>3, <2>5 DEF EvidenceIsKept
  <2>. HIDE DEF q, s
  <2>8. TablesOK'
    BY <2>2, <2>3, <2>5, RequestFacts DEF TablesOK
  <2>9. clock <= clock'
    BY <2>3, RequestFacts, RowTypes
  <2>10. RowsAreGrounded'
    BY <2>3, <2>7, <2>8, <2>9, RequestFacts, GroundedStays
  <2>11. Recalls(q)'
    BY <2>1, <2>2, <2>4, <2>6 DEF Recalls, s
  <2>12. HasMet(q, past[r] \cup LatestAnalyses')
    BY <2>4 DEF HasMet
  <2>. QED
    BY <2>3, <2>4, <2>7, <2>8, <2>10, <2>11, <2>12, RequestKeepsInvariant
<1>3. CASE ReadPrevious(r)
  <2>1. PICK p \in OneOf(Before(request[r].stamp)) :
          Goes(r, [request[r] EXCEPT
                     !.pc = "saveAnalysis",
                     !.draft =
                       [previous |-> p, at |-> clock,
                        verdict |-> BuildAnalysis(request[r].snapshot, p,
                                                  request[r].constraints)]])
    BY <1>3 DEF ReadPrevious
  <2> DEFINE s == request[r].snapshot
             draft == [previous |-> p, at |-> clock,
                       verdict |-> BuildAnalysis(s, p, request[r].constraints)]
             q == [request[r] EXCEPT !.pc = "saveAnalysis", !.draft = draft]
  <2>2. /\ s \in Snapshots /\ request[r].kind = "collect"
        /\ request[r].constraints \in Constraints
        /\ request[r].stamp = collected[s] /\ collected[s] # None
    BY <1>3, RequestFacts DEF ReadPrevious, Recalls
  <2>3. p = None \/ (p \in Snapshots /\ collected[p] # None /\ collected[p] < request[r].stamp)
    BY Reads
  <2>4. draft \in Analysis /\ draft.previous = p /\ draft.at = clock
    <3>1. BuildAnalysis(s, p, request[r].constraints) \in Verdicts
      BY DEF BuildAnalysis, Compared, Verdict, Verdicts, Actions
    <3>2. clock \in Times
      BY RequestFacts DEF TablesOK
    <3>. QED
      BY <2>3, <3>1, <3>2 DEF Analysis
  <2>. HIDE DEF draft
  <2>5. /\ q \in Request /\ q.pc = "saveAnalysis" /\ q.kind = "collect" /\ q.snapshot = s
        /\ q.constraints \in Constraints /\ q.draft = draft
    <3>1. request[r] \in Request
      BY RequestFacts
    <3>. QED
      BY <2>2, <2>4, <3>1 DEF Request
  <2>6. Goes(r, q) /\ UNCHANGED <<clock, rows>>
    BY <1>3, <2>1 DEF ReadPrevious, draft
  <2>. HIDE DEF q, s
  <2>7. draft.at <= clock /\ (draft.previous # None => Precedes(draft.previous, s))
    BY <2>2, <2>3, <2>4, RequestFacts, RowTypes DEF Precedes
  <2>8. Recalls(q) /\ HasMet(q, past[r] \cup LatestAnalyses)
    BY <2>2, <2>4, <2>5, <2>7 DEF Recalls, HasMet
  <2>. QED
    BY <2>5, <2>6, <2>8, LookingKeepsInvariant
<1>4. CASE SaveAnalysis(r)
  <2>. PICK p : p = request[r]
    OBVIOUS
  <2>. PICK a : a = IF analysis[p.snapshot] = None THEN p.draft ELSE analysis[p.snapshot]
    OBVIOUS
  <2> DEFINE s == p.snapshot
             q == [p EXCEPT !.pc = "answered", !.answer = a, !.draft = None, !.stamp = None]
  <2>1. /\ p \in Request /\ p.kind = "collect" /\ s \in Snapshots /\ collected[s] # None
        /\ p.draft \in Analysis /\ p.draft.at <= clock
        /\ p.draft.previous # None => Precedes(p.draft.previous, s)
    BY <1>4, RequestFacts DEF SaveAnalysis, Recalls
  <2>2. a \in Analysis /\ a # None
    BY <2>1, RequestFacts DEF TablesOK, AnalystAssumptions, NoneAssumption
  <2>3. a.at <= clock /\ (a.previous # None => Precedes(a.previous, s))
    BY <2>1, RequestFacts DEF RowsAreGrounded
  <2>4. /\ analysis' = [analysis EXCEPT ![s] = a] /\ Goes(r, q)
        /\ UNCHANGED <<clock, collected, decisions, learnings>>
    BY <1>4 DEF SaveAnalysis
  <2>5. analysis \in [Snapshots -> Analysis \cup {None}]
    BY RequestFacts DEF TablesOK
  <2>6. EvidenceIsKept
    BY <2>1, <2>4, <2>5 DEF EvidenceIsKept
  <2>7. a \in Answer
    BY <2>2, Answering
  <2>8. /\ q \in Request /\ q.pc = "answered" /\ q.kind = "collect" /\ q.snapshot = s
        /\ q.answer = a
    BY <2>1, <2>7 DEF Request
  <2>. HIDE DEF q
  <2>9. TablesOK'
    BY <2>1, <2>2, <2>4, <2>5, RequestFacts DEF TablesOK
  <2>10. RowsAreGrounded'
    <3>1. ASSUME NEW x, NEW y, Precedes(x, y)
          PROVE Precedes(x, y)'
      BY <2>4, <3>1 DEF Precedes
    <3>2. \A u \in Snapshots : analysis'[u] = IF u = s THEN a ELSE analysis[u]
      BY <2>1, <2>4, <2>5
    <3>. HIDE DEF s
    <3>. QED
      BY <2>1, <2>3, <2>4, <3>1, <3>2, RequestFacts DEF RowsAreGrounded
  <2>11. analysis'[s] = a /\ collected'[s] # None
    BY <2>1, <2>4, <2>5
  <2>. HIDE DEF s
  <2>12. Recalls(q)' /\ HasMet(q, past[r] \cup LatestAnalyses')
    BY <2>1, <2>2, <2>8, <2>11 DEF Recalls, HasMet
  <2>. QED
    BY <2>4, <2>6, <2>8, <2>9, <2>10, <2>12, RequestKeepsInvariant
<1>. QED
  BY <1>1, <1>2, <1>3, <1>4

\* A step that records a decision or a learning, and is answered.
LEMMA RecordingKeepsInvariant ==
  ASSUME AnalystAssumptions, AnalystInvariant, Remember, NEW r \in Requests,
         Goes(r, Answered(request[r])), request[r].kind # "collect",
         UNCHANGED <<clock, collected, analysis>>,
         decisions' \in Seq(Decision), learnings' \in Seq(Learning), RowsAreGrounded'
  PROVE AnalystInvariant'
<1>. PICK q : q = Answered(request[r])
  OBVIOUS
<1>1. q \in Request /\ Recalls(q) /\ HasMet(q, past[r] \cup LatestAnalyses')
  BY RequestFacts, AnsweredRecalls
<1>2. TablesOK /\ TablesOK' /\ EvidenceIsKept /\ clock <= clock'
  BY RequestFacts, RowTypes DEF TablesOK, EvidenceIsKept
<1>3. Recalls(q)'
  BY <1>1, <1>2, RecallStays
<1>. QED
  BY <1>1, <1>2, <1>3, RequestKeepsInvariant

LEMMA DecidingKeepsInvariant ==
  ASSUME AnalystAssumptions, AnalystInvariant, Remember, NEW r \in Requests,
         \/ \E d \in {"approve", "reject"} : Decide(r, d)
         \/ ReadDecision(r) \/ RecordDecision(r)
  PROVE AnalystInvariant'
<1>1. ASSUME NEW d \in {"approve", "reject"}, Decide(r, d)
      PROVE AnalystInvariant'
  <2>1. PICK s \in OneOf(LatestAnalyses) :
          IF s = None \/ ~analysis[s].verdict.approval
          THEN Goes(r, Answered([Idle EXCEPT !.kind = "decide"]))
          ELSE Goes(r, [Idle EXCEPT !.pc = "decisions", !.kind = "decide", !.snapshot = s,
                                    !.decision = d])
    BY <1>1 DEF Decide
  <2>2. UNCHANGED <<clock, rows>>
    BY <1>1 DEF Decide
  <2>3. CASE s = None \/ ~analysis[s].verdict.approval
    <3> DEFINE q == [Idle EXCEPT !.kind = "decide"]
    <3>1. q \in Request /\ q.kind = "decide"
      BY IdleRecalls DEF Request, OperationKinds
    <3>. HIDE DEF q
    <3>2. Answered(q) \in Request /\ Recalls(Answered(q)) /\ \A met : HasMet(Answered(q), met)
      BY <3>1, AnsweredRecalls
    <3>3. Goes(r, Answered(q))
      BY <2>1, <2>3 DEF q
    <3>. QED
      BY <2>2, <3>2, <3>3, LookingKeepsInvariant
  <2>4. CASE ~(s = None \/ ~analysis[s].verdict.approval)
    <3> DEFINE q == [Idle EXCEPT !.pc = "decisions", !.kind = "decide", !.snapshot = s,
                                 !.decision = d]
    <3>1. s \in LatestAnalyses /\ s \in Snapshots /\ analysis[s] # None
      BY <2>4, Reads
    <3>2. /\ q \in Request /\ q.pc = "decisions" /\ q.kind = "decide" /\ q.snapshot = s
          /\ q.decision = d
      BY <3>1, IdleRecalls DEF Request, OperationKinds
    <3>3. Goes(r, q)
      BY <2>1, <2>4
    <3>. HIDE DEF q
    <3>4. Recalls(q) /\ HasMet(q, past[r] \cup LatestAnalyses)
      BY <2>4, <3>1, <3>2 DEF Recalls, HasMet
    <3>. QED
      BY <2>2, <3>2, <3>3, <3>4, LookingKeepsInvariant
  <2>. QED
    BY <2>3, <2>4
<1>2. CASE ReadDecision(r)
  <2> DEFINE p == request[r]
             q == [p EXCEPT !.pc = "decide", !.stamp = clock]
  <2>1. /\ p \in Request /\ p.kind = "decide" /\ p.snapshot \in Snapshots
        /\ analysis[p.snapshot] # None /\ analysis[p.snapshot].verdict.approval
        /\ p.decision \in {"approve", "reject"} /\ p.snapshot \in past[r]
    BY <1>2, RequestFacts DEF ReadDecision, Recalls, HasMet
  <2>2. Goes(r, Answered(p)) \/ Goes(r, q)
    BY <1>2 DEF ReadDecision
  <2>3. UNCHANGED <<clock, rows>>
    BY <1>2 DEF ReadDecision
  <2>4. CASE Goes(r, Answered(p))
    BY <2>1, <2>3, <2>4, AnsweredRecalls, LookingKeepsInvariant
  <2>5. CASE Goes(r, q)
    <3>. HIDE DEF p
    <3>1. clock \in Times /\ analysis[p.snapshot].at <= clock
      BY <2>1, RequestFacts DEF TablesOK, RowsAreGrounded
    <3>2. /\ q \in Request /\ q.pc = "decide" /\ q.kind = "decide" /\ q.snapshot = p.snapshot
          /\ q.decision = p.decision /\ q.stamp = clock
      BY <2>1, <3>1 DEF Request
    <3>. HIDE DEF q
    <3>3. Recalls(q) /\ HasMet(q, past[r] \cup LatestAnalyses)
      BY <2>1, <3>1, <3>2 DEF Recalls, HasMet
    <3>. QED
      BY <2>3, <2>5, <3>2, <3>3, LookingKeepsInvariant
  <2>. QED
    BY <2>2, <2>4, <2>5
<1>3. CASE RecordDecision(r)
  <2> DEFINE p == request[r]
             target == IF p.decision = "reject" THEN None
                       ELSE HandoffTarget(analysis[p.snapshot].verdict.action)
             e == [of |-> p.snapshot, decision |-> p.decision, at |-> p.stamp,
                   handoff |-> target]
  <2>1. /\ p.kind = "decide" /\ p.snapshot \in Snapshots /\ p.stamp \in Times
        /\ p.decision \in {"approve", "reject"}
    BY <1>3, RequestFacts DEF RecordDecision, Recalls
  <2>2. target \in {None, "generator", "contexto_ads", "operational_review"}
    <3>1. \A action : HandoffTarget(action) \in {"generator", "contexto_ads",
                                                "operational_review"}
      BY Zenon DEF HandoffTarget
    <3>. QED
      BY <3>1
  <2>3. /\ decisions' = Append(decisions, e) /\ Goes(r, Answered(p))
        /\ UNCHANGED <<clock, collected, analysis, learnings>>
    BY <1>3 DEF RecordDecision
  <2>. HIDE DEF p, target
  <2>4. e \in Decision
    BY <2>1, <2>2 DEF Decision
  <2>. HIDE DEF e
  <2>5. decisions' \in Seq(Decision) /\ learnings' \in Seq(Learning)
    BY <2>3, <2>4, RequestFacts, AppendProperties DEF TablesOK
  <2>6. RowsAreGrounded'
    BY <2>3, RequestFacts DEF RowsAreGrounded, Precedes
  <2>. QED
    BY <2>1, <2>3, <2>5, <2>6, RecordingKeepsInvariant DEF p
<1>. QED
  BY <1>1, <1>2, <1>3

LEMMA LearningKeepsInvariant ==
  ASSUME AnalystAssumptions, AnalystInvariant, Remember, NEW r \in Requests,
         \/ Refresh(r) \/ LookSnapshot(r) \/ LookAnalysis(r) \/ ReadLearning(r)
         \/ DeriveLearning(r) \/ RecordLearning(r)
  PROVE AnalystInvariant'
<1>1. CASE Refresh(r)
  <2> DEFINE q == [Idle EXCEPT !.pc = "latest", !.kind = "refresh",
                               !.toRead = {"snapshot", "analysis"}]
  <2>1. /\ q \in Request /\ q.pc = "latest" /\ q.kind = "refresh"
        /\ q.snapshot = None /\ q.answer = None
    BY IdleRecalls DEF Request, OperationKinds, Idle
  <2>2. Goes(r, q) /\ UNCHANGED <<clock, rows>>
    BY <1>1 DEF Refresh
  <2>. HIDE DEF q
  <2>3. Recalls(q) /\ HasMet(q, past[r] \cup LatestAnalyses)
    BY <2>1 DEF Recalls, HasMet
  <2>. QED
    BY <2>1, <2>2, <2>3, LookingKeepsInvariant
<1>2. ASSUME request[r].pc = "latest", UNCHANGED <<clock, rows>>,
             NEW toRead \in SUBSET {"snapshot", "analysis"},
             NEW s \in Snapshots \cup {None}, s # None => collected[s] # None,
             NEW a \in Snapshots \cup {None}, Continue(r, toRead, s, a)
      PROVE AnalystInvariant'
  <2> DEFINE pc == IF toRead # {} THEN "latest"
                   ELSE IF None \in {s, a} THEN "answered" ELSE "learnings"
             q == [request[r] EXCEPT !.toRead = toRead, !.snapshot = s, !.answer = a,
                                     !.pc = pc]
  <2>1. Goes(r, q)
    BY <1>2 DEF Continue
  <2>2. /\ pc \in {"latest", "answered", "learnings"}
        /\ pc = "learnings" => s \in Snapshots /\ a \in Snapshots
    BY <1>2
  <2>. HIDE DEF pc
  <2>3. request[r] \in Request /\ request[r].kind = "refresh" /\ a \in Answer
    BY <1>2, RequestFacts, Answering DEF Recalls
  <2>4. /\ q \in Request /\ q.pc = pc /\ q.kind = "refresh" /\ q.snapshot = s /\ q.answer = a
    BY <2>2, <2>3 DEF Request
  <2>. HIDE DEF q
  <2>5. Recalls(q) /\ HasMet(q, past[r] \cup LatestAnalyses)
    BY <1>2, <2>2, <2>4 DEF Recalls, HasMet, AnalystAssumptions, NoneAssumption
  <2>. QED
    BY <1>2, <2>1, <2>4, <2>5, LookingKeepsInvariant
<1>3. request[r].pc = "latest" =>
        /\ request[r].toRead \in SUBSET {"snapshot", "analysis"}
        /\ request[r].snapshot \in Snapshots \cup {None}
        /\ request[r].snapshot # None => collected[request[r].snapshot] # None
        /\ request[r].answer \in Snapshots \cup {None}
  BY RequestFacts DEF Recalls, Request
<1>4. CASE LookSnapshot(r)
  <2>1. PICK s \in OneOf(LatestSnapshots) :
          Continue(r, request[r].toRead \ {"snapshot"}, s, request[r].answer)
    BY <1>4 DEF LookSnapshot
  <2>2. request[r].pc = "latest" /\ UNCHANGED <<clock, rows>>
    BY <1>4 DEF LookSnapshot
  <2>3. s \in Snapshots \cup {None} /\ (s # None => collected[s] # None)
    BY Reads
  <2>. QED
    BY <1>2, <1>3, <2>1, <2>2, <2>3
<1>5. CASE LookAnalysis(r)
  <2>1. PICK a \in OneOf(LatestAnalyses) :
          Continue(r, request[r].toRead \ {"analysis"}, request[r].snapshot, a)
    BY <1>5 DEF LookAnalysis
  <2>2. request[r].pc = "latest" /\ UNCHANGED <<clock, rows>>
    BY <1>5 DEF LookAnalysis
  <2>3. a \in Snapshots \cup {None}
    BY Reads
  <2>. QED
    BY <1>2, <1>3, <2>1, <2>2, <2>3
<1>6. request[r].pc \in {"learnings", "derive", "learn"} =>
        /\ request[r] \in Request /\ request[r].kind = "refresh"
        /\ request[r].snapshot \in Snapshots /\ collected[request[r].snapshot] # None
        /\ request[r].answer \in Snapshots
  BY RequestFacts DEF Recalls
<1>7. ASSUME request[r].kind = "refresh", UNCHANGED <<clock, rows>>,
             Goes(r, Answered(request[r]))
      PROVE AnalystInvariant'
  BY <1>7, RequestFacts, AnsweredRecalls, LookingKeepsInvariant
<1>8. CASE ReadLearning(r)
  <2> DEFINE q == [request[r] EXCEPT !.pc = "derive"]
  <2>1. /\ Goes(r, Answered(request[r])) \/ Goes(r, q)
        /\ request[r].pc = "learnings" /\ UNCHANGED <<clock, rows>>
    BY <1>8 DEF ReadLearning
  <2>2. CASE Goes(r, q)
    <3>1. /\ q \in Request /\ q.pc = "derive" /\ q.kind = "refresh"
          /\ q.snapshot = request[r].snapshot /\ q.answer = request[r].answer
      BY <1>6, <2>1 DEF Request
    <3>. HIDE DEF q
    <3>2. Recalls(q) /\ HasMet(q, past[r] \cup LatestAnalyses)
      BY <1>6, <2>1, <3>1 DEF Recalls, HasMet
    <3>. QED
      BY <2>1, <2>2, <3>1, <3>2, LookingKeepsInvariant
  <2>. QED
    BY <1>6, <1>7, <2>1, <2>2
<1>9. CASE DeriveLearning(r)
  <2>1. PICK p \in OneOf(Before(collected[request[r].snapshot])) :
          IF p # None /\ Derive(request[r].snapshot, p) # None
          THEN Goes(r, [request[r] EXCEPT !.pc = "learn", !.previous = p, !.stamp = clock])
          ELSE Goes(r, Answered(request[r]))
    BY <1>9 DEF DeriveLearning
  <2>2. request[r].pc = "derive" /\ UNCHANGED <<clock, rows>>
    BY <1>9 DEF DeriveLearning
  <2>3. CASE p # None /\ Derive(request[r].snapshot, p) # None
    <3> DEFINE q == [request[r] EXCEPT !.pc = "learn", !.previous = p, !.stamp = clock]
    <3>1. Precedes(p, request[r].snapshot) /\ p \in Snapshots /\ clock \in Times
      BY <1>6, <2>2, <2>3, Reads, RequestFacts DEF Precedes, TablesOK
    <3>2. /\ q \in Request /\ q.pc = "learn" /\ q.kind = "refresh" /\ q.previous = p
          /\ q.snapshot = request[r].snapshot /\ q.answer = request[r].answer
          /\ q.stamp = clock
      BY <1>6, <2>2, <3>1 DEF Request
    <3>3. Goes(r, q)
      BY <2>1, <2>3
    <3>. HIDE DEF q
    <3>4. Recalls(q) /\ HasMet(q, past[r] \cup LatestAnalyses)
      BY <1>6, <2>2, <2>3, <3>1, <3>2 DEF Recalls, HasMet
    <3>. QED
      BY <2>2, <3>2, <3>3, <3>4, LookingKeepsInvariant
  <2>. QED
    BY <1>6, <1>7, <2>1, <2>2, <2>3
<1>10. CASE RecordLearning(r)
  <2> DEFINE p == request[r]
             e == [of |-> p.answer, snapshot |-> p.snapshot, previous |-> p.previous,
                   learning |-> Derive(p.snapshot, p.previous), at |-> p.stamp]
  <2>1. /\ p.kind = "refresh" /\ p.answer \in Snapshots /\ p.snapshot \in Snapshots
        /\ p.stamp \in Times /\ Precedes(p.previous, p.snapshot)
        /\ Derive(p.snapshot, p.previous) # None
    BY <1>10, RequestFacts DEF RecordLearning, Recalls
  <2>2. Derive(p.snapshot, p.previous) \in {"improved", "worsened", "stable", "lost"}
    BY <2>1 DEF Derive
  <2>3. /\ learnings' = Append(learnings, e) /\ Goes(r, Answered(p))
        /\ UNCHANGED <<clock, collected, analysis, decisions>>
    BY <1>10 DEF RecordLearning
  <2>4. e \in Learning /\ e.previous = p.previous /\ e.snapshot = p.snapshot
    BY <2>1, <2>2 DEF Learning, Precedes
  <2>. HIDE DEF e, p
  <2>5. /\ decisions' \in Seq(Decision) /\ learnings' \in Seq(Learning)
        /\ learnings \in Seq(Learning)
    BY <2>3, <2>4, RequestFacts, AppendProperties DEF TablesOK
  <2>6. \A i \in DOMAIN learnings' :
          learnings'[i] = e \/ (i \in DOMAIN learnings /\ learnings'[i] = learnings[i])
    BY <2>3, <2>4, <2>5, AppendProperties
  <2>7. RowsAreGrounded'
    <3>1. \A x, y : Precedes(x, y) => Precedes(x, y)'
      BY <2>3 DEF Precedes
    <3>. QED
      BY <2>1, <2>3, <2>4, <2>6, <3>1, RequestFacts DEF RowsAreGrounded
  <2>. QED
    BY <2>1, <2>3, <2>5, <2>7, RecordingKeepsInvariant DEF p
<1>. QED
  BY <1>1, <1>4, <1>5, <1>8, <1>9, <1>10

LEMMA ShowingKeepsInvariant ==
  ASSUME AnalystAssumptions, AnalystInvariant, Remember, NEW r \in Requests,
         Summarize(r) \/ Over(r)
  PROVE AnalystInvariant'
<1>1. CASE Summarize(r)
  <2>1. PICK s \in OneOf(LatestAnalyses) :
          Goes(r, [Idle EXCEPT !.pc = "answered", !.kind = "summary", !.snapshot = s,
                               !.answer = IF s = None THEN None
                                          ELSE Present(s, analysis[s].verdict)])
    BY <1>1 DEF Summarize
  <2> DEFINE shown == IF s = None THEN None ELSE Present(s, analysis[s].verdict)
             q == [Idle EXCEPT !.pc = "answered", !.kind = "summary", !.snapshot = s,
                               !.answer = shown]
  <2>2. s = None \/ (s \in Snapshots /\ analysis[s] # None)
    BY Reads
  <2>3. shown \in Answer
    <3>1. s # None => analysis[s].verdict \in Verdicts
      BY <2>2, RequestFacts DEF TablesOK, Analysis
    <3>2. \A v \in Verdicts : Present(s, v) \in [decision : Actions, asks : BOOLEAN]
      BY DEF Present, Verdicts, Actions
    <3>. QED
      BY <3>1, <3>2 DEF Answer
  <2>4. Goes(r, q) /\ UNCHANGED <<clock, rows>>
    BY <1>1, <2>1 DEF Summarize
  <2>. HIDE DEF shown
  <2>5. q \in Request /\ q.pc = "answered" /\ q.kind = "summary"
    BY <2>2, <2>3, IdleRecalls DEF Request, OperationKinds
  <2>. HIDE DEF q
  <2>6. Recalls(q) /\ HasMet(q, past[r] \cup LatestAnalyses)
    BY <2>5 DEF Recalls, HasMet
  <2>. QED
    BY <2>4, <2>5, <2>6, LookingKeepsInvariant
<1>2. CASE Over(r)
  BY <1>2, IdleRecalls, LookingKeepsInvariant DEF Over
<1>. QED
  BY <1>1, <1>2

LEMMA TimeKeepsInvariant ==
  ASSUME AnalystAssumptions, AnalystInvariant, Tick
  PROVE AnalystInvariant'
<1>1. TablesOK
  BY DEF AnalystInvariant, TypeOK, TablesOK
<1>2. clock' \in Times /\ clock <= clock'
  BY <1>1 DEF Tick, TablesOK, Times, AnalystAssumptions, AnalystNumbersAssumption
<1>3. TypeOK' /\ TablesOK' /\ EvidenceIsKept
  BY <1>2 DEF AnalystInvariant, TypeOK, TablesOK, Tick, EvidenceIsKept
<1>4. RowsAreGrounded'
  BY <1>1, <1>2, <1>3, GroundedStays DEF AnalystInvariant, Tick
<1>5. \A q \in Request : Recalls(q) => Recalls(q)'
  BY <1>1, <1>2, <1>3, RecallStays
<1>6. \A r \in Requests : /\ request'[r] = request[r] /\ past'[r] = past[r]
                          /\ request[r] \in Request
  BY DEF Tick, AnalystInvariant, TypeOK
<1>7. ASSUME NEW r \in Requests
      PROVE Recalls(request[r])' /\ HasMet(request[r], past[r])'
  <2>. PICK q : q = request[r]
    OBVIOUS
  <2>1. q \in Request /\ Recalls(q) /\ HasMet(q, past[r])
    BY <1>6 DEF AnalystInvariant
  <2>2. Recalls(q)' /\ HasMet(q, past'[r])
    BY <1>5, <1>6, <2>1
  <2>. QED
    BY <1>6, <2>2 DEF Recalls, HasMet
<1>. QED
  BY <1>3, <1>4, <1>7 DEF AnalystInvariant

\* What requests have read of the tables stays true of them, in any interleaving of any
\* number of collections, decisions and refreshes, also when some of them stop half-way.
THEOREM AnalystIsInvariant == AnalystAssumptions => (Spec => []AnalystInvariant)
<1>. SUFFICES ASSUME AnalystAssumptions
              PROVE Spec => []AnalystInvariant
  OBVIOUS
<1>1. Init => AnalystInvariant
  <2>. SUFFICES ASSUME Init
                PROVE AnalystInvariant
    OBVIOUS
  <2>1. decisions \in Seq(Decision) /\ learnings \in Seq(Learning) /\ DOMAIN learnings = {}
    BY EmptySeq DEF Init
  <2>2. clock \in Times
    BY DEF Init, Times, AnalystAssumptions, AnalystNumbersAssumption
  <2>3. /\ \A s \in Snapshots : collected[s] = None /\ analysis[s] = None
        /\ collected \in [Snapshots -> {None}] /\ analysis \in [Snapshots -> {None}]
    BY DEF Init
  <2>4. /\ request = [r \in Requests |-> Idle] /\ past \in [Requests -> SUBSET Snapshots]
    BY DEF Init
  <2>5. TypeOK
    BY <2>1, <2>2, <2>3, <2>4, IdleRecalls DEF TypeOK
  <2>6. RowsAreGrounded
    BY <2>1, <2>3 DEF RowsAreGrounded
  <2>. QED
    BY <2>4, <2>5, <2>6, IdleRecalls DEF AnalystInvariant
<1>2. AnalystInvariant /\ [Next]_vars => AnalystInvariant'
  <2>. SUFFICES ASSUME AnalystInvariant, [Next]_vars
                PROVE AnalystInvariant'
    OBVIOUS
  <2>1. CASE UNCHANGED vars
    BY <2>1 DEF vars, AnalystInvariant, TypeOK, RowsAreGrounded, Recalls, HasMet, Precedes
  <2>2. CASE Tick
    BY <2>2, TimeKeepsInvariant
  <2>3. ASSUME NEW r \in Requests, Step(r), Remember
        PROVE AnalystInvariant'
    BY <2>3, CollectingKeepsInvariant, DecidingKeepsInvariant, LearningKeepsInvariant,
       ShowingKeepsInvariant
    DEF Step
  <2>. QED
    BY <2>1, <2>2, <2>3 DEF Next
<1>. QED
  BY <1>1, <1>2, PTL DEF Spec

\* A collection answers the analysis that is kept of its snapshot, whoever saved it first.
THEOREM AnswersStayKept == AnalystAssumptions => (Spec => []AnswersAreKept)
<1>. SUFFICES ASSUME AnalystAssumptions
              PROVE Spec => []AnswersAreKept
  OBVIOUS
<1>1. AnalystInvariant => AnswersAreKept
  BY DEF AnalystInvariant, Recalls, AnswersAreKept
<1>2. Spec => []AnalystInvariant
  BY AnalystIsInvariant
<1>. QED
  BY <1>1, <1>2, PTL

\* No chain of comparisons leads back to where it began, in analyses and in learnings, even
\* of requests that read the snapshots they compare long before they save.
THEOREM ComparisonsStayBackwards == AnalystAssumptions => (Spec => []ComparisonsGoBack)
<1>. SUFFICES ASSUME AnalystAssumptions
              PROVE Spec => []ComparisonsGoBack
  OBVIOUS
<1>1. AnalystInvariant => ComparisonsGoBack
  BY DEF AnalystInvariant, RowsAreGrounded, Precedes, ComparisonsGoBack, Analyses
<1>2. Spec => []AnalystInvariant
  BY AnalystIsInvariant
<1>. QED
  BY <1>1, <1>2, PTL

\* Who writes what: only a collection writes snapshots and analyses, and each of its steps
\* keeps the row that is there.
LEMMA StepsKeepEvidence ==
  ASSUME AnalystAssumptions, AnalystInvariant, Next
  PROVE EvidenceIsKept
<1>1. /\ collected \in [Snapshots -> Times \cup {None}]
      /\ analysis \in [Snapshots -> Analysis \cup {None}]
  BY DEF AnalystInvariant, TypeOK
<1>2. CASE UNCHANGED <<collected, analysis>>
  BY <1>2 DEF EvidenceIsKept
<1>3. ASSUME NEW r \in Requests, SaveSnapshot(r)
      PROVE EvidenceIsKept
  BY <1>1, <1>3 DEF SaveSnapshot, EvidenceIsKept
<1>4. ASSUME NEW r \in Requests, SaveAnalysis(r)
      PROVE EvidenceIsKept
  BY <1>1, <1>4 DEF SaveAnalysis, EvidenceIsKept
<1>. QED
  BY <1>2, <1>3, <1>4
  DEF Next, Step, Tick, rows, Collect, ReadPrevious, Decide, ReadDecision, RecordDecision,
      Refresh, LookSnapshot, LookAnalysis, ReadLearning, DeriveLearning, RecordLearning,
      Summarize, Over

\* Snapshots and analyses stay as they were first saved, however often and by however many
\* requests the same ones are collected.
THEOREM RowsAreKept == AnalystAssumptions => (Spec => [][EvidenceIsKept]_vars)
<1>. SUFFICES ASSUME AnalystAssumptions
              PROVE Spec => [][EvidenceIsKept]_vars
  OBVIOUS
<1>1. AnalystInvariant /\ Next => EvidenceIsKept
  BY StepsKeepEvidence
<1>2. Spec => []AnalystInvariant
  BY AnalystIsInvariant
<1>. QED
  BY <1>1, <1>2, PTL DEF Spec

\* A decision is recorded of a recommendation that was the latest at some moment of the
\* request, needs a decision, and is no younger than the decision.
THEOREM DecisionsAreGrounded ==
  AnalystAssumptions => (Spec => [][DecisionsAreOfARecommendation]_vars)
<1>. SUFFICES ASSUME AnalystAssumptions
              PROVE Spec => [][DecisionsAreOfARecommendation]_vars
  OBVIOUS
<1>1. ASSUME AnalystInvariant, Next
      PROVE DecisionsAreOfARecommendation
  <2>1. CASE UNCHANGED decisions
    BY <2>1 DEF DecisionsAreOfARecommendation
  <2>2. ASSUME NEW r \in Requests, RecordDecision(r)
        PROVE DecisionsAreOfARecommendation
    <3> DEFINE p == request[r]
               target == IF p.decision = "reject" THEN None
                         ELSE HandoffTarget(analysis[p.snapshot].verdict.action)
               e == [of |-> p.snapshot, decision |-> p.decision, at |-> p.stamp,
                     handoff |-> target]
    <3>1. /\ p.kind = "decide" /\ p.snapshot \in Snapshots /\ p.stamp \in Times
          /\ analysis[p.snapshot] # None /\ analysis[p.snapshot].verdict.approval
          /\ analysis[p.snapshot].at <= p.stamp /\ p.snapshot \in past[r]
      BY <1>1, <2>2, RequestFacts DEF RecordDecision, Recalls, HasMet
    <3>2. p.stamp \in Int /\ analysis[p.snapshot].at \in Int
      BY <1>1, <3>1, RequestFacts, RowTypes DEF Times
    <3>3. decisions' = Append(decisions, e) /\ e.of = p.snapshot /\ e.at = p.stamp
      BY <2>2 DEF RecordDecision
    <3>. HIDE DEF e
    <3>4. \A i \in DOMAIN decisions' \ DOMAIN decisions : decisions'[i] = e
      BY <1>1, <3>3, RequestFacts, AppendProperties DEF TablesOK
    <3>. QED
      BY <3>1, <3>2, <3>3, <3>4 DEF DecisionsAreOfARecommendation
  <2>. QED
    BY <1>1, <2>1, <2>2
    DEF Next, Step, Tick, rows, Collect, SaveSnapshot, ReadPrevious, SaveAnalysis, Decide,
        ReadDecision, Refresh, LookSnapshot, LookAnalysis, ReadLearning, DeriveLearning,
        RecordLearning, Summarize, Over
<1>2. Spec => []AnalystInvariant
  BY AnalystIsInvariant
<1>. QED
  BY <1>1, <1>2, PTL DEF Spec
-----------------------------------------------------------------------------
(* The rules: services that judge the same pair of snapshots agree, for    *)
(* every pair and not only for the values TLC chooses.                     *)

CONSTANTS
  Spends,    \* the spendings among the snapshots
  Earlier    \* the snapshots they are compared with

VARIABLES
  current,   \* the pair that is judged, and how
  previous,
  constraints

Pairs == INSTANCE AnalystPairs

PairAssumptions == Pairs!ReadingsAssumption

Constraint == [minimum : Nat, target : Nat \cup {None}]

LEMMA ProductGrows == \A a, b, y \in Nat : a <= b => a * y <= b * y
  OBVIOUS

LEMMA ProductIsPositive == \A a, b \in Nat : a > 0 /\ b > 0 => a * b > 0
  OBVIOUS

LEMMA ProductIsNatural == \A a, b \in Nat : a * b \in Nat
  OBVIOUS

\* A fraction of naturals.
LEMMA CostIsFraction ==
  ASSUME PairAssumptions, NEW s \in Pairs!Reading
  PROVE LET x == Pairs!CostPerResult(s)
        IN /\ x = None \/ (x # None /\ x[1] \in Nat /\ x[2] \in Nat)
           /\ Pairs!Measured(s) => /\ x # None <=> s.results > 0
                                   /\ s.results > 0 => x = <<s.spend, s.results>>
<1>1. s.spend \in Nat /\ s.results \in Nat /\ s.cost \in {None} \cup (Nat \X (Nat \ {0}))
  BY DEF Pairs!Reading
<1>2. <<s.spend, s.results>> # None
  BY <1>1 DEF PairAssumptions, Pairs!ReadingsAssumption
<1>. QED
  BY <1>1, <1>2 DEF Pairs!CostPerResult, Pairs!Measured

\* What a greater spending does to the comparisons.
LEMMA SpendingMore ==
  ASSUME PairAssumptions, NEW s \in Pairs!Reading, NEW p \in Pairs!Reading,
         NEW n \in Nat, n >= s.spend, Pairs!Measured(s),
         NEW more, more = [s EXCEPT !.spend = n]
  PROVE /\ \A c : Pairs!DataMaturity(more, c) = Pairs!DataMaturity(s, c)
        /\ more.results = s.results /\ more.status = s.status
        /\ Pairs!Comparable(more, p) <=> Pairs!Comparable(s, p)
        /\ Pairs!Comparable(s, p) =>
             /\ \A k \in Nat : Pairs!AtLeast(s, p, k) => Pairs!AtLeast(more, p, k)
             /\ \A k \in Nat : Pairs!AtMost(more, p, k) => Pairs!AtMost(s, p, k)
<1>1. /\ more \in Pairs!Reading /\ Pairs!Measured(more) /\ more.spend = n
      /\ more.results = s.results /\ more.status = s.status /\ more.age = s.age
      /\ more.impressions = s.impressions /\ more.sinceChange = s.sinceChange
  BY DEF Pairs!Reading, Pairs!Measured
<1>2. \A c : Pairs!DataMaturity(more, c) = Pairs!DataMaturity(s, c)
  BY <1>1 DEF Pairs!DataMaturity, Pairs!Unobserved
<1>3. Pairs!Comparable(more, p) <=> Pairs!Comparable(s, p)
  BY <1>1, CostIsFraction DEF Pairs!Comparable
<1>4. ASSUME Pairs!Comparable(s, p), NEW k \in Nat
      PROVE /\ Pairs!AtLeast(s, p, k) => Pairs!AtLeast(more, p, k)
            /\ Pairs!AtMost(more, p, k) => Pairs!AtMost(s, p, k)
  <2> DEFINE y == Pairs!CostPerResult(p)
  <2>1. s.results > 0 /\ s.results \in Nat /\ s.spend \in Nat /\ y[1] \in Nat /\ y[2] \in Nat
    BY <1>4, CostIsFraction DEF Pairs!Comparable, Pairs!Reading
  <2>2. /\ Pairs!CostPerResult(s) = <<s.spend, s.results>>
        /\ Pairs!CostPerResult(more) = <<n, s.results>>
    BY <1>1, <2>1, CostIsFraction
  <2>3. /\ Pairs!Scaled(s, p) = 100 * s.spend * y[2] /\ Pairs!Scaled(more, p) = 100 * n * y[2]
        /\ Pairs!Share(s, p, k) = k * y[1] * s.results
        /\ Pairs!Share(more, p, k) = k * y[1] * s.results
    BY <2>2 DEF Pairs!Scaled, Pairs!Share
  <2>. HIDE DEF y
  <2>4. /\ 100 * s.spend * y[2] <= 100 * n * y[2]
        /\ 100 * s.spend * y[2] \in Nat /\ 100 * n * y[2] \in Nat
        /\ k * y[1] * s.results \in Nat
    <3>1. 100 * s.spend \in Nat /\ 100 * n \in Nat /\ 100 * s.spend <= 100 * n
          /\ k * y[1] \in Nat
      BY <2>1, ProductIsNatural
    <3>. QED
      BY <2>1, <3>1, ProductGrows, ProductIsNatural
  <2>. QED
    BY <2>3, <2>4 DEF Pairs!AtLeast, Pairs!AtMost
<1>. QED
  BY <1>1, <1>2, <1>3, <1>4

\* Of two analyses the one that spent more is not judged healthier.
LEMMA SeverityGrows ==
  ASSUME PairAssumptions, NEW s \in Pairs!Reading, NEW p \in Pairs!Reading \cup {None},
         NEW c \in Constraint, NEW n \in Nat, n >= s.spend, Pairs!Measured(s)
  PROVE Pairs!Severity(Pairs!BuildAnalysis(s, p, c))
          <= Pairs!Severity(Pairs!BuildAnalysis([s EXCEPT !.spend = n], p, c))
<1>. PICK more : more = [s EXCEPT !.spend = n]
  OBVIOUS
<1> DEFINE now  == Pairs!BuildAnalysis(s, p, c)
           then == Pairs!BuildAnalysis(more, p, c)
<1>1. \A h, a : Pairs!Verdict(h, a).health = h
  BY DEF Pairs!Verdict
<1>2. \A v : /\ v.health = "HEALTHY" => Pairs!Severity(v) = 0
             /\ v.health \in {"OBSERVATION", "INSUFFICIENT_DATA"} => Pairs!Severity(v) = 1
             /\ v.health = "ATTENTION" => Pairs!Severity(v) = 2
             /\ v.health = "INTERVENTION_RECOMMENDED" => Pairs!Severity(v) = 3
             /\ v.health = "OPERATIONAL_PROBLEM" => Pairs!Severity(v) = 4
  BY DEF Pairs!Severity
<1>3. /\ more.status = s.status /\ Pairs!DataMaturity(more, c) = Pairs!DataMaturity(s, c)
  BY DEF Pairs!Reading, Pairs!DataMaturity, Pairs!Unobserved
<1>4. CASE \/ s.status \in Pairs!ProblemStatuses \/ p = None
           \/ Pairs!DataMaturity(s, c) = "insufficient"
  <2>1. now.health = then.health
    BY <1>1, <1>3, <1>4 DEF Pairs!BuildAnalysis
  <2>2. now.health \in {"OPERATIONAL_PROBLEM", "INSUFFICIENT_DATA", "OBSERVATION"}
    BY <1>1, <1>4 DEF Pairs!BuildAnalysis
  <2>. HIDE DEF now, then
  <2>3. Pairs!Severity(now) <= Pairs!Severity(then)
    BY <1>2, <2>1, <2>2
  <2>. QED
    BY <2>3 DEF now, then
<1>5. CASE ~(\/ s.status \in Pairs!ProblemStatuses \/ p = None
             \/ Pairs!DataMaturity(s, c) = "insufficient")
  <2>1. now = Pairs!Compared(s, p, c) /\ then = Pairs!Compared(more, p, c)
    BY <1>3, <1>5 DEF Pairs!BuildAnalysis
  <2>2. p \in Pairs!Reading
    BY <1>5
  <2>3. /\ more.results = s.results
        /\ Pairs!Comparable(more, p) <=> Pairs!Comparable(s, p)
        /\ Pairs!Comparable(s, p) =>
             /\ \A k \in Nat : Pairs!AtLeast(s, p, k) => Pairs!AtLeast(more, p, k)
             /\ \A k \in Nat : Pairs!AtMost(more, p, k) => Pairs!AtMost(s, p, k)
    BY <2>2, SpendingMore
  <2>4. Pairs!SpentForNothing(s, p, c) => Pairs!SpentForNothing(more, p, c)
    <3> DEFINE y == Pairs!CostPerResult(p)
    <3>1. y = None \/ (y # None /\ y[1] \in Nat /\ y[2] \in Nat)
      BY <2>2, CostIsFraction
    <3>. HIDE DEF y
    <3>2. s.spend \in Nat /\ more.spend = n
      BY DEF Pairs!Reading
    <3>3. y # None => s.spend * y[2] <= n * y[2] /\ s.spend * y[2] \in Nat
                      /\ n * y[2] \in Nat /\ 2 * y[1] \in Nat
      BY <3>1, <3>2, ProductGrows, ProductIsNatural
    <3>4. c.target \in Nat \cup {None}
      BY DEF Constraint
    <3>. QED
      BY <2>3, <3>2, <3>3, <3>4 DEF Pairs!SpentForNothing, y
  <2> DEFINE mature == Pairs!DataMaturity(s, c) = "mature"
             comparable == Pairs!Comparable(s, p)
             nothing(x) == Pairs!SpentForNothing(x, p, c)
             worsened(x) == Pairs!Worsened(x, p)
             costs(x, k) == Pairs!AtLeast(x, p, k)
             healthy(x) == s.results >= p.results /\ Pairs!AtMost(x, p, 110)
             health(x) == IF mature /\ nothing(x) THEN "INTERVENTION_RECOMMENDED"
                          ELSE IF ~comparable THEN "OBSERVATION"
                          ELSE IF mature /\ worsened(x) THEN "INTERVENTION_RECOMMENDED"
                          ELSE IF costs(x, 115) THEN "ATTENTION"
                          ELSE IF healthy(x) THEN "HEALTHY" ELSE "OBSERVATION"
  <2>5. ASSUME NEW x, x.results = s.results,
               Pairs!DataMaturity(x, c) = Pairs!DataMaturity(s, c),
               Pairs!Comparable(x, p) <=> comparable
        PROVE Pairs!Compared(x, p, c).health = health(x)
    BY <2>5 DEF Pairs!Compared, Pairs!Verdict
  <2>. HIDE DEF health
  <2>6. Pairs!Compared(s, p, c).health = health(s)
    BY <2>5
  <2>7. Pairs!Compared(more, p, c).health = health(more)
    BY <1>3, <2>3, <2>5
  <2>8. /\ comparable /\ worsened(s) => worsened(more)
        /\ comparable /\ costs(s, 115) => costs(more, 115)
        /\ comparable /\ healthy(more) => healthy(s)
    BY <2>3 DEF Pairs!Worsened
  <2>. HIDE DEF mature, comparable, nothing, worsened, costs, healthy, now, then
  <2>9. Pairs!Severity(now) <= Pairs!Severity(then)
    BY <1>2, <2>1, <2>4, <2>6, <2>7, <2>8 DEF nothing, health
  <2>. QED
    BY <2>9 DEF now, then
<1>. QED
  BY <1>4, <1>5

\* What the two services make of the same pair.
LEMMA LearningAgrees ==
  ASSUME PairAssumptions, NEW s \in Pairs!Reading, NEW p \in Pairs!Reading,
         NEW c \in Constraint, Pairs!Measured(s)
  PROVE /\ Pairs!Derive(s, p) = "improved" =>
             Pairs!BuildAnalysis(s, p, c).health
               \notin {"ATTENTION", "INTERVENTION_RECOMMENDED"}
        /\ Pairs!Derive(s, p) \in {"worsened", "lost"} =>
             Pairs!BuildAnalysis(s, p, c).health # "HEALTHY"
<1>1. \A h, a : Pairs!Verdict(h, a).health = h
  BY DEF Pairs!Verdict
<1>2. Pairs!Comparable(s, p) =>
        /\ s.results > 0 /\ s.results \in Nat
        /\ Pairs!AtMost(s, p, 90) => ~Pairs!AtLeast(s, p, 115) /\ ~Pairs!AtLeast(s, p, 135)
        /\ Pairs!AtLeast(s, p, 120) => Pairs!AtLeast(s, p, 115)
  <2>. SUFFICES ASSUME Pairs!Comparable(s, p)
                PROVE /\ s.results > 0 /\ s.results \in Nat
                      /\ Pairs!AtMost(s, p, 90) =>
                           ~Pairs!AtLeast(s, p, 115) /\ ~Pairs!AtLeast(s, p, 135)
                      /\ Pairs!AtLeast(s, p, 120) => Pairs!AtLeast(s, p, 115)
    OBVIOUS
  <2> DEFINE y == Pairs!CostPerResult(p)
  <2>1. /\ s.results > 0 /\ s.results \in Nat /\ s.spend \in Nat
        /\ y[1] \in Nat /\ y[2] \in Nat /\ y[1] > 0
        /\ Pairs!CostPerResult(s) = <<s.spend, s.results>>
    BY CostIsFraction DEF Pairs!Comparable, Pairs!Reading
  <2>2. /\ Pairs!Scaled(s, p) = 100 * s.spend * y[2]
        /\ \A k : Pairs!Share(s, p, k) = k * y[1] * s.results
    BY <2>1 DEF Pairs!Scaled, Pairs!Share
  <2>. HIDE DEF y
  <2>3. PICK a \in Nat : a = y[1] * s.results /\ a > 0
    BY <2>1, ProductIsNatural, ProductIsPositive
  <2>4. \A k \in Nat : k * y[1] * s.results = k * a
    BY <2>1, <2>3
  <2>5. 100 * s.spend * y[2] \in Nat
    BY <2>1, ProductIsNatural
  <2>. QED
    BY <2>1, <2>2, <2>3, <2>4, <2>5 DEF Pairs!AtLeast, Pairs!AtMost
<1>3. Pairs!SpentForNothing(s, p, c) => s.results = 0
  BY DEF Pairs!SpentForNothing
<1>4. s.results = 0 => ~Pairs!Comparable(s, p)
  BY <1>2
<1>5. /\ Pairs!Derive(s, p) = "improved" => Pairs!Comparable(s, p) /\ Pairs!AtMost(s, p, 90)
      /\ Pairs!Derive(s, p) = "worsened" => Pairs!Comparable(s, p) /\ Pairs!AtLeast(s, p, 120)
      /\ Pairs!Derive(s, p) = "lost" => s.results = 0
  <2>1. None \notin {"improved", "worsened", "lost"}
    BY DEF PairAssumptions, Pairs!ReadingsAssumption
  <2>2. Pairs!LostResults(s, p) => s.results = 0
    BY DEF Pairs!LostResults
  <2>. QED
    BY <2>1, <2>2 DEF Pairs!Derive
<1>6. CASE \/ s.status \in Pairs!ProblemStatuses
           \/ Pairs!DataMaturity(s, c) = "insufficient"
  BY <1>1, <1>6 DEF Pairs!BuildAnalysis
<1>7. CASE ~(\/ s.status \in Pairs!ProblemStatuses
             \/ Pairs!DataMaturity(s, c) = "insufficient")
  <2>1. Pairs!BuildAnalysis(s, p, c) = Pairs!Compared(s, p, c)
    BY <1>7 DEF Pairs!BuildAnalysis, PairAssumptions, Pairs!ReadingsAssumption
  <2>. QED
    BY <1>2, <1>3, <1>4, <1>5, <2>1 DEF Pairs!Compared, Pairs!Verdict, Pairs!Worsened
<1>. QED
  BY <1>6, <1>7

LEMMA BothAsk ==
  ASSUME NEW s, NEW p, NEW c
  PROVE LET v == Pairs!BuildAnalysis(s, p, c)
        IN /\ Pairs!Present(s, v).asks = Pairs!EssentialAlert(s, v).asks
           /\ Pairs!Present(s, v).asks => s.status \notin Pairs!PausedStatuses
<1> DEFINE v == Pairs!BuildAnalysis(s, p, c)
<1>1. /\ v.approval \in BOOLEAN
      /\ v.approval <=> v.health \in {"OPERATIONAL_PROBLEM", "INTERVENTION_RECOMMENDED"}
  BY DEF Pairs!BuildAnalysis, Pairs!Compared, Pairs!Verdict
<1>. HIDE DEF v
<1>2. /\ Pairs!OperationalState(s, v) = "PAUSED" <=> s.status \in Pairs!PausedStatuses
  BY DEF Pairs!OperationalState
<1>3. Pairs!Present(s, v).asks = (Pairs!OperationalState(s, v) # "PAUSED" /\ v.approval)
  BY DEF Pairs!Present
<1>4. Pairs!EssentialAlert(s, v).asks =
        (/\ Pairs!OperationalState(s, v) # "PAUSED"
         /\ v.health \in {"OPERATIONAL_PROBLEM", "INTERVENTION_RECOMMENDED"})
  BY DEF Pairs!EssentialAlert
<1>. QED
  BY <1>1, <1>2, <1>3, <1>4 DEF v

\* After the waiting time nothing is left that only time can cure.
LEMMA ReviewComesLate ==
  ASSUME PairAssumptions, NEW s \in Pairs!Reading, NEW c \in Constraint, s.impressions >= 500
  PROVE LET wait == Pairs!RemainingObservationHours(s, c)
            then == [s EXCEPT !.age = @ + wait,
                              !.sinceChange = IF @ = None THEN None ELSE @ + wait]
        IN ~Pairs!Unobserved(then, c)
<1> DEFINE wait == Pairs!RemainingObservationHours(s, c)
           then == [s EXCEPT !.age = @ + wait,
                             !.sinceChange = IF @ = None THEN None ELSE @ + wait]
<1>1. /\ s.age \in Nat /\ s.impressions \in Nat /\ c.minimum \in Nat
      /\ s.sinceChange = None \/ (s.sinceChange # None /\ s.sinceChange \in Nat)
  BY DEF Pairs!Reading, Constraint, PairAssumptions, Pairs!ReadingsAssumption
<1>2. ASSUME NEW y \in Int
      PROVE LET m == Pairs!Max({1, y, 3}) IN m \in Int /\ m >= y
  BY DEF Pairs!Max
<1>3. ASSUME NEW y \in Int, NEW u \in Int
      PROVE LET m == Pairs!Max({1, y, 3, u}) IN m \in Int /\ m >= y /\ m >= u
  BY DEF Pairs!Max
<1>4. /\ wait \in Int /\ s.age + wait >= c.minimum
      /\ s.sinceChange # None => s.sinceChange + wait >= c.minimum
  <2>1. CASE s.sinceChange = None
    <3>1. wait = Pairs!Max({1, c.minimum - s.age, 3})
      BY <2>1 DEF Pairs!RemainingObservationHours
    <3>. HIDE DEF wait
    <3>2. wait \in Int /\ wait >= c.minimum - s.age
      <4>1. c.minimum - s.age \in Int
        BY <1>1
      <4>. QED
        BY <1>2, <3>1, <4>1
    <3>. QED
      BY <1>1, <2>1, <3>2
  <2>2. CASE s.sinceChange # None
    <3>1. wait = Pairs!Max({1, c.minimum - s.age, 3, c.minimum - s.sinceChange})
      <4>1. {1, c.minimum - s.age, 3} \cup {c.minimum - s.sinceChange}
              = {1, c.minimum - s.age, 3, c.minimum - s.sinceChange}
        OBVIOUS
      <4>. QED
        BY <2>2, <4>1 DEF Pairs!RemainingObservationHours
    <3>. HIDE DEF wait
    <3>2. wait \in Int /\ wait >= c.minimum - s.age /\ wait >= c.minimum - s.sinceChange
      <4>1. PICK y \in Int, u \in Int : y = c.minimum - s.age /\ u = c.minimum - s.sinceChange
        BY <1>1, <2>2
      <4>2. wait = Pairs!Max({1, y, 3, u})
        BY <3>1, <4>1
      <4>3. wait \in Int /\ wait >= y /\ wait >= u
        BY <1>3, <4>2
      <4>. QED
        BY <4>1, <4>3
    <3>. QED
      BY <1>1, <2>2, <3>2
  <2>. QED
    BY <2>1, <2>2
<1>. HIDE DEF wait
<1>5. /\ then.age = s.age + wait /\ then.impressions = s.impressions
      /\ then.sinceChange = IF s.sinceChange = None THEN None ELSE s.sinceChange + wait
  BY DEF Pairs!Reading
<1>. HIDE DEF then
<1>6. ~Pairs!Unobserved(then, c)
  BY <1>1, <1>4, <1>5 DEF Pairs!Unobserved
<1>. QED
  BY <1>6 DEF then, wait

PairInvariant ==
  /\ current \in Pairs!Reading /\ constraints \in Constraint
  /\ previous \in Pairs!Reading \cup {None}

\* The services that judge the same pair of snapshots do not contradict each other, for
\* every pair and every constraint: a greater spending is never healthier, what is learned
\* agrees with the analysis, the brief and the alert ask in the same cases, and the next
\* review is late enough.
THEOREM RulesAgree ==
  PairAssumptions =>
    (Pairs!Spec => [](/\ Pairs!SpendingMoreIsNotHealthier /\ Pairs!LearningAgreesWithAnalysis
                      /\ Pairs!BriefAndAlertAsk /\ Pairs!ReviewIsLateEnough))
<1> DEFINE Agree == /\ Pairs!SpendingMoreIsNotHealthier /\ Pairs!LearningAgreesWithAnalysis
                    /\ Pairs!BriefAndAlertAsk /\ Pairs!ReviewIsLateEnough
<1>. SUFFICES ASSUME PairAssumptions
              PROVE Pairs!Spec => []Agree
  OBVIOUS
<1>1. Pairs!Init => PairInvariant
  BY DEF PairInvariant, Pairs!Init, PairAssumptions, Pairs!ReadingsAssumption, Constraint
<1>2. PairInvariant /\ [Pairs!Next]_Pairs!vars => PairInvariant'
  BY DEF PairInvariant, Pairs!Next, Pairs!vars, PairAssumptions, Pairs!ReadingsAssumption
<1>3. ASSUME PairInvariant
      PROVE Agree
  <2>. PICK s \in Pairs!Reading, p \in Pairs!Reading \cup {None}, c \in Constraint :
         s = current /\ p = previous /\ c = constraints
    BY <1>3 DEF PairInvariant
  <2>1. Pairs!SpendingMoreIsNotHealthier
    <3>1. Spends \subseteq Nat
      BY DEF PairAssumptions, Pairs!ReadingsAssumption
    <3>. QED
      BY <3>1, SeverityGrows DEF Pairs!SpendingMoreIsNotHealthier, Pairs!Now
  <2>2. Pairs!LearningAgreesWithAnalysis
    BY LearningAgrees DEF Pairs!LearningAgreesWithAnalysis, Pairs!Now
  <2>3. Pairs!BriefAndAlertAsk
    BY BothAsk DEF Pairs!BriefAndAlertAsk, Pairs!Now
  <2>4. Pairs!ReviewIsLateEnough
    BY ReviewComesLate DEF Pairs!ReviewIsLateEnough
  <2>. QED
    BY <2>1, <2>2, <2>3, <2>4
<1>. QED
  BY <1>1, <1>2, <1>3, PTL DEF Pairs!Spec

-----------------------------------------------------------------------------
(* Induction, from the least element of a set of naturals.                 *)

\* A set of naturals has a least element: what an induction is made of here.
LEMMA LeastNatural ==
  ASSUME NEW T \in SUBSET Nat, T # {}
  PROVE \E n \in T : \A m \in T : n <= m
<1> DEFINE R == OpToRel(<, Nat)
<1>1. R = {ss \in Nat \X Nat : ss[1] < ss[2]}
  BY Zenon DEF OpToRel
<1>2. IsWellFoundedOn(R, Nat)
  BY NatLessThanWellFounded, Zenon
<1>. HIDE DEF R
<1>3. PICK n \in T : \A m \in T : ~(<<m, n>> \in R)
  BY <1>2, WFMin
<1>4. \A m \in T : ~(m < n)
  BY <1>1, <1>3
<1>. QED
  BY <1>4

\* S has every natural when it has the first one and the next one of each.
LEMMA Induction ==
  ASSUME NEW S, 0 \in S, \A n \in Nat : n \in S => n + 1 \in S
  PROVE Nat \subseteq S
<1> DEFINE T == Nat \ S
<1>. SUFFICES ASSUME T # {}
              PROVE FALSE
  OBVIOUS
<1>1. PICK n \in T : \A i \in T : n <= i
  <2>1. T \in SUBSET Nat
    OBVIOUS
  <2>. HIDE DEF T
  <2>. QED
    BY <2>1, LeastNatural
<1>2. n \in Nat /\ n \notin S /\ n # 0
  OBVIOUS
<1>3. n - 1 \in Nat /\ (n - 1) + 1 = n /\ n - 1 < n
  BY <1>2
<1>4. n - 1 \in S
  BY <1>1, <1>3
<1>. QED
  BY <1>2, <1>3, <1>4

\* The first n + 1 values of a sequence that begins with x and goes on with step.
IsBegun(g, n, X, x, step) ==
  /\ g \in [0..n -> X] /\ g[0] = x
  /\ \A i \in 0..n : i # n => g[i + 1] = step[i][g[i]]

\* There is a sequence in X that begins with x and goes on with step.
IsRecursive(X, x, step) ==
  \E f \in [Nat -> X] : f[0] = x /\ \A n \in Nat : f[n + 1] = step[n][f[n]]

\* What is defined by recursion exists.
LEMMA RecursionIsDefined ==
  ASSUME NEW X, NEW x \in X, NEW step \in [Nat -> [X -> X]]
  PROVE IsRecursive(X, x, step)
<1> DEFINE Begins(g, n) == IsBegun(g, n, X, x, step)
           S == {n \in Nat : \E g : Begins(g, n)}
<1>1. \A n \in Nat : \E g : Begins(g, n)
  <2>1. 0 \in S
    <3>1. Begins([i \in 0..0 |-> x], 0)
      BY DEF IsBegun
    <3>. QED
      BY <3>1
  <2>2. ASSUME NEW n \in Nat, n \in S
        PROVE n + 1 \in S
    <3>1. PICK g : Begins(g, n)
      BY <2>2
    <3> DEFINE h == [i \in 0..(n + 1) |-> IF i = n + 1 THEN step[n][g[n]] ELSE g[i]]
    <3>2. g \in [0..n -> X] /\ g[0] = x /\ \A i \in 0..n : i # n => g[i + 1] = step[i][g[i]]
      BY <3>1 DEF IsBegun
    <3>3. h \in [0..(n + 1) -> X] /\ h[0] = x
      BY <3>2
    <3>4. ASSUME NEW i \in 0..(n + 1), i # n + 1
          PROVE h[i + 1] = step[i][h[i]]
      BY <3>2, <3>4
    <3>5. Begins(h, n + 1)
      BY <3>3, <3>4 DEF IsBegun
    <3>. QED
      BY <3>5
  <2>. QED
    <3>. HIDE DEF S
    <3>1. Nat \subseteq S
      BY <2>1, <2>2, Induction
    <3>. QED
      BY <3>1 DEF S
<1>2. ASSUME NEW m \in Nat, NEW n \in Nat, m <= n, NEW g, Begins(g, m), NEW h, Begins(h, n)
      PROVE g[m] = h[m]
  <2> DEFINE A == {i \in Nat : i <= m => g[i] = h[i]}
  <2>1. 0 \in A
    BY <1>2 DEF IsBegun
  <2>2. ASSUME NEW i \in Nat, i \in A
        PROVE i + 1 \in A
    <3>. SUFFICES ASSUME i + 1 <= m
                  PROVE g[i + 1] = h[i + 1]
      OBVIOUS
    <3>1. g[i] = h[i] /\ i \in 0..m /\ i # m /\ i \in 0..n /\ i # n
      BY <1>2, <2>2
    <3>. QED
      BY <1>2, <3>1 DEF IsBegun
  <2>3. m \in A
    <3>. HIDE DEF A
    <3>. QED
      BY <2>1, <2>2, Induction
  <2>. QED
    BY <2>3
<1> DEFINE begun(n) == CHOOSE g : Begins(g, n)
           f == [n \in Nat |-> begun(n)[n]]
<1>3. \A n \in Nat : Begins(begun(n), n)
  BY <1>1
<1>. HIDE DEF begun
<1>4. f \in [Nat -> X] /\ f[0] = x
  BY <1>3 DEF IsBegun
<1>5. ASSUME NEW n \in Nat
      PROVE f[n + 1] = step[n][f[n]]
  <2>1. begun(n + 1)[n + 1] = step[n][begun(n + 1)[n]]
    BY <1>3 DEF IsBegun
  <2>2. begun(n)[n] = begun(n + 1)[n]
    BY <1>2, <1>3
  <2>. QED
    BY <2>1, <2>2
<1>. QED
  BY <1>4, <1>5 DEF IsRecursive

-----------------------------------------------------------------------------
(* The job of every six hours.                                             *)

CONSTANTS
  Items, NoIds, MaxItems   \* those of AnalystCollector

VARIABLES
  jobPc, targets, totals, results

Job == INSTANCE AnalystCollector WITH pc <- jobPc

JobAssumptions == Job!ItemsAssumption /\ Job!MaxItemsAssumption

IsUnique(s) == \A i, j \in 1..Len(s) : s[i] = s[j] => i = j

\* Each campaign of the portfolio is a target once.
LEMMA TargetsAreUnique ==
  ASSUME NEW portfolio \in Seq(Items)
  PROVE /\ Job!UniqueTargets(portfolio) \in Seq(Job!Campaigns)
        /\ IsUnique(Job!UniqueTargets(portfolio))
<1> DEFINE X == {s \in Seq(Job!Campaigns) : IsUnique(s)}
           next(s, i) == IF i = NoIds \/ i \in Job!Range(s) THEN s ELSE Append(s, i)
           step == [n \in Nat |->
                      [s \in X |-> IF n < Len(portfolio) THEN next(s, portfolio[n + 1]) ELSE s]]
           body(k) == [n \in 0..Len(portfolio) |->
                         IF n = 0 THEN <<>>
                         ELSE IF portfolio[n] = NoIds \/ portfolio[n] \in Job!Range(k[n - 1])
                         THEN k[n - 1]
                         ELSE Append(k[n - 1], portfolio[n])]
<1>1. <<>> \in X
  BY EmptySeq DEF IsUnique
<1>2. ASSUME NEW s \in X, NEW i \in Items
      PROVE next(s, i) \in X
  <2>1. CASE i = NoIds \/ i \in Job!Range(s)
    BY <2>1
  <2>2. CASE ~(i = NoIds \/ i \in Job!Range(s))
    <3>1. s \in Seq(Job!Campaigns) /\ IsUnique(s) /\ i \in Job!Campaigns
      BY <2>2 DEF Job!Campaigns
    <3>2. \A n \in 1..Len(s) : s[n] # i
      BY <2>2, <3>1 DEF Job!Range
    <3>3. /\ Append(s, i) \in Seq(Job!Campaigns) /\ Len(Append(s, i)) = Len(s) + 1
          /\ \A n \in 1..Len(s) : Append(s, i)[n] = s[n]
          /\ Append(s, i)[Len(s) + 1] = i
      BY <3>1, AppendProperties
    <3>4. IsUnique(Append(s, i))
      BY <3>1, <3>2, <3>3 DEF IsUnique
    <3>. QED
      BY <2>2, <3>3, <3>4
  <2>. QED
    BY <2>1, <2>2
<1>3. step \in [Nat -> [X -> X]]
  <2>1. \A n \in Nat : n < Len(portfolio) => portfolio[n + 1] \in Items
    OBVIOUS
  <2>. HIDE DEF X, next
  <2>. QED
    BY <1>2, <2>1
<1>4. PICK f \in [Nat -> X] : f[0] = <<>> /\ \A n \in Nat : f[n + 1] = step[n][f[n]]
  <2>1. <<>> \in X /\ step \in [Nat -> [X -> X]]
    BY <1>1, <1>3
  <2>2. IsRecursive(X, <<>>, step)
    <3>. HIDE DEF X, step
    <3>. QED
      BY <2>1, RecursionIsDefined
  <2>. QED
    BY <2>2 DEF IsRecursive
<1> DEFINE k == [n \in 0..Len(portfolio) |-> f[n]]
<1>5. k = body(k)
  <2>1. Len(portfolio) \in Nat
    OBVIOUS
  <2>2. ASSUME NEW n \in 0..Len(portfolio), n # 0
        PROVE k[n] = next(k[n - 1], portfolio[n])
    <3>1. n - 1 \in Nat /\ (n - 1) + 1 = n /\ n - 1 < Len(portfolio) /\ n - 1 \in 0..Len(portfolio)
      BY <2>1, <2>2
    <3>2. f[n - 1] \in X
      BY <3>1
    <3>. HIDE DEF X, next
    <3>3. f[n] = step[n - 1][f[n - 1]]
      BY <1>4, <3>1
    <3>. QED
      BY <3>1, <3>2, <3>3
  <2>3. k[0] = <<>>
    BY <1>4, <2>1
  <2>. HIDE DEF k
  <2>4. k = [n \in 0..Len(portfolio) |-> k[n]]
    BY DEF k
  <2>5. [n \in 0..Len(portfolio) |-> k[n]] = body(k)
    BY <2>2, <2>3
  <2>. QED
    BY <2>4, <2>5
<1>6. PICK kept : kept = body(kept) /\ Job!UniqueTargets(portfolio) = kept[Len(portfolio)]
  <2>. HIDE DEF k
  <2>. QED
    BY <1>5 DEF Job!UniqueTargets
<1> DEFINE A == {n \in Nat : n <= Len(portfolio) => kept[n] \in X}
<1>7. 0 \in A
  BY <1>1, <1>6
<1>8. ASSUME NEW n \in Nat, n \in A
      PROVE n + 1 \in A
  <2>. SUFFICES ASSUME n + 1 <= Len(portfolio)
                PROVE kept[n + 1] \in X
    OBVIOUS
  <2>1. kept[n + 1] = next(kept[n], portfolio[n + 1]) /\ kept[n] \in X
    <3>1. n + 1 \in 0..Len(portfolio) /\ n + 1 # 0 /\ (n + 1) - 1 = n /\ n <= Len(portfolio)
      OBVIOUS
    <3>. HIDE DEF X
    <3>. QED
      BY <1>6, <1>8, <3>1
  <2>2. portfolio[n + 1] \in Items
    OBVIOUS
  <2>. HIDE DEF X, next
  <2>. QED
    BY <1>2, <2>1, <2>2
<1>9. Len(portfolio) \in A
  <2>. HIDE DEF A
  <2>1. Nat \subseteq A
    BY <1>7, <1>8, Induction
  <2>. QED
    BY <2>1
<1>. QED
  BY <1>6, <1>9

Statuses == Job!Answers \cup {"FAILED"}
Results == [target : Job!Campaigns, status : Statuses]

\* What the summary counts: the answers of n campaigns, of which so many analyses, and the
\* learning of each analysis but the pending one.
Sums(count, n, pending) ==
  /\ count.analyzed + count.awaitingMetaLink + count.unavailable + count.skipped
       + count.failed = n + pending
  /\ count.analyzed =
       count.learningRecorded + count.learningNoLearning + count.learningFailed + pending

Failures(count, done) ==
  /\ count.failed <= Len(done)
  /\ count.failed = Len(done) <=> \A i \in 1..Len(done) : done[i].status = "FAILED"

\* The results are those of the first targets, and every one of them was counted.
JobTypeOK ==
  /\ jobPc \in {"portfolio", "collect", "learn", "ended", "failed"}
  /\ targets \in Seq(Job!Campaigns) /\ IsUnique(targets)
  /\ totals \in [Job!Counters -> Nat]
  /\ results \in Seq(Results) /\ \A i \in 1..Len(results) : results[i].target = targets[i]

JobInvariant ==
  /\ JobTypeOK
  /\ totals.discovered = Len(targets)
  /\ Sums(totals, Len(results), IF jobPc = "learn" THEN 1 ELSE 0)
  /\ Failures(totals, results)
  /\ jobPc = "portfolio" => targets = <<>> /\ results = <<>>
  /\ jobPc \in {"collect", "learn"} => Len(results) < Len(targets)
  /\ jobPc \in {"ended", "failed"} => Len(results) = Len(targets)
  /\ jobPc = "failed" => totals.failed = Len(results)
  /\ jobPc = "ended" => results = <<>> \/ totals.failed # Len(results)

\* A portfolio that was read is an enumeration of some of its campaigns.
LEMMA PortfolioKeepsInvariant ==
  ASSUME JobAssumptions, JobInvariant, Job!ReadPortfolio
  PROVE JobInvariant'
<1>1. /\ jobPc = "portfolio" /\ targets = <<>> /\ results = <<>> /\ results' = results
      /\ totals \in [Job!Counters -> Nat] /\ JobTypeOK
  BY DEF JobInvariant, JobTypeOK, Job!ReadPortfolio
<1>2. CASE jobPc' = "failed" /\ UNCHANGED <<targets, totals>>
  BY <1>1, <1>2 DEF JobInvariant, JobTypeOK, Failures, Sums
<1>3. ASSUME NEW portfolio \in Job!SeqOf(Items, MaxItems),
             targets' = Job!UniqueTargets(portfolio),
             totals' = [Job!Zero EXCEPT !.discovered = Len(Job!UniqueTargets(portfolio))],
             jobPc' = IF Job!UniqueTargets(portfolio) = <<>> THEN "ended" ELSE "collect"
      PROVE JobInvariant'
  <2>1. portfolio \in Seq(Items)
    <3>1. PICK m \in 0..MaxItems : portfolio \in [1..m -> Items]
      BY <1>3 DEF Job!SeqOf
    <3>. QED
      BY <3>1, SeqDef DEF JobAssumptions, Job!MaxItemsAssumption
  <2>. PICK found : found = Job!UniqueTargets(portfolio)
    OBVIOUS
  <2>2. found \in Seq(Job!Campaigns) /\ IsUnique(found)
    BY <2>1, TargetsAreUnique
  <2>3. /\ totals' \in [Job!Counters -> Nat] /\ totals'.discovered = Len(found)
        /\ \A c \in Job!Counters : c # "discovered" => totals'[c] = 0
    BY <1>3, <2>2 DEF Job!Zero, Job!Counters
  <2>4. Sums(totals', 0, 0) /\ totals'.failed = 0
    BY <2>3 DEF Sums, Job!Counters
  <2>5. targets' = found /\ results' = <<>> /\ jobPc' = IF found = <<>> THEN "ended" ELSE "collect"
    BY <1>1, <1>3
  <2>6. JobTypeOK'
    BY <2>2, <2>3, <2>5 DEF JobTypeOK
  <2>7. Failures(totals', results')
    BY <2>4, <2>5 DEF Failures
  <2>8. found # <<>> => Len(found) > 0
    BY <2>2, EmptySeq
  <2>. QED
    BY <2>2, <2>3, <2>4, <2>5, <2>6, <2>7, <2>8 DEF JobInvariant
<1>. QED
  BY <1>2, <1>3 DEF Job!ReadPortfolio

\* A target that was dealt with is the next one; the job ends after the last one.
LEMMA DealtKeepsInvariant ==
  ASSUME JobInvariant, jobPc \in {"collect", "learn"}, NEW status \in Statuses,
         Job!Dealt(status), UNCHANGED targets, totals' \in [Job!Counters -> Nat],
         totals'.discovered = totals.discovered, Sums(totals', Len(results) + 1, 0),
         totals'.failed = totals.failed + IF status = "FAILED" THEN 1 ELSE 0
  PROVE JobInvariant'
<1>. PICK n \in Nat : n = Len(results)
  BY DEF JobInvariant, JobTypeOK
<1>. PICK done : done = Append(results, [target |-> targets[n + 1], status |-> status])
  OBVIOUS
<1>1. results \in Seq(Results) /\ targets \in Seq(Job!Campaigns) /\ n < Len(targets)
      /\ IsUnique(targets) /\ \A i \in 1..n : results[i].target = targets[i]
      /\ totals.failed \in Nat
  BY DEF JobInvariant, JobTypeOK, Job!Counters
<1>2. [target |-> targets[n + 1], status |-> status] \in Results
  BY <1>1 DEF Results
<1>3. /\ done \in Seq(Results) /\ Len(done) = n + 1 /\ \A i \in 1..n : done[i] = results[i]
      /\ done[n + 1].target = targets[n + 1] /\ done[n + 1].status = status
  BY <1>1, <1>2, AppendProperties
<1>4. results' = done /\ jobPc' = Job!End(done, totals')
  BY DEF Job!Dealt, Job!Target
<1>5. jobPc' = IF n + 1 < Len(targets) THEN "collect"
               ELSE IF totals'.failed = n + 1 THEN "failed" ELSE "ended"
  <2>1. n + 1 < Len(targets) \/ (Len(targets) = n + 1 /\ targets # <<>>)
    BY <1>1
  <2>. QED
    BY <1>3, <1>4, <2>1 DEF Job!End
<1>6. JobTypeOK'
  BY <1>1, <1>3, <1>4, <1>5 DEF JobTypeOK
<1>7. Failures(totals', done)
  <2>1. Failures(totals, results)
    BY DEF JobInvariant
  <2>2. CASE status = "FAILED"
    BY <1>1, <1>3, <2>1, <2>2 DEF Failures
  <2>3. CASE status # "FAILED"
    <3>1. totals'.failed <= n
      BY <1>1, <2>1, <2>3 DEF Failures
    <3>2. totals'.failed # n + 1 /\ totals'.failed <= n + 1
      BY <1>1, <3>1, <2>1, <2>3 DEF Failures
    <3>3. n + 1 \in 1..(n + 1) /\ done[n + 1].status # "FAILED"
      BY <1>3, <2>3
    <3>. QED
      BY <1>3, <3>2, <3>3 DEF Failures
  <2>. QED
    BY <2>2, <2>3
<1>. QED
  BY <1>1, <1>3, <1>4, <1>5, <1>6, <1>7 DEF JobInvariant

\* What is added to a field when c is counted.
Counted(field, c) == IF field = c THEN 1 ELSE 0

\* The summary count is old with c counted.
IsCounted(count, old, c) ==
  /\ count.discovered = old.discovered + Counted("discovered", c)
  /\ count.analyzed = old.analyzed + Counted("analyzed", c)
  /\ count.awaitingMetaLink = old.awaitingMetaLink + Counted("awaitingMetaLink", c)
  /\ count.unavailable = old.unavailable + Counted("unavailable", c)
  /\ count.skipped = old.skipped + Counted("skipped", c)
  /\ count.failed = old.failed + Counted("failed", c)
  /\ count.learningRecorded = old.learningRecorded + Counted("learningRecorded", c)
  /\ count.learningNoLearning = old.learningNoLearning + Counted("learningNoLearning", c)
  /\ count.learningFailed = old.learningFailed + Counted("learningFailed", c)

\* Counting adds one to one field of the summary.
LEMMA CountIsPlusOne ==
  ASSUME JobTypeOK, NEW c, Job!Count({c})
  PROVE /\ totals' \in [Job!Counters -> Nat] /\ IsCounted(totals', totals, c)
<1>1. totals \in [Job!Counters -> Nat] /\ totals' \in [Job!Counters -> Nat]
  BY DEF JobTypeOK, Job!Count
<1>2. \A field \in Job!Counters : totals'[field] = totals[field] + Counted(field, c)
  BY DEF Job!Count, Counted
<1>. QED
  BY <1>1, <1>2 DEF Job!Counters, IsCounted

\* A summary has a natural in each field.
LEMMA SummaryIsNatural ==
  ASSUME NEW count \in [Job!Counters -> Nat]
  PROVE /\ count.analyzed \in Nat /\ count.awaitingMetaLink \in Nat
        /\ count.unavailable \in Nat /\ count.skipped \in Nat /\ count.failed \in Nat
        /\ count.learningRecorded \in Nat /\ count.learningNoLearning \in Nat
        /\ count.learningFailed \in Nat /\ count.discovered \in Nat
  BY DEF Job!Counters

\* The sums after an answer was counted, or what was learned of the last analysis.
LEMMA SumsAreKept ==
  ASSUME NEW old \in [Job!Counters -> Nat], NEW count \in [Job!Counters -> Nat], NEW n \in Nat,
         NEW c, IsCounted(count, old, c)
  PROVE /\ count.discovered = old.discovered + Counted("discovered", c)
        /\ count.failed = old.failed + Counted("failed", c)
        /\ Sums(old, n, 0) /\ c = "analyzed" => Sums(count, n, 1)
        /\ /\ Sums(old, n, 0)
           /\ c \in {"awaitingMetaLink", "unavailable", "skipped", "failed"}
           => Sums(count, n + 1, 0)
        /\ /\ Sums(old, n, 1)
           /\ c \in {"learningRecorded", "learningNoLearning", "learningFailed"}
           => Sums(count, n + 1, 0)
<1>. PICK a, b, d, e, f, g, h, i, j \in Nat :
       /\ old.analyzed = a /\ old.awaitingMetaLink = b /\ old.unavailable = d
       /\ old.skipped = e /\ old.failed = f /\ old.learningRecorded = g
       /\ old.learningNoLearning = h /\ old.learningFailed = i /\ old.discovered = j
  BY SummaryIsNatural
<1>1. Sums(old, n, 0) /\ c = "analyzed" => Sums(count, n, 1)
  BY DEF Sums, IsCounted, Counted
<1>2. ASSUME Sums(old, n, 0), c \in {"awaitingMetaLink", "unavailable", "skipped", "failed"}
      PROVE Sums(count, n + 1, 0)
  BY <1>2 DEF Sums, IsCounted, Counted
<1>3. ASSUME Sums(old, n, 1), c \in {"learningRecorded", "learningNoLearning", "learningFailed"}
      PROVE Sums(count, n + 1, 0)
  BY <1>3 DEF Sums, IsCounted, Counted
<1>. QED
  BY <1>1, <1>2, <1>3 DEF IsCounted

LEMMA CollectMetaKeepsInvariant ==
  ASSUME JobInvariant, Job!CollectMeta
  PROVE JobInvariant'
<1>. PICK old : old = totals
  OBVIOUS
<1>. PICK count : count = totals'
  OBVIOUS
<1>. PICK n \in Nat : n = Len(results)
  BY DEF JobInvariant, JobTypeOK
<1>1. /\ jobPc = "collect" /\ UNCHANGED targets /\ JobTypeOK /\ Sums(old, n, 0)
      /\ old \in [Job!Counters -> Nat] /\ old.failed \in Nat /\ old.discovered \in Nat
  BY DEF JobInvariant, JobTypeOK, Job!CollectMeta, Job!Counters
<1>2. CASE Job!Count({"analyzed"}) /\ jobPc' = "learn" /\ UNCHANGED results
  <2>1. totals' \in [Job!Counters -> Nat] /\ Sums(totals', n, 1)
        /\ totals'.failed = old.failed /\ totals'.discovered = old.discovered
    <3>1. count \in [Job!Counters -> Nat] /\ IsCounted(count, old, "analyzed")
      BY <1>1, <1>2, CountIsPlusOne
    <3>. QED
      BY <1>1, <3>1, SumsAreKept DEF Counted
  <2>2. JobTypeOK'
    BY <1>1, <1>2, <2>1 DEF JobTypeOK
  <2>. QED
    BY <1>1, <1>2, <2>1, <2>2 DEF JobInvariant, Failures
<1>3. CASE Job!Count({"failed"}) /\ Job!Dealt("FAILED")
  <2>1. totals' \in [Job!Counters -> Nat] /\ Sums(totals', n + 1, 0)
        /\ totals'.failed = old.failed + 1 /\ totals'.discovered = old.discovered
    <3>1. count \in [Job!Counters -> Nat] /\ IsCounted(count, old, "failed")
      BY <1>1, <1>3, CountIsPlusOne
    <3>. QED
      BY <1>1, <3>1, SumsAreKept DEF Counted
  <2>. QED
    BY <1>1, <1>3, <2>1, DealtKeepsInvariant DEF Statuses
<1>4. ASSUME NEW answer \in {"awaitingMetaLink", "unavailable", "skipped"},
             Job!Count({answer}), Job!Dealt(answer)
      PROVE JobInvariant'
  <2>1. totals' \in [Job!Counters -> Nat] /\ Sums(totals', n + 1, 0)
        /\ totals'.failed = old.failed /\ totals'.discovered = old.discovered
    <3>1. count \in [Job!Counters -> Nat] /\ IsCounted(count, old, answer)
      BY <1>1, <1>4, CountIsPlusOne
    <3>. QED
      BY <1>1, <1>4, <3>1, SumsAreKept DEF Counted
  <2>2. answer \in Statuses /\ answer # "FAILED"
    BY <1>4 DEF Statuses, Job!Answers
  <2>. QED
    BY <1>1, <1>4, <2>1, <2>2, DealtKeepsInvariant
<1>. QED
  BY <1>2, <1>3, <1>4 DEF Job!CollectMeta, Job!Answers

LEMMA LearnKeepsInvariant ==
  ASSUME JobInvariant, Job!Learn
  PROVE JobInvariant'
<1>. PICK old : old = totals
  OBVIOUS
<1>. PICK count : count = totals'
  OBVIOUS
<1>. PICK n \in Nat : n = Len(results)
  BY DEF JobInvariant, JobTypeOK
<1>1. /\ jobPc = "learn" /\ UNCHANGED targets /\ JobTypeOK /\ Sums(old, n, 1)
      /\ old \in [Job!Counters -> Nat] /\ old.failed \in Nat /\ old.discovered \in Nat
  BY DEF JobInvariant, JobTypeOK, Job!Learn, Job!Counters
<1>2. PICK c \in {"learningRecorded", "learningNoLearning", "learningFailed"} :
        Job!Count({c}) /\ Job!Dealt("analyzed")
  BY DEF Job!Learn
<1>3. totals' \in [Job!Counters -> Nat] /\ Sums(totals', n + 1, 0)
      /\ totals'.failed = old.failed /\ totals'.discovered = old.discovered
  <2>1. count \in [Job!Counters -> Nat] /\ IsCounted(count, old, c)
    BY <1>1, <1>2, CountIsPlusOne
  <2>. QED
    BY <1>1, <1>2, <2>1, SumsAreKept DEF Counted
<1>. QED
  BY <1>1, <1>2, <1>3, DealtKeepsInvariant DEF Statuses, Job!Answers

\* The summary of the job adds up and lists each campaign once, and the job fails when it
\* collected nothing that it should have, and only then: for every portfolio and whatever
\* the requests of the job answer.
THEOREM SummariesAddUp ==
  JobAssumptions =>
    (Job!Spec => [](Job!TotalsAddUp /\ Job!FailsWhenNothingWasCollected))
<1> DEFINE Right == Job!TotalsAddUp /\ Job!FailsWhenNothingWasCollected
<1>. SUFFICES ASSUME JobAssumptions
              PROVE Job!Spec => []Right
  OBVIOUS
<1>1. Job!Init => JobInvariant
  BY EmptySeq DEF Job!Init, Job!Zero, Job!Counters, JobInvariant, JobTypeOK, Sums, Failures, IsUnique
<1>2. JobInvariant /\ [Job!Next]_Job!vars => JobInvariant'
  <2>1. ASSUME JobInvariant, UNCHANGED Job!vars
        PROVE JobInvariant'
    BY <2>1 DEF JobInvariant, JobTypeOK, Job!vars
  <2>. QED
    BY <2>1, PortfolioKeepsInvariant, CollectMetaKeepsInvariant, LearnKeepsInvariant DEF Job!Next
<1>3. ASSUME JobInvariant
      PROVE Right
  <2>1. /\ JobTypeOK /\ DOMAIN results = 1..Len(results)
        /\ \A c \in Job!Counters : totals[c] \in Nat
    BY <1>3 DEF JobInvariant, JobTypeOK
  <2>2. Job!TotalsAddUp
    <3>1. jobPc \in {"ended", "failed"} =>
            Sums(totals, Len(results), 0) /\ totals.discovered = Len(results)
      BY <1>3 DEF JobInvariant
    <3>2. \A i \in 1..Len(results) : results[i].target = targets[i] /\ targets[i] \in Job!Campaigns
      BY <1>3, <2>1 DEF JobInvariant, JobTypeOK, Results
    <3>3. \A i, j \in 1..Len(results) : results[i].target = results[j].target => i = j
      <4>1. Len(results) <= Len(targets) /\ Len(targets) \in Nat
        BY <1>3 DEF JobInvariant, JobTypeOK
      <4>2. \A i, j \in 1..Len(targets) : targets[i] = targets[j] => i = j
        BY <2>1 DEF JobTypeOK, IsUnique
      <4>. QED
        BY <3>2, <4>1, <4>2
    <3>. QED
      BY <2>1, <3>1, <3>2, <3>3 DEF Job!TotalsAddUp, Sums, Job!Counters
  <2>3. Job!FailsWhenNothingWasCollected
    BY <1>3, <2>1 DEF JobInvariant, Failures, Job!FailsWhenNothingWasCollected
  <2>. QED
    BY <2>2, <2>3
<1>. QED
  BY <1>1, <1>2, <1>3, PTL DEF Job!Spec
=============================================================================
