-------------------------- MODULE AnalystTracking --------------------------
(***************************************************************************)
(* How the Analyst learns which campaign of Meta is the one of a context:  *)
(* one registration per campaign, written by a trigger of the protocol     *)
(* table when a controlled execution is confirmed, and by the resolver     *)
(* when it finds no registration.  The trigger swallows its own failures.  *)
(*                                                                         *)
(* Plans and the manifests of a plan are numbered as they are saved.       *)
(***************************************************************************)
EXTENDS Naturals, Sequences

CONSTANTS
  Resolutions,  \* resolutions of the campaign, one per collection
  ExternalIds,  \* identifiers of campaigns of Meta
  Absent,       \* no row, no campaign of Meta
  MaxPlans,     \* bound: plans of the campaign
  MaxManifests  \* bound: manifests of a plan, each with one protocol

TrackingNumbersAssumption == {MaxPlans, MaxManifests} \subseteq Nat \ {0}

VARIABLES
  manifests,     \* sequence of plans: how many manifests each has
  protocol,      \* [Plans \X Manifests -> the protocol of the manifest, or Absent]
  registration,  \* the campaign's row, or Absent
  registered,    \* audit events: the registrations that the resolver recorded
  resolution     \* [Resolutions -> the local state of the resolution]

history == <<manifests, protocol>>
trackingVars == <<history, registration, registered, resolution>>

Keys == (1..MaxPlans) \X (1..MaxManifests)
Plans == DOMAIN manifests
LatestPlan == Len(manifests)

Protocols ==
  [status : {"prepared", "failed", "external_validation_succeeded"},
   executed : ExternalIds \cup {Absent}, reconciled : ExternalIds \cup {Absent}]

\* The campaign that a protocol confirmed; one that it created before one it reconciled.
ExternalCampaign(p) ==
  IF p.status # "external_validation_succeeded" THEN Absent
  ELSE IF p.executed # Absent THEN [id |-> p.executed, source |-> "execution_operation"]
  ELSE IF p.reconciled # Absent THEN [id |-> p.reconciled, source |-> "reconciled_operation"]
  ELSE Absent

Registration(k, p) ==
  [of |-> k, id |-> ExternalCampaign(p).id, source |-> ExternalCampaign(p).source]

Waiting ==
  [pc |-> "idle", plan |-> 0, of |-> Absent, protocol |-> Absent, previous |-> Absent,
   answer |-> Absent]

Proceeds(r, q) == resolution' = [resolution EXCEPT ![r] = q]
Answers(r, row) == Proceeds(r, [resolution[r] EXCEPT !.pc = "answered", !.answer = row])

TrackingInit ==
  /\ manifests = <<>>
  /\ protocol = [k \in Keys |-> Absent]
  /\ registration = Absent /\ registered = {}
  /\ resolution = [r \in Resolutions |-> Waiting]

-----------------------------------------------------------------------------
(* Plans, manifests, protocols, and the trigger.                           *)

NewPlan ==
  /\ LatestPlan < MaxPlans
  /\ manifests' = Append(manifests, 0)
  /\ UNCHANGED <<protocol, registration, registered, resolution>>

NewManifest(n) ==
  /\ manifests[n] < MaxManifests
  /\ manifests' = [manifests EXCEPT ![n] = @ + 1]
  /\ UNCHANGED <<protocol, registration, registered, resolution>>

Prepare(k) ==
  /\ k[1] \in Plans /\ k[2] <= manifests[k[1]] /\ protocol[k] = Absent
  /\ protocol' = [protocol EXCEPT ![k] = [status |-> "prepared", executed |-> Absent,
                                          reconciled |-> Absent]]
  /\ UNCHANGED <<manifests, registration, registered, resolution>>

\* The row that the trigger writes, in the transaction that confirms the protocol.
Triggered(k, p) == Registration(k, p)

\* An execution or a reconciliation ends: a failed one may still have created the campaign.
\* The trigger registers a confirmed one, and swallows whatever error keeps it from doing so.
Conclude(k, p) ==
  /\ protocol[k] # Absent /\ protocol[k].status = "prepared"
  /\ protocol' = [protocol EXCEPT ![k] = p]
  /\ IF ExternalCampaign(p) = Absent THEN registration' = registration
     ELSE registration' \in {registration, Triggered(k, p)}
  /\ UNCHANGED <<manifests, registered, resolution>>

-----------------------------------------------------------------------------
(* resolve: the registration, or the latest history of the campaign.       *)

Confirmed == {k \in Keys : protocol[k] # Absent /\ ExternalCampaign(protocol[k]) # Absent}

Find(r) ==
  /\ resolution[r].pc = "idle"
  /\ IF registration # Absent THEN Answers(r, registration)
     ELSE Proceeds(r, [resolution[r] EXCEPT !.pc = "plan"])
  /\ UNCHANGED <<history, registration, registered>>

\* The answer that no campaign of Meta is known.
NotFound(r) == Answers(r, Absent)

ReadPlan(r) ==
  /\ resolution[r].pc = "plan"
  /\ IF LatestPlan = 0 THEN NotFound(r)
     ELSE Proceeds(r, [resolution[r] EXCEPT !.pc = "manifest", !.plan = LatestPlan])
  /\ UNCHANGED <<history, registration, registered>>

\* latestForPlan, and latestForManifest of what it found.
ReadManifest(r) ==
  LET n == resolution[r].plan
  IN /\ resolution[r].pc = "manifest"
     /\ IF manifests[n] = 0 THEN NotFound(r)
        ELSE Proceeds(r, [resolution[r] EXCEPT !.pc = "protocol", !.of = <<n, manifests[n]>>])
     /\ UNCHANGED <<history, registration, registered>>

ReadProtocol(r) ==
  LET p == protocol[resolution[r].of]
  IN /\ resolution[r].pc = "protocol"
     /\ IF p = Absent \/ ExternalCampaign(p) = Absent THEN NotFound(r)
        ELSE Proceeds(r, [resolution[r] EXCEPT !.pc = "previous", !.protocol = p])
     /\ UNCHANGED <<history, registration, registered>>

\* ensureFromProtocol, a transaction: the row that is there, then the upsert and its event.
ReadRegistration(r) ==
  /\ resolution[r].pc = "previous"
  /\ Proceeds(r, [resolution[r] EXCEPT !.pc = "ensure", !.previous = registration])
  /\ UNCHANGED <<history, registration, registered>>

Differs(old, row) == old = Absent \/ old.id # row.id \/ old.of # row.of

Upsert(r) ==
  LET row == Registration(resolution[r].of, resolution[r].protocol)
  IN /\ resolution[r].pc = "ensure"
     /\ registration' = row
     /\ registered' = IF Differs(resolution[r].previous, row)
                      THEN registered \cup {row} ELSE registered
     /\ Answers(r, row)
     /\ UNCHANGED history

Again(r) ==
  /\ resolution[r].pc = "answered"
  /\ Proceeds(r, Waiting)
  /\ UNCHANGED <<history, registration, registered>>

Resolve(r) ==
  Find(r) \/ ReadPlan(r) \/ ReadManifest(r) \/ ReadProtocol(r) \/ ReadRegistration(r) \/ Upsert(r)

History ==
  \/ NewPlan
  \/ \E n \in Plans : NewManifest(n)
  \/ \E k \in Keys : Prepare(k) \/ \E p \in Protocols : p.status # "prepared" /\ Conclude(k, p)

TrackingNext == History \/ \E r \in Resolutions : Resolve(r) \/ Again(r)

TrackingSpec == TrackingInit /\ [][TrackingNext]_trackingVars

\* The collector asks again every six hours, and what it asks is carried out.
TrackingFairSpec ==
  TrackingSpec /\ \A r \in Resolutions : /\ WF_trackingVars(Resolve(r))
                                         /\ WF_trackingVars(Again(r))

-----------------------------------------------------------------------------
(* Properties.  ResolverChangesAreAudited is about steps.                  *)

Rows == [of : Keys, id : ExternalIds, source : {"execution_operation", "reconciled_operation"}]

Resolution ==
  [pc : {"idle", "plan", "manifest", "protocol", "previous", "ensure", "answered"},
   plan : 0..MaxPlans, of : Keys \cup {Absent}, protocol : Protocols \cup {Absent},
   previous : Rows \cup {Absent}, answer : Rows \cup {Absent}]

AbsentAssumption ==
  Absent \notin ExternalIds /\ Absent \notin Protocols /\ Absent \notin Rows

TrackingTypeOK ==
  /\ manifests \in Seq(0..MaxManifests) /\ LatestPlan <= MaxPlans
  /\ protocol \in [Keys -> Protocols \cup {Absent}]
  /\ registration \in Rows \cup {Absent}
  /\ registered \subseteq Rows
  /\ resolution \in [Resolutions -> Resolution]

\* The columns of the registration belong together: its campaign of Meta is what its own
\* protocol confirmed, whichever of the two writers was the last; and so it is for every
\* answer.  An execution that failed or is not confirmed registers nothing.
RegistrationsAreConfirmed ==
  \A row \in ({registration} \cup {resolution[r].answer : r \in Resolutions}) \ {Absent} :
    protocol[row.of] # Absent /\ row = Registration(row.of, protocol[row.of])

\* What the resolver changes is in the audit trail: when it writes a row that differs from
\* the one it read, it also writes its event.
ResolverChangesAreAudited ==
  \A r \in Resolutions :
    (resolution[r].pc = "ensure" /\ resolution'[r].pc = "answered"
     /\ resolution[r].previous # registration')
    => registration' \in registered'

\* The latest plan, manifest and protocol are ones that confirmed a campaign.  While they
\* stay so, it is registered in the end, also when the trigger left it out.
LatestIsConfirmed ==
  /\ LatestPlan > 0 /\ manifests[LatestPlan] > 0
  /\ <<LatestPlan, manifests[LatestPlan]>> \in Confirmed
=============================================================================
