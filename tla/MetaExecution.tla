---------------------------- MODULE MetaExecution ----------------------------
(***************************************************************************)
(* The controlled creation of paused Meta objects for one campaign and one *)
(* execution plan.  A manifest lists the operations; a validation protocol *)
(* is one attempt at a manifest, kept as one row (a document that is       *)
(* rewritten as a whole).  Workers are HTTP requests running concurrently  *)
(* in the server; every action below is what one of them does between two  *)
(* awaits.  Objects are what exists at Meta, whether or not the server     *)
(* learned of them.                                                        *)
(***************************************************************************)
EXTENDS KillSwitchLedger, AuthorizedManifests, FiniteSets

CONSTANTS
  Workers,         \* concurrent requests
  Tenant,          \* the target of the tenant's switch
  Campaign,        \* the target of the campaign's switch
  NumOps,          \* operations of a manifest, numbered in execution order
  Creatives,       \* the operations whose object has no lifecycle status
  Videos,          \* the creatives that upload a video first
  Deps,            \* Deps[o]: the operations whose object o refers to
  MaxVersion,      \* bound: versions of a switch when an operator changes it
  MaxAttempts,     \* bound: protocols prepared for a manifest
  MaxCrashes,      \* bound: requests that die in the middle
  MaxActivations   \* bound: objects somebody activates at Meta

Ops == 1..NumOps

ASSUME SwitchAssumption == {Tenant, Campaign} \subseteq Targets /\ Tenant # Campaign
ASSUME OperationAssumption ==
  /\ NumOps \in Nat \ {0}
  /\ Creatives \subseteq Ops
  /\ Videos \subseteq Creatives
  /\ Deps \in [Ops -> SUBSET Ops]
  /\ \A o \in Ops : \A d \in Deps[o] : d < o
ASSUME BoundAssumption ==
  {MaxVersion, MaxManifests, MaxAttempts, MaxCrashes, MaxActivations} \subseteq Nat

VARIABLES
  protocols,    \* [Manifests -> Seq(Protocol)], in the order of prepared_at
  objects,      \* everything created at Meta; an object's id is its position
  worker,       \* [Workers -> the local state of the request]
  crashes

vars == <<ledger, manifests, authorized, protocols, objects, worker, crashes>>

-----------------------------------------------------------------------------
(* Protocol documents.                                                     *)

ProtocolStatus == {"prepared", "running", "failed", "succeeded"}

\* status "carried" marks an operation reconciled by an earlier attempt, which
\* is therefore not part of this one.  0 stands for an absent external id.
Operation == [status : {"carried", "pending", "uncertain", "failed", "succeeded"},
              object : Nat,
              observed : {"none", "paused", "active"},
              media : Nat]

Protocol == [attempt : Nat \ {0},
             status : ProtocolStatus,
             reconciled : [Ops -> Nat],
             preserved : [Ops -> Nat],
             operations : [Ops -> Operation],
             written : BOOLEAN]

NewOperation(reconciledId) ==
  [status |-> IF reconciledId = 0 THEN "pending" ELSE "carried",
   object |-> 0, observed |-> "none", media |-> 0]

NewProtocol(attempt, reconciled, preserved) ==
  [attempt |-> attempt,
   status |-> "prepared",
   reconciled |-> reconciled,
   preserved |-> preserved,
   operations |-> [o \in Ops |-> NewOperation(reconciled[o])],
   written |-> FALSE]

\* Mutant: attempts numbered from zero.
FirstAttemptZero == NewProtocol(0, [o \in Ops |-> 0], [o \in Ops |-> 0])

FirstAttempt == NewProtocol(1, [o \in Ops |-> 0], [o \in Ops |-> 0])

\* protocolHash covers what prepare derived, never what execution recorded.  It
\* also covers the replaced protocol, which is the attempt before this one.
ProtocolHash(p) == <<p.attempt, p.reconciled, p.preserved>>

Safe(op) == op.status = "succeeded" /\ op.object # 0 /\ op.observed = "paused"

\* The operations that recorded an object not known to be created and paused.
Unreconciled(p) ==
  {o \in Ops : p.operations[o].object # 0 /\ ~Safe(p.operations[o])}

\* The operations whose object reconciliation reads again.
ToReconcile(p) ==
  {o \in Ops : p.operations[o].object # 0 /\ p.operations[o].status # "succeeded"}

\* The external object the attempt p, or one before it, recorded as reconciled.
ReconciledId(p, o) ==
  IF Safe(p.operations[o]) THEN p.operations[o].object ELSE p.reconciled[o]

PreservedId(p, o) ==
  IF p.operations[o].media # 0 THEN p.operations[o].media ELSE p.preserved[o]

\* Mutant: an object whose reading failed does not block the next attempt.
RetryBlockedByMissingEvidence(p) ==
  \/ p.written /\ \A o \in Ops : ReconciledId(p, o) = 0
  \/ \A o \in Ops : ReconciledId(p, o) # 0

\* prepare refuses another attempt after the failed attempt p.
RetryBlocked(p) ==
  \/ Unreconciled(p) # {}
  \/ p.written /\ \A o \in Ops : ReconciledId(p, o) = 0
  \/ \A o \in Ops : ReconciledId(p, o) # 0

\* Mutants: the next attempt starts from nothing, or only from what the last
\* attempt recorded.
RetryFromScratch(p) == NewProtocol(p.attempt + 1, [o \in Ops |-> 0],
                                   [o \in Ops |-> PreservedId(p, o)])

RetryFromLastAttempt(p) ==
  NewProtocol(p.attempt + 1,
              [o \in Ops |-> IF Safe(p.operations[o]) THEN p.operations[o].object ELSE 0],
              [o \in Ops |-> PreservedId(p, o)])

Retry(p) == NewProtocol(p.attempt + 1,
                        [o \in Ops |-> ReconciledId(p, o)],
                        [o \in Ops |-> PreservedId(p, o)])

Pending(p) == {o \in Ops : p.operations[o].status = "pending"}

\* Mutant: operations sorted in descending order.
IsCurrentDescending(p, o) == o \in Pending(p) /\ \A q \in Pending(p) : o >= q

\* The operation being executed: the first of the attempt not executed yet.
IsCurrent(p, o) == o \in Pending(p) /\ \A q \in Pending(p) : o <= q

-----------------------------------------------------------------------------
(* Requests.                                                               *)

Executing == {"operation", "storingMedia", "video", "creating", "reading",
              "storing", "alarming", "engaging", "failing"}

Idle == [pc |-> "idle", manifest |-> 0, attempt |-> 0, toRead |-> {},
         created |-> 0, doc |-> FirstAttempt]

Worker == [pc : {"idle", "reconciling", "storingReconciled", "alarmingReconciled",
                 "preparing", "inserting", "switches", "protocol", "begin"}
                \cup Executing,
           manifest : Manifests \cup {0},
           attempt : Nat,
           toRead : SUBSET Targets,
           created : Nat,
           doc : Protocol]

LatestProtocol(m) == protocols[m][Len(protocols[m])]

Return(w) == worker' = [worker EXCEPT ![w] = Idle]

\* updateExecution: rewrites the row, provided it is running or failed.
UpdateExecution(w, p) ==
  LET m == worker[w].manifest
      a == worker[w].attempt
  IN  /\ protocols[m][a].status \in {"running", "failed"}
      /\ protocols' = [protocols EXCEPT ![m][a] = p]

Init ==
  /\ LedgerInit
  /\ AuthorizedInit
  /\ protocols = [m \in Manifests |-> <<>>]
  /\ objects = <<>>
  /\ worker = [w \in Workers |-> Idle]
  /\ crashes = 0

-----------------------------------------------------------------------------
(* What happens around the requests.                                       *)

\* A manifest is generated; one is authorized; an authorization ends.
PrepareManifest ==
  NewManifest /\ UNCHANGED <<ledger, protocols, objects, worker, crashes>>

Authorize(m) ==
  Grant(m) /\ UNCHANGED <<ledger, protocols, objects, worker, crashes>>

EndAuthorization(m) ==
  Withdraw(m) /\ UNCHANGED <<ledger, protocols, objects, worker, crashes>>

\* An operator changes the switch of the tenant or of the campaign.
ChangeSwitch(t, status) ==
  /\ Len(ledger[t]) < MaxVersion
  /\ Change(t, status)
  /\ UNCHANGED <<manifests, authorized, protocols, objects, worker, crashes>>

\* Somebody activates or pauses an object at Meta.
ChangeAtMeta(i) ==
  /\ objects[i].kind = "object" /\ objects[i].operation \notin Creatives
  /\ \/ ~objects[i].paused
     \/ Cardinality({j \in DOMAIN objects : ~objects[j].paused}) < MaxActivations
  /\ objects' = [objects EXCEPT ![i].paused = ~@]
  /\ UNCHANGED <<ledger, manifests, authorized, protocols, worker, crashes>>

-----------------------------------------------------------------------------
(* prepareMetaWriteValidation: reconcile the failed attempt, then prepare   *)
(* the next one.                                                           *)

\* The request reads the latest protocol and starts to reconcile it, or, when
\* nothing in it needs reconciling, goes on to prepare.
StartPrepare(w, m) ==
  /\ worker[w].pc = "idle" /\ m <= manifests
  /\ LET old == LatestProtocol(m)
         reconcile == /\ protocols[m] # <<>>
                      /\ old.status = "failed"
                      /\ ToReconcile(old) # {}
     IN worker' = [worker EXCEPT ![w] =
                     IF reconcile
                     THEN [Idle EXCEPT !.pc = "reconciling", !.manifest = m,
                                       !.attempt = Len(protocols[m]), !.doc = old]
                     ELSE [Idle EXCEPT !.pc = "preparing", !.manifest = m]]
  /\ UNCHANGED <<ledger, manifests, authorized, protocols, objects, crashes>>

\* Reads one recorded object at Meta.
ReconcileRead(w, o) ==
  LET p == worker[w].doc
      paused == o \in Creatives \/ objects[p.operations[o].object].paused
      doc == [p EXCEPT !.operations[o].status = "succeeded",
                       !.operations[o].observed = "paused"]
  IN  /\ worker[w].pc = "reconciling" /\ o \in ToReconcile(p)
      /\ \/ /\ paused
            /\ worker' = [worker EXCEPT
                 ![w].doc = doc,
                 ![w].pc = IF ToReconcile(doc) = {} THEN "storingReconciled" ELSE @]
         \/ /\ ~paused
            /\ worker' = [worker EXCEPT ![w].pc = "alarmingReconciled"]
      /\ UNCHANGED <<ledger, manifests, authorized, protocols, objects, crashes>>

\* An object that is not paused engages the campaign's switch; then Conflict.
ReconcileAlarm(w) ==
  /\ worker[w].pc = "alarmingReconciled"
  /\ AppendNext(Campaign, "engaged")
  /\ Return(w)
  /\ UNCHANGED <<manifests, authorized, protocols, objects, crashes>>

StoreReconciled(w) ==
  /\ worker[w].pc = "storingReconciled"
  /\ UpdateExecution(w, worker[w].doc)
  /\ worker' = [worker EXCEPT ![w] =
       [Idle EXCEPT !.pc = "preparing", !.manifest = worker[w].manifest]]
  /\ UNCHANGED <<ledger, manifests, authorized, objects, crashes>>

\* prepare reads the previous attempt and derives the next one from it; it
\* returns at once when there is nothing to prepare, or refuses to.
Prepare(w) ==
  LET m == worker[w].manifest
      first == protocols[m] = <<>>
      previous == LatestProtocol(m)
  IN  /\ worker[w].pc = "preparing"
      /\ IF /\ m = manifests
            /\ Len(protocols[m]) < MaxAttempts
            /\ first \/ (previous.status = "failed" /\ ~RetryBlocked(previous))
         THEN worker' = [worker EXCEPT
                ![w].pc = "inserting",
                ![w].doc = IF first THEN FirstAttempt ELSE Retry(previous)]
         ELSE Return(w)
      /\ UNCHANGED <<ledger, manifests, authorized, protocols, objects, crashes>>

\* saveIdempotent: a row with the same hash stands for this one.
InsertProtocol(w) ==
  LET m == worker[w].manifest
      p == worker[w].doc
      exists == \E a \in DOMAIN protocols[m] :
                  ProtocolHash(protocols[m][a]) = ProtocolHash(p)
  IN  /\ worker[w].pc = "inserting"
      /\ protocols' = IF exists THEN protocols
                      ELSE [protocols EXCEPT ![m] = Append(@, p)]
      /\ Return(w)
      /\ UNCHANGED <<ledger, manifests, authorized, objects, crashes>>

-----------------------------------------------------------------------------
(* executePaused: the checks before the attempt.                           *)

\* The authorization was approved when its row was read, and its manifest is the
\* latest: one that is superseded by then is refused later, as GiveUp.
StartExecute(w, m) ==
  /\ worker[w].pc = "idle"
  /\ m \in authorized /\ m = manifests
  /\ worker' = [worker EXCEPT ![w] =
       [Idle EXCEPT !.pc = "switches", !.manifest = m,
                    !.toRead = {Tenant, Campaign}]]
  /\ UNCHANGED <<ledger, manifests, authorized, protocols, objects, crashes>>

\* effective: the two switches are read by separate queries, in any order.
ReadSwitch(w, t) ==
  /\ worker[w].pc = "switches" /\ t \in worker[w].toRead
  /\ IF Latest(t) = "released"
     THEN worker' = [worker EXCEPT
            ![w].toRead = @ \ {t},
            ![w].pc = IF worker[w].toRead = {t} THEN "protocol" ELSE @]
     ELSE Return(w)
  /\ UNCHANGED <<ledger, manifests, authorized, protocols, objects, crashes>>

ReadProtocol(w) ==
  LET m == worker[w].manifest
  IN  /\ worker[w].pc = "protocol"
      /\ IF protocols[m] # <<>> /\ LatestProtocol(m).status = "prepared"
         THEN worker' = [worker EXCEPT ![w].pc = "begin",
                                       ![w].attempt = Len(protocols[m]),
                                       ![w].doc = LatestProtocol(m)]
         ELSE Return(w)
      /\ UNCHANGED <<ledger, manifests, authorized, protocols, objects, crashes>>

\* Mutant: the update does not compare the status of the row.
CanBeginUnlessSucceeded(m, a) == protocols[m][a].status # "succeeded"

\* beginExecution takes the attempt only while it is prepared; the unique
\* index admits one running protocol of a manifest.
CanBegin(m, a) ==
  /\ protocols[m][a].status = "prepared"
  /\ \A b \in DOMAIN protocols[m] : protocols[m][b].status # "running"

BeginExecution(w) ==
  LET m == worker[w].manifest
      a == worker[w].attempt
      running == [worker[w].doc EXCEPT !.status = "running"]
  IN  /\ worker[w].pc = "begin"
      /\ IF CanBegin(m, a)
         THEN /\ protocols' = [protocols EXCEPT ![m][a] = running]
              /\ worker' = [worker EXCEPT ![w].pc = "operation", ![w].doc = running]
         ELSE Return(w) /\ UNCHANGED protocols
      /\ UNCHANGED <<ledger, manifests, authorized, objects, crashes>>

-----------------------------------------------------------------------------
(* executePaused: the operations.                                          *)

NewObject(w, o, kind, answered) ==
  [manifest |-> worker[w].manifest, operation |-> o, kind |-> kind,
   paused |-> TRUE, answered |-> answered]

\* A write without a usable answer: refused, or carried out by Meta although
\* the response is lost, late or unreadable.  The error is retryable
\* (uncertain) or not (failed); no external id is recorded either way.
WriteFails(w, o, kind) ==
  /\ \E status \in {"uncertain", "failed"} :
       worker' = [worker EXCEPT ![w].pc = "engaging",
                                ![w].doc.operations[o].status = status]
  /\ objects' \in {objects, Append(objects, NewObject(w, o, kind, FALSE))}

\* updateExecution between operations; a database error inside the try block
\* is handled like any other failure of the attempt.
Store(w, pc, next) ==
  /\ worker[w].pc = pc
  /\ \/ UpdateExecution(w, worker[w].doc) /\ worker' = [worker EXCEPT ![w].pc = next]
     \/ worker' = [worker EXCEPT ![w].pc = "engaging"] /\ UNCHANGED protocols
  /\ UNCHANGED <<ledger, manifests, authorized, objects, crashes>>

\* The executor is about to upload the video of operation o.
AtUpload(w, o) ==
  /\ worker[w].pc = "operation" /\ IsCurrent(worker[w].doc, o)
  /\ o \in Videos /\ worker[w].doc.preserved[o] = 0

UploadVideo(w, o) ==
  /\ AtUpload(w, o)
  /\ \/ /\ objects' = Append(objects, NewObject(w, o, "video", TRUE))
        /\ worker' = [worker EXCEPT
             ![w].pc = "storingMedia",
             ![w].doc.operations[o].media = Len(objects) + 1,
             ![w].doc.written = TRUE]
     \/ WriteFails(w, o, "video")
  /\ UNCHANGED <<ledger, manifests, authorized, protocols, crashes>>

StoreMedia(w) == Store(w, "storingMedia", "video")

\* waitForVideo and readVideoThumbnail, for a video uploaded now or preserved
\* from an earlier attempt.
AwaitVideo(w, o) ==
  LET p == worker[w].doc
      videoId == PreservedId(p, o)
  IN  /\ IsCurrent(p, o) /\ o \in Videos
      /\ \/ worker[w].pc = "video"
         \/ worker[w].pc = "operation" /\ p.preserved[o] # 0
      /\ \/ worker' = [worker EXCEPT ![w].pc = "creating",
                                     ![w].doc.operations[o].media = videoId]
         \/ \E status \in {"uncertain", "failed"} :
              worker' = [worker EXCEPT
                ![w].pc = "engaging",
                ![w].doc.operations[o] =
                  [@ EXCEPT !.media = videoId, !.status = status]]
      /\ UNCHANGED <<ledger, manifests, authorized, protocols, objects, crashes>>

\* The executor is about to send the create request of operation o.  (The ids
\* it refers to are always known here: DependenciesFirst.)
AtCreate(w, o) ==
  /\ IsCurrent(worker[w].doc, o)
  /\ \/ worker[w].pc = "creating"
     \/ worker[w].pc = "operation" /\ o \notin Videos

CreateObject(w, o) ==
  /\ AtCreate(w, o)
  /\ \/ /\ objects' = Append(objects, NewObject(w, o, "object", TRUE))
        /\ worker' = [worker EXCEPT ![w].pc = "reading",
                                    ![w].created = Len(objects) + 1]
     \/ WriteFails(w, o, "object")
  /\ UNCHANGED <<ledger, manifests, authorized, protocols, crashes>>

\* An error of the executor itself before a write: a plan, a reconciled operation
\* or a configuration that does not fit.  The operation records nothing.
AbandonBeforeWrite(w) ==
  /\ worker[w].pc \in {"operation", "creating"} /\ Pending(worker[w].doc) # {}
  /\ worker' = [worker EXCEPT ![w].pc = "engaging"]
  /\ UNCHANGED <<ledger, manifests, authorized, protocols, objects, crashes>>

\* Reads the created object back: safe, not paused, or not readable.
ReadObject(w, o) ==
  LET p == worker[w].doc
      id == worker[w].created
      paused == o \in Creatives \/ objects[id].paused
      Observe(status, observed) ==
        [p.operations[o] EXCEPT !.status = status, !.object = id,
                                !.observed = observed]
  IN  /\ worker[w].pc = "reading" /\ IsCurrent(p, o)
      /\ \/ /\ paused
            /\ worker' = [worker EXCEPT
                 ![w].pc = "storing",
                 ![w].doc.operations[o] = Observe("succeeded", "paused"),
                 ![w].doc.written = TRUE]
         \/ /\ ~paused
            /\ worker' = [worker EXCEPT
                 ![w].pc = "alarming",
                 ![w].doc.operations[o] = Observe("failed", "active")]
         \/ \E status \in {"uncertain", "failed"} :
              worker' = [worker EXCEPT
                ![w].pc = "engaging",
                ![w].doc.operations[o] = Observe(status, "none")]
      /\ UNCHANGED <<ledger, manifests, authorized, protocols, objects, crashes>>

StoreOperation(w) == Store(w, "storing", "operation")

\* An object that is not paused engages the campaign's switch before the
\* attempt fails; an error here is one more failure of the attempt.
Alarm(w) ==
  /\ worker[w].pc = "alarming"
  /\ AppendNext(Campaign, "engaged") \/ UNCHANGED ledger
  /\ worker' = [worker EXCEPT ![w].pc = "engaging"]
  /\ UNCHANGED <<manifests, authorized, protocols, objects, crashes>>

\* Mutant: the catch block closes the attempt without engaging the switch.
EngageNothing(w) ==
  /\ worker[w].pc = "engaging"
  /\ worker' = [worker EXCEPT ![w].pc = "failing"]
  /\ UNCHANGED <<ledger, manifests, authorized, protocols, objects, crashes>>

\* The catch block engages the campaign's switch, then closes the attempt.
Engage(w) ==
  /\ worker[w].pc = "engaging"
  /\ AppendNext(Campaign, "engaged")
  /\ worker' = [worker EXCEPT ![w].pc = "failing"]
  /\ UNCHANGED <<manifests, authorized, protocols, objects, crashes>>

Fail(w) ==
  /\ worker[w].pc = "failing"
  /\ UpdateExecution(w, [worker[w].doc EXCEPT !.status = "failed"])
  /\ Return(w)
  /\ UNCHANGED <<ledger, manifests, authorized, objects, crashes>>

Succeed(w) ==
  /\ worker[w].pc = "operation" /\ Pending(worker[w].doc) = {}
  /\ UpdateExecution(w, [worker[w].doc EXCEPT !.status = "succeeded"])
  /\ Return(w)
  /\ UNCHANGED <<ledger, manifests, authorized, objects, crashes>>

\* The process dies, or the catch block or the last update (whose promise is
\* returned without await) fails on the database: nothing resumes the request.
\* A write request already sent may still be carried out.
Crash(w) ==
  /\ worker[w].pc \in Executing
  /\ crashes < MaxCrashes
  /\ crashes' = crashes + 1
  /\ Return(w)
  /\ \/ UNCHANGED objects
     \/ \E o \in Ops, kind \in {"object", "video"} :
          /\ IF kind = "object" THEN AtCreate(w, o) ELSE AtUpload(w, o)
          /\ objects' = Append(objects, NewObject(w, o, kind, FALSE))
  /\ UNCHANGED <<ledger, manifests, authorized, protocols>>

\* A request that has not begun to execute ends with an error: a stale plan, a
\* connection or assets that are not ready, cities Meta does not know, an object
\* that cannot be read, a database error.
GiveUp(w) ==
  /\ worker[w].pc \notin Executing \cup {"idle"}
  /\ Return(w)
  /\ UNCHANGED <<ledger, manifests, authorized, protocols, objects, crashes>>

-----------------------------------------------------------------------------

\* The steps a request takes once it has started, up to its end.
Preparing(w) ==
  \/ \E o \in Ops : ReconcileRead(w, o)
  \/ ReconcileAlarm(w) \/ StoreReconciled(w) \/ Prepare(w) \/ InsertProtocol(w)

Checking(w) ==
  \/ \E t \in Targets : ReadSwitch(w, t)
  \/ ReadProtocol(w) \/ BeginExecution(w)

Execute(w) ==
  \/ \E o \in Ops :
       UploadVideo(w, o) \/ AwaitVideo(w, o) \/ CreateObject(w, o) \/ ReadObject(w, o)
  \/ StoreMedia(w) \/ StoreOperation(w) \/ AbandonBeforeWrite(w)
  \/ Alarm(w) \/ Engage(w) \/ Fail(w) \/ Succeed(w)

Request(w) == Preparing(w) \/ Checking(w) \/ Execute(w) \/ GiveUp(w)

Environment ==
  \/ PrepareManifest
  \/ \E m \in Manifests : Authorize(m) \/ EndAuthorization(m)
  \/ \E t \in {Tenant, Campaign}, status \in SwitchStatus : ChangeSwitch(t, status)
  \/ \E i \in DOMAIN objects : ChangeAtMeta(i)

Next ==
  \/ Environment
  \/ \E w \in Workers :
       \/ \E m \in Manifests : StartPrepare(w, m) \/ StartExecute(w, m)
       \/ Request(w)
       \/ Crash(w)

Spec == Init /\ [][Next]_vars

\* The server runs every request it has accepted to its end.
FairSpec == Spec /\ \A w \in Workers : WF_vars(Request(w))

-----------------------------------------------------------------------------
(* Properties.                                                             *)

Object == [manifest : Manifests, operation : Ops, kind : {"object", "video"},
           paused : BOOLEAN, answered : BOOLEAN]

\* Every variable, and every protocol document held by a row or by a request,
\* has the shape its TypeScript contract gives it.
TypeOK ==
  /\ ledger \in [Targets -> Seq(SwitchStatus)]
  /\ manifests \in 0..MaxManifests
  /\ authorized \subseteq Manifests
  /\ protocols \in [Manifests -> Seq(Protocol)]
  /\ objects \in Seq(Object)
  /\ worker \in [Workers -> Worker]
  /\ \A w \in Workers : worker[w].pc # "idle" => worker[w].manifest # 0
  /\ crashes \in 0..MaxCrashes

\* Two requests never execute the same manifest at the same time, whatever the
\* interleaving of their checks, and the one that does executes its latest
\* attempt, whose row is running: no other request can take or replace it.
OneExecutorPerManifest ==
  \A w \in Workers : worker[w].pc \in Executing =>
    /\ worker[w].attempt = Len(protocols[worker[w].manifest])
    /\ LatestProtocol(worker[w].manifest).status = "running"
    /\ \A x \in Workers \ {w} :
         worker[x].pc \in Executing => worker[x].manifest # worker[w].manifest

\* The attempts of a manifest form a chain: prepare never forks it by deriving
\* two different attempts from one failure, and an attempt is only followed by
\* another when it failed and every object it recorded was reconciled.
AttemptsFormAChain ==
  \A m \in Manifests : \A a \in DOMAIN protocols[m] :
    /\ protocols[m][a].attempt = a
    /\ a < Len(protocols[m]) =>
         /\ protocols[m][a].status = "failed"
         /\ Unreconciled(protocols[m][a]) = {}
         /\ ProtocolHash(protocols[m][a + 1]) = ProtocolHash(Retry(protocols[m][a]))

\* An effect whose answer reached the server is never sent to Meta again by a
\* later attempt of the same manifest: after the first answered creation of an
\* operation's object (or video) there is no other one.
AnsweredEffectsNotRepeated ==
  \A i, j \in DOMAIN objects :
    /\ i < j
    /\ objects[i].manifest = objects[j].manifest
    /\ objects[i].operation = objects[j].operation
    /\ objects[i].kind = objects[j].kind
    => ~objects[i].answered

\* An object was created only after each object it refers to had been created
\* for the same manifest with an answer, in this attempt or an earlier one.
DependenciesFirst ==
  \A i \in DOMAIN objects : objects[i].kind = "object" =>
    \A d \in Deps[objects[i].operation] : \E j \in 1..(i - 1) :
      /\ objects[j].manifest = objects[i].manifest
      /\ objects[j].operation = d
      /\ objects[j].kind = "object" /\ objects[j].answered

\* A protocol that reports success holds, for every operation of the manifest,
\* the id of an object that Meta created for that very operation and that was
\* read back as paused.
SucceededIsComplete ==
  \A m \in Manifests : \A a \in DOMAIN protocols[m] :
    protocols[m][a].status = "succeeded" =>
      \A o \in Ops : LET id == ReconciledId(protocols[m][a], o) IN
        /\ id \in DOMAIN objects
        /\ objects[id].manifest = m /\ objects[id].operation = o
        /\ objects[id].kind = "object" /\ objects[id].answered

Records(p, i) ==
  \E o \in Ops : i \in {p.operations[o].object, p.operations[o].media,
                       p.reconciled[o], p.preserved[o]}

\* No object the server was told about is forgotten: its id is in a protocol of
\* its manifest, or in the hands of the request executing that manifest, unless
\* a request that crashed left the attempt running.
AnsweredObjectsAreTracked ==
  \A i \in DOMAIN objects : objects[i].answered =>
    LET m == objects[i].manifest
        executors == {w \in Workers : /\ worker[w].pc \in Executing
                                      /\ worker[w].manifest = m}
    IN  \/ \E a \in DOMAIN protocols[m] : Records(protocols[m][a], i)
        \/ \E w \in executors : worker[w].created = i \/ Records(worker[w].doc, i)
        \/ executors = {} /\ LatestProtocol(m).status = "running"

\* Every effect that Meta answered is asked for once, after those it refers to; its id is
\* not lost, and success is only announced when there is one for every operation.
EffectsAreAccountedFor ==
  /\ AnsweredEffectsNotRepeated
  /\ DependenciesFirst
  /\ AnsweredObjectsAreTracked
  /\ SucceededIsComplete

\* The status of an attempt only moves forward, and a finished attempt is
\* rewritten only to reconcile it: whole-document updates from requests holding
\* old copies never undo a recorded object or reopen an attempt.
AttemptsOnlyAdvance ==
  [][\A m \in Manifests : \A a \in DOMAIN protocols[m] :
       LET old == protocols[m][a]
           new == protocols'[m][a]
       IN  /\ <<old.status, new.status>> \in
                {<<"prepared", "prepared">>, <<"prepared", "running">>,
                 <<"running", "running">>, <<"running", "failed">>,
                 <<"running", "succeeded">>, <<"failed", "failed">>,
                 <<"succeeded", "succeeded">>}
           /\ old.status = "succeeded" => new = old
           /\ \A o \in Ops : ReconciledId(old, o) # 0
                                => ReconciledId(new, o) = ReconciledId(old, o)]_protocols

\* The status of attempt a of a manifest, if it was prepared.
AttemptStatus(m, a) ==
  IF a \in DOMAIN protocols[m] THEN protocols[m][a].status ELSE "absent"

-----------------------------------------------------------------------------
(* The inductive invariant behind OneExecutorPerManifest and               *)
(* AttemptsFormAChain: what each request knows of the row it will write.   *)

Reconciling == {"reconciling", "alarmingReconciled", "storingReconciled"}

SucceededAreSafe(p) ==
  \A o \in Ops : p.operations[o].status = "succeeded" => Safe(p.operations[o])

\* A request's document p is a copy of row q up to statuses and observations.
CopyOf(p, q) ==
  /\ ProtocolHash(p) = ProtocolHash(q)
  /\ \A o \in Ops : /\ p.operations[o].object = q.operations[o].object
                    /\ p.operations[o].media = q.operations[o].media

RowsInvariant ==
  \A m \in Manifests : \A a \in DOMAIN protocols[m] :
    /\ SucceededAreSafe(protocols[m][a])
    /\ a = 1 => ProtocolHash(protocols[m][a]) = ProtocolHash(FirstAttempt)

\* What a request, with local state r, relies on.
RequestInvariant(r) ==
  LET m == r.manifest
      a == r.attempt
      p == r.doc
  IN  /\ SucceededAreSafe(p)
      /\ r.pc \in Reconciling =>
           /\ a \in DOMAIN protocols[m]
           /\ p.status = "failed" /\ protocols[m][a].status = "failed"
           /\ CopyOf(p, protocols[m][a])
      /\ r.pc = "storingReconciled" => ToReconcile(p) = {}
      /\ r.pc = "inserting" =>
           /\ p.status = "prepared"
           /\ \/ ProtocolHash(p) = ProtocolHash(FirstAttempt)
              \/ \E b \in DOMAIN protocols[m] :
                   /\ protocols[m][b].status = "failed"
                   /\ Unreconciled(protocols[m][b]) = {}
                   /\ ProtocolHash(p) = ProtocolHash(Retry(protocols[m][b]))
      /\ r.pc \in Executing \cup {"begin"} =>
           /\ a \in DOMAIN protocols[m]
           /\ ProtocolHash(p) = ProtocolHash(protocols[m][a])
      /\ r.pc \in Executing => p.status = "running"
      /\ r.pc = "reading" => r.created # 0

\* Proved inductive in MetaExecutionProofs.
ProtocolInvariant ==
  /\ RowsInvariant
  /\ AttemptsFormAChain
  /\ OneExecutorPerManifest
  /\ \A w \in Workers : RequestInvariant(worker[w])

-----------------------------------------------------------------------------
(* The inductive invariant behind the properties of effects and objects,   *)
(* and behind the refinement: where the ids in a document come from, how   *)
(* far an attempt got, and who holds the id of an answered effect.         *)

\* id, if there is one, is that of an effect of operation o of m that Meta answered.
Answered(id, m, o, kind) ==
  id # 0 => /\ id \in DOMAIN objects
            /\ objects[id].manifest = m /\ objects[id].operation = o
            /\ objects[id].kind = kind /\ objects[id].answered

RecordsOwn(m, p) ==
  \A o \in Ops : /\ Answered(p.operations[o].object, m, o, "object")
                 /\ Answered(p.reconciled[o], m, o, "object")
                 /\ Answered(p.operations[o].media, m, o, "video")
                 /\ Answered(p.preserved[o], m, o, "video")

Done(p, o) == p.operations[o].status \in {"carried", "succeeded"}

\* An operation is carried when it has a reconciled id and records an object only
\* once it was executed; the first one that fails ends the attempt.
OperationsInOrder(p) ==
  \A o \in Ops :
    LET op == p.operations[o]
    IN  /\ op.status = "carried" <=> p.reconciled[o] # 0
        /\ op.status \in {"carried", "pending"} => op.object = 0
        /\ op.status \in {"uncertain", "failed"} => \A d \in 1..(o - 1) : Done(p, d)

StatusFits(p) ==
  \A o \in Ops :
    /\ p.status = "prepared" => /\ p.operations[o].status \in {"carried", "pending"}
                                /\ p.operations[o].media = 0
    /\ p.status = "succeeded" => Done(p, o)

DocumentInvariant(m, p) == RecordsOwn(m, p) /\ OperationsInOrder(p) /\ StatusFits(p)

\* No operation of p failed.
Unbroken(p) == \A o \in Ops : Done(p, o) \/ p.operations[o].status = "pending"

RowsFit ==
  \A m \in Manifests : \A a \in DOMAIN protocols[m] :
    /\ DocumentInvariant(m, protocols[m][a])
    /\ protocols[m][a].status = "running" => Unbroken(protocols[m][a])

AtOperation == {"storingMedia", "video", "creating", "reading"}

\* What a request, with local state r, knows of the effects of its attempt: its document
\* is its row and at most one more operation, the first that is pending in the row.
EffectsKnown(r) ==
  LET p == r.doc
      q == protocols[r.manifest][r.attempt]
  IN  /\ DocumentInvariant(r.manifest, p)
      /\ r.pc = "inserting" => \E o \in Ops : p.reconciled[o] = 0
      /\ r.pc = "begin" => p.status = "prepared"
      /\ r.pc \in AtOperation \cup {"operation", "storing"} =>
           /\ Unbroken(p)
           /\ \A o \in Pending(p) :
                p.operations[o].media = 0 \/ (r.pc \in AtOperation /\ IsCurrent(p, o))
      /\ r.pc \in AtOperation \cup {"operation"} => Pending(q) = Pending(p)
      /\ r.pc = "reading" =>
           \A o \in Ops : IsCurrent(p, o) => Answered(r.created, r.manifest, o, "object")
      /\ r.pc \in Executing =>
           \A o \in Ops :
             IF o \in Pending(q) THEN o \in Pending(p) \/ IsCurrent(q, o)
             ELSE p.operations[o] = q.operations[o]

\* The id of effect i is in p.
Holds(p, i) ==
  LET o == objects[i].operation
  IN  IF objects[i].kind = "object" THEN i \in {p.operations[o].object, p.reconciled[o]}
      ELSE i \in {p.operations[o].media, p.preserved[o]}

\* An answered effect is known to the request that executes its manifest, or, when there
\* is none, to the latest row, unless a request that died left that row running.
AnsweredAreHeld ==
  \A i \in DOMAIN objects : objects[i].answered =>
    LET m == objects[i].manifest
        executors == {w \in Workers : worker[w].pc \in Executing /\ worker[w].manifest = m}
    IN  /\ protocols[m] # <<>>
        /\ \A w \in executors : \/ Holds(worker[w].doc, i)
                                \/ worker[w].pc = "reading" /\ worker[w].created = i
        /\ executors = {} => \/ LatestProtocol(m).status = "running"
                             \/ Holds(LatestProtocol(m), i)

\* Proved inductive, on top of ProtocolInvariant, in MetaExecutionProofs.
EffectInvariant ==
  /\ RowsFit
  /\ \A w \in Workers : EffectsKnown(worker[w])
  /\ AnsweredAreHeld
  /\ AnsweredEffectsNotRepeated
  /\ DependenciesFirst

-----------------------------------------------------------------------------
(* Refinement: the protocol rows implement ControlledCreation.             *)

Phase(m) == IF protocols[m] = <<>> THEN "none" ELSE LatestProtocol(m).status

Recorded(m, o) == IF protocols[m] = <<>> THEN 0 ELSE ReconciledId(LatestProtocol(m), o)

Promise == INSTANCE ControlledCreation WITH
  Operations <- Ops,
  Ids <- Nat \ {0},
  phase <- [m \in Manifests |-> Phase(m)],
  recorded <- [m \in Manifests |-> [o \in Ops |-> Recorded(m, o)]]

\* Attempts, retries, reconciliation and crashes, as the rows show them, keep
\* the promise: ids on record survive every retry, and every step of the rows is
\* one step of the promise.
KeepsThePromise == Promise!Spec

-----------------------------------------------------------------------------
(* What the documentation says and the code does not ensure.               *)

\* "Resultado externo incerto bloqueia retries até reconciliação": a creation
\* whose outcome is unknown is not sent again.
UnknownOutcomeNotRetried ==
  \A i, j \in DOMAIN objects :
    /\ i < j
    /\ objects[i].manifest = objects[j].manifest
    /\ objects[i].operation = objects[j].operation
    /\ objects[i].kind = objects[j].kind
    => objects[i].answered

\* The manifest's precondition kill_switch_open has timing
\* 'revalidate_immediately_before_write': no object is created at Meta while a
\* switch is not released.
SwitchOpenAtEveryWrite ==
  [][Len(objects') > Len(objects) =>
       \A t \in {Tenant, Campaign} : Latest(t) = "released"]_vars

\* The idempotency key of an effect is derived from the plan and the operation,
\* not from the manifest: one plan creates the effect of an operation once.
EffectCreatedOncePerPlan ==
  \A i, j \in DOMAIN objects :
    /\ i # j /\ objects[i].operation = objects[j].operation
    /\ objects[i].kind = objects[j].kind
    => ~(objects[i].answered /\ objects[j].answered)
=============================================================================
