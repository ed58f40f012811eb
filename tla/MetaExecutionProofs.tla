------------------------- MODULE MetaExecutionProofs -------------------------
(***************************************************************************)
(* Theorems about MetaExecution, for every number of requests, operations, *)
(* manifests and attempts: its states are well typed, at most one request  *)
(* executes a manifest, and the attempts of a manifest form a chain.  The  *)
(* last two follow from ProtocolInvariant, which is inductive.             *)
(*                                                                         *)
(* So is EffectInvariant: no answered effect is repeated, forgotten or     *)
(* created before what it refers to.  And every step replaces one row,     *)
(* adds one or leaves them alone: rows only advance, and each step is one  *)
(* of ControlledCreation or none.                                          *)
(***************************************************************************)
EXTENDS MetaExecution, SequenceTheorems, TLAPS

LEMMA NewProtocolType ==
  ASSUME NEW attempt \in Nat \ {0}, NEW reconciled \in [Ops -> Nat],
         NEW preserved \in [Ops -> Nat]
  PROVE  NewProtocol(attempt, reconciled, preserved) \in Protocol
BY DEF NewProtocol, NewOperation, Protocol, Operation, ProtocolStatus

LEMMA FirstAttemptType == FirstAttempt \in Protocol
<1>1. [o \in Ops |-> 0] \in [Ops -> Nat] OBVIOUS
<1>2. 1 \in Nat \ {0} OBVIOUS
<1> QED BY <1>1, <1>2, NewProtocolType DEF FirstAttempt

LEMMA RetryType == ASSUME NEW p \in Protocol PROVE Retry(p) \in Protocol
<1>1. p.attempt + 1 \in Nat \ {0} BY DEF Protocol
<1>2. [o \in Ops |-> ReconciledId(p, o)] \in [Ops -> Nat]
  BY DEF ReconciledId, Protocol, Operation
<1>3. [o \in Ops |-> PreservedId(p, o)] \in [Ops -> Nat]
  BY DEF PreservedId, Protocol, Operation
<1> QED BY <1>1, <1>2, <1>3, NewProtocolType DEF Retry

LEMMA IdleType == Idle \in Worker
BY FirstAttemptType DEF Idle, Worker, Executing

LEMMA ReturnType ==
  ASSUME NEW w \in Workers, worker \in [Workers -> Worker], Return(w)
  PROVE  worker' \in [Workers -> Worker]
BY IdleType DEF Return

\* A request's document with the record of one operation replaced.
LEMMA SetOperationType ==
  ASSUME NEW p \in Protocol, NEW o, NEW op \in Operation
  PROVE  [p EXCEPT !.operations[o] = op] \in Protocol
BY DEF Protocol

LEMMA AppendNextType ==
  ASSUME ledger \in [Targets -> Seq(SwitchStatus)],
         NEW t \in Targets, NEW status \in SwitchStatus, AppendNext(t, status)
  PROVE  ledger' \in [Targets -> Seq(SwitchStatus)]
BY DEF AppendNext, Latest

LEMMA LatestProtocolType ==
  ASSUME TypeOK, NEW m \in Manifests, protocols[m] # <<>>
  PROVE  /\ Len(protocols[m]) \in DOMAIN protocols[m]
         /\ LatestProtocol(m) \in Protocol
BY DEF TypeOK, LatestProtocol

LEMMA ReplaceInSeq ==
  ASSUME NEW S, NEW s \in Seq(S), NEW i, NEW e \in S
  PROVE  /\ [s EXCEPT ![i] = e] \in Seq(S)
         /\ Len([s EXCEPT ![i] = e]) = Len(s)
         /\ DOMAIN [s EXCEPT ![i] = e] = DOMAIN s
<1>1. DOMAIN s = 1..Len(s) /\ s \in [1..Len(s) -> S] BY LenProperties
<1>2. CASE i \in DOMAIN s BY <1>1, <1>2, ExceptSeq
<1>3. CASE i \notin DOMAIN s
  <2>1. [s EXCEPT ![i] = e] = s BY <1>1, <1>3
  <2> QED BY <2>1
<1> QED BY <1>2, <1>3

LEMMA ManifestType ==
  ASSUME TypeOK, NEW w \in Workers, worker[w].pc # "idle"
  PROVE  worker[w].manifest \in Manifests
BY DEF TypeOK, Worker

LEMMA UpdateExecutionType ==
  ASSUME TypeOK, NEW w \in Workers, worker[w].pc # "idle",
         NEW p \in Protocol, UpdateExecution(w, p)
  PROVE  protocols' \in [Manifests -> Seq(Protocol)]
<1> DEFINE m == worker[w].manifest
           s == [protocols[m] EXCEPT ![worker[w].attempt] = p]
<1>1. m \in Manifests BY ManifestType
<1>2. s \in Seq(Protocol) BY <1>1, ReplaceInSeq DEF TypeOK
<1>3. protocols' = [protocols EXCEPT ![m] = s] BY DEF UpdateExecution
<1> QED BY <1>1, <1>2, <1>3 DEF TypeOK

-----------------------------------------------------------------------------
(* Type correctness.                                                       *)

LEMMA InitTypeOK == Init => TypeOK
<1> SUFFICES ASSUME Init PROVE TypeOK OBVIOUS
<1> USE DEF Init, AuthorizedInit
<1>1. ledger \in [Targets -> Seq(SwitchStatus)] BY DEF LedgerInit
<1>2. manifests \in 0..MaxManifests /\ crashes \in 0..MaxCrashes BY BoundAssumption
<1>3. worker \in [Workers -> Worker] BY IdleType
<1>4. \A w \in Workers : worker[w].pc = "idle" BY DEF Idle
<1>5. objects \in Seq(Object) /\ protocols \in [Manifests -> Seq(Protocol)] OBVIOUS
<1> QED BY <1>1, <1>2, <1>3, <1>4, <1>5 DEF TypeOK

LEMMA EnvironmentTypeOK == TypeOK /\ Environment => TypeOK'
<1> SUFFICES ASSUME TypeOK, Environment PROVE TypeOK' OBVIOUS
<1> USE DEF TypeOK
<1>1. CASE PrepareManifest BY <1>1, BoundAssumption DEF PrepareManifest, NewManifest
<1>2. ASSUME NEW m \in Manifests, Authorize(m) \/ EndAuthorization(m) PROVE TypeOK'
  BY <1>2 DEF Authorize, EndAuthorization, Grant, Withdraw
<1>3. ASSUME NEW t \in {Tenant, Campaign}, NEW status \in SwitchStatus,
             ChangeSwitch(t, status)
      PROVE  TypeOK'
  BY <1>3, AppendNextType, SwitchAssumption DEF ChangeSwitch, Change
<1>4. ASSUME NEW i \in DOMAIN objects, ChangeAtMeta(i) PROVE TypeOK'
  <2>0. objects[i] \in Object BY LenProperties, ElementOfSeq
  <2>1. [objects[i] EXCEPT !.paused = ~@] \in Object
    <3>1. \A b \in BOOLEAN : [objects[i] EXCEPT !.paused = b] \in Object
      BY <2>0 DEF Object
    <3> QED BY <3>1, Zenon
  <2>2. objects' \in Seq(Object) BY <1>4, <2>1, ReplaceInSeq DEF ChangeAtMeta
  <2> QED BY <1>4, <2>2 DEF ChangeAtMeta
<1> QED BY <1>1, <1>2, <1>3, <1>4 DEF Environment

\* A request moves on with another document.
LEMMA WorkerStepType ==
  ASSUME TypeOK, NEW w \in Workers, NEW r \in Worker,
         worker' = [worker EXCEPT ![w] = r], r.pc # "idle" => r.manifest # 0
  PROVE  /\ worker' \in [Workers -> Worker]
         /\ \A x \in Workers : worker'[x].pc # "idle" => worker'[x].manifest # 0
BY DEF TypeOK

LEMMA ReturnStepType ==
  ASSUME TypeOK, NEW w \in Workers, Return(w)
  PROVE  /\ worker' \in [Workers -> Worker]
         /\ \A x \in Workers : worker'[x].pc # "idle" => worker'[x].manifest # 0
<1>1. Idle.pc = "idle" BY DEF Idle
<1> QED BY <1>1, IdleType, WorkerStepType DEF Return

LEMMA StartTypeOK ==
  ASSUME TypeOK, NEW w \in Workers, NEW m \in Manifests,
         StartPrepare(w, m) \/ StartExecute(w, m)
  PROVE  TypeOK'
<1>1. CASE StartPrepare(w, m)
  <2> DEFINE old == LatestProtocol(m)
             r1 == [Idle EXCEPT !.pc = "reconciling", !.manifest = m,
                                !.attempt = Len(protocols[m]), !.doc = old]
             r2 == [Idle EXCEPT !.pc = "preparing", !.manifest = m]
  <2>0. m # 0 BY BoundAssumption DEF Manifests
  <2>1. protocols[m] # <<>> => r1 \in Worker /\ r1.pc = "reconciling" /\ r1.manifest # 0
    BY <2>0, LatestProtocolType, LenProperties, IdleType DEF Worker, TypeOK
  <2>2. r2 \in Worker /\ r2.manifest # 0 BY <2>0, IdleType DEF Worker
  <2>3. \/ protocols[m] # <<>> /\ worker' = [worker EXCEPT ![w] = r1]
        \/ worker' = [worker EXCEPT ![w] = r2]
    BY <1>1 DEF StartPrepare
  <2>4. /\ worker' \in [Workers -> Worker]
        /\ \A x \in Workers : worker'[x].pc # "idle" => worker'[x].manifest # 0
    BY <2>1, <2>2, <2>3, WorkerStepType
  <2> QED BY <1>1, <2>4 DEF StartPrepare, TypeOK
<1>2. CASE StartExecute(w, m)
  <2> DEFINE r == [Idle EXCEPT !.pc = "switches", !.manifest = m,
                               !.toRead = {Tenant, Campaign}]
  <2>0. m # 0 BY BoundAssumption DEF Manifests
  <2>1. r \in Worker /\ r.manifest # 0 BY <2>0, IdleType, SwitchAssumption DEF Worker
  <2>2. /\ worker' \in [Workers -> Worker]
        /\ \A x \in Workers : worker'[x].pc # "idle" => worker'[x].manifest # 0
    BY <1>2, <2>1, WorkerStepType DEF StartExecute
  <2> QED BY <1>2, <2>2 DEF StartExecute, TypeOK
<1> QED BY <1>1, <1>2

LEMMA PreparingTypeOK ==
  ASSUME TypeOK, NEW w \in Workers, Preparing(w)
  PROVE  TypeOK'
<1> DEFINE r == worker[w]
           m == r.manifest
           WorkerTypeOK ==
             /\ worker' \in [Workers -> Worker]
             /\ \A x \in Workers : worker'[x].pc # "idle" => worker'[x].manifest # 0
<1>0. r \in Worker BY DEF TypeOK
<1>1. ASSUME NEW o \in Ops, ReconcileRead(w, o) PROVE TypeOK'
  <2> DEFINE op == [r.doc.operations[o] EXCEPT !.status = "succeeded", !.observed = "paused"]
             doc == [r.doc EXCEPT !.operations[o] = op]
             pc == IF ToReconcile(doc) = {} THEN "storingReconciled" ELSE r.pc
             r1 == [r EXCEPT !.doc = doc, !.pc = pc]
             r2 == [r EXCEPT !.pc = "alarmingReconciled"]
  <2>0. r.doc.operations[o] \in Operation BY <1>0 DEF Worker, Protocol
  <2>1. op \in Operation BY <2>0 DEF Operation
  <2>2. doc \in Protocol BY <1>0, <2>1, SetOperationType DEF Worker
  <2>3. doc = [r.doc EXCEPT !.operations[o].status = "succeeded",
                            !.operations[o].observed = "paused"]
    BY <1>0 DEF Worker, Protocol, Operation
  <2>4. worker' = [worker EXCEPT ![w] = r1] \/ worker' = [worker EXCEPT ![w] = r2]
    BY <1>0, <1>1, <2>3 DEF ReconcileRead, TypeOK
  <2>5. r.pc = "reconciling" /\ m # 0 BY <1>1 DEF ReconcileRead, TypeOK
  <2>6. r1 \in Worker /\ r2 \in Worker /\ r1.manifest = m /\ r2.manifest = m
    BY <1>0, <2>2, <2>5 DEF Worker
  <2>7. WorkerTypeOK BY <2>4, <2>5, <2>6, WorkerStepType
  <2> QED BY <1>1, <2>7 DEF ReconcileRead, TypeOK
<1>2. CASE ReconcileAlarm(w)
  BY <1>2, ReturnStepType, AppendNextType, SwitchAssumption
  DEF ReconcileAlarm, TypeOK, SwitchStatus
<1>3. CASE StoreReconciled(w)
  <2> DEFINE r1 == [Idle EXCEPT !.pc = "preparing", !.manifest = m]
  <2>1. r.pc # "idle" BY <1>3 DEF StoreReconciled
  <2>2. protocols' \in [Manifests -> Seq(Protocol)]
    BY <1>0, <1>3, <2>1, UpdateExecutionType DEF StoreReconciled, Worker
  <2>3. r1 \in Worker /\ r1.manifest # 0
    BY <1>0, <2>1, IdleType DEF Worker, TypeOK
  <2>4. WorkerTypeOK BY <1>3, <2>3, WorkerStepType DEF StoreReconciled
  <2> QED BY <1>3, <2>2, <2>4 DEF StoreReconciled, TypeOK
<1>4. CASE Prepare(w)
  <2> DEFINE d == IF protocols[m] = <<>> THEN FirstAttempt ELSE Retry(LatestProtocol(m))
             r1 == [r EXCEPT !.pc = "inserting", !.doc = d]
  <2>1. r.pc = "preparing" /\ m \in Manifests /\ m # 0
    BY <1>4, ManifestType DEF Prepare, Manifests
  <2>2. d \in Protocol BY <2>1, FirstAttemptType, LatestProtocolType, RetryType
  <2>3. r1 \in Worker /\ r1.manifest # 0 BY <1>0, <2>1, <2>2 DEF Worker
  <2>4. worker' = [worker EXCEPT ![w] = r1] \/ Return(w)
    BY <1>0, <1>4 DEF Prepare, TypeOK
  <2>5. WorkerTypeOK BY <2>3, <2>4, WorkerStepType, ReturnStepType
  <2> QED BY <1>4, <2>5 DEF Prepare, TypeOK
<1>5. CASE InsertProtocol(w)
  <2>1. m \in Manifests /\ r.doc \in Protocol
    BY <1>0, <1>5, ManifestType DEF InsertProtocol, Worker
  <2>2. protocols' \in [Manifests -> Seq(Protocol)]
    BY <1>5, <2>1, AppendProperties DEF InsertProtocol, TypeOK
  <2> QED BY <1>5, <2>2, ReturnStepType DEF InsertProtocol, TypeOK
<1> QED BY <1>1, <1>2, <1>3, <1>4, <1>5 DEF Preparing

LEMMA CheckingTypeOK ==
  ASSUME TypeOK, NEW w \in Workers, Checking(w)
  PROVE  TypeOK'
<1> DEFINE r == worker[w]
           m == r.manifest
           WorkerTypeOK ==
             /\ worker' \in [Workers -> Worker]
             /\ \A x \in Workers : worker'[x].pc # "idle" => worker'[x].manifest # 0
<1>0. r \in Worker BY DEF TypeOK
<1>1. ASSUME NEW t \in Targets, ReadSwitch(w, t) PROVE TypeOK'
  <2> DEFINE pc == IF r.toRead = {t} THEN "protocol" ELSE r.pc
             r1 == [r EXCEPT !.toRead = r.toRead \ {t}, !.pc = pc]
  <2>1. r1 \in Worker /\ r1.manifest # 0 BY <1>0, <1>1 DEF ReadSwitch, Worker, TypeOK
  <2>2. worker' = [worker EXCEPT ![w] = r1] \/ Return(w)
    BY <1>0, <1>1 DEF ReadSwitch, TypeOK
  <2>3. WorkerTypeOK BY <2>1, <2>2, WorkerStepType, ReturnStepType
  <2> QED BY <1>1, <2>3 DEF ReadSwitch, TypeOK
<1>2. CASE ReadProtocol(w)
  <2> DEFINE r1 == [r EXCEPT !.pc = "begin", !.attempt = Len(protocols[m]),
                             !.doc = LatestProtocol(m)]
  <2>1. m \in Manifests /\ m # 0
    BY <1>2, ManifestType, BoundAssumption DEF ReadProtocol, Manifests
  <2>2. protocols[m] # <<>> => r1 \in Worker /\ r1.manifest # 0
    BY <1>0, <2>1, LatestProtocolType, LenProperties DEF Worker, TypeOK
  <2>3. \/ protocols[m] # <<>> /\ worker' = [worker EXCEPT ![w] = r1]
        \/ Return(w)
    BY <1>0, <1>2 DEF ReadProtocol, TypeOK
  <2>4. WorkerTypeOK BY <2>2, <2>3, WorkerStepType, ReturnStepType
  <2> QED BY <1>2, <2>4 DEF ReadProtocol, TypeOK
<1>3. CASE BeginExecution(w)
  <2> DEFINE running == [r.doc EXCEPT !.status = "running"]
             s == [protocols[m] EXCEPT ![r.attempt] = running]
             r1 == [r EXCEPT !.pc = "operation", !.doc = running]
  <2>1. m \in Manifests /\ m # 0
    BY <1>3, ManifestType, BoundAssumption DEF BeginExecution, Manifests
  <2>2. running \in Protocol BY <1>0 DEF Worker, Protocol, ProtocolStatus
  <2>3. r1 \in Worker /\ r1.manifest # 0 BY <1>0, <2>1, <2>2 DEF Worker, Executing
  <2>4. s \in Seq(Protocol) BY <2>1, <2>2, ReplaceInSeq DEF TypeOK
  <2>5. \/ /\ worker' = [worker EXCEPT ![w] = r1]
           /\ protocols' = [protocols EXCEPT ![m] = s]
        \/ Return(w) /\ UNCHANGED protocols
    BY <1>0, <1>3 DEF BeginExecution, TypeOK
  <2>6. WorkerTypeOK BY <2>3, <2>5, WorkerStepType, ReturnStepType
  <2>7. protocols' \in [Manifests -> Seq(Protocol)] BY <2>1, <2>4, <2>5 DEF TypeOK
  <2> QED BY <1>3, <2>6, <2>7 DEF BeginExecution, TypeOK
<1> QED BY <1>1, <1>2, <1>3 DEF Checking

\* An executing request moves on with the document d.
LEMMA ExecutorStepType ==
  ASSUME TypeOK, NEW w \in Workers, worker[w].pc # "idle",
         NEW pc \in Executing, NEW d \in Protocol,
         worker' = [worker EXCEPT ![w] = [worker[w] EXCEPT !.pc = pc, !.doc = d]]
  PROVE  /\ worker' \in [Workers -> Worker]
         /\ \A x \in Workers : worker'[x].pc # "idle" => worker'[x].manifest # 0
<1> DEFINE r1 == [worker[w] EXCEPT !.pc = pc, !.doc = d]
<1>1. worker[w] \in Worker /\ worker[w].manifest # 0 BY DEF TypeOK
<1>2. r1 \in Worker /\ r1.manifest # 0 BY <1>1 DEF Worker
<1> QED BY <1>2, WorkerStepType

LEMMA NewObjectType ==
  ASSUME TypeOK, NEW w \in Workers, worker[w].pc # "idle", NEW o \in Ops,
         NEW kind \in {"object", "video"}, NEW answered \in BOOLEAN
  PROVE  Append(objects, NewObject(w, o, kind, answered)) \in Seq(Object)
<1>1. worker[w].manifest \in Manifests BY ManifestType
<1>2. NewObject(w, o, kind, answered) \in Object BY <1>1 DEF NewObject, Object
<1> QED BY <1>2, AppendProperties DEF TypeOK

LEMMA StoreTypeOK ==
  ASSUME TypeOK, NEW w \in Workers, NEW pc \in Executing, NEW next \in Executing,
         Store(w, pc, next)
  PROVE  TypeOK'
<1> DEFINE r == worker[w]
           r1 == [r EXCEPT !.pc = next]
           r2 == [r EXCEPT !.pc = "engaging"]
<1>1. r \in Worker /\ r.pc # "idle" /\ r.manifest # 0
  BY DEF Store, TypeOK, Executing
<1>2. r1 \in Worker /\ r2 \in Worker /\ r1.manifest # 0 /\ r2.manifest # 0
  BY <1>1 DEF Worker, Executing
<1>3. /\ worker' \in [Workers -> Worker]
      /\ \A x \in Workers : worker'[x].pc # "idle" => worker'[x].manifest # 0
  BY <1>2, WorkerStepType DEF Store
<1>4. protocols' \in [Manifests -> Seq(Protocol)]
  BY <1>1, UpdateExecutionType DEF Store, Worker, TypeOK
<1> QED BY <1>3, <1>4 DEF Store, TypeOK

LEMMA WriteFailsTypeOK ==
  ASSUME TypeOK, NEW w \in Workers, worker[w].pc # "idle", NEW o \in Ops,
         NEW kind \in {"object", "video"}, WriteFails(w, o, kind)
  PROVE  /\ worker' \in [Workers -> Worker]
         /\ \A x \in Workers : worker'[x].pc # "idle" => worker'[x].manifest # 0
         /\ objects' \in Seq(Object)
<1> DEFINE r == worker[w]
<1>0. r \in Worker /\ r.doc \in Protocol /\ r.doc.operations[o] \in Operation
  BY DEF TypeOK, Worker, Protocol
<1>1. PICK status \in {"uncertain", "failed"} :
        worker' = [worker EXCEPT ![w].pc = "engaging",
                                 ![w].doc.operations[o].status = status]
  BY DEF WriteFails
<1> DEFINE op == [r.doc.operations[o] EXCEPT !.status = status]
           d == [r.doc EXCEPT !.operations[o] = op]
<1>2. op \in Operation BY <1>0 DEF Operation
<1>3. d \in Protocol BY <1>0, <1>2, SetOperationType
<1>4. worker' = [worker EXCEPT ![w] = [r EXCEPT !.pc = "engaging", !.doc = d]]
  BY <1>0, <1>1 DEF TypeOK, Worker
<1>5. objects' \in Seq(Object)
  <2>1. objects \in Seq(Object) BY DEF TypeOK
  <2>2. Append(objects, NewObject(w, o, kind, FALSE)) \in Seq(Object) BY NewObjectType
  <2>3. \/ objects' = objects
        \/ objects' = Append(objects, NewObject(w, o, kind, FALSE))
    BY Zenon DEF WriteFails
  <2> QED BY <2>1, <2>2, <2>3
<1>6. "engaging" \in Executing BY DEF Executing
<1> QED BY <1>3, <1>4, <1>5, <1>6, ExecutorStepType

LEMMA UploadVideoTypeOK ==
  ASSUME TypeOK, NEW w \in Workers, NEW o \in Ops, UploadVideo(w, o)
  PROVE  TypeOK'
<1> DEFINE r == worker[w]
           id == Len(objects) + 1
           op == [r.doc.operations[o] EXCEPT !.media = id]
           d == [r.doc EXCEPT !.operations[o] = op]
           e == [d EXCEPT !.written = TRUE]
<1>0. r \in Worker /\ r.doc \in Protocol /\ r.doc.operations[o] \in Operation
  BY DEF TypeOK, Worker, Protocol
<1>1. r.pc # "idle" BY DEF UploadVideo, AtUpload
<1>2. CASE WriteFails(w, o, "video")
  BY <1>1, <1>2, WriteFailsTypeOK DEF UploadVideo, TypeOK
<1>3. CASE /\ objects' = Append(objects, NewObject(w, o, "video", TRUE))
           /\ worker' = [worker EXCEPT ![w].pc = "storingMedia",
                                       ![w].doc.operations[o].media = id,
                                       ![w].doc.written = TRUE]
  <2>0. id \in Nat
    <3>1. Len(objects) \in Nat BY LenProperties DEF TypeOK
    <3> QED BY <3>1
  <2>1. op \in Operation
    <3> HIDE DEF id
    <3> QED BY <1>0, <2>0 DEF Operation
  <2>2. d \in Protocol BY <1>0, <2>1, SetOperationType
  <2>3. e \in Protocol BY <2>2 DEF Protocol
  <2>4. worker' = [worker EXCEPT ![w] = [r EXCEPT !.pc = "storingMedia", !.doc = e]]
    BY <1>0, <1>3 DEF TypeOK, Worker
  <2>5. "storingMedia" \in Executing BY DEF Executing
  <2>6. /\ worker' \in [Workers -> Worker]
        /\ \A x \in Workers : worker'[x].pc # "idle" => worker'[x].manifest # 0
    BY <1>1, <2>3, <2>4, <2>5, ExecutorStepType
  <2>7. objects' \in Seq(Object) BY <1>1, <1>3, NewObjectType
  <2> QED BY <2>6, <2>7 DEF UploadVideo, TypeOK
<1> QED BY <1>2, <1>3 DEF UploadVideo

LEMMA AwaitVideoTypeOK ==
  ASSUME TypeOK, NEW w \in Workers, NEW o \in Ops, AwaitVideo(w, o)
  PROVE  TypeOK'
<1> DEFINE r == worker[w]
           q == r.doc.operations[o]
           id == PreservedId(r.doc, o)
           d == [r.doc EXCEPT !.operations[o] = [q EXCEPT !.media = id]]
           e(status) ==
             [r.doc EXCEPT !.operations[o] = [q EXCEPT !.media = id, !.status = status]]
<1>0. r \in Worker /\ r.doc \in Protocol /\ q \in Operation
  BY DEF TypeOK, Worker, Protocol
<1>1. r.pc # "idle" BY DEF AwaitVideo
<1>2. id \in Nat BY <1>0 DEF PreservedId, Protocol, Operation
<1>3. [q EXCEPT !.media = id] \in Operation BY <1>0, <1>2 DEF Operation
<1>4. d \in Protocol BY <1>0, <1>3, SetOperationType
<1>6. ASSUME NEW status \in {"uncertain", "failed"} PROVE e(status) \in Protocol
  <2>1. [q EXCEPT !.media = id, !.status = status] \in Operation
    BY <1>0, <1>2 DEF Operation
  <2> QED BY <1>0, <2>1, SetOperationType
<1>7. {"creating", "engaging"} \subseteq Executing BY DEF Executing
<1>8. CASE worker' = [worker EXCEPT ![w].pc = "creating",
                                    ![w].doc.operations[o].media = id]
  <2> HIDE DEF id
  <2>1. worker' = [worker EXCEPT ![w] = [r EXCEPT !.pc = "creating", !.doc = d]]
    BY <1>0, <1>8 DEF TypeOK, Worker
  <2>2. /\ worker' \in [Workers -> Worker]
        /\ \A x \in Workers : worker'[x].pc # "idle" => worker'[x].manifest # 0
    BY <1>1, <1>4, <1>7, <2>1, ExecutorStepType
  <2> QED BY <2>2 DEF AwaitVideo, TypeOK
<1>9. ASSUME NEW status \in {"uncertain", "failed"},
             worker' = [worker EXCEPT ![w].pc = "engaging",
                                      ![w].doc.operations[o] =
                                        [@ EXCEPT !.media = id, !.status = status]]
      PROVE  TypeOK'
  <2> HIDE DEF id
  <2>1. worker' = [worker EXCEPT ![w] = [r EXCEPT !.pc = "engaging", !.doc = e(status)]]
    BY <1>0, <1>9 DEF TypeOK, Worker
  <2>2. e(status) \in Protocol BY <1>6
  <2>3. /\ worker' \in [Workers -> Worker]
        /\ \A x \in Workers : worker'[x].pc # "idle" => worker'[x].manifest # 0
    BY <1>1, <1>7, <2>1, <2>2, ExecutorStepType
  <2> QED BY <2>3 DEF AwaitVideo, TypeOK
<1> QED BY <1>8, <1>9 DEF AwaitVideo

LEMMA CreateObjectTypeOK ==
  ASSUME TypeOK, NEW w \in Workers, NEW o \in Ops, CreateObject(w, o)
  PROVE  TypeOK'
<1> DEFINE r == worker[w]
           r1 == [r EXCEPT !.pc = "reading", !.created = Len(objects) + 1]
<1>0. r \in Worker /\ r.manifest # 0 /\ r.pc # "idle"
  BY DEF TypeOK, CreateObject, AtCreate
<1>1. CASE WriteFails(w, o, "object")
  BY <1>0, <1>1, WriteFailsTypeOK DEF CreateObject, TypeOK
<1>2. CASE /\ objects' = Append(objects, NewObject(w, o, "object", TRUE))
           /\ worker' = [worker EXCEPT ![w].pc = "reading",
                                       ![w].created = Len(objects) + 1]
  <2>0. Len(objects) + 1 \in Nat
    <3>1. Len(objects) \in Nat BY LenProperties DEF TypeOK
    <3> QED BY <3>1
  <2>1. r1 \in Worker /\ r1.manifest # 0 BY <1>0, <2>0 DEF Worker, Executing
  <2>2. worker' = [worker EXCEPT ![w] = r1] BY <1>0, <1>2 DEF TypeOK
  <2>3. /\ worker' \in [Workers -> Worker]
        /\ \A x \in Workers : worker'[x].pc # "idle" => worker'[x].manifest # 0
    BY <2>1, <2>2, WorkerStepType
  <2>4. objects' \in Seq(Object) BY <1>0, <1>2, NewObjectType
  <2> QED BY <2>3, <2>4 DEF CreateObject, TypeOK
<1> QED BY <1>1, <1>2 DEF CreateObject

LEMMA ReadObjectTypeOK ==
  ASSUME TypeOK, NEW w \in Workers, NEW o \in Ops, ReadObject(w, o)
  PROVE  TypeOK'
<1> DEFINE r == worker[w]
           q == r.doc.operations[o]
           op(status, observed) ==
             [q EXCEPT !.status = status, !.object = r.created, !.observed = observed]
           d(status, observed) == [r.doc EXCEPT !.operations[o] = op(status, observed)]
           e == [d("succeeded", "paused") EXCEPT !.written = TRUE]
<1>0. r \in Worker /\ r.doc \in Protocol /\ q \in Operation /\ r.created \in Nat
  BY DEF TypeOK, Worker, Protocol
<1>1. r.pc # "idle" BY DEF ReadObject
<1>2. ASSUME NEW status \in {"succeeded", "uncertain", "failed"},
             NEW observed \in {"none", "paused", "active"}
      PROVE  d(status, observed) \in Protocol
  <2>1. op(status, observed) \in Operation BY <1>0 DEF Operation
  <2> QED BY <1>0, <2>1, SetOperationType
<1>3. e \in Protocol
  <2>1. d("succeeded", "paused") \in Protocol BY <1>2
  <2> QED BY <2>1 DEF Protocol
<1>4. {"storing", "alarming", "engaging"} \subseteq Executing BY DEF Executing
<1>5. ASSUME NEW pc \in Executing, NEW doc \in Protocol,
             worker' = [worker EXCEPT ![w] = [r EXCEPT !.pc = pc, !.doc = doc]]
      PROVE  TypeOK'
  <2>1. /\ worker' \in [Workers -> Worker]
        /\ \A x \in Workers : worker'[x].pc # "idle" => worker'[x].manifest # 0
    BY <1>1, <1>5, ExecutorStepType
  <2> QED BY <2>1 DEF ReadObject, TypeOK
<1>6. CASE worker' = [worker EXCEPT ![w].pc = "storing",
                                    ![w].doc.operations[o] = op("succeeded", "paused"),
                                    ![w].doc.written = TRUE]
  <2>1. worker' = [worker EXCEPT ![w] = [r EXCEPT !.pc = "storing", !.doc = e]]
    BY <1>0, <1>6 DEF TypeOK, Worker
  <2> QED BY <1>3, <1>4, <1>5, <2>1
<1>7. CASE worker' = [worker EXCEPT ![w].pc = "alarming",
                                    ![w].doc.operations[o] = op("failed", "active")]
  <2>1. worker' = [worker EXCEPT
          ![w] = [r EXCEPT !.pc = "alarming", !.doc = d("failed", "active")]]
    BY <1>0, <1>7 DEF TypeOK, Worker
  <2>2. d("failed", "active") \in Protocol BY <1>2
  <2> QED BY <1>4, <1>5, <2>1, <2>2
<1>8. ASSUME NEW status \in {"uncertain", "failed"},
             worker' = [worker EXCEPT ![w].pc = "engaging",
                                      ![w].doc.operations[o] = op(status, "none")]
      PROVE  TypeOK'
  <2>1. worker' = [worker EXCEPT
          ![w] = [r EXCEPT !.pc = "engaging", !.doc = d(status, "none")]]
    BY <1>0, <1>8 DEF TypeOK, Worker
  <2>2. d(status, "none") \in Protocol BY <1>2
  <2> QED BY <1>4, <1>5, <2>1, <2>2
<1> QED BY <1>6, <1>7, <1>8 DEF ReadObject

LEMMA CloseTypeOK ==
  ASSUME TypeOK, NEW w \in Workers,
         \/ AbandonBeforeWrite(w) \/ Alarm(w) \/ Engage(w) \/ Fail(w)
         \/ Succeed(w) \/ GiveUp(w) \/ Crash(w)
  PROVE  TypeOK'
<1> DEFINE r == worker[w]
           WorkerTypeOK ==
             /\ worker' \in [Workers -> Worker]
             /\ \A x \in Workers : worker'[x].pc # "idle" => worker'[x].manifest # 0
           MoveTo(pc) == [r EXCEPT !.pc = pc]
           Close(status) == [r.doc EXCEPT !.status = status]
<1>0. r \in Worker /\ r.doc \in Protocol BY DEF TypeOK, Worker
<1>1. Campaign \in Targets /\ "engaged" \in SwitchStatus
  BY SwitchAssumption DEF SwitchStatus
<1>2. ASSUME NEW pc \in {"engaging", "failing"}, r.pc # "idle",
             worker' = [worker EXCEPT ![w].pc = pc]
      PROVE  WorkerTypeOK
  <2>1. MoveTo(pc) \in Worker /\ MoveTo(pc).manifest # 0
    BY <1>0, <1>2 DEF Worker, Executing, TypeOK
  <2>2. worker' = [worker EXCEPT ![w] = MoveTo(pc)] BY <1>2
  <2> QED BY <2>1, <2>2, WorkerStepType
<1>3. ASSUME NEW status \in {"failed", "succeeded"}, r.pc # "idle",
             UpdateExecution(w, Close(status))
      PROVE  protocols' \in [Manifests -> Seq(Protocol)]
  <2>1. Close(status) \in Protocol BY <1>0 DEF Protocol, ProtocolStatus
  <2> QED BY <1>3, <2>1, UpdateExecutionType
<1>4. CASE Alarm(w)
  <2>1. WorkerTypeOK BY <1>2, <1>4 DEF Alarm
  <2>2. ledger' \in [Targets -> Seq(SwitchStatus)]
    BY <1>1, <1>4, AppendNextType DEF Alarm, TypeOK
  <2> QED BY <1>4, <2>1, <2>2 DEF Alarm, TypeOK
<1>5. CASE Engage(w)
  <2>1. WorkerTypeOK BY <1>2, <1>5 DEF Engage
  <2>2. ledger' \in [Targets -> Seq(SwitchStatus)]
    BY <1>1, <1>5, AppendNextType DEF Engage, TypeOK
  <2> QED BY <1>5, <2>1, <2>2 DEF Engage, TypeOK
<1>6. CASE Fail(w)
  <2>1. protocols' \in [Manifests -> Seq(Protocol)] BY <1>3, <1>6 DEF Fail
  <2> QED BY <1>6, <2>1, ReturnStepType DEF Fail, TypeOK
<1>7. CASE Succeed(w)
  <2>1. protocols' \in [Manifests -> Seq(Protocol)] BY <1>3, <1>7 DEF Succeed
  <2> QED BY <1>7, <2>1, ReturnStepType DEF Succeed, TypeOK
<1>8. CASE GiveUp(w) BY <1>8, ReturnStepType DEF GiveUp, TypeOK
<1>9. CASE Crash(w)
  <2>1. r.pc # "idle" BY <1>9 DEF Crash, Executing
  <2>2. \/ objects' = objects
        \/ \E o \in Ops, kind \in {"object", "video"} :
             objects' = Append(objects, NewObject(w, o, kind, FALSE))
    BY <1>9 DEF Crash
  <2>3. objects' \in Seq(Object) BY <2>1, <2>2, NewObjectType DEF TypeOK
  <2>4. crashes' \in 0..MaxCrashes BY <1>9, BoundAssumption DEF Crash, TypeOK
  <2>5. WorkerTypeOK BY <1>9, ReturnStepType DEF Crash
  <2> QED BY <1>9, <2>3, <2>4, <2>5 DEF Crash, TypeOK
<1>10. CASE AbandonBeforeWrite(w)
  <2>1. WorkerTypeOK BY <1>2, <1>10 DEF AbandonBeforeWrite
  <2> QED BY <1>10, <2>1 DEF AbandonBeforeWrite, TypeOK
<1> QED BY <1>4, <1>5, <1>6, <1>7, <1>8, <1>9, <1>10

LEMMA RequestTypeOK ==
  ASSUME TypeOK, NEW w \in Workers, Request(w) \/ Crash(w)
  PROVE  TypeOK'
<1>1. CASE Preparing(w) BY <1>1, PreparingTypeOK
<1>2. CASE Checking(w) BY <1>2, CheckingTypeOK
<1>3. ASSUME NEW o \in Ops,
             \/ UploadVideo(w, o) \/ AwaitVideo(w, o)
             \/ CreateObject(w, o) \/ ReadObject(w, o)
      PROVE  TypeOK'
  BY <1>3, UploadVideoTypeOK, AwaitVideoTypeOK, CreateObjectTypeOK, ReadObjectTypeOK
<1>4. CASE StoreMedia(w)
  BY <1>4, StoreTypeOK DEF StoreMedia, Executing
<1>5. CASE StoreOperation(w)
  BY <1>5, StoreTypeOK DEF StoreOperation, Executing
<1>6. CASE \/ AbandonBeforeWrite(w) \/ Alarm(w) \/ Engage(w) \/ Fail(w)
           \/ Succeed(w) \/ GiveUp(w) \/ Crash(w)
  BY <1>6, CloseTypeOK
<1> QED BY <1>1, <1>2, <1>3, <1>4, <1>5, <1>6 DEF Request, Execute

LEMMA NextTypeOK == TypeOK /\ [Next]_vars => TypeOK'
<1> SUFFICES ASSUME TypeOK, [Next]_vars PROVE TypeOK' OBVIOUS
<1>1. CASE Environment BY <1>1, EnvironmentTypeOK
<1>2. ASSUME NEW w \in Workers, NEW m \in Manifests, StartPrepare(w, m) \/ StartExecute(w, m)
      PROVE  TypeOK'
  BY <1>2, StartTypeOK
<1>3. ASSUME NEW w \in Workers, Request(w) \/ Crash(w) PROVE TypeOK'
  BY <1>3, RequestTypeOK
<1>4. CASE UNCHANGED vars BY <1>4 DEF vars, TypeOK
<1> QED BY <1>1, <1>2, <1>3, <1>4 DEF Next

\* Every reachable state is well typed: all rows and all documents in the hands
\* of requests have the shape of the protocol contract, ids and attempts are
\* numbers, and a request that started knows its manifest.
THEOREM TypeCorrect == Spec => []TypeOK
<1>1. Init => TypeOK BY InitTypeOK
<1>2. TypeOK /\ [Next]_vars => TypeOK' BY NextTypeOK
<1> QED BY <1>1, <1>2, PTL DEF Spec

-----------------------------------------------------------------------------
(* Attempts.                                                               *)

\* Rewriting row p as q keeps what others know of it.
RowStable(p, q) ==
  /\ ProtocolHash(q) = ProtocolHash(p)
  /\ p.status = "failed" =>
       /\ q.status = "failed"
       /\ CopyOf(q, p)
       /\ Unreconciled(p) = {} => Unreconciled(q) = {}

Stable ==
  \A m \in Manifests : \A a \in DOMAIN protocols[m] :
    /\ a \in DOMAIN protocols'[m]
    /\ RowStable(protocols[m][a], protocols'[m][a])

LEMMA RowType ==
  ASSUME TypeOK, NEW m \in Manifests, NEW a \in DOMAIN protocols[m]
  PROVE  /\ protocols[m][a] \in Protocol
         /\ Len(protocols[m]) \in Nat /\ a \in 1..Len(protocols[m])
         /\ LatestProtocol(m) = protocols[m][Len(protocols[m])]
         /\ Len(protocols[m]) \in DOMAIN protocols[m]
BY LenProperties, ElementOfSeq DEF TypeOK, LatestProtocol

LEMMA HashFields ==
  ASSUME NEW p, NEW q
  PROVE  ProtocolHash(p) = ProtocolHash(q) <=>
           /\ p.attempt = q.attempt
           /\ p.reconciled = q.reconciled
           /\ p.preserved = q.preserved
BY DEF ProtocolHash

LEMMA CopyOfReflexive == ASSUME NEW p PROVE CopyOf(p, p) /\ RowStable(p, p)
BY DEF CopyOf, RowStable

\* Reconciling an attempt, or reading it before or after, does not change what
\* the next attempt is.
LEMMA RetryStable ==
  ASSUME NEW p \in Protocol, NEW q \in Protocol, CopyOf(q, p),
         Unreconciled(p) = {}, Unreconciled(q) = {}
  PROVE  ProtocolHash(Retry(q)) = ProtocolHash(Retry(p))
<1>1. \A o \in Ops : /\ Safe(p.operations[o]) <=> p.operations[o].object # 0
                     /\ Safe(q.operations[o]) <=> q.operations[o].object # 0
  BY DEF Unreconciled, Safe
<1>2. /\ q.attempt = p.attempt /\ q.reconciled = p.reconciled
      /\ q.preserved = p.preserved
  BY HashFields DEF CopyOf
<1>3. [o \in Ops |-> ReconciledId(q, o)] = [o \in Ops |-> ReconciledId(p, o)]
  BY <1>1, <1>2 DEF CopyOf, ReconciledId
<1>4. [o \in Ops |-> PreservedId(q, o)] = [o \in Ops |-> PreservedId(p, o)]
  BY <1>2 DEF CopyOf, PreservedId
<1> QED BY <1>2, <1>3, <1>4 DEF Retry

\* A reconciled document has nothing left to reconcile.
LEMMA ReconciledDocument ==
  ASSUME NEW p \in Protocol, SucceededAreSafe(p), ToReconcile(p) = {}
  PROVE  Unreconciled(p) = {}
BY DEF SucceededAreSafe, ToReconcile, Unreconciled

\* Only the latest row of a chain is not failed.
LEMMA NotFailedIsLatest ==
  ASSUME TypeOK, AttemptsFormAChain, NEW m \in Manifests,
         NEW a \in DOMAIN protocols[m], protocols[m][a].status # "failed"
  PROVE  a = Len(protocols[m])
BY RowType DEF AttemptsFormAChain

\* The request that executes, its row and its document.
LEMMA ExecutorRow ==
  ASSUME TypeOK, ProtocolInvariant, NEW w \in Workers, worker[w].pc \in Executing
  PROVE  /\ worker[w].manifest \in Manifests
         /\ worker[w].attempt \in DOMAIN protocols[worker[w].manifest]
         /\ worker[w].attempt = Len(protocols[worker[w].manifest])
         /\ protocols[worker[w].manifest][worker[w].attempt].status = "running"
         /\ worker[w].doc.status = "running"
         /\ ProtocolHash(worker[w].doc)
              = ProtocolHash(protocols[worker[w].manifest][worker[w].attempt])
<1>1. worker[w].pc # "idle" BY DEF Executing
<1> QED BY <1>1, ManifestType
    DEF ProtocolInvariant, OneExecutorPerManifest, RequestInvariant, LatestProtocol

\* What a request relies on survives the steps of the others.
LEMMA RequestInvariantStable ==
  ASSUME TypeOK, TypeOK', Stable, NEW w \in Workers, worker'[w] = worker[w],
         RequestInvariant(worker[w])
  PROVE  RequestInvariant(worker[w])'
<1> DEFINE r == worker[w]
           m == r.manifest
           a == r.attempt
<1>0. CASE r.pc = "idle"
  BY <1>0 DEF RequestInvariant, Reconciling, Executing
<1>1. CASE r.pc # "idle"
  <2>0. m \in Manifests BY <1>1, ManifestType
  <2>1. r.pc \in Reconciling => /\ a \in DOMAIN protocols'[m]
                                /\ protocols'[m][a].status = "failed"
                                /\ CopyOf(r.doc, protocols'[m][a])
    BY <2>0, HashFields DEF RequestInvariant, Stable, RowStable, CopyOf
  <2>2. ASSUME NEW b \in DOMAIN protocols[m], protocols[m][b].status = "failed",
               Unreconciled(protocols[m][b]) = {},
               ProtocolHash(r.doc) = ProtocolHash(Retry(protocols[m][b]))
        PROVE  /\ b \in DOMAIN protocols'[m]
               /\ protocols'[m][b].status = "failed"
               /\ Unreconciled(protocols'[m][b]) = {}
               /\ ProtocolHash(r.doc) = ProtocolHash(Retry(protocols'[m][b]))
    <3>1. /\ b \in DOMAIN protocols'[m]
          /\ protocols'[m][b].status = "failed"
          /\ Unreconciled(protocols'[m][b]) = {}
          /\ CopyOf(protocols'[m][b], protocols[m][b])
      BY <2>0, <2>2 DEF Stable, RowStable
    <3>2. protocols[m][b] \in Protocol BY <2>0, <2>2, RowType
    <3>3. protocols'[m][b] \in Protocol
      BY <2>0, <3>1, LenProperties, ElementOfSeq DEF TypeOK
    <3> QED BY <2>2, <3>1, <3>2, <3>3, RetryStable
  <2>3. r.pc \in Executing \cup {"begin"} =>
          /\ a \in DOMAIN protocols'[m]
          /\ ProtocolHash(r.doc) = ProtocolHash(protocols'[m][a])
    BY <2>0 DEF RequestInvariant, Stable, RowStable
  <2> QED BY <2>1, <2>2, <2>3 DEF RequestInvariant
<1> QED BY <1>0, <1>1

-----------------------------------------------------------------------------
(* The two ways a step may change the state the invariant speaks of: a     *)
(* request moves, or a row is rewritten.  (InsertProtocol also adds a row.) *)

LEMMA RequestMoves ==
  ASSUME TypeOK, TypeOK', ProtocolInvariant, protocols' = protocols,
         NEW w \in Workers, \A x \in Workers \ {w} : worker'[x] = worker[x],
         RequestInvariant(worker[w])',
         worker'[w].pc \in Executing =>
           /\ worker[w].pc \in Executing
           /\ worker'[w].manifest = worker[w].manifest
           /\ worker'[w].attempt = worker[w].attempt
  PROVE  ProtocolInvariant'
<1>1. Stable BY CopyOfReflexive DEF Stable
<1>2. ASSUME NEW x \in Workers PROVE RequestInvariant(worker[x])'
  <2>1. CASE x = w BY <2>1
  <2>2. CASE x # w
    BY <1>1, <2>2, RequestInvariantStable DEF ProtocolInvariant
  <2> QED BY <2>1, <2>2
<1>3. RowsInvariant' BY DEF ProtocolInvariant, RowsInvariant
<1>4. AttemptsFormAChain' BY DEF ProtocolInvariant, AttemptsFormAChain
<1>5. OneExecutorPerManifest'
  BY DEF ProtocolInvariant, OneExecutorPerManifest, LatestProtocol
<1> QED BY <1>2, <1>3, <1>4, <1>5 DEF ProtocolInvariant

LEMMA RowRewritten ==
  ASSUME TypeOK, TypeOK', ProtocolInvariant,
         NEW m \in Manifests, NEW a \in DOMAIN protocols[m], NEW p \in Protocol,
         protocols' = [protocols EXCEPT ![m][a] = p],
         SucceededAreSafe(p), RowStable(protocols[m][a], p),
         NEW w \in Workers, \A x \in Workers \ {w} : worker'[x] = worker[x],
         RequestInvariant(worker[w])', OneExecutorPerManifest'
  PROVE  ProtocolInvariant'
<1>0. ASSUME NEW n \in Manifests
      PROVE  /\ DOMAIN protocols'[n] = DOMAIN protocols[n]
             /\ Len(protocols'[n]) = Len(protocols[n])
             /\ \A b \in DOMAIN protocols[n] :
                  protocols'[n][b] = IF n = m /\ b = a THEN p ELSE protocols[n][b]
  <2>1. protocols[n] \in Seq(Protocol) BY DEF TypeOK
  <2>2. CASE n = m
    <3>1. protocols'[n] = [protocols[n] EXCEPT ![a] = p] BY <2>2 DEF TypeOK
    <3> QED BY <2>1, <2>2, <3>1, ReplaceInSeq
  <2>3. CASE n # m
    <3>1. protocols'[n] = protocols[n] BY <2>3 DEF TypeOK
    <3> QED BY <2>3, <3>1
  <2> QED BY <2>2, <2>3
<1>1. Stable BY <1>0, CopyOfReflexive DEF Stable
<1>2. ASSUME NEW x \in Workers PROVE RequestInvariant(worker[x])'
  <2>1. CASE x = w BY <2>1
  <2>2. CASE x # w
    BY <1>1, <2>2, RequestInvariantStable DEF ProtocolInvariant
  <2> QED BY <2>1, <2>2
<1>3. RowsInvariant'
  <2> SUFFICES ASSUME NEW n \in Manifests, NEW b \in DOMAIN protocols'[n]
               PROVE  /\ SucceededAreSafe(protocols'[n][b])
                      /\ b = 1 => ProtocolHash(protocols'[n][b])
                                    = ProtocolHash(FirstAttempt)
    BY DEF RowsInvariant
  <2>1. /\ SucceededAreSafe(protocols[n][b])
        /\ b = 1 => ProtocolHash(protocols[n][b]) = ProtocolHash(FirstAttempt)
    BY <1>0 DEF ProtocolInvariant, RowsInvariant
  <2> QED BY <1>0, <2>1 DEF RowStable
<1>4. AttemptsFormAChain'
  <2> SUFFICES ASSUME NEW n \in Manifests, NEW b \in DOMAIN protocols'[n]
               PROVE  /\ protocols'[n][b].attempt = b
                      /\ b < Len(protocols'[n]) =>
                           /\ protocols'[n][b].status = "failed"
                           /\ Unreconciled(protocols'[n][b]) = {}
                           /\ ProtocolHash(protocols'[n][b + 1])
                                = ProtocolHash(Retry(protocols'[n][b]))
    BY DEF AttemptsFormAChain
  <2>0. b \in DOMAIN protocols[n] /\ Len(protocols'[n]) = Len(protocols[n]) BY <1>0
  <2>1. protocols'[n][b].attempt = b
    BY <1>1, <2>0, HashFields
    DEF ProtocolInvariant, AttemptsFormAChain, Stable, RowStable
  <2>2. ASSUME b < Len(protocols'[n])
        PROVE  /\ protocols'[n][b].status = "failed"
               /\ Unreconciled(protocols'[n][b]) = {}
               /\ ProtocolHash(protocols'[n][b + 1])
                    = ProtocolHash(Retry(protocols'[n][b]))
    <3>1. /\ protocols[n][b].status = "failed"
          /\ Unreconciled(protocols[n][b]) = {}
          /\ ProtocolHash(protocols[n][b + 1]) = ProtocolHash(Retry(protocols[n][b]))
      BY <2>0, <2>2 DEF ProtocolInvariant, AttemptsFormAChain
    <3>2. /\ protocols'[n][b].status = "failed"
          /\ Unreconciled(protocols'[n][b]) = {}
          /\ CopyOf(protocols'[n][b], protocols[n][b])
      BY <1>1, <2>0, <3>1 DEF Stable, RowStable
    <3>3. b + 1 \in DOMAIN protocols[n]
      BY <2>0, <2>2, LenProperties DEF TypeOK
    <3>4. ProtocolHash(protocols'[n][b + 1]) = ProtocolHash(protocols[n][b + 1])
      BY <1>1, <3>3 DEF Stable, RowStable
    <3>5. protocols[n][b] \in Protocol /\ protocols'[n][b] \in Protocol
      BY <1>0, <2>0, RowType
    <3> QED BY <3>1, <3>2, <3>4, <3>5, RetryStable
  <2> QED BY <2>1, <2>2
<1> QED BY <1>2, <1>3, <1>4 DEF ProtocolInvariant

LEMMA NothingMoves ==
  ASSUME TypeOK, TypeOK', ProtocolInvariant, UNCHANGED <<protocols, worker>>
  PROVE  ProtocolInvariant'
<1>1. Stable BY CopyOfReflexive DEF Stable
<1>2. \A x \in Workers : RequestInvariant(worker[x])'
  BY <1>1, RequestInvariantStable DEF ProtocolInvariant
<1>3. RowsInvariant' BY DEF ProtocolInvariant, RowsInvariant
<1>4. AttemptsFormAChain' BY DEF ProtocolInvariant, AttemptsFormAChain
<1>5. OneExecutorPerManifest'
  BY DEF ProtocolInvariant, OneExecutorPerManifest, LatestProtocol
<1> QED BY <1>2, <1>3, <1>4, <1>5 DEF ProtocolInvariant

LEMMA NewProtocolSafe ==
  ASSUME NEW attempt, NEW reconciled, NEW preserved
  PROVE  /\ SucceededAreSafe(NewProtocol(attempt, reconciled, preserved))
         /\ NewProtocol(attempt, reconciled, preserved).status = "prepared"
BY DEF SucceededAreSafe, NewProtocol, NewOperation

LEMMA FirstAndRetrySafe ==
  /\ SucceededAreSafe(FirstAttempt) /\ FirstAttempt.status = "prepared"
  /\ \A p : SucceededAreSafe(Retry(p)) /\ Retry(p).status = "prepared"
BY NewProtocolSafe DEF FirstAttempt, Retry

LEMMA ReturnInvariant ==
  ASSUME TypeOK, NEW w \in Workers, Return(w)
  PROVE  /\ worker'[w] = Idle
         /\ \A x \in Workers \ {w} : worker'[x] = worker[x]
         /\ RequestInvariant(worker[w])'
         /\ worker'[w].pc \notin Executing
<1>1. worker'[w] = Idle /\ \A x \in Workers \ {w} : worker'[x] = worker[x]
  BY DEF Return, TypeOK
<1>2. Idle.pc = "idle" /\ Idle.doc = FirstAttempt BY DEF Idle
<1>3. RequestInvariant(worker[w])'
  BY <1>1, <1>2, FirstAndRetrySafe DEF RequestInvariant, Reconciling, Executing
<1> QED BY <1>1, <1>2, <1>3 DEF Executing

LEMMA StartInvariant ==
  ASSUME TypeOK, TypeOK', ProtocolInvariant, NEW w \in Workers, NEW m \in Manifests,
         StartPrepare(w, m) \/ StartExecute(w, m)
  PROVE  ProtocolInvariant'
<1>0. Idle.doc = FirstAttempt BY DEF Idle
<1>1. CASE StartPrepare(w, m)
  <2> DEFINE old == LatestProtocol(m)
             r1 == [Idle EXCEPT !.pc = "reconciling", !.manifest = m,
                                !.attempt = Len(protocols[m]), !.doc = old]
             r2 == [Idle EXCEPT !.pc = "preparing", !.manifest = m]
  <2>0. protocols' = protocols BY <1>1 DEF StartPrepare
  <2>1. \/ /\ protocols[m] # <<>> /\ old.status = "failed"
           /\ worker' = [worker EXCEPT ![w] = r1]
        \/ worker' = [worker EXCEPT ![w] = r2]
    BY <1>1 DEF StartPrepare
  <2>2. CASE /\ protocols[m] # <<>> /\ old.status = "failed"
             /\ worker' = [worker EXCEPT ![w] = r1]
    <3>1. worker'[w] = r1 /\ \A x \in Workers \ {w} : worker'[x] = worker[x]
      BY <2>2 DEF TypeOK
    <3>2. /\ r1.pc = "reconciling" /\ r1.manifest = m
          /\ r1.attempt = Len(protocols[m]) /\ r1.doc = old
      BY DEF Idle
    <3>3. Len(protocols[m]) \in DOMAIN protocols[m] BY <2>2, LatestProtocolType
    <3>4. SucceededAreSafe(old) /\ CopyOf(old, old)
      BY <3>3, CopyOfReflexive DEF ProtocolInvariant, RowsInvariant, LatestProtocol
    <3>5. RequestInvariant(worker[w])'
      BY <2>0, <2>2, <3>1, <3>2, <3>3, <3>4
      DEF RequestInvariant, LatestProtocol, Executing
    <3> QED BY <2>0, <3>1, <3>2, <3>5, RequestMoves DEF Executing
  <2>3. CASE worker' = [worker EXCEPT ![w] = r2]
    <3>1. worker'[w] = r2 /\ \A x \in Workers \ {w} : worker'[x] = worker[x]
      BY <2>3 DEF TypeOK
    <3>2. r2.pc = "preparing" /\ r2.doc = FirstAttempt BY DEF Idle
    <3>3. RequestInvariant(worker[w])'
      BY <3>1, <3>2, FirstAndRetrySafe DEF RequestInvariant, Reconciling, Executing
    <3> QED BY <2>0, <3>1, <3>2, <3>3, RequestMoves DEF Executing
  <2> QED BY <2>1, <2>2, <2>3
<1>2. CASE StartExecute(w, m)
  <2> DEFINE r == [Idle EXCEPT !.pc = "switches", !.manifest = m,
                               !.toRead = {Tenant, Campaign}]
  <2>1. worker'[w] = r /\ \A x \in Workers \ {w} : worker'[x] = worker[x]
    BY <1>2 DEF StartExecute, TypeOK
  <2>2. r.pc = "switches" /\ r.doc = FirstAttempt BY DEF Idle
  <2>3. RequestInvariant(worker[w])'
    BY <2>1, <2>2, FirstAndRetrySafe DEF RequestInvariant, Reconciling, Executing
  <2> QED BY <1>2, <2>1, <2>2, <2>3, RequestMoves DEF Executing, StartExecute
<1> QED BY <1>1, <1>2

LEMMA ReconcileReadInvariant ==
  ASSUME TypeOK, TypeOK', ProtocolInvariant, NEW w \in Workers, NEW o \in Ops,
         ReconcileRead(w, o)
  PROVE  ProtocolInvariant'
<1> DEFINE r == worker[w]
           p == r.doc
           op == [p.operations[o] EXCEPT !.status = "succeeded", !.observed = "paused"]
           doc == [p EXCEPT !.operations[o] = op]
           pc == IF ToReconcile(doc) = {} THEN "storingReconciled" ELSE "reconciling"
           r1 == [r EXCEPT !.doc = doc, !.pc = pc]
           r2 == [r EXCEPT !.pc = "alarmingReconciled"]
<1>0. r \in Worker /\ p \in Protocol /\ p.operations[o] \in Operation
  BY DEF TypeOK, Worker, Protocol
<1>1. doc = [p EXCEPT !.operations[o].status = "succeeded",
                      !.operations[o].observed = "paused"]
  BY <1>0 DEF Protocol, Operation
<1>2. /\ r.pc = "reconciling" /\ o \in ToReconcile(p) /\ protocols' = protocols
      /\ \A x \in Workers \ {w} : worker'[x] = worker[x]
      /\ worker'[w] = r1 \/ worker'[w] = r2
  BY <1>0, <1>1 DEF ReconcileRead, TypeOK
<1>3. RequestInvariant(r) BY DEF ProtocolInvariant
<1>4. /\ r1.pc \in {"storingReconciled", "reconciling"} /\ r1.doc = doc
      /\ r1.pc = "storingReconciled" => ToReconcile(doc) = {}
      /\ r1.manifest = r.manifest /\ r1.attempt = r.attempt
      /\ r2.pc = "alarmingReconciled" /\ r2.doc = p
      /\ r2.manifest = r.manifest /\ r2.attempt = r.attempt
  BY <1>0 DEF Worker
<1>5. \A q \in Ops : doc.operations[q] = IF q = o THEN op ELSE p.operations[q]
  BY <1>0 DEF Protocol
<1>6. /\ op.status = "succeeded" /\ op.observed = "paused"
      /\ op.object = p.operations[o].object /\ op.media = p.operations[o].media
  BY <1>0 DEF Operation
<1>7. SucceededAreSafe(doc)
  BY <1>2, <1>3, <1>5, <1>6 DEF SucceededAreSafe, Safe, ToReconcile, RequestInvariant
<1>8. doc.status = p.status /\ ProtocolHash(doc) = ProtocolHash(p)
  BY <1>0 DEF Protocol, ProtocolHash
<1>9. \A q : CopyOf(p, q) => CopyOf(doc, q)
  BY <1>5, <1>6, <1>8 DEF CopyOf
<1>10. RequestInvariant(worker[w])'
  <2> DEFINE row == protocols[r.manifest][r.attempt]
  <2>1. /\ r.attempt \in DOMAIN protocols[r.manifest]
        /\ p.status = "failed" /\ row.status = "failed" /\ CopyOf(p, row)
        /\ SucceededAreSafe(p)
    BY <1>2, <1>3 DEF RequestInvariant, Reconciling
  <2>2. CopyOf(doc, row) /\ doc.status = "failed" BY <1>8, <1>9, <2>1
  <2>3. CASE worker'[w] = r1
    <3> HIDE DEF r1, doc
    <3> QED BY <1>2, <1>4, <1>7, <2>1, <2>2, <2>3
            DEF RequestInvariant, Reconciling, Executing
  <2>4. CASE worker'[w] = r2
    <3> HIDE DEF r2
    <3> QED BY <1>2, <1>4, <2>1, <2>4 DEF RequestInvariant, Reconciling, Executing
  <2> QED BY <1>2, <2>3, <2>4
<1> HIDE DEF r1, r2
<1> QED BY <1>2, <1>4, <1>10, RequestMoves DEF Executing

LEMMA StoreReconciledInvariant ==
  ASSUME TypeOK, TypeOK', ProtocolInvariant, NEW w \in Workers, StoreReconciled(w)
  PROVE  ProtocolInvariant'
<1> DEFINE r == worker[w]
           m == r.manifest
           a == r.attempt
           p == r.doc
           r1 == [Idle EXCEPT !.pc = "preparing", !.manifest = m]
<1>0. r.pc = "storingReconciled" /\ m \in Manifests /\ p \in Protocol
  BY ManifestType DEF StoreReconciled, TypeOK, Worker
<1>1. /\ a \in DOMAIN protocols[m] /\ protocols[m][a].status = "failed"
      /\ p.status = "failed" /\ CopyOf(p, protocols[m][a])
      /\ SucceededAreSafe(p) /\ ToReconcile(p) = {}
  BY <1>0 DEF ProtocolInvariant, RequestInvariant, Reconciling
<1>2. protocols' = [protocols EXCEPT ![m][a] = p]
  BY DEF StoreReconciled, UpdateExecution
<1>3. RowStable(protocols[m][a], p)
  BY <1>0, <1>1, ReconciledDocument DEF RowStable, CopyOf
<1>4. worker'[w] = r1 /\ \A x \in Workers \ {w} : worker'[x] = worker[x]
  BY DEF StoreReconciled, TypeOK
<1>5. r1.pc = "preparing" /\ r1.doc = FirstAttempt BY DEF Idle
<1>6. RequestInvariant(worker[w])'
  BY <1>4, <1>5, FirstAndRetrySafe DEF RequestInvariant, Reconciling, Executing
<1>7. OneExecutorPerManifest'
  <2> SUFFICES ASSUME NEW x \in Workers, worker'[x].pc \in Executing
               PROVE  /\ worker'[x].attempt = Len(protocols'[worker'[x].manifest])
                      /\ LatestProtocol(worker[x].manifest)'.status = "running"
                      /\ \A y \in Workers \ {x} : worker'[y].pc \in Executing
                           => worker'[y].manifest # worker'[x].manifest
    BY DEF OneExecutorPerManifest
  <2> DEFINE n == worker[x].manifest
  <2>1. x # w /\ worker'[x] = worker[x] BY <1>4, <1>5 DEF Executing
  <2>2. /\ n \in Manifests /\ worker[x].attempt \in DOMAIN protocols[n]
        /\ worker[x].attempt = Len(protocols[n])
        /\ protocols[n][worker[x].attempt].status = "running"
    BY <2>1, ExecutorRow
  <2>3. n # m \/ worker[x].attempt # a BY <1>1, <2>2
  <2>4. protocols[n] \in Seq(Protocol) BY <2>2 DEF TypeOK
  <2>5. /\ Len(protocols'[n]) = Len(protocols[n])
        /\ protocols'[n][worker[x].attempt] = protocols[n][worker[x].attempt]
    <3>1. CASE n = m
      <4>1. protocols'[n] = [protocols[n] EXCEPT ![a] = p]
        BY <1>0, <1>2, <3>1 DEF TypeOK
      <4> QED BY <1>0, <2>2, <2>3, <2>4, <3>1, <4>1, ReplaceInSeq
    <3>2. CASE n # m BY <1>2, <2>2, <3>2 DEF TypeOK
    <3> QED BY <3>1, <3>2
  <2>6. \A y \in Workers \ {x} : worker'[y].pc \in Executing
          => y # w /\ worker'[y] = worker[y]
    BY <1>4, <1>5 DEF Executing
  <2> QED BY <2>1, <2>2, <2>5, <2>6
          DEF ProtocolInvariant, OneExecutorPerManifest, LatestProtocol
<1> QED BY <1>0, <1>1, <1>2, <1>3, <1>4, <1>6, <1>7, RowRewritten

LEMMA PrepareInvariant ==
  ASSUME TypeOK, TypeOK', ProtocolInvariant, NEW w \in Workers, Prepare(w)
  PROVE  ProtocolInvariant'
<1> DEFINE r == worker[w]
           m == r.manifest
           previous == LatestProtocol(m)
           d == IF protocols[m] = <<>> THEN FirstAttempt ELSE Retry(previous)
           r1 == [r EXCEPT !.pc = "inserting", !.doc = d]
<1>0. r \in Worker /\ m \in Manifests /\ protocols' = protocols
  BY ManifestType DEF Prepare, TypeOK
<1>1. CASE Return(w) BY <1>0, <1>1, ReturnInvariant, RequestMoves
<1>2. CASE /\ protocols[m] = <<>> \/ (previous.status = "failed" /\ ~RetryBlocked(previous))
           /\ worker' = [worker EXCEPT ![w] = r1]
  <2>1. worker'[w] = r1 /\ \A x \in Workers \ {w} : worker'[x] = worker[x]
    BY <1>2 DEF TypeOK
  <2>2. r1.pc = "inserting" /\ r1.doc = d /\ r1.manifest = m BY <1>0 DEF Worker
  <2>3. SucceededAreSafe(d) /\ d.status = "prepared" BY FirstAndRetrySafe
  <2>4. \/ ProtocolHash(d) = ProtocolHash(FirstAttempt)
        \/ \E b \in DOMAIN protocols[m] :
             /\ protocols[m][b].status = "failed"
             /\ Unreconciled(protocols[m][b]) = {}
             /\ ProtocolHash(d) = ProtocolHash(Retry(protocols[m][b]))
    <3>1. CASE protocols[m] = <<>> BY <3>1
    <3>2. CASE protocols[m] # <<>>
      <4>1. Len(protocols[m]) \in DOMAIN protocols[m]
        BY <1>0, <3>2, LatestProtocolType
      <4>2. previous = protocols[m][Len(protocols[m])] BY DEF LatestProtocol
      <4>3. previous.status = "failed" /\ Unreconciled(previous) = {}
        BY <1>2, <3>2 DEF RetryBlocked
      <4> QED BY <3>2, <4>1, <4>2, <4>3
    <3> QED BY <3>1, <3>2
  <2>5. RequestInvariant(worker[w])'
    <3> HIDE DEF r1, d
    <3> QED BY <1>0, <2>1, <2>2, <2>3, <2>4
            DEF RequestInvariant, Reconciling, Executing
  <2> HIDE DEF r1
  <2> QED BY <1>0, <2>1, <2>2, <2>5, RequestMoves DEF Executing
<1> QED BY <1>0, <1>1, <1>2 DEF Prepare, TypeOK

LEMMA AttemptNumbers ==
  /\ FirstAttempt.attempt = 1
  /\ \A p : Retry(p).attempt = p.attempt + 1
BY DEF FirstAttempt, Retry, NewProtocol

\* The row that prepare adds when no row has its hash continues the chain: the
\* document was derived from the row that is still the latest.
LEMMA InsertedContinues ==
  ASSUME TypeOK, ProtocolInvariant, NEW w \in Workers, worker[w].pc = "inserting",
         ~ \E a \in DOMAIN protocols[worker[w].manifest] :
             ProtocolHash(protocols[worker[w].manifest][a]) = ProtocolHash(worker[w].doc)
  PROVE  LET m == worker[w].manifest
             p == worker[w].doc
             n == Len(protocols[m])
         IN  /\ p.attempt = n + 1 /\ p.status = "prepared"
             /\ \/ n = 0 /\ ProtocolHash(p) = ProtocolHash(FirstAttempt)
                \/ /\ n \in DOMAIN protocols[m]
                   /\ protocols[m][n].status = "failed"
                   /\ Unreconciled(protocols[m][n]) = {}
                   /\ ProtocolHash(p) = ProtocolHash(Retry(protocols[m][n]))
<1> DEFINE m == worker[w].manifest
           p == worker[w].doc
           n == Len(protocols[m])
<1>0. m \in Manifests BY ManifestType
<1>1. n \in Nat /\ DOMAIN protocols[m] = 1..n BY <1>0, LenProperties DEF TypeOK
<1>2. RequestInvariant(worker[w]) BY DEF ProtocolInvariant
<1>3. p.status = "prepared" BY <1>2 DEF RequestInvariant
<1>4. CASE ProtocolHash(p) = ProtocolHash(FirstAttempt)
  <2>1. n = 0
    <3> SUFFICES ASSUME n # 0 PROVE FALSE BY <1>1
    <3>1. 1 \in DOMAIN protocols[m] BY <1>1
    <3>2. ProtocolHash(protocols[m][1]) = ProtocolHash(FirstAttempt)
      BY <1>0, <3>1 DEF ProtocolInvariant, RowsInvariant
    <3> QED BY <1>4, <3>1, <3>2
  <2>2. p.attempt = 1 BY <1>4, AttemptNumbers, HashFields
  <2> QED BY <1>3, <1>4, <2>1, <2>2
<1>5. ASSUME NEW b \in DOMAIN protocols[m], protocols[m][b].status = "failed",
             Unreconciled(protocols[m][b]) = {},
             ProtocolHash(p) = ProtocolHash(Retry(protocols[m][b]))
      PROVE  /\ p.attempt = n + 1 /\ n \in DOMAIN protocols[m] /\ b = n
  <2>1. b = n
    <3> SUFFICES ASSUME b # n PROVE FALSE OBVIOUS
    <3>1. b < n /\ b + 1 \in DOMAIN protocols[m] BY <1>1, <1>5
    <3>2. ProtocolHash(protocols[m][b + 1]) = ProtocolHash(Retry(protocols[m][b]))
      BY <1>0, <1>5, <3>1 DEF ProtocolInvariant, AttemptsFormAChain
    <3> QED BY <1>5, <3>1, <3>2
  <2>2. p.attempt = protocols[m][b].attempt + 1 BY <1>5, AttemptNumbers, HashFields
  <2>3. protocols[m][b].attempt = b
    BY <1>0, <1>5 DEF ProtocolInvariant, AttemptsFormAChain
  <2> QED BY <1>5, <2>1, <2>2, <2>3
<1>6. \/ ProtocolHash(p) = ProtocolHash(FirstAttempt)
      \/ \E b \in DOMAIN protocols[m] :
           /\ protocols[m][b].status = "failed"
           /\ Unreconciled(protocols[m][b]) = {}
           /\ ProtocolHash(p) = ProtocolHash(Retry(protocols[m][b]))
  BY <1>2 DEF RequestInvariant
<1>7. CASE \E b \in DOMAIN protocols[m] :
             /\ protocols[m][b].status = "failed"
             /\ Unreconciled(protocols[m][b]) = {}
             /\ ProtocolHash(p) = ProtocolHash(Retry(protocols[m][b]))
  BY <1>3, <1>5, <1>7
<1> QED BY <1>4, <1>6, <1>7

\* A position of an extended sequence that is neither its last nor the one before.
LEMMA Before ==
  ASSUME NEW n \in Nat, NEW b \in 1..(n + 1), b # n, b # n + 1
  PROVE  b \in 1..n /\ b + 1 \in 1..n /\ b < n
  OBVIOUS

LEMMA InsertProtocolInvariant ==
  ASSUME TypeOK, TypeOK', ProtocolInvariant, NEW w \in Workers, InsertProtocol(w)
  PROVE  ProtocolInvariant'
<1> DEFINE m == worker[w].manifest
           p == worker[w].doc
           n == Len(protocols[m])
           exists == \E a \in DOMAIN protocols[m] :
                       ProtocolHash(protocols[m][a]) = ProtocolHash(p)
<1>0. /\ worker[w].pc = "inserting" /\ m \in Manifests /\ p \in Protocol
      /\ SucceededAreSafe(p) /\ Return(w)
  BY ManifestType
  DEF InsertProtocol, TypeOK, Worker, ProtocolInvariant, RequestInvariant
<1>1. /\ worker'[w].pc \notin Executing /\ RequestInvariant(worker[w])'
      /\ \A x \in Workers \ {w} : worker'[x] = worker[x]
  BY <1>0, ReturnInvariant
<1>2. CASE exists
  <2>1. protocols' = protocols BY <1>2 DEF InsertProtocol
  <2> QED BY <1>1, <2>1, RequestMoves
<1>3. CASE ~exists
  <2>1. protocols' = [protocols EXCEPT ![m] = Append(@, p)] BY <1>3 DEF InsertProtocol
  <2>2. /\ p.attempt = n + 1 /\ p.status = "prepared"
        /\ \/ n = 0 /\ ProtocolHash(p) = ProtocolHash(FirstAttempt)
           \/ /\ n \in DOMAIN protocols[m]
              /\ protocols[m][n].status = "failed"
              /\ Unreconciled(protocols[m][n]) = {}
              /\ ProtocolHash(p) = ProtocolHash(Retry(protocols[m][n]))
    BY <1>0, <1>3, InsertedContinues
  <2>3. protocols[m] \in Seq(Protocol) /\ protocols'[m] = Append(protocols[m], p)
    BY <1>0, <2>1 DEF TypeOK
  <2>4. /\ n \in Nat /\ DOMAIN protocols[m] = 1..n
        /\ DOMAIN protocols'[m] = 1..(n + 1) /\ Len(protocols'[m]) = n + 1
        /\ protocols'[m][n + 1] = p
        /\ \A b \in 1..n : protocols'[m][b] = protocols[m][b]
    BY <1>0, <2>3, AppendProperties, LenProperties
  <2>5. \A k \in Manifests \ {m} : protocols'[k] = protocols[k] BY <2>1 DEF TypeOK
  <2>6. Stable BY <2>4, <2>5, CopyOfReflexive DEF Stable
  <2>7. ASSUME NEW x \in Workers PROVE RequestInvariant(worker[x])'
    <3>1. CASE x = w BY <1>1, <3>1
    <3>2. CASE x # w
      BY <1>1, <2>6, <3>2, RequestInvariantStable DEF ProtocolInvariant
    <3> QED BY <3>1, <3>2
  <2>8. RowsInvariant'
    <3> SUFFICES ASSUME NEW k \in Manifests, NEW b \in DOMAIN protocols'[k]
                 PROVE  /\ SucceededAreSafe(protocols'[k][b])
                        /\ b = 1 => ProtocolHash(protocols'[k][b])
                                      = ProtocolHash(FirstAttempt)
      BY DEF RowsInvariant
    <3>1. CASE k = m /\ b = n + 1 BY <1>0, <2>2, <2>4, <3>1
    <3>2. CASE ~(k = m /\ b = n + 1)
      <4>1. b \in DOMAIN protocols[k] /\ protocols'[k][b] = protocols[k][b]
        BY <2>4, <2>5, <3>2
      <4> QED BY <4>1 DEF ProtocolInvariant, RowsInvariant
    <3> QED BY <3>1, <3>2
  <2>9. AttemptsFormAChain'
    <3> SUFFICES ASSUME NEW k \in Manifests, NEW b \in DOMAIN protocols'[k]
                 PROVE  /\ protocols'[k][b].attempt = b
                        /\ b < Len(protocols'[k]) =>
                             /\ protocols'[k][b].status = "failed"
                             /\ Unreconciled(protocols'[k][b]) = {}
                             /\ ProtocolHash(protocols'[k][b + 1])
                                  = ProtocolHash(Retry(protocols'[k][b]))
      BY DEF AttemptsFormAChain
    <3>1. CASE k # m
      <4>1. k \in Manifests \ {m} /\ b \in DOMAIN protocols[k] BY <2>5, <3>1
      <4>2. protocols'[k] = protocols[k] BY <2>5, <4>1
      <4>3. /\ protocols[k][b].attempt = b
            /\ b < Len(protocols[k]) =>
                 /\ protocols[k][b].status = "failed"
                 /\ Unreconciled(protocols[k][b]) = {}
                 /\ ProtocolHash(protocols[k][b + 1])
                      = ProtocolHash(Retry(protocols[k][b]))
        BY <4>1 DEF ProtocolInvariant, AttemptsFormAChain
      <4> QED BY <4>2, <4>3
    <3>2. CASE k = m /\ b = n + 1 BY <2>2, <2>4, <3>2
    <3>3. CASE k = m /\ b = n /\ b # n + 1
      <4>1. n \in 1..n BY <2>4, <3>3
      <4>2. protocols[m][n].attempt = n
        BY <1>0, <2>4, <4>1 DEF ProtocolInvariant, AttemptsFormAChain
      <4>3. /\ protocols[m][n].status = "failed"
            /\ Unreconciled(protocols[m][n]) = {}
            /\ ProtocolHash(p) = ProtocolHash(Retry(protocols[m][n]))
        BY <2>2, <4>1
      <4>4. protocols'[m][n] = protocols[m][n] /\ protocols'[m][n + 1] = p
        BY <2>4, <4>1
      <4> QED BY <3>3, <4>2, <4>3, <4>4
    <3>4. CASE k = m /\ b # n /\ b # n + 1
      <4>1. b \in 1..n /\ b + 1 \in 1..n /\ b < n
        <5>1. n \in Nat /\ b \in 1..(n + 1) /\ b # n /\ b # n + 1 BY <2>4, <3>4
        <5> QED BY <5>1, Before
      <4>2. /\ protocols[m][b].attempt = b
            /\ protocols[m][b].status = "failed"
            /\ Unreconciled(protocols[m][b]) = {}
            /\ ProtocolHash(protocols[m][b + 1]) = ProtocolHash(Retry(protocols[m][b]))
        BY <1>0, <2>4, <4>1 DEF ProtocolInvariant, AttemptsFormAChain
      <4> QED BY <2>4, <3>4, <4>1, <4>2
    <3> QED BY <3>1, <3>2, <3>3, <3>4
  <2>10. OneExecutorPerManifest'
    <3> SUFFICES ASSUME NEW x \in Workers, worker'[x].pc \in Executing
                 PROVE  /\ worker'[x].attempt = Len(protocols'[worker'[x].manifest])
                        /\ LatestProtocol(worker[x].manifest)'.status = "running"
                        /\ \A y \in Workers \ {x} : worker'[y].pc \in Executing
                             => worker'[y].manifest # worker'[x].manifest
      BY DEF OneExecutorPerManifest
    <3>1. x # w /\ worker'[x] = worker[x] BY <1>1
    <3>2. /\ worker[x].manifest \in Manifests
          /\ worker[x].attempt \in DOMAIN protocols[worker[x].manifest]
          /\ worker[x].attempt = Len(protocols[worker[x].manifest])
          /\ protocols[worker[x].manifest][worker[x].attempt].status = "running"
      BY <3>1, ExecutorRow
    <3>3. worker[x].manifest # m BY <2>2, <2>4, <3>2
    <3>4. \A y \in Workers \ {x} : worker'[y].pc \in Executing => worker'[y] = worker[y]
      BY <1>1
    <3> QED BY <2>5, <3>1, <3>2, <3>3, <3>4
            DEF ProtocolInvariant, OneExecutorPerManifest, LatestProtocol
  <2> QED BY <2>7, <2>8, <2>9, <2>10 DEF ProtocolInvariant
<1> QED BY <1>2, <1>3

-----------------------------------------------------------------------------
(* Requests that execute.                                                  *)

\* Writing the latest row of a manifest that no other request executes.
LEMMA OneExecutorAfterRewrite ==
  ASSUME TypeOK, ProtocolInvariant, NEW m \in Manifests,
         \A n \in Manifests \ {m} : protocols'[n] = protocols[n],
         NEW w \in Workers, \A x \in Workers \ {w} : worker'[x] = worker[x],
         \A x \in Workers \ {w} : worker[x].pc \in Executing => worker[x].manifest # m,
         \/ worker'[w].pc \notin Executing
         \/ /\ worker'[w].manifest = m
            /\ worker'[w].attempt = Len(protocols'[m])
            /\ protocols'[m][Len(protocols'[m])].status = "running"
  PROVE  OneExecutorPerManifest'
<1> SUFFICES ASSUME NEW x \in Workers, worker'[x].pc \in Executing
             PROVE  /\ worker'[x].attempt = Len(protocols'[worker'[x].manifest])
                    /\ LatestProtocol(worker[x].manifest)'.status = "running"
                    /\ \A y \in Workers \ {x} : worker'[y].pc \in Executing
                         => worker'[y].manifest # worker'[x].manifest
  BY DEF OneExecutorPerManifest
<1>1. CASE x = w BY <1>1 DEF LatestProtocol
<1>2. CASE x # w
  <2>1. worker'[x] = worker[x] /\ worker[x].manifest # m BY <1>2
  <2>2. /\ worker[x].manifest \in Manifests
        /\ worker[x].attempt = Len(protocols[worker[x].manifest])
        /\ protocols[worker[x].manifest][worker[x].attempt].status = "running"
    BY <2>1, ExecutorRow
  <2>3. protocols'[worker[x].manifest] = protocols[worker[x].manifest]
    BY <2>1, <2>2
  <2>4. \A y \in Workers \ {x} : worker'[y].pc \in Executing
          => worker'[y].manifest # worker'[x].manifest
    BY <2>1 DEF ProtocolInvariant, OneExecutorPerManifest
  <2> QED BY <2>1, <2>2, <2>3, <2>4 DEF LatestProtocol
<1> QED BY <1>1, <1>2

LEMMA StatusKept ==
  ASSUME NEW p \in Protocol, NEW status \in ProtocolStatus, SucceededAreSafe(p)
  PROVE  LET q == [p EXCEPT !.status = status]
         IN  /\ q \in Protocol /\ q.status = status
             /\ ProtocolHash(q) = ProtocolHash(p)
             /\ SucceededAreSafe(q)
<1> DEFINE q == [p EXCEPT !.status = status]
<1>1. /\ q \in Protocol /\ q.status = status /\ q.operations = p.operations
      /\ q.attempt = p.attempt /\ q.reconciled = p.reconciled
      /\ q.preserved = p.preserved
  BY DEF Protocol
<1> HIDE DEF q
<1>2. ProtocolHash(q) = ProtocolHash(p) /\ SucceededAreSafe(q)
  BY <1>1 DEF ProtocolHash, SucceededAreSafe
<1> QED BY <1>1, <1>2 DEF q

LEMMA CheckingInvariant ==
  ASSUME TypeOK, TypeOK', ProtocolInvariant, NEW w \in Workers, Checking(w)
  PROVE  ProtocolInvariant'
<1> DEFINE r == worker[w]
           m == r.manifest
<1>0. r \in Worker /\ RequestInvariant(r) BY DEF TypeOK, ProtocolInvariant
<1>1. ASSUME NEW t \in Targets, ReadSwitch(w, t) PROVE ProtocolInvariant'
  <2> DEFINE pc == IF r.toRead = {t} THEN "protocol" ELSE "switches"
             r1 == [r EXCEPT !.toRead = r.toRead \ {t}, !.pc = pc]
  <2>1. protocols' = protocols /\ r.pc = "switches" BY <1>1 DEF ReadSwitch
  <2>2. CASE Return(w) BY <2>1, <2>2, ReturnInvariant, RequestMoves
  <2>3. CASE worker' = [worker EXCEPT ![w] = r1]
    <3>1. worker'[w] = r1 /\ \A x \in Workers \ {w} : worker'[x] = worker[x]
      BY <2>3 DEF TypeOK
    <3>2. r1.pc \in {"protocol", "switches"} /\ r1.doc = r.doc BY <1>0 DEF Worker
    <3> HIDE DEF r1
    <3>3. RequestInvariant(worker[w])'
      BY <1>0, <3>1, <3>2 DEF RequestInvariant, Reconciling, Executing
    <3> QED BY <2>1, <3>1, <3>2, <3>3, RequestMoves DEF Executing
  <2>4. Return(w) \/ worker' = [worker EXCEPT ![w] = r1]
    BY <1>0, <1>1, <2>1 DEF ReadSwitch, TypeOK
  <2> QED BY <2>2, <2>3, <2>4
<1>2. CASE ReadProtocol(w)
  <2> DEFINE old == LatestProtocol(m)
             r1 == [r EXCEPT !.pc = "begin", !.attempt = Len(protocols[m]), !.doc = old]
  <2>1. protocols' = protocols /\ m \in Manifests
    BY <1>2, ManifestType DEF ReadProtocol
  <2>2. CASE Return(w) BY <2>1, <2>2, ReturnInvariant, RequestMoves
  <2>3. CASE protocols[m] # <<>> /\ worker' = [worker EXCEPT ![w] = r1]
    <3>1. worker'[w] = r1 /\ \A x \in Workers \ {w} : worker'[x] = worker[x]
      BY <2>3 DEF TypeOK
    <3>2. /\ r1.pc = "begin" /\ r1.doc = old /\ r1.manifest = m
          /\ r1.attempt = Len(protocols[m])
      BY <1>0 DEF Worker
    <3>3. Len(protocols[m]) \in DOMAIN protocols[m]
          /\ old = protocols[m][Len(protocols[m])]
      BY <2>1, <2>3, LatestProtocolType DEF LatestProtocol
    <3>4. SucceededAreSafe(old)
      BY <2>1, <3>3 DEF ProtocolInvariant, RowsInvariant
    <3> HIDE DEF r1, old
    <3>5. RequestInvariant(worker[w])'
      BY <2>1, <3>1, <3>2, <3>3, <3>4 DEF RequestInvariant, Reconciling, Executing
    <3> QED BY <2>1, <3>1, <3>2, <3>5, RequestMoves DEF Executing
  <2>4. Return(w) \/ (protocols[m] # <<>> /\ worker' = [worker EXCEPT ![w] = r1])
    BY <1>0, <1>2 DEF ReadProtocol, TypeOK
  <2> QED BY <2>2, <2>3, <2>4
<1>3. CASE BeginExecution(w)
  <2> DEFINE a == r.attempt
             running == [r.doc EXCEPT !.status = "running"]
             r1 == [r EXCEPT !.pc = "operation", !.doc = running]
  <2>0. /\ m \in Manifests /\ r.pc = "begin" /\ a \in DOMAIN protocols[m]
        /\ SucceededAreSafe(r.doc) /\ r.doc \in Protocol
        /\ ProtocolHash(r.doc) = ProtocolHash(protocols[m][a])
    BY <1>0, <1>3, ManifestType DEF BeginExecution, RequestInvariant, Worker
  <2>1. CASE Return(w) /\ UNCHANGED protocols
    BY <2>1, ReturnInvariant, RequestMoves
  <2>2. CASE /\ CanBegin(m, a) /\ protocols' = [protocols EXCEPT ![m][a] = running]
             /\ worker' = [worker EXCEPT ![w] = r1]
    <3>1. worker'[w] = r1 /\ \A x \in Workers \ {w} : worker'[x] = worker[x]
      BY <2>2 DEF TypeOK
    <3>2. /\ r1.pc = "operation" /\ r1.doc = running /\ r1.manifest = m
          /\ r1.attempt = a
      BY <1>0 DEF Worker
    <3>3. /\ running \in Protocol /\ running.status = "running"
          /\ ProtocolHash(running) = ProtocolHash(r.doc)
          /\ SucceededAreSafe(running)
      BY <2>0, StatusKept DEF ProtocolStatus
    <3>4. protocols[m][a].status = "prepared" BY <2>2 DEF CanBegin
    <3>5. a = Len(protocols[m])
      BY <2>0, <3>4, NotFailedIsLatest DEF ProtocolInvariant
    <3>6. RowStable(protocols[m][a], running) BY <2>0, <3>3, <3>4 DEF RowStable
    <3>7. \A x \in Workers \ {w} : worker[x].pc \in Executing => worker[x].manifest # m
      BY <3>4, <3>5, ExecutorRow
    <3> HIDE DEF r1, running
    <3>a. /\ Len(protocols'[m]) = Len(protocols[m])
          /\ DOMAIN protocols'[m] = DOMAIN protocols[m] /\ protocols'[m][a] = running
          /\ \A n \in Manifests \ {m} : protocols'[n] = protocols[n]
      <4>1. protocols[m] \in Seq(Protocol) BY <2>0 DEF TypeOK
      <4>2. /\ protocols'[m] = [protocols[m] EXCEPT ![a] = running]
            /\ \A n \in Manifests \ {m} : protocols'[n] = protocols[n]
        BY <2>0, <2>2 DEF TypeOK
      <4> QED BY <2>0, <3>3, <4>1, <4>2, ReplaceInSeq
    <3>8. OneExecutorPerManifest'
      <4>1. worker'[w].manifest = m /\ worker'[w].attempt = a BY <3>1, <3>2
      <4>2. /\ \A n \in Manifests \ {m} : protocols'[n] = protocols[n]
            /\ Len(protocols'[m]) = a /\ protocols'[m][a].status = "running"
        BY <3>3, <3>5, <3>a
      <4>3. \A x \in Workers \ {w} : worker'[x] = worker[x] BY <3>1
      <4> QED BY <2>0, <3>7, <4>1, <4>2, <4>3, OneExecutorAfterRewrite
    <3>9. RequestInvariant(worker[w])'
      <4>3. a \in DOMAIN protocols'[m] /\ protocols'[m][a] = running
        BY <2>0, <3>a
      <4> QED BY <3>1, <3>2, <3>3, <4>3 DEF RequestInvariant, Reconciling, Executing
    <3> QED BY <2>0, <2>2, <3>1, <3>3, <3>6, <3>8, <3>9, RowRewritten
  <2>3. \/ Return(w) /\ UNCHANGED protocols
        \/ /\ CanBegin(m, a) /\ protocols' = [protocols EXCEPT ![m][a] = running]
           /\ worker' = [worker EXCEPT ![w] = r1]
    BY <1>0, <1>3 DEF BeginExecution, TypeOK
  <2> QED BY <2>1, <2>2, <2>3
<1> QED BY <1>1, <1>2, <1>3 DEF Checking

LEMMA ExecutorWrites ==
  ASSUME TypeOK, TypeOK', ProtocolInvariant, NEW w \in Workers,
         worker[w].pc \in Executing, NEW p \in Protocol,
         SucceededAreSafe(p), ProtocolHash(p) = ProtocolHash(worker[w].doc),
         UpdateExecution(w, p), \A x \in Workers \ {w} : worker'[x] = worker[x],
         RequestInvariant(worker[w])',
         \/ worker'[w].pc \notin Executing
         \/ /\ worker'[w].manifest = worker[w].manifest
            /\ worker'[w].attempt = worker[w].attempt
            /\ p.status = "running"
  PROVE  ProtocolInvariant'
<1> DEFINE m == worker[w].manifest
           a == worker[w].attempt
<1>1. /\ m \in Manifests /\ a \in DOMAIN protocols[m] /\ a = Len(protocols[m])
      /\ protocols[m][a].status = "running"
      /\ ProtocolHash(p) = ProtocolHash(protocols[m][a])
  BY ExecutorRow
<1>2. protocols' = [protocols EXCEPT ![m][a] = p] BY DEF UpdateExecution
<1>3. /\ Len(protocols'[m]) = a /\ protocols'[m][a] = p
      /\ \A n \in Manifests \ {m} : protocols'[n] = protocols[n]
  <2>1. protocols[m] \in Seq(Protocol) BY <1>1 DEF TypeOK
  <2>2. /\ protocols'[m] = [protocols[m] EXCEPT ![a] = p]
        /\ \A n \in Manifests \ {m} : protocols'[n] = protocols[n]
    BY <1>1, <1>2 DEF TypeOK
  <2> QED BY <1>1, <2>1, <2>2, ReplaceInSeq
<1>4. \A x \in Workers \ {w} : worker[x].pc \in Executing => worker[x].manifest # m
  BY DEF ProtocolInvariant, OneExecutorPerManifest
<1>5. \/ worker'[w].pc \notin Executing
      \/ /\ worker'[w].manifest = m
         /\ worker'[w].attempt = Len(protocols'[m])
         /\ protocols'[m][Len(protocols'[m])].status = "running"
  BY <1>3
<1>6. OneExecutorPerManifest' BY <1>1, <1>3, <1>4, <1>5, OneExecutorAfterRewrite
<1>7. RowStable(protocols[m][a], p) BY <1>1 DEF RowStable
<1> QED BY <1>1, <1>2, <1>6, <1>7, RowRewritten

\* A request that executes moves on with document d, writing nothing.
LEMMA ExecutorMoves ==
  ASSUME TypeOK, TypeOK', ProtocolInvariant, NEW w \in Workers,
         worker[w].pc \in Executing, protocols' = protocols,
         NEW pc \in Executing, NEW d, SucceededAreSafe(d), d.status = "running",
         ProtocolHash(d) = ProtocolHash(worker[w].doc), pc # "reading",
         worker' = [worker EXCEPT ![w] = [worker[w] EXCEPT !.pc = pc, !.doc = d]]
  PROVE  ProtocolInvariant'
<1> DEFINE r == worker[w]
           m == r.manifest
           a == r.attempt
<1>0. r \in Worker BY DEF TypeOK
<1>1. /\ worker'[w].pc = pc /\ worker'[w].doc = d
      /\ worker'[w].manifest = m /\ worker'[w].attempt = a
      /\ \A x \in Workers \ {w} : worker'[x] = worker[x]
  BY <1>0 DEF TypeOK, Worker
<1>2. a \in DOMAIN protocols[m] /\ ProtocolHash(d) = ProtocolHash(protocols[m][a])
  BY ExecutorRow
<1>3. pc \notin Reconciling /\ pc # "inserting" /\ pc # "storingReconciled"
  BY DEF Executing, Reconciling
<1>4. RequestInvariant(worker[w])' BY <1>1, <1>2, <1>3 DEF RequestInvariant
<1> QED BY <1>1, <1>4, RequestMoves

\* Recording op for operation o changes neither the hash nor the status.
LEMMA OperationRecorded ==
  ASSUME NEW p \in Protocol, NEW o \in Ops, NEW op, SucceededAreSafe(p),
         op.status = "succeeded" => Safe(op)
  PROVE  LET d == [p EXCEPT !.operations[o] = op]
         IN  /\ SucceededAreSafe(d)
             /\ d.status = p.status /\ ProtocolHash(d) = ProtocolHash(p)
<1> DEFINE d == [p EXCEPT !.operations[o] = op]
<1>1. /\ \A q \in Ops : d.operations[q] = IF q = o THEN op ELSE p.operations[q]
      /\ d.status = p.status /\ d.attempt = p.attempt
      /\ d.reconciled = p.reconciled /\ d.preserved = p.preserved
  BY DEF Protocol
<1> HIDE DEF d
<1>2. SucceededAreSafe(d) /\ ProtocolHash(d) = ProtocolHash(p)
  BY <1>1 DEF SucceededAreSafe, ProtocolHash
<1> QED BY <1>1, <1>2 DEF d

LEMMA WrittenRecorded ==
  ASSUME NEW p \in Protocol, SucceededAreSafe(p)
  PROVE  LET d == [p EXCEPT !.written = TRUE]
         IN  /\ SucceededAreSafe(d)
             /\ d.status = p.status /\ ProtocolHash(d) = ProtocolHash(p)
<1> DEFINE d == [p EXCEPT !.written = TRUE]
<1>1. /\ d.operations = p.operations /\ d.status = p.status /\ d.attempt = p.attempt
      /\ d.reconciled = p.reconciled /\ d.preserved = p.preserved
  BY DEF Protocol
<1> HIDE DEF d
<1>2. SucceededAreSafe(d) /\ ProtocolHash(d) = ProtocolHash(p)
  BY <1>1 DEF SucceededAreSafe, ProtocolHash
<1> QED BY <1>1, <1>2 DEF d

\* A request that executes records op for operation o in its document.
LEMMA ExecutorRecords ==
  ASSUME TypeOK, TypeOK', ProtocolInvariant, NEW w \in Workers,
         worker[w].pc \in Executing, protocols' = protocols,
         NEW pc \in Executing, pc # "reading", NEW o \in Ops, NEW op,
         op.status = "succeeded" => Safe(op),
         worker' = [worker EXCEPT ![w] = [worker[w] EXCEPT !.pc = pc,
                      !.doc = [worker[w].doc EXCEPT !.operations[o] = op]]]
  PROVE  ProtocolInvariant'
<1> DEFINE p == worker[w].doc
           d == [p EXCEPT !.operations[o] = op]
<1>1. p \in Protocol /\ SucceededAreSafe(p) /\ p.status = "running"
  BY ExecutorRow DEF TypeOK, Worker, ProtocolInvariant, RequestInvariant
<1>2. SucceededAreSafe(d) /\ d.status = "running" /\ ProtocolHash(d) = ProtocolHash(p)
  BY <1>1, OperationRecorded
<1>3. worker' = [worker EXCEPT ![w] = [worker[w] EXCEPT !.pc = pc, !.doc = d]]
  OBVIOUS
<1> HIDE DEF d
<1> QED BY <1>2, <1>3, ExecutorMoves

\* The same when the document also records that Meta was written to.
LEMMA ExecutorRecordsWritten ==
  ASSUME TypeOK, TypeOK', ProtocolInvariant, NEW w \in Workers,
         worker[w].pc \in Executing, protocols' = protocols,
         NEW pc \in Executing, pc # "reading", NEW o \in Ops, NEW op \in Operation,
         op.status = "succeeded" => Safe(op),
         worker' = [worker EXCEPT ![w] = [worker[w] EXCEPT !.pc = pc,
                      !.doc = [[worker[w].doc EXCEPT !.operations[o] = op]
                                 EXCEPT !.written = TRUE]]]
  PROVE  ProtocolInvariant'
<1> DEFINE p == worker[w].doc
           d == [p EXCEPT !.operations[o] = op]
           e == [d EXCEPT !.written = TRUE]
<1>1. p \in Protocol /\ SucceededAreSafe(p) /\ p.status = "running"
  BY ExecutorRow DEF TypeOK, Worker, ProtocolInvariant, RequestInvariant
<1>2. SucceededAreSafe(d) /\ d.status = "running" /\ ProtocolHash(d) = ProtocolHash(p)
  BY <1>1, OperationRecorded
<1>3. d \in Protocol BY <1>1, SetOperationType
<1>4. SucceededAreSafe(e) /\ e.status = "running" /\ ProtocolHash(e) = ProtocolHash(p)
  <2> HIDE DEF d
  <2> QED BY <1>2, <1>3, WrittenRecorded
<1>5. worker' = [worker EXCEPT ![w] = [worker[w] EXCEPT !.pc = pc, !.doc = e]]
  OBVIOUS
<1> HIDE DEF e
<1> QED BY <1>4, <1>5, ExecutorMoves

\* A request that executes moves on with the document it has.
LEMMA ExecutorKeepsDocument ==
  ASSUME TypeOK, TypeOK', ProtocolInvariant, NEW w \in Workers,
         worker[w].pc \in Executing, protocols' = protocols,
         NEW pc \in Executing, pc # "reading",
         worker' = [worker EXCEPT ![w].pc = pc]
  PROVE  ProtocolInvariant'
<1>1. worker[w] \in Worker BY DEF TypeOK
<1>2. worker' = [worker EXCEPT ![w] = [worker[w] EXCEPT !.pc = pc,
                                                       !.doc = worker[w].doc]]
  BY <1>1 DEF TypeOK, Worker
<1>3. SucceededAreSafe(worker[w].doc) /\ worker[w].doc.status = "running"
  BY ExecutorRow DEF ProtocolInvariant, RequestInvariant
<1> QED BY <1>2, <1>3, ExecutorMoves

LEMMA WriteFailsInvariant ==
  ASSUME TypeOK, TypeOK', ProtocolInvariant, NEW w \in Workers,
         worker[w].pc \in Executing, protocols' = protocols, NEW o \in Ops,
         NEW kind \in {"object", "video"}, WriteFails(w, o, kind)
  PROVE  ProtocolInvariant'
<1> DEFINE r == worker[w]
<1>0. /\ worker \in [Workers -> Worker] /\ r \in Worker
      /\ r.doc \in Protocol /\ r.doc.operations[o] \in Operation
  BY DEF TypeOK, Worker, Protocol
<1>1. PICK status \in {"uncertain", "failed"} :
        worker' = [worker EXCEPT ![w].pc = "engaging",
                                 ![w].doc.operations[o].status = status]
  BY DEF WriteFails
<1> DEFINE op == [r.doc.operations[o] EXCEPT !.status = status]
<1>2. op.status # "succeeded" BY <1>0 DEF Operation
<1>3. worker' = [worker EXCEPT ![w] = [r EXCEPT !.pc = "engaging",
                   !.doc = [r.doc EXCEPT !.operations[o] = op]]]
  BY <1>0, <1>1 DEF Worker
<1>4. "engaging" \in Executing BY DEF Executing
<1> HIDE DEF op
<1> QED BY <1>2, <1>3, <1>4, ExecutorRecords

LEMMA UploadVideoInvariant ==
  ASSUME TypeOK, TypeOK', ProtocolInvariant, NEW w \in Workers, NEW o \in Ops,
         UploadVideo(w, o)
  PROVE  ProtocolInvariant'
<1> DEFINE r == worker[w]
           id == Len(objects) + 1
           op == [r.doc.operations[o] EXCEPT !.media = id]
           d == [r.doc EXCEPT !.operations[o] = op]
           e == [d EXCEPT !.written = TRUE]
<1>0. /\ worker \in [Workers -> Worker] /\ r \in Worker
      /\ r.doc \in Protocol /\ r.doc.operations[o] \in Operation
  BY DEF TypeOK, Worker, Protocol
<1>1. /\ r.pc \in Executing /\ protocols' = protocols
      /\ r.doc.operations[o].status = "pending"
  BY DEF UploadVideo, AtUpload, Executing, IsCurrent, Pending
<1>2. CASE WriteFails(w, o, "video") BY <1>1, <1>2, WriteFailsInvariant
<1>3. CASE worker' = [worker EXCEPT ![w].pc = "storingMedia",
                                    ![w].doc.operations[o].media = id,
                                    ![w].doc.written = TRUE]
  <2>0. id \in Nat
    <3>1. Len(objects) \in Nat BY LenProperties DEF TypeOK
    <3> QED BY <3>1
  <2>1. op \in Operation /\ op.status # "succeeded"
    <3> HIDE DEF id
    <3> QED BY <1>0, <1>1, <2>0 DEF Operation
  <2>2. worker' = [worker EXCEPT ![w] = [r EXCEPT !.pc = "storingMedia", !.doc = e]]
    BY <1>0, <1>3 DEF Worker
  <2>3. "storingMedia" \in Executing BY DEF Executing
  <2> HIDE DEF op
  <2> QED BY <1>1, <2>1, <2>2, <2>3, ExecutorRecordsWritten
<1> QED BY <1>2, <1>3 DEF UploadVideo

LEMMA AwaitVideoInvariant ==
  ASSUME TypeOK, TypeOK', ProtocolInvariant, NEW w \in Workers, NEW o \in Ops,
         AwaitVideo(w, o)
  PROVE  ProtocolInvariant'
<1> DEFINE r == worker[w]
           q == r.doc.operations[o]
           id == PreservedId(r.doc, o)
           op == [q EXCEPT !.media = id]
           opf(status) == [q EXCEPT !.media = id, !.status = status]
<1>0. /\ worker \in [Workers -> Worker] /\ r \in Worker
      /\ r.doc \in Protocol /\ q \in Operation
  BY DEF TypeOK, Worker, Protocol
<1>1. r.pc \in Executing /\ protocols' = protocols /\ q.status = "pending"
  BY DEF AwaitVideo, Executing, IsCurrent, Pending
<1>2. {"creating", "engaging"} \subseteq Executing BY DEF Executing
<1>3. CASE worker' = [worker EXCEPT ![w].pc = "creating",
                                    ![w].doc.operations[o].media = id]
  <2> HIDE DEF id
  <2>1. worker' = [worker EXCEPT ![w] = [r EXCEPT !.pc = "creating",
                     !.doc = [r.doc EXCEPT !.operations[o] = op]]]
    BY <1>0, <1>3 DEF Worker
  <2>2. op.status # "succeeded" BY <1>0, <1>1 DEF Operation
  <2> HIDE DEF op
  <2> QED BY <1>1, <1>2, <2>1, <2>2, ExecutorRecords
<1>4. ASSUME NEW status \in {"uncertain", "failed"},
             worker' = [worker EXCEPT ![w].pc = "engaging",
                                      ![w].doc.operations[o] =
                                        [@ EXCEPT !.media = id, !.status = status]]
      PROVE  ProtocolInvariant'
  <2> HIDE DEF id
  <2>1. worker' = [worker EXCEPT ![w] = [r EXCEPT !.pc = "engaging",
                     !.doc = [r.doc EXCEPT !.operations[o] = opf(status)]]]
    BY <1>0, <1>4 DEF Worker
  <2>2. opf(status).status # "succeeded" BY <1>0 DEF Operation
  <2> HIDE DEF opf
  <2> QED BY <1>1, <1>2, <2>1, <2>2, ExecutorRecords
<1> QED BY <1>3, <1>4 DEF AwaitVideo

LEMMA CreateObjectInvariant ==
  ASSUME TypeOK, TypeOK', ProtocolInvariant, NEW w \in Workers, NEW o \in Ops,
         CreateObject(w, o)
  PROVE  ProtocolInvariant'
<1> DEFINE r == worker[w]
           m == r.manifest
           a == r.attempt
           id == Len(objects) + 1
           r1 == [r EXCEPT !.pc = "reading", !.created = id]
<1>0. r \in Worker BY DEF TypeOK
<1>1. r.pc \in Executing /\ protocols' = protocols
  BY DEF CreateObject, AtCreate, Executing
<1>2. CASE WriteFails(w, o, "object") BY <1>1, <1>2, WriteFailsInvariant
<1>3. CASE worker' = [worker EXCEPT ![w].pc = "reading", ![w].created = id]
  <2>0. id # 0
    <3>1. Len(objects) \in Nat BY LenProperties DEF TypeOK
    <3> QED BY <3>1
  <2> HIDE DEF id
  <2>1. worker'[w] = r1 /\ \A x \in Workers \ {w} : worker'[x] = worker[x]
    BY <1>0, <1>3 DEF TypeOK
  <2>2. /\ r1.pc = "reading" /\ r1.created = id /\ r1.doc = r.doc
        /\ r1.manifest = m /\ r1.attempt = a
    BY <1>0 DEF Worker
  <2> HIDE DEF r1
  <2>3. /\ a \in DOMAIN protocols[m] /\ r.doc.status = "running"
        /\ ProtocolHash(r.doc) = ProtocolHash(protocols[m][a])
        /\ SucceededAreSafe(r.doc)
    BY <1>1, ExecutorRow DEF ProtocolInvariant, RequestInvariant
  <2>4. RequestInvariant(worker[w])'
    BY <1>1, <2>0, <2>1, <2>2, <2>3 DEF RequestInvariant, Reconciling
  <2> QED BY <1>1, <2>1, <2>2, <2>4, RequestMoves
<1> QED BY <1>2, <1>3 DEF CreateObject

LEMMA ReadObjectInvariant ==
  ASSUME TypeOK, TypeOK', ProtocolInvariant, NEW w \in Workers, NEW o \in Ops,
         ReadObject(w, o)
  PROVE  ProtocolInvariant'
<1> DEFINE r == worker[w]
           q == r.doc.operations[o]
           op(status, observed) ==
             [q EXCEPT !.status = status, !.object = r.created, !.observed = observed]
           d(status, observed) == [r.doc EXCEPT !.operations[o] = op(status, observed)]
           e == [d("succeeded", "paused") EXCEPT !.written = TRUE]
<1>0. /\ worker \in [Workers -> Worker] /\ r \in Worker
      /\ r.doc \in Protocol /\ q \in Operation
      /\ r.created \in Nat /\ r.created # 0
  <2>1. r.created # 0 BY DEF ReadObject, ProtocolInvariant, RequestInvariant
  <2> QED BY <2>1 DEF TypeOK, Worker, Protocol
<1>1. r.pc \in Executing /\ protocols' = protocols
  BY DEF ReadObject, Executing
<1>2. ASSUME NEW status \in {"succeeded", "uncertain", "failed"},
             NEW observed \in {"none", "paused", "active"}
      PROVE  /\ op(status, observed) \in Operation
             /\ op(status, observed).status = status
             /\ op(status, observed).object = r.created
             /\ op(status, observed).observed = observed
  BY <1>0 DEF Operation
<1>3. {"storing", "alarming", "engaging"} \subseteq Executing BY DEF Executing
<1>4. CASE worker' = [worker EXCEPT ![w].pc = "storing",
                                    ![w].doc.operations[o] = op("succeeded", "paused"),
                                    ![w].doc.written = TRUE]
  <2>1. worker' = [worker EXCEPT ![w] = [r EXCEPT !.pc = "storing", !.doc = e]]
    BY <1>0, <1>4 DEF Worker
  <2>2. op("succeeded", "paused") \in Operation /\ Safe(op("succeeded", "paused"))
    BY <1>0, <1>2 DEF Safe
  <2> HIDE DEF op
  <2> QED BY <1>1, <1>3, <2>1, <2>2, ExecutorRecordsWritten
<1>5. ASSUME NEW pc \in {"alarming", "engaging"}, NEW status \in {"uncertain", "failed"},
             NEW observed \in {"none", "active"},
             worker' = [worker EXCEPT ![w].pc = pc,
                                      ![w].doc.operations[o] = op(status, observed)]
      PROVE  ProtocolInvariant'
  <2>1. worker' = [worker EXCEPT ![w] = [r EXCEPT !.pc = pc,
                     !.doc = [r.doc EXCEPT !.operations[o] = op(status, observed)]]]
    BY <1>0, <1>5 DEF Worker
  <2>2. op(status, observed).status # "succeeded" BY <1>2
  <2> HIDE DEF op
  <2> QED BY <1>1, <1>3, <2>1, <2>2, ExecutorRecords
<1> QED BY <1>4, <1>5 DEF ReadObject

LEMMA StoreInvariant ==
  ASSUME TypeOK, TypeOK', ProtocolInvariant, NEW w \in Workers,
         NEW pc \in Executing, NEW next \in Executing, next # "reading",
         Store(w, pc, next)
  PROVE  ProtocolInvariant'
<1> DEFINE r == worker[w]
           r1 == [r EXCEPT !.pc = next]
<1>0. /\ worker \in [Workers -> Worker] /\ r \in Worker /\ r.doc \in Protocol
      /\ r.pc \in Executing
  BY DEF TypeOK, Worker, Store
<1>1. CASE worker' = [worker EXCEPT ![w].pc = "engaging"] /\ UNCHANGED protocols
  BY <1>0, <1>1, ExecutorKeepsDocument DEF Executing
<1>2. CASE UpdateExecution(w, r.doc) /\ worker' = [worker EXCEPT ![w].pc = next]
  <2>1. worker'[w] = r1 /\ \A x \in Workers \ {w} : worker'[x] = worker[x]
    BY <1>0, <1>2
  <2>2. /\ r1.pc = next /\ r1.doc = r.doc /\ r1.manifest = r.manifest
        /\ r1.attempt = r.attempt
    BY <1>0 DEF Worker
  <2> HIDE DEF r1
  <2>3. /\ r.manifest \in Manifests /\ r.attempt \in DOMAIN protocols[r.manifest]
        /\ r.doc.status = "running" /\ SucceededAreSafe(r.doc)
    BY <1>0, ExecutorRow DEF ProtocolInvariant, RequestInvariant
  <2>4. /\ r.attempt \in DOMAIN protocols'[r.manifest]
        /\ protocols'[r.manifest][r.attempt] = r.doc
    <3>1. protocols[r.manifest] \in Seq(Protocol) BY <2>3 DEF TypeOK
    <3>2. protocols'[r.manifest] = [protocols[r.manifest] EXCEPT ![r.attempt] = r.doc]
      BY <1>2, <2>3 DEF TypeOK, UpdateExecution
    <3> QED BY <1>0, <2>3, <3>1, <3>2, ReplaceInSeq
  <2>5. RequestInvariant(worker[w])'
    BY <2>1, <2>2, <2>3, <2>4 DEF RequestInvariant, Reconciling, Executing
  <2> QED BY <1>0, <1>2, <2>1, <2>2, <2>3, <2>5, ExecutorWrites
<1> QED BY <1>1, <1>2 DEF Store

LEMMA CloseInvariant ==
  ASSUME TypeOK, TypeOK', ProtocolInvariant, NEW w \in Workers,
         \/ AbandonBeforeWrite(w) \/ Alarm(w) \/ Engage(w) \/ Fail(w)
         \/ Succeed(w) \/ GiveUp(w) \/ Crash(w)
  PROVE  ProtocolInvariant'
<1> DEFINE r == worker[w]
           Close(status) == [r.doc EXCEPT !.status = status]
<1>1. ASSUME NEW status \in {"failed", "succeeded"}, r.pc \in Executing,
             UpdateExecution(w, Close(status)), Return(w)
      PROVE  ProtocolInvariant'
  <2>1. r.doc \in Protocol /\ SucceededAreSafe(r.doc)
    BY DEF TypeOK, Worker, ProtocolInvariant, RequestInvariant
  <2>2. /\ Close(status) \in Protocol /\ SucceededAreSafe(Close(status))
        /\ ProtocolHash(Close(status)) = ProtocolHash(r.doc)
    BY <2>1, StatusKept DEF ProtocolStatus
  <2> HIDE DEF Close
  <2> QED BY <1>1, <2>2, ReturnInvariant, ExecutorWrites
<1>2. ASSUME Return(w), protocols' = protocols PROVE ProtocolInvariant'
  BY <1>2, ReturnInvariant, RequestMoves
<1>3. CASE Alarm(w)
  BY <1>3, ExecutorKeepsDocument DEF Alarm, Executing
<1>4. CASE Engage(w)
  BY <1>4, ExecutorKeepsDocument DEF Engage, Executing
<1>5. CASE Fail(w) BY <1>1, <1>5 DEF Fail, Executing
<1>6. CASE Succeed(w) BY <1>1, <1>6 DEF Succeed, Executing
<1>7. CASE GiveUp(w) BY <1>2, <1>7 DEF GiveUp
<1>8. CASE Crash(w) BY <1>2, <1>8 DEF Crash
<1>9. CASE AbandonBeforeWrite(w)
  BY <1>9, ExecutorKeepsDocument DEF AbandonBeforeWrite, Executing
<1> QED BY <1>3, <1>4, <1>5, <1>6, <1>7, <1>8, <1>9

LEMMA PreparingInvariant ==
  ASSUME TypeOK, TypeOK', ProtocolInvariant, NEW w \in Workers, Preparing(w)
  PROVE  ProtocolInvariant'
<1>1. CASE ReconcileAlarm(w)
  BY <1>1, ReturnInvariant, RequestMoves DEF ReconcileAlarm
<1> QED BY <1>1, ReconcileReadInvariant, StoreReconciledInvariant, PrepareInvariant,
           InsertProtocolInvariant DEF Preparing

LEMMA EnvironmentInvariant ==
  ASSUME TypeOK, TypeOK', ProtocolInvariant, Environment
  PROVE  ProtocolInvariant'
<1>1. UNCHANGED <<protocols, worker>>
  BY DEF Environment, PrepareManifest, Authorize, EndAuthorization, ChangeSwitch,
         ChangeAtMeta
<1> QED BY <1>1, NothingMoves

LEMMA InitInvariant == Init => ProtocolInvariant
<1> SUFFICES ASSUME Init PROVE ProtocolInvariant OBVIOUS
<1>1. \A m \in Manifests : protocols[m] = <<>> BY DEF Init
<1>2. \A w \in Workers : worker[w].pc = "idle" /\ worker[w].doc = FirstAttempt
  BY DEF Init, Idle
<1>3. RowsInvariant /\ AttemptsFormAChain BY <1>1 DEF RowsInvariant, AttemptsFormAChain
<1>4. OneExecutorPerManifest BY <1>2 DEF OneExecutorPerManifest, Executing
<1>5. \A w \in Workers : RequestInvariant(worker[w])
  BY <1>2, FirstAndRetrySafe DEF RequestInvariant, Reconciling, Executing
<1> QED BY <1>3, <1>4, <1>5 DEF ProtocolInvariant

LEMMA NextInvariant ==
  TypeOK /\ TypeOK' /\ ProtocolInvariant /\ [Next]_vars => ProtocolInvariant'
<1> SUFFICES ASSUME TypeOK, TypeOK', ProtocolInvariant, [Next]_vars
             PROVE  ProtocolInvariant'
  OBVIOUS
<1>1. CASE Environment BY <1>1, EnvironmentInvariant
<1>2. ASSUME NEW w \in Workers, NEW m \in Manifests,
             StartPrepare(w, m) \/ StartExecute(w, m)
      PROVE  ProtocolInvariant'
  BY <1>2, StartInvariant
<1>3. ASSUME NEW w \in Workers, Execute(w) PROVE ProtocolInvariant'
  <2>1. ASSUME NEW o \in Ops,
               \/ UploadVideo(w, o) \/ AwaitVideo(w, o)
               \/ CreateObject(w, o) \/ ReadObject(w, o)
        PROVE  ProtocolInvariant'
    BY <2>1, UploadVideoInvariant, AwaitVideoInvariant, CreateObjectInvariant,
       ReadObjectInvariant
  <2>2. CASE StoreMedia(w) BY <2>2, StoreInvariant DEF StoreMedia, Executing
  <2>3. CASE StoreOperation(w) BY <2>3, StoreInvariant DEF StoreOperation, Executing
  <2>4. CASE AbandonBeforeWrite(w) \/ Alarm(w) \/ Engage(w) \/ Fail(w) \/ Succeed(w)
    BY <2>4, CloseInvariant
  <2> QED BY <1>3, <2>1, <2>2, <2>3, <2>4 DEF Execute
<1>4. ASSUME NEW w \in Workers, Preparing(w) \/ Checking(w) \/ GiveUp(w) \/ Crash(w)
      PROVE  ProtocolInvariant'
  BY <1>4, PreparingInvariant, CheckingInvariant, CloseInvariant
<1>5. CASE UNCHANGED vars BY <1>5, NothingMoves DEF vars
<1> QED BY <1>1, <1>2, <1>3, <1>4, <1>5 DEF Next, Request

-----------------------------------------------------------------------------

\* What every request relies on between two awaits, with the rows it relies on,
\* is an invariant of the specification.
THEOREM ProtocolsCorrect == Spec => []ProtocolInvariant
<1>1. Init => TypeOK /\ ProtocolInvariant BY InitTypeOK, InitInvariant
<1>2. TypeOK /\ ProtocolInvariant /\ [Next]_vars => TypeOK' /\ ProtocolInvariant'
  BY NextTypeOK, NextInvariant
<1> QED BY <1>1, <1>2, PTL DEF Spec

\* At no time do two requests execute one manifest, and the attempt executed is
\* the latest and running, whatever the number of requests and manifests.
THEOREM SingleExecutor == Spec => []OneExecutorPerManifest
<1>1. ProtocolInvariant => OneExecutorPerManifest BY DEF ProtocolInvariant
<1> QED BY <1>1, ProtocolsCorrect, PTL

\* The attempts prepared for a manifest always form one chain, each derived from
\* the failed and fully reconciled attempt before it.
THEOREM AttemptChain == Spec => []AttemptsFormAChain
<1>1. ProtocolInvariant => AttemptsFormAChain BY DEF ProtocolInvariant
<1> QED BY <1>1, ProtocolsCorrect, PTL

-----------------------------------------------------------------------------
(* The effects.                                                            *)

\* What exists at Meta stays, except that it may be paused or activated.
Grows ==
  /\ DOMAIN objects \subseteq DOMAIN objects'
  /\ \A i \in DOMAIN objects :
       /\ objects'[i].manifest = objects[i].manifest
       /\ objects'[i].operation = objects[i].operation
       /\ objects'[i].kind = objects[i].kind
       /\ objects'[i].answered = objects[i].answered

LEMMA GrowsUnchanged == ASSUME UNCHANGED objects PROVE Grows
BY DEF Grows

LEMMA GrowsAppended ==
  ASSUME TypeOK, NEW e, objects' = Append(objects, e)
  PROVE  /\ Grows
         /\ Len(objects) \in Nat
         /\ DOMAIN objects = 1..Len(objects)
         /\ DOMAIN objects' = 1..(Len(objects) + 1)
         /\ objects'[Len(objects) + 1] = e
         /\ \A i \in 1..Len(objects) : objects'[i] = objects[i]
<1>1. objects \in Seq(Object) BY DEF TypeOK
<1>2. Len(objects) \in Nat /\ DOMAIN objects = 1..Len(objects) BY <1>1, LenProperties
<1>3. /\ Len(objects') = Len(objects) + 1
      /\ DOMAIN objects' = 1..(Len(objects) + 1)
      /\ objects'[Len(objects) + 1] = e
      /\ \A i \in 1..Len(objects) : objects'[i] = objects[i]
  BY <1>1, <1>2
<1> QED BY <1>2, <1>3 DEF Grows

LEMMA AnsweredStable ==
  ASSUME Grows, NEW id, NEW m, NEW o, NEW kind, Answered(id, m, o, kind)
  PROVE  Answered(id, m, o, kind)'
BY DEF Grows, Answered

LEMMA DocumentStable ==
  ASSUME Grows, NEW m, NEW p, DocumentInvariant(m, p)
  PROVE  DocumentInvariant(m, p)'
<1>1. RecordsOwn(m, p)' BY AnsweredStable DEF DocumentInvariant, RecordsOwn
<1> QED BY <1>1 DEF DocumentInvariant, OperationsInOrder, StatusFits, Done

\* What a request knows survives the steps of the others, which do not write its row
\* while it executes.
LEMMA KnownStable ==
  ASSUME Grows, NEW r, EffectsKnown(r),
         r.pc \in Executing =>
           protocols'[r.manifest][r.attempt] = protocols[r.manifest][r.attempt]
  PROVE  EffectsKnown(r)'
<1>1. DocumentInvariant(r.manifest, r.doc)' BY DocumentStable DEF EffectsKnown
<1>2. \A o \in Ops : r.pc = "reading" /\ IsCurrent(r.doc, o) =>
        Answered(r.created, r.manifest, o, "object")'
  BY AnsweredStable DEF EffectsKnown
<1> QED BY <1>1, <1>2
        DEF EffectsKnown, Executing, AtOperation, Unbroken, Done, Pending, IsCurrent

\* One operation of a document is replaced.
Rewrites(d, p, o, op) ==
  /\ d.status = p.status /\ d.attempt = p.attempt
  /\ d.reconciled = p.reconciled /\ d.preserved = p.preserved
  /\ \A q \in Ops : d.operations[q] = IF q = o THEN op ELSE p.operations[q]

LEMMA CurrentUnique ==
  ASSUME NEW p, NEW o \in Ops, IsCurrent(p, o), NEW q \in Ops, IsCurrent(p, q)
  PROVE  q = o
<1>1. Ops \subseteq Nat BY OperationAssumption DEF Ops
<1> QED BY <1>1 DEF IsCurrent, Pending

LEMMA BeforeCurrent ==
  ASSUME NEW p, NEW o \in Ops, IsCurrent(p, o), Unbroken(p), NEW d \in 1..(o - 1)
  PROVE  d \in Ops /\ Done(p, d)
<1>1. NumOps \in Nat /\ o \in 1..NumOps BY OperationAssumption DEF Ops
<1>2. d \in Ops /\ ~(o <= d) BY <1>1 DEF Ops
<1> QED BY <1>2 DEF IsCurrent, Pending, Unbroken

LEMMA DocumentRecords ==
  ASSUME NEW p, NEW o \in Ops, NEW op, NEW d, Rewrites(d, p, o, op),
         OperationsInOrder(p), Unbroken(p), IsCurrent(p, o), p.status = "running",
         op.status \in {"pending", "uncertain", "failed", "succeeded"},
         op.status = "pending" => op.object = 0
  PROVE  /\ OperationsInOrder(d) /\ StatusFits(d)
         /\ op.status \in {"pending", "succeeded"} => Unbroken(d)
         /\ Pending(d) = IF op.status = "pending" THEN Pending(p) ELSE Pending(p) \ {o}
<1>2. p.operations[o].status = "pending" /\ p.reconciled[o] = 0
  BY DEF IsCurrent, Pending, OperationsInOrder
<1>3. OperationsInOrder(d)
  <2> SUFFICES ASSUME NEW q \in Ops
               PROVE  LET e == d.operations[q]
                      IN  /\ e.status = "carried" <=> d.reconciled[q] # 0
                          /\ e.status \in {"carried", "pending"} => e.object = 0
                          /\ e.status \in {"uncertain", "failed"} =>
                               \A x \in 1..(q - 1) : Done(d, x)
    BY DEF OperationsInOrder
  <2>1. CASE q = o
    <3>1. \A x \in 1..(o - 1) : x \in Ops /\ x # o /\ Done(p, x)
      <4>1. o \in Nat BY OperationAssumption DEF Ops
      <4> QED BY <4>1, BeforeCurrent
    <3>2. \A x \in 1..(o - 1) : Done(d, x) BY <3>1 DEF Done, Rewrites
    <3> QED BY <1>2, <2>1, <3>2 DEF Rewrites
  <2>2. CASE q # o
    <3>1. p.operations[q].status \notin {"uncertain", "failed"} BY DEF Unbroken, Done
    <3> QED BY <2>2, <3>1 DEF Rewrites, OperationsInOrder
  <2> QED BY <2>1, <2>2
<1>4. StatusFits(d) BY DEF StatusFits, Rewrites
<1>5. op.status \in {"pending", "succeeded"} => Unbroken(d)
  BY DEF Unbroken, Done, Rewrites
<1>6. Pending(d) = IF op.status = "pending" THEN Pending(p) ELSE Pending(p) \ {o}
  BY <1>2 DEF Pending, Rewrites
<1> QED BY <1>3, <1>4, <1>5, <1>6

\* What a request that executes knows after it recorded op for the operation o.
LEMMA RecordsKnown ==
  ASSUME Grows, protocols' = protocols, NEW r, EffectsKnown(r),
         r.pc \in AtOperation \cup {"operation"}, r.doc.status = "running",
         NEW o \in Ops, IsCurrent(r.doc, o),
         NEW op, NEW d, Rewrites(d, r.doc, o, op),
         NEW pc \in {"engaging", "alarming", "storing", "storingMedia", "creating"},
         pc \in {"engaging", "alarming"} => op.status \in {"uncertain", "failed"},
         pc = "storing" => op.status = "succeeded",
         pc \in {"storingMedia", "creating"} => op.status = "pending",
         op.status = "pending" => op.object = 0,
         Answered(op.object, r.manifest, o, "object")',
         Answered(op.media, r.manifest, o, "video")',
         NEW s, s.pc = pc, s.doc = d, s.manifest = r.manifest, s.attempt = r.attempt
  PROVE  EffectsKnown(s)'
<1> DEFINE p == r.doc
           q == protocols[r.manifest][r.attempt]
<1>1. /\ Unbroken(p) /\ Pending(q) = Pending(p)
      /\ \A x \in Pending(p) : p.operations[x].media = 0 \/ x = o
      /\ \A x \in Ops : x \notin Pending(q) => p.operations[x] = q.operations[x]
  <2>1. Unbroken(p) /\ Pending(q) = Pending(p) BY DEF EffectsKnown
  <2>2. \A x \in Pending(p) : p.operations[x].media = 0 \/ IsCurrent(p, x)
    BY DEF EffectsKnown
  <2>3. Pending(p) \subseteq Ops BY DEF Pending
  <2>4. \A x \in Pending(p) : p.operations[x].media = 0 \/ x = o
    BY <2>2, <2>3, CurrentUnique
  <2>5. r.pc \in Executing BY DEF AtOperation, Executing
  <2> QED BY <2>1, <2>4, <2>5 DEF EffectsKnown
<1>2. DocumentInvariant(r.manifest, p)' BY DocumentStable DEF EffectsKnown
<1>3. op.status \in {"pending", "uncertain", "failed", "succeeded"} OBVIOUS
<1>4. /\ OperationsInOrder(d) /\ StatusFits(d)
      /\ op.status \in {"pending", "succeeded"} => Unbroken(d)
      /\ Pending(d) = IF op.status = "pending" THEN Pending(p) ELSE Pending(p) \ {o}
  BY <1>1, <1>3, DocumentRecords DEF EffectsKnown, DocumentInvariant
<1>5. DocumentInvariant(r.manifest, d)'
  BY <1>2, <1>4 DEF DocumentInvariant, RecordsOwn, Rewrites
<1>6. \A x \in Pending(d) :
        /\ x # o => d.operations[x].media = 0
        /\ pc \in {"storingMedia", "creating"} => IsCurrent(d, o)
  BY <1>1, <1>4 DEF Rewrites, IsCurrent, Pending
<1>7. \A x \in Ops : IF x \in Pending(q) THEN x \in Pending(d) \/ IsCurrent(q, x)
                      ELSE d.operations[x] = q.operations[x]
  BY <1>1, <1>4 DEF Rewrites, IsCurrent, Pending
<1> QED BY <1>1, <1>4, <1>5, <1>6, <1>7
        DEF EffectsKnown, AtOperation, Executing

\* The same when the request only goes on to the end of a failed attempt.
LEMMA KeepsKnown ==
  ASSUME Grows, protocols' = protocols, NEW r, EffectsKnown(r), r.pc \in Executing,
         NEW s, s.pc \in {"engaging", "failing"}, s.doc = r.doc,
         s.manifest = r.manifest, s.attempt = r.attempt
  PROVE  EffectsKnown(s)'
<1>1. DocumentInvariant(r.manifest, r.doc)' BY DocumentStable DEF EffectsKnown
<1> QED BY <1>1 DEF EffectsKnown, AtOperation, Executing

\* After a row was written the document is the row.
LEMMA WriteKnown ==
  ASSUME Grows, NEW r, EffectsKnown(r),
         protocols'[r.manifest][r.attempt] = r.doc,
         NEW s, s.doc = r.doc, s.manifest = r.manifest, s.attempt = r.attempt,
         \/ r.pc = "storingMedia" /\ s.pc = "video"
         \/ r.pc = "storing" /\ s.pc = "operation"
  PROVE  EffectsKnown(s)'
<1>1. DocumentInvariant(r.manifest, r.doc)' BY DocumentStable DEF EffectsKnown
<1> QED BY <1>1 DEF EffectsKnown, AtOperation, Executing

\* A request that does not execute knows what is in its document.
LEMMA QuietKnown ==
  ASSUME NEW s, s.pc \notin Executing, DocumentInvariant(s.manifest, s.doc)',
         s.pc = "inserting" => \E o \in Ops : s.doc.reconciled[o] = 0,
         s.pc = "begin" => s.doc.status = "prepared"
  PROVE  EffectsKnown(s)'
BY DEF EffectsKnown, AtOperation, Executing

-----------------------------------------------------------------------------
(* Who holds the answered effects.                                         *)

LEMMA HoldsStable ==
  ASSUME Grows, NEW i \in DOMAIN objects, NEW p
  PROVE  Holds(p, i)' <=> Holds(p, i)
BY DEF Grows, Holds

\* The request knows effect i.
Has(r, i) == Holds(r.doc, i) \/ (r.pc = "reading" /\ r.created = i)

\* What AnsweredAreHeld says of effect i of manifest m.
HeldIn(m, i) ==
  /\ protocols[m] # <<>>
  /\ \A x \in Workers :
       worker[x].pc \in Executing /\ worker[x].manifest = m => Has(worker[x], i)
  /\ (\A x \in Workers : ~(worker[x].pc \in Executing /\ worker[x].manifest = m))
       => LatestProtocol(m).status = "running" \/ Holds(LatestProtocol(m), i)

LEMMA HeldSomewhere ==
  ASSUME AnsweredAreHeld, NEW i \in DOMAIN objects, objects[i].answered
  PROVE  HeldIn(objects[i].manifest, i)
BY DEF AnsweredAreHeld, HeldIn, Has

LEMMA HeldEverywhere ==
  ASSUME \A i \in DOMAIN objects' : \A m :
           objects'[i].answered /\ m = objects'[i].manifest => HeldIn(m, i)'
  PROVE  AnsweredAreHeld'
BY DEF AnsweredAreHeld, HeldIn, Has

LEMMA HeldMoves ==
  ASSUME Grows, protocols' = protocols, AnsweredAreHeld, NEW w \in Workers,
         \A x \in Workers \ {w} : worker'[x] = worker[x],
         \/ worker[w].pc \notin Executing /\ worker'[w].pc \notin Executing
         \/ /\ worker[w].pc \in Executing /\ worker'[w].pc \notin Executing
            /\ LatestProtocol(worker[w].manifest).status = "running"
         \/ /\ worker[w].pc \in Executing /\ worker'[w].pc \in Executing
            /\ worker'[w].manifest = worker[w].manifest
            /\ \A i \in DOMAIN objects :
                 /\ objects[i].answered /\ objects[i].manifest = worker[w].manifest
                 /\ Has(worker[w], i)
                 => Has(worker[w], i)',
         \A i \in DOMAIN objects' \ DOMAIN objects : objects'[i].answered =>
           /\ worker'[w].pc \in Executing
           /\ objects'[i].manifest = worker'[w].manifest
           /\ protocols[worker'[w].manifest] # <<>>
           /\ \A x \in Workers \ {w} :
                worker[x].pc \in Executing => worker[x].manifest # worker'[w].manifest
           /\ Has(worker[w], i)'
  PROVE  AnsweredAreHeld'
<1> SUFFICES ASSUME NEW i \in DOMAIN objects', objects'[i].answered,
                    NEW m, m = objects'[i].manifest
             PROVE  HeldIn(m, i)'
  BY HeldEverywhere
<1>1. CASE i \in DOMAIN objects
  <2>1. objects[i].manifest = m /\ objects[i].answered BY <1>1 DEF Grows
  <2>2. HeldIn(m, i) BY <1>1, <2>1, HeldSomewhere
  <2>3. LatestProtocol(m)' = LatestProtocol(m) BY DEF LatestProtocol
  <2>4. \A x \in Workers \ {w} : Has(worker[x], i)' <=> Has(worker[x], i)
    BY <1>1, HoldsStable DEF Has
  <2>5. \A p : Holds(p, i)' <=> Holds(p, i) BY <1>1, HoldsStable
  <2> QED BY <1>1, <2>1, <2>2, <2>3, <2>4, <2>5 DEF HeldIn
<1>2. CASE i \notin DOMAIN objects
  BY <1>2 DEF HeldIn
<1> QED BY <1>1, <1>2

\* The latest row of m is rewritten by w, the only request that executes m, before or
\* after the step.
LEMMA HeldByWriter ==
  ASSUME AnsweredAreHeld, UNCHANGED objects, NEW w \in Workers, NEW m \in Manifests,
         \A x \in Workers \ {w} : worker'[x] = worker[x],
         \A x \in Workers \ {w} : worker[x].pc \in Executing => worker[x].manifest # m,
         worker[w].pc \in Executing => worker[w].manifest = m,
         worker'[w].pc \in Executing => worker'[w].manifest = m,
         \A n \in Manifests \ {m} : protocols'[n] = protocols[n],
         \A i \in DOMAIN objects : objects[i].manifest \in Manifests,
         protocols'[m] # <<>>,
         worker[w].pc \notin Executing => LatestProtocol(m).status # "running",
         \A i \in DOMAIN objects :
           /\ objects[i].answered /\ objects[i].manifest = m
           /\ IF worker[w].pc \in Executing THEN Has(worker[w], i)
              ELSE Holds(LatestProtocol(m), i)
           => IF worker'[w].pc \in Executing THEN Has(worker[w], i)'
              ELSE Holds(protocols'[m][Len(protocols'[m])], i)
  PROVE  AnsweredAreHeld'
<1> SUFFICES ASSUME NEW i \in DOMAIN objects, objects[i].answered,
                    NEW n, n = objects[i].manifest
             PROVE  HeldIn(n, i)'
  BY HeldEverywhere
<1>1. HeldIn(n, i) BY HeldSomewhere
<1>2. \A p : Holds(p, i)' <=> Holds(p, i) BY HoldsStable, GrowsUnchanged
<1>3. \A x \in Workers \ {w} : Has(worker[x], i)' <=> Has(worker[x], i)
  BY <1>2 DEF Has
<1>4. CASE n = m
  <2>1. IF worker[w].pc \in Executing THEN Has(worker[w], i)
        ELSE Holds(LatestProtocol(m), i)
    BY <1>1, <1>4 DEF HeldIn
  <2>2. IF worker'[w].pc \in Executing THEN Has(worker[w], i)'
        ELSE Holds(protocols'[m][Len(protocols'[m])], i)
    BY <1>4, <2>1
  <2>3. LatestProtocol(m)' = protocols'[m][Len(protocols'[m])] BY DEF LatestProtocol
  <2> QED BY <1>2, <1>4, <2>2, <2>3 DEF HeldIn
<1>5. CASE n # m
  <2>1. protocols'[n] = protocols[n] /\ LatestProtocol(n)' = LatestProtocol(n)
    BY <1>5 DEF LatestProtocol
  <2> QED BY <1>1, <1>2, <1>3, <1>5, <2>1 DEF HeldIn
<1> QED BY <1>4, <1>5

\* A request that does not execute rewrites a row, which keeps its ids.
LEMMA HeldByReconciler ==
  ASSUME AnsweredAreHeld, UNCHANGED objects, NEW w \in Workers, NEW m \in Manifests,
         \A x \in Workers \ {w} : worker'[x] = worker[x],
         worker[w].pc \notin Executing, worker'[w].pc \notin Executing,
         \A n \in Manifests \ {m} : protocols'[n] = protocols[n],
         Len(protocols'[m]) = Len(protocols[m]), protocols'[m] # <<>>,
         protocols'[m][Len(protocols[m])].status = protocols[m][Len(protocols[m])].status,
         \A i \in DOMAIN objects :
           /\ objects[i].answered /\ objects[i].manifest = m
           /\ Holds(protocols[m][Len(protocols[m])], i)
           => Holds(protocols'[m][Len(protocols[m])], i),
         \A i \in DOMAIN objects : objects[i].manifest \in Manifests
  PROVE  AnsweredAreHeld'
<1> SUFFICES ASSUME NEW i \in DOMAIN objects, objects[i].answered,
                    NEW n, n = objects[i].manifest
             PROVE  HeldIn(n, i)'
  BY HeldEverywhere
<1>1. HeldIn(n, i) BY HeldSomewhere
<1>2. \A p : Holds(p, i)' <=> Holds(p, i) BY HoldsStable, GrowsUnchanged
<1>3. \A x \in Workers \ {w} : Has(worker[x], i)' <=> Has(worker[x], i)
  BY <1>2 DEF Has
<1>4. CASE n = m
  <2>1. /\ LatestProtocol(m)' = protocols'[m][Len(protocols[m])]
        /\ LatestProtocol(m) = protocols[m][Len(protocols[m])]
    BY DEF LatestProtocol
  <2> QED BY <1>1, <1>2, <1>3, <1>4, <2>1 DEF HeldIn
<1>5. CASE n # m
  <2>1. protocols'[n] = protocols[n] /\ LatestProtocol(n)' = LatestProtocol(n)
    BY <1>5 DEF LatestProtocol
  <2> QED BY <1>1, <1>2, <1>3, <1>5, <2>1 DEF HeldIn
<1> QED BY <1>4, <1>5

\* Nobody executes m, whose latest row did not run, and another row is added.
LEMMA HeldByNext ==
  ASSUME AnsweredAreHeld, UNCHANGED objects, NEW w \in Workers, NEW m \in Manifests,
         \A x \in Workers \ {w} : worker'[x] = worker[x],
         worker[w].pc \notin Executing, worker'[w].pc \notin Executing,
         \A x \in Workers : worker[x].pc \in Executing => worker[x].manifest # m,
         \A n \in Manifests \ {m} : protocols'[n] = protocols[n],
         protocols'[m] # <<>>,
         protocols[m] # <<>> => LatestProtocol(m).status # "running",
         \A i \in DOMAIN objects :
           /\ objects[i].answered /\ objects[i].manifest = m
           /\ protocols[m] # <<>> /\ Holds(LatestProtocol(m), i)
           => Holds(protocols'[m][Len(protocols'[m])], i),
         \A i \in DOMAIN objects : objects[i].manifest \in Manifests
  PROVE  AnsweredAreHeld'
<1> SUFFICES ASSUME NEW i \in DOMAIN objects, objects[i].answered,
                    NEW n, n = objects[i].manifest
             PROVE  HeldIn(n, i)'
  BY HeldEverywhere
<1>1. HeldIn(n, i) BY HeldSomewhere
<1>2. \A p : Holds(p, i)' <=> Holds(p, i) BY HoldsStable, GrowsUnchanged
<1>3. \A x \in Workers \ {w} : Has(worker[x], i)' <=> Has(worker[x], i)
  BY <1>2 DEF Has
<1>4. CASE n = m
  <2>1. LatestProtocol(m)' = protocols'[m][Len(protocols'[m])] BY DEF LatestProtocol
  <2> QED BY <1>1, <1>2, <1>4, <2>1 DEF HeldIn
<1>5. CASE n # m
  <2>1. protocols'[n] = protocols[n] /\ LatestProtocol(n)' = LatestProtocol(n)
    BY <1>5 DEF LatestProtocol
  <2> QED BY <1>1, <1>2, <1>3, <1>5, <2>1 DEF HeldIn
<1> QED BY <1>4, <1>5

-----------------------------------------------------------------------------
(* New effects.                                                            *)

\* The executor of w is about to ask Meta for an effect of operation o.
AtEffect(w, o, kind) == IF kind = "object" THEN AtCreate(w, o) ELSE AtUpload(w, o)

LEMMA NoAnsweredBefore ==
  ASSUME TypeOK, EffectInvariant, NEW w \in Workers, worker[w].pc \in Executing,
         NEW o \in Ops, NEW kind \in {"object", "video"}, AtEffect(w, o, kind),
         NEW i \in DOMAIN objects, objects[i].manifest = worker[w].manifest,
         objects[i].operation = o, objects[i].kind = kind
  PROVE  ~objects[i].answered
<1> DEFINE p == worker[w].doc
<1> SUFFICES ASSUME objects[i].answered PROVE FALSE OBVIOUS
<1>1. /\ worker[w].pc \in {"creating", "operation"} /\ IsCurrent(p, o)
      /\ kind = "video" => worker[w].pc = "operation" /\ p.preserved[o] = 0
  BY DEF AtEffect, AtCreate, AtUpload
<1>2. Has(worker[w], i)
  <2>1. HeldIn(worker[w].manifest, i) BY HeldSomewhere DEF EffectInvariant
  <2> QED BY <2>1 DEF HeldIn
<1>3. EffectsKnown(worker[w]) BY DEF EffectInvariant
<1>4. /\ p.operations[o].status = "pending" /\ p.operations[o].object = 0
      /\ p.reconciled[o] = 0
  BY <1>1, <1>3 DEF EffectsKnown, DocumentInvariant, OperationsInOrder, IsCurrent, Pending
<1>5. worker[w].pc = "operation" => p.operations[o].media = 0
  BY <1>1, <1>3 DEF EffectsKnown, AtOperation, IsCurrent
<1>6. i # 0
  <2>1. objects \in Seq(Object) BY DEF TypeOK
  <2> QED BY <2>1, LenProperties
<1> QED BY <1>1, <1>2, <1>4, <1>5, <1>6 DEF Has, Holds

LEMMA DependenciesAnswered ==
  ASSUME TypeOK, ProtocolInvariant, EffectInvariant, NEW w \in Workers,
         worker[w].pc \in Executing, NEW o \in Ops, AtCreate(w, o), NEW d \in Deps[o]
  PROVE  \E j \in DOMAIN objects :
           /\ objects[j].manifest = worker[w].manifest /\ objects[j].operation = d
           /\ objects[j].kind = "object" /\ objects[j].answered
<1> DEFINE p == worker[w].doc
           m == worker[w].manifest
<1>1. EffectsKnown(worker[w]) /\ IsCurrent(p, o) /\ SucceededAreSafe(p)
  BY DEF AtCreate, EffectInvariant, ProtocolInvariant, RequestInvariant
<1>2. Unbroken(p) /\ RecordsOwn(m, p) /\ OperationsInOrder(p)
  BY <1>1 DEF AtCreate, EffectsKnown, AtOperation, DocumentInvariant
<1>3. d \in 1..(o - 1) /\ d \in Ops
  BY OperationAssumption DEF Ops
<1>4. Done(p, d) BY <1>1, <1>2, <1>3, BeforeCurrent
<1>5. CASE p.operations[d].status = "carried"
  <2>1. p.reconciled[d] # 0 /\ Answered(p.reconciled[d], m, d, "object")
    BY <1>2, <1>3, <1>5 DEF OperationsInOrder, RecordsOwn
  <2> QED BY <2>1 DEF Answered
<1>6. CASE p.operations[d].status = "succeeded"
  <2>1. p.operations[d].object # 0 /\ Answered(p.operations[d].object, m, d, "object")
    BY <1>1, <1>2, <1>3, <1>6 DEF SucceededAreSafe, Safe, RecordsOwn
  <2> QED BY <2>1 DEF Answered
<1> QED BY <1>4, <1>5, <1>6 DEF Done

LEMMA EffectAppended ==
  ASSUME TypeOK, ProtocolInvariant, EffectInvariant, NEW w \in Workers,
         worker[w].pc \in Executing, NEW o \in Ops, NEW kind \in {"object", "video"},
         AtEffect(w, o, kind), NEW answered \in BOOLEAN,
         objects' = Append(objects, NewObject(w, o, kind, answered))
  PROVE  /\ Grows
         /\ AnsweredEffectsNotRepeated'
         /\ DependenciesFirst'
         /\ DOMAIN objects' \ DOMAIN objects = {Len(objects) + 1}
         /\ objects'[Len(objects) + 1] = NewObject(w, o, kind, answered)
<1> DEFINE n == Len(objects)
           e == NewObject(w, o, kind, answered)
<1>1. /\ Grows /\ n \in Nat /\ DOMAIN objects = 1..n /\ DOMAIN objects' = 1..(n + 1)
      /\ objects'[n + 1] = e /\ \A i \in 1..n : objects'[i] = objects[i]
  BY GrowsAppended
<1>2. /\ e.manifest = worker[w].manifest /\ e.operation = o /\ e.kind = kind
  BY DEF NewObject
<1> HIDE DEF n, e
<1>3. AnsweredEffectsNotRepeated'
  <2> SUFFICES ASSUME NEW i \in 1..(n + 1), NEW j \in 1..(n + 1), i < j,
                      objects'[i].manifest = objects'[j].manifest,
                      objects'[i].operation = objects'[j].operation,
                      objects'[i].kind = objects'[j].kind
               PROVE  ~objects'[i].answered
    BY <1>1 DEF AnsweredEffectsNotRepeated
  <2>1. i \in 1..n BY <1>1
  <2>2. CASE j \in 1..n
    BY <1>1, <2>1, <2>2 DEF EffectInvariant, AnsweredEffectsNotRepeated
  <2>3. CASE j = n + 1
    BY <1>1, <1>2, <2>1, <2>3, NoAnsweredBefore
  <2> QED BY <1>1, <2>2, <2>3
<1>4. DependenciesFirst'
  <2> SUFFICES ASSUME NEW i \in 1..(n + 1), objects'[i].kind = "object",
                      NEW d \in Deps[objects'[i].operation]
               PROVE  \E j \in 1..(i - 1) :
                        /\ objects'[j].manifest = objects'[i].manifest
                        /\ objects'[j].operation = d
                        /\ objects'[j].kind = "object" /\ objects'[j].answered
    BY <1>1 DEF DependenciesFirst
  <2>1. CASE i \in 1..n
    <3>1. PICK j \in 1..(i - 1) :
            /\ objects[j].manifest = objects[i].manifest
            /\ objects[j].operation = d
            /\ objects[j].kind = "object" /\ objects[j].answered
      BY <1>1, <2>1 DEF EffectInvariant, DependenciesFirst
    <3>2. j \in 1..n BY <1>1, <2>1
    <3> QED BY <1>1, <2>1, <3>1, <3>2
  <2>2. CASE i = n + 1
    <3>1. kind = "object" /\ d \in Deps[o] BY <1>1, <1>2, <2>2
    <3>2. PICK j \in DOMAIN objects :
            /\ objects[j].manifest = worker[w].manifest /\ objects[j].operation = d
            /\ objects[j].kind = "object" /\ objects[j].answered
      BY <3>1, DependenciesAnswered DEF AtEffect
    <3>3. j \in 1..(i - 1) /\ objects'[j] = objects[j] BY <1>1, <2>2
    <3> QED BY <1>1, <1>2, <2>2, <3>2, <3>3
  <2> QED BY <1>1, <2>1, <2>2
<1> QED BY <1>1, <1>3, <1>4 DEF n, e

-----------------------------------------------------------------------------
(* The ways a step may change what the invariant speaks of: the environment *)
(* moves, a request moves, or a row is rewritten.                          *)

LEMMA RowsFitStable ==
  ASSUME RowsFit, Grows, protocols' = protocols PROVE RowsFit'
<1>1. \A m \in Manifests : \A a \in DOMAIN protocols[m] :
        DocumentInvariant(m, protocols[m][a])'
  BY DocumentStable DEF RowsFit
<1> QED BY <1>1 DEF RowsFit, Unbroken, Done

LEMMA NothingMovesEffects ==
  ASSUME EffectInvariant, Grows, DOMAIN objects' = DOMAIN objects,
         TypeOK, UNCHANGED <<protocols, worker>>
  PROVE  EffectInvariant'
<1>1. RowsFit' BY RowsFitStable DEF EffectInvariant
<1>2. \A x \in Workers : EffectsKnown(worker[x])'
  BY KnownStable DEF EffectInvariant
<1>3. AnsweredAreHeld'
  <2> SUFFICES ASSUME NEW i \in DOMAIN objects', objects'[i].answered,
                      NEW m, m = objects'[i].manifest
               PROVE  HeldIn(m, i)'
    BY HeldEverywhere
  <2>1. HeldIn(m, i) BY HeldSomewhere DEF EffectInvariant, Grows
  <2>2. \A p : Holds(p, i)' <=> Holds(p, i) BY HoldsStable
  <2>3. \A x \in Workers : Has(worker[x], i)' <=> Has(worker[x], i) BY <2>2 DEF Has
  <2>4. LatestProtocol(m)' = LatestProtocol(m) BY DEF LatestProtocol
  <2> QED BY <2>1, <2>2, <2>3, <2>4 DEF HeldIn
<1>4. AnsweredEffectsNotRepeated'
  BY DEF EffectInvariant, AnsweredEffectsNotRepeated, Grows
<1>5. DependenciesFirst'
  <2> SUFFICES ASSUME NEW i \in DOMAIN objects, objects'[i].kind = "object",
                      NEW d \in Deps[objects'[i].operation]
               PROVE  \E j \in 1..(i - 1) :
                        /\ objects'[j].manifest = objects'[i].manifest
                        /\ objects'[j].operation = d
                        /\ objects'[j].kind = "object" /\ objects'[j].answered
    BY DEF DependenciesFirst
  <2>1. PICK j \in 1..(i - 1) : /\ objects[j].manifest = objects[i].manifest
                                /\ objects[j].operation = d
                                /\ objects[j].kind = "object" /\ objects[j].answered
    BY DEF EffectInvariant, DependenciesFirst, Grows
  <2>2. j \in DOMAIN objects BY LenProperties DEF TypeOK
  <2> QED BY <2>1, <2>2 DEF Grows
<1> QED BY <1>1, <1>2, <1>3, <1>4, <1>5 DEF EffectInvariant

LEMMA RequestMovesEffects ==
  ASSUME EffectInvariant, Grows, protocols' = protocols, NEW w \in Workers,
         \A x \in Workers \ {w} : worker'[x] = worker[x],
         EffectsKnown(worker[w])', AnsweredAreHeld',
         AnsweredEffectsNotRepeated', DependenciesFirst'
  PROVE  EffectInvariant'
<1>1. RowsFit' BY RowsFitStable DEF EffectInvariant
<1>2. ASSUME NEW x \in Workers PROVE EffectsKnown(worker[x])'
  <2>1. CASE x = w BY <2>1
  <2>2. CASE x # w BY <2>2, KnownStable DEF EffectInvariant
  <2> QED BY <2>1, <2>2
<1> QED BY <1>1, <1>2 DEF EffectInvariant

LEMMA EffectsUnchanged ==
  ASSUME EffectInvariant, UNCHANGED objects
  PROVE  Grows /\ AnsweredEffectsNotRepeated' /\ DependenciesFirst'
BY GrowsUnchanged DEF EffectInvariant, AnsweredEffectsNotRepeated, DependenciesFirst

\* A request that does not execute moves.
LEMMA QuietMoves ==
  ASSUME EffectInvariant, UNCHANGED <<objects, protocols>>, NEW w \in Workers,
         \A x \in Workers \ {w} : worker'[x] = worker[x],
         worker[w].pc \notin Executing, worker'[w].pc \notin Executing,
         EffectsKnown(worker[w])'
  PROVE  EffectInvariant'
<1>1. Grows /\ AnsweredEffectsNotRepeated' /\ DependenciesFirst' BY EffectsUnchanged
<1>2. AnsweredAreHeld' BY <1>1, HeldMoves DEF EffectInvariant
<1> QED BY <1>1, <1>2, RequestMovesEffects

\* Row a of manifest m becomes p.
RowReplaced(m, a, p) == protocols' = [protocols EXCEPT ![m][a] = p]

LEMMA RowWritten ==
  ASSUME TypeOK, ProtocolInvariant, EffectInvariant, UNCHANGED objects,
         NEW m \in Manifests, NEW a \in DOMAIN protocols[m], NEW p \in Protocol,
         RowReplaced(m, a, p),
         DocumentInvariant(m, p), p.status = "running" => Unbroken(p),
         NEW w \in Workers, \A x \in Workers \ {w} : worker'[x] = worker[x],
         \A x \in Workers \ {w} : worker[x].pc \in Executing =>
           worker[x].manifest # m \/ worker[x].attempt # a,
         EffectsKnown(worker[w])', AnsweredAreHeld'
  PROVE  EffectInvariant'
<1>0. ASSUME NEW n \in Manifests
      PROVE  /\ DOMAIN protocols'[n] = DOMAIN protocols[n]
             /\ \A b \in DOMAIN protocols[n] :
                  protocols'[n][b] = IF n = m /\ b = a THEN p ELSE protocols[n][b]
  <2>1. protocols[n] \in Seq(Protocol) BY DEF TypeOK
  <2>2. CASE n = m
    <3>1. protocols'[n] = [protocols[n] EXCEPT ![a] = p]
      BY <2>2 DEF TypeOK, RowReplaced
    <3> QED BY <2>1, <2>2, <3>1, ReplaceInSeq
  <2>3. CASE n # m
    <3>1. protocols'[n] = protocols[n] BY <2>3 DEF TypeOK, RowReplaced
    <3> QED BY <2>3, <3>1
  <2> QED BY <2>2, <2>3
<1>1. Grows /\ AnsweredEffectsNotRepeated' /\ DependenciesFirst' BY EffectsUnchanged
<1>2. RowsFit'
  <2> SUFFICES ASSUME NEW n \in Manifests, NEW b \in DOMAIN protocols[n],
                      NEW q, q = protocols'[n][b]
               PROVE  DocumentInvariant(n, q)' /\ (q.status = "running" => Unbroken(q))
    BY <1>0 DEF RowsFit, Unbroken, Done
  <2>1. DocumentInvariant(n, q) /\ (q.status = "running" => Unbroken(q))
    BY <1>0 DEF EffectInvariant, RowsFit
  <2> QED BY <1>1, <2>1, DocumentStable
<1>3. ASSUME NEW x \in Workers PROVE EffectsKnown(worker[x])'
  <2>1. CASE x = w BY <2>1
  <2>2. CASE x # w
    <3>1. /\ worker'[x] = worker[x] /\ EffectsKnown(worker[x])
          /\ worker[x].pc \in Executing =>
               worker[x].manifest # m \/ worker[x].attempt # a
      BY <2>2 DEF EffectInvariant
    <3>2. worker[x].pc \in Executing =>
            protocols'[worker[x].manifest][worker[x].attempt]
              = protocols[worker[x].manifest][worker[x].attempt]
      BY <1>0, <3>1, ExecutorRow
    <3> QED BY <1>1, <3>1, <3>2, KnownStable
  <2> QED BY <2>1, <2>2
<1> QED BY <1>1, <1>2, <1>3 DEF EffectInvariant
-----------------------------------------------------------------------------
(* Requests that prepare or check.                                         *)

LEMMA FirstDocument ==
  ASSUME NEW m
  PROVE  DocumentInvariant(m, FirstAttempt) /\ FirstAttempt.status = "prepared"
<1>1. /\ FirstAttempt.status = "prepared"
      /\ \A o \in Ops : /\ FirstAttempt.reconciled[o] = 0
                        /\ FirstAttempt.preserved[o] = 0
                        /\ FirstAttempt.operations[o].status = "pending"
                        /\ FirstAttempt.operations[o].object = 0
                        /\ FirstAttempt.operations[o].media = 0
  BY DEF FirstAttempt, NewProtocol, NewOperation
<1> HIDE DEF FirstAttempt
<1> QED BY <1>1
        DEF DocumentInvariant, RecordsOwn, OperationsInOrder, StatusFits, Answered

LEMMA RetryDocument ==
  ASSUME NEW m, NEW p, DocumentInvariant(m, p)
  PROVE  DocumentInvariant(m, Retry(p)) /\ Retry(p).status = "prepared"
<1>1. /\ Retry(p).status = "prepared"
      /\ \A o \in Ops : /\ Retry(p).reconciled[o] = ReconciledId(p, o)
                        /\ Retry(p).preserved[o] = PreservedId(p, o)
                        /\ Retry(p).operations[o].status
                             = IF ReconciledId(p, o) = 0 THEN "pending" ELSE "carried"
                        /\ Retry(p).operations[o].object = 0
                        /\ Retry(p).operations[o].media = 0
  BY DEF Retry, NewProtocol, NewOperation
<1>2. ASSUME NEW o \in Ops
      PROVE  /\ Answered(ReconciledId(p, o), m, o, "object")
             /\ Answered(PreservedId(p, o), m, o, "video")
             /\ Answered(0, m, o, "object") /\ Answered(0, m, o, "video")
  <2>1. RecordsOwn(m, p) BY DEF DocumentInvariant
  <2>2. Answered(0, m, o, "object") /\ Answered(0, m, o, "video") BY DEF Answered
  <2> QED BY <2>1, <2>2 DEF RecordsOwn, ReconciledId, PreservedId
<1>3. RecordsOwn(m, Retry(p)) BY <1>1, <1>2 DEF RecordsOwn
<1>4. OperationsInOrder(Retry(p)) /\ StatusFits(Retry(p))
  BY <1>1 DEF OperationsInOrder, StatusFits
<1> QED BY <1>1, <1>3, <1>4 DEF DocumentInvariant

\* A request that does not execute goes on, as s, without writing.
LEMMA QuietStep ==
  ASSUME TypeOK, EffectInvariant, UNCHANGED <<objects, protocols>>, NEW w \in Workers,
         worker[w].pc \notin Executing,
         NEW s, worker' = [worker EXCEPT ![w] = s], s.pc \notin Executing,
         DocumentInvariant(s.manifest, s.doc),
         s.pc = "inserting" => \E o \in Ops : s.doc.reconciled[o] = 0,
         s.pc = "begin" => s.doc.status = "prepared"
  PROVE  EffectInvariant'
<1>1. worker'[w] = s /\ \A x \in Workers \ {w} : worker'[x] = worker[x] BY DEF TypeOK
<1>2. DocumentInvariant(s.manifest, s.doc)' BY GrowsUnchanged, DocumentStable
<1>3. EffectsKnown(worker[w])' BY <1>1, <1>2, QuietKnown
<1> QED BY <1>1, <1>3, QuietMoves

LEMMA IdleDocument ==
  Idle.pc = "idle" /\ DocumentInvariant(Idle.manifest, Idle.doc)
BY FirstDocument DEF Idle

LEMMA QuietReturn ==
  ASSUME TypeOK, EffectInvariant, UNCHANGED <<objects, protocols>>, NEW w \in Workers,
         worker[w].pc \notin Executing, Return(w)
  PROVE  EffectInvariant'
BY IdleDocument, QuietStep DEF Return, Executing

LEMMA StartEffects ==
  ASSUME TypeOK, EffectInvariant, NEW w \in Workers, NEW m \in Manifests,
         StartPrepare(w, m) \/ StartExecute(w, m)
  PROVE  EffectInvariant'
<1>1. CASE StartPrepare(w, m)
  <2> DEFINE old == LatestProtocol(m)
             r1 == [Idle EXCEPT !.pc = "reconciling", !.manifest = m,
                                !.attempt = Len(protocols[m]), !.doc = old]
             r2 == [Idle EXCEPT !.pc = "preparing", !.manifest = m]
  <2>0. /\ UNCHANGED <<objects, protocols>> /\ worker[w].pc \notin Executing
        /\ \/ protocols[m] # <<>> /\ worker' = [worker EXCEPT ![w] = r1]
           \/ worker' = [worker EXCEPT ![w] = r2]
    BY <1>1 DEF StartPrepare, Executing
  <2>1. r2.pc = "preparing" /\ r2.manifest = m /\ r2.doc = FirstAttempt BY DEF Idle
  <2>2. r1.pc = "reconciling" /\ r1.manifest = m /\ r1.doc = old BY DEF Idle
  <2>3. protocols[m] # <<>> => DocumentInvariant(m, old)
    BY LatestProtocolType DEF EffectInvariant, RowsFit, LatestProtocol
  <2> HIDE DEF r1, r2, old
  <2>4. CASE protocols[m] # <<>> /\ worker' = [worker EXCEPT ![w] = r1]
    BY <2>0, <2>2, <2>3, <2>4, QuietStep DEF Executing
  <2>5. CASE worker' = [worker EXCEPT ![w] = r2]
    BY <2>0, <2>1, <2>5, FirstDocument, QuietStep DEF Executing
  <2> QED BY <2>0, <2>4, <2>5
<1>2. CASE StartExecute(w, m)
  <2> DEFINE r == [Idle EXCEPT !.pc = "switches", !.manifest = m,
                               !.toRead = {Tenant, Campaign}]
  <2>1. r.pc = "switches" /\ r.manifest = m /\ r.doc = FirstAttempt BY DEF Idle
  <2>2. /\ UNCHANGED <<objects, protocols>> /\ worker[w].pc \notin Executing
        /\ worker' = [worker EXCEPT ![w] = r]
    BY <1>2 DEF StartExecute, Executing
  <2> HIDE DEF r
  <2> QED BY <2>1, <2>2, FirstDocument, QuietStep DEF Executing
<1> QED BY <1>1, <1>2

LEMMA ReconciledOperation ==
  ASSUME NEW m, NEW p, DocumentInvariant(m, p), p.status = "failed",
         NEW o \in ToReconcile(p), NEW op, NEW d, Rewrites(d, p, o, op),
         op.status = "succeeded", op.object = p.operations[o].object,
         op.media = p.operations[o].media
  PROVE  DocumentInvariant(m, d)
<1>1. RecordsOwn(m, d) BY DEF DocumentInvariant, RecordsOwn, Rewrites
<1>2. p.operations[o].status # "carried" /\ p.reconciled[o] = 0 /\ o \in Ops
  BY DEF DocumentInvariant, OperationsInOrder, ToReconcile
<1>3. ASSUME NEW q \in Ops, d.operations[q].status \in {"uncertain", "failed"},
             NEW x \in 1..(q - 1)
      PROVE  Done(d, x)
  <2>1. x \in Ops BY OperationAssumption DEF Ops
  <2>2. q # o /\ p.operations[q].status \in {"uncertain", "failed"}
    BY <1>3 DEF Rewrites
  <2>3. Done(p, x) BY <2>2 DEF DocumentInvariant, OperationsInOrder
  <2> QED BY <2>1, <2>3 DEF Done, Rewrites
<1>4. OperationsInOrder(d)
  BY <1>2, <1>3 DEF DocumentInvariant, OperationsInOrder, Rewrites
<1>5. StatusFits(d) BY DEF StatusFits, Rewrites
<1> QED BY <1>1, <1>4, <1>5 DEF DocumentInvariant

LEMMA ReconcileReadEffects ==
  ASSUME TypeOK, ProtocolInvariant, EffectInvariant, NEW w \in Workers, NEW o \in Ops,
         ReconcileRead(w, o)
  PROVE  EffectInvariant'
<1> DEFINE r == worker[w]
           p == r.doc
           op == [p.operations[o] EXCEPT !.status = "succeeded", !.observed = "paused"]
           doc == [p EXCEPT !.operations[o] = op]
           pc == IF ToReconcile(doc) = {} THEN "storingReconciled" ELSE "reconciling"
           r1 == [r EXCEPT !.doc = doc, !.pc = pc]
           r2 == [r EXCEPT !.pc = "alarmingReconciled"]
<1>0. r \in Worker /\ p \in Protocol /\ p.operations[o] \in Operation
  BY DEF TypeOK, Worker, Protocol
<1>1. doc = [p EXCEPT !.operations[o].status = "succeeded",
                      !.operations[o].observed = "paused"]
  BY <1>0 DEF Protocol, Operation
<1>2. /\ r.pc = "reconciling" /\ o \in ToReconcile(p)
      /\ UNCHANGED <<objects, protocols>>
      /\ worker' = [worker EXCEPT ![w] = r1] \/ worker' = [worker EXCEPT ![w] = r2]
  BY <1>0, <1>1 DEF ReconcileRead, TypeOK
<1>3. p.status = "failed" /\ DocumentInvariant(r.manifest, p)
  BY <1>2 DEF ProtocolInvariant, RequestInvariant, Reconciling, EffectInvariant,
              EffectsKnown
<1>4. /\ r1.pc \in {"storingReconciled", "reconciling"} /\ r1.doc = doc
      /\ r1.manifest = r.manifest
      /\ r2.pc = "alarmingReconciled" /\ r2.doc = p /\ r2.manifest = r.manifest
  BY <1>0 DEF Worker
<1>5. Rewrites(doc, p, o, op) BY <1>0 DEF Protocol, Rewrites
<1>6. /\ op.status = "succeeded" /\ op.object = p.operations[o].object
      /\ op.media = p.operations[o].media
  BY <1>0 DEF Operation
<1> HIDE DEF r1, r2, doc, op
<1>7. DocumentInvariant(r.manifest, doc)
  BY <1>2, <1>3, <1>5, <1>6, ReconciledOperation
<1>8. CASE worker' = [worker EXCEPT ![w] = r1]
  BY <1>2, <1>4, <1>7, <1>8, QuietStep DEF Executing
<1>9. CASE worker' = [worker EXCEPT ![w] = r2]
  BY <1>2, <1>3, <1>4, <1>9, QuietStep DEF Executing
<1> QED BY <1>2, <1>8, <1>9

LEMMA PrepareEffects ==
  ASSUME TypeOK, EffectInvariant, NEW w \in Workers, Prepare(w)
  PROVE  EffectInvariant'
<1> DEFINE r == worker[w]
           m == r.manifest
           previous == LatestProtocol(m)
           d == IF protocols[m] = <<>> THEN FirstAttempt ELSE Retry(previous)
           r1 == [r EXCEPT !.pc = "inserting", !.doc = d]
<1>0. /\ r \in Worker /\ m \in Manifests /\ UNCHANGED <<objects, protocols>>
      /\ r.pc \notin Executing
  BY ManifestType DEF Prepare, TypeOK, Executing
<1>1. CASE Return(w) BY <1>0, <1>1, QuietReturn
<1>2. CASE /\ protocols[m] # <<>> => ~RetryBlocked(previous)
           /\ worker' = [worker EXCEPT ![w] = r1]
  <2>1. r1.pc = "inserting" /\ r1.doc = d /\ r1.manifest = m BY <1>0 DEF Worker
  <2>2. CASE protocols[m] = <<>>
    <3>1. DocumentInvariant(m, d) BY <2>2, FirstDocument
    <3>2. 1 \in Ops /\ d.reconciled[1] = 0
      BY <2>2, OperationAssumption DEF Ops, FirstAttempt, NewProtocol
    <3> HIDE DEF r1, d
    <3> QED BY <1>0, <1>2, <2>1, <3>1, <3>2, QuietStep DEF Executing
  <2>3. CASE protocols[m] # <<>>
    <3>1. DocumentInvariant(m, previous)
      BY <1>0, <2>3, LatestProtocolType DEF EffectInvariant, RowsFit, LatestProtocol
    <3>2. DocumentInvariant(m, d) BY <2>3, <3>1, RetryDocument
    <3>3. \E o \in Ops : d.reconciled[o] = 0
      <4>1. d.reconciled = [o \in Ops |-> ReconciledId(previous, o)]
        BY <2>3 DEF Retry, NewProtocol
      <4> QED BY <1>2, <2>3, <4>1 DEF RetryBlocked
    <3> HIDE DEF r1, d
    <3> QED BY <1>0, <1>2, <2>1, <3>2, <3>3, QuietStep DEF Executing
  <2> QED BY <2>2, <2>3
<1> QED BY <1>0, <1>1, <1>2 DEF Prepare, TypeOK
LEMMA EffectTypes ==
  ASSUME TypeOK, NEW i \in DOMAIN objects
  PROVE  /\ i \in Nat /\ i # 0
         /\ objects[i].manifest \in Manifests /\ objects[i].operation \in Ops
         /\ objects[i].kind \in {"object", "video"}
<1>1. objects \in Seq(Object) BY DEF TypeOK
<1>2. i \in Nat /\ i # 0 BY <1>1, LenProperties
<1>3. objects[i] \in Object BY <1>1, LenProperties, ElementOfSeq
<1> QED BY <1>2, <1>3 DEF Object

LEMMA CopyHolds ==
  ASSUME TypeOK, NEW p, NEW q, CopyOf(p, q), NEW i \in DOMAIN objects
  PROVE  Holds(p, i) <=> Holds(q, i)
BY EffectTypes, HashFields DEF CopyOf, Holds

LEMMA StoreReconciledEffects ==
  ASSUME TypeOK, ProtocolInvariant, EffectInvariant, NEW w \in Workers,
         StoreReconciled(w)
  PROVE  EffectInvariant'
<1> DEFINE r == worker[w]
           m == r.manifest
           a == r.attempt
           p == r.doc
           r1 == [Idle EXCEPT !.pc = "preparing", !.manifest = m]
<1>0. /\ r.pc = "storingReconciled" /\ m \in Manifests /\ p \in Protocol
      /\ UNCHANGED objects
  BY ManifestType DEF StoreReconciled, TypeOK, Worker
<1>1. /\ a \in DOMAIN protocols[m] /\ protocols[m][a].status = "failed"
      /\ p.status = "failed" /\ CopyOf(p, protocols[m][a])
  BY <1>0 DEF ProtocolInvariant, RequestInvariant, Reconciling
<1>2. protocols' = [protocols EXCEPT ![m][a] = p]
  BY DEF StoreReconciled, UpdateExecution
<1>3. DocumentInvariant(m, p) BY <1>0 DEF EffectInvariant, EffectsKnown
<1>4. worker'[w] = r1 /\ \A x \in Workers \ {w} : worker'[x] = worker[x]
  BY DEF StoreReconciled, TypeOK
<1>5. r1.pc = "preparing" /\ r1.doc = FirstAttempt /\ r1.manifest = m BY DEF Idle
<1> HIDE DEF r1
<1>6. EffectsKnown(worker[w])'
  <2>1. DocumentInvariant(m, FirstAttempt)'
    BY <1>0, FirstDocument, GrowsUnchanged, DocumentStable
  <2> QED BY <1>4, <1>5, <2>1, QuietKnown DEF Executing
<1>7. \A x \in Workers \ {w} : worker[x].pc \in Executing =>
        worker[x].manifest # m \/ worker[x].attempt # a
  BY <1>1, ExecutorRow
<1>8. AnsweredAreHeld'
  <2> DEFINE n == Len(protocols[m])
  <2>1. /\ \A k \in Manifests \ {m} : protocols'[k] = protocols[k]
        /\ protocols'[m] = [protocols[m] EXCEPT ![a] = p]
    BY <1>0, <1>2 DEF TypeOK
  <2>2. /\ Len(protocols'[m]) = n /\ DOMAIN protocols'[m] = DOMAIN protocols[m]
        /\ \A b \in DOMAIN protocols[m] :
             protocols'[m][b] = IF b = a THEN p ELSE protocols[m][b]
    <3>1. protocols[m] \in Seq(Protocol) BY <1>0 DEF TypeOK
    <3> QED BY <1>0, <1>1, <2>1, <3>1, ReplaceInSeq
  <2>3. n \in DOMAIN protocols[m] BY <1>0, <1>1, RowType
  <2>4. protocols'[m] # <<>> BY <1>1, <2>2
  <2>5. protocols'[m][n].status = protocols[m][n].status BY <1>1, <2>2, <2>3
  <2>6. \A i \in DOMAIN objects :
          Holds(protocols[m][n], i) => Holds(protocols'[m][n], i)
    BY <1>1, <2>2, <2>3, CopyHolds
  <2> HIDE DEF n
  <2>7. /\ worker[w].pc \notin Executing /\ worker'[w].pc \notin Executing
    BY <1>0, <1>4, <1>5 DEF Executing
  <2>8. \A i \in DOMAIN objects : objects[i].manifest \in Manifests BY EffectTypes
  <2> QED BY <1>0, <1>4, <2>1, <2>2, <2>4, <2>5, <2>6, <2>7, <2>8, HeldByReconciler
          DEF n, EffectInvariant
<1>9. p.status = "running" => Unbroken(p) BY <1>1
<1>10. /\ m \in Manifests /\ a \in DOMAIN protocols[m] /\ p \in Protocol
       /\ \A x \in Workers \ {w} : worker'[x] = worker[x]
       /\ UNCHANGED objects /\ RowReplaced(m, a, p)
  BY <1>0, <1>1, <1>2, <1>4 DEF RowReplaced
<1> HIDE DEF r, m, a, p
<1> QED BY <1>3, <1>6, <1>7, <1>8, <1>9, <1>10, RowWritten

\* The next attempt holds what the failed one holds.
LEMMA RetryHolds ==
  ASSUME TypeOK, EffectInvariant, NEW m \in Manifests, NEW q,
         DocumentInvariant(m, q), Unreconciled(q) = {},
         NEW p, ProtocolHash(p) = ProtocolHash(Retry(q)),
         NEW i \in DOMAIN objects, objects[i].manifest = m, objects[i].answered,
         Holds(q, i)
  PROVE  Holds(p, i)
<1> DEFINE o == objects[i].operation
<1>1. o \in Ops /\ i \in Nat /\ i # 0 BY EffectTypes
<1>2. /\ p.reconciled[o] = ReconciledId(q, o) /\ p.preserved[o] = PreservedId(q, o)
  <2>1. /\ Retry(q).reconciled = [x \in Ops |-> ReconciledId(q, x)]
        /\ Retry(q).preserved = [x \in Ops |-> PreservedId(q, x)]
    BY DEF Retry, NewProtocol
  <2> QED BY <1>1, <2>1, HashFields
<1>3. CASE objects[i].kind = "object"
  <2>1. i \in {q.operations[o].object, q.reconciled[o]} BY <1>3 DEF Holds
  <2>2. CASE i = q.operations[o].object
    <3>1. Safe(q.operations[o]) BY <1>1, <2>2 DEF Unreconciled
    <3> QED BY <1>2, <1>3, <2>2, <3>1 DEF Holds, ReconciledId
  <2>3. CASE i = q.reconciled[o]
    <3>1. q.operations[o].object = 0
      BY <1>1, <2>3 DEF DocumentInvariant, OperationsInOrder
    <3> QED BY <1>2, <1>3, <2>3, <3>1 DEF Holds, ReconciledId, Safe
  <2> QED BY <2>1, <2>2, <2>3
<1>4. CASE objects[i].kind # "object"
  <2>0. objects[i].kind = "video" BY <1>4, EffectTypes
  <2>1. i \in {q.operations[o].media, q.preserved[o]} BY <1>4 DEF Holds
  <2>2. CASE q.operations[o].media = 0 BY <1>1, <1>2, <1>4, <2>1, <2>2 DEF Holds, PreservedId
  <2>3. CASE q.operations[o].media # 0
    <3> DEFINE j == q.operations[o].media
    <3>1. Answered(j, m, o, "video") BY <1>1 DEF DocumentInvariant, RecordsOwn
    <3>2. /\ j \in DOMAIN objects /\ objects[j].manifest = m /\ objects[j].operation = o
          /\ objects[j].kind = "video" /\ objects[j].answered
      BY <2>3, <3>1 DEF Answered
    <3>3. j \in Nat BY <3>2, EffectTypes
    <3>4. ~(i < j) /\ ~(j < i)
      BY <2>0, <3>2 DEF EffectInvariant, AnsweredEffectsNotRepeated
    <3>5. i = j
      <4> HIDE DEF j
      <4> QED BY <1>1, <3>3, <3>4
    <3> QED BY <1>2, <1>4, <2>3, <3>5 DEF Holds, PreservedId
  <2> QED BY <2>2, <2>3
<1> QED BY <1>3, <1>4

LEMMA InsertProtocolEffects ==
  ASSUME TypeOK, ProtocolInvariant, EffectInvariant, NEW w \in Workers,
         InsertProtocol(w)
  PROVE  EffectInvariant'
<1> DEFINE m == worker[w].manifest
           p == worker[w].doc
           n == Len(protocols[m])
           exists == \E a \in DOMAIN protocols[m] :
                       ProtocolHash(protocols[m][a]) = ProtocolHash(p)
<1>0. /\ worker[w].pc = "inserting" /\ m \in Manifests /\ p \in Protocol
      /\ Return(w) /\ UNCHANGED objects /\ worker[w].pc \notin Executing
  BY ManifestType DEF InsertProtocol, TypeOK, Worker, Executing
<1>1. CASE exists
  <2>1. protocols' = protocols BY <1>1 DEF InsertProtocol
  <2> QED BY <1>0, <2>1, QuietReturn
<1>2. CASE ~exists
  <2>1. protocols' = [protocols EXCEPT ![m] = Append(@, p)] BY <1>2 DEF InsertProtocol
  <2>2. /\ p.status = "prepared"
        /\ \/ n = 0
           \/ /\ n \in DOMAIN protocols[m]
              /\ protocols[m][n].status = "failed"
              /\ Unreconciled(protocols[m][n]) = {}
              /\ ProtocolHash(p) = ProtocolHash(Retry(protocols[m][n]))
    BY <1>0, <1>2, InsertedContinues
  <2>3. protocols[m] \in Seq(Protocol) /\ protocols'[m] = Append(protocols[m], p)
    BY <1>0, <2>1 DEF TypeOK
  <2>4. /\ n \in Nat /\ DOMAIN protocols[m] = 1..n
        /\ DOMAIN protocols'[m] = 1..(n + 1) /\ Len(protocols'[m]) = n + 1
        /\ protocols'[m][n + 1] = p
        /\ \A b \in 1..n : protocols'[m][b] = protocols[m][b]
    BY <1>0, <2>3, AppendProperties, LenProperties
  <2>5. \A k \in Manifests \ {m} : protocols'[k] = protocols[k] BY <2>1 DEF TypeOK
  <2>6. Grows /\ AnsweredEffectsNotRepeated' /\ DependenciesFirst'
    BY <1>0, EffectsUnchanged
  <2>7. /\ DocumentInvariant(m, p) BY <1>0 DEF EffectInvariant, EffectsKnown
  <2>8. RowsFit'
    <3> SUFFICES ASSUME NEW k \in Manifests, NEW b \in DOMAIN protocols'[k],
                        NEW q, q = protocols'[k][b]
                 PROVE  DocumentInvariant(k, q)' /\ (q.status = "running" => Unbroken(q))
      BY DEF RowsFit, Unbroken, Done
    <3>1. CASE k = m /\ b = n + 1 BY <2>2, <2>4, <2>6, <2>7, <3>1, DocumentStable
    <3>2. CASE ~(k = m /\ b = n + 1)
      <4>1. b \in DOMAIN protocols[k] /\ protocols'[k][b] = protocols[k][b]
        <5>1. CASE k = m
          <6>1. b \in 1..n BY <2>4, <3>2, <5>1
          <6> QED BY <2>4, <5>1, <6>1
        <5>2. CASE k # m BY <2>5, <5>2
        <5> QED BY <5>1, <5>2
      <4>2. DocumentInvariant(k, q) /\ (q.status = "running" => Unbroken(q))
        BY <4>1 DEF EffectInvariant, RowsFit
      <4> QED BY <2>6, <4>2, DocumentStable
    <3> QED BY <3>1, <3>2
  <2>9. /\ worker'[w] = Idle /\ \A x \in Workers \ {w} : worker'[x] = worker[x]
        /\ worker'[w].pc \notin Executing
    BY <1>0, ReturnInvariant
  <2>10. ASSUME NEW x \in Workers PROVE EffectsKnown(worker[x])'
    <3>1. CASE x = w
      <4>1. DocumentInvariant(Idle.manifest, Idle.doc)'
        BY <2>6, IdleDocument, DocumentStable
      <4> QED BY <2>9, <3>1, <4>1, IdleDocument, QuietKnown DEF Executing
    <3>2. CASE x # w
      <4>1. worker'[x] = worker[x] /\ EffectsKnown(worker[x])
        BY <2>9, <3>2 DEF EffectInvariant
      <4>2. worker[x].pc \in Executing =>
              protocols'[worker[x].manifest][worker[x].attempt]
                = protocols[worker[x].manifest][worker[x].attempt]
        BY <2>4, <2>5, ExecutorRow
      <4> QED BY <2>6, <4>1, <4>2, KnownStable
    <3> QED BY <3>1, <3>2
  <2>11. AnsweredAreHeld'
    <3>1. \A x \in Workers : worker[x].pc \in Executing => worker[x].manifest # m
      BY <2>2, <2>4, ExecutorRow
    <3>2. protocols'[m] # <<>> BY <2>4
    <3>3. protocols[m] # <<>> =>
            /\ n \in DOMAIN protocols[m] /\ LatestProtocol(m) = protocols[m][n]
            /\ protocols[m][n].status = "failed"
            /\ Unreconciled(protocols[m][n]) = {}
            /\ ProtocolHash(p) = ProtocolHash(Retry(protocols[m][n]))
      <4>1. protocols[m] # <<>> => n # 0 BY <2>3, EmptySeq
      <4> QED BY <2>2, <4>1 DEF LatestProtocol
    <3>4. protocols[m] # <<>> => DocumentInvariant(m, protocols[m][n])
      BY <1>0, <3>3 DEF EffectInvariant, RowsFit
    <3>5. \A i \in DOMAIN objects :
            /\ objects[i].answered /\ objects[i].manifest = m
            /\ protocols[m] # <<>> /\ Holds(LatestProtocol(m), i)
            => Holds(protocols'[m][Len(protocols'[m])], i)
      BY <1>0, <2>4, <3>3, <3>4, RetryHolds
    <3>6. \A i \in DOMAIN objects : objects[i].manifest \in Manifests BY EffectTypes
    <3>7. protocols[m] # <<>> => LatestProtocol(m).status # "running" BY <3>3
    <3> HIDE DEF m
    <3> QED BY <1>0, <2>5, <2>9, <3>1, <3>2, <3>5, <3>6, <3>7, HeldByNext
            DEF EffectInvariant
  <2> QED BY <2>6, <2>8, <2>10, <2>11 DEF EffectInvariant
<1> QED BY <1>1, <1>2
LEMMA ReadEffects ==
  ASSUME TypeOK, EffectInvariant, NEW w \in Workers,
         ReadProtocol(w) \/ \E t \in Targets : ReadSwitch(w, t)
  PROVE  EffectInvariant'
<1> DEFINE r == worker[w]
           m == r.manifest
<1>0. /\ r \in Worker /\ UNCHANGED <<objects, protocols>> /\ r.pc \notin Executing
      /\ m \in Manifests
  BY ManifestType DEF TypeOK, ReadProtocol, ReadSwitch, Executing
<1>1. ASSUME NEW t \in Targets, ReadSwitch(w, t) PROVE EffectInvariant'
  <2> DEFINE pc == IF r.toRead = {t} THEN "protocol" ELSE "switches"
             r1 == [r EXCEPT !.toRead = r.toRead \ {t}, !.pc = pc]
  <2>1. CASE Return(w) BY <1>0, <2>1, QuietReturn
  <2>2. CASE worker' = [worker EXCEPT ![w] = r1]
    <3>1. r1.pc \in {"protocol", "switches"} /\ r1.doc = r.doc /\ r1.manifest = m
      BY <1>0 DEF Worker
    <3>2. DocumentInvariant(m, r.doc) BY DEF EffectInvariant, EffectsKnown
    <3> HIDE DEF r1
    <3> QED BY <1>0, <2>2, <3>1, <3>2, QuietStep DEF Executing
  <2>3. Return(w) \/ worker' = [worker EXCEPT ![w] = r1]
    BY <1>0, <1>1 DEF ReadSwitch, TypeOK
  <2> QED BY <2>1, <2>2, <2>3
<1>2. CASE ReadProtocol(w)
  <2> DEFINE old == LatestProtocol(m)
             r1 == [r EXCEPT !.pc = "begin", !.attempt = Len(protocols[m]), !.doc = old]
  <2>1. CASE Return(w) BY <1>0, <2>1, QuietReturn
  <2>2. CASE /\ protocols[m] # <<>> /\ old.status = "prepared"
             /\ worker' = [worker EXCEPT ![w] = r1]
    <3>1. r1.pc = "begin" /\ r1.doc = old /\ r1.manifest = m BY <1>0 DEF Worker
    <3>2. DocumentInvariant(m, old)
      BY <1>0, <2>2, LatestProtocolType DEF EffectInvariant, RowsFit, LatestProtocol
    <3> HIDE DEF r1, old
    <3> QED BY <1>0, <2>2, <3>1, <3>2, QuietStep DEF Executing
  <2>3. \/ Return(w)
        \/ /\ protocols[m] # <<>> /\ old.status = "prepared"
           /\ worker' = [worker EXCEPT ![w] = r1]
    BY <1>0, <1>2 DEF ReadProtocol, TypeOK
  <2> QED BY <2>1, <2>2, <2>3
<1> QED BY <1>1, <1>2

\* A prepared document that is taken for execution.
LEMMA RunningDocument ==
  ASSUME NEW m, NEW p, DocumentInvariant(m, p), p.status = "prepared",
         NEW d, d.status = "running", d.operations = p.operations,
         ProtocolHash(d) = ProtocolHash(p)
  PROVE  /\ DocumentInvariant(m, d) /\ Unbroken(d)
         /\ \A o \in Ops : d.operations[o].media = 0
<1>1. \A o \in Ops : /\ p.operations[o].status \in {"carried", "pending"}
                     /\ p.operations[o].media = 0
  BY DEF DocumentInvariant, StatusFits
<1>2. d.reconciled = p.reconciled /\ d.preserved = p.preserved BY HashFields
<1> QED BY <1>1, <1>2
        DEF DocumentInvariant, RecordsOwn, OperationsInOrder, StatusFits, Unbroken, Done

LEMMA BeginsKnown ==
  ASSUME Grows, NEW m, NEW p, DocumentInvariant(m, p), Unbroken(p),
         \A o \in Ops : p.operations[o].media = 0,
         NEW s, s.pc = "operation", s.doc = p, s.manifest = m,
         protocols'[m][s.attempt] = p
  PROVE  EffectsKnown(s)'
<1>1. DocumentInvariant(m, p)' BY DocumentStable
<1> QED BY <1>1 DEF EffectsKnown, AtOperation, Executing, Pending

LEMMA BeginExecutionEffects ==
  ASSUME TypeOK, ProtocolInvariant, EffectInvariant, NEW w \in Workers,
         BeginExecution(w)
  PROVE  EffectInvariant'
<1> DEFINE r == worker[w]
           m == r.manifest
           a == r.attempt
           running == [r.doc EXCEPT !.status = "running"]
           r1 == [r EXCEPT !.pc = "operation", !.doc = running]
<1>0. /\ r \in Worker /\ m \in Manifests /\ r.pc = "begin" /\ r.pc \notin Executing
      /\ UNCHANGED objects /\ a \in DOMAIN protocols[m] /\ r.doc \in Protocol
      /\ ProtocolHash(r.doc) = ProtocolHash(protocols[m][a])
      /\ DocumentInvariant(m, r.doc) /\ r.doc.status = "prepared"
  BY ManifestType DEF BeginExecution, ProtocolInvariant, RequestInvariant, TypeOK, Worker,
     EffectInvariant, EffectsKnown, Executing
<1>1. CASE Return(w) /\ UNCHANGED protocols BY <1>0, <1>1, QuietReturn
<1>2. CASE /\ CanBegin(m, a) /\ protocols' = [protocols EXCEPT ![m][a] = running]
           /\ worker' = [worker EXCEPT ![w] = r1]
  <2>1. worker'[w] = r1 /\ \A x \in Workers \ {w} : worker'[x] = worker[x]
    BY <1>2 DEF TypeOK
  <2>2. /\ r1.pc = "operation" /\ r1.doc = running /\ r1.manifest = m /\ r1.attempt = a
    BY <1>0 DEF Worker
  <2>3. /\ DocumentInvariant(m, running) /\ Unbroken(running)
        /\ \A o \in Ops : running.operations[o].media = 0
        /\ running \in Protocol /\ running.status = "running"
        /\ ProtocolHash(running) = ProtocolHash(protocols[m][a])
    <3>1. /\ running \in Protocol /\ running.status = "running"
          /\ running.operations = r.doc.operations
          /\ ProtocolHash(running) = ProtocolHash(r.doc)
      BY <1>0 DEF Protocol, ProtocolStatus, ProtocolHash
    <3> HIDE DEF running
    <3> QED BY <1>0, <3>1, RunningDocument
  <2>4. protocols[m][a].status = "prepared" BY <1>2 DEF CanBegin
  <2>5. a = Len(protocols[m]) BY <1>0, <2>4, NotFailedIsLatest DEF ProtocolInvariant
  <2>6. \A x \in Workers \ {w} : worker[x].pc \in Executing => worker[x].manifest # m
    BY <2>4, <2>5, ExecutorRow
  <2> HIDE DEF r1, running
  <2>7. /\ Len(protocols'[m]) = a /\ protocols'[m][a] = running /\ protocols'[m] # <<>>
        /\ \A n \in Manifests \ {m} : protocols'[n] = protocols[n]
    <3>1. protocols[m] \in Seq(Protocol) BY <1>0 DEF TypeOK
    <3>2. /\ protocols'[m] = [protocols[m] EXCEPT ![a] = running]
          /\ \A n \in Manifests \ {m} : protocols'[n] = protocols[n]
      BY <1>0, <1>2 DEF TypeOK
    <3>3. /\ Len(protocols'[m]) = Len(protocols[m]) /\ protocols'[m][a] = running
          /\ DOMAIN protocols'[m] = DOMAIN protocols[m]
      BY <1>0, <2>3, <3>1, <3>2, ReplaceInSeq
    <3> QED BY <1>0, <2>5, <3>2, <3>3
  <2>8. EffectsKnown(worker[w])'
    BY <1>0, <2>1, <2>2, <2>3, <2>7, GrowsUnchanged, BeginsKnown
  <2>9. AnsweredAreHeld'
    <3>1. LatestProtocol(m) = protocols[m][a] BY <2>5 DEF LatestProtocol
    <3>2. DocumentInvariant(m, protocols[m][a]) BY <1>0 DEF EffectInvariant, RowsFit
    <3>3. ASSUME NEW i \in DOMAIN objects, Holds(protocols[m][a], i)
          PROVE  Holds(running, i)
      <4>1. i # 0 /\ objects[i].operation \in Ops BY EffectTypes
      <4>2. \A o \in Ops : /\ protocols[m][a].operations[o].object = 0
                           /\ protocols[m][a].operations[o].media = 0
        BY <2>4, <3>2 DEF DocumentInvariant, StatusFits, OperationsInOrder
      <4> QED BY <2>3, <3>3, <4>1, <4>2, HashFields DEF Holds
    <3>4. \A i \in DOMAIN objects : Holds(running, i) => Has(worker[w], i)'
      BY <1>0, <2>1, <2>2, HoldsStable, GrowsUnchanged DEF Has
    <3>5. worker'[w].pc \in Executing /\ worker'[w].manifest = m
      BY <2>1, <2>2 DEF Executing
    <3>6. \A i \in DOMAIN objects : objects[i].manifest \in Manifests BY EffectTypes
    <3>7. LatestProtocol(m).status # "running" BY <2>4, <3>1
    <3> HIDE DEF r, m, a
    <3> QED BY <1>0, <2>1, <2>6, <2>7, <3>1, <3>3, <3>4, <3>5, <3>6, <3>7, HeldByWriter
            DEF EffectInvariant, r
  <2>10. \A x \in Workers \ {w} : worker[x].pc \in Executing =>
           worker[x].manifest # m \/ worker[x].attempt # a
    BY <2>6
  <2>11. RowReplaced(m, a, running) BY <1>2 DEF RowReplaced, running
  <2> HIDE DEF r, m, a
  <2> QED BY <1>0, <2>1, <2>3, <2>8, <2>9, <2>10, <2>11, RowWritten
<1>3. \/ Return(w) /\ UNCHANGED protocols
      \/ /\ CanBegin(m, a) /\ protocols' = [protocols EXCEPT ![m][a] = running]
         /\ worker' = [worker EXCEPT ![w] = r1]
  BY <1>0 DEF BeginExecution, TypeOK
<1> QED BY <1>1, <1>2, <1>3
-----------------------------------------------------------------------------
(* Requests that execute.                                                  *)

\* The executor writes its row.
LEMMA ExecutorWritesEffects ==
  ASSUME TypeOK, ProtocolInvariant, EffectInvariant, UNCHANGED objects,
         NEW w \in Workers, worker[w].pc \in Executing,
         NEW p \in Protocol, DocumentInvariant(worker[w].manifest, p),
         p.status = "running" => Unbroken(p), UpdateExecution(w, p),
         \A x \in Workers \ {w} : worker'[x] = worker[x], EffectsKnown(worker[w])',
         worker'[w].pc \in Executing => worker'[w].manifest = worker[w].manifest,
         \A i \in DOMAIN objects :
           Has(worker[w], i) => IF worker'[w].pc \in Executing THEN Has(worker[w], i)'
                                ELSE Holds(p, i)
  PROVE  EffectInvariant'
<1>1. PICK m, a : m \in Manifests /\ m = worker[w].manifest /\ a = worker[w].attempt
  BY ExecutorRow
<1>2. /\ a \in DOMAIN protocols[m] /\ a = Len(protocols[m])
      /\ protocols[m][a].status = "running"
  BY <1>1, ExecutorRow
<1>3. protocols' = [protocols EXCEPT ![m][a] = p] BY <1>1 DEF UpdateExecution
<1>4. /\ Len(protocols'[m]) = a /\ protocols'[m][a] = p /\ protocols'[m] # <<>>
      /\ \A n \in Manifests \ {m} : protocols'[n] = protocols[n]
  <2>1. m \in Manifests /\ protocols[m] \in Seq(Protocol) BY <1>1 DEF TypeOK
  <2>2. /\ protocols'[m] = [protocols[m] EXCEPT ![a] = p]
        /\ \A n \in Manifests \ {m} : protocols'[n] = protocols[n]
    BY <1>3, <2>1 DEF TypeOK
  <2>3. /\ Len(protocols'[m]) = Len(protocols[m]) /\ protocols'[m][a] = p
        /\ DOMAIN protocols'[m] = DOMAIN protocols[m]
    BY <1>2, <2>1, <2>2, ReplaceInSeq
  <2> QED BY <1>2, <2>2, <2>3
<1>5. \A x \in Workers \ {w} : worker[x].pc \in Executing => worker[x].manifest # m
  BY <1>1 DEF ProtocolInvariant, OneExecutorPerManifest
<1>6. AnsweredAreHeld'
  <2>1. \A i \in DOMAIN objects : objects[i].manifest \in Manifests BY EffectTypes
  <2> QED BY <1>1, <1>4, <1>5, <2>1, HeldByWriter DEF EffectInvariant
<1>7. /\ DocumentInvariant(m, p) /\ a \in DOMAIN protocols[m]
      /\ \A x \in Workers \ {w} : worker[x].pc \in Executing =>
           worker[x].manifest # m \/ worker[x].attempt # a
      /\ RowReplaced(m, a, p)
  BY <1>1, <1>2, <1>3, <1>5 DEF RowReplaced
<1> QED BY <1>1, <1>6, <1>7, RowWritten

\* The executor goes on, as s, without writing its row.
LEMMA ExecutorStepEffects ==
  ASSUME TypeOK, ProtocolInvariant, EffectInvariant,
         Grows, AnsweredEffectsNotRepeated', DependenciesFirst',
         protocols' = protocols, NEW w \in Workers, NEW r, r = worker[w],
         r.pc \in Executing,
         NEW s, s.pc \in Executing, s.manifest = r.manifest,
         worker' = [worker EXCEPT ![w] = s], EffectsKnown(s)',
         \A i \in DOMAIN objects : Has(r, i) => Has(s, i)',
         \A i \in DOMAIN objects' \ DOMAIN objects : objects'[i].answered =>
           objects'[i].manifest = r.manifest /\ Has(s, i)'
  PROVE  EffectInvariant'
<1>1. worker'[w] = s /\ \A x \in Workers \ {w} : worker'[x] = worker[x] BY DEF TypeOK
<1>2. /\ protocols[r.manifest] # <<>>
      /\ \A x \in Workers \ {w} :
           worker[x].pc \in Executing => worker[x].manifest # r.manifest
  <2>1. /\ r.manifest \in Manifests /\ r.attempt \in DOMAIN protocols[r.manifest]
    BY ExecutorRow
  <2> QED BY <2>1 DEF ProtocolInvariant, OneExecutorPerManifest
<1>3. EffectsKnown(worker[w])' BY <1>1
<1>4. \A i \in DOMAIN objects : Has(worker[w], i) => Has(worker[w], i)' BY <1>1
<1>5. \A i \in DOMAIN objects' \ DOMAIN objects : objects'[i].answered =>
        objects'[i].manifest = r.manifest /\ Has(worker[w], i)'
  BY <1>1
<1>6. AnsweredAreHeld' BY <1>1, <1>2, <1>4, <1>5, HeldMoves DEF EffectInvariant
<1> QED BY <1>1, <1>3, <1>6, RequestMovesEffects

\* The executor only goes on to the end of a failed attempt.
LEMMA ExecutorKeepsEffects ==
  ASSUME TypeOK, ProtocolInvariant, EffectInvariant, UNCHANGED <<objects, protocols>>,
         NEW w \in Workers, worker[w].pc \in Executing \ {"reading"},
         NEW pc \in {"engaging", "failing"}, worker' = [worker EXCEPT ![w].pc = pc]
  PROVE  EffectInvariant'
<1>1. PICK r : r = worker[w] OBVIOUS
<1>2. PICK s : s = [r EXCEPT !.pc = pc] OBVIOUS
<1>3. r \in Worker BY <1>1 DEF TypeOK
<1>4. /\ s.pc = pc /\ s.doc = r.doc /\ s.manifest = r.manifest
      /\ s.attempt = r.attempt
  BY <1>2, <1>3 DEF Worker
<1>5. worker' = [worker EXCEPT ![w] = s] BY <1>1, <1>2 DEF TypeOK
<1>6. Grows /\ AnsweredEffectsNotRepeated' /\ DependenciesFirst' BY EffectsUnchanged
<1>7. EffectsKnown(r) BY <1>1 DEF EffectInvariant
<1>8. EffectsKnown(s)' BY <1>1, <1>4, <1>6, <1>7, KeepsKnown
<1>9. \A i \in DOMAIN objects : Has(r, i) => Has(s, i)'
  BY <1>1, <1>4, <1>6, HoldsStable DEF Has
<1>10. /\ r.pc \in Executing /\ s.pc \in Executing /\ protocols' = protocols
       /\ DOMAIN objects' \ DOMAIN objects = {}
  BY <1>1, <1>4 DEF Executing
<1> QED BY <1>1, <1>4, <1>5, <1>6, <1>8, <1>9, <1>10, ExecutorStepEffects

LEMMA RewriteHolds ==
  ASSUME TypeOK, NEW p, NEW o \in Ops, NEW op, NEW d, Rewrites(d, p, o, op),
         p.operations[o].object \in {0, op.object},
         p.operations[o].media \in {0, op.media},
         NEW i \in DOMAIN objects, Holds(p, i)
  PROVE  Holds(d, i)
<1>1. i # 0 /\ objects[i].operation \in Ops BY EffectTypes
<1> QED BY <1>1 DEF Holds, Rewrites

\* The executor records op for the operation o that it executes.
LEMMA ExecutorRecordsEffects ==
  ASSUME TypeOK, ProtocolInvariant, EffectInvariant,
         Grows, AnsweredEffectsNotRepeated', DependenciesFirst',
         protocols' = protocols, NEW w \in Workers, NEW r, r = worker[w],
         r.pc \in AtOperation \cup {"operation"},
         NEW o \in Ops, IsCurrent(r.doc, o),
         NEW op, NEW d, Rewrites(d, r.doc, o, op),
         NEW s, s.doc = d, s.manifest = r.manifest, s.attempt = r.attempt,
         s.pc \in {"engaging", "alarming", "storing", "storingMedia", "creating"},
         s.pc \in {"engaging", "alarming"} => op.status \in {"uncertain", "failed"},
         s.pc = "storing" => op.status = "succeeded",
         s.pc \in {"storingMedia", "creating"} => op.status = "pending",
         op.status = "pending" => op.object = 0,
         Answered(op.object, r.manifest, o, "object")',
         Answered(op.media, r.manifest, o, "video")',
         r.pc = "reading" => op.object = r.created,
         r.doc.operations[o].media \in {0, op.media},
         worker' = [worker EXCEPT ![w] = s],
         \A i \in DOMAIN objects' \ DOMAIN objects : objects'[i].answered =>
           objects'[i].manifest = r.manifest /\ Holds(d, i)'
  PROVE  EffectInvariant'
<1>1. r.pc \in Executing /\ s.pc \in Executing BY DEF AtOperation, Executing
<1>2. EffectsKnown(r) /\ r.doc.status = "running"
  BY <1>1, ExecutorRow DEF EffectInvariant
<1>3. EffectsKnown(s)' BY <1>2, RecordsKnown
<1>4. r.doc.operations[o].object = 0
  BY <1>2 DEF EffectsKnown, DocumentInvariant, OperationsInOrder, IsCurrent, Pending
<1>5. ASSUME NEW i \in DOMAIN objects, Has(r, i) PROVE Has(s, i)'
  <2>1. Holds(d, i)
    <3>1. CASE Holds(r.doc, i) BY <1>4, <3>1, RewriteHolds
    <3>2. CASE r.pc = "reading" /\ r.created = i
      <4>1. i # 0 BY EffectTypes
      <4>2. Answered(i, r.manifest, o, "object")
        BY <1>2, <3>2 DEF EffectsKnown
      <4>3. objects[i].operation = o /\ objects[i].kind = "object"
        BY <4>1, <4>2 DEF Answered
      <4>4. d.operations[o] = op BY DEF Rewrites
      <4> QED BY <3>2, <4>3, <4>4 DEF Holds
    <3> QED BY <1>5, <3>1, <3>2 DEF Has
  <2> QED BY <2>1, HoldsStable DEF Has
<1>6. \A i \in DOMAIN objects' \ DOMAIN objects : objects'[i].answered =>
        objects'[i].manifest = r.manifest /\ Has(s, i)'
  BY DEF Has
<1> QED BY <1>1, <1>3, <1>5, <1>6, ExecutorStepEffects
LEMMA StoreEffects ==
  ASSUME TypeOK, ProtocolInvariant, EffectInvariant, NEW w \in Workers,
         StoreMedia(w) \/ StoreOperation(w)
  PROVE  EffectInvariant'
<1>1. PICK r : r = worker[w] OBVIOUS
<1>2. PICK next : /\ \/ r.pc = "storingMedia" /\ next = "video"
                     \/ r.pc = "storing" /\ next = "operation"
                  /\ \/ UpdateExecution(w, r.doc) /\ worker' = [worker EXCEPT ![w].pc = next]
                     \/ /\ worker' = [worker EXCEPT ![w].pc = "engaging"]
                        /\ UNCHANGED protocols
                  /\ UNCHANGED objects
  BY <1>1 DEF StoreMedia, StoreOperation, Store
<1>3. r.pc \in Executing /\ r.pc # "reading" BY <1>2 DEF Executing
<1>4. CASE worker' = [worker EXCEPT ![w].pc = "engaging"] /\ UNCHANGED protocols
  BY <1>1, <1>2, <1>3, <1>4, ExecutorKeepsEffects
<1>5. CASE UpdateExecution(w, r.doc) /\ worker' = [worker EXCEPT ![w].pc = next]
  <2>1. PICK s : s = [r EXCEPT !.pc = next] OBVIOUS
  <2>2. r \in Worker /\ r.doc \in Protocol BY <1>1 DEF TypeOK, Worker
  <2>3. /\ s.pc = next /\ s.doc = r.doc /\ s.manifest = r.manifest
        /\ s.attempt = r.attempt
    BY <2>1, <2>2 DEF Worker
  <2>4. worker'[w] = s /\ \A x \in Workers \ {w} : worker'[x] = worker[x]
    BY <1>1, <1>5, <2>1 DEF TypeOK
  <2>5. /\ r.manifest \in Manifests /\ r.attempt \in DOMAIN protocols[r.manifest]
    BY <1>1, <1>3, ExecutorRow
  <2>6. protocols'[r.manifest][r.attempt] = r.doc
    <3>1. protocols[r.manifest] \in Seq(Protocol) BY <2>5 DEF TypeOK
    <3>2. protocols'[r.manifest] = [protocols[r.manifest] EXCEPT ![r.attempt] = r.doc]
      BY <1>1, <1>5, <2>5 DEF TypeOK, UpdateExecution
    <3> QED BY <2>2, <2>5, <3>1, <3>2, ReplaceInSeq
  <2>7. EffectsKnown(r) BY <1>1 DEF EffectInvariant
  <2>8. EffectsKnown(s)'
    BY <1>2, <2>3, <2>6, <2>7, GrowsUnchanged, WriteKnown
  <2>9. EffectsKnown(worker[w])' BY <2>4, <2>8
  <2>10. DocumentInvariant(r.manifest, r.doc) /\ Unbroken(r.doc)
    BY <1>2, <2>7 DEF EffectsKnown, AtOperation
  <2>11. \A i \in DOMAIN objects :
           Has(worker[w], i) => IF worker'[w].pc \in Executing THEN Has(worker[w], i)'
                                ELSE Holds(r.doc, i)
    <3>1. \A i \in DOMAIN objects : Has(worker[w], i) => Holds(r.doc, i)
      BY <1>1, <1>3 DEF Has
    <3>2. \A i \in DOMAIN objects : Holds(r.doc, i) => Has(worker[w], i)'
      BY <1>2, <2>3, <2>4, HoldsStable, GrowsUnchanged DEF Has
    <3> QED BY <3>1, <3>2
  <2>12. worker'[w].pc \in Executing => worker'[w].manifest = worker[w].manifest
    BY <1>1, <2>3, <2>4
  <2>13. DocumentInvariant(worker[w].manifest, r.doc) /\ worker[w].pc \in Executing
    BY <1>1, <1>3, <2>10
  <2> QED BY <1>2, <1>5, <2>2, <2>4, <2>9, <2>10, <2>11, <2>12, <2>13,
             ExecutorWritesEffects
<1> QED BY <1>2, <1>4, <1>5

\* The last update of an attempt.
LEMMA CloseEffects ==
  ASSUME TypeOK, ProtocolInvariant, EffectInvariant, NEW w \in Workers,
         Fail(w) \/ Succeed(w)
  PROVE  EffectInvariant'
<1>1. PICK r : r = worker[w] OBVIOUS
<1>2. PICK status, p :
        /\ status \in {"failed", "succeeded"}
        /\ p = [r.doc EXCEPT !.status = status] /\ UpdateExecution(w, p)
        /\ Return(w) /\ UNCHANGED objects
        /\ \/ status = "failed" /\ r.pc = "failing"
           \/ status = "succeeded" /\ r.pc = "operation" /\ Pending(r.doc) = {}
  BY <1>1 DEF Fail, Succeed
<1>3. r \in Worker /\ r.doc \in Protocol BY <1>1 DEF TypeOK, Worker
<1>4. /\ p \in Protocol /\ p.status = status /\ p.operations = r.doc.operations
      /\ p.reconciled = r.doc.reconciled /\ p.preserved = r.doc.preserved
  BY <1>2, <1>3 DEF Protocol, ProtocolStatus
<1>5. r.pc \in Executing /\ r.pc # "reading" BY <1>2 DEF Executing
<1>6. EffectsKnown(r) BY <1>1 DEF EffectInvariant
<1>7. DocumentInvariant(r.manifest, p)
  <2>1. DocumentInvariant(r.manifest, r.doc) BY <1>6 DEF EffectsKnown
  <2>2. status = "succeeded" => \A o \in Ops : Done(r.doc, o)
    BY <1>2, <1>6 DEF EffectsKnown, AtOperation, Unbroken, Pending
  <2> QED BY <1>2, <1>4, <2>1, <2>2
          DEF DocumentInvariant, RecordsOwn, OperationsInOrder, StatusFits, Done
<1>8. /\ worker'[w] = Idle /\ \A x \in Workers \ {w} : worker'[x] = worker[x]
      /\ worker'[w].pc \notin Executing
  BY <1>2, ReturnInvariant
<1>9. EffectsKnown(worker[w])'
  <2>1. DocumentInvariant(Idle.manifest, Idle.doc)'
    BY <1>2, IdleDocument, GrowsUnchanged, DocumentStable
  <2> QED BY <1>8, <2>1, IdleDocument, QuietKnown DEF Executing
<1>10. \A i \in DOMAIN objects : Has(worker[w], i) => Holds(p, i)
  BY <1>1, <1>4, <1>5 DEF Has, Holds
<1>11. /\ DocumentInvariant(worker[w].manifest, p) /\ worker[w].pc \in Executing
       /\ p.status # "running"
  BY <1>1, <1>2, <1>4, <1>5, <1>7
<1> QED BY <1>2, <1>4, <1>8, <1>9, <1>10, <1>11, ExecutorWritesEffects

LEMMA GoesOnEffects ==
  ASSUME TypeOK, ProtocolInvariant, EffectInvariant, NEW w \in Workers,
         AbandonBeforeWrite(w) \/ Alarm(w) \/ Engage(w)
  PROVE  EffectInvariant'
<1>1. /\ worker[w].pc \in Executing \ {"reading"} /\ UNCHANGED <<objects, protocols>>
      /\ \/ worker' = [worker EXCEPT ![w].pc = "engaging"]
         \/ worker' = [worker EXCEPT ![w].pc = "failing"]
  BY DEF AbandonBeforeWrite, Alarm, Engage, Executing
<1> QED BY <1>1, ExecutorKeepsEffects

\* A write without an answer: another effect, or none.
LEMMA Unanswered ==
  ASSUME TypeOK, ProtocolInvariant, EffectInvariant, NEW w \in Workers,
         worker[w].pc \in Executing,
         \/ UNCHANGED objects
         \/ \E o \in Ops, kind \in {"object", "video"} :
              /\ AtEffect(w, o, kind)
              /\ objects' = Append(objects, NewObject(w, o, kind, FALSE))
  PROVE  /\ Grows /\ AnsweredEffectsNotRepeated' /\ DependenciesFirst'
         /\ \A i \in DOMAIN objects' \ DOMAIN objects : ~objects'[i].answered
<1>1. CASE UNCHANGED objects BY <1>1, EffectsUnchanged
<1>2. ASSUME NEW o \in Ops, NEW kind \in {"object", "video"}, AtEffect(w, o, kind),
             objects' = Append(objects, NewObject(w, o, kind, FALSE))
      PROVE  /\ Grows /\ AnsweredEffectsNotRepeated' /\ DependenciesFirst'
             /\ \A i \in DOMAIN objects' \ DOMAIN objects : ~objects'[i].answered
  <2>1. ~NewObject(w, o, kind, FALSE).answered BY DEF NewObject
  <2> QED BY <1>2, <2>1, EffectAppended
<1> QED BY <1>1, <1>2

LEMMA CrashEffects ==
  ASSUME TypeOK, ProtocolInvariant, EffectInvariant, NEW w \in Workers, Crash(w)
  PROVE  EffectInvariant'
<1>1. worker[w].pc \in Executing /\ protocols' = protocols /\ Return(w) BY DEF Crash
<1>2. /\ Grows /\ AnsweredEffectsNotRepeated' /\ DependenciesFirst'
      /\ \A i \in DOMAIN objects' \ DOMAIN objects : ~objects'[i].answered
  BY <1>1, Unanswered DEF Crash, AtEffect
<1>3. /\ worker'[w] = Idle /\ \A x \in Workers \ {w} : worker'[x] = worker[x]
      /\ worker'[w].pc \notin Executing
  BY <1>1, ReturnInvariant
<1>4. EffectsKnown(worker[w])'
  <2>1. DocumentInvariant(Idle.manifest, Idle.doc)'
    BY <1>2, IdleDocument, DocumentStable
  <2> QED BY <1>3, <2>1, IdleDocument, QuietKnown DEF Executing
<1>5. LatestProtocol(worker[w].manifest).status = "running"
  BY <1>1 DEF ProtocolInvariant, OneExecutorPerManifest
<1>6. AnsweredAreHeld' BY <1>1, <1>2, <1>3, <1>5, HeldMoves DEF EffectInvariant
<1> QED BY <1>1, <1>2, <1>3, <1>4, <1>6, RequestMovesEffects
\* What a request that is about to write knows of its operation.
LEMMA AtOperationFacts ==
  ASSUME TypeOK, EffectInvariant, NEW w \in Workers, NEW r, r = worker[w],
         r.pc \in AtOperation \cup {"operation"}, NEW o \in Ops, IsCurrent(r.doc, o)
  PROVE  /\ r \in Worker /\ r.pc \in Executing /\ r.doc \in Protocol
         /\ r.doc.operations[o] \in Operation
         /\ r.doc.operations[o].status = "pending" /\ r.doc.operations[o].object = 0
         /\ r.pc = "operation" => r.doc.operations[o].media = 0
         /\ Answered(0, r.manifest, o, "object")
         /\ Answered(r.doc.operations[o].media, r.manifest, o, "video")
         /\ Answered(r.doc.preserved[o], r.manifest, o, "video")
<1>1. r \in Worker /\ r.doc \in Protocol /\ r.doc.operations[o] \in Operation
  BY DEF TypeOK, Worker, Protocol
<1>2. EffectsKnown(r) BY DEF EffectInvariant
<1>3. r.doc.operations[o].status = "pending" /\ o \in Pending(r.doc)
  BY DEF IsCurrent, Pending
<1>4. r.doc.operations[o].object = 0
  BY <1>2, <1>3 DEF EffectsKnown, DocumentInvariant, OperationsInOrder
<1>5. r.pc = "operation" => r.doc.operations[o].media = 0
  BY <1>2, <1>3 DEF EffectsKnown, AtOperation
<1>6. RecordsOwn(r.manifest, r.doc) BY <1>2 DEF EffectsKnown, DocumentInvariant
<1> QED BY <1>1, <1>3, <1>4, <1>5, <1>6
        DEF RecordsOwn, Answered, AtOperation, Executing

LEMMA WriteFailsEffects ==
  ASSUME TypeOK, ProtocolInvariant, EffectInvariant, NEW w \in Workers,
         NEW o \in Ops, NEW kind \in {"object", "video"}, AtEffect(w, o, kind),
         WriteFails(w, o, kind), protocols' = protocols
  PROVE  EffectInvariant'
<1>1. PICK r : r = worker[w] OBVIOUS
<1>2. r.pc \in AtOperation \cup {"operation"} /\ IsCurrent(r.doc, o)
  BY <1>1 DEF AtEffect, AtCreate, AtUpload, AtOperation
<1>3. /\ r \in Worker /\ r.pc \in Executing /\ r.doc \in Protocol
      /\ r.doc.operations[o] \in Operation /\ r.doc.operations[o].object = 0
      /\ Answered(0, r.manifest, o, "object")
      /\ Answered(r.doc.operations[o].media, r.manifest, o, "video")
  BY <1>1, <1>2, AtOperationFacts
<1>4. PICK status \in {"uncertain", "failed"} :
        worker' = [worker EXCEPT ![w].pc = "engaging",
                                 ![w].doc.operations[o].status = status]
  BY DEF WriteFails
<1>5. PICK op : op = [r.doc.operations[o] EXCEPT !.status = status] OBVIOUS
<1>6. PICK d : d = [r.doc EXCEPT !.operations[o] = op] OBVIOUS
<1>7. PICK s : s = [r EXCEPT !.pc = "engaging", !.doc = d] OBVIOUS
<1>8. worker' = [worker EXCEPT ![w] = s]
  BY <1>1, <1>3, <1>4, <1>5, <1>6, <1>7 DEF TypeOK, Worker
<1>9. /\ op.status = status /\ op.object = 0 /\ op.media = r.doc.operations[o].media
  BY <1>3, <1>5 DEF Operation
<1>10. /\ Rewrites(d, r.doc, o, op) /\ s.pc = "engaging" /\ s.doc = d
       /\ s.manifest = r.manifest /\ s.attempt = r.attempt
  <2>1. Rewrites(d, r.doc, o, op) BY <1>3, <1>6 DEF Protocol, Rewrites
  <2> QED BY <1>3, <1>7, <2>1 DEF Worker
<1>11. /\ Grows /\ AnsweredEffectsNotRepeated' /\ DependenciesFirst'
       /\ \A i \in DOMAIN objects' \ DOMAIN objects : ~objects'[i].answered
  BY <1>1, <1>3, Unanswered DEF WriteFails
<1>12. /\ Answered(op.object, r.manifest, o, "object")'
       /\ Answered(op.media, r.manifest, o, "video")'
  BY <1>3, <1>9, <1>11, AnsweredStable
<1>13. /\ r.pc = "reading" => op.object = r.created
  BY <1>1 DEF AtEffect, AtCreate, AtUpload
<1> QED BY <1>1, <1>2, <1>8, <1>9, <1>10, <1>11, <1>12, <1>13, ExecutorRecordsEffects

LEMMA UploadVideoEffects ==
  ASSUME TypeOK, ProtocolInvariant, EffectInvariant, NEW w \in Workers, NEW o \in Ops,
         UploadVideo(w, o)
  PROVE  EffectInvariant'
<1>1. PICK r : r = worker[w] OBVIOUS
<1>2. /\ r.pc = "operation" /\ IsCurrent(r.doc, o) /\ AtEffect(w, o, "video")
      /\ protocols' = protocols
  BY <1>1 DEF UploadVideo, AtUpload, AtEffect
<1>3. CASE WriteFails(w, o, "video") BY <1>2, <1>3, WriteFailsEffects
<1>4. CASE /\ objects' = Append(objects, NewObject(w, o, "video", TRUE))
           /\ worker' = [worker EXCEPT ![w].pc = "storingMedia",
                           ![w].doc.operations[o].media = Len(objects) + 1,
                           ![w].doc.written = TRUE]
  <2>1. PICK id : id = Len(objects) + 1 OBVIOUS
  <2>2. /\ r \in Worker /\ r.pc \in Executing /\ r.doc \in Protocol
        /\ r.doc.operations[o] \in Operation /\ r.doc.operations[o].object = 0
        /\ r.doc.operations[o].status = "pending" /\ r.doc.operations[o].media = 0
        /\ Answered(0, r.manifest, o, "object")
    BY <1>1, <1>2, AtOperationFacts
  <2>3. PICK op : op = [r.doc.operations[o] EXCEPT !.media = id] OBVIOUS
  <2>4. PICK d : d = [r.doc EXCEPT !.operations[o] = op, !.written = TRUE] OBVIOUS
  <2>5. PICK s : s = [r EXCEPT !.pc = "storingMedia", !.doc = d] OBVIOUS
  <2>6. worker' = [worker EXCEPT ![w] = s]
    BY <1>1, <1>4, <2>1, <2>2, <2>3, <2>4, <2>5 DEF TypeOK, Worker
  <2>7. /\ op.status = "pending" /\ op.object = 0 /\ op.media = id
    BY <2>2, <2>3 DEF Operation
  <2>8. /\ Rewrites(d, r.doc, o, op) /\ s.pc = "storingMedia" /\ s.doc = d
        /\ s.manifest = r.manifest /\ s.attempt = r.attempt
    <3>1. Rewrites(d, r.doc, o, op) BY <2>2, <2>4 DEF Protocol, Rewrites
    <3> QED BY <2>2, <2>5, <3>1 DEF Worker
  <2>9. /\ Grows /\ AnsweredEffectsNotRepeated' /\ DependenciesFirst'
        /\ DOMAIN objects' \ DOMAIN objects = {id}
        /\ objects'[id] = NewObject(w, o, "video", TRUE)
    BY <1>1, <1>2, <1>4, <2>1, <2>2, EffectAppended
  <2>10. /\ objects'[id].manifest = r.manifest /\ objects'[id].operation = o
         /\ objects'[id].kind = "video" /\ objects'[id].answered
    BY <1>1, <2>9 DEF NewObject
  <2>11. /\ Answered(op.object, r.manifest, o, "object")'
         /\ Answered(op.media, r.manifest, o, "video")'
    <3>1. Answered(op.object, r.manifest, o, "object")'
      BY <2>2, <2>7, <2>9, AnsweredStable
    <3>2. Answered(op.media, r.manifest, o, "video")'
      BY <2>7, <2>9, <2>10 DEF Answered
    <3> QED BY <3>1, <3>2
  <2>12. Holds(d, id)'
    BY <2>7, <2>8, <2>10 DEF Holds, Rewrites
  <2>13. /\ r.pc \in AtOperation \cup {"operation"} /\ r.pc # "reading"
         /\ r.doc.operations[o].media \in {0, op.media} /\ op.object = 0
         /\ s.pc \in {"engaging", "alarming", "storing", "storingMedia", "creating"}
         /\ s.pc \notin {"engaging", "alarming", "storing"} /\ op.status = "pending"
    BY <1>2, <2>2, <2>7, <2>8
  <2>14. \A i \in DOMAIN objects' \ DOMAIN objects : objects'[i].answered =>
           objects'[i].manifest = r.manifest /\ Holds(d, i)'
    BY <2>9, <2>10, <2>12
  <2> QED BY <1>1, <1>2, <2>6, <2>8, <2>9, <2>11, <2>13, <2>14,
             ExecutorRecordsEffects
<1> QED BY <1>3, <1>4 DEF UploadVideo
LEMMA AwaitVideoEffects ==
  ASSUME TypeOK, ProtocolInvariant, EffectInvariant, NEW w \in Workers, NEW o \in Ops,
         AwaitVideo(w, o)
  PROVE  EffectInvariant'
<1>1. PICK r : r = worker[w] OBVIOUS
<1>2. /\ r.pc \in {"video", "operation"} /\ IsCurrent(r.doc, o)
      /\ UNCHANGED <<objects, protocols>>
  BY <1>1 DEF AwaitVideo
<1>3. r.pc \in AtOperation \cup {"operation"} /\ r.pc # "reading"
  BY <1>2 DEF AtOperation
<1>4. /\ r \in Worker /\ r.doc \in Protocol /\ r.doc.operations[o] \in Operation
      /\ r.doc.operations[o].object = 0 /\ r.doc.operations[o].status = "pending"
      /\ Answered(0, r.manifest, o, "object")
      /\ Answered(r.doc.operations[o].media, r.manifest, o, "video")
      /\ Answered(r.doc.preserved[o], r.manifest, o, "video")
  BY <1>1, <1>2, <1>3, AtOperationFacts
<1>5. PICK id : id = PreservedId(r.doc, o) OBVIOUS
<1>6. /\ Answered(id, r.manifest, o, "video") /\ id \in Nat
      /\ r.doc.operations[o].media \in {0, id}
  BY <1>4, <1>5 DEF PreservedId, Operation, Protocol
<1>7. PICK status \in {"pending", "uncertain", "failed"},
           pc \in {"creating", "engaging"}, op \in Operation :
        /\ op = [r.doc.operations[o] EXCEPT !.media = id, !.status = status]
        /\ pc = "creating" <=> status = "pending"
        /\ worker' = [worker EXCEPT ![w].pc = pc, ![w].doc.operations[o] = op]
  <2>1. CASE worker' = [worker EXCEPT ![w].pc = "creating",
                                      ![w].doc.operations[o].media = id]
    <3>1. PICK op : op = [r.doc.operations[o] EXCEPT !.media = id, !.status = "pending"]
      OBVIOUS
    <3>2. op = [r.doc.operations[o] EXCEPT !.media = id] /\ op \in Operation
      BY <1>4, <1>6, <3>1 DEF Operation
    <3>3. worker' = [worker EXCEPT ![w].pc = "creating", ![w].doc.operations[o] = op]
      BY <1>1, <1>4, <2>1, <3>2 DEF TypeOK, Worker, Protocol
    <3> QED BY <3>1, <3>2, <3>3
  <2>2. CASE \E status \in {"uncertain", "failed"} :
               worker' = [worker EXCEPT ![w].pc = "engaging",
                                        ![w].doc.operations[o] =
                                          [@ EXCEPT !.media = id, !.status = status]]
    <3>1. PICK status \in {"uncertain", "failed"} :
            worker' = [worker EXCEPT ![w].pc = "engaging",
                                     ![w].doc.operations[o] =
                                       [@ EXCEPT !.media = id, !.status = status]]
      BY <2>2
    <3>2. PICK op : op = [r.doc.operations[o] EXCEPT !.media = id, !.status = status]
      OBVIOUS
    <3>3. op \in Operation BY <1>4, <1>6, <3>2 DEF Operation
    <3>4. worker' = [worker EXCEPT ![w].pc = "engaging", ![w].doc.operations[o] = op]
      BY <1>1, <1>4, <3>1, <3>2 DEF TypeOK, Worker, Protocol
    <3> QED BY <3>2, <3>3, <3>4
  <2> QED BY <1>1, <1>5, <2>1, <2>2 DEF AwaitVideo
<1>8. PICK d : d = [r.doc EXCEPT !.operations[o] = op] OBVIOUS
<1>9. PICK s : s = [r EXCEPT !.pc = pc, !.doc = d] OBVIOUS
<1>10. worker' = [worker EXCEPT ![w] = s]
  BY <1>1, <1>4, <1>7, <1>8, <1>9 DEF TypeOK, Worker
<1>11. /\ op.status = status /\ op.object = 0 /\ op.media = id
  BY <1>4, <1>7 DEF Operation
<1>12. /\ Rewrites(d, r.doc, o, op) /\ s.pc = pc /\ s.doc = d
       /\ s.manifest = r.manifest /\ s.attempt = r.attempt
  <2>1. Rewrites(d, r.doc, o, op) BY <1>4, <1>8 DEF Protocol, Rewrites
  <2> QED BY <1>4, <1>9, <2>1 DEF Worker
<1>13. Grows /\ AnsweredEffectsNotRepeated' /\ DependenciesFirst'
  BY <1>2, EffectsUnchanged
<1>14. /\ Answered(op.object, r.manifest, o, "object")'
       /\ Answered(op.media, r.manifest, o, "video")'
  BY <1>4, <1>6, <1>11, <1>13, AnsweredStable
<1>15. /\ s.pc \in {"engaging", "alarming", "storing", "storingMedia", "creating"}
       /\ s.pc \in {"engaging", "alarming"} => op.status \in {"uncertain", "failed"}
       /\ s.pc = "storing" => op.status = "succeeded"
       /\ s.pc \in {"storingMedia", "creating"} => op.status = "pending"
       /\ r.doc.operations[o].media \in {0, op.media}
       /\ DOMAIN objects' \ DOMAIN objects = {}
  BY <1>2, <1>6, <1>7, <1>11, <1>12
<1> QED BY <1>1, <1>2, <1>3, <1>10, <1>11, <1>12, <1>13, <1>14, <1>15,
           ExecutorRecordsEffects

LEMMA CreateObjectEffects ==
  ASSUME TypeOK, ProtocolInvariant, EffectInvariant, NEW w \in Workers, NEW o \in Ops,
         CreateObject(w, o)
  PROVE  EffectInvariant'
<1>1. PICK r : r = worker[w] OBVIOUS
<1>2. /\ r.pc \in {"creating", "operation"} /\ IsCurrent(r.doc, o)
      /\ AtEffect(w, o, "object") /\ protocols' = protocols
  BY <1>1 DEF CreateObject, AtCreate, AtEffect
<1>3. CASE WriteFails(w, o, "object") BY <1>2, <1>3, WriteFailsEffects
<1>4. CASE /\ objects' = Append(objects, NewObject(w, o, "object", TRUE))
           /\ worker' = [worker EXCEPT ![w].pc = "reading",
                                       ![w].created = Len(objects) + 1]
  <2>1. PICK id : id = Len(objects) + 1 OBVIOUS
  <2>2. PICK s : s = [r EXCEPT !.pc = "reading", !.created = id] OBVIOUS
  <2>3. r \in Worker BY <1>1 DEF TypeOK
  <2>4. worker' = [worker EXCEPT ![w] = s]
    BY <1>1, <1>4, <2>1, <2>2, <2>3 DEF TypeOK, Worker
  <2>5. /\ s.pc = "reading" /\ s.created = id /\ s.doc = r.doc
        /\ s.manifest = r.manifest /\ s.attempt = r.attempt
    BY <2>2, <2>3 DEF Worker
  <2>6. r.pc \in Executing /\ r.pc # "reading" /\ s.pc \in Executing
    BY <1>2, <2>5 DEF Executing
  <2>7. /\ Grows /\ AnsweredEffectsNotRepeated' /\ DependenciesFirst'
        /\ DOMAIN objects' \ DOMAIN objects = {id}
        /\ objects'[id] = NewObject(w, o, "object", TRUE)
    BY <1>1, <1>2, <1>4, <2>1, <2>6, EffectAppended
  <2>8. /\ objects'[id].manifest = r.manifest /\ objects'[id].operation = o
        /\ objects'[id].kind = "object" /\ objects'[id].answered
    BY <1>1, <2>7 DEF NewObject
  <2>9. EffectsKnown(r) BY <1>1 DEF EffectInvariant
  <2>10. EffectsKnown(s)'
    <3>1. DocumentInvariant(r.manifest, r.doc)'
      BY <2>7, <2>9, DocumentStable DEF EffectsKnown
    <3>2. \A q \in Ops : IsCurrent(r.doc, q) => q = o BY <1>2, CurrentUnique
    <3>3. \A q \in Ops : IsCurrent(r.doc, q) =>
            Answered(id, r.manifest, q, "object")'
      BY <2>7, <2>8, <3>2 DEF Answered
    <3> QED BY <1>2, <2>5, <2>9, <3>1, <3>3
            DEF EffectsKnown, AtOperation, Executing, Unbroken, Done, Pending, IsCurrent
  <2>11. \A i \in DOMAIN objects : Has(r, i) => Has(s, i)'
    BY <2>5, <2>6, <2>7, HoldsStable DEF Has
  <2>12. \A i \in DOMAIN objects' \ DOMAIN objects : objects'[i].answered =>
           objects'[i].manifest = r.manifest /\ Has(s, i)'
    BY <2>5, <2>7, <2>8 DEF Has
  <2> QED BY <1>1, <1>2, <2>4, <2>5, <2>6, <2>7, <2>10, <2>11, <2>12,
             ExecutorStepEffects
<1> QED BY <1>3, <1>4 DEF CreateObject
LEMMA ReadObjectEffects ==
  ASSUME TypeOK, ProtocolInvariant, EffectInvariant, NEW w \in Workers, NEW o \in Ops,
         ReadObject(w, o)
  PROVE  EffectInvariant'
<1>1. PICK r : r = worker[w] OBVIOUS
<1>2. /\ r.pc = "reading" /\ IsCurrent(r.doc, o) /\ UNCHANGED <<objects, protocols>>
      /\ r.pc \in AtOperation \cup {"operation"}
  BY <1>1 DEF ReadObject, AtOperation
<1>3. /\ r \in Worker /\ r.doc \in Protocol /\ r.doc.operations[o] \in Operation
      /\ Answered(r.doc.operations[o].media, r.manifest, o, "video")
  BY <1>1, <1>2, AtOperationFacts
<1>4. r.created \in Nat /\ Answered(r.created, r.manifest, o, "object")
  BY <1>1, <1>2, <1>3 DEF EffectInvariant, EffectsKnown, Worker
<1>5. ASSUME NEW status \in {"succeeded", "uncertain", "failed"},
             NEW observed \in {"none", "paused", "active"},
             NEW pc \in {"storing", "alarming", "engaging"},
             pc = "storing" <=> status = "succeeded",
             NEW op, op = [r.doc.operations[o] EXCEPT
                             !.status = status, !.object = r.created,
                             !.observed = observed],
             NEW d, Rewrites(d, r.doc, o, op),
             NEW s, s = [r EXCEPT !.pc = pc, !.doc = d],
             worker' = [worker EXCEPT ![w] = s]
      PROVE  EffectInvariant'
  <2>1. /\ op.status = status /\ op.object = r.created
        /\ op.media = r.doc.operations[o].media
    BY <1>3, <1>5 DEF Operation
  <2>2. /\ s.pc = pc /\ s.doc = d /\ s.manifest = r.manifest
        /\ s.attempt = r.attempt
    BY <1>3, <1>5 DEF Worker
  <2>3. Grows /\ AnsweredEffectsNotRepeated' /\ DependenciesFirst'
    BY <1>2, EffectsUnchanged
  <2>4. /\ Answered(op.object, r.manifest, o, "object")'
        /\ Answered(op.media, r.manifest, o, "video")'
    BY <1>3, <1>4, <2>1, <2>3, AnsweredStable
  <2>5. /\ s.pc \in {"engaging", "alarming", "storing", "storingMedia", "creating"}
        /\ s.pc \in {"engaging", "alarming"} => op.status \in {"uncertain", "failed"}
        /\ s.pc = "storing" => op.status = "succeeded"
        /\ s.pc \notin {"storingMedia", "creating"} /\ op.status # "pending"
        /\ r.doc.operations[o].media \in {0, op.media}
        /\ DOMAIN objects' \ DOMAIN objects = {}
    BY <1>2, <1>5, <2>1, <2>2
  <2>6. worker' = [worker EXCEPT ![w] = s] /\ Rewrites(d, r.doc, o, op) BY <1>5
  <2> QED BY <1>1, <1>2, <2>1, <2>2, <2>3, <2>4, <2>5, <2>6, ExecutorRecordsEffects
<1> DEFINE op(status, observed) ==
             [r.doc.operations[o] EXCEPT !.status = status, !.object = r.created,
                                         !.observed = observed]
           d(status, observed) == [r.doc EXCEPT !.operations[o] = op(status, observed)]
           e == [r.doc EXCEPT !.operations[o] = op("succeeded", "paused"),
                              !.written = TRUE]
<1>6. CASE worker' = [worker EXCEPT ![w].pc = "storing",
                                    ![w].doc.operations[o] = op("succeeded", "paused"),
                                    ![w].doc.written = TRUE]
  <2>1. worker' = [worker EXCEPT ![w] = [r EXCEPT !.pc = "storing", !.doc = e]]
    BY <1>1, <1>3, <1>6 DEF TypeOK, Worker
  <2>2. Rewrites(e, r.doc, o, op("succeeded", "paused"))
    BY <1>3 DEF Protocol, Rewrites
  <2> QED BY <1>5, <2>1, <2>2
<1>7. ASSUME NEW pc \in {"alarming", "engaging"}, NEW status \in {"uncertain", "failed"},
             NEW observed \in {"none", "active"},
             worker' = [worker EXCEPT ![w].pc = pc,
                                      ![w].doc.operations[o] = op(status, observed)]
      PROVE  EffectInvariant'
  <2>1. worker' = [worker EXCEPT ![w] =
                     [r EXCEPT !.pc = pc, !.doc = d(status, observed)]]
    BY <1>1, <1>3, <1>7 DEF TypeOK, Worker
  <2>2. Rewrites(d(status, observed), r.doc, o, op(status, observed))
    BY <1>3 DEF Protocol, Rewrites
  <2>3. pc # "storing" /\ status # "succeeded" BY <1>7
  <2> HIDE DEF d
  <2> QED BY <1>5, <2>1, <2>2, <2>3
<1> QED BY <1>1, <1>6, <1>7 DEF ReadObject

-----------------------------------------------------------------------------

LEMMA EnvironmentEffects ==
  ASSUME TypeOK, EffectInvariant, Environment PROVE EffectInvariant'
<1>1. UNCHANGED <<protocols, worker>>
  BY DEF Environment, PrepareManifest, Authorize, EndAuthorization, ChangeSwitch,
         ChangeAtMeta
<1>2. Grows /\ DOMAIN objects' = DOMAIN objects
  <2>1. CASE UNCHANGED objects BY <2>1 DEF Grows
  <2>2. ASSUME NEW i \in DOMAIN objects, ChangeAtMeta(i)
        PROVE  Grows /\ DOMAIN objects' = DOMAIN objects
    <3>1. objects \in Seq(Object) BY DEF TypeOK
    <3>2. \A j \in DOMAIN objects : objects[j] \in Object
      BY <3>1, LenProperties, ElementOfSeq
    <3>3. objects' = [objects EXCEPT ![i] = [objects[i] EXCEPT !.paused = ~@]]
      BY <2>2 DEF ChangeAtMeta
    <3>4. DOMAIN objects' = DOMAIN objects BY <3>3
    <3>5. \A j \in DOMAIN objects :
            objects'[j] = IF j = i THEN [objects[i] EXCEPT !.paused = ~@] ELSE objects[j]
      BY <3>3
    <3> QED BY <3>2, <3>4, <3>5 DEF Grows, Object
  <2> QED BY <2>1, <2>2 DEF Environment, PrepareManifest, Authorize, EndAuthorization,
          ChangeSwitch
<1> QED BY <1>1, <1>2, NothingMovesEffects

LEMMA InitEffects == Init => EffectInvariant
<1> SUFFICES ASSUME Init PROVE EffectInvariant OBVIOUS
<1>1. /\ \A m \in Manifests : protocols[m] = <<>>
      /\ DOMAIN objects = {} /\ \A w \in Workers : worker[w] = Idle
  BY DEF Init
<1>2. RowsFit BY <1>1 DEF RowsFit
<1>3. \A w \in Workers : EffectsKnown(worker[w])
  BY <1>1, IdleDocument DEF EffectsKnown, AtOperation, Executing
<1>4. AnsweredAreHeld /\ AnsweredEffectsNotRepeated /\ DependenciesFirst
  BY <1>1 DEF AnsweredAreHeld, AnsweredEffectsNotRepeated, DependenciesFirst
<1> QED BY <1>2, <1>3, <1>4 DEF EffectInvariant

LEMMA NextEffects ==
  TypeOK /\ ProtocolInvariant /\ EffectInvariant /\ [Next]_vars => EffectInvariant'
<1> SUFFICES ASSUME TypeOK, ProtocolInvariant, EffectInvariant, [Next]_vars
             PROVE  EffectInvariant'
  OBVIOUS
<1>1. CASE Environment BY <1>1, EnvironmentEffects
<1>2. ASSUME NEW w \in Workers, NEW m \in Manifests,
             StartPrepare(w, m) \/ StartExecute(w, m)
      PROVE  EffectInvariant'
  BY <1>2, StartEffects
<1>3. ASSUME NEW w \in Workers, Preparing(w) PROVE EffectInvariant'
  <2>1. CASE ReconcileAlarm(w)
    BY <2>1, QuietReturn DEF ReconcileAlarm, Executing
  <2> QED BY <1>3, <2>1, ReconcileReadEffects, StoreReconciledEffects, PrepareEffects,
             InsertProtocolEffects DEF Preparing
<1>4. ASSUME NEW w \in Workers, Checking(w) PROVE EffectInvariant'
  BY <1>4, ReadEffects, BeginExecutionEffects DEF Checking
<1>5. ASSUME NEW w \in Workers, Execute(w) PROVE EffectInvariant'
  <2>1. ASSUME NEW o \in Ops,
               \/ UploadVideo(w, o) \/ AwaitVideo(w, o)
               \/ CreateObject(w, o) \/ ReadObject(w, o)
        PROVE  EffectInvariant'
    BY <2>1, UploadVideoEffects, AwaitVideoEffects, CreateObjectEffects,
       ReadObjectEffects
  <2>2. CASE StoreMedia(w) \/ StoreOperation(w) BY <2>2, StoreEffects
  <2>3. CASE AbandonBeforeWrite(w) \/ Alarm(w) \/ Engage(w) BY <2>3, GoesOnEffects
  <2>4. CASE Fail(w) \/ Succeed(w) BY <2>4, CloseEffects
  <2> QED BY <1>5, <2>1, <2>2, <2>3, <2>4 DEF Execute
<1>6. ASSUME NEW w \in Workers, GiveUp(w) PROVE EffectInvariant'
  BY <1>6, QuietReturn DEF GiveUp
<1>7. ASSUME NEW w \in Workers, Crash(w) PROVE EffectInvariant' BY <1>7, CrashEffects
<1>8. CASE UNCHANGED vars BY <1>8, GrowsUnchanged, NothingMovesEffects DEF vars
<1> QED BY <1>1, <1>2, <1>3, <1>4, <1>5, <1>6, <1>7, <1>8 DEF Next, Request

-----------------------------------------------------------------------------

\* Where every id comes from, how far every attempt got and who holds every answered
\* effect: an invariant of the specification.
THEOREM EffectsCorrect == Spec => []EffectInvariant
<1>1. Init => TypeOK /\ ProtocolInvariant /\ EffectInvariant
  BY InitTypeOK, InitInvariant, InitEffects
<1>2. TypeOK /\ ProtocolInvariant /\ EffectInvariant /\ [Next]_vars
        => TypeOK' /\ ProtocolInvariant' /\ EffectInvariant'
  BY NextTypeOK, NextInvariant, NextEffects
<1> QED BY <1>1, <1>2, PTL DEF Spec

-----------------------------------------------------------------------------
(* What follows from it.                                                   *)

\* An operation that is done has an object of its own.
LEMMA DoneRecorded ==
  ASSUME NEW m, NEW p, DocumentInvariant(m, p), SucceededAreSafe(p),
         NEW o \in Ops, Done(p, o)
  PROVE  /\ ReconciledId(p, o) # 0
         /\ Answered(ReconciledId(p, o), m, o, "object")
<1>1. RecordsOwn(m, p) /\ OperationsInOrder(p) BY DEF DocumentInvariant
<1>2. CASE p.operations[o].status = "carried"
  <2>1. p.operations[o].object = 0 /\ p.reconciled[o] # 0
    BY <1>1, <1>2 DEF OperationsInOrder
  <2> QED BY <1>1, <2>1 DEF ReconciledId, Safe, RecordsOwn
<1>3. CASE p.operations[o].status = "succeeded"
  <2>1. Safe(p.operations[o]) BY <1>3 DEF SucceededAreSafe
  <2> QED BY <1>1, <2>1 DEF ReconciledId, Safe, RecordsOwn
<1> QED BY <1>2, <1>3 DEF Done

LEMMA HoldsRecords ==
  ASSUME TypeOK, NEW p, NEW i \in DOMAIN objects, Holds(p, i)
  PROVE  Records(p, i)
BY EffectTypes DEF Holds, Records

LEMMA Tracked ==
  TypeOK /\ EffectInvariant => AnsweredObjectsAreTracked
<1> SUFFICES ASSUME TypeOK, EffectInvariant, NEW i \in DOMAIN objects,
                    objects[i].answered,
                    NEW m, m = objects[i].manifest,
                    NEW executors, executors = {w \in Workers :
                      worker[w].pc \in Executing /\ worker[w].manifest = m}
             PROVE  \/ \E a \in DOMAIN protocols[m] : Records(protocols[m][a], i)
                    \/ \E w \in executors :
                         worker[w].created = i \/ Records(worker[w].doc, i)
                    \/ executors = {} /\ LatestProtocol(m).status = "running"
  BY DEF AnsweredObjectsAreTracked
<1>1. HeldIn(m, i) BY HeldSomewhere DEF EffectInvariant
<1>2. CASE executors = {}
  <2>1. m \in Manifests /\ protocols[m] # <<>> BY <1>1, EffectTypes DEF HeldIn
  <2>2. Len(protocols[m]) \in DOMAIN protocols[m] BY <2>1, LatestProtocolType
  <2>3. LatestProtocol(m).status = "running" \/ Holds(LatestProtocol(m), i)
    BY <1>1, <1>2 DEF HeldIn
  <2> QED BY <1>2, <2>2, <2>3, HoldsRecords DEF LatestProtocol
<1>3. ASSUME NEW w \in executors PROVE worker[w].created = i \/ Records(worker[w].doc, i)
  BY <1>1, HoldsRecords DEF HeldIn, Has
<1> QED BY <1>2, <1>3

LEMMA Complete ==
  TypeOK /\ ProtocolInvariant /\ EffectInvariant => SucceededIsComplete
<1> SUFFICES ASSUME TypeOK, ProtocolInvariant, EffectInvariant, NEW m \in Manifests,
                    NEW a \in DOMAIN protocols[m], protocols[m][a].status = "succeeded",
                    NEW o \in Ops, NEW id, id = ReconciledId(protocols[m][a], o)
             PROVE  /\ id \in DOMAIN objects
                    /\ objects[id].manifest = m /\ objects[id].operation = o
                    /\ objects[id].kind = "object" /\ objects[id].answered
  BY DEF SucceededIsComplete
<1>1. /\ DocumentInvariant(m, protocols[m][a]) /\ SucceededAreSafe(protocols[m][a])
  BY DEF EffectInvariant, RowsFit, ProtocolInvariant, RowsInvariant
<1>2. Done(protocols[m][a], o) BY <1>1 DEF DocumentInvariant, StatusFits
<1> QED BY <1>1, <1>2, DoneRecorded DEF Answered

\* No effect that Meta answered is asked for again, created before what it refers to or
\* forgotten, and an attempt that reports success has an object for every operation.
THEOREM EffectsAccountedFor == Spec => []EffectsAreAccountedFor
<1>1. TypeOK /\ ProtocolInvariant /\ EffectInvariant => EffectsAreAccountedFor
  BY Tracked, Complete DEF EffectInvariant, EffectsAreAccountedFor
<1> QED BY <1>1, TypeCorrect, ProtocolsCorrect, EffectsCorrect, PTL

-----------------------------------------------------------------------------
(* Rows only advance.                                                      *)

\* What AttemptsOnlyAdvance says of one row.
Advances(old, new) ==
  /\ <<old.status, new.status>> \in
       {<<"prepared", "prepared">>, <<"prepared", "running">>, <<"running", "running">>,
        <<"running", "failed">>, <<"running", "succeeded">>, <<"failed", "failed">>,
        <<"succeeded", "succeeded">>}
  /\ old.status = "succeeded" => new = old
  /\ \A o \in Ops : ReconciledId(old, o) # 0
                      => ReconciledId(new, o) = ReconciledId(old, o)

LEMMA SameAdvances == ASSUME NEW p \in Protocol PROVE Advances(p, p)
BY DEF Advances, Protocol, ProtocolStatus

\* Whether an operation is settled: an operation whose object is not safe has no other id.
LEMMA UnsafeHasNone ==
  ASSUME NEW m, NEW p, DocumentInvariant(m, p), NEW o \in Ops,
         p.operations[o].object # 0, ~Safe(p.operations[o])
  PROVE  ReconciledId(p, o) = 0
BY DEF DocumentInvariant, OperationsInOrder, ReconciledId

\* A reconciled document advances the row it is a copy of.
LEMMA ReconciledAdvances ==
  ASSUME NEW m, NEW p, NEW q, DocumentInvariant(m, q), CopyOf(p, q),
         p.status = "failed", q.status = "failed",
         ToReconcile(p) = {}, SucceededAreSafe(p)
  PROVE  Advances(q, p)
<1> SUFFICES ASSUME NEW o \in Ops, ReconciledId(q, o) # 0
             PROVE  ReconciledId(p, o) = ReconciledId(q, o)
  BY DEF Advances
<1>1. /\ p.operations[o].object = q.operations[o].object
      /\ p.reconciled = q.reconciled
  BY HashFields DEF CopyOf
<1>2. CASE p.operations[o].object = 0 BY <1>1, <1>2 DEF ReconciledId, Safe
<1>3. CASE p.operations[o].object # 0
  <2>1. Safe(p.operations[o]) BY <1>3 DEF ToReconcile, SucceededAreSafe
  <2>2. Safe(q.operations[o]) BY <1>1, <1>3, UnsafeHasNone
  <2> QED BY <1>1, <2>1, <2>2 DEF ReconciledId
<1> QED BY <1>2, <1>3

\* A document taken for execution advances its prepared row.
LEMMA PreparedAdvances ==
  ASSUME NEW m, NEW p, NEW q, DocumentInvariant(m, q), q.status = "prepared",
         DocumentInvariant(m, p), p.status = "running",
         \A o \in Ops : p.operations[o].status \in {"carried", "pending"},
         ProtocolHash(p) = ProtocolHash(q)
  PROVE  Advances(q, p) /\ \A o \in Ops : ReconciledId(p, o) = ReconciledId(q, o)
<1>1. \A o \in Ops : ReconciledId(p, o) = ReconciledId(q, o)
  <2>1. \A o \in Ops : p.operations[o].object = 0 /\ q.operations[o].object = 0
    BY DEF DocumentInvariant, OperationsInOrder, StatusFits
  <2> QED BY <2>1, HashFields DEF ReconciledId, Safe
<1> QED BY <1>1 DEF Advances

\* The document of the executor, whatever status it is written with, advances its row: it
\* is the row and at most the current operation.
LEMMA ExecutorAdvances ==
  ASSUME NEW m, NEW p, NEW q, DocumentInvariant(m, q), q.status = "running",
         NEW d, ProtocolHash(d) = ProtocolHash(q),
         \A o \in Ops : o \notin Pending(q) => d.operations[o] = q.operations[o],
         NEW status \in {"running", "failed", "succeeded"},
         p.status = status, p.operations = d.operations,
         ProtocolHash(p) = ProtocolHash(d)
  PROVE  Advances(q, p)
<1> SUFFICES ASSUME NEW o \in Ops, ReconciledId(q, o) # 0
             PROVE  ReconciledId(p, o) = ReconciledId(q, o)
  BY DEF Advances
<1>1. p.reconciled = q.reconciled BY HashFields
<1>2. o \notin Pending(q)
  BY DEF Pending, DocumentInvariant, OperationsInOrder, ReconciledId, Safe
<1> QED BY <1>1, <1>2 DEF ReconciledId
-----------------------------------------------------------------------------
(* The steps that change the rows.                                         *)

\* Row q of m is replaced by p: reconciled, taken for execution, or written by its executor.
Reconciles(m, q, p) ==
  /\ q.status = "failed" /\ p.status = "failed" /\ CopyOf(p, q)
  /\ ToReconcile(p) = {}

Begins(m, q, p) ==
  /\ q.status = "prepared" /\ p.status = "running" /\ ProtocolHash(p) = ProtocolHash(q)
  /\ \A o \in Ops : p.operations[o].status \in {"carried", "pending"}

Executes(m, q, p) ==
  /\ q.status = "running" /\ p.status \in {"running", "failed", "succeeded"}
  /\ ProtocolHash(p) = ProtocolHash(q)
  /\ p.status = "succeeded" => Pending(q) = {}
  /\ \A o \in Ops : IF o \in Pending(q) THEN o \in Pending(p) \/ IsCurrent(q, o)
                     ELSE p.operations[o] = q.operations[o]

RowChanges(m, a, p) ==
  /\ RowReplaced(m, a, p)
  /\ DocumentInvariant(m, p) /\ SucceededAreSafe(p)
  /\ \/ Reconciles(m, protocols[m][a], p)
     \/ a = Len(protocols[m]) /\ Begins(m, protocols[m][a], p)
     \/ a = Len(protocols[m]) /\ Executes(m, protocols[m][a], p)

\* The next attempt p is added.
RowAdded(m, p) ==
  LET n == Len(protocols[m])
  IN  /\ protocols' = [protocols EXCEPT ![m] = Append(@, p)]
      /\ p.status = "prepared" /\ DocumentInvariant(m, p)
      /\ \E o \in Ops : p.reconciled[o] = 0
      /\ \/ n = 0 /\ ProtocolHash(p) = ProtocolHash(FirstAttempt)
         \/ /\ n \in DOMAIN protocols[m] /\ protocols[m][n].status = "failed"
            /\ ProtocolHash(p) = ProtocolHash(Retry(protocols[m][n]))

RowStep ==
  \/ UNCHANGED protocols
  \/ \E m \in Manifests : \E a \in DOMAIN protocols[m], p \in Protocol : RowChanges(m, a, p)
  \/ \E m \in Manifests, p \in Protocol : RowAdded(m, p)

LEMMA ExecutorRowStep ==
  ASSUME TypeOK, ProtocolInvariant, EffectInvariant, NEW w \in Workers,
         NEW r, r = worker[w], r.pc \in Executing,
         NEW p \in Protocol, UpdateExecution(w, p),
         p.operations = r.doc.operations, ProtocolHash(p) = ProtocolHash(r.doc),
         DocumentInvariant(r.manifest, p), p.status \in {"running", "failed", "succeeded"},
         p.status = "succeeded" => r.pc = "operation" /\ Pending(r.doc) = {}
  PROVE  RowStep
<1>1. PICK m, a : m \in Manifests /\ m = r.manifest /\ a = r.attempt BY ExecutorRow
<1>2. /\ a \in DOMAIN protocols[m] /\ a = Len(protocols[m])
      /\ protocols[m][a].status = "running"
      /\ ProtocolHash(r.doc) = ProtocolHash(protocols[m][a])
  BY <1>1, ExecutorRow
<1>3. EffectsKnown(r) /\ SucceededAreSafe(r.doc)
  BY DEF EffectInvariant, ProtocolInvariant, RequestInvariant
<1>4. SucceededAreSafe(p) BY <1>3 DEF SucceededAreSafe
<1>5. \A o \in Ops : IF o \in Pending(protocols[m][a])
                      THEN o \in Pending(p) \/ IsCurrent(protocols[m][a], o)
                      ELSE p.operations[o] = protocols[m][a].operations[o]
  BY <1>1, <1>3 DEF EffectsKnown, Pending
<1>6. p.status = "succeeded" => Pending(protocols[m][a]) = {}
  BY <1>1, <1>3 DEF EffectsKnown
<1>7. RowReplaced(m, a, p) BY <1>1 DEF UpdateExecution, RowReplaced
<1>8. Executes(m, protocols[m][a], p) BY <1>2, <1>5, <1>6 DEF Executes
<1>9. RowChanges(m, a, p) BY <1>1, <1>2, <1>4, <1>7, <1>8 DEF RowChanges
<1> QED BY <1>1, <1>2, <1>9 DEF RowStep

\* The executor rewrites its row between operations.
LEMMA StoreRowStep ==
  ASSUME TypeOK, ProtocolInvariant, EffectInvariant, NEW w \in Workers,
         StoreMedia(w) \/ StoreOperation(w)
  PROVE  RowStep
<1>1. PICK r : r = worker[w] OBVIOUS
<1>2. /\ r.pc \in {"storingMedia", "storing"}
      /\ UpdateExecution(w, r.doc) \/ UNCHANGED protocols
  BY <1>1 DEF StoreMedia, StoreOperation, Store
<1>3. /\ r.pc \in Executing /\ r.doc \in Protocol /\ r.doc.status = "running"
      /\ DocumentInvariant(r.manifest, r.doc)
  BY <1>1, <1>2, ExecutorRow DEF TypeOK, Worker, EffectInvariant, EffectsKnown, Executing
<1> QED BY <1>1, <1>2, <1>3, ExecutorRowStep DEF RowStep

\* The executor closes its attempt.
LEMMA CloseRowStep ==
  ASSUME TypeOK, ProtocolInvariant, EffectInvariant, NEW w \in Workers,
         Fail(w) \/ Succeed(w)
  PROVE  RowStep
<1>1. PICK r : r = worker[w] OBVIOUS
<1>2. PICK status, p :
        /\ status \in {"failed", "succeeded"}
        /\ p = [r.doc EXCEPT !.status = status] /\ UpdateExecution(w, p)
        /\ \/ status = "failed" /\ r.pc = "failing"
           \/ status = "succeeded" /\ r.pc = "operation" /\ Pending(r.doc) = {}
  BY <1>1 DEF Fail, Succeed
<1>3. r \in Worker /\ r.doc \in Protocol BY <1>1 DEF TypeOK, Worker
<1>4. /\ p \in Protocol /\ p.status = status /\ p.operations = r.doc.operations
      /\ p.reconciled = r.doc.reconciled /\ p.preserved = r.doc.preserved
      /\ ProtocolHash(p) = ProtocolHash(r.doc)
  BY <1>2, <1>3 DEF Protocol, ProtocolStatus, ProtocolHash
<1>5. r.pc \in Executing BY <1>2 DEF Executing
<1>6. EffectsKnown(r) BY <1>1 DEF EffectInvariant
<1>7. DocumentInvariant(r.manifest, p)
  <2>1. DocumentInvariant(r.manifest, r.doc) BY <1>6 DEF EffectsKnown
  <2>2. status = "succeeded" => \A o \in Ops : Done(r.doc, o)
    BY <1>2, <1>6 DEF EffectsKnown, AtOperation, Unbroken, Pending
  <2> QED BY <1>2, <1>4, <2>1, <2>2
          DEF DocumentInvariant, RecordsOwn, OperationsInOrder, StatusFits, Done
<1>8. /\ p.status \in {"running", "failed", "succeeded"}
      /\ p.status = "succeeded" => r.pc = "operation" /\ Pending(r.doc) = {}
  BY <1>2, <1>4
<1>9. UpdateExecution(w, p) BY <1>2
<1> QED BY <1>1, <1>4, <1>5, <1>7, <1>8, <1>9, ExecutorRowStep

LEMMA BeginRowStep ==
  ASSUME TypeOK, ProtocolInvariant, EffectInvariant, NEW w \in Workers,
         BeginExecution(w)
  PROVE  RowStep
<1>1. PICK r, m, a, p : /\ r = worker[w] /\ m = r.manifest /\ a = r.attempt
                        /\ p = [r.doc EXCEPT !.status = "running"]
  OBVIOUS
<1>2. /\ r.pc = "begin" /\ m \in Manifests /\ r.doc \in Protocol
      /\ a \in DOMAIN protocols[m] /\ ProtocolHash(r.doc) = ProtocolHash(protocols[m][a])
      /\ DocumentInvariant(m, r.doc) /\ r.doc.status = "prepared"
      /\ SucceededAreSafe(r.doc)
  BY <1>1, ManifestType DEF BeginExecution, ProtocolInvariant, RequestInvariant, TypeOK,
     Worker, EffectInvariant, EffectsKnown
<1>3. /\ p \in Protocol /\ p.status = "running" /\ p.operations = r.doc.operations
      /\ ProtocolHash(p) = ProtocolHash(r.doc)
  BY <1>1, <1>2 DEF Protocol, ProtocolStatus, ProtocolHash
<1>4. CASE CanBegin(m, a) /\ protocols' = [protocols EXCEPT ![m][a] = p]
  <2>1. protocols[m][a].status = "prepared" BY <1>4 DEF CanBegin
  <2>2. a = Len(protocols[m]) BY <1>2, <2>1, NotFailedIsLatest DEF ProtocolInvariant
  <2>3. \A o \in Ops : p.operations[o].status \in {"carried", "pending"}
    BY <1>2, <1>3 DEF DocumentInvariant, StatusFits
  <2>4. Begins(m, protocols[m][a], p) BY <1>2, <1>3, <2>1, <2>3 DEF Begins
  <2>5. DocumentInvariant(m, p) BY <1>2, <1>3, RunningDocument
  <2>6. SucceededAreSafe(p) BY <1>2, <1>3 DEF SucceededAreSafe
  <2>7. RowReplaced(m, a, p) BY <1>4 DEF RowReplaced
  <2>8. RowChanges(m, a, p) BY <2>2, <2>4, <2>5, <2>6, <2>7 DEF RowChanges
  <2> QED BY <1>2, <1>3, <2>8 DEF RowStep
<1>5. \/ UNCHANGED protocols
      \/ CanBegin(m, a) /\ protocols' = [protocols EXCEPT ![m][a] = p]
  BY <1>1 DEF BeginExecution
<1> QED BY <1>4, <1>5 DEF RowStep

LEMMA ReconcileRowStep ==
  ASSUME TypeOK, ProtocolInvariant, EffectInvariant, NEW w \in Workers,
         StoreReconciled(w)
  PROVE  RowStep
<1>1. PICK r, m, a, p : /\ r = worker[w] /\ m = r.manifest /\ a = r.attempt /\ p = r.doc
  OBVIOUS
<1>2. /\ r.pc = "storingReconciled" /\ m \in Manifests /\ p \in Protocol
  BY <1>1, ManifestType DEF StoreReconciled, TypeOK, Worker
<1>3. /\ a \in DOMAIN protocols[m] /\ protocols[m][a].status = "failed"
      /\ p.status = "failed" /\ CopyOf(p, protocols[m][a])
      /\ ToReconcile(p) = {} /\ SucceededAreSafe(p) /\ DocumentInvariant(m, p)
  BY <1>1, <1>2 DEF ProtocolInvariant, RequestInvariant, Reconciling, EffectInvariant,
                    EffectsKnown
<1>4. RowReplaced(m, a, p) BY <1>1 DEF StoreReconciled, UpdateExecution, RowReplaced
<1>5. RowChanges(m, a, p) BY <1>3, <1>4 DEF RowChanges, Reconciles
<1> QED BY <1>2, <1>3, <1>5 DEF RowStep

LEMMA InsertRowStep ==
  ASSUME TypeOK, ProtocolInvariant, EffectInvariant, NEW w \in Workers,
         InsertProtocol(w)
  PROVE  RowStep
<1>1. PICK r, m, p : r = worker[w] /\ m = r.manifest /\ p = r.doc OBVIOUS
<1>2. r.pc = "inserting" /\ m \in Manifests /\ p \in Protocol
  BY <1>1, ManifestType DEF InsertProtocol, TypeOK, Worker
<1>3. CASE /\ ~ \E a \in DOMAIN protocols[m] :
                  ProtocolHash(protocols[m][a]) = ProtocolHash(p)
           /\ protocols' = [protocols EXCEPT ![m] = Append(@, p)]
  <2>1. DocumentInvariant(m, p) /\ \E o \in Ops : p.reconciled[o] = 0
    BY <1>1, <1>2 DEF EffectInvariant, EffectsKnown
  <2>2. /\ p.status = "prepared"
        /\ \/ Len(protocols[m]) = 0 /\ ProtocolHash(p) = ProtocolHash(FirstAttempt)
           \/ /\ Len(protocols[m]) \in DOMAIN protocols[m]
              /\ protocols[m][Len(protocols[m])].status = "failed"
              /\ ProtocolHash(p) = ProtocolHash(Retry(protocols[m][Len(protocols[m])]))
    BY <1>1, <1>2, <1>3, InsertedContinues
  <2>3. RowAdded(m, p) BY <1>3, <2>1, <2>2 DEF RowAdded
  <2> QED BY <1>2, <2>3 DEF RowStep
<1>4. \/ UNCHANGED protocols
      \/ /\ ~ \E a \in DOMAIN protocols[m] :
                ProtocolHash(protocols[m][a]) = ProtocolHash(p)
         /\ protocols' = [protocols EXCEPT ![m] = Append(@, p)]
  BY <1>1 DEF InsertProtocol
<1> QED BY <1>3, <1>4 DEF RowStep

\* Every step of the machine is one of these.
LEMMA RowSteps ==
  ASSUME TypeOK, ProtocolInvariant, EffectInvariant, [Next]_vars
  PROVE  RowStep
<1>1. CASE Environment
  BY <1>1 DEF Environment, PrepareManifest, Authorize, EndAuthorization, ChangeSwitch,
              ChangeAtMeta, RowStep
<1>2. ASSUME NEW w \in Workers, NEW m \in Manifests,
             StartPrepare(w, m) \/ StartExecute(w, m)
      PROVE  RowStep
  BY <1>2 DEF StartPrepare, StartExecute, RowStep
<1>3. ASSUME NEW w \in Workers, Preparing(w) PROVE RowStep
  <2>1. CASE StoreReconciled(w) \/ InsertProtocol(w)
    BY <2>1, ReconcileRowStep, InsertRowStep
  <2> QED BY <1>3, <2>1 DEF Preparing, ReconcileRead, ReconcileAlarm, Prepare, RowStep
<1>4. ASSUME NEW w \in Workers, Checking(w) PROVE RowStep
  BY <1>4, BeginRowStep DEF Checking, ReadSwitch, ReadProtocol, RowStep
<1>5. ASSUME NEW w \in Workers, Execute(w) PROVE RowStep
  <2>1. CASE \/ StoreMedia(w) \/ StoreOperation(w) \/ Fail(w) \/ Succeed(w)
    BY <2>1, StoreRowStep, CloseRowStep
  <2> QED BY <1>5, <2>1 DEF Execute, UploadVideo, AwaitVideo, CreateObject, ReadObject,
          AbandonBeforeWrite, Alarm, Engage, RowStep
<1>6. ASSUME NEW w \in Workers, GiveUp(w) \/ Crash(w) PROVE RowStep
  BY <1>6 DEF GiveUp, Crash, RowStep
<1>7. CASE UNCHANGED vars BY <1>7 DEF vars, RowStep
<1> QED BY <1>1, <1>2, <1>3, <1>4, <1>5, <1>6, <1>7 DEF Next, Request

-----------------------------------------------------------------------------
(* What the steps do to every row.                                         *)

LEMMA RowsReplaced ==
  ASSUME TypeOK, NEW m \in Manifests, NEW a \in DOMAIN protocols[m],
         NEW p \in Protocol, RowReplaced(m, a, p), NEW n \in Manifests
  PROVE  /\ protocols[n] \in Seq(Protocol) /\ protocols'[n] \in Seq(Protocol)
         /\ Len(protocols'[n]) = Len(protocols[n])
         /\ DOMAIN protocols'[n] = DOMAIN protocols[n]
         /\ \A b \in DOMAIN protocols[n] :
              protocols'[n][b] = IF n = m /\ b = a THEN p ELSE protocols[n][b]
<1>1. protocols[n] \in Seq(Protocol) BY DEF TypeOK
<1>2. CASE n = m
  <2>1. protocols'[n] = [protocols[n] EXCEPT ![a] = p]
    BY <1>2 DEF TypeOK, RowReplaced
  <2> QED BY <1>1, <1>2, <2>1, ReplaceInSeq
<1>3. CASE n # m
  <2>1. protocols'[n] = protocols[n] BY <1>3 DEF TypeOK, RowReplaced
  <2> QED BY <1>1, <1>3, <2>1
<1> QED BY <1>2, <1>3

LEMMA RowsAppended ==
  ASSUME TypeOK, NEW m \in Manifests, NEW p \in Protocol, RowAdded(m, p),
         NEW n \in Manifests
  PROVE  /\ protocols[n] \in Seq(Protocol)
         /\ n # m => protocols'[n] = protocols[n]
         /\ n = m => /\ Len(protocols'[n]) = Len(protocols[n]) + 1
                     /\ protocols'[n] # <<>>
                     /\ protocols'[n][Len(protocols'[n])] = p
         /\ \A b \in DOMAIN protocols[n] : protocols'[n][b] = protocols[n][b]
<1>1. protocols[n] \in Seq(Protocol) BY DEF TypeOK
<1>2. CASE n = m
  <2>1. protocols'[n] = Append(protocols[n], p) BY <1>2 DEF TypeOK, RowAdded
  <2> QED BY <1>1, <1>2, <2>1
<1>3. CASE n # m
  <2>1. protocols'[n] = protocols[n] BY <1>3 DEF TypeOK, RowAdded
  <2> QED BY <1>1, <1>3, <2>1
<1> QED BY <1>2, <1>3

\* Whatever a step does to a row, the row advances.
LEMMA RowsAdvance ==
  ASSUME TypeOK, ProtocolInvariant, EffectInvariant, RowStep,
         NEW n \in Manifests, NEW b \in DOMAIN protocols[n]
  PROVE  Advances(protocols[n][b], protocols'[n][b])
<1>0. protocols[n][b] \in Protocol BY RowType
<1>1. CASE UNCHANGED protocols BY <1>0, <1>1, SameAdvances
<1>2. ASSUME NEW m \in Manifests, NEW a \in DOMAIN protocols[m], NEW p \in Protocol,
             RowChanges(m, a, p)
      PROVE  Advances(protocols[n][b], protocols'[n][b])
  <2>1. RowReplaced(m, a, p) /\ DocumentInvariant(m, p) /\ SucceededAreSafe(p)
    BY <1>2 DEF RowChanges
  <2>2. protocols'[n][b] = IF n = m /\ b = a THEN p ELSE protocols[n][b]
    BY <2>1, RowsReplaced
  <2>3. PICK q : q = protocols[m][a] OBVIOUS
  <2>4. DocumentInvariant(m, q) BY <2>3 DEF EffectInvariant, RowsFit
  <2>5. Reconciles(m, q, p) \/ Begins(m, q, p) \/ Executes(m, q, p)
    BY <1>2, <2>3 DEF RowChanges
  <2>6. Advances(q, p)
    <3>1. CASE Reconciles(m, q, p)
      BY <2>1, <2>4, <3>1, ReconciledAdvances DEF Reconciles
    <3>2. CASE Begins(m, q, p)
      BY <2>1, <2>4, <3>2, PreparedAdvances DEF Begins
    <3>3. CASE Executes(m, q, p)
      BY <2>4, <3>3, ExecutorAdvances DEF Executes
    <3> QED BY <2>5, <3>1, <3>2, <3>3
  <2> QED BY <1>0, <2>2, <2>3, <2>6, SameAdvances
<1>3. ASSUME NEW m \in Manifests, NEW p \in Protocol, RowAdded(m, p)
      PROVE  Advances(protocols[n][b], protocols'[n][b])
  BY <1>0, <1>3, RowsAppended, SameAdvances
<1> QED BY <1>1, <1>2, <1>3 DEF RowStep

\* The status of an attempt only moves forward; a recorded id stays, and an attempt that
\* succeeded is never rewritten.
THEOREM OnlyAdvance == Spec => AttemptsOnlyAdvance
<1>1. ASSUME TypeOK, ProtocolInvariant, EffectInvariant, [Next]_vars,
             NEW m \in Manifests, NEW a \in DOMAIN protocols[m]
      PROVE  Advances(protocols[m][a], protocols'[m][a])
  BY <1>1, RowSteps, RowsAdvance
<1>2. TypeOK /\ ProtocolInvariant /\ EffectInvariant /\ [Next]_vars
        => [\A m \in Manifests : \A a \in DOMAIN protocols[m] :
              Advances(protocols[m][a], protocols'[m][a])]_protocols
  BY <1>1
<1>3. TypeOK /\ ProtocolInvariant /\ EffectInvariant /\ [Next]_vars
        => [\A m \in Manifests : \A a \in DOMAIN protocols[m] :
              LET old == protocols[m][a]
                  new == protocols'[m][a]
              IN  /\ <<old.status, new.status>> \in
                       {<<"prepared", "prepared">>, <<"prepared", "running">>,
                        <<"running", "running">>, <<"running", "failed">>,
                        <<"running", "succeeded">>, <<"failed", "failed">>,
                        <<"succeeded", "succeeded">>}
                  /\ old.status = "succeeded" => new = old
                  /\ \A o \in Ops : ReconciledId(old, o) # 0
                       => ReconciledId(new, o) = ReconciledId(old, o)]_protocols
  BY <1>2, Zenon DEF Advances
<1> QED BY <1>3, TypeCorrect, ProtocolsCorrect, EffectsCorrect, PTL
        DEF Spec, AttemptsOnlyAdvance

-----------------------------------------------------------------------------
(* The latest rows implement ControlledCreation.                           *)

LEMMA ReconciledNat ==
  ASSUME NEW p \in Protocol, NEW o \in Ops
  PROVE  ReconciledId(p, o) \in Nat
BY DEF ReconciledId, Protocol, Operation

\* An id stands for one operation of one manifest.
IdsAreOnce ==
  \A m, n \in Manifests, o, d \in Ops :
    Recorded(m, o) # 0 /\ Recorded(m, o) = Recorded(n, d) => m = n /\ o = d

LEMMA RecordedOnce == TypeOK /\ RowsFit => IdsAreOnce
<1> SUFFICES ASSUME TypeOK, RowsFit PROVE IdsAreOnce OBVIOUS
<1>1. ASSUME NEW k \in Manifests, NEW e \in Ops
      PROVE  Answered(Recorded(k, e), k, e, "object")
  <2>1. CASE protocols[k] = <<>> BY <2>1 DEF Recorded, Answered
  <2>2. CASE protocols[k] # <<>>
    <3>1. Len(protocols[k]) \in DOMAIN protocols[k] BY <2>2, LatestProtocolType
    <3>2. RecordsOwn(k, LatestProtocol(k))
      BY <3>1 DEF RowsFit, DocumentInvariant, LatestProtocol
    <3> QED BY <2>2, <3>2 DEF RecordsOwn, Recorded, ReconciledId
  <2> QED BY <2>1, <2>2
<1> QED BY <1>1 DEF Answered, IdsAreOnce

\* Document p has the ids of q and at most one more, that of an operation which follows
\* only recorded ones.
OneMore(q, p) ==
  \/ \A o \in Ops : ReconciledId(p, o) = ReconciledId(q, o)
  \/ \E o \in Ops :
       /\ ReconciledId(q, o) = 0 /\ ReconciledId(p, o) # 0
       /\ \A d \in Ops \ {o} : ReconciledId(p, d) = ReconciledId(q, d)
       /\ \A d \in 1..(o - 1) : ReconciledId(q, d) # 0

LEMMA ExecutesOneMore ==
  ASSUME NEW m, NEW q, NEW p, Executes(m, q, p),
         DocumentInvariant(m, q), SucceededAreSafe(q), Unbroken(q), DocumentInvariant(m, p)
  PROVE  OneMore(q, p)
<1>1. p.reconciled = q.reconciled BY HashFields DEF Executes
<1>2. ASSUME NEW o \in Pending(q)
      PROVE  q.operations[o].object = 0 /\ q.reconciled[o] = 0 /\ ReconciledId(q, o) = 0
  BY DEF Pending, DocumentInvariant, OperationsInOrder, ReconciledId, Safe
<1>3. ASSUME NEW o \in Ops, ReconciledId(p, o) # ReconciledId(q, o)
      PROVE  IsCurrent(q, o)
  <2>1. CASE o \in Pending(q) /\ o \in Pending(p)
    <3>1. p.operations[o].object = 0
      BY <2>1 DEF Pending, DocumentInvariant, OperationsInOrder
    <3> QED BY <1>1, <1>2, <1>3, <2>1, <3>1 DEF ReconciledId, Safe
  <2>2. CASE o \notin Pending(q)
    BY <1>1, <1>3, <2>2 DEF Executes, ReconciledId
  <2> QED BY <2>1, <2>2 DEF Executes
<1>4. CASE \A o \in Ops : ReconciledId(p, o) = ReconciledId(q, o)
  BY <1>4 DEF OneMore
<1>5. ASSUME NEW o \in Ops, ReconciledId(p, o) # ReconciledId(q, o)
      PROVE  OneMore(q, p)
  <2>1. IsCurrent(q, o) /\ ReconciledId(q, o) = 0 BY <1>2, <1>3, <1>5 DEF IsCurrent
  <2>2. \A d \in Ops \ {o} : ReconciledId(p, d) = ReconciledId(q, d)
    BY <1>3, <2>1, CurrentUnique
  <2>3. ASSUME NEW d \in 1..(o - 1) PROVE ReconciledId(q, d) # 0
    <3>1. d \in Ops /\ d < o BY OperationAssumption DEF Ops
    <3>2. d \notin Pending(q) BY <2>1, <3>1 DEF IsCurrent, Ops
    <3> QED BY <3>1, <3>2, DoneRecorded DEF Unbroken, Pending
  <2> QED BY <1>5, <2>1, <2>2, <2>3 DEF OneMore
<1> QED BY <1>4, <1>5

LEMMA ReconcilesOneMore ==
  ASSUME NEW m, NEW q \in Protocol, NEW p, Reconciles(m, q, p), DocumentInvariant(m, q),
         SucceededAreSafe(q), SucceededAreSafe(p)
  PROVE  OneMore(q, p)
<1>1. /\ p.reconciled = q.reconciled
      /\ \A o \in Ops : p.operations[o].object = q.operations[o].object
      /\ ToReconcile(p) = {}
  BY HashFields DEF Reconciles, CopyOf
<1>2. ASSUME NEW o \in Ops, ReconciledId(p, o) # ReconciledId(q, o)
      PROVE  /\ \A d \in 1..(o - 1) : Done(q, d)
             /\ ~Done(q, o)
             /\ ReconciledId(q, o) = 0 /\ ReconciledId(p, o) # 0
  <2>1. q.operations[o].object # 0 BY <1>1, <1>2 DEF ReconciledId, Safe
  <2>2. Safe(p.operations[o]) BY <1>1, <2>1 DEF ToReconcile, SucceededAreSafe
  <2>3. ~Safe(q.operations[o]) BY <1>1, <1>2, <2>2 DEF ReconciledId
  <2>4. q.operations[o].status \notin {"succeeded", "carried", "pending"}
    BY <2>1, <2>3 DEF SucceededAreSafe, DocumentInvariant, OperationsInOrder
  <2>5. q.operations[o].status \in {"uncertain", "failed"}
    BY <2>4 DEF Protocol, Operation
  <2> QED BY <1>1, <2>1, <2>2, <2>3, <2>4, <2>5, UnsafeHasNone
          DEF DocumentInvariant, OperationsInOrder, Done, ReconciledId, Safe
<1>3. CASE \A o \in Ops : ReconciledId(p, o) = ReconciledId(q, o)
  BY <1>3 DEF OneMore
<1>4. ASSUME NEW o \in Ops, ReconciledId(p, o) # ReconciledId(q, o)
      PROVE  OneMore(q, p)
  <2>1. ASSUME NEW d \in Ops \ {o} PROVE ReconciledId(p, d) = ReconciledId(q, d)
    <3>1. d \in 1..(o - 1) \/ o \in 1..(d - 1) BY OperationAssumption DEF Ops
    <3> QED BY <1>2, <1>4, <3>1
  <2>2. ASSUME NEW d \in 1..(o - 1) PROVE ReconciledId(q, d) # 0
    <3>1. d \in Ops BY OperationAssumption DEF Ops
    <3>2. Done(q, d) BY <1>2, <1>4
    <3> QED BY <3>1, <3>2, DoneRecorded
  <2> QED BY <1>2, <1>4, <2>1, <2>2 DEF OneMore
<1> QED BY <1>3, <1>4

\* Nothing changes for the other manifests.
OthersKept(m) ==
  \A n \in Manifests \ {m} : protocols'[n] = protocols[n]

LEMMA OthersMap ==
  ASSUME NEW m \in Manifests, OthersKept(m)
  PROVE  /\ [n \in Manifests |-> Phase(n)]'
              = [[n \in Manifests |-> Phase(n)] EXCEPT ![m] = Phase(m)']
         /\ \A n \in Manifests \ {m}, o \in Ops : Recorded(n, o)' = Recorded(n, o)
<1>1. \A n \in Manifests \ {m} :
        Phase(n)' = Phase(n) /\ \A o \in Ops : Recorded(n, o)' = Recorded(n, o)
  BY DEF OthersKept, Phase, Recorded, LatestProtocol
<1> QED BY <1>1

RecordedKept(m) == \A o \in Ops : Recorded(m, o)' = Recorded(m, o)

LEMMA KeptMap ==
  ASSUME NEW m \in Manifests, OthersKept(m), RecordedKept(m)
  PROVE  [n \in Manifests |-> [o \in Ops |-> Recorded(n, o)]]'
           = [n \in Manifests |-> [o \in Ops |-> Recorded(n, o)]]
<1>1. \A n \in Manifests, o \in Ops : Recorded(n, o)' = Recorded(n, o)
  BY OthersMap DEF RecordedKept
<1> QED BY <1>1

LEMMA MissingMap ==
  ASSUME NEW m \in Manifests, NEW o
  PROVE  o \in Promise!Missing(m) <=> o \in Ops /\ Recorded(m, o) = 0
BY DEF Promise!Missing

\* One more recorded id is a RecordOne of the promise.
LEMMA OneMoreMap ==
  ASSUME TypeOK', RowsFit', NEW m \in Manifests, OthersKept(m), NEW o \in Ops,
         Recorded(m, o) = 0, Recorded(m, o)' # 0, Recorded(m, o)' \in Nat,
         \A d \in Ops \ {o} : Recorded(m, d)' = Recorded(m, d),
         \A d \in 1..(o - 1) : Recorded(m, d) # 0
  PROVE  Promise!RecordOne(m)
<1>0. IdsAreOnce' BY RecordedOnce, PTL
<1>1. \A n \in Manifests \ {m}, d \in Ops : Recorded(n, d)' = Recorded(n, d)
  BY OthersMap
<1>2. ASSUME NEW n \in Manifests, NEW d \in Ops
      PROVE  Recorded(n, d) # Recorded(m, o)'
  <2>1. CASE n = m /\ d = o BY <2>1
  <2>2. CASE n # m \/ d # o
    <3>1. Recorded(n, d)' = Recorded(n, d) BY <1>1, <2>2
    <3> QED BY <1>0, <2>2, <3>1 DEF IdsAreOnce
  <2> QED BY <2>1, <2>2
<1>3. [n \in Manifests |-> [d \in Ops |-> Recorded(n, d)]]'
        = [[n \in Manifests |-> [d \in Ops |-> Recorded(n, d)]]
             EXCEPT ![m][o] = Recorded(m, o)']
  BY <1>1
<1>4. Deps[o] \cap Promise!Missing(m) = {}
  <2>1. \A d \in Deps[o] : d \in 1..(o - 1) BY OperationAssumption DEF Ops
  <2> QED BY <2>1, MissingMap
<1>5. o \in Promise!Missing(m) BY MissingMap
<1> QED BY <1>2, <1>3, <1>4, <1>5 DEF Promise!RecordOne

\* A step of the promise, or none.
AbstractNext == Promise!Next \/ UNCHANGED <<[m \in Manifests |-> Phase(m)],
                 [m \in Manifests |-> [o \in Ops |-> Recorded(m, o)]]>>

\* A step that changes neither the phase nor the ids of m is none of the promise.
LEMMA StutterStep ==
  ASSUME NEW m \in Manifests, OthersKept(m), Phase(m)' = Phase(m), RecordedKept(m)
  PROVE  AbstractNext
<1>1. [n \in Manifests |-> Phase(n)]' = [n \in Manifests |-> Phase(n)]
  BY OthersMap
<1> QED BY <1>1, KeptMap DEF AbstractNext

\* A step that replaces the latest row q of m by p.
LatestReplaced(m, q, p) ==
  /\ OthersKept(m)
  /\ Phase(m) = q.status /\ Phase(m)' = p.status
  /\ \A o \in Ops : /\ Recorded(m, o) = ReconciledId(q, o)
                    /\ Recorded(m, o)' = ReconciledId(p, o)

\* One more id on the latest row is one more of the promise.
LEMMA OneMoreStep ==
  ASSUME TypeOK', RowsFit', NEW m \in Manifests, NEW q \in Protocol, NEW p \in Protocol,
         LatestReplaced(m, q, p), OneMore(q, p)
  PROVE  Promise!RecordOne(m) \/ RecordedKept(m)
<1>1. CASE \A o \in Ops : ReconciledId(p, o) = ReconciledId(q, o)
  BY <1>1 DEF LatestReplaced, RecordedKept
<1>2. ASSUME NEW o \in Ops, ReconciledId(q, o) = 0, ReconciledId(p, o) # 0,
             \A d \in Ops \ {o} : ReconciledId(p, d) = ReconciledId(q, d),
             \A d \in 1..(o - 1) : ReconciledId(q, d) # 0
      PROVE  Promise!RecordOne(m)
  <2>1. \A d \in 1..(o - 1) : d \in Ops BY OperationAssumption DEF Ops
  <2>2. /\ Recorded(m, o) = 0 /\ Recorded(m, o)' # 0 /\ Recorded(m, o)' \in Nat
        /\ \A d \in Ops \ {o} : Recorded(m, d)' = Recorded(m, d)
        /\ \A d \in 1..(o - 1) : Recorded(m, d) # 0
    BY <1>2, <2>1, ReconciledNat DEF LatestReplaced
  <2>3. OthersKept(m) BY DEF LatestReplaced
  <2> QED BY <2>2, <2>3, OneMoreMap
<1> QED BY <1>1, <1>2 DEF OneMore

\* A reconciled latest row, or one its executor writes and goes on.
LEMMA RecordsStep ==
  ASSUME TypeOK', RowsFit', NEW m \in Manifests, NEW q \in Protocol, NEW p \in Protocol,
         LatestReplaced(m, q, p), OneMore(q, p),
         q.status \in {"running", "failed"}, p.status = q.status
  PROVE  AbstractNext
<1>1. OthersKept(m) /\ Phase(m)' = Phase(m) /\ Phase(m) \in {"running", "failed"}
  BY DEF LatestReplaced
<1>2. CASE Promise!RecordOne(m)
  <2>1. [n \in Manifests |-> Phase(n)]' = [n \in Manifests |-> Phase(n)]
    BY <1>1, OthersMap
  <2>2. Promise!Record(m) BY <1>1, <1>2, <2>1 DEF Promise!Record
  <2> QED BY <2>2 DEF AbstractNext, Promise!Next
<1>3. CASE RecordedKept(m) BY <1>1, <1>3, StutterStep
<1> QED BY <1>2, <1>3, OneMoreStep

LEMMA FailsStep ==
  ASSUME TypeOK', RowsFit', NEW m \in Manifests, NEW q \in Protocol, NEW p \in Protocol,
         LatestReplaced(m, q, p), OneMore(q, p),
         q.status = "running", p.status = "failed"
  PROVE  AbstractNext
<1>1. OthersKept(m) /\ Phase(m) = "running" /\ Phase(m)' = "failed"
  BY DEF LatestReplaced
<1>2. [n \in Manifests |-> Phase(n)]' = [[n \in Manifests |-> Phase(n)] EXCEPT ![m] = "failed"]
  BY <1>1, OthersMap
<1>3. Promise!RecordOne(m)
        \/ UNCHANGED [n \in Manifests |-> [o \in Ops |-> Recorded(n, o)]]
  BY <1>1, OneMoreStep, KeptMap
<1>4. Promise!Fail(m) BY <1>1, <1>2, <1>3 DEF Promise!Fail
<1> QED BY <1>4 DEF AbstractNext, Promise!Next

LEMMA SucceedsStep ==
  ASSUME NEW m \in Manifests, NEW q \in Protocol, NEW p \in Protocol,
         LatestReplaced(m, q, p), \A o \in Ops : ReconciledId(p, o) = ReconciledId(q, o),
         \A o \in Ops : ReconciledId(q, o) # 0,
         q.status = "running", p.status = "succeeded"
  PROVE  AbstractNext
<1>1. /\ OthersKept(m) /\ Phase(m) = "running" /\ Phase(m)' = "succeeded"
      /\ RecordedKept(m) /\ \A o \in Ops : Recorded(m, o) # 0
  BY DEF LatestReplaced, RecordedKept
<1>2. [n \in Manifests |-> Phase(n)]'
        = [[n \in Manifests |-> Phase(n)] EXCEPT ![m] = "succeeded"]
  BY <1>1, OthersMap
<1>3. UNCHANGED [n \in Manifests |-> [o \in Ops |-> Recorded(n, o)]] BY <1>1, KeptMap
<1>4. Promise!Missing(m) = {} BY <1>1, MissingMap
<1>5. Promise!Succeed(m) BY <1>1, <1>2, <1>3, <1>4 DEF Promise!Succeed
<1> QED BY <1>5 DEF AbstractNext, Promise!Next

LEMMA BeginsStep ==
  ASSUME NEW m \in Manifests, NEW q \in Protocol, NEW p \in Protocol,
         LatestReplaced(m, q, p), \A o \in Ops : ReconciledId(p, o) = ReconciledId(q, o),
         q.status = "prepared", p.status = "running"
  PROVE  AbstractNext
<1>1. /\ OthersKept(m) /\ Phase(m) = "prepared" /\ Phase(m)' = "running"
      /\ RecordedKept(m)
  BY DEF LatestReplaced, RecordedKept
<1>2. [n \in Manifests |-> Phase(n)]'
        = [[n \in Manifests |-> Phase(n)] EXCEPT ![m] = "running"]
  BY <1>1, OthersMap
<1>3. UNCHANGED [n \in Manifests |-> [o \in Ops |-> Recorded(n, o)]] BY <1>1, KeptMap
<1>4. Promise!Begin(m) BY <1>1, <1>2, <1>3 DEF Promise!Begin
<1> QED BY <1>4 DEF AbstractNext, Promise!Next

LEMMA RowChangesRefine ==
  ASSUME TypeOK, ProtocolInvariant, EffectInvariant, TypeOK', RowsFit',
         NEW m \in Manifests, NEW a \in DOMAIN protocols[m], NEW p \in Protocol,
         RowChanges(m, a, p)
  PROVE  AbstractNext
<1>1. /\ RowReplaced(m, a, p) /\ DocumentInvariant(m, p) /\ SucceededAreSafe(p)
  BY DEF RowChanges
<1>2. OthersKept(m)
  BY <1>1 DEF RowReplaced, OthersKept, TypeOK
<1>3. PICK l : l = Len(protocols[m]) OBVIOUS
<1>4. /\ protocols[m] # <<>> /\ l \in DOMAIN protocols[m]
      /\ LatestProtocol(m) = protocols[m][l]
  <2>1. protocols[m] # <<>> OBVIOUS
  <2> QED BY <1>3, <2>1, LatestProtocolType DEF LatestProtocol
<1>5. /\ protocols'[m] # <<>> /\ Len(protocols'[m]) = l
      /\ LatestProtocol(m)' = IF a = l THEN p ELSE LatestProtocol(m)
  <2>1. /\ Len(protocols'[m]) = l /\ DOMAIN protocols'[m] = DOMAIN protocols[m]
        /\ protocols'[m] \in Seq(Protocol)
        /\ protocols'[m][l] = IF a = l THEN p ELSE protocols[m][l]
    BY <1>1, <1>3, <1>4, RowsReplaced
  <2>2. protocols'[m] # <<>> BY <1>4, <2>1
  <2> QED BY <1>4, <2>1, <2>2 DEF LatestProtocol
<1>6. /\ Phase(m) = LatestProtocol(m).status /\ Phase(m)' = LatestProtocol(m)'.status
      /\ \A o \in Ops : /\ Recorded(m, o) = ReconciledId(LatestProtocol(m), o)
                        /\ Recorded(m, o)' = ReconciledId(LatestProtocol(m)', o)
  BY <1>4, <1>5 DEF Phase, Recorded, ReconciledId
<1>7. CASE a # l
  BY <1>2, <1>5, <1>6, <1>7, StutterStep DEF RecordedKept, ReconciledId
<1>8. CASE a = l
  <2>1. PICK q \in Protocol : q = protocols[m][a] BY RowType
  <2>2. LatestReplaced(m, q, p)
    BY <1>2, <1>4, <1>5, <1>6, <1>8, <2>1 DEF LatestReplaced
  <2>3. /\ DocumentInvariant(m, q) /\ SucceededAreSafe(q)
        /\ q.status = "running" => Unbroken(q)
    BY <2>1 DEF EffectInvariant, RowsFit, ProtocolInvariant, RowsInvariant
  <2>4. CASE Reconciles(m, q, p)
    <3>1. OneMore(q, p) BY <1>1, <2>3, <2>4, ReconcilesOneMore
    <3> QED BY <2>2, <2>4, <3>1, RecordsStep DEF Reconciles
  <2>5. CASE Begins(m, q, p)
    <3>1. \A o \in Ops : ReconciledId(p, o) = ReconciledId(q, o)
      BY <1>1, <2>3, <2>5, PreparedAdvances DEF Begins
    <3> QED BY <2>2, <2>5, <3>1, BeginsStep DEF Begins
  <2>6. CASE Executes(m, q, p)
    <3>1. OneMore(q, p) BY <1>1, <2>3, <2>6, ExecutesOneMore DEF Executes
    <3>2. CASE p.status = "running"
      BY <2>2, <2>6, <3>1, <3>2, RecordsStep DEF Executes
    <3>3. CASE p.status = "failed"
      BY <2>2, <2>6, <3>1, <3>3, FailsStep DEF Executes
    <3>4. CASE p.status = "succeeded"
      <4>1. /\ Pending(q) = {} /\ p.reconciled = q.reconciled
            /\ \A o \in Ops : p.operations[o] = q.operations[o]
        BY <2>6, <3>4, HashFields DEF Executes
      <4>2. \A o \in Ops : ReconciledId(p, o) = ReconciledId(q, o)
        BY <4>1 DEF ReconciledId
      <4>3. \A o \in Ops : Done(q, o)
        BY <2>3, <2>6, <4>1 DEF Executes, Unbroken, Pending
      <4>4. \A o \in Ops : ReconciledId(q, o) # 0 BY <2>3, <4>3, DoneRecorded
      <4> QED BY <2>2, <2>6, <3>4, <4>2, <4>4, SucceedsStep DEF Executes
    <3> QED BY <2>6, <3>2, <3>3, <3>4 DEF Executes
  <2> QED BY <1>3, <2>1, <2>4, <2>5, <2>6 DEF RowChanges
<1> QED BY <1>7, <1>8

LEMMA RowAddedRefines ==
  ASSUME TypeOK, NEW m \in Manifests, NEW p \in Protocol, RowAdded(m, p)
  PROVE  AbstractNext
<1>1. OthersKept(m) BY RowsAppended DEF OthersKept
<1>2. protocols'[m] # <<>> /\ LatestProtocol(m)' = p
  BY RowsAppended DEF LatestProtocol
<1>3. Phase(m)' = "prepared" /\ \A o \in Ops : Recorded(m, o)' = ReconciledId(p, o)
  BY <1>2 DEF Phase, Recorded, ReconciledId, RowAdded
<1>4. \A o \in Ops : ReconciledId(p, o) = p.reconciled[o]
  BY DEF RowAdded, DocumentInvariant, StatusFits, ReconciledId, Safe
<1>5. /\ Phase(m) \in {"none", "failed"}
      /\ \A o \in Ops : Recorded(m, o) = p.reconciled[o]
  <2>1. CASE Len(protocols[m]) = 0 /\ ProtocolHash(p) = ProtocolHash(FirstAttempt)
    <3>1. protocols[m] = <<>> BY <2>1, RowsAppended
    <3>2. \A o \in Ops : p.reconciled[o] = 0
      BY <2>1, HashFields DEF FirstAttempt, NewProtocol
    <3> QED BY <3>1, <3>2 DEF Phase, Recorded
  <2>2. CASE /\ Len(protocols[m]) \in DOMAIN protocols[m]
             /\ protocols[m][Len(protocols[m])].status = "failed"
             /\ ProtocolHash(p) = ProtocolHash(Retry(protocols[m][Len(protocols[m])]))
    <3>1. protocols[m] # <<>> BY <2>2
    <3>2. \A o \in Ops : p.reconciled[o] = ReconciledId(LatestProtocol(m), o)
      BY <2>2, HashFields DEF Retry, NewProtocol, LatestProtocol
    <3> QED BY <2>2, <3>1, <3>2 DEF Phase, Recorded, LatestProtocol
  <2> QED BY <2>1, <2>2 DEF RowAdded
<1>6. RecordedKept(m) BY <1>3, <1>4, <1>5 DEF RecordedKept
<1>7. Promise!Missing(m) # {} BY <1>5, MissingMap DEF RowAdded
<1>8. [n \in Manifests |-> Phase(n)]'
        = [[n \in Manifests |-> Phase(n)] EXCEPT ![m] = "prepared"]
  BY <1>1, <1>3, OthersMap
<1>9. UNCHANGED [n \in Manifests |-> [o \in Ops |-> Recorded(n, o)]]
  BY <1>1, <1>6, KeptMap
<1>10. Promise!PrepareAttempt(m)
  BY <1>5, <1>7, <1>8, <1>9 DEF Promise!PrepareAttempt
<1> QED BY <1>10 DEF AbstractNext, Promise!Next

LEMMA RowStepRefines ==
  ASSUME TypeOK, ProtocolInvariant, EffectInvariant, TypeOK', RowsFit', RowStep
  PROVE  AbstractNext
<1>1. CASE UNCHANGED protocols
  BY <1>1 DEF AbstractNext, Phase, Recorded, LatestProtocol
<1> QED BY <1>1, RowChangesRefine, RowAddedRefines DEF RowStep

\* Every behaviour of the rows is one of ControlledCreation, whose phase is the status of
\* the latest row and whose ids are those the latest row has on record.
THEOREM Refinement == Spec => KeepsThePromise
<1>1. Init => Promise!Init
  BY DEF Init, Promise!Init, Phase, Recorded
<1>2. TypeOK /\ ProtocolInvariant /\ EffectInvariant /\ [Next]_vars
        => [Promise!Next]_<<[m \in Manifests |-> Phase(m)],
                            [m \in Manifests |-> [o \in Ops |-> Recorded(m, o)]]>>
  <2> SUFFICES ASSUME TypeOK, ProtocolInvariant, EffectInvariant, [Next]_vars
               PROVE  AbstractNext
    BY DEF AbstractNext
  <2>1. TypeOK' BY NextTypeOK
  <2>2. RowsFit' BY NextEffects DEF EffectInvariant
  <2>3. RowStep BY RowSteps
  <2> QED BY <2>1, <2>2, <2>3, RowStepRefines
<1> QED BY <1>1, <1>2, TypeCorrect, ProtocolsCorrect, EffectsCorrect, PTL
        DEF Spec, KeepsThePromise, Promise!Spec
=============================================================================
