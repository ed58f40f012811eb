# Contexto Ads in TLA+

The backend (NestJS + PostgreSQL) turns a campaign brief into an execution plan, has people approve
it, creates the campaign's objects at Meta, always `PAUSED`, and then watches the campaign and
recommends what to do. Several HTTP requests, the database and Meta take steps in any order, calls fail
or answer late, and a mistake creates paid-media objects twice, approves a plan nobody saw, or leaves a
credential where nobody looks. This directory holds a TLA+ model of the backend's modules, the instances
TLC checks, and proofs that TLAPS checks.

## The system

Every service is stateless: state lives in PostgreSQL rows, and a request is a sequence of awaits, each
one a query, a transaction or a call to Meta. Requests run concurrently, in one or several processes.

| component | state it keeps | operations | what makes it correct |
|---|---|---|---|
| campaign-context, campaign-package | versioned brief of a campaign, imported packages | append a version if the expected one is current, import, hand off | no lost version, importing twice changes nothing |
| execution-plan | plan versions with a hash | generate, bind a Meta target | one plan per idempotency key; a bound target invalidates approvals of what it replaced |
| approval | approvals of a plan | request, approve, reject, revoke, expire | at most one active; approved means this very plan |
| creative-package | versions and reviews of creatives | append, review, apply to the plan | approved creatives are the ones in the plan |
| execution-simulation | simulation reports | simulate: order and dependencies of operations | dependencies precede dependents |
| operational-readiness | readiness decisions | evaluate approvals, simulation, capabilities | ready only on current evidence |
| execution-manifest | manifests of a plan; the newest is the latest | prepare, latest | equal evidence, equal manifest; only the latest is usable |
| execution-authorization | 15-minute authorizations of a manifest, preflights | request, approve, reject, revoke, refresh, preflight | one active per manifest, decisions are final, expired means closed |
| kill-switch | append-only versions per tenant and campaign | change, effective | no lost change, missing or engaged blocks |
| meta-write-validation | one protocol row per attempt at a manifest | prepare, saveIdempotent, beginExecution, updateExecution | attempts form a chain, nothing created is forgotten |
| meta-execution | none: it drives the protocol row and Meta | reconcileFailedPausedObjects, executePaused | one executor, no repeated effect, failure closes the campaign |
| meta-adapter | none | create, read, upload, search, discover | every call ends as answered, refused or unknown |
| meta-oauth, credential-vault, meta-connection | OAuth attempts, encrypted secrets, connection status and asset bindings | start, callback, compensate, bind, select | a state is used once, what stays in the vault is in use or explained |
| capability-registry, readiness | capability evidence, smoke-test reports | record, run, latest | the newest evidence decides |
| operator-access | memberships, work-queue snapshots | the authenticated façade of all of the above | a role only does what it may |
| ecosystem-orchestrator | none: derives the stage of a campaign | status, next action | the stage agrees with the components |
| analyst, analyst-tracking, meta-insights | analyses, learning records, registrations | analyse, govern, learn, track | governance before action, idempotent registration |
| audit, migrations, health, panel (`app/`, `lib/`), workflows | audit rows, schema, none | append; apply; view | an event exactly when the change commits |

How they interact. `operator-access` authenticates and calls the services. A plan is approved
(`approval`), simulated, judged ready, and frozen as a manifest; a manifest is authorized
(`execution-authorization`), a protocol is prepared for it (`meta-write-validation`), and
`meta-execution` runs it: it reads the authorization, both kill switches, the protocol and the
connection, takes the protocol row, calls Meta operation by operation, rewrites the row after each
effect, and on failure engages the campaign's kill switch. Everything is shared through rows: there
are no queues and no in-memory state between requests.

Around that line: `meta-oauth` gets the credential everything at Meta is done with, and stores it in
`credential-vault`; `meta-connection`, `capability-registry` and `readiness` keep what is known about
the connected assets, each under the lock of the connection's row but on readings made before it;
`campaign-package` submits a whole campaign in five writes of five services; `ecosystem-orchestrator`
calls the others in place of an operator; a trigger of the protocol table tells `analyst-tracking` which
campaign of Meta is the one of a context, and the collector job asks `analyst` to read and judge it.

Hard behaviours: concurrent prepares and executions of one manifest; a document that is rewritten as
a whole from a copy held across awaits; creations whose answer is lost; objects created but not
readable; several attempts that must add up to one campaign; requests that die between the effect at
Meta and the row; checks (switches, authorization, latest manifest) made long before the writes they
guard; advisory locks, unique indexes and a small connection pool under concurrent transactions; plans,
approvals and creative versions that replace each other in separate transactions; a submission that
stops after any of its writes and is sent again; secrets stored by one statement and referred to by the
next, when either may fail or its answer be lost; rows stored once per evidence while the evidence
moves away and back. `PROJECT.json` lists the hazards with the line where each bites and the properties
that cover it.

## Modules

| module | what it is |
|---|---|
| `KillSwitchLedger` | abstract: what the kill switch promises, an atomic append-only list of versions per target |
| `KillSwitch` | the transactions of `appendNext` over pool, advisory lock and unique index, and the two-query `effective` |
| `AuthorizedManifests` | abstract: which manifests have an approved authorization |
| `ExecutionAuthorization` | the authorization rows, and the requests that create, refresh, decide and rely on them |
| `ExecutionPreflight`, `ExecutionGates` | the gates of an execution and the preflight as a function of them; `preparePaused`, `confirmPaused`, `executePaused` and preflights that read the gates one after another |
| `ControlledCreation` | abstract: what controlled creation promises an operator |
| `MetaExecution` | prepare, reconcile and execute, composed with the ledger of the kill switch, the authorized manifests and Meta |
| `CampaignPlans` | plans, creative versions, approvals and dry runs of one campaign |
| `PlanObjects` | what a plan says is to be created: objects, variants, order, operations of the manifest, budget ceiling |
| `ReadinessEvidence` | dry run, readiness decision and manifest over evidence that changes |
| `CampaignHandoff`, `PackageMapping` | the five writes of a package submission; the validation and mapping of its contents |
| `Ecosystem` | the orchestrator over `CampaignPlans` |
| `OperatorRoles`, `OperatorAccess` | roles and permissions; authentication, memberships and the tenant an operation is made in |
| `OperatorViews` | portfolio, work queue, plans, contexts, readiness and timeline as they are shown |
| `CredentialCustody`, `MetaOAuth` | abstract: what becomes of a secret; the authorization attempts, callbacks and compensations |
| `MetaAssets`, `GraphReading` | discovery, selection, capabilities and smoke tests under a row lock; paging over the Graph API |
| `AnalystRules`, `AnalystPairs` | the rules of an analysis; all pairs of snapshots they are compared on |
| `Analyst`, `AnalystTracking`, `AnalystCollector` | collections, decisions and learnings; the registration of the tracked campaign; the job |
| `MC*` | instances for TLC (below) |
| `*Proofs` | proofs (below): `SwitchProofs`, `AuthorizationProofs`, `MetaExecutionProofs`, `CampaignPlansProofs`, `CampaignProofs`, `MetaOAuthProofs`, `MetaAssetsProofs`, `AnalystProofs` |

In all machines an action is what the code does between two awaits, `pc` names the await a request
stands at, and the fields of a request are the local variables it carries across it. A machine that
must tell what was so while a request ran keeps a history variable (`past`, `blocked`, `used`), which no
guard reads.

### MetaExecution

State and code. `protocols[m]` is the sequence of rows of `meta_write_validation_protocols` of
manifest `m` in the order of `prepared_at`; a document keeps the fields that decide something
(attempt, status, carried ids, preserved media, per-operation status, object, observed status and
media, and `externalWritesPerformed`). `worker[w]` is a request in the middle of
`prepareMetaWriteValidation` (reconcile, then prepare) or `executeMetaPausedCreation`, with the copy of
the document it holds; its `pc` names the await it stands at, so one action is what the code does
between two awaits. `objects` is what exists at Meta, with an observation of whether the server got
the answer. `ledger` (from `KillSwitchLedger`) are the switches; `authorized`, the manifests with an
approved authorization, and `manifests`, the number of manifests generated for the plan, come from
`AuthorizedManifests`.

Actions follow the code: `StartPrepare`, `ReconcileRead`, `ReconcileAlarm`, `StoreReconciled`,
`Prepare`, `InsertProtocol`; `StartExecute`, `ReadSwitch` (two reads in any order), `ReadProtocol`,
`BeginExecution` (the compare-and-set with the unique running index); then per operation
`UploadVideo`, `StoreMedia`, `AwaitVideo`, `CreateObject`, `ReadObject`, `StoreOperation`,
`AbandonBeforeWrite`, and `Alarm`, `Engage`, `Fail`, `Succeed`. A write at Meta is answered, refused
(nothing happens) or unknown (it happens, the answer does not arrive). `Crash` is a request that dies,
or whose last database call fails: both leave the row as it is. `GiveUp` collects the refusals and
errors before an attempt begins; they change nothing.

Abstracted: hashes are the tuple of what they cover; request bodies, geography and the six-second
video polling are success or failure; an id is the position in `objects`; a creative has no lifecycle
status, as in the code.

### KillSwitch

A change is `Connect`, `Lock`, `ReadLatest`, `InsertState`, `InsertAudit`, `Commit`, then `Release`;
any statement may fail (`Fail`, `Rollback`). The advisory lock lives from the lock statement to the
end of the transaction; the unique index refuses a committed version and waits for an uncommitted one.
`blocked` is an observation: the targets that have not been released at any moment since an
evaluation began. `KillSwitchLedger` is what the committed rows amount to, and what `MetaExecution`
uses.

### ExecutionAuthorization

`rows` is `execution_authorizations` for the manifests of one plan, in the order of insertion, each
with its manifest, status and expiry; `clock` counts ticks, an authorization is valid for `Validity`
of them. `request[r]` is a request between two awaits: the operation, the row it works on, the status
it read (`copy`), and the time it captured last (`now`), with which it makes its comparisons however
late the statement runs. `StartRequest`, `Insert` (the partial unique index decides), `Select` and the
second round after an expiry are `request`; `StartRefresh` and `Refresh` are the refresh every other
operation begins with; `Approve` (one update that compares status, expiry and latest manifest again),
`Reject`, `Revoke` and `Check` (the executor) follow it. `End` sends the answer, or is a failed
statement whose transaction left nothing. A transaction of two statements is one action where the
second only records the first (the audit event). A row that is not active is answered or refused as it
is, so no request starts on one. The time is captured in the step that reads the row.

### ExecutionPreflight and ExecutionGates

A gate is a fact an execution depends on: `Stored` in the database (the two switches, latest manifest,
latest plan and its approval, connection, selected page and WhatsApp), `AtMeta` (what the token may
see), or `Fixed`. `ExecutionPreflight` translates which gates the preflight names as blockers, and at
which stage its diagnostic stops, as a function of the set of gates it saw open. In `ExecutionGates`
`open` is that set, and `Change` opens or closes one between any two awaits; `authorizations`, `attempt`
and `protocol` stand for the rows of the other modules by their status alone, and `preflights` are the
stored answers. `Preparing`, `Checking` and `Executing` are the awaits of the three operations,
`Leave` the answer.

### CampaignPlans and PlanObjects

`plans` is `execution_plans` in the order of insertion, each with its creation stamp, base (context,
target, creative) and hash; `packages` the creative versions with their status; `approvals` the
approval rows; `reports` what dry runs concluded; `late` holds the approvals that are past their
expiry. A request builds a plan and saves it by idempotency key (`Save`), and invalidates the approvals
of other plans in a transaction of its own (`Invalidate`); `Bind`, `Supersede`, `InsertVersion`,
`ApproveCreative`, `Derive`, `Rebind`, `InsertApproval`, `Read`, `Refresh`, `Approve`, `Reject`,
`Revoke` and `Review` are the other statements of the services named in the map. `Fail` is a statement
that fails, and ends its request. Hashes are the records they cover.

`PlanObjects` has no concurrency: it computes the objects of a generated plan, the variants that an
approved creative package puts in the place of the placeholder, the topological order of the dry run,
and the operations of the manifest. Numbers are rounded to `Precision` significant bits as floating
point rounds them (53 in the program), because the ceiling people approve is a product.

### ReadinessEvidence

`facts` is what the queries of a dry run find now; the dry run reads account, capabilities, approval
and creative one after the other and stores a report (`SaveReport`); the decision (`SaveDecision`) and
the manifest (`SaveManifest`) are stored once per evidence, and return the earlier row if there is one.
`Supersede`, `Discover`, `NewCreative`, `Validate` and `Approvals` change the facts in between. `since`, the
number of reports stored when a request began, is a history variable: it tells which requests
overlapped.

### CampaignHandoff and PackageMapping

`CampaignHandoff` follows `submit`: find or append the version of the context, generate the plan, append
the creative package, derive the plan that carries it, bind the account. Each is a commit of its own;
`Fails` stops a request after any of them, and the sender submits the same draft again. The operator
appends contexts, generates, revises and binds meanwhile. `PackageMapping` runs one package through
the validation (`Validate`), the mapper (`Map`) and what context and creative package make of its
output (`Receive`): ads with shared or missing media, budgets between two units, lengths and ages on
both sides of their limits.

### Ecosystem

EXTENDS `CampaignPlans`: `advanceSafe` is a request that issues requests of `CampaignPlans` (bind the
account, ask for the approval) and reads the campaign again between them; a failure of a call ends it.
`Told` is the answer of `describeCampaign` as a function of the rows.

### OperatorRoles, OperatorAccess and OperatorViews

`OperatorRoles` lists what each role permits and what each operation asks for. `OperatorAccess` is one
request from the authentication of its token over the reading of the memberships, the resolution of the
tenant (named, or found by the business of a package) and the check of the permission, to the change,
with its audit event. A submission first stores its context (`StoreContext`) and then its plan
(`GeneratePlan`), and may stop between the two; a package has a status once it has both (`HasStatus`), and a
context alone is answered as not found, as `getStatusAutoResolved` takes the missing plan for a missing
package (`Look`). `Outside` is the administrator who grants, revokes, suspends and renames, and the
deployment whose start script seeds a membership. `OperatorViews` reads a view by queries that run
together, in any order, while plans, decisions and memberships change; the work queue saves one
snapshot per tenant and day, and every view is audited.

### MetaOAuth and CredentialCustody

`attempts` are the rows of `meta_oauth_attempts`, `vault` the encrypted secrets (stored or revoked),
`connection` the credential in use, `compensations` the recorded revocations that are still owed.
`ReadConnection` and `InsertAttempt` start an attempt; `Callback`, `Consume`, `Exchange`, `Store` and
`Connect` are the callback, `Revoke` and `Record` its compensation. A statement may fail, take effect
and lose its answer, or be the last one of a process that stops (`Faults` says which kinds happen).
`CredentialCustody` says of each secret that it is held by a callback until it is in use, revoked or
owed a revocation, or abandoned; `CustodyOf` is the mapping. `faults` is a history variable: which
callback met which fault, and where, once it had exchanged its code.

### MetaAssets and GraphReading

`offered` and `granted` are Meta; `discovered` and `selected` the bindings, `capabilities` the
registry, `reports` the smoke tests, `snapshots` the captured evidence. `LockBindings`,
`LockSelection` and `LockRecords` take the row lock of the connection; what is written under it was
read before. `GraphReading` is `collectEdge`: a server that links its pages in any way, a limit of
pages, repeated cursors, and answers classified as retryable or not.

### Analyst, AnalystTracking and AnalystCollector

`AnalystRules` translates the rules (maturity, health, action, waiting time, learning, the brief and
the alert), and `AnalystPairs` judges every pair of snapshots with all of them. `Analyst` has the
rows: snapshots by content, the analysis of a snapshot, decisions and learnings; each operation reads
first and writes in a later transaction. `AnalystTracking` is the trigger that registers the campaign
of a confirmed protocol and swallows its own errors, and the resolver that looks for what it missed.
`AnalystCollector` is the job's loop with its counters and its exit code.

## Runs

A suite (`MC…`) instantiates several machines and `part` says which of them runs in a behaviour; the
variables of the others hold `Off`, or their initial values where the suite extends the machine. So one
run of TLC answers the questions about one area on several instances, and each machine is still explored
alone. A property that a suite defines names the parts it is about; the others are those of the machines
it extends.

### Passing runs

| run | machines and bounds |
|---|---|
| `execution` | `MetaExecution` three times. Extended: 2 requests, 2 operations of which the first is a creative with a video, 2 attempts, switch versions up to 2, one object activated by hand, no crash. `Video`: 1 request at a time, 3 operations with the video creative in the middle, 3 attempts, 1 crash, versions up to 5. `Plain`: 2 requests, 2 operations, 2 attempts, versions up to 3 |
| `switch` | `KillSwitch`: 3 changes and 1 reading over 2 connections, 3 versions. `ExecutionGates` as `Two`: 2 operators prepare and confirm, 2 attempts, one change of the campaign's switch; as `Alone`: 1 operator also runs preflights of one attempt while any of 7 gates changes twice |
| `authorization` | `ExecutionAuthorization`: 2 requests, 2 manifests, 2 rows, 3 ticks, validity 2. `OperatorAccess` as `Access`: 1 request for one operation of each kind, 2 tenants, 2 tokens, 3 environments, 2 changes from outside; as `ByPackage`: 2 requests that send a package or ask for its status without naming a tenant, 2 tenants, 2 names, 1 change, no package stored at first (`Access` begins with any: none, a context, or a context and its plan). `OperatorViews` as `Portfolios` (two tenants and campaigns, 4 changes), `Queues` (two work queues around midnight) and `Lists` (contexts, readiness, timelines with 2 late events) |
| `plans` | `CampaignPlans` from its context to a ready dry run: 2 requests, 7 operations, 4 builds; as `Approvals`: 2 contexts, 2 approvals, an expiry, failing statements; as `Versions`: 3 creative versions, 5 builds. `Ecosystem` as `Advancing`: an advance beside a person, 4 builds; as `Failing`: 3 builds and failing statements; as `Told`: one request at a time, with every answer and analysis |
| `connection` | `MetaOAuth`: 2 requests, 3 attempts, 2 failures or crashes; as `Wide`: 2 attempts, 2 faults of any kind (failure, lost answer, crash). Only faults after a code was exchanged count. `MetaAssets`: 2 requests, 3 starts, 2 accounts, a page and a phone, 1 change at Meta. `GraphReading`: every linking of 4 cursors, limit 4. `AnalystPairs`: snapshots on both sides of every threshold. `Analyst` as `Deciding` and `Learning`, `AnalystTracking` with 2 resolutions and 2 plans, `AnalystCollector` with up to 4 items |
| `campaign` | `CampaignHandoff` as `Appending`: 2 requests, 3 starts, 1 failure, two versions and a rewritten one; as `Binding`: 4 starts beside generated, revised and bound plans. `PackageMapping` as `Ads` (up to 3 ads and 2 media) and `Budget` (amounts in tenths around every rounding). `PlanObjects`: all packages of up to 2 items a list, precision 3. `ReadinessEvidence` as `Together`: 2 requests, 3 reports, 1 change; as `Sequence`: 1 request after the other, failures, 2 reports, 2 changes |
| `ends` | under fairness, smaller instances of `MetaExecution`, `KillSwitch` (one connection), `MetaOAuth` (all faults), `MetaAssets`, `GraphReading`, `CampaignHandoff` (3 versions, 3 failures, 6 starts), `CampaignPlans` and `AnalystTracking` |

What they show, next to the type invariant of each module:

* `execution`: `OneExecutorPerManifest` (and it holds the running row), `AttemptsFormAChain` (an attempt
  starts from a failed, fully reconciled one), `EffectsAreAccountedFor` (an answered effect is not
  repeated in any attempt of the manifest, dependencies are created first, an answered object is in a
  row or in the copy of the request that is about to write it, success is complete),
  `EffectsAreTracked` (the same on the instances with a video and with more switch changes),
  `AttemptsOnlyAdvance` (no row goes back, whoever writes it), `KeepsThePromise` (the rows implement
  `ControlledCreation`).
* `switch`: `AuditMirrorsLedger`, `ReleasedIsNotBlocked` (who was told "open" saw each target released
  at some moment of the evaluation), `AnsweredChangeInForce`, `ImplementsLedger`; `CreationIsGated`
  (creation by a confirmation went through a preflight without blockers and every gate `executePaused`
  asks for, each open at some moment of that execution), `PreflightsAreExplained` (a preflight, stored or
  found, says nothing that was not so during the request).
* `authorization`: `OnlyNewestActive`, `RequestedIsUsable`, `DecisionsAreFinal`,
  `ImplementsAuthorized`; `AccessIsSound` (a change is permitted to the subject in the tenant it is made
  in, a package goes to a tenant its business could mean and stays there, one whose context and plan the
  subject could see all along is found, every tenant shown was audited), `ViewsAreSound`.
* `plans`: `ReadyWasDecided` (what is reported ready was approved and reviewed, for this very plan),
  `ReviewedWasApproved`, `StoredOnce` (one plan per key, one approved creative version, one active
  approval per plan), `DecisionsAreFinal`; `OrchestratorWaitsForPeople` (an approval that an advance opens
  is for a plan with a target, after a clean review, and people are told that the Generator works exactly
  when an advance has something to do), which holds beside advances and without them.
* `connection`: `OneCredentialPerAttempt`, `CredentialInUseIsLive`, `NoDowngrade`,
  `KeepsCustody`, `SecretsLeftAreExplained` (a secret is left live in the vault only because an
  authorization for execution replaced it or its own callback let it go: the answer of `putSecret` was
  lost, the process stopped with the secret, or both its revocation and the record of it failed);
  `ConnectionIsWhole` (the registry is the outcome of one validation, one
  asset of a kind is selected, a list that was read is the whole list, nothing undoes a choice);
  `AnalystAgrees` (services that judge the same pair agree, answers are what is kept, a registered
  campaign was confirmed by its own protocol, the job's summary adds up).
* `campaign`: `HandoffIsKept` (an accepted submission is answered with what is stored for its version,
  once, and with a plan bound to its account), `ObjectsCanBeCreated` (ads keep their images, a budget is
  a closest amount, what is refused is explained, an order exists, the manifest creates the approved
  pairs once, the ceiling is exact), `EvidenceIsShared` (requests that find the same evidence share one
  decision and one manifest, what was lost prepares nothing, and an approval is forgotten only beside a
  request that overlaps).
* `ends`: `PromisesAreKept` (no request waits for ever for a connection or a lock, no attempt stays
  running, no callback keeps a secret, a package sent again arrives, the approval of a replaced plan
  ends, a missed registration is made up for), `AttemptsEngageOrSucceed`.

### Bounds

Two requests suffice for every race on a row, since a request only meets the row and one other
writer at a time; the retry and chain properties relate an attempt to the next one, and a third
attempt (in `Video`) shows that ids survive two retries. Two targets are all there are for
one campaign. The switch bounds limit only what operators do: the alarms of the executor are not
bounded. `MaxActivations` lets an object be found active, which is the interesting failure of a read.
Three operations allow a dependency that was created in an earlier attempt. In `authorization` two rows
are a manifest's old and new authorization, or those of two manifests; three ticks let an authorization
expire under a request that read it before, and a second one be read. `Tick` waits for requests that are
as old as the validity: a request is over long before fifteen minutes, and `RequestedIsUsable` depends
on it. Four builds are a generated plan, its creative, its target and one plan that replaces another
request's; five, with three creative versions, let a version be superseded while it is approved. Three
OAuth attempts are one in use, one replaced and one under way. Package lists of two and three items have
every way of sharing a name, a medium or a file; amounts in tenths lie on both sides of each half unit.
Where an operation needs many steps before anything interesting, the instance begins later (`Granted`
in `campaign`) or narrows `Operations`; the names of both are constants or conjuncts of the suite's initial
condition.

Deadlock is checked in every run. Where a machine may really stop (requests that are over their bound, a
list that was read, a job that ended), the suite has a stuttering `Rest` for that part and the others
must go on.

### Runs that show a disagreement

`unknown_outcome`, `switch_at_write`, `effect_per_plan`, `expired_admitted` and `handoff_lost_plan`
check one property each, which states what a document or test says and which TLC refutes (below).

## Fairness

Weak fairness of a request's steps: the Node process resumes a request whose await has been answered,
and every call to Meta or the database answers or times out. That is `FairSpec` of `MetaExecution`,
`MetaOAuth`, `CampaignPlans`, `CampaignHandoff` (whose sender also submits again what was not
accepted) and `AnalystTracking` (whose job asks again every six hours), and `Spec` of `GraphReading` and
`AnalystCollector`. Strong fairness where a step waits for what others take and give back: the pool of
node-postgres serves waiting requests in order and PostgreSQL queues the waiters of a lock, so a request
that can proceed again and again eventually does (`KillSwitch`, `MetaAssets`). Nothing is assumed of
operators, administrators, Meta's changes or faults. Crashes of an executor are excluded in `ends`
(`MaxCrashes = 0`): with one an attempt really stays `running`, and the code has no recovery for it.

`MCEnds` is one specification for all of them: `FirstGoesOn` and `SecondGoesOn` (weak) and the
`…IsServed` actions (strong) are unions over the machines, of which one alone moves in a behaviour, so
each is the condition of that machine's own module.

## Proofs

All theorems hold for any number of requests, operations, manifests, plans, attempts and connections,
under the named assumptions of the constants.

* `MetaExecutionProofs!TypeCorrect`: every state is well typed. One lemma per group of actions, over
  lemmas on rewriting one document in one row.
* `MetaExecutionProofs!SingleExecutor` and `AttemptChain` follow from `ProtocolsCorrect`, the inductive
  invariant `ProtocolInvariant`. Neither is inductive alone: that only one request executes needs the
  row of an executor to be running, which needs that nobody else writes that row; a reconciling
  request also writes rows, so the invariant says that it holds a copy of a row that is failed, and
  stays failed. The chain needs that a request about to insert derived its document from a row that is
  failed and fully reconciled, which no later step undoes, and that the protocol hash tells attempts
  apart.
* `MetaExecutionProofs!EffectsAccountedFor` follows from `EffectsCorrect`, the inductive invariant
  `EffectInvariant` (stated in `MetaExecution`). What matters is said of objects at Meta and of rows, but
  between a creation and the row there is only the copy a request holds. So the invariant
  says of every document, in a row or in a copy, that the ids in it are answered objects of its manifest
  for that operation, and that its operations were done in order (`DocumentInvariant`); of every
  executor, that its copy differs from its row at most in the first operation that is pending there
  (`EffectsKnown`); and of every answered object that the executor's copy holds it or, when nobody
  executes, the latest row, unless a request that died left this row running (`AnsweredAreHeld`). That a
  reconciliation or a retry keeps the last is where the chain of attempts is used.
* `MetaExecutionProofs` also classifies what a step does to the rows: a row is replaced by its reconciliation, its
  start or its executor, or one is added at the end (`RowStep`). `OnlyAdvance` reads
  `AttemptsOnlyAdvance` off the classes. `Refinement` is the refinement of `ControlledCreation`, step by
  step: a document gets at most one id more (`OneMore`), and the added id is new to the manifest, which
  needs `EffectInvariant`.
* `SwitchProofs`, the switches: `TransactionInvariant` says that the lock is exclusive and that what a
  transaction read under it is still so until it commits. From it follow `TypeCorrect`, `NoCollision`,
  `AuditComplete`, `ChangesInForce`, and `Refinement`: every step is a change of the ledger or none.
  `ReleasedWasReleased` adds what an evaluation between its two queries has seen of its targets.
* `AuthorizationProofs`, authorizations: `AuthorizationInvariant` joins the types, what a request knows of its
  row, and `OnlyNewestActive`; the last is inductive only because a row that is not active never
  becomes active. From the two ways in which the table changes (`RowAdded`, `RowMoved`) follow
  `NewestActive`, `Final` and `Refinement`, where one active row per manifest makes an approval a
  `Grant` and its end a `Withdraw`. `Usability` adds `TimelyInvariant`: after the row a request found
  over is expired, every row of the manifest that is still active was inserted since the request
  arrived.
* `CampaignPlansProofs`: `PlansInvariant` joins the types, what each request knows at its `pc` (the plan
  it built rests on rows that are there, the approval it refreshed was active), the unique keys, and that a
  stored plan with creatives carries a version that was approved. It gives `ReviewedPlansWereApproved`,
  `ReadyReportsWereDecided`, `PlansAreUnique`, `NewestApprovalOnly`, `ApprovedVersionUnique` and their
  conjunction `StoredRowsAreUnique`; `ApprovalDecisionsAreFinal` is read off the steps. The module also
  covers the orchestrator, which takes the same steps: `AdvancesInvariant` (`AdvancesCorrect`) says what
  an advance relies on between its readings, of rows that others write meanwhile. It stays so because
  plans and versions are only added, a plan keeps its target and an approved version never waits for
  review again (`Grows`, which the lemma of every step concludes). It gives `AdvanceTypeCorrect` and
  `WaitsForPeople`.
* `SwitchProofs`, the gates of an execution: `GatesInvariant` (`GatesCorrect`) says of each request and of the moments it has
  lived through, which alone `past` keeps: what it counts as open was open (`Seen`), an execution comes to
  a step only past the gates before it (`Passed`, by the table `Before`), and of what a preflight has
  looked at, whatever it does not count as open was closed (`Known`, by the table `Looked`). The last is
  what makes a blocker true, and it needs the two tables because a preflight stops asking Meta at
  different places. `FailureFirst` and `SavedIsExplained` relate this to the diagnostic, whose code is the
  first closed gate of its list. From it follow `GatesTypeCorrect`, `OpenGates`, `CreatedSucceeded` (only one
  request writes) and `PreflightsExplained`. `PreflightFirst` and `CreationGated` assume that nobody calls
  the endpoint of `executePaused` itself (`"execute" ∉ Operations`), which asks for no preflight.
* `CampaignProofs`, submissions: `HandoffInvariant` (`HandoffCorrect`) says that a submission past the first of
  its writes holds a version of the context that is its own package (`HasContext`), that what a request
  refers to is there, and what an answer names. Rows are only added (`Grown`), so an answer stays
  true whatever is interrupted, repeated or bound meanwhile; that a package is stored once needs the
  unique id, since two submissions may both have found nothing. From it follow `HandoffTypeCorrect`,
  `ContextKept`, `OneContent`, `StoredOnce`, `AcceptedBound` and their conjunction `HandoffKept`.
* `CampaignProofs`, evidence: `EvidenceInvariant` (`EvidenceIsInvariant`) says what a decision and a manifest
  rest on (`RowsAreGrounded`), that one is stored per hash (`RowsAreUnique`), what of it a request has
  already found (`HasRows`), and that what was lost before a request began stays lost until its checks have
  read it (`IsHopeless`). The approval that a request carries over is that of the latest report by
  `generated_at`, which is not the one stored last. So `ReportsAreInOrder` relates the stamps to the order
  of insertion as far as requests did not overlap, and `Forgets` follows a request that carried none:
  whatever was presented before it was forgotten beside an overlapping request. `EvidenceStaysShared`
  follows.
* `CampaignProofs`, the mapping of a package: `MappingInvariant` says that what is past the validation was found
  valid, and that what it is mapped to is of it. `PackagesAreKept` concludes, for any number of ads and
  media, that the text and the image at a place are those of the ad at that place, which needs that
  validation refuses an ad whose media is not there; that a budget (in tenths of a unit, where it
  may lie between two) is a closest amount, whichever way an exact half is rounded; and
  that a repeated identifier is told only of a package
  that has it: names that repeat are fewer than the ads.
* `CampaignProofs`, the objects of a plan: `ObjectsInvariant` says what every plan looks like, however it came
  about: a campaign, an ad set, and pairs of a creative and the ad that depends on it, as many as
  the approved package has texts, with the pair of text and media at each place (`IsPlanOf`,
  `IsApprovedPlan`). Binding keeps this shape because it selects what is neither creative nor ad, which are
  always the first two. Of this shape the order of the dry run takes three levels: the campaign
  and the creatives; the ad set; the ads. A selection is described by its places, which increase and meet
  each selected item once, so that nothing depends on how it is computed.
  It gives `PlansAreExecutable`: `CanBeOrdered`, `AdsAndCreativesPair` and
  `ManifestCreatesApprovedPairs` for lists of any length.
* `MetaOAuthProofs`: `OAuthInvariant` (an attempt is consumed by one callback, which alone can have
  stored its secret) gives `OneCredential` and `NeverNarrower` whatever faults happen. When no answer is
  lost (`"lost" ∉ Faults`), `CustodyInvariant` adds that a callback knows what became of its
  secret, and gives `InUseIsLive` and `CustodyIsKept`, the refinement of `CredentialCustody`. The
  assumption is needed: the connection's update may commit and its answer be lost, and then the
  callback revokes the credential in use. `LeftIsExplained` assumes nothing of the faults:
  `LeftInvariant` says of every secret that its callback still holds it or has let it go where a fault is recorded (`HolderEnds`,
  `HolderLetsGo`), and that only an authorization for execution takes the place of a credential
  in use (`NextReplaced`).
* `AuthorizationProofs`, access: `AccessInvariant` (`AccessIsInvariant`) says of a request at each of its awaits
  what `past`, the memberships it has met, still backs: the tenant it acts in was listed to it and
  permitted the operation at some moment of the request (`IsPermitted`), a tenant that it chose by the
  business of a package could be meant then (`IsMeant`), the tenant of a status had the package
  and its plan (`IsFound`), and what it answers was audited (`IsAudited`). None of it says that the membership is
  still there: it is checked once, before the change. From it and from the steps (a package never moves, a plan
  is never taken away) follows `AccessStaysSound`.
* `AuthorizationProofs`, views: `ViewsInvariant` (`ViewsAreInvariant`) says of a view between its queries that what it
  listed was the latest at some moment (`HasSeen`), what it audits later is what it shows (`IsViewed`), and
  the events it found on its arrival are still there (`HasEvents`); rows of the work queue are written by
  several requests of a day, so what a snapshot holds is said of the rows. Of a timeline the invariant
  needs that an event is hidden by `Limit` newer ones for good: newer events only get more, which is a
  fact about the cardinality of a growing set. `ViewsStaySound` follows.
* `MetaAssetsProofs`, assets: `AssetsInvariant` says that whoever holds the row lock of the connection
  knows the selection, or the registry, as it is at that moment (`Knows`, `LockIsHeld`), because no one
  else writes these rows meanwhile; what a request read or asked before it took the lock is only known to be
  of its kind. It gives `AssetsStaySound` (`RegistryIsOneValidation`, `OneSelectedPerKind`,
  `ListedIsNotDropped`) and, read off the steps, `ChoicesAreKept` and `EvidenceIsNotErased`.
* `MetaAssetsProofs`, lists: `GraphInvariant` says that the reader has as many pages as it has seen
  cursors, that they are those which `Follow` has after so many steps from the first one, and that none of
  them leads to a page it does not know. A last page therefore closes the set, and `Follow` has nothing more
  to add however far it goes (`FollowEnds`): `ListsAreComplete`. It holds for any table of cursors,
  because a repeated cursor and a page too many are errors.
* `AnalystProofs`, tracking: `TrackingInvariant` says that the registration, and every row a resolution
  holds, is what the protocol of its manifest confirmed; a confirmed protocol is never changed, so
  what was read stays true until it is written. It gives `RegistrationsStayConfirmed` and
  `ChangesAreAudited`.
* `AnalystProofs`, rows: `AnalystInvariant` says that every row refers to rows that are there and older
  (`RowsAreGrounded`), what of them a request has met at each of its awaits (`HasMet`), and that what it
  remembers of a row is what the row still says (`Recalls`): snapshots, analyses and
  decisions are only added. From it follow `AnswersStayKept`, `ComparisonsStayBackwards`, `RowsAreKept` and
  `DecisionsAreGrounded`.
* `AnalystProofs`, rules: `RulesAgree` for every pair of readings without negative numbers
  (`ReadingsAssumption`). The severity of a snapshot is monotone in what was spent because each of the
  comparisons it is made of is, whichever of them the campaign's goal selects.
* `AnalystProofs`, the job: `JobInvariant` says that each result is of the target at its place, that
  targets are distinct (`TargetsAreUnique`), and that the counters add up to the results, with one more while
  a refresh is pending. It gives `SummariesAddUp`.

Three of these need induction over data, which the library's theorems offer only with a predicate as
parameter. `LeastNatural` takes the least element of a set of naturals from the well-foundedness of `<`;
`Induction` and `RecursionIsDefined` follow from it with a set in the place of the predicate, and so does that a
recursively defined function exists (`Follow`, `kept` of `UniqueTargets` and of `Only`, `emitted` of `Levels`).

Only model-checked. Liveness (`PromisesAreKept`, `AttemptsEngageOrSucceed`), since the prover has no
reasoning about fairness and ENABLED. Of `ObjectsCanBeCreated`, the part `CeilingIsExact`: it rounds with
powers of two, and the prover does not expand `^`; the other parts are what `PackagesAreKept` and
`PlansAreExecutable` state. `EffectsAreTracked`, and the wide instances of the authorization attempts, are further instances of modules whose theorems hold for every
value of the constants. The other suite properties without a theorem of their own name,
`ConnectionIsWhole` and `AnalystAgrees`, are conjunctions over the parts of a suite: the parts are what the
theorems of `MetaAssetsProofs` and `AnalystProofs` state of the modules. The types of an advance
(`ETypeOK`) are only proved.

## Where code and documents disagree

Shown by a run:

* `unknown_outcome`: the documents say that an uncertain result blocks retries until it is
  reconciled. `prepare` only blocks on operations with a recorded external id; a create whose answer
  was lost has none, and the next attempt sends it again.
* `switch_at_write`: the manifest says `kill_switch_open` is revalidated immediately before a write.
  The switches are read once, before the attempt.
* `effect_per_plan`: idempotency keys are derived from the plan, but attempts are looked up by
  manifest: another manifest of the same plan creates everything again.
* `expired_admitted`: the refresh is documented as fail-closed. When its update matches no row it
  answers with the copy it read before, and it matches none also when a concurrent request has just
  expired the row: of two executions after the deadline, one is refused and the other goes on.
* `handoff_lost_plan`: a submission that stops between the creative package and the plan derived from it
  is answered, when repeated, with the plan without the creative package, and nothing derives the other.

Met while modelling and visible in the modules, without a run of their own:

* Execution. `executePaused` asks for no preflight, so its own endpoint goes past what only the
  preflight asks Meta; a confirmation that waits can execute the attempt prepared after the one its
  preflight was about; a confirmation whose answer was lost is answered `BLOCKED_BEFORE_META_WRITE` when
  repeated, although the objects exist; and an approval revoked after the manifest was authorized
  stops nothing within the fifteen minutes (`ExecutionGates`).
* Plans. The invalidation that follows a bind is a transaction of its own and can hit the approval of a
  newer plan; a creative version approved between the two statements of `appendNext` stays approved under the
  new one (`CampaignPlans`). Evidence that returns to an earlier value is answered with the earlier row,
  and the latest row remains the one in between: for decisions (`ReadinessEvidence`), and for the
  Analyst's summaries (`Analyst`).
* Submission. Two submissions at once can store two creative versions; a lifetime budget
  without duration is stored `ready_for_generation`; two ads with one image are valid and can never be
  approved (`CampaignHandoff`, `PackageMapping`).
* Connection. An authorization for execution replaces the credential of the connection and nothing revokes
  the one it replaces; a secret whose `putSecret` lost its answer, or whose process stopped, is not recorded
  anywhere (`MetaOAuth`). A validation can store a capability for an account another discovery has just removed, and a
  smoke test that meets such a removal ends without a report (`MetaAssets`).
* Access. A package whose submission stopped before its plan is reported as not found. The start script
  makes the seeded membership an active owner again on every start
  (`OperatorAccess`); the unchanged work queue of a day is answered by a second query, which can find
  another request's row (`OperatorViews`).
* Analyst. A learning can compare two snapshots of one period; an adjustment of a paused campaign asks
  for an approval, and the campaign's description asks for the decision; the resolver looks at the
  latest plan alone, so a missed registration of an earlier one stays missed (`Analyst`, `Ecosystem`,
  `AnalystTracking`).
* Orchestrator. An advance that finds a new plan without target on its second reading answers that the
  limit of automation is reached, although it could bind it (`Ecosystem`).

## Not modelled

Rendering, HTTP parsing and schema validation, encryption, logging, CI workflows, the panel, the health
endpoint and the insights adapter: they keep no state that the properties tell apart. Clocks: rows are
ordered by insertion, or by a stamp where the code orders by one; two clocks that disagree are not
modelled. Text: names, messages and hashes are values that are equal or not.

What would come next: the exactness of a ceiling for every precision, which asks for a definition of powers of two
that the prover can expand; and the insights adapter, whose windows of time decide which snapshots the
Analyst compares.
