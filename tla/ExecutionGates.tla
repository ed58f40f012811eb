-------------------------- MODULE ExecutionGates ---------------------------
(***************************************************************************)
(* From an approved package to its objects at Meta: the three actions of   *)
(* the operator (prepare, confirm, execute) and the preflight between them *)
(* for one manifest.  Each gate is a fact that somebody else may change    *)
(* while a request reads one gate after another; an action is what a       *)
(* request does between two awaits.  The rows of ExecutionAuthorization,   *)
(* the attempts of MetaExecution and the switches of KillSwitch appear     *)
(* here only by their status.                                              *)
(***************************************************************************)
EXTENDS ExecutionPreflight, Sequences, FiniteSets

CONSTANTS
  Requests,           \* concurrent requests
  Operations,         \* subset of {"prepare", "confirm", "execute", "preflight"}
  MaxAuthorizations,  \* bound: authorizations of the manifest
  MaxAttempts,        \* bound: protocols prepared for the manifest
  MaxChanges,         \* bound: changes of a gate from outside
  Changing            \* bound: the gates that may be closed at first or change

OperationsAssumption ==
  Operations \subseteq {"prepare", "confirm", "execute", "preflight"}
GatesBoundAssumption ==
  {MaxAuthorizations, MaxAttempts, MaxChanges} \subseteq Nat

VARIABLES
  open,            \* the gates that are open now
  authorizations,  \* status of the authorizations of the manifest, as they were inserted
  attempt,         \* protocols prepared so far: the last is the current one
  protocol,        \* its status
  preflights,      \* the stored preflights, by their content
  request,         \* [Requests -> the local state of the request]
  past,            \* [Requests -> the facts open and closed at some moment since the
                   \* request arrived, or since it began to execute]
  changes

gateVars == <<open, authorizations, attempt, protocol, preflights, request, past, changes>>

RowStatus == {"pending", "approved", "ended"}
Protocol == {"none", "prepared", "running", "succeeded", "failed"}

-----------------------------------------------------------------------------
(* The stored preflights.                                                  *)

\* A preflight is of an authorization: the facts it saw open, the attempt its protocol is.
Preflight == [id : 0..MaxAuthorizations,
              seen : SUBSET (Gates \cup {"authorization", "protocol"}),
              attempt : 0..MaxAttempts]

\* Mutant: two preflights with the same blockers are the same preflight.
HashOfBlockers(p) == <<p.id, Blockers(p.seen)>>

\* What stablePreflightHash covers: everything but the time of observation.
StableHash(p) == p

-----------------------------------------------------------------------------
(* The requests.                                                           *)

Idle == [pc |-> "idle", op |-> "preflight", phase |-> "confirm", id |-> 0,
         copy |-> "ended", attempt |-> 0, seen |-> {}, toRead |-> {},
         answer |-> "none", told |-> [id |-> 0, seen |-> {}, attempt |-> 0]]

\* phase: the part of a confirmation.  copy: the authorization as it was found.
\* attempt: the protocol read.  told: the preflight the request was given.
Request ==
  [pc : {"idle", "resolving", "manifesting", "authorizing", "finding", "refreshing",
         "approving", "preparing", "manifest", "tenant", "campaign", "protocol",
         "connection", "bindings", "identity", "reading", "geography", "saving",
         "beginning", "writing", "answered"},
   op : {"prepare", "confirm", "execute", "preflight"},
   phase : {"confirm", "preflight", "execute"},
   id : 0..MaxAuthorizations,
   copy : RowStatus,
   attempt : 0..MaxAttempts,
   seen : SUBSET (Gates \cup {"authorization", "protocol"}),
   toRead : SUBSET {"assets", "account", "permissions"},
   answer : {"none", "awaiting", "refused", "blocked", "passed", "created", "failed"},
   told : Preflight]

GInit ==
  /\ open \in {Gates} \cup {Gates \ {g} : g \in Gates \cap Changing}
  /\ authorizations = <<>>
  /\ attempt = 0
  /\ protocol = "none"
  /\ preflights = {}
  /\ request = [r \in Requests |-> Idle]
  /\ past = [r \in Requests |-> [opened |-> {}, closed |-> {}]]
  /\ changes = 0

Go(r, pc) == request' = [request EXCEPT ![r].pc = pc]

\* The request ends; what it read is forgotten.
Answered(r, answer, told) ==
  [Idle EXCEPT !.pc = "answered", !.op = request[r].op, !.id = request[r].id,
     !.answer = answer, !.told = told]

Answer(r, answer) ==
  request' = [request EXCEPT ![r] = Answered(r, answer, request[r].told)]

Refuse(r) == Answer(r, "refused")

\* One gate after another: what is read next in a preflight and in an execution.
After == [manifest |-> "tenant", tenant |-> "campaign", campaign |-> "protocol",
          protocol |-> "connection", connection |-> "bindings"]

ReadsAt == [manifest |-> {"manifest"}, tenant |-> {"tenant"}, campaign |-> {"campaign"},
            connection |-> {"connection"}, bindings |-> {"page", "whatsapp"},
            identity |-> {"identity"}, assets |-> {"pageSeen", "whatsappSeen"},
            account |-> {"account"}, permissions |-> {"permissions"},
            geography |-> {"geography"}]

SeenAt(r, step) == request[r].seen \cup (ReadsAt[step] \cap open)

-----------------------------------------------------------------------------
(* preparePaused: the manifest and a pending authorization of it.          *)

Start(r, op, id) ==
  /\ request[r].pc = "idle" /\ op \in Operations
  /\ id \in (IF op = "prepare" THEN {0} ELSE DOMAIN authorizations)
  /\ request' = [request EXCEPT ![r] =
       [Idle EXCEPT !.op = op, !.id = id,
          !.phase = IF op \in {"execute", "preflight"} THEN op ELSE "confirm",
          !.pc = IF op \in {"prepare", "confirm"} THEN "resolving" ELSE "finding"]]
  /\ UNCHANGED <<open, authorizations, attempt, protocol, preflights>>

\* resolvePackage reads the status of the package.  Preparing asks for its approved
\* plan; a confirmation asks only that the plan is the one authorized.
Resolve(r) ==
  /\ request[r].pc = "resolving"
  /\ \/ "plan" \notin open /\ Refuse(r)
     \/ /\ "plan" \in open /\ request[r].op = "prepare"
        /\ IF "approval" \in open THEN Go(r, "manifesting") ELSE Refuse(r)
     \/ /\ "plan" \in open /\ request[r].op = "confirm"
        /\ Go(r, "finding")
  /\ UNCHANGED <<open, authorizations, attempt, protocol, preflights>>

\* prepareExecutionManifest answers the manifest again, from an approval that stands.
Manifest(r) ==
  /\ request[r].pc = "manifesting"
  /\ IF {"approval", "manifest"} \subseteq open THEN Go(r, "authorizing") ELSE Refuse(r)
  /\ UNCHANGED <<open, authorizations, attempt, protocol, preflights>>

\* requestExecutionAuthorization answers the active authorization or inserts one; the
\* answer then names the selected ad account and fails when there is none.
RequestAuthorization(r) ==
  LET active == {i \in DOMAIN authorizations : authorizations[i] # "ended"}
  IN  /\ request[r].pc = "authorizing"
      /\ \/ "manifest" \notin open /\ Refuse(r) /\ UNCHANGED authorizations
         \/ /\ "manifest" \in open /\ active = {}
            /\ Len(authorizations) < MaxAuthorizations
            /\ authorizations' = Append(authorizations, "pending")
            /\ Answer(r, IF "connection" \in open THEN "awaiting" ELSE "refused")
         \/ /\ "manifest" \in open
            /\ active # {} \/ Len(authorizations) = MaxAuthorizations
            /\ UNCHANGED authorizations
            /\ Answer(r, IF active # {} /\ "connection" \in open
                         THEN "awaiting" ELSE "refused")
      /\ UNCHANGED <<open, attempt, protocol, preflights>>

-----------------------------------------------------------------------------
(* The authorization, as every later request reads it.                     *)

\* Where a request goes when it knows the status of its authorization.
Knowing(r, status) ==
  LET next == IF request[r].phase # "confirm" THEN "manifest"
              ELSE IF status = "approved" THEN "preparing" ELSE "approving"
      seen == request[r].seen \cup (IF status = "approved" THEN {"authorization"} ELSE {})
  IN  IF request[r].phase = "execute" /\ status # "approved"
      THEN Answered(r, "refused", request[r].told)
      ELSE [request[r] EXCEPT !.pc = next, !.seen = seen]

\* findById; an execution first looks whether the adapter is enabled.
Find(r) ==
  LET status == authorizations[request[r].id]
  IN  /\ request[r].pc = "finding"
      /\ \/ request[r].phase = "execute" /\ "adapter" \notin open /\ Refuse(r)
         \/ /\ request[r].phase # "execute" \/ "adapter" \in open
            /\ request' = [request EXCEPT ![r] =
                 IF status = "ended" THEN Knowing(r, status)
                 ELSE [request[r] EXCEPT !.pc = "refreshing", !.copy = status]]
      /\ UNCHANGED <<open, authorizations, attempt, protocol, preflights>>

\* expireOrInvalidate: the authorization of a replaced manifest ends; otherwise the
\* copy found before is the answer, also when the row ended in between.
Refresh(r) ==
  LET i == request[r].id
      ends == authorizations[i] # "ended" /\ "manifest" \notin open
  IN  /\ request[r].pc = "refreshing"
      /\ authorizations' = IF ends THEN [authorizations EXCEPT ![i] = "ended"]
                           ELSE authorizations
      /\ request' = [request EXCEPT ![r] =
           Knowing(r, IF ends THEN "ended" ELSE request[r].copy)]
      /\ UNCHANGED <<open, attempt, protocol, preflights>>

\* CREATE_PAUSED approves an authorization that is still pending and current.
Approve(r) ==
  LET i == request[r].id
      can == authorizations[i] = "pending" /\ "manifest" \in open
  IN  /\ request[r].pc = "approving"
      /\ authorizations' = IF can THEN [authorizations EXCEPT ![i] = "approved"]
                           ELSE authorizations
      /\ IF can THEN Go(r, "preparing") ELSE Refuse(r)
      /\ UNCHANGED <<open, attempt, protocol, preflights>>

\* prepareMetaWriteValidation: the first protocol, or after a failure the next one,
\* unless an object cannot be reconciled; any other protocol stays.
Prepare(r) ==
  LET new == protocol \in {"none", "failed"}
      next == [request[r] EXCEPT !.pc = "finding", !.phase = "preflight", !.seen = {}]
  IN  /\ request[r].pc = "preparing"
      /\ \/ /\ "manifest" \notin open \/ protocol = "failed"
            /\ Refuse(r) /\ UNCHANGED <<attempt, protocol>>
         \/ /\ "manifest" \in open /\ new /\ attempt < MaxAttempts
            /\ attempt' = attempt + 1 /\ protocol' = "prepared"
            /\ request' = [request EXCEPT ![r] = next]
         \/ /\ "manifest" \in open /\ ~new
            /\ request' = [request EXCEPT ![r] = next]
            /\ UNCHANGED <<attempt, protocol>>
      /\ UNCHANGED <<open, authorizations, preflights>>

-----------------------------------------------------------------------------
(* preflight: every gate is read, none stops it.                           *)

\* The manifest, the switches, the connection and the bindings.
PreflightRead(r) ==
  LET step == request[r].pc
  IN  /\ request[r].phase = "preflight"
      /\ step \in {"manifest", "tenant", "campaign", "connection"}
      /\ request' = [request EXCEPT ![r].pc = After[step], ![r].seen = SeenAt(r, step)]
      /\ UNCHANGED <<open, authorizations, attempt, protocol, preflights>>

\* The latest protocol is read, then the plan and, with no await, the adapter.
ProtocolSeen(r) ==
  request[r].seen \cup (Fixed \cap open)
    \cup (IF protocol = "prepared" THEN {"protocol"} ELSE {})

PreflightProtocol(r) ==
  /\ request[r].phase = "preflight" /\ request[r].pc = "protocol"
  /\ request' = [request EXCEPT ![r].pc = "connection", ![r].attempt = attempt,
                                ![r].seen = ProtocolSeen(r)]
  /\ UNCHANGED <<open, authorizations, attempt, protocol, preflights>>

\* Meta is asked only with a usable connection.
PreflightBindings(r) ==
  LET seen == SeenAt(r, "bindings")
  IN  /\ request[r].phase = "preflight" /\ request[r].pc = "bindings"
      /\ request' = [request EXCEPT ![r].seen = seen,
           ![r].pc = IF "connection" \in seen THEN "identity" ELSE "saving"]
      /\ UNCHANGED <<open, authorizations, attempt, protocol, preflights>>

\* The cities are looked up when the target is ready.
AfterMeta(seen) == IF TargetReady(seen) THEN "geography" ELSE "saving"

\* validateConnection; without it, or without an ad account, nothing else is read.
PreflightIdentity(r) ==
  LET seen == SeenAt(r, "identity")
  IN  /\ request[r].pc = "identity"
      /\ request' = [request EXCEPT ![r].seen = seen,
           ![r].toRead = {"assets", "account", "permissions"},
           ![r].pc = IF {"identity", "target"} \subseteq seen THEN "reading"
                     ELSE AfterMeta(seen)]
      /\ UNCHANGED <<open, authorizations, attempt, protocol, preflights>>

\* Three reads in parallel.
PreflightMeta(r, what) ==
  LET seen == SeenAt(r, what)
      left == request[r].toRead \ {what}
  IN  /\ request[r].pc = "reading" /\ what \in request[r].toRead
      /\ request' = [request EXCEPT ![r].seen = seen, ![r].toRead = left,
           ![r].pc = IF left = {} THEN AfterMeta(seen) ELSE "reading"]
      /\ UNCHANGED <<open, authorizations, attempt, protocol, preflights>>

PreflightGeography(r) ==
  /\ request[r].phase = "preflight" /\ request[r].pc = "geography"
  /\ request' = [request EXCEPT ![r].pc = "saving", ![r].seen = SeenAt(r, "geography")]
  /\ UNCHANGED <<open, authorizations, attempt, protocol, preflights>>

\* What the diagnostic did not reach is not part of the preflight.
Reported(seen) ==
  LET code == FailureCode(seen)
      later == {Diagnosed[j] : j \in {i \in DOMAIN Diagnosed :
                  \E k \in 1..i : Diagnosed[k] = code}}
  IN  seen \ (later \ {"page", "whatsapp", "target"})

\* Mutant: whatever the blockers, the confirmation goes on to execute.
GoesOnBlocked(r, told) == request[r].op = "confirm"

GoesOn(r, told) == request[r].op = "confirm" /\ Blockers(told.seen) = {}

\* savePreflightIdempotent answers the preflight already stored under the hash, if any.
\* A confirmation goes on to execute when it has no blockers.
Save(r) ==
  LET mine == [id |-> request[r].id, seen |-> Reported(request[r].seen),
               attempt |-> request[r].attempt]
      same == {p \in preflights : StableHash(p) = StableHash(mine)}
      told == IF same = {} THEN mine ELSE CHOOSE p \in same : TRUE
  IN  /\ request[r].pc = "saving"
      /\ preflights' = preflights \cup {told}
      /\ request' = [request EXCEPT ![r] =
           IF GoesOn(r, told)
           THEN [@ EXCEPT !.pc = "finding", !.phase = "execute", !.seen = {}]
           ELSE Answered(r, IF Blockers(told.seen) = {} THEN "passed" ELSE "blocked", told)]
      /\ UNCHANGED <<open, authorizations, attempt, protocol>>

-----------------------------------------------------------------------------
(* executePaused: a closed gate stops it.                                  *)

MustBeOpen(step) == ReadsAt[step]

ExecuteRead(r) ==
  LET step == request[r].pc
  IN  /\ request[r].phase = "execute"
      /\ step \in {"manifest", "tenant", "campaign", "connection", "bindings", "geography"}
      /\ \/ ~(MustBeOpen(step) \subseteq open) /\ Refuse(r)
         \/ /\ MustBeOpen(step) \subseteq open
            /\ request' = [request EXCEPT ![r].seen = SeenAt(r, step),
                 ![r].pc = CASE step = "bindings" -> "geography"
                             [] step = "geography" -> "beginning"
                             [] OTHER -> After[step]]
      /\ UNCHANGED <<open, authorizations, attempt, protocol, preflights>>

\* A protocol that succeeded is the answer.
ExecuteProtocol(r) ==
  /\ request[r].phase = "execute" /\ request[r].pc = "protocol"
  /\ \/ protocol = "succeeded" /\ Answer(r, "created")
     \/ /\ protocol # "succeeded"
        /\ IF protocol = "prepared" /\ "target" \in open
           THEN request' = [request EXCEPT ![r].pc = "connection", ![r].attempt = attempt]
           ELSE Refuse(r)
  /\ UNCHANGED <<open, authorizations, attempt, protocol, preflights>>

\* beginExecution: only one request finds the protocol it read still prepared.
Begin(r) ==
  /\ request[r].pc = "beginning"
  /\ \/ /\ protocol = "prepared" /\ attempt = request[r].attempt
        /\ protocol' = "running" /\ Go(r, "writing")
     \/ /\ ~(protocol = "prepared" /\ attempt = request[r].attempt)
        /\ Refuse(r) /\ UNCHANGED protocol
  /\ UNCHANGED <<open, authorizations, attempt, preflights>>

\* The writes of MetaExecution, and how they end: the objects are there, or the
\* attempt failed and the campaign's switch is engaged.
Write(r) ==
  /\ request[r].pc = "writing"
  /\ \/ protocol' = "succeeded" /\ Answer(r, "created") /\ UNCHANGED open
     \/ protocol' = "failed" /\ Answer(r, "failed") /\ open' = open \ {"campaign"}
  /\ UNCHANGED <<authorizations, attempt, preflights>>

\* The answer arrives, or its connection is lost: the operator may ask again.
Leave(r) ==
  /\ request[r].pc = "answered"
  /\ request' = [request EXCEPT ![r] = Idle]
  /\ UNCHANGED <<open, authorizations, attempt, protocol, preflights>>

-----------------------------------------------------------------------------
(* Around the requests.                                                    *)

\* Somebody closes a gate, or opens one again: a manifest or a plan that was replaced
\* stays so.
Change(g) ==
  /\ changes < MaxChanges /\ g \in (Stored \cup AtMeta) \cap Changing
  /\ g \in open \/ g \notin {"manifest", "plan"}
  /\ open' = IF g \in open THEN open \ {g} ELSE open \cup {g}
  /\ changes' = changes + 1
  /\ UNCHANGED <<authorizations, attempt, protocol, preflights, request>>

\* An authorization is rejected, revoked, or expires.
EndAuthorization(i) ==
  /\ changes < MaxChanges /\ authorizations[i] # "ended"
  /\ authorizations' = [authorizations EXCEPT ![i] = "ended"]
  /\ changes' = changes + 1
  /\ UNCHANGED <<open, attempt, protocol, preflights, request>>

\* The facts that hold for a request.
Holding(r) ==
  open \cup (IF protocol = "prepared" THEN {"protocol"} ELSE {})
    \cup (IF request[r].id # 0 /\ authorizations[request[r].id] = "approved"
          THEN {"authorization"} ELSE {})

Remember ==
  past' = [r \in Requests |->
    LET arrives == request[r].phase # "execute" /\ request'[r].phase = "execute"
        before == IF arrives THEN [opened |-> {}, closed |-> {}] ELSE past[r]
    IN  IF request'[r].pc = "idle" THEN [opened |-> {}, closed |-> {}]
        ELSE IF request[r].pc = "answered" THEN before
        ELSE [opened |-> before.opened \cup Holding(r)',
              closed |-> before.closed
                \cup ((Gates \cup {"authorization", "protocol"}) \ Holding(r)')]]

Preparing(r) ==
  \/ Resolve(r) \/ Manifest(r) \/ RequestAuthorization(r)
  \/ Find(r) \/ Refresh(r) \/ Approve(r) \/ Prepare(r)

Checking(r) ==
  \/ PreflightRead(r) \/ PreflightProtocol(r) \/ PreflightBindings(r)
  \/ PreflightIdentity(r) \/ PreflightGeography(r) \/ Save(r)
  \/ \E what \in request[r].toRead : PreflightMeta(r, what)

Executing(r) == ExecuteRead(r) \/ ExecuteProtocol(r) \/ Begin(r) \/ Write(r)

Step(r) ==
  \/ \E op \in Operations, id \in 0..Len(authorizations) : Start(r, op, id)
  \/ Preparing(r) \/ Checking(r) \/ Executing(r) \/ Leave(r)

GNext ==
  \/ /\ \E r \in Requests : Step(r)
     /\ UNCHANGED changes /\ Remember
  \/ /\ \/ \E g \in Gates : Change(g)
        \/ \E i \in DOMAIN authorizations : EndAuthorization(i)
     /\ Remember

GSpec == GInit /\ [][GNext]_gateVars

-----------------------------------------------------------------------------
(* What the gates ensure.                                                  *)

\* The stored state and the requests have the shape the code gives them.
GTypeOK ==
  /\ open \subseteq Gates
  /\ authorizations \in Seq(RowStatus) /\ Len(authorizations) <= MaxAuthorizations
  /\ attempt \in 0..MaxAttempts /\ protocol \in Protocol
  /\ (attempt = 0) <=> (protocol = "none")
  /\ preflights \subseteq Preflight
  /\ request \in [Requests -> Request]
  /\ changes \in 0..MaxChanges

\* A preflight that was answered, found or stored by another request, tells the caller
\* nothing but what was so at some moment of his own request: each passed check had
\* every fact it rests on, each blocker lacked one, and the diagnostic's code is one
\* that was closed.
PreflightsAreExplained ==
  \A r \in Requests : request[r].answer \in {"blocked", "passed"} =>
    LET seen == request[r].told.seen
        code == FailureCode(seen)
    IN  /\ \A c \in Checks \ Blockers(seen) : Needs[c] \subseteq past[r].opened
        /\ \A c \in Blockers(seen) : Needs[c] \cap past[r].closed # {}
        /\ code # "none" => code \in past[r].closed

\* While objects are being created at Meta, each gate that executePaused asks for was
\* open at some moment since the request began to execute, whatever the preflight of its
\* confirmation had seen, and whatever was closed and opened around it.
CreationWentThroughOpenGates ==
  \A r \in Requests : request[r].pc = "writing" =>
    {"adapter", "authorization", "manifest", "tenant", "campaign", "protocol", "target",
     "connection", "page", "whatsapp", "geography"} \subseteq past[r].opened

\* Objects are created only when a stored preflight found no blockers.
CreationFollowsAPreflight ==
  \A r \in Requests : request[r].pc = "writing" =>
    \E p \in preflights : Blockers(p.seen) = {}

\* Whoever is told that the objects are created is told so of an execution that ended
\* well, his own or another's.
CreatedIsSucceeded ==
  \A r \in Requests : request[r].answer = "created" => protocol = "succeeded"

\* Objects are created only after a preflight without blockers, through every gate that
\* executePaused asks for, each open at some moment of the execution; and whoever is told
\* that they are created is told so of an execution that succeeded.
CreationIsGated ==
  /\ GTypeOK /\ CreationWentThroughOpenGates
  /\ CreationFollowsAPreflight /\ CreatedIsSucceeded
=============================================================================
