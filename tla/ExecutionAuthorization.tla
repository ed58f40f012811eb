----------------------- MODULE ExecutionAuthorization -----------------------
(***************************************************************************)
(* Authorizations of the manifests of one plan: rows with a validity, and  *)
(* the concurrent requests that create, refresh, approve, reject, revoke   *)
(* and rely on them.  An action is what a request does between two awaits; *)
(* it compares expiry times with the clock it captured itself, earlier.    *)
(***************************************************************************)
EXTENDS Naturals, Sequences, FiniteSets

CONSTANTS
  Requests,          \* concurrent requests
  Validity,          \* ticks an authorization is valid
  MaxManifests,      \* bound: manifests generated for the plan
  MaxAuthorizations, \* bound: rows
  MaxTime            \* bound: ticks of the clock

ASSUME ValidityAssumption == Validity \in Nat \ {0}
ASSUME BoundAssumption == {MaxManifests, MaxAuthorizations, MaxTime} \subseteq Nat

Manifests == 1..MaxManifests

VARIABLES
  manifests,   \* number of manifests generated so far: the last is the latest
  rows,        \* execution_authorizations, in the order of insertion
  request,     \* [Requests -> the local state of the request]
  clock

vars == <<manifests, rows, request, clock>>

Status == {"pending", "approved", "rejected", "revoked", "expired", "invalidated"}
Active == {"pending", "approved"}

Authorization == [manifest : Manifests, status : Status, expires : Nat]

Operation == {"request", "get", "approve", "reject", "revoke", "execute"}

\* id: the row, 0 when unknown yet.  copy: the row as it was read.  now: the
\* time captured last.  since: when the request arrived.
Idle == [pc |-> "idle", op |-> "get", manifest |-> 0, id |-> 0,
         copy |-> "pending", now |-> 0, since |-> 0, again |-> FALSE]

Request == [pc : {"idle", "inserting", "selecting", "refreshing", "deciding",
                  "checking", "answered"},
            op : Operation,
            manifest : Manifests \cup {0},
            id : Nat,
            copy : Status,
            now : Nat,
            since : Nat,
            again : BOOLEAN]

Init ==
  /\ manifests = 0
  /\ rows = <<>>
  /\ request = [r \in Requests |-> Idle]
  /\ clock = 0

\* The index uq_execution_authorization_active.
ActiveRows(m) == {i \in DOMAIN rows : rows[i].manifest = m /\ rows[i].status \in Active}

-----------------------------------------------------------------------------
(* Around the requests.                                                    *)

NewManifest ==
  /\ manifests < MaxManifests
  /\ manifests' = manifests + 1
  /\ UNCHANGED <<rows, request, clock>>

\* Time passes.  No request lasts as long as an authorization is valid: it is
\* answered or its connection times out long before fifteen minutes.
Tick ==
  /\ clock < MaxTime
  /\ \A r \in Requests : request[r].pc # "idle" => clock + 1 - request[r].since < Validity
  /\ clock' = clock + 1
  /\ UNCHANGED <<manifests, rows, request>>

Return(r) == request' = [request EXCEPT ![r] = Idle]

-----------------------------------------------------------------------------
(* request: a new authorization, or the active one.                        *)

\* currentManifest: only the latest manifest can be authorized.
StartRequest(r, m) ==
  /\ request[r].pc = "idle" /\ m = manifests
  /\ request' = [request EXCEPT ![r] =
       [Idle EXCEPT !.pc = "inserting", !.op = "request", !.manifest = m,
                    !.now = clock, !.since = clock]]
  /\ UNCHANGED <<manifests, rows, clock>>

\* Mutant: the index only knows pending rows.
NoRowPending(m) == \A i \in ActiveRows(m) : rows[i].status # "pending"

\* The index lets one more active row of the manifest in.
NoRowActive(m) == ActiveRows(m) = {}

\* The insert does nothing when the manifest has an active row.
Insert(r) ==
  LET m == request[r].manifest
  IN  /\ request[r].pc = "inserting"
      /\ \/ /\ NoRowActive(m) /\ Len(rows) < MaxAuthorizations
            /\ rows' = Append(rows, [manifest |-> m, status |-> "pending",
                                     expires |-> request[r].now + Validity])
            /\ request' = [request EXCEPT ![r].pc = "answered", ![r].id = Len(rows) + 1]
         \/ /\ ~NoRowActive(m)
            /\ request' = [request EXCEPT ![r].pc = "selecting"]
            /\ UNCHANGED rows
      /\ UNCHANGED <<manifests, clock>>

\* Mutant: the active row is the answer, whatever its age.
AnswerAnyAge(r, i) ==
  [request[r] EXCEPT !.id = i, !.copy = rows[i].status, !.pc = "answered"]

\* The active row is the answer, unless it is past its validity: then it is
\* expired first and the insert tried once more.
Answer(r, i) ==
  [request[r] EXCEPT
     !.id = i, !.copy = rows[i].status,
     !.pc = IF rows[i].expires <= request[r].now /\ ~request[r].again
            THEN "refreshing" ELSE "answered"]

\* Mutant: the answer is an active row of any manifest.
SelectAnyManifest(r) ==
  /\ request[r].pc = "selecting"
  /\ \E i \in UNION {ActiveRows(m) : m \in Manifests} :
       request' = [request EXCEPT ![r] = Answer(r, i)]
  /\ UNCHANGED <<manifests, rows, clock>>

\* Without an active row (it ended since the insert) the request fails.
Select(r) ==
  LET active == ActiveRows(request[r].manifest)
  IN  /\ request[r].pc = "selecting"
      /\ \/ active = {} /\ Return(r)
         \/ \E i \in active : request' = [request EXCEPT ![r] = Answer(r, i)]
      /\ UNCHANGED <<manifests, rows, clock>>

-----------------------------------------------------------------------------
(* refresh, which every other operation begins with.                       *)

\* The row is read; when it is active the clock is captured to refresh it.  A row
\* that is not active is answered, or refused, as it is.
StartRefresh(r, i, op) ==
  /\ request[r].pc = "idle" /\ op # "request"
  /\ rows[i].status \in Active
  /\ request' = [request EXCEPT ![r] =
       [Idle EXCEPT !.pc = "refreshing", !.op = op, !.manifest = rows[i].manifest,
                    !.id = i, !.copy = rows[i].status, !.now = clock, !.since = clock]]
  /\ UNCHANGED <<manifests, rows, clock>>

\* Where an operation goes on with an authorization it believes to have the given
\* status; otherwise it refuses.
GoesOn(op, status) ==
  CASE op = "request"                                      -> "inserting"
    [] op = "execute" /\ status = "approved"               -> "checking"
    [] op \in {"approve", "reject"} /\ status = "pending"  -> "deciding"
    [] op = "revoke" /\ status = "approved"                -> "deciding"
    [] OTHER                                               -> "idle"

\* The decisions capture the clock again.
Continue(r, status) ==
  LET q == request[r]
      pc == GoesOn(q.op, status)
  IN  request' = [request EXCEPT ![r] =
        IF pc = "idle" THEN Idle
        ELSE [q EXCEPT !.pc = pc, !.again = (q.op = "request"), !.copy = status,
                       !.now = IF pc = "deciding" THEN clock ELSE q.now]]

\* expireOrInvalidate: an active row past the captured time expires; one whose
\* manifest is not the latest is invalidated.  A row that needs neither is
\* answered as it was read before, and so is one that is active no more.
Refresh(r) ==
  LET i == request[r].id
      late == rows[i].expires <= request[r].now
      end == IF late THEN "expired" ELSE "invalidated"
  IN  /\ request[r].pc = "refreshing"
      /\ IF rows[i].status \in Active /\ (late \/ rows[i].manifest # manifests)
         THEN rows' = [rows EXCEPT ![i].status = end] /\ Continue(r, end)
         ELSE UNCHANGED rows /\ Continue(r, request[r].copy)
      /\ UNCHANGED <<manifests, clock>>

-----------------------------------------------------------------------------
(* Decisions and the executor.                                             *)

\* Mutant: the approval only compares the status.
ApproveWhilePending(r) ==
  LET i == request[r].id
  IN  /\ request[r].pc = "deciding" /\ request[r].op = "approve"
      /\ rows' = IF rows[i].status = "pending"
                 THEN [rows EXCEPT ![i].status = "approved"] ELSE rows
      /\ Return(r)
      /\ UNCHANGED <<manifests, clock>>

\* approveIfCurrent: one statement that compares everything again.
Approve(r) ==
  LET i == request[r].id
  IN  /\ request[r].pc = "deciding" /\ request[r].op = "approve"
      /\ rows' = IF /\ rows[i].status = "pending"
                    /\ rows[i].expires > request[r].now
                    /\ rows[i].manifest = manifests
                 THEN [rows EXCEPT ![i].status = "approved"] ELSE rows
      /\ Return(r)
      /\ UNCHANGED <<manifests, clock>>

\* Mutant: the transition does not compare the status.
DecideAnyway(r, op, to) ==
  LET i == request[r].id
  IN  /\ request[r].pc = "deciding" /\ request[r].op = op
      /\ rows' = [rows EXCEPT ![i].status = to]
      /\ Return(r)
      /\ UNCHANGED <<manifests, clock>>

\* transition: reject or revoke, if the row still has the status it is decided from.
Decide(r, op, to) ==
  LET i == request[r].id
  IN  /\ request[r].pc = "deciding" /\ request[r].op = op
      /\ rows' = IF rows[i].status = request[r].copy
                 THEN [rows EXCEPT ![i].status = to] ELSE rows
      /\ Return(r)
      /\ UNCHANGED <<manifests, clock>>

Reject(r) == Decide(r, "reject", "rejected")
Revoke(r) == Decide(r, "revoke", "revoked")

\* executePaused: the authorization was approved; its manifest must be the latest.
Check(r) ==
  /\ request[r].pc = "checking"
  /\ IF request[r].manifest = manifests
     THEN request' = [request EXCEPT ![r].pc = "answered"]
     ELSE Return(r)
  /\ UNCHANGED <<manifests, rows, clock>>

\* The answer is sent, or a statement has failed and its transaction with it.
End(r) ==
  /\ request[r].pc # "idle"
  /\ Return(r)
  /\ UNCHANGED <<manifests, rows, clock>>

-----------------------------------------------------------------------------

Step(r) ==
  \/ Insert(r) \/ Select(r) \/ Refresh(r)
  \/ Approve(r) \/ Reject(r) \/ Revoke(r) \/ Check(r) \/ End(r)

Next ==
  \/ NewManifest \/ Tick
  \/ \E r \in Requests :
       \/ \E m \in Manifests : StartRequest(r, m)
       \/ \E i \in DOMAIN rows, op \in Operation : StartRefresh(r, i, op)
       \/ Step(r)

Spec == Init /\ [][Next]_vars

-----------------------------------------------------------------------------
(* Properties.                                                             *)

\* Every row and every request is well formed: a request that knows a row knows
\* one that exists, of its own manifest.
TypeOK ==
  /\ manifests \in 0..MaxManifests
  /\ rows \in Seq(Authorization)
  /\ request \in [Requests -> Request]
  /\ clock \in Nat
  /\ \A r \in Requests :
       LET q == request[r]
       IN  /\ q.pc # "idle" => q.manifest \in 1..manifests
           /\ q.pc \notin {"idle", "inserting", "selecting"} => q.id # 0
           /\ q.id # 0 => q.id \in DOMAIN rows /\ rows[q.id].manifest = q.manifest

\* Only the newest authorization of a manifest can be active: asking again, from
\* concurrent requests and across expiry, never leaves two that could be approved
\* or executed.
OnlyNewestActive ==
  \A i, j \in DOMAIN rows :
    i < j /\ rows[i].manifest = rows[j].manifest => rows[i].status \notin Active

Transitions ==
  {<<"pending", "approved">>, <<"pending", "rejected">>, <<"approved", "revoked">>}
    \cup Active \X {"expired", "invalidated"}

\* Decisions are final: whoever decides, expires or invalidates first wins, and no
\* request that read the row earlier overwrites that.
DecisionsAreFinal ==
  [][\A i \in DOMAIN rows :
       rows'[i].status # rows[i].status
         => <<rows[i].status, rows'[i].status>> \in Transitions]_rows

\* request never answers with an authorization whose validity was already over
\* when the request arrived, although it may answer with another request's.
RequestedIsUsable ==
  \A r \in Requests :
    request[r].pc = "answered" /\ request[r].op = "request"
      => rows[request[r].id].expires > request[r].since

\* The manifests with an approved authorization.
Approved == {rows[i].manifest : i \in {j \in DOMAIN rows : rows[j].status = "approved"}}

Authorized == INSTANCE AuthorizedManifests WITH authorized <- Approved

\* The rows implement AuthorizedManifests: an approval takes the latest manifest
\* at the very moment it is stored, however long ago the approver looked.
ImplementsAuthorized == Authorized!AuthorizedSpec

-----------------------------------------------------------------------------
(* What the documentation says and the code does not ensure.               *)

\* "prazo vencido invalida a autorização", fail-closed: an execution is not
\* admitted on an authorization whose validity was over when it was read.
ExpiredNotAdmitted ==
  \A r \in Requests :
    request[r].pc = "answered" /\ request[r].op = "execute"
      => rows[request[r].id].expires > request[r].now
=============================================================================
