-------------------------- MODULE AuthorizationProofs -------------------------
(***************************************************************************)
(* Theorems about who may do what, and until when: the authorization of an *)
(* execution, the access of an operator, and the views built from it, for  *)
(* any number of requests, rows, tenants, campaigns and changes.  What a   *)
(* request has listed and selected stays backed by what it met, whatever   *)
(* the administrator and the other services change between its steps.      *)
(***************************************************************************)
EXTENDS ExecutionAuthorization, OperatorAccess, OperatorViews, SequenceTheorems,
        FiniteSetTheorems, TLAPS

-----------------------------------------------------------------------------
(* The authorization of an execution.                                      *)

\* What a request knows of the row it works on.
RequestOK(q, latest, table) ==
  /\ q \in Request
  /\ q.pc # "idle" => q.manifest \in 1..latest
  /\ q.pc \notin {"idle", "inserting", "selecting"} => q.id # 0
  /\ q.id # 0 => q.id \in DOMAIN table /\ table[q.id].manifest = q.manifest
  /\ q.pc = "deciding" => \/ q.op \in {"approve", "reject"} /\ q.copy = "pending"
                          \/ q.op = "revoke" /\ q.copy = "approved"

TableOK ==
  /\ manifests \in 0..MaxManifests
  /\ rows \in Seq(Authorization)
  /\ clock \in Nat
  /\ \A i \in DOMAIN rows : rows[i].manifest \in 1..manifests
  /\ OnlyNewestActive

AuthorizationInvariant ==
  /\ TableOK
  /\ request \in [Requests -> Request]
  /\ \A r \in Requests : RequestOK(request[r], manifests, rows)

-----------------------------------------------------------------------------
(* The two ways in which the table changes.                                *)

RowAdded(m) ==
  /\ m \in Manifests /\ m \in 1..manifests /\ ActiveRows(m) = {}
  /\ \E t \in Nat : rows' = Append(rows, [manifest |-> m, status |-> "pending",
                                          expires |-> t])

RowMoved(i, s) ==
  /\ i \in DOMAIN rows
  /\ <<rows[i].status, s>> \in Transitions
  /\ s = "approved" => rows[i].manifest = manifests
  /\ rows' = [rows EXCEPT ![i].status = s]

LEMMA AddedFacts ==
  ASSUME TableOK, NEW m, RowAdded(m)
  PROVE  /\ rows' \in Seq(Authorization)
         /\ DOMAIN rows = 1..Len(rows) /\ Len(rows) \in Nat
         /\ Len(rows') = Len(rows) + 1
         /\ DOMAIN rows' = 1..(Len(rows) + 1)
         /\ \A i \in DOMAIN rows : rows'[i] = rows[i]
         /\ rows'[Len(rows) + 1].manifest = m
         /\ rows'[Len(rows) + 1].status = "pending"
<1>1. PICK t \in Nat : rows' = Append(rows, [manifest |-> m, status |-> "pending",
                                             expires |-> t])
  BY DEF RowAdded
<1>2. [manifest |-> m, status |-> "pending", expires |-> t] \in Authorization
  BY DEF RowAdded, Authorization, Status
<1>3. rows \in Seq(Authorization) BY DEF TableOK
<1>4. DOMAIN rows = 1..Len(rows) /\ Len(rows) \in Nat BY <1>3, LenProperties
<1>5. rows' \in Seq(Authorization) BY <1>1, <1>2, <1>3, AppendProperties
<1>6. Len(rows') = Len(rows) + 1 BY <1>1, <1>2, <1>3, AppendProperties
<1>7. rows'[Len(rows) + 1] = [manifest |-> m, status |-> "pending", expires |-> t]
  BY <1>1, <1>2, <1>3, AppendProperties
<1>8. \A i \in DOMAIN rows : rows'[i] = rows[i]
  BY <1>1, <1>2, <1>3, <1>4, AppendProperties
<1>9. DOMAIN rows' = 1..(Len(rows) + 1) BY <1>5, <1>6, LenProperties
<1> QED BY <1>4, <1>5, <1>6, <1>7, <1>8, <1>9

LEMMA MovedFacts ==
  ASSUME TableOK, NEW i, NEW s, RowMoved(i, s)
  PROVE  /\ i \in DOMAIN rows /\ s \in Status
         /\ rows[i].status \in Active /\ rows[i].status # s
         /\ rows' \in Seq(Authorization)
         /\ DOMAIN rows' = DOMAIN rows
         /\ \A j \in DOMAIN rows : j # i => rows'[j] = rows[j]
         /\ rows'[i].manifest = rows[i].manifest
         /\ rows'[i].expires = rows[i].expires
         /\ rows'[i].status = s
<1>1. rows \in Seq(Authorization) BY DEF TableOK
<1>2. DOMAIN rows = 1..Len(rows) /\ \A j \in DOMAIN rows : rows[j] \in Authorization
  BY <1>1, LenProperties, ElementOfSeq
<1>3. i \in DOMAIN rows BY DEF RowMoved
<1>4. s \in Status /\ rows[i].status \in Active /\ rows[i].status # s
  BY DEF RowMoved, Transitions, Active, Status
<1>5. [rows[i] EXCEPT !.status = s] \in Authorization BY <1>2, <1>3, <1>4 DEF Authorization
<1>6. rows' = [rows EXCEPT ![i] = [rows[i] EXCEPT !.status = s]] BY DEF RowMoved
<1>7. rows' \in Seq(Authorization) BY <1>1, <1>3, <1>5, <1>6, ExceptSeq
<1>8. DOMAIN rows' = DOMAIN rows /\ \A j \in DOMAIN rows : j # i => rows'[j] = rows[j]
  BY <1>6
<1>9. rows'[i] = [rows[i] EXCEPT !.status = s] BY <1>3, <1>6
<1>10. /\ rows'[i].manifest = rows[i].manifest /\ rows'[i].expires = rows[i].expires
       /\ rows'[i].status = s
  BY <1>2, <1>3, <1>9 DEF Authorization
<1> QED BY <1>3, <1>4, <1>7, <1>8, <1>10

LEMMA AddedKeepsNewest ==
  ASSUME TableOK, NEW m, RowAdded(m)
  PROVE  OnlyNewestActive'
<1> DEFINE n == Len(rows)
<1>0. \A i \in DOMAIN rows : rows[i].manifest = m => rows[i].status \notin Active
  BY DEF RowAdded, ActiveRows
<1>1. SUFFICES ASSUME NEW i \in DOMAIN rows', NEW j \in DOMAIN rows', i < j,
                      rows'[i].manifest = rows'[j].manifest
               PROVE  rows'[i].status \notin Active
  BY DEF OnlyNewestActive
<1>2. i \in DOMAIN rows /\ rows'[i] = rows[i] BY <1>1, AddedFacts
<1>3. CASE j \in DOMAIN rows
  BY <1>1, <1>2, <1>3, AddedFacts DEF TableOK, OnlyNewestActive
<1>4. CASE j = n + 1
  <2>1. rows[i].manifest = m BY <1>1, <1>2, <1>4, AddedFacts
  <2> QED BY <1>0, <1>2, <2>1
<1> QED BY <1>3, <1>4, AddedFacts

LEMMA MovedKeepsNewest ==
  ASSUME TableOK, NEW i, NEW s, RowMoved(i, s)
  PROVE  OnlyNewestActive'
<1>1. \A j \in DOMAIN rows : /\ rows'[j].manifest = rows[j].manifest
                             /\ rows[j].status \notin Active => rows'[j].status \notin Active
  BY MovedFacts
<1>2. DOMAIN rows' = DOMAIN rows BY MovedFacts
<1> QED BY <1>1, <1>2 DEF TableOK, OnlyNewestActive

-----------------------------------------------------------------------------
(* Requests.                                                               *)

LEMMA IdleOK ==
  ASSUME NEW latest, NEW table
  PROVE  RequestOK(Idle, latest, table)
BY DEF RequestOK, Idle, Request, Operation, Status

\* Other requests only add rows and decide on them: what is known stays so.
LEMMA RequestStable ==
  ASSUME NEW q, RequestOK(q, manifests, rows), TableOK, TableOK',
         manifests <= manifests', DOMAIN rows \subseteq DOMAIN rows',
         \A i \in DOMAIN rows : rows'[i].manifest = rows[i].manifest
  PROVE  RequestOK(q, manifests', rows')
<1>1. 1..manifests \subseteq 1..manifests' BY DEF TableOK
<1> QED BY <1>1 DEF RequestOK

\* One request moves to a state that knows its row; the others stay.
LEMMA RequestMoves ==
  ASSUME AuthorizationInvariant, TableOK', NEW r \in Requests, NEW q,
         request' = [request EXCEPT ![r] = q],
         manifests <= manifests', DOMAIN rows \subseteq DOMAIN rows',
         \A i \in DOMAIN rows : rows'[i].manifest = rows[i].manifest,
         RequestOK(q, manifests', rows')
  PROVE  AuthorizationInvariant'
<1>1. request' \in [Requests -> Request] BY DEF AuthorizationInvariant, RequestOK
<1>2. ASSUME NEW x \in Requests PROVE RequestOK(request'[x], manifests', rows')
  <2>1. CASE x = r BY <2>1 DEF AuthorizationInvariant
  <2>2. CASE x # r
    <3>1. request'[x] = request[x] BY <2>2 DEF AuthorizationInvariant
    <3>2. RequestOK(request[x], manifests', rows')
      BY RequestStable DEF AuthorizationInvariant
    <3> QED BY <3>1, <3>2
  <2> QED BY <2>1, <2>2
<1> QED BY <1>1, <1>2 DEF AuthorizationInvariant

\* The same, for a step that leaves the table alone.
LEMMA RequestMovesAlone ==
  ASSUME AuthorizationInvariant, NEW r \in Requests, NEW q,
         request' = [request EXCEPT ![r] = q], UNCHANGED <<manifests, rows, clock>>,
         RequestOK(q, manifests, rows)
  PROVE  AuthorizationInvariant'
<1>1. TableOK' BY DEF AuthorizationInvariant, TableOK, OnlyNewestActive
<1>2. manifests <= manifests' BY DEF AuthorizationInvariant, TableOK
<1> QED BY <1>1, <1>2, RequestMoves

\* The same, for a step that decides on a row.
LEMMA RequestMovesDeciding ==
  ASSUME AuthorizationInvariant, NEW r \in Requests, NEW q, NEW i, NEW s,
         request' = [request EXCEPT ![r] = q], UNCHANGED <<manifests, clock>>,
         RowMoved(i, s), RequestOK(q, manifests, rows)
  PROVE  AuthorizationInvariant'
<1>0. TableOK BY DEF AuthorizationInvariant
<1>1. TableOK' BY <1>0, MovedFacts, MovedKeepsNewest DEF TableOK
<1>2. /\ manifests <= manifests' /\ DOMAIN rows \subseteq DOMAIN rows'
      /\ \A j \in DOMAIN rows : rows'[j].manifest = rows[j].manifest
  BY <1>0, MovedFacts DEF TableOK
<1>3. RequestOK(q, manifests', rows') BY <1>0, <1>1, <1>2, RequestStable
<1> QED BY <1>1, <1>2, <1>3, RequestMoves

LEMMA RequestFacts ==
  ASSUME AuthorizationInvariant, NEW r \in Requests
  PROVE  /\ RequestOK(request[r], manifests, rows)
         /\ request[r] \in Request
         /\ request[r].pc # "idle" => request[r].manifest \in Manifests
         /\ request[r].id \in DOMAIN rows => rows[request[r].id] \in Authorization
<1>1. rows \in Seq(Authorization) BY DEF AuthorizationInvariant, TableOK
<1>2. \A i \in DOMAIN rows : rows[i] \in Authorization
  BY <1>1, LenProperties, ElementOfSeq
<1>3. 1..manifests \subseteq Manifests
  BY BoundAssumption DEF AuthorizationInvariant, TableOK, Manifests
<1> QED BY <1>2, <1>3 DEF AuthorizationInvariant, RequestOK

-----------------------------------------------------------------------------
(* The actions.                                                            *)

TableStep ==
  \/ UNCHANGED rows
  \/ /\ UNCHANGED manifests
     /\ (\E m : RowAdded(m)) \/ (\E i, s : RowMoved(i, s))

LEMMA InsertInvariant ==
  ASSUME AuthorizationInvariant, NEW r \in Requests, Insert(r)
  PROVE  AuthorizationInvariant' /\ TableStep
<1> DEFINE m == request[r].manifest
           t == request[r].now + Validity
           n == Len(rows)
<1>a. request[r].pc = "inserting" /\ UNCHANGED <<manifests, clock>> BY DEF Insert
<1>b. RequestOK(request[r], manifests, rows) /\ request[r] \in Request BY RequestFacts
<1>0. /\ request[r].pc = "inserting" /\ UNCHANGED <<manifests, clock>>
      /\ request[r] \in Request /\ m \in Manifests /\ m \in 1..manifests
  BY <1>a, <1>b, RequestFacts DEF RequestOK
<1>1. CASE NoRowActive(m)
  <2> DEFINE q == [request[r] EXCEPT !.pc = "answered", !.id = n + 1]
  <2>1. /\ rows' = Append(rows, [manifest |-> m, status |-> "pending", expires |-> t])
        /\ request' = [request EXCEPT ![r] = q]
    BY <1>1, RequestFacts DEF Insert, AuthorizationInvariant
  <2>2. t \in Nat BY <1>0, ValidityAssumption DEF Request
  <2> HIDE DEF t
  <2>3. RowAdded(m) BY <1>0, <1>1, <2>1, <2>2 DEF RowAdded, NoRowActive
  <2>4. TableOK BY DEF AuthorizationInvariant
  <2>5. TableOK'
    <3>1. \A i \in DOMAIN rows' : i \in DOMAIN rows \/ i = n + 1
      BY <2>3, <2>4, AddedFacts
    <3>2. \A i \in DOMAIN rows' : rows'[i].manifest \in 1..manifests
      BY <1>0, <2>3, <2>4, <3>1, AddedFacts DEF TableOK
    <3> QED BY <1>0, <2>3, <2>4, <3>2, AddedFacts, AddedKeepsNewest DEF TableOK
  <2>6. n \in Nat /\ n + 1 \in DOMAIN rows' /\ rows'[n + 1].manifest = m
    BY <2>3, <2>4, AddedFacts
  <2>7. q \in Request
    <3>1. n + 1 \in Nat BY <2>6
    <3> HIDE DEF n
    <3> QED BY <1>0, <3>1 DEF Request
  <2>8. RequestOK(q, manifests', rows') BY <1>0, <2>6, <2>7 DEF RequestOK, Request
  <2>9. /\ manifests <= manifests' /\ DOMAIN rows \subseteq DOMAIN rows'
        /\ \A i \in DOMAIN rows : rows'[i].manifest = rows[i].manifest
    BY <1>0, <2>3, <2>4, AddedFacts DEF TableOK
  <2>10. AuthorizationInvariant' BY <2>1, <2>5, <2>8, <2>9, RequestMoves
  <2> QED BY <1>0, <2>3, <2>10 DEF TableStep
<1>2. CASE ~NoRowActive(m)
  <2> DEFINE q == [request[r] EXCEPT !.pc = "selecting"]
  <2>1. request' = [request EXCEPT ![r] = q] /\ UNCHANGED <<manifests, rows, clock>>
    BY <1>2 DEF Insert
  <2>2. RequestOK(q, manifests, rows) BY <1>0, RequestFacts DEF RequestOK, Request
  <2> QED BY <2>1, <2>2, RequestMovesAlone DEF TableStep
<1> QED BY <1>1, <1>2

LEMMA SelectInvariant ==
  ASSUME AuthorizationInvariant, NEW r \in Requests, Select(r)
  PROVE  AuthorizationInvariant' /\ TableStep
<1>0. request[r].pc = "selecting" /\ UNCHANGED <<manifests, rows, clock>>
  BY DEF Select
<1>1. CASE Return(r) BY <1>0, <1>1, IdleOK, RequestMovesAlone DEF Return, TableStep
<1>2. ASSUME NEW i \in ActiveRows(request[r].manifest),
             request' = [request EXCEPT ![r] = Answer(r, i)]
      PROVE  AuthorizationInvariant' /\ TableStep
  <2>1. i \in DOMAIN rows /\ rows[i].manifest = request[r].manifest BY DEF ActiveRows
  <2>2. rows[i].status \in Status /\ i \in Nat \ {0}
    <3>1. rows \in Seq(Authorization) BY DEF AuthorizationInvariant, TableOK
    <3>2. DOMAIN rows = 1..Len(rows) /\ rows[i] \in Authorization
      BY <2>1, <3>1, LenProperties, ElementOfSeq
    <3>3. Len(rows) \in Nat BY <3>1, LenProperties
    <3> QED BY <2>1, <3>2, <3>3 DEF Authorization
  <2>3. Answer(r, i) \in Request BY <2>2, RequestFacts DEF Answer, Request
  <2>4. /\ Answer(r, i).id = i /\ Answer(r, i).manifest = request[r].manifest
        /\ Answer(r, i).pc \in {"refreshing", "answered"}
    BY RequestFacts DEF Answer, Request
  <2>5. RequestOK(Answer(r, i), manifests, rows)
    BY <1>0, <2>1, <2>2, <2>3, <2>4, RequestFacts DEF RequestOK
  <2> QED BY <1>0, <1>2, <2>5, RequestMovesAlone DEF TableStep
<1> QED BY <1>1, <1>2 DEF Select

\* Wherever an operation goes on, it knows its row.
LEMMA ContinueOK ==
  ASSUME AuthorizationInvariant, NEW r \in Requests, request[r].pc = "refreshing",
         NEW status \in Status, Continue(r, status)
  PROVE  \E q : request' = [request EXCEPT ![r] = q] /\ RequestOK(q, manifests, rows)
<1> DEFINE op == request[r].op
           pc == GoesOn(op, status)
           now == IF pc = "deciding" THEN clock ELSE request[r].now
           q == [request[r] EXCEPT !.pc = pc, !.again = (op = "request"),
                                   !.copy = status, !.now = now]
<1>1. CASE pc = "idle" BY <1>1, IdleOK DEF Continue
<1>2. CASE pc # "idle"
  <2>1. request' = [request EXCEPT ![r] = q]
    BY <1>2, RequestFacts DEF Continue, AuthorizationInvariant
  <2>2. pc \in {"inserting", "checking", "deciding"} BY <1>2 DEF GoesOn
  <2>3. pc = "deciding" => \/ op \in {"approve", "reject"} /\ status = "pending"
                           \/ op = "revoke" /\ status = "approved"
    BY DEF GoesOn
  <2>4. now \in Nat BY RequestFacts DEF Request, AuthorizationInvariant, TableOK
  <2>5. request[r] \in Request BY RequestFacts
  <2>6. (op = "request") \in BOOLEAN OBVIOUS
  <2> HIDE DEF pc, now
  <2>7. q \in Request BY <2>2, <2>4, <2>5, <2>6 DEF Request
  <2>8. /\ q.pc = pc /\ q.op = op /\ q.copy = status
        /\ q.id = request[r].id /\ q.manifest = request[r].manifest
    BY <2>5 DEF Request
  <2>9. RequestOK(q, manifests, rows)
    BY <2>2, <2>3, <2>7, <2>8, RequestFacts DEF RequestOK
  <2> QED BY <2>1, <2>9
<1> QED BY <1>1, <1>2

LEMMA RefreshInvariant ==
  ASSUME AuthorizationInvariant, NEW r \in Requests, Refresh(r)
  PROVE  AuthorizationInvariant' /\ TableStep
<1> DEFINE i == request[r].id
           late == rows[i].expires <= request[r].now
           end == IF late THEN "expired" ELSE "invalidated"
<1>0. request[r].pc = "refreshing" /\ UNCHANGED <<manifests, clock>> BY DEF Refresh
<1>1. request[r].copy \in Status BY RequestFacts DEF Request
<1>2. CASE rows[i].status \in Active /\ (late \/ rows[i].manifest # manifests)
  <2>1. rows' = [rows EXCEPT ![i].status = end] /\ Continue(r, end) BY <1>2 DEF Refresh
  <2>2. end \in {"expired", "invalidated"} OBVIOUS
  <2> HIDE DEF end
  <2>3. i \in DOMAIN rows BY <1>0, RequestFacts DEF RequestOK
  <2>4. RowMoved(i, end) BY <1>2, <2>1, <2>2, <2>3 DEF RowMoved, Transitions
  <2>5. end \in Status BY <2>2 DEF Status
  <2>6. PICK q : request' = [request EXCEPT ![r] = q] /\ RequestOK(q, manifests, rows)
    BY <1>0, <2>1, <2>5, ContinueOK
  <2>7. AuthorizationInvariant' BY <1>0, <2>4, <2>6, RequestMovesDeciding
  <2> QED BY <1>0, <2>4, <2>7 DEF TableStep
<1>3. CASE ~(rows[i].status \in Active /\ (late \/ rows[i].manifest # manifests))
  <2>1. UNCHANGED rows /\ Continue(r, request[r].copy) BY <1>3 DEF Refresh
  <2>2. PICK q : request' = [request EXCEPT ![r] = q] /\ RequestOK(q, manifests, rows)
    BY <1>0, <1>1, <2>1, ContinueOK
  <2>3. AuthorizationInvariant' BY <1>0, <2>1, <2>2, RequestMovesAlone
  <2> QED BY <2>1, <2>3 DEF TableStep
<1> QED BY <1>2, <1>3

\* A decision moves its row, or leaves the table alone.
LEMMA DecisionInvariant ==
  ASSUME AuthorizationInvariant, NEW r \in Requests, NEW s,
         Return(r), UNCHANGED <<manifests, clock>>,
         UNCHANGED rows \/ RowMoved(request[r].id, s)
  PROVE  AuthorizationInvariant' /\ TableStep
<1>1. RequestOK(Idle, manifests, rows) BY IdleOK
<1>2. CASE UNCHANGED rows BY <1>1, <1>2, RequestMovesAlone DEF Return, TableStep
<1>3. CASE RowMoved(request[r].id, s)
  BY <1>1, <1>3, RequestMovesDeciding DEF Return, TableStep
<1> QED BY <1>2, <1>3

LEMMA ApproveInvariant ==
  ASSUME AuthorizationInvariant, NEW r \in Requests, Approve(r)
  PROVE  AuthorizationInvariant' /\ TableStep
<1>1. request[r].id \in DOMAIN rows BY RequestFacts DEF Approve, RequestOK
<1>2. UNCHANGED rows \/ RowMoved(request[r].id, "approved")
  BY <1>1 DEF Approve, RowMoved, Transitions
<1>3. Return(r) /\ UNCHANGED <<manifests, clock>> BY DEF Approve
<1> QED BY <1>2, <1>3, DecisionInvariant

LEMMA DecideInvariant ==
  ASSUME AuthorizationInvariant, NEW r \in Requests, Reject(r) \/ Revoke(r)
  PROVE  AuthorizationInvariant' /\ TableStep
<1> DEFINE i == request[r].id
<1>0. RequestOK(request[r], manifests, rows) BY RequestFacts
<1>1. CASE Reject(r)
  <2>1. i \in DOMAIN rows /\ request[r].copy = "pending"
    BY <1>0, <1>1 DEF Reject, Decide, RequestOK
  <2>2. UNCHANGED rows \/ RowMoved(i, "rejected")
    BY <1>1, <2>1 DEF Reject, Decide, RowMoved, Transitions
  <2>3. Return(r) /\ UNCHANGED <<manifests, clock>> BY <1>1 DEF Reject, Decide
  <2> QED BY <2>2, <2>3, DecisionInvariant
<1>2. CASE Revoke(r)
  <2>1. i \in DOMAIN rows /\ request[r].copy = "approved"
    BY <1>0, <1>2 DEF Revoke, Decide, RequestOK
  <2>2. UNCHANGED rows \/ RowMoved(i, "revoked")
    BY <1>2, <2>1 DEF Revoke, Decide, RowMoved, Transitions
  <2>3. Return(r) /\ UNCHANGED <<manifests, clock>> BY <1>2 DEF Revoke, Decide
  <2> QED BY <2>2, <2>3, DecisionInvariant
<1> QED BY <1>1, <1>2

\* The steps that only read.
LEMMA CheckInvariant ==
  ASSUME AuthorizationInvariant, NEW r \in Requests,
         \/ Check(r) \/ End(r)
         \/ \E m \in Manifests : StartRequest(r, m)
         \/ \E i \in DOMAIN rows, op \in Operation : StartRefresh(r, i, op)
  PROVE  AuthorizationInvariant' /\ TableStep
<1>0. RequestOK(request[r], manifests, rows) BY RequestFacts
<1>1. CASE Check(r)
  <2> DEFINE q == [request[r] EXCEPT !.pc = "answered"]
  <2>1. RequestOK(q, manifests, rows) BY <1>0, <1>1 DEF Check, RequestOK, Request
  <2>2. request' = [request EXCEPT ![r] = q] \/ request' = [request EXCEPT ![r] = Idle]
    BY <1>1 DEF Check, Return
  <2>3. UNCHANGED <<manifests, rows, clock>> BY <1>1 DEF Check
  <2> QED BY <2>1, <2>2, <2>3, IdleOK, RequestMovesAlone DEF TableStep
<1>2. CASE End(r) BY <1>2, DecisionInvariant DEF End
<1>3. ASSUME NEW m \in Manifests, StartRequest(r, m)
      PROVE  AuthorizationInvariant' /\ TableStep
  <2> DEFINE q == [Idle EXCEPT !.pc = "inserting", !.op = "request", !.manifest = m,
                               !.now = clock, !.since = clock]
  <2>1. m \in 1..manifests /\ clock \in Nat
    <3>1. m = manifests BY <1>3 DEF StartRequest
    <3>2. MaxManifests \in Nat BY BoundAssumption
    <3>3. clock \in Nat BY DEF AuthorizationInvariant, TableOK
    <3>4. m \in Nat \ {0} BY <3>2 DEF Manifests
    <3> QED BY <3>1, <3>3, <3>4
  <2>2. m \in Manifests /\ clock \in Nat BY <2>1
  <2>3. q \in Request BY <2>2 DEF Idle, Request, Operation, Status
  <2>4. q.pc = "inserting" /\ q.manifest = m /\ q.id = 0 BY DEF Idle
  <2>5. RequestOK(q, manifests, rows) BY <2>1, <2>3, <2>4 DEF RequestOK
  <2>6. request' = [request EXCEPT ![r] = q] /\ UNCHANGED <<manifests, rows, clock>>
    BY <1>3 DEF StartRequest
  <2> QED BY <2>5, <2>6, RequestMovesAlone DEF TableStep
<1>4. ASSUME NEW i \in DOMAIN rows, NEW op \in Operation, StartRefresh(r, i, op)
      PROVE  AuthorizationInvariant' /\ TableStep
  <2> DEFINE q == [Idle EXCEPT !.pc = "refreshing", !.op = op,
                               !.manifest = rows[i].manifest, !.id = i,
                               !.copy = rows[i].status, !.now = clock, !.since = clock]
  <2>1. i \in Nat \ {0} /\ rows[i] \in Authorization /\ clock \in Nat
    <3>1. rows \in Seq(Authorization) BY DEF AuthorizationInvariant, TableOK
    <3>2. DOMAIN rows = 1..Len(rows) /\ Len(rows) \in Nat /\ rows[i] \in Authorization
      BY <3>1, LenProperties, ElementOfSeq
    <3> QED BY <3>2 DEF AuthorizationInvariant, TableOK
  <2>2. rows[i].manifest \in 1..manifests
    BY DEF AuthorizationInvariant, TableOK
  <2>3. RequestOK(q, manifests, rows)
    BY <2>1, <2>2 DEF RequestOK, Idle, Request, Authorization
  <2>4. request' = [request EXCEPT ![r] = q] /\ UNCHANGED <<manifests, rows, clock>>
    BY <1>4 DEF StartRefresh
  <2> QED BY <2>3, <2>4, RequestMovesAlone DEF TableStep
<1> QED BY <1>1, <1>2, <1>3, <1>4

LEMMA AroundInvariant ==
  ASSUME AuthorizationInvariant, NewManifest \/ Tick
  PROVE  AuthorizationInvariant' /\ TableStep
<1>1. UNCHANGED <<rows, request>> BY DEF NewManifest, Tick
<1>2. TableOK' /\ manifests <= manifests'
  BY BoundAssumption
  DEF NewManifest, Tick, AuthorizationInvariant, TableOK, OnlyNewestActive
<1>3. \A x \in Requests : RequestOK(request[x], manifests, rows')
  BY <1>1 DEF AuthorizationInvariant
<1>4. \A x \in Requests : RequestOK(request[x], manifests', rows')
  BY <1>1, <1>2, <1>3, RequestStable DEF AuthorizationInvariant
<1> QED BY <1>1, <1>2, <1>4 DEF AuthorizationInvariant, TableStep

LEMMA InitInvariant == Init => AuthorizationInvariant
<1> SUFFICES ASSUME Init PROVE AuthorizationInvariant OBVIOUS
<1>1. rows = <<>> /\ \A r \in Requests : request[r] = Idle BY DEF Init
<1>2. TableOK BY <1>1, BoundAssumption DEF TableOK, OnlyNewestActive, Init
<1>3. Idle \in Request BY DEF Idle, Request, Operation, Status
<1>4. request \in [Requests -> Request] BY <1>3 DEF Init
<1> QED BY <1>1, <1>2, <1>4, IdleOK DEF AuthorizationInvariant

LEMMA NextInvariant ==
  AuthorizationInvariant /\ [Next]_vars => AuthorizationInvariant' /\ TableStep
<1> SUFFICES ASSUME AuthorizationInvariant, [Next]_vars
             PROVE  AuthorizationInvariant' /\ TableStep
  OBVIOUS
<1>1. CASE UNCHANGED vars
  BY <1>1 DEF vars, AuthorizationInvariant, TableOK, OnlyNewestActive, TableStep
<1>2. CASE NewManifest \/ Tick BY <1>2, AroundInvariant
<1>3. ASSUME NEW r \in Requests, Step(r)
      PROVE  AuthorizationInvariant' /\ TableStep
  <2>1. CASE Insert(r) BY <2>1, InsertInvariant
  <2>2. CASE Select(r) BY <2>2, SelectInvariant
  <2>3. CASE Refresh(r) BY <2>3, RefreshInvariant
  <2>4. CASE Approve(r) BY <2>4, ApproveInvariant
  <2>5. CASE Reject(r) \/ Revoke(r) BY <2>5, DecideInvariant
  <2>6. CASE Check(r) \/ End(r) BY <2>6, CheckInvariant
  <2> QED BY <1>3, <2>1, <2>2, <2>3, <2>4, <2>5, <2>6 DEF Step
<1>4. ASSUME NEW r \in Requests,
             \/ \E m \in Manifests : StartRequest(r, m)
             \/ \E i \in DOMAIN rows, op \in Operation : StartRefresh(r, i, op)
      PROVE  AuthorizationInvariant' /\ TableStep
  BY <1>4, CheckInvariant
<1> QED BY <1>1, <1>2, <1>3, <1>4 DEF Next

-----------------------------------------------------------------------------
(* The theorems.                                                           *)

\* The inductive invariant: what a request knows of its row, and the table.
THEOREM AuthorizationsCorrect == Spec => []AuthorizationInvariant
<1>1. AuthorizationInvariant /\ [Next]_vars => AuthorizationInvariant' BY NextInvariant
<1> QED BY <1>1, InitInvariant, PTL DEF Spec

\* Rows and requests are well formed.
THEOREM TypeCorrect == Spec => []TypeOK
<1>1. AuthorizationInvariant => TypeOK
  BY DEF AuthorizationInvariant, TableOK, RequestOK, TypeOK
<1> QED BY <1>1, AuthorizationsCorrect, PTL

\* A manifest never has an active authorization that is not its newest: neither
\* concurrent requests nor expiry leave two.
THEOREM NewestActive == Spec => []OnlyNewestActive
<1>1. AuthorizationInvariant => OnlyNewestActive BY DEF AuthorizationInvariant, TableOK
<1> QED BY <1>1, AuthorizationsCorrect, PTL

LEMMA TableStepFinal ==
  ASSUME TableOK, TableStep, NEW i \in DOMAIN rows, rows'[i].status # rows[i].status
  PROVE  <<rows[i].status, rows'[i].status>> \in Transitions
<1>1. CASE UNCHANGED rows BY <1>1
<1>2. CASE \E m : RowAdded(m) BY <1>2, AddedFacts
<1>3. ASSUME NEW j, NEW s, RowMoved(j, s)
      PROVE  <<rows[i].status, rows'[i].status>> \in Transitions
  BY <1>3, MovedFacts DEF RowMoved
<1> QED BY <1>1, <1>2, <1>3 DEF TableStep

\* Whoever decides, expires or invalidates first wins.
THEOREM Final == Spec => DecisionsAreFinal
<1>1. AuthorizationInvariant /\ [Next]_vars
        => [\A i \in DOMAIN rows :
              rows'[i].status # rows[i].status
                => <<rows[i].status, rows'[i].status>> \in Transitions]_rows
  BY NextInvariant, TableStepFinal DEF AuthorizationInvariant
<1> QED BY <1>1, AuthorizationsCorrect, PTL DEF Spec, DecisionsAreFinal

-----------------------------------------------------------------------------
(* Refinement.                                                             *)

LEMMA ApprovedFacts ==
  /\ \A m : m \in Approved
       <=> \E i \in DOMAIN rows : rows[i].status = "approved" /\ rows[i].manifest = m
  /\ \A m : m \in Approved'
       <=> \E i \in DOMAIN rows' : rows'[i].status = "approved" /\ rows'[i].manifest = m
BY DEF Approved

LEMMA AddedApprovesNone ==
  ASSUME TableOK, NEW m, RowAdded(m)
  PROVE  Approved' = Approved
<1>1. \A i \in DOMAIN rows' : i \in DOMAIN rows \/ i = Len(rows) + 1 BY AddedFacts
<1>2. DOMAIN rows \subseteq DOMAIN rows' BY AddedFacts
<1>3. \A k : k \in Approved <=> k \in Approved'
  BY <1>1, <1>2, AddedFacts, ApprovedFacts
<1> QED BY <1>3

\* At most one row of a manifest is active.
LEMMA OneActive ==
  ASSUME TableOK, NEW i \in DOMAIN rows, NEW j \in DOMAIN rows,
         rows[i].manifest = rows[j].manifest,
         rows[i].status \in Active, rows[j].status \in Active
  PROVE  i = j
<1>1. rows \in Seq(Authorization) BY DEF TableOK
<1>2. DOMAIN rows = 1..Len(rows) /\ Len(rows) \in Nat BY <1>1, LenProperties
<1> QED BY <1>2 DEF TableOK, OnlyNewestActive

LEMMA MovedImplements ==
  ASSUME TableOK, NEW i, NEW s, RowMoved(i, s), UNCHANGED manifests
  PROVE  \/ UNCHANGED Approved
         \/ \E m \in Manifests : Authorized!Grant(m) \/ Authorized!Withdraw(m)
<1> DEFINE m == rows[i].manifest
<1>1. i \in DOMAIN rows /\ rows[i].status \in Active BY MovedFacts
<1>2. m \in Manifests
  <2>1. rows \in Seq(Authorization) BY DEF TableOK
  <2>2. rows[i] \in Authorization BY <1>1, <2>1, LenProperties, ElementOfSeq
  <2> QED BY <2>2 DEF Authorization
<1>3. \A k : k # m => (k \in Approved <=> k \in Approved')
  BY MovedFacts, ApprovedFacts
<1>4. CASE s = "approved"
  <2>1. m \in Approved' BY <1>1, <1>4, MovedFacts, ApprovedFacts
  <2>2. m \notin Approved
    <3>1. rows[i].status # "approved" BY <1>4, MovedFacts
    <3>2. "approved" \in Active BY DEF Active
    <3> QED BY <1>1, <3>1, <3>2, OneActive, ApprovedFacts
  <2>3. m = manifests BY <1>4 DEF RowMoved
  <2>4. Approved' = Approved \cup {m} BY <1>3, <2>1
  <2> QED BY <1>2, <2>2, <2>3, <2>4 DEF Authorized!Grant
<1>5. CASE rows[i].status = "approved" /\ s # "approved"
  <2>1. m \in Approved BY <1>1, <1>5, ApprovedFacts
  <2>2. m \notin Approved'
    <3>1. "approved" \in Active BY DEF Active
    <3>2. \A j \in DOMAIN rows : j # i /\ rows[j].manifest = m
            => rows[j].status # "approved"
      BY <1>1, <3>1, OneActive
    <3> QED BY <1>5, <3>2, MovedFacts, ApprovedFacts
  <2>3. Approved' = Approved \ {m} BY <1>3, <2>2
  <2> QED BY <1>2, <2>1, <2>3 DEF Authorized!Withdraw
<1>6. CASE rows[i].status # "approved" /\ s # "approved"
  <2>1. \A j \in DOMAIN rows : rows'[j].status = "approved" <=> rows[j].status = "approved"
    BY <1>6, MovedFacts
  <2>2. \A j \in DOMAIN rows : rows'[j].manifest = rows[j].manifest BY MovedFacts
  <2>3. DOMAIN rows' = DOMAIN rows BY MovedFacts
  <2>4. \A k : k \in Approved <=> k \in Approved' BY <2>1, <2>2, <2>3, ApprovedFacts
  <2> QED BY <2>4
<1> QED BY <1>4, <1>5, <1>6

LEMMA StepImplements ==
  AuthorizationInvariant /\ [Next]_vars
    => [Authorized!AuthorizedNext]_<<manifests, Approved>>
<1> SUFFICES ASSUME AuthorizationInvariant, [Next]_vars
             PROVE  [Authorized!AuthorizedNext]_<<manifests, Approved>>
  OBVIOUS
<1>0. TableOK /\ TableStep BY NextInvariant DEF AuthorizationInvariant
<1>1. CASE UNCHANGED rows
  <2>1. UNCHANGED Approved BY <1>1 DEF Approved
  <2>2. NewManifest \/ UNCHANGED manifests
    BY DEF Next, vars, Tick, Step, StartRequest, StartRefresh, Insert, Select, Refresh,
           Approve, Reject, Revoke, Decide, Check, End
  <2> QED BY <2>1, <2>2
          DEF NewManifest, Authorized!NewManifest, Authorized!AuthorizedNext
<1>2. CASE UNCHANGED manifests /\ \E m : RowAdded(m)
  BY <1>0, <1>2, AddedApprovesNone
<1>3. ASSUME UNCHANGED manifests, NEW i, NEW s, RowMoved(i, s)
      PROVE  [Authorized!AuthorizedNext]_<<manifests, Approved>>
  BY <1>0, <1>3, MovedImplements
  DEF Authorized!AuthorizedNext, Authorized!Manifests, Manifests
<1> QED BY <1>0, <1>1, <1>2, <1>3 DEF TableStep

\* The rows implement AuthorizedManifests, the abstraction MetaExecution relies on:
\* the manifest is the latest at the moment its approval is stored.
THEOREM Refinement == Spec => ImplementsAuthorized
<1>1. Init => Authorized!AuthorizedInit
  BY DEF Init, Approved, Authorized!AuthorizedInit
<1> QED BY <1>1, StepImplements, AuthorizationsCorrect, PTL
        DEF Spec, ImplementsAuthorized, Authorized!AuthorizedSpec

-----------------------------------------------------------------------------
(* Validity.                                                               *)

\* The times a request captured.
Timed(q, now) ==
  /\ q.pc # "idle" => /\ q.since <= q.now /\ q.now <= now /\ now < q.since + Validity
                      /\ q.op = "request" => q.now = q.since
  /\ q.pc \in {"inserting", "selecting"} => q.op = "request"
  /\ q.pc \in {"checking", "deciding"} => q.op # "request"

\* What a request for an authorization knows of the validity of its rows: the one
\* it expires is over, those after it are not, and once it is expired no active
\* row of the manifest is.
Usable(q, table) ==
  q.op = "request" =>
    /\ q.pc = "refreshing" =>
         /\ table[q.id].expires <= q.now
         /\ \A j \in DOMAIN table : j > q.id /\ table[j].manifest = q.manifest
              => table[j].expires > q.since
    /\ q.pc \in {"inserting", "selecting"} /\ q.again =>
         \A j \in DOMAIN table :
           table[j].manifest = q.manifest /\ table[j].status \in Active
             => table[j].expires > q.since
    /\ q.pc = "answered" => table[q.id].expires > q.since

TimelyInvariant ==
  \A r \in Requests : Timed(request[r], clock) /\ Usable(request[r], rows)

\* The table as a request finds it after the steps of others.
ValidGrowth ==
  \/ UNCHANGED rows
  \/ \E m : RowAdded(m) /\ rows'[Len(rows) + 1].expires > clock
  \/ \E i, s : RowMoved(i, s)

LEMMA GrowthKeeps ==
  ASSUME TableOK, ValidGrowth
  PROVE  /\ DOMAIN rows \subseteq DOMAIN rows'
         /\ \A i \in DOMAIN rows : rows'[i].manifest = rows[i].manifest
         /\ \A i \in DOMAIN rows : rows'[i].expires = rows[i].expires
         /\ \A i \in DOMAIN rows : rows'[i].status \in Active => rows[i].status \in Active
<1>1. CASE UNCHANGED rows BY <1>1
<1>2. CASE \E m : RowAdded(m) BY <1>2, AddedFacts
<1>3. CASE \E i, s : RowMoved(i, s) BY <1>3, MovedFacts
<1> QED BY <1>1, <1>2, <1>3 DEF ValidGrowth

LEMMA GrowthAdds ==
  ASSUME TableOK, ValidGrowth, NEW i \in DOMAIN rows', i \notin DOMAIN rows
  PROVE  rows'[i].expires > clock /\ rows'[i].expires \in Nat
<1>1. PICK m : RowAdded(m) /\ rows'[Len(rows) + 1].expires > clock
  <2>1. ~UNCHANGED rows OBVIOUS
  <2>2. ASSUME NEW j, NEW s, RowMoved(j, s) PROVE FALSE BY <2>2, MovedFacts
  <2> QED BY <2>1, <2>2 DEF ValidGrowth
<1>2. i = Len(rows) + 1 /\ rows' \in Seq(Authorization) BY <1>1, AddedFacts
<1>3. rows'[i] \in Authorization BY <1>2, LenProperties, ElementOfSeq
<1> QED BY <1>1, <1>2, <1>3 DEF Authorization

LEMMA UsableStable ==
  ASSUME TableOK, ValidGrowth, NEW q, RequestOK(q, manifests, rows),
         Timed(q, clock), Usable(q, rows)
  PROVE  Usable(q, rows')
<1>1. q \in Request /\ clock \in Nat BY DEF RequestOK, TableOK
<1>2. q.pc # "idle" => q.since <= clock BY <1>1 DEF Timed, Request
<1>3. q.pc \in {"refreshing", "answered"} => q.id \in DOMAIN rows BY DEF RequestOK
<1>4. ASSUME q.pc # "idle", NEW j \in DOMAIN rows', j \notin DOMAIN rows
      PROVE  rows'[j].expires > q.since
  <2>1. rows'[j].expires > clock /\ rows'[j].expires \in Nat BY <1>4, GrowthAdds
  <2>2. q.since \in Nat BY <1>1 DEF Request
  <2> QED BY <1>1, <1>2, <1>4, <2>1, <2>2
<1>5. \A i \in DOMAIN rows : rows'[i].expires = rows[i].expires BY GrowthKeeps
<1>6. \A i \in DOMAIN rows : rows'[i].manifest = rows[i].manifest BY GrowthKeeps
<1>7. \A i \in DOMAIN rows : rows'[i].status \in Active => rows[i].status \in Active
  BY GrowthKeeps
<1>8. DOMAIN rows \subseteq DOMAIN rows' BY GrowthKeeps
<1> SUFFICES ASSUME q.op = "request" PROVE Usable(q, rows') BY DEF Usable
<1>9. CASE q.pc = "refreshing"
  <2>0. /\ rows[q.id].expires <= q.now
        /\ \A j \in DOMAIN rows : j > q.id /\ rows[j].manifest = q.manifest
             => rows[j].expires > q.since
    BY <1>9 DEF Usable
  <2>1. rows'[q.id].expires <= q.now BY <1>3, <1>9, <2>0, <1>5
  <2>2. ASSUME NEW j \in DOMAIN rows', j > q.id, rows'[j].manifest = q.manifest
        PROVE  rows'[j].expires > q.since
    <3>1. CASE j \in DOMAIN rows
      <4>1. rows[j].manifest = q.manifest BY <1>6, <2>2, <3>1
      <4>2. rows[j].expires > q.since BY <2>0, <2>2, <3>1, <4>1
      <4>3. rows'[j].expires = rows[j].expires BY <1>5, <3>1
      <4> QED BY <4>2, <4>3
    <3> QED BY <1>4, <1>9, <3>1
  <2> QED BY <1>9, <2>1, <2>2 DEF Usable
<1>10. CASE q.pc \in {"inserting", "selecting"}
  <2>0. q.again => \A j \in DOMAIN rows :
          rows[j].manifest = q.manifest /\ rows[j].status \in Active
            => rows[j].expires > q.since
    BY <1>10 DEF Usable
  <2>1. ASSUME q.again, NEW j \in DOMAIN rows', rows'[j].manifest = q.manifest,
               rows'[j].status \in Active
        PROVE  rows'[j].expires > q.since
    <3>1. CASE j \in DOMAIN rows
      <4>1. rows[j].manifest = q.manifest /\ rows[j].status \in Active
        BY <1>6, <1>7, <2>1, <3>1
      <4>2. rows[j].expires > q.since BY <2>0, <2>1, <3>1, <4>1
      <4>3. rows'[j].expires = rows[j].expires BY <1>5, <3>1
      <4> QED BY <4>2, <4>3
    <3> QED BY <1>4, <1>10, <3>1
  <2> QED BY <1>10, <2>1 DEF Usable
<1>11. CASE q.pc = "answered"
  <2>0. rows[q.id].expires > q.since BY <1>11 DEF Usable
  <2>1. rows'[q.id].expires > q.since BY <1>3, <1>11, <2>0, <1>5
  <2> QED BY <1>11, <2>1 DEF Usable
<1> QED BY <1>9, <1>10, <1>11 DEF Usable

LEMMA TimelyMoves ==
  ASSUME AuthorizationInvariant, TimelyInvariant, ValidGrowth, UNCHANGED clock,
         NEW r \in Requests, NEW q, request' = [request EXCEPT ![r] = q],
         Timed(q, clock), Usable(q, rows')
  PROVE  TimelyInvariant'
<1>1. ASSUME NEW x \in Requests
      PROVE  Timed(request'[x], clock) /\ Usable(request'[x], rows')
  <2>1. CASE x = r BY <2>1 DEF AuthorizationInvariant
  <2>2. CASE x # r
    <3>1. request'[x] = request[x] BY <2>2 DEF AuthorizationInvariant
    <3>2. Timed(request[x], clock) /\ Usable(request[x], rows) BY DEF TimelyInvariant
    <3>3. Usable(request[x], rows')
      BY <3>2, UsableStable, RequestFacts DEF AuthorizationInvariant
    <3> QED BY <3>1, <3>2, <3>3
  <2> QED BY <2>1, <2>2
<1> QED BY <1>1 DEF TimelyInvariant

LEMMA IdleTimely ==
  ASSUME NEW now, NEW table
  PROVE  Timed(Idle, now) /\ Usable(Idle, table)
BY DEF Timed, Usable, Idle

\* A step of a request that does not ask for an authorization, or one that ends it.
LEMMA OtherTimely ==
  ASSUME AuthorizationInvariant, TimelyInvariant, ValidGrowth, UNCHANGED clock,
         NEW r \in Requests, Return(r)
  PROVE  TimelyInvariant'
BY IdleTimely, TimelyMoves DEF Return

LEMMA InsertTimely ==
  ASSUME AuthorizationInvariant, TimelyInvariant, NEW r \in Requests, Insert(r)
  PROVE  TimelyInvariant'
<1> DEFINE m == request[r].manifest
           t == request[r].now + Validity
           n == Len(rows)
<1>0. /\ request[r].pc = "inserting" /\ UNCHANGED <<manifests, clock>>
      /\ request[r] \in Request /\ RequestOK(request[r], manifests, rows)
  BY RequestFacts DEF Insert
<1>1. Timed(request[r], clock) /\ Usable(request[r], rows) BY DEF TimelyInvariant
<1>2. /\ request[r].op = "request" /\ request[r].now = request[r].since
      /\ request[r].since <= clock /\ clock < t
  BY <1>0, <1>1 DEF Timed
<1>3. request[r].since \in Nat /\ t \in Nat /\ clock \in Nat
  BY <1>0, ValidityAssumption DEF Request, AuthorizationInvariant, TableOK
<1>4. CASE NoRowActive(m)
  <2> DEFINE q == [request[r] EXCEPT !.pc = "answered", !.id = n + 1]
             row == [manifest |-> m, status |-> "pending", expires |-> t]
  <2>1. rows' = Append(rows, row) /\ request' = [request EXCEPT ![r] = q]
    BY <1>4 DEF Insert
  <2>2. m \in Manifests /\ m \in 1..manifests
    BY <1>0, RequestFacts DEF RequestOK
  <2>3. row \in Authorization BY <1>3, <2>2 DEF Authorization, Status
  <2>4. rows'[n + 1] = row
    BY <2>1, <2>3, AppendProperties DEF AuthorizationInvariant, TableOK
  <2>5. rows'[n + 1].expires = t BY <2>4
  <2> HIDE DEF t
  <2>6. RowAdded(m) BY <1>3, <1>4, <2>1, <2>2 DEF RowAdded, NoRowActive
  <2>7. ValidGrowth BY <1>2, <2>5, <2>6, <1>3 DEF ValidGrowth
  <2>8. /\ q.pc = "answered" /\ q.id = n + 1 /\ q.op = "request"
        /\ q.since = request[r].since /\ q.now = request[r].now
    BY <1>0, <1>2 DEF Request
  <2>9. t > request[r].since BY <1>2, <1>3
  <2>10. Usable(q, rows') BY <2>5, <2>8, <2>9 DEF Usable
  <2>11. Timed(q, clock) BY <1>0, <1>1, <1>2, <2>8 DEF Timed
  <2> QED BY <1>0, <2>1, <2>7, <2>10, <2>11, TimelyMoves
<1>5. CASE ~NoRowActive(m)
  <2> DEFINE q == [request[r] EXCEPT !.pc = "selecting"]
  <2>1. request' = [request EXCEPT ![r] = q] /\ UNCHANGED rows BY <1>5 DEF Insert
  <2>2. Timed(q, clock) /\ Usable(q, rows)
    BY <1>0, <1>1 DEF Timed, Usable, Request
  <2>3. Usable(q, rows') BY <2>1, <2>2
  <2> QED BY <1>0, <2>1, <2>2, <2>3, TimelyMoves DEF ValidGrowth
<1> QED BY <1>4, <1>5

LEMMA SelectTimely ==
  ASSUME AuthorizationInvariant, TimelyInvariant, NEW r \in Requests, Select(r)
  PROVE  TimelyInvariant'
<1>0. /\ request[r].pc = "selecting" /\ UNCHANGED <<manifests, rows, clock>>
      /\ request[r] \in Request
  BY RequestFacts DEF Select
<1>1. Timed(request[r], clock) /\ Usable(request[r], rows) BY DEF TimelyInvariant
<1>2. /\ request[r].op = "request" /\ request[r].now = request[r].since
      /\ request[r].since \in Nat
  BY <1>0, <1>1 DEF Timed, Request
<1>3. ASSUME NEW i \in ActiveRows(request[r].manifest),
             request' = [request EXCEPT ![r] = Answer(r, i)]
      PROVE  TimelyInvariant'
  <2> DEFINE q == Answer(r, i)
  <2>1. /\ i \in DOMAIN rows /\ rows[i].manifest = request[r].manifest
        /\ rows[i].status \in Active
    BY DEF ActiveRows
  <2>2. rows[i].expires \in Nat
    <3>1. rows \in Seq(Authorization) BY DEF AuthorizationInvariant, TableOK
    <3>2. rows[i] \in Authorization BY <2>1, <3>1, LenProperties, ElementOfSeq
    <3> QED BY <3>2 DEF Authorization
  <2>3. /\ q.id = i /\ q.manifest = request[r].manifest /\ q.op = "request"
        /\ q.now = request[r].now /\ q.since = request[r].since
        /\ q.pc \in {"refreshing", "answered"}
        /\ q.pc = "refreshing" => rows[i].expires <= request[r].now
        /\ q.pc = "answered" => ~(rows[i].expires <= request[r].now) \/ request[r].again
    BY <1>0, <1>2 DEF Answer, Request
  <2>4. Timed(q, clock) BY <1>0, <1>1, <2>3 DEF Timed
  <2>5. \A j \in DOMAIN rows : j > i => rows[j].manifest # rows[i].manifest
    <3>1. rows \in Seq(Authorization) /\ OnlyNewestActive
      BY DEF AuthorizationInvariant, TableOK
    <3>2. DOMAIN rows = 1..Len(rows) /\ Len(rows) \in Nat BY <3>1, LenProperties
    <3> QED BY <2>1, <3>1, <3>2 DEF OnlyNewestActive
  <2>6. q.pc = "answered" => rows[i].expires > q.since
    <3>1. request[r].again => rows[i].expires > request[r].since
      BY <1>0, <1>1, <1>2, <2>1 DEF Usable
    <3> QED BY <1>2, <2>2, <2>3, <3>1
  <2>7. Usable(q, rows') BY <1>0, <2>1, <2>3, <2>5, <2>6 DEF Usable
  <2> QED BY <1>0, <1>3, <2>4, <2>7, TimelyMoves DEF ValidGrowth
<1> QED BY <1>0, <1>3, OtherTimely DEF Select, ValidGrowth

LEMMA RefreshTimely ==
  ASSUME AuthorizationInvariant, TimelyInvariant, NEW r \in Requests, Refresh(r)
  PROVE  TimelyInvariant'
<1> DEFINE i == request[r].id
           late == rows[i].expires <= request[r].now
           end == IF late THEN "expired" ELSE "invalidated"
           moves == rows[i].status \in Active /\ (late \/ rows[i].manifest # manifests)
<1>0. /\ request[r].pc = "refreshing" /\ UNCHANGED <<manifests, clock>>
      /\ request[r] \in Request /\ i \in DOMAIN rows /\ TableOK
      /\ rows[i].manifest = request[r].manifest
  BY RequestFacts DEF Refresh, RequestOK, AuthorizationInvariant
<1>1. Timed(request[r], clock) /\ Usable(request[r], rows) BY DEF TimelyInvariant
<1>2. PICK status : Continue(r, status) BY DEF Refresh
<1>3. moves => RowMoved(i, end)
  <2>1. moves => rows' = [rows EXCEPT ![i].status = end] BY DEF Refresh
  <2>2. end \in {"expired", "invalidated"} OBVIOUS
  <2> QED BY <1>0, <2>1, <2>2 DEF RowMoved, Transitions
<1>4. ~moves => UNCHANGED rows BY DEF Refresh
<1>5. ValidGrowth BY <1>3, <1>4 DEF ValidGrowth
<1>6. CASE request[r].op = "request"
  <2> DEFINE q == [request[r] EXCEPT !.pc = "inserting", !.again = TRUE,
                                     !.copy = status, !.now = request[r].now]
  <2>1. request' = [request EXCEPT ![r] = q] BY <1>2, <1>6 DEF Continue, GoesOn
  <2>2. /\ q.pc = "inserting" /\ q.op = "request" /\ q.id = i
        /\ q.now = request[r].now /\ q.since = request[r].since
        /\ q.manifest = request[r].manifest
    BY <1>0, <1>6 DEF Request
  <2>3. Timed(q, clock) BY <1>0, <1>1, <1>6, <2>2 DEF Timed
  <2>4. /\ late
        /\ \A j \in DOMAIN rows : j > i /\ rows[j].manifest = request[r].manifest
             => rows[j].expires > request[r].since
    BY <1>0, <1>1, <1>6 DEF Usable
  <2>5. DOMAIN rows' = DOMAIN rows
    BY <1>0, <1>3, <1>4, MovedFacts
  <2>6. rows'[i].status \notin Active
    <3>1. CASE moves
      <4>1. rows'[i].status = end BY <1>0, <1>3, <3>1, MovedFacts
      <4>2. end = "expired" BY <2>4
      <4> QED BY <4>1, <4>2 DEF Active
    <3>2. CASE ~moves
      <4>1. rows' = rows /\ rows[i].status \notin Active BY <1>4, <2>4, <3>2
      <4> QED BY <4>1
    <3> QED BY <3>1, <3>2
  <2>7. ASSUME NEW j \in DOMAIN rows', rows'[j].manifest = q.manifest,
               rows'[j].status \in Active
        PROVE  rows'[j].expires > q.since
    <3>1. /\ j \in DOMAIN rows /\ rows[j].manifest = request[r].manifest
          /\ rows[j].status \in Active /\ rows'[j].expires = rows[j].expires
      BY <1>0, <1>5, <2>2, <2>5, <2>7, GrowthKeeps
    <3>2. j # i BY <2>6, <2>7
    <3>3. ~(j < i) BY <1>0, <3>1 DEF TableOK, OnlyNewestActive
    <3>4. rows \in Seq(Authorization) BY <1>0 DEF TableOK
    <3>5. DOMAIN rows = 1..Len(rows) /\ Len(rows) \in Nat BY <3>4, LenProperties
    <3>6. j > i BY <1>0, <3>1, <3>2, <3>3, <3>5
    <3>7. rows[j].expires > request[r].since BY <2>4, <3>1, <3>6
    <3> QED BY <2>2, <3>1, <3>7
  <2>8. Usable(q, rows') BY <2>2, <2>7 DEF Usable
  <2> QED BY <1>0, <1>5, <2>1, <2>3, <2>8, TimelyMoves
<1>7. CASE request[r].op # "request"
  <2> DEFINE pc == GoesOn(request[r].op, status)
             now == IF pc = "deciding" THEN clock ELSE request[r].now
             q == [request[r] EXCEPT !.pc = pc, !.again = (request[r].op = "request"),
                                     !.copy = status, !.now = now]
  <2>1. CASE pc = "idle"
    BY <1>0, <1>2, <1>5, <2>1, OtherTimely DEF Continue, Return
  <2>2. CASE pc # "idle"
    <3>1. request' = [request EXCEPT ![r] = q] BY <1>2, <2>2 DEF Continue
    <3>2. pc \in {"checking", "deciding"} BY <1>7, <2>2 DEF GoesOn
    <3>3. /\ request[r].since <= now /\ now <= clock /\ clock < request[r].since + Validity
      BY <1>0, <1>1 DEF Timed, Request, TableOK
    <3> HIDE DEF pc, now
    <3>4. /\ q.pc = pc /\ q.now = now /\ q.op = request[r].op
          /\ q.since = request[r].since
      BY <1>0 DEF Request
    <3>5. Timed(q, clock) BY <1>7, <3>2, <3>3, <3>4 DEF Timed
    <3>6. Usable(q, rows') BY <1>7, <3>4 DEF Usable
    <3> QED BY <1>0, <1>5, <3>1, <3>5, <3>6, TimelyMoves
  <2> QED BY <2>1, <2>2
<1> QED BY <1>6, <1>7

LEMMA DecisionTimely ==
  ASSUME AuthorizationInvariant, TimelyInvariant, NEW r \in Requests,
         Approve(r) \/ Reject(r) \/ Revoke(r) \/ End(r)
  PROVE  TimelyInvariant'
<1>0. RequestOK(request[r], manifests, rows) BY RequestFacts
<1>1. Return(r) /\ UNCHANGED clock BY DEF Approve, Reject, Revoke, Decide, End
<1>2. ASSUME Approve(r) PROVE UNCHANGED rows \/ RowMoved(request[r].id, "approved")
  BY <1>0, <1>2 DEF Approve, RequestOK, RowMoved, Transitions
<1>3. ASSUME Reject(r) PROVE UNCHANGED rows \/ RowMoved(request[r].id, "rejected")
  BY <1>0, <1>3 DEF Reject, Decide, RequestOK, RowMoved, Transitions
<1>4. ASSUME Revoke(r) PROVE UNCHANGED rows \/ RowMoved(request[r].id, "revoked")
  BY <1>0, <1>4 DEF Revoke, Decide, RequestOK, RowMoved, Transitions
<1>5. End(r) => UNCHANGED rows BY DEF End
<1>6. ValidGrowth BY <1>2, <1>3, <1>4, <1>5 DEF ValidGrowth
<1> QED BY <1>1, <1>6, OtherTimely

LEMMA ReadingTimely ==
  ASSUME AuthorizationInvariant, TimelyInvariant, NEW r \in Requests,
         \/ Check(r)
         \/ \E m \in Manifests : StartRequest(r, m)
         \/ \E i \in DOMAIN rows, op \in Operation : StartRefresh(r, i, op)
  PROVE  TimelyInvariant'
<1>0. UNCHANGED <<rows, clock>> /\ clock \in Nat /\ request[r] \in Request
  BY RequestFacts DEF Check, StartRequest, StartRefresh, AuthorizationInvariant, TableOK
<1>1. ValidGrowth BY <1>0 DEF ValidGrowth
<1>2. CASE Check(r)
  <2> DEFINE q == [request[r] EXCEPT !.pc = "answered"]
  <2>1. Timed(request[r], clock) /\ request[r].pc = "checking"
    BY <1>2 DEF TimelyInvariant, Check
  <2>2. Timed(q, clock) /\ Usable(q, rows') BY <1>0, <2>1 DEF Timed, Usable, Request
  <2>3. request' = [request EXCEPT ![r] = q] \/ Return(r) BY <1>2 DEF Check
  <2> QED BY <1>0, <1>1, <2>2, <2>3, TimelyMoves, OtherTimely
<1>3. ASSUME NEW m \in Manifests, StartRequest(r, m) PROVE TimelyInvariant'
  <2> DEFINE q == [Idle EXCEPT !.pc = "inserting", !.op = "request", !.manifest = m,
                               !.now = clock, !.since = clock]
  <2>1. /\ q.pc = "inserting" /\ q.op = "request" /\ ~q.again
        /\ q.now = clock /\ q.since = clock
    BY DEF Idle
  <2> HIDE DEF q
  <2>2. clock < clock + Validity BY <1>0, ValidityAssumption
  <2>3. Timed(q, clock) BY <1>0, <2>1, <2>2 DEF Timed
  <2>4. Usable(q, rows') BY <2>1 DEF Usable
  <2>5. request' = [request EXCEPT ![r] = q] BY <1>3 DEF StartRequest, q
  <2> QED BY <1>0, <1>1, <2>5, <2>3, <2>4, TimelyMoves
<1>4. ASSUME NEW i \in DOMAIN rows, NEW op \in Operation, StartRefresh(r, i, op)
      PROVE  TimelyInvariant'
  <2> DEFINE q == [Idle EXCEPT !.pc = "refreshing", !.op = op,
                               !.manifest = rows[i].manifest, !.id = i,
                               !.copy = rows[i].status, !.now = clock, !.since = clock]
  <2>1. q.pc = "refreshing" /\ q.op = op /\ q.now = clock /\ q.since = clock
    BY DEF Idle
  <2>2. op # "request" BY <1>4 DEF StartRefresh
  <2> HIDE DEF q
  <2>3. clock < clock + Validity BY <1>0, ValidityAssumption
  <2>4. Timed(q, clock) BY <1>0, <2>1, <2>2, <2>3 DEF Timed
  <2>5. Usable(q, rows') BY <2>1, <2>2 DEF Usable
  <2>6. request' = [request EXCEPT ![r] = q] BY <1>4 DEF StartRefresh, q
  <2> QED BY <1>0, <1>1, <2>4, <2>5, <2>6, TimelyMoves
<1> QED BY <1>2, <1>3, <1>4

LEMMA AroundTimely ==
  ASSUME AuthorizationInvariant, TimelyInvariant, NewManifest \/ Tick
  PROVE  TimelyInvariant'
<1>0. UNCHANGED <<rows, request>> BY DEF NewManifest, Tick
<1>1. ASSUME NEW r \in Requests PROVE Timed(request[r], clock')
  <2>1. Timed(request[r], clock) /\ request[r] \in Request /\ clock \in Nat
    BY RequestFacts DEF TimelyInvariant, AuthorizationInvariant, TableOK
  <2>2. CASE NewManifest BY <2>1, <2>2 DEF NewManifest
  <2>3. CASE Tick BY <2>1, <2>3, ValidityAssumption DEF Tick, Timed, Request
  <2> QED BY <2>2, <2>3
<1> QED BY <1>0, <1>1 DEF TimelyInvariant

LEMMA NextTimely ==
  AuthorizationInvariant /\ TimelyInvariant /\ [Next]_vars => TimelyInvariant'
<1> SUFFICES ASSUME AuthorizationInvariant, TimelyInvariant, [Next]_vars
             PROVE  TimelyInvariant'
  OBVIOUS
<1>1. CASE UNCHANGED vars BY <1>1 DEF vars, TimelyInvariant
<1>2. CASE NewManifest \/ Tick BY <1>2, AroundTimely
<1>3. ASSUME NEW r \in Requests, Step(r) PROVE TimelyInvariant'
  <2>1. CASE Insert(r) BY <2>1, InsertTimely
  <2>2. CASE Select(r) BY <2>2, SelectTimely
  <2>3. CASE Refresh(r) BY <2>3, RefreshTimely
  <2>4. CASE Approve(r) \/ Reject(r) \/ Revoke(r) \/ End(r) BY <2>4, DecisionTimely
  <2>5. CASE Check(r) BY <2>5, ReadingTimely
  <2> QED BY <1>3, <2>1, <2>2, <2>3, <2>4, <2>5 DEF Step
<1>4. ASSUME NEW r \in Requests,
             \/ \E m \in Manifests : StartRequest(r, m)
             \/ \E i \in DOMAIN rows, op \in Operation : StartRefresh(r, i, op)
      PROVE  TimelyInvariant'
  BY <1>4, ReadingTimely
<1> QED BY <1>1, <1>2, <1>3, <1>4 DEF Next

\* request never answers with an authorization that was over when it arrived, while
\* no request lasts as long as an authorization is valid.
THEOREM Usability == Spec => []RequestedIsUsable
<1>1. Init => TimelyInvariant BY IdleTimely DEF Init, TimelyInvariant
<1>2. AuthorizationInvariant /\ TimelyInvariant /\ [Next]_vars => TimelyInvariant'
  BY NextTimely
<1>3. TimelyInvariant => RequestedIsUsable
  BY DEF TimelyInvariant, Usable, RequestedIsUsable
<1> QED BY <1>1, <1>2, <1>3, AuthorizationsCorrect, PTL DEF Spec

-----------------------------------------------------------------------------
(* The operator's access.                                                  *)

LEMMA PackagePermissions ==
  RequiredBy["submitAutoResolved"] = RequiredBy["getStatusAutoResolved"]
<1>1. ASSUME NEW o \in {"submitAutoResolved", "getStatusAutoResolved"}
      PROVE  RequiredBy[o] = "manage_campaign_preparation"
  <2>1. /\ o \in PackageOperations /\ o \notin CampaignOperations
        /\ o \notin ExecutionOperations /\ o \notin MetaOperations
        /\ o \notin ReadOperations
    BY DEF PackageOperations, CampaignOperations, ExecutionOperations, MetaOperations,
      ReadOperations
  <2>2. o \in CampaignOperations \cup ExecutionOperations \cup MetaOperations
           \cup PackageOperations \cup ReadOperations
    BY <2>1
  <2>3. RequiredBy[o] = CASE o \in CampaignOperations -> CampaignPermission(o)
       [] o \in ExecutionOperations -> ExecutionPermission(o)
       [] o \in MetaOperations -> "configure_tenant"
       [] o \in PackageOperations -> "manage_campaign_preparation"
       [] o \in ReadOperations -> "view_workspace"
    BY <2>2, Zenon DEF RequiredBy
  <2> QED BY <2>1, <2>3
<1> QED BY <1>1

LEMMA InitCall == NoCall \in Call /\ Nothing \in Past
<1>1. <<>> \in Listed
  <2>1. <<>> \in [{} -> [role : Roles, name : Names]] OBVIOUS
  <2> QED BY <2>1 DEF Listed
<1> QED BY <1>1 DEF NoCall, Call, CallPC, Nothing, Past

LEMMA MomentType ==
  ASSUME NEW q
  PROVE  Moment(q) \in Past
BY DEF Moment, Past, Permitting, ActiveMemberships

LEMMA MomentPrimeType ==
  ASSUME NEW r
  PROVE  Moment(call[r])' \in Past
BY DEF Moment, Past, Permitting, ActiveMemberships

LEMMA RememberType ==
  ASSUME past \in [Calls -> Past], Remember
  PROVE  past' \in [Calls -> Past]
<1>1. \A r \in Calls : past'[r] \in Past
  <2> TAKE r \in Calls
  <2> DEFINE now == Moment(call[r])'
             more == [permitted |-> past[r].permitted \cup now.permitted,
                      meant     |-> past[r].meant \cup now.meant,
                      shown     |-> past[r].shown \cap now.shown]
  <2>1. now \in Past BY MomentPrimeType
  <2>2. past[r] \in Past OBVIOUS
  <2>3. more \in Past BY <2>1, <2>2 DEF Past
  <2>4. past'[r] \in {past[r], Nothing, now, more} BY Zenon DEF Remember
  <2> QED BY <2>1, <2>2, <2>3, <2>4, InitCall
<1>2. past' = [r \in Calls |-> past'[r]] BY DEF Remember
<1> QED BY <1>1, <1>2

LEMMA RememberedAtTheEnd ==
  ASSUME Remember, NEW r \in Calls, IsOver(call[r])
  PROVE  past'[r] = past[r]
BY DEF Remember

LEMMA RememberedUnderWay ==
  ASSUME past \in [Calls -> Past], Remember, NEW r \in Calls,
         ~IsOver(call[r]), call[r].pc # "idle",
         call'[r].pc # "idle", call'[r].pc # "refused" \/ call[r].pc \in {"plan", "second"}
  PROVE  /\ past'[r].permitted = past[r].permitted \cup Moment(call[r])'.permitted
         /\ past'[r].meant = past[r].meant \cup Moment(call[r])'.meant
         /\ past'[r].shown = past[r].shown \cap Moment(call[r])'.shown
<1>1. past'[r] = [permitted |-> past[r].permitted \cup Moment(call[r])'.permitted,
                  meant     |-> past[r].meant \cup Moment(call[r])'.meant,
                  shown     |-> past[r].shown \cap Moment(call[r])'.shown]
  BY Zenon DEF Remember
<1> QED BY <1>1

LEMMA GoesTo ==
  ASSUME call \in [Calls -> Call], NEW r \in Calls, NEW local \in Call, Goes(r, local)
  PROVE  /\ call' \in [Calls -> Call]
         /\ call'[r] = local
         /\ \A s \in Calls \ {r} : call'[s] = call[s]
BY DEF Goes

LEMMA RefusesTo ==
  ASSUME call \in [Calls -> Call], NEW r \in Calls, Refuses(r)
  PROVE  /\ call' \in [Calls -> Call]
         /\ call'[r] = [call[r] EXCEPT !.pc = "refused"]
         /\ \A s \in Calls \ {r} : call'[s] = call[s]
<1>1. [call[r] EXCEPT !.pc = "refused"] \in Call BY DEF Call, CallPC
<1> QED BY <1>1, GoesTo DEF Refuses

LEMMA Kept ==
  ASSUME AccessInvariant, Remember, NEW r \in Calls, call'[r] = call[r],
         PackagesStay, audited \subseteq audited'
  PROVE  CallInvariant(r)'
<1> DEFINE q == call[r]
<1>1. /\ q \in Call /\ past[r] \in Past /\ past \in [Calls -> Past]
      /\ package \in [Packages -> Tenants \cup {None}] /\ CallInvariant(r)
  BY DEF AccessInvariant, ATypeOK
<1>2. IsAddressed(r)' BY <1>1 DEF CallInvariant, IsAddressed
<1>3. q.pc # "idle" /\ q.pc # "refused" =>
        /\ past[r].permitted \subseteq past'[r].permitted
        /\ past[r].meant \subseteq past'[r].meant
        /\ past'[r].shown \subseteq past[r].shown
  <2>1. CASE IsOver(q) BY <2>1, RememberedAtTheEnd
  <2>2. CASE ~IsOver(q) BY <2>2, <1>1, RememberedUnderWay
  <2> QED BY <2>1, <2>2
<1>4. IsPermitted(r)' BY <1>1, <1>3 DEF CallInvariant, IsPermitted, UnderWay
<1>5. IsMeant(r)'
  BY <1>1, <1>3 DEF CallInvariant, IsMeant, UnderWay, SelectedTenant, Matching, Candidates,
    Permits
<1>6. IsFound(r)'
  <2> SUFFICES ASSUME q.op = "getStatusAutoResolved" PROVE IsFound(r)'
    BY DEF IsFound
  <2>1. q.pc \notin {"idle", "refused"} => q.package \in Packages
    BY <1>1 DEF CallInvariant, IsAddressed, PackageOperations
  <2>2. \A t \in Tenants : (q.pc \notin {"idle", "refused"} /\ HasStatus(t, q.package))
          => HasStatus(t, q.package)'
    BY <2>1, NoneAssumption DEF PackagesStay, HasStatus
  <2>3. q.found \subseteq Tenants BY <1>1 DEF Call
  <2>4. q.pc \in UnderWay => q.tenant \in Tenants
    BY <1>1 DEF CallInvariant, IsAddressed
  <2>5. q.pc = "audit" => past'[r].shown \subseteq Candidates(q.listed)
    BY <1>1, <1>3 DEF CallInvariant, IsFound
  <2>6. q.pc = "look" => /\ past'[r].shown \subseteq q.left \cup q.found
                         /\ \A t \in q.found : HasStatus(t, q.package)'
    BY <1>1, <1>3, <2>2, <2>3 DEF CallInvariant, IsFound
  <2>7. q.pc \in UnderWay => HasStatus(q.tenant, q.package)'
    BY <1>1, <2>2, <2>4 DEF CallInvariant, IsFound, UnderWay
  <2>8. q.pc = "notFound" => past'[r].shown = {}
    BY <1>1, <1>3 DEF CallInvariant, IsFound
  <2>9. Candidates(q.listed)' = Candidates(q.listed) BY DEF Candidates, Permits
  <2> QED BY <2>5, <2>6, <2>7, <2>8, <2>9 DEF IsFound, HasStatus
<1>7. IsAudited(r)' BY <1>1 DEF CallInvariant, IsAudited
<1> QED BY <1>2, <1>4, <1>5, <1>6, <1>7 DEF CallInvariant

\* What a step of a request leaves true, of itself and of what the others rest on.
Keeps(r) ==
  /\ ATypeOK' /\ PackagesStay /\ audited \subseteq audited'
  /\ \A s \in Calls \ {r} : call'[s] = call[s]
  /\ CallInvariant(r)'
  /\ ~IsOver(call[r])
  /\ call[r].pc \in {"plan", "second"} => call'[r].pc \in {"second", "answered", "refused"}
  /\ \A c \in done' \ done :
       /\ c.by = r /\ call'[r].pc \in {"plan", "second", "answered"}
       /\ c.tenant \in past'[r].permitted
       /\ c.op = "submitAutoResolved" => c.tenant \in past'[r].meant

LEMMA Facts ==
  ASSUME AccessInvariant, NEW r \in Calls
  PROVE  /\ ATypeOK /\ call \in [Calls -> Call] /\ call[r] \in Call
         /\ past \in [Calls -> Past] /\ past[r] \in Past
         /\ IsAddressed(r) /\ IsPermitted(r) /\ IsMeant(r) /\ IsFound(r) /\ IsAudited(r)
BY DEF AccessInvariant, ATypeOK, CallInvariant

\* A refusal asks nothing more of the request.
LEMMA Refused ==
  ASSUME AccessInvariant, Remember, NEW r \in Calls, Refuses(r),
         UNCHANGED <<directory, package, planned, done>>, audited \subseteq audited',
         audited' \subseteq Calls \X Tenants, call[r].pc \notin {"idle", "refused"}, ~IsOver(call[r])
  PROVE  Keeps(r)
<1>1. /\ call' \in [Calls -> Call]
      /\ call'[r] = [call[r] EXCEPT !.pc = "refused"]
      /\ \A s \in Calls \ {r} : call'[s] = call[s]
  BY Facts, RefusesTo
<1>2. call'[r].pc = "refused" BY <1>1, Facts DEF Call
<1>3. CallInvariant(r)'
  BY <1>2 DEF CallInvariant, IsAddressed, IsPermitted, IsMeant, IsFound, IsAudited, UnderWay
<1>4. ATypeOK' BY <1>1, Facts DEF ATypeOK, directory
<1>5. PackagesStay BY DEF PackagesStay
<1> QED BY <1>1, <1>2, <1>3, <1>4, <1>5 DEF Keeps

\* A step that changes nothing but the request.
LEMMA Alone ==
  ASSUME AccessInvariant, NEW r \in Calls, NEW local \in Call, Goes(r, local),
         UNCHANGED <<directory, store>>, CallInvariant(r)', ~IsOver(call[r]),
         call[r].pc \in {"plan", "second"} => local.pc \in {"second", "answered", "refused"}
  PROVE  Keeps(r)
<1>1. /\ call' \in [Calls -> Call]
      /\ call'[r] = local
      /\ \A s \in Calls \ {r} : call'[s] = call[s]
  BY Facts, GoesTo
<1>2. ATypeOK' BY <1>1, Facts DEF ATypeOK, directory, store
<1>3. PackagesStay BY DEF PackagesStay, store
<1> QED BY <1>1, <1>2, <1>3 DEF Keeps, store

LEMMA ArriveKeeps ==
  ASSUME AccessInvariant, Remember, NEW r \in Calls, NEW o \in Operations, NEW token,
         Arrive(r, o, token)
  PROVE  Keeps(r)
<1>1. PICK t \in Tenants, business \in Names \cup {None}, p \in Packages :
        Goes(r, [NoCall EXCEPT
                  !.pc = IF o \in Unaddressed THEN "list" ELSE "authorize", !.op = o,
                  !.tenant = IF o \in Unaddressed THEN None ELSE t,
                  !.business = IF o = "submitAutoResolved" THEN business ELSE None,
                  !.package = IF o \in PackageOperations THEN p ELSE None])
  BY DEF Arrive
<1> DEFINE local == [NoCall EXCEPT
                  !.pc = IF o \in Unaddressed THEN "list" ELSE "authorize", !.op = o,
                  !.tenant = IF o \in Unaddressed THEN None ELSE t,
                  !.business = IF o = "submitAutoResolved" THEN business ELSE None,
                  !.package = IF o \in PackageOperations THEN p ELSE None]
<1>2. local \in Call BY InitCall DEF Call, CallPC
<1>3. /\ local.pc = (IF o \in Unaddressed THEN "list" ELSE "authorize") /\ local.op = o
      /\ local.tenant = (IF o \in Unaddressed THEN None ELSE t)
      /\ local.package = (IF o \in PackageOperations THEN p ELSE None)
      /\ local.found = {}
  BY InitCall DEF Call, NoCall
<1> HIDE DEF local
<1>4. call'[r] = local BY <1>1, <1>2, GoesTo, Facts DEF local
<1>5. CallInvariant(r)'
  BY <1>3, <1>4 DEF CallInvariant, IsAddressed, IsPermitted, IsMeant, IsFound, IsAudited,
    UnderWay, Unaddressed
<1> QED BY <1>1, <1>2, <1>5, Alone DEF Arrive, At, IsOver, local

LEMMA UnauthenticatedKeeps ==
  ASSUME AccessInvariant, Remember, NEW r \in Calls, NEW o \in Operations, NEW token,
         Unauthenticated(r, o, token)
  PROVE  Keeps(r)
<1> DEFINE local == [NoCall EXCEPT !.pc = "refused", !.op = o]
<1>1. local \in Call /\ local.pc = "refused" BY InitCall DEF Call, CallPC
<1> HIDE DEF local
<1>2. Goes(r, local) BY DEF Unauthenticated, local
<1>3. call'[r] = local BY <1>1, <1>2, GoesTo, Facts
<1>4. CallInvariant(r)'
  BY <1>1, <1>3 DEF CallInvariant, IsAddressed, IsPermitted, IsMeant, IsFound, IsAudited,
    UnderWay
<1> QED BY <1>1, <1>2, <1>4, Alone DEF Unauthenticated, At, IsOver

-----------------------------------------------------------------------------
(* What is listed, and what it selects.                                    *)

LEMMA ListedIsListed ==
  ASSUME ATypeOK
  PROVE  listActiveForSubject \in Listed
<1>1. \A t \in ActiveMemberships : role[t] \in Roles /\ name[t] \in Names
  BY DEF ATypeOK, ActiveMemberships
<1>2. listActiveForSubject \in [ActiveMemberships -> [role : Roles, name : Names]]
  BY <1>1 DEF listActiveForSubject
<1>3. ActiveMemberships \in SUBSET Tenants BY DEF ActiveMemberships
<1> QED BY <1>2, <1>3 DEF Listed

LEMMA ListedTenants ==
  ASSUME NEW listed \in Listed
  PROVE  DOMAIN listed \subseteq Tenants
BY DEF Listed

LEMMA CandidatesArePermitted ==
  /\ Candidates(listActiveForSubject) = Permitting("submitAutoResolved")
  /\ Candidates(listActiveForSubject) = Permitting("getStatusAutoResolved")
  /\ \A business : Matching(listActiveForSubject, business)
                    = {t \in Permitting("submitAutoResolved") : name[t] = business}
BY PackagePermissions DEF Candidates, Matching, Permits, Permitting, listActiveForSubject

LEMMA SelectedIsMeant ==
  ASSUME NEW business
  PROVE  \A t \in SelectedTenant(listActiveForSubject, business) :
           t \in Tenants /\ MayBeMeant(t, business)
<1> DEFINE listed == listActiveForSubject
           candidates == Permitting("submitAutoResolved")
           matching == {t \in candidates : name[t] = business}
<1>1. Candidates(listed) = candidates /\ Matching(listed, business) = matching
  BY CandidatesArePermitted
<1>2. candidates \subseteq Tenants BY DEF Permitting, ActiveMemberships
<1>3. IsFiniteSet(candidates) /\ IsFiniteSet(matching)
  BY <1>2, TenantsAssumption, FS_Subset
<1> HIDE DEF candidates, listed
<1>4. CASE Cardinality(matching) = 1
  <2>1. PICK x : matching = {x} BY <1>3, <1>4, FS_Singleton
  <2>2. x \in candidates /\ name[x] = business
        /\ \A u \in candidates \ {x} : name[u] # business
    BY <2>1
  <2> QED BY <2>1, <2>2, <1>1, <1>2, <1>4 DEF SelectedTenant, MayBeMeant, candidates, listed
<1>5. CASE Cardinality(matching) # 1 /\ Cardinality(candidates) = 1
  <2>1. PICK x : candidates = {x} BY <1>3, <1>5, FS_Singleton
  <2> QED BY <2>1, <1>1, <1>2, <1>5 DEF SelectedTenant, MayBeMeant, candidates, listed
<1>6. CASE Cardinality(matching) # 1 /\ Cardinality(candidates) # 1
  BY <1>1, <1>6 DEF SelectedTenant, listed
<1> QED BY <1>4, <1>5, <1>6

LEMMA ListTenantsKeeps ==
  ASSUME AccessInvariant, Remember, NEW r \in Calls, ListTenants(r)
  PROVE  Keeps(r)
<1> DEFINE q == call[r]
           local == [q EXCEPT !.pc = "audit", !.listed = listActiveForSubject]
<1>1. listActiveForSubject \in Listed BY Facts, ListedIsListed
<1>2. q \in Call /\ q.pc = "list" BY Facts DEF ListTenants, At
<1>3. local \in Call BY <1>1, <1>2 DEF Call, CallPC
<1>4. /\ local.pc = "audit" /\ local.listed = listActiveForSubject
      /\ local.op = q.op /\ local.business = q.business /\ local.tenant = q.tenant
      /\ local.package = q.package /\ local.found = q.found
  BY <1>2 DEF Call
<1>5. Goes(r, local) BY DEF ListTenants
<1>6. call'[r] = local BY <1>3, <1>5, GoesTo, Facts
<1> HIDE DEF local
<1>7. /\ past'[r].meant = past[r].meant \cup Moment(call[r])'.meant
      /\ past'[r].shown = past[r].shown \cap Moment(call[r])'.shown
  BY <1>2, <1>4, <1>6, Facts, RememberedUnderWay DEF IsOver
<1>8. IsAddressed(r)' BY <1>2, <1>4, <1>6, Facts DEF IsAddressed, UnderWay
<1>9. IsMeant(r)'
  <2>1. \A t \in SelectedTenant(listActiveForSubject, q.business) :
           t \in Tenants /\ MayBeMeant(t, q.business)
    BY SelectedIsMeant
  <2>2. SelectedTenant(call[r].listed, call[r].business)'
          = SelectedTenant(listActiveForSubject, q.business)
    BY <1>4, <1>6 DEF SelectedTenant, Matching, Candidates, Permits
  <2>3. Moment(call[r])'.meant = {t \in Tenants : MayBeMeant(t, q.business)}
    BY <1>4, <1>6 DEF Moment, MayBeMeant, Permitting, ActiveMemberships, ListTenants, directory
  <2> QED BY <2>1, <2>2, <2>3, <1>4, <1>6, <1>7 DEF IsMeant, UnderWay
<1>10. IsFound(r)'
  <2>1. Moment(call[r])'.shown \subseteq Permitting("getStatusAutoResolved")
    BY DEF Moment, Shows, HasStatus, Permitting, ActiveMemberships, ListTenants, directory
  <2>2. Candidates(call[r].listed)' = Permitting("getStatusAutoResolved")
    BY <1>4, <1>6, CandidatesArePermitted DEF Candidates, Permits
  <2> QED BY <2>1, <2>2, <1>4, <1>6, <1>7 DEF IsFound, UnderWay
<1>11. CallInvariant(r)'
  BY <1>4, <1>6, <1>8, <1>9, <1>10 DEF CallInvariant, IsPermitted, IsAudited, UnderWay
<1> QED BY <1>2, <1>3, <1>4, <1>5, <1>11, Alone DEF ListTenants, IsOver

LEMMA AuditKeeps ==
  ASSUME AccessInvariant, Remember, NEW r \in Calls, Audit(r)
  PROVE  Keeps(r)
<1> DEFINE q == call[r]
           selected == SelectedTenant(q.listed, q.business)
<1>1. q \in Call /\ q.pc = "audit" BY Facts DEF Audit, At
<1>2. DOMAIN q.listed \subseteq Tenants BY <1>1, ListedTenants DEF Call
<1>3. Candidates(q.listed) \subseteq Tenants /\ selected \subseteq Tenants
  BY <1>2 DEF SelectedTenant, Matching, Candidates
<1>4. /\ audited' = audited \cup ({r} \X DOMAIN q.listed)
      /\ UNCHANGED <<directory, package, planned, done>>
  BY DEF Audit
<1>5. audited' \subseteq Calls \X Tenants /\ \A t \in DOMAIN q.listed : <<r, t>> \in audited'
  BY <1>2, <1>4, Facts DEF ATypeOK
<1>6. ASSUME NEW local \in Call, Goes(r, local), local.pc \in {"answered", "look", "authorize"},
             local.listed = q.listed, CallInvariant(r)'
      PROVE  Keeps(r)
  <2>1. /\ call' \in [Calls -> Call] /\ call'[r] = local
        /\ \A s \in Calls \ {r} : call'[s] = call[s]
    BY <1>6, GoesTo, Facts
  <2>2. ATypeOK' BY <2>1, <1>4, <1>5, Facts DEF ATypeOK, directory
  <2>3. PackagesStay BY <1>4 DEF PackagesStay
  <2> QED BY <2>1, <2>2, <2>3, <1>1, <1>4, <1>6 DEF Keeps, IsOver
<1> HIDE DEF selected
<1>7. CASE q.op = "listTenants"
  <2> DEFINE local == [q EXCEPT !.pc = "answered"]
  <2>1. local \in Call /\ local.pc = "answered" /\ local.listed = q.listed
        /\ local.op = q.op /\ local.tenant = q.tenant
    BY <1>1 DEF Call, CallPC
  <2>2. Goes(r, local) BY <1>7 DEF Audit
  <2>3. call'[r] = local BY <2>1, <2>2, GoesTo, Facts
  <2> HIDE DEF local
  <2>4. CallInvariant(r)'
    BY <2>1, <2>3, <1>1, <1>5, <1>7, Facts DEF CallInvariant, IsAddressed, IsPermitted, IsMeant,
      IsFound, IsAudited, UnderWay, PackageOperations
  <2> QED BY <2>1, <2>2, <2>4, <1>6
<1>8. CASE q.op = "getStatusAutoResolved"
  <2> DEFINE local == [q EXCEPT !.pc = "look", !.left = Candidates(q.listed)]
  <2>1. local \in Call /\ local.pc = "look" /\ local.listed = q.listed
        /\ local.op = q.op /\ local.tenant = q.tenant /\ local.package = q.package
        /\ local.left = Candidates(q.listed) /\ local.found = q.found
    BY <1>1, <1>3 DEF Call, CallPC
  <2>2. Goes(r, local) BY <1>8 DEF Audit
  <2>3. call'[r] = local BY <2>1, <2>2, GoesTo, Facts
  <2> HIDE DEF local
  <2>4. past'[r].shown \subseteq past[r].shown
    BY <2>1, <2>3, <1>1, Facts, RememberedUnderWay DEF IsOver
  <2>5. IsFound(r)'
    BY <2>1, <2>3, <2>4, <1>1, <1>8, Facts DEF IsFound, IsAddressed, UnderWay
  <2>6. CallInvariant(r)'
    BY <2>1, <2>3, <2>5, <1>1, <1>5, <1>8, Facts DEF CallInvariant, IsAddressed, IsPermitted,
      IsMeant, IsAudited, UnderWay, PackageOperations
  <2> QED BY <2>1, <2>2, <2>6, <1>6
<1>9. CASE q.op \notin {"listTenants", "getStatusAutoResolved"} /\ selected = {}
  <2>1. Refuses(r) BY <1>9 DEF Audit, selected
  <2> QED BY <2>1, <1>1, <1>4, <1>5, Refused DEF IsOver
<1>10. CASE q.op \notin {"listTenants", "getStatusAutoResolved"} /\ selected # {}
  <2>1. PICK t \in selected : Goes(r, [q EXCEPT !.pc = "authorize", !.tenant = t])
    BY <1>10 DEF Audit, selected
  <2> DEFINE local == [q EXCEPT !.pc = "authorize", !.tenant = t]
  <2>2. local \in Call /\ local.pc = "authorize" /\ local.listed = q.listed
        /\ local.op = q.op /\ local.tenant = t /\ local.package = q.package
    BY <1>1, <1>3 DEF Call, CallPC
  <2>3. call'[r] = local BY <2>1, <2>2, GoesTo, Facts
  <2> HIDE DEF local
  <2>4. past[r].meant \subseteq past'[r].meant
    BY <2>2, <2>3, <1>1, Facts, RememberedUnderWay DEF IsOver
  <2>5. IsMeant(r)'
    BY <2>2, <2>3, <2>4, <1>1, Facts DEF IsMeant, UnderWay, selected
  <2>6. CallInvariant(r)'
    BY <2>2, <2>3, <2>5, <1>1, <1>3, <1>5, <1>10, Facts DEF CallInvariant, IsAddressed,
      IsPermitted, IsFound, IsAudited, UnderWay
  <2>7. Goes(r, local) BY <2>1 DEF local
  <2> QED BY <2>2, <2>6, <2>7, <1>6
<1> QED BY <1>7, <1>8, <1>9, <1>10

LEMMA AuditFailsKeeps ==
  ASSUME AccessInvariant, Remember, NEW r \in Calls, AuditFails(r)
  PROVE  Keeps(r)
<1>1. DOMAIN call[r].listed \subseteq Tenants BY Facts, ListedTenants DEF Call
<1>2. PICK kept \in SUBSET DOMAIN call[r].listed : audited' = audited \cup ({r} \X kept)
  BY DEF AuditFails
<1>3. audited' \subseteq Calls \X Tenants BY <1>1, <1>2, Facts DEF ATypeOK
<1> QED BY <1>2, <1>3, Refused DEF AuditFails, At, IsOver

LEMMA LookKeeps ==
  ASSUME AccessInvariant, Remember, NEW r \in Calls, Look(r)
  PROVE  Keeps(r)
<1> DEFINE q == call[r]
<1>1. q \in Call /\ q.pc = "look" /\ UNCHANGED <<directory, store>>
  BY Facts DEF Look, At
<1>2. q.op = "getStatusAutoResolved" BY <1>1, Facts DEF IsAddressed
<1>3. q.package \in Packages BY <1>1, <1>2, Facts DEF IsAddressed, PackageOperations
<1>4. CASE Refuses(r) BY <1>1, <1>4, Facts, Refused DEF IsOver, store, ATypeOK
<1>5. ASSUME NEW t \in q.left, NEW local,
             local = [q EXCEPT !.left = q.left \ {t},
                               !.found = IF HasStatus(t, q.package) THEN q.found \cup {t}
                                         ELSE q.found],
             Goes(r, local)
      PROVE  Keeps(r)
  <2>1. local \in Call BY <1>1, <1>5 DEF Call
  <2>2. /\ local.pc = "look" /\ local.op = q.op /\ local.tenant = q.tenant
        /\ local.package = q.package /\ local.left = q.left \ {t}
        /\ local.found = (IF HasStatus(t, q.package) THEN q.found \cup {t} ELSE q.found)
        /\ local.listed = q.listed
    BY <1>1, <1>5 DEF Call
  <2>3. call'[r] = local BY <2>1, <1>5, GoesTo, Facts
  <2>4. past'[r].shown = past[r].shown \cap Moment(call[r])'.shown
    BY <1>1, <2>2, <2>3, Facts, RememberedUnderWay DEF IsOver
  <2>5. \A u \in Tenants : HasStatus(u, q.package)' = HasStatus(u, q.package)
    BY <1>1, <2>2, <2>3 DEF HasStatus, store
  <2>6. \A u \in Moment(call[r])'.shown : u \in Tenants /\ HasStatus(u, q.package)
    BY <1>1, <2>2, <2>3 DEF Moment, Shows, HasStatus, store
  <2>7. past'[r].shown \subseteq local.left \cup local.found
    BY <1>1, <1>2, <2>2, <2>4, <2>6, Facts DEF IsFound
  <2>8. \A u \in local.found : u \in Tenants /\ HasStatus(u, q.package)
    BY <1>1, <1>2, <2>1, <2>2, Facts DEF IsFound, Call
  <2>9. IsFound(r)'
    BY <1>2, <2>2, <2>3, <2>5, <2>7, <2>8 DEF IsFound, UnderWay, HasStatus
  <2>10. CallInvariant(r)'
    BY <1>1, <1>2, <1>3, <2>2, <2>3, <2>9, Facts DEF CallInvariant, IsAddressed, IsPermitted,
      IsMeant, IsAudited, UnderWay, PackageOperations, store
  <2> QED BY <1>1, <1>5, <2>1, <2>2, <2>10, Alone DEF IsOver
<1> QED BY <1>4, <1>5 DEF Look

\* A step to another pc that changes nothing else of the request.
LEMMA Advances ==
  ASSUME NEW q \in Call, NEW pc \in CallPC, NEW local, local = [q EXCEPT !.pc = pc]
  PROVE  /\ local \in Call /\ local.pc = pc /\ local.op = q.op /\ local.tenant = q.tenant
         /\ local.package = q.package /\ local.listed = q.listed /\ local.found = q.found
         /\ local.business = q.business
BY DEF Call

LEMMA FoundKeeps ==
  ASSUME AccessInvariant, Remember, NEW r \in Calls, Found(r)
  PROVE  Keeps(r)
<1> DEFINE q == call[r]
<1>1. q \in Call /\ q.pc = "look" /\ q.left = {} /\ UNCHANGED <<directory, store>>
  BY Facts DEF Found, At
<1>2. q.op = "getStatusAutoResolved" BY <1>1, Facts DEF IsAddressed
<1>3. q.package \in Packages BY <1>1, <1>2, Facts DEF IsAddressed, PackageOperations
<1>4. q.found \subseteq Tenants BY <1>1 DEF Call
<1>5. CASE q.found = {}
  <2> DEFINE local == [q EXCEPT !.pc = "notFound"]
  <2>1. /\ local \in Call /\ local.pc = "notFound" /\ local.op = q.op /\ local.tenant = q.tenant
        /\ local.package = q.package /\ local.listed = q.listed
    BY <1>1, Advances DEF CallPC
  <2> HIDE DEF local
  <2>2. Goes(r, local) BY <1>1, <1>5 DEF Found, local
  <2>3. call'[r] = local BY <2>1, <2>2, GoesTo, Facts
  <2>4. past'[r].shown = {}
    BY <2>1, <2>3, <1>1, <1>2, <1>5, Facts, RememberedUnderWay DEF IsOver, IsFound
  <2>5. CallInvariant(r)'
    BY <2>1, <2>3, <2>4, <1>1, <1>2, <1>3, Facts DEF CallInvariant, IsAddressed, IsPermitted,
      IsMeant, IsFound, IsAudited, UnderWay, store
  <2> QED BY <2>1, <2>2, <2>5, <1>1, Alone DEF IsOver
<1>6. CASE q.found # {} /\ Cardinality(q.found) > 1
  <2>1. Refuses(r) BY <1>6 DEF Found
  <2> QED BY <2>1, <1>1, Facts, Refused DEF IsOver, store, ATypeOK
<1>7. CASE q.found # {} /\ ~(Cardinality(q.found) > 1)
  <2>1. PICK t \in q.found : Goes(r, [q EXCEPT !.pc = "authorize", !.tenant = t])
    BY <1>7 DEF Found
  <2> DEFINE local == [q EXCEPT !.pc = "authorize", !.tenant = t]
  <2>2. /\ local \in Call /\ local.pc = "authorize" /\ local.op = q.op /\ local.tenant = t
        /\ local.package = q.package /\ local.listed = q.listed
    BY <1>1, <1>4, <2>1 DEF Call, CallPC
  <2> HIDE DEF local
  <2>3. Goes(r, local) BY <2>1 DEF local
  <2>4. call'[r] = local BY <2>2, <2>3, GoesTo, Facts
  <2>5. HasStatus(t, q.package) BY <1>1, <1>2, <2>1, Facts DEF IsFound
  <2>6. CallInvariant(r)'
    BY <2>1, <2>2, <2>4, <2>5, <1>1, <1>2, <1>3, <1>4, Facts DEF CallInvariant, IsAddressed,
      IsPermitted, IsMeant, IsFound, IsAudited, UnderWay, HasStatus, store
  <2> QED BY <2>2, <2>3, <2>6, <1>1, Alone DEF IsOver
<1> QED BY <1>5, <1>6, <1>7

\* A request that is under way stays right when it goes on.
LEMMA Onward ==
  ASSUME AccessInvariant, Remember, NEW r \in Calls, call[r].pc \in UnderWay \ {"answered"},
         NEW pc \in UnderWay \ {"authorize"}, call'[r] = [call[r] EXCEPT !.pc = pc],
         PackagesStay, audited \subseteq audited',
         pc = "answered" => call[r].op # "listTenants" \/ call[r].tenant \in Tenants,
         pc = "plan" => call[r].op \in PackageOperations,
         \/ call[r].pc # "authorize"
         \/ call[r].tenant \in Moment(call[r])'.permitted
  PROVE  CallInvariant(r)' /\ past[r].permitted \subseteq past'[r].permitted
           /\ past[r].meant \subseteq past'[r].meant
<1> DEFINE q == call[r]
           local == [q EXCEPT !.pc = pc]
<1>1. q \in Call /\ pc \in CallPC /\ ~IsOver(q) /\ pc \notin {"idle", "refused"}
      /\ q.pc \in {"authorize", "target", "change", "plan", "second"}
  BY Facts DEF UnderWay, CallPC, IsOver
<1>2. /\ local \in Call /\ local.pc = pc /\ local.op = q.op /\ local.tenant = q.tenant
      /\ local.package = q.package /\ local.listed = q.listed
  BY <1>1, Advances
<1> HIDE DEF local
<1>3. call'[r] = local BY DEF local
<1>4. /\ past'[r].permitted = past[r].permitted \cup Moment(call[r])'.permitted
      /\ past'[r].meant = past[r].meant \cup Moment(call[r])'.meant
  BY <1>1, <1>2, <1>3, Facts, RememberedUnderWay
<1>5. q.tenant \in Tenants BY <1>1, Facts DEF IsAddressed, UnderWay
<1>6. IsAddressed(r)' BY <1>1, <1>2, <1>3, <1>5, Facts DEF IsAddressed, UnderWay
<1>7. IsPermitted(r)' BY <1>1, <1>2, <1>3, <1>4, Facts DEF IsPermitted, UnderWay
<1>8. IsMeant(r)' BY <1>1, <1>2, <1>3, <1>4, Facts DEF IsMeant, UnderWay
<1>9. IsFound(r)'
  <2> SUFFICES ASSUME q.op = "getStatusAutoResolved" PROVE IsFound(r)'
    BY <1>2, <1>3 DEF IsFound
  <2>1. q.package \in Packages BY <1>1, Facts DEF IsAddressed, PackageOperations
  <2>2. HasStatus(q.tenant, q.package) BY <1>1, Facts DEF IsFound, UnderWay
  <2>3. HasStatus(q.tenant, q.package)'
    BY <2>1, <2>2, <1>5, NoneAssumption DEF PackagesStay, HasStatus
  <2> QED BY <2>3, <1>2, <1>3 DEF IsFound, HasStatus, UnderWay
<1>10. IsAudited(r)' BY <1>1, <1>2, <1>3, Facts DEF IsAudited, UnderWay
<1> QED BY <1>4, <1>6, <1>7, <1>8, <1>9, <1>10 DEF CallInvariant

LEMMA AuthorizeKeeps ==
  ASSUME AccessInvariant, Remember, NEW r \in Calls, Authorize(r)
  PROVE  Keeps(r)
<1> DEFINE q == call[r]
           pc == CASE q.op \in Reads -> "answered"
                   [] q.op = "submitAutoResolved" -> "target"
                   [] OTHER -> "change"
           local == [q EXCEPT !.pc = pc]
<1>1. q \in Call /\ q.pc = "authorize" /\ UNCHANGED <<directory, store>>
  BY Facts DEF Authorize, At
<1>2. CASE ~Permits(listActiveForSubject, q.tenant, q.op)
  <2>1. Refuses(r) BY <1>2 DEF Authorize
  <2> QED BY <2>1, <1>1, Facts, Refused DEF IsOver, store, ATypeOK
<1>3. CASE Permits(listActiveForSubject, q.tenant, q.op)
  <2>1. Goes(r, local) BY <1>3, Zenon DEF Authorize
  <2>2. pc \in {"answered", "target", "change"} OBVIOUS
  <2> HIDE DEF pc
  <2>3. /\ local \in Call /\ local.pc = pc /\ local.op = q.op /\ local.tenant = q.tenant
        /\ local.package = q.package /\ local.listed = q.listed
    BY <1>1, <2>2, Advances DEF CallPC
  <2>4. call'[r] = local BY <2>1, <2>3, GoesTo, Facts
  <2>5. q.op \in Operations BY <1>1, Facts DEF IsAddressed
  <2>6. q.tenant \in Permitting(q.op)
    BY <1>3 DEF Permits, Permitting, listActiveForSubject
  <2> HIDE DEF local
  <2>7. q.tenant \in Moment(call[r])'.permitted
    BY <2>3, <2>4, <2>5, <2>6, <1>1, NoneAssumption DEF Moment, Permitting, ActiveMemberships,
      directory
  <2>8. PackagesStay /\ audited \subseteq audited' BY <1>1 DEF PackagesStay, store
  <2>9. q.tenant \in Tenants BY <2>6 DEF Permitting, ActiveMemberships
  <2>10. call'[r] = [call[r] EXCEPT !.pc = pc] BY <2>4 DEF local
  <2>11. CallInvariant(r)'
    BY <2>2, <2>7, <2>8, <2>9, <2>10, <1>1, Onward DEF UnderWay
  <2> QED BY <2>1, <2>3, <2>11, <1>1, Alone DEF IsOver
<1> QED BY <1>2, <1>3

LEMMA SelectTargetKeeps ==
  ASSUME AccessInvariant, Remember, NEW r \in Calls, SelectTarget(r)
  PROVE  Keeps(r)
<1>1. call[r] \in Call /\ call[r].pc = "target" /\ UNCHANGED <<directory, store>>
  BY Facts DEF SelectTarget, At
<1>2. CASE Refuses(r) BY <1>1, <1>2, Facts, Refused DEF IsOver, store, ATypeOK
<1>3. CASE Goes(r, [call[r] EXCEPT !.pc = "change"])
  <2>1. /\ [call[r] EXCEPT !.pc = "change"] \in Call
        /\ [call[r] EXCEPT !.pc = "change"].pc = "change"
    BY <1>1, Advances DEF CallPC
  <2>2. call'[r] = [call[r] EXCEPT !.pc = "change"] BY <2>1, <1>3, GoesTo, Facts
  <2>3. PackagesStay /\ audited \subseteq audited' BY <1>1 DEF PackagesStay, store
  <2>4. CallInvariant(r)' BY <2>2, <2>3, <1>1, Onward DEF UnderWay
  <2> QED BY <2>1, <2>4, <1>1, <1>3, Alone DEF IsOver
<1> QED BY <1>2, <1>3 DEF SelectTarget

LEMMA SecondKeeps ==
  ASSUME AccessInvariant, Remember, NEW r \in Calls, Second(r)
  PROVE  Keeps(r)
<1>1. call[r] \in Call /\ call[r].pc = "second" /\ UNCHANGED <<directory, store>>
  BY Facts DEF Second, At
<1>2. CASE Refuses(r) BY <1>1, <1>2, Facts, Refused DEF IsOver, store, ATypeOK
<1>3. CASE Goes(r, [call[r] EXCEPT !.pc = "answered"])
  <2>1. /\ [call[r] EXCEPT !.pc = "answered"] \in Call
        /\ [call[r] EXCEPT !.pc = "answered"].pc = "answered"
    BY <1>1, Advances DEF CallPC
  <2>2. call'[r] = [call[r] EXCEPT !.pc = "answered"] BY <2>1, <1>3, GoesTo, Facts
  <2>3. PackagesStay /\ audited \subseteq audited' BY <1>1 DEF PackagesStay, store
  <2>4. call[r].tenant \in Tenants BY <1>1, Facts DEF IsAddressed, UnderWay
  <2>5. CallInvariant(r)' BY <2>2, <2>3, <2>4, <1>1, Onward DEF UnderWay
  <2> QED BY <2>1, <2>5, <1>1, <1>3, Alone DEF IsOver
<1> QED BY <1>2, <1>3 DEF Second

\* The one that makes a change was permitted to, and a package was meant for its tenant.
LEMMA MakesWhatWasPermitted ==
  ASSUME AccessInvariant, NEW r \in Calls, call[r].pc = "change", Made(r),
         past[r].permitted \subseteq past'[r].permitted, past[r].meant \subseteq past'[r].meant
  PROVE  /\ done' \subseteq [by : Calls, op : Operations, tenant : Tenants]
         /\ \A c \in done' \ done :
              /\ c.by = r /\ c.op = call[r].op
              /\ c.tenant \in past'[r].permitted
              /\ c.op = "submitAutoResolved" => c.tenant \in past'[r].meant
<1> DEFINE made == [by |-> r, op |-> call[r].op, tenant |-> call[r].tenant]
<1>1. call[r].tenant \in Tenants /\ call[r].op \in Operations
  BY Facts DEF IsAddressed, UnderWay
<1>2. done \subseteq [by : Calls, op : Operations, tenant : Tenants] BY Facts DEF ATypeOK
<1>3. done' = done \cup {made} BY DEF Made
<1>4. call[r].tenant \in past[r].permitted
  BY <1>1, NoneAssumption, Facts DEF IsPermitted, UnderWay
<1>5. call[r].op = "submitAutoResolved" => call[r].tenant \in past[r].meant
  BY Facts DEF IsMeant, UnderWay
<1> QED BY <1>1, <1>2, <1>3, <1>4, <1>5

LEMMA ChangeKeeps ==
  ASSUME AccessInvariant, Remember, NEW r \in Calls, Change(r)
  PROVE  Keeps(r)
<1> DEFINE pc == IF call[r].op \in Twice THEN "second" ELSE "answered"
           local == [call[r] EXCEPT !.pc = pc]
<1>1. /\ call[r] \in Call /\ call[r].pc = "change" /\ Made(r) /\ Goes(r, local)
      /\ UNCHANGED <<directory, package, audited>> /\ planned \subseteq planned'
      /\ planned' \subseteq Packages
  BY Facts DEF Change, At, ATypeOK
<1>2. pc \in {"second", "answered"} OBVIOUS
<1> HIDE DEF pc
<1>3. local \in Call /\ local.pc = pc BY <1>1, <1>2, Advances DEF CallPC
<1>4. /\ call' \in [Calls -> Call] /\ call'[r] = local
      /\ \A s \in Calls \ {r} : call'[s] = call[s]
  BY <1>1, <1>3, GoesTo, Facts
<1>5. PackagesStay BY <1>1 DEF PackagesStay
<1>6. call[r].tenant \in Tenants BY <1>1, Facts DEF IsAddressed, UnderWay
<1>7. /\ CallInvariant(r)' /\ past[r].permitted \subseteq past'[r].permitted
      /\ past[r].meant \subseteq past'[r].meant
  BY <1>1, <1>2, <1>4, <1>5, <1>6, Onward DEF UnderWay
<1>8. /\ done' \subseteq [by : Calls, op : Operations, tenant : Tenants]
      /\ \A c \in done' \ done :
           /\ c.by = r
           /\ c.tenant \in past'[r].permitted
           /\ c.op = "submitAutoResolved" => c.tenant \in past'[r].meant
  BY <1>1, <1>7, MakesWhatWasPermitted
<1>9. ATypeOK' BY <1>1, <1>4, <1>8, Facts DEF ATypeOK, directory
<1> HIDE DEF local
<1> QED BY <1>1, <1>2, <1>3, <1>4, <1>5, <1>7, <1>8, <1>9 DEF Keeps, IsOver

LEMMA StoreContextKeeps ==
  ASSUME AccessInvariant, Remember, NEW r \in Calls, StoreContext(r)
  PROVE  Keeps(r)
<1> DEFINE q == call[r]
           local == [q EXCEPT !.pc = "plan"]
<1>1. /\ q \in Call /\ q.pc = "change" /\ Made(r) /\ Goes(r, local)
      /\ package[q.package] \in {None, q.tenant}
      /\ package' = [package EXCEPT ![q.package] = q.tenant]
      /\ UNCHANGED <<directory, planned, audited>> /\ q.op \in PackageOperations
  BY Facts DEF StoreContext, At
<1>2. local \in Call /\ local.pc = "plan" BY <1>1, Advances DEF CallPC
<1>3. /\ call' \in [Calls -> Call] /\ call'[r] = local
      /\ \A s \in Calls \ {r} : call'[s] = call[s]
  BY <1>1, <1>2, GoesTo, Facts
<1>4. q.tenant \in Tenants /\ q.package \in Packages
  BY <1>1, Facts DEF IsAddressed, UnderWay
<1>5. package \in [Packages -> Tenants \cup {None}] BY Facts DEF ATypeOK
<1>6. PackagesStay /\ package' \in [Packages -> Tenants \cup {None}]
  BY <1>1, <1>4, <1>5 DEF PackagesStay
<1>7. /\ CallInvariant(r)' /\ past[r].permitted \subseteq past'[r].permitted
      /\ past[r].meant \subseteq past'[r].meant
  BY <1>1, <1>3, <1>4, <1>6, Onward DEF UnderWay
<1>8. /\ done' \subseteq [by : Calls, op : Operations, tenant : Tenants]
      /\ \A c \in done' \ done :
           /\ c.by = r
           /\ c.tenant \in past'[r].permitted
           /\ c.op = "submitAutoResolved" => c.tenant \in past'[r].meant
  BY <1>1, <1>7, MakesWhatWasPermitted
<1>9. ATypeOK' BY <1>1, <1>3, <1>6, <1>8, Facts DEF ATypeOK, directory
<1> HIDE DEF local
<1> QED BY <1>1, <1>2, <1>3, <1>6, <1>7, <1>8, <1>9 DEF Keeps, IsOver

\* The plan makes a status of a context, and takes none away.
LEMMA GeneratePlanKeeps ==
  ASSUME AccessInvariant, Remember, NEW r \in Calls, GeneratePlan(r)
  PROVE  Keeps(r)
<1> DEFINE q == call[r]
           local == [q EXCEPT !.pc = "second"]
<1>1. /\ q \in Call /\ q.pc = "plan" /\ planned' = planned \cup {q.package}
      /\ Goes(r, local) /\ UNCHANGED <<directory, package, audited, done>>
  BY Facts DEF GeneratePlan, At
<1>2. local \in Call /\ local.pc = "second" BY <1>1, Advances DEF CallPC
<1>3. /\ call' \in [Calls -> Call] /\ call'[r] = local
      /\ \A s \in Calls \ {r} : call'[s] = call[s]
  BY <1>1, <1>2, GoesTo, Facts
<1>4. q.package \in Packages BY <1>1, Facts DEF IsAddressed
<1>5. PackagesStay BY <1>1 DEF PackagesStay
<1>6. CallInvariant(r)' BY <1>1, <1>3, <1>5, Onward DEF UnderWay
<1>7. ATypeOK' BY <1>1, <1>3, <1>4, Facts DEF ATypeOK, directory
<1> HIDE DEF local
<1> QED BY <1>1, <1>2, <1>3, <1>5, <1>6, <1>7 DEF Keeps, IsOver

LEMMA FailsKeeps ==
  ASSUME AccessInvariant, Remember, NEW r \in Calls, Fails(r)
  PROVE  Keeps(r)
BY Facts, Refused DEF Fails, At, IsOver, store, ATypeOK

-----------------------------------------------------------------------------
(* Every step keeps the invariant.                                         *)

LEMMA KeptByRequests ==
  ASSUME AccessInvariant, Remember, NEW r \in Calls, Keeps(r)
  PROVE  AccessInvariant'
<1>1. past' \in [Calls -> Past] BY RememberType DEF AccessInvariant
<1>2. \A s \in Calls : CallInvariant(s)'
  <2> TAKE s \in Calls
  <2>1. CASE s = r BY <2>1 DEF Keeps
  <2>2. CASE s # r BY <2>2, Kept DEF Keeps
  <2> QED BY <2>1, <2>2
<1>3. ASSUME NEW c \in done'
      PROVE  /\ call'[c.by].pc \in {"plan", "second", "answered", "refused"}
             /\ c.tenant \in past'[c.by].permitted
             /\ c.op = "submitAutoResolved" => c.tenant \in past'[c.by].meant
  <2>1. CASE c \notin done BY <2>1 DEF Keeps
  <2>2. CASE c \in done
    <3>1. /\ c.by \in Calls /\ call[c.by].pc \in {"plan", "second", "answered", "refused"}
          /\ c.tenant \in past[c.by].permitted
          /\ c.op = "submitAutoResolved" => c.tenant \in past[c.by].meant
      BY <2>2 DEF AccessInvariant, DoneWasPermitted, ATypeOK
    <3>2. call'[c.by].pc \in {"plan", "second", "answered", "refused"}
      BY <3>1 DEF Keeps, IsOver
    <3>3. CASE IsOver(call[c.by]) BY <3>1, <3>2, <3>3, RememberedAtTheEnd
    <3>4. CASE ~IsOver(call[c.by])
      BY <3>1, <3>2, <3>4, RememberedUnderWay DEF IsOver, AccessInvariant
    <3> QED BY <3>3, <3>4
  <2> QED BY <2>1, <2>2
<1> QED BY <1>1, <1>2, <1>3 DEF AccessInvariant, DoneWasPermitted, Keeps

LEMMA CallStepKeeps ==
  ASSUME AccessInvariant, Remember, NEW r \in Calls, CallStep(r)
  PROVE  Keeps(r)
BY ArriveKeeps, UnauthenticatedKeeps, ListTenantsKeeps, AuditKeeps, AuditFailsKeeps, LookKeeps,
  FoundKeeps, AuthorizeKeeps, SelectTargetKeeps, ChangeKeeps, SecondKeeps, StoreContextKeeps,
  GeneratePlanKeeps, FailsKeeps DEF CallStep

LEMMA OutsideKeeps ==
  ASSUME AccessInvariant, Remember, Outside
  PROVE  AccessInvariant'
<1>1. ATypeOK BY DEF AccessInvariant
<1>2. UNCHANGED <<store, call>> /\ changes' \in 0..MaxChanges
  BY <1>1, ChangesAssumption
  DEF ATypeOK, Outside, Grant, RevokeMembership, ChangeProfile, Deploy, Changed
<1>3. /\ role' \in [Tenants -> Roles \cup {None}] /\ name' \in [Tenants -> Names]
      /\ suspended' \subseteq Tenants /\ running' \subseteq Environments
  <2>1. ASSUME NEW t \in Tenants, NEW as \in Roles, Grant(t, as)
        PROVE  <1>3!:
    BY <2>1, <1>1 DEF Grant, ATypeOK
  <2>2. ASSUME NEW t \in Tenants, RevokeMembership(t)
        PROVE  <1>3!:
    BY <2>2, <1>1 DEF RevokeMembership, ATypeOK
  <2>3. ASSUME NEW t \in Tenants, ChangeProfile(t)
        PROVE  <1>3!:
    BY <2>3, <1>1 DEF ChangeProfile, ATypeOK
  <2>4. ASSUME NEW e \in Environments, Deploy(e)
        PROVE  <1>3!:
    <3>1. e.tenant \in Tenants \cup {None} /\ e.display \in Names
      BY EnvironmentsAssumption DEF Environment
    <3>2. "owner" \in Roles BY DEF Roles, Permissions
    <3> QED BY <2>4, <3>1, <3>2, <1>1 DEF Deploy, ATypeOK
  <2> QED BY <2>1, <2>2, <2>3, <2>4 DEF Outside
<1>4. ATypeOK' BY <1>1, <1>2, <1>3 DEF ATypeOK, store
<1>5. past' \in [Calls -> Past] BY RememberType DEF AccessInvariant
<1>6. \A r \in Calls : CallInvariant(r)' BY <1>2, Kept DEF PackagesStay, store
<1>7. DoneWasPermitted'
  <2>1. ASSUME NEW c \in done
        PROVE  /\ c.tenant \in past'[c.by].permitted
               /\ c.op = "submitAutoResolved" => c.tenant \in past'[c.by].meant
    <3>1. /\ c.by \in Calls /\ call[c.by].pc \in {"plan", "second", "answered", "refused"}
          /\ c.tenant \in past[c.by].permitted
          /\ c.op = "submitAutoResolved" => c.tenant \in past[c.by].meant
      BY <1>1 DEF AccessInvariant, DoneWasPermitted, ATypeOK
    <3>2. CASE IsOver(call[c.by]) BY <3>1, <3>2, RememberedAtTheEnd
    <3>3. CASE ~IsOver(call[c.by])
      BY <3>1, <3>3, <1>2, RememberedUnderWay DEF IsOver, AccessInvariant
    <3> QED BY <3>2, <3>3
  <2> QED BY <2>1, <1>2 DEF DoneWasPermitted, AccessInvariant, store
<1> QED BY <1>4, <1>5, <1>6, <1>7 DEF AccessInvariant

LEMMA AccessStutters ==
  ASSUME AccessInvariant, UNCHANGED accessVars
  PROVE  AccessInvariant'
BY DEF AccessInvariant, accessVars, ATypeOK, CallInvariant, IsAddressed, IsPermitted, IsMeant,
  IsFound, IsAudited, DoneWasPermitted, SelectedTenant, Matching, Candidates, Permits,
  HasStatus

LEMMA AccessInitial ==
  ASSUME AInit
  PROVE  AccessInvariant
<1>1. PICK e \in Environments : running = {e} BY DEF AInit
<1>2. ATypeOK BY <1>1, InitCall, ChangesAssumption DEF AInit, ATypeOK
<1>3. past \in [Calls -> Past] BY InitCall DEF AInit
<1>4. \A r \in Calls : call[r].pc = "idle" BY DEF AInit, NoCall
<1>5. \A r \in Calls : CallInvariant(r)
  BY <1>4 DEF CallInvariant, IsAddressed, IsPermitted, IsMeant, IsFound, IsAudited, UnderWay
<1>6. DoneWasPermitted BY DEF AInit, DoneWasPermitted
<1> QED BY <1>2, <1>3, <1>5, <1>6 DEF AccessInvariant

\* The memberships, names and processes may change between any two steps: what a request
\* has listed, selected and found stays backed by what it met.
THEOREM AccessIsInvariant == ASpec => []AccessInvariant
<1>1. AInit => AccessInvariant BY AccessInitial
<1>2. AccessInvariant /\ [ANext]_accessVars => AccessInvariant'
  BY CallStepKeeps, KeptByRequests, OutsideKeeps, AccessStutters DEF ANext
<1> QED BY <1>1, <1>2, PTL DEF ASpec

LEMMA PackagesDoNotMove ==
  ASSUME AccessInvariant, [ANext]_accessVars
  PROVE  PackagesStay
<1>1. ASSUME NEW r \in Calls, CallStep(r), Remember PROVE PackagesStay
  BY <1>1, CallStepKeeps DEF Keeps
<1>2. ASSUME Outside PROVE PackagesStay
  BY <1>2 DEF Outside, Grant, RevokeMembership, ChangeProfile, Deploy, store, PackagesStay
<1>3. ASSUME UNCHANGED accessVars PROVE PackagesStay
  BY <1>3 DEF accessVars, PackagesStay
<1> QED BY <1>1, <1>2, <1>3 DEF ANext

LEMMA InvariantIsAccess ==
  ASSUME AccessInvariant
  PROVE  /\ ATypeOK /\ ChangesWerePermitted /\ PackagesWereMeant
         /\ StatusIsOfItsPackage /\ AnsweredTenantsAreAudited
<1>1. ChangesWerePermitted
  BY DEF AccessInvariant, DoneWasPermitted, CallInvariant, IsPermitted, ChangesWerePermitted,
    At, UnderWay
<1>2. PackagesWereMeant BY DEF AccessInvariant, DoneWasPermitted, PackagesWereMeant
<1>3. StatusIsOfItsPackage
  BY DEF AccessInvariant, CallInvariant, IsFound, StatusIsOfItsPackage, At, UnderWay
<1>4. AnsweredTenantsAreAudited
  BY DEF AccessInvariant, CallInvariant, IsAudited, AnsweredTenantsAreAudited, UnderWay
<1> QED BY <1>1, <1>2, <1>3, <1>4 DEF AccessInvariant

\* Why no request acts where it may not: every change was permitted in its tenant, packages
\* go where they may be meant and stay there, a status is of the tenant that has the package
\* and its plan, one that could be seen all along is found, and every answered tenant was
\* audited (OperatorAccessService).
THEOREM AccessStaysSound == ASpec => AccessIsSound
<1>1. AccessInvariant => /\ ATypeOK /\ ChangesWerePermitted /\ PackagesWereMeant
                         /\ StatusIsOfItsPackage /\ AnsweredTenantsAreAudited
  BY InvariantIsAccess
<1>2. AccessInvariant /\ [ANext]_accessVars => [PackagesStay]_accessVars
  BY PackagesDoNotMove
<1> QED BY <1>1, <1>2, AccessIsInvariant, PTL DEF ASpec, AccessIsSound

-----------------------------------------------------------------------------
(* The operator's views.                                                   *)

LEMMA NumberFacts ==
  /\ MaxTicks \in Nat /\ MaxVersions \in Nat \ {0} /\ MaxOthers \in Nat /\ Limit \in Nat
  /\ TicksPerDay \in Nat \ {0} /\ MaxEvents \in Nat
BY ViewNumbersAssumption

LEMMA NothingIsRead == NoReading \in Reading
<1>1. [c \in Campaigns |-> 0] \in [Campaigns -> Version] BY NumberFacts DEF Version
<1>2. [t \in Tenants |-> None] \in [Tenants -> SnapshotRow \cup {None}] OBVIOUS
<1>3. 0 \in 0..MaxTicks BY NumberFacts
<1> QED BY <1>1, <1>2, <1>3 DEF NoReading, Reading, ReadingPC

LEMMA SeenAtTheEnd ==
  ASSUME Meet, NEW r \in Readings, reading[r].pc = "answered", reading'[r].pc = "answered"
  PROVE  seen'[r] = seen[r]
BY DEF Meet

LEMMA SeenUnderWay ==
  ASSUME Meet, NEW r \in Readings, reading[r].pc # "answered",
         reading'[r].pc \notin {"idle", "refused"}
  PROVE  /\ seen'[r].plans = seen[r].plans \cup LatestPlans'
         /\ seen'[r].decisions = seen[r].decisions \cup LatestDecisions'
         /\ seen'[r].events = IF reading[r].pc = "idle" THEN DOMAIN events' ELSE seen[r].events
<1>1. seen'[r] = [plans     |-> seen[r].plans \cup LatestPlans',
                  decisions |-> seen[r].decisions \cup LatestDecisions',
                  events    |-> IF reading[r].pc = "idle" THEN DOMAIN events'
                                ELSE seen[r].events]
  BY Zenon DEF Meet
<1> QED BY <1>1

\* Events are only added: a newer one stays newer, and what they hide stays hidden.
EventsGrow ==
  /\ events' \in Seq(Event)
  /\ DOMAIN events \subseteq DOMAIN events'
  /\ \A e \in DOMAIN events : events'[e] = events[e]

LEMMA ConcerningGrows ==
  ASSUME EventsGrow, NEW c
  PROVE  /\ Concerning(c) \subseteq Concerning(c)'
         /\ Concerning(c)' \cap DOMAIN events = Concerning(c)
BY DEF Concerning, Concerns, EventsGrow

LEMMA HiddenStays ==
  ASSUME VTypeOK, VTypeOK', EventsGrow, NEW c, NEW e \in DOMAIN events, Hidden(e, c)
  PROVE  Hidden(e, c)'
<1> DEFINE before == {f \in Concerning(c) : Newer(f, e)}
           after == {f \in Concerning(c)' : Newer(f, e)'}
<1>1. Concerning(c) \subseteq DOMAIN events BY DEF Concerning
<1>2. before \subseteq after BY <1>1, ConcerningGrows DEF Newer, EventsGrow
<1>3. IsFiniteSet(Concerning(c)')
  <2>1. DOMAIN events' = 1..Len(events') /\ Len(events') \in Nat BY DEF EventsGrow
  <2>2. IsFiniteSet(DOMAIN events') BY <2>1, FS_Interval
  <2> QED BY <2>2, FS_Subset DEF Concerning
<1>4. IsFiniteSet(after) BY <1>3, FS_Subset
<1> HIDE DEF before, after
<1>5. /\ IsFiniteSet(before) /\ Cardinality(before) \in Nat /\ Cardinality(after) \in Nat
      /\ Cardinality(before) <= Cardinality(after)
  BY <1>2, <1>4, FS_Subset, FS_CardinalityType
<1>6. Cardinality(before) >= Limit BY DEF Hidden, before
<1>7. Cardinality(after) >= Limit BY <1>5, <1>6, NumberFacts
<1> QED BY <1>7 DEF Hidden, after

LEMMA ReadingKept ==
  ASSUME ViewsInvariant, VTypeOK', Meet, NEW r \in Readings, reading'[r] = reading[r],
         viewed \subseteq viewed', EventsGrow,
         \A c \in Campaigns : DOMAIN decision[c] \subseteq DOMAIN decision'[c]
  PROVE  ReadingInvariant(r)'
<1> DEFINE q == reading[r]
<1>1. q \in Reading /\ ReadingInvariant(r) /\ VTypeOK BY DEF ViewsInvariant, VTypeOK
<1>2. IsInOrder(r)'
  <2>1. q.toDecide \subseteq Campaigns BY <1>1 DEF Reading
  <2> QED BY <2>1, <1>1 DEF ReadingInvariant, IsInOrder
<1>3. q.pc \notin {"idle", "refused"} =>
        /\ seen[r].plans \subseteq seen'[r].plans
        /\ seen[r].decisions \subseteq seen'[r].decisions
        /\ seen'[r].events = seen[r].events
  <2>1. CASE q.pc = "answered" BY <2>1, SeenAtTheEnd
  <2>2. CASE q.pc # "answered" BY <2>2, SeenUnderWay
  <2> QED BY <2>1, <2>2
<1>4. HasSeen(r)'
  <2>1. q.toDecide \subseteq Campaigns BY <1>1 DEF Reading
  <2> QED BY <2>1, <1>1, <1>3 DEF ReadingInvariant, HasSeen
<1>5. IsViewed(r)' BY <1>1 DEF ReadingInvariant, IsViewed
<1>6. HasEvents(r)'
  <2> SUFFICES ASSUME q.kind = "timeline", q.pc \in {"read", "answered"}
               PROVE  HasEvents(r)'
    BY DEF HasEvents
  <2>1. seen'[r].events = seen[r].events BY <1>3
  <2>2. seen[r].events \subseteq DOMAIN events BY <1>1 DEF ReadingInvariant, HasEvents
  <2>3. ASSUME q.pc = "answered"
        PROVE  /\ q.shown \subseteq Concerning(q.campaign)'
               /\ \A e \in seen[r].events \cap Concerning(q.campaign)' :
                    events'[e].known => e \in q.shown \/ Hidden(e, q.campaign)'
    <3>1. /\ q.shown \subseteq Concerning(q.campaign)
          /\ \A e \in seen[r].events \cap Concerning(q.campaign) :
               events[e].known => e \in q.shown \/ Hidden(e, q.campaign)
      BY <2>3, <1>1 DEF ReadingInvariant, HasEvents
    <3>2. /\ Concerning(q.campaign) \subseteq Concerning(q.campaign)'
          /\ Concerning(q.campaign)' \cap DOMAIN events = Concerning(q.campaign)
      BY ConcerningGrows
    <3>3. ASSUME NEW e \in seen[r].events \cap Concerning(q.campaign)', events'[e].known,
                 e \notin q.shown
          PROVE  Hidden(e, q.campaign)'
      <4>1. e \in DOMAIN events /\ e \in Concerning(q.campaign) BY <2>2, <3>2
      <4>2. Hidden(e, q.campaign) BY <4>1, <3>1, <3>3 DEF EventsGrow
      <4> QED BY <4>1, <4>2, <1>1, HiddenStays
    <3> QED BY <3>1, <3>2, <3>3
  <2> QED BY <2>1, <2>2, <2>3 DEF HasEvents, EventsGrow
<1> QED BY <1>2, <1>4, <1>5, <1>6 DEF ReadingInvariant

\* What a step of a request leaves true, of itself and of what the others rest on.
Turned(r) ==
  /\ VTypeOK' /\ SnapshotsAreOfTheirTenantAndDay' /\ viewed \subseteq viewed'
  /\ UNCHANGED facts
  /\ \A s \in Readings \ {r} : reading'[s] = reading[s]
  /\ ReadingInvariant(r)'

LEMMA ReadingFacts ==
  ASSUME ViewsInvariant, NEW r \in Readings
  PROVE  /\ VTypeOK /\ reading \in [Readings -> Reading] /\ reading[r] \in Reading
         /\ IsInOrder(r) /\ HasSeen(r) /\ IsViewed(r) /\ HasEvents(r)
BY DEF ViewsInvariant, VTypeOK, ReadingInvariant

LEMMA TurnsTo ==
  ASSUME ViewsInvariant, NEW r \in Readings, NEW local \in Reading, Turns(r, local)
  PROVE  /\ reading' \in [Readings -> Reading]
         /\ reading'[r] = local
         /\ \A s \in Readings \ {r} : reading'[s] = reading[s]
         /\ UNCHANGED <<facts, snapshot, viewed>>
BY ReadingFacts DEF Turns

LEMMA TurnsRight ==
  ASSUME ViewsInvariant, NEW r \in Readings, NEW local \in Reading, Turns(r, local),
         ReadingInvariant(r)'
  PROVE  Turned(r)
<1>1. VTypeOK' BY TurnsTo, ReadingFacts DEF VTypeOK, facts
<1>2. SnapshotsAreOfTheirTenantAndDay'
  BY TurnsTo DEF ViewsInvariant, SnapshotsAreOfTheirTenantAndDay
<1> QED BY <1>1, <1>2, TurnsTo DEF Turned

\* A refusal asks nothing more of the request.
LEMMA RefusedTurns ==
  ASSUME ViewsInvariant, NEW r \in Readings, NEW local \in Reading, Turns(r, local),
         local.pc = "refused", local.kind \in ViewKinds \ Wide => local.campaign \in Campaigns
  PROVE  Turned(r)
<1>1. reading'[r] = local BY TurnsTo
<1>2. ReadingInvariant(r)' BY <1>1 DEF ReadingInvariant, IsInOrder, HasSeen, IsViewed, HasEvents
<1> QED BY <1>2, TurnsRight

LEMMA LatestStays ==
  ASSUME UNCHANGED facts
  PROVE  /\ LatestPlans' = LatestPlans /\ LatestDecisions' = LatestDecisions
         /\ events' = events /\ decision' = decision /\ plan' = plan
         /\ \A c : Concerning(c)' = Concerning(c) /\ Timeline(c)' = Timeline(c)
         /\ \A e, c : Hidden(e, c)' = Hidden(e, c)
BY DEF facts, LatestPlans, LatestDecisions, Concerning, Timeline, Hidden, Newer

LEMMA ListTurns ==
  ASSUME ViewsInvariant, Meet, NEW r \in Readings, NEW kind \in Kinds, List(r, kind)
  PROVE  Turned(r)
<1> DEFINE q == reading[r]
<1>1. q \in Reading /\ q.pc = "idle" /\ q = NoReading
  BY ReadingFacts DEF List, IsInOrder
<1>2. /\ q.toDecide = {} /\ q.items = {} /\ q.toSave = {} /\ q.toSelect = {} /\ q.shown = {}
      /\ q.kind = "none"
  BY <1>1 DEF NoReading
<1>3. kind \in ViewKinds BY KindsAssumption
<1>4. CASE kind \in Wide
  <2> DEFINE local == [q EXCEPT !.pc = "read", !.kind = kind, !.tenants = member,
                                !.toRead = member]
  <2>1. /\ local \in Reading /\ local.pc = "read" /\ local.kind = kind
        /\ local.toDecide = {} /\ local.items = {} /\ local.toSave = {} /\ local.toSelect = {}
    BY <1>1, <1>2, <1>3, ReadingFacts DEF Reading, ReadingPC, VTypeOK
  <2>2. Turns(r, local) BY <1>4 DEF List
  <2> HIDE DEF local
  <2>3. reading'[r] = local BY <2>1, <2>2, TurnsTo
  <2>4. ReadingInvariant(r)'
    BY <2>1, <2>3, <1>4 DEF ReadingInvariant, IsInOrder, HasSeen, IsViewed, HasEvents, Wide
  <2> QED BY <2>1, <2>2, <2>4, TurnsRight
<1>5. CASE kind \notin Wide
  <2>1. PICK c \in Campaigns :
          IF TenantOf[c] \notin member THEN Turns(r, [q EXCEPT !.pc = "refused"])
          ELSE Turns(r, [q EXCEPT !.pc = "read", !.kind = kind, !.campaign = c,
                                  !.tenants = {TenantOf[c]}, !.toRead = {TenantOf[c]}])
    BY <1>5 DEF List
  <2>2. TenantOf[c] \in Tenants BY TenantOfAssumption
  <2>3. CASE TenantOf[c] \notin member
    <3> DEFINE local == [q EXCEPT !.pc = "refused"]
    <3>1. local \in Reading /\ local.pc = "refused" /\ local.kind = "none"
      BY <1>1, <1>2 DEF Reading, ReadingPC
    <3>2. Turns(r, local) BY <2>1, <2>3
    <3> HIDE DEF local
    <3> QED BY <3>1, <3>2, RefusedTurns DEF ViewKinds
  <2>4. CASE TenantOf[c] \in member
    <3> DEFINE local == [q EXCEPT !.pc = "read", !.kind = kind, !.campaign = c,
                                  !.tenants = {TenantOf[c]}, !.toRead = {TenantOf[c]}]
    <3>1. /\ local \in Reading /\ local.pc = "read" /\ local.kind = kind /\ local.campaign = c
          /\ local.toDecide = {} /\ local.toSave = {} /\ local.toSelect = {}
          /\ local.toRead = {TenantOf[c]}
      BY <1>1, <1>2, <1>3, <2>2 DEF Reading, ReadingPC
    <3>2. Turns(r, local) BY <2>1, <2>4
    <3> HIDE DEF local
    <3>3. reading'[r] = local BY <3>1, <3>2, TurnsTo
    <3>4. seen'[r].events = DOMAIN events' BY <3>1, <3>3, <1>1, SeenUnderWay
    <3>5. ReadingInvariant(r)'
      BY <3>1, <3>3, <3>4, <1>5 DEF ReadingInvariant, IsInOrder, HasSeen, IsViewed, HasEvents
    <3> QED BY <3>1, <3>2, <3>5, TurnsRight
  <2> QED BY <2>3, <2>4
<1> QED BY <1>4, <1>5

LEMMA ReadPlansTurns ==
  ASSUME ViewsInvariant, Meet, NEW r \in Readings, NEW t \in Tenants, ReadPlans(r, t)
  PROVE  Turned(r)
<1> DEFINE q == reading[r]
           latest == {c \in Of(t) : plan[c] > 0}
           local == [q EXCEPT
                    !.toRead = q.toRead \ {t},
                    !.listed = [c \in DOMAIN q.listed |->
                                  IF c \in latest THEN plan[c] ELSE q.listed[c]],
                    !.toDecide = q.toDecide \cup (IF q.kind \in Wide THEN latest ELSE {}),
                    !.items = q.items \cup
                      (IF q.kind = "plans"
                       THEN {[campaign |-> c, plan |-> plan[c]] : c \in latest} ELSE {})]
<1>1. q \in Reading /\ q.pc = "read" /\ q.kind \in Wide \cup {"plans"} /\ Turns(r, local)
  BY ReadingFacts DEF ReadPlans
<1>2. latest \subseteq Campaigns BY DEF Of
<1>3. /\ plan \in [Campaigns -> Version] /\ decision \in [Campaigns -> Seq(Verdict)]
      /\ \A c \in Campaigns : Len(decision[c]) = plan[c]
  BY ReadingFacts DEF VTypeOK
<1>4. \A c \in latest : plan[c] \in DOMAIN decision[c]
  BY <1>2, <1>3, NumberFacts DEF Version
<1> DEFINE listed == [c \in DOMAIN q.listed |-> IF c \in latest THEN plan[c] ELSE q.listed[c]]
           more == IF q.kind = "plans"
                   THEN {[campaign |-> c, plan |-> plan[c]] : c \in latest} ELSE {}
<1>5. listed \in [Campaigns -> Version] BY <1>1, <1>2, <1>3 DEF Reading
<1>6. more \subseteq Item BY <1>2, <1>3 DEF Item
<1>7. \A c \in Campaigns : listed[c] = IF c \in latest THEN plan[c] ELSE q.listed[c]
  BY <1>1 DEF Reading
<1>8. /\ local \in Reading /\ local.pc = "read" /\ local.kind = q.kind
      /\ local.toSave = q.toSave /\ local.toSelect = q.toSelect /\ local.campaign = q.campaign
      /\ local.listed = listed /\ local.items = q.items \cup more
      /\ local.toDecide = q.toDecide \cup (IF q.kind \in Wide THEN latest ELSE {})
  <2> HIDE DEF listed, more, latest
  <2> QED BY <1>1, <1>2, <1>5, <1>6 DEF Reading, listed, more
<1> HIDE DEF local
<1>9. reading'[r] = local /\ UNCHANGED facts BY <1>1, <1>8, TurnsTo
<1>10. /\ seen'[r].plans = seen[r].plans \cup LatestPlans
       /\ seen'[r].decisions = seen[r].decisions \cup LatestDecisions
  BY <1>1, <1>8, <1>9, SeenUnderWay, LatestStays
<1>11. \A c \in local.toDecide :
         /\ listed[c] \in DOMAIN decision[c]
         /\ q.kind \in Wide => <<c, listed[c]>> \in seen[r].plans \cup LatestPlans
  <2> TAKE c \in local.toDecide
  <2>1. c \in Campaigns /\ (c \in latest \/ c \in q.toDecide) BY <1>1, <1>2, <1>8 DEF Reading
  <2>2. CASE c \in latest
    <3>1. listed[c] = plan[c] BY <2>1, <2>2, <1>7
    <3> QED BY <3>1, <2>1, <2>2, <1>4 DEF LatestPlans
  <2>3. CASE c \notin latest
    <3>1. listed[c] = q.listed[c] /\ c \in q.toDecide BY <2>1, <2>3, <1>7
    <3> QED BY <3>1, <2>3, <1>1, ReadingFacts DEF HasSeen, IsInOrder
  <2> QED BY <2>2, <2>3
<1> HIDE DEF listed, latest, more
<1>12. IsInOrder(r)' /\ HasSeen(r)'
  <2>1. IsInOrder(r)'
    BY <1>1, <1>8, <1>9, <1>11, LatestStays, ReadingFacts DEF IsInOrder, Wide
  <2>2. CASE q.kind \in Wide
    <3>1. local.items = q.items BY <2>2, <1>8 DEF Wide, more
    <3> QED BY <2>1, <2>2, <3>1, <1>1, <1>8, <1>9, <1>10, <1>11, ReadingFacts DEF HasSeen
  <2>3. CASE q.kind \notin Wide BY <2>1, <2>3, <1>8, <1>9 DEF HasSeen
  <2> QED BY <2>2, <2>3
<1>13. IsViewed(r)' /\ HasEvents(r)' BY <1>1, <1>8, <1>9 DEF IsViewed, HasEvents, Wide
<1> QED BY <1>1, <1>8, <1>12, <1>13, TurnsRight DEF ReadingInvariant

LEMMA ItemsOfWhatWasRead ==
  ASSUME NEW kind, NEW c \in Campaigns, NEW v \in Version, NEW d \in Verdict
  PROVE  /\ ItemsOf(kind, c, v, d) \subseteq Item
         /\ \A i \in ItemsOf(kind, c, v, d) : i.campaign = c /\ i.plan = v /\ i.of = d
<1>1. PortfolioItem(c, v, d) \in Item BY DEF PortfolioItem, Item
<1>2. WorkItems(c, v, d) \subseteq Item
  <2>1. CASE d = None BY <2>1 DEF WorkItems, Item, Owners
  <2>2. CASE d # None
    <3>1. d.blockers \subseteq Owners BY <2>2, DecisionsAssumption DEF Verdict
    <3>2. \A o : WorkPriority(d.status, o) \in {"critical", "high", "normal"}
      BY DEF WorkPriority
    <3>3. ASSUME NEW o \in d.blockers
          PROVE  [campaign |-> c, plan |-> v, of |-> d, owner |-> o,
                  priority |-> WorkPriority(d.status, o)] \in Item
      BY <3>1, <3>2 DEF Item
    <3> QED BY <2>2, <3>3 DEF WorkItems
  <2> QED BY <2>1, <2>2
<1>3. \A i \in WorkItems(c, v, d) : i.campaign = c /\ i.plan = v /\ i.of = d
  BY DEF WorkItems
<1>4. PortfolioItem(c, v, d).campaign = c /\ PortfolioItem(c, v, d).plan = v
      /\ PortfolioItem(c, v, d).of = d
  BY DEF PortfolioItem
<1> QED BY <1>1, <1>2, <1>3, <1>4 DEF ItemsOf

LEMMA DecisionOfAPlan ==
  ASSUME VTypeOK, NEW c \in Campaigns, NEW v \in DOMAIN decision[c]
  PROVE  /\ v \in Version /\ LatestDecision(c, v) \in Verdict
         /\ <<c, v, LatestDecision(c, v)>> \in LatestDecisions
<1>1. decision[c] \in Seq(Verdict) /\ Len(decision[c]) = plan[c] /\ plan[c] \in Version
  BY DEF VTypeOK
<1>2. v \in 1..plan[c] BY <1>1
<1>3. v \in Version /\ v # 0 BY <1>1, <1>2, NumberFacts DEF Version
<1>4. decision[c][v] \in Verdict BY <1>1
<1> QED BY <1>3, <1>4 DEF LatestDecision, LatestDecisions

LEMMA ReadDecisionTurns ==
  ASSUME ViewsInvariant, Meet, NEW r \in Readings, NEW c \in Campaigns, ReadDecision(r, c)
  PROVE  Turned(r)
<1> DEFINE q == reading[r]
           more == ItemsOf(q.kind, c, q.listed[c], LatestDecision(c, q.listed[c]))
           local == [q EXCEPT !.toDecide = q.toDecide \ {c}, !.items = q.items \cup more]
<1>1. /\ q \in Reading /\ q.pc = "read" /\ q.kind \in Wide /\ c \in q.toDecide
      /\ Turns(r, local)
  BY ReadingFacts DEF ReadDecision
<1>2. q.listed[c] \in DOMAIN decision[c] /\ <<c, q.listed[c]>> \in seen[r].plans
  BY <1>1, ReadingFacts DEF HasSeen, IsInOrder
<1>3. /\ q.listed[c] \in Version /\ LatestDecision(c, q.listed[c]) \in Verdict
      /\ <<c, q.listed[c], LatestDecision(c, q.listed[c])>> \in LatestDecisions
  BY <1>2, DecisionOfAPlan, ReadingFacts
<1>4. more \subseteq Item
      /\ \A i \in more : /\ <<i.campaign, i.plan>> \in seen[r].plans
                         /\ <<i.campaign, i.plan, i.of>> \in LatestDecisions
  BY <1>2, <1>3, ItemsOfWhatWasRead
<1> HIDE DEF more
<1>5. /\ local \in Reading /\ local.pc = "read" /\ local.kind = q.kind
      /\ local.toSave = q.toSave /\ local.toSelect = q.toSelect
      /\ local.listed = q.listed /\ local.items = q.items \cup more
      /\ local.toDecide = q.toDecide \ {c}
  BY <1>1, <1>4 DEF Reading
<1> HIDE DEF local
<1>6. reading'[r] = local /\ UNCHANGED facts BY <1>1, <1>5, TurnsTo
<1>7. /\ seen'[r].plans = seen[r].plans \cup LatestPlans
      /\ seen'[r].decisions = seen[r].decisions \cup LatestDecisions
  BY <1>1, <1>5, <1>6, SeenUnderWay, LatestStays
<1>8. IsInOrder(r)' BY <1>1, <1>5, <1>6, LatestStays, ReadingFacts DEF IsInOrder, Wide
<1>9. HasSeen(r)' BY <1>1, <1>4, <1>5, <1>6, <1>7, ReadingFacts DEF HasSeen
<1>10. IsViewed(r)' /\ HasEvents(r)' BY <1>1, <1>5, <1>6 DEF IsViewed, HasEvents, Wide
<1> QED BY <1>1, <1>5, <1>8, <1>9, <1>10, TurnsRight DEF ReadingInvariant

LEMMA ReadContextsTurns ==
  ASSUME ViewsInvariant, Meet, NEW r \in Readings, NEW t \in Tenants, ReadContexts(r, t)
  PROVE  Turned(r)
<1> DEFINE q == reading[r]
           items == {[campaign |-> c, version |-> context[c]] :
                                 c \in {x \in Of(t) : context[x] > 0}}
           local == [q EXCEPT !.toRead = {}, !.items = items]
<1>1. q \in Reading /\ q.pc = "read" /\ q.kind = "contexts" /\ Turns(r, local)
  BY ReadingFacts DEF ReadContexts
<1>2. items \subseteq Item BY ReadingFacts DEF VTypeOK, Of, Item
<1> HIDE DEF items
<1>3. /\ local \in Reading /\ local.pc = "read" /\ local.kind = q.kind
      /\ local.toSave = q.toSave /\ local.toSelect = q.toSelect /\ local.campaign = q.campaign
      /\ local.toDecide = q.toDecide /\ local.listed = q.listed
  BY <1>1, <1>2 DEF Reading
<1> HIDE DEF local
<1>4. reading'[r] = local /\ UNCHANGED facts BY <1>1, <1>3, TurnsTo
<1>5. ReadingInvariant(r)'
  BY <1>1, <1>3, <1>4, LatestStays, ReadingFacts DEF ReadingInvariant, IsInOrder, HasSeen,
    IsViewed, HasEvents, Wide
<1> QED BY <1>1, <1>3, <1>5, TurnsRight

LEMMA ReadPlanTurns ==
  ASSUME ViewsInvariant, Meet, NEW r \in Readings, NEW t \in Tenants, ReadPlan(r, t)
  PROVE  Turned(r)
<1> DEFINE q == reading[r]
<1>1. q \in Reading /\ q.pc = "read" /\ q.kind \in {"readiness", "timeline"}
  BY ReadingFacts DEF ReadPlan
<1>2. q.campaign \in Campaigns BY <1>1, ReadingFacts DEF IsInOrder
<1>3. PICK v \in 1..MaxVersions :
        IF v > plan[q.campaign] THEN Turns(r, [q EXCEPT !.pc = "refused"])
        ELSE Turns(r, [q EXCEPT !.toRead = {}, !.listed = [q.listed EXCEPT ![q.campaign] = v],
                                !.toDecide = {q.campaign}])
  BY DEF ReadPlan
<1>4. CASE v > plan[q.campaign]
  <2> DEFINE local == [q EXCEPT !.pc = "refused"]
  <2>1. local \in Reading /\ local.pc = "refused" /\ local.campaign = q.campaign
    BY <1>1 DEF Reading, ReadingPC
  <2>2. Turns(r, local) BY <1>3, <1>4
  <2> HIDE DEF local
  <2> QED BY <2>1, <2>2, <1>2, RefusedTurns
<1>5. CASE ~(v > plan[q.campaign])
  <2> DEFINE local == [q EXCEPT !.toRead = {}, !.listed = [q.listed EXCEPT ![q.campaign] = v],
                                !.toDecide = {q.campaign}]
  <2>1. v \in Version BY NumberFacts DEF Version
  <2>2. v \in DOMAIN decision[q.campaign]
    <3>1. /\ decision[q.campaign] \in Seq(Verdict) /\ plan[q.campaign] \in Version
          /\ Len(decision[q.campaign]) = plan[q.campaign]
      BY <1>2, ReadingFacts DEF VTypeOK
    <3> QED BY <3>1, <1>5, NumberFacts DEF Version
  <2>3. [q.listed EXCEPT ![q.campaign] = v] \in [Campaigns -> Version]
        /\ [q.listed EXCEPT ![q.campaign] = v][q.campaign] = v
    BY <1>1, <1>2, <2>1 DEF Reading
  <2>4. /\ local \in Reading /\ local.pc = "read" /\ local.kind = q.kind
        /\ local.toSave = q.toSave /\ local.toSelect = q.toSelect
        /\ local.campaign = q.campaign /\ local.toDecide = {q.campaign}
        /\ local.listed[q.campaign] = v
    BY <1>1, <1>2, <2>3 DEF Reading
  <2>5. Turns(r, local) BY <1>3, <1>5
  <2> HIDE DEF local
  <2>6. reading'[r] = local /\ UNCHANGED facts BY <2>4, <2>5, TurnsTo
  <2>7. seen'[r].events = seen[r].events BY <1>1, <2>4, <2>6, SeenUnderWay
  <2>8. IsInOrder(r)' BY <1>1, <1>2, <2>2, <2>4, <2>6, LatestStays, ReadingFacts DEF IsInOrder
  <2>9. HasSeen(r)' /\ IsViewed(r)' BY <1>1, <2>4, <2>6 DEF HasSeen, IsViewed, Wide
  <2>10. HasEvents(r)'
    BY <1>1, <2>4, <2>6, <2>7, LatestStays, ReadingFacts DEF HasEvents
  <2> QED BY <2>4, <2>5, <2>8, <2>9, <2>10, TurnsRight DEF ReadingInvariant
<1> QED BY <1>4, <1>5

LEMMA ReadReadinessTurns ==
  ASSUME ViewsInvariant, Meet, NEW r \in Readings, NEW c \in Campaigns, ReadReadiness(r, c)
  PROVE  Turned(r)
<1> DEFINE q == reading[r]
           d == LatestDecision(c, q.listed[c])
<1>1. q \in Reading /\ q.pc = "read" /\ q.kind = "readiness" /\ c \in q.toDecide
  BY ReadingFacts DEF ReadReadiness
<1>2. q.campaign \in Campaigns BY <1>1, ReadingFacts DEF IsInOrder
<1>3. q.listed[c] \in DOMAIN decision[c] BY <1>1, ReadingFacts DEF IsInOrder
<1>4. q.listed[c] \in Version /\ d \in Verdict BY <1>3, DecisionOfAPlan, ReadingFacts
<1> HIDE DEF d
<1>5. CASE d = None
  <2> DEFINE local == [q EXCEPT !.pc = "refused"]
  <2>1. local \in Reading /\ local.pc = "refused" /\ local.campaign = q.campaign
    BY <1>1 DEF Reading, ReadingPC
  <2>2. Turns(r, local) BY <1>5 DEF ReadReadiness, d
  <2> HIDE DEF local
  <2> QED BY <2>1, <2>2, <1>2, RefusedTurns
<1>6. CASE d # None
  <2> DEFINE local == [q EXCEPT !.toDecide = {}, !.items = {PortfolioItem(c, q.listed[c], d)}]
  <2>1. PortfolioItem(c, q.listed[c], d) \in Item BY <1>4 DEF PortfolioItem, Item
  <2>2. /\ local \in Reading /\ local.pc = "read" /\ local.kind = q.kind
        /\ local.toSave = q.toSave /\ local.toSelect = q.toSelect
        /\ local.campaign = q.campaign /\ local.toDecide = {}
    BY <1>1, <2>1 DEF Reading
  <2>3. Turns(r, local) BY <1>6 DEF ReadReadiness, d
  <2> HIDE DEF local
  <2>4. reading'[r] = local BY <2>2, <2>3, TurnsTo
  <2>5. ReadingInvariant(r)'
    BY <1>1, <1>2, <2>2, <2>4, ReadingFacts DEF ReadingInvariant, IsInOrder, HasSeen,
      IsViewed, HasEvents, Wide
  <2> QED BY <2>2, <2>3, <2>5, TurnsRight
<1> QED BY <1>5, <1>6

LEMMA ReadTimelineTurns ==
  ASSUME ViewsInvariant, Meet, NEW r \in Readings, NEW c \in Campaigns, ReadTimeline(r, c)
  PROVE  Turned(r)
<1> DEFINE q == reading[r]
           shown == Timeline(c)
           local == [q EXCEPT !.pc = "answered", !.toDecide = {}, !.shown = shown]
<1>1. /\ q \in Reading /\ q.pc = "read" /\ q.kind = "timeline" /\ c \in q.toDecide
      /\ Turns(r, local)
  BY ReadingFacts DEF ReadTimeline
<1>2. q.campaign = c BY <1>1, ReadingFacts DEF IsInOrder
<1>3. shown \subseteq Nat
  <2>1. DOMAIN events = 1..Len(events) /\ Len(events) \in Nat BY ReadingFacts DEF VTypeOK
  <2> QED BY <2>1 DEF Timeline, Concerning
<1>4. shown \subseteq Concerning(c)
      /\ \A e \in Concerning(c) : events[e].known => e \in shown \/ Hidden(e, c)
  BY DEF Timeline
<1> HIDE DEF shown
<1>5. /\ local \in Reading /\ local.pc = "answered" /\ local.kind = q.kind
      /\ local.toSave = q.toSave /\ local.toSelect = q.toSelect
      /\ local.campaign = q.campaign /\ local.shown = shown
  BY <1>1, <1>3 DEF Reading, ReadingPC
<1> HIDE DEF local
<1>6. reading'[r] = local /\ UNCHANGED facts BY <1>1, <1>5, TurnsTo
<1>7. seen'[r].events = seen[r].events BY <1>1, <1>5, <1>6, SeenUnderWay
<1>8. IsInOrder(r)' /\ HasSeen(r)' /\ IsViewed(r)'
  BY <1>1, <1>5, <1>6, ReadingFacts DEF IsInOrder, HasSeen, IsViewed, Wide
<1>9. HasEvents(r)'
  BY <1>1, <1>2, <1>4, <1>5, <1>6, <1>7, LatestStays, ReadingFacts DEF HasEvents
<1> QED BY <1>1, <1>5, <1>8, <1>9, TurnsRight DEF ReadingInvariant

LEMMA ComputeTurns ==
  ASSUME ViewsInvariant, Meet, NEW r \in Readings, Compute(r)
  PROVE  Turned(r)
<1> DEFINE q == reading[r]
           pc == IF q.kind = "workQueue" THEN "save" ELSE "audit"
           toSave == IF q.kind = "workQueue" THEN q.tenants ELSE {}
           local == [q EXCEPT !.generated = time, !.toAudit = q.tenants, !.pc = pc,
                              !.toSave = toSave]
<1>1. q \in Reading /\ q.pc = "read" /\ q.toRead = {} /\ q.toDecide = {} /\ Turns(r, local)
  BY ReadingFacts DEF Compute
<1>2. /\ toSave \subseteq Tenants /\ pc \in {"save", "audit"} /\ time \in 0..MaxTicks
      /\ pc = "audit" => toSave = {}
  BY <1>1, ReadingFacts DEF Reading, VTypeOK
<1> HIDE DEF pc, toSave
<1>3. /\ local \in Reading /\ local.pc = pc /\ local.kind = q.kind
      /\ local.toSave = toSave /\ local.toSelect = q.toSelect /\ local.tenants = q.tenants
      /\ local.campaign = q.campaign /\ local.toAudit = q.tenants /\ local.items = q.items
      /\ local.toDecide = {}
  BY <1>1, <1>2 DEF Reading, ReadingPC
<1> HIDE DEF local
<1>4. reading'[r] = local /\ UNCHANGED facts BY <1>1, <1>3, TurnsTo
<1>5. /\ seen'[r].plans = seen[r].plans \cup LatestPlans
      /\ seen'[r].decisions = seen[r].decisions \cup LatestDecisions
  BY <1>1, <1>2, <1>3, <1>4, SeenUnderWay, LatestStays
<1>6. IsInOrder(r)' BY <1>1, <1>2, <1>3, <1>4, ReadingFacts DEF IsInOrder
<1>7. HasSeen(r)' BY <1>1, <1>2, <1>3, <1>4, <1>5, ReadingFacts DEF HasSeen
<1>8. IsViewed(r)' /\ HasEvents(r)' BY <1>2, <1>3, <1>4 DEF IsViewed, HasEvents
<1> QED BY <1>1, <1>3, <1>6, <1>7, <1>8, TurnsRight DEF ReadingInvariant

\* What a request that saves, selects or audits keeps when only its lists change.
LEMMA Continues ==
  ASSUME ViewsInvariant, Meet, NEW r \in Readings, NEW local \in Reading,
         reading'[r] = local, UNCHANGED facts, viewed \subseteq viewed',
         local.kind = reading[r].kind, local.campaign = reading[r].campaign,
         local.tenants = reading[r].tenants, local.items = reading[r].items,
         local.pc \in {"save", "audit", "refused", "answered"},
         reading[r].pc \in {"save", "audit", "refused"},
         local.pc \notin {"save", "refused"} => local.toSave = {} /\ local.toSelect = {},
         local.pc = "save" => local.toAudit = local.tenants,
         local.pc = "audit" => \A t \in local.tenants \ local.toAudit : <<r, t>> \in viewed',
         local.pc = "answered" => local.kind # "timeline"
                                    /\ \A t \in local.tenants : <<r, t>> \in viewed',
         reading[r].pc = "refused" => local.pc = "refused"
  PROVE  ReadingInvariant(r)'
<1>1. IsInOrder(r)' BY ReadingFacts DEF IsInOrder
<1>2. HasSeen(r)'
  <2> SUFFICES ASSUME local.pc # "refused", local.kind \in Wide PROVE HasSeen(r)'
    BY DEF HasSeen
  <2>1. /\ seen'[r].plans = seen[r].plans \cup LatestPlans
        /\ seen'[r].decisions = seen[r].decisions \cup LatestDecisions
    BY SeenUnderWay, LatestStays
  <2> QED BY <2>1, ReadingFacts DEF HasSeen
<1>3. IsViewed(r)' BY DEF IsViewed
<1>4. HasEvents(r)' BY DEF HasEvents
<1> QED BY <1>1, <1>2, <1>3, <1>4 DEF ReadingInvariant

LEMMA SaveTurns ==
  ASSUME ViewsInvariant, Meet, NEW r \in Readings, NEW t \in Tenants, Save(r, t)
  PROVE  Turned(r)
<1> DEFINE q == reading[r]
           key == <<t, DayOf(q.generated)>>
           row == [items |-> TenantItems(q.items, t), generated |-> q.generated]
           kept == snapshot[key] # None /\ SameHash(snapshot[key], row.items)
<1>1. q \in Reading /\ t \in q.toSave /\ q.pc \in {"save", "refused"}
  BY ReadingFacts DEF Save, IsInOrder, Reading, ReadingPC
<1>2. row \in SnapshotRow BY <1>1 DEF Reading, SnapshotRow, TenantItems
<1>3. \A i \in row.items : TenantOf[i.campaign] = t BY DEF TenantItems
<1>4. row.generated = q.generated OBVIOUS
<1>5. CASE kept
  <2> DEFINE local == [q EXCEPT !.toSave = q.toSave \ {t}, !.toSelect = q.toSelect \cup {t},
                                !.unchanged = q.unchanged \cup {t}]
  <2>1. /\ local \in Reading /\ local.pc = q.pc /\ local.kind = q.kind
        /\ local.campaign = q.campaign /\ local.tenants = q.tenants /\ local.items = q.items
        /\ local.toAudit = q.toAudit
    BY <1>1 DEF Reading
  <2>2. Turns(r, local) BY <1>5 DEF Save
  <2> HIDE DEF local
  <2>3. reading'[r] = local /\ UNCHANGED <<facts, viewed>> BY <2>1, <2>2, TurnsTo
  <2>4. ReadingInvariant(r)' BY <1>1, <2>1, <2>3, Continues, ReadingFacts DEF IsViewed
  <2> QED BY <2>1, <2>2, <2>4, TurnsRight
<1>6. CASE ~kept
  <2> DEFINE local == [q EXCEPT !.toSave = q.toSave \ {t},
                                !.saved = [q.saved EXCEPT ![t] = row]]
  <2>1. /\ snapshot' = [snapshot EXCEPT ![key] = row]
        /\ reading' = [reading EXCEPT ![r] = local] /\ UNCHANGED <<facts, viewed>>
    BY <1>6 DEF Save
  <2> HIDE DEF row, kept
  <2>2. /\ local \in Reading /\ local.pc = q.pc /\ local.kind = q.kind
        /\ local.campaign = q.campaign /\ local.tenants = q.tenants /\ local.items = q.items
        /\ local.toAudit = q.toAudit
    BY <1>1, <1>2 DEF Reading
  <2> HIDE DEF local
  <2>3. /\ reading' \in [Readings -> Reading] /\ reading'[r] = local
        /\ \A s \in Readings \ {r} : reading'[s] = reading[s]
    BY <2>1, <2>2, ReadingFacts
  <2>4. snapshot \in [Tenants \X Days -> SnapshotRow \cup {None}] BY ReadingFacts DEF VTypeOK
  <2>5. VTypeOK' BY <1>2, <2>1, <2>3, <2>4, ReadingFacts DEF VTypeOK, facts
  <2>6. SnapshotsAreOfTheirTenantAndDay'
    <3> SUFFICES ASSUME NEW k \in Tenants \X Days, snapshot'[k] # None
                 PROVE  /\ \A i \in snapshot'[k].items : TenantOf[i.campaign] = k[1]
                        /\ DayOf(snapshot'[k].generated) = k[2]
      BY <2>1, <2>4 DEF SnapshotsAreOfTheirTenantAndDay
    <3>1. CASE k = key
      <4>1. snapshot'[k] = row BY <2>1, <2>4, <3>1
      <4>2. k[1] = t /\ k[2] = DayOf(q.generated) BY <3>1
      <4> QED BY <4>1, <4>2, <1>3, <1>4
    <3>2. CASE k # key
      <4>1. snapshot'[k] = snapshot[k] BY <2>1, <2>4, <3>2
      <4> QED BY <4>1, <2>4 DEF ViewsInvariant, SnapshotsAreOfTheirTenantAndDay
    <3> QED BY <3>1, <3>2
  <2>7. ReadingInvariant(r)' BY <1>1, <2>1, <2>2, <2>3, Continues, ReadingFacts DEF IsViewed
  <2> QED BY <2>1, <2>3, <2>5, <2>6, <2>7 DEF Turned
<1> QED BY <1>5, <1>6

LEMMA SelectSavedTurns ==
  ASSUME ViewsInvariant, Meet, NEW r \in Readings, NEW t \in Tenants, SelectSaved(r, t)
  PROVE  Turned(r)
<1> DEFINE q == reading[r]
           row == snapshot[<<t, DayOf(q.generated)>>]
           local == [q EXCEPT !.toSelect = q.toSelect \ {t},
                              !.saved = [q.saved EXCEPT ![t] = row]]
<1>1. q \in Reading /\ t \in q.toSelect /\ q.pc \in {"save", "refused"} /\ Turns(r, local)
  BY ReadingFacts DEF SelectSaved, IsInOrder, Reading, ReadingPC
<1>2. row \in SnapshotRow \cup {None}
  <2>1. DayOf(q.generated) \in Days
    <3>1. q.generated \in 0..MaxTicks BY <1>1 DEF Reading
    <3> QED BY <3>1, NumberFacts DEF DayOf, Days
  <2> QED BY <2>1, ReadingFacts DEF VTypeOK
<1> HIDE DEF row
<1>3. /\ local \in Reading /\ local.pc = q.pc /\ local.kind = q.kind
      /\ local.campaign = q.campaign /\ local.tenants = q.tenants /\ local.items = q.items
      /\ local.toAudit = q.toAudit
  BY <1>1, <1>2 DEF Reading
<1> HIDE DEF local
<1>4. reading'[r] = local /\ UNCHANGED <<facts, viewed>> BY <1>1, <1>3, TurnsTo
<1>5. ReadingInvariant(r)' BY <1>1, <1>3, <1>4, Continues, ReadingFacts DEF IsViewed
<1> QED BY <1>1, <1>3, <1>5, TurnsRight

LEMMA AllSavedTurns ==
  ASSUME ViewsInvariant, Meet, NEW r \in Readings, AllSaved(r)
  PROVE  Turned(r)
<1> DEFINE q == reading[r]
           local == [q EXCEPT !.pc = "audit"]
<1>1. /\ q \in Reading /\ q.pc = "save" /\ q.toSave = {} /\ q.toSelect = {}
      /\ Turns(r, local)
  BY ReadingFacts DEF AllSaved
<1>2. /\ local \in Reading /\ local.pc = "audit" /\ local.kind = q.kind
      /\ local.campaign = q.campaign /\ local.tenants = q.tenants /\ local.items = q.items
      /\ local.toAudit = q.toAudit /\ local.toSave = q.toSave /\ local.toSelect = q.toSelect
  BY <1>1 DEF Reading, ReadingPC
<1> HIDE DEF local
<1>3. reading'[r] = local /\ UNCHANGED <<facts, viewed>> BY <1>1, <1>2, TurnsTo
<1>4. ReadingInvariant(r)' BY <1>1, <1>2, <1>3, Continues, ReadingFacts DEF IsViewed
<1> QED BY <1>1, <1>2, <1>4, TurnsRight

LEMMA AuditViewTurns ==
  ASSUME ViewsInvariant, Meet, NEW r \in Readings, NEW t \in Tenants, AuditView(r, t)
  PROVE  Turned(r)
<1> DEFINE q == reading[r]
           local == [q EXCEPT !.toAudit = q.toAudit \ {t}]
<1>1. /\ q \in Reading /\ q.pc \in {"audit", "refused"} /\ viewed' = viewed \cup {<<r, t>>}
      /\ reading' = [reading EXCEPT ![r] = local] /\ UNCHANGED <<facts, snapshot>>
  BY ReadingFacts DEF AuditView
<1>2. /\ local \in Reading /\ local.pc = q.pc /\ local.kind = q.kind
      /\ local.campaign = q.campaign /\ local.tenants = q.tenants /\ local.items = q.items
      /\ local.toAudit = q.toAudit \ {t} /\ local.toSave = q.toSave
      /\ local.toSelect = q.toSelect
  BY <1>1 DEF Reading
<1> HIDE DEF local
<1>3. /\ reading' \in [Readings -> Reading] /\ reading'[r] = local
      /\ \A s \in Readings \ {r} : reading'[s] = reading[s]
  BY <1>1, <1>2, ReadingFacts
<1>4. VTypeOK'
  <2>1. viewed' \subseteq Readings \X Tenants BY <1>1, ReadingFacts DEF VTypeOK
  <2> QED BY <2>1, <1>1, <1>3, ReadingFacts DEF VTypeOK, facts
<1>5. SnapshotsAreOfTheirTenantAndDay'
  BY <1>1 DEF ViewsInvariant, SnapshotsAreOfTheirTenantAndDay
<1>6. q.pc = "audit" => q.toSave = {} /\ q.toSelect = {} BY ReadingFacts DEF IsInOrder
<1>7. q.pc = "audit" => \A u \in q.tenants \ (q.toAudit \ {t}) : <<r, u>> \in viewed'
  BY <1>1, ReadingFacts DEF IsViewed
<1>8. ReadingInvariant(r)' BY <1>1, <1>2, <1>3, <1>6, <1>7, Continues, ReadingFacts
<1> QED BY <1>1, <1>3, <1>4, <1>5, <1>8 DEF Turned

LEMMA AnswerViewTurns ==
  ASSUME ViewsInvariant, Meet, NEW r \in Readings, AnswerView(r)
  PROVE  Turned(r)
<1> DEFINE q == reading[r]
           local == [q EXCEPT !.pc = "answered"]
<1>1. q \in Reading /\ q.pc = "audit" /\ q.toAudit = {} /\ Turns(r, local)
  BY ReadingFacts DEF AnswerView
<1>2. /\ local \in Reading /\ local.pc = "answered" /\ local.kind = q.kind
      /\ local.campaign = q.campaign /\ local.tenants = q.tenants /\ local.items = q.items
      /\ local.toAudit = q.toAudit /\ local.toSave = q.toSave /\ local.toSelect = q.toSelect
  BY <1>1 DEF Reading, ReadingPC
<1> HIDE DEF local
<1>3. reading'[r] = local /\ UNCHANGED <<facts, viewed>> BY <1>1, <1>2, TurnsTo
<1>4. q.toSave = {} /\ q.toSelect = {} /\ q.kind # "timeline"
  BY <1>1, ReadingFacts DEF IsInOrder
<1>5. \A t \in q.tenants : <<r, t>> \in viewed' BY <1>1, <1>3, ReadingFacts DEF IsViewed
<1>6. ReadingInvariant(r)' BY <1>1, <1>2, <1>3, <1>4, <1>5, Continues, ReadingFacts
<1> QED BY <1>1, <1>2, <1>6, TurnsRight

LEMMA StatementFailsTurns ==
  ASSUME ViewsInvariant, Meet, NEW r \in Readings, StatementFails(r)
  PROVE  Turned(r)
<1> DEFINE q == reading[r]
<1>1. q \in Reading /\ (q.kind \in ViewKinds \ Wide => q.campaign \in Campaigns)
  BY ReadingFacts DEF IsInOrder
<1>2. CASE Turns(r, [q EXCEPT !.pc = "refused"])
  <2> DEFINE local == [q EXCEPT !.pc = "refused"]
  <2>1. /\ local \in Reading /\ local.pc = "refused" /\ local.kind = q.kind
        /\ local.campaign = q.campaign
    BY <1>1 DEF Reading, ReadingPC
  <2>2. Turns(r, local) BY <1>2
  <2> HIDE DEF local
  <2> QED BY <2>1, <2>2, <1>1, RefusedTurns
<1>3. ASSUME NEW t,
             Turns(r, [q EXCEPT !.pc = "refused", !.toSave = q.toSave \ {t},
                                !.toSelect = q.toSelect \ {t}, !.toAudit = {}])
      PROVE  Turned(r)
  <2> DEFINE local == [q EXCEPT !.pc = "refused", !.toSave = q.toSave \ {t},
                                !.toSelect = q.toSelect \ {t}, !.toAudit = {}]
  <2>1. /\ local \in Reading /\ local.pc = "refused" /\ local.kind = q.kind
        /\ local.campaign = q.campaign
    BY <1>1 DEF Reading, ReadingPC
  <2>2. Turns(r, local) BY <1>3
  <2> HIDE DEF local
  <2> QED BY <2>1, <2>2, <1>1, RefusedTurns
<1>4. ASSUME NEW t, Turns(r, [q EXCEPT !.pc = "refused", !.toAudit = q.toAudit \ {t}])
      PROVE  Turned(r)
  <2> DEFINE local == [q EXCEPT !.pc = "refused", !.toAudit = q.toAudit \ {t}]
  <2>1. /\ local \in Reading /\ local.pc = "refused" /\ local.kind = q.kind
        /\ local.campaign = q.campaign
    BY <1>1 DEF Reading, ReadingPC
  <2>2. Turns(r, local) BY <1>4
  <2> HIDE DEF local
  <2> QED BY <2>1, <2>2, <1>1, RefusedTurns
<1> QED BY <1>2, <1>3, <1>4 DEF StatementFails

LEMMA ReadingStepTurns ==
  ASSUME ViewsInvariant, Meet, NEW r \in Readings, ReadingStep(r)
  PROVE  Turned(r)
BY ListTurns, ReadPlansTurns, ReadContextsTurns, ReadPlanTurns, SaveTurns, SelectSavedTurns,
  AuditViewTurns, ReadDecisionTurns, ReadReadinessTurns, ReadTimelineTurns, ComputeTurns,
  AllSavedTurns, AnswerViewTurns, StatementFailsTurns DEF ReadingStep

LEMMA KeptByReadings ==
  ASSUME ViewsInvariant, Meet, NEW r \in Readings, Turned(r)
  PROVE  ViewsInvariant'
<1>1. EventsGrow BY DEF EventsGrow, Turned, facts, ViewsInvariant, VTypeOK
<1>2. \A s \in Readings : ReadingInvariant(s)'
  <2> TAKE s \in Readings
  <2>1. CASE s = r BY <2>1 DEF Turned
  <2>2. CASE s # r BY <2>2, <1>1, ReadingKept DEF Turned, facts
  <2> QED BY <2>1, <2>2
<1> QED BY <1>2 DEF ViewsInvariant, Turned

LEMMA OthersKeep ==
  ASSUME ViewsInvariant, Meet, Others
  PROVE  ViewsInvariant'
<1>1. VTypeOK BY DEF ViewsInvariant
<1>2. UNCHANGED <<snapshot, viewed, reading>>
  BY DEF Others, MembershipChanges, NewPlan, NewContext, DecideReadiness, NewEvent, TimePasses
<1> DEFINE Grows == \A c \in Campaigns : DOMAIN decision[c] \subseteq DOMAIN decision'[c]
           Typed == /\ member' \subseteq Tenants /\ time' \in 0..MaxTicks
                    /\ others' \in 0..MaxOthers
                    /\ plan' \in [Campaigns -> Version] /\ context' \in [Campaigns -> Version]
                    /\ decision' \in [Campaigns -> Seq(Verdict)]
                    /\ \A c \in Campaigns : Len(decision'[c]) = plan'[c]
                    /\ EventsGrow
<1>3. events \in Seq(Event) BY <1>1 DEF VTypeOK
<1>4. Grows /\ Typed
  <2>1. ASSUME NEW t \in Tenants, MembershipChanges(t) PROVE Grows /\ Typed
    BY <2>1, <1>1, <1>3, NumberFacts DEF MembershipChanges, Another, VTypeOK, EventsGrow
  <2>2. ASSUME NEW c \in Campaigns, NewPlan(c) PROVE Grows /\ Typed
    <3>1. /\ decision \in [Campaigns -> Seq(Verdict)] /\ plan \in [Campaigns -> Version]
          /\ \A x \in Campaigns : Len(decision[x]) = plan[x]
      BY <1>1 DEF VTypeOK
    <3>2. /\ plan' = [plan EXCEPT ![c] = plan[c] + 1] /\ plan[c] < MaxVersions
          /\ decision' = [decision EXCEPT ![c] = Append(decision[c], None)]
          /\ UNCHANGED <<member, context, events, time>> /\ Another
      BY <2>2 DEF NewPlan
    <3>3. Append(decision[c], None) \in Seq(Verdict)
          /\ Len(Append(decision[c], None)) = plan[c] + 1
          /\ DOMAIN decision[c] \subseteq DOMAIN Append(decision[c], None)
      <4>1. None \in Verdict /\ decision[c] \in Seq(Verdict) BY <3>1 DEF Verdict
      <4> QED BY <4>1, <3>1
    <3>4. plan[c] + 1 \in Version BY <3>1, <3>2, NumberFacts DEF Version
    <3>5. /\ plan' \in [Campaigns -> Version] /\ decision' \in [Campaigns -> Seq(Verdict)]
          /\ \A x \in Campaigns : Len(decision'[x]) = plan'[x]
          /\ Grows
      BY <3>1, <3>2, <3>3, <3>4
    <3> QED BY <3>2, <3>5, <1>1, <1>3, NumberFacts DEF Another, VTypeOK, EventsGrow
  <2>3. ASSUME NEW c \in Campaigns, NewContext(c) PROVE Grows /\ Typed
    <3>1. context' \in [Campaigns -> Version]
      BY <2>3, <1>1, NumberFacts DEF NewContext, VTypeOK, Version
    <3> QED BY <2>3, <3>1, <1>1, <1>3, NumberFacts DEF NewContext, Another, VTypeOK, EventsGrow
  <2>4. ASSUME NEW c \in Campaigns, NEW d \in Decisions, DecideReadiness(c, d)
        PROVE  Grows /\ Typed
    <3>1. PICK v \in DOMAIN decision[c] :
            decision' = [decision EXCEPT ![c] = [decision[c] EXCEPT ![v] = d]]
      BY <2>4 DEF DecideReadiness
    <3>2. decision \in [Campaigns -> Seq(Verdict)] BY <1>1 DEF VTypeOK
    <3>3. /\ [decision[c] EXCEPT ![v] = d] \in Seq(Verdict)
          /\ Len([decision[c] EXCEPT ![v] = d]) = Len(decision[c])
          /\ DOMAIN [decision[c] EXCEPT ![v] = d] = DOMAIN decision[c]
      <4>1. d \in Verdict /\ decision[c] \in Seq(Verdict) BY <3>2 DEF Verdict
      <4> QED BY <4>1
    <3>4. /\ decision' \in [Campaigns -> Seq(Verdict)] /\ Grows
          /\ \A x \in Campaigns : Len(decision'[x]) = Len(decision[x])
      BY <3>1, <3>2, <3>3
    <3> QED BY <2>4, <3>4, <1>1, <1>3, NumberFacts
      DEF DecideReadiness, Another, VTypeOK, EventsGrow
  <2>5. ASSUME NEW c \in Campaigns, NewEvent(c) PROVE Grows /\ Typed
    <3>1. PICK known \in BOOLEAN, tenantWide \in BOOLEAN, at \in {time, time - 1} \cap Nat :
            events' = Append(events, [campaign |-> c, known |-> known,
                                      tenantWide |-> tenantWide, at |-> at])
      BY <2>5 DEF NewEvent
    <3> DEFINE e == [campaign |-> c, known |-> known, tenantWide |-> tenantWide, at |-> at]
    <3>2. time \in 0..MaxTicks BY <1>1 DEF VTypeOK
    <3>3. e \in Event BY <3>2, NumberFacts DEF Event
    <3> HIDE DEF e
    <3>4. events' = Append(events, e) BY <3>1 DEF e
    <3>5. EventsGrow BY <3>3, <3>4, <1>3 DEF EventsGrow
    <3> QED BY <2>5, <3>5, <1>1 DEF NewEvent, VTypeOK
  <2>6. ASSUME TimePasses PROVE Grows /\ Typed
    BY <2>6, <1>1, <1>3, NumberFacts DEF TimePasses, VTypeOK, EventsGrow
  <2> HIDE DEF Grows, Typed
  <2> QED BY <2>1, <2>2, <2>3, <2>4, <2>5, <2>6 DEF Others
<1>5. VTypeOK' BY <1>1, <1>2, <1>4 DEF VTypeOK, EventsGrow
<1>6. SnapshotsAreOfTheirTenantAndDay'
  BY <1>2 DEF ViewsInvariant, SnapshotsAreOfTheirTenantAndDay
<1>7. \A r \in Readings : ReadingInvariant(r)'
  <2> TAKE r \in Readings
  <2> QED BY <1>2, <1>4, <1>5, ReadingKept
<1> QED BY <1>5, <1>6, <1>7 DEF ViewsInvariant

LEMMA ViewsStutter ==
  ASSUME ViewsInvariant, UNCHANGED viewVars
  PROVE  ViewsInvariant'
<1>1. VTypeOK' BY DEF ViewsInvariant, VTypeOK, viewVars
<1>2. SnapshotsAreOfTheirTenantAndDay'
  BY DEF ViewsInvariant, SnapshotsAreOfTheirTenantAndDay, viewVars
<1>3. \A r \in Readings : ReadingInvariant(r)'
  BY DEF ViewsInvariant, viewVars, ReadingInvariant, IsInOrder, HasSeen, IsViewed, HasEvents,
    Concerning, Hidden, Newer
<1> QED BY <1>1, <1>2, <1>3 DEF ViewsInvariant

LEMMA ViewsInitial ==
  ASSUME VInit
  PROVE  ViewsInvariant
<1>1. VTypeOK
  <2>1. \A c \in Campaigns : decision[c] \in Seq(Verdict) /\ Len(decision[c]) = plan[c]
    BY DEF VInit
  <2>2. 0 \in Version BY NumberFacts DEF Version
  <2>3. events \in Seq(Event) BY DEF VInit
  <2> QED BY <2>1, <2>2, <2>3, NothingIsRead, NumberFacts DEF VInit, VTypeOK
<1>2. SnapshotsAreOfTheirTenantAndDay BY DEF VInit, SnapshotsAreOfTheirTenantAndDay
<1>3. ASSUME NEW r \in Readings PROVE ReadingInvariant(r)
  <2>1. reading[r] = NoReading BY DEF VInit
  <2>2. /\ NoReading.pc = "idle" /\ NoReading.kind = "none" /\ NoReading.toSave = {}
        /\ NoReading.toSelect = {}
    BY DEF NoReading
  <2> QED BY <2>1, <2>2 DEF ReadingInvariant, IsInOrder, HasSeen, IsViewed, HasEvents,
    ViewKinds
<1> QED BY <1>1, <1>2, <1>3 DEF ViewsInvariant

\* What a view carries from one of its queries to the next, and what is saved and audited,
\* whatever changes between any two of them.
THEOREM ViewsAreInvariant == VSpec => []ViewsInvariant
<1>1. VInit => ViewsInvariant BY ViewsInitial
<1>2. ViewsInvariant /\ [VNext]_viewVars => ViewsInvariant'
  BY ReadingStepTurns, KeptByReadings, OthersKeep, ViewsStutter DEF VNext
<1> QED BY <1>1, <1>2, PTL DEF VSpec

\* An item of a view joins a plan and a decision that were each the latest at some moment of
\* the request; the tenants shown were audited, a snapshot is of its tenant and its day, and a
\* timeline leaves out only what newer events displace (OperatorAccessService.portfolio,
\* workQueue, campaignTimeline).
THEOREM ViewsStaySound == VSpec => []ViewsAreSound
<1>1. ASSUME ViewsInvariant PROVE ViewsAreSound
  <2>1. \A r \in Readings : IsInOrder(r) /\ HasSeen(r) /\ IsViewed(r) /\ HasEvents(r)
    BY <1>1 DEF ViewsInvariant, ReadingInvariant
  <2>2. ItemsWereCurrent BY <2>1 DEF HasSeen, ItemsWereCurrent
  <2>3. AnsweredViewsAreAudited BY <2>1 DEF IsViewed, AnsweredViewsAreAudited
  <2>4. TimelineIsComplete BY <2>1 DEF HasEvents, TimelineIsComplete
  <2> QED BY <1>1, <2>2, <2>3, <2>4 DEF ViewsInvariant, ViewsAreSound
<1> QED BY <1>1, ViewsAreInvariant, PTL
=============================================================================
