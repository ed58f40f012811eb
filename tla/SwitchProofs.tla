----------------------------- MODULE SwitchProofs -----------------------------
(***************************************************************************)
(* The transactions of the kill switch implement its ledger, for every     *)
(* number of concurrent changes, every pool size and every failure; and    *)
(* what the gates of an execution, the switches among them, ensure for     *)
(* every number of requests, authorizations, attempts and changes.         *)
(***************************************************************************)
EXTENDS KillSwitch, ExecutionGates, SequenceTheorems, FiniteSetTheorems, TLAPS

-----------------------------------------------------------------------------
(* The transactions of the kill switch.                                    *)

LEMMA InitTransaction == Init => TransactionInvariant
<1> SUFFICES ASSUME Init PROVE TransactionInvariant OBVIOUS
<1>0. IdleChange \in ChangeState /\ IdleChange.pc = "idle"
  BY DEF IdleChange, ChangeState, Targets, SwitchStatus, InTransaction
<1>1. \A t \in Targets : rows[t] = <<>> BY DEF Init
<1>2. \A c \in Changes : change[c] = IdleChange BY DEF Init
<1>3. StateOK
  <2>1. <<>> \in Seq(Row) OBVIOUS
  <2> QED BY <1>0, <2>1 DEF StateOK, Init
<1>4. LockIsExclusive BY <1>0, <1>2 DEF LockIsExclusive, Locked, InTransaction
<1>5. \A c \in Changes : ReadIsCurrent(c) BY <1>0, <1>2 DEF ReadIsCurrent
<1>6. AuditMirrorsLedger BY <1>1 DEF AuditMirrorsLedger
<1> QED BY <1>3, <1>4, <1>5, <1>6 DEF TransactionInvariant

LEMMA StatusType ==
  ASSUME StateOK, NEW t \in Targets
  PROVE  /\ rows[t] \in Seq(Row) /\ Len(rows[t]) \in Nat
         /\ DOMAIN rows[t] = 1..Len(rows[t])
         /\ Status(t) \in SwitchStatus \cup {"missing"}
         /\ rows[t] # <<>> => /\ Len(rows[t]) \in DOMAIN rows[t]
                              /\ Status(t) = rows[t][Len(rows[t])].status
<1>1. rows[t] \in Seq(Row) BY DEF StateOK
<1>2. Len(rows[t]) \in Nat /\ DOMAIN rows[t] = 1..Len(rows[t]) BY <1>1, LenProperties
<1>3. ASSUME rows[t] # <<>>
      PROVE  /\ Len(rows[t]) \in DOMAIN rows[t]
             /\ rows[t][Len(rows[t])] \in Row
  <2>1. Len(rows[t]) # 0 BY <1>1, <1>3, EmptySeq
  <2>2. Len(rows[t]) \in 1..Len(rows[t]) BY <1>2, <2>1
  <2> QED BY <1>1, <1>2, <2>2, ElementOfSeq
<1> QED BY <1>1, <1>2, <1>3 DEF Status, Row

\* A step of one change that writes no row.
LEMMA ChangeMoves ==
  ASSUME TransactionInvariant, NEW c \in Changes, NEW new \in ChangeState,
         change' = [change EXCEPT ![c] = new], rows' = rows,
         ReadIsCurrent(c)',
         new.pc \in Locked =>
           \/ change[c].pc \in Locked /\ new.target = change[c].target
           \/ \A d \in Changes \ {c} :
                change[d].pc \in Locked => change[d].target # new.target
  PROVE  TransactionInvariant'
<1>1. /\ change'[c] = new
      /\ \A d \in Changes \ {c} : change'[d] = change[d]
      /\ change' \in [Changes -> ChangeState]
  BY DEF TransactionInvariant, StateOK
<1>2. StateOK' BY <1>1 DEF TransactionInvariant, StateOK
<1>3. LockIsExclusive' BY <1>1 DEF TransactionInvariant, LockIsExclusive
<1>4. ASSUME NEW d \in Changes PROVE ReadIsCurrent(d)'
  <2>1. CASE d = c BY <2>1
  <2>2. CASE d # c
    <3>1. ReadIsCurrent(d) /\ change'[d] = change[d]
      BY <1>1, <2>2 DEF TransactionInvariant
    <3> QED BY <3>1 DEF ReadIsCurrent, Status
  <2> QED BY <2>1, <2>2
<1>5. AuditMirrorsLedger' BY DEF TransactionInvariant, AuditMirrorsLedger
<1> QED BY <1>2, <1>3, <1>4, <1>5 DEF TransactionInvariant

\* A commit appends at most the row the transaction prepared.
LEMMA CommitAppends ==
  ASSUME TransactionInvariant, NEW c \in Changes, Commit(c)
  PROVE  LET t == change[c].target
             row == [status |-> change[c].status, audit |-> change[c].audit]
         IN  /\ t \in Targets /\ row \in Row
             /\ \/ change[c].version = 0 /\ rows' = rows /\ Status(t) = change[c].status
                \/ /\ rows' = [rows EXCEPT ![t] = Append(@, row)]
                   /\ rows' \in [Targets -> Seq(Row)]
                   /\ row.audit = Status(t) /\ Status(t) # row.status
                   /\ Len(rows'[t]) = Len(rows[t]) + 1
                   /\ rows'[t][Len(rows[t]) + 1] = row
                   /\ \A v \in 1..Len(rows[t]) : rows'[t][v] = rows[t][v]
                   /\ \A u \in Targets \ {t} : rows'[u] = rows[u]
<1> DEFINE t == change[c].target
           row == [status |-> change[c].status, audit |-> change[c].audit]
<1>0. /\ change[c] \in ChangeState /\ change[c].pc = "committing" /\ StateOK
      /\ ReadIsCurrent(c)
  BY DEF TransactionInvariant, StateOK, Commit
<1>1. t \in Targets /\ row \in Row BY <1>0 DEF ChangeState, Row
<1>2. /\ rows \in [Targets -> Seq(Row)] /\ rows[t] \in Seq(Row) /\ Len(rows[t]) \in Nat
  BY <1>0, <1>1, StatusType DEF StateOK
<1>3. CASE change[c].version = 0
  <2>1. rows' = rows BY <1>3 DEF Commit, CommitRow
  <2>2. Status(t) = change[c].status BY <1>0, <1>2, <1>3 DEF ReadIsCurrent
  <2> QED BY <1>1, <1>3, <2>1, <2>2
<1>4. CASE change[c].version # 0
  <2>1. rows' = [rows EXCEPT ![t] = Append(rows[t], row)]
    BY <1>2, <1>4 DEF Commit, CommitRow
  <2>2. row.audit = Status(t) /\ Status(t) # row.status
    BY <1>0, <1>4 DEF ReadIsCurrent
  <2>3. /\ rows'[t] = Append(rows[t], row)
        /\ \A u \in Targets \ {t} : rows'[u] = rows[u]
    BY <1>1, <1>2, <2>1
  <2> HIDE DEF row
  <2>4. /\ Append(rows[t], row) \in Seq(Row)
        /\ Len(Append(rows[t], row)) = Len(rows[t]) + 1
        /\ Append(rows[t], row)[Len(rows[t]) + 1] = row
        /\ \A v \in 1..Len(rows[t]) : Append(rows[t], row)[v] = rows[t][v]
    BY <1>1, <1>2, AppendProperties
  <2>5. rows' \in [Targets -> Seq(Row)] BY <1>1, <1>2, <2>1, <2>4
  <2> QED BY <1>1, <2>1, <2>2, <2>3, <2>4, <2>5 DEF row
<1> QED BY <1>3, <1>4

LEMMA CommitInvariant ==
  ASSUME TransactionInvariant, NEW c \in Changes, Commit(c)
  PROVE  TransactionInvariant'
<1> DEFINE t == change[c].target
           row == [status |-> change[c].status, audit |-> change[c].audit]
           new == [change[c] EXCEPT !.pc = "releasing"]
<1>0. change[c] \in ChangeState /\ change[c].pc = "committing" /\ StateOK
  BY DEF TransactionInvariant, StateOK, Commit
<1>1. /\ change' = [change EXCEPT ![c] = new] /\ new \in ChangeState
      /\ new.pc = "releasing"
  BY <1>0 DEF Commit, ChangeState
<1>2. /\ change'[c] = new /\ \A d \in Changes \ {c} : change'[d] = change[d]
      /\ change' \in [Changes -> ChangeState]
  BY <1>0, <1>1 DEF StateOK
<1> HIDE DEF new
<1>3. ReadIsCurrent(c)' BY <1>1, <1>2 DEF ReadIsCurrent
<1>4. CASE rows' = rows
  BY <1>1, <1>3, <1>4, ChangeMoves DEF Locked, InTransaction
<1>5. CASE rows' # rows
  <2>1. /\ t \in Targets /\ row \in Row
        /\ rows' \in [Targets -> Seq(Row)]
        /\ row.audit = Status(t)
        /\ Len(rows'[t]) = Len(rows[t]) + 1
        /\ rows'[t][Len(rows[t]) + 1] = row
        /\ \A v \in 1..Len(rows[t]) : rows'[t][v] = rows[t][v]
        /\ \A u \in Targets \ {t} : rows'[u] = rows[u]
    BY <1>5, CommitAppends
  <2>2. StateOK' BY <1>2, <2>1 DEF StateOK
  <2>3. LockIsExclusive'
    BY <1>1, <1>2 DEF TransactionInvariant, LockIsExclusive, Locked, InTransaction
  <2>4. ASSUME NEW d \in Changes PROVE ReadIsCurrent(d)'
    <3>1. CASE d = c BY <1>3, <3>1
    <3>2. CASE d # c
      <4>1. change'[d] = change[d] /\ ReadIsCurrent(d) /\ change[d] \in ChangeState
        BY <1>0, <1>2, <3>2 DEF TransactionInvariant, StateOK
      <4>2. change[d].target \in Targets BY <4>1 DEF ChangeState
      <4>3. change[d].pc \in Locked => change[d].target # t
        BY <1>0, <3>2 DEF TransactionInvariant, LockIsExclusive, Locked, InTransaction
      <4>4. change[d].pc \in Locked => rows'[change[d].target] = rows[change[d].target]
        BY <2>1, <4>2, <4>3
      <4> QED BY <4>1, <4>4 DEF ReadIsCurrent, Status, Locked, InTransaction
    <3> QED BY <3>1, <3>2
  <2>5. AuditMirrorsLedger'
    <3> SUFFICES ASSUME NEW u \in Targets, NEW v \in DOMAIN rows'[u]
                 PROVE  rows'[u][v].audit
                          = IF v = 1 THEN "missing" ELSE rows'[u][v - 1].status
      BY DEF AuditMirrorsLedger
    <3>1. CASE u # t
      <4>1. rows'[u] = rows[u] BY <2>1, <3>1
      <4> QED BY <4>1 DEF TransactionInvariant, AuditMirrorsLedger
    <3>2. CASE u = t
      <4>0. /\ DOMAIN rows[t] = 1..Len(rows[t]) /\ Len(rows[t]) \in Nat
            /\ DOMAIN rows'[t] = 1..(Len(rows[t]) + 1)
        BY <1>0, <2>1, <2>2, StatusType, LenProperties
      <4>1. CASE v \in 1..Len(rows[t])
        <5>1. /\ rows'[t][v] = rows[t][v]
              /\ v # 1 => v - 1 \in 1..Len(rows[t])
          BY <2>1, <4>0, <4>1
        <5>2. v # 1 => rows'[t][v - 1] = rows[t][v - 1] BY <2>1, <5>1
        <5> QED BY <3>2, <4>0, <4>1, <5>1, <5>2
                DEF TransactionInvariant, AuditMirrorsLedger
      <4>2. CASE v = Len(rows[t]) + 1
        <5>1. rows'[t][v].audit = Status(t) BY <2>1, <4>2
        <5>2. CASE Len(rows[t]) = 0
          <6>1. rows[t] = <<>>
            <7>1. rows[t] \in Seq(Row) BY <1>0, <2>1, StatusType
            <7> QED BY <5>2, <7>1, EmptySeq
          <6>2. Status(t) = "missing" BY <6>1 DEF Status
          <6>3. v = 1 BY <4>2, <5>2
          <6> QED BY <3>2, <5>1, <6>2, <6>3
        <5>3. CASE Len(rows[t]) # 0
          <6>1. rows[t] # <<>> BY <5>3
          <6>2. Len(rows[t]) \in 1..Len(rows[t]) BY <4>0, <5>3
          <6>3. v - 1 = Len(rows[t]) /\ v # 1 BY <4>0, <4>2, <5>3
          <6>4. rows'[t][Len(rows[t])] = rows[t][Len(rows[t])] BY <2>1, <6>2
          <6> QED BY <3>2, <5>1, <6>1, <6>3, <6>4 DEF Status
        <5> QED BY <5>2, <5>3
      <4> QED BY <3>2, <4>0, <4>1, <4>2
    <3> QED BY <3>1, <3>2
  <2> QED BY <2>2, <2>3, <2>4, <2>5 DEF TransactionInvariant
<1> QED BY <1>4, <1>5

LEMMA ChangeStepInvariant ==
  ASSUME TransactionInvariant, NEW c \in Changes, ChangeStep(c)
  PROVE  TransactionInvariant'
<1> DEFINE s == change[c]
           t == s.target
           MovesTo(new) == rows' = rows /\ change' = [change EXCEPT ![c] = new]
<1>0. /\ StateOK /\ s \in ChangeState /\ change \in [Changes -> ChangeState]
      /\ ReadIsCurrent(c)
  BY DEF TransactionInvariant, StateOK
<1>1. t \in Targets /\ Len(rows[t]) \in Nat /\ Status(t) \in SwitchStatus \cup {"missing"}
  BY <1>0, StatusType DEF ChangeState
<1>2. CASE Commit(c) BY <1>2, CommitInvariant
<1>3. ASSUME NEW pc \in {"locking", "reading", "inserting", "rollback", "releasing",
                         "auditing"},
             MovesTo([s EXCEPT !.pc = pc]),
             pc \in {"locking", "reading"} => s.version = 0,
             pc \in {"inserting", "auditing"} =>
               s.pc \in {"inserting", "auditing"},
             pc \in Locked =>
               \/ s.pc \in Locked
               \/ \A d \in Changes : change[d].pc \in Locked => change[d].target # t
      PROVE  TransactionInvariant'
  <2> DEFINE new == [s EXCEPT !.pc = pc]
  <2>1. /\ new \in ChangeState /\ new.pc = pc /\ new.target = t
        /\ new.version = s.version /\ new.previous = s.previous
        /\ new.status = s.status
    BY <1>0 DEF ChangeState, InTransaction
  <2>2. change'[c] = new BY <1>0, <1>3
  <2>3. rows' = rows /\ change' = [change EXCEPT ![c] = new] BY <1>3
  <2> HIDE DEF new
  <2>4. ReadIsCurrent(c)'
    BY <1>0, <1>3, <2>1, <2>2, <2>3 DEF ReadIsCurrent, Status
  <2>5. new.pc \in Locked =>
          \/ change[c].pc \in Locked /\ new.target = change[c].target
          \/ \A d \in Changes \ {c} : change[d].pc \in Locked => change[d].target # new.target
    BY <1>3, <2>1
  <2> QED BY <2>1, <2>3, <2>4, <2>5, ChangeMoves
<1>4. CASE Connect(c)
  <2>1. s.pc = "connecting" /\ MovesTo([s EXCEPT !.pc = "locking"])
    BY <1>0, <1>4 DEF Connect
  <2>2. s.version = 0 BY <1>0, <2>1 DEF ReadIsCurrent
  <2> QED BY <1>3, <2>1, <2>2 DEF Locked, InTransaction
<1>5. CASE Lock(c)
  <2>1. s.pc = "locking" /\ MovesTo([s EXCEPT !.pc = "reading"])
    BY <1>0, <1>5 DEF Lock
  <2>2. s.version = 0 BY <1>0, <2>1 DEF ReadIsCurrent
  <2>3. \A d \in Changes : change[d].pc \in Locked => change[d].target # t
    BY <1>5 DEF Lock
  <2> QED BY <1>3, <2>1, <2>2, <2>3
<1>6. CASE ReadLatest(c)
  <2> DEFINE commits == [s EXCEPT !.pc = "committing"]
             next == Len(rows[t]) + 1
             latest == Status(t)
             inserts == [s EXCEPT !.previous = latest, !.version = next,
                                  !.pc = "inserting"]
  <2>0. s.pc = "reading" /\ s.version = 0 /\ rows' = rows
    BY <1>0, <1>6 DEF ReadLatest, ReadIsCurrent
  <2>1. CASE Status(t) = s.status
    <3>1. change' = [change EXCEPT ![c] = commits] BY <1>0, <1>6, <2>1 DEF ReadLatest
    <3>2. /\ commits \in ChangeState /\ commits.pc = "committing"
          /\ commits.target = t /\ commits.version = 0 /\ commits.status = s.status
      BY <1>0, <2>0 DEF ChangeState, InTransaction
    <3>3. change'[c] = commits BY <1>0, <3>1
    <3> HIDE DEF commits
    <3>4. ReadIsCurrent(c)' BY <2>0, <2>1, <3>2, <3>3 DEF ReadIsCurrent, Status
    <3> QED BY <2>0, <3>1, <3>2, <3>4, ChangeMoves DEF Locked, InTransaction
  <2>2. CASE Status(t) # s.status
    <3>1. change' = [change EXCEPT ![c] = inserts] BY <1>0, <1>6, <2>2 DEF ReadLatest
    <3>2. /\ inserts \in ChangeState /\ inserts.pc = "inserting"
          /\ inserts.target = t /\ inserts.version = next
          /\ inserts.previous = latest /\ inserts.status = s.status
      <4>1. next \in Nat /\ latest \in SwitchStatus \cup {"missing"} BY <1>1
      <4> HIDE DEF next, latest
      <4> QED BY <1>0, <4>1 DEF ChangeState, InTransaction
    <3>3. change'[c] = inserts BY <1>0, <3>1
    <3> HIDE DEF inserts
    <3>4. ReadIsCurrent(c)' BY <2>0, <2>2, <3>2, <3>3 DEF ReadIsCurrent, Status
    <3> QED BY <2>0, <3>1, <3>2, <3>4, ChangeMoves DEF Locked, InTransaction
  <2> QED BY <2>1, <2>2
<1>7. CASE InsertState(c)
  <2>1. PICK pc \in {"rollback", "auditing"} :
          s.pc = "inserting" /\ MovesTo([s EXCEPT !.pc = pc])
    BY <1>0, <1>7 DEF InsertState
  <2> QED BY <1>3, <2>1 DEF Locked, InTransaction
<1>8. CASE InsertAudit(c)
  <2> DEFINE new == [s EXCEPT !.pc = "committing", !.audit = s.previous]
  <2>0. s.pc = "auditing" /\ rows' = rows /\ change' = [change EXCEPT ![c] = new]
    BY <1>0, <1>8 DEF InsertAudit
  <2>1. /\ new \in ChangeState /\ new.pc = "committing" /\ new.target = t
        /\ new.version = s.version /\ new.previous = s.previous
        /\ new.status = s.status /\ new.audit = s.previous
    BY <1>0 DEF ChangeState, InTransaction
  <2>2. change'[c] = new BY <1>0, <2>0
  <2> HIDE DEF new
  <2>3. ReadIsCurrent(c)' BY <1>0, <2>0, <2>1, <2>2 DEF ReadIsCurrent, Status
  <2> QED BY <2>0, <2>1, <2>3, ChangeMoves DEF Locked, InTransaction
<1>9. CASE Fail(c)
  <2>1. MovesTo([s EXCEPT !.pc = "rollback"]) BY <1>0, <1>9 DEF Fail
  <2> QED BY <1>3, <2>1 DEF Locked, InTransaction
<1>10. CASE Rollback(c)
  <2>1. MovesTo([s EXCEPT !.pc = "releasing"]) BY <1>0, <1>10 DEF Rollback
  <2> QED BY <1>3, <2>1 DEF Locked, InTransaction
<1>11. CASE Release(c)
  <2>1. MovesTo(IdleChange) BY <1>11 DEF Release
  <2>2. IdleChange \in ChangeState /\ IdleChange.pc = "idle"
    BY DEF IdleChange, ChangeState, Targets, SwitchStatus, InTransaction
  <2>3. change'[c] = IdleChange BY <1>0, <2>1
  <2>4. ReadIsCurrent(c)' BY <2>2, <2>3 DEF ReadIsCurrent
  <2> QED BY <2>1, <2>2, <2>4, ChangeMoves DEF Locked, InTransaction
<1> QED BY <1>2, <1>4, <1>5, <1>6, <1>7, <1>8, <1>9, <1>10, <1>11 DEF ChangeStep

LEMMA StartChangeInvariant ==
  ASSUME TransactionInvariant, NEW c \in Changes, NEW t \in Targets,
         NEW status \in SwitchStatus, StartChange(c, t, status)
  PROVE  TransactionInvariant'
<1> DEFINE new == [IdleChange EXCEPT !.pc = "connecting", !.target = t,
                                     !.status = status]
<1>1. rows' = rows /\ change' = [change EXCEPT ![c] = new] BY DEF StartChange
<1>2. new \in ChangeState /\ new.pc = "connecting" /\ new.version = 0
  BY DEF IdleChange, ChangeState, SwitchStatus, InTransaction
<1>3. change'[c] = new BY <1>1 DEF TransactionInvariant, StateOK
<1> HIDE DEF new
<1>4. ReadIsCurrent(c)' BY <1>2, <1>3 DEF ReadIsCurrent
<1> QED BY <1>1, <1>2, <1>4, ChangeMoves DEF Locked, InTransaction

LEMMA NextTransaction == TransactionInvariant /\ [Next]_vars => TransactionInvariant'
<1> SUFFICES ASSUME TransactionInvariant, [Next]_vars PROVE TransactionInvariant'
  OBVIOUS
<1>1. ASSUME NEW c \in Changes, NEW t \in Targets, NEW status \in SwitchStatus,
             StartChange(c, t, status)
      PROVE  TransactionInvariant'
  BY <1>1, StartChangeInvariant
<1>2. ASSUME NEW c \in Changes, ChangeStep(c) PROVE TransactionInvariant'
  BY <1>2, ChangeStepInvariant
<1>3. ASSUME UNCHANGED <<rows, change>> PROVE TransactionInvariant'
  BY <1>3 DEF TransactionInvariant, StateOK, LockIsExclusive, ReadIsCurrent, Status,
              AuditMirrorsLedger
<1>4. ASSUME NEW r \in Readings, StartReading(r) \/ ReadingStep(r)
      PROVE  TransactionInvariant'
  BY <1>3, <1>4 DEF StartReading, ReadingStep, ReadState, EndReading
<1>5. CASE UNCHANGED vars BY <1>3, <1>5 DEF vars
<1> QED BY <1>1, <1>2, <1>4, <1>5 DEF Next

-----------------------------------------------------------------------------

\* What a transaction read under the advisory lock still holds when it inserts
\* and when it commits, whatever the other requests and failures.
THEOREM TransactionsCorrect == Spec => []TransactionInvariant
BY InitTransaction, NextTransaction, PTL DEF Spec

\* No change fails on the unique index because of a concurrent change.
THEOREM NoCollision == Spec => []ChangesNeverCollide
<1>1. TransactionInvariant => ChangesNeverCollide
  <2> SUFFICES ASSUME TransactionInvariant, NEW c \in Changes,
                      change[c].pc = "inserting"
               PROVE  /\ change[c].version = Len(rows[change[c].target]) + 1
                      /\ ~Pending(c)
    BY DEF ChangesNeverCollide
  <2>1. change[c].version = Len(rows[change[c].target]) + 1
    BY DEF TransactionInvariant, ReadIsCurrent
  <2>2. ~Pending(c)
    BY DEF TransactionInvariant, LockIsExclusive, Pending, Locked, InTransaction
  <2> QED BY <2>1, <2>2
<1> QED BY <1>1, TransactionsCorrect, PTL

\* Every committed version has its audit event, and the events chain the
\* statuses of the ledger.
THEOREM AuditComplete == Spec => []AuditMirrorsLedger
<1>1. TransactionInvariant => AuditMirrorsLedger BY DEF TransactionInvariant
<1> QED BY <1>1, TransactionsCorrect, PTL


-----------------------------------------------------------------------------
(* Refinement.                                                             *)

LEMMA StatusesType ==
  ASSUME StateOK, NEW t \in Targets
  PROVE  /\ Statuses[t] \in Seq(SwitchStatus)
         /\ Len(Statuses[t]) = Len(rows[t])
         /\ \A v \in 1..Len(rows[t]) : Statuses[t][v] = rows[t][v].status
         /\ Ledger!Latest(t) = Status(t)
<1>1. /\ rows[t] \in Seq(Row) /\ Len(rows[t]) \in Nat
      /\ DOMAIN rows[t] = 1..Len(rows[t])
      /\ \A v \in 1..Len(rows[t]) : rows[t][v] \in Row
  BY StatusType, ElementOfSeq
<1>2. Statuses[t] = [v \in 1..Len(rows[t]) |-> rows[t][v].status]
  BY <1>1 DEF Statuses
<1>3. \A v \in 1..Len(rows[t]) : rows[t][v].status \in SwitchStatus BY <1>1 DEF Row
<1>4. /\ Statuses[t] \in Seq(SwitchStatus) /\ Len(Statuses[t]) = Len(rows[t])
      /\ \A v \in 1..Len(rows[t]) : Statuses[t][v] = rows[t][v].status
  BY <1>1, <1>2, <1>3
<1>5. Statuses[t] = <<>> <=> rows[t] = <<>>
  BY <1>1, <1>4, EmptySeq
<1>6. rows[t] # <<>> => Statuses[t][Len(Statuses[t])] = Status(t)
  BY <1>1, <1>4, StatusType
<1> QED BY <1>4, <1>5, <1>6 DEF Ledger!Latest, Status

\* What Append leaves alone and what it adds, for a sequence of a known length.
LEMMA Appended ==
  ASSUME NEW S, NEW q \in Seq(S), NEW e \in S, NEW n \in Nat, Len(q) = n
  PROVE  /\ Append(q, e) \in Seq(S)
         /\ Len(Append(q, e)) = n + 1
         /\ Append(q, e)[n + 1] = e
         /\ \A v \in 1..n : Append(q, e)[v] = q[v]
BY AppendProperties

\* A step of the transactions commits one change of the ledger, or none.
LEMMA StepImplements ==
  TransactionInvariant /\ [Next]_vars => [Ledger!LedgerNext]_Statuses
<1> SUFFICES ASSUME TransactionInvariant, [Next]_vars, rows' # rows
             PROVE  Ledger!LedgerNext
  BY DEF Statuses
<1>1. PICK c \in Changes : Commit(c)
  BY DEF Next, vars, StartChange, ChangeStep, Connect, Lock, ReadLatest, InsertState,
         InsertAudit, Fail, Rollback, Release, StartReading, ReadingStep, ReadState,
         EndReading
<1> DEFINE t == change[c].target
           s == change[c].status
           n == Len(rows[t])
           row == [status |-> s, audit |-> change[c].audit]
<1>2. /\ t \in Targets /\ row \in Row
      /\ rows' \in [Targets -> Seq(Row)]
      /\ Status(t) # row.status
      /\ Len(rows'[t]) = Len(rows[t]) + 1
      /\ rows'[t][Len(rows[t]) + 1] = row
      /\ \A v \in 1..Len(rows[t]) : rows'[t][v] = rows[t][v]
      /\ \A u \in Targets \ {t} : rows'[u] = rows[u]
  BY <1>1, CommitAppends
<1>3. StateOK /\ StateOK' BY CommitInvariant, <1>1 DEF TransactionInvariant
<1>4. s \in SwitchStatus /\ row.status = s BY <1>2 DEF Row
<1>5. /\ Statuses[t] \in Seq(SwitchStatus) /\ Len(Statuses[t]) = n /\ n \in Nat
      /\ \A v \in 1..n : Statuses[t][v] = rows[t][v].status
      /\ Ledger!Latest(t) = Status(t)
  BY <1>2, <1>3, StatusesType, StatusType
<1>6. /\ Statuses'[t] \in Seq(SwitchStatus) /\ Len(Statuses'[t]) = n + 1
      /\ \A v \in 1..(n + 1) : Statuses'[t][v] = rows'[t][v].status
  <2>1. rows'[t] \in Seq(Row) /\ Len(rows'[t]) = n + 1 BY <1>2
  <2>2. /\ DOMAIN rows'[t] = 1..(n + 1)
        /\ \A v \in 1..(n + 1) : rows'[t][v] \in Row
    BY <2>1, LenProperties, ElementOfSeq
  <2>3. Statuses'[t] = [v \in 1..(n + 1) |-> rows'[t][v].status]
    BY <1>2, <2>2 DEF Statuses
  <2>4. \A v \in 1..(n + 1) : rows'[t][v].status \in SwitchStatus BY <2>2 DEF Row
  <2>5. n + 1 \in Nat BY <1>5
  <2> QED BY <2>3, <2>4, <2>5
<1>7. Statuses'[t] = Append(Statuses[t], s)
  <2>1. /\ Append(Statuses[t], s) \in Seq(SwitchStatus)
        /\ Len(Append(Statuses[t], s)) = n + 1
        /\ Append(Statuses[t], s)[n + 1] = s
        /\ \A v \in 1..n : Append(Statuses[t], s)[v] = Statuses[t][v]
    <3>1. /\ Statuses[t] \in Seq(SwitchStatus) /\ s \in SwitchStatus
          /\ n \in Nat /\ Len(Statuses[t]) = n
      BY <1>4, <1>5
    <3> QED BY <3>1, Appended
  <2>2. \A v \in 1..(n + 1) : v \in 1..n \/ v = n + 1 BY <1>5
  <2>3. \A v \in 1..(n + 1) : Statuses'[t][v] = Append(Statuses[t], s)[v]
    BY <1>2, <1>4, <1>5, <1>6, <2>1, <2>2
  <2> QED BY <1>6, <2>1, <2>3, SeqEqual
<1>8. Statuses' = [Statuses EXCEPT ![t] = Append(Statuses[t], s)]
  BY <1>2, <1>7 DEF Statuses
<1>9. Ledger!AppendNext(t, s) BY <1>2, <1>4, <1>5, <1>8 DEF Ledger!AppendNext
<1> QED BY <1>2, <1>4, <1>5, <1>9
        DEF Ledger!LedgerNext, Ledger!Change, Ledger!SwitchStatus, SwitchStatus

\* The committed rows are those of an append-only ledger changed atomically, one
\* status after a different one: concurrency and failures leave no other trace.
THEOREM Refinement == Spec => ImplementsLedger
<1>1. Init => Ledger!LedgerInit BY DEF Init, Statuses, Ledger!LedgerInit
<1>2. TransactionInvariant /\ [Next]_vars => [Ledger!LedgerNext]_Statuses
  BY StepImplements
<1> QED BY <1>1, <1>2, TransactionsCorrect, PTL
        DEF Spec, ImplementsLedger, Ledger!LedgerSpec

\* A change commits only while its status is, or becomes, the latest.
THEOREM ChangesInForce == Spec => AnsweredChangeInForce
<1> DEFINE InForce(c) ==
      change[c].pc = "committing" /\ change'[c].pc = "releasing"
        => rows'[change[c].target] # <<>>
           /\ rows'[change[c].target][Len(rows'[change[c].target])].status
                = change[c].status
<1>1. ASSUME TransactionInvariant, [Next]_vars, NEW c \in Changes,
             change[c].pc = "committing", change'[c].pc = "releasing"
      PROVE  /\ rows'[change[c].target] # <<>>
             /\ rows'[change[c].target][Len(rows'[change[c].target])].status
                  = change[c].status
  <2> DEFINE t == change[c].target
             row == [status |-> change[c].status, audit |-> change[c].audit]
  <2>1. Commit(c)
    <3>1. change \in [Changes -> ChangeState] BY <1>1 DEF TransactionInvariant, StateOK
    <3>2. ASSUME NEW d \in Changes, ChangeStep(d) PROVE Commit(c)
      <4>1. Connect(d) \/ Lock(d) \/ ReadLatest(d) \/ InsertState(d) \/ InsertAudit(d)
              \/ Fail(d) \/ Rollback(d) \/ Release(d) => d = c
        BY <1>1, <3>1
           DEF Connect, Lock, ReadLatest, InsertState, InsertAudit, Fail, Rollback, Release
      <4>2. Commit(d) => d = c BY <1>1, <3>1 DEF Commit
      <4>3. d = c BY <3>2, <4>1, <4>2 DEF ChangeStep
      <4>4. ~Fail(c)
        <5> SUFFICES ASSUME Fail(c) PROVE FALSE OBVIOUS
        <5>1. change'[c].pc = "rollback"
          BY <3>1 DEF Fail, TransactionInvariant, StateOK, ChangeState
        <5> QED BY <1>1, <5>1
      <4> QED BY <1>1, <3>2, <4>3, <4>4
              DEF ChangeStep, Connect, Lock, ReadLatest, InsertState, InsertAudit,
                  Rollback, Release
    <3>3. ASSUME NEW d \in Changes, NEW u \in Targets, NEW status \in SwitchStatus,
                 StartChange(d, u, status)
          PROVE  FALSE
      BY <1>1, <3>1, <3>3 DEF StartChange
    <3>4. change' # change BY <1>1
    <3> QED BY <1>1, <3>2, <3>3, <3>4
            DEF Next, vars, StartReading, ReadingStep, ReadState, EndReading
  <2>2. t \in Targets /\ row.status = change[c].status /\ StateOK
    BY <1>1, <2>1, CommitAppends DEF TransactionInvariant
  <2>3. CASE rows' = rows
    <3>0. Len(rows[t]) \in Nat BY <2>2, StatusType
    <3>1. Status(t) = change[c].status
      <4>1. \/ Status(t) = change[c].status
            \/ Len(rows'[t]) = Len(rows[t]) + 1
        BY <1>1, <2>1, CommitAppends
      <4> QED BY <2>3, <3>0, <4>1
    <3>2. change[c].status # "missing"
      BY <1>1 DEF TransactionInvariant, StateOK, ChangeState, SwitchStatus
    <3>3. rows[t] # <<>> BY <3>1, <3>2 DEF Status
    <3> QED BY <2>2, <2>3, <3>1, <3>3, StatusType
  <2>4. CASE rows' # rows
    <3>1. /\ rows'[t] \in Seq(Row) /\ Len(rows'[t]) = Len(rows[t]) + 1
          /\ rows'[t][Len(rows[t]) + 1] = row
      BY <1>1, <2>1, <2>2, <2>4, CommitAppends
    <3>2. Len(rows[t]) \in Nat BY <2>2, StatusType
    <3>3. rows'[t] # <<>> BY <3>1, <3>2, EmptySeq
    <3> QED BY <2>2, <3>1, <3>3
  <2> QED BY <2>3, <2>4
<1>2. TransactionInvariant /\ [Next]_vars => [\A c \in Changes : InForce(c)]_vars
  BY <1>1
<1> QED BY <1>2, TransactionsCorrect, PTL DEF Spec, AnsweredChangeInForce

-----------------------------------------------------------------------------
(* The pool: those who hold a connection, with those that are free.         *)

Holders == {c \in Changes : change[c].pc \in InTransaction \cup {"releasing"}}

PoolInvariant ==
  /\ free \in Nat /\ IsFiniteSet(Holders)
  /\ free + Cardinality(Holders) = Connections

\* A step that moves change c from one place to another, and frees nothing.
LEMMA HoldersUnchanged ==
  ASSUME StateOK, PoolInvariant, NEW c \in Changes, NEW new,
         change' = [change EXCEPT ![c] = new], free' = free,
         change[c].pc \in InTransaction \cup {"releasing"}
           <=> new.pc \in InTransaction \cup {"releasing"}
  PROVE  PoolInvariant'
<1>1. \A d \in Changes : change'[d] = IF d = c THEN new ELSE change[d] BY DEF StateOK
<1>2. Holders' = Holders BY <1>1 DEF Holders
<1> QED BY <1>2 DEF PoolInvariant

LEMMA ChangeStepPool ==
  ASSUME StateOK, PoolInvariant, NEW c \in Changes, ChangeStep(c)
  PROVE  PoolInvariant'
<1> DEFINE s == change[c]
           HasClient(pc) == pc \in InTransaction \cup {"releasing"}
           At(pc) == [s EXCEPT !.pc = pc]
<1>0. /\ change \in [Changes -> ChangeState] /\ s \in ChangeState
      /\ \A pc : At(pc).pc = pc
  BY DEF StateOK, ChangeState
<1>1. CASE Connect(c)
  <2>1. \A d \in Changes : change'[d] = IF d = c THEN At("locking") ELSE change[d]
    BY <1>0, <1>1 DEF Connect
  <2>2. Holders' = Holders \cup {c}
    <3>1. At("locking").pc = "locking" BY <1>0
    <3> HIDE DEF At
    <3>2. \A d \in Changes : d \in Holders' <=> d = c \/ d \in Holders
      BY <2>1, <3>1 DEF Holders, InTransaction
    <3> QED BY <3>2 DEF Holders
  <2>3. c \notin Holders BY <1>1 DEF Connect, Holders, InTransaction
  <2>4. /\ IsFiniteSet(Holders') /\ Cardinality(Holders') = Cardinality(Holders) + 1
    BY <2>2, <2>3, FS_AddElement DEF PoolInvariant
  <2>5. Cardinality(Holders) \in Nat BY FS_CardinalityType DEF PoolInvariant
  <2> QED BY <1>1, <2>4, <2>5 DEF PoolInvariant, Connect
<1>2. CASE Release(c)
  <2>1. \A d \in Changes : change'[d] = IF d = c THEN IdleChange ELSE change[d]
    BY <1>0, <1>2 DEF Release
  <2>2. Holders' = Holders \ {c} BY <2>1 DEF Holders, IdleChange, InTransaction
  <2>3. c \in Holders BY <1>2 DEF Release, Holders
  <2>4. /\ IsFiniteSet(Holders') /\ Cardinality(Holders') = Cardinality(Holders) - 1
    BY <2>2, <2>3, FS_RemoveElement DEF PoolInvariant
  <2>5. Cardinality(Holders) \in Nat BY FS_CardinalityType DEF PoolInvariant
  <2> QED BY <1>2, <2>4, <2>5 DEF PoolInvariant, Release
<1>3. ASSUME NEW new, change' = [change EXCEPT ![c] = new], free' = free,
             HasClient(s.pc) <=> HasClient(new.pc)
      PROVE  PoolInvariant'
  BY <1>3, HoldersUnchanged
<1>4. CASE Lock(c)
  <2>1. change' = [change EXCEPT ![c] = At("reading")] /\ free' = free /\ HasClient(s.pc)
    BY <1>4 DEF Lock, InTransaction
  <2>2. HasClient(At("reading").pc) BY <1>0 DEF InTransaction
  <2> HIDE DEF At
  <2> QED BY <1>3, <2>1, <2>2
<1>5. CASE ReadLatest(c)
  <2> DEFINE t == s.target
             found == [s EXCEPT !.previous = Status(t), !.version = Len(rows[t]) + 1,
                                !.pc = "inserting"]
  <2>1. free' = free /\ HasClient(s.pc) /\ HasClient("committing") /\ HasClient("inserting")
    BY <1>5 DEF ReadLatest, InTransaction
  <2>2. \/ change' = [change EXCEPT ![c] = At("committing")]
        \/ change' = [change EXCEPT ![c] = found]
    BY <1>5 DEF ReadLatest
  <2>3. found.pc = "inserting" BY <1>0 DEF ChangeState
  <2>4. At("committing").pc = "committing" BY <1>0
  <2> HIDE DEF At, found
  <2> QED BY <1>3, <2>1, <2>2, <2>3, <2>4
<1>6. CASE InsertState(c)
  <2>1. free' = free /\ HasClient(s.pc) /\ HasClient("rollback") /\ HasClient("auditing")
    BY <1>6 DEF InsertState, InTransaction
  <2>2. \/ change' = [change EXCEPT ![c] = At("rollback")]
        \/ change' = [change EXCEPT ![c] = At("auditing")]
    BY <1>6 DEF InsertState
  <2>3. At("rollback").pc = "rollback" /\ At("auditing").pc = "auditing" BY <1>0
  <2> HIDE DEF At
  <2> QED BY <1>3, <2>1, <2>2, <2>3
<1>7. CASE InsertAudit(c)
  <2> DEFINE new == [s EXCEPT !.pc = "committing", !.audit = s.previous]
  <2>1. free' = free /\ HasClient(s.pc) /\ HasClient("committing")
    BY <1>7 DEF InsertAudit, InTransaction
  <2>2. change' = [change EXCEPT ![c] = new] BY <1>7 DEF InsertAudit
  <2>3. new.pc = "committing" BY <1>0 DEF ChangeState
  <2> HIDE DEF new
  <2> QED BY <1>3, <2>1, <2>2, <2>3
<1>8. CASE Commit(c) \/ Rollback(c)
  <2>1. free' = free /\ HasClient(s.pc) /\ HasClient("releasing")
    BY <1>8 DEF Commit, Rollback, InTransaction
  <2>2. change' = [change EXCEPT ![c] = At("releasing")] BY <1>8 DEF Commit, Rollback
  <2>3. At("releasing").pc = "releasing" BY <1>0
  <2> HIDE DEF At
  <2> QED BY <1>3, <2>1, <2>2, <2>3
<1>9. CASE Fail(c)
  <2>1. free' = free /\ HasClient(s.pc) /\ HasClient("rollback")
    BY <1>9 DEF Fail, InTransaction
  <2>2. change' = [change EXCEPT ![c] = At("rollback")] BY <1>9 DEF Fail
  <2>3. At("rollback").pc = "rollback" BY <1>0
  <2> HIDE DEF At
  <2> QED BY <1>3, <2>1, <2>2, <2>3
<1> QED BY <1>1, <1>2, <1>4, <1>5, <1>6, <1>7, <1>8, <1>9 DEF ChangeStep

LEMMA NextPool ==
  ASSUME StateOK, PoolInvariant, [Next]_vars
  PROVE  PoolInvariant'
<1>1. ASSUME NEW c \in Changes, ChangeStep(c) PROVE PoolInvariant'
  BY <1>1, ChangeStepPool
<1>2. ASSUME NEW c \in Changes, NEW t \in Targets, NEW status \in SwitchStatus,
             StartChange(c, t, status)
      PROVE  PoolInvariant'
  <2> DEFINE new == [IdleChange EXCEPT !.pc = "connecting", !.target = t, !.status = status]
  <2>1. /\ change' = [change EXCEPT ![c] = new] /\ free' = free /\ change[c].pc = "idle"
    BY <1>2 DEF StartChange
  <2>2. new.pc = "connecting" BY DEF IdleChange
  <2> HIDE DEF new
  <2> QED BY <2>1, <2>2, HoldersUnchanged DEF InTransaction
<1>3. CASE change' = change /\ free' = free
  BY <1>3 DEF PoolInvariant, Holders
<1> QED
  BY <1>1, <1>2, <1>3 DEF Next, vars, StartReading, ReadingStep, ReadState, EndReading

-----------------------------------------------------------------------------
(* Evaluations: what was blocked all along was not read as released.        *)

ReadingInvariant ==
  /\ reading \in [Readings -> ReadingState] /\ blocked \in [Readings -> SUBSET Targets]
  /\ \A r \in Readings :
       /\ reading[r].pc = "idle" => \A t \in Targets : reading[r].seen[t] = "unread"
       /\ reading[r].pc = "evaluated" => \A t \in Targets : reading[r].seen[t] # "unread"
       /\ \A t \in blocked[r] : Status(t) # "released" /\ reading[r].seen[t] # "released"

LEMMA InitReading == Init => ReadingInvariant
<1> SUFFICES ASSUME Init PROVE ReadingInvariant OBVIOUS
<1>1. IdleReading \in ReadingState BY DEF IdleReading, ReadingState
<1> QED BY <1>1 DEF Init, ReadingInvariant, IdleReading

\* A step of reading r, which changes no row.
LEMMA ReadingMoves ==
  ASSUME ReadingInvariant, NEW r \in Readings, rows' = rows,
         NEW new \in ReadingState, NEW set \in SUBSET Targets,
         reading' = [reading EXCEPT ![r] = new],
         blocked' = [blocked EXCEPT ![r] = set],
         new.pc = "idle" => \A t \in Targets : new.seen[t] = "unread",
         new.pc = "evaluated" => \A t \in Targets : new.seen[t] # "unread",
         \A t \in set : Status(t) # "released" /\ new.seen[t] # "released"
  PROVE  ReadingInvariant'
<1>1. /\ reading' \in [Readings -> ReadingState] /\ blocked' \in [Readings -> SUBSET Targets]
      /\ reading'[r] = new /\ blocked'[r] = set
      /\ \A q \in Readings \ {r} : reading'[q] = reading[q] /\ blocked'[q] = blocked[q]
  BY DEF ReadingInvariant
<1>2. \A t : Status(t)' = Status(t) BY DEF Status
<1> QED BY <1>1, <1>2 DEF ReadingInvariant

LEMMA NextReading ==
  ASSUME TransactionInvariant, ReadingInvariant, [Next]_vars
  PROVE  ReadingInvariant'
<1>0. /\ StateOK /\ reading \in [Readings -> ReadingState]
      /\ blocked \in [Readings -> SUBSET Targets]
  BY DEF TransactionInvariant, ReadingInvariant
<1>1. ASSUME NEW r \in Readings, StartReading(r) PROVE ReadingInvariant'
  <2> DEFINE new == [reading[r] EXCEPT !.pc = "reading"]
             set == {t \in Targets : Status(t) # "released"}
  <2>1. /\ new \in ReadingState /\ new.pc = "reading" /\ new.seen = reading[r].seen
        /\ \A t \in Targets : reading[r].seen[t] = "unread"
    BY <1>0, <1>1 DEF ReadingState, StartReading, ReadingInvariant
  <2>2. /\ reading' = [reading EXCEPT ![r] = new] /\ blocked' = [blocked EXCEPT ![r] = set]
        /\ rows' = rows
    BY <1>1 DEF StartReading
  <2>3. \A t \in set : Status(t) # "released" /\ new.seen[t] # "released" BY <2>1
  <2>4. set \in SUBSET Targets OBVIOUS
  <2> HIDE DEF new, set
  <2> QED BY <2>1, <2>2, <2>3, <2>4, ReadingMoves
<1>2. ASSUME NEW r \in Readings, NEW t \in Targets, ReadState(r, t) PROVE ReadingInvariant'
  <2> DEFINE last == \A u \in Targets \ {t} : reading[r].seen[u] # "unread"
             seen == [reading[r].seen EXCEPT ![t] = Status(t)]
             new == [pc |-> IF last THEN "evaluated" ELSE "reading", seen |-> seen]
             set == blocked[r]
  <2>1. Status(t) \in SwitchStatus \cup {"missing"} BY <1>0, StatusType
  <2>2. reading[r] \in ReadingState /\ reading[r].pc = "reading" BY <1>0, <1>2 DEF ReadState
  <2>3. /\ seen \in [Targets -> SwitchStatus \cup {"missing", "unread"}]
        /\ seen[t] = Status(t) /\ \A u \in Targets \ {t} : seen[u] = reading[r].seen[u]
    BY <2>1, <2>2 DEF ReadingState
  <2>4. new \in ReadingState
    <3> HIDE DEF seen, last
    <3> QED BY <2>3 DEF ReadingState
  <2>5. new.pc = "evaluated" => \A u \in Targets : new.seen[u] # "unread"
    BY <2>1, <2>3 DEF SwitchStatus
  <2>6. \A u \in set : Status(u) # "released" /\ new.seen[u] # "released"
    BY <1>0, <2>3 DEF ReadingInvariant
  <2>7. new = [[reading[r] EXCEPT !.seen[t] = Status(t)] EXCEPT
                 !.pc = IF last THEN "evaluated" ELSE "reading"]
    <3> DEFINE q == [reading[r] EXCEPT !.seen[t] = Status(t)]
               p == IF last THEN "evaluated" ELSE "reading"
    <3>1. q \in [pc : {"reading"}, seen : [Targets -> SwitchStatus \cup {"missing", "unread"}]]
      BY <2>1, <2>2 DEF ReadingState
    <3>2. q.seen = seen BY <2>2 DEF ReadingState
    <3>3. q = [pc |-> "reading", seen |-> seen] BY <3>1, <3>2
    <3> HIDE DEF q, seen, last, p
    <3>4. [q EXCEPT !.pc = p] = [pc |-> p, seen |-> seen] BY <3>3
    <3> QED BY <3>4 DEF q, p
  <2>8. rows' = rows /\ blocked' = blocked BY <1>2 DEF ReadState
  <2>9. reading' = [reading EXCEPT ![r] = new] BY <1>0, <1>2, <2>2, <2>7 DEF ReadState
  <2>10. blocked' = [blocked EXCEPT ![r] = set] BY <1>0, <2>8
  <2>11. set \in SUBSET Targets /\ new.pc # "idle" BY <1>0
  <2> HIDE DEF new, set
  <2> QED BY <2>4, <2>5, <2>6, <2>8, <2>9, <2>10, <2>11, ReadingMoves
<1>3. ASSUME NEW r \in Readings, EndReading(r) PROVE ReadingInvariant'
  <2>1. /\ IdleReading \in ReadingState /\ IdleReading.pc = "idle"
        /\ \A t \in Targets : IdleReading.seen[t] = "unread"
    BY DEF IdleReading, ReadingState
  <2>2. /\ reading' = [reading EXCEPT ![r] = IdleReading] /\ rows' = rows
        /\ blocked' = [blocked EXCEPT ![r] = {}]
    BY <1>3 DEF EndReading
  <2>3. {} \in SUBSET Targets /\ \A t \in {} : FALSE OBVIOUS
  <2> QED BY <2>1, <2>2, <2>3, ReadingMoves
<1>4. ASSUME NEW c \in Changes, Commit(c) PROVE ReadingInvariant'
  <2>1. /\ reading' = reading
        /\ blocked' = [r \in Readings |->
             {t \in blocked[r] :
                rows'[t] = rows[t] \/ rows'[t][Len(rows'[t])].status # "released"}]
    BY <1>4 DEF Commit, ObserveCommit
  <2>2. ASSUME NEW r \in Readings, NEW t \in blocked'[r]
        PROVE  t \in blocked[r] /\ Status(t)' # "released"
    <3>1. /\ t \in blocked[r]
          /\ rows'[t] = rows[t] \/ rows'[t][Len(rows'[t])].status # "released"
      BY <2>1, <2>2
    <3>2. Status(t) # "released" BY <3>1 DEF ReadingInvariant
    <3> QED BY <3>1, <3>2 DEF Status
  <2>3. blocked' \in [Readings -> SUBSET Targets] BY <1>0, <2>1
  <2> QED BY <2>1, <2>2, <2>3 DEF ReadingInvariant
<1>5. CASE rows' = rows /\ reading' = reading /\ blocked' = blocked
  BY <1>5 DEF ReadingInvariant, Status
<1> QED
  BY <1>1, <1>2, <1>3, <1>4, <1>5
     DEF Next, vars, StartChange, ChangeStep, Connect, Lock, ReadLatest, InsertState,
         InsertAudit, Fail, Rollback, Release, ReadingStep

-----------------------------------------------------------------------------

\* Connections are neither lost nor given back twice, and every variable has its
\* type, for every number of changes, evaluations and connections.
THEOREM TypeCorrect == Spec => []TypeOK
<1> DEFINE Inv == TransactionInvariant /\ PoolInvariant /\ ReadingInvariant
<1>1. Init => Inv
  <2> SUFFICES ASSUME Init PROVE Inv OBVIOUS
  <2>1. Holders = {} BY DEF Init, Holders, IdleChange, InTransaction
  <2>2. PoolInvariant BY <2>1, FS_EmptySet, PoolAssumption DEF PoolInvariant, Init
  <2> QED BY <2>2, InitTransaction, InitReading
<1>2. Inv /\ [Next]_vars => Inv'
  BY NextTransaction, NextPool, NextReading DEF TransactionInvariant
<1>3. Inv => TypeOK
  <2> SUFFICES ASSUME Inv PROVE TypeOK OBVIOUS
  <2>1. Cardinality(Holders) \in Nat BY FS_CardinalityType DEF PoolInvariant
  <2>2. free \in 0..Connections BY <2>1, PoolAssumption DEF PoolInvariant
  <2> QED BY <2>2 DEF TypeOK, TransactionInvariant, StateOK, ReadingInvariant,
                      PoolInvariant, Holders
<1> QED BY <1>1, <1>2, <1>3, PTL DEF Spec

\* An evaluation that answers released found every switch released at some moment
\* of its own, however changes and readings interleave.
THEOREM ReleasedWasReleased == Spec => []ReleasedIsNotBlocked
<1>1. TransactionInvariant /\ ReadingInvariant /\ [Next]_vars => ReadingInvariant'
  BY NextReading
<1>2. ReadingInvariant => ReleasedIsNotBlocked
  <2> SUFFICES ASSUME ReadingInvariant, NEW r \in Readings,
                      reading[r].pc = "evaluated", Decision(reading[r].seen) = "released"
               PROVE  blocked[r] = {}
    BY DEF ReleasedIsNotBlocked
  <2>1. reading[r].seen \in [Targets -> SwitchStatus \cup {"missing", "unread"}]
    BY DEF ReadingInvariant, ReadingState
  <2>2. \A t \in Targets : reading[r].seen[t] = "released"
    <3>1. \A t \in Targets : reading[r].seen[t] \notin {"missing", "engaged"}
      BY DEF Decision
    <3>2. \A t \in Targets : reading[r].seen[t] # "unread" BY DEF ReadingInvariant
    <3> QED BY <2>1, <3>1, <3>2 DEF SwitchStatus
  <2>3. blocked[r] \subseteq Targets BY DEF ReadingInvariant
  <2> QED BY <2>2, <2>3 DEF ReadingInvariant
<1> QED BY InitReading, TransactionsCorrect, <1>1, <1>2, PTL DEF Spec
-----------------------------------------------------------------------------
(* The gates of an execution.                                              *)

-----------------------------------------------------------------------------
(* The inductive invariant: what each request is, and what it has seen, is *)
(* said of the request alone and of the moments of it.                     *)

Facts == Gates \cup {"authorization", "protocol"}

Moments == [opened : SUBSET Facts, closed : SUBSET Facts]

\* A request has its authorization, and is where its operation can be.
Placed(q, n) ==
  /\ q.pc = "idle" => q = Idle
  /\ q.pc # "idle" => q.op \in Operations
  /\ q.pc # "answered" => q.answer = "none"
  /\ q.pc \in {"idle", "answered", "resolving", "manifesting", "authorizing", "approving",
              "preparing"} => q.phase = "confirm"
  /\ q.pc = "resolving" => q.op \in {"prepare", "confirm"}
  /\ q.pc \in {"manifesting", "authorizing"} => q.op = "prepare"
  /\ q.pc = "answered" \/ q.op = "prepare" \/ q.pc = "idle" \/ q.id \in 1..n
  /\ q.pc \in {"finding", "refreshing", "approving", "preparing", "manifest", "tenant",
              "campaign", "protocol", "connection", "bindings", "identity", "reading",
              "geography", "saving", "beginning", "writing"} => q.op # "prepare"
  /\ q.pc \in {"manifest", "tenant", "campaign", "protocol", "connection", "bindings",
              "geography"} => q.phase \in {"preflight", "execute"}
  /\ q.pc \in {"identity", "reading", "saving"} => q.phase = "preflight"
  /\ q.pc \in {"beginning", "writing"} => q.phase = "execute"
  /\ q.pc \in {"resolving", "finding"} => q.seen = {}
  /\ q.pc = "refreshing" => q.seen = {} /\ q.copy # "ended"

\* What a request counts as open was open, and a copy that is approved was approved.
Seen(q, h) ==
  q.pc \notin {"idle", "answered"} =>
    /\ q.seen \subseteq h.opened
    /\ q.pc = "refreshing" =>
         IF q.copy = "approved" THEN "authorization" \in h.opened
         ELSE "authorization" \in h.closed

\* The gates that an execution has found open when it comes to a step.
Before ==
  [finding |-> {},
   refreshing |-> {"adapter"},
   manifest |-> {"adapter", "authorization"},
   tenant |-> {"adapter", "authorization", "manifest"},
   campaign |-> {"adapter", "authorization", "manifest", "tenant"},
   protocol |-> {"adapter", "authorization", "manifest", "tenant", "campaign"},
   connection |-> {"adapter", "authorization", "manifest", "tenant", "campaign", "protocol",
                   "target"},
   bindings |-> {"adapter", "authorization", "manifest", "tenant", "campaign", "protocol",
                 "target", "connection"},
   geography |-> {"adapter", "authorization", "manifest", "tenant", "campaign", "protocol",
                  "target", "connection", "page", "whatsapp"},
   beginning |-> {"adapter", "authorization", "manifest", "tenant", "campaign", "protocol",
                  "target", "connection", "page", "whatsapp", "geography"},
   writing |-> {"adapter", "authorization", "manifest", "tenant", "campaign", "protocol",
                "target", "connection", "page", "whatsapp", "geography"}]

Passed(q, h) ==
  q.phase = "execute" => q.pc \in DOMAIN Before /\ Before[q.pc] \subseteq h.opened

\* The facts that a preflight has looked at when it comes to a step, and what it knows
\* then: whatever it does not count as open was closed.
Looked ==
  [manifest |-> {"authorization"},
   tenant |-> {"authorization", "manifest"},
   campaign |-> {"authorization", "manifest", "tenant"},
   protocol |-> {"authorization", "manifest", "tenant", "campaign"},
   connection |-> {"authorization", "manifest", "tenant", "campaign", "protocol", "target",
                   "adapter"},
   bindings |-> {"authorization", "manifest", "tenant", "campaign", "protocol", "target",
                 "adapter", "connection"}]

AllStored == (Stored \ {"plan", "approval"}) \cup Fixed \cup {"authorization", "protocol"}

OfTheAccount == {"pageSeen", "whatsappSeen", "account", "permissions"}

ReadInParallel == [assets |-> {"pageSeen", "whatsappSeen"}, account |-> {"account"},
                   permissions |-> {"permissions"}]

Known(q, h) ==
  LET settled(facts) == facts \subseteq q.seen \cup h.closed
  IN  q.phase = "preflight" =>
        /\ q.pc \in DOMAIN Looked => settled(Looked[q.pc])
        /\ q.pc \in {"identity", "reading", "geography", "saving"} => settled(AllStored)
        /\ q.pc \in {"identity", "reading", "geography"} => "connection" \in q.seen
        /\ q.pc \in {"reading", "geography", "saving"} /\ "connection" \in q.seen
             => settled({"identity"})
        /\ q.pc = "reading" =>
             /\ {"identity", "target"} \subseteq q.seen
             /\ \A what \in DOMAIN ReadInParallel \ q.toRead : settled(ReadInParallel[what])
        /\ q.pc \in {"geography", "saving"} /\ {"connection", "identity", "target"} \subseteq q.seen
             => settled(OfTheAccount)
        /\ q.pc = "geography" => TargetReady(q.seen)
        /\ q.pc = "saving" /\ TargetReady(q.seen) => settled({"geography"})

\* An answer of a preflight is explained by the moments of the request.
Explained(seen, h) ==
  /\ \A c \in Checks \ Blockers(seen) : Needs[c] \subseteq h.opened
  /\ \A c \in Blockers(seen) : Needs[c] \cap h.closed # {}
  /\ FailureCode(seen) # "none" => FailureCode(seen) \in h.closed

Answers(q, h) == q.answer \in {"blocked", "passed"} => Explained(q.told.seen, h)

Good(q, h, n) ==
  Placed(q, n) /\ Seen(q, h) /\ Passed(q, h) /\ Known(q, h) /\ Answers(q, h)

\* Only one request writes, of the protocol that runs; the others are told what it made of it.
Ending ==
  /\ \A r, s \in Requests :
       request[r].pc = "writing" /\ request[s].pc = "writing" => r = s
  /\ \A r \in Requests :
       /\ request[r].pc = "writing" => protocol = "running"
       /\ request[r].answer = "created" => protocol = "succeeded"

GatesInvariant ==
  /\ GTypeOK
  /\ past \in [Requests -> Moments]
  /\ \A r \in Requests : Good(request[r], past[r], Len(authorizations))
  /\ Ending

-----------------------------------------------------------------------------
(* The pieces.                                                             *)

\* No request is a request, also when it is answered.
LEMMA IdleType ==
  ASSUME GatesBoundAssumption
  PROVE  Idle \in Request
BY DEF GatesBoundAssumption, Idle, Request, Preflight, RowStatus

LEMMA AnsweredType ==
  ASSUME NEW r \in Requests, request \in [Requests -> Request], GatesBoundAssumption,
         NEW answer \in {"none", "awaiting", "refused", "blocked", "passed", "created", "failed"},
         NEW told \in Preflight
  PROVE  /\ Answered(r, answer, told) \in Request
         /\ Answered(r, answer, told).pc = "answered"
         /\ Answered(r, answer, told).op = request[r].op
         /\ Answered(r, answer, told).id = request[r].id
         /\ Answered(r, answer, told).phase = "confirm"
         /\ Answered(r, answer, told).answer = answer
         /\ Answered(r, answer, told).told = told
<1>1. request[r] \in Request /\ Idle \in Request /\ Idle.phase = "confirm"
  BY IdleType DEF Idle
<1>2. request[r].op \in {"prepare", "confirm", "execute", "preflight"}
      /\ request[r].id \in 0..MaxAuthorizations
  BY <1>1 DEF Request
<1>3. Answered(r, answer, told)
      = [Idle EXCEPT !.pc = "answered", !.op = request[r].op, !.id = request[r].id,
                     !.answer = answer, !.told = told]
  BY Zenon DEF Answered
<1>. HIDE DEF Idle
<1>. QED
  BY <1>1, <1>2, <1>3 DEF Request

\* The fields of a request.
LEMMA Fields ==
  ASSUME NEW q \in Request
  PROVE  /\ q.op \in {"prepare", "confirm", "execute", "preflight"}
         /\ q.phase \in {"confirm", "preflight", "execute"}
         /\ q.id \in 0..MaxAuthorizations /\ q.copy \in RowStatus /\ q.attempt \in 0..MaxAttempts
         /\ q.seen \subseteq Facts /\ q.toRead \subseteq {"assets", "account", "permissions"}
         /\ q.answer \in {"none", "awaiting", "refused", "blocked", "passed", "created", "failed"}
         /\ q.told \in Preflight
BY DEF Request, Facts

\* What a step reads is about facts.
LEMMA ReadsFacts ==
  ASSUME NEW r \in Requests, request \in [Requests -> Request],
         NEW step \in DOMAIN ReadsAt
  PROVE  /\ ReadsAt[step] \subseteq Gates
         /\ SeenAt(r, step) \subseteq Facts
<1>1. request[r].seen \subseteq Facts
  BY Fields
<1>2. ReadsAt[step] \subseteq Gates
  BY DEF ReadsAt, Gates, Stored, AtMeta, Fixed
<1>. QED
  BY <1>1, <1>2 DEF SeenAt, Facts

LEMMA ReportedIsSeen ==
  ASSUME NEW seen
  PROVE  Reported(seen) \subseteq seen
BY DEF Reported

\* A preflight under the hash of another is that preflight.
LEMMA SamePreflight ==
  ASSUME NEW mine
  PROVE  LET same == {p \in preflights : StableHash(p) = StableHash(mine)}
         IN  (IF same = {} THEN mine ELSE CHOOSE p \in same : TRUE) = mine
<1>. DEFINE same == {p \in preflights : StableHash(p) = StableHash(mine)}
<1>1. CASE same = {}
  BY <1>1
<1>2. CASE same # {}
  <2>1. PICK p \in same : TRUE
    BY <1>2
  <2>2. (CHOOSE x \in same : TRUE) \in same
    BY <2>1
  <2>. QED
    BY <1>2, <2>2 DEF StableHash
<1>. QED
  BY <1>1, <1>2

-----------------------------------------------------------------------------
(* The moments of a request.                                               *)

\* A request that goes on remembers the moment it comes to, and forgets what was before
\* only when it begins to execute.
LEMMA Moment ==
  ASSUME NEW r \in Requests, past \in [Requests -> Moments], Remember, open' \subseteq Gates,
         request[r].pc # "answered", (request[r].pc # "idle")'
  PROVE  /\ open' \subseteq past'[r].opened
         /\ Gates \ open' \subseteq past'[r].closed
         /\ IF protocol' = "prepared" THEN "protocol" \in past'[r].opened
                                      ELSE "protocol" \in past'[r].closed
         /\ IF request'[r].id # 0 /\ authorizations'[request'[r].id] = "approved"
            THEN "authorization" \in past'[r].opened
            ELSE "authorization" \in past'[r].closed
         /\ request[r].phase = "execute" \/ request'[r].phase # "execute"
              => /\ past[r].opened \subseteq past'[r].opened
                 /\ past[r].closed \subseteq past'[r].closed
<1>. DEFINE arrives == request[r].phase # "execute" /\ request'[r].phase = "execute"
            before == IF arrives THEN [opened |-> {}, closed |-> {}] ELSE past[r]
<1>1. past'[r] = [opened |-> before.opened \cup Holding(r)',
                  closed |-> before.closed \cup (Facts \ Holding(r)')]
  BY Zenon DEF Remember, Facts
<1>2. past'[r].opened = before.opened \cup Holding(r)'
      /\ past'[r].closed = before.closed \cup (Facts \ Holding(r)')
  BY <1>1
<1>3. "protocol" \notin Gates /\ "authorization" \notin Gates
  BY DEF Gates, Stored, AtMeta, Fixed
<1>4. /\ open' \subseteq Holding(r)'
      /\ Gates \ open' \subseteq Facts \ Holding(r)'
      /\ IF protocol' = "prepared" THEN "protocol" \in Holding(r)'
                                   ELSE "protocol" \in Facts \ Holding(r)'
      /\ IF request'[r].id # 0 /\ authorizations'[request'[r].id] = "approved"
         THEN "authorization" \in Holding(r)' ELSE "authorization" \in Facts \ Holding(r)'
  BY <1>3 DEF Holding, Facts
<1>5. request[r].phase = "execute" \/ request'[r].phase # "execute" => before = past[r]
  OBVIOUS
<1>. HIDE DEF before
<1>. QED
  BY <1>2, <1>4, <1>5

\* The moments of the other requests: they grow, or the request stands still.
LEMMA OtherMoments ==
  ASSUME NEW s \in Requests, past \in [Requests -> Moments], Remember,
         request'[s] = request[s], request[s].pc # "idle"
  PROVE  past[s].opened \subseteq past'[s].opened /\ past[s].closed \subseteq past'[s].closed
<1>. DEFINE before == IF request[s].phase # "execute" /\ request'[s].phase = "execute"
                      THEN [opened |-> {}, closed |-> {}] ELSE past[s]
<1>1. before = past[s]
  OBVIOUS
<1>2. past'[s] = IF request[s].pc = "answered" THEN before
                 ELSE [opened |-> before.opened \cup Holding(s)',
                       closed |-> before.closed \cup (Facts \ Holding(s)')]
  BY Zenon DEF Remember, Facts
<1>. HIDE DEF before
<1>3. CASE request[s].pc = "answered"
  BY <1>1, <1>2, <1>3
<1>4. CASE request[s].pc # "answered"
  BY <1>1, <1>2, <1>4
<1>. QED
  BY <1>3, <1>4

LEMMA MomentsType ==
  ASSUME past \in [Requests -> Moments], Remember, open' \subseteq Gates
  PROVE  past' \in [Requests -> Moments]
<1>1. SUFFICES ASSUME NEW r \in Requests
               PROVE  (LET arrives == request[r].phase # "execute" /\ request'[r].phase = "execute"
                           before == IF arrives THEN [opened |-> {}, closed |-> {}] ELSE past[r]
                       IN  IF request'[r].pc = "idle" THEN [opened |-> {}, closed |-> {}]
                           ELSE IF request[r].pc = "answered" THEN before
                           ELSE [opened |-> before.opened \cup Holding(r)',
                                 closed |-> before.closed \cup (Facts \ Holding(r)')]) \in Moments
  BY <1>1, Zenon DEF Remember, Facts
<1>. DEFINE before == IF request[r].phase # "execute" /\ request'[r].phase = "execute"
                      THEN [opened |-> {}, closed |-> {}] ELSE past[r]
<1>2. before \in Moments
  BY DEF Moments
<1>3. Holding(r)' \subseteq Facts
  BY DEF Holding, Facts
<1>4. [opened |-> {}, closed |-> {}] \in Moments
  BY DEF Moments
<1>. HIDE DEF before
<1>5. [opened |-> before.opened \cup Holding(r)', closed |-> before.closed \cup (Facts \ Holding(r)')]
        \in Moments
  BY <1>2, <1>3 DEF Moments
<1>. QED
  BY <1>2, <1>4, <1>5 DEF before

\* What is so of a request stays so while it stands still.
LEMMA GoodStays ==
  ASSUME NEW q, NEW h, NEW h2, NEW n \in Nat, NEW n2 \in Nat, n <= n2, Good(q, h, n),
         \/ q.pc = "idle"
         \/ h.opened \subseteq h2.opened /\ h.closed \subseteq h2.closed
  PROVE  Good(q, h2, n2)
<1>1. Placed(q, n2)
  BY DEF Good, Placed
<1>2. CASE q.pc = "idle"
  <2>1. q = Idle /\ q.phase = "confirm" /\ q.answer = "none"
    BY <1>2 DEF Good, Placed, Idle
  <2>. QED
    BY <1>1, <1>2, <2>1 DEF Good, Seen, Passed, Known, Answers
<1>3. CASE h.opened \subseteq h2.opened /\ h.closed \subseteq h2.closed
  <2>1. Seen(q, h2)
    BY <1>3 DEF Good, Seen
  <2>2. Passed(q, h2)
    BY <1>3 DEF Good, Passed
  <2>3. Known(q, h2)
    BY <1>3 DEF Good, Known
  <2>4. Answers(q, h2)
    BY <1>3 DEF Good, Answers, Explained
  <2>. QED
    BY <1>1, <2>1, <2>2, <2>3, <2>4 DEF Good
<1>. QED
  BY <1>2, <1>3

-----------------------------------------------------------------------------
(* What a step of a request does.                                          *)

\* The step is of one request, whose state stays good.
Stepped(r) ==
  /\ GTypeOK'
  /\ \A s \in Requests \ {r} : request'[s] = request[s]
  /\ Len(authorizations) <= Len(authorizations')
  /\ Good(request'[r], past'[r], Len(authorizations'))
  /\ (request[r].pc = "writing")' =>
       protocol' = "running" /\ \A s \in Requests : request[s].pc # "writing"
  /\ (request[r].answer = "created")' => protocol' = "succeeded"

\* A request that was answered without a preflight.
LEMMA AnsweredGood ==
  ASSUME NEW r \in Requests, GatesInvariant, GatesBoundAssumption, request[r].pc # "idle",
         NEW answer \in {"awaiting", "refused", "created", "failed"},
         Answer(r, answer), NEW h, NEW n
  PROVE  /\ request' \in [Requests -> Request]
         /\ \A s \in Requests \ {r} : request'[s] = request[s]
         /\ Good(request'[r], h, n)
         /\ request'[r].pc = "answered" /\ request'[r].answer = answer
<1>1. request \in [Requests -> Request] /\ request[r].told \in Preflight
  BY Fields DEF GatesInvariant, GTypeOK
<1>. DEFINE q == Answered(r, answer, request[r].told)
<1>2. /\ q \in Request /\ q.pc = "answered" /\ q.op = request[r].op /\ q.phase = "confirm"
      /\ q.answer = answer
  BY <1>1, AnsweredType
<1>3. request[r].op \in Operations
  BY DEF GatesInvariant, Good, Placed
<1>4. request' = [request EXCEPT ![r] = q]
  BY DEF Answer
<1>. HIDE DEF q
<1>5. Placed(q, n)
  BY <1>2, <1>3 DEF Placed
<1>6. Seen(q, h) /\ Passed(q, h) /\ Known(q, h) /\ Answers(q, h)
  BY <1>2 DEF Seen, Passed, Known, Answers
<1>. QED
  BY <1>1, <1>2, <1>4, <1>5, <1>6 DEF Good

\* A request that goes on has no answer yet.
LEMMA GoesOnGood ==
  ASSUME NEW q, NEW h, NEW n, Placed(q, n), Seen(q, h), Passed(q, h), Known(q, h),
         q.answer = "none"
  PROVE  Good(q, h, n)
BY DEF Good, Answers

LEMMA StartedType ==
  ASSUME NEW idle \in Request, NEW op \in {"prepare", "confirm", "execute", "preflight"},
         NEW id \in 0..MaxAuthorizations, NEW phase \in {"confirm", "preflight", "execute"},
         NEW pc \in {"resolving", "finding"}
  PROVE  [idle EXCEPT !.op = op, !.id = id, !.phase = phase, !.pc = pc] \in Request
BY DEF Request

LEMMA StartGood ==
  ASSUME NEW r \in Requests, GatesInvariant, OperationsAssumption, GatesBoundAssumption,
         NEW op \in Operations, NEW id \in 0..Len(authorizations), Start(r, op, id), Remember,
         UNCHANGED changes
  PROVE  Stepped(r)
<1>. DEFINE n == Len(authorizations)
<1>1. /\ n \in Nat /\ n <= MaxAuthorizations /\ DOMAIN authorizations = 1..n
      /\ request \in [Requests -> Request] /\ open \subseteq Gates
      /\ past \in [Requests -> Moments]
  BY DEF GatesInvariant, GTypeOK
<1>2. Idle \in Request /\ Idle.phase = "confirm" /\ Idle.seen = {} /\ Idle.answer = "none"
      /\ request[r] = Idle
  BY IdleType DEF Idle, Start, GatesInvariant, Good, Placed
<1>3. op \in {"prepare", "confirm", "execute", "preflight"}
  BY DEF OperationsAssumption
<1>4. op # "prepare" => id \in 1..n
  BY <1>1 DEF Start
<1>. DEFINE q == request'[r]
<1>5. request' = [request EXCEPT ![r] =
       [Idle EXCEPT !.op = op, !.id = id,
          !.phase = IF op \in {"execute", "preflight"} THEN op ELSE "confirm",
          !.pc = IF op \in {"prepare", "confirm"} THEN "resolving" ELSE "finding"]]
  BY Zenon DEF Start
<1>6. /\ request' \in [Requests -> Request]
      /\ \A s \in Requests \ {r} : request'[s] = request[s]
      /\ q.op = op /\ q.id = id /\ q.seen = {} /\ q.answer = "none"
      /\ q.phase = (IF op \in {"execute", "preflight"} THEN op ELSE "confirm")
      /\ q.pc = (IF op \in {"prepare", "confirm"} THEN "resolving" ELSE "finding")
  <2>. DEFINE phase == IF op \in {"execute", "preflight"} THEN op ELSE "confirm"
              pc == IF op \in {"prepare", "confirm"} THEN "resolving" ELSE "finding"
              v == [Idle EXCEPT !.op = op, !.id = id, !.phase = phase, !.pc = pc]
  <2>1. phase \in {"confirm", "preflight", "execute"} /\ pc \in {"resolving", "finding"}
    BY <1>3
  <2>2. id \in 0..MaxAuthorizations
    BY <1>1 DEF GatesBoundAssumption
  <2>3. request' = [request EXCEPT ![r] = v]
    BY <1>5
  <2>. HIDE DEF phase, pc
  <2>4. v \in Request
    BY <1>2, <1>3, <2>1, <2>2, StartedType
  <2>6. v.op = op /\ v.id = id /\ v.seen = {} /\ v.answer = "none"
        /\ v.phase = phase /\ v.pc = pc
    BY <1>2 DEF Request
  <2>. HIDE DEF v
  <2>5. q = v /\ request' \in [Requests -> Request]
        /\ \A s \in Requests \ {r} : request'[s] = request[s]
    BY <1>1, <2>3, <2>4
  <2>. QED
    BY <2>5, <2>6 DEF phase, pc
<1>7. authorizations' = authorizations /\ GTypeOK'
  BY <1>6 DEF Start, GatesInvariant, GTypeOK
<1>. HIDE DEF q
<1>8. Placed(q, n)
  BY <1>3, <1>4, <1>6 DEF Placed
<1>9. Seen(q, past'[r]) /\ Known(q, past'[r])
  BY <1>3, <1>6 DEF Seen, Known, Looked
<1>10. Passed(q, past'[r])
  BY <1>3, <1>6 DEF Passed, Before
<1>. QED
  BY <1>1, <1>6, <1>7, <1>8, <1>9, <1>10, GoesOnGood DEF Stepped, q

\* What is known when a request takes a step.
LEMMA At ==
  ASSUME NEW r \in Requests, GatesInvariant
  PROVE  /\ request \in [Requests -> Request] /\ request[r] \in Request
         /\ past \in [Requests -> Moments] /\ past[r] \in Moments /\ open \subseteq Gates
         /\ Len(authorizations) \in Nat /\ Len(authorizations) <= MaxAuthorizations
         /\ DOMAIN authorizations = 1..Len(authorizations)
         /\ authorizations \in Seq(RowStatus)
         /\ Placed(request[r], Len(authorizations)) /\ Seen(request[r], past[r])
         /\ Passed(request[r], past[r]) /\ Known(request[r], past[r])
BY DEF GatesInvariant, GTypeOK, Good

Places ==
  {"idle", "resolving", "manifesting", "authorizing", "finding", "refreshing",
   "approving", "preparing", "manifest", "tenant", "campaign", "protocol",
   "connection", "bindings", "identity", "reading", "geography", "saving",
   "beginning", "writing", "answered"}

\* A step that ends a request without a preflight.
LEMMA AnsweredStep ==
  ASSUME NEW r \in Requests, GatesInvariant, GatesBoundAssumption, request[r].pc # "idle",
         NEW answer \in {"awaiting", "refused", "created", "failed"}, Answer(r, answer),
         answer = "created" => protocol = "succeeded",
         UNCHANGED <<open, authorizations, attempt, protocol, preflights, changes>>
  PROVE  Stepped(r)
<1>1. /\ request' \in [Requests -> Request]
      /\ \A s \in Requests \ {r} : request'[s] = request[s]
      /\ Good(request'[r], past'[r], Len(authorizations'))
      /\ request'[r].pc = "answered" /\ request'[r].answer = answer
  BY AnsweredGood
<1>2. GTypeOK'
  BY <1>1 DEF GatesInvariant, GTypeOK
<1>. QED
  BY <1>1, <1>2, At DEF Stepped

\* A request that goes somewhere else, and nothing more.
LEMMA GoType ==
  ASSUME NEW r \in Requests, request \in [Requests -> Request], NEW pc \in Places, Go(r, pc)
  PROVE  /\ request' \in [Requests -> Request]
         /\ \A s \in Requests \ {r} : request'[s] = request[s]
         /\ request'[r].pc = pc /\ request'[r].op = request[r].op
         /\ request'[r].phase = request[r].phase /\ request'[r].id = request[r].id
         /\ request'[r].copy = request[r].copy /\ request'[r].seen = request[r].seen
         /\ request'[r].toRead = request[r].toRead /\ request'[r].answer = request[r].answer
BY DEF Go, Request, Places

\* Confirmations before their preflight, and preparations, only keep what they saw.
LEMMA ConfirmingGood ==
  ASSUME NEW r \in Requests, GatesInvariant, Remember, open' \subseteq Gates,
         request[r].pc \notin {"idle", "answered"}, request'[r].pc \notin {"idle", "answered", "refreshing"},
         request[r].phase = "confirm", request'[r].phase = "confirm",
         request'[r].seen = request[r].seen
  PROVE  Seen(request'[r], past'[r]) /\ Passed(request'[r], past'[r]) /\ Known(request'[r], past'[r])
<1>1. past[r].opened \subseteq past'[r].opened /\ request[r].seen \subseteq past[r].opened
  BY At, Moment DEF Seen
<1>. QED
  BY <1>1 DEF Seen, Passed, Known

LEMMA ResolveGood ==
  ASSUME NEW r \in Requests, GatesInvariant, GatesBoundAssumption, Resolve(r), Remember,
         UNCHANGED changes
  PROVE  Stepped(r)
<1>. DEFINE n == Len(authorizations)
<1>1. /\ request[r].pc = "resolving" /\ UNCHANGED <<open, authorizations, attempt, protocol, preflights>>
      /\ request[r].phase = "confirm" /\ request[r].seen = {} /\ request[r].answer = "none"
      /\ request[r].op \in Operations /\ request[r].op \in {"prepare", "confirm"}
      /\ request[r].op = "confirm" => request[r].id \in 1..n
  BY At DEF Resolve, Placed
<1>2. CASE Refuse(r)
  BY <1>1, <1>2, AnsweredStep DEF Refuse
<1>3. ASSUME NEW pc \in {"manifesting", "finding"}, Go(r, pc),
             request[r].op = IF pc = "manifesting" THEN "prepare" ELSE "confirm"
      PROVE  Stepped(r)
  <2>1. /\ request' \in [Requests -> Request]
        /\ \A s \in Requests \ {r} : request'[s] = request[s]
        /\ request'[r].pc = pc /\ request'[r].op = request[r].op
        /\ request'[r].phase = "confirm" /\ request'[r].id = request[r].id
        /\ request'[r].seen = {} /\ request'[r].answer = "none"
    BY <1>1, <1>3, At, GoType DEF Places
  <2>2. Placed(request'[r], n)
    BY <1>1, <1>3, <2>1 DEF Placed
  <2>3. Seen(request'[r], past'[r]) /\ Passed(request'[r], past'[r]) /\ Known(request'[r], past'[r])
    BY <1>1, <2>1, <1>3, At, ConfirmingGood
  <2>4. GTypeOK'
    BY <1>1, <2>1 DEF GatesInvariant, GTypeOK
  <2>. QED
    BY <1>1, <2>1, <2>2, <2>3, <2>4, GoesOnGood, At DEF Stepped
<1>. QED
  BY <1>1, <1>2, <1>3 DEF Resolve

LEMMA ManifestGood ==
  ASSUME NEW r \in Requests, GatesInvariant, GatesBoundAssumption, Manifest(r), Remember,
         UNCHANGED changes
  PROVE  Stepped(r)
<1>. DEFINE n == Len(authorizations)
<1>1. /\ request[r].pc = "manifesting"
      /\ UNCHANGED <<open, authorizations, attempt, protocol, preflights>>
      /\ request[r].phase = "confirm" /\ request[r].answer = "none"
      /\ request[r].op \in Operations /\ request[r].op = "prepare"
  BY At DEF Manifest, Placed
<1>2. CASE Refuse(r)
  BY <1>1, <1>2, AnsweredStep DEF Refuse
<1>3. CASE Go(r, "authorizing")
  <2>1. /\ request' \in [Requests -> Request]
        /\ \A s \in Requests \ {r} : request'[s] = request[s]
        /\ request'[r].pc = "authorizing" /\ request'[r].op = "prepare"
        /\ request'[r].phase = "confirm"
        /\ request'[r].seen = request[r].seen /\ request'[r].answer = "none"
    BY <1>1, <1>3, At, GoType DEF Places
  <2>2. Placed(request'[r], n)
    BY <1>1, <2>1 DEF Placed
  <2>3. Seen(request'[r], past'[r]) /\ Passed(request'[r], past'[r]) /\ Known(request'[r], past'[r])
    BY <1>1, <2>1, At, ConfirmingGood
  <2>4. GTypeOK'
    BY <1>1, <2>1 DEF GatesInvariant, GTypeOK
  <2>. QED
    BY <1>1, <2>1, <2>2, <2>3, <2>4, GoesOnGood, At DEF Stepped
<1>. QED
  BY <1>1, <1>2, <1>3 DEF Manifest

LEMMA RequestAuthorizationGood ==
  ASSUME NEW r \in Requests, GatesInvariant, GatesBoundAssumption, RequestAuthorization(r),
         Remember, UNCHANGED changes
  PROVE  Stepped(r)
<1>1. /\ request[r].pc # "idle" /\ UNCHANGED <<open, attempt, protocol, preflights>>
      /\ \/ authorizations' = authorizations
         \/ /\ authorizations' = Append(authorizations, "pending")
            /\ Len(authorizations) < MaxAuthorizations
  BY DEF RequestAuthorization
<1>2. PICK answer \in {"awaiting", "refused"} : Answer(r, answer)
  BY DEF RequestAuthorization, Refuse
<1>3. /\ authorizations' \in Seq(RowStatus) /\ Len(authorizations') <= MaxAuthorizations
      /\ Len(authorizations) <= Len(authorizations')
  BY <1>1, At DEF RowStatus, GatesBoundAssumption
<1>4. /\ request' \in [Requests -> Request]
      /\ \A s \in Requests \ {r} : request'[s] = request[s]
      /\ Good(request'[r], past'[r], Len(authorizations'))
      /\ request'[r].pc = "answered" /\ request'[r].answer = answer
  BY <1>1, <1>2, AnsweredGood
<1>5. GTypeOK'
  BY <1>1, <1>3, <1>4 DEF GatesInvariant, GTypeOK
<1>. QED
  BY <1>3, <1>4, <1>5 DEF Stepped

-----------------------------------------------------------------------------
(* The authorization.                                                      *)

\* A request that goes somewhere else with what it has seen, and nothing more.
LEMMA MovedType ==
  ASSUME NEW q \in Request, NEW pc \in Places, NEW seen \in SUBSET Facts
  PROVE  [q EXCEPT !.pc = pc, !.seen = seen] \in Request
BY DEF Request, Places, Facts

\* A request that knows the status of its authorization is refused, or goes on.
LEMMA KnowingType ==
  ASSUME NEW r \in Requests, GatesInvariant, GatesBoundAssumption, NEW status \in RowStatus,
         request' = [request EXCEPT ![r] = Knowing(r, status)]
  PROVE  /\ request' \in [Requests -> Request]
         /\ \A s \in Requests \ {r} : request'[s] = request[s]
         /\ request'[r].pc # "idle" /\ request'[r].id = request[r].id
         /\ \/ request[r].phase = "execute" /\ status # "approved" /\ Answer(r, "refused")
            \/ /\ request[r].phase # "execute" \/ status = "approved"
               /\ request'[r].pc = (IF request[r].phase # "confirm" THEN "manifest"
                                    ELSE IF status = "approved" THEN "preparing"
                                    ELSE "approving")
               /\ request'[r].seen = request[r].seen
                    \cup (IF status = "approved" THEN {"authorization"} ELSE {})
               /\ request'[r].op = request[r].op /\ request'[r].phase = request[r].phase
               /\ request'[r].answer = request[r].answer
<1>1. request \in [Requests -> Request] /\ request[r] \in Request
  BY At
<1>2. CASE request[r].phase = "execute" /\ status # "approved"
  <2>1. Knowing(r, status) = Answered(r, "refused", request[r].told)
    BY <1>2 DEF Knowing
  <2>2. /\ Answered(r, "refused", request[r].told) \in Request
        /\ Answered(r, "refused", request[r].told).pc = "answered"
        /\ Answered(r, "refused", request[r].told).id = request[r].id
    BY <1>1, Fields, AnsweredType
  <2>. QED
    BY <1>1, <1>2, <2>1, <2>2 DEF Answer
<1>3. CASE request[r].phase # "execute" \/ status = "approved"
  <2>. DEFINE next == IF request[r].phase # "confirm" THEN "manifest"
                      ELSE IF status = "approved" THEN "preparing" ELSE "approving"
              seen == request[r].seen \cup (IF status = "approved" THEN {"authorization"} ELSE {})
  <2>1. next \in Places /\ seen \in SUBSET Facts
    BY <1>1, Fields DEF Facts, Places
  <2>2. PICK v : /\ v = [request[r] EXCEPT !.pc = next, !.seen = seen]
                 /\ request' = [request EXCEPT ![r] = v]
    BY <1>3, Zenon DEF Knowing
  <2>. HIDE DEF next, seen
  <2>4. v \in Request
    BY <1>1, <2>1, <2>2, MovedType
  <2>5. /\ v.pc = next /\ v.seen = seen /\ v.op = request[r].op
        /\ v.phase = request[r].phase /\ v.id = request[r].id /\ v.answer = request[r].answer
    BY <1>1, <2>2 DEF Request
  <2>3. /\ request' \in [Requests -> Request]
        /\ \A s \in Requests \ {r} : request'[s] = request[s]
        /\ request'[r].id = request[r].id /\ request'[r].pc = next
        /\ request'[r].seen = seen /\ request'[r].op = request[r].op
        /\ request'[r].phase = request[r].phase /\ request'[r].answer = request[r].answer
    BY <1>1, <2>2, <2>4, <2>5
  <2>. QED
    BY <1>3, <2>1, <2>3 DEF next, seen
<1>. QED
  BY <1>2, <1>3

LEMMA KnowingGood ==
  ASSUME NEW r \in Requests, GatesInvariant, GatesBoundAssumption, Remember,
         request[r].pc \in {"finding", "refreshing"}, NEW status \in RowStatus,
         request' = [request EXCEPT ![r] = Knowing(r, status)],
         open' = open, Len(authorizations') = Len(authorizations),
         IF status = "approved" THEN "authorization" \in past'[r].opened
                                ELSE "authorization" \in past'[r].closed,
         request[r].phase = "execute" => "adapter" \in past'[r].opened
  PROVE  /\ Good(request'[r], past'[r], Len(authorizations'))
         /\ request'[r].pc # "writing" /\ request'[r].answer # "created"
<1>. DEFINE n == Len(authorizations)
            q == request[r]
            w == request'[r]
            h == past'[r]
<1>1. /\ q \in Request /\ q.seen = {} /\ q.op # "prepare" /\ q.op \in Operations /\ q.id \in 1..n
      /\ q.answer = "none"
  BY At DEF Placed
<1>2. CASE Answer(r, "refused")
  BY <1>1, <1>2, AnsweredGood
<1>3. CASE /\ q.phase # "execute" \/ status = "approved"
           /\ w.pc = (IF q.phase # "confirm" THEN "manifest"
                      ELSE IF status = "approved" THEN "preparing" ELSE "approving")
           /\ w.seen = q.seen \cup (IF status = "approved" THEN {"authorization"} ELSE {})
           /\ w.op = q.op /\ w.phase = q.phase /\ w.answer = q.answer /\ w.id = q.id
  <2>1. q.phase \in {"confirm", "preflight", "execute"}
    BY <1>1, Fields
  <2>2. Placed(w, n)
    BY <1>1, <1>3, <2>1 DEF Placed
  <2>3. Seen(w, h)
    BY <1>1, <1>3 DEF Seen
  <2>4. Passed(w, h)
    BY <1>3, <2>1 DEF Passed, Before
  <2>5. Known(w, h)
    BY <1>3, <2>1 DEF Known, Looked
  <2>. QED
    BY <1>1, <1>3, <2>2, <2>3, <2>4, <2>5, GoesOnGood
<1>. QED
  BY <1>2, <1>3, KnowingType

LEMMA FindGood ==
  ASSUME NEW r \in Requests, GatesInvariant, GatesBoundAssumption, Find(r), Remember,
         UNCHANGED changes
  PROVE  Stepped(r)
<1>. DEFINE n == Len(authorizations)
            q == request[r]
            w == request'[r]
            h == past'[r]
            status == authorizations[q.id]
<1>1. /\ q.pc = "finding" /\ UNCHANGED <<open, authorizations, attempt, protocol, preflights>>
      /\ q.op # "prepare" /\ q.op \in Operations /\ q.id \in 1..n
      /\ q.answer = "none" /\ q.seen = {} /\ q \in Request
      /\ request \in [Requests -> Request]
      /\ status \in RowStatus
  BY At DEF Find, Placed
<1>2. CASE Refuse(r)
  BY <1>1, <1>2, AnsweredStep DEF Refuse
<1>3. CASE /\ q.phase # "execute" \/ "adapter" \in open
           /\ request' = [request EXCEPT ![r] =
                IF status = "ended" THEN Knowing(r, status)
                ELSE [q EXCEPT !.pc = "refreshing", !.copy = status]]
  <2>1. CASE status = "ended"
    <3>1. request' = [request EXCEPT ![r] = Knowing(r, status)]
      BY <1>3, <2>1
    <3>2. /\ request' \in [Requests -> Request]
          /\ \A s \in Requests \ {r} : request'[s] = request[s]
          /\ w.pc # "idle" /\ w.id = q.id
      BY <1>1, <3>1, KnowingType
    <3>3. "authorization" \in h.closed /\ (q.phase = "execute" => "adapter" \in h.opened)
      BY <1>1, <1>3, <2>1, <3>2, At, Moment
    <3>4. Good(w, h, Len(authorizations')) /\ w.pc # "writing" /\ w.answer # "created"
      BY <1>1, <2>1, <3>1, <3>3, KnowingGood
    <3>5. GTypeOK'
      BY <1>1, <3>2 DEF GatesInvariant, GTypeOK
    <3>. QED
      BY <1>1, <3>2, <3>4, <3>5 DEF Stepped
  <2>2. CASE status # "ended"
    <3>1. request' = [request EXCEPT ![r] = [q EXCEPT !.pc = "refreshing", !.copy = status]]
      BY <1>3, <2>2
    <3>. HIDE DEF status
    <3>2. /\ request' \in [Requests -> Request]
          /\ \A s \in Requests \ {r} : request'[s] = request[s]
          /\ w.pc = "refreshing" /\ w.copy = status /\ w.id = q.id /\ w.op = q.op
          /\ w.seen = {} /\ w.answer = "none" /\ w.phase = q.phase
      BY <1>1, <3>1 DEF Request
    <3>3. IF status = "approved" THEN "authorization" \in h.opened
                                 ELSE "authorization" \in h.closed
      BY <1>1, <3>2, At, Moment DEF status
    <3>4. q.phase = "execute" => "adapter" \in h.opened
      BY <1>1, <1>3, <3>2, At, Moment
    <3>5. Placed(w, n)
      BY <1>1, <2>2, <3>2 DEF Placed
    <3>6. Seen(w, h) /\ Passed(w, h) /\ Known(w, h)
      BY <3>2, <3>3, <3>4 DEF Seen, Passed, Before, Known, Looked
    <3>7. GTypeOK'
      BY <1>1, <3>2 DEF GatesInvariant, GTypeOK
    <3>. QED
      BY <1>1, <3>2, <3>5, <3>6, <3>7, GoesOnGood DEF Stepped
  <2>. QED
    BY <2>1, <2>2
<1>. QED
  BY <1>2, <1>3 DEF Find

\* The status of an authorization changes.
LEMMA StatusChanges ==
  ASSUME NEW seq \in Seq(RowStatus), NEW i \in 1..Len(seq), NEW status \in RowStatus
  PROVE  /\ [seq EXCEPT ![i] = status] \in Seq(RowStatus)
         /\ Len([seq EXCEPT ![i] = status]) = Len(seq)
BY ExceptSeq, LenProperties DEF RowStatus

LEMMA RefreshGood ==
  ASSUME NEW r \in Requests, GatesInvariant, GatesBoundAssumption, Refresh(r), Remember,
         UNCHANGED changes
  PROVE  Stepped(r)
<1>. DEFINE n == Len(authorizations)
            q == request[r]
            w == request'[r]
            h == past'[r]
            i == q.id
            ends == authorizations[i] # "ended" /\ "manifest" \notin open
            status == IF ends THEN "ended" ELSE q.copy
<1>1. /\ q.pc = "refreshing" /\ UNCHANGED <<open, attempt, protocol, preflights>>
      /\ i \in 1..n /\ q \in Request /\ q.copy \in RowStatus
      /\ authorizations \in Seq(RowStatus) /\ n <= MaxAuthorizations
      /\ q.phase \in {"confirm", "preflight", "execute"}
  BY At, Fields DEF Refresh, Placed
<1>2. status \in RowStatus
  BY <1>1 DEF RowStatus
<1>3. request' = [request EXCEPT ![r] = Knowing(r, status)]
  BY DEF Refresh
<1>4. authorizations' = IF ends THEN [authorizations EXCEPT ![i] = "ended"] ELSE authorizations
  BY DEF Refresh
<1>5. authorizations' \in Seq(RowStatus) /\ Len(authorizations') = n
  BY <1>1, <1>4, StatusChanges DEF RowStatus
<1>. HIDE DEF status
<1>6. /\ request' \in [Requests -> Request]
      /\ \A s \in Requests \ {r} : request'[s] = request[s]
      /\ w.pc # "idle" /\ w.id = i
      /\ q.phase = "execute" \/ w.phase # "execute"
  <2>1. /\ request' \in [Requests -> Request]
        /\ \A s \in Requests \ {r} : request'[s] = request[s]
        /\ w.pc # "idle" /\ w.id = i
        /\ w.phase = q.phase \/ Answer(r, "refused")
    BY <1>2, <1>3, KnowingType
  <2>2. Answer(r, "refused") => w.phase = "confirm"
    BY <1>1, AnsweredGood DEF Good, Placed
  <2>. QED
    BY <2>1, <2>2
<1>7. past[r].opened \subseteq h.opened /\ past[r].closed \subseteq h.closed
  BY <1>1, <1>6, At, Moment
<1>8. IF status = "approved" THEN "authorization" \in h.opened
                             ELSE "authorization" \in h.closed
  <2>1. CASE ends
    <3>1. status = "ended" /\ authorizations'[i] = "ended"
      BY <1>1, <1>4, <2>1 DEF status
    <3>. QED
      BY <1>1, <1>6, <3>1, At, Moment
  <2>2. CASE ~ends
    BY <1>1, <1>7, <2>2, At DEF status, Seen
  <2>. QED
    BY <2>1, <2>2
<1>9. q.phase = "execute" => "adapter" \in h.opened
  BY <1>1, <1>7, At DEF Passed, Before
<1>10. Good(w, h, Len(authorizations')) /\ w.pc # "writing" /\ w.answer # "created"
  BY <1>1, <1>2, <1>3, <1>5, <1>8, <1>9, KnowingGood
<1>11. GTypeOK'
  BY <1>1, <1>5, <1>6 DEF GatesInvariant, GTypeOK
<1>. QED
  BY <1>1, <1>5, <1>6, <1>10, <1>11, At DEF Stepped

LEMMA ApproveGood ==
  ASSUME NEW r \in Requests, GatesInvariant, GatesBoundAssumption, Approve(r), Remember,
         UNCHANGED changes
  PROVE  Stepped(r)
<1>. DEFINE n == Len(authorizations)
            q == request[r]
            w == request'[r]
            h == past'[r]
            i == q.id
            can == authorizations[i] = "pending" /\ "manifest" \in open
<1>1. /\ q.pc = "approving" /\ UNCHANGED <<open, attempt, protocol, preflights>>
      /\ i \in 1..n /\ q \in Request /\ q.phase = "confirm" /\ q.answer = "none"
      /\ q.op # "prepare" /\ q.op \in Operations
      /\ authorizations \in Seq(RowStatus) /\ n <= MaxAuthorizations
  BY At, Fields DEF Approve, Placed
<1>2. authorizations' = IF can THEN [authorizations EXCEPT ![i] = "approved"] ELSE authorizations
  BY DEF Approve
<1>3. authorizations' \in Seq(RowStatus) /\ Len(authorizations') = n
  BY <1>1, <1>2, StatusChanges DEF RowStatus
<1>4. CASE ~can
  BY <1>1, <1>2, <1>4, AnsweredStep DEF Approve, Refuse
<1>5. CASE can
  <2>1. Go(r, "preparing")
    BY <1>5 DEF Approve
  <2>2. /\ request' \in [Requests -> Request]
        /\ \A s \in Requests \ {r} : request'[s] = request[s]
        /\ w.pc = "preparing" /\ w.op = q.op /\ w.phase = "confirm" /\ w.id = i
        /\ w.seen = q.seen /\ w.answer = "none"
    BY <1>1, <2>1, At, GoType DEF Places
  <2>3. Placed(w, n)
    BY <1>1, <2>2 DEF Placed
  <2>4. Seen(w, h) /\ Passed(w, h) /\ Known(w, h)
    BY <1>1, <2>2, At, ConfirmingGood
  <2>5. GTypeOK'
    BY <1>1, <1>3, <2>2 DEF GatesInvariant, GTypeOK
  <2>. QED
    BY <1>1, <1>3, <2>2, <2>3, <2>4, <2>5, GoesOnGood, At DEF Stepped
<1>. QED
  BY <1>4, <1>5

LEMMA PrepareGood ==
  ASSUME NEW r \in Requests, GatesInvariant, GatesBoundAssumption, Prepare(r), Remember,
         UNCHANGED changes
  PROVE  Stepped(r)
<1>. DEFINE n == Len(authorizations)
            q == request[r]
            w == request'[r]
            h == past'[r]
<1>1. /\ q.pc = "preparing" /\ UNCHANGED <<open, authorizations, preflights>>
      /\ q.id \in 1..n /\ q \in Request /\ q.answer = "none" /\ q.phase = "confirm"
      /\ q.op # "prepare" /\ q.op \in Operations
      /\ request \in [Requests -> Request]
  BY At DEF Prepare, Placed
<1>2. CASE Refuse(r) /\ UNCHANGED <<attempt, protocol>>
  BY <1>1, <1>2, AnsweredStep DEF Refuse
<1>3. CASE /\ request' = [request EXCEPT ![r] =
                [q EXCEPT !.pc = "finding", !.phase = "preflight", !.seen = {}]]
           /\ \/ attempt < MaxAttempts /\ attempt' = attempt + 1 /\ protocol' = "prepared"
              \/ UNCHANGED <<attempt, protocol>>
  <2>1. /\ request' \in [Requests -> Request]
        /\ \A s \in Requests \ {r} : request'[s] = request[s]
        /\ w.pc = "finding" /\ w.op = q.op /\ w.phase = "preflight" /\ w.id = q.id
        /\ w.seen = {} /\ w.answer = "none"
    BY <1>1, <1>3 DEF Request
  <2>2. Placed(w, n)
    BY <1>1, <2>1 DEF Placed
  <2>3. Seen(w, h) /\ Passed(w, h) /\ Known(w, h)
    BY <2>1 DEF Seen, Passed, Known, Looked
  <2>4. GTypeOK'
    BY <1>1, <1>3, <2>1 DEF GatesInvariant, GTypeOK, Protocol, GatesBoundAssumption
  <2>. QED
    BY <1>1, <2>1, <2>2, <2>3, <2>4, GoesOnGood, At DEF Stepped
<1>. QED
  BY <1>2, <1>3 DEF Prepare

-----------------------------------------------------------------------------
(* The preflight.                                                          *)

\* A preflight that reads some gates knows of them, and keeps what it knew.
LEMMA Reading ==
  ASSUME NEW r \in Requests, GatesInvariant, Remember, open' = open,
         request[r].pc \notin {"idle", "answered"},
         request'[r].pc \notin {"idle", "answered", "refreshing"},
         request[r].phase = "preflight", request'[r].phase = "preflight",
         NEW facts \in SUBSET Gates,
         request'[r].seen = request[r].seen \cup (facts \cap open)
  PROVE  /\ Seen(request'[r], past'[r]) /\ Passed(request'[r], past'[r])
         /\ request[r].seen \subseteq request'[r].seen
         /\ \A known : known \subseteq request[r].seen \cup past[r].closed
              => known \subseteq request'[r].seen \cup past'[r].closed
         /\ facts \subseteq request'[r].seen \cup past'[r].closed
<1>1. /\ past[r].opened \subseteq past'[r].opened /\ past[r].closed \subseteq past'[r].closed
      /\ open \subseteq past'[r].opened /\ Gates \ open \subseteq past'[r].closed
      /\ request[r].seen \subseteq past[r].opened
  BY At, Moment DEF Seen
<1>. QED
  BY <1>1 DEF Seen, Passed

\* What does not change in the place of a preflight.
LEMMA StillPlaced ==
  ASSUME NEW q, NEW w, NEW n, Placed(q, n), q.phase = "preflight",
         q.pc \in {"manifest", "tenant", "campaign", "protocol", "connection", "bindings",
                   "identity", "reading", "geography"},
         w.pc \in {"manifest", "tenant", "campaign", "protocol", "connection", "bindings",
                   "identity", "reading", "geography", "saving"},
         w.op = q.op, w.phase = "preflight", w.id = q.id, w.answer = q.answer
  PROVE  Placed(w, n) /\ w.answer = "none"
BY DEF Placed

\* A step of a preflight that only reads.
LEMMA ReadStep ==
  ASSUME NEW r \in Requests, GatesInvariant, Remember,
         UNCHANGED <<open, authorizations, attempt, protocol, preflights, changes>>,
         request' \in [Requests -> Request],
         \A s \in Requests \ {r} : request'[s] = request[s],
         Placed(request'[r], Len(authorizations)), request'[r].answer = "none",
         request'[r].pc # "writing",
         Seen(request'[r], past'[r]), Passed(request'[r], past'[r]),
         Known(request'[r], past'[r])
  PROVE  Stepped(r)
<1>1. GTypeOK'
  BY DEF GatesInvariant, GTypeOK
<1>2. Len(authorizations) <= Len(authorizations') /\ Len(authorizations') = Len(authorizations)
  BY At
<1>3. Good(request'[r], past'[r], Len(authorizations'))
  BY <1>2, GoesOnGood
<1>. QED
  BY <1>1, <1>2, <1>3 DEF Stepped

LEMMA PreflightReadGood ==
  ASSUME NEW r \in Requests, GatesInvariant, PreflightRead(r), Remember, UNCHANGED changes
  PROVE  Stepped(r)
<1>. DEFINE q == request[r]
            w == request'[r]
            h == past'[r]
            step == q.pc
            seen == SeenAt(r, step)
<1>1. /\ q.phase = "preflight" /\ step \in {"manifest", "tenant", "campaign", "connection"}
      /\ UNCHANGED <<open, authorizations, attempt, protocol, preflights>>
      /\ q \in Request /\ request \in [Requests -> Request]
      /\ Placed(q, Len(authorizations)) /\ Known(q, past[r])
  BY At DEF PreflightRead
<1>2. seen \in SUBSET Facts /\ ReadsAt[step] \in SUBSET Gates
  BY <1>1, ReadsFacts DEF ReadsAt
<1>3. After[step] \in {"tenant", "campaign", "protocol", "bindings"}
  BY <1>1 DEF After
<1>4. request' = [request EXCEPT ![r].pc = After[step], ![r].seen = seen]
  BY DEF PreflightRead
<1>. HIDE DEF seen
<1>5. /\ request' \in [Requests -> Request]
      /\ \A s \in Requests \ {r} : request'[s] = request[s]
      /\ w.pc = After[step] /\ w.seen = seen /\ w.op = q.op /\ w.phase = "preflight"
      /\ w.id = q.id /\ w.answer = q.answer
  BY <1>1, <1>2, <1>3, <1>4 DEF Request, Facts
<1>6. Placed(w, Len(authorizations)) /\ w.answer = "none"
  BY <1>1, <1>3, <1>5, StillPlaced
<1>7. w.seen = q.seen \cup (ReadsAt[step] \cap open)
  BY <1>5 DEF seen, SeenAt
<1>8. /\ Seen(w, h) /\ Passed(w, h)
      /\ \A known : known \subseteq q.seen \cup past[r].closed
           => known \subseteq w.seen \cup h.closed
      /\ ReadsAt[step] \subseteq w.seen \cup h.closed
  BY <1>1, <1>2, <1>3, <1>5, <1>7, Reading
<1>9. Looked[step] \subseteq q.seen \cup past[r].closed
  BY <1>1 DEF Known, Looked
<1>10. Looked[After[step]] \subseteq Looked[step] \cup ReadsAt[step]
  BY <1>1 DEF Looked, After, ReadsAt
<1>11. Known(w, h)
  BY <1>3, <1>5, <1>8, <1>9, <1>10 DEF Known
<1>. QED
  BY <1>1, <1>3, <1>5, <1>6, <1>8, <1>11, ReadStep

LEMMA PreflightProtocolGood ==
  ASSUME NEW r \in Requests, GatesInvariant, PreflightProtocol(r), Remember, UNCHANGED changes
  PROVE  Stepped(r)
<1>. DEFINE q == request[r]
            w == request'[r]
            h == past'[r]
            seen == ProtocolSeen(r)
<1>1. /\ q.phase = "preflight" /\ q.pc = "protocol"
      /\ UNCHANGED <<open, authorizations, attempt, protocol, preflights>>
      /\ q \in Request /\ request \in [Requests -> Request]
      /\ Placed(q, Len(authorizations)) /\ Known(q, past[r]) /\ Seen(q, past[r])
      /\ attempt \in 0..MaxAttempts
  BY At DEF PreflightProtocol, GatesInvariant, GTypeOK
<1>2. seen \in SUBSET Facts
  BY <1>1, Fields DEF ProtocolSeen, Facts, Gates
<1>3. request' = [request EXCEPT ![r].pc = "connection", ![r].attempt = attempt, ![r].seen = seen]
  BY DEF PreflightProtocol
<1>. HIDE DEF seen
<1>4. /\ request' \in [Requests -> Request]
      /\ \A s \in Requests \ {r} : request'[s] = request[s]
      /\ w.pc = "connection" /\ w.seen = seen /\ w.op = q.op /\ w.phase = "preflight"
      /\ w.id = q.id /\ w.answer = q.answer
  BY <1>1, <1>2, <1>3 DEF Request, Facts
<1>5. Placed(w, Len(authorizations)) /\ w.answer = "none"
  BY <1>1, <1>4, StillPlaced
<1>6. /\ past[r].opened \subseteq h.opened /\ past[r].closed \subseteq h.closed
      /\ open \subseteq h.opened /\ Gates \ open \subseteq h.closed
      /\ IF protocol = "prepared" THEN "protocol" \in h.opened ELSE "protocol" \in h.closed
  BY <1>1, <1>4, At, Moment
<1>7. Seen(w, h) /\ Passed(w, h)
  BY <1>1, <1>4, <1>6 DEF Seen, Passed, seen, ProtocolSeen
<1>8. Looked["protocol"] \subseteq q.seen \cup past[r].closed
  BY <1>1 DEF Known, Looked
<1>9. Looked["connection"] \subseteq Looked["protocol"] \cup {"protocol"} \cup Fixed
  BY DEF Looked, Fixed
<1>10. {"protocol"} \cup Fixed \subseteq seen \cup h.closed
  BY <1>6 DEF seen, ProtocolSeen, Gates
<1>11. Known(w, h)
  <2>1. Looked["connection"] \subseteq w.seen \cup h.closed
    BY <1>4, <1>6, <1>8, <1>9, <1>10 DEF seen, ProtocolSeen
  <2>. QED
    BY <1>4, <2>1 DEF Known
<1>. QED
  BY <1>1, <1>4, <1>5, <1>7, <1>11, ReadStep

LEMMA PreflightBindingsGood ==
  ASSUME NEW r \in Requests, GatesInvariant, PreflightBindings(r), Remember, UNCHANGED changes
  PROVE  Stepped(r)
<1>. DEFINE q == request[r]
            w == request'[r]
            h == past'[r]
            seen == SeenAt(r, "bindings")
            pc == IF "connection" \in seen THEN "identity" ELSE "saving"
<1>1. /\ q.phase = "preflight" /\ q.pc = "bindings"
      /\ UNCHANGED <<open, authorizations, attempt, protocol, preflights>>
      /\ q \in Request /\ request \in [Requests -> Request]
      /\ Placed(q, Len(authorizations)) /\ Known(q, past[r])
  BY At DEF PreflightBindings
<1>2. seen \in SUBSET Facts /\ pc \in {"identity", "saving"} /\ {"page", "whatsapp"} \in SUBSET Gates
      /\ seen = q.seen \cup ({"page", "whatsapp"} \cap open)
  BY <1>1, ReadsFacts DEF ReadsAt, SeenAt
<1>3. request' = [request EXCEPT ![r].seen = seen, ![r].pc = pc]
  BY DEF PreflightBindings
<1>4. "connection" \in seen <=> pc = "identity"
  OBVIOUS
<1>. HIDE DEF seen, pc
<1>5. /\ request' \in [Requests -> Request]
      /\ \A s \in Requests \ {r} : request'[s] = request[s]
      /\ w.pc = pc /\ w.seen = seen /\ w.op = q.op /\ w.phase = "preflight"
      /\ w.id = q.id /\ w.answer = q.answer
  BY <1>1, <1>2, <1>3 DEF Request, Facts
<1>6. Placed(w, Len(authorizations)) /\ w.answer = "none"
  BY <1>1, <1>2, <1>5, StillPlaced
<1>7. /\ Seen(w, h) /\ Passed(w, h)
      /\ \A known : known \subseteq q.seen \cup past[r].closed
           => known \subseteq w.seen \cup h.closed
      /\ {"page", "whatsapp"} \subseteq w.seen \cup h.closed
  BY <1>1, <1>2, <1>5, Reading
<1>8. Looked["bindings"] \subseteq q.seen \cup past[r].closed
  BY <1>1 DEF Known, Looked
<1>9. AllStored \subseteq Looked["bindings"] \cup {"page", "whatsapp"}
  BY DEF AllStored, Looked, Stored, Fixed
<1>10. AllStored \subseteq w.seen \cup h.closed
  BY <1>7, <1>8, <1>9
<1>11. pc \notin DOMAIN Looked
  BY <1>2 DEF Looked
<1>12. Known(w, h)
  BY <1>2, <1>4, <1>5, <1>10, <1>11 DEF Known, TargetReady
<1>. QED
  BY <1>1, <1>2, <1>5, <1>6, <1>7, <1>12, ReadStep

\* After Meta's answers the request looks up the cities or saves.
LEMMA AfterMetaPlace ==
  ASSUME NEW seen
  PROVE  /\ AfterMeta(seen) \in {"geography", "saving"}
         /\ AfterMeta(seen) = "geography" <=> TargetReady(seen)
         /\ AfterMeta(seen) \notin DOMAIN Looked
         /\ "identity" \notin DOMAIN Looked /\ "reading" \notin DOMAIN Looked
         /\ "saving" \notin DOMAIN Looked
BY DEF AfterMeta, Looked

LEMMA PreflightIdentityGood ==
  ASSUME NEW r \in Requests, GatesInvariant, PreflightIdentity(r), Remember, UNCHANGED changes
  PROVE  Stepped(r)
<1>. DEFINE q == request[r]
            w == request'[r]
            h == past'[r]
            seen == SeenAt(r, "identity")
            pc == IF {"identity", "target"} \subseteq seen THEN "reading" ELSE AfterMeta(seen)
            all == {"assets", "account", "permissions"}
<1>1. /\ q.phase = "preflight" /\ q.pc = "identity"
      /\ UNCHANGED <<open, authorizations, attempt, protocol, preflights>>
      /\ q \in Request /\ request \in [Requests -> Request]
      /\ Placed(q, Len(authorizations)) /\ Known(q, past[r])
  BY At DEF PreflightIdentity, Placed
<1>2. seen \in SUBSET Facts /\ {"identity"} \in SUBSET Gates
      /\ seen = q.seen \cup ({"identity"} \cap open)
  BY <1>1, ReadsFacts DEF ReadsAt, SeenAt
<1>3. request' = [request EXCEPT ![r].seen = seen, ![r].toRead = all, ![r].pc = pc]
  BY DEF PreflightIdentity
<1>4. /\ pc \in {"reading", "geography", "saving"} /\ pc \notin DOMAIN Looked
      /\ pc = "reading" <=> {"identity", "target"} \subseteq seen
      /\ pc = "geography" => TargetReady(seen)
      /\ pc = "saving" => ~TargetReady(seen)
  BY AfterMetaPlace
<1>. HIDE DEF seen, pc
<1>5. /\ request' \in [Requests -> Request]
      /\ \A s \in Requests \ {r} : request'[s] = request[s]
      /\ w.pc = pc /\ w.seen = seen /\ w.op = q.op /\ w.phase = "preflight"
      /\ w.id = q.id /\ w.answer = q.answer /\ w.toRead = all
  BY <1>1, <1>2, <1>3, <1>4 DEF Request, Facts
<1>6. Placed(w, Len(authorizations)) /\ w.answer = "none"
  BY <1>1, <1>4, <1>5, StillPlaced
<1>7. /\ Seen(w, h) /\ Passed(w, h) /\ q.seen \subseteq w.seen
      /\ \A known : known \subseteq q.seen \cup past[r].closed
           => known \subseteq w.seen \cup h.closed
      /\ {"identity"} \subseteq w.seen \cup h.closed
  BY <1>1, <1>2, <1>4, <1>5, Reading
<1>8. AllStored \subseteq w.seen \cup h.closed /\ "connection" \in w.seen
  BY <1>1, <1>7 DEF Known
<1>9. DOMAIN ReadInParallel \ all = {}
  BY DEF ReadInParallel
<1>10. Known(w, h)
  BY <1>4, <1>5, <1>7, <1>8, <1>9 DEF Known
<1>. QED
  BY <1>1, <1>4, <1>5, <1>6, <1>7, <1>10, ReadStep

LEMMA PreflightMetaGood ==
  ASSUME NEW r \in Requests, GatesInvariant, NEW what \in request[r].toRead,
         PreflightMeta(r, what), Remember, UNCHANGED changes
  PROVE  Stepped(r)
<1>. DEFINE q == request[r]
            w == request'[r]
            h == past'[r]
            seen == SeenAt(r, what)
            left == q.toRead \ {what}
            pc == IF left = {} THEN AfterMeta(seen) ELSE "reading"
<1>1. /\ q.phase = "preflight" /\ q.pc = "reading"
      /\ UNCHANGED <<open, authorizations, attempt, protocol, preflights>>
      /\ q \in Request /\ request \in [Requests -> Request]
      /\ Placed(q, Len(authorizations)) /\ Known(q, past[r])
      /\ q.toRead \subseteq {"assets", "account", "permissions"}
  BY At, Fields DEF PreflightMeta, Placed
<1>2. /\ what \in {"assets", "account", "permissions"}
      /\ seen \in SUBSET Facts /\ ReadsAt[what] \in SUBSET Gates
      /\ seen = q.seen \cup (ReadsAt[what] \cap open)
      /\ ReadsAt[what] = ReadInParallel[what]
      /\ DOMAIN ReadInParallel = {"assets", "account", "permissions"}
  <2>1. what \in {"assets", "account", "permissions"}
    BY <1>1
  <2>2. what \in DOMAIN ReadsAt /\ ReadsAt[what] = ReadInParallel[what]
    BY <2>1 DEF ReadsAt, ReadInParallel
  <2>3. DOMAIN ReadInParallel = {"assets", "account", "permissions"}
    BY DEF ReadInParallel
  <2>. QED
    BY <1>1, <2>1, <2>2, <2>3, ReadsFacts DEF SeenAt
<1>3. request' = [request EXCEPT ![r].seen = seen, ![r].toRead = left, ![r].pc = pc]
  BY DEF PreflightMeta
<1>4. /\ pc \in {"reading", "geography", "saving"} /\ pc \notin DOMAIN Looked
      /\ pc # "reading" <=> left = {}
      /\ pc = "geography" => TargetReady(seen)
      /\ pc = "saving" => ~TargetReady(seen)
  BY AfterMetaPlace
<1>. HIDE DEF seen, pc
<1>5. /\ request' \in [Requests -> Request]
      /\ \A s \in Requests \ {r} : request'[s] = request[s]
      /\ w.pc = pc /\ w.seen = seen /\ w.op = q.op /\ w.phase = "preflight"
      /\ w.id = q.id /\ w.answer = q.answer /\ w.toRead = left
  BY <1>1, <1>2, <1>3, <1>4 DEF Request, Facts
<1>6. Placed(w, Len(authorizations)) /\ w.answer = "none"
  BY <1>1, <1>4, <1>5, StillPlaced
<1>7. /\ Seen(w, h) /\ Passed(w, h) /\ q.seen \subseteq w.seen
      /\ \A known : known \subseteq q.seen \cup past[r].closed
           => known \subseteq w.seen \cup h.closed
      /\ ReadInParallel[what] \subseteq w.seen \cup h.closed
  BY <1>1, <1>2, <1>4, <1>5, Reading
<1>8. /\ AllStored \subseteq w.seen \cup h.closed /\ "connection" \in w.seen
      /\ {"identity", "target"} \subseteq w.seen
  BY <1>1, <1>7 DEF Known
<1>9. \A a \in DOMAIN ReadInParallel \ left : ReadInParallel[a] \subseteq w.seen \cup h.closed
  <2>1. TAKE a \in DOMAIN ReadInParallel \ left
  <2>2. CASE a = what
    BY <1>7, <2>2
  <2>3. CASE a # what
    <3>1. ReadInParallel[a] \subseteq q.seen \cup past[r].closed
      BY <1>1, <2>1, <2>3 DEF Known
    <3>. QED
      BY <1>7, <3>1
  <2>. QED
    BY <2>2, <2>3
<1>10. left = {} => OfTheAccount \subseteq w.seen \cup h.closed
  <2>1. OfTheAccount
        = ReadInParallel["assets"] \cup ReadInParallel["account"] \cup ReadInParallel["permissions"]
    BY DEF OfTheAccount, ReadInParallel
  <2>. QED
    BY <1>2, <1>9, <2>1
<1>11. Known(w, h)
  BY <1>4, <1>5, <1>7, <1>8, <1>9, <1>10 DEF Known
<1>. QED
  BY <1>1, <1>4, <1>5, <1>6, <1>7, <1>11, ReadStep

LEMMA PreflightGeographyGood ==
  ASSUME NEW r \in Requests, GatesInvariant, PreflightGeography(r), Remember, UNCHANGED changes
  PROVE  Stepped(r)
<1>. DEFINE q == request[r]
            w == request'[r]
            h == past'[r]
            seen == SeenAt(r, "geography")
<1>1. /\ q.phase = "preflight" /\ q.pc = "geography"
      /\ UNCHANGED <<open, authorizations, attempt, protocol, preflights>>
      /\ q \in Request /\ request \in [Requests -> Request]
      /\ Placed(q, Len(authorizations)) /\ Known(q, past[r])
  BY At DEF PreflightGeography
<1>2. seen \in SUBSET Facts /\ {"geography"} \in SUBSET Gates
      /\ seen = q.seen \cup ({"geography"} \cap open)
  BY <1>1, ReadsFacts DEF ReadsAt, SeenAt
<1>3. request' = [request EXCEPT ![r].pc = "saving", ![r].seen = seen]
  BY DEF PreflightGeography
<1>. HIDE DEF seen
<1>5. /\ request' \in [Requests -> Request]
      /\ \A s \in Requests \ {r} : request'[s] = request[s]
      /\ w.pc = "saving" /\ w.seen = seen /\ w.op = q.op /\ w.phase = "preflight"
      /\ w.id = q.id /\ w.answer = q.answer
  BY <1>1, <1>2, <1>3 DEF Request, Facts
<1>6. Placed(w, Len(authorizations)) /\ w.answer = "none"
  BY <1>1, <1>5, StillPlaced
<1>7. /\ Seen(w, h) /\ Passed(w, h) /\ q.seen \subseteq w.seen
      /\ \A known : known \subseteq q.seen \cup past[r].closed
           => known \subseteq w.seen \cup h.closed
      /\ {"geography"} \subseteq w.seen \cup h.closed
  BY <1>1, <1>2, <1>5, Reading
<1>8. AllStored \subseteq w.seen \cup h.closed /\ {"identity"} \subseteq w.seen \cup h.closed
  BY <1>1, <1>7 DEF Known
<1>9. {"connection", "identity", "target"} \subseteq w.seen => OfTheAccount \subseteq w.seen \cup h.closed
  <2>1. "identity" \in w.seen /\ "target" \in w.seen => "identity" \in q.seen /\ "target" \in q.seen
    BY <1>1, <1>2, <1>5 DEF Known, TargetReady
  <2>2. {"identity", "target"} \subseteq q.seen => OfTheAccount \subseteq q.seen \cup past[r].closed
    BY <1>1 DEF Known
  <2>. QED
    BY <1>7, <2>1, <2>2
<1>10. Known(w, h)
  BY <1>5, <1>7, <1>8, <1>9, AfterMetaPlace DEF Known
<1>. QED
  BY <1>1, <1>5, <1>6, <1>7, <1>10, ReadStep

-----------------------------------------------------------------------------
(* What a preflight reports.                                               *)

LEMMA DiagnosedFacts ==
  /\ DOMAIN Diagnosed = 1..9
  /\ Diagnosed[1] = "connection" /\ Diagnosed[2] = "identity" /\ Diagnosed[3] = "target"
  /\ Diagnosed[4] = "account" /\ Diagnosed[5] = "page" /\ Diagnosed[6] = "whatsapp"
  /\ Diagnosed[7] = "pageSeen" /\ Diagnosed[8] = "whatsappSeen" /\ Diagnosed[9] = "permissions"
  /\ \A i \in 1..9 : Diagnosed[i] # "none"
  /\ \A i, j \in 1..9 : Diagnosed[i] = Diagnosed[j] => i = j
<1>1. /\ DOMAIN Diagnosed = 1..9
      /\ Diagnosed[1] = "connection" /\ Diagnosed[2] = "identity" /\ Diagnosed[3] = "target"
      /\ Diagnosed[4] = "account" /\ Diagnosed[5] = "page" /\ Diagnosed[6] = "whatsapp"
      /\ Diagnosed[7] = "pageSeen" /\ Diagnosed[8] = "whatsappSeen" /\ Diagnosed[9] = "permissions"
  BY DEF Diagnosed
<1>2. \A i \in 1..9 : i = 1 \/ i = 2 \/ i = 3 \/ i = 4 \/ i = 5 \/ i = 6 \/ i = 7 \/ i = 8 \/ i = 9
  OBVIOUS
<1>3. \A i \in 1..9 : Diagnosed[i] # "none"
  BY <1>1, <1>2
<1>4. \A i, j \in 1..9 : Diagnosed[i] = Diagnosed[j] => i = j
  BY <1>1, <1>2
<1>. QED
  BY <1>1, <1>3, <1>4

\* A set of some of the first nine numbers has a least one.
LEMMA LeastOfNine ==
  ASSUME NEW S \in SUBSET (1..9), S # {}
  PROVE  Min(S) \in S /\ \A j \in S : Min(S) <= j
<1>1. \E k \in S : \A j \in S : k <= j
  <2>1. \A j \in S : j \in 1..9
    OBVIOUS
  <2>2. CASE 1 \in S \/ 2 \in S \/ 3 \in S
    BY <2>1, <2>2
  <2>3. CASE 1 \notin S /\ 2 \notin S /\ 3 \notin S
    <3>1. \A j \in S : j \in 4..9
      BY <2>1, <2>3
    <3>2. CASE 4 \in S \/ 5 \in S \/ 6 \in S
      BY <3>1, <3>2
    <3>3. CASE 4 \notin S /\ 5 \notin S /\ 6 \notin S
      <4>1. \A j \in S : j \in 7..9
        BY <3>1, <3>3
      <4>2. PICK x \in S : TRUE
        OBVIOUS
      <4>3. 7 \in S \/ 8 \in S \/ 9 \in S
        BY <4>1, <4>2
      <4>. QED
        BY <4>1, <4>3
    <3>. QED
      BY <3>2, <3>3
  <2>. QED
    BY <2>2, <2>3
<1>. QED
  BY <1>1 DEF Min

\* failureCode is the first gate in the order of the diagnostic that was not seen open.
LEMMA FailureFirst ==
  ASSUME NEW seen
  PROVE  \/ FailureCode(seen) = "none" /\ \A i \in 1..9 : Diagnosed[i] \in seen
         \/ \E k \in 1..9 : /\ FailureCode(seen) = Diagnosed[k] /\ Diagnosed[k] \notin seen
                            /\ \A j \in 1..9 : j < k => Diagnosed[j] \in seen
<1>. DEFINE closed == {i \in DOMAIN Diagnosed : Diagnosed[i] \notin seen}
<1>1. closed \in SUBSET (1..9)
  BY DiagnosedFacts
<1>2. CASE closed = {}
  BY <1>2, DiagnosedFacts DEF FailureCode
<1>3. CASE closed # {}
  <2>1. Min(closed) \in closed /\ \A j \in closed : Min(closed) <= j
    BY <1>1, <1>3, LeastOfNine
  <2>2. FailureCode(seen) = Diagnosed[Min(closed)]
    BY <1>3 DEF FailureCode
  <2>3. \A j \in 1..9 : j < Min(closed) => Diagnosed[j] \in seen
    BY <1>1, <2>1, DiagnosedFacts
  <2>. QED
    BY <1>1, <2>1, <2>2, <2>3
<1>. QED
  BY <1>2, <1>3

\* A preflight that was saved is explained by what its request knew.
LEMMA SavedIsExplained ==
  ASSUME NEW q, NEW h, q.pc = "saving", q.phase = "preflight", Seen(q, h), Known(q, h)
  PROVE  Explained(Reported(q.seen), h)
<1>. DEFINE seen == q.seen
            told == Reported(seen)
            code == FailureCode(seen)
            settled(facts) == facts \subseteq seen \cup h.closed
<1>1. /\ seen \subseteq h.opened /\ told \subseteq seen
      /\ settled(AllStored)
      /\ "connection" \in seen => settled({"identity"})
      /\ {"connection", "identity", "target"} \subseteq seen => settled(OfTheAccount)
      /\ TargetReady(seen) => settled({"geography"})
  BY ReportedIsSeen DEF Seen, Known
<1>2. ASSUME NEW k \in 1..9, Diagnosed[k] \notin seen,
             \A j \in 1..9 : j < k => Diagnosed[j] \in seen
      PROVE  Diagnosed[k] \in h.closed
  <2>1. {"connection", "target", "page", "whatsapp"} \subseteq AllStored
        /\ {"account", "pageSeen", "whatsappSeen", "permissions"} \subseteq OfTheAccount
    BY DEF AllStored, Stored, Fixed, OfTheAccount
  <2>2. k > 1 => "connection" \in seen
    BY <1>2, DiagnosedFacts
  <2>3. k > 3 => {"connection", "identity", "target"} \subseteq seen
    BY <1>2, DiagnosedFacts
  <2>4. k = 1 \/ k = 2 \/ k = 3 \/ k = 4 \/ k = 5 \/ k = 6 \/ k = 7 \/ k = 8 \/ k = 9
    OBVIOUS
  <2>5. CASE k \in {1, 3, 5, 6}
    <3>1. Diagnosed[k] \in {"connection", "target", "page", "whatsapp"}
      BY <2>5, DiagnosedFacts
    <3>. QED
      BY <1>1, <1>2, <2>1, <3>1
  <2>6. CASE k = 2
    BY <1>1, <1>2, <2>2, <2>6, DiagnosedFacts
  <2>7. CASE k \in {4, 7, 8, 9}
    <3>1. Diagnosed[k] \in OfTheAccount
      BY <2>1, <2>7, DiagnosedFacts
    <3>2. k > 3
      BY <2>7
    <3>. QED
      BY <1>1, <1>2, <2>3, <3>1, <3>2
  <2>. QED
    BY <2>4, <2>5, <2>6, <2>7
<1>3. code # "none" => code \in h.closed /\ code \notin seen
  BY <1>2, FailureFirst
<1>4. code = "none" => \A i \in 1..9 : Diagnosed[i] \in seen
  BY FailureFirst, DiagnosedFacts
<1>5. ASSUME NEW f \in seen, f \notin told
      PROVE  \E j \in 1..9, k \in 1..9 :
               f = Diagnosed[j] /\ k <= j /\ code = Diagnosed[k]
               /\ f \notin {"page", "whatsapp", "target"}
  <2>1. PICK j \in DOMAIN Diagnosed : /\ \E k \in 1..j : Diagnosed[k] = code
                                      /\ f = Diagnosed[j] /\ f \notin {"page", "whatsapp", "target"}
    BY <1>5 DEF Reported
  <2>2. PICK k \in 1..j : Diagnosed[k] = code
    BY <2>1
  <2>. QED
    BY <2>1, <2>2, DiagnosedFacts
<1>6. ASSUME NEW f \in seen, f \notin told
      PROVE  /\ f \in {"identity", "account", "pageSeen", "whatsappSeen", "permissions"}
             /\ code # "none"
  <2>1. PICK j \in 1..9, k \in 1..9 : f = Diagnosed[j] /\ k <= j /\ code = Diagnosed[k]
               /\ f \notin {"page", "whatsapp", "target"}
    BY <1>5, <1>6
  <2>2. code # "none"
    BY <2>1, DiagnosedFacts
  <2>3. j # 1
    BY <1>3, <1>6, <2>1, <2>2
  <2>4. j = 2 \/ j = 3 \/ j = 4 \/ j = 5 \/ j = 6 \/ j = 7 \/ j = 8 \/ j = 9
    BY <2>3
  <2>. QED
    BY <2>1, <2>2, <2>4, DiagnosedFacts
<1>7. \A c \in Checks \ Blockers(told) : Needs[c] \subseteq h.opened
  BY <1>1 DEF Blockers
<1>8. FailureCode(told) # "none" => FailureCode(told) \in h.closed
  <2>. SUFFICES ASSUME FailureCode(told) # "none" PROVE FailureCode(told) \in h.closed
    OBVIOUS
  <2>1. PICK k \in 1..9 : /\ FailureCode(told) = Diagnosed[k] /\ Diagnosed[k] \notin told
                          /\ \A j \in 1..9 : j < k => Diagnosed[j] \in told
    BY FailureFirst
  <2>2. CASE Diagnosed[k] \notin seen
    BY <1>1, <1>2, <2>1, <2>2
  <2>3. CASE Diagnosed[k] \in seen
    <3>1. PICK j \in 1..9, i \in 1..9 : Diagnosed[k] = Diagnosed[j] /\ i <= j /\ code = Diagnosed[i]
      BY <1>5, <2>1, <2>3
    <3>2. j = k /\ code # "none"
      BY <3>1, DiagnosedFacts
    <3>3. Diagnosed[i] \notin seen
      BY <1>3, <3>1, <3>2
    <3>4. i < k
      BY <2>3, <3>1, <3>2, <3>3
    <3>. QED
      BY <1>1, <2>1, <3>3, <3>4
  <2>. QED
    BY <2>2, <2>3
<1>9. ASSUME NEW c \in Blockers(told)
      PROVE  Needs[c] \cap h.closed # {}
  <2>1. c \in Checks /\ \E f \in Needs[c] : f \notin told
    BY DEF Blockers
  <2>2. PICK f \in Needs[c] : f \notin told
    BY <2>1
  <2>3. CASE c = "real_meta_write_validation"
    <3>1. Needs[c] = {"protocol"} \cup {Diagnosed[i] : i \in DOMAIN Diagnosed}
      BY <2>3 DEF Needs
    <3>2. CASE code # "none"
      <4>1. code \in Needs[c]
        BY <3>1, <3>2, FailureFirst, DiagnosedFacts
      <4>. QED
        BY <1>3, <3>2, <4>1
    <3>3. CASE code = "none"
      <4>1. f \notin seen
        BY <1>6, <2>2, <3>3
      <4>2. f = "protocol"
        BY <1>4, <2>2, <3>1, <3>3, <4>1, DiagnosedFacts
      <4>. QED
        BY <1>1, <2>2, <4>1, <4>2 DEF AllStored
    <3>. QED
      BY <3>2, <3>3
  <2>4. CASE c = "meta_geography_resolved"
    <3>1. Needs[c] = {"geography", "target", "connection", "page", "whatsapp"}
      BY <2>4 DEF Needs
    <3>2. f \notin seen
      BY <1>6, <2>2, <3>1
    <3>3. {"target", "connection", "page", "whatsapp"} \subseteq AllStored
      BY DEF AllStored, Stored, Fixed
    <3>. QED
      BY <1>1, <2>2, <3>1, <3>2, <3>3 DEF TargetReady
  <2>5. CASE c \notin {"real_meta_write_validation", "meta_geography_resolved"}
    <3>1. c \in {"manifest_current", "specific_execution_authorization", "tenant_kill_switch",
                 "campaign_kill_switch", "write_adapter_enabled"}
      BY <2>1, <2>5 DEF Checks, Needs
    <3>2. f \in {"manifest", "authorization", "tenant", "campaign", "adapter"}
      BY <2>2, <3>1 DEF Needs
    <3>3. f \notin seen /\ f \in AllStored
      BY <1>6, <2>2, <3>2 DEF AllStored, Stored, Fixed
    <3>. QED
      BY <1>1, <2>2, <3>3
  <2>. QED
    BY <2>3, <2>4, <2>5
<1>. QED
  BY <1>7, <1>8, <1>9 DEF Explained

LEMMA SaveGood ==
  ASSUME NEW r \in Requests, GatesInvariant, GatesBoundAssumption, Save(r), Remember,
         UNCHANGED changes
  PROVE  Stepped(r)
<1>. DEFINE n == Len(authorizations)
            q == request[r]
            w == request'[r]
            h == past'[r]
            mine == [id |-> q.id, seen |-> Reported(q.seen), attempt |-> q.attempt]
            result == IF Blockers(mine.seen) = {} THEN "passed" ELSE "blocked"
<1>1. /\ q.phase = "preflight" /\ q.pc = "saving"
      /\ UNCHANGED <<open, authorizations, attempt, protocol>>
      /\ q \in Request /\ request \in [Requests -> Request] /\ q.answer = "none"
      /\ Placed(q, n) /\ Known(q, past[r]) /\ Seen(q, past[r])
      /\ q.op \in Operations /\ q.op # "prepare" /\ q.id \in 1..n
  BY At DEF Save, Placed
<1>2. mine \in Preflight
  BY <1>1, Fields, ReportedIsSeen DEF Preflight, Facts
<1>3. /\ preflights' = preflights \cup {mine}
      /\ request' = [request EXCEPT ![r] =
           IF GoesOn(r, mine)
           THEN [q EXCEPT !.pc = "finding", !.phase = "execute", !.seen = {}]
           ELSE Answered(r, result, mine)]
  <2>. DEFINE same == {p \in preflights : StableHash(p) = StableHash(mine)}
              told == IF same = {} THEN mine ELSE CHOOSE p \in same : TRUE
  <2>1. told = mine
    BY SamePreflight
  <2>2. /\ preflights' = preflights \cup {told}
        /\ request' = [request EXCEPT ![r] =
             IF GoesOn(r, told)
             THEN [q EXCEPT !.pc = "finding", !.phase = "execute", !.seen = {}]
             ELSE Answered(r, IF Blockers(told.seen) = {} THEN "passed" ELSE "blocked", told)]
    BY DEF Save
  <2>. HIDE DEF told, mine
  <2>. QED
    BY <2>1, <2>2
<1>4. mine.seen = Reported(q.seen) /\ result \in {"passed", "blocked"}
  OBVIOUS
<1>. HIDE DEF mine, result
<1>5. CASE GoesOn(r, mine)
  <2>1. /\ request' \in [Requests -> Request]
        /\ \A s \in Requests \ {r} : request'[s] = request[s]
        /\ w.pc = "finding" /\ w.phase = "execute" /\ w.seen = {} /\ w.op = q.op
        /\ w.id = q.id /\ w.answer = q.answer
    BY <1>1, <1>3, <1>5 DEF Request
  <2>2. Placed(w, n)
    BY <1>1, <2>1 DEF Placed
  <2>3. Seen(w, h) /\ Passed(w, h) /\ Known(w, h)
    BY <2>1 DEF Seen, Passed, Known, Before
  <2>4. GTypeOK'
    BY <1>1, <1>2, <1>3, <2>1 DEF GatesInvariant, GTypeOK
  <2>. QED
    BY <1>1, <2>1, <2>2, <2>3, <2>4, GoesOnGood, At DEF Stepped
<1>6. CASE ~GoesOn(r, mine)
  <2>. DEFINE a == Answered(r, result, mine)
  <2>1. /\ a \in Request /\ a.pc = "answered" /\ a.op = q.op /\ a.id = q.id
        /\ a.phase = "confirm" /\ a.answer = result /\ a.told = mine
    BY <1>1, <1>2, <1>4, AnsweredType
  <2>2. request' = [request EXCEPT ![r] = a]
    BY <1>3, <1>6
  <2>. HIDE DEF a
  <2>3. /\ request' \in [Requests -> Request]
        /\ \A s \in Requests \ {r} : request'[s] = request[s]
        /\ w = a
    BY <1>1, <2>1, <2>2
  <2>4. past[r].opened \subseteq h.opened /\ past[r].closed \subseteq h.closed
    BY <1>1, <2>1, <2>3, At, Moment
  <2>5. Explained(mine.seen, past[r])
    BY <1>1, <1>4, SavedIsExplained
  <2>6. Explained(mine.seen, h)
    BY <2>4, <2>5 DEF Explained
  <2>7. Placed(w, n)
    BY <1>1, <1>4, <2>1, <2>3 DEF Placed
  <2>8. Seen(w, h) /\ Passed(w, h) /\ Known(w, h) /\ Answers(w, h)
    BY <2>1, <2>3, <2>6 DEF Seen, Passed, Known, Answers
  <2>9. GTypeOK'
    BY <1>1, <1>2, <1>3, <2>3 DEF GatesInvariant, GTypeOK
  <2>. QED
    BY <1>1, <1>4, <2>1, <2>3, <2>7, <2>8, <2>9, At DEF Stepped, Good
<1>. QED
  BY <1>5, <1>6

-----------------------------------------------------------------------------
(* The execution.                                                          *)

LEMMA ExecuteReadGood ==
  ASSUME NEW r \in Requests, GatesInvariant, GatesBoundAssumption, ExecuteRead(r), Remember,
         UNCHANGED changes
  PROVE  Stepped(r)
<1>. DEFINE q == request[r]
            w == request'[r]
            h == past'[r]
            step == q.pc
            seen == SeenAt(r, step)
            next == CASE step = "bindings" -> "geography"
                      [] step = "geography" -> "beginning"
                      [] OTHER -> After[step]
<1>1. /\ q.phase = "execute"
      /\ step \in {"manifest", "tenant", "campaign", "connection", "bindings", "geography"}
      /\ UNCHANGED <<open, authorizations, attempt, protocol, preflights>>
      /\ q \in Request /\ request \in [Requests -> Request]
      /\ Placed(q, Len(authorizations)) /\ Seen(q, past[r]) /\ Passed(q, past[r])
  BY At DEF ExecuteRead
<1>2. CASE Refuse(r)
  BY <1>1, <1>2, AnsweredStep DEF Refuse
<1>3. CASE /\ MustBeOpen(step) \subseteq open
           /\ request' = [request EXCEPT ![r].seen = seen, ![r].pc = next]
  <2>1. /\ step \in DOMAIN ReadsAt /\ next \in DOMAIN Before
        /\ Before[next] \subseteq Before[step] \cup ReadsAt[step]
        /\ next \in {"tenant", "campaign", "protocol", "bindings", "geography", "beginning"}
    <3>1. CASE step = "manifest"
      BY <3>1 DEF ReadsAt, Before, After
    <3>2. CASE step = "tenant"
      BY <3>2 DEF ReadsAt, Before, After
    <3>3. CASE step = "campaign"
      BY <3>3 DEF ReadsAt, Before, After
    <3>4. CASE step = "connection"
      BY <3>4 DEF ReadsAt, Before, After
    <3>5. CASE step = "bindings"
      BY <3>5 DEF ReadsAt, Before, After
    <3>6. CASE step = "geography"
      BY <3>6 DEF ReadsAt, Before, After
    <3>. QED
      BY <1>1, <3>1, <3>2, <3>3, <3>4, <3>5, <3>6
  <2>2. seen \in SUBSET Facts /\ seen = q.seen \cup (ReadsAt[step] \cap open)
        /\ ReadsAt[step] \subseteq open
    BY <1>1, <1>3, <2>1, ReadsFacts DEF SeenAt, MustBeOpen
  <2>. HIDE DEF seen, next
  <2>3. /\ request' \in [Requests -> Request]
        /\ \A s \in Requests \ {r} : request'[s] = request[s]
        /\ w.pc = next /\ w.seen = seen /\ w.op = q.op /\ w.phase = "execute"
        /\ w.id = q.id /\ w.answer = q.answer
    BY <1>1, <1>3, <2>1, <2>2 DEF Request, Facts
  <2>4. Placed(w, Len(authorizations)) /\ w.answer = "none"
    BY <1>1, <2>1, <2>3 DEF Placed
  <2>5. past[r].opened \subseteq h.opened /\ open \subseteq h.opened
    BY <1>1, <2>1, <2>3, At, Moment
  <2>6. Seen(w, h)
    BY <1>1, <2>1, <2>2, <2>3, <2>5 DEF Seen
  <2>7. Before[step] \subseteq past[r].opened
    BY <1>1 DEF Passed
  <2>8. Passed(w, h)
    BY <2>1, <2>2, <2>3, <2>5, <2>7 DEF Passed
  <2>9. Known(w, h)
    BY <2>3 DEF Known
  <2>. QED
    BY <1>1, <2>1, <2>3, <2>4, <2>6, <2>8, <2>9, ReadStep
<1>. QED
  BY <1>2, <1>3 DEF ExecuteRead

LEMMA ExecuteProtocolGood ==
  ASSUME NEW r \in Requests, GatesInvariant, GatesBoundAssumption, ExecuteProtocol(r), Remember,
         UNCHANGED changes
  PROVE  Stepped(r)
<1>. DEFINE q == request[r]
            w == request'[r]
            h == past'[r]
<1>1. /\ q.phase = "execute" /\ q.pc = "protocol"
      /\ UNCHANGED <<open, authorizations, attempt, protocol, preflights>>
      /\ q \in Request /\ request \in [Requests -> Request]
      /\ Placed(q, Len(authorizations)) /\ Seen(q, past[r]) /\ Passed(q, past[r])
      /\ attempt \in 0..MaxAttempts
  BY At DEF ExecuteProtocol, GatesInvariant, GTypeOK
<1>2. CASE Refuse(r)
  BY <1>1, <1>2, AnsweredStep DEF Refuse
<1>3. CASE protocol = "succeeded" /\ Answer(r, "created")
  BY <1>1, <1>3, AnsweredStep
<1>4. CASE /\ protocol = "prepared" /\ "target" \in open
           /\ request' = [request EXCEPT ![r].pc = "connection", ![r].attempt = attempt]
  <2>1. /\ request' \in [Requests -> Request]
        /\ \A s \in Requests \ {r} : request'[s] = request[s]
        /\ w.pc = "connection" /\ w.seen = q.seen /\ w.op = q.op /\ w.phase = "execute"
        /\ w.id = q.id /\ w.answer = q.answer
    BY <1>1, <1>4 DEF Request
  <2>2. Placed(w, Len(authorizations)) /\ w.answer = "none"
    BY <1>1, <2>1 DEF Placed
  <2>3. past[r].opened \subseteq h.opened /\ {"protocol", "target"} \subseteq h.opened
    BY <1>1, <1>4, <2>1, At, Moment
  <2>4. Seen(w, h)
    BY <1>1, <2>1, <2>3 DEF Seen
  <2>5. Before["protocol"] \subseteq past[r].opened
    BY <1>1 DEF Passed
  <2>6. Passed(w, h)
    BY <2>1, <2>3, <2>5 DEF Passed, Before
  <2>7. Known(w, h)
    BY <2>1 DEF Known
  <2>. QED
    BY <1>1, <2>1, <2>2, <2>4, <2>6, <2>7, ReadStep
<1>. QED
  BY <1>2, <1>3, <1>4 DEF ExecuteProtocol

LEMMA BeginGood ==
  ASSUME NEW r \in Requests, GatesInvariant, GatesBoundAssumption, Begin(r), Remember,
         UNCHANGED changes
  PROVE  Stepped(r)
<1>. DEFINE q == request[r]
            w == request'[r]
            h == past'[r]
<1>1. /\ q.pc = "beginning" /\ q.phase = "execute"
      /\ UNCHANGED <<open, authorizations, attempt, preflights>>
      /\ q \in Request /\ request \in [Requests -> Request]
      /\ Placed(q, Len(authorizations)) /\ Seen(q, past[r]) /\ Passed(q, past[r])
      /\ q.answer = "none"
  BY At DEF Begin, Placed
<1>2. CASE Refuse(r) /\ UNCHANGED protocol
  BY <1>1, <1>2, AnsweredStep DEF Refuse
<1>3. CASE protocol = "prepared" /\ protocol' = "running" /\ Go(r, "writing")
  <2>1. /\ request' \in [Requests -> Request]
        /\ \A s \in Requests \ {r} : request'[s] = request[s]
        /\ w.pc = "writing" /\ w.seen = q.seen /\ w.op = q.op /\ w.phase = "execute"
        /\ w.id = q.id /\ w.answer = "none"
    BY <1>1, <1>3, GoType DEF Places
  <2>2. Placed(w, Len(authorizations))
    BY <1>1, <2>1 DEF Placed
  <2>3. past[r].opened \subseteq h.opened
    BY <1>1, <2>1, At, Moment
  <2>4. Seen(w, h)
    BY <1>1, <2>1, <2>3 DEF Seen
  <2>5. Before["beginning"] \subseteq past[r].opened /\ Before["writing"] = Before["beginning"]
        /\ "writing" \in DOMAIN Before
    BY <1>1 DEF Passed, Before
  <2>6. Passed(w, h)
    BY <2>1, <2>3, <2>5 DEF Passed
  <2>7. Known(w, h)
    BY <2>1 DEF Known
  <2>8. GTypeOK'
    BY <1>1, <1>3, <2>1 DEF GatesInvariant, GTypeOK, Protocol
  <2>9. \A s \in Requests : request[s].pc # "writing"
    BY <1>3 DEF GatesInvariant, Ending
  <2>. QED
    BY <1>1, <1>3, <2>1, <2>2, <2>4, <2>6, <2>7, <2>8, <2>9, GoesOnGood, At DEF Stepped
<1>. QED
  BY <1>2, <1>3 DEF Begin

LEMMA WriteGood ==
  ASSUME NEW r \in Requests, GatesInvariant, GatesBoundAssumption, Write(r), Remember,
         UNCHANGED changes
  PROVE  Stepped(r)
<1>1. /\ request[r].pc = "writing" /\ UNCHANGED <<authorizations, attempt, preflights>>
      /\ protocol = "running" /\ open' \subseteq Gates
      /\ protocol' \in {"succeeded", "failed"}
  BY At DEF Write, GatesInvariant, Ending
<1>2. PICK answer \in {"created", "failed"} :
        Answer(r, answer) /\ (answer = "created" => protocol' = "succeeded")
  BY DEF Write
<1>3. /\ request' \in [Requests -> Request]
      /\ \A s \in Requests \ {r} : request'[s] = request[s]
      /\ Good(request'[r], past'[r], Len(authorizations'))
      /\ request'[r].pc = "answered" /\ request'[r].answer = answer
  BY <1>1, <1>2, AnsweredGood
<1>4. GTypeOK'
  BY <1>1, <1>3 DEF GatesInvariant, GTypeOK, Protocol
<1>. QED
  BY <1>1, <1>2, <1>3, <1>4, At DEF Stepped

LEMMA LeaveGood ==
  ASSUME NEW r \in Requests, GatesInvariant, GatesBoundAssumption, Leave(r), Remember,
         UNCHANGED changes
  PROVE  Stepped(r)
<1>1. /\ UNCHANGED <<open, authorizations, attempt, protocol, preflights>>
      /\ request' = [request EXCEPT ![r] = Idle] /\ request \in [Requests -> Request]
  BY At DEF Leave
<1>2. /\ Idle \in Request /\ Idle.pc = "idle" /\ Idle.phase = "confirm" /\ Idle.answer = "none"
      /\ Idle.op = "preflight"
  BY IdleType DEF Idle
<1>3. /\ request' \in [Requests -> Request] /\ request'[r] = Idle
      /\ \A s \in Requests \ {r} : request'[s] = request[s]
  BY <1>1, <1>2
<1>4. Placed(Idle, Len(authorizations))
  BY <1>2 DEF Placed
<1>5. Seen(Idle, past'[r]) /\ Passed(Idle, past'[r]) /\ Known(Idle, past'[r])
  BY <1>2 DEF Seen, Passed, Known
<1>. QED
  BY <1>1, <1>2, <1>3, <1>4, <1>5, ReadStep

-----------------------------------------------------------------------------
(* The invariant.                                                          *)

LEMMA StepGood ==
  ASSUME NEW r \in Requests, GatesInvariant, OperationsAssumption, GatesBoundAssumption,
         Step(r), Remember, UNCHANGED changes
  PROVE  Stepped(r)
<1>1. CASE \E op \in Operations, id \in 0..Len(authorizations) : Start(r, op, id)
  BY <1>1, StartGood
<1>2. CASE Preparing(r)
  BY <1>2, ResolveGood, ManifestGood, RequestAuthorizationGood, FindGood, RefreshGood,
     ApproveGood, PrepareGood DEF Preparing
<1>3. CASE Checking(r)
  BY <1>3, PreflightReadGood, PreflightProtocolGood, PreflightBindingsGood,
     PreflightIdentityGood, PreflightMetaGood, PreflightGeographyGood, SaveGood DEF Checking
<1>4. CASE Executing(r)
  BY <1>4, ExecuteReadGood, ExecuteProtocolGood, BeginGood, WriteGood DEF Executing
<1>5. CASE Leave(r)
  BY <1>5, LeaveGood
<1>. QED
  BY <1>1, <1>2, <1>3, <1>4, <1>5 DEF Step

\* Only the writer moves a protocol that runs, and none moves one that succeeded.
LEMMA ProtocolMoves ==
  ASSUME NEW r \in Requests, Step(r)
  PROVE  \/ protocol' = protocol
         \/ protocol \in {"none", "failed", "prepared"}
         \/ request[r].pc = "writing"
BY DEF Step, Start, Preparing, Resolve, Manifest, RequestAuthorization, Find, Refresh, Approve,
       Prepare, Checking, PreflightRead, PreflightProtocol, PreflightBindings,
       PreflightIdentity, PreflightMeta, PreflightGeography, Save, Executing, ExecuteRead,
       ExecuteProtocol, Begin, Write, Leave

\* Every request stays good while one of them takes a step.
LEMMA StepInvariant ==
  ASSUME NEW r \in Requests, GatesInvariant, OperationsAssumption, GatesBoundAssumption,
         Step(r), Remember, UNCHANGED changes
  PROVE  GatesInvariant'
<1>1. Stepped(r)
  BY StepGood
<1>2. GTypeOK' /\ open' \subseteq Gates
  BY <1>1 DEF Stepped, GTypeOK
<1>3. past' \in [Requests -> Moments]
  BY <1>2, At, MomentsType
<1>4. \A s \in Requests : Good(request'[s], past'[s], Len(authorizations'))
  <2>1. SUFFICES ASSUME NEW s \in Requests
                 PROVE  Good(request'[s], past'[s], Len(authorizations'))
    OBVIOUS
  <2>2. CASE s = r
    BY <1>1, <2>2 DEF Stepped
  <2>3. CASE s # r
    <3>1. request'[s] = request[s] /\ Good(request[s], past[s], Len(authorizations))
      BY <1>1, <2>3 DEF Stepped, GatesInvariant
    <3>2. request[s].pc = "idle" \/ /\ past[s].opened \subseteq past'[s].opened
                                    /\ past[s].closed \subseteq past'[s].closed
      BY <3>1, At, OtherMoments
    <3>3. /\ Len(authorizations) <= Len(authorizations') /\ Len(authorizations) \in Nat
          /\ Len(authorizations') \in Nat
      BY <1>1, <1>2, At DEF Stepped, GTypeOK
    <3>4. Good(request[s], past'[s], Len(authorizations'))
      BY <3>1, <3>2, <3>3, GoodStays
    <3>. QED
      BY <3>1, <3>4
  <2>. QED
    BY <2>2, <2>3
<1>5. Ending'
  <2>1. /\ \A s \in Requests \ {r} : request'[s] = request[s]
        /\ request'[r].pc = "writing" =>
             protocol' = "running" /\ \A s \in Requests : request[s].pc # "writing"
        /\ request'[r].answer = "created" => protocol' = "succeeded"
    BY <1>1 DEF Stepped
  <2>2. /\ \A s, t \in Requests :
             request[s].pc = "writing" /\ request[t].pc = "writing" => s = t
        /\ \A s \in Requests : request[s].pc = "writing" => protocol = "running"
        /\ \A s \in Requests : request[s].answer = "created" => protocol = "succeeded"
    BY DEF GatesInvariant, Ending
  <2>3. \A s \in Requests \ {r} : request[s].pc = "writing" => protocol' = "running"
    BY <2>2, ProtocolMoves
  <2>4. \A s \in Requests \ {r} : request[s].answer = "created" => protocol' = "succeeded"
    BY <2>2, ProtocolMoves
  <2>5. \A s, t \in Requests :
          request'[s].pc = "writing" /\ request'[t].pc = "writing" => s = t
    BY <2>1, <2>2
  <2>6. \A s \in Requests : /\ request'[s].pc = "writing" => protocol' = "running"
                            /\ request'[s].answer = "created" => protocol' = "succeeded"
    BY <2>1, <2>3, <2>4
  <2>. QED
    BY <2>5, <2>6 DEF Ending
<1>. QED
  BY <1>2, <1>3, <1>4, <1>5 DEF GatesInvariant

\* So it does when a gate or an authorization changes.
LEMMA OutsideInvariant ==
  ASSUME GatesInvariant, GatesBoundAssumption, Remember,
         \/ \E g \in Gates : Change(g)
         \/ \E i \in DOMAIN authorizations : EndAuthorization(i)
  PROVE  GatesInvariant'
<1>1. /\ UNCHANGED <<attempt, protocol, preflights, request>>
      /\ changes < MaxChanges /\ changes' = changes + 1
      /\ \/ open' = open
         \/ \E g \in Gates : open' = IF g \in open THEN open \ {g} ELSE open \cup {g}
      /\ \/ authorizations' = authorizations
         \/ \E i \in DOMAIN authorizations : authorizations' = [authorizations EXCEPT ![i] = "ended"]
  BY DEF Change, EndAuthorization
<1>2. authorizations \in Seq(RowStatus) /\ open \subseteq Gates
      /\ Len(authorizations) <= MaxAuthorizations /\ DOMAIN authorizations = 1..Len(authorizations)
  BY DEF GatesInvariant, GTypeOK
<1>3. authorizations' \in Seq(RowStatus) /\ Len(authorizations') = Len(authorizations)
  BY <1>1, <1>2, StatusChanges DEF RowStatus
<1>4. GTypeOK' /\ open' \subseteq Gates
  BY <1>1, <1>2, <1>3 DEF GatesInvariant, GTypeOK, GatesBoundAssumption
<1>5. past' \in [Requests -> Moments]
  BY <1>4, MomentsType DEF GatesInvariant
<1>6. ASSUME NEW s \in Requests
      PROVE  Good(request'[s], past'[s], Len(authorizations'))
  <2>1. request'[s] = request[s] /\ Good(request[s], past[s], Len(authorizations))
        /\ Len(authorizations) \in Nat
    BY <1>1, <1>2 DEF GatesInvariant
  <2>2. request[s].pc = "idle" \/ /\ past[s].opened \subseteq past'[s].opened
                                  /\ past[s].closed \subseteq past'[s].closed
    BY <2>1, OtherMoments DEF GatesInvariant
  <2>4. Len(authorizations) <= Len(authorizations') /\ Len(authorizations') \in Nat
    BY <1>3, <2>1
  <2>3. Good(request[s], past'[s], Len(authorizations'))
    BY <1>3, <2>1, <2>2, <2>4, GoodStays
  <2>. QED
    BY <2>1, <2>3
<1>7. Ending'
  BY <1>1 DEF GatesInvariant, Ending
<1>. QED
  BY <1>4, <1>5, <1>6, <1>7 DEF GatesInvariant

LEMMA InitInvariant ==
  ASSUME OperationsAssumption, GatesBoundAssumption, GInit
  PROVE  GatesInvariant
<1>1. request = [r \in Requests |-> Idle] /\ past = [r \in Requests |-> [opened |-> {}, closed |-> {}]]
      /\ authorizations = <<>> /\ Len(authorizations) = 0
  BY DEF GInit
<1>2. Idle \in Request /\ Idle.pc = "idle" /\ Idle.phase = "confirm" /\ Idle.answer = "none"
      /\ Idle.op = "preflight"
  BY IdleType DEF Idle
<1>3. GTypeOK
  BY <1>1, <1>2 DEF GInit, GTypeOK, GatesBoundAssumption, Protocol, RowStatus
<1>4. past \in [Requests -> Moments]
  BY <1>1 DEF Moments
<1>5. ASSUME NEW h, NEW n
      PROVE  Good(Idle, h, n)
  BY <1>2 DEF Good, Placed, Seen, Passed, Known, Answers
<1>6. \A r \in Requests : Good(request[r], past[r], Len(authorizations))
  BY <1>1, <1>5
<1>7. Ending
  BY <1>1, <1>2 DEF Ending
<1>. QED
  BY <1>3, <1>4, <1>6, <1>7 DEF GatesInvariant

\* GatesInvariant, which says what every request is, has seen and was told, holds for any
\* number of requests, gates and changes.
THEOREM GatesCorrect ==
  ASSUME OperationsAssumption, GatesBoundAssumption
  PROVE  GSpec => []GatesInvariant
<1>1. GInit => GatesInvariant
  BY InitInvariant
<1>2. GatesInvariant /\ [GNext]_gateVars => GatesInvariant'
  <2>. SUFFICES ASSUME GatesInvariant, [GNext]_gateVars PROVE GatesInvariant'
    OBVIOUS
  <2>1. CASE UNCHANGED gateVars
    <3>1. /\ open' = open /\ authorizations' = authorizations /\ attempt' = attempt
          /\ protocol' = protocol /\ preflights' = preflights /\ request' = request
          /\ past' = past /\ changes' = changes
      BY <2>1 DEF gateVars
    <3>2. GTypeOK'
      BY <3>1 DEF GatesInvariant, GTypeOK
    <3>3. \A s \in Requests : Good(request[s], past[s], Len(authorizations))'
      BY <3>1 DEF GatesInvariant
    <3>. QED
      BY <3>1, <3>2, <3>3 DEF GatesInvariant, Ending
  <2>2. CASE (\E r \in Requests : Step(r)) /\ UNCHANGED changes /\ Remember
    BY <2>2, StepInvariant
  <2>3. CASE /\ \/ \E g \in Gates : Change(g)
                \/ \E i \in DOMAIN authorizations : EndAuthorization(i)
             /\ Remember
    BY <2>3, OutsideInvariant
  <2>. QED
    BY <2>1, <2>2, <2>3 DEF GNext
<1>. QED
  BY <1>1, <1>2, PTL DEF GSpec

\* The stored state and the requests keep the shape the code gives them.
THEOREM GatesTypeCorrect ==
  ASSUME OperationsAssumption, GatesBoundAssumption
  PROVE  GSpec => []GTypeOK
<1>1. GatesInvariant => GTypeOK
  BY DEF GatesInvariant
<1>. QED
  BY <1>1, GatesCorrect, PTL

\* Whatever a preflight answers was so at some moment of the request that is told it, also
\* when another request stored it.
THEOREM PreflightsExplained ==
  ASSUME OperationsAssumption, GatesBoundAssumption
  PROVE  GSpec => []PreflightsAreExplained
<1>1. GatesInvariant => PreflightsAreExplained
  BY DEF GatesInvariant, Good, Answers, Explained, PreflightsAreExplained
<1>. QED
  BY <1>1, GatesCorrect, PTL

\* Whoever creates objects at Meta found every gate of executePaused open since the request
\* began to execute.
THEOREM OpenGates ==
  ASSUME OperationsAssumption, GatesBoundAssumption
  PROVE  GSpec => []CreationWentThroughOpenGates
<1>1. GatesInvariant => CreationWentThroughOpenGates
  BY DEF GatesInvariant, Good, Placed, Passed, Before, CreationWentThroughOpenGates
<1>. QED
  BY <1>1, GatesCorrect, PTL

\* Only what succeeded is told to be created.
THEOREM CreatedSucceeded ==
  ASSUME OperationsAssumption, GatesBoundAssumption
  PROVE  GSpec => []CreatedIsSucceeded
<1>1. GatesInvariant => CreatedIsSucceeded
  BY DEF GatesInvariant, Ending, CreatedIsSucceeded
<1>. QED
  BY <1>1, GatesCorrect, PTL

-----------------------------------------------------------------------------
(* The preflight before a confirmation's execution.                        *)

PreflightPassed == \E p \in preflights : Blockers(p.seen) = {}

Preceded ==
  /\ GatesInvariant
  /\ \A r \in Requests : request[r].phase = "execute" => PreflightPassed

\* A request begins to execute when it arrives to do so, or when its preflight passed.
LEMMA BeginsToExecute ==
  ASSUME NEW r \in Requests, GatesInvariant, OperationsAssumption, GatesBoundAssumption,
         "execute" \notin Operations, Step(r), request'[r].phase = "execute"
  PROVE  request[r].phase = "execute" \/ PreflightPassed'
<1>. DEFINE q == request[r]
            w == request'[r]
<1>1. request \in [Requests -> Request] /\ q \in Request
  BY At
<1>2. ASSUME NEW answer \in {"awaiting", "refused", "created", "failed"}, Answer(r, answer),
             q.pc # "idle"
      PROVE  FALSE
  BY <1>2, AnsweredGood DEF Good, Placed
<1>3. ASSUME NEW pc \in Places, Go(r, pc)
      PROVE  w.phase = q.phase
  BY <1>1, <1>3, GoType
<1>4. CASE \E op \in Operations, id \in 0..Len(authorizations) : Start(r, op, id)
  <2>1. PICK op \in Operations, id \in 0..Len(authorizations) : Start(r, op, id)
    BY <1>4
  <2>2. Idle \in Request /\ op # "execute"
    BY IdleType
  <2>. DEFINE phase == IF op \in {"execute", "preflight"} THEN op ELSE "confirm"
              pc == IF op \in {"prepare", "confirm"} THEN "resolving" ELSE "finding"
              v == [Idle EXCEPT !.op = op, !.id = id, !.phase = phase, !.pc = pc]
  <2>3. request' = [request EXCEPT ![r] = v]
    BY <2>1, Zenon DEF Start
  <2>4. phase # "execute"
    BY <2>2
  <2>. HIDE DEF phase, pc
  <2>5. v.phase = phase
    BY <2>2 DEF Request
  <2>. HIDE DEF v
  <2>. QED
    BY <1>1, <2>3, <2>4, <2>5
<1>5. CASE Preparing(r)
  <2>1. CASE Resolve(r)
    BY <1>2, <1>3, <2>1 DEF Resolve, Refuse, Places
  <2>2. CASE Manifest(r)
    BY <1>2, <1>3, <2>2 DEF Manifest, Refuse, Places
  <2>3. CASE RequestAuthorization(r)
    BY <1>2, <2>3 DEF RequestAuthorization, Refuse
  <2>4. ASSUME NEW status \in RowStatus, request' = [request EXCEPT ![r] = Knowing(r, status)],
               q.pc # "idle"
        PROVE  w.phase = q.phase
    BY <1>2, <2>4, KnowingType
  <2>5. CASE Find(r)
    <3>. DEFINE status == authorizations[q.id]
    <3>1. q.pc = "finding" /\ status \in RowStatus
      BY <2>5, At DEF Find, Placed
    <3>2. CASE request' = [request EXCEPT ![r] = [q EXCEPT !.pc = "refreshing", !.copy = status]]
      <4>. HIDE DEF status
      <4>. QED
        BY <1>1, <3>2 DEF Request
    <3>3. CASE request' = [request EXCEPT ![r] = Knowing(r, status)]
      BY <2>4, <3>1, <3>3
    <3>4. CASE Refuse(r)
      BY <1>2, <3>1, <3>4 DEF Refuse
    <3>. QED
      BY <2>5, <3>2, <3>3, <3>4 DEF Find
  <2>6. CASE Refresh(r)
    <3>. DEFINE ends == authorizations[q.id] # "ended" /\ "manifest" \notin open
                status == IF ends THEN "ended" ELSE q.copy
    <3>1. q.pc = "refreshing" /\ status \in RowStatus
      BY <1>1, <2>6, Fields DEF Refresh, RowStatus
    <3>2. request' = [request EXCEPT ![r] = Knowing(r, status)]
      BY <2>6 DEF Refresh
    <3>. QED
      BY <2>4, <3>1, <3>2
  <2>7. CASE Approve(r)
    BY <1>2, <1>3, <2>7 DEF Approve, Refuse, Places
  <2>8. CASE Prepare(r)
    <3>1. q.pc = "preparing"
      BY <2>8 DEF Prepare
    <3>2. CASE Refuse(r)
      BY <1>2, <3>1, <3>2 DEF Refuse
    <3>3. CASE request' = [request EXCEPT ![r] =
                 [q EXCEPT !.pc = "finding", !.phase = "preflight", !.seen = {}]]
      BY <1>1, <3>3 DEF Request
    <3>. QED
      BY <2>8, <3>2, <3>3 DEF Prepare
  <2>. QED
    BY <1>5, <2>1, <2>2, <2>3, <2>5, <2>6, <2>7, <2>8 DEF Preparing
<1>6. CASE Checking(r)
  <2>1. CASE PreflightRead(r)
    BY <1>1, <2>1 DEF PreflightRead, Request
  <2>2. CASE PreflightProtocol(r)
    BY <1>1, <2>2 DEF PreflightProtocol, Request
  <2>3. CASE PreflightBindings(r)
    BY <1>1, <2>3 DEF PreflightBindings, Request
  <2>4. CASE PreflightIdentity(r)
    BY <1>1, <2>4 DEF PreflightIdentity, Request
  <2>5. CASE \E what \in q.toRead : PreflightMeta(r, what)
    BY <1>1, <2>5 DEF PreflightMeta, Request
  <2>6. CASE PreflightGeography(r)
    BY <1>1, <2>6 DEF PreflightGeography, Request
  <2>7. CASE Save(r)
    <3>. DEFINE mine == [id |-> q.id, seen |-> Reported(q.seen), attempt |-> q.attempt]
                result == IF Blockers(mine.seen) = {} THEN "passed" ELSE "blocked"
                same == {p \in preflights : StableHash(p) = StableHash(mine)}
                told == IF same = {} THEN mine ELSE CHOOSE p \in same : TRUE
    <3>1. told = mine
      BY SamePreflight
    <3>2. /\ preflights' = preflights \cup {told}
          /\ request' = [request EXCEPT ![r] =
               IF GoesOn(r, told)
               THEN [q EXCEPT !.pc = "finding", !.phase = "execute", !.seen = {}]
               ELSE Answered(r, IF Blockers(told.seen) = {} THEN "passed" ELSE "blocked", told)]
      BY <2>7 DEF Save
    <3>3. mine \in Preflight
      BY <1>1, Fields, ReportedIsSeen DEF Preflight, Facts
    <3>. HIDE DEF told, mine
    <3>4. CASE GoesOn(r, mine)
      BY <3>1, <3>2, <3>4 DEF GoesOn, PreflightPassed
    <3>5. CASE ~GoesOn(r, mine)
      <4>1. request' = [request EXCEPT ![r] = Answered(r, result, mine)]
        BY <3>1, <3>2, <3>5
      <4>2. Answered(r, result, mine).phase = "confirm"
        BY <1>1, <3>3, AnsweredType
      <4>. QED
        BY <1>1, <4>1, <4>2
    <3>. QED
      BY <3>4, <3>5
  <2>. QED
    BY <1>6, <2>1, <2>2, <2>3, <2>4, <2>5, <2>6, <2>7 DEF Checking
<1>7. CASE Executing(r)
  BY <1>7, At DEF Executing, ExecuteRead, ExecuteProtocol, Begin, Write, Placed
<1>8. CASE Leave(r)
  BY <1>1, <1>8 DEF Leave, Idle
<1>. QED
  BY <1>4, <1>5, <1>6, <1>7, <1>8 DEF Step

\* Where nobody executes without a confirmation, objects are created only after a
\* preflight without blockers was stored.
THEOREM PreflightFirst ==
  ASSUME OperationsAssumption, GatesBoundAssumption, "execute" \notin Operations
  PROVE  GSpec => []CreationFollowsAPreflight
<1>1. GInit => Preceded
  BY InitInvariant DEF GInit, Preceded, Idle
<1>2. Preceded /\ GatesInvariant' /\ [GNext]_gateVars => Preceded'
  <2>. SUFFICES ASSUME Preceded, GatesInvariant', [GNext]_gateVars,
                       NEW s \in Requests, request'[s].phase = "execute"
                PROVE  PreflightPassed'
    BY DEF Preceded
  <2>1. CASE request' = request /\ preflights' = preflights
    BY <2>1 DEF Preceded, PreflightPassed
  <2>2. ASSUME NEW r \in Requests, Step(r), Remember, UNCHANGED changes
        PROVE  PreflightPassed'
    <3>1. preflights \subseteq preflights'
      BY <2>2 DEF Step, Start, Preparing, Resolve, Manifest, RequestAuthorization, Find, Refresh,
         Approve, Prepare, Checking, PreflightRead, PreflightProtocol, PreflightBindings,
         PreflightIdentity, PreflightMeta, PreflightGeography, Save, Executing, ExecuteRead,
         ExecuteProtocol, Begin, Write, Leave
    <3>2. CASE s = r
      BY <2>2, <3>1, <3>2, BeginsToExecute DEF Preceded, PreflightPassed
    <3>3. CASE s # r
      <4>1. request'[s] = request[s]
        BY <2>2, <3>3, StepGood DEF Preceded, Stepped
      <4>. QED
        BY <3>1, <4>1 DEF Preceded, PreflightPassed
    <3>. QED
      BY <3>2, <3>3
  <2>. QED
    BY <2>1, <2>2 DEF GNext, Change, EndAuthorization, gateVars
<1>3. Preceded => CreationFollowsAPreflight
  BY DEF Preceded, GatesInvariant, Good, Placed, PreflightPassed, CreationFollowsAPreflight
<1>. QED
  BY <1>1, <1>2, <1>3, GatesCorrect, PTL DEF GSpec

\* A confirmation creates objects only after a preflight without blockers and through
\* gates that were open, and nobody is told of more than succeeded.
THEOREM CreationGated ==
  ASSUME OperationsAssumption, GatesBoundAssumption, "execute" \notin Operations
  PROVE  GSpec => []CreationIsGated
BY GatesTypeCorrect, OpenGates, PreflightFirst, CreatedSucceeded, PTL DEF CreationIsGated
=============================================================================
