----------------------------- MODULE KillSwitch -----------------------------
(***************************************************************************)
(* The kill switch's transactions and readings.  A change runs in one      *)
(* transaction on a connection of the pool: lock the target, read its      *)
(* latest version, insert the next one with its audit event, commit.  A    *)
(* reading (effective) queries the tenant's and the campaign's switch      *)
(* separately.  The committed rows implement KillSwitchLedger.             *)
(***************************************************************************)
EXTENDS Naturals, Sequences, FiniteSets

CONSTANTS
  Changes,       \* concurrent requests that change a switch
  Readings,      \* concurrent evaluations of the effective switch
  Tenant,        \* the target of the tenant's switch
  Campaign,      \* the target of the campaign's switch
  Connections,   \* size of the database pool
  MaxVersion     \* bound: versions of a target, with those being inserted

ASSUME PoolAssumption == Connections \in Nat \ {0} /\ MaxVersion \in Nat
ASSUME TargetAssumption == Tenant # Campaign

Targets == {Tenant, Campaign}
SwitchStatus == {"engaged", "released"}

VARIABLES
  rows,      \* committed kill_switch_states: version v of t is rows[t][v]
  change,    \* [Changes -> the local state of the transaction]
  reading,   \* [Readings -> the local state of the evaluation]
  free,      \* connections of the pool that are not in use
  blocked    \* observed: the targets not released since the reading began

vars == <<rows, change, reading, free, blocked>>

\* A committed row, with the previous state its audit event records ("none"
\* when there is no such event).
Row == [status : SwitchStatus, audit : SwitchStatus \cup {"missing", "none"}]

InTransaction == {"locking", "reading", "inserting", "auditing", "committing", "rollback"}

\* The transaction-level lock is held from the lock statement until the commit,
\* or until the transaction aborts: at its rollback, or with its connection.
Locked == InTransaction \ {"locking", "rollback"}

\* version 0: the transaction inserts no row.
ChangeState == [pc : {"idle", "connecting", "releasing"} \cup InTransaction,
                target : Targets,
                status : SwitchStatus,
                previous : SwitchStatus \cup {"missing"},
                version : Nat,
                audit : SwitchStatus \cup {"missing", "none"}]

ReadingState == [pc : {"idle", "reading", "evaluated"},
                 seen : [Targets -> SwitchStatus \cup {"missing", "unread"}]]

Status(t) == IF rows[t] = <<>> THEN "missing" ELSE rows[t][Len(rows[t])].status

IdleChange == [pc |-> "idle", target |-> Tenant, status |-> "engaged",
               previous |-> "missing", version |-> 0, audit |-> "none"]

IdleReading == [pc |-> "idle", seen |-> [t \in Targets |-> "unread"]]

Init ==
  /\ rows = [t \in Targets |-> <<>>]
  /\ change = [c \in Changes |-> IdleChange]
  /\ reading = [r \in Readings |-> IdleReading]
  /\ free = Connections
  /\ blocked = [r \in Readings |-> {}]

-----------------------------------------------------------------------------
(* changeTenant, changeCampaign: the transaction of appendNext.            *)

InFlight(t) == {c \in Changes : change[c].pc # "idle" /\ change[c].target = t}

StartChange(c, t, status) ==
  /\ change[c].pc = "idle"
  /\ Len(rows[t]) + Cardinality(InFlight(t)) < MaxVersion
  /\ change' = [change EXCEPT ![c] = [IdleChange EXCEPT !.pc = "connecting",
                                        !.target = t, !.status = status]]
  /\ UNCHANGED <<rows, reading, free, blocked>>

\* Mutant: the pool hands out connections it does not have.
ConnectUncounted(c) ==
  /\ change[c].pc = "connecting"
  /\ change' = [change EXCEPT ![c].pc = "locking"]
  /\ UNCHANGED <<rows, reading, free, blocked>>

\* The request waits for a connection, then begins.
Connect(c) ==
  /\ change[c].pc = "connecting" /\ free > 0
  /\ free' = free - 1
  /\ change' = [change EXCEPT ![c].pc = "locking"]
  /\ UNCHANGED <<rows, reading, blocked>>

\* Mutant: no advisory lock.
LockNothing(c) ==
  /\ change[c].pc = "locking"
  /\ change' = [change EXCEPT ![c].pc = "reading"]
  /\ UNCHANGED <<rows, reading, free, blocked>>

\* pg_advisory_xact_lock on the target.
Lock(c) ==
  /\ change[c].pc = "locking"
  /\ \A d \in Changes :
       change[d].pc \in Locked => change[d].target # change[c].target
  /\ change' = [change EXCEPT ![c].pc = "reading"]
  /\ UNCHANGED <<rows, reading, free, blocked>>

\* Mutant: the status the target already has is appended again.
ReadLatestAlwaysInsert(c) ==
  LET t == change[c].target
  IN  /\ change[c].pc = "reading"
      /\ change' = [change EXCEPT ![c].previous = Status(t),
                                  ![c].version = Len(rows[t]) + 1,
                                  ![c].pc = "inserting"]
      /\ UNCHANGED <<rows, reading, free, blocked>>

\* The latest version, read under the lock: nothing to insert when it already
\* has the requested status.
ReadLatest(c) ==
  LET t == change[c].target
  IN  /\ change[c].pc = "reading"
      /\ IF Status(t) = change[c].status
         THEN change' = [change EXCEPT ![c].pc = "committing"]
         ELSE change' = [change EXCEPT ![c].previous = Status(t),
                                       ![c].version = Len(rows[t]) + 1,
                                       ![c].pc = "inserting"]
      /\ UNCHANGED <<rows, reading, free, blocked>>

\* Another transaction has inserted the version and has not ended yet.
Pending(c) ==
  \E d \in Changes \ {c} :
    /\ change[d].pc \in {"auditing", "committing"}
    /\ change[d].target = change[c].target
    /\ change[d].version = change[c].version

\* The unique index on the version refuses a committed version and makes the
\* transaction wait for one that is not committed.
InsertState(c) ==
  /\ change[c].pc = "inserting" /\ ~Pending(c)
  /\ change' = [change EXCEPT ![c].pc =
       IF change[c].version \in DOMAIN rows[change[c].target]
       THEN "rollback" ELSE "auditing"]
  /\ UNCHANGED <<rows, reading, free, blocked>>

InsertAudit(c) ==
  /\ change[c].pc = "auditing"
  /\ change' = [change EXCEPT ![c].pc = "committing", ![c].audit = change[c].previous]
  /\ UNCHANGED <<rows, reading, free, blocked>>

CommitRow(c) ==
  rows' = IF change[c].version = 0 THEN rows
          ELSE [rows EXCEPT ![change[c].target] =
                  Append(@, [status |-> change[c].status, audit |-> change[c].audit])]

\* A reading under way forgets the targets that are released now.
ObserveCommit ==
  blocked' = [r \in Readings |->
    {t \in blocked[r] : rows'[t] = rows[t] \/ rows'[t][Len(rows'[t])].status # "released"}]

\* The database carries the commit out, whether or not its answer arrives.
Commit(c) ==
  /\ change[c].pc = "committing"
  /\ CommitRow(c) /\ ObserveCommit
  /\ change' = [change EXCEPT ![c].pc = "releasing"]
  /\ UNCHANGED <<reading, free>>

\* Mutant: a failed audit event does not undo the change.
FailKeepsRow(c) ==
  /\ change[c].pc \in InTransaction \ {"rollback"}
  /\ change' = [change EXCEPT ![c].pc =
       IF change[c].pc = "auditing" THEN "committing" ELSE "rollback"]
  /\ UNCHANGED <<rows, reading, free, blocked>>

\* A statement fails, or the connection does.
Fail(c) ==
  /\ change[c].pc \in InTransaction \ {"rollback"}
  /\ change' = [change EXCEPT ![c].pc = "rollback"]
  /\ UNCHANGED <<rows, reading, free, blocked>>

\* Whether the rollback succeeds or fails, the finally block follows.
Rollback(c) ==
  /\ change[c].pc = "rollback"
  /\ change' = [change EXCEPT ![c].pc = "releasing"]
  /\ UNCHANGED <<rows, reading, free, blocked>>

Release(c) ==
  /\ change[c].pc = "releasing"
  /\ free' = free + 1
  /\ change' = [change EXCEPT ![c] = IdleChange]
  /\ UNCHANGED <<rows, reading, blocked>>

-----------------------------------------------------------------------------
(* effective.                                                              *)

StartReading(r) ==
  /\ reading[r].pc = "idle"
  /\ reading' = [reading EXCEPT ![r].pc = "reading"]
  /\ blocked' = [blocked EXCEPT ![r] = {t \in Targets : Status(t) # "released"}]
  /\ UNCHANGED <<rows, change, free>>

\* One of the two queries: it borrows a connection for one statement.
ReadState(r, t) ==
  /\ reading[r].pc = "reading" /\ reading[r].seen[t] = "unread"
  /\ free > 0
  /\ reading' = [reading EXCEPT
       ![r].seen[t] = Status(t),
       ![r].pc = IF \A u \in Targets \ {t} : reading[r].seen[u] # "unread"
                 THEN "evaluated" ELSE @]
  /\ UNCHANGED <<rows, change, free, blocked>>

\* Mutant: a target without any version does not block.
DecisionIgnoresMissing(seen) ==
  IF \E t \in Targets : seen[t] = "engaged" THEN "blocked_engaged" ELSE "released"

Decision(seen) ==
  IF \E t \in Targets : seen[t] = "missing" THEN "blocked_missing_state"
  ELSE IF \E t \in Targets : seen[t] = "engaged" THEN "blocked_engaged"
  ELSE "released"

EndReading(r) ==
  /\ reading[r].pc = "evaluated"
  /\ reading' = [reading EXCEPT ![r] = IdleReading]
  /\ blocked' = [blocked EXCEPT ![r] = {}]
  /\ UNCHANGED <<rows, change, free>>

-----------------------------------------------------------------------------

ChangeStep(c) ==
  \/ Connect(c) \/ Lock(c) \/ ReadLatest(c) \/ InsertState(c) \/ InsertAudit(c)
  \/ Commit(c) \/ Fail(c) \/ Rollback(c) \/ Release(c)

ReadingStep(r) == (\E t \in Targets : ReadState(r, t)) \/ EndReading(r)

Next ==
  \/ \E c \in Changes, t \in Targets, status \in SwitchStatus : StartChange(c, t, status)
  \/ \E c \in Changes : ChangeStep(c)
  \/ \E r \in Readings : StartReading(r) \/ ReadingStep(r)

Spec == Init /\ [][Next]_vars

\* The pool and the lock manager serve those who wait in order of arrival, so a
\* request that can proceed again and again does.
FairSpec == /\ Spec
            /\ \A c \in Changes : SF_vars(ChangeStep(c))
            /\ \A r \in Readings : SF_vars(ReadingStep(r))

-----------------------------------------------------------------------------
(* Properties.                                                             *)

\* Every variable has its type: no connection beyond the pool's is ever handed
\* out or given back.
TypeOK ==
  /\ rows \in [Targets -> Seq(Row)]
  /\ change \in [Changes -> ChangeState]
  /\ reading \in [Readings -> ReadingState]
  /\ free \in 0..Connections
  /\ blocked \in [Readings -> SUBSET Targets]
  /\ free + Cardinality({c \in Changes :
       change[c].pc \in InTransaction \cup {"releasing"}}) = Connections

\* Concurrent changes of one target never compete for a version: the one that
\* inserts is alone, so none fails on the unique index because of another.
ChangesNeverCollide ==
  \A c \in Changes : change[c].pc = "inserting" =>
    /\ change[c].version = Len(rows[change[c].target]) + 1
    /\ ~Pending(c)

\* The audit trail mirrors the ledger: every committed version has an event, and
\* it names the status of the version just before it.
AuditMirrorsLedger ==
  \A t \in Targets : \A v \in DOMAIN rows[t] :
    rows[t][v].audit = IF v = 1 THEN "missing" ELSE rows[t][v - 1].status

\* A change that commits, whether it inserted a version or found the status
\* already there, is in force at that moment: its answer is never out of date.
AnsweredChangeInForce ==
  [][\A c \in Changes :
       change[c].pc = "committing" /\ change'[c].pc = "releasing"
         => rows'[change[c].target] # <<>>
            /\ rows'[change[c].target][Len(rows'[change[c].target])].status
                 = change[c].status]_vars

\* An evaluation never answers released over a switch that was engaged, or had
\* no state, the whole time the evaluation took.
ReleasedIsNotBlocked ==
  \A r \in Readings :
    reading[r].pc = "evaluated" /\ Decision(reading[r].seen) = "released"
      => blocked[r] = {}

\* The ledger that the committed rows amount to.
Statuses == [t \in Targets |-> [v \in DOMAIN rows[t] |-> rows[t][v].status]]

Ledger == INSTANCE KillSwitchLedger WITH ledger <- Statuses

\* The transactions are atomic changes of an append-only ledger in which two
\* consecutive versions never have the same status.
ImplementsLedger == Ledger!LedgerSpec

-----------------------------------------------------------------------------
(* The inductive invariant: what the lock lets a transaction rely on.      *)

StateOK == rows \in [Targets -> Seq(Row)] /\ change \in [Changes -> ChangeState]

LockIsExclusive ==
  \A c, d \in Changes :
    c # d /\ change[c].pc \in Locked /\ change[d].pc \in Locked
      => change[c].target # change[d].target

\* What the transaction of c read is still so when it commits.
ReadIsCurrent(c) ==
  LET t == change[c].target
      inserts == /\ change[c].version = Len(rows[t]) + 1
                 /\ change[c].previous = Status(t)
                 /\ Status(t) # change[c].status
  IN  /\ change[c].pc \in {"connecting", "locking", "reading"} => change[c].version = 0
      /\ change[c].pc \in {"inserting", "auditing"} => inserts
      /\ change[c].pc = "committing" =>
           \/ change[c].version = 0 /\ Status(t) = change[c].status
           \/ inserts /\ change[c].audit = change[c].previous

TransactionInvariant ==
  /\ StateOK
  /\ LockIsExclusive
  /\ \A c \in Changes : ReadIsCurrent(c)
  /\ AuditMirrorsLedger
=============================================================================
