----------------------------- MODULE MetaOAuth -----------------------------
(***************************************************************************)
(* The authorization of one connection: attempts with a single-use state,  *)
(* the callback that exchanges a code, stores the secret in the vault and  *)
(* completes the connection, and what it does with the secret when it      *)
(* cannot.  A statement may fail, its answer may be lost after it took     *)
(* effect, and a callback may end between two statements.                  *)
(***************************************************************************)
EXTENDS Naturals, Sequences, FiniteSets

CONSTANTS
  Requests,    \* concurrent requests
  Faults,      \* the kinds of fault that happen
  MaxFaults,   \* bound: different faults after a code was exchanged
  MaxAttempts  \* bound: attempts

Fault == {"fail", "lost", "crash"}

ASSUME AttemptBound == MaxAttempts \in Nat /\ MaxFaults \in Nat
ASSUME FaultAssumption == Faults \subseteq Fault

VARIABLES
  connection,    \* the row of meta_connections
  attempts,      \* meta_oauth_attempts, in the order of insertion
  vault,         \* credential_vault_secrets, in the order of insertion
  compensations, \* meta_oauth_credential_compensations: secrets to revoke
  request,       \* [Requests -> the local state of the request]
  faults,        \* (history) the faults after a code was exchanged
  used           \* (history) secrets that have been in use

vars == <<connection, attempts, vault, compensations, request, faults, used>>

\* "execution" asks for ads_management on top of what "initial" asks for.
Kind == {"initial", "execution"}

\* Of the declared statuses these are the ones anything writes.
Connection == [status : {"authorization_pending", "connected"}, credential : Nat]
Attempt == [kind : Kind, consumed : BOOLEAN, expired : BOOLEAN]
Secret == [attempt : Nat, revoked : BOOLEAN]

PC == {"idle", "starting", "cancelling", "consuming", "exchanging", "storing",
       "connecting", "revoking", "recording"}
Idle == [pc |-> "idle", kind |-> "initial", attempt |-> 0, secret |-> 0]
Request == [pc : PC, kind : Kind, attempt : Nat, secret : Nat]

\* From here on there is a token to take care of.
Entrusted == {"storing", "connecting", "revoking", "recording"}
FaultAt == [attempt : Nat, pc : Entrusted, kind : Fault]

Init ==
  /\ connection = [status |-> "authorization_pending", credential |-> 0]
  /\ attempts = <<>> /\ vault = <<>> /\ compensations = {}
  /\ request = [r \in Requests |-> Idle]
  /\ faults = {} /\ used = {}

-----------------------------------------------------------------------------

Goto(r, pc) == request' = [request EXCEPT ![r].pc = pc]
Return(r) == request' = [request EXCEPT ![r] = Idle]

Nothing == UNCHANGED faults

\* What happens to request r.  fail: a statement fails without effect.  lost: it takes
\* effect and its answer is an error.  crash: the process stops.
Happens(r, fault) ==
  /\ fault \in Faults
  /\ \/ request[r].pc \notin Entrusted /\ Nothing
     \/ /\ request[r].pc \in Entrusted /\ Cardinality(faults) < MaxFaults
        /\ faults' = faults \cup
             {[attempt |-> request[r].attempt, pc |-> request[r].pc, kind |-> fault]}

-----------------------------------------------------------------------------
(* Attempts.                                                               *)

\* start, startExecutionAuthorization: the connection must await an authorization,
\* or have a credential to expand.
ReadConnection(r, kind) ==
  /\ request[r].pc = "idle"
  /\ IF kind = "initial" THEN connection.status = "authorization_pending"
                         ELSE connection.status = "connected" /\ connection.credential # 0
  /\ request' = [request EXCEPT ![r] = [Idle EXCEPT !.pc = "starting", !.kind = kind]]
  /\ UNCHANGED <<connection, attempts, vault, compensations, faults, used>>

NewAttempt(kind) == [kind |-> kind, consumed |-> FALSE, expired |-> FALSE]

\* replaceActive: other attempts stay valid.
InsertAttempt(r) ==
  /\ request[r].pc = "starting"
  /\ \/ /\ Len(attempts) < MaxAttempts
        /\ attempts' = Append(attempts, NewAttempt(request[r].kind))
        /\ Nothing
     \/ Happens(r, "fail") /\ UNCHANGED attempts
     \/ Len(attempts) = MaxAttempts /\ Nothing /\ UNCHANGED attempts
  /\ Return(r)
  /\ UNCHANGED <<connection, vault, compensations, used>>

\* Ten minutes pass.
Expire(a) ==
  /\ ~attempts[a].expired
  /\ attempts' = [attempts EXCEPT ![a].expired = TRUE]
  /\ UNCHANGED <<connection, vault, compensations, request, faults, used>>

-----------------------------------------------------------------------------
(* The callback.                                                           *)

\* The browser returns, once or more, with a code or with the refusal of the
\* operator.  With a code the vault must be available before the state is used;
\* if it is not, nothing happens.
Callback(r, a) ==
  /\ request[r].pc = "idle"
  /\ \E pc \in {"consuming", "cancelling"} :
       request' = [request EXCEPT ![r] = [Idle EXCEPT !.pc = pc, !.attempt = a,
                                                     !.kind = attempts[a].kind]]
  /\ UNCHANGED <<connection, attempts, vault, compensations, faults, used>>

Usable(a) == ~attempts[a].consumed /\ ~attempts[a].expired

\* Mutant: the state is looked up and not used up.
ConsumeRead(r) ==
  LET a == request[r].attempt IN
  /\ request[r].pc \in {"consuming", "cancelling"}
  /\ IF Usable(a) /\ request[r].pc = "consuming" THEN Goto(r, "exchanging") ELSE Return(r)
  /\ UNCHANGED <<connection, attempts, vault, compensations, faults, used>>

\* consumeActive: one conditional UPDATE.  A refusal uses up the state as well.
Consume(r) ==
  LET a == request[r].attempt IN
  /\ request[r].pc \in {"consuming", "cancelling"}
  /\ \/ /\ Usable(a)
        /\ attempts' = [attempts EXCEPT ![a].consumed = TRUE]
        /\ \/ request[r].pc = "consuming" /\ Goto(r, "exchanging") /\ Nothing
           \/ request[r].pc = "cancelling" /\ Return(r) /\ Nothing
           \/ Happens(r, "lost") /\ Return(r)
     \/ ~Usable(a) /\ Return(r) /\ Nothing /\ UNCHANGED attempts
     \/ Happens(r, "fail") /\ Return(r) /\ UNCHANGED attempts
  /\ UNCHANGED <<connection, vault, compensations, used>>

\* exchangeCode: the provider answers with a token, or the callback ends.
Exchange(r) ==
  /\ request[r].pc = "exchanging"
  /\ \/ Goto(r, "storing") /\ Nothing
     \/ Happens(r, "fail") /\ Return(r)
  /\ UNCHANGED <<connection, attempts, vault, compensations, used>>

\* The token with its times, for the attempt it was obtained with.
NewSecret(a) == [attempt |-> a, revoked |-> FALSE]

\* Mutant: a secret that could not be stored is taken for stored.
StoreUnchecked(r) ==
  /\ request[r].pc = "storing"
  /\ \/ vault' = Append(vault, NewSecret(request[r].attempt))
     \/ UNCHANGED vault
  /\ request' = [request EXCEPT ![r].pc = "connecting", ![r].secret = Len(vault) + 1]
  /\ UNCHANGED <<connection, attempts, compensations, faults, used>>

\* vault.putSecret.  When its answer is lost nobody knows the secret's reference.
Store(r) ==
  /\ request[r].pc = "storing"
  /\ \/ /\ vault' = Append(vault, NewSecret(request[r].attempt))
        /\ \/ /\ request' = [request EXCEPT ![r].pc = "connecting", ![r].secret = Len(vault')]
              /\ Nothing
           \/ Happens(r, "lost") /\ Return(r)
     \/ Happens(r, "fail") /\ Return(r) /\ UNCHANGED vault
  /\ UNCHANGED <<connection, attempts, compensations, used>>

\* Mutant: whatever the attempt was for, the connection is completed.
CompletesAny(kind) == TRUE

\* Which connections markConnected completes.
Completes(kind) ==
  IF kind = "initial" THEN connection.status = "authorization_pending"
                      ELSE connection.status = "connected"

\* Mutant: the secret the new one replaces is revoked first, and stays in use when
\* the connection is not completed.
ConnectRevokingFirst(r) ==
  LET old == connection.credential IN
  /\ request[r].pc = "connecting"
  /\ vault' = IF old = 0 THEN vault ELSE [vault EXCEPT ![old].revoked = TRUE]
  /\ \/ /\ Completes(request[r].kind)
        /\ connection' = [status |-> "connected", credential |-> request[r].secret]
        /\ used' = used \cup {request[r].secret}
        /\ Return(r) /\ Nothing
     \/ /\ (~Completes(request[r].kind) /\ Nothing) \/ Happens(r, "fail")
        /\ Goto(r, "revoking") /\ UNCHANGED <<connection, used>>
  /\ UNCHANGED <<attempts, compensations>>

\* markConnected.  When it does not apply, fails or its answer is lost, the secret
\* is given up.
Connect(r) ==
  /\ request[r].pc = "connecting"
  /\ \/ /\ Completes(request[r].kind)
        /\ connection' = [status |-> "connected", credential |-> request[r].secret]
        /\ used' = used \cup {request[r].secret}
        /\ \/ Return(r) /\ Nothing
           \/ Happens(r, "lost") /\ Goto(r, "revoking")
     \/ /\ \/ ~Completes(request[r].kind) /\ Nothing
           \/ Happens(r, "fail")
        /\ Goto(r, "revoking") /\ UNCHANGED <<connection, used>>
  /\ UNCHANGED <<attempts, vault, compensations>>

\* compensateCredential: vault.revokeSecret.
Revoke(r) ==
  /\ request[r].pc = "revoking"
  /\ \/ /\ vault' = [vault EXCEPT ![request[r].secret].revoked = TRUE]
        /\ \/ Return(r) /\ Nothing
           \/ Happens(r, "lost") /\ Goto(r, "recording")
     \/ Happens(r, "fail") /\ Goto(r, "recording") /\ UNCHANGED vault
  /\ UNCHANGED <<connection, attempts, compensations, used>>

\* Mutant: what could not be revoked is not recorded.
RecordNothing(r) ==
  /\ request[r].pc = "recording"
  /\ Return(r)
  /\ UNCHANGED <<connection, attempts, vault, compensations, faults, used>>

\* recordCredentialRevocationPending, when the secret could not be revoked.
Record(r) ==
  /\ request[r].pc = "recording"
  /\ \/ compensations' = compensations \cup {request[r].secret} /\ Nothing
     \/ Happens(r, "fail") /\ UNCHANGED compensations
  /\ Return(r)
  /\ UNCHANGED <<connection, attempts, vault, used>>

\* The process that runs the request stops.
Crash(r) ==
  /\ request[r].pc # "idle" /\ Happens(r, "crash")
  /\ Return(r)
  /\ UNCHANGED <<connection, attempts, vault, compensations, used>>

Step(r) ==
  InsertAttempt(r) \/ Consume(r) \/ Exchange(r) \/ Store(r) \/ Connect(r)
    \/ Revoke(r) \/ Record(r)

Next ==
  \/ \E r \in Requests :
       \/ \E kind \in Kind : ReadConnection(r, kind)
       \/ \E a \in DOMAIN attempts : Callback(r, a)
       \/ Step(r) \/ Crash(r)
  \/ \E a \in DOMAIN attempts : Expire(a)

Spec == Init /\ [][Next]_vars

\* A statement is answered, or given up, within the time limits of its client.
FairSpec == Spec /\ \A r \in Requests : WF_vars(Step(r))

-----------------------------------------------------------------------------
(* Properties.                                                             *)

TypeOK ==
  /\ connection \in Connection /\ connection.credential \in 0..Len(vault)
  /\ attempts \in Seq(Attempt)
  /\ vault \in Seq(Secret) /\ \A s \in DOMAIN vault : vault[s].attempt \in DOMAIN attempts
  /\ compensations \subseteq DOMAIN vault
  /\ request \in [Requests -> Request]
  /\ faults \subseteq FaultAt /\ used \subseteq DOMAIN vault
  /\ \A r \in Requests : /\ request[r].attempt \in 0..Len(attempts)
                         /\ request[r].secret \in 0..Len(vault)

\* One state obtains one credential: callbacks replayed, or racing for the same
\* attempt, exchange at most one code (consumeActive).
OneCredentialPerAttempt ==
  \A s, t \in DOMAIN vault : vault[s].attempt = vault[t].attempt => s = t

\* As long as no answer is lost, the credential of the connection is one the vault
\* still gives out: no compensation revokes what another callback put in use.
CredentialInUseIsLive ==
  connection.credential # 0 =>
    ~vault[connection.credential].revoked /\ connection.credential \notin compensations

\* An authorization for execution is never replaced by one for reading only: an
\* initial attempt that comes back late does not complete a connected connection.
ScopeOf(secret) == attempts[vault[secret].attempt].kind
NoDowngrade ==
  [][(connection.credential # 0 /\ ScopeOf(connection.credential) = "execution")
       => ScopeOf(connection.credential)' = "execution"]_vars

-----------------------------------------------------------------------------
(* The custody of the secrets.                                             *)

Secrets == 1..MaxAttempts

Holds(r, s) ==
  request[r].pc \in {"connecting", "revoking", "recording"} /\ request[r].secret = s

CustodyOf(s) ==
  IF s \notin DOMAIN vault THEN "none"
  ELSE IF vault[s].revoked THEN "revoked"
  ELSE IF s \in compensations THEN "owed"
  ELSE IF s \in used THEN IF connection.credential = s THEN "used" ELSE "replaced"
  ELSE IF \E r \in Requests : Holds(r, s) THEN "held"
  ELSE "abandoned"

Abstract == INSTANCE CredentialCustody WITH custody <- [s \in Secrets |-> CustodyOf(s)]

\* As long as no answer is lost, every secret goes the way of CredentialCustody: one
\* that is in use is only ever replaced, one that is revoked or recorded for
\* revocation was never in use, and a replaced one does not come back.
KeepsCustody == Abstract!Spec

\* Of attempt a and its secret nobody keeps track any more: the answer of putSecret was
\* lost, the process stopped before it completed the connection or revoked the secret,
\* or the secret could be neither revoked nor recorded for revocation.
Struck(a, pc, kind) == [attempt |-> a, pc |-> pc, kind |-> kind] \in faults
LetGo(a) ==
  \/ Struck(a, "storing", "lost")
  \/ Struck(a, "connecting", "crash") \/ Struck(a, "revoking", "crash")
  \/ /\ Struck(a, "revoking", "fail")
     /\ Struck(a, "recording", "fail") \/ Struck(a, "recording", "crash")

\* Whatever fails, a secret stays in the vault that is not in use, not in the hands of a
\* callback, neither revoked nor recorded for revocation, for one of two reasons only.
\* It was in use and an authorization for execution has replaced it: markConnected puts
\* the new reference in its place and nothing revokes the old one.  Or its own callback
\* let it go: no other callback, fault or attempt takes it out of custody.
SecretsLeftAreExplained ==
  \A s \in DOMAIN vault :
    \/ vault[s].revoked \/ s \in compensations \/ connection.credential = s
    \/ \E r \in Requests : Holds(r, s)
    \/ s \in used /\ ScopeOf(connection.credential) = "execution"
    \/ s \notin used /\ LetGo(vault[s].attempt)
=============================================================================
