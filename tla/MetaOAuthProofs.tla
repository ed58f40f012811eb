-------------------------- MODULE MetaOAuthProofs --------------------------
(***************************************************************************)
(* What the callbacks of an authorization do with their secrets, for every *)
(* number of requests, attempts and faults.                                *)
(***************************************************************************)
EXTENDS MetaOAuth, FiniteSetTheorems, SequenceTheorems, TLAPS

-----------------------------------------------------------------------------
(* The inductive invariant.                                                *)

Holding == {"connecting", "revoking", "recording"}
Busy == {"exchanging", "storing"} \cup Holding

\* What a request knows of its attempt and of its secret.
Knows(q) ==
  /\ q \in Request /\ q.attempt \in 0..Len(attempts) /\ q.secret \in 0..Len(vault)
  /\ q.pc \in {"consuming", "cancelling"} \cup Busy
       => q.attempt \in DOMAIN attempts /\ q.kind = attempts[q.attempt].kind
  /\ q.pc \in Busy => attempts[q.attempt].consumed
  /\ q.pc \in {"exchanging", "storing"}
       => \A s \in DOMAIN vault : vault[s].attempt # q.attempt
  /\ q.pc \in Holding => q.secret \in DOMAIN vault /\ vault[q.secret].attempt = q.attempt

Rows ==
  /\ connection \in Connection /\ connection.credential \in 0..Len(vault)
  /\ connection.credential = 0 <=> connection.status = "authorization_pending"
  /\ attempts \in Seq(Attempt) /\ Len(attempts) <= MaxAttempts
  /\ vault \in Seq(Secret)
  /\ \A s \in DOMAIN vault : /\ vault[s].attempt \in DOMAIN attempts
                             /\ attempts[vault[s].attempt].consumed
  /\ compensations \subseteq DOMAIN vault /\ used \subseteq DOMAIN vault
  /\ faults \subseteq FaultAt
  /\ OneCredentialPerAttempt

\* No two requests are busy with one attempt.
OAuthInvariant ==
  /\ Rows
  /\ request \in [Requests -> Request]
  /\ \A r \in Requests : Knows(request[r])
  /\ \A r, s \in Requests :
       r # s /\ request[r].pc \in Busy /\ request[s].pc \in Busy
         => request[r].attempt # request[s].attempt

\* As long as no answer is lost: what is in use, or was, is neither revoked nor owed a
\* revocation, and what a request holds is none of the three.
CustodyInvariant ==
  /\ connection.credential # 0 => connection.credential \in used
  /\ \A s \in used : ~vault[s].revoked /\ s \notin compensations
  /\ \A r \in Requests :
       request[r].pc \in Holding =>
         /\ request[r].secret \notin used /\ request[r].secret \notin compensations
         /\ ~vault[request[r].secret].revoked

-----------------------------------------------------------------------------
(* Tables.                                                                 *)

LEMMA Lengths ==
  ASSUME Rows
  PROVE  /\ Len(attempts) \in Nat /\ DOMAIN attempts = 1..Len(attempts)
         /\ Len(vault) \in Nat /\ DOMAIN vault = 1..Len(vault)
         /\ \A a \in DOMAIN attempts : attempts[a] \in Attempt
         /\ \A s \in DOMAIN vault : vault[s] \in Secret
BY LenProperties, ElementOfSeq DEF Rows

LEMMA Appended ==
  ASSUME NEW T, NEW s \in Seq(T), NEW e \in T, NEW t, t = Append(s, e)
  PROVE  /\ t \in Seq(T) /\ Len(t) = Len(s) + 1 /\ Len(s) \in Nat
         /\ DOMAIN s = 1..Len(s) /\ DOMAIN t = 1..(Len(s) + 1)
         /\ t[Len(s) + 1] = e /\ \A i \in 1..Len(s) : t[i] = s[i]
<1>1. /\ t \in Seq(T) /\ Len(t) = Len(s) + 1
      /\ t[Len(s) + 1] = e /\ \A i \in 1..Len(s) : t[i] = s[i]
  BY AppendProperties
<1>2. Len(s) \in Nat /\ DOMAIN s = 1..Len(s) /\ DOMAIN t = 1..Len(t)
  BY <1>1, LenProperties
<1> QED BY <1>1, <1>2

LEMMA Replaced ==
  ASSUME NEW T, NEW s \in Seq(T), NEW i \in DOMAIN s, NEW e \in T, NEW t,
         t = [s EXCEPT ![i] = e]
  PROVE  /\ t \in Seq(T) /\ Len(t) = Len(s) /\ DOMAIN t = DOMAIN s
         /\ t[i] = e /\ \A j \in DOMAIN s : j # i => t[j] = s[j]
<1>1. i \in 1..Len(s) /\ DOMAIN s = 1..Len(s) BY LenProperties
<1>2. t \in Seq(T) /\ Len(t) = Len(s) /\ t[i] = e BY <1>1, ExceptSeq
<1> QED BY <1>1, <1>2, LenProperties

\* Attempts keep their kind and stay used up, secrets keep their attempt.
Grows ==
  /\ Len(attempts) <= Len(attempts') /\ Len(vault) <= Len(vault')
  /\ \A a \in DOMAIN attempts :
       /\ a \in DOMAIN attempts' /\ attempts'[a].kind = attempts[a].kind
       /\ attempts[a].consumed => attempts'[a].consumed
  /\ \A s \in DOMAIN vault : s \in DOMAIN vault' /\ vault'[s].attempt = vault[s].attempt

\* The attempt of no request that is about to store a secret gets one.
Unclaimed(r) ==
  \A s \in Requests \ {r} : request[s].pc \in {"exchanging", "storing"}
    => \A v \in DOMAIN vault' : vault'[v].attempt # request[s].attempt

\* A step of request r that leaves the tables right.
LEMMA StepKeepsInvariant ==
  ASSUME OAuthInvariant, Rows', Grows, NEW r \in Requests, NEW q,
         request' = [request EXCEPT ![r] = q], Knows(q)', Unclaimed(r),
         q.pc \in Busy => \A s \in Requests \ {r} :
           request[s].pc \in Busy => request[s].attempt # q.attempt
  PROVE  OAuthInvariant'
<1>1. /\ Rows /\ \A s \in Requests : request[s] \in Request /\ Knows(request[s])
      /\ request \in [Requests -> Request]
  BY DEF OAuthInvariant
<1>2. q \in Request BY DEF Knows
<1>3. /\ request' \in [Requests -> Request] /\ request'[r] = q
      /\ \A s \in Requests \ {r} : request'[s] = request[s]
  BY <1>1, <1>2
<1>4. ASSUME NEW s \in Requests PROVE Knows(request[s])'
  <2>1. CASE s = r
    <3> PICK x : x = request'[s] OBVIOUS
    <3>1. Knows(x)' BY <1>3, <2>1
    <3> QED BY <3>1 DEF Knows
  <2>2. CASE s # r
    <3> PICK x : x = request[s] OBVIOUS
    <3>0. x = request'[s] BY <1>3, <2>2
    <3>1. Knows(x) BY <1>1
    <3>2. /\ x \in Request /\ x.attempt \in 0..Len(attempts') /\ x.secret \in 0..Len(vault')
      BY <1>1, <3>1, Lengths, LenProperties DEF Knows, Grows, Rows
    <3>3. /\ x.pc \in {"consuming", "cancelling"} \cup Busy
               => x.attempt \in DOMAIN attempts' /\ x.kind = attempts'[x.attempt].kind
          /\ x.pc \in Busy => attempts'[x.attempt].consumed
      BY <3>1 DEF Knows, Grows, Busy
    <3>4. x.pc \in {"exchanging", "storing"}
            => \A v \in DOMAIN vault' : vault'[v].attempt # x.attempt
      BY <2>2 DEF Unclaimed
    <3>5. x.pc \in Holding => x.secret \in DOMAIN vault' /\ vault'[x.secret].attempt = x.attempt
      BY <3>1 DEF Knows, Grows
    <3>6. Knows(x)' BY <3>2, <3>3, <3>4, <3>5 DEF Knows
    <3> QED BY <3>0, <3>6 DEF Knows
  <2> QED BY <2>1, <2>2
<1>5. ASSUME NEW s \in Requests, NEW t \in Requests, s # t,
             request'[s].pc \in Busy, request'[t].pc \in Busy
      PROVE  request'[s].attempt # request'[t].attempt
  <2>1. CASE s = r BY <1>3, <1>5, <2>1
  <2>2. CASE t = r BY <1>3, <1>5, <2>2
  <2>3. CASE s # r /\ t # r BY <1>3, <1>5, <2>3 DEF OAuthInvariant
  <2> QED BY <2>1, <2>2, <2>3
<1> QED BY <1>3, <1>4, <1>5 DEF OAuthInvariant

LEMMA IdleKnows ==
  ASSUME Rows
  PROVE  Knows(Idle) /\ Idle \in Request /\ Idle.pc = "idle"
<1>1. Idle \in Request /\ Idle.pc = "idle" /\ Idle.attempt = 0 /\ Idle.secret = 0
  BY DEF Idle, Request, PC, Kind
<1> QED BY <1>1, Lengths DEF Knows, Busy, Holding

\* The faults that happen are recorded.
LEMMA FaultsRecorded ==
  ASSUME OAuthInvariant, NEW r \in Requests,
         \/ Nothing
         \/ \E f \in Fault : Happens(r, f)
  PROVE  faults' \subseteq FaultAt
<1>1. faults \subseteq FaultAt /\ request[r] \in Request BY DEF OAuthInvariant, Rows
<1>2. CASE UNCHANGED faults BY <1>1, <1>2
<1>3. ASSUME NEW f \in Fault, request[r].pc \in Entrusted,
             faults' = faults \cup
               {[attempt |-> request[r].attempt, pc |-> request[r].pc, kind |-> f]}
      PROVE  faults' \subseteq FaultAt
  BY <1>1, <1>3 DEF FaultAt, Request
<1> QED BY <1>2, <1>3 DEF Nothing, Happens

\* A step that changes neither the attempts nor the vault.
LEMMA LocalStep ==
  ASSUME OAuthInvariant, NEW r \in Requests, NEW q, Knows(q),
         request' = [request EXCEPT ![r] = q],
         UNCHANGED <<connection, attempts, vault, used>>,
         compensations' \subseteq DOMAIN vault,
         faults' \subseteq FaultAt,
         q.pc \in Busy => request[r].pc \in Busy /\ request[r].attempt = q.attempt
  PROVE  OAuthInvariant'
<1>1. Rows BY DEF OAuthInvariant
<1>2. Rows' BY <1>1 DEF Rows, OneCredentialPerAttempt
<1>3. Grows BY <1>1, Lengths DEF Grows
<1>4. Knows(q)' BY DEF Knows
<1>5. Unclaimed(r) BY DEF OAuthInvariant, Knows, Unclaimed
<1>6. q.pc \in Busy => \A s \in Requests \ {r} :
        request[s].pc \in Busy => request[s].attempt # q.attempt
  BY DEF OAuthInvariant
<1> QED BY <1>2, <1>3, <1>4, <1>5, <1>6, StepKeepsInvariant

LEMMA ReturnStep ==
  ASSUME OAuthInvariant, NEW r \in Requests, Return(r),
         UNCHANGED <<connection, attempts, vault, used>>,
         compensations' \subseteq DOMAIN vault,
         faults' \subseteq FaultAt
  PROVE  OAuthInvariant'
<1>1. Knows(Idle) /\ Idle.pc \notin Busy BY IdleKnows DEF OAuthInvariant, Busy, Holding
<1> QED BY <1>1, LocalStep DEF Return

\* What a request knows when it goes on, with the same attempt, to pc.
LEMMA GoingOn ==
  ASSUME NEW q \in Request, NEW pc \in PC
  PROVE  LET next == [q EXCEPT !.pc = pc]
         IN  /\ next \in Request /\ next.pc = pc /\ next.attempt = q.attempt
             /\ next.kind = q.kind /\ next.secret = q.secret
BY DEF Request

LEMMA GotoIs ==
  ASSUME NEW r, NEW pc, Goto(r, pc), r \in Requests, request \in [Requests -> Request]
  PROVE  request' = [request EXCEPT ![r] = [request[r] EXCEPT !.pc = pc]]
BY DEF Goto

-----------------------------------------------------------------------------
(* Every action.                                                           *)

LEMMA ReadConnectionStep ==
  ASSUME OAuthInvariant, NEW r \in Requests, NEW kind \in Kind, ReadConnection(r, kind)
  PROVE  OAuthInvariant'
<1> DEFINE q == [Idle EXCEPT !.pc = "starting", !.kind = kind]
<1>1. Rows /\ compensations' \subseteq DOMAIN vault /\ faults' \subseteq FaultAt
  BY DEF OAuthInvariant, Rows, ReadConnection
<1>2. /\ q \in Request /\ q.pc = "starting" /\ q.attempt = 0 /\ q.secret = 0
  BY DEF Idle, Request, PC, Kind
<1>3. request' = [request EXCEPT ![r] = q] BY DEF ReadConnection
<1> HIDE DEF q
<1>4. Knows(q) /\ q.pc \notin Busy BY <1>1, <1>2, Lengths DEF Knows, Busy, Holding
<1> QED BY <1>1, <1>3, <1>4, LocalStep DEF ReadConnection

LEMMA CallbackStep ==
  ASSUME OAuthInvariant, NEW r \in Requests, NEW a \in DOMAIN attempts, Callback(r, a)
  PROVE  OAuthInvariant'
<1> PICK pc \in {"consuming", "cancelling"} :
      request' = [request EXCEPT ![r] = [Idle EXCEPT !.pc = pc, !.attempt = a,
                                                    !.kind = attempts[a].kind]]
  BY DEF Callback
<1> PICK kind : kind = attempts[a].kind OBVIOUS
<1> DEFINE q == [Idle EXCEPT !.pc = pc, !.attempt = a, !.kind = kind]
<1>1. Rows /\ compensations' \subseteq DOMAIN vault /\ faults' \subseteq FaultAt
  BY DEF OAuthInvariant, Rows, Callback
<1>2. kind \in Kind /\ a \in Nat /\ a \in 0..Len(attempts) BY <1>1, Lengths DEF Attempt
<1>3. /\ q \in Request /\ q.pc = pc /\ q.attempt = a /\ q.secret = 0 /\ q.kind = kind
  BY <1>2 DEF Idle, Request, PC, Kind
<1>4. request' = [request EXCEPT ![r] = q] OBVIOUS
<1> HIDE DEF q
<1>5. Knows(q) /\ q.pc \notin Busy BY <1>1, <1>2, <1>3, Lengths DEF Knows, Busy, Holding
<1> QED BY <1>1, <1>4, <1>5, LocalStep DEF Callback

LEMMA InsertAttemptStep ==
  ASSUME OAuthInvariant, NEW r \in Requests, InsertAttempt(r)
  PROVE  OAuthInvariant'
<1>1. Rows /\ request[r] \in Request BY DEF OAuthInvariant
<1>2. /\ UNCHANGED <<connection, vault, compensations, used>> /\ Return(r)
      /\ faults' \subseteq FaultAt
  BY <1>1, FaultsRecorded DEF InsertAttempt, Fault
<1>3. CASE UNCHANGED attempts BY <1>1, <1>2, <1>3, ReturnStep DEF Rows
<1>4. CASE Len(attempts) < MaxAttempts /\ attempts' = Append(attempts, NewAttempt(request[r].kind))
  <2>1. PICK new : new = NewAttempt(request[r].kind) OBVIOUS
  <2>2. new \in Attempt BY <1>1, <2>1 DEF NewAttempt, Attempt, Request
  <2> PICK n : n = Len(attempts) OBVIOUS
  <2>3. /\ attempts' \in Seq(Attempt) /\ Len(attempts') = n + 1 /\ n \in Nat
        /\ DOMAIN attempts = 1..n /\ DOMAIN attempts' = 1..(n + 1)
        /\ \A a \in 1..n : attempts'[a] = attempts[a]
    <3> PICK t : t = attempts' OBVIOUS
    <3>1. t = Append(attempts, new) /\ attempts \in Seq(Attempt) BY <1>1, <1>4, <2>1 DEF Rows
    <3>2. /\ t \in Seq(Attempt) /\ Len(t) = n + 1 /\ n \in Nat
          /\ DOMAIN attempts = 1..n /\ DOMAIN t = 1..(n + 1)
          /\ \A a \in 1..n : t[a] = attempts[a]
      BY <2>2, <3>1, Appended
    <3> QED BY <3>2
  <2>4. n + 1 <= MaxAttempts /\ \A a \in 1..n : a \in 1..(n + 1)
    BY <1>4, <2>3, AttemptBound
  <2>5. Rows' BY <1>1, <1>2, <2>3, <2>4 DEF Rows, OneCredentialPerAttempt
  <2>6. Grows BY <1>1, <1>2, <2>3, <2>4, Lengths DEF Grows
  <2>7. Unclaimed(r) BY <1>2 DEF OAuthInvariant, Knows, Unclaimed
  <2>8. Knows(Idle)' /\ Idle.pc \notin Busy
    <3>1. Idle \in Request /\ Idle.pc = "idle" /\ Idle.attempt = 0 /\ Idle.secret = 0
      BY DEF Idle, Request, PC, Kind
    <3> QED BY <1>1, <1>2, <2>3, <3>1, Lengths DEF Knows, Busy, Holding
  <2> QED BY <1>2, <2>5, <2>6, <2>7, <2>8, StepKeepsInvariant DEF Return
<1> QED BY <1>3, <1>4 DEF InsertAttempt

\* One attempt is changed: it expires or is used up.
LEMMA AttemptChanged ==
  ASSUME Rows, NEW a \in DOMAIN attempts, NEW e \in Attempt,
         e.kind = attempts[a].kind, attempts[a].consumed => e.consumed,
         attempts' = [attempts EXCEPT ![a] = e],
         UNCHANGED <<connection, vault, compensations, used>>, faults' \subseteq FaultAt
  PROVE  /\ Rows' /\ Grows /\ attempts'[a] = e /\ DOMAIN attempts' = DOMAIN attempts
         /\ Len(attempts') = Len(attempts)
         /\ \A b \in DOMAIN attempts : b # a => attempts'[b] = attempts[b]
<1>1. /\ attempts' \in Seq(Attempt) /\ Len(attempts') = Len(attempts)
      /\ DOMAIN attempts' = DOMAIN attempts /\ attempts'[a] = e
      /\ \A b \in DOMAIN attempts : b # a => attempts'[b] = attempts[b]
  <2> PICK t : t = attempts' OBVIOUS
  <2>1. t = [attempts EXCEPT ![a] = e] /\ attempts \in Seq(Attempt) BY DEF Rows
  <2>2. /\ t \in Seq(Attempt) /\ Len(t) = Len(attempts) /\ DOMAIN t = DOMAIN attempts
        /\ t[a] = e /\ \A b \in DOMAIN attempts : b # a => t[b] = attempts[b]
    BY <2>1, Replaced
  <2> QED BY <2>2
<1>2. \A b \in DOMAIN attempts : /\ attempts'[b].kind = attempts[b].kind
                                 /\ attempts[b].consumed => attempts'[b].consumed
  BY <1>1
<1>3. Rows' BY <1>1, <1>2 DEF Rows, OneCredentialPerAttempt
<1>4. Grows BY <1>1, <1>2, Lengths DEF Grows
<1> QED BY <1>1, <1>3, <1>4

LEMMA ConsumeStep ==
  ASSUME OAuthInvariant, NEW r \in Requests, Consume(r)
  PROVE  OAuthInvariant'
<1> PICK q : q = request[r] OBVIOUS
<1> PICK a : a = q.attempt OBVIOUS
<1>1. /\ Rows /\ Knows(q) /\ q \in Request /\ q.pc \in {"consuming", "cancelling"}
      /\ a \in DOMAIN attempts /\ request \in [Requests -> Request]
  BY DEF OAuthInvariant, Consume, Knows
<1>2. /\ UNCHANGED <<connection, vault, compensations, used>> /\ faults' \subseteq FaultAt
  BY <1>1, FaultsRecorded DEF Consume, Fault
<1>3. CASE UNCHANGED attempts /\ Return(r) BY <1>1, <1>2, <1>3, ReturnStep DEF Rows
<1>4. CASE /\ Usable(a) /\ attempts' = [attempts EXCEPT ![a].consumed = TRUE]
           /\ Goto(r, "exchanging") \/ Return(r)
  <2> DEFINE e == [attempts[a] EXCEPT !.consumed = TRUE]
  <2>1. e \in Attempt /\ e.kind = attempts[a].kind /\ e.consumed = TRUE
    BY <1>1, Lengths DEF Attempt
  <2>2. attempts' = [attempts EXCEPT ![a] = e] BY <1>4
  <2> HIDE DEF e
  <2>3. /\ Rows' /\ Grows /\ attempts'[a] = e /\ DOMAIN attempts' = DOMAIN attempts
        /\ Len(attempts') = Len(attempts)
    BY <1>1, <1>2, <2>1, <2>2, AttemptChanged
  <2>4. Unclaimed(r) BY <1>2 DEF OAuthInvariant, Knows, Unclaimed
  <2>5. ASSUME NEW s \in Requests, request[s].pc \in Busy PROVE request[s].attempt # a
    BY <1>4, <2>5 DEF OAuthInvariant, Knows, Usable
  <2>6. \A s \in DOMAIN vault : vault[s].attempt # a BY <1>1, <1>4 DEF Rows, Usable
  <2>7. CASE Return(r)
    <3>1. Knows(Idle)' /\ Idle.pc \notin Busy
      <4>1. Idle \in Request /\ Idle.pc = "idle" /\ Idle.attempt = 0 /\ Idle.secret = 0
        BY DEF Idle, Request, PC, Kind
      <4> QED BY <1>1, <1>2, <2>3, <4>1, Lengths DEF Knows, Busy, Holding
    <3> QED BY <2>3, <2>4, <2>7, <3>1, StepKeepsInvariant DEF Return
  <2>8. CASE Goto(r, "exchanging")
    <3> DEFINE next == [q EXCEPT !.pc = "exchanging"]
    <3>1. /\ next \in Request /\ next.pc = "exchanging" /\ next.attempt = a
          /\ next.kind = q.kind /\ next.secret = q.secret
      BY <1>1, GoingOn DEF PC
    <3>2. request' = [request EXCEPT ![r] = next] BY <1>1, <2>8, GotoIs
    <3> HIDE DEF next
    <3>3. Knows(next)'
      BY <1>1, <1>2, <2>1, <2>3, <2>6, <3>1 DEF Knows, Holding
    <3> QED BY <2>3, <2>4, <2>5, <3>1, <3>2, <3>3, StepKeepsInvariant
  <2> QED BY <1>4, <2>7, <2>8
<1> QED BY <1>3, <1>4 DEF Consume

LEMMA ExpireStep ==
  ASSUME OAuthInvariant, NEW a \in DOMAIN attempts, Expire(a)
  PROVE  OAuthInvariant'
<1> DEFINE e == [attempts[a] EXCEPT !.expired = TRUE]
<1>0. Rows BY DEF OAuthInvariant
<1>1. /\ e \in Attempt /\ e.kind = attempts[a].kind /\ e.consumed = attempts[a].consumed
      /\ attempts' = [attempts EXCEPT ![a] = e]
      /\ UNCHANGED <<connection, vault, compensations, request, used, faults>>
      /\ faults' \subseteq FaultAt
  BY <1>0, Lengths DEF Attempt, Expire, Rows
<1> HIDE DEF e
<1>2. /\ Rows' /\ Grows /\ DOMAIN attempts' = DOMAIN attempts /\ Len(attempts') = Len(attempts)
  BY <1>0, <1>1, AttemptChanged
<1>3. ASSUME NEW r \in Requests PROVE Knows(request[r])'
  <2> PICK q : q = request[r] OBVIOUS
  <2>1. Knows(q) BY DEF OAuthInvariant
  <2>2. Knows(q)' BY <1>1, <1>2, <2>1 DEF Knows, Grows, Busy
  <2> QED BY <1>1, <2>2 DEF Knows
<1> QED BY <1>1, <1>2, <1>3 DEF OAuthInvariant

LEMMA ExchangeStep ==
  ASSUME OAuthInvariant, NEW r \in Requests, Exchange(r)
  PROVE  OAuthInvariant'
<1> PICK q : q = request[r] OBVIOUS
<1> DEFINE next == [q EXCEPT !.pc = "storing"]
<1>1. /\ Rows /\ Knows(q) /\ q \in Request /\ q.pc = "exchanging"
      /\ request \in [Requests -> Request]
  BY DEF OAuthInvariant, Exchange, Knows
<1>2. /\ UNCHANGED <<connection, attempts, vault, used>> /\ faults' \subseteq FaultAt
      /\ compensations' \subseteq DOMAIN vault
  BY <1>1, FaultsRecorded DEF Exchange, Fault, Rows
<1>3. CASE Return(r) BY <1>2, <1>3, ReturnStep
<1>4. CASE Goto(r, "storing")
  <2>1. /\ next \in Request /\ next.pc = "storing" /\ next.attempt = q.attempt
        /\ next.kind = q.kind /\ next.secret = q.secret
    BY <1>1, GoingOn DEF PC
  <2>2. request' = [request EXCEPT ![r] = next] BY <1>1, <1>4, GotoIs
  <2> HIDE DEF next
  <2>3. Knows(next) BY <1>1, <2>1 DEF Knows, Busy, Holding
  <2>4. q.pc \in Busy BY <1>1 DEF Busy
  <2> QED BY <1>2, <2>1, <2>2, <2>3, <2>4, LocalStep
<1> QED BY <1>3, <1>4 DEF Exchange

\* The secret of request r, which is about to store one, is stored.
LEMMA SecretStored ==
  ASSUME OAuthInvariant, NEW r \in Requests, request[r].pc = "storing",
         vault' = Append(vault, NewSecret(request[r].attempt)),
         UNCHANGED <<connection, attempts, compensations, used>>, faults' \subseteq FaultAt
  PROVE  LET n == Len(vault)
         IN  /\ Rows' /\ Grows /\ Unclaimed(r)
             /\ n \in Nat /\ Len(vault') = n + 1 /\ DOMAIN vault' = 1..(n + 1)
             /\ DOMAIN vault = 1..n
             /\ vault'[n + 1].attempt = request[r].attempt /\ vault'[n + 1].revoked = FALSE
             /\ \A s \in 1..n : vault'[s] = vault[s]
<1> PICK q : q = request[r] OBVIOUS
<1> PICK n : n = Len(vault) OBVIOUS
<1>1. /\ Rows /\ Knows(q) /\ q \in Request /\ q.pc = "storing"
      /\ q.attempt \in DOMAIN attempts /\ attempts[q.attempt].consumed
      /\ \A s \in DOMAIN vault : vault[s].attempt # q.attempt
  BY DEF OAuthInvariant, Knows, Busy
<1>2. PICK new : new = NewSecret(q.attempt) OBVIOUS
<1>3. new \in Secret /\ new.attempt = q.attempt /\ new.revoked = FALSE
  BY <1>1, <1>2 DEF NewSecret, Secret, Request
<1>4. /\ vault' \in Seq(Secret) /\ n \in Nat /\ Len(vault') = n + 1
      /\ DOMAIN vault = 1..n /\ DOMAIN vault' = 1..(n + 1)
      /\ vault'[n + 1] = new /\ \A s \in 1..n : vault'[s] = vault[s]
  <2> PICK t : t = vault' OBVIOUS
  <2>1. t = Append(vault, new) /\ vault \in Seq(Secret) BY <1>1, <1>2 DEF Rows
  <2>2. /\ t \in Seq(Secret) /\ n \in Nat /\ Len(t) = n + 1
        /\ DOMAIN vault = 1..n /\ DOMAIN t = 1..(n + 1)
        /\ t[n + 1] = new /\ \A s \in 1..n : t[s] = vault[s]
    BY <1>3, <2>1, Appended
  <2> QED BY <2>2
<1>5. /\ \A s \in 1..n : s \in 1..(n + 1)
      /\ \A s \in 1..(n + 1) : s \in 1..n \/ s = n + 1
  BY <1>4
<1>6. OneCredentialPerAttempt'
  BY <1>1, <1>3, <1>4, <1>5 DEF Rows, OneCredentialPerAttempt
<1>7. Rows' BY <1>1, <1>3, <1>4, <1>5, <1>6 DEF Rows
<1>8. Grows BY <1>1, <1>4, <1>5, Lengths DEF Grows
<1>9. Unclaimed(r)
  <2> SUFFICES ASSUME NEW s \in Requests \ {r}, request[s].pc \in {"exchanging", "storing"},
                      NEW v \in DOMAIN vault'
               PROVE  vault'[v].attempt # request[s].attempt
    BY DEF Unclaimed
  <2>1. CASE v \in 1..n BY <1>4, <2>1 DEF OAuthInvariant, Knows
  <2>2. CASE v = n + 1 BY <1>1, <1>3, <1>4, <2>2 DEF OAuthInvariant, Busy
  <2> QED BY <1>4, <1>5, <2>1, <2>2
<1> QED BY <1>3, <1>4, <1>7, <1>8, <1>9

LEMMA StoreStep ==
  ASSUME OAuthInvariant, NEW r \in Requests, Store(r)
  PROVE  OAuthInvariant'
<1> PICK q : q = request[r] OBVIOUS
<1> PICK n : n = Len(vault) OBVIOUS
<1>1. /\ Rows /\ Knows(q) /\ q \in Request /\ q.pc = "storing"
      /\ request \in [Requests -> Request]
  BY DEF OAuthInvariant, Store, Knows
<1>2. /\ UNCHANGED <<connection, attempts, compensations, used>> /\ faults' \subseteq FaultAt
      /\ compensations' \subseteq DOMAIN vault
  BY <1>1, FaultsRecorded DEF Store, Fault, Rows
<1>3. CASE UNCHANGED vault /\ Return(r) BY <1>2, <1>3, ReturnStep
<1>4. CASE vault' = Append(vault, NewSecret(q.attempt))
  <2>1. /\ Rows' /\ Grows /\ Unclaimed(r) /\ n \in Nat /\ Len(vault') = n + 1
        /\ DOMAIN vault' = 1..(n + 1) /\ vault'[n + 1].attempt = q.attempt
    BY <1>1, <1>2, <1>4, SecretStored
  <2>2. CASE Return(r)
    <3>1. Knows(Idle)' /\ Idle.pc \notin Busy
      <4>1. Idle \in Request /\ Idle.pc = "idle" /\ Idle.attempt = 0 /\ Idle.secret = 0
        BY DEF Idle, Request, PC, Kind
      <4> QED BY <1>1, <1>2, <2>1, <4>1, Lengths DEF Knows, Busy, Holding
    <3> QED BY <2>1, <2>2, <3>1, StepKeepsInvariant DEF Return
  <2>3. CASE request' = [request EXCEPT ![r].pc = "connecting", ![r].secret = Len(vault')]
    <3> PICK k : k = n + 1 OBVIOUS
    <3> DEFINE next == [q EXCEPT !.pc = "connecting", !.secret = k]
    <3>0. k \in Nat BY <2>1
    <3>1. /\ next \in Request /\ next.pc = "connecting" /\ next.attempt = q.attempt
          /\ next.kind = q.kind /\ next.secret = k
      <4> HIDE <2>3
      <4> QED BY <1>1, <3>0 DEF Request, PC
    <3>2. request' = [request EXCEPT ![r] = next] BY <2>1, <2>3
    <3> HIDE DEF next
    <3>3. Knows(next)'
      BY <1>1, <1>2, <2>1, <3>1, Lengths DEF Knows, Busy, Holding
    <3>4. \A s \in Requests \ {r} : request[s].pc \in Busy => request[s].attempt # next.attempt
      BY <1>1, <3>1 DEF OAuthInvariant, Busy
    <3> QED BY <2>1, <3>2, <3>3, <3>4, StepKeepsInvariant
  <2> QED BY <1>4, <2>2, <2>3, <2>1 DEF Store
<1> QED BY <1>1, <1>3, <1>4 DEF Store

LEMMA ConnectStep ==
  ASSUME OAuthInvariant, NEW r \in Requests, Connect(r)
  PROVE  OAuthInvariant'
<1> PICK q : q = request[r] OBVIOUS
<1> DEFINE next == [q EXCEPT !.pc = "revoking"]
<1>1. /\ Rows /\ Knows(q) /\ q \in Request /\ q.pc = "connecting"
      /\ request \in [Requests -> Request] /\ q.secret \in DOMAIN vault
  BY DEF OAuthInvariant, Connect, Knows, Holding
<1>2. /\ UNCHANGED <<attempts, vault, compensations>> /\ faults' \subseteq FaultAt
      /\ Return(r) \/ Goto(r, "revoking")
      /\ \/ UNCHANGED <<connection, used>>
         \/ /\ connection' = [status |-> "connected", credential |-> q.secret]
            /\ used' = used \cup {q.secret}
  BY <1>1, FaultsRecorded DEF Connect, Fault
<1>3. Rows' BY <1>1, <1>2, Lengths DEF Rows, OneCredentialPerAttempt, Connection
<1>4. Grows BY <1>1, <1>2, Lengths DEF Grows
<1>5. Unclaimed(r) BY <1>2 DEF OAuthInvariant, Knows, Unclaimed
<1>6. CASE Return(r)
  <2>1. Knows(Idle)' /\ Idle.pc \notin Busy
    BY <1>1, <1>2, IdleKnows DEF Knows, Busy, Holding
  <2> QED BY <1>3, <1>4, <1>5, <1>6, <2>1, StepKeepsInvariant DEF Return
<1>7. CASE Goto(r, "revoking")
  <2>1. /\ next \in Request /\ next.pc = "revoking" /\ next.attempt = q.attempt
        /\ next.kind = q.kind /\ next.secret = q.secret
    BY <1>1, GoingOn DEF PC
  <2>2. request' = [request EXCEPT ![r] = next] BY <1>1, <1>7, GotoIs
  <2> HIDE DEF next
  <2>3. Knows(next)' BY <1>1, <1>2, <2>1 DEF Knows, Busy, Holding
  <2>4. \A s \in Requests \ {r} : request[s].pc \in Busy => request[s].attempt # next.attempt
    BY <1>1, <2>1 DEF OAuthInvariant, Busy, Holding
  <2> QED BY <1>3, <1>4, <1>5, <2>2, <2>3, <2>4, StepKeepsInvariant
<1> QED BY <1>2, <1>6, <1>7

\* The secret that a request holds is revoked.
LEMMA SecretRevoked ==
  ASSUME Rows, NEW k \in DOMAIN vault, NEW e \in Secret,
         e.attempt = vault[k].attempt, e.revoked = TRUE, vault' = [vault EXCEPT ![k] = e],
         UNCHANGED <<connection, attempts, compensations, used>>, faults' \subseteq FaultAt
  PROVE  /\ Rows' /\ Grows /\ DOMAIN vault' = DOMAIN vault /\ Len(vault') = Len(vault)
         /\ \A s \in DOMAIN vault :
              /\ vault'[s].attempt = vault[s].attempt
              /\ vault'[s].revoked = IF s = k THEN TRUE ELSE vault[s].revoked
<1>1. /\ vault' \in Seq(Secret) /\ Len(vault') = Len(vault) /\ DOMAIN vault' = DOMAIN vault
      /\ vault'[k] = e /\ \A s \in DOMAIN vault : s # k => vault'[s] = vault[s]
  <2> PICK t : t = vault' OBVIOUS
  <2>1. t = [vault EXCEPT ![k] = e] /\ vault \in Seq(Secret) BY DEF Rows
  <2>2. /\ t \in Seq(Secret) /\ Len(t) = Len(vault) /\ DOMAIN t = DOMAIN vault
        /\ t[k] = e /\ \A s \in DOMAIN vault : s # k => t[s] = vault[s]
    BY <2>1, Replaced
  <2> QED BY <2>2
<1>2. \A s \in DOMAIN vault :
        /\ vault'[s].attempt = vault[s].attempt
        /\ vault'[s].revoked = IF s = k THEN TRUE ELSE vault[s].revoked
  BY <1>1
<1>3. Rows' BY <1>1, <1>2 DEF Rows, OneCredentialPerAttempt
<1>4. Grows BY <1>1, <1>2, Lengths DEF Grows
<1> QED BY <1>1, <1>2, <1>3, <1>4

\* The record of a revoked secret.
LEMMA RevokedRecord ==
  ASSUME Rows, NEW k \in DOMAIN vault, vault' = [vault EXCEPT ![k].revoked = TRUE]
  PROVE  \E e \in Secret : /\ e.attempt = vault[k].attempt /\ e.revoked = TRUE
                            /\ vault' = [vault EXCEPT ![k] = e]
<1> DEFINE e == [vault[k] EXCEPT !.revoked = TRUE]
<1>1. e \in Secret /\ e.attempt = vault[k].attempt /\ e.revoked = TRUE
  BY Lengths DEF Secret
<1>2. vault' = [vault EXCEPT ![k] = e] OBVIOUS
<1> HIDE DEF e
<1> QED BY <1>1, <1>2

LEMMA RevokeStep ==
  ASSUME OAuthInvariant, NEW r \in Requests, Revoke(r)
  PROVE  OAuthInvariant'
<1> PICK q : q = request[r] OBVIOUS
<1> DEFINE next == [q EXCEPT !.pc = "recording"]
<1>1. /\ Rows /\ Knows(q) /\ q \in Request /\ q.pc = "revoking"
      /\ request \in [Requests -> Request] /\ q.secret \in DOMAIN vault
  BY DEF OAuthInvariant, Revoke, Knows, Holding
<1>2. /\ UNCHANGED <<connection, attempts, compensations, used>> /\ faults' \subseteq FaultAt
      /\ Return(r) \/ Goto(r, "recording")
      /\ UNCHANGED vault \/ vault' = [vault EXCEPT ![q.secret].revoked = TRUE]
  BY <1>1, FaultsRecorded DEF Revoke, Fault
<1>3. /\ Rows' /\ Grows /\ DOMAIN vault' = DOMAIN vault /\ Len(vault') = Len(vault)
      /\ \A s \in DOMAIN vault : vault'[s].attempt = vault[s].attempt
  <2>1. CASE UNCHANGED vault
    BY <1>1, <1>2, <2>1, Lengths DEF Rows, Grows, OneCredentialPerAttempt
  <2>2. CASE vault' = [vault EXCEPT ![q.secret].revoked = TRUE]
    BY <1>1, <1>2, <2>2, RevokedRecord, SecretRevoked
  <2> QED BY <1>2, <2>1, <2>2
<1>4. Unclaimed(r) BY <1>3 DEF OAuthInvariant, Knows, Unclaimed
<1>5. CASE Return(r)
  <2>1. Knows(Idle)' /\ Idle.pc \notin Busy
    <3>1. Idle \in Request /\ Idle.pc = "idle" /\ Idle.attempt = 0 /\ Idle.secret = 0
      BY DEF Idle, Request, PC, Kind
    <3> QED BY <1>1, <1>2, <1>3, <3>1, Lengths DEF Knows, Busy, Holding
  <2> QED BY <1>3, <1>4, <1>5, <2>1, StepKeepsInvariant DEF Return
<1>6. CASE Goto(r, "recording")
  <2>1. /\ next \in Request /\ next.pc = "recording" /\ next.attempt = q.attempt
        /\ next.kind = q.kind /\ next.secret = q.secret
    BY <1>1, GoingOn DEF PC
  <2>2. request' = [request EXCEPT ![r] = next] BY <1>1, <1>6, GotoIs
  <2> HIDE DEF next
  <2>3. Knows(next)' BY <1>1, <1>2, <1>3, <2>1 DEF Knows, Busy, Holding
  <2>4. \A s \in Requests \ {r} : request[s].pc \in Busy => request[s].attempt # next.attempt
    BY <1>1, <2>1 DEF OAuthInvariant, Busy, Holding
  <2> QED BY <1>3, <1>4, <2>2, <2>3, <2>4, StepKeepsInvariant
<1> QED BY <1>2, <1>5, <1>6

LEMMA RecordStep ==
  ASSUME OAuthInvariant, NEW r \in Requests, Record(r)
  PROVE  OAuthInvariant'
<1>1. Rows /\ request[r].secret \in DOMAIN vault
  BY DEF OAuthInvariant, Knows, Record, Holding
<1>2. compensations' \subseteq DOMAIN vault BY <1>1 DEF Record, Rows
<1>3. faults' \subseteq FaultAt BY <1>1, FaultsRecorded DEF Record, Fault
<1> QED BY <1>2, <1>3, ReturnStep DEF Record

LEMMA CrashStep ==
  ASSUME OAuthInvariant, NEW r \in Requests, Crash(r)
  PROVE  OAuthInvariant'
<1>1. Rows BY DEF OAuthInvariant
<1>2. compensations' \subseteq DOMAIN vault BY <1>1 DEF Crash, Rows
<1>3. faults' \subseteq FaultAt BY <1>1, FaultsRecorded DEF Crash, Fault
<1> QED BY <1>2, <1>3, ReturnStep DEF Crash

LEMMA InitInvariant == Init => OAuthInvariant
<1> SUFFICES ASSUME Init PROVE OAuthInvariant OBVIOUS
<1>1. /\ DOMAIN attempts = {} /\ DOMAIN vault = {} /\ Len(attempts) = 0 /\ Len(vault) = 0
      /\ attempts \in Seq(Attempt) /\ vault \in Seq(Secret)
      /\ compensations = {} /\ used = {} /\ faults = {}
      /\ connection = [status |-> "authorization_pending", credential |-> 0]
  BY DEF Init
<1>2. Rows BY <1>1, AttemptBound DEF Rows, Connection, OneCredentialPerAttempt
<1>3. Knows(Idle) /\ Idle \in Request /\ Idle.pc = "idle" BY <1>2, IdleKnows
<1>4. request \in [Requests -> Request] /\ \A r \in Requests : request[r] = Idle
  BY <1>3 DEF Init
<1>5. \A r \in Requests : Knows(request[r]) /\ request[r].pc \notin Busy
  BY <1>3, <1>4 DEF Busy, Holding
<1> QED BY <1>2, <1>4, <1>5 DEF OAuthInvariant

LEMMA NextInvariant == OAuthInvariant /\ [Next]_vars => OAuthInvariant'
<1> SUFFICES ASSUME OAuthInvariant, [Next]_vars PROVE OAuthInvariant' OBVIOUS
<1>1. CASE UNCHANGED vars
  BY <1>1 DEF vars, OAuthInvariant, Rows, Knows, OneCredentialPerAttempt
<1>2. ASSUME NEW r \in Requests, NEW kind \in Kind, ReadConnection(r, kind)
      PROVE  OAuthInvariant'
  BY <1>2, ReadConnectionStep
<1>3. ASSUME NEW r \in Requests, NEW a \in DOMAIN attempts, Callback(r, a)
      PROVE  OAuthInvariant'
  BY <1>3, CallbackStep
<1>4. ASSUME NEW r \in Requests, Step(r) \/ Crash(r) PROVE OAuthInvariant'
  BY <1>4, InsertAttemptStep, ConsumeStep, ExchangeStep, StoreStep, ConnectStep,
     RevokeStep, RecordStep, CrashStep DEF Step
<1>5. ASSUME NEW a \in DOMAIN attempts, Expire(a) PROVE OAuthInvariant'
  BY <1>5, ExpireStep
<1> QED BY <1>1, <1>2, <1>3, <1>4, <1>5 DEF Next

LEMMA Invariant == Spec => []OAuthInvariant
BY InitInvariant, NextInvariant, PTL DEF Spec

-----------------------------------------------------------------------------
(* The theorems that hold whatever fails.                                  *)

\* The rows of the authorization and what callbacks know of them stay consistent
\* (the statements of meta-oauth.service and of its repositories).
THEOREM TypeCorrect == Spec => []TypeOK
<1>1. OAuthInvariant => TypeOK BY DEF OAuthInvariant, Rows, Knows, TypeOK
<1> QED BY <1>1, Invariant, PTL

\* One state obtains one credential: replayed callbacks and callbacks that race for an
\* attempt never store two secrets for it (consumeActive).
THEOREM OneCredential == Spec => []OneCredentialPerAttempt
<1>1. OAuthInvariant => OneCredentialPerAttempt BY DEF OAuthInvariant, Rows
<1> QED BY <1>1, Invariant, PTL

LEMMA StepGrows == OAuthInvariant /\ [Next]_vars => Grows
<1> SUFFICES ASSUME OAuthInvariant, [Next]_vars PROVE Grows OBVIOUS
<1>1. Rows BY DEF OAuthInvariant
<1>2. CASE UNCHANGED <<attempts, vault>> BY <1>1, <1>2, Lengths DEF Grows
<1>3. ASSUME NEW r \in Requests, InsertAttempt(r), ~UNCHANGED attempts PROVE Grows
  <2>1. PICK new : new = NewAttempt(request[r].kind) OBVIOUS
  <2>2. new \in Attempt
    <3>1. request[r] \in Request BY DEF OAuthInvariant
    <3> QED BY <2>1, <3>1 DEF NewAttempt, Attempt, Request
  <2> PICK u : u = attempts OBVIOUS
  <2> PICK t : t = attempts' OBVIOUS
  <2>3. t = Append(u, new) /\ u \in Seq(Attempt)
    BY <1>1, <1>3, <2>1 DEF Rows, InsertAttempt
  <2>4. /\ Len(t) = Len(u) + 1 /\ Len(u) \in Nat
        /\ DOMAIN u = 1..Len(u) /\ DOMAIN t = 1..(Len(u) + 1)
        /\ \A a \in 1..Len(u) : t[a] = u[a]
    BY <2>2, <2>3, Appended
  <2>5. Len(u) <= Len(t) /\ \A a \in DOMAIN u : a \in DOMAIN t /\ t[a] = u[a] BY <2>4
  <2> QED BY <1>1, <1>3, <2>5, Lengths DEF Grows, InsertAttempt
<1>4. ASSUME NEW r \in Requests, Consume(r), ~UNCHANGED attempts PROVE Grows
  <2> PICK a : a = request[r].attempt OBVIOUS
  <2> DEFINE e == [attempts[a] EXCEPT !.consumed = TRUE]
  <2>1. a \in DOMAIN attempts BY <1>4 DEF OAuthInvariant, Knows, Consume
  <2>2. e \in Attempt /\ e.kind = attempts[a].kind /\ e.consumed = TRUE
    BY <1>1, <2>1, Lengths DEF Attempt
  <2>3. attempts' = [attempts EXCEPT ![a] = e] /\ UNCHANGED <<connection, vault, compensations, used>>
    BY <1>4 DEF Consume
  <2>4. faults' \subseteq FaultAt BY <1>1, <1>4, FaultsRecorded DEF Consume, Fault
  <2> HIDE DEF e
  <2> QED BY <1>1, <2>1, <2>2, <2>3, <2>4, AttemptChanged
<1>5. ASSUME NEW a \in DOMAIN attempts, Expire(a) PROVE Grows
  <2> DEFINE e == [attempts[a] EXCEPT !.expired = TRUE]
  <2>1. /\ e \in Attempt /\ e.kind = attempts[a].kind /\ e.consumed = attempts[a].consumed
        /\ attempts' = [attempts EXCEPT ![a] = e]
        /\ UNCHANGED <<connection, vault, compensations, used, faults>>
    BY <1>1, <1>5, Lengths DEF Attempt, Expire
  <2>2. faults' \subseteq FaultAt BY <1>1, <2>1 DEF Rows
  <2> HIDE DEF e
  <2> QED BY <1>1, <2>1, <2>2, AttemptChanged
<1>6. ASSUME NEW r \in Requests, Store(r), ~UNCHANGED vault PROVE Grows
  <2>1. faults' \subseteq FaultAt BY <1>1, <1>6, FaultsRecorded DEF Store, Fault
  <2> QED BY <1>6, <2>1, SecretStored DEF Store
<1>7. ASSUME NEW r \in Requests, Revoke(r), ~UNCHANGED vault PROVE Grows
  <2> PICK k : k = request[r].secret OBVIOUS
  <2>1. faults' \subseteq FaultAt BY <1>1, <1>7, FaultsRecorded DEF Revoke, Fault
  <2>2. k \in DOMAIN vault BY <1>7 DEF OAuthInvariant, Knows, Revoke, Holding
  <2>3. vault' = [vault EXCEPT ![k].revoked = TRUE] BY <1>7 DEF Revoke
  <2> QED BY <1>1, <1>7, <2>1, <2>2, <2>3, RevokedRecord, SecretRevoked DEF Revoke
<1>8. \/ UNCHANGED <<attempts, vault>>
      \/ \E r \in Requests : InsertAttempt(r) /\ ~UNCHANGED attempts
      \/ \E r \in Requests : Consume(r) /\ ~UNCHANGED attempts
      \/ \E a \in DOMAIN attempts : Expire(a)
      \/ \E r \in Requests : Store(r) /\ ~UNCHANGED vault
      \/ \E r \in Requests : Revoke(r) /\ ~UNCHANGED vault
  BY DEF Next, Step, vars, ReadConnection, InsertAttempt, Callback, Consume, Exchange, Store,
         Connect, Revoke, Record, Crash
<1> QED BY <1>2, <1>3, <1>4, <1>5, <1>6, <1>7, <1>8

\* The connection changes only when a request connects its secret.
LEMMA ConnectionChanges ==
  ASSUME [Next]_vars, connection' # connection
  PROVE  \E r \in Requests :
           /\ request[r].pc = "connecting" /\ Completes(request[r].kind)
           /\ connection' = [status |-> "connected", credential |-> request[r].secret]
           /\ UNCHANGED <<attempts, vault>>
<1>1. PICK r \in Requests : Connect(r)
  <2>1. \A r \in Requests : ~InsertAttempt(r) /\ ~Consume(r) /\ ~Exchange(r) /\ ~Store(r)
                            /\ ~Revoke(r) /\ ~Record(r) /\ ~Crash(r)
    BY DEF InsertAttempt, Consume, Exchange, Store, Revoke, Record, Crash
  <2>2. \A r \in Requests : /\ \A kind \in Kind : ~ReadConnection(r, kind)
                            /\ \A a \in DOMAIN attempts : ~Callback(r, a)
    BY DEF ReadConnection, Callback
  <2>3. ~UNCHANGED vars /\ \A a \in DOMAIN attempts : ~Expire(a) BY DEF vars, Expire
  <2> QED BY <2>1, <2>2, <2>3 DEF Next, Step
<1> QED BY <1>1 DEF Connect

\* An authorization for execution is never replaced by one for reading only, however
\* late the callback of an initial attempt comes back (markConnected).
THEOREM NeverNarrower == Spec => NoDowngrade
<1> DEFINE Keeps ==
      (connection.credential # 0 /\ ScopeOf(connection.credential) = "execution")
        => ScopeOf(connection.credential)' = "execution"
<1>1. ASSUME OAuthInvariant, [Next]_vars PROVE Keeps
  <2> SUFFICES ASSUME connection.credential # 0,
                      ScopeOf(connection.credential) = "execution"
               PROVE  attempts'[vault'[connection'.credential].attempt].kind = "execution"
    BY DEF ScopeOf
  <2> PICK c : c = connection.credential OBVIOUS
  <2>1. Rows /\ Grows BY <1>1, StepGrows DEF OAuthInvariant
  <2>2. c \in DOMAIN vault /\ vault[c].attempt \in DOMAIN attempts
    <3>1. c \in 0..Len(vault) BY <2>1 DEF Rows
    <3>2. c \in DOMAIN vault BY <2>1, <3>1, Lengths
    <3> QED BY <2>1, <3>2 DEF Rows
  <2>3. CASE connection' = connection
    BY <2>2, <2>1, <2>3 DEF Grows, ScopeOf
  <2>4. CASE connection' # connection
    <3> PICK r \in Requests :
          /\ request[r].pc = "connecting" /\ Completes(request[r].kind)
          /\ connection' = [status |-> "connected", credential |-> request[r].secret]
          /\ UNCHANGED <<attempts, vault>>
      BY <1>1, <2>4, ConnectionChanges
    <3>1. connection.status = "connected" BY <2>1 DEF Rows, Connection
    <3>2. request[r].kind = "execution"
      <4>1. request[r].kind \in Kind BY <1>1 DEF OAuthInvariant, Request
      <4> QED BY <3>1, <4>1 DEF Completes, Kind
    <3>3. attempts[vault[request[r].secret].attempt].kind = request[r].kind
      BY <1>1 DEF OAuthInvariant, Knows, Busy, Holding
    <3> QED BY <3>2, <3>3
  <2> QED BY <2>3, <2>4
<1>2. OAuthInvariant /\ [Next]_vars => [Keeps]_vars
  <2> HIDE DEF Keeps
  <2> QED BY <1>1
<1>3. Spec => [][Keeps]_vars
  <2> HIDE DEF Keeps
  <2> QED BY <1>2, Invariant, PTL DEF Spec
<1> QED BY <1>3 DEF NoDowngrade

-----------------------------------------------------------------------------
(* As long as no answer is lost: the custody of the secrets.               *)

\* No two requests hold one secret.
LEMMA HeldOnce ==
  ASSUME OAuthInvariant, NEW r \in Requests, NEW s \in Requests, r # s,
         request[r].pc \in Holding, request[s].pc \in Holding
  PROVE  request[r].secret # request[s].secret
BY DEF OAuthInvariant, Knows, Busy

\* Numbers with different images are no more than their images.
LEMMA NoMoreThanImages ==
  ASSUME NEW n \in Nat, NEW m \in Nat, NEW f \in [1..n -> 1..m],
         \A s, t \in 1..n : f[s] = f[t] => s = t
  PROVE  n <= m
<1>1. \A k \in Nat : IsFiniteSet(1..k) /\ Cardinality(1..k) = k
  <2> SUFFICES ASSUME NEW k \in Nat PROVE IsFiniteSet(1..k) /\ Cardinality(1..k) = k OBVIOUS
  <2>1. 1 \in Int /\ k \in Int OBVIOUS
  <2>2. IsFiniteSet(1..k) /\ Cardinality(1..k) = IF 1 > k THEN 0 ELSE k - 1 + 1
    BY <2>1, FS_Interval
  <2> QED BY <2>2
<1>2. /\ IsFiniteSet(1..n) /\ Cardinality(1..n) = n
      /\ IsFiniteSet(1..m) /\ Cardinality(1..m) = m
  BY <1>1
<1>3. ~ (m < n) BY <1>2, FS_PigeonHole
<1> QED BY <1>3

\* There is room for every secret, before and after a step: no attempt has two.
LEMMA SecretsFit ==
  /\ Rows => DOMAIN vault \subseteq Secrets
  /\ Rows' => DOMAIN vault' \subseteq Secrets
<1> DEFINE Fit(v, a) ==
      (/\ v \in Seq(Secret) /\ a \in Seq(Attempt) /\ Len(a) <= MaxAttempts
       /\ \A s \in DOMAIN v : v[s].attempt \in DOMAIN a
       /\ \A s, t \in DOMAIN v : v[s].attempt = v[t].attempt => s = t)
      => DOMAIN v \subseteq Secrets
<1>1. ASSUME NEW v \in Seq(Secret), NEW a \in Seq(Attempt), Len(a) <= MaxAttempts,
             \A s \in DOMAIN v : v[s].attempt \in DOMAIN a,
             \A s, t \in DOMAIN v : v[s].attempt = v[t].attempt => s = t
      PROVE  DOMAIN v \subseteq Secrets
  <2> PICK n : n = Len(v) OBVIOUS
  <2> PICK m : m = Len(a) OBVIOUS
  <2>1. n \in Nat /\ m \in Nat /\ DOMAIN v = 1..n /\ DOMAIN a = 1..m
    BY LenProperties
  <2> DEFINE f == [s \in 1..n |-> v[s].attempt]
  <2>2. f \in [1..n -> 1..m] BY <1>1, <2>1
  <2>3. \A s, t \in 1..n : f[s] = f[t] => s = t BY <1>1, <2>1
  <2> HIDE DEF f
  <2>4. n <= m BY <2>1, <2>2, <2>3, NoMoreThanImages
  <2> QED BY <1>1, <2>1, <2>4, AttemptBound DEF Secrets
<1>2. Fit(vault, attempts) /\ Fit(vault', attempts') BY <1>1
<1> HIDE DEF Fit
<1>3. Rows => DOMAIN vault \subseteq Secrets BY <1>2 DEF Fit, Rows, OneCredentialPerAttempt
<1>4. Rows' => DOMAIN vault' \subseteq Secrets BY <1>2 DEF Fit, Rows, OneCredentialPerAttempt
<1> QED BY <1>3, <1>4

LEMMA CustodyIs ==
  ASSUME NEW s
  PROVE  /\ s \notin DOMAIN vault => CustodyOf(s) = "none"
         /\ s \in DOMAIN vault /\ vault[s].revoked => CustodyOf(s) = "revoked"
         /\ s \in DOMAIN vault /\ ~vault[s].revoked /\ s \in compensations
              => CustodyOf(s) = "owed"
         /\ s \in DOMAIN vault /\ ~vault[s].revoked /\ s \notin compensations /\ s \in used
              => CustodyOf(s) = IF connection.credential = s THEN "used" ELSE "replaced"
         /\ s \in DOMAIN vault /\ ~vault[s].revoked /\ s \notin compensations /\ s \notin used
              => CustodyOf(s) = IF \E r \in Requests : Holds(r, s) THEN "held" ELSE "abandoned"
BY DEF CustodyOf

\* The custody of a secret after a step.
LEMMA CustodyBecomes ==
  ASSUME NEW s
  PROVE  /\ s \notin DOMAIN vault' => CustodyOf(s)' = "none"
         /\ s \in DOMAIN vault' /\ vault'[s].revoked => CustodyOf(s)' = "revoked"
         /\ s \in DOMAIN vault' /\ ~vault'[s].revoked /\ s \in compensations'
              => CustodyOf(s)' = "owed"
         /\ s \in DOMAIN vault' /\ ~vault'[s].revoked /\ s \notin compensations' /\ s \in used'
              => CustodyOf(s)' = IF connection'.credential = s THEN "used" ELSE "replaced"
         /\ s \in DOMAIN vault' /\ ~vault'[s].revoked /\ s \notin compensations' /\ s \notin used'
              => CustodyOf(s)' = IF \E r \in Requests : Holds(r, s)' THEN "held" ELSE "abandoned"
BY DEF CustodyOf

\* A secret whose rows and holder stay keeps its custody.
LEMMA CustodyStays ==
  ASSUME NEW s,
         s \in DOMAIN vault' <=> s \in DOMAIN vault,
         s \in DOMAIN vault => (vault'[s].revoked <=> vault[s].revoked),
         s \in compensations' <=> s \in compensations,
         s \in used' <=> s \in used,
         connection'.credential = s <=> connection.credential = s,
         (\E r \in Requests : Holds(r, s))' <=> (\E r \in Requests : Holds(r, s))
  PROVE  CustodyOf(s)' = CustodyOf(s)
<1>1. CASE s \notin DOMAIN vault BY <1>1, CustodyIs, CustodyBecomes
<1>2. CASE s \in DOMAIN vault /\ vault[s].revoked BY <1>2, CustodyIs, CustodyBecomes
<1>3. CASE s \in DOMAIN vault /\ ~vault[s].revoked /\ s \in compensations
  BY <1>3, CustodyIs, CustodyBecomes
<1>4. CASE s \in DOMAIN vault /\ ~vault[s].revoked /\ s \notin compensations /\ s \in used
  BY <1>4, CustodyIs, CustodyBecomes
<1>5. CASE s \in DOMAIN vault /\ ~vault[s].revoked /\ s \notin compensations /\ s \notin used
  BY <1>5, CustodyIs, CustodyBecomes
<1> QED BY <1>1, <1>2, <1>3, <1>4, <1>5

\* No secret changes its custody, but k, which goes from one to the other.
Unmoved == \A s \in Secrets : CustodyOf(s)' = CustodyOf(s)
Becomes(k, from, to) ==
  /\ k \in Secrets /\ CustodyOf(k) = from /\ CustodyOf(k)' = to
  /\ \A s \in Secrets \ {k} : CustodyOf(s)' = CustodyOf(s)

\* What a step of request r does to who holds what.
LEMMA HoldersOfOthers ==
  ASSUME OAuthInvariant, NEW r \in Requests, NEW q, request' = [request EXCEPT ![r] = q]
  PROVE  /\ request'[r] = q
         /\ \A t \in Requests \ {r} : request'[t] = request[t]
         /\ \A t \in Requests \ {r} : \A s : Holds(t, s)' <=> Holds(t, s)
<1>1. request'[r] = q /\ \A t \in Requests \ {r} : request'[t] = request[t]
  BY DEF OAuthInvariant
<1>2. \A t \in Requests \ {r} : \A s : Holds(t, s)' <=> Holds(t, s) BY <1>1 DEF Holds
<1> QED BY <1>1, <1>2

\* A step in which a request keeps the secret it holds, or keeps to hold none.
LEMMA QuietStep ==
  ASSUME OAuthInvariant, CustodyInvariant, NEW r \in Requests, NEW q,
         request' = [request EXCEPT ![r] = q],
         UNCHANGED <<connection, vault, compensations, used>>,
         \/ request[r].pc \notin Holding /\ q.pc \notin Holding
         \/ request[r].pc \in Holding /\ q.pc \in Holding /\ q.secret = request[r].secret
  PROVE  CustodyInvariant' /\ Unmoved
<1>1. /\ request'[r] = q
      /\ \A t \in Requests \ {r} : request'[t] = request[t]
      /\ \A t \in Requests \ {r} : \A s : Holds(t, s)' <=> Holds(t, s)
  BY HoldersOfOthers
<1>2. \A s : Holds(r, s)' <=> Holds(r, s) BY <1>1 DEF Holds, Holding
<1>3. \A s : (\E t \in Requests : Holds(t, s))' <=> (\E t \in Requests : Holds(t, s))
  BY <1>1, <1>2
<1>4. Unmoved
  <2> SUFFICES ASSUME NEW s \in Secrets PROVE CustodyOf(s)' = CustodyOf(s) BY DEF Unmoved
  <2> QED BY <1>3, CustodyStays
<1>5. CustodyInvariant' BY <1>1 DEF CustodyInvariant
<1> QED BY <1>4, <1>5

\* A request ends that holds a secret: it is revoked, recorded or left behind.
LEMMA ReleaseStep ==
  ASSUME OAuthInvariant, CustodyInvariant, NEW r \in Requests, Return(r),
         request[r].pc \in Holding, NEW k, k = request[r].secret,
         UNCHANGED <<connection, used>>, DOMAIN vault' = DOMAIN vault,
         \A s \in DOMAIN vault : s # k => (vault'[s].revoked <=> vault[s].revoked),
         \A s : s # k => (s \in compensations' <=> s \in compensations)
  PROVE  /\ CustodyInvariant'
         /\ Becomes(k, "held", CustodyOf(k)')
         /\ vault'[k].revoked => CustodyOf(k)' = "revoked"
         /\ ~vault'[k].revoked /\ k \in compensations' => CustodyOf(k)' = "owed"
         /\ ~vault'[k].revoked /\ k \notin compensations' => CustodyOf(k)' = "abandoned"
<1>1. /\ request'[r] = Idle
      /\ \A t \in Requests \ {r} : request'[t] = request[t]
      /\ \A t \in Requests \ {r} : \A s : Holds(t, s)' <=> Holds(t, s)
  BY HoldersOfOthers DEF Return
<1>2. Idle.pc \notin Holding BY DEF Idle, Holding
<1>3. Rows /\ k \in DOMAIN vault /\ k \in Secrets
  BY SecretsFit DEF OAuthInvariant, Knows
<1>4. k \notin used /\ k \notin compensations /\ ~vault[k].revoked BY DEF CustodyInvariant
<1>5. Holds(r, k) /\ \A t \in Requests \ {r} : ~Holds(t, k)
  BY HeldOnce DEF Holds, Holding
<1>6. \A s : ~Holds(r, s)' BY <1>1, <1>2 DEF Holds, Holding
<1>7. ~ \E t \in Requests : Holds(t, k)' BY <1>1, <1>5, <1>6
<1>8. CustodyOf(k) = "held" BY <1>3, <1>4, <1>5, CustodyIs
<1>9. ASSUME NEW s \in Secrets \ {k} PROVE CustodyOf(s)' = CustodyOf(s)
  <2>1. ~Holds(r, s) BY DEF Holds
  <2>2. (\E t \in Requests : Holds(t, s))' <=> (\E t \in Requests : Holds(t, s))
    BY <1>1, <1>6, <2>1
  <2> QED BY <2>2, CustodyStays
<1>10. Becomes(k, "held", CustodyOf(k)') BY <1>3, <1>8, <1>9 DEF Becomes
<1>11. /\ vault'[k].revoked => CustodyOf(k)' = "revoked"
       /\ ~vault'[k].revoked /\ k \in compensations' => CustodyOf(k)' = "owed"
       /\ ~vault'[k].revoked /\ k \notin compensations' => CustodyOf(k)' = "abandoned"
  BY <1>3, <1>4, <1>7, CustodyBecomes
<1>12. CustodyInvariant'
  <2>1. \A s \in used' : ~vault'[s].revoked /\ s \notin compensations'
    BY <1>3, <1>4 DEF CustodyInvariant, OAuthInvariant, Rows
  <2>2. ASSUME NEW t \in Requests, request'[t].pc \in Holding
        PROVE  /\ request'[t].secret \notin used' /\ request'[t].secret \notin compensations'
               /\ ~vault'[request'[t].secret].revoked
    <3>1. t # r BY <1>1, <1>2, <2>2
    <3>2. request'[t] = request[t] BY <1>1, <3>1
    <3>3. request[t].secret # k /\ request[t].secret \in DOMAIN vault
      BY <2>2, <3>1, <3>2, HeldOnce DEF OAuthInvariant, Knows
    <3> QED BY <2>2, <3>2, <3>3 DEF CustodyInvariant
  <2> QED BY <2>1, <2>2 DEF CustodyInvariant
<1> QED BY <1>10, <1>11, <1>12

\* A secret is put in use, and what was in use is replaced.
Uses(k) ==
  /\ k \in Secrets /\ CustodyOf(k) = "held" /\ CustodyOf(k)' = "used"
  /\ \A s \in Secrets \ {k} :
       CustodyOf(s)' = IF CustodyOf(s) = "used" THEN "replaced" ELSE CustodyOf(s)

LEMMA StoreCustody ==
  ASSUME OAuthInvariant, OAuthInvariant', CustodyInvariant, "lost" \notin Faults,
         NEW r \in Requests, Store(r)
  PROVE  /\ CustodyInvariant'
         /\ Unmoved \/ \E k \in Secrets : Becomes(k, "none", "held")
<1> PICK q : q = request[r] OBVIOUS
<1>1. Rows /\ Rows' /\ q \in Request /\ q.pc = "storing" BY DEF OAuthInvariant, Store
<1>2. UNCHANGED <<connection, attempts, compensations, used>> BY DEF Store
<1>3. CASE UNCHANGED vault /\ Return(r)
  <2>1. Idle.pc \notin Holding /\ q.pc \notin Holding BY <1>1 DEF Idle, Holding
  <2> QED BY <1>2, <1>3, <2>1, QuietStep DEF Return
<1>4. CASE /\ vault' = Append(vault, NewSecret(q.attempt))
           /\ request' = [request EXCEPT ![r].pc = "connecting", ![r].secret = Len(vault')]
  <2> PICK n : n = Len(vault) OBVIOUS
  <2> PICK k : k = n + 1 OBVIOUS
  <2> DEFINE next == [q EXCEPT !.pc = "connecting", !.secret = k]
  <2>1. /\ n \in Nat /\ Len(vault') = k /\ DOMAIN vault' = 1..k /\ DOMAIN vault = 1..n
        /\ vault'[k].revoked = FALSE /\ \A s \in 1..n : vault'[s] = vault[s]
    <3>1. faults' \subseteq FaultAt BY <1>1 DEF Rows
    <3> QED BY <1>1, <1>2, <1>4, <3>1, SecretStored
  <2>2. k \in Nat /\ k \in DOMAIN vault' /\ k \notin DOMAIN vault BY <2>1
  <2>3. request' = [request EXCEPT ![r] = next] BY <1>4, <2>1
  <2>4. next.pc = "connecting" /\ next.secret = k
    <3> HIDE <1>4
    <3> QED BY <1>1 DEF Request
  <2> HIDE DEF next
  <2>5. /\ request'[r] = next
        /\ \A t \in Requests \ {r} : request'[t] = request[t]
        /\ \A t \in Requests \ {r} : \A s : Holds(t, s)' <=> Holds(t, s)
    BY <2>3, HoldersOfOthers
  <2>6. \A s : Holds(r, s)' <=> s = k BY <2>4, <2>5 DEF Holds
  <2>7. \A s : ~Holds(r, s) BY <1>1 DEF Holds
  <2>8. k \notin used /\ k \notin compensations /\ k \in Secrets /\ connection.credential # k
    <3>1. k \in Secrets BY <1>1, <2>2, SecretsFit
    <3> QED BY <1>1, <2>1, <2>2, <3>1 DEF Rows
  <2>9. CustodyOf(k) = "none" BY <2>2, CustodyIs
  <2>10. CustodyOf(k)' = "held"
    BY <1>2, <2>1, <2>2, <2>6, <2>8, CustodyBecomes
  <2>11. ASSUME NEW s \in Secrets \ {k} PROVE CustodyOf(s)' = CustodyOf(s)
    <3>1. s \in DOMAIN vault' <=> s \in DOMAIN vault BY <2>1 DEF Secrets
    <3>2. s \in DOMAIN vault => vault'[s] = vault[s] BY <2>1
    <3>3. (\E t \in Requests : Holds(t, s))' <=> (\E t \in Requests : Holds(t, s))
      BY <2>5, <2>6, <2>7
    <3> QED BY <1>2, <3>1, <3>2, <3>3, CustodyStays
  <2>12. Becomes(k, "none", "held") BY <2>8, <2>9, <2>10, <2>11 DEF Becomes
  <2>13. CustodyInvariant'
    <3>1. \A s \in used' : ~vault'[s].revoked /\ s \notin compensations'
      BY <1>1, <1>2, <2>1 DEF CustodyInvariant, Rows
    <3>2. ASSUME NEW t \in Requests, request'[t].pc \in Holding
          PROVE  /\ request'[t].secret \notin used' /\ request'[t].secret \notin compensations'
                 /\ ~vault'[request'[t].secret].revoked
      <4>1. CASE t = r BY <1>2, <2>1, <2>4, <2>5, <2>8, <4>1
      <4>2. CASE t # r
        <5>1. request'[t] = request[t] BY <2>5, <4>2
        <5>2. request[t].secret \in 1..n
          BY <2>1, <3>2, <5>1 DEF OAuthInvariant, Knows
        <5> QED BY <1>2, <2>1, <3>2, <5>1, <5>2 DEF CustodyInvariant
      <4> QED BY <4>1, <4>2
    <3> QED BY <1>2, <3>1, <3>2 DEF CustodyInvariant
  <2> QED BY <2>8, <2>12, <2>13
<1>5. ~Happens(r, "lost") BY DEF Happens
<1> QED BY <1>3, <1>4, <1>5 DEF Store

LEMMA ConnectCustody ==
  ASSUME OAuthInvariant, CustodyInvariant, "lost" \notin Faults,
         NEW r \in Requests, Connect(r)
  PROVE  /\ CustodyInvariant'
         /\ Unmoved \/ \E k \in Secrets : Uses(k)
<1> PICK q : q = request[r] OBVIOUS
<1>1. /\ Rows /\ q \in Request /\ q.pc = "connecting" /\ q.pc \in Holding
      /\ request \in [Requests -> Request] /\ UNCHANGED <<attempts, vault, compensations>>
  BY DEF OAuthInvariant, Connect, Holding
<1>2. CASE Goto(r, "revoking") /\ UNCHANGED <<connection, used>>
  <2> DEFINE next == [q EXCEPT !.pc = "revoking"]
  <2>1. next.pc = "revoking" /\ next.secret = q.secret BY <1>1, GoingOn DEF PC
  <2>2. request' = [request EXCEPT ![r] = next] BY <1>1, <1>2, GotoIs
  <2> HIDE DEF next
  <2>3. next.pc \in Holding BY <2>1 DEF Holding
  <2> QED BY <1>1, <1>2, <2>1, <2>2, <2>3, QuietStep
<1>3. CASE /\ Return(r)
           /\ connection' = [status |-> "connected", credential |-> q.secret]
           /\ used' = used \cup {q.secret}
  <2> PICK k : k = q.secret OBVIOUS
  <2>0. connection'.credential = k /\ used' = used \cup {k} BY <1>3
  <2>1. /\ request'[r] = Idle
        /\ \A t \in Requests \ {r} : request'[t] = request[t]
        /\ \A t \in Requests \ {r} : \A s : Holds(t, s)' <=> Holds(t, s)
    BY <1>3, HoldersOfOthers DEF Return
  <2>2. k \in DOMAIN vault /\ k \in Secrets
    <3>1. k \in DOMAIN vault BY <1>1 DEF OAuthInvariant, Knows
    <3> QED BY <1>1, <3>1, SecretsFit
  <2>3. k \notin used /\ k \notin compensations /\ ~vault[k].revoked /\ Holds(r, k)
    BY <1>1 DEF CustodyInvariant, Holds
  <2>4. CustodyOf(k) = "held" BY <2>2, <2>3, CustodyIs
  <2>5. CustodyOf(k)' = "used" BY <1>1, <2>0, <2>2, <2>3, CustodyBecomes
  <2>6. ASSUME NEW s \in Secrets \ {k}
        PROVE  CustodyOf(s)' = IF CustodyOf(s) = "used" THEN "replaced" ELSE CustodyOf(s)
    <3>1. CASE connection.credential = s
      <4>1. s \in Nat \ {0} BY DEF Secrets
      <4>2. s \in used /\ s \in DOMAIN vault BY <1>1, <3>1, <4>1 DEF CustodyInvariant, Rows
      <4>3. ~vault[s].revoked /\ s \notin compensations BY <4>2 DEF CustodyInvariant
      <4>4. CustodyOf(s) = "used" BY <3>1, <4>2, <4>3, CustodyIs
      <4>5. CustodyOf(s)' = "replaced" BY <1>1, <2>0, <4>2, <4>3, CustodyBecomes
      <4> QED BY <4>4, <4>5
    <3>2. CASE connection.credential # s
      <4>1. CustodyOf(s) # "used"
        <5>1. CASE s \notin DOMAIN vault BY <5>1, CustodyIs
        <5>2. CASE s \in DOMAIN vault /\ vault[s].revoked BY <5>2, CustodyIs
        <5>3. CASE s \in DOMAIN vault /\ ~vault[s].revoked /\ s \in compensations
          BY <5>3, CustodyIs
        <5>4. CASE s \in DOMAIN vault /\ ~vault[s].revoked /\ s \notin compensations /\ s \in used
          BY <3>2, <5>4, CustodyIs
        <5>5. CASE s \in DOMAIN vault /\ ~vault[s].revoked /\ s \notin compensations /\ s \notin used
          BY <5>5, CustodyIs
        <5> QED BY <5>1, <5>2, <5>3, <5>4, <5>5
      <4>2. ~Holds(r, s) /\ ~Holds(r, s)'
        <5>1. Idle.pc = "idle" BY DEF Idle
        <5> QED BY <2>1, <5>1 DEF Holds
      <4>3. (\E t \in Requests : Holds(t, s))' <=> (\E t \in Requests : Holds(t, s))
        BY <2>1, <4>2
      <4>4. CustodyOf(s)' = CustodyOf(s) BY <1>1, <2>0, <3>2, <4>3, CustodyStays
      <4> QED BY <4>1, <4>4
    <3> QED BY <3>1, <3>2
  <2>7. Uses(k) BY <2>2, <2>4, <2>5, <2>6 DEF Uses
  <2>8. CustodyInvariant'
    <3>1. Idle.pc \notin Holding BY DEF Idle, Holding
    <3>2. ASSUME NEW t \in Requests, request'[t].pc \in Holding
          PROVE  /\ request'[t].secret \notin used' /\ request'[t].secret \notin compensations'
                 /\ ~vault'[request'[t].secret].revoked
      <4>1. t # r /\ request'[t] = request[t] BY <2>1, <3>1, <3>2
      <4>2. request[t].secret # k BY <1>1, <3>2, <4>1, HeldOnce
      <4> QED BY <1>1, <2>0, <3>2, <4>1, <4>2 DEF CustodyInvariant
    <3> QED BY <1>1, <2>0, <2>3, <3>2 DEF CustodyInvariant
  <2> QED BY <2>2, <2>7, <2>8
<1>4. ~Happens(r, "lost") BY DEF Happens
<1> QED BY <1>2, <1>3, <1>4 DEF Connect

LEMMA InitCustody == Init => CustodyInvariant
<1> SUFFICES ASSUME Init PROVE CustodyInvariant OBVIOUS
<1>1. \A r \in Requests : request[r].pc \notin Holding BY DEF Init, Idle, Holding
<1>2. used = {} /\ connection.credential = 0 BY DEF Init
<1> QED BY <1>1, <1>2 DEF CustodyInvariant

\* Every step that no lost answer disturbs, seen as a step of custody.
LEMMA NextCustody ==
  ASSUME OAuthInvariant, OAuthInvariant', CustodyInvariant, "lost" \notin Faults, [Next]_vars
  PROVE  /\ CustodyInvariant'
         /\ \/ Unmoved
            \/ \E k \in Secrets :
                 \/ Becomes(k, "none", "held") \/ Uses(k)
                 \/ \E end \in {"revoked", "owed", "abandoned"} : Becomes(k, "held", end)
<1>0. \A r : ~Happens(r, "lost") BY DEF Happens
<1>1. CASE UNCHANGED vars
  <2>1. \A s : (\E t \in Requests : Holds(t, s))' <=> (\E t \in Requests : Holds(t, s))
    BY <1>1 DEF vars, Holds
  <2>2. Unmoved BY <1>1, <2>1, CustodyStays DEF vars, Unmoved
  <2> QED BY <1>1, <2>2 DEF vars, CustodyInvariant
<1>2. ASSUME NEW r \in Requests, NEW q, request' = [request EXCEPT ![r] = q],
             q.pc \notin Holding, request[r].pc \notin Holding,
             UNCHANGED <<connection, vault, compensations, used>>
      PROVE  CustodyInvariant' /\ Unmoved
  BY <1>2, QuietStep
<1>3. ASSUME NEW r \in Requests, NEW kind \in Kind, ReadConnection(r, kind)
      PROVE  CustodyInvariant' /\ Unmoved
  <2> DEFINE q == [Idle EXCEPT !.pc = "starting", !.kind = kind]
  <2>1. q.pc \notin Holding BY DEF Idle, Holding
  <2>2. /\ request' = [request EXCEPT ![r] = q] /\ request[r].pc \notin Holding
        /\ UNCHANGED <<connection, vault, compensations, used>>
    BY <1>3 DEF ReadConnection, Holding
  <2> HIDE DEF q
  <2> QED BY <1>2, <2>1, <2>2
<1>4. ASSUME NEW r \in Requests, NEW a \in DOMAIN attempts, Callback(r, a)
      PROVE  CustodyInvariant' /\ Unmoved
  <2> PICK pc \in {"consuming", "cancelling"} :
        request' = [request EXCEPT ![r] = [Idle EXCEPT !.pc = pc, !.attempt = a,
                                                      !.kind = attempts[a].kind]]
    BY <1>4 DEF Callback
  <2> PICK kind : kind = attempts[a].kind OBVIOUS
  <2> DEFINE q == [Idle EXCEPT !.pc = pc, !.attempt = a, !.kind = kind]
  <2>1. q.pc \notin Holding BY DEF Idle, Holding
  <2>2. /\ request' = [request EXCEPT ![r] = q] /\ request[r].pc \notin Holding
        /\ UNCHANGED <<connection, vault, compensations, used>>
    BY <1>4 DEF Callback, Holding
  <2> HIDE DEF q
  <2> QED BY <1>2, <2>1, <2>2
<1>5. ASSUME NEW r \in Requests, InsertAttempt(r) \/ Consume(r) \/ Exchange(r)
      PROVE  CustodyInvariant' /\ Unmoved
  <2> PICK q : q = request[r] OBVIOUS
  <2>1. /\ q \in Request /\ request \in [Requests -> Request] /\ q.pc \notin Holding
        /\ UNCHANGED <<connection, vault, compensations, used>>
    BY <1>5 DEF OAuthInvariant, InsertAttempt, Consume, Exchange, Holding
  <2>2. CASE Return(r)
    <3>1. Idle.pc \notin Holding BY DEF Idle, Holding
    <3> QED BY <1>2, <2>1, <2>2, <3>1 DEF Return
  <2>3. ASSUME NEW pc \in {"exchanging", "storing"}, Goto(r, pc)
        PROVE  CustodyInvariant' /\ Unmoved
    <3> DEFINE next == [q EXCEPT !.pc = pc]
    <3>1. next.pc \notin Holding BY <2>1, GoingOn DEF PC, Holding
    <3>2. request' = [request EXCEPT ![r] = next] BY <2>1, <2>3, GotoIs
    <3> HIDE DEF next
    <3> QED BY <1>2, <2>1, <3>1, <3>2
  <2> QED BY <1>5, <2>2, <2>3 DEF InsertAttempt, Consume, Exchange
<1>6. ASSUME NEW a \in DOMAIN attempts, Expire(a) PROVE CustodyInvariant' /\ Unmoved
  <2>1. UNCHANGED <<connection, vault, compensations, request, used>> BY <1>6 DEF Expire
  <2>2. \A s : (\E t \in Requests : Holds(t, s))' <=> (\E t \in Requests : Holds(t, s))
    BY <2>1 DEF Holds
  <2>3. Unmoved BY <2>1, <2>2, CustodyStays DEF Unmoved
  <2> QED BY <2>1, <2>3 DEF CustodyInvariant
<1>7. ASSUME NEW r \in Requests, Revoke(r) \/ Record(r) \/ Crash(r)
      PROVE  /\ CustodyInvariant'
             /\ \/ Unmoved
                \/ \E k \in Secrets : \E end \in {"revoked", "owed", "abandoned"} :
                     Becomes(k, "held", end)
  <2> PICK q : q = request[r] OBVIOUS
  <2> PICK k : k = q.secret OBVIOUS
  <2>1. /\ Rows /\ q \in Request /\ request \in [Requests -> Request]
        /\ UNCHANGED <<connection, attempts, used>>
    BY <1>7 DEF OAuthInvariant, Revoke, Record, Crash
  <2>2. CASE q.pc \notin Holding
    <3>1. Idle.pc \notin Holding BY DEF Idle, Holding
    <3> QED BY <1>2, <1>7, <2>2, <3>1 DEF Revoke, Record, Crash, Return, Holding
  <2>3. CASE q.pc \in Holding /\ Goto(r, "recording") /\ UNCHANGED <<vault, compensations>>
    <3> DEFINE next == [q EXCEPT !.pc = "recording"]
    <3>1. next.pc \in Holding /\ next.secret = k BY <2>1, GoingOn DEF PC, Holding
    <3>2. request' = [request EXCEPT ![r] = next] BY <2>1, <2>3, GotoIs
    <3> HIDE DEF next
    <3> QED BY <2>1, <2>3, <3>1, <3>2, QuietStep
  <2>4. CASE q.pc \in Holding /\ Return(r)
    <3>1. k \in DOMAIN vault BY <2>4 DEF OAuthInvariant, Knows
    <3>2. /\ DOMAIN vault' = DOMAIN vault
          /\ \A s \in DOMAIN vault : s # k => (vault'[s].revoked <=> vault[s].revoked)
      <4>1. CASE UNCHANGED vault BY <4>1
      <4>2. CASE ~UNCHANGED vault
        <5>1. vault' = [vault EXCEPT ![k].revoked = TRUE]
          BY <1>7, <4>2 DEF Revoke, Record, Crash
        <5> QED BY <3>1, <5>1
      <4> QED BY <4>1, <4>2
    <3>3. \A s : s # k => (s \in compensations' <=> s \in compensations)
      BY <1>7 DEF Revoke, Record, Crash
    <3>4. /\ CustodyInvariant'
          /\ Becomes(k, "held", CustodyOf(k)')
          /\ vault'[k].revoked => CustodyOf(k)' = "revoked"
          /\ ~vault'[k].revoked /\ k \in compensations' => CustodyOf(k)' = "owed"
          /\ ~vault'[k].revoked /\ k \notin compensations' => CustodyOf(k)' = "abandoned"
      BY <2>1, <2>4, <3>2, <3>3, ReleaseStep
    <3>5. CustodyOf(k)' \in {"revoked", "owed", "abandoned"} BY <3>4
    <3>6. k \in Secrets BY <3>4 DEF Becomes
    <3> QED BY <3>4, <3>5, <3>6
  <2>5. \/ q.pc \notin Holding \/ Return(r)
        \/ Goto(r, "recording") /\ UNCHANGED <<vault, compensations>>
    BY <1>0, <1>7 DEF Revoke, Record, Crash
  <2> QED BY <2>2, <2>3, <2>4, <2>5
<1>8. ASSUME NEW r \in Requests, Store(r)
      PROVE  CustodyInvariant' /\ (Unmoved \/ \E k \in Secrets : Becomes(k, "none", "held"))
  BY <1>8, StoreCustody
<1>9. ASSUME NEW r \in Requests, Connect(r)
      PROVE  CustodyInvariant' /\ (Unmoved \/ \E k \in Secrets : Uses(k))
  BY <1>9, ConnectCustody
<1> QED
  <2>1. \/ UNCHANGED vars
        \/ \E r \in Requests : \E kind \in Kind : ReadConnection(r, kind)
        \/ \E r \in Requests : \E a \in DOMAIN attempts : Callback(r, a)
        \/ \E r \in Requests : InsertAttempt(r) \/ Consume(r) \/ Exchange(r)
        \/ \E a \in DOMAIN attempts : Expire(a)
        \/ \E r \in Requests : Revoke(r) \/ Record(r) \/ Crash(r)
        \/ \E r \in Requests : Store(r)
        \/ \E r \in Requests : Connect(r)
    BY DEF Next, Step
  <2> QED BY <1>1, <1>3, <1>4, <1>5, <1>6, <1>7, <1>8, <1>9, <2>1

LEMMA CustodyHolds ==
  ASSUME "lost" \notin Faults
  PROVE  Spec => [](OAuthInvariant /\ CustodyInvariant)
<1>1. Init => OAuthInvariant /\ CustodyInvariant BY InitInvariant, InitCustody
<1>2. OAuthInvariant /\ CustodyInvariant /\ [Next]_vars => OAuthInvariant' /\ CustodyInvariant'
  BY NextInvariant, NextCustody
<1> QED BY <1>1, <1>2, PTL DEF Spec

\* As long as no answer is lost, the credential of the connection is one the vault still
\* gives out: no compensation of another callback revokes it (compensateCredential).
THEOREM InUseIsLive ==
  ASSUME "lost" \notin Faults
  PROVE  Spec => []CredentialInUseIsLive
<1>1. CustodyInvariant => CredentialInUseIsLive BY DEF CustodyInvariant, CredentialInUseIsLive
<1> QED BY <1>1, CustodyHolds, PTL

\* As long as no answer is lost, what the callbacks do with their secrets implements
\* CredentialCustody: every step is one of its steps or changes no custody.
THEOREM CustodyIsKept ==
  ASSUME "lost" \notin Faults
  PROVE  Spec => KeepsCustody
<1>1. Init => Abstract!Init
  <2> SUFFICES ASSUME Init PROVE \A s \in Secrets : CustodyOf(s) = "none"
    BY DEF Abstract!Init
  <2> QED BY CustodyIs DEF Init
<1>2. ASSUME OAuthInvariant, OAuthInvariant', CustodyInvariant, [Next]_vars
      PROVE  Abstract!Next \/ [s \in Secrets |-> CustodyOf(s)]' = [s \in Secrets |-> CustodyOf(s)]
  <2>1. CASE Unmoved BY <2>1 DEF Unmoved
  <2>2. ASSUME NEW k \in Secrets, Becomes(k, "none", "held") PROVE Abstract!Next
    BY <2>2 DEF Becomes, Abstract!Next, Abstract!Store
  <2>3. ASSUME NEW k \in Secrets, Uses(k) PROVE Abstract!Next
    BY <2>3 DEF Uses, Abstract!Next, Abstract!Use
  <2>4. ASSUME NEW k \in Secrets, NEW end \in {"revoked", "owed", "abandoned"},
               Becomes(k, "held", end)
        PROVE  Abstract!Next
    BY <2>4 DEF Becomes, Abstract!Next, Abstract!Release
  <2> QED BY <1>2, <2>1, <2>2, <2>3, <2>4, NextCustody
<1>3. OAuthInvariant /\ CustodyInvariant /\ OAuthInvariant' /\ [Next]_vars
        => [Abstract!Next]_([s \in Secrets |-> CustodyOf(s)])
  BY <1>2
<1> QED BY <1>1, <1>3, CustodyHolds, PTL DEF Spec, KeepsCustody, Abstract!Spec

-----------------------------------------------------------------------------
(* The secrets that are left in the vault, whatever fails.                 *)

\* What replaced a credential is an authorization for execution.  Whoever is about to
\* record a secret could not revoke it, or did without knowing.  And a secret that was
\* never in use is in custody, or its own callback let it go.
LeftInvariant ==
  /\ connection.credential = 0 => used = {}
  /\ \A s \in used : s # connection.credential => ScopeOf(connection.credential) = "execution"
  /\ \A r \in Requests : request[r].pc = "recording" =>
       \/ Struck(request[r].attempt, "revoking", "fail")
       \/ vault[request[r].secret].revoked
  /\ \A s \in DOMAIN vault \ used :
       \/ vault[s].revoked \/ s \in compensations
       \/ \E r \in Requests : Holds(r, s)
       \/ LetGo(vault[s].attempt)

\* A fault is recorded for the attempt of the request it happens to.
LEMMA FaultIsStruck ==
  ASSUME NEW r \in Requests, NEW f, Happens(r, f), request[r].pc \in Entrusted,
         NEW a, a = request[r].attempt, NEW pc, pc = request[r].pc
  PROVE  Struck(a, pc, f)'
BY DEF Happens, Struck

\* Nothing is forgotten: not what failed, what was used, revoked or recorded.
LEMMA HistoryGrows ==
  ASSUME OAuthInvariant, [Next]_vars
  PROVE  /\ faults \subseteq faults' /\ used \subseteq used'
         /\ compensations \subseteq compensations'
         /\ \A s \in DOMAIN vault : vault[s].revoked => vault'[s].revoked
<1>1. faults \subseteq faults'
  BY DEF Next, Step, Nothing, Happens, Expire, ReadConnection, Callback, InsertAttempt, Consume,
         Exchange, Store, Connect, Revoke, Record, Crash, vars
<1>2. used \subseteq used' /\ compensations \subseteq compensations'
  BY DEF Next, Step, Expire, ReadConnection, Callback, InsertAttempt, Consume,
         Exchange, Store, Connect, Revoke, Record, Crash, vars
<1>3. ASSUME NEW s \in DOMAIN vault, vault[s].revoked PROVE vault'[s].revoked
  <2>1. CASE UNCHANGED vault BY <1>3, <2>1
  <2>2. ASSUME NEW r \in Requests, Store(r), ~UNCHANGED vault PROVE vault'[s].revoked
    <3>1. Rows /\ faults' \subseteq FaultAt
      BY <2>2, FaultsRecorded DEF OAuthInvariant, Store, Fault
    <3> PICK n : n = Len(vault) OBVIOUS
    <3>2. DOMAIN vault = 1..n /\ \A v \in 1..n : vault'[v] = vault[v]
      BY <2>2, <3>1, SecretStored DEF Store
    <3> QED BY <1>3, <3>2
  <2>3. ASSUME NEW r \in Requests, Revoke(r), ~UNCHANGED vault PROVE vault'[s].revoked
    <3> PICK k : k = request[r].secret OBVIOUS
    <3>1. Rows /\ k \in DOMAIN vault BY <2>3 DEF OAuthInvariant, Knows, Revoke, Holding
    <3>2. vault' = [vault EXCEPT ![k].revoked = TRUE] BY <2>3 DEF Revoke
    <3>3. PICK e \in Secret : e.revoked = TRUE /\ vault' = [vault EXCEPT ![k] = e]
      BY <3>1, <3>2, RevokedRecord
    <3> QED BY <1>3, <3>1, <3>3
  <2> QED BY <2>1, <2>2, <2>3
       DEF Next, Step, Expire, ReadConnection, Callback, InsertAttempt, Consume,
           Exchange, Connect, Record, Crash, vars
<1> QED BY <1>1, <1>2, <1>3

\* Nothing else ends the custody of a secret.
LEMMA HolderLetsGo ==
  ASSUME OAuthInvariant, [Next]_vars, NEW r \in Requests, NEW s, Holds(r, s), ~Holds(r, s)'
  PROVE  Connect(r) \/ Revoke(r) \/ Record(r) \/ Crash(r)
<1>1. request'[r] # request[r] BY DEF Holds
<1>2. request \in [Requests -> Request] BY DEF OAuthInvariant
<1>3. request[r].pc \in Holding BY DEF Holds, Holding
<1>4. ASSUME NEW t \in Requests, Step(t) \/ Crash(t)
      PROVE  \E q : request' = [request EXCEPT ![t] = q]
  <2>1. Return(t) => request' = [request EXCEPT ![t] = Idle] BY DEF Return
  <2>2. \A pc : Goto(t, pc) => request' = [request EXCEPT ![t].pc = pc] BY DEF Goto
  <2> QED BY <1>4, <2>1, <2>2
          DEF Step, Crash, InsertAttempt, Consume, Exchange, Store, Connect, Revoke, Record
<1>5. \E t \in Requests : /\ request' # request => \E q : request' = [request EXCEPT ![t] = q]
                          /\ \/ \E kind \in Kind : ReadConnection(t, kind)
                             \/ \E a \in DOMAIN attempts : Callback(t, a)
                             \/ Step(t) \/ Crash(t)
  BY <1>1, <1>2, <1>4 DEF Next, Expire, ReadConnection, Callback, vars
<1>6. PICK t \in Requests : /\ \E q : request' = [request EXCEPT ![t] = q]
                            /\ \/ \E kind \in Kind : ReadConnection(t, kind)
                               \/ \E a \in DOMAIN attempts : Callback(t, a)
                               \/ Step(t) \/ Crash(t)
  BY <1>1, <1>5
<1>7. t = r BY <1>1, <1>2, <1>6
<1> QED BY <1>3, <1>6, <1>7
        DEF Holding, ReadConnection, Callback, Step, InsertAttempt, Consume, Exchange, Store

\* A fault that struck stays so, and with it that a callback let its secret go.
LEMMA LetGoStays ==
  ASSUME faults \subseteq faults', NEW a
  PROVE  /\ \A pc, f : Struck(a, pc, f) => Struck(a, pc, f)'
         /\ LetGo(a) => LetGo(a)'
BY DEF LetGo, Struck

\* A request that is about to record a secret was so before, or could not revoke it, or
\* revoked it and was not told.
LEMMA RecordingBegins ==
  ASSUME OAuthInvariant, [Next]_vars, NEW r \in Requests, request'[r].pc = "recording"
  PROVE  \/ request'[r] = request[r]
         \/ /\ Revoke(r) /\ ~Return(r) /\ request[r].pc = "revoking"
            /\ request'[r].attempt = request[r].attempt /\ request'[r].secret = request[r].secret
<1>1. request \in [Requests -> Request] BY DEF OAuthInvariant
<1>2. CASE request'[r] = request[r] BY <1>2
<1>3. CASE request'[r] # request[r]
  <2>1. ASSUME NEW t \in Requests, Return(t) PROVE FALSE
    BY <1>1, <1>3, <2>1 DEF Return, Idle
  <2>2. ASSUME NEW t \in Requests, NEW pc, Goto(t, pc)
        PROVE  /\ pc = "recording" /\ t = r
               /\ request'[r].attempt = request[r].attempt
               /\ request'[r].secret = request[r].secret
    BY <1>1, <1>3, <2>2 DEF Goto, Request
  <2>3. ASSUME NEW t \in Requests, \/ \E kind \in Kind : ReadConnection(t, kind)
                                   \/ \E a \in DOMAIN attempts : Callback(t, a)
        PROVE  FALSE
    BY <1>1, <1>3, <2>3 DEF ReadConnection, Callback, Idle
  <2>4. ASSUME NEW t \in Requests, Store(t) PROVE FALSE
    BY <1>1, <1>3, <2>1, <2>4 DEF Store, Request
  <2>5. PICK t \in Requests : Revoke(t)
    BY <1>3, <2>1, <2>2, <2>3, <2>4
       DEF Next, Step, Expire, InsertAttempt, Consume, Exchange, Connect, Record, Crash, vars
  <2>6. Goto(t, "recording") BY <2>1, <2>5 DEF Revoke
  <2> QED BY <2>1, <2>2, <2>5, <2>6 DEF Revoke
<1> QED BY <1>2, <1>3

\* A callback that ends with its secret completes the connection, revokes the secret,
\* records it, or lets it go.
LEMMA HolderEnds ==
  ASSUME OAuthInvariant, LeftInvariant, [Next]_vars, NEW r \in Requests, NEW s,
         Holds(r, s), ~Holds(r, s)', NEW a, a = vault[s].attempt
  PROVE  s \in used' \/ s \in compensations' \/ vault'[s].revoked \/ LetGo(a)'
<1> PICK q : q = request[r] OBVIOUS
<1>1. /\ q \in Request /\ q.secret = s /\ q.attempt = a /\ s \in DOMAIN vault
      /\ q.pc \in {"connecting", "revoking", "recording"}
      /\ request \in [Requests -> Request] /\ Rows
  BY DEF OAuthInvariant, Knows, Holds, Holding
<1>2. /\ vault[s].revoked => vault'[s].revoked
      /\ Struck(a, "revoking", "fail") => Struck(a, "revoking", "fail")'
  BY <1>1, HistoryGrows, LetGoStays
<1>3. ASSUME NEW f, Happens(r, f), NEW pc, pc = q.pc PROVE Struck(a, pc, f)'
  BY <1>1, <1>3, FaultIsStruck DEF Entrusted
<1>4. ~Goto(r, "revoking") /\ ~Goto(r, "recording")
  <2> SUFFICES ASSUME NEW pc \in {"revoking", "recording"}, Goto(r, pc) PROVE Holds(r, s)'
    OBVIOUS
  <2> DEFINE next == [q EXCEPT !.pc = pc]
  <2>1. next.pc = pc /\ next.secret = s BY <1>1, GoingOn DEF PC
  <2>2. request' = [request EXCEPT ![r] = next] BY <1>1, GotoIs
  <2> HIDE DEF next
  <2>3. request'[r] = next BY <1>1, <2>2
  <2> QED BY <2>1, <2>3 DEF Holds
<1>5. CASE Connect(r) BY <1>1, <1>4, <1>5 DEF Connect
<1>6. CASE Revoke(r)
  <2>1. vault' = [vault EXCEPT ![s].revoked = TRUE] BY <1>1, <1>4, <1>6 DEF Revoke
  <2>2. PICK e \in Secret : e.revoked = TRUE /\ vault' = [vault EXCEPT ![s] = e]
    BY <1>1, <2>1, RevokedRecord
  <2> QED BY <1>1, <2>2
<1>7. q.pc = "recording" => Struck(a, "revoking", "fail")' \/ vault'[s].revoked
  <2>1. q.pc = "recording" => Struck(a, "revoking", "fail") \/ vault[s].revoked
    BY <1>1 DEF LeftInvariant
  <2> QED BY <1>2, <2>1
<1>8. CASE Record(r)
  <2>1. s \in compensations' \/ Happens(r, "fail") BY <1>1, <1>8 DEF Record
  <2>2. q.pc = "recording" BY <1>8 DEF Record
  <2>3. Happens(r, "fail") => Struck(a, "recording", "fail")' BY <1>3, <2>2
  <2> QED BY <1>7, <2>1, <2>2, <2>3 DEF LetGo
<1>9. CASE Crash(r)
  <2>1. Happens(r, "crash") BY <1>9 DEF Crash
  <2>2. CASE q.pc = "connecting"
    <3>1. Struck(a, "connecting", "crash")' BY <1>3, <2>1, <2>2
    <3> QED BY <3>1 DEF LetGo
  <2>3. CASE q.pc = "revoking"
    <3>1. Struck(a, "revoking", "crash")' BY <1>3, <2>1, <2>3
    <3> QED BY <3>1 DEF LetGo
  <2>4. CASE q.pc = "recording"
    <3>1. Struck(a, "recording", "crash")' BY <1>3, <2>1, <2>4
    <3> QED BY <1>7, <2>4, <3>1 DEF LetGo
  <2> QED BY <1>1, <2>2, <2>3, <2>4
<1> QED BY <1>5, <1>6, <1>8, <1>9, HolderLetsGo

\* A secret that comes into the vault is held by its callback, unless the answer is lost.
LEMMA NewSecretIsHeld ==
  ASSUME OAuthInvariant, [Next]_vars, NEW s \in DOMAIN vault', s \notin DOMAIN vault,
         NEW a, a = vault'[s].attempt
  PROVE  (\E r \in Requests : Holds(r, s)') \/ LetGo(a)'
<1>1. PICK r \in Requests : Store(r) /\ vault' = Append(vault, NewSecret(request[r].attempt))
  <2>1. \A k : vault' # [vault EXCEPT ![k].revoked = TRUE] OBVIOUS
  <2> QED BY <2>1
       DEF Next, Step, Expire, ReadConnection, Callback, InsertAttempt, Consume, Exchange, Store,
           Connect, Revoke, Record, Crash, vars
<1> PICK q : q = request[r] OBVIOUS
<1> PICK n : n = Len(vault) OBVIOUS
<1>2. /\ q \in Request /\ q.pc = "storing" /\ Rows /\ request \in [Requests -> Request]
      /\ faults' \subseteq FaultAt
  BY <1>1, FaultsRecorded DEF OAuthInvariant, Store, Fault
<1>3. /\ n \in Nat /\ Len(vault') = n + 1 /\ DOMAIN vault' = 1..(n + 1) /\ DOMAIN vault = 1..n
      /\ vault'[n + 1].attempt = q.attempt
  BY <1>1, <1>2, SecretStored DEF Store
<1>4. s = n + 1 /\ a = q.attempt BY <1>3
<1>5. CASE Happens(r, "lost")
  <2>1. Struck(a, "storing", "lost")'
    BY <1>2, <1>4, <1>5, FaultIsStruck DEF Entrusted
  <2> QED BY <2>1 DEF LetGo
<1>6. CASE request' = [request EXCEPT ![r].pc = "connecting", ![r].secret = Len(vault')]
  <2>1. request'[r].pc = "connecting" /\ request'[r].secret = s
    BY <1>2, <1>3, <1>4, <1>6 DEF Request
  <2> QED BY <2>1 DEF Holds
<1>7. ~UNCHANGED vault BY <1>3
<1> QED BY <1>1, <1>5, <1>6, <1>7 DEF Store

LEMMA InitLeft == Init => LeftInvariant
<1> SUFFICES ASSUME Init PROVE LeftInvariant OBVIOUS
<1>1. used = {} /\ DOMAIN vault = {} BY DEF Init
<1>2. \A r \in Requests : request[r].pc # "recording" BY DEF Init, Idle
<1> QED BY <1>1, <1>2 DEF LeftInvariant

\* What is put in use replaces what was, and nothing else changes what is in use.
LEMMA NextReplaced ==
  ASSUME OAuthInvariant, LeftInvariant, [Next]_vars
  PROVE  /\ connection'.credential = 0 => used' = {}
         /\ \A s \in used' : s # connection'.credential
              => ScopeOf(connection.credential)' = "execution"
<1> PICK c : c = connection.credential OBVIOUS
<1>1. Rows /\ Grows BY StepGrows DEF OAuthInvariant
<1>2. CASE UNCHANGED <<connection, used>>
  <2>1. CASE c = 0 BY <1>2, <2>1 DEF LeftInvariant
  <2>2. CASE c # 0
    <3>1. c \in DOMAIN vault /\ vault[c].attempt \in DOMAIN attempts
      BY <1>1, <2>2, Lengths DEF Rows
    <3>2. ScopeOf(connection.credential)' = ScopeOf(connection.credential)
      BY <1>1, <1>2, <3>1 DEF Grows, ScopeOf
    <3> QED BY <1>2, <2>2, <3>2 DEF LeftInvariant
  <2> QED BY <2>1, <2>2
<1>3. ASSUME NEW r \in Requests, Connect(r), ~UNCHANGED <<connection, used>>
      PROVE  /\ connection'.credential = 0 => used' = {}
             /\ \A s \in used' : s # connection'.credential
                  => ScopeOf(connection.credential)' = "execution"
  <2> PICK k : k = request[r].secret OBVIOUS
  <2>1. /\ Completes(request[r].kind) /\ connection'.credential = k
        /\ used' = used \cup {k} /\ UNCHANGED <<attempts, vault>>
    BY <1>3 DEF Connect
  <2>2. /\ k \in DOMAIN vault /\ request[r].kind \in Kind
        /\ attempts[vault[k].attempt].kind = request[r].kind
    BY <1>3 DEF OAuthInvariant, Knows, Connect, Holding, Busy, Request
  <2>3. k # 0 BY <1>1, <2>2, Lengths
  <2>4. ASSUME used # {} PROVE ScopeOf(connection.credential)' = "execution"
    <3>1. connection.status = "connected"
      BY <1>1, <2>4 DEF LeftInvariant, Rows, Connection
    <3>2. request[r].kind = "execution" BY <2>1, <2>2, <3>1 DEF Completes, Kind
    <3> QED BY <2>1, <2>2, <3>2 DEF ScopeOf
  <2> QED BY <2>1, <2>3, <2>4
<1>4. UNCHANGED <<connection, used>> \/ \E r \in Requests : Connect(r)
  BY DEF Next, Step, Expire, ReadConnection, Callback, InsertAttempt, Consume, Exchange, Store,
         Revoke, Record, Crash, vars
<1> QED BY <1>2, <1>3, <1>4

LEMMA NextLeft ==
  ASSUME OAuthInvariant, LeftInvariant, [Next]_vars
  PROVE  LeftInvariant'
<1>1. /\ Grows /\ faults \subseteq faults' /\ used \subseteq used'
      /\ compensations \subseteq compensations'
      /\ \A s \in DOMAIN vault : vault[s].revoked => vault'[s].revoked
  BY StepGrows, HistoryGrows
<1>2. ASSUME NEW r \in Requests, request'[r].pc = "recording",
             NEW a, a = request'[r].attempt, NEW k, k = request'[r].secret
      PROVE  Struck(a, "revoking", "fail")' \/ vault'[k].revoked
  <2>1. CASE request'[r] = request[r]
    <3>1. k \in DOMAIN vault BY <1>2, <2>1 DEF OAuthInvariant, Knows, Holding
    <3>2. Struck(a, "revoking", "fail") \/ vault[k].revoked
      BY <1>2, <2>1 DEF LeftInvariant
    <3>3. Struck(a, "revoking", "fail") => Struck(a, "revoking", "fail")'
      BY <1>1, LetGoStays
    <3> QED BY <1>1, <3>1, <3>2, <3>3
  <2>2. CASE /\ Revoke(r) /\ ~Return(r) /\ request[r].pc = "revoking"
             /\ request'[r].attempt = request[r].attempt /\ request'[r].secret = request[r].secret
    <3>1. Rows /\ k \in DOMAIN vault BY <1>2, <2>2 DEF OAuthInvariant, Knows, Holding
    <3>2. CASE Happens(r, "fail")
      BY <1>2, <2>2, <3>2, FaultIsStruck DEF Entrusted
    <3>3. CASE vault' = [vault EXCEPT ![k].revoked = TRUE]
      <4>1. PICK e \in Secret : e.revoked = TRUE /\ vault' = [vault EXCEPT ![k] = e]
        BY <3>1, <3>3, RevokedRecord
      <4> QED BY <3>1, <4>1
    <3> QED BY <1>2, <2>2, <3>2, <3>3 DEF Revoke
  <2> QED BY <1>2, <2>1, <2>2, RecordingBegins
<1>3. ASSUME NEW s \in DOMAIN vault', s \notin used', NEW a, a = vault'[s].attempt
      PROVE  \/ vault'[s].revoked \/ s \in compensations'
             \/ \E r \in Requests : Holds(r, s)'
             \/ LetGo(a)'
  <2>1. CASE s \notin DOMAIN vault BY <1>3, <2>1, NewSecretIsHeld
  <2>2. CASE s \in DOMAIN vault
    <3>1. a = vault[s].attempt /\ s \notin used BY <1>1, <1>3, <2>2 DEF Grows
    <3>2. \/ vault[s].revoked \/ s \in compensations
          \/ \E r \in Requests : Holds(r, s)
          \/ LetGo(a)
      BY <2>2, <3>1 DEF LeftInvariant
    <3>3. CASE vault[s].revoked BY <1>1, <2>2, <3>3
    <3>4. CASE s \in compensations BY <1>1, <3>4
    <3>5. CASE LetGo(a) BY <1>1, <3>5, LetGoStays
    <3>6. ASSUME NEW r \in Requests, Holds(r, s), ~Holds(r, s)'
          PROVE  s \in compensations' \/ vault'[s].revoked \/ LetGo(a)'
      BY <1>3, <3>1, <3>6, HolderEnds
    <3> QED BY <3>2, <3>3, <3>4, <3>5, <3>6
  <2> QED BY <2>1, <2>2
<1>4. \A r \in Requests : request'[r].pc = "recording" =>
        Struck(request[r].attempt, "revoking", "fail")' \/ vault'[request'[r].secret].revoked
  BY <1>2
<1>5. \A s \in DOMAIN vault' \ used' :
        \/ vault'[s].revoked \/ s \in compensations'
        \/ \E r \in Requests : Holds(r, s)'
        \/ LetGo(vault[s].attempt)'
  BY <1>3
<1> QED BY <1>4, <1>5, NextReplaced DEF LeftInvariant

\* Whatever fails, and however often: a secret that stays in the vault without being in
\* use, held, revoked or recorded for revocation was replaced by an authorization for
\* execution (markConnected), or its own callback let it go (callback,
\* compensateCredential).
THEOREM LeftIsExplained == Spec => []SecretsLeftAreExplained
<1>1. OAuthInvariant /\ LeftInvariant => SecretsLeftAreExplained
  BY DEF OAuthInvariant, Rows, LeftInvariant, SecretsLeftAreExplained
<1>2. Init => LeftInvariant BY InitLeft
<1>3. OAuthInvariant /\ LeftInvariant /\ [Next]_vars => LeftInvariant' BY NextLeft
<1> QED BY <1>1, <1>2, <1>3, Invariant, PTL DEF Spec
=============================================================================
