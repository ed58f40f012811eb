--------------------------- MODULE OperatorAccess --------------------------
(***************************************************************************)
(* Who may do what: every operation of the operator's endpoints is         *)
(* authenticated, finds the memberships of the subject, and goes on only   *)
(* with one whose role permits it.  A package sent without a tenant is     *)
(* given to the tenant its business is resolved to.  An administrator      *)
(* (outside the program) grants, revokes, suspends and renames, and a      *)
(* deployment seeds its tenant, while requests are between two awaits.     *)
(***************************************************************************)
EXTENDS OperatorRoles, Naturals, FiniteSets

CONSTANTS
  Calls,         \* concurrent requests
  Operations,    \* bound: the operations that requests ask for
  Names,         \* display names, in the form normalizeName gives them
  Packages,      \* the ids of packages, which are those of their campaigns
  Tokens,        \* the tokens a request may bring, or an environment configure
  Environments,  \* bound: the environments a process may be started with
  MaxChanges     \* bound: changes of memberships, profiles and deployments

ASSUME NoneAssumption ==
  None \notin Tenants \cup Names \cup Tokens \cup Packages \cup Roles \cup Operations
ASSUME TenantsAssumption == IsFiniteSet(Tenants)
ASSUME ChangesAssumption == MaxChanges \in Nat

VARIABLES
  role,       \* [Tenants -> the role of the subject's active membership, or None]
  suspended,  \* the tenants whose profile is suspended
  name,       \* [Tenants -> display name]
  running,    \* the environments of the serving processes
  package,    \* [Packages -> the tenant of the stored context, or None]
  planned,    \* the packages whose campaign has an execution plan
  audited,    \* the reads of a tenant that were audited: <<request, tenant>>
  done,       \* history: the changes made, by request, operation and tenant
  call,       \* [Calls -> the local state of the request]
  past,       \* [Calls -> what was true at some moment, or all along, of the request]
  changes

store == <<package, planned, audited, done>>
directory == <<role, suspended, name, running, changes>>
accessVars == <<role, suspended, name, running, package, planned, audited, done, call,
                past, changes>>

ASSUME OperationsAssumption == Operations \subseteq DOMAIN RequiredBy

-----------------------------------------------------------------------------
(* Authentication and memberships.                                         *)

\* An environment: the subject, a digest or else a generated token, a second digest.
Environment == [subject : BOOLEAN, digest : Tokens \cup {None}, generated : Tokens \cup {None},
                secondary : Tokens \cup {None}, tenant : Tenants \cup {None},
                display : Names]

ASSUME EnvironmentsAssumption == Environments \subseteq Environment

\* The tokens an environment accepts: none when the identity is not configured.
Verifiers(e) ==
  IF e.subject
  THEN {IF e.digest # None THEN e.digest ELSE e.generated, e.secondary} \ {None}
  ELSE {}

ActiveMemberships == {t \in Tenants : role[t] # None /\ t \notin suspended}

listActiveForSubject == [t \in ActiveMemberships |-> [role |-> role[t], name |-> name[t]]]

Permits(listed, t, o) == /\ t \in DOMAIN listed
                         /\ RequiredBy[o] \in Permissions[listed[t].role]

Candidates(listed) == {t \in DOMAIN listed : Permits(listed, t, "submitAutoResolved")}

Matching(listed, business) == {t \in Candidates(listed) : listed[t].name = business}

\* The one candidate of the business's name, else the only candidate, else none.
SelectedTenant(listed, business) ==
  IF Cardinality(Matching(listed, business)) = 1 THEN Matching(listed, business)
  ELSE IF Cardinality(Candidates(listed)) = 1 THEN Candidates(listed) ELSE {}

-----------------------------------------------------------------------------
(* What was true of a request at some moment, and what was true all along. *)

CallPC == {"idle", "list", "audit", "look", "authorize", "target", "change", "plan",
           "second", "answered", "notFound", "refused"}

\* The memberships a request has listed: of some of the tenants.
Listed == UNION {[listed -> [role : Roles, name : Names]] : listed \in SUBSET Tenants}

Call == [pc : CallPC, op : Operations \cup {None}, tenant : Tenants \cup {None},
         business : Names \cup {None}, package : Packages \cup {None}, listed : Listed,
         left : SUBSET Tenants, found : SUBSET Tenants]

Past == [permitted : SUBSET Tenants, meant : SUBSET Tenants, shown : SUBSET Tenants]

NoCall == [pc |-> "idle", op |-> None, tenant |-> None, business |-> None, package |-> None,
         listed |-> <<>>, left |-> {}, found |-> {}]

Permitting(o) == {t \in ActiveMemberships : RequiredBy[o] \in Permissions[role[t]]}

\* The tenant may be meant by the business: no other has the name, or there is no other.
MayBeMeant(t, business) ==
  LET candidates == Permitting("submitAutoResolved")
  IN /\ t \in candidates
     /\ \/ name[t] = business /\ \A u \in candidates \ {t} : name[u] # business
        \/ candidates = {t}

\* A package has a status once its context is stored and a plan made of it.
HasStatus(t, p) == package[p] = t /\ p \in planned

Shows(t, p) == HasStatus(t, p) /\ t \in Permitting("getStatusAutoResolved")

Moment(q) ==
  [permitted |-> IF q.op = None THEN {} ELSE Permitting(q.op),
   meant     |-> {t \in Tenants : MayBeMeant(t, q.business)},
   shown     |-> {t \in Tenants : q.package # None /\ Shows(t, q.package)}]

Nothing == [permitted |-> {}, meant |-> {}, shown |-> {}]

\* A request that has its answer.
IsOver(q) == q.pc \in {"answered", "notFound", "refused"}

\* After every step: met at some moment of the request, shown all along.
Remember ==
  past' = [r \in Calls |->
             LET now == Moment(call[r])'
             IN IF IsOver(call[r]) THEN past[r]
                ELSE IF \/ call'[r].pc = "idle"
                        \/ call'[r].pc = "refused" /\ call[r].pc \notin {"plan", "second"}
                     THEN Nothing
                ELSE IF call[r].pc = "idle" THEN now
                ELSE [permitted |-> past[r].permitted \cup now.permitted,
                      meant     |-> past[r].meant \cup now.meant,
                      shown     |-> past[r].shown \cap now.shown]]

-----------------------------------------------------------------------------
(* The steps of a request.                                                 *)

AInit ==
  /\ role \in [Tenants -> Roles \cup {None}]
  /\ suspended = {}
  /\ name \in [Tenants -> Names]
  /\ \E e \in Environments : running = {e}
  /\ package \in [Packages -> Tenants \cup {None}]
  /\ planned \in SUBSET {p \in Packages : package[p] # None}
  /\ audited = {} /\ done = {} /\ changes = 0
  /\ call = [r \in Calls |-> NoCall]
  /\ past = [r \in Calls |-> Nothing]

At(r, pc) == call[r].pc = pc

Goes(r, local) == call' = [call EXCEPT ![r] = local]

Refuses(r) == Goes(r, [call[r] EXCEPT !.pc = "refused"])

\* authenticate, at a serving process; an unknown token or no configuration refuses.
Arrive(r, o, token) ==
  /\ At(r, "idle")
  /\ \E e \in running : token \in Verifiers(e)
  /\ \E t \in Tenants, business \in Names \cup {None}, p \in Packages :
       Goes(r, [NoCall EXCEPT
                  !.pc = IF o \in Unaddressed THEN "list" ELSE "authorize", !.op = o,
                  !.tenant = IF o \in Unaddressed THEN None ELSE t,
                  !.business = IF o = "submitAutoResolved" THEN business ELSE None,
                  !.package = IF o \in PackageOperations THEN p ELSE None])
  /\ UNCHANGED <<directory, store>>

Unauthenticated(r, o, token) ==
  /\ At(r, "idle")
  /\ \E e \in running : token \notin Verifiers(e)
  /\ Goes(r, [NoCall EXCEPT !.pc = "refused", !.op = o])
  /\ UNCHANGED <<directory, store>>

\* listTenants: the memberships are read, and then each is audited.
ListTenants(r) ==
  /\ At(r, "list")
  /\ Goes(r, [call[r] EXCEPT !.pc = "audit", !.listed = listActiveForSubject])
  /\ UNCHANGED <<directory, store>>

\* The appends run together; when one fails nothing is answered, others may be kept.
Audit(r) ==
  LET q == call[r]
      selected == SelectedTenant(q.listed, q.business)
  IN /\ At(r, "audit")
     /\ audited' = audited \cup ({r} \X DOMAIN q.listed)
     /\ CASE q.op = "listTenants" -> Goes(r, [q EXCEPT !.pc = "answered"])
          [] q.op = "getStatusAutoResolved" ->
               Goes(r, [q EXCEPT !.pc = "look", !.left = Candidates(q.listed)])
          [] OTHER -> IF selected = {} THEN Refuses(r)
                      ELSE \E t \in selected :
                             Goes(r, [q EXCEPT !.pc = "authorize", !.tenant = t])
     /\ UNCHANGED <<directory, package, planned, done>>

AuditFails(r) ==
  /\ At(r, "audit")
  /\ call[r].listed # <<>>
  /\ \E kept \in SUBSET DOMAIN call[r].listed :
       /\ kept # DOMAIN call[r].listed
       /\ audited' = audited \cup ({r} \X kept)
  /\ Refuses(r)
  /\ UNCHANGED <<directory, package, planned, done>>

\* getStatusAutoResolved asks one candidate after another.  A context without a plan, as a
\* submission leaves it that stopped in between, is not found either; any other error ends
\* the request.  (The two are read one after the other: a context that is stored and a plan
\* that is made stay, so what both readings find is there at the second.)
Look(r) ==
  LET q == call[r]
  IN /\ At(r, "look")
     /\ q.left # {}
     /\ \/ \E t \in q.left :
             Goes(r, [q EXCEPT
                        !.left = @ \ {t},
                        !.found = IF HasStatus(t, q.package) THEN @ \cup {t} ELSE @])
        \/ Refuses(r)
     /\ UNCHANGED <<directory, store>>

\* In none: not found.  In one: that tenant, once more authorized.  In more: a conflict.
Found(r) ==
  LET q == call[r]
  IN /\ At(r, "look")
     /\ q.left = {}
     /\ IF q.found = {} THEN Goes(r, [q EXCEPT !.pc = "notFound"])
        ELSE IF Cardinality(q.found) > 1 THEN Refuses(r)
        ELSE \E t \in q.found : Goes(r, [q EXCEPT !.pc = "authorize", !.tenant = t])
     /\ UNCHANGED <<directory, store>>

\* authorizedMembership and assertPermission: the memberships are read again.
Authorize(r) ==
  LET q == call[r]
  IN /\ At(r, "authorize")
     /\ IF ~Permits(listActiveForSubject, q.tenant, q.op) THEN Refuses(r)
        ELSE Goes(r, [q EXCEPT !.pc = CASE q.op \in Reads -> "answered"
                                        [] q.op = "submitAutoResolved" -> "target"
                                        [] OTHER -> "change"])
     /\ UNCHANGED <<directory, store>>

\* selectedExecutionTarget: the tenant's one usable target, or a refusal.
SelectTarget(r) ==
  /\ At(r, "target")
  /\ \/ Goes(r, [call[r] EXCEPT !.pc = "change"])
     \/ Refuses(r)
  /\ UNCHANGED <<directory, store>>

Made(r) == done' = done \cup {[by |-> r, op |-> call[r].op,
                               tenant |-> call[r].tenant]}

\* The service that does the work: it may refuse.  One operation makes the plan of a
\* context that is stored.
Change(r) ==
  LET q == call[r]
  IN /\ At(r, "change")
     /\ q.op \notin PackageOperations
     /\ Made(r)
     /\ \/ UNCHANGED planned
        \/ /\ q.op = "generateExecutionPlan"
           /\ \E p \in Packages : package[p] = q.tenant /\ planned' = planned \cup {p}
     /\ Goes(r, [q EXCEPT !.pc = IF q.op \in Twice THEN "second" ELSE "answered"])
     /\ UNCHANGED <<directory, package, audited>>

\* What follows the first change, made or not: its failure is the answer, what was
\* changed stays.
Second(r) ==
  /\ At(r, "second")
  /\ \/ Goes(r, [call[r] EXCEPT !.pc = "answered"])
     \/ Refuses(r)
  /\ UNCHANGED <<directory, store>>

\* Mutant: the id is a key within its tenant, and the last one stands for it.
StoreContextOfTheTenant(r) ==
  LET q == call[r]
  IN /\ At(r, "change")
     /\ q.op \in PackageOperations
     /\ package' = [package EXCEPT ![q.package] = q.tenant]
     /\ Made(r)
     /\ Goes(r, [q EXCEPT !.pc = "plan"])
     /\ UNCHANGED <<directory, planned, audited>>

\* persistContextVersion: a campaign's id is its package's and a key of the whole table.
StoreContext(r) ==
  LET q == call[r]
  IN /\ At(r, "change")
     /\ q.op \in PackageOperations
     /\ package[q.package] \in {None, q.tenant}
     /\ package' = [package EXCEPT ![q.package] = q.tenant]
     /\ Made(r)
     /\ Goes(r, [q EXCEPT !.pc = "plan"])
     /\ UNCHANGED <<directory, planned, audited>>

\* The plan of the context, in a statement of its own; the creative and the target follow.
GeneratePlan(r) ==
  /\ At(r, "plan")
  /\ planned' = planned \cup {call[r].package}
  /\ Goes(r, [call[r] EXCEPT !.pc = "second"])
  /\ UNCHANGED <<directory, package, audited, done>>

\* Nothing is changed, or the context is all that a submission leaves.
Fails(r) ==
  /\ At(r, "change") \/ At(r, "plan")
  /\ Refuses(r)
  /\ UNCHANGED <<directory, store>>

-----------------------------------------------------------------------------
(* The administrator and the deployments.                                  *)

Changed == changes < MaxChanges /\ changes' = changes + 1

Grant(t, as) ==
  /\ Changed
  /\ role[t] # as
  /\ role' = [role EXCEPT ![t] = as]
  /\ UNCHANGED <<suspended, name, running, store, call>>

RevokeMembership(t) ==
  /\ Changed
  /\ role[t] # None
  /\ role' = [role EXCEPT ![t] = None]
  /\ UNCHANGED <<suspended, name, running, store, call>>

\* A profile is suspended or active again, or renamed.
ChangeProfile(t) ==
  /\ Changed
  /\ \/ suspended' = (suspended \ {t}) \cup ({t} \ suspended) /\ UNCHANGED name
     \/ \E n \in Names \ {name[t]} : name' = [name EXCEPT ![t] = n] /\ UNCHANGED suspended
  /\ UNCHANGED <<role, running, store, call>>

\* start:prod: the seed of the environment, in one transaction, and then the server.
\* The process it replaces may still serve.
Deploy(e) ==
  /\ Changed
  /\ running' \in {{e}, running \cup {e}}
  /\ IF e.tenant = None THEN UNCHANGED <<role, suspended, name>>
     ELSE /\ role' = [role EXCEPT ![e.tenant] = "owner"]
          /\ suspended' = suspended \ {e.tenant}
          /\ name' = [name EXCEPT ![e.tenant] = e.display]
  /\ UNCHANGED <<store, call>>

CallStep(r) ==
  \/ \E o \in Operations, token \in Tokens \cup {None} :
        Arrive(r, o, token) \/ Unauthenticated(r, o, token)
  \/ ListTenants(r) \/ Audit(r) \/ AuditFails(r) \/ Look(r) \/ Found(r) \/ Authorize(r)
  \/ SelectTarget(r) \/ Change(r) \/ Second(r) \/ StoreContext(r)
  \/ GeneratePlan(r) \/ Fails(r)

Outside ==
  \/ \E t \in Tenants : (\E as \in Roles : Grant(t, as)) \/ RevokeMembership(t) \/ ChangeProfile(t)
  \/ \E e \in Environments : Deploy(e)

ANext == ((\E r \in Calls : CallStep(r)) \/ Outside) /\ Remember

ASpec == AInit /\ [][ANext]_accessVars

-----------------------------------------------------------------------------
(* Properties.                                                             *)

ATypeOK ==
  /\ role \in [Tenants -> Roles \cup {None}] /\ name \in [Tenants -> Names]
  /\ suspended \subseteq Tenants
  /\ running \subseteq Environments /\ changes \in 0..MaxChanges
  /\ package \in [Packages -> Tenants \cup {None}] /\ planned \subseteq Packages
  /\ audited \subseteq Calls \X Tenants
  /\ done \subseteq [by : Calls, op : Operations, tenant : Tenants]
  /\ call \in [Calls -> Call]

\* A change, or the status of a package, is only for a tenant in which the subject had, at
\* some moment of the request, an active membership whose role permits the operation
\* (authorizedMembership, assertPermission).
ChangesWerePermitted ==
  /\ \A c \in done : c.tenant \in past[c.by].permitted
  /\ \A r \in Calls :
       (At(r, "answered") /\ call[r].tenant # None)
         => call[r].tenant \in past[r].permitted

\* A package sent without a tenant is stored in one that its business could mean at some
\* moment of the request, however memberships and names change meanwhile.
PackagesWereMeant ==
  \A c \in done : c.op = "submitAutoResolved" => c.tenant \in past[c.by].meant

\* The status of a package is of the tenant that has it and its plan, and a package whose
\* status the subject could see all along is never reported as not found.  One whose
\* submission stopped before its plan is: getStatusAutoResolved takes the missing plan for
\* a missing package.
StatusIsOfItsPackage ==
  \A r \in Calls :
    call[r].op = "getStatusAutoResolved" =>
      /\ At(r, "answered") => HasStatus(call[r].tenant, call[r].package)
      /\ At(r, "notFound") => past[r].shown = {}

\* Every tenant in an answer was audited by the request that answers; the same holds of
\* the tenant a package was resolved to.
AnsweredTenantsAreAudited ==
  \A r \in Calls :
    (call[r].op \in Unaddressed /\ call[r].pc \in {"answered", "notFound", "change", "plan"})
      => \A t \in DOMAIN call[r].listed : <<r, t>> \in audited

\* Of every step: once stored a package never moves to another tenant (008: campaign_id
\* is a primary key), and once it has a plan it keeps one.
PackagesStay ==
  /\ \A p \in Packages : package[p] # None => package'[p] = package[p]
  /\ planned \subseteq planned'

\* What the access of an operator ensures (OperatorAccessService): a change is permitted to
\* the subject in the tenant it is made in, a package goes to a tenant that its business
\* could mean and stays there, its status is that of the tenant that has it, and every
\* tenant in an answer was audited, whatever is changed between the steps of a request.
AccessIsSound ==
  /\ [](/\ ATypeOK /\ ChangesWerePermitted /\ PackagesWereMeant
        /\ StatusIsOfItsPackage /\ AnsweredTenantsAreAudited)
  /\ [][PackagesStay]_accessVars

-----------------------------------------------------------------------------
(* Why they hold: what a request under way already has.                    *)

UnderWay == {"authorize", "target", "change", "plan", "second", "answered"}

\* What it needs of its arguments.
IsAddressed(r) ==
  LET q == call[r]
  IN /\ q.pc \in UnderWay => \/ q.tenant \in Tenants
                             \/ q.pc = "answered" /\ q.op = "listTenants"
     /\ (q.pc \notin {"idle", "refused"} /\ q.op \in PackageOperations)
          => q.package \in Packages
     /\ q.pc \notin {"idle", "refused"} => q.op \in Operations
     /\ q.pc \in {"list", "audit", "look"} => q.tenant = None
     /\ q.pc \in {"list", "audit"} => q.found = {}
     /\ q.pc = "look" => q.op = "getStatusAutoResolved"
     /\ q.pc = "plan" => q.op \in PackageOperations

\* Once authorized, its tenant was permitted.
IsPermitted(r) ==
  LET q == call[r]
  IN (q.pc \in UnderWay \ {"authorize"} /\ q.tenant # None) => q.tenant \in past[r].permitted

\* The tenant that will be selected, and then the one that is, was meant.
IsMeant(r) ==
  LET q == call[r]
  IN q.op = "submitAutoResolved" =>
       /\ q.pc = "audit" => SelectedTenant(q.listed, q.business) \subseteq past[r].meant
       /\ q.pc \in UnderWay => q.tenant \in past[r].meant

\* What was shown all along is still to be asked for, or found; what was found is there.
IsFound(r) ==
  LET q == call[r]
  IN q.op = "getStatusAutoResolved" =>
       /\ q.pc = "audit" => past[r].shown \subseteq Candidates(q.listed)
       /\ q.pc = "look" => /\ past[r].shown \subseteq q.left \cup q.found
                           /\ \A t \in q.found : HasStatus(t, q.package)
       /\ q.pc \in UnderWay => HasStatus(q.tenant, q.package)
       /\ q.pc = "notFound" => past[r].shown = {}

IsAudited(r) ==
  LET q == call[r]
  IN (q.op \in Unaddressed /\ q.pc \in UnderWay \cup {"look", "notFound"})
       => \A t \in DOMAIN q.listed : <<r, t>> \in audited

\* What was changed was permitted, and meant; nothing that is over changes that.
DoneWasPermitted ==
  \A c \in done :
    /\ call[c.by].pc \in {"plan", "second", "answered", "refused"}
    /\ c.tenant \in past[c.by].permitted
    /\ c.op = "submitAutoResolved" => c.tenant \in past[c.by].meant

CallInvariant(r) ==
  IsAddressed(r) /\ IsPermitted(r) /\ IsMeant(r) /\ IsFound(r) /\ IsAudited(r)

AccessInvariant ==
  /\ ATypeOK /\ past \in [Calls -> Past]
  /\ \A r \in Calls : CallInvariant(r)
  /\ DoneWasPermitted
=============================================================================
