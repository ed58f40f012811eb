----------------------------- MODULE MetaAssets -----------------------------
(***************************************************************************)
(* The evidence a connected tenant holds about Meta: the discovered assets *)
(* and which of them the operator selected, the registry of capabilities,  *)
(* and the reports of the read-only smoke test that refreshes both.        *)
(*                                                                         *)
(* Discovery, selection and validation are transactions that lock the row  *)
(* of the connection.  What they write rests on queries and calls made     *)
(* before they had the lock.                                               *)
(***************************************************************************)
EXTENDS Naturals, FiniteSets

CONSTANTS
  Requests,      \* concurrent requests
  Operations,    \* the operations they perform
  Accounts, Pages, Phones,  \* assets, by kind
  NoAsset,       \* no asset
  NoRequest,     \* nobody has the lock
  Faults,        \* do calls to Meta fail?
  MaxStarts,     \* bound: requests started
  MaxChanges     \* bound: changes at Meta

Operation == {"discover", "select", "validate", "validateExecution", "smoke", "capture"}
Assets == Accounts \cup Pages \cup Phones

BoundAssumption == MaxStarts \in Nat /\ MaxChanges \in Nat
SwitchAssumption == Faults \in BOOLEAN /\ Operations \subseteq Operation
KindsAssumption ==
  /\ Accounts \cap Pages = {} /\ Accounts \cap Phones = {} /\ Pages \cap Phones = {}
  /\ NoAsset \notin Assets /\ NoRequest \notin Requests
  /\ IsFiniteSet(Assets)

VARIABLES
  offered,      \* the assets Meta lists
  granted,      \* the permissions the credential has
  discovered,   \* meta_asset_bindings
  selected,     \* those of them that are selected
  capabilities, \* capability_registry
  reports,      \* meta_smoke_test_reports
  snapshots,    \* readiness_snapshots
  lock,         \* the request that has the row of the connection
  request,      \* [Requests -> the local state of the request]
  starts,       \* requests started so far
  changes       \* changes at Meta so far

world == <<offered, granted, changes>>
tables == <<discovered, selected, capabilities, reports, snapshots>>
vars == <<offered, granted, discovered, selected, capabilities, reports, snapshots,
          lock, request, starts, changes>>

-----------------------------------------------------------------------------
(* Rows.                                                                   *)

Permissions == {"ads_read", "pages_show_list", "ads_management"}

\* "create" stands for the five capabilities that create or manage objects.
CapabilityType == {"discover", "readAccount", "create", "whatsapp"}
CapabilityStatus == {"available", "permission_missing", "asset_missing"}
Record == [by : 1..MaxStarts, type : CapabilityType, scope : Accounts \cup {NoAsset},
           status : CapabilityStatus]

Blocker == {"none", "meta_identity_validation_failed", "meta_asset_discovery_failed",
            "meta_ad_account_missing", "meta_capability_validation_failed",
            "meta_read_capability_unavailable", "meta_ad_account_read_failed"}
SmokeReport == [by : 1..MaxStarts, blocker : Blocker]

Check == {"passed", "pending", "blocked"}
Snapshot == [by : 1..MaxStarts, assets : Check, capabilities : Check]

PC == {"idle", "identity", "discovering", "reading", "asking", "looking", "account",
       "listing", "capturing", "lockBindings", "putBindings", "lockSelection",
       "putSelection", "lockRecords", "putRecords"}
Idle == [pc |-> "idle", op |-> "discover", by |-> 0, account |-> NoAsset, assets |-> {},
         picked |-> {}, records |-> {}, seen |-> {}]

Request == [pc : PC, op : Operation, by : 0..MaxStarts, account : Accounts \cup {NoAsset},
            assets : SUBSET Assets, picked : SUBSET Assets,
            records : SUBSET Record, seen : SUBSET Record]

-----------------------------------------------------------------------------
(* What a validation finds (capabilityEvidence).                           *)

RequiredPermissions(type) ==
  CASE type = "discover" -> {"ads_read", "pages_show_list"}
    [] type = "readAccount" -> {"ads_read"}
    [] OTHER -> {"ads_management"}

\* Per account, except for discovery; a permission is looked at before the assets.
Scopes(type, found) ==
  IF type = "discover" \/ ~(RequiredPermissions(type) \subseteq granted)
       \/ found \cap Accounts = {}
  THEN {NoAsset} ELSE found \cap Accounts

Reachable(picked) == picked \cap Pages # {} /\ picked \cap Phones # {}

StatusOf(type, found, picked) ==
  CASE ~(RequiredPermissions(type) \subseteq granted) -> "permission_missing"
    [] type = "discover" -> "available"
    [] found \cap Accounts = {} -> "asset_missing"
    [] type = "whatsapp" /\ ~Reachable(picked) -> "asset_missing"
    [] OTHER -> "available"

Requested(op) ==
  IF op = "validateExecution" THEN CapabilityType ELSE {"discover", "readAccount"}

Evidence(by, op, found, picked) ==
  UNION {{[by |-> by, type |-> type, scope |-> scope,
           status |-> StatusOf(type, found, picked)] : scope \in Scopes(type, found)} :
         type \in Requested(op)}

Unavailable(records) == {c \in records : c.status # "available"}

-----------------------------------------------------------------------------
(* The diagnosis.                                                          *)

AssetCheck(found) == IF found = {} THEN "pending" ELSE "passed"

Available(records, type) ==
  \E c \in records : c.type = type /\ c.status = "available"

CapabilityCheck(records) ==
  CASE records = {} -> "pending"
    [] Available(records, "discover") /\ Available(records, "readAccount") -> "passed"
    [] OTHER -> "blocked"

-----------------------------------------------------------------------------

Init ==
  /\ offered = Assets /\ granted \in {{"ads_read", "pages_show_list"}, Permissions}
  /\ discovered = {} /\ selected = {} /\ capabilities = {} /\ reports = {}
  /\ snapshots = {}
  /\ lock = NoRequest /\ request = [r \in Requests |-> Idle]
  /\ starts = 0 /\ changes = 0

Set(r, local) == request' = [request EXCEPT ![r] = local]
Goto(r, pc) == request' = [request EXCEPT ![r].pc = pc]
Return(r) == request' = [request EXCEPT ![r] = Idle]

Smoking(r) == request[r].op = "smoke"

\* The report of a smoke test is stored and the test is over.
Save(r, blocker) ==
  /\ reports' = reports \cup {[by |-> request[r].by, blocker |-> blocker]}
  /\ Return(r)

\* A call to Meta that failed ends the request, a smoke test with a report.
EndsFailed(r, blocker) ==
  /\ Faults
  /\ IF Smoking(r) THEN Save(r, blocker) ELSE Return(r) /\ UNCHANGED reports

Start(r, op) ==
  /\ request[r].pc = "idle" /\ starts < MaxStarts
  /\ starts' = starts + 1
  /\ op \in {"discover", "smoke"}
  /\ Set(r, [Idle EXCEPT !.op = op, !.by = starts',
                         !.pc = IF op = "smoke" THEN "identity" ELSE "discovering"])
  /\ UNCHANGED <<world, tables, lock>>

-----------------------------------------------------------------------------
(* Discovery.                                                              *)

\* validateReadOnly: the identity behind the credential.
Identity(r) ==
  /\ request[r].pc = "identity"
  /\ \/ Goto(r, "discovering") /\ UNCHANGED reports
     \/ EndsFailed(r, "meta_identity_validation_failed")
  /\ UNCHANGED <<world, discovered, selected, capabilities, snapshots, lock, starts>>

\* What a discovery finds when it succeeds: every account and page, because one edge
\* that is not answered fails it, and the phones of the edges that Meta does not refuse.
Findings == {offered} \cup (IF Faults THEN {offered \ lost : lost \in SUBSET Phones} ELSE {})

\* discoverAssets of the adapter.
DiscoverAtMeta(r) ==
  /\ request[r].pc = "discovering"
  /\ \/ /\ \E found \in Findings :
             Set(r, [request[r] EXCEPT !.pc = "lockBindings", !.assets = found])
        /\ UNCHANGED reports
     \/ EndsFailed(r, "meta_asset_discovery_failed")
  /\ UNCHANGED <<world, discovered, selected, capabilities, snapshots, lock, starts>>

\* lockConnection: select ... for update.
Locks(r) == lock = NoRequest /\ lock' = r

\* Mutant: the row of the connection is not locked.
LockBindingsUnlocked(r) ==
  /\ request[r].pc = "lockBindings"
  /\ Set(r, [request[r] EXCEPT !.pc = "putBindings", !.picked = selected])
  /\ UNCHANGED <<world, tables, lock, starts>>

\* replaceBindings, up to the deletion: the selection is read under the lock.
LockBindings(r) ==
  /\ request[r].pc = "lockBindings" /\ Locks(r)
  /\ Set(r, [request[r] EXCEPT !.pc = "putBindings", !.picked = selected])
  /\ UNCHANGED <<world, tables, starts>>

\* replaceBindings, the insertions and the commit.  The smoke test goes on with an
\* account of its own discovery.
PutBindings(r) ==
  LET found == request[r].assets IN
  /\ request[r].pc = "putBindings"
  /\ discovered' = found /\ selected' = found \cap request[r].picked
  /\ lock' = NoRequest
  /\ IF ~Smoking(r) THEN Return(r) /\ UNCHANGED reports
     ELSE IF found \cap Accounts = {} THEN Save(r, "meta_ad_account_missing")
     ELSE /\ \E a \in found \cap Accounts :
               Set(r, [request[r] EXCEPT !.pc = "reading", !.account = a,
                                         !.assets = {}, !.picked = {}])
          /\ UNCHANGED reports
  /\ UNCHANGED <<world, capabilities, snapshots, starts>>

-----------------------------------------------------------------------------
(* Selection.                                                              *)

\* parseSelections: one account, and at most one asset of every other kind.
Choices ==
  {choice \in SUBSET Assets : /\ Cardinality(choice \cap Accounts) = 1
                              /\ Cardinality(choice \cap Pages) <= 1
                              /\ Cardinality(choice \cap Phones) <= 1}

\* selectAssets, up to the check against the snapshot.
Select(r, choice) ==
  /\ request[r].pc = "idle" /\ starts < MaxStarts
  /\ starts' = starts + 1
  /\ choice \subseteq discovered
  /\ Set(r, [Idle EXCEPT !.op = "select", !.by = starts', !.pc = "lockSelection",
                         !.picked = choice])
  /\ UNCHANGED <<world, tables, lock>>

LockSelection(r) ==
  /\ request[r].pc = "lockSelection" /\ Locks(r)
  /\ Goto(r, "putSelection")
  /\ UNCHANGED <<world, tables, starts>>

\* selectBindings: rolled back when an asset is no longer in the snapshot.
PutSelection(r) ==
  LET choice == request[r].picked IN
  /\ request[r].pc = "putSelection"
  /\ selected' = IF choice \subseteq discovered THEN choice ELSE selected
  /\ lock' = NoRequest /\ Return(r)
  /\ UNCHANGED <<world, discovered, capabilities, reports, snapshots, starts>>

-----------------------------------------------------------------------------
(* Capabilities.                                                           *)

\* validateSnapshot, up to the call: the bindings are read first.
ReadBindings(r, op) ==
  /\ op \in {"validate", "validateExecution"}
  /\ request[r].pc = "idle" /\ starts < MaxStarts
  /\ starts' = starts + 1
  /\ Set(r, [Idle EXCEPT !.op = op, !.by = starts', !.pc = "asking",
                         !.assets = discovered, !.picked = selected])
  /\ UNCHANGED <<world, tables, lock>>

\* The same, for the smoke test.
SmokeReadsBindings(r) ==
  /\ request[r].pc = "reading"
  /\ Set(r, [request[r] EXCEPT !.pc = "asking", !.assets = discovered,
                               !.picked = selected])
  /\ UNCHANGED <<world, tables, lock, starts>>

\* validateCapabilities: the permissions of the credential against the bindings read.
AskPermissions(r) ==
  LET evidence == Evidence(request[r].by, request[r].op, request[r].assets,
                           request[r].picked) IN
  /\ request[r].pc = "asking"
  /\ \/ /\ Set(r, [request[r] EXCEPT !.pc = "lockRecords", !.records = evidence,
                                     !.assets = {}, !.picked = {}])
        /\ UNCHANGED reports
     \/ EndsFailed(r, "meta_capability_validation_failed")
  /\ UNCHANGED <<world, discovered, selected, capabilities, snapshots, lock, starts>>

\* replaceForConnection, the deletion: the rows it sees are the ones to go.
LockRecords(r) ==
  /\ request[r].pc = "lockRecords" /\ Locks(r)
  /\ Set(r, [request[r] EXCEPT !.pc = "putRecords", !.seen = capabilities])
  /\ UNCHANGED <<world, tables, starts>>

\* replaceForConnection, the insertions and the commit.
PutRecords(r) ==
  LET records == request[r].records IN
  /\ request[r].pc = "putRecords"
  /\ capabilities' = (capabilities \ request[r].seen) \cup records
  /\ lock' = NoRequest
  /\ IF ~Smoking(r) THEN Return(r) /\ UNCHANGED reports
     ELSE IF Unavailable(records) # {} THEN Save(r, "meta_read_capability_unavailable")
     ELSE /\ Set(r, [request[r] EXCEPT !.pc = "looking", !.records = {}, !.seen = {}])
          /\ UNCHANGED reports
  /\ UNCHANGED <<world, discovered, selected, snapshots, starts>>

-----------------------------------------------------------------------------
(* The end of the smoke test.                                              *)

\* readDiscoveredAdAccount, before the call: an account that is not in the snapshot is
\* an error of the request, which has no report.
LookForAccount(r) ==
  /\ request[r].pc = "looking"
  /\ IF request[r].account \in discovered THEN Goto(r, "account") ELSE Return(r)
  /\ UNCHANGED <<world, tables, lock, starts>>

ReadAccount(r) ==
  /\ request[r].pc = "account"
  /\ Save(r, "none") \/ EndsFailed(r, "meta_ad_account_read_failed")
  /\ UNCHANGED <<world, discovered, selected, capabilities, snapshots, lock, starts>>

-----------------------------------------------------------------------------
(* The diagnosis of the connection.                                        *)

\* getConnectionReadiness: assets and capabilities are read by two queries.
ListAssets(r) ==
  /\ request[r].pc = "idle" /\ starts < MaxStarts
  /\ starts' = starts + 1
  /\ Set(r, [Idle EXCEPT !.op = "capture", !.by = starts', !.pc = "listing",
                         !.assets = discovered])
  /\ UNCHANGED <<world, tables, lock>>

ListCapabilities(r) ==
  /\ request[r].pc = "listing"
  /\ Set(r, [request[r] EXCEPT !.pc = "capturing", !.records = capabilities])
  /\ UNCHANGED <<world, tables, lock, starts>>

\* captureConnectionReadiness.
Capture(r) ==
  /\ request[r].pc = "capturing"
  /\ snapshots' = snapshots \cup
       {[by |-> request[r].by, assets |-> AssetCheck(request[r].assets),
         capabilities |-> CapabilityCheck(request[r].records)]}
  /\ Return(r)
  /\ UNCHANGED <<world, discovered, selected, capabilities, reports, lock, starts>>

-----------------------------------------------------------------------------
(* Meta.                                                                   *)

\* An asset appears or disappears; a permission is given or withdrawn.
MetaChanges ==
  /\ changes < MaxChanges
  /\ changes' = changes + 1
  /\ \/ /\ \E a \in Assets : offered' = IF a \in offered THEN offered \ {a}
                                        ELSE offered \cup {a}
        /\ UNCHANGED granted
     \/ /\ granted' = IF "ads_management" \in granted THEN granted \ {"ads_management"}
                      ELSE granted \cup {"ads_management"}
        /\ UNCHANGED offered
  /\ UNCHANGED <<tables, lock, request, starts>>

Begins(r) ==
  \/ \E op \in Operations \cap {"discover", "smoke"} : Start(r, op)
  \/ "select" \in Operations /\ \E choice \in Choices : Select(r, choice)
  \/ \E op \in Operations \cap {"validate", "validateExecution"} : ReadBindings(r, op)
  \/ "capture" \in Operations /\ ListAssets(r)

Step(r) ==
  \/ Identity(r) \/ DiscoverAtMeta(r) \/ LockBindings(r) \/ PutBindings(r)
  \/ LockSelection(r) \/ PutSelection(r)
  \/ SmokeReadsBindings(r) \/ AskPermissions(r) \/ LockRecords(r) \/ PutRecords(r)
  \/ LookForAccount(r) \/ ReadAccount(r)
  \/ ListCapabilities(r) \/ Capture(r)

Done == starts = MaxStarts /\ \A r \in Requests : request[r].pc = "idle"

Next ==
  \/ \E r \in Requests : Begins(r) \/ Step(r)
  \/ MetaChanges
  \/ Done /\ UNCHANGED vars

Spec == Init /\ [][Next]_vars

\* Calls have a time limit and the lock is granted in turn.
FairSpec == Spec /\ \A r \in Requests : SF_vars(Step(r))

-----------------------------------------------------------------------------
(* Properties.  ChoiceIsKept and EvidenceIsNeverErased are about steps.    *)

TypeOK ==
  /\ offered \subseteq Assets /\ granted \subseteq Permissions
  /\ discovered \subseteq Assets /\ selected \subseteq discovered
  /\ capabilities \subseteq Record
  /\ reports \subseteq SmokeReport /\ snapshots \subseteq Snapshot
  /\ lock \in Requests \cup {NoRequest}
  /\ request \in [Requests -> Request]
  /\ starts \in 0..MaxStarts /\ changes \in 0..MaxChanges

\* The registry never mixes two validations, whichever run at once
\* (replaceForConnection locks the connection before it deletes).
RegistryIsOneValidation == \A c, d \in capabilities : c.by = d.by

\* What the operator selected stays selected until another selection, or until a
\* discovery does not find it: no discovery running meanwhile undoes it
\* (replaceBindings reads the selection under the lock).
ChoiceIsKept ==
  \A a \in selected :
    \/ a \in selected' \/ a \notin discovered'
    \/ \E r \in Requests : request[r].pc = "putSelection" /\ request'[r].pc = "idle"

\* Never two accounts, pages or phones are selected, so that there is at most one
\* target (selectedExecutionTarget).
OneSelectedPerKind ==
  \A kind \in {Accounts, Pages, Phones} : Cardinality(selected \cap kind) <= 1

\* A failure of Meta erases no evidence: a registry with records never becomes an
\* empty one (validateSnapshot).
EvidenceIsNeverErased == capabilities # {} => capabilities' # {}

\* As long as Meta lists an account or a page, no discovery drops it, whichever of
\* its calls fail (discoverAssets); phones have no such promise.
ListedIsNotDropped ==
  changes = 0 => \/ discovered = {}
                 \/ Accounts \cup Pages \subseteq discovered
=============================================================================
