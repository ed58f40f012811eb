-------------------------- MODULE MetaAssetsProofs --------------------------
(***************************************************************************)
(* What the lock of a connection's row protects: theorems about            *)
(* MetaAssets.  Whoever has the lock knows the rows it is about to         *)
(* replace, because no one else writes them meanwhile; what was read or    *)
(* asked before the lock was taken is only known to be of its kind.  And   *)
(* what the lists of assets are read with: theorems about GraphReading.    *)
(***************************************************************************)
EXTENDS MetaAssets, FiniteSetTheorems, WellFoundedInduction, TLAPS

AssetAssumptions == BoundAssumption /\ SwitchAssumption /\ KindsAssumption

\* Between a lock and the commit that releases it.
Holding == {"putBindings", "putSelection", "putRecords"}

LockIsHeld == \A r \in Requests : lock = r <=> request[r].pc \in Holding

\* What a request knows, and of the tables only what it read under the lock.
Knows(q) ==
  /\ q.pc # "idle" => q.by \in 1..MaxStarts
  /\ q.pc \in {"lockSelection", "putSelection"} => q.picked \in Choices
  /\ q.pc \in {"lockRecords", "putRecords"} => /\ q.records # {}
                                               /\ \A c \in q.records : c.by = q.by
  /\ q.pc = "putBindings" => q.picked = selected
  /\ q.pc = "putRecords" => q.seen = capabilities
  /\ changes = 0 /\ q.pc \in {"lockBindings", "putBindings"} =>
       Accounts \cup Pages \subseteq q.assets

TablesAreSound ==
  /\ offered \subseteq Assets /\ granted \subseteq Permissions
  /\ discovered \subseteq Assets /\ selected \subseteq discovered
  /\ capabilities \subseteq Record /\ changes \in 0..MaxChanges
  /\ changes = 0 => offered = Assets
  /\ RegistryIsOneValidation /\ OneSelectedPerKind /\ ListedIsNotDropped

AssetsInvariant ==
  /\ TypeOK /\ TablesAreSound /\ LockIsHeld
  /\ \A r \in Requests : Knows(request[r])

-----------------------------------------------------------------------------
(* What a validation finds is of its kind, and never nothing.              *)

LEMMA StatusType ==
  ASSUME NEW type, NEW found, NEW picked
  PROVE StatusOf(type, found, picked) \in CapabilityStatus
<1> DEFINE lacking == ~(RequiredPermissions(type) \subseteq granted)
<1>1. CASE lacking
  BY <1>1, Zenon DEF StatusOf, CapabilityStatus
<1>2. CASE ~lacking /\ type = "discover"
  BY <1>2, Zenon DEF StatusOf, CapabilityStatus
<1>3. CASE ~lacking /\ type # "discover" /\ found \cap Accounts = {}
  BY <1>3, Zenon DEF StatusOf, CapabilityStatus
<1>4. CASE ~lacking /\ type # "discover" /\ found \cap Accounts # {}
           /\ type = "whatsapp" /\ ~Reachable(picked)
  BY <1>4, Zenon DEF StatusOf, CapabilityStatus
<1>5. CASE ~lacking /\ type # "discover" /\ found \cap Accounts # {}
           /\ ~(type = "whatsapp" /\ ~Reachable(picked))
  BY <1>5, Zenon DEF StatusOf, CapabilityStatus
<1>. QED
  BY <1>1, <1>2, <1>3, <1>4, <1>5

LEMMA ScopesType ==
  ASSUME NEW type, NEW found
  PROVE /\ Scopes(type, found) \subseteq Accounts \cup {NoAsset}
        /\ Scopes(type, found) # {}
  BY DEF Scopes

LEMMA RequestedType ==
  ASSUME NEW op
  PROVE Requested(op) \subseteq CapabilityType /\ "discover" \in Requested(op)
  BY DEF Requested, CapabilityType

LEMMA EvidenceType ==
  ASSUME NEW by \in 1..MaxStarts, NEW op, NEW found, NEW picked
  PROVE /\ Evidence(by, op, found, picked) \subseteq Record
        /\ Evidence(by, op, found, picked) # {}
        /\ \A c \in Evidence(by, op, found, picked) : c.by = by
<1> DEFINE row(type, scope) == [by |-> by, type |-> type, scope |-> scope,
                                status |-> StatusOf(type, found, picked)]
           evidence == Evidence(by, op, found, picked)
<1>1. ASSUME NEW type \in Requested(op), NEW scope \in Scopes(type, found)
      PROVE row(type, scope) \in Record /\ row(type, scope).by = by
  BY StatusType, ScopesType, RequestedType DEF Record
<1>2. \A c \in evidence : \E type \in Requested(op) : \E scope \in Scopes(type, found) :
        c = row(type, scope)
  BY DEF Evidence
<1>3. \A type \in Requested(op) : \A scope \in Scopes(type, found) :
        row(type, scope) \in evidence
  BY DEF Evidence
<1>4. evidence # {}
  BY <1>3, ScopesType, RequestedType
<1>. HIDE DEF evidence, row
<1>5. \A c \in evidence : c \in Record /\ c.by = by
  BY <1>1, <1>2
<1>. QED
  BY <1>4, <1>5 DEF evidence

-----------------------------------------------------------------------------
(* A step of a request changes its own local state.  Of the tables that    *)
(* another one knows it changes something only when it has the lock.       *)

LockMoves(r, pc) ==
  \/ UNCHANGED lock /\ (pc \in Holding <=> request[r].pc \in Holding)
  \/ Locks(r) /\ pc \in Holding
  \/ lock = r /\ lock' = NoRequest /\ pc \notin Holding

Log == reports \subseteq SmokeReport /\ snapshots \subseteq Snapshot /\ starts \in 0..MaxStarts

LEMMA LockStaysHeld ==
  ASSUME AssetAssumptions, AssetsInvariant, NEW r \in Requests, NEW q \in Request,
         request' = [request EXCEPT ![r] = q], LockMoves(r, q.pc)
  PROVE lock' \in Requests \cup {NoRequest} /\ LockIsHeld'
  BY DEF AssetAssumptions, KindsAssumption, AssetsInvariant, TypeOK, LockIsHeld, LockMoves, Locks

LEMMA OthersKnowAsMuch ==
  ASSUME AssetsInvariant, NEW r \in Requests, NEW q,
         request' = [request EXCEPT ![r] = q],
         UNCHANGED changes,
         lock = r \/ UNCHANGED <<selected, capabilities>>
  PROVE \A s \in Requests \ {r} : Knows(request[s])'
<1> SUFFICES ASSUME NEW s \in Requests, s # r
             PROVE Knows(request[s])'
  OBVIOUS
<1>1. request'[s] = request[s] /\ Knows(request[s])
  BY DEF AssetsInvariant, TypeOK
<1>2. lock = r => request[s].pc \notin Holding
  BY DEF AssetsInvariant, LockIsHeld
<1>. QED
  BY <1>1, <1>2 DEF Knows, Holding

LEMMA StepKeepsInvariant ==
  ASSUME AssetAssumptions, AssetsInvariant, NEW r \in Requests, NEW q \in Request,
         request' = [request EXCEPT ![r] = q], LockMoves(r, q.pc),
         UNCHANGED changes,
         lock = r \/ UNCHANGED <<selected, capabilities>>,
         TablesAreSound', Log', Knows(q)'
  PROVE AssetsInvariant'
<1>1. request' \in [Requests -> Request] /\ request'[r] = q
  BY DEF AssetsInvariant, TypeOK
<1>2. \A s \in Requests : Knows(request[s])'
  BY <1>1, OthersKnowAsMuch
<1>3. TypeOK'
  BY <1>1, LockStaysHeld DEF TypeOK, TablesAreSound, Log
<1>. QED
  BY <1>2, <1>3, LockStaysHeld DEF AssetsInvariant

\* A step that leaves those tables alone.
LEMMA LocalStepKeepsInvariant ==
  ASSUME AssetAssumptions, AssetsInvariant, NEW r \in Requests, NEW q \in Request,
         request' = [request EXCEPT ![r] = q], LockMoves(r, q.pc),
         UNCHANGED <<world, discovered, selected, capabilities>>,
         Log', Knows(q)
  PROVE AssetsInvariant'
<1>1. TablesAreSound'
  BY DEF AssetsInvariant, TablesAreSound, world, RegistryIsOneValidation, OneSelectedPerKind,
         ListedIsNotDropped
<1>2. Knows(q)'
  BY DEF Knows, world
<1>. QED
  BY <1>1, <1>2, StepKeepsInvariant DEF world

LEMMA RequestType ==
  ASSUME AssetAssumptions, AssetsInvariant, NEW r \in Requests
  PROVE /\ request[r] \in Request /\ Knows(request[r])
        /\ Idle \in Request /\ Knows(Idle)
        /\ Log
  BY DEF AssetAssumptions, BoundAssumption, AssetsInvariant, TypeOK, Request, Idle, PC, Operation,
         Knows, Log

\* The end of a request outside a transaction.
LEMMA ReturnKeepsInvariant ==
  ASSUME AssetAssumptions, AssetsInvariant, NEW r \in Requests,
         request[r].pc \notin Holding, Return(r),
         UNCHANGED <<world, discovered, selected, capabilities, lock>>, Log'
  PROVE AssetsInvariant'
<1>1. LockMoves(r, Idle.pc)
  BY DEF LockMoves, Idle, Holding
<1>. QED
  BY <1>1, RequestType, LocalStepKeepsInvariant DEF Return

\* A report is one of its request.
LEMMA SaveLogs ==
  ASSUME AssetAssumptions, AssetsInvariant, NEW r \in Requests, request[r].pc # "idle",
         NEW blocker \in Blocker, Save(r, blocker), UNCHANGED <<snapshots, starts>>
  PROVE Log'
<1>1. [by |-> request[r].by, blocker |-> blocker] \in SmokeReport
  BY RequestType DEF Knows, SmokeReport
<1>. QED
  BY <1>1, RequestType DEF Log, Save

LEMMA FailureKeepsInvariant ==
  ASSUME AssetAssumptions, AssetsInvariant, NEW r \in Requests, request[r].pc # "idle",
         request[r].pc \notin Holding, NEW blocker \in Blocker, EndsFailed(r, blocker),
         UNCHANGED <<world, discovered, selected, capabilities, snapshots, lock, starts>>
  PROVE AssetsInvariant'
<1>1. Return(r)
  BY DEF EndsFailed, Save
<1>2. Log'
  <2>1. CASE Save(r, blocker)
    BY <2>1, SaveLogs
  <2>2. CASE UNCHANGED reports
    BY <2>2, RequestType DEF Log
  <2>. QED
    BY <2>1, <2>2 DEF EndsFailed
<1>. QED
  BY <1>1, <1>2, ReturnKeepsInvariant

-----------------------------------------------------------------------------
(* The actions.                                                            *)

\* A request goes on with what it knows, outside a transaction.
GoesOn(r) ==
  \E q \in Request : /\ request' = [request EXCEPT ![r] = q]
                     /\ Knows(q) /\ q.pc \notin Holding

LEMMA GoesOnKeepsInvariant ==
  ASSUME AssetAssumptions, AssetsInvariant, NEW r \in Requests, GoesOn(r),
         request[r].pc \notin Holding,
         UNCHANGED <<world, discovered, selected, capabilities, lock>>, Log'
  PROVE AssetsInvariant'
<1>1. PICK q \in Request : /\ request' = [request EXCEPT ![r] = q]
                           /\ Knows(q) /\ q.pc \notin Holding
  BY DEF GoesOn
<1>2. LockMoves(r, q.pc)
  BY <1>1 DEF LockMoves
<1>. QED
  BY <1>1, <1>2, LocalStepKeepsInvariant

LEMMA BeginningGoesOn ==
  ASSUME AssetAssumptions, AssetsInvariant, NEW r \in Requests, Begins(r)
  PROVE /\ GoesOn(r) /\ request[r].pc = "idle"
        /\ starts' = starts + 1 /\ starts < MaxStarts
        /\ UNCHANGED <<world, tables, lock>>
<1>0. ASSUME starts' = starts + 1, starts < MaxStarts
      PROVE starts' \in 1..MaxStarts /\ starts' \in 0..MaxStarts
  BY <1>0, RequestType DEF Log, AssetAssumptions, BoundAssumption
<1>1. ASSUME NEW op \in Operations \cap {"discover", "smoke"}, Start(r, op)
      PROVE GoesOn(r)
  <2> DEFINE q == [Idle EXCEPT !.op = op, !.by = starts',
                               !.pc = IF op = "smoke" THEN "identity" ELSE "discovering"]
  <2>0. starts' \in 1..MaxStarts /\ starts' \in 0..MaxStarts /\ Idle \in Request
    BY <1>0, <1>1, RequestType DEF Start
  <2>1. q \in Request /\ q.pc \in {"identity", "discovering"} /\ q.by = starts'
    BY <1>1, <2>0 DEF Request, Idle, PC, Operation
  <2>2. request' = [request EXCEPT ![r] = q]
    BY <1>1 DEF Start, Set
  <2>. HIDE DEF q
  <2>3. Knows(q) /\ q.pc \notin Holding
    BY <1>0, <1>1, <2>1 DEF Start, Knows, Holding
  <2>. QED
    BY <2>1, <2>2, <2>3 DEF GoesOn
<1>2. ASSUME NEW choice \in Choices, Select(r, choice)
      PROVE GoesOn(r)
  <2> DEFINE q == [Idle EXCEPT !.op = "select", !.by = starts', !.pc = "lockSelection",
                               !.picked = choice]
  <2>0. starts' \in 1..MaxStarts /\ starts' \in 0..MaxStarts /\ Idle \in Request
    BY <1>0, <1>2, RequestType DEF Select
  <2>1. /\ q \in Request /\ q.pc = "lockSelection" /\ q.by = starts'
        /\ q.picked = choice
    BY <1>2, <2>0 DEF Request, Idle, PC, Operation, Choices
  <2>2. request' = [request EXCEPT ![r] = q]
    BY <1>2 DEF Select, Set
  <2>. HIDE DEF q
  <2>3. Knows(q) /\ q.pc \notin Holding
    BY <1>0, <1>2, <2>1 DEF Select, Knows, Holding
  <2>. QED
    BY <2>1, <2>2, <2>3 DEF GoesOn
<1>3. ASSUME NEW op \in Operations \cap {"validate", "validateExecution"}, ReadBindings(r, op)
      PROVE GoesOn(r)
  <2> DEFINE q == [Idle EXCEPT !.op = op, !.by = starts', !.pc = "asking",
                               !.assets = discovered, !.picked = selected]
  <2>0. starts' \in 1..MaxStarts /\ starts' \in 0..MaxStarts /\ Idle \in Request
    BY <1>0, <1>3, RequestType DEF ReadBindings
  <2>1. q \in Request /\ q.pc = "asking" /\ q.by = starts'
    BY <1>3, <2>0 DEF Request, Idle, PC, Operation, AssetsInvariant, TablesAreSound
  <2>2. request' = [request EXCEPT ![r] = q]
    BY <1>3 DEF ReadBindings, Set
  <2>. HIDE DEF q
  <2>3. Knows(q) /\ q.pc \notin Holding
    BY <1>0, <1>3, <2>1 DEF ReadBindings, Knows, Holding
  <2>. QED
    BY <2>1, <2>2, <2>3 DEF GoesOn
<1>4. ASSUME ListAssets(r)
      PROVE GoesOn(r)
  <2> DEFINE q == [Idle EXCEPT !.op = "capture", !.by = starts', !.pc = "listing",
                               !.assets = discovered]
  <2>0. starts' \in 1..MaxStarts /\ starts' \in 0..MaxStarts /\ Idle \in Request
    BY <1>0, <1>4, RequestType DEF ListAssets
  <2>1. q \in Request /\ q.pc = "listing" /\ q.by = starts'
    BY <2>0 DEF Request, Idle, PC, Operation, AssetsInvariant, TablesAreSound
  <2>2. request' = [request EXCEPT ![r] = q]
    BY <1>4 DEF ListAssets, Set
  <2>. HIDE DEF q
  <2>3. Knows(q) /\ q.pc \notin Holding
    BY <1>0, <1>4, <2>1 DEF ListAssets, Knows, Holding
  <2>. QED
    BY <2>1, <2>2, <2>3 DEF GoesOn
<1>. QED
  BY <1>1, <1>2, <1>3, <1>4 DEF Begins, Start, Select, ReadBindings, ListAssets

LEMMA BeginningsKeepInvariant ==
  ASSUME AssetAssumptions, AssetsInvariant, NEW r \in Requests, Begins(r)
  PROVE AssetsInvariant'
<1>1. Log'
  BY BeginningGoesOn, RequestType DEF Log, AssetAssumptions, BoundAssumption, tables
<1>2. request[r].pc \notin Holding
  BY BeginningGoesOn DEF Holding
<1>. QED
  BY <1>1, <1>2, BeginningGoesOn, GoesOnKeepsInvariant DEF tables

\* Steps outside a transaction: calls to Meta, and queries.
LEMMA CallsKeepInvariant ==
  ASSUME AssetAssumptions, AssetsInvariant, NEW r \in Requests,
         Identity(r) \/ DiscoverAtMeta(r) \/ AskPermissions(r) \/ ReadAccount(r)
  PROVE AssetsInvariant'
<1>0. request[r].pc # "idle" /\ request[r].pc \notin Holding
  BY DEF Identity, DiscoverAtMeta, AskPermissions, ReadAccount, Holding
<1>1. ASSUME NEW blocker \in Blocker, EndsFailed(r, blocker),
             UNCHANGED <<world, discovered, selected, capabilities, snapshots, lock, starts>>
      PROVE AssetsInvariant'
  BY <1>0, <1>1, FailureKeepsInvariant
<1>2. ASSUME GoesOn(r),
             UNCHANGED <<world, discovered, selected, capabilities, snapshots, lock, starts>>,
             UNCHANGED reports
      PROVE AssetsInvariant'
  BY <1>0, <1>2, GoesOnKeepsInvariant, RequestType DEF Log
<1>3. CASE Identity(r)
  <2> DEFINE q == [request[r] EXCEPT !.pc = "discovering"]
  <2>1. q \in Request /\ q.pc = "discovering" /\ q.by = request[r].by
    BY RequestType DEF Request, PC
  <2>. HIDE DEF q
  <2>2. Knows(q) /\ q.pc \notin Holding
    BY <1>0, <2>1, RequestType DEF Knows, Holding
  <2>3. Goto(r, "discovering") => GoesOn(r)
    <3>1. Goto(r, "discovering") => request' = [request EXCEPT ![r] = q]
      BY DEF Goto, q
    <3>. QED
      BY <2>1, <2>2, <3>1 DEF GoesOn
  <2>. QED
    BY <1>1, <1>2, <1>3, <2>3 DEF Identity, Blocker
<1>4. CASE DiscoverAtMeta(r)
  <2>1. ASSUME NEW found \in Findings,
               Set(r, [request[r] EXCEPT !.pc = "lockBindings", !.assets = found])
        PROVE GoesOn(r)
    <3> DEFINE q == [request[r] EXCEPT !.pc = "lockBindings", !.assets = found]
    <3>1. found \subseteq Assets /\ (changes = 0 => Accounts \cup Pages \subseteq found)
      BY DEF Findings, AssetsInvariant, TablesAreSound, AssetAssumptions, KindsAssumption, Assets
    <3>2. /\ q \in Request /\ q.pc = "lockBindings" /\ q.by = request[r].by
          /\ q.assets = found
      BY <3>1, RequestType DEF Request, PC
    <3>3. request' = [request EXCEPT ![r] = q]
      BY <2>1 DEF Set
    <3>. HIDE DEF q
    <3>4. Knows(q) /\ q.pc \notin Holding
      BY <1>0, <3>1, <3>2, RequestType DEF Knows, Holding
    <3>. QED
      BY <3>2, <3>3, <3>4 DEF GoesOn
  <2>. QED
    BY <1>1, <1>2, <1>4, <2>1 DEF DiscoverAtMeta, Blocker
<1>5. CASE AskPermissions(r)
  <2> DEFINE evidence == Evidence(request[r].by, request[r].op, request[r].assets,
                                  request[r].picked)
             q == [request[r] EXCEPT !.pc = "lockRecords", !.records = evidence,
                                     !.assets = {}, !.picked = {}]
  <2>1. /\ evidence \subseteq Record /\ evidence # {}
        /\ \A c \in evidence : c.by = request[r].by
    BY <1>0, RequestType, EvidenceType DEF Knows
  <2>. HIDE DEF evidence
  <2>2. /\ q \in Request /\ q.pc = "lockRecords" /\ q.by = request[r].by
        /\ q.records = evidence
    BY <2>1, RequestType DEF Request, PC
  <2>3. Set(r, q) => request' = [request EXCEPT ![r] = q]
    BY DEF Set
  <2>4. AskPermissions(r) =>
          /\ \/ Set(r, q) /\ UNCHANGED reports
             \/ EndsFailed(r, "meta_capability_validation_failed")
          /\ UNCHANGED <<world, discovered, selected, capabilities, snapshots, lock, starts>>
    BY DEF AskPermissions, evidence
  <2>. HIDE DEF q
  <2>5. Knows(q) /\ q.pc \notin Holding
    BY <1>0, <2>1, <2>2, RequestType DEF Knows, Holding
  <2>6. Set(r, q) => GoesOn(r)
    BY <2>2, <2>3, <2>5 DEF GoesOn
  <2>. QED
    BY <1>1, <1>2, <1>5, <2>4, <2>6 DEF Blocker
<1>6. CASE ReadAccount(r)
  <2>1. CASE Save(r, "none")
    <3>1. Log' /\ Return(r)
      BY <1>0, <1>6, <2>1, SaveLogs DEF ReadAccount, Blocker, Save
    <3>. QED
      BY <1>0, <1>6, <3>1, ReturnKeepsInvariant DEF ReadAccount
  <2>. QED
    BY <1>1, <1>6, <2>1 DEF ReadAccount, Blocker
<1>. QED
  BY <1>3, <1>4, <1>5, <1>6

LEMMA QueriesKeepInvariant ==
  ASSUME AssetAssumptions, AssetsInvariant, NEW r \in Requests,
         SmokeReadsBindings(r) \/ LookForAccount(r) \/ ListCapabilities(r) \/ Capture(r)
  PROVE AssetsInvariant'
<1>0. request[r].pc # "idle" /\ request[r].pc \notin Holding
  BY DEF SmokeReadsBindings, LookForAccount, ListCapabilities, Capture, Holding
<1>1. ASSUME GoesOn(r) \/ Return(r), UNCHANGED <<world, tables, lock, starts>>
      PROVE AssetsInvariant'
  BY <1>0, <1>1, GoesOnKeepsInvariant, ReturnKeepsInvariant, RequestType DEF Log, tables
<1>2. CASE SmokeReadsBindings(r)
  <2> DEFINE q == [request[r] EXCEPT !.pc = "asking", !.assets = discovered,
                                     !.picked = selected]
  <2>1. q \in Request /\ q.pc = "asking" /\ q.by = request[r].by
    BY RequestType DEF Request, PC, AssetsInvariant, TablesAreSound
  <2>2. request' = [request EXCEPT ![r] = q]
    BY <1>2 DEF SmokeReadsBindings, Set
  <2>. HIDE DEF q
  <2>3. Knows(q) /\ q.pc \notin Holding
    BY <1>0, <2>1, RequestType DEF Knows, Holding
  <2>. QED
    BY <1>1, <1>2, <2>1, <2>2, <2>3 DEF GoesOn, SmokeReadsBindings
<1>3. CASE LookForAccount(r)
  <2> DEFINE q == [request[r] EXCEPT !.pc = "account"]
  <2>1. q \in Request /\ q.pc = "account" /\ q.by = request[r].by
    BY RequestType DEF Request, PC
  <2>2. Goto(r, "account") => request' = [request EXCEPT ![r] = q]
    BY DEF Goto
  <2>. HIDE DEF q
  <2>3. Knows(q) /\ q.pc \notin Holding
    BY <1>0, <2>1, RequestType DEF Knows, Holding
  <2>4. Goto(r, "account") => GoesOn(r)
    BY <2>1, <2>2, <2>3 DEF GoesOn
  <2>. QED
    BY <1>1, <1>3, <2>4 DEF LookForAccount
<1>4. CASE ListCapabilities(r)
  <2> DEFINE q == [request[r] EXCEPT !.pc = "capturing", !.records = capabilities]
  <2>1. q \in Request /\ q.pc = "capturing" /\ q.by = request[r].by
    BY RequestType DEF Request, PC, AssetsInvariant, TablesAreSound
  <2>2. request' = [request EXCEPT ![r] = q]
    BY <1>4 DEF ListCapabilities, Set
  <2>. HIDE DEF q
  <2>3. Knows(q) /\ q.pc \notin Holding
    BY <1>0, <2>1, RequestType DEF Knows, Holding
  <2>. QED
    BY <1>1, <1>4, <2>1, <2>2, <2>3 DEF GoesOn, ListCapabilities
<1>5. CASE Capture(r)
  <2>1. /\ AssetCheck(request[r].assets) \in Check
        /\ CapabilityCheck(request[r].records) \in Check
    <3>1. CASE request[r].records = {}
      BY <3>1, Zenon DEF CapabilityCheck, AssetCheck, Check
    <3> DEFINE available == /\ Available(request[r].records, "discover")
                            /\ Available(request[r].records, "readAccount")
    <3>2. CASE request[r].records # {} /\ available
      BY <3>2, Zenon DEF CapabilityCheck, AssetCheck, Check
    <3>3. CASE request[r].records # {} /\ ~available
      BY <3>3, Zenon DEF CapabilityCheck, AssetCheck, Check
    <3>. QED
      BY <3>1, <3>2, <3>3
  <2>2. [by |-> request[r].by, assets |-> AssetCheck(request[r].assets),
         capabilities |-> CapabilityCheck(request[r].records)] \in Snapshot
    BY <1>0, <2>1, RequestType DEF Snapshot, Knows
  <2>3. Log'
    BY <1>5, <2>2, RequestType DEF Log, Capture
  <2>. QED
    BY <1>0, <1>5, <2>3, ReturnKeepsInvariant DEF Capture
<1>. QED
  BY <1>2, <1>3, <1>4, <1>5

\* What is read with the lock: the selection, or the rows to go.
LEMMA LocksKeepInvariant ==
  ASSUME AssetAssumptions, AssetsInvariant, NEW r \in Requests,
         LockBindings(r) \/ LockSelection(r) \/ LockRecords(r)
  PROVE AssetsInvariant'
<1>0. request[r].pc # "idle" /\ Locks(r) /\ UNCHANGED <<world, tables, starts>>
  BY DEF LockBindings, LockSelection, LockRecords
<1>1. ASSUME NEW q \in Request, request' = [request EXCEPT ![r] = q], q.pc \in Holding, Knows(q)
      PROVE AssetsInvariant'
  BY <1>0, <1>1, LocalStepKeepsInvariant, RequestType DEF LockMoves, Log, tables
<1>2. CASE LockBindings(r)
  <2> DEFINE q == [request[r] EXCEPT !.pc = "putBindings", !.picked = selected]
  <2>1. /\ q \in Request /\ q.pc = "putBindings" /\ q.by = request[r].by
        /\ q.picked = selected /\ q.assets = request[r].assets
    BY RequestType DEF Request, PC, AssetsInvariant, TablesAreSound
  <2>2. request' = [request EXCEPT ![r] = q]
    BY <1>2 DEF LockBindings, Set
  <2>. HIDE DEF q
  <2>3. Knows(q) /\ q.pc \in Holding
    BY <1>0, <1>2, <2>1, RequestType DEF LockBindings, Knows, Holding
  <2>. QED
    BY <1>1, <2>1, <2>2, <2>3
<1>3. CASE LockSelection(r)
  <2> DEFINE q == [request[r] EXCEPT !.pc = "putSelection"]
  <2>1. /\ q \in Request /\ q.pc = "putSelection" /\ q.by = request[r].by
        /\ q.picked = request[r].picked
    BY RequestType DEF Request, PC
  <2>2. request' = [request EXCEPT ![r] = q]
    BY <1>3 DEF LockSelection, Goto
  <2>. HIDE DEF q
  <2>3. Knows(q) /\ q.pc \in Holding
    BY <1>0, <1>3, <2>1, RequestType DEF LockSelection, Knows, Holding
  <2>. QED
    BY <1>1, <2>1, <2>2, <2>3
<1>4. CASE LockRecords(r)
  <2> DEFINE q == [request[r] EXCEPT !.pc = "putRecords", !.seen = capabilities]
  <2>1. /\ q \in Request /\ q.pc = "putRecords" /\ q.by = request[r].by
        /\ q.seen = capabilities /\ q.records = request[r].records
    BY RequestType DEF Request, PC, AssetsInvariant, TablesAreSound
  <2>2. request' = [request EXCEPT ![r] = q]
    BY <1>4 DEF LockRecords, Set
  <2>. HIDE DEF q
  <2>3. Knows(q) /\ q.pc \in Holding
    BY <1>0, <1>4, <2>1, RequestType DEF LockRecords, Knows, Holding
  <2>. QED
    BY <1>1, <2>1, <2>2, <2>3
<1>. QED
  BY <1>2, <1>3, <1>4

-----------------------------------------------------------------------------
(* The transactions.                                                       *)

\* A request that writes has the lock.
LEMMA WriterHasLock ==
  ASSUME AssetsInvariant, NEW r \in Requests, request[r].pc \in Holding
  PROVE lock = r
  BY DEF AssetsInvariant, LockIsHeld

\* The end of a transaction: the lock is released, and the tables are sound.
LEMMA CommitKeepsInvariant ==
  ASSUME AssetAssumptions, AssetsInvariant, NEW r \in Requests, NEW q \in Request,
         request[r].pc \in Holding, request' = [request EXCEPT ![r] = q],
         lock' = NoRequest, q.pc \in {"idle", "reading", "looking"},
         q.pc # "idle" => q.by \in 1..MaxStarts,
         UNCHANGED changes, TablesAreSound', Log'
  PROVE AssetsInvariant'
<1>1. LockMoves(r, q.pc)
  BY WriterHasLock DEF LockMoves, Holding
<1>2. Knows(q)'
  BY DEF Knows
<1>. QED
  BY <1>1, <1>2, WriterHasLock, StepKeepsInvariant

\* A part of a sound selection is sound.
LEMMA PartIsOnePerKind ==
  ASSUME AssetAssumptions, NEW S \in SUBSET Assets, NEW T \in SUBSET S,
         \A kind \in {Accounts, Pages, Phones} : Cardinality(S \cap kind) <= 1
  PROVE \A kind \in {Accounts, Pages, Phones} : Cardinality(T \cap kind) <= 1
<1>. TAKE kind \in {Accounts, Pages, Phones}
<1>1. IsFiniteSet(S \cap kind)
  BY FS_Subset DEF AssetAssumptions, KindsAssumption, Assets
<1>2. Cardinality(T \cap kind) <= Cardinality(S \cap kind)
  BY <1>1, FS_Subset, T \cap kind \subseteq S \cap kind
<1>3. Cardinality(T \cap kind) \in Nat /\ Cardinality(S \cap kind) \in Nat
  BY <1>1, FS_Subset, FS_CardinalityType, T \cap kind \subseteq S \cap kind
<1>. QED
  BY <1>2, <1>3

\* The new snapshot keeps what was selected and is still there.
LEMMA PutBindingsTables ==
  ASSUME AssetAssumptions, AssetsInvariant, NEW r \in Requests, PutBindings(r)
  PROVE /\ discovered' = request[r].assets /\ selected' = discovered' \cap selected
        /\ TablesAreSound'
<1>1. request[r].picked = selected /\ request[r].assets \subseteq Assets
  BY RequestType DEF PutBindings, Knows, Request
<1>2. discovered' = request[r].assets /\ selected' = discovered' \cap selected
  BY <1>1 DEF PutBindings
<1>3. OneSelectedPerKind'
  <2>1. \A kind \in {Accounts, Pages, Phones} : Cardinality(selected' \cap kind) <= 1
    BY <1>2, PartIsOnePerKind DEF AssetsInvariant, TablesAreSound, OneSelectedPerKind
  <2>. QED
    BY <2>1 DEF OneSelectedPerKind
<1>4. ListedIsNotDropped'
  BY <1>2, RequestType DEF PutBindings, world, Knows, ListedIsNotDropped
<1>5. UNCHANGED <<world, capabilities>>
  BY DEF PutBindings
<1>. QED
  BY <1>1, <1>2, <1>3, <1>4, <1>5
  DEF TablesAreSound, AssetsInvariant, world, RegistryIsOneValidation

LEMMA PutBindingsKeepsInvariant ==
  ASSUME AssetAssumptions, AssetsInvariant, NEW r \in Requests, PutBindings(r)
  PROVE AssetsInvariant'
<1>0. /\ request[r].pc \in Holding /\ request[r].pc # "idle" /\ lock' = NoRequest
      /\ UNCHANGED <<world, snapshots, starts>>
  BY DEF PutBindings, Holding
<1>1. ASSUME Return(r), Log'
      PROVE AssetsInvariant'
  BY <1>0, <1>1, RequestType, PutBindingsTables, CommitKeepsInvariant DEF Return, world, Idle
<1>2. ASSUME NEW a \in request[r].assets \cap Accounts,
             Set(r, [request[r] EXCEPT !.pc = "reading", !.account = a,
                                       !.assets = {}, !.picked = {}]),
             UNCHANGED reports
      PROVE AssetsInvariant'
  <2> DEFINE q == [request[r] EXCEPT !.pc = "reading", !.account = a,
                                     !.assets = {}, !.picked = {}]
  <2>1. q \in Request /\ q.pc = "reading" /\ q.by = request[r].by
    BY RequestType DEF Request, PC
  <2>2. request' = [request EXCEPT ![r] = q]
    BY <1>2 DEF Set
  <2>. HIDE DEF q
  <2>3. Log' /\ q.by \in 1..MaxStarts
    BY <1>0, <1>2, <2>1, RequestType DEF Log, Knows
  <2>. QED
    BY <1>0, <2>1, <2>2, <2>3, PutBindingsTables, CommitKeepsInvariant DEF world
<1>3. CASE Return(r) /\ UNCHANGED reports
  BY <1>0, <1>1, <1>3, RequestType DEF Log
<1>4. CASE Save(r, "meta_ad_account_missing")
  <2>1. Log' /\ Return(r)
    BY <1>0, <1>4, SaveLogs DEF Blocker, Save
  <2>. QED
    BY <1>1, <2>1
<1>. QED
  BY <1>2, <1>3, <1>4 DEF PutBindings

LEMMA PutSelectionKeepsInvariant ==
  ASSUME AssetAssumptions, AssetsInvariant, NEW r \in Requests, PutSelection(r)
  PROVE AssetsInvariant'
<1>0. /\ request[r].pc \in Holding /\ lock' = NoRequest
      /\ UNCHANGED <<world, discovered, capabilities, reports, snapshots, starts>>
      /\ Return(r)
  BY DEF PutSelection, Holding
<1>1. \A kind \in {Accounts, Pages, Phones} : Cardinality(request[r].picked \cap kind) <= 1
  <2>1. request[r].picked \in Choices
    BY RequestType DEF PutSelection, Knows
  <2>2. /\ Cardinality(request[r].picked \cap Accounts) = 1
        /\ Cardinality(request[r].picked \cap Pages) <= 1
        /\ Cardinality(request[r].picked \cap Phones) <= 1
    BY <2>1, Zenon DEF Choices
  <2>. QED
    BY <2>2
<1>2. OneSelectedPerKind' /\ (selected \subseteq discovered)'
  <2>1. CASE selected' = selected
    BY <1>0, <2>1 DEF AssetsInvariant, TablesAreSound, OneSelectedPerKind
  <2>2. CASE request[r].picked \subseteq discovered /\ selected' = request[r].picked
    BY <1>0, <1>1, <2>2 DEF OneSelectedPerKind
  <2>. QED
    BY <2>1, <2>2 DEF PutSelection
<1>3. TablesAreSound'
  BY <1>0, <1>2 DEF TablesAreSound, AssetsInvariant, world, RegistryIsOneValidation,
                    ListedIsNotDropped
<1>4. Log'
  BY <1>0, RequestType DEF Log
<1>. QED
  BY <1>0, <1>3, <1>4, RequestType, CommitKeepsInvariant DEF Return, world, Idle

\* The registry is the validation's evidence, whole: no row of another one is left.
LEMMA PutRecordsTables ==
  ASSUME AssetAssumptions, AssetsInvariant, NEW r \in Requests, PutRecords(r)
  PROVE /\ capabilities' = request[r].records /\ capabilities' # {}
        /\ TablesAreSound'
<1>1. /\ request[r].seen = capabilities /\ request[r].records \subseteq Record
      /\ request[r].records # {}
      /\ \A c \in request[r].records : c.by = request[r].by
  BY RequestType DEF PutRecords, Knows, Request
<1>2. capabilities' = request[r].records
  BY <1>1 DEF PutRecords
<1>3. RegistryIsOneValidation'
  BY <1>1, <1>2 DEF RegistryIsOneValidation
<1>4. UNCHANGED <<world, discovered, selected>>
  BY DEF PutRecords
<1>. QED
  BY <1>1, <1>2, <1>3, <1>4
  DEF TablesAreSound, AssetsInvariant, world, OneSelectedPerKind, ListedIsNotDropped

LEMMA PutRecordsKeepsInvariant ==
  ASSUME AssetAssumptions, AssetsInvariant, NEW r \in Requests, PutRecords(r)
  PROVE AssetsInvariant'
<1>0. /\ request[r].pc \in Holding /\ request[r].pc # "idle" /\ lock' = NoRequest
      /\ UNCHANGED <<world, snapshots, starts>>
  BY DEF PutRecords, Holding
<1>1. ASSUME Return(r), Log'
      PROVE AssetsInvariant'
  BY <1>0, <1>1, RequestType, PutRecordsTables, CommitKeepsInvariant DEF Return, world, Idle
<1>2. ASSUME Set(r, [request[r] EXCEPT !.pc = "looking", !.records = {}, !.seen = {}]),
             UNCHANGED reports
      PROVE AssetsInvariant'
  <2> DEFINE q == [request[r] EXCEPT !.pc = "looking", !.records = {}, !.seen = {}]
  <2>1. q \in Request /\ q.pc = "looking" /\ q.by = request[r].by
    BY RequestType DEF Request, PC
  <2>2. request' = [request EXCEPT ![r] = q]
    BY <1>2 DEF Set
  <2>. HIDE DEF q
  <2>3. Log' /\ q.by \in 1..MaxStarts
    BY <1>0, <1>2, <2>1, RequestType DEF Log, Knows
  <2>. QED
    BY <1>0, <2>1, <2>2, <2>3, PutRecordsTables, CommitKeepsInvariant DEF world
<1>3. CASE Return(r) /\ UNCHANGED reports
  BY <1>0, <1>1, <1>3, RequestType DEF Log
<1>4. CASE Save(r, "meta_read_capability_unavailable")
  <2>1. Log' /\ Return(r)
    BY <1>0, <1>4, SaveLogs DEF Blocker, Save
  <2>. QED
    BY <1>1, <2>1
<1>. QED
  BY <1>2, <1>3, <1>4 DEF PutRecords

-----------------------------------------------------------------------------
(* Meta, and the whole.                                                    *)

LEMMA MetaKeepsInvariant ==
  ASSUME AssetAssumptions, AssetsInvariant, MetaChanges
  PROVE AssetsInvariant'
<1>1. /\ UNCHANGED <<discovered, selected, capabilities, reports, snapshots, lock, request, starts>>
      /\ changes' = changes + 1 /\ changes' \in 0..MaxChanges /\ changes' # 0
  BY DEF MetaChanges, tables, AssetsInvariant, TablesAreSound, AssetAssumptions, BoundAssumption
<1>2. (offered \subseteq Assets /\ granted \subseteq Permissions)'
  BY DEF MetaChanges, AssetsInvariant, TablesAreSound, Permissions
<1>3. TablesAreSound'
  BY <1>1, <1>2 DEF AssetsInvariant, TablesAreSound, RegistryIsOneValidation,
                    OneSelectedPerKind, ListedIsNotDropped
<1>4. \A r \in Requests : Knows(request[r])'
  BY <1>1 DEF AssetsInvariant, Knows
<1>5. TypeOK' /\ LockIsHeld'
  BY <1>1, <1>2 DEF AssetsInvariant, TypeOK, LockIsHeld
<1>. QED
  BY <1>3, <1>4, <1>5 DEF AssetsInvariant

LEMMA StepsKeepInvariant ==
  ASSUME AssetAssumptions, AssetsInvariant, [Next]_vars
  PROVE AssetsInvariant'
<1>1. ASSUME NEW r \in Requests, Begins(r)
      PROVE AssetsInvariant'
  BY <1>1, BeginningsKeepInvariant
<1>2. ASSUME NEW r \in Requests, Step(r)
      PROVE AssetsInvariant'
  BY <1>2, CallsKeepInvariant, QueriesKeepInvariant, LocksKeepInvariant,
     PutBindingsKeepsInvariant, PutSelectionKeepsInvariant, PutRecordsKeepsInvariant
  DEF Step
<1>3. CASE UNCHANGED vars
  BY <1>3 DEF vars, AssetsInvariant, TypeOK, TablesAreSound, LockIsHeld, Knows,
              RegistryIsOneValidation, OneSelectedPerKind, ListedIsNotDropped
<1>. QED
  BY <1>1, <1>2, <1>3, MetaKeepsInvariant DEF Next

LEMMA InitIsSound ==
  ASSUME AssetAssumptions, Init
  PROVE AssetsInvariant
<1>1. TypeOK
  BY DEF Init, TypeOK, AssetAssumptions, BoundAssumption, Permissions, Request, Idle, PC,
         Operation
<1>2. OneSelectedPerKind
  BY FS_EmptySet DEF Init, OneSelectedPerKind
<1>3. TablesAreSound
  BY <1>1, <1>2 DEF Init, TypeOK, TablesAreSound, RegistryIsOneValidation, ListedIsNotDropped
<1>4. LockIsHeld /\ \A r \in Requests : Knows(request[r])
  BY DEF Init, LockIsHeld, Knows, Idle, Holding, AssetAssumptions, KindsAssumption
<1>. QED
  BY <1>1, <1>3, <1>4 DEF AssetsInvariant

\* What the lock of the connection's row protects, for every number of requests, assets
\* and changes at Meta: whoever has it knows the selection, or the rows of the registry,
\* as they are; everything else a request holds is as old as it is.
THEOREM AssetsAreInvariant == AssetAssumptions => (Spec => []AssetsInvariant)
<1>. SUFFICES ASSUME AssetAssumptions
              PROVE Spec => []AssetsInvariant
  OBVIOUS
<1>1. Init => AssetsInvariant
  BY InitIsSound
<1>2. AssetsInvariant /\ [Next]_vars => AssetsInvariant'
  BY StepsKeepInvariant
<1>. QED
  BY <1>1, <1>2, PTL DEF Spec

\* The registry never mixes two validations, never two assets of a kind are selected, and
\* no discovery drops what Meta lists (replaceForConnection, replaceBindings,
\* selectBindings, discoverAssets).
THEOREM AssetsStaySound ==
  AssetAssumptions =>
    (Spec => [](TypeOK /\ RegistryIsOneValidation /\ OneSelectedPerKind /\ ListedIsNotDropped))
<1>. SUFFICES ASSUME AssetAssumptions
              PROVE Spec => [](TypeOK /\ RegistryIsOneValidation /\ OneSelectedPerKind
                               /\ ListedIsNotDropped)
  OBVIOUS
<1>1. AssetsInvariant => TypeOK /\ RegistryIsOneValidation /\ OneSelectedPerKind
                          /\ ListedIsNotDropped
  BY DEF AssetsInvariant, TablesAreSound
<1>2. Spec => []AssetsInvariant
  BY AssetsAreInvariant
<1>. QED
  BY <1>1, <1>2, PTL

\* No discovery undoes a choice: what was selected stays selected until another selection
\* is committed, or until it is not found any more (replaceBindings reads the selection
\* under the lock).
THEOREM ChoicesAreKept == AssetAssumptions => (Spec => [][ChoiceIsKept]_vars)
<1>. SUFFICES ASSUME AssetAssumptions
              PROVE Spec => [][ChoiceIsKept]_vars
  OBVIOUS
<1>1. ASSUME AssetsInvariant, Next
      PROVE ChoiceIsKept
  <2>1. ASSUME NEW r \in Requests, PutBindings(r)
        PROVE ChoiceIsKept
    BY <1>1, <2>1, PutBindingsTables DEF ChoiceIsKept
  <2>2. ASSUME NEW r \in Requests, PutSelection(r)
        PROVE ChoiceIsKept
    <3>1. request[r].pc = "putSelection" /\ request'[r].pc = "idle"
      BY <1>1, <2>2 DEF PutSelection, Return, Idle, AssetsInvariant, TypeOK
    <3>. QED
      BY <3>1 DEF ChoiceIsKept
  <2>3. CASE UNCHANGED selected
    BY <2>3 DEF ChoiceIsKept
  <2>4. ASSUME NEW r \in Requests, Begins(r)
        PROVE UNCHANGED selected
    BY <1>1, <2>4, BeginningGoesOn DEF tables
  <2>5. ASSUME NEW r \in Requests, Step(r)
        PROVE PutBindings(r) \/ PutSelection(r) \/ UNCHANGED selected
    BY <2>5 DEF Step, Identity, DiscoverAtMeta, LockBindings, LockSelection,
                SmokeReadsBindings, AskPermissions, LockRecords, PutRecords, LookForAccount,
                ReadAccount, ListCapabilities, Capture, tables
  <2>6. MetaChanges \/ UNCHANGED vars => UNCHANGED selected
    BY DEF MetaChanges, vars, tables
  <2>. QED
    BY <1>1, <2>1, <2>2, <2>3, <2>4, <2>5, <2>6 DEF Next
<1>2. Spec => []AssetsInvariant
  BY AssetsAreInvariant
<1>. QED
  BY <1>1, <1>2, PTL DEF Spec

\* A failure of Meta erases no evidence (validateSnapshot writes only what it found, and it
\* always finds something).
THEOREM EvidenceIsNotErased == AssetAssumptions => (Spec => [][EvidenceIsNeverErased]_vars)
<1>. SUFFICES ASSUME AssetAssumptions
              PROVE Spec => [][EvidenceIsNeverErased]_vars
  OBVIOUS
<1>1. ASSUME AssetsInvariant, Next
      PROVE EvidenceIsNeverErased
  <2>1. ASSUME NEW r \in Requests, PutRecords(r)
        PROVE EvidenceIsNeverErased
    BY <1>1, <2>1, PutRecordsTables DEF EvidenceIsNeverErased
  <2>2. CASE UNCHANGED capabilities
    BY <2>2 DEF EvidenceIsNeverErased
  <2>3. ASSUME NEW r \in Requests, Begins(r)
        PROVE UNCHANGED capabilities
    BY <1>1, <2>3, BeginningGoesOn DEF tables
  <2>4. ASSUME NEW r \in Requests, Step(r)
        PROVE PutRecords(r) \/ UNCHANGED capabilities
    BY <2>4 DEF Step, Identity, DiscoverAtMeta, LockBindings, PutBindings, LockSelection,
                PutSelection, SmokeReadsBindings, AskPermissions, LockRecords,
                LookForAccount, ReadAccount, ListCapabilities, Capture, tables
  <2>5. MetaChanges \/ UNCHANGED vars => UNCHANGED capabilities
    BY DEF MetaChanges, vars, tables
  <2>. QED
    BY <1>1, <2>1, <2>2, <2>3, <2>4, <2>5 DEF Next
<1>2. Spec => []AssetsInvariant
  BY AssetsAreInvariant
<1>. QED
  BY <1>1, <1>2, PTL DEF Spec

-----------------------------------------------------------------------------
(* Lists that are read page by page.                                       *)

CONSTANTS
  Cursors, First, Last, MaxPages   \* those of GraphReading

VARIABLES
  next, reader

Graph == INSTANCE GraphReading

GraphAssumptions == Graph!PagesAssumption /\ Graph!CursorsAssumption

\* What GraphReading takes from FiniteSets is what the theorems about finite sets speak of.
LEMMA CursorsAreFinite ==
  ASSUME GraphAssumptions
  PROVE IsFiniteSet(Cursors) /\ Graph!Cardinality(Cursors) = Cardinality(Cursors)
<1>1. Graph!IsFiniteSet(Cursors) <=> IsFiniteSet(Cursors)
  BY DEF Graph!IsFiniteSet, IsFiniteSet
<1>2. Graph!Cardinality(Cursors) = Cardinality(Cursors)
  BY DEF Graph!Cardinality, Cardinality
<1>. QED
  BY <1>1, <1>2 DEF GraphAssumptions, Graph!CursorsAssumption

\* A set of naturals has a least element: what an induction is made of here.
LEMMA LeastNatural ==
  ASSUME NEW T \in SUBSET Nat, T # {}
  PROVE \E n \in T : \A m \in T : n <= m
<1> DEFINE R == OpToRel(<, Nat)
<1>1. R = {ss \in Nat \X Nat : ss[1] < ss[2]}
  BY Zenon DEF OpToRel
<1>2. IsWellFoundedOn(R, Nat)
  BY NatLessThanWellFounded, Zenon
<1>. HIDE DEF R
<1>3. PICK n \in T : \A m \in T : ~(<<m, n>> \in R)
  BY <1>2, WFMin
<1>4. \A m \in T : ~(m < n)
  BY <1>1, <1>3
<1>. QED
  BY <1>4

\* The pages that come after those of S.
Edges == [Cursors \cup {First} -> Cursors \cup {Last}]
Further(S, edges) == S \cup ({edges[c] : c \in S} \ {Last})

\* A table of the first m + 1 values of Follow.
IsTable(g, m, edges) ==
  /\ g \in [0..m -> SUBSET (Cursors \cup {First})] /\ g[0] = {First}
  /\ \A i \in 1..m : g[i] = Further(g[i - 1], edges)

LEMMA FurtherStays ==
  ASSUME NEW edges \in Edges, NEW S \in SUBSET (Cursors \cup {First})
  PROVE Further(S, edges) \in SUBSET (Cursors \cup {First})
  BY DEF Further, Edges

LEMMA TablesExist ==
  ASSUME NEW edges \in Edges, NEW m \in Nat
  PROVE \E g : IsTable(g, m, edges)
<1> DEFINE T == {n \in Nat : ~\E g : IsTable(g, n, edges)}
<1>1. 0 \notin T
  <2>1. IsTable([i \in 0..0 |-> {First}], 0, edges)
    BY DEF IsTable
  <2>. QED
    BY <2>1
<1>2. ASSUME NEW n \in T, n # 0, n - 1 \notin T
      PROVE FALSE
  <2>1. n \in Nat /\ n - 1 \in Nat
    BY <1>2
  <2>2. PICK g : IsTable(g, n - 1, edges)
    BY <1>2, <2>1
  <2> DEFINE h == [i \in 0..n |-> IF i = n THEN Further(g[n - 1], edges) ELSE g[i]]
  <2>3. g \in [0..(n - 1) -> SUBSET (Cursors \cup {First})] /\ g[0] = {First}
        /\ \A i \in 1..(n - 1) : g[i] = Further(g[i - 1], edges)
    BY <2>2 DEF IsTable
  <2>4. Further(g[n - 1], edges) \in SUBSET (Cursors \cup {First})
    BY <2>1, <2>3, FurtherStays
  <2>5. h \in [0..n -> SUBSET (Cursors \cup {First})] /\ h[0] = {First}
    BY <1>2, <2>1, <2>3, <2>4
  <2>6. ASSUME NEW i \in 1..n
        PROVE h[i] = Further(h[i - 1], edges)
    BY <2>1, <2>3
  <2>7. IsTable(h, n, edges)
    BY <2>5, <2>6 DEF IsTable
  <2>. QED
    BY <2>7
<1>3. T = {}
  <2>. SUFFICES ASSUME T # {}
                PROVE FALSE
    OBVIOUS
  <2>1. PICK n \in T : \A k \in T : n <= k
    <3>1. T \in SUBSET Nat
      OBVIOUS
    <3>. HIDE DEF T
    <3>. QED
      BY <3>1, LeastNatural
  <2>2. n # 0 /\ n \in Nat /\ n - 1 \notin T
    <3>1. n \in Nat /\ n # 0
      BY <1>1
    <3>. HIDE DEF T
    <3>. QED
      BY <2>1, <3>1
  <2>. QED
    BY <1>2, <2>2
<1>. QED
  BY <1>3

LEMMA TablesAgree ==
  ASSUME NEW edges, NEW m \in Nat, NEW k \in Nat, m <= k,
         NEW g, IsTable(g, m, edges), NEW h, IsTable(h, k, edges)
  PROVE \A i \in 0..m : g[i] = h[i]
<1> DEFINE T == {i \in 0..m : g[i] # h[i]}
<1>. SUFFICES ASSUME T # {}
              PROVE FALSE
  OBVIOUS
<1>1. PICK n \in T : \A i \in T : n <= i
  <2>1. T \in SUBSET Nat
    OBVIOUS
  <2>. HIDE DEF T
  <2>. QED
    BY <2>1, LeastNatural
<1>2. n \in 0..m /\ g[n] # h[n] /\ n # 0
  BY DEF IsTable
<1>3. n - 1 \in 0..m /\ n \in 1..m /\ n \in 1..k
  BY <1>2
<1>4. g[n - 1] = h[n - 1]
  <2>1. n - 1 \notin T
    <3>. HIDE DEF T
    <3>. QED
      BY <1>1, <1>2
  <2>. QED
    BY <1>3, <2>1
<1>. QED
  BY <1>2, <1>3, <1>4 DEF IsTable

\* Follow is what its definition says: the function that it chooses exists.
LEMMA FollowIsDefined ==
  ASSUME next \in Edges
  PROVE /\ Graph!Follow[0] = {First}
        /\ \A n \in Nat : Graph!Follow[n + 1] = Further(Graph!Follow[n], next)
<1>. PICK edges \in Edges : edges = next
  OBVIOUS
<1> DEFINE table(n) == CHOOSE g : IsTable(g, n, edges)
           f == [n \in Nat |-> table(n)[n]]
           body(x) == [n \in Nat |-> IF n = 0 THEN {First}
                                     ELSE x[n - 1] \cup ({next[c] : c \in x[n - 1]} \ {Last})]
<1>1. \A n \in Nat : IsTable(table(n), n, edges)
  BY TablesExist
<1>. HIDE DEF table
<1>2. f[0] = {First}
  BY <1>1 DEF IsTable
<1>3. ASSUME NEW n \in Nat, n # 0
      PROVE f[n] = Further(f[n - 1], edges)
  <2>1. n - 1 \in Nat /\ n \in 1..n /\ n - 1 <= n /\ n - 1 \in 0..(n - 1)
    BY <1>3
  <2>2. table(n)[n] = Further(table(n)[n - 1], edges)
    BY <1>1, <2>1 DEF IsTable
  <2>3. table(n)[n - 1] = table(n - 1)[n - 1]
    BY <1>1, <2>1, TablesAgree
  <2>. QED
    BY <2>1, <2>2, <2>3
<1>4. f = body(f)
  <2>1. \A n \in Nat : f[n] = IF n = 0 THEN {First} ELSE Further(f[n - 1], edges)
    BY <1>2, <1>3
  <2>. HIDE DEF f
  <2>2. f = [n \in Nat |-> f[n]]
    BY DEF f
  <2>3. [n \in Nat |-> f[n]] = body(f)
    BY <2>1 DEF Further
  <2>. QED
    BY <2>2, <2>3
<1>. HIDE DEF f
<1>5. Graph!Follow = body(Graph!Follow)
  BY <1>4 DEF Graph!Follow
<1>6. Graph!Follow[0] = {First}
  BY <1>5
<1>7. ASSUME NEW n \in Nat
      PROVE Graph!Follow[n + 1] = Further(Graph!Follow[n], next)
  <2>1. n + 1 \in Nat /\ n + 1 # 0 /\ (n + 1) - 1 = n
    OBVIOUS
  <2>. QED
    BY <1>5, <2>1 DEF Further
<1>. QED
  BY <1>6, <1>7

\* Follow has every page once it has a set of pages that leads no further.
LEMMA FollowEnds ==
  ASSUME next \in Edges, NEW m \in Nat, NEW k \in Nat, m <= k,
         Further(Graph!Follow[m], next) = Graph!Follow[m]
  PROVE Graph!Follow[k] = Graph!Follow[m]
<1> DEFINE T == {n \in Nat : m <= n /\ Graph!Follow[n] # Graph!Follow[m]}
<1>. SUFFICES ASSUME T # {}
              PROVE FALSE
  OBVIOUS
<1>1. PICK n \in T : \A i \in T : n <= i
  <2>1. T \in SUBSET Nat
    OBVIOUS
  <2>. HIDE DEF T
  <2>. QED
    BY <2>1, LeastNatural
<1>2. n \in Nat /\ m < n /\ Graph!Follow[n] # Graph!Follow[m]
  OBVIOUS
<1>3. n - 1 \in Nat /\ m <= n - 1 /\ (n - 1) + 1 = n
  BY <1>2
<1>4. Graph!Follow[n - 1] = Graph!Follow[m]
  <2>1. n - 1 \notin T
    <3>. HIDE DEF T
    <3>. QED
      BY <1>1, <1>2
  <2>. QED
    BY <1>3, <2>1
<1>5. Graph!Follow[n] = Further(Graph!Follow[n - 1], next)
  BY <1>3, FollowIsDefined
<1>. QED
  BY <1>2, <1>4, <1>5

\* The reader has the pages that Follow has after as many steps; those it has taken lead to
\* none that it does not know; and it has counted a page for each cursor it has seen.
GraphInvariant ==
  /\ Graph!TypeOK
  /\ reader.pc # "done" =>
       /\ reader.pages = Cardinality(reader.seen) /\ ~reader.repeated
       /\ reader.items \cup {reader.after} = Graph!Follow[reader.pages]
       /\ \A c \in reader.items : next[c] \in reader.items \cup {reader.after}
  /\ reader.pc = "done" /\ reader.error = "none" =>
       /\ reader.pages = Cardinality(reader.seen)
       /\ reader.items = Graph!Follow[reader.pages]
       /\ \A c \in reader.items : next[c] \in reader.items \cup {Last}
  /\ reader.repeated => reader.error = "VALIDATION"

LEMMA EndingKeepsInvariant ==
  ASSUME GraphAssumptions, GraphInvariant, reader.pc # "done", UNCHANGED next,
         NEW error \in Graph!Error, error # "none", Graph!Ends(error)
  PROVE GraphInvariant'
<1>1. reader \in Graph!Reader
  BY DEF GraphInvariant, Graph!TypeOK
<1>2. /\ reader' \in Graph!Reader /\ reader'.pc = "done" /\ reader'.error = error
      /\ reader'.repeated = reader.repeated
  BY <1>1 DEF Graph!Ends, Graph!Reader
<1>. QED
  BY <1>2 DEF GraphInvariant, Graph!TypeOK

LEMMA PageKeepsInvariant ==
  ASSUME GraphAssumptions, GraphInvariant, Graph!NextPage
  PROVE GraphInvariant'
<1>. PICK old : old = reader
  OBVIOUS
<1>. PICK cursor : cursor = next[old.after]
  OBVIOUS
<1>. PICK taken : taken = old.items \cup {old.after}
  OBVIOUS
<1>1. /\ old \in Graph!Reader /\ next \in Edges /\ old.after \in Cursors \cup {First}
      /\ cursor \in Cursors \cup {Last} /\ taken \in SUBSET (Cursors \cup {First})
      /\ old.pages \in Nat /\ old.seen \in SUBSET Cursors
  BY DEF GraphInvariant, Graph!TypeOK, Graph!Reader, Edges
<1>2. /\ old.pc = "reading" /\ old.pages = Cardinality(old.seen) /\ ~old.repeated
      /\ taken = Graph!Follow[old.pages] /\ \A c \in old.items : next[c] \in taken
  BY DEF GraphInvariant, Graph!NextPage
<1>3. UNCHANGED next /\ Graph!Follow' = Graph!Follow
  BY DEF Graph!NextPage, Graph!Follow
<1>4. CASE cursor = Last
  <2>1. reader' = [old EXCEPT !.pc = "done", !.items = taken]
    BY <1>4 DEF Graph!NextPage, Graph!Taken
  <2>2. /\ reader' \in Graph!Reader /\ reader'.pc = "done" /\ reader'.items = taken
        /\ reader'.pages = old.pages /\ reader'.seen = old.seen
        /\ reader'.repeated = old.repeated
    BY <1>1, <2>1 DEF Graph!Reader
  <2>3. \A c \in taken : next[c] \in taken \cup {Last}
    BY <1>2, <1>4
  <2>. QED
    BY <1>1, <1>2, <1>3, <2>2, <2>3 DEF GraphInvariant, Graph!TypeOK, Edges
<1>5. CASE cursor # Last /\ cursor \in old.seen
  <2>1. reader' = [old EXCEPT !.pc = "done", !.error = "VALIDATION", !.repeated = TRUE]
    BY <1>5 DEF Graph!NextPage
  <2>2. /\ reader' \in Graph!Reader /\ reader'.pc = "done" /\ reader'.error = "VALIDATION"
    BY <1>1, <2>1 DEF Graph!Reader, Graph!Error
  <2>. QED
    BY <1>1, <1>3, <2>2 DEF GraphInvariant, Graph!TypeOK, Edges
<1>6. CASE cursor # Last /\ cursor \notin old.seen /\ old.pages + 1 = MaxPages
  <2>1. Graph!Ends("TRANSIENT_API")
    BY <1>6 DEF Graph!NextPage, Graph!Ends
  <2>. QED
    BY <1>2, <1>3, <2>1, EndingKeepsInvariant DEF Graph!Error
<1>7. CASE cursor # Last /\ cursor \notin old.seen /\ old.pages + 1 # MaxPages
  <2>1. reader' = [old EXCEPT !.after = cursor, !.seen = old.seen \cup {cursor},
                              !.pages = old.pages + 1, !.items = taken]
    BY <1>7 DEF Graph!NextPage, Graph!Taken
  <2>2. old.pages + 1 \in 0..(MaxPages - 1) /\ cursor \in Cursors
    BY <1>1, <1>7 DEF Graph!Reader, GraphAssumptions, Graph!PagesAssumption
  <2>3. /\ reader' \in Graph!Reader /\ reader'.pc = "reading" /\ reader'.after = cursor
        /\ reader'.seen = old.seen \cup {cursor} /\ reader'.pages = old.pages + 1
        /\ reader'.items = taken /\ reader'.repeated = old.repeated
    BY <1>1, <1>2, <2>1, <2>2 DEF Graph!Reader
  <2>4. Cardinality(old.seen \cup {cursor}) = old.pages + 1
    <3>1. IsFiniteSet(old.seen)
      BY <1>1, CursorsAreFinite, FS_Subset
    <3>2. cursor \notin old.seen
      BY <1>7
    <3>3. Cardinality(old.seen \cup {cursor}) = Cardinality(old.seen) + 1
      BY <3>1, <3>2, FS_AddElement
    <3>. QED
      BY <1>2, <3>3
  <2>5. taken \cup {cursor} = Graph!Follow[old.pages + 1]
    <3>1. Graph!Follow[old.pages + 1] = Further(taken, next)
      BY <1>1, <1>2, FollowIsDefined
    <3>2. cursor \in {next[c] : c \in taken} \ {Last}
      BY <1>7
    <3>3. {next[c] : c \in taken} \subseteq taken \cup {cursor}
      BY <1>2
    <3>. QED
      BY <3>1, <3>2, <3>3 DEF Further
  <2>6. \A c \in taken : next[c] \in taken \cup {cursor}
    BY <1>2
  <2>. QED
    BY <1>1, <1>2, <1>3, <2>3, <2>4, <2>5, <2>6 DEF GraphInvariant, Graph!TypeOK, Edges
<1>. QED
  BY <1>4, <1>5, <1>6, <1>7

LEMMA ReadingKeepsInvariant ==
  ASSUME GraphAssumptions, GraphInvariant, Graph!Step
  PROVE GraphInvariant'
<1>1. ASSUME NEW stored \in Graph!Stored, Graph!Credential(stored)
      PROVE GraphInvariant'
  <2>1. CASE Graph!CredentialError(stored) = "none"
    <3>1. /\ reader' = [reader EXCEPT !.pc = "reading"] /\ reader.pc = "credential"
          /\ UNCHANGED next /\ reader \in Graph!Reader
      BY <1>1, <2>1 DEF Graph!Credential, GraphInvariant, Graph!TypeOK
    <3>2. /\ reader' \in Graph!Reader /\ reader'.pc = "reading" /\ reader'.after = reader.after
          /\ reader'.seen = reader.seen /\ reader'.pages = reader.pages
          /\ reader'.items = reader.items /\ reader'.repeated = reader.repeated
      BY <3>1 DEF Graph!Reader
    <3>3. Graph!Follow' = Graph!Follow
      BY <3>1 DEF Graph!Follow
    <3>. QED
      BY <3>1, <3>2, <3>3 DEF GraphInvariant, Graph!TypeOK
  <2>2. CASE Graph!CredentialError(stored) # "none"
    <3>1. Graph!CredentialError(stored) \in Graph!Error
      BY Zenon DEF Graph!CredentialError, Graph!Error
    <3>. QED
      BY <1>1, <2>2, <3>1, EndingKeepsInvariant DEF Graph!Credential
  <2>. QED
    BY <2>1, <2>2
<1>2. ASSUME NEW answer \in Graph!Answer, Graph!Fails(answer)
      PROVE GraphInvariant'
  <2>1. Graph!ErrorOf(answer) \in Graph!Error
    <3>1. \A status, code : Graph!Classify(status, code) \in Graph!Error
      BY Zenon DEF Graph!Classify, Graph!Error
    <3>. QED
      BY <3>1, Zenon DEF Graph!ErrorOf, Graph!Error
  <2>. QED
    BY <1>2, <2>1, EndingKeepsInvariant DEF Graph!Fails
<1>3. CASE Graph!Malformed
  BY <1>3, EndingKeepsInvariant DEF Graph!Malformed, Graph!Error
<1>. QED
  BY <1>1, <1>2, <1>3, PageKeepsInvariant DEF Graph!Step

\* A list that is returned is the whole list, however many pages it has and however the
\* server orders them; and what repeats is not reported as worth a retry.
THEOREM ListsAreComplete ==
  GraphAssumptions =>
    (Graph!Spec => [](Graph!CollectedIsComplete /\ Graph!RepetitionIsNotRetried))
<1> DEFINE Whole == Graph!CollectedIsComplete /\ Graph!RepetitionIsNotRetried
<1>. SUFFICES ASSUME GraphAssumptions
              PROVE Graph!Spec => []Whole
  OBVIOUS
<1>1. Graph!Init => GraphInvariant
  <2>. SUFFICES ASSUME Graph!Init
                PROVE GraphInvariant
    OBVIOUS
  <2>1. next \in Edges /\ 0 \in 0..(MaxPages - 1)
    BY DEF Graph!Init, Edges, GraphAssumptions, Graph!PagesAssumption
  <2>2. /\ reader \in Graph!Reader /\ reader.pc = "credential" /\ reader.after = First
        /\ reader.seen = {} /\ reader.pages = 0 /\ reader.items = {} /\ ~reader.repeated
    BY <2>1 DEF Graph!Init, Graph!Reader, Graph!Error
  <2>3. Graph!Follow[0] = {First} /\ Cardinality({}) = 0
    BY <2>1, FollowIsDefined, FS_EmptySet
  <2>. QED
    BY <2>1, <2>2, <2>3 DEF GraphInvariant, Graph!TypeOK, Edges
<1>2. GraphInvariant /\ [Graph!Next]_Graph!vars => GraphInvariant'
  <2>1. ASSUME GraphInvariant, UNCHANGED <<next, reader>>
        PROVE GraphInvariant'
    BY <2>1 DEF GraphInvariant, Graph!TypeOK, Graph!Follow
  <2>. QED
    BY <2>1, ReadingKeepsInvariant DEF Graph!Next, Graph!vars
<1>3. ASSUME GraphInvariant
      PROVE Whole
  <2>1. Graph!CollectedIsComplete
    <3>. SUFFICES ASSUME reader.pc = "done", reader.error = "none"
                  PROVE reader.items = Graph!Follow[Cardinality(Cursors)]
      BY CursorsAreFinite DEF Graph!CollectedIsComplete, Graph!Reachable
    <3>1. /\ reader.pages = Cardinality(reader.seen) /\ reader.seen \subseteq Cursors
          /\ reader.items = Graph!Follow[reader.pages] /\ next \in Edges
          /\ \A c \in reader.items : next[c] \in reader.items \cup {Last}
      BY <1>3 DEF GraphInvariant, Graph!TypeOK, Graph!Reader, Edges
    <3>2. /\ reader.pages \in Nat /\ Cardinality(Cursors) \in Nat
          /\ reader.pages <= Cardinality(Cursors)
      <4>1. IsFiniteSet(Cursors)
        BY CursorsAreFinite
      <4>. QED
        BY <3>1, <4>1, FS_Subset, FS_CardinalityType
    <3>3. Further(reader.items, next) = reader.items
      BY <3>1 DEF Further
    <3>. QED
      BY <3>1, <3>2, <3>3, FollowEnds
  <2>2. Graph!RepetitionIsNotRetried
    BY <1>3 DEF GraphInvariant, Graph!RepetitionIsNotRetried, Graph!Retryable
  <2>. QED
    BY <2>1, <2>2
<1>. QED
  BY <1>1, <1>2, <1>3, PTL DEF Graph!Spec
=============================================================================
