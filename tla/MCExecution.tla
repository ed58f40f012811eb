---------------------------- MODULE MCExecution ----------------------------
(***************************************************************************)
(* Instances of MetaExecution for TLC.  One machine runs in each           *)
(* behaviour: part says which, and the variables of the other one never    *)
(* change.                                                                 *)
(***************************************************************************)
EXTENDS MetaExecution, TLC

CONSTANTS
  w1,   \* a worker
  Off   \* the value of the variables of a machine that stands still

VARIABLES
  part,  \* the machine that runs; the others stand still
  \* those of MetaExecution
  otherLedger, otherManifests, otherAuthorized, otherProtocols, otherObjects, otherWorker,
  otherCrashes

\* A creative refers to nothing, a campaign is first, and an ad set or an ad
\* refers to the objects before it.
DepsOf(ops, creatives) == [o \in ops |-> IF o \in creatives THEN {} ELSE 1..(o - 1)]

MCDeps == DepsOf(Ops, Creatives)
PlainDeps == DepsOf(1..2, {})
VideoDeps == DepsOf(1..3, {2})

-----------------------------------------------------------------------------
(* The machines.  The one that is extended creates a video first and then  *)
(* a campaign, in two attempts, while an operator changes the switches and *)
(* activates an object at Meta.                                            *)

otherVars ==
  <<otherLedger, otherManifests, otherAuthorized, otherProtocols, otherObjects, otherWorker,
      otherCrashes>>

OtherOff ==
  /\ otherLedger = Off /\ otherManifests = Off /\ otherAuthorized = Off
  /\ otherProtocols = Off /\ otherObjects = Off /\ otherWorker = Off /\ otherCrashes = Off

\* One worker and three attempts: a campaign, a creative with a video, and an ad; the
\* worker may die in the middle.
Video == INSTANCE MetaExecution WITH
  MaxManifests <- 1, Workers <- {w1}, NumOps <- 3, Creatives <- {2}, Videos <- {2},
  Deps <- VideoDeps, MaxVersion <- 5, MaxAttempts <- 3, MaxCrashes <- 1, MaxActivations <- 0,
  ledger <- otherLedger, manifests <- otherManifests, authorized <- otherAuthorized,
  protocols <- otherProtocols, objects <- otherObjects, worker <- otherWorker,
  crashes <- otherCrashes

\* Two objects with a lifecycle, and more changes of the switches.
Plain == INSTANCE MetaExecution WITH
  MaxManifests <- 1, NumOps <- 2, Creatives <- {}, Videos <- {}, Deps <- PlainDeps,
  MaxVersion <- 3, MaxAttempts <- 2, MaxCrashes <- 0, MaxActivations <- 0,
  ledger <- otherLedger, manifests <- otherManifests, authorized <- otherAuthorized,
  protocols <- otherProtocols, objects <- otherObjects, worker <- otherWorker,
  crashes <- otherCrashes

ASSUME MachineAssumptions ==
  /\ Video!SwitchAssumption /\ Video!OperationAssumption /\ Video!BoundAssumption
  /\ Plain!SwitchAssumption /\ Plain!OperationAssumption /\ Plain!BoundAssumption

-----------------------------------------------------------------------------

SuiteInit ==
  \/ part = "execution" /\ Init /\ OtherOff
  \/ part = "video" /\ Init /\ Video!Init
  \/ part = "plain" /\ Init /\ Plain!Init

SuiteNext ==
  \/ part = "execution" /\ Next /\ UNCHANGED <<part, otherVars>>
  \/ part = "video" /\ Video!Next /\ UNCHANGED <<part, vars>>
  \/ part = "plain" /\ Plain!Next /\ UNCHANGED <<part, vars>>

SuiteSpec == SuiteInit /\ [][SuiteNext]_<<part, vars, otherVars>>

Symmetry == Permutations(Workers)

-----------------------------------------------------------------------------
(* Properties.                                                             *)

\* Through three attempts and a death of the worker no effect that Meta answered is asked
\* for again, no object is created before those it refers to, every one that was answered
\* is tracked and success means every object (reconcileFailedAttempt, prepareProtocol); so
\* also with two workers and no creative, of which one at a time executes.
EffectsAreTracked ==
  /\ part = "video" => Video!EffectsAreAccountedFor
  /\ part = "plain" => /\ Plain!OneExecutorPerManifest /\ Plain!AttemptsFormAChain
                       /\ Plain!EffectsAreAccountedFor
=============================================================================
