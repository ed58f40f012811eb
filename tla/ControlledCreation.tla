-------------------------- MODULE ControlledCreation --------------------------
(***************************************************************************)
(* What controlled creation promises the operator, without requests, rows, *)
(* videos or messages: for each manifest a phase and the external ids on   *)
(* record.  An id, once recorded for an operation, is there for good;      *)
(* operations are recorded one at a time, after the ones they depend on;   *)
(* only a failed attempt is followed by another, which starts from what    *)
(* was recorded; success is announced when nothing is missing.             *)
(***************************************************************************)
EXTENDS Naturals

CONSTANTS
  Manifests,
  Operations,
  Deps,      \* [Operations -> SUBSET Operations]
  Ids        \* external ids; 0 is none of them

VARIABLES
  phase,     \* [Manifests -> the status of the latest attempt]
  recorded   \* [Manifests -> [Operations -> Ids \cup {0}]]

Init ==
  /\ phase = [m \in Manifests |-> "none"]
  /\ recorded = [m \in Manifests |-> [o \in Operations |-> 0]]

Missing(m) == {o \in Operations : recorded[m][o] = 0}

\* One more operation of m gets the id of an object that is its own.
RecordOne(m) ==
  \E o \in Missing(m) :
    LET id == recorded'[m][o]
    IN  /\ Deps[o] \cap Missing(m) = {}
        /\ id \in Ids /\ \A n \in Manifests, p \in Operations : recorded[n][p] # id
        /\ recorded' = [recorded EXCEPT ![m][o] = id]

PrepareAttempt(m) ==
  /\ phase[m] \in {"none", "failed"} /\ Missing(m) # {}
  /\ phase' = [phase EXCEPT ![m] = "prepared"]
  /\ UNCHANGED recorded

Begin(m) ==
  /\ phase[m] = "prepared"
  /\ phase' = [phase EXCEPT ![m] = "running"]
  /\ UNCHANGED recorded

Record(m) ==
  /\ phase[m] \in {"running", "failed"}
  /\ RecordOne(m)
  /\ UNCHANGED phase

Fail(m) ==
  /\ phase[m] = "running"
  /\ phase' = [phase EXCEPT ![m] = "failed"]
  /\ RecordOne(m) \/ UNCHANGED recorded

Succeed(m) ==
  /\ phase[m] = "running" /\ Missing(m) = {}
  /\ phase' = [phase EXCEPT ![m] = "succeeded"]
  /\ UNCHANGED recorded

Next ==
  \E m \in Manifests :
    PrepareAttempt(m) \/ Begin(m) \/ Record(m) \/ Fail(m) \/ Succeed(m)

Spec == Init /\ [][Next]_<<phase, recorded>>
=============================================================================
