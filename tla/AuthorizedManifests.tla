------------------------ MODULE AuthorizedManifests ------------------------
(***************************************************************************)
(* What execution authorization promises the executor: a manifest is       *)
(* authorized only while it is the latest of its plan, and stays so until  *)
(* somebody, or something, ends it.  Module ExecutionAuthorization shows   *)
(* that the rows and requests of the code implement this module, and       *)
(* MetaExecution composes it with the executor.                            *)
(***************************************************************************)
EXTENDS Naturals

CONSTANT MaxManifests   \* bound: manifests generated for the plan

Manifests == 1..MaxManifests

VARIABLES
  manifests,    \* number of manifests generated so far: the last is the latest
  authorized    \* the manifests with an approved authorization

AuthorizedInit == manifests = 0 /\ authorized = {}

\* execution-manifest prepare: ready evidence not seen before makes a new
\* manifest, which becomes the plan's latest.
NewManifest ==
  /\ manifests < MaxManifests
  /\ manifests' = manifests + 1
  /\ UNCHANGED authorized

\* Approving takes the latest manifest.
Grant(m) ==
  /\ m = manifests /\ m \notin authorized
  /\ authorized' = authorized \cup {m}
  /\ UNCHANGED manifests

\* The authorization is revoked, expires, or is found superseded.
Withdraw(m) ==
  /\ m \in authorized
  /\ authorized' = authorized \ {m}
  /\ UNCHANGED manifests

AuthorizedNext ==
  \/ NewManifest
  \/ \E m \in Manifests : Grant(m) \/ Withdraw(m)

AuthorizedSpec == AuthorizedInit /\ [][AuthorizedNext]_<<manifests, authorized>>
=============================================================================
