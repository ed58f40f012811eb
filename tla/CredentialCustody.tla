------------------------- MODULE CredentialCustody -------------------------
(***************************************************************************)
(* What becomes of a secret that an authorization puts in the vault: the   *)
(* callback holds it until it is in use, revoked or owed a revocation; a   *)
(* secret in use is only ever replaced.                                    *)
(***************************************************************************)
CONSTANT Secrets

VARIABLE custody

Custody == {"none", "held", "used", "replaced", "revoked", "owed", "abandoned"}

Init == custody = [s \in Secrets |-> "none"]

Store(s) == custody[s] = "none" /\ custody' = [custody EXCEPT ![s] = "held"]

\* At most one secret is in use: the one before it, if any, is replaced.
Use(s) ==
  /\ custody[s] = "held"
  /\ custody' = [t \in Secrets |->
       IF t = s THEN "used" ELSE IF custody[t] = "used" THEN "replaced" ELSE custody[t]]

\* abandoned: the callback ended without any of the others.
Release(s) ==
  /\ custody[s] = "held"
  /\ \E end \in {"revoked", "owed", "abandoned"} : custody' = [custody EXCEPT ![s] = end]

Next == \E s \in Secrets : Store(s) \/ Use(s) \/ Release(s)

Spec == Init /\ [][Next]_custody
=============================================================================
