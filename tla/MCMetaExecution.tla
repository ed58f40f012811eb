--------------------------- MODULE MCMetaExecution ---------------------------
(* Instances of MetaExecution for TLC. *)
EXTENDS MetaExecution

\* A creative refers to nothing, a campaign is first, and an ad set or an ad
\* refers to the objects before it.
MCDeps == [o \in Ops |-> IF o \in Creatives THEN {} ELSE 1..(o - 1)]
=============================================================================
