------------------------- MODULE MCCampaignHandoff -------------------------
(* Instances of CampaignHandoff for TLC. *)
EXTENDS CampaignHandoff, TLC

CONSTANTS c1, c2

\* One version of the package, submitted again and again.
Repeated == {[version |-> 1, content |-> c1]}
=============================================================================
