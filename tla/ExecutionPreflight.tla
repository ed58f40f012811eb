------------------------ MODULE ExecutionPreflight -------------------------
(***************************************************************************)
(* The gates of an execution, and the preflight as a function of the gates *)
(* that it saw open.                                                       *)
(***************************************************************************)
EXTENDS Naturals, FiniteSetsExt

\* The switches; the manifest is the latest; the plan is the campaign's latest and its
\* approval stands; the connection is usable; one Page and one WhatsApp are selected.
Stored == {"tenant", "campaign", "manifest", "plan", "approval", "connection",
           "page", "whatsapp"}
\* What Meta answers: it knows the token, the ad account, the selected Page and
\* WhatsApp, the permissions and the cities.
AtMeta == {"identity", "account", "pageSeen", "whatsappSeen", "permissions", "geography"}
\* The plan names an ad account; the write adapter is enabled: neither changes.
Fixed == {"target", "adapter"}

Gates == Stored \cup AtMeta \cup Fixed

\* The diagnostic stops at the first of these that is closed.
Diagnosed == <<"connection", "identity", "target", "account", "page", "whatsapp",
               "pageSeen", "whatsappSeen", "permissions">>

\* failureCode, named after the gate.
FailureCode(seen) ==
  LET closed == {i \in DOMAIN Diagnosed : Diagnosed[i] \notin seen}
  IN  IF closed = {} THEN "none" ELSE Diagnosed[Min(closed)]

TargetReady(seen) == {"target", "connection", "page", "whatsapp"} \subseteq seen

\* The checks and the facts each of them rests on.
Needs ==
  [manifest_current |-> {"manifest"},
   specific_execution_authorization |-> {"authorization"},
   tenant_kill_switch |-> {"tenant"},
   campaign_kill_switch |-> {"campaign"},
   meta_geography_resolved |-> {"geography", "target", "connection", "page", "whatsapp"},
   real_meta_write_validation |->
     {"protocol"} \cup {Diagnosed[i] : i \in DOMAIN Diagnosed},
   write_adapter_enabled |-> {"adapter"}]

Checks == DOMAIN Needs

Blockers(seen) == {c \in Checks : ~(Needs[c] \subseteq seen)}
=============================================================================
