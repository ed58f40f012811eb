--------------------------- MODULE OperatorRoles ---------------------------
(***************************************************************************)
(* The tenants of operators, the roles they have in them, what each role   *)
(* permits, and the permission that each operation asks for.               *)
(***************************************************************************)

CONSTANTS
  Tenants,
  None      \* no tenant, no role, no name, no row

Preparing == {"view_workspace", "manage_campaign_preparation", "request_approval",
              "manage_execution_preflight"}

Permissions ==
  [owner    |-> Preparing \cup {"decide_approval", "decide_execution_authorization",
                                "manage_kill_switch", "prepare_write_validation",
                                "configure_tenant"},
   operator |-> Preparing,
   viewer   |-> {"view_workspace"}]

Roles == DOMAIN Permissions

CampaignOperations ==
  {"createCampaignContext", "updateCampaignContext", "generateExecutionPlan",
   "evaluateReadiness", "bindExecutionTarget", "appendCreativePackage",
   "requestPlanApproval", "approveCreativePackage", "decidePlanApproval"}

CampaignPermission(o) ==
  CASE o = "requestPlanApproval" -> "request_approval"
    [] o \in {"approveCreativePackage", "decidePlanApproval"} -> "decide_approval"
    [] OTHER -> "manage_campaign_preparation"

ExecutionOperations ==
  {"prepareExecutionManifest", "requestExecutionAuthorization", "runExecutionPreflight",
   "decideExecutionAuthorization", "executeMetaPausedCreation", "changeKillSwitch",
   "prepareMetaWriteValidation"}

ExecutionPermission(o) ==
  CASE o \in {"decideExecutionAuthorization", "executeMetaPausedCreation"}
         -> "decide_execution_authorization"
    [] o = "changeKillSwitch" -> "manage_kill_switch"
    [] o = "prepareMetaWriteValidation" -> "prepare_write_validation"
    [] OTHER -> "manage_execution_preflight"

MetaOperations ==
  {"startOAuth", "requestAdsManagement", "selectAssets", "discoverAssets",
   "validateCapabilities", "smokeTest"}

PackageOperations == {"submit", "submitAutoResolved", "getStatus", "getStatusAutoResolved"}

\* Any active membership may read.
ReadOperations == {"listTenants", "latestCreativePackage", "effectiveKillSwitch",
                   "getPlanApproval"}

\* The permission an operation asks for.
RequiredBy ==
  [o \in CampaignOperations \cup ExecutionOperations \cup MetaOperations
           \cup PackageOperations \cup ReadOperations |->
     CASE o \in CampaignOperations -> CampaignPermission(o)
       [] o \in ExecutionOperations -> ExecutionPermission(o)
       [] o \in MetaOperations -> "configure_tenant"
       [] o \in PackageOperations -> "manage_campaign_preparation"
       [] o \in ReadOperations -> "view_workspace"]

\* These make a second change of their own after the one they are named for.
Twice == {"requestPlanApproval", "approveCreativePackage", "appendCreativePackage",
          "decidePlanApproval", "prepareMetaWriteValidation", "startOAuth"}

\* Changes nothing but the audit.
Reads == ReadOperations \cup {"getStatus", "getStatusAutoResolved"}

\* These find the tenant themselves.
Unaddressed == {"listTenants", "submitAutoResolved", "getStatusAutoResolved"}
=============================================================================
