\* Two concurrent requests over two manifests, across an expiry; requests for any operation,
\* two of them about a package; the views of an operator.
SPECIFICATION SuiteSpec
CONSTANTS
  r1 = r1
  Requests = {r1, r2}
  Validity = 2
  MaxManifests = 2
  MaxAuthorizations = 2
  MaxTime = 3
  a = a
  b = b
  n1 = n1
  ca = ca
  cb = cb
  cc = cc
  None = none
  Tenants = {a, b}
  Calls = {r1, r2}
  Operations = {"generateExecutionPlan", "appendCreativePackage", "requestPlanApproval",
                "approveCreativePackage", "prepareExecutionManifest",
                "executeMetaPausedCreation", "changeKillSwitch",
                "prepareMetaWriteValidation", "startOAuth", "selectAssets", "submit",
                "submitAutoResolved", "getStatus", "getStatusAutoResolved", "listTenants",
                "getPlanApproval"}
  Names = {n1, n2}
  Packages = {p1}
  Tokens = {"t1", "t2"}
  Environments <- AllEnvironments
  MaxChanges = 2
  Readings = {r1, r2}
  Kinds = {"portfolio", "workQueue", "plans", "contexts", "readiness", "timeline"}
  Campaigns = {ca, cb, cc}
  TenantOf <- OfWhom
  Decisions <- AllDecisions
  Limit = 1
  TicksPerDay = 1
  MaxVersions = 2
  MaxTicks = 1
  MaxEvents = 2
  MaxOthers = 4
INVARIANTS
  TypeOK
  OnlyNewestActive
  RequestedIsUsable
  ViewsAreSound
PROPERTIES
  DecisionsAreFinal
  ImplementsAuthorized
  AccessIsSound
SYMMETRY Symmetry
