CONSTANTS
  Targets = {tenant, campaign}
  Tenant = tenant
  Campaign = campaign
  Workers = {w1}
  NumOps = 2
  Creatives = {}
  Videos = {}
  Deps <- MCDeps
  MaxManifests = 1
  MaxAttempts = 2
  MaxVersion = 3
  MaxCrashes = 0
  MaxActivations = 0
SPECIFICATION Spec
INVARIANTS
  UnknownOutcomeNotRetried
