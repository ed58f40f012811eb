CONSTANTS
  Targets = {tenant, campaign}
  Tenant = tenant
  Campaign = campaign
  Workers = {w1}
  NumOps = 1
  Creatives = {}
  Videos = {}
  Deps <- MCDeps
  MaxManifests = 2
  MaxAttempts = 1
  MaxVersion = 3
  MaxCrashes = 0
  MaxActivations = 0
SPECIFICATION Spec
INVARIANTS
  EffectCreatedOncePerPlan
