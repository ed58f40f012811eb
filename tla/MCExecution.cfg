\* Two workers and two attempts; three attempts with a video; more changes of the switches.
SPECIFICATION SuiteSpec
CONSTANTS
  Targets = {tenant, campaign}
  Tenant = tenant
  Campaign = campaign
  w1 = w1
  Workers = {w1, w2}
  NumOps = 2
  Creatives = {1}
  Videos = {1}
  Deps <- MCDeps
  MaxManifests = 1
  MaxAttempts = 2
  MaxVersion = 2
  MaxCrashes = 0
  MaxActivations = 1
  Off = off
INVARIANTS
  TypeOK
  OneExecutorPerManifest
  AttemptsFormAChain
  EffectsAreAccountedFor
  EffectsAreTracked
PROPERTIES
  AttemptsOnlyAdvance
  KeepsThePromise
SYMMETRY Symmetry
