\* Two requests take a campaign from its context to dry runs and decide about its plans; an
\* advance beside a person.
SPECIFICATION SuiteSpec
CONSTANTS
  r1 = r1
  good = good
  Requests = {r1, r2}
  Contexts = {1}
  Targets = {t1}
  Contents = {good, bad}
  CleanContents = {good}
  Operations = {"generate", "bind", "append", "approveCreative", "request", "approve", "simulate"}
  Failures = FALSE
  MaxBuilds = 4
  MaxVersions = 1
  MaxApprovals = 1
  NoTarget = none
  Advances = {}
  Analyses = {}
  NoAnalysis = noAnalysis
INVARIANTS
  TypeOK
  ReadyWasDecided
  ReviewedWasApproved
  StoredOnce
  OrchestratorWaitsForPeople
PROPERTIES
  DecisionsAreFinal
SYMMETRY Symmetry
