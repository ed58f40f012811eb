\* A package from its submission to the objects of its plan; the evidence for a manifest.
SPECIFICATION SuiteSpec
CONSTANTS
  r1 = r1
  a1 = a1
  c1 = c1
  c2 = c2
  Requests = {r1, r2}
  Operations = {"submit", "update", "generate", "revise", "bind"}
  Contents = {c1, c2}
  Lacking = {c2}
  Accounts = {a1, a2}
  NoAccount = none
  Drafts <- Rewritten
  OneByOne = FALSE
  MaxStarts = 4
  MaxFailures = 1
  MaxSelections = 1
  Off = off
  Evaluations = {r1, r2}
  Failures = TRUE
  MaxReports = 3
  MaxChanges = 2
INVARIANTS
  HandoffIsKept
  ObjectsCanBeCreated
  EvidenceIsShared
SYMMETRY Symmetry
