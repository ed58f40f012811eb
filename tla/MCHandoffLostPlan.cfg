\* The same package again after an interruption.
SPECIFICATION Spec
CONSTANTS
  c1 = c1
  c2 = c2
  Requests = {r1}
  Operations = {"submit"}
  Contents = {c1, c2}
  Lacking = {c2}
  Accounts = {a1}
  NoAccount = none
  Drafts <- Repeated
  OneByOne = TRUE
  MaxStarts = 3
  MaxFailures = 1
  MaxSelections = 0
INVARIANT
  AcceptedPlanCarriesThePackage
