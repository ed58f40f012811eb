\* What ends: attempts, changes, callbacks, requests for locks, handoffs, replaced approvals.
SPECIFICATION SuiteSpec
CONSTANTS
  tenant = tenant
  campaign = campaign
  w1 = w1
  w2 = w2
  r1 = r1
  r2 = r2
  s1 = s1
  s2 = s2
  s3 = s3
  a1 = a1
  a2 = a2
  c1 = c1
  c2 = c2
  c3 = c3
  None = none
  Off = off
PROPERTIES
  PromisesAreKept
  AttemptsEngageOrSucceed
