\* Two callbacks of an authorization; the assets of a connection; the Analyst of a campaign.
SPECIFICATION SuiteSpec
CONSTANTS
  Requests = {r1, r2}
  Faults = {"fail", "crash"}
  MaxFaults = 2
  MaxAttempts = 3
  a1 = a1
  a2 = a2
  page1 = page1
  phone1 = phone1
  c1 = c1
  c2 = c2
  c3 = c3
  c4 = c4
  None = none
  Off = off
INVARIANTS
  TypeOK
  OneCredentialPerAttempt
  CredentialInUseIsLive
  SecretsLeftAreExplained
PROPERTIES
  NoDowngrade
  KeepsCustody
  ConnectionIsWhole
  AnalystAgrees
SYMMETRY Symmetry
