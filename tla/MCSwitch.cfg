\* Three concurrent changes and one reading over two connections; two operators and their
\* gates; preflights while gates change.
SPECIFICATION SuiteSpec
CONSTANTS
  Changes = {c1, c2, c3}
  Readings = {r1}
  Tenant = tenant
  Campaign = campaign
  Connections = 2
  MaxVersion = 3
  q1 = q1
  Requests = {q1, q2}
  Operations = {"prepare", "confirm", "preflight"}
  MaxAuthorizations = 1
  MaxAttempts = 2
  MaxChanges = 2
  Changing <- AllChanging
INVARIANTS
  TypeOK
  AuditMirrorsLedger
  ReleasedIsNotBlocked
  CreationIsGated
  PreflightsAreExplained
PROPERTIES
  AnsweredChangeInForce
  ImplementsLedger
SYMMETRY Symmetry
