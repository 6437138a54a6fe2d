SPECIFICATION Spec
CONSTANTS
  c1 = c1
  c2 = c2
  c3 = c3
  c4 = c4
  Call = {c1, c2, c3, c4}
  FailureThreshold = 3
  FailureWindow = 2
  OpenTimeout = 3
  HalfOpenMaxCalls = 2
  HalfOpenSuccessThreshold = 3
INVARIANTS
  TypeOK
  FieldsAgree
  SlotsAreHeld
PROPERTIES
  LateResultsLeaveOpenAlone
  Recovers
