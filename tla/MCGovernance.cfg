SPECIFICATION Spec
CONSTANTS
  a1 = a1
  a2 = a2
  a3 = a3
  Address = {a1, a2, a3}
  ApproverLists <- MCApproverLists
  MaxProposals = 2
  MaxDelay = 1
  MaxTime = 2
INVARIANTS
  TypeOK
  ApprovalEvidence
  ThresholdDecides
PROPERTIES
  DecisionsAreFinal
  TermsAreFixed
  KeepsPromise
CHECK_DEADLOCK FALSE
