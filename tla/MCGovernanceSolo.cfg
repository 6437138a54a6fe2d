SPECIFICATION Spec
CONSTANTS
  a1 = a1
  a2 = a2
  a3 = a3
  Address = {a1, a2, a3}
  ApproverLists <- MCApproverLists
  MaxProposals = 2
  MaxDelay = 1
  MaxTime = 2
INVARIANT
  NoSingleActor
CHECK_DEADLOCK FALSE
