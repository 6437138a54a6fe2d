SPECIFICATION Spec
CONSTANTS
  o1 = o1
  o2 = o2
  o3 = o3
  Owner = {o1, o2, o3}
  Required = 2
  Limits <- MCLimits
  Values = {0, 1, 2}
  Day = 1
  Week = 2
  MaxTransactions = 2
  MaxBalance = 3
  MaxTime = 3
INVARIANTS
  TypeOK
  ConfirmationsCounted
  WindowsMatchLog
PROPERTIES
  SpendingWithinLimits
  QuorumPays
CHECK_DEADLOCK FALSE
