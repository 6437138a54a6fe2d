SPECIFICATION FairSpec
CONSTANTS
  o1 = o1
  o2 = o2
  o3 = o3
  Owner = {o1, o2, o3}
  Required = 2
  Limits <- MCLimits
  Values = {0, 1, 2}
  Day = 1
  Week = 2
  MaxTransactions = 2
  MaxBalance = 1
  MaxTime = 1
PROPERTY
  CanBeUnfrozen
CHECK_DEADLOCK FALSE
