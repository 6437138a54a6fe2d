SPECIFICATION FairSpec
CONSTANTS
  s1 = s1
  d1 = d1
  d2 = d2
  w1 = w1
  w2 = w2
  Subscriptions = {s1}
  Deliveries = {d1}
  SubscriptionOf <- MCSubscriptionOf
  Workers = {w1, w2}
  MaxAttempts = 3
  MaxTrouble = 2
  FailureThreshold = 1
  FailureWindow = 1
  OpenTimeout = 1
  HalfOpenMaxCalls = 1
  HalfOpenSuccessThreshold = 1
INVARIANTS
  TypeInvariant
  DeliveredWasAccepted
  GivenUpAfterAllTries
PROPERTIES
  Settles
CHECK_DEADLOCK FALSE
