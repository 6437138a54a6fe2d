SPECIFICATION FairSpec
CONSTANTS
  c1 = c1
  c2 = c2
  None = None
  Contexts = {c1, c2}
  Healthy = {c1}
  Keys = {1, 2}
  Requests <- MCRequests
  Ttls = {4}
  Timeout = 1
  MinInterval = 1
  MaxDelay = 1
  MaxDepth = 2
INVARIANTS
  TypeInvariant
  LeaseHeld
  HoldsMatchFrames
  WaitsInOrder
PROPERTIES
  GivenBack
  KeepsPromise
