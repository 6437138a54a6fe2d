SPECIFICATION Spec
CONSTANTS
  i1 = i1
  i2 = i2
  r1 = r1
  r2 = r2
  s1 = s1
  None = None
  Signers = {s1}
  SignerOf <- MCSignerOf
  Items = {i1}
  Replicas = {r1, r2}
  ClientNonces <- SomeClientNonce
  PollsToConfirm = 2
  MaxRetries = 1
  Errors = {"NONE", "NONCE_TOO_HIGH"}
  Crashes = TRUE
  DbErrors = TRUE
  MaxTrouble = 1
SYMMETRY ReplicaSymmetry
INVARIANTS
  TypeInvariant
  HashNonce
  ConfirmedIsTrue
  ProcessingHasWorker
PROPERTIES
  CancelledStays
CHECK_DEADLOCK FALSE
