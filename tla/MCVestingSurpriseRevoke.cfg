SPECIFICATION Spec
CONSTANTS
  a1 = a1
  a2 = a2
  Account = {a1, a2}
  NoAccount = NoAccount
  Terms <- MCTerms
  RevokeDelays = {1, 2}
  Batches <- MCBatches
  MinRevokeDelay = 2
  MaxBatch = 2
  MaxU64 = 5
  MaxGrants = 2
  MaxSupply = 4
  MaxTime = 4
INVARIANT
  NoSurpriseRevoke
CHECK_DEADLOCK FALSE
