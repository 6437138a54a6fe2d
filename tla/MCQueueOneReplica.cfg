SPECIFICATION FairSpec
CONSTANTS
  i1 = i1
  i2 = i2
  r1 = r1
  r2 = r2
  s1 = s1
  None = None
  Signers = {s1}
  SignerOf <- MCSignerOf
  Items = {i1, i2}
  Replicas = {r1}
  ClientNonces <- NoClientNonce
  PollsToConfirm = 2
  MaxRetries = 2
  Errors = {"NONE", "NONCE_TOO_HIGH"}
  Crashes = TRUE
  DbErrors = TRUE
  MaxTrouble = 2
INVARIANTS
  RecordedShareNonce
  FreshNoncesDistinct
PROPERTIES
  Settles
CHECK_DEADLOCK FALSE
