CONSTANTS
  b1 = b1
  b2 = b2
  c1 = c1
  NoTx = NoTx
  Buys = {b1, b2}
  Recovers = {c1}
  MaxAttempts = 2
  MaxPosts = 2
  PendingAge = 0
  PurgeAge = 0
  MaxTime = 1
  MaxFaults = 2
SPECIFICATION Spec
SYMMETRY Alike
INVARIANTS
  TypeOK
  
  CredentialIsPaid
  PaidIsInSight
