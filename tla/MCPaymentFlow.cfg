CONSTANTS
  r1 = r1
  r2 = r2
  NoOne = NoOne
  Requests = {r1, r2}
  Price <- MCPrice
  Funds = 5
  DailyLimit = 5
  Storing = {r1, r2}
  MaxRetries = 1
  StaleAge = 0
  BaseBackoff = 1
  MaxAge = 2
  MaxFaults = 1
SPECIFICATION Spec
INVARIANTS
  TypeOK
  LedgerLeadsOrder
  ProofIsReal
  SuccessMeansServed
  ReturnsConsistent
