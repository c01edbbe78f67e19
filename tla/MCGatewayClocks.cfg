CONSTANTS
  n1 = n1
  n2 = n2
  n3 = n3
  c1 = c1
  c2 = c2
  c3 = c3
  NaN = NaN
  Nonces = {n1, n2, n3}
  Stamps <- MCStamps
  Window = 1
  MaxCache = 2
  MaxTime = 6
  Callers = {c1, c2, c3}
  MaxRequests = 2
  RateWindow = 2
  MaxKeys = 2
  ReplayWindow = 1
  Grace = 10
  OrderAge = 1
  OrderBackoff = 1
  PollInterval = 1
  SendTimeout = 1
  OrderRetries = 5
  MaxPayTime = 3
  MinChances = 2
SPECIFICATION ClocksSpec
SYMMETRY Alike
INVARIANTS
  MessageOnce
  TableIsRecent
  DoorIsFair
  EnoughChances
CHECK_DEADLOCK FALSE
