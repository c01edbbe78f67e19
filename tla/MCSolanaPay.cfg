CONSTANTS
  a = a
  b = b
  Pays = {a, b}
  LastIndex = 1
  MaxRetries = 2
  MaxSigns = 2
  MaxQueries = 1
SPECIFICATION Spec
INVARIANTS
  PaymentIsHonest
  EndpointsAreTried
PROPERTY
  EveryPayEnds
CHECK_DEADLOCK FALSE
