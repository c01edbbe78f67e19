CONSTANTS
  r1 = r1
  r2 = r2
  NoOne = NoOne
  Requests = {r1, r2}
  Price <- MCPrice
  Funds = 3
  DailyLimit = 3
  Storing = {r1}
  MaxRetries = 2
  StaleAge = 0
  BaseBackoff = 1
  MaxAge = 2
  MaxFaults = 1
SPECIFICATION Spec
PROPERTIES
  EveryDeliveryEnds
  EveryRequestEnds
