SPECIFICATION Spec
CONSTANTS
  c1 = c1
  c2 = c2
  c3 = c3
  s = s
  m = m
  Calls = {c1, c2, c3}
  Instances = {s, m}
  InstanceOf <- MCInstanceOf
  Solana = {s}
  Offers <- MCOffers
  AcceptedChains = {"solana", "base"}
  AcceptedTokens = {"USDC"}
  MaxAmountPerCall = 8
  MaxTotalSpend = 12
  Funds = 4
  Deposits = {2}
INVARIANTS
  SpendingAddsUp
  MoneyMatchesChain
PROPERTY
  PaymentWaitEnds
CHECK_DEADLOCK FALSE
