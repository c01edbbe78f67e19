CONSTANTS
  c1 = c1
  c2 = c2
  c3 = c3
  p1 = p1
  p2 = p2
  Calls = {c1, c2, c3}
  Procs = {p1, p2}
  Home <- MCHome
  EntriesOf <- MCEntries
  Amount <- MCAmount
  Funds = 1
  SingleLimit = 1
  MinuteLimit = 1
  MinuteCount = 1
  DailyLimit = 1
  Threshold <- MCThreshold
  Cooldown = 1
  Minute = 1
  Day = 2
  MaxTime = 2
  MaxFaults = 1
  MaxFailures = 3
SPECIFICATION Spec
INVARIANTS
  LimitsHold
  BooksAreExplained
PROPERTY
  BreakerHolds
CHECK_DEADLOCK FALSE
