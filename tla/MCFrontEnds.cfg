CONSTANTS
  h = h
  b = b
  x = x
  p1 = p1
  p2 = p2
  p3 = p3
  s1 = s1
  s2 = s2
  Calls = {h, b, x}
  KindsOf <- MCKindsOf
  MaxDepth = 2
  MaxGenerations = 2
  MaxFailures = 1
  Requests = {p1, p2, p3}
  Tunnels = {p3}
  Starts = {s1, s2}
  MaxStops = 2
  TopUp = 2
SPECIFICATION FrontSpec
INVARIANTS
  StateIsTrue
  PaidIsAnswered
  
CHECK_DEADLOCK FALSE
