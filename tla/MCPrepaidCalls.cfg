CONSTANTS
  r1 = r1
  r2 = r2
  r3 = r3
  p1 = p1
  NoCred = NoCred
  Requests = {r1, r2, r3}
  Creds = {1, 2}
  Package <- MCPackage
  Calls <- MCCalls
  ExpiresAt <- MCExpiresAt
  PurgeAge = 2
  MaxTime = 3
  MaxFaults = 1
SPECIFICATION Spec
SYMMETRY Alike
INVARIANTS
  
  
  FallbackIsUnserved
