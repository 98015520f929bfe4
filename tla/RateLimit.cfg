SPECIFICATION Spec
CONSTANTS
  address = address
  ip = ip
  Counters <- MCCounters
  MaxOf <- MCMaxOf
  WindowOf <- MCWindowOf
  Charges <- MCCharges
  LongestWindow = 2
  Second = 2
  Requests = {r1, r2}
  MaxDelay = 2
  MaxTime = 9
  MaxCalls = 4
SYMMETRY Symmetry
CHECK_DEADLOCK FALSE
INVARIANTS CeilingHolds RefusalIsHonest RateInv
PROPERTIES SweptWindowsAreOver
