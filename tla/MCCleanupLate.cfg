SPECIFICATION CleanSpec
CONSTANTS
  Cases = {c1, c2}
  Nobody = Nobody
  MaxRequests = 1
  MaxMishaps = 0
  MaxPushes = 0
INVARIANTS
  OnlyCompletedRemains
CHECK_DEADLOCK FALSE
