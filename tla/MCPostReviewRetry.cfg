SPECIFICATION Spec
CONSTANTS
  Jobs = {j1}
  Extra = {}
  Idle = Idle
  MaxAttempts = 2
  MaxAwaiting = 2
  MaxGenerations = 1
  MaxManual = 0
  MaxFaults = 2
  Mutation <- FirstIsThird
  Digest <- LaterFirst
  MaxItems = 1
  Nothing = Nothing
INVARIANTS
  UnselectedNeverReviewed
CHECK_DEADLOCK FALSE
