SPECIFICATION Spec
CONSTANTS
  Jobs = {j1}
  Extra = {}
  Idle = Idle
  MaxAttempts = 2
  MaxAwaiting = 2
  MaxGenerations = 3
  MaxManual = 2
  MaxFaults = 1
  Mutation <- FirstIsThird
  Digest <- LaterFirst
  MaxItems = 1
  Nothing = Nothing
INVARIANTS
  EndingsEarned
  ReviewAsked
PROPERTIES
  AnswerArrives
CHECK_DEADLOCK FALSE
