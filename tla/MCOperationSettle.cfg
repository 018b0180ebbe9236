SPECIFICATION Spec
CONSTANTS
  Requests = {r1, r2}
  Reviewed = {r1}
  MaxRecords = 9
  MaxFaults = 0
  MaxLost = 0
INVARIANTS
  ExecutedHasResult
