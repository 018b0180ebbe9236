SPECIFICATION QueuesSpec
CONSTANTS
  Requests = {r1, r2}
  Reviewed = {r1}
  MaxRecords = 9
  MaxFaults = 2
  MaxLost = 1
  Cases = {c1, c2}
  Nobody = Nobody
  MaxRequests = 1
  MaxMishaps = 1
  MaxPushes = 1
  Slots = {q1, q2}
  None = None
  MaxEvents = 3
  MaxOutages = 1
INVARIANTS
  NoCaseVanishes
PROPERTIES
  ImplementsSingleOperation
  ReceiptsStand
  AcceptedRuns
  
  EditsSurvive
  Converges
