SPECIFICATION ServicesSpec
CONSTANTS
  first = first
  second = second
  note1 = note1
  note2 = note2
  wanted = wanted
  other = other
  Mutations = {first, second}
  Targets = {note1, note2}
  Contents = {wanted, other}
  Target <- MCTarget
  Content <- MCContent
  Order <- MCOrder
  Absent = Absent
  Executor = e1
  Worker = w1
  Executors = {e1}
  Workers = {w1}
  Nobody = Nobody
  MaxItems = 1
  MaxFailures = 1
  MaxEdits = 1
  Jobs = {j1, j2}
  Extra = {x1}
  Idle = Idle
  MaxAttempts = 2
  MaxAwaiting = 1
  MaxFaults = 2
PROPERTIES
  ApprovedSettles
  CurrentSettles
CHECK_DEADLOCK FALSE
