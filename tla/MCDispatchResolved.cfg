SPECIFICATION DispatchSpec
CONSTANTS
  first = first
  second = second
  note1 = note1
  note2 = note2
  wanted = wanted
  other = other
  Mutations = {first, second}
  Targets = {note1, note2}
  Contents = {wanted, other}
  Target <- MCTarget
  Content <- MCContent
  Order <- MCOrder
  Absent = Absent
  Executor = e1
  Worker = w1
  Executors = {e1}
  Workers = {w1}
  Nobody = Nobody
  MaxItems = 1
  MaxFailures = 1
  MaxEdits = 1
PROPERTIES
  StopsOnlyForRecovery
CHECK_DEADLOCK FALSE
