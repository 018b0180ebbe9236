SPECIFICATION Spec
CONSTANTS
  Mutations = {m1}
  note = note
  wanted = wanted
  other = other
  Targets = {note}
  Contents = {wanted, other}
  Target <- MCTarget
  Content <- MCContent
  Absent = Absent
  Executors = {e1}
  Workers = {w1}
  Nobody = Nobody
  MaxFailures = 1
  MaxEdits = 1
PROPERTIES
  NextPutIsRefused
CHECK_DEADLOCK FALSE
