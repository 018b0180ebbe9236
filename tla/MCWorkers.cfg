SPECIFICATION WorkersSpec
SYMMETRY Symmetry
CONSTANTS
  Jobs = {j1, j2}
  Extra = {x1}
  Idle = Idle
  MaxAttempts = 2
  MaxAwaiting = 1
  MaxGenerations = 2
  MaxManual = 1
  MaxFaults = 2
  Mutations = {m1, m2}
  note = note
  wanted = wanted
  other = other
  Targets = {note}
  Contents = {wanted, other}
  Target <- MCTarget
  Content <- MCContent
  Absent = Absent
  Executors = {e1}
  Workers = {w1, w2}
  Nobody = Nobody
  MaxFailures = 2
  MaxEdits = 1
INVARIANTS
  OneRunning
  OutputsLinked
  ClaimNeverPoisoned
  AttemptsBounded
  ReceiptHasProvenance
  ConflictIsExplained
  ResultStopsTransport
PROPERTIES
  NeverOverwrites
  ImplementsLifecycle
CHECK_DEADLOCK FALSE
