SPECIFICATION HostSpec
CONSTANTS
  Writers = {w1, w2}
  Names = {n1}
  Data = {d1, d2}
  NoFile = NoFile
  MaxCalls = 2
  Mutations = {m1, m2}
  note = note
  wanted = wanted
  other = other
  Targets = {note}
  Contents = {wanted, other}
  Target <- MCTarget
  Content <- MCContent
  Absent = Absent
  AwareRunners = {r1}
  PlainRunners = {p1}
  Nobody = Nobody
  MaxCrashes = 2
  MaxEdits = 2
  n1 = n1
  n2 = n2
  a = a
  b = b
  model = model
  First <- MCFirst
  Vaults <- MCVaults
  Models = {model, other_model}
  None = None
  MaxChanges = 2
  MaxManual = 1
  MaxFaults = 1
  Runs = {r_a, r_b}
  EffectWorkers = {f1}
  Owner = Owner
  Unlocked = Unlocked
  NoRun = NoRun
  MaxFailures = 2
  t1 = t1
  t2 = t2
  t3 = t3
  account = account
  account2 = account2
  path = path
  path2 = path2
  Attempts = {t1, t2, t3}
  AccountOf <- MCAccounts
  PathOf <- MCPaths
  Generations = {g1, g2}
  NoGeneration = NoGeneration
  NoClaim = NoClaim
  MaxBoots = 2
  MaxRotations = 2
INVARIANTS
  AckedIsDurable
  FinalNamesWhole
  NoResurrectedStage
  ReceiptHasProvenance
  VectorsBelong
  StopIsFinal
  EffectOnce
  Fenced
PROPERTIES
  ImplementsWriteOnce
  NeverOverwrites
  CompletedSurvivesCrash
  ResolvedNeverRuns
  ActivatedCurrent
  RefreshesInPlace
  RefreshSettles
CHECK_DEADLOCK FALSE
