SPECIFICATION Spec
CONSTANTS
  Jobs <- MCJobs
  Extra = {}
  Idle = Idle
  None = None
  MaxAttempts = 1
  MaxAwaiting = 2
  MaxGenerations = 1
  MaxManual = 1
  MaxFaults = 4
  Revisions = {r1, r2}
  Modes = {"legacy", "semantic"}
  HardBackpressure = 2
  TargetInflight = 2
  MaxContexts = 1
  MaxCycle = 3
  MaxClock = 4
  MaxChanges = 1
  MaxCrashes = 1
INVARIANTS
  OneGeneration
CHECK_DEADLOCK FALSE
