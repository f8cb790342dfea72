CONSTANTS
  r1 = r1
  r2 = r2
  Requests = {r1,r2}
  MaxDays = 3
  FullMax = 1
  BatchSize = 2
  MaxRetries = 1
  Threshold = 2
  MaxFaults = 4
  MaxCancels = 1
  ResetTimeout = 2
SPECIFICATION LiveSpec
INVARIANTS CircuitHonest PlanIsWhole
PROPERTIES GenerationEnds CircuitRecovers
CHECK_DEADLOCK FALSE
