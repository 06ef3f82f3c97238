SPECIFICATION LiveSpec
CONSTANTS
  conf <- MCConfShort
  MaxPoints = 1
  MaxLevel = 0
  BatchIds = {}
  NoId = 0
  Batches <- MCPlain
  Elapsed = {1, 2}
  StepPeriod = 1
  TimeoutPeriod = 3
  Deadman = 4
INVARIANTS
  DeadmanBound
PROPERTIES
  SilenceStops
  ComesToRest
