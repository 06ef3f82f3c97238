SPECIFICATION Spec
CONSTANTS
  conf <- MCConf
  MaxPoints = 2
  MaxLevel = 0
  BatchIds = {1}
  NoId = 0
  Batches <- MCBatches
  Elapsed = {1}
  StepPeriod = 2
  TimeoutPeriod = 1
  Deadman = 0
INVARIANTS
  TypeOK
  OneWriter
  BrakeHeld
PROPERTIES
  MotorsFollowMode
  ImplementsBatchLifecycle
