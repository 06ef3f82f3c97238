SPECIFICATION LiveSpec
CONSTANTS
  conf <- MCConf
  MaxTicks = 5
  Elapsed = {1, 2}
INVARIANTS
  TypeOK
  TrackedRecently
  GatedOnSolvedPose
PROPERTIES
  KidnapAfterRow
  PutDownAtRest
  ImplementsPoseLifecycle
  StandingReseeds
