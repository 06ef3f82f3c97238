SPECIFICATION LiveSpec
CONSTANTS
  conf <- MCConf
  MaxPoints = 2
  MaxLevel = 1
  Paths <- MCPaths
  Elapsed = {1, 2}
INVARIANTS
  TypeOK
  CompletionAgrees
  StateFitsPoint
  RetriesSinceHeading
  NoStateOutstays
  FreshFixes
  BrakeAsked
PROPERTIES
  OutcomeLatched
  NeverDrivesBlind
  PreciseArrivesSettled
  BatchEnds
