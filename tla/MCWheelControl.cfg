SPECIFICATION LiveSpec
CONSTANTS
  conf <- MCConf
  StillTicks = 2
  SpeedPerCount = 2
  Setpoints <- MCSetpoints
  Counts <- MCCounts
  Elapsed = {1, 2}
INVARIANTS
  TypeOK
  StalledCoasts
PROPERTIES
  StallJustified
  StallLasts
  HeldLetsGo
