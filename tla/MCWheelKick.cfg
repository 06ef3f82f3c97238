SPECIFICATION Spec
CONSTANTS
  conf <- MCConf
  StillTicks = 2
  SpeedPerCount = 2
  Setpoints <- MCSetpoints
  Counts <- MCCounts
  Elapsed = {1, 2}
PROPERTIES
  StandingKicks
