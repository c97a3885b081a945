SPECIFICATION FairSpec
CONSTANTS
  WakeTicks = 2
  PowerTicks = 2
INVARIANTS
  AsleepIsDark
  ShownIsFresh
  NoPressLost
  StageTellsCrash
PROPERTIES
  RestartIsPressed
  AwakeEnds
