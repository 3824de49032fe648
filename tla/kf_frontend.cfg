SPECIFICATION Spec
CONSTANTS
  World <- MCWorld
  Views <- MCViews
  Moves <- MCMoves
  Steps = {1, 2}
  SyncTolerance = 1
  TMin = 2
  TMax = 3
  DMin = 1
  DThresh = 1
  YawMin = 1
  YawThresh = 1
  SubmapWindow = 1
  RangeMin = 1
  RangeMax = 4
  BodyExclusionRadius = 2
  MaxPoints = 2
  ClockRestarts = TRUE
  MaxScans = 4
  MaxRestarts = 1
CHECK_DEADLOCK FALSE
INVARIANTS TypeOK KeyframesSpaced IdsContiguous KeyframeCloudSeen SubmapOfOneRun
