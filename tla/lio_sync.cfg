SPECIFICATION Spec
CONSTANTS
  LidarStep = {2, 3}
  Duration = {0, 1, 3}
  ImuStep = {2, 3}
  LoopBack = FALSE
  Garbage = {0, 5, 1000}
  MAX_INI_COUNT = 1
  MaxTime = 12
  MaxScans = 4
INVARIANTS TypeOK PairedStamp OdometryAdvances
PROPERTIES ImuOfScan FilterAtScanEnd
