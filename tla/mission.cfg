SPECIFICATION FairSpec
CONSTANTS
  ids = {1, 2}
  Flyer = 1
  home <- MCHome
  takeoff_z <- MCTakeoff_z
  rect_x = 4
  rect_y = 2
  prestream_sec = 2
  arm_timeout_sec = 3
  takeoff_sec = 2
  settle_sec = 1
  leg_sec = 2
  CommandPeriod = 2
  Period = {1, 2}
  Lag = {0, 1}
  MaxDrops = 1
  MaxRestarts = 1
INVARIANTS TypeOK StreamedBeforeOffboard
PROPERTIES SpeedBound RestartInPlace MissionCompletes
