SPECIFICATION FairSpec
CONSTANTS
  Lidars = 2
  Listed <- MCListed
  Asked <- MCAsked
  Refused <- MCRefused
  Frame <- MCOneFrame
  Free = Free
  Size = 2
  Width = 4
  MaxInfo <- MCInfo
PROPERTIES NoMissedWakeup LidarsHeard ExitEnds
CHECK_DEADLOCK FALSE
