SPECIFICATION Spec
CONSTANTS
  Lidars = 2
  Listed <- MCBothListed
  Asked <- MCAsked
  Refused <- MCOneRefused
  Frame <- MCFrame
  Free = Free
  Size = 2
  Width = 4
  MaxInfo <- MCReconnecting
INVARIANTS TypeOK NoOrphanedSetting
PROPERTY ImplementsFrameQueue
CHECK_DEADLOCK FALSE
