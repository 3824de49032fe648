SPECIFICATION FairSpec
CONSTANTS
  p1 = p1
  p2 = p2
  p3 = p3
  Point <- MCPoint
  SonOf <- MCSonOf
  Added <- MCAdded
  Deleted <- NoPoint
  Box <- MCBox
  Voxel <- MCVoxel
  Searcher = {w1}
  MaxOps = 2
PROPERTIES RebuildCompletes RequestCompletes SearchesComplete
