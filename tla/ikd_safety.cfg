SPECIFICATION Spec
CONSTANTS
  p1 = p1
  p2 = p2
  p3 = p3
  Point <- MCPoint
  SonOf <- MCSonOf
  Added <- MCAdded
  Deleted <- MCDeleted
  Box <- MCBox
  Voxel <- MCVoxel
  Searcher = {w1, w2}
  MaxOps = 3
INVARIANTS TypeOK SearchExclusion ReplayCatchesUp
PROPERTIES RebuildInvisible ImplementsPointMap
SYMMETRY Symmetric
