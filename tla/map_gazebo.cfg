SPECIFICATION Spec
CONSTANTS
  cube_len = 200
  det_range = 100
  Step = 20
  Reach <- MCReach
INVARIANT ViewKept
