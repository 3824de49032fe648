SPECIFICATION Spec
CONSTANTS
  Node = {"u1", "u2"}
  Ahead <- MCAhead
  Asking = {"u1"}
  Second = 2
  Samples = 2
  Tolerance = 0
  MaxTime = 1
  MaxNet = 2
  MaxFaults = 1
  MaxStates = 1
INVARIANTS TypeOK OffsetWithinDelay RelayedInTime
