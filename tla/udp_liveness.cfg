SPECIFICATION FairSpec
CONSTANTS
  Node = {"u1", "u2"}
  Ahead <- MCAhead
  Asking = {"u1"}
  Second = 1
  Samples = 1
  Tolerance = 0
  MaxTime = 1
  MaxNet = 1
  MaxFaults = 1
  MaxStates = 0
PROPERTY SyncsForGood
