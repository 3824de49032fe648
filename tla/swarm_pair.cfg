\* Two UAVs that restart: each finds the other's frame, and only the last one.
SPECIFICATION FairSpec
CONSTANTS
  UAVs <- MCPair
  Sees <- MCPairSees
  Met <- MCNobodyMet
  MaxStart = 3
INVARIANTS
  TypeOK
  NoStaleExtrinsic
  FoundAllTracked
PROPERTIES
  FoundForGood
