\* Three UAVs in a row: the ends find each other by what the middle one says.
SPECIFICATION FairSpec
CONSTANTS
  UAVs <- MCRow
  Sees <- MCMiddleSees
  Met <- MCMiddleMet
  MaxStart = 1
PROPERTIES
  InfectionCompletes
