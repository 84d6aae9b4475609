SPECIFICATION LoaderSpec
CONSTANTS
  PageCount = 4
  PageBytes = 2
  Word = 64
  SizeLimit = 48
  MaxTries = 4
  MaxKey = 3
  PhNumRange = 4
  Tables <- MCTables
  Headers <- MCHeaders
INVARIANT OpenVolumeFailureStops
CHECK_DEADLOCK FALSE
