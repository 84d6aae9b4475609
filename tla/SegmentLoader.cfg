SPECIFICATION SegFairSpec
CONSTANTS
  PageCount = 4
  PageBytes = 2
  Word = 64
  SizeLimit = 48
  MaxTries = 4
  MaxKey = 3
  PhNumRange = 4
  Tables <- MCTables
  Headers <- MCHeaders
  Addresses = {0, 1, 2, 4}
  Sizes = {0, 1, 3, 6, 50}
INVARIANTS
  TriesSound
  ImageOwned
  ImageCopied
  HaltsOnlyForHugeSegment
PROPERTY LoadEnds
CHECK_DEADLOCK FALSE
