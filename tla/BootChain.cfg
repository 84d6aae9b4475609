SPECIFICATION ChainFairSpec
CONSTANTS
  PageCount = 4
  PageBytes = 2
  Word = 64
  SizeLimit = 48
  MaxTries = 4
  MaxKey = 2
  PhNumRange = 4
  Tables <- MCTables
  Headers <- MCHeaders
  StaleMaps <- MCStaleMaps
  GarbageMaps <- MCGarbageMaps
  NullFrame = 9
  MaxRequest = 1
  HeapFrames = 1
  BytesPerFrame = 2
  Addresses = 8
  GarbageBreaks = {0}
  MaxIncr = 0
INVARIANTS
  LoaderTypeOK
  KernelEntry
  KernelSeesTrueMap
  ImageKept
  ImageNeverAllocatable
  HeapOnUnusedMemory
PROPERTY UefiMainEnds
CHECK_DEADLOCK FALSE
