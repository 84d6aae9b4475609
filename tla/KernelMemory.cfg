SPECIFICATION MainFairSpec
CONSTANTS
  FrameCount = 5
  NullFrame = 9
  MaxRequest = 2
  GarbageMaps <- MCGarbageMaps
  MemoryMaps <- MCMemoryMaps
  HeapFrames = 2
  BytesPerFrame = 2
  Addresses = 12
  GarbageBreaks = {0, 5}
  MaxIncr = 2
  MapLength = 3
  MaxPages = 4
  Types = {"kEfiConventionalMemory", "kEfiLoaderData"}
INVARIANTS
  MainTypeOK
  OnlyAvailableAllocatable
  HeapInAvailableMemory
  HeapLowest
  HaltsOnlyWithoutRoom
  InMapWhenMemoryFits
PROPERTIES
  SbrkGrantsHeap
  BootEnds
CHECK_DEADLOCK FALSE
