SPECIFICATION Spec
CONSTANTS
  FrameCount = 4
  NullFrame = 9
  MaxRequest = 3
  GarbageMaps <- MCGarbageMaps
PROPERTY FreeReleases
