SPECIFICATION FairSpec
CONSTANTS
  FrameCount = 4
  NullFrame = 9
  MaxRequest = 3
  GarbageMaps <- MCGarbageMaps
INVARIANTS
  TypeOK
  ScanSound
PROPERTIES
  NoDoubleGrant
  SearchEnds
  ImplementsFirstFit
