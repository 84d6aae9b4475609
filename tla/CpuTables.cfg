SPECIFICATION TablesSpec
CONSTANTS
  Half = 256
  Quarter = 16
  FirmwareSelectors = {8, 16, 24, 56}
  IntDefault = 1048879
  IntSegFault = 1049900
  Vectors = {0, 2, 12, 13, 19, 20, 21}
  Entries = 16
  kPageDirectoryCount = 9
  Garbage = Garbage
  Unmapped = Unmapped
INVARIANT IdentityMap
PROPERTY ImplementsKernelBoot
CHECK_DEADLOCK FALSE
