SPECIFICATION BootSpec
CONSTANT Vectors = {0, 2, 12, 13, 14, 19, 20, 21}
INVARIANTS
  ResetOnlyInWindow
  HandlerCanPrint
  FirmwareTablesDropped
CHECK_DEADLOCK FALSE
