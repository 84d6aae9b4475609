SPECIFICATION DisplaySpec
CONSTANTS
  Word = 512
  BackPixels = 280
  CharX = 1
  CharY = 2
  Modes <- ModeSet
  Squares <- SquareRects
  Picture <- PictureRect
  GarbageCursors = {0, 3, 13, 192, 509, 511}
  MaxReserved = 3
INVARIANTS
  DrawnAsAsked
  StaysInBuffer
  LinesWhole
PROPERTY ShownAsAsked
CHECK_DEADLOCK FALSE
