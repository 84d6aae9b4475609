SPECIFICATION FontSpec
CONSTANTS
  GlyphCount = 2
  FontNum = 2
  WordBytes = 1
  Cols = 6
  Header = Header
  Texts <- TextSet
INVARIANTS
  GlyphsDrawn
  HangsForShortText
CHECK_DEADLOCK FALSE
