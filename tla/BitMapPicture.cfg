SPECIFICATION PicSpec
CONSTANTS
  Widths = {0, 1, 2, 3, 4}
  Heights <- HeightSet
  BitCounts = {8, 16, 24, 32}
INVARIANT PictureAsStored
CHECK_DEADLOCK FALSE
