CONSTANTS
  Longest = 5
  Texts <- Short
  Sizes = {0, 1, 3}
  DefaultSize = 2
  Rooms = {1, 3}
  Wants = {1, 3}
SPECIFICATION BufferedSpec
INVARIANT FillsEmptyBuffer
