SPECIFICATION Spec
CONSTANTS
  W = 2
  H = 3
  Glyph = {a}
  Blank = blank
  MaxParam = 4
  MaxRow = 4
INVARIANT
  TypeOK
PROPERTIES
  PrintedIsShown
  TypingEndsOnScreen
  RegionHoldsCursor
  RegionIsolates
CHECK_DEADLOCK FALSE
