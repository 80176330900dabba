SPECIFICATION Spec
CONSTANTS
  Size <- MCSize
  InitSize <- MCInit
  Glyph = {g}
  Blank = Blank
  Colours = {"marked"}
  Param = {0, 3}
  Clip <- MCClip
  MaxWrites = 4
  MaxResizes = 1
INVARIANTS
  PlacesFit
  SelectionLeavesNoTrace
PROPERTIES
  ScreenComesBack
  ClipboardAsSent
CHECK_DEADLOCK FALSE
