SPECIFICATION FairSpec
CONSTANTS
  View = {v1, v2}
  Bar = bar
  Wallpaper = wallpaper
  Started = {bar}
  NULL = NULL
INVARIANTS
  GrabHasView
  ResizeWhileHeld
  ResizeOwnsPointer
  OnlyResizedAwaits
  ResizeCursorKept
PROPERTY
  ResizeEnds
CHECK_DEADLOCK FALSE
