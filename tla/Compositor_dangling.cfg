SPECIFICATION Spec
CONSTANTS
  View = {v1}
  Bar = bar
  Wallpaper = wallpaper
  Started = {bar}
  NULL = NULL
INVARIANT
  ResizingViewIsLive
CHECK_DEADLOCK FALSE
