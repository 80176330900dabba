SPECIFICATION FairSpec
CONSTANTS
  Size <- MCSize
  InitWindow = 4
  CellSize = 2
  Key = {"char", "right", "paste", "close", "window"}
  Clip <- MCClip
  Batch = 2
  Room = 2
  RoomOut = 1
  MaxKeys = 2
  MaxAsked = 1
  MaxResizes = 1
INVARIANTS
  InputInOrder
  OutputBeforeEnd
PROPERTIES
  InputArrives
  LoopCloses
  SizeSettles
CHECK_DEADLOCK FALSE
