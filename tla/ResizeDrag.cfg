SPECIFICATION Spec
CONSTANTS
  Reach <- MCReach
  Monitor <- MCMonitor
  DefaultMin <- MCMin
  ClientMin <- Unset
  ClientMax <- Unset
  Band = 2
  TitleEnd = 4
  Cell = 2
  StartNode <- MCStart
  StartSize <- MCSize
  MaxSerial = 4
INVARIANTS
  FarEdgeSettles
  EdgeFollowsCursor
  AwaitedIsOnItsWay
