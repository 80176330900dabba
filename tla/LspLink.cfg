SPECIFICATION FairSpec
CONSTANTS
  File = {a, b}
  NoFile = NoFile
  Room = 3
  Parts = 2
  Eager = TRUE
  MaxText = 2
  MaxKeys = 2
INVARIANTS
  VersionsAgree
PROPERTIES
  ChangesFollow
  ChangesArrive
  KeysAnswered
CHECK_DEADLOCK FALSE
