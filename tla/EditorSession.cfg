SPECIFICATION MCSpec
CONSTANTS
  Path = {p, q}
  NoPath = NoPath
  Text = {blank, written}
  Blank = blank
  Absent = Absent
  Other = Other
  Torn = Torn
  LogStorage = 3
  MaxOthers = 1
  MaxCrashes = 1
SYMMETRY Symmetric
INVARIANTS
  MenuComesFirst
PROPERTIES
  FilesAreAtomic
  SaveTold
  DialogAsks
CHECK_DEADLOCK FALSE
