SPECIFICATION Spec
CONSTANTS
  D = 3
  Context = 1
  NumberSpace = 0
  Indent = 2
  TreePart = 3
  MinX = 3
  MinY = 3
  Sizes <- MCSizes
  Bars = {"top"}
  Files <- MCFiles
  MaxTree = 1
  MaxEdits = 2
INVARIANTS
  SyntaxOfShownLines
  ShownLinesDrawn
  LayoutKept
  KeysKeepView
  ClickHits
