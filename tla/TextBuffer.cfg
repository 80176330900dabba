SPECIFICATION TBSpec
CONSTANTS
  Narrow = {"a"}
  Wide = {"w"}
  Nul = "nul"
  Slack = 1
  ColMax = 4
  LoadLines = 2
  ScratchCols = 1
  Views = {2, 3}
  Files <- MCFiles
  Words <- MCWords
  MaxCells = 4
  MaxRows = 4
  MaxText = 2
  MaxLines = 3
INVARIANTS
  RowsDisjoint
  GlyphsWhole
PROPERTIES
  EditsText
