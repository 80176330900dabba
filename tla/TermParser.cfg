SPECIFICATION Spec
CONSTANTS
  Msg <- OneByte
  MaxPalms = 2
  MaxText = 3
  MaxSent = 3
PROPERTY
  KeepsLink
CHECK_DEADLOCK FALSE
