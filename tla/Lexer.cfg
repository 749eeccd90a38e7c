SPECIFICATION Spec
CONSTANTS
  Widths = {1, 2}
  Brackets = {p}
  Others = {"SEMI", "ETC", "UNKNOWN", "WORD"}
  MaxTokens = 10
  MaxSpecial = 2
INVARIANTS Balanced IndentsGrow OffsideRule ReadsInBounds
CHECK_DEADLOCK FALSE
