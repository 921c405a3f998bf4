SPECIFICATION SplitSpec
CONSTANTS
  Char <- MCChar
  Texts <- MCTexts
INVARIANTS
  SplitTypeOK
  SplitsAtSemicolons
  SplitStable
PROPERTIES
  ScanEnds
CHECK_DEADLOCK FALSE
