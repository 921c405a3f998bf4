SPECIFICATION MergeSpec
CONSTANTS
  a = a
  b = b
  c = c
  d = d
  x = x
  y = y
  text = text
  NoName = NoName
  NoValue = NoValue
  KeywordPart = {}
  Token <- MCToken
  ObjectKind <- MCKind
  Text <- MCText
  ObjectAction <- MCAction
  Label = {"x", "y", "z"}
  CreateTableStmt <- MCCreateTableStmt
  ActionList <- MCActionList
  IndexToken <- MCIndexToken
  IndexBody <- MCIndexBody
  TableList <- MCTableList
  MaxObjects = 14
  MaxAlters = 3
  MaxUnknowns = 3
  MaxSequences = 3
  MaxTypes = 2
  MaxLabels = 3
  MaxTables = 3
  MaxIndexes = 3
  MaxTruncates = 2
  MaxConstraints = 1
  MaxInt = 10
  Option <- MCOption
  Directory <- MCTwoFiles
  Contents <- MCEnumContents
INVARIANTS
  EnumsBeforeTables
CHECK_DEADLOCK FALSE
