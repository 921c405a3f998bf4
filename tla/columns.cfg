SPECIFICATION TableLegalSpec
CONSTANTS
  a = a
  b = b
  c = c
  d = d
  n = n
  m = m
  x = x
  y = y
  NoName = NoName
  NoValue = NoValue
  ObjectKind = {"PARTITION"}
  ObjectAction = {}
  MaxAlters = 1
  MaxUnknowns = 1
  KeywordPart = {}
  Token <- MCOneToken
  Text <- MCOneToken
  MaxObjects = 0
  CreateTableStmt <- MCColumnTables
  ActionList <- MCActionLists
  IndexToken = {}
  IndexBody = {}
  TableList = {}
  MaxTables = 1
  MaxIndexes = 0
  MaxTruncates = 0
  MaxConstraints = 2
INVARIANTS
  NamesDistinct
PROPERTIES
  ConstraintsFollowColumns
CHECK_DEADLOCK FALSE
