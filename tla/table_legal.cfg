SPECIFICATION TableLegalSpec
CONSTANTS
  a = a
  b = b
  c = c
  d = d
  n = n
  m = m
  x = x
  y = y
  NoName = NoName
  NoValue = NoValue
  KeywordPart = {}
  Token <- MCToken
  ObjectKind = {"PARTITION"}
  Text <- MCToken
  ObjectAction = {}
  MaxObjects = 1
  MaxAlters = 1
  MaxUnknowns = 1
  CreateTableStmt <- MCSelfTables
  ActionList = {}
  IndexToken <- MCIndexToken
  IndexBody <- MCNoColumns
  TableList <- MCThreeLists
  MaxTables = 3
  MaxIndexes = 2
  MaxTruncates = 1
  MaxConstraints = 1
INVARIANTS
  TableTypeOK
  TableMapsCoherent
  IndexesHaveTables
  ReferencesResolve
PROPERTIES
  TableOrderKept
  IndexesFollowTables
CHECK_DEADLOCK FALSE
