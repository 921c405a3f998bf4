SPECIFICATION AnySpec
CONSTANTS
  a = a
  b = b
  c = c
  p = p
  q = q
  r = r
  x = x
  y = y
  NoName = NoName
  NoValue = NoValue
  Token <- MCToken
  Option <- MCOneOption
  MaxSequences = 3
  KeywordPart = {}
  Text <- MCOneToken
  CreateTableStmt <- MCBareTables
  ActionList = {}
  IndexToken <- MCIndexToken
  IndexBody <- MCNoColumns
  TableList <- MCTableLists
  MaxTables = 2
  MaxIndexes = 2
  MaxTruncates = 0
  MaxConstraints = 0
  Label = {"x"}
  MaxTypes = 2
  MaxLabels = 1
  MaxObjects = 3
  MaxUnknowns = 1
  ObjectKind = {"TYPE", "VIEW", "PARTITION"}
  ObjectAction = {}
  MaxAlters = 0
INVARIANTS
  SeqIndexSound
  TypeIndexSound
  ObjectIndexSound
  TableMapsSound
SYMMETRY MCSameNames
CHECK_DEADLOCK FALSE
