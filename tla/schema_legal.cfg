SPECIFICATION LegalSpec
CONSTANTS
  a = a
  b = b
  c = c
  p = p
  q = q
  r = r
  x = x
  y = y
  NoName = NoName
  NoValue = NoValue
  Token <- MCToken
  Option <- MCOption
  MaxSequences = 3
  KeywordPart = {}
  Text <- MCOneToken
  CreateTableStmt <- MCBareTables
  ActionList = {}
  IndexToken <- MCIndexToken
  IndexBody <- MCNoColumns
  TableList <- MCTableLists
  MaxTables = 2
  MaxIndexes = 2
  MaxTruncates = 0
  MaxConstraints = 0
  Label = {"x"}
  MaxTypes = 2
  MaxLabels = 1
  MaxObjects = 3
  MaxUnknowns = 1
  ObjectKind = {"VIEW", "MATERIALIZED VIEW"}
  ObjectAction = {"OWNER TO", "SET OPTIONS"}
  MaxAlters = 2
INVARIANTS
  SeqTypeOK
  SeqIndexCoherent
  OneOptionPerFamily
  ObjTypeOK
  ObjectIndexCoherent
PROPERTIES
  SeqOrderKept
  SeqImplementsCatalog
  AltersStayPut
  ObjImplementsCatalog
CHECK_DEADLOCK FALSE
