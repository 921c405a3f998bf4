SPECIFICATION ObjLegalSpec
CONSTANTS
  a = a
  b = b
  text = text
  Token <- MCToken
  ObjectKind = {"VIEW"}
  Text = {text}
  ObjectAction = {}
  MaxObjects = 2
  MaxAlters = 0
  MaxUnknowns = 0
INVARIANTS
  ObjectTextNamed
CHECK_DEADLOCK FALSE
