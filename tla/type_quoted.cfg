SPECIFICATION TypeLegalSpec
CONSTANTS
  a = a
  b = b
  c = c
  text = text
  Token <- MCQuotedToken
  ObjectKind = {"TYPE", "VIEW"}
  Text = {text}
  ObjectAction = {"OWNER TO"}
  MaxObjects = 2
  MaxAlters = 1
  MaxUnknowns = 1
  Label = {"x"}
  MaxTypes = 1
  MaxLabels = 1
INVARIANTS
  ObjectIndexInRange
CHECK_DEADLOCK FALSE
