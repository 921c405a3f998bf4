SPECIFICATION TypeLegalSpec
CONSTANTS
  a = a
  b = b
  c = c
  text = text
  Token <- MCThreeToken
  ObjectKind = {"TYPE", "VIEW"}
  Text = {text}
  ObjectAction = {"OWNER TO"}
  MaxObjects = 1
  MaxAlters = 1
  MaxUnknowns = 1
  Label = {"x", "y", "z"}
  MaxTypes = 2
  MaxLabels = 3
INVARIANTS
  TypeTypeOK
  CompositeTextNamed
  TypeIndexCoherent
  LabelsDistinct
PROPERTIES
  LabelOrderKept
  TypesImplementCatalog
CHECK_DEADLOCK FALSE
