SPECIFICATION FormsSpec
CONSTANTS
  LowerCase <- MCLowerCase
  Number = {"1"}
  Gaps <- MCGaps
  LineGaps <- MCSpace
  Forms <- MCForms
  MaxClauses = 3
INVARIANTS
  StatementsUnderstood
  OutputUnderstood
CHECK_DEADLOCK FALSE
