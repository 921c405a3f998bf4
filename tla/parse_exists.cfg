SPECIFICATION FormsSpec
CONSTANTS
  LowerCase <- MCLowerCase
  Number = {"1"}
  Gaps <- MCGaps
  LineGaps <- MCSpace
  Forms <- MCGuardedTables
  MaxClauses = 3
INVARIANTS
  ExistenceClausesKept
CHECK_DEADLOCK FALSE
