SPECIFICATION FairSpec

CONSTANTS
  Thread = {t1}
  Tables <- MCTables
  Path <- MCPaths
  MaxRestarts = 1
  MaxPatterns = 4

INVARIANTS
  TypeOK
  IndexInRange
  MatchExact

PROPERTIES
  Returns
