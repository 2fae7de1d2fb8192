SPECIFICATION Spec

CONSTANTS
  Thread = {t1, t2}
  Tables <- MCPlainTable
  Path <- MCPlainPaths
  MaxRestarts = 0
  MaxPatterns = 2

INVARIANTS
  FirstMatch
