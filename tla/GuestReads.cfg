SPECIFICATION Spec
CONSTANTS
  sys = sys smss = smss word = word
  global = global file = file marked = marked
  c = c d = d com = com new = new
  None = None Junk = Junk
  Low = 2
  Mid = 2
  Buckets = 2
  Proc <- MCProc
  System = sys
  Object <- MCObject
  Dir = global
  Shifted = {marked}
  Entry <- MCEntry
  Drive <- MCDrive
  BucketOf <- MCBucketOf
  Tables <- MCTables
  Dirs <- MCDirs
  Handle <- MCHandle
  MaxChanges = 2
  MaxFails = 1
INVARIANTS
  TypeOK
  HandleResolved
  DrivesFound
PROPERTIES
  WalkEnds
