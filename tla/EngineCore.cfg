SPECIFICATION Spec

CONSTANTS
  Vcpu = {v1, v2}
  Frame <- MCOne
  Pa <- MCCode
  FrameOf <- MCOneFrame
  SysTrap <- MCTraps
  TrapPa <- MCTrapPa
  RetSite <- MCRet
  Byte <- MCByte
  Int3 = "CC"
  Junk = "junk"
  NULL = NULL
  InitCode <- MCAnyCode
  GuestWrites = {}
  Faults = {}
  FreedNext = {"old", "null"}
  Matches <- MCMatches
  MaxCalls = 1

INVARIANTS
  TypeOK
  Concealed
  Faithful
  TrapsOnce
  MatchedTracked

PROPERTIES
  NoMissedCall
  Transparent
