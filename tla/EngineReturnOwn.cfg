SPECIFICATION Spec

CONSTANTS
  Vcpu = {v1, v2}
  Frame <- MCOne
  Pa <- MCCode
  FrameOf <- MCOneFrame
  SysTrap <- MCTrap
  TrapPa <- MCTrapPa
  RetSite <- MCRet
  Byte <- MCByte
  Int3 = "CC"
  Junk = "junk"
  NULL = NULL
  InitCode <- MCPlainCode
  GuestWrites = {}
  Faults = {}
  FreedNext = {"old"}
  Matches <- MCMatches
  MaxCalls = 1

INVARIANTS
  ReturnOwn
