SPECIFICATION Spec

CONSTANTS
  Vcpu = {v1, v2}
  Frame <- MCFrames
  Pa <- MCCode
  FrameOf <- MCTwoFrames
  SysTrap <- MCTrap
  TrapPa <- MCTrapPa
  RetSite <- MCRet
  Byte <- MCByte
  Int3 = "CC"
  Junk = "junk"
  NULL = NULL
  InitCode <- MCPlainCode
  GuestWrites = {"patch"}
  Faults <- MCFaults
  FreedNext = {"old","null","fault"}
  Matches <- MCMatches
  MaxCalls = 1

INVARIANTS
  ViewDiscipline
  LoopMemory
  NoStrayInt3

CHECK_DEADLOCK FALSE
