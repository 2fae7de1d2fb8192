SPECIFICATION FairSpec

CONSTANTS
  Vcpu = {v1, v2}
  Frame <- MCOne
  Pa <- MCCode
  FrameOf <- MCOneFrame
  SysTrap <- MCTrap
  TrapPa <- MCTrapPa
  RetSite <- MCRet
  Byte <- MCByte
  Int3 = "CC"
  Junk = "junk"
  NULL = NULL
  InitCode <- MCAnyCode
  GuestWrites = {}
  Faults = {}
  FreedNext = {"old"}
  Matches <- MCMatches
  MaxCalls = 1

PROPERTIES
  MonitoringResumes
  GuestProgress
  MatchedReported
