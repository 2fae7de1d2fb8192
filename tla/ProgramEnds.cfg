\* Two names, and an entry of the log for one of them; HFM may stop, when it has ended.
SPECIFICATION FairProgram
CONSTANTS
  MaxNames = 2
  VmMax = 2
  Page <- MCPage
  MaxFaults = 0
  MaxSignals = 1
  LogMax = 2
  MaxOpenFails = 1
  MaxDowns = 1
INVARIANTS
  ProgramTypeOK
  LogOwn
  ShutdownOrder
PROPERTIES
  Returns
CHECK_DEADLOCK FALSE
