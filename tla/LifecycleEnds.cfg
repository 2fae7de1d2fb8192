\* One name more than there is room for; HFM may stop, when it has ended.
SPECIFICATION FairSpec
CONSTANTS
  MaxNames = 3
  VmMax = 2
  Page <- MCPage
  MaxFaults = 1
  MaxSignals = 1
INVARIANTS
  TypeOK
  ReleasedOnce
  SharedLive
  GuestRestored
PROPERTIES
  Ends
CHECK_DEADLOCK FALSE
