SPECIFICATION FairSpec

CONSTANTS
  Vm <- MCOneVm
  Hdlr <- MCOrder1
  Fails = {}
  MaxDown = 1

PROPERTIES
  MonitoredAgain
