SPECIFICATION FairSpec

CONSTANTS
  Vm <- MCTwoVms
  Hdlr <- MCOrder2
  Fails <- MCFails
  MaxDown = 2

INVARIANTS
  TypeOK
  FirstListenSafe
  HandleSound

PROPERTIES
  DeathNoticed
