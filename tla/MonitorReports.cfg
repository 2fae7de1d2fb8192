\* Two VMs with three policy files; a VM may go down once and be set up again.
SPECIFICATION Spec
CONSTANTS
  Vm <- MCVm
  Win8 <- MCWin8
  Caller <- MCCaller
  VmOf <- MCVmOf
  PolicyFile <- MCPolicyFile
  Name <- MCName
  Broken <- MCBroken
  NoName = ""
  FileExtract = TRUE
  Missable = {"NtCreateFile"}
  Request <- MCRequest
  MaxCalling = 1
  MaxRestarts = 1
INVARIANTS
  TypeOK
  HooksOnce
  
  
  ParamsOwned
  FirstInOrder
