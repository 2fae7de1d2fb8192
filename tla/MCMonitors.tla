---------------------------- MODULE MCMonitors ----------------------------
(***************************************************************************)
(* Monitors for TLC: two VMs, of which one runs Windows 8, with a thread   *)
(* each, three policy files, and two file names besides the empty one.     *)
(***************************************************************************)
EXTENDS Monitors

MCName == {"a", "b", ""}
MCBroken == {""}
MCVm == {"seven", "eight"}
MCWin8 == {"eight"}
MCCaller == {"t7", "t8"}
MCVmOf == [c \in MCCaller |-> IF c = "t7" THEN "seven" ELSE "eight"]

LOCAL L(id, severity, action, path, extract) ==
  [id |-> id, severity |-> severity, action |-> action, path |-> path, extract |-> extract]

\* Two policies for one name with the same type; a deletion with extraction.
FileOfCreation ==
  << L(1, "WARNING", "CREATE", {"a", "b"}, FALSE), L(2, "CRITICAL", "CREATE", {"a"}, FALSE),
     L(3, "WARNING", "DELETE", {"a"}, TRUE) >>

\* A negative id, and a line whose id is no number.
FileOfAccess ==
  << L(-1, "WARNING", "CHANGE_ACCESS", {"a"}, FALSE),
     L(0, "WARNING", "CHANGE_ACCESS", {"b"}, FALSE),
     L(2, "WARNING", "MODIFY_CONTENT", {"a", "b"}, TRUE) >>

\* An id given twice, an unknown severity, a line without path.
FileOfChanges ==
  << L(1, "WARNING", "MODIFY_CONTENT", {"a"}, TRUE), L(1, "CRITICAL", "CHANGE_ATTR", {"a"}, TRUE),
     L(4, "WARNING", "CHANGE_ATTR", {"a", "b"}, FALSE), L(5, "WARN", "MODIFY_CONTENT", {"a"}, FALSE),
     L(6, "WARNING", "CHANGE_ACCESS", {}, FALSE), L(7, "WARNING", "CHANGE_ACCESS", {"b"}, FALSE) >>

MCPolicyFile == {FileOfCreation, FileOfAccess, FileOfChanges}

\* Arguments that a function does not have are left at one value.
MCRequest ==
  {request \in Call :
     /\ request.status = "open" /\ request.info = "none" /\ request.name # ""
     /\ request.func \in {"NtCreateFile", "NtSetInformationFile", "ZwWriteFile",
                          "NtSetSecurityObject"}
     /\ request.func \notin SetInfoFuncs => request.class = "none"
     /\ request.func \in WriteFuncs \cup SecurityFuncs => ~request.flag
     /\ request.func \notin OpenFuncs => ~request.relative}
============================================================================
