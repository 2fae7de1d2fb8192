---------------------------- MODULE MCAltpTraps ----------------------------
(***************************************************************************)
(* Instances of AltpTraps for TLC: a small guest with one hooked function, *)
(* one or two monitors on it, and the address that its calls return to.    *)
(***************************************************************************)
EXTENDS AltpTraps

\* "create" is the entry of the hooked function, "exit" where it returns to.
MCCode   == {"create", "exit"}
MCRet    == {"exit"}
MCByte   == {"insn", "patch", "CC"}
MCFrames == {"f1", "f2"}
MCOne    == {"f1"}

MCOneFrame   == [p \in Pa |-> "f1"]
MCTwoFrames  == [p \in Pa |-> IF p = "exit" THEN "f2" ELSE "f1"]

\* One or two monitors hook the same function.
MCTraps   == {"file_created", "file_deleted"}
MCTrap    == {"file_created"}
MCTrapPa  == [t \in SysTrap |-> "create"]

\* Code with or without breakpoints of the guest's own, or without any.
MCAnyCode   == [Pa -> {"insn", "CC"}]
MCPlainCode == {[p \in Pa |-> "insn"]}

\* Every call of the hypervisor may fail; a call may match a policy or not.
MCFaults  == FaultKind
MCMatches == BOOLEAN

=============================================================================
