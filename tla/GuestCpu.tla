------------------------------ MODULE GuestCpu ------------------------------
(***************************************************************************)
(* What the monitored virtual machine is promised: it runs as if nobody    *)
(* watched it.  Every virtual CPU calls kernel functions and returns from  *)
(* them, reads kernel code and may patch it, and whatever it executes or   *)
(* reads is what the guest's own memory holds.  No view, no breakpoint and *)
(* no monitor exists at this level; AltpTraps is shown to implement it.    *)
(***************************************************************************)
EXTENDS Naturals

CONSTANTS
  Vcpu,         \* the guest's virtual CPUs
  Pa,           \* the physical addresses of kernel code that are of interest
  RetSite,      \* those of them that follow a call instruction
  Int3,         \* the one-byte INT3 instruction, 0xCC
  GuestWrites,  \* the bytes the guest may patch its code with
  InitCode,     \* the contents the code may have at first
  MaxCalls      \* bound: how many calls a vCPU makes

VARIABLES
  at,           \* where each vCPU is: "user", a Pa, or "body" of a function
  ret,          \* the return address of the call it is in
  call,         \* how many calls it has made
  seen,         \* what its last fetch from, or read of, kernel code returned
  orig          \* the guest's memory

vars == <<at, ret, call, seen, orig>>

\* Where execution continues after the instruction at p: a return site leads
\* back to the caller, any other address into the body of the function.
After(p) == IF p \in RetSite THEN "user" ELSE "body"

Init ==
  /\ at = [v \in Vcpu |-> "user"]
  /\ ret \in [Vcpu -> RetSite]
  /\ call = [v \in Vcpu |-> 0]
  /\ seen = [v \in Vcpu |-> "none"]
  /\ orig \in InitCode

Call(v, e, r) ==
  /\ at[v] = "user"
  /\ call[v] < MaxCalls
  /\ at' = [at EXCEPT ![v] = e]
  /\ ret' = [ret EXCEPT ![v] = r]
  /\ call' = [call EXCEPT ![v] = @ + 1]
  /\ UNCHANGED <<seen, orig>>

\* The instruction at at[v]: INT3 raises #BP, anything else does its work; the
\* guest carries on behind it either way.
Exec(v) ==
  /\ at[v] \in Pa
  /\ seen' = [seen EXCEPT ![v] = orig[at[v]]]
  /\ at' = [at EXCEPT ![v] = After(at[v])]
  /\ UNCHANGED <<ret, call, orig>>

Return(v) ==
  /\ at[v] = "body"
  /\ at' = [at EXCEPT ![v] = ret[v]]
  /\ UNCHANGED <<ret, call, seen, orig>>

Read(v, p) ==
  /\ at[v] \in {"user", "body"}
  /\ seen' = [seen EXCEPT ![v] = orig[p]]
  /\ UNCHANGED <<at, ret, call, orig>>

Write(v, p, b) ==
  /\ at[v] \in {"user", "body"}
  /\ orig' = [orig EXCEPT ![p] = b]
  /\ UNCHANGED <<at, ret, call, seen>>

Next ==
  \E v \in Vcpu :
    \/ \E e \in (Pa \ RetSite) \cup {"body"}, r \in RetSite : Call(v, e, r)
    \/ Exec(v)
    \/ Return(v)
    \/ \E p \in Pa : Read(v, p)
    \/ \E p \in Pa, b \in GuestWrites : Write(v, p, b)

Spec == Init /\ [][Next]_vars
=============================================================================
