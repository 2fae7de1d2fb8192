--------------------------- MODULE Watcher_proofs ---------------------------
(***************************************************************************)
(* Proofs about Watcher, for any list of VMs, any calls that fail and any  *)
(* number of reboots.                                                      *)
(***************************************************************************)
EXTENDS Watcher, SequenceTheorems, TLAPS

First == Hdlr[1]

\* The watcher is within the list while it is busy with a VM.
BusyOK == wpc # "scan" => wi <= Len(Hdlr)

TInv == TypeOK /\ BusyOK

\* The parts of TypeOK: labels and numbers, and Boolean values.
LabelOK ==
  /\ power \in [Vm -> {"off", "boot", "up"}]
  /\ downs \in [Vm -> 0..MaxDown]
  /\ vmi \in [Vm -> {"live", "stale", "freed"}]
  /\ state \in [Vm -> {"RUNNING", "DESTROY", "SHUTDOWN", "BOOTING", "RESTARTED"}]
  /\ booter \in [Vm -> {"none", "init", "wait"}]
  /\ lpc \in [Vm -> {"check", "listen"}]
  /\ wpc \in {"scan", "settle", "restart", "setup"}
  /\ wi \in 1..(Len(Hdlr) + 1)

FlagOK ==
  okay \in [Vm -> BOOLEAN] /\ boot_done \in [Vm -> BOOLEAN] /\ late \in BOOLEAN

LEMMA TypeParts == TypeOK <=> LabelOK /\ FlagOK
  BY DEF TypeOK, LabelOK, FlagOK

\* okay of the first VM vouches for its handle and its state.
OkayOK ==
  okay[First] => /\ vmi[First] # "freed"
                 /\ ~Restarting(First)
                 /\ state[First] \in {"RUNNING", "RESTARTED"}

\* A listener that is still inside although okay was cleared is waited for.
LateOK ==
  lpc[First] = "listen" /\ ~okay[First]
    => wpc = "settle" /\ Current = First /\ late

\* What the watcher holds of the first VM in the middle of a visit.
VisitOK ==
  Current = First =>
    /\ wpc = "settle" => vmi[First] # "freed"
    /\ wpc \in {"restart", "setup"} => state[First] = "RESTARTED"
    /\ wpc = "setup" => vmi[First] # "freed"

WInv == OkayOK /\ LateOK /\ VisitOK

LEMMA FirstVm == First \in Vm /\ Len(Hdlr) \in Nat /\ Len(Hdlr) >= 1 /\ MaxDown \in Nat
  BY WatcherAssumption DEF First

LEMMA CurrentVm ==
  ASSUME TInv, wpc # "scan" PROVE Current \in Vm
  BY WatcherAssumption DEF TInv, TypeOK, BusyOK, Current

LEMMA InitInv == Init => TInv /\ WInv
<1> SUFFICES ASSUME Init PROVE TInv /\ WInv
  OBVIOUS
<1>1. LabelOK /\ BusyOK
  BY FirstVm DEF Init, LabelOK, BusyOK
<1>2. FlagOK
  BY DEF Init, FlagOK
<1>3. WInv
  BY FirstVm DEF Init, WInv, OkayOK, LateOK, VisitOK, Restarting
<1> QED BY <1>1, <1>2, <1>3, TypeParts DEF TInv

LEMMA StepLabels == TInv /\ [Next]_vars => LabelOK' /\ BusyOK'
<1> SUFFICES ASSUME LabelOK, BusyOK, TInv, [Next]_vars PROVE LabelOK' /\ BusyOK'
  BY TypeParts DEF TInv
<1> USE FirstVm DEF LabelOK, BusyOK, domain, hdlrVars, watcher, NextVm, GoTo
<1>1. ASSUME NEW vm \in Vm, GoDown(vm) \/ ComeUp(vm)
      PROVE  LabelOK' /\ BusyOK'
  <2>1. CASE GoDown(vm)
    <3>1. downs[vm] \in 0..MaxDown /\ downs[vm] < MaxDown
      BY <2>1 DEF GoDown
    <3>2. downs' \in [Vm -> 0..MaxDown]
      BY <2>1, <3>1 DEF GoDown
    <3> QED BY <2>1, <3>2 DEF GoDown
  <2>2. CASE ComeUp(vm)
    BY <2>2 DEF ComeUp
  <2> QED BY <1>1, <2>1, <2>2
<1>9. ASSUME NEW vm \in Vm, Check(vm) \/ BootInit(vm) \/ BootWait(vm)
      PROVE  LabelOK' /\ BusyOK'
  BY <1>9 DEF Check, BootInit, BootWait
<1>2. ASSUME NEW vm \in Vm, Listened(vm)
      PROVE  LabelOK' /\ BusyOK'
  BY <1>2 DEF Listened
<1>3. CASE NewRound \/ Settle
  BY <1>3 DEF NewRound, RoundStart, Settle
<1>4. CASE RestartInit \/ RestartSetup
  <2>1. Current \in Vm
    BY <1>4, CurrentVm DEF RestartInit, RestartSetup
  <2>2. CASE RestartInit
    BY <2>1, <2>2 DEF RestartInit
  <2>3. CASE RestartSetup
    BY <2>1, <2>3 DEF RestartSetup
  <2> QED BY <1>4, <2>2, <2>3
<1>5. ASSUME NEW vm \in Vm, VmRunning(vm)
      PROVE  LabelOK' /\ BusyOK'
  BY <1>5 DEF VmRunning, Visits
<1>6. ASSUME NEW vm \in Vm, VmDestroy(vm) \/ VmShutdown(vm)
      PROVE  LabelOK' /\ BusyOK'
  <2>1. CASE VmDestroy(vm)
    BY <2>1 DEF VmDestroy, Visits
  <2>2. CASE VmShutdown(vm)
    <3>1. /\ UNCHANGED <<power, downs, vmi, lpc>>
          /\ wpc' = "scan" /\ wi' = wi + 1 /\ wi <= Len(Hdlr)
          /\ state' = state \/ state' = [state EXCEPT ![vm] = "BOOTING"]
          /\ booter' = booter \/ booter' = [booter EXCEPT ![vm] = "init"]
      BY <2>2 DEF VmShutdown, Visits
    <3> QED BY <3>1
  <2> QED BY <1>6, <2>1, <2>2
<1>7. ASSUME NEW vm \in Vm, VmBooting(vm) \/ VmRestarted(vm)
      PROVE  LabelOK' /\ BusyOK'
  <2>1. CASE VmBooting(vm)
    <3>1. /\ UNCHANGED <<power, downs, vmi, lpc, booter>> /\ wi <= Len(Hdlr)
          /\ \/ wpc' = "scan" /\ wi' = wi + 1 /\ state' = state
             \/ wpc' = "restart" /\ wi' = wi /\ state' = [state EXCEPT ![vm] = "RESTARTED"]
      BY <2>1 DEF VmBooting, Visits
    <3> QED BY <3>1
  <2>2. CASE VmRestarted(vm)
    BY <2>2 DEF VmRestarted, Visits
  <2> QED BY <1>7, <2>1, <2>2
<1>8. CASE UNCHANGED vars
  BY <1>8 DEF vars
<1> QED
  BY <1>1, <1>2, <1>3, <1>4, <1>5, <1>6, <1>7, <1>8, <1>9 DEF Next, Watch

LEMMA StepFlags == TInv /\ [Next]_vars => FlagOK'
<1> SUFFICES ASSUME FlagOK, [Next]_vars PROVE FlagOK'
  BY TypeParts DEF TInv
<1> USE DEF FlagOK, domain, hdlrVars, watcher, NextVm
<1>1. ASSUME NEW vm \in Vm,
             \/ GoDown(vm) \/ ComeUp(vm) \/ Check(vm) \/ Listened(vm)
             \/ BootInit(vm) \/ BootWait(vm)
      PROVE  FlagOK'
  BY <1>1 DEF GoDown, ComeUp, Check, Listened, BootInit, BootWait
<1>2. CASE NewRound \/ Settle \/ RestartInit
  BY <1>2 DEF NewRound, Settle, RestartInit
<1>3. CASE RestartSetup
  BY <1>3 DEF RestartSetup
<1>4. ASSUME NEW vm \in Vm,
             \/ VmRunning(vm) \/ VmDestroy(vm) \/ VmShutdown(vm)
             \/ VmBooting(vm) \/ VmRestarted(vm)
      PROVE  FlagOK'
  BY <1>4 DEF VmRunning, VmDestroy, VmShutdown, BootDone, VmBooting, VmRestarted
<1>5. CASE UNCHANGED vars
  BY <1>5 DEF vars
<1> QED
  BY <1>1, <1>2, <1>3, <1>4, <1>5 DEF Next, Watch

LEMMA StepTInv == TInv /\ [Next]_vars => TInv'
<1> SUFFICES ASSUME TInv, [Next]_vars PROVE TInv'
  OBVIOUS
<1>1. LabelOK' /\ BusyOK' /\ FlagOK'
  BY StepLabels, StepFlags
<1>2. LabelOK' /\ FlagOK' => TypeOK'
  BY DEF LabelOK, FlagOK, TypeOK
<1> QED BY <1>1, <1>2 DEF TInv

\* Every variable of the watcher stays within its type, and the watcher thread
\* within its list of VMs, whatever fails.
THEOREM TypeCorrect == Spec => []TypeOK
<1>1. TInv => TypeOK
  BY DEF TInv
<1>2. Init => TInv
  BY InitInv
<1> QED BY <1>1, <1>2, StepTInv, PTL DEF Spec

\* One step of any thread keeps the handshake between the watcher and the first
\* VM's listener.
LEMMA StepWInv == TInv /\ WInv /\ [Next]_vars => WInv'
<1> SUFFICES ASSUME TInv, WInv, [Next]_vars PROVE WInv'
  OBVIOUS
<1> USE FirstVm DEF WInv, OkayOK, LateOK, VisitOK, Restarting, Current,
                    domain, hdlrVars, watcher, NextVm, GoTo
<1>t. TypeOK
  BY DEF TInv
<1>1. ASSUME NEW vm \in Vm, GoDown(vm)
      PROVE  WInv'
  BY <1>1, <1>t DEF GoDown, TypeOK
<1>2. ASSUME NEW vm \in Vm, ComeUp(vm) \/ BootInit(vm) \/ BootWait(vm)
      PROVE  WInv'
  BY <1>2 DEF ComeUp, BootInit, BootWait
<1>3. ASSUME NEW vm \in Vm, Check(vm)
      PROVE  WInv'
  BY <1>3, <1>t DEF Check, WvVmiOkay, First, TypeOK
<1>4. ASSUME NEW vm \in Vm, Listened(vm)
      PROVE  WInv'
  BY <1>4, <1>t DEF Listened, TypeOK
<1>5. CASE NewRound \/ Settle
  BY <1>5 DEF NewRound, Settle, Settled
<1>6. CASE RestartInit
  BY <1>6, <1>t DEF RestartInit, TypeOK
<1>7. CASE RestartSetup
  BY <1>7, <1>t DEF RestartSetup, TypeOK
<1>8. ASSUME NEW vm \in Vm, VmRunning(vm)
      PROVE  WInv'
  BY <1>8, <1>t DEF VmRunning, Visits, Watched, TypeOK
<1>9. ASSUME NEW vm \in Vm, VmDestroy(vm)
      PROVE  WInv'
  BY <1>9, <1>t DEF VmDestroy, Visits, TypeOK
<1>10. ASSUME NEW vm \in Vm, VmShutdown(vm)
       PROVE  WInv'
  BY <1>10, <1>t DEF VmShutdown, Visits, TypeOK
<1>11. ASSUME NEW vm \in Vm, VmBooting(vm) \/ VmRestarted(vm)
       PROVE  WInv'
  BY <1>11, <1>t DEF VmBooting, VmRestarted, Visits, TypeOK
<1>12. CASE UNCHANGED vars
  BY <1>12 DEF vars
<1> QED
  BY <1>1, <1>2, <1>3, <1>4, <1>5, <1>6, <1>7, <1>8, <1>9, <1>10, <1>11, <1>12
     DEF Next, Watch

\* The listening thread of the VM that was added first is never inside LibVMI
\* when its handle is destroyed or replaced, however many VMs there are and
\* whatever fails: the flag and the sleep suffice without a lock.
THEOREM FirstListensSafely == Spec => []FirstListenSafe
<1>1. Init => TInv /\ WInv
  BY InitInv
<1>2. TInv /\ WInv /\ [Next]_vars => TInv' /\ WInv'
  BY StepTInv, StepWInv
<1>3. WInv => FirstListenSafe
  BY DEF WInv, OkayOK, LateOK, VisitOK, FirstListenSafe, ListenSafe, Restarting, First
<1> QED BY <1>1, <1>2, <1>3, PTL DEF Spec
-----------------------------------------------------------------------------
(* One handle at a time: for every VM of the list, not only the first.       *)

\* What the state of a VM says about its handle, its flag and its boot thread.
StateOK(vm) ==
  /\ okay[vm] => state[vm] \in {"RUNNING", "RESTARTED"} /\ vmi[vm] # "freed"
  /\ state[vm] = "DESTROY" => vmi[vm] # "freed"
  /\ state[vm] \in {"SHUTDOWN", "BOOTING"} => vmi[vm] = "freed"
  /\ booter[vm] # "none" => state[vm] = "BOOTING" /\ ~boot_done[vm]

\* What the watcher holds of a VM in the middle of hfm_restart_vmi.
RestartOK(vm) ==
  Restarting(vm) => /\ state[vm] = "RESTARTED" /\ ~okay[vm] /\ booter[vm] = "none"
                    /\ vmi[vm] = "freed" <=> wpc = "restart"

HInv == \A vm \in Vm : StateOK(vm) /\ RestartOK(vm)

LEMMA InitHInv == Init => HInv
  BY DEF Init, HInv, StateOK, RestartOK, Restarting

\* A step changes what belongs to one VM, and moves the watcher to another or not.
LEMMA StepHInv == TInv /\ HInv /\ [Next]_vars => HInv'
<1> SUFFICES ASSUME TInv, HInv, [Next]_vars, NEW h \in Vm
             PROVE  StateOK(h)' /\ RestartOK(h)'
  BY DEF HInv
<1> USE DEF StateOK, RestartOK, Restarting, Current,
            domain, hdlrVars, watcher, NextVm, GoTo
<1>t. TypeOK
  BY DEF TInv
<1>h. StateOK(h) /\ RestartOK(h)
  BY DEF HInv
<1>1. ASSUME NEW vm \in Vm, GoDown(vm)
      PROVE  StateOK(h)' /\ RestartOK(h)'
  BY <1>1, <1>t, <1>h DEF GoDown, TypeOK
<1>2. ASSUME NEW vm \in Vm, ComeUp(vm) \/ Check(vm) \/ Listened(vm)
      PROVE  StateOK(h)' /\ RestartOK(h)'
  BY <1>2, <1>h DEF ComeUp, Check, Listened
<1>3. ASSUME NEW vm \in Vm, BootInit(vm) \/ BootWait(vm)
      PROVE  StateOK(h)' /\ RestartOK(h)'
  BY <1>3, <1>t, <1>h DEF BootInit, BootWait, TypeOK
<1>4. CASE NewRound \/ Settle
  BY <1>4, <1>h DEF NewRound, Settle
<1>5. CASE RestartInit
  BY <1>5, <1>t, <1>h DEF RestartInit, TypeOK
<1>6. CASE RestartSetup
  BY <1>6, <1>t, <1>h DEF RestartSetup, TypeOK
<1>7. ASSUME NEW vm \in Vm, VmRunning(vm)
      PROVE  StateOK(h)' /\ RestartOK(h)'
  BY <1>7, <1>t, <1>h DEF VmRunning, Visits, Watched, TypeOK
<1>8. ASSUME NEW vm \in Vm, VmDestroy(vm)
      PROVE  StateOK(h)' /\ RestartOK(h)'
  BY <1>8, <1>t, <1>h DEF VmDestroy, Visits, TypeOK
<1>9. ASSUME NEW vm \in Vm, VmShutdown(vm)
      PROVE  StateOK(h)' /\ RestartOK(h)'
  BY <1>9, <1>t, <1>h DEF VmShutdown, BootDone, Visits, TypeOK
<1>10. ASSUME NEW vm \in Vm, VmBooting(vm)
       PROVE  StateOK(h)' /\ RestartOK(h)'
  BY <1>10, <1>t, <1>h DEF VmBooting, Visits, TypeOK
<1>11. ASSUME NEW vm \in Vm, VmRestarted(vm)
       PROVE  StateOK(h)' /\ RestartOK(h)'
  BY <1>11, <1>t, <1>h DEF VmRestarted, Visits, TypeOK
<1>12. CASE UNCHANGED vars
  BY <1>12, <1>h DEF vars
<1> QED
  BY <1>1, <1>2, <1>3, <1>4, <1>5, <1>6, <1>7, <1>8, <1>9, <1>10, <1>11, <1>12
     DEF Next, Watch

\* The watcher uses no handle after vmi_destroy and opens none next to another one,
\* its own or a boot thread's, of any VM, whatever fails in a restart or in a boot
\* thread (_get_vm_state, hfm_restart_vmi, _wait_boot_fc).  Listening is not covered.
THEOREM HandlesSound == Spec => []HandleSound
<1>1. Init => TInv /\ HInv
  BY InitInv, InitHInv
<1>2. TInv /\ HInv /\ [Next]_vars => TInv' /\ HInv'
  BY StepTInv, StepHInv
<1>3. HInv => HandleSound
  BY DEF HInv, StateOK, RestartOK, Restarting, HandleSound, HandleUsable, OneHandle
<1> QED BY <1>1, <1>2, <1>3, PTL DEF Spec
=============================================================================
