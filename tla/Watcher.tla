------------------------------- MODULE Watcher -------------------------------
(***************************************************************************)
(* The restart watcher: multiwatch.c, the listening threads of main.c and  *)
(* hfm_restart_vmi, for a list of VMs with auto-restart enabled.           *)
(*                                                                         *)
(* One watcher thread visits the VMs in turn, pings them and drives a      *)
(* small state machine for each; a VM that has gone is waited for by a     *)
(* boot thread of its own.  Each VM has a listening thread that handles    *)
(* its events with the LibVMI handle vm->vmi, which the watcher destroys   *)
(* and hfm_restart_vmi creates again in place.  The flag okay is all that  *)
(* keeps the two apart: no lock is taken.                                  *)
(*                                                                         *)
(* Shutting HFM down is not part of this module.                           *)
(***************************************************************************)
EXTENDS Naturals, Sequences

CONSTANTS
  Vm,        \* the virtual machines
  Hdlr,      \* wv->hdlr: the VMs in the order of wv_add_vm
  Fails,     \* the calls of LibVMI and Xen that may fail on a running VM
  MaxDown    \* bound: how often each VM goes down

ASSUME WatcherAssumption ==
  /\ Hdlr \in Seq(Vm) /\ Len(Hdlr) > 0
  /\ \A vm \in Vm : \E i \in DOMAIN Hdlr : Hdlr[i] = vm
  /\ Fails \subseteq {"ping", "probe", "boot", "init", "setup"}
  /\ MaxDown \in Nat

VARIABLES
  power, downs,      \* the VM itself: "off", "boot" (no kernel yet) or "up"
  vmi,               \* vm->vmi: "live", "stale" (its domain has gone), "freed"
  state, okay, boot_done,    \* vm_hdlr_t
  booter,            \* the boot thread of a VM: "none", "init" or "wait"
  lpc,               \* the listening thread of a VM: "check" or "listen"
  wpc, wi, late      \* the watcher thread: where it is, at which VM, and
                     \* whether that VM's listener is still in the call of
                     \* vmi_events_listen that it was in when okay was cleared

domain   == <<power, downs>>
hdlrVars == <<state, okay, boot_done>>
watcher  == <<wpc, wi, late>>
vars     == <<domain, vmi, hdlrVars, booter, lpc, watcher>>

Init ==
  /\ power = [vm \in Vm |-> "up"] /\ downs = [vm \in Vm |-> 0]
  /\ vmi = [vm \in Vm |-> "live"]
  /\ state = [vm \in Vm |-> "RUNNING"]
  /\ okay = [vm \in Vm |-> TRUE] /\ boot_done = [vm \in Vm |-> FALSE]
  /\ booter = [vm \in Vm |-> "none"]
  /\ lpc = [vm \in Vm |-> "check"]
  /\ wpc = "scan" /\ wi = 1 /\ late = FALSE

-----------------------------------------------------------------------------
(* The virtual machines: external.  A reboot is a new domain.                *)

GoDown(vm) ==
  /\ power[vm] # "off" /\ downs[vm] < MaxDown
  /\ power' = [power EXCEPT ![vm] = "off"]
  /\ downs' = [downs EXCEPT ![vm] = @ + 1]
  /\ vmi' = [vmi EXCEPT ![vm] = IF @ = "live" THEN "stale" ELSE @]
  /\ UNCHANGED <<hdlrVars, booter, lpc, watcher>>

ComeUp(vm) ==
  /\ power[vm] # "up"
  /\ power' = [power EXCEPT ![vm] = IF @ = "off" THEN "boot" ELSE "up"]
  /\ UNCHANGED <<downs, vmi, hdlrVars, booter, lpc, watcher>>

-----------------------------------------------------------------------------
(* _monitor_vm: the listening thread of a VM.                                *)

\* wv_vmi_okay: whichever VM is asked for, the answer is hdlr[0]->okay.
WvVmiOkay(vm) == okay[Hdlr[1]]

Check(vm) ==
  /\ lpc[vm] = "check" /\ WvVmiOkay(vm)
  /\ lpc' = [lpc EXCEPT ![vm] = "listen"]
  /\ UNCHANGED <<domain, vmi, hdlrVars, booter, watcher>>

\* hfm_listen returns within its timeout of half a second.
Listened(vm) ==
  /\ lpc[vm] = "listen"
  /\ lpc' = [lpc EXCEPT ![vm] = "check"]
  /\ late' = (late /\ Hdlr[wi] # vm)
  /\ UNCHANGED <<domain, vmi, hdlrVars, booter, wpc, wi>>

-----------------------------------------------------------------------------
(* _wait_boot_fc: the boot thread.                                           *)

\* vmi_init of its own handle; without one the thread ends, and boot_done stays.
BootInit(vm) ==
  /\ booter[vm] = "init"
  /\ \/ power[vm] # "off" /\ booter' = [booter EXCEPT ![vm] = "wait"]
     \/ /\ power[vm] = "off" \/ "boot" \in Fails
        /\ booter' = [booter EXCEPT ![vm] = "none"]
  /\ UNCHANGED <<domain, vmi, hdlrVars, lpc, watcher>>

\* _wait_for_booting never enters the loop that waits for MSR_LSTAR (its status
\* starts as a failure): it returns after a write to CR3, which a boot loader
\* makes too, or when listening fails because the VM has gone again.
BootWait(vm) ==
  /\ booter[vm] = "wait"
  /\ booter' = [booter EXCEPT ![vm] = "none"]
  /\ boot_done' = [boot_done EXCEPT ![vm] = TRUE]
  /\ UNCHANGED <<domain, vmi, state, okay, lpc, watcher>>

-----------------------------------------------------------------------------
(* _monitor_fc and _get_vm_state: the watcher thread, at the VM it visits.   *)

Current == Hdlr[wi]
Visits(vm, s) == wpc = "scan" /\ wi <= Len(Hdlr) /\ vm = Current /\ state[vm] = s
GoTo(vm, s) == state' = [state EXCEPT ![vm] = s]
NextVm == wpc' = "scan" /\ wi' = wi + 1 /\ late' = FALSE

\* A round that starts off by one.
RoundStartErr == 0

RoundStart == 1

\* At the end of a round it sleeps for three seconds.
NewRound ==
  /\ wpc = "scan" /\ wi > Len(Hdlr)
  /\ wi' = RoundStart /\ UNCHANGED <<wpc, late>>
  /\ UNCHANGED <<domain, vmi, hdlrVars, booter, lpc>>

\* The register is taken for good whatever the status of reading it.
PingErr(vm) == TRUE

\* _ping_vm: a handle whose domain has gone cannot read MSR_LSTAR.
Ping(vm) == vmi[vm] = "live"

\* A VM that could not be set up again is pinged all the same.
WatchedErr(vm) == TRUE

\* STATE_RUNNING is left alone while the VM is not okay.
Watched(vm) == okay[vm]

VmRunning(vm) ==
  /\ Visits(vm, "RUNNING")
  /\ \/ /\ ~Watched(vm) \/ Ping(vm)
        /\ NextVm /\ UNCHANGED <<state, okay>>
     \/ /\ Watched(vm) /\ (~Ping(vm) \/ "ping" \in Fails)
        /\ okay' = [okay EXCEPT ![vm] = FALSE]
        /\ GoTo(vm, "DESTROY")
        /\ wpc' = "settle" /\ late' = (lpc[vm] = "listen") /\ UNCHANGED wi
  /\ UNCHANGED <<domain, vmi, boot_done, booter, lpc>>

\* The sleep of two seconds before the next VM does not wait for the listener.
SettledErr == TRUE

\* The sleep of two seconds is longer than a call of vmi_events_listen.
Settled == ~late

Settle ==
  /\ wpc = "settle" /\ Settled
  /\ NextVm
  /\ UNCHANGED <<domain, vmi, hdlrVars, booter, lpc>>

VmDestroy(vm) ==
  /\ Visits(vm, "DESTROY")
  /\ vmi' = [vmi EXCEPT ![vm] = "freed"]
  /\ GoTo(vm, "SHUTDOWN") /\ NextVm
  /\ UNCHANGED <<domain, okay, boot_done, booter, lpc>>

\* boot_done is left as it was.
BootDoneErr(vm) == boot_done

\* hdlr->boot_done = 0 before the boot thread starts.
BootDone(vm) == [boot_done EXCEPT ![vm] = FALSE]

\* The probe is a vmi_init of the VM's name, retried in the next round.
VmShutdown(vm) ==
  /\ Visits(vm, "SHUTDOWN")
  /\ \/ /\ power[vm] = "off" \/ "probe" \in Fails
        /\ UNCHANGED <<state, boot_done, booter>>
     \/ /\ power[vm] # "off"
        /\ boot_done' = BootDone(vm)
        /\ booter' = [booter EXCEPT ![vm] = "init"]
        /\ GoTo(vm, "BOOTING")
  /\ NextVm
  /\ UNCHANGED <<domain, vmi, okay, lpc>>

\* A VM that has booted becomes STATE_RESTARTED, and restart_cb is called.
VmBooting(vm) ==
  /\ Visits(vm, "BOOTING")
  /\ \/ /\ boot_done[vm]
        /\ GoTo(vm, "RESTARTED")
        /\ wpc' = "restart" /\ UNCHANGED <<wi, late>>
     \/ ~boot_done[vm] /\ NextVm /\ UNCHANGED state
  /\ UNCHANGED <<domain, vmi, okay, boot_done, booter, lpc>>

\* hfm_restart_vmi up to vmi_init_os, which needs a running kernel.  A vmi_init
\* that fails leaves no handle; one that comes too early leaves a handle on a VM
\* that is not okay.
RestartInit ==
  /\ wpc = "restart"
  /\ \/ /\ power[Current] = "up"
        /\ vmi' = [vmi EXCEPT ![Current] = "live"]
        /\ wpc' = "setup" /\ UNCHANGED <<wi, late>>
     \/ /\ power[Current] = "off" \/ "init" \in Fails
        /\ NextVm /\ UNCHANGED vmi
     \/ /\ power[Current] = "boot" \/ (power[Current] = "up" /\ "init" \in Fails)
        /\ vmi' = [vmi EXCEPT ![Current] = "live"]
        /\ NextVm
  /\ UNCHANGED <<domain, hdlrVars, booter, lpc>>

\* The rest of hfm_restart_vmi: events, view, trap manager and policies.  Only
\* when all of it succeeded is the VM okay again.
RestartSetup ==
  /\ wpc = "setup"
  /\ \/ okay' = [okay EXCEPT ![Current] = TRUE]
     \/ (vmi[Current] = "stale" \/ "setup" \in Fails) /\ UNCHANGED okay
  /\ NextVm
  /\ UNCHANGED <<domain, vmi, state, boot_done, booter, lpc>>

VmRestarted(vm) ==
  /\ Visits(vm, "RESTARTED")
  /\ GoTo(vm, "RUNNING") /\ NextVm
  /\ UNCHANGED <<domain, vmi, okay, boot_done, booter, lpc>>

Watch ==
  \/ NewRound \/ Settle \/ RestartInit \/ RestartSetup
  \/ \E vm \in Vm : \/ VmRunning(vm) \/ VmDestroy(vm) \/ VmShutdown(vm)
                    \/ VmBooting(vm) \/ VmRestarted(vm)

Next ==
  \/ \E vm \in Vm : \/ GoDown(vm) \/ ComeUp(vm) \/ Check(vm) \/ Listened(vm)
                    \/ BootInit(vm) \/ BootWait(vm)
  \/ Watch

Spec == Init /\ [][Next]_vars

\* Every thread is scheduled: the watcher, the boot threads and the listeners.
Fairness ==
  /\ WF_vars(Watch)
  /\ \A vm \in Vm : /\ WF_vars(Check(vm)) /\ WF_vars(Listened(vm))
                    /\ WF_vars(BootInit(vm)) /\ WF_vars(BootWait(vm))

FairSpec == Spec /\ Fairness
-----------------------------------------------------------------------------
(* Properties.                                                               *)

TypeOK ==
  /\ power \in [Vm -> {"off", "boot", "up"}]
  /\ downs \in [Vm -> 0..MaxDown]
  /\ vmi \in [Vm -> {"live", "stale", "freed"}]
  /\ state \in [Vm -> {"RUNNING", "DESTROY", "SHUTDOWN", "BOOTING", "RESTARTED"}]
  /\ okay \in [Vm -> BOOLEAN] /\ boot_done \in [Vm -> BOOLEAN]
  /\ booter \in [Vm -> {"none", "init", "wait"}]
  /\ lpc \in [Vm -> {"check", "listen"}]
  /\ wpc \in {"scan", "settle", "restart", "setup"}
  /\ wi \in 1..(Len(Hdlr) + 1)
  /\ late \in BOOLEAN

\* The watcher has vm's handler in its hands: it sets it up after a restart.
Restarting(vm) == wpc \in {"restart", "setup"} /\ Current = vm

\* While a listening thread is inside vmi_events_listen its handle exists and
\* hfm_restart_vmi is not replacing the handle and the trap manager under it.
ListenSafe(vm) == lpc[vm] = "listen" => vmi[vm] # "freed" /\ ~Restarting(vm)

\* The VM that was added first is safe: okay is cleared before the handle goes,
\* and the sleep outlasts the listening that had already begun (multiwatch.c).  The
\* thread of any other VM is told about this one, multiwatch.c:57, and is not safe.
FirstListenSafe == ListenSafe(Hdlr[1])

\* The watcher itself never pings or destroys a handle that was destroyed, or that
\* a restart failed to create (_get_vm_state leaves a VM that is not okay alone).
HandleUsable ==
  \A vm \in Vm : \/ state[vm] = "DESTROY"
                 \/ state[vm] = "RUNNING" /\ okay[vm]
                 => vmi[vm] # "freed"

\* When hfm_restart_vmi opens a handle on a VM nobody else has one: the old one
\* was destroyed and the boot thread has closed its own (_wait_boot_fc sets
\* boot_done last).
OneHandle ==
  \A vm \in Vm : wpc = "restart" /\ Current = vm
                 => vmi[vm] = "freed" /\ booter[vm] = "none"

\* The threads that restart a VM, which are the watcher and its boot threads, have
\* one handle of it open at a time, and the watcher uses it only while it lives,
\* whichever call of a restart, or of a boot thread, fails.  It says nothing of the
\* threads that listen: FirstListenSafe does for the first VM, and those of the
\* others do listen on a handle that the watcher has destroyed.
HandleSound == HandleUsable /\ OneHandle

\* A VM whose domain has gone is noticed: okay is cleared, whatever happens to
\* the other VMs that the watcher thread visits.
DeathNoticed ==
  \A vm \in Vm : (okay[vm] /\ vmi[vm] = "stale") ~> ~okay[vm]

\* hfm.cfg: "restart monitoring thread when VM rebooted".  A VM that comes up
\* for good is monitored again, if no call fails that could succeed.
MonitoredAgain ==
  \A vm \in Vm : <>[](power[vm] = "up") => <>[](okay[vm] /\ vmi[vm] = "live")
=============================================================================
