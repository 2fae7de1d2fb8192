------------------------------ MODULE Lifecycle ------------------------------
(***************************************************************************)
(* The program from start to end: main.c with hfm_init and hfm_close, as   *)
(* hfm.cfg has it, with auto-restart off.                                  *)
(*                                                                         *)
(* main initialises the VMs of vmlist one by one, unwinding what it has    *)
(* acquired for one that fails, sets the policies, and starts a listening  *)
(* thread for each VM.  A signal sets the flag interrupted of every VM;    *)
(* its thread then closes the VM and gives its shadow frames back to Xen   *)
(* while other threads go on.  main waits for all threads before it        *)
(* releases what they share.                                               *)
(*                                                                         *)
(* The calls of LibVMI and Xen in hfm_close are not checked: each of them  *)
(* may fail, the pause of the VM included, so that its vCPUs run on.       *)
(***************************************************************************)
EXTENDS Naturals, Sequences, FiniteSets, Functions

CONSTANTS
  MaxNames,    \* bound: how many VMs vmlist names
  VmMax,       \* VM_MAX: the length of vms[] and threads[]
  Page,        \* the pages of a VM that hooks are on
  MaxFaults,   \* bound: how many calls fail for one VM
  MaxSignals   \* bound: how many signals arrive

ASSUME LifecycleAssumption ==
  /\ MaxNames \in Nat /\ VmMax \in Nat
  /\ MaxFaults \in Nat /\ MaxSignals \in Nat

\* A handler (vmhdlr_t) is known by the place of its name in vmlist.
Handler == 1..MaxNames

\* What hfm_init acquires, in order: the Xen interface, the LibVMI handle, the
\* view, the trap manager and the output plugin.
Steps == <<"xen", "vmi", "view", "traps", "out">>
Resource == {"handler", "xen", "vmi", "view", "traps", "out"}

\* What main releases at the end, in order.
Releases == <<"policies", "log", "config", "filters">>
Shared == {"policies", "log", "config", "filters"}

VARIABLES
  names,         \* how many names vmlist has; 0: there is no vmlist
  mpc, k, step,  \* main: where it is, its loop index, the step of hfm_init
  vms,           \* vms[]
  shared,        \* what main has not released yet
  lpc,           \* where the listening thread of each handler is
  interrupted,   \* vm->interrupted
  held,          \* what has been acquired for each handler and not released
  misused,       \* what the last call for a VM used or released that was not held
  table,         \* the pages of remapped_tbl
  mapped,        \* the pages that the view maps to a shadow frame
  guarded,       \* the pages closed to reads and writes in the view
  back,          \* the pages whose shadow frame was given back to Xen
  stray,         \* the pages whose INT3 went to frame 0 of the guest
  todo, page,    \* the loops of _destroy_traps: what is left, where they are
  running,       \* whether the vCPUs run, and whether
  inView,        \* they do in the shadow view
  faults,        \* how many calls failed
  signals, told  \* signals that arrived; whether one found the VMs in vms[]

main     == <<names, mpc, k, step, vms, shared>>
pages    == <<table, mapped, guarded, back, stray>>
loop     == <<todo, page>>
machine  == <<running, inView>>
resource == <<held, misused>>
signal   == <<signals, told>>
vars == <<main, lpc, interrupted, resource, pages, loop, machine, faults, signal>>

\* Before a page is given back there is none.
NoPage == {}

Init ==
  /\ names \in 0..MaxNames
  /\ mpc = IF names = 0 THEN "release" ELSE "name"
  /\ k = 1 /\ step = 1
  /\ vms = <<>> /\ shared = Shared
  /\ lpc = [h \in Handler |-> "none"]
  /\ interrupted = [h \in Handler |-> FALSE]
  /\ held = [h \in Handler |-> {}] /\ misused = {}
  /\ table = [h \in Handler |-> {}] /\ mapped = [h \in Handler |-> {}]
  /\ guarded = [h \in Handler |-> {}] /\ back = [h \in Handler |-> {}]
  /\ stray = [h \in Handler |-> {}]
  /\ todo = [h \in Handler |-> {}] /\ page = [h \in Handler |-> NoPage]
  /\ running = [h \in Handler |-> TRUE] /\ inView = [h \in Handler |-> FALSE]
  /\ faults = [h \in Handler |-> 0]
  /\ signals = 0 /\ told = FALSE

\* One more thing is acquired for h.
Acquire(h, res) ==
  held' = [held EXCEPT ![h] = @ \cup {res}] /\ misused' = {}

\* Things of h are used and then released.
UseAndFree(h, uses, frees) ==
  /\ held' = [held EXCEPT ![h] = @ \ frees]
  /\ misused' = {h} \X ((uses \cup frees) \ held[h])

\* A call for h fails.
Fault(h) == faults[h] < MaxFaults /\ faults' = [faults EXCEPT ![h] = @ + 1]

-----------------------------------------------------------------------------
(* _init_vms and hfm_init.                                                   *)

\* One VM more than there is room for.
QuotaErr == Len(vms) > VmMax

\* Names that exceed VM_MAX are ignored.
Quota == Len(vms) >= VmMax

\* The next name of vmlist, or vmnum = cnt and on to the policies.
NextName ==
  /\ mpc = "name"
  /\ \/ /\ k <= names /\ ~Quota
        /\ mpc' = "init" /\ step' = 1 /\ k' = k
        /\ Acquire(k, "handler")
     \/ /\ k > names \/ Quota
        /\ mpc' = "policies" /\ k' = 1
        /\ UNCHANGED <<step, resource>>
  /\ UNCHANGED <<names, vms, shared, lpc, interrupted, pages, loop, machine, faults, signal>>

\* A step of hfm_init succeeds; after the last one the handler is in vms[].  With
\* its view the VM is switched to it.
InitStep ==
  /\ mpc = "init"
  /\ Acquire(k, Steps[step])
  /\ inView' = IF Steps[step] = "view" THEN [inView EXCEPT ![k] = TRUE] ELSE inView
  /\ \/ /\ step < Len(Steps)
        /\ step' = step + 1 /\ UNCHANGED <<mpc, k, vms>>
     \/ /\ step = Len(Steps)
        /\ vms' = Append(vms, k) /\ k' = k + 1 /\ mpc' = "name" /\ UNCHANGED step
  /\ UNCHANGED <<names, shared, lpc, interrupted, pages, loop, running, faults, signal>>

\* The label of the step that failed.
UnwindFromErr == step

\* A step that fails jumps behind what would undo it.
UnwindFrom == step - 1

\* _setup_altp2m creates the view before it switches to it, and leaves it there
\* if the switch fails.
InitFails ==
  /\ mpc = "init"
  /\ mpc' = "unwind" /\ step' = UnwindFrom
  /\ \/ UNCHANGED resource
     \/ Steps[step] = "view" /\ Acquire(k, "view")
  /\ UNCHANGED <<names, k, vms, shared, lpc, interrupted, pages, loop, machine, faults, signal>>

\* error5 to error1, one after the other, and the free of _init_vms.
Unwind ==
  /\ mpc = "unwind"
  /\ \/ /\ step > 0
        /\ UseAndFree(k, IF Steps[step] = "view" THEN {"vmi"} ELSE {}, {Steps[step]})
        /\ inView' = IF Steps[step] = "view" THEN [inView EXCEPT ![k] = FALSE] ELSE inView
        /\ step' = step - 1 /\ UNCHANGED <<mpc, k>>
     \/ /\ step = 0
        /\ UseAndFree(k, {}, {"handler"})
        /\ mpc' = "name" /\ k' = k + 1 /\ UNCHANGED <<step, inView>>
  /\ UNCHANGED <<names, vms, shared, lpc, interrupted, pages, loop, running, faults, signal>>

-----------------------------------------------------------------------------
(* Shadow pages, as _inject_trap makes them: one that could not be made or   *)
(* copied may stay mapped, is in no table, and is made again for the next    *)
(* hook; its page is closed to data accesses all the same.  Its number is 0, *)
(* and the INT3 goes to frame 0 of the guest, unless the byte is one already *)
(* or cannot be written; nothing takes it away again.                        *)

Shadow(h, p) ==
  /\ p \notin table[h]
  /\ guarded' = [guarded EXCEPT ![h] = @ \cup {p}]
  /\ \/ /\ table' = [table EXCEPT ![h] = @ \cup {p}]
        /\ mapped' = [mapped EXCEPT ![h] = @ \cup {p}]
        /\ UNCHANGED <<faults, stray>>
     \/ /\ Fault(h)
        /\ mapped' \in {mapped, [mapped EXCEPT ![h] = @ \cup {p}]}
        /\ stray' \in {stray, [stray EXCEPT ![h] = @ \cup {p}]}
        /\ UNCHANGED table
  /\ UNCHANGED back

-----------------------------------------------------------------------------
(* The rest of main.                                                         *)

\* hfm_set_policies for each VM; its hooks are on any of the pages.
SetPolicies ==
  /\ mpc = "policies" /\ k <= Len(vms)
  /\ \/ /\ \E p \in Page : Shadow(vms[k], p)
        /\ UNCHANGED k
     \/ k' = k + 1 /\ UNCHANGED <<pages, faults>>
  /\ UseAndFree(vms[k], {"xen", "vmi", "view", "traps"}, {})
  /\ UNCHANGED <<names, mpc, step, vms, shared, lpc, interrupted, loop, machine, signal>>

StartThreads ==
  /\ mpc = "policies" /\ k > Len(vms)
  /\ mpc' = "join" /\ k' = 1
  /\ lpc' = [h \in Handler |-> IF h \in Range(vms) THEN "check" ELSE lpc[h]]
  /\ UNCHANGED <<names, step, vms, shared, interrupted, resource, pages, loop, machine,
                 faults, signal>>

\* The last thread is not waited for.
ThreadsErr == Len(vms) - 1

\* Those that are joined: vmnum.
Threads == Len(vms)

Join ==
  /\ mpc = "join"
  /\ \/ /\ k <= Threads /\ lpc[vms[k]] = "ended"
        /\ k' = k + 1 /\ UNCHANGED mpc
     \/ /\ k > Threads
        /\ mpc' = "release" /\ k' = 1
  /\ UNCHANGED <<names, step, vms, shared, lpc, interrupted, resource, pages, loop, machine,
                 faults, signal>>

\* From the label done on: free_policies, log_close, config_close, mon_close.
Release ==
  /\ mpc = "release"
  /\ \/ /\ k <= Len(Releases)
        /\ shared' = shared \ {Releases[k]} /\ k' = k + 1 /\ UNCHANGED mpc
     \/ k > Len(Releases) /\ mpc' = "done" /\ UNCHANGED <<shared, k>>
  /\ UNCHANGED <<names, step, vms, lpc, interrupted, resource, pages, loop, machine, faults,
                 signal>>

Main ==
  \/ NextName \/ InitStep \/ InitFails \/ Unwind \/ SetPolicies \/ StartThreads
  \/ Join \/ Release

\* The last VM of the list is left out.
ReachedErr == {vms[i] : i \in 1..(Len(vms) - 1)}

\* close_handler reaches the VMs below vmnum, which is 0 until _init_vms returns.
Reached == Range(vms)

\* A signal: external when it comes.  What it writes into a handler that has been
\* freed, as vms[] still has it, is of no consequence here.
Signal ==
  /\ signals < MaxSignals /\ mpc # "done"
  /\ signals' = signals + 1
  /\ \/ /\ mpc \in {"name", "init", "unwind"}
        /\ UNCHANGED <<interrupted, told>>
     \/ /\ mpc \notin {"name", "init", "unwind"}
        /\ interrupted' = [h \in Handler |-> interrupted[h] \/ h \in Reached]
        /\ told' = TRUE
  /\ UNCHANGED <<main, lpc, resource, pages, loop, machine, faults>>

-----------------------------------------------------------------------------
(* _monitor_vm, the listening thread of a VM, and hfm_close at its end.      *)

\* What follows each step of the thread from hfm_close on.
After ==
  [pause |-> "out", out |-> "guards", guards |-> "pages", pages |-> "traps",
   traps |-> "switch", switch |-> "view", view |-> "xen", xen |-> "resume", resume |-> "vmi",
   vmi |-> "handler", handler |-> "ended"]

GoTo(h, l) == lpc' = [lpc EXCEPT ![h] = l]
At(h, l) == lpc[h] = l /\ GoTo(h, After[l])

Check(h) ==
  /\ lpc[h] = "check"
  /\ GoTo(h, IF interrupted[h] THEN "pause" ELSE "listen")
  /\ UNCHANGED <<main, interrupted, resource, pages, loop, machine, faults, signal>>

\* hfm_listen: callbacks may shadow a page for a return trap, or fail to remove an
\* INT3, which interrupts this VM alone.
Listen(h) ==
  /\ lpc[h] = "listen" /\ GoTo(h, "check")
  /\ UseAndFree(h, {"xen", "vmi", "view", "traps", "out"}, {})
  /\ \/ UNCHANGED <<interrupted, pages, faults>>
     \/ \E p \in Page : Shadow(h, p) /\ UNCHANGED interrupted
     \/ Fault(h) /\ interrupted' = [interrupted EXCEPT ![h] = TRUE] /\ UNCHANGED pages
  /\ UNCHANGED <<main, loop, machine, signal>>

\* vmi_pause_vm.
Pause(h) ==
  /\ At(h, "pause") /\ UseAndFree(h, {"vmi"}, {})
  /\ \/ running' = [running EXCEPT ![h] = FALSE] /\ UNCHANGED faults
     \/ Fault(h) /\ UNCHANGED running
  /\ UNCHANGED <<main, interrupted, pages, loop, inView, signal>>

\* out_close; _destroy_traps then lists the pages with memory events.
OutClose(h) ==
  /\ At(h, "out") /\ UseAndFree(h, {}, {"out"})
  /\ todo' = [todo EXCEPT ![h] = guarded[h]]
  /\ UNCHANGED <<main, interrupted, pages, page, machine, faults, signal>>

\* vmi_set_mem_event(..., VMI_MEMACCESS_N).
Unguard(h) ==
  /\ lpc[h] = "guards"
  /\ \E p \in todo[h] :
       /\ todo' = [todo EXCEPT ![h] = @ \ {p}]
       /\ \/ guarded' = [guarded EXCEPT ![h] = @ \ {p}] /\ UNCHANGED faults
          \/ Fault(h) /\ UNCHANGED guarded
  /\ UseAndFree(h, {"vmi", "view", "traps"}, {})
  /\ UNCHANGED <<main, lpc, interrupted, table, mapped, back, stray, page, machine, signal>>

\* The shadow frames come next.
EndGuards(h) ==
  /\ todo[h] = {} /\ At(h, "guards")
  /\ todo' = [todo EXCEPT ![h] = table[h]]
  /\ UNCHANGED <<main, interrupted, resource, pages, page, machine, faults, signal>>

\* The view goes on to map the shadow frame.
UnmappedErr(h, p) == mapped

\* vmi_slat_change_gfn(..., ~0).
Unmapped(h, p) == [mapped EXCEPT ![h] = @ \ {p}]

Unmap(h) ==
  /\ lpc[h] = "pages" /\ page[h] = NoPage
  /\ \E p \in todo[h] :
       /\ page' = [page EXCEPT ![h] = {p}] /\ todo' = [todo EXCEPT ![h] = @ \ {p}]
       /\ \/ mapped' = Unmapped(h, p) /\ UNCHANGED faults
          \/ Fault(h) /\ UNCHANGED mapped
  /\ UseAndFree(h, {"vmi", "view", "traps"}, {})
  /\ UNCHANGED <<main, lpc, interrupted, table, guarded, back, stray, machine, signal>>

\* xen_free_shadow_frame.
GiveBack(h) ==
  /\ lpc[h] = "pages" /\ page[h] # NoPage
  /\ page' = [page EXCEPT ![h] = NoPage]
  /\ \/ back' = [back EXCEPT ![h] = @ \cup page[h]] /\ UNCHANGED faults
     \/ Fault(h) /\ UNCHANGED back
  /\ UseAndFree(h, {"xen", "traps"}, {})
  /\ UNCHANGED <<main, lpc, interrupted, table, mapped, guarded, stray, todo, machine, signal>>

EndPages(h) ==
  /\ todo[h] = {} /\ page[h] = NoPage /\ At(h, "pages")
  /\ UNCHANGED <<main, interrupted, resource, pages, loop, machine, faults, signal>>

TmDestroy(h) ==
  /\ At(h, "traps") /\ UseAndFree(h, {}, {"traps"})
  /\ table' = [table EXCEPT ![h] = {}]
  /\ UNCHANGED <<main, interrupted, mapped, guarded, back, stray, loop, machine, faults, signal>>

\* _reset_altp2m: back to ORIGIN_IDX ...
Switch(h) ==
  /\ At(h, "switch") /\ UseAndFree(h, {"vmi"}, {})
  /\ \/ inView' = [inView EXCEPT ![h] = FALSE] /\ UNCHANGED faults
     \/ Fault(h) /\ UNCHANGED inView
  /\ UNCHANGED <<main, interrupted, pages, loop, running, signal>>

\* ... and vmi_slat_destroy, which Xen refuses while the view is in use.
DestroyView(h) ==
  /\ At(h, "view")
  /\ \/ ~inView[h] /\ UseAndFree(h, {"vmi"}, {"view"}) /\ UNCHANGED faults
     \/ inView[h] /\ UseAndFree(h, {"vmi", "view"}, {}) /\ UNCHANGED faults
     \/ Fault(h) /\ UseAndFree(h, {"vmi", "view"}, {})
  /\ UNCHANGED <<main, interrupted, pages, loop, machine, signal>>

XenFree(h) ==
  /\ At(h, "xen") /\ UseAndFree(h, {}, {"xen"})
  /\ UNCHANGED <<main, interrupted, pages, loop, machine, faults, signal>>

\* vmi_resume_vm.
Resume(h) ==
  /\ At(h, "resume") /\ UseAndFree(h, {"vmi"}, {})
  /\ \/ running' = [running EXCEPT ![h] = TRUE] /\ UNCHANGED faults
     \/ Fault(h) /\ UNCHANGED running
  /\ UNCHANGED <<main, interrupted, pages, loop, inView, signal>>

CloseVmi(h) ==
  /\ At(h, "vmi") /\ UseAndFree(h, {}, {"vmi"})
  /\ UNCHANGED <<main, interrupted, pages, loop, machine, faults, signal>>

\* free(vm) at the end of the thread.
FreeHandler(h) ==
  /\ At(h, "handler") /\ UseAndFree(h, {}, {"handler"})
  /\ UNCHANGED <<main, interrupted, pages, loop, machine, faults, signal>>

MonitorVm(h) ==
  \/ Check(h) \/ Listen(h) \/ Pause(h) \/ OutClose(h) \/ Unguard(h) \/ EndGuards(h)
  \/ Unmap(h) \/ GiveBack(h) \/ EndPages(h) \/ TmDestroy(h) \/ Switch(h) \/ DestroyView(h)
  \/ XenFree(h) \/ Resume(h) \/ CloseVmi(h) \/ FreeHandler(h)

Next == Main \/ Signal \/ \E h \in Handler : MonitorVm(h)

Spec == Init /\ [][Next]_vars

\* main and the threads are scheduled, and hfm_listen returns in half a second.
\* No signal need ever come.
FairSpec == Spec /\ WF_vars(Main) /\ \A h \in Handler : WF_vars(MonitorVm(h))

-----------------------------------------------------------------------------
(* Properties.                                                               *)

TypeOK ==
  /\ names \in 0..MaxNames
  /\ mpc \in {"name", "init", "unwind", "policies", "join", "release", "done"}
  /\ k \in Nat \ {0} /\ step \in 0..Len(Steps)
  /\ vms \in Seq(Handler) /\ Len(vms) <= VmMax
  /\ shared \subseteq Shared
  /\ lpc \in [Handler -> DOMAIN After \cup {"none", "check", "listen", "ended"}]
  /\ interrupted \in [Handler -> BOOLEAN]
  /\ held \in [Handler -> SUBSET Resource] /\ misused \subseteq Handler \X Resource
  /\ table \in [Handler -> SUBSET Page] /\ mapped \in [Handler -> SUBSET Page]
  /\ guarded \in [Handler -> SUBSET Page] /\ back \in [Handler -> SUBSET Page]
  /\ stray \in [Handler -> SUBSET Page]
  /\ todo \in [Handler -> SUBSET Page] /\ page \in [Handler -> SUBSET Page]
  /\ running \in [Handler -> BOOLEAN] /\ inView \in [Handler -> BOOLEAN]
  /\ faults \in [Handler -> 0..MaxFaults]
  /\ signals \in 0..MaxSignals /\ told \in BOOLEAN

\* What hfm_init acquires is used while it is there and released once, on each of
\* the ways out of hfm_init and by hfm_close: nothing is used or released that is
\* not held, and with the handler the last of it goes, except a view that was
\* created and not switched to, or that Xen would not destroy.
ReleasedOnce ==
  /\ misused = {}
  /\ \A h \in Handler : "handler" \notin held[h] =>
       held[h] \subseteq IF faults[h] > 0 \/ h \notin Range(vms) THEN {"view"} ELSE {}

\* Threads that run.
Alive(h) == lpc[h] \notin {"none", "ended"}

\* Policies, log, configuration and filters, which all threads use, outlive them.
SharedLive == (\E h \in Handler : Alive(h)) => shared = Shared

\* If a single call fails, one of hfm_close, the pause included, or one for which a
\* page could not be shadowed, then the vCPUs never run on a frame that Xen has
\* got back, and when hfm_close has resumed the VM they are neither trapped nor
\* stopped by what the view has, with nobody there to serve the event.  What a
\* page that could not be shadowed has written to frame 0 of the guest is left
\* there; then all else is undone, and the vCPUs run outside of the view.
GuestRestored ==
  \A h \in Handler : faults[h] <= 1 =>
    /\ running[h] /\ inView[h] => mapped[h] \cap back[h] = {}
    /\ lpc[h] \in {"vmi", "handler", "ended"} =>
         IF stray[h] = {} THEN inView[h] => mapped[h] = {} /\ guarded[h] = {}
         ELSE running[h] /\ ~inView[h]

\* A signal that comes when the VMs are known ends the program.
Ends == told ~> mpc = "done"
=============================================================================
