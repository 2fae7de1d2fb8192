------------------------------- MODULE Program -------------------------------
(***************************************************************************)
(* The whole of main: Lifecycle, with what its setting of auto-restart     *)
(* adds to it and with the log.                                            *)
(*                                                                         *)
(* Every VM that is named gets an entry of the log, log.c, and writes to   *)
(* it.  With auto-restart a watcher thread, multiwatch.c, visits the VMs   *)
(* in turn, destroys the handle of one that is down, and sets it up again  *)
(* step by step, hfm_restart_vmi, while the listening threads go on; it is *)
(* closed after all else.  (How long it waits between its visits is in     *)
(* Watcher.)                                                               *)
(*                                                                         *)
(* Without auto-restart each step is one of Lifecycle, or leaves its       *)
(* variables alone: theorem Implements of Program_proofs.  With it the     *)
(* watcher takes away what a VM holds and gives it back, and a restart     *)
(* that fails leaves some of it missing: ReleasedOnce does not hold then,  *)
(* and ShutdownOrder says what does.                                       *)
(***************************************************************************)
EXTENDS Lifecycle, Integers

CONSTANTS
  LogMax,        \* MAX of log.c: the entries of the log
  MaxOpenFails,  \* bound: how many log files cannot be opened
  MaxDowns       \* bound: how often a VM goes down

ASSUME ProgramAssumption ==
  LogMax \in Nat \ {0} /\ MaxOpenFails \in Nat /\ MaxDowns \in Nat

VARIABLES
  auto,      \* auto_restart; a configuration that leaves it out has -1
  count,     \* entry_count
  logid,     \* vmhdlr->logid, and -1 for a handler not made yet
  unopened,  \* how many log files could not be opened
  wpc, wi,   \* the watcher thread, and its index in hdlr[], the VMs of vms[]
  closed,    \* wv->closed, by when hdlr[] has been freed
  vm,        \* what the watcher has made of each VM
  downs,     \* how often one has been found down
  late,      \* history: what is shared was used after it was released
  exit       \* how main has ended

logging == <<count, logid, unopened>>
watch   == <<wpc, wi, closed, vm, downs>>
program == <<auto, logging, watch, late, exit>>

\* Up, found dead, destroyed; the steps of hfm_restart_vmi, which the VM is in; and
\* one that failed.
VmState ==
  {"up", "dead", "gone", "xen", "open", "vmi", "view", "traps", "tm", "policies", "lost"}

ProgramInit ==
  /\ Init
  /\ auto \in BOOLEAN
  /\ count = 1 /\ logid = [h \in Handler |-> -1] /\ unopened = 0
  /\ wpc = "none" /\ wi = 1 /\ closed = FALSE
  /\ vm = [h \in Handler |-> "up"] /\ downs = 0
  /\ late = FALSE /\ exit = "no"

-----------------------------------------------------------------------------
(* main.                                                                     *)

\* The entries are one more than there is room for.
AddEntryLateErr(h) ==
  \/ /\ count <= LogMax
     /\ logid' = [logid EXCEPT ![h] = count] /\ count' = count + 1
     /\ UNCHANGED unopened
  \/ count > LogMax /\ UNCHANGED logging

\* The entry of a VM is not counted.
AddEntryErr(h) ==
  /\ count < LogMax
  /\ logid' = [logid EXCEPT ![h] = count] /\ UNCHANGED <<count, unopened>>

\* log_add_entry: entry 0 is that of main.  A file that cannot be opened leaves
\* its entry to the next.
AddEntry(h) ==
  \/ /\ count < LogMax
     /\ logid' = [logid EXCEPT ![h] = count] /\ count' = count + 1
     /\ UNCHANGED unopened
  \/ /\ count < LogMax /\ unopened < MaxOpenFails
     /\ unopened' = unopened + 1 /\ UNCHANGED <<count, logid>>
  \/ count >= LogMax /\ UNCHANGED logging

\* The entry of a VM is made before hfm_init.
NameLogged ==
  /\ NextName
  /\ IF mpc' = "init" THEN AddEntry(k) ELSE UNCHANGED logging
  /\ UNCHANGED <<auto, watch, late, exit>>

\* wv_add_vm for each VM and wv_start, before the listening threads.
StartAll ==
  /\ StartThreads
  /\ wpc' = IF auto THEN "visit" ELSE wpc
  /\ UNCHANGED <<auto, logging, wi, closed, vm, downs, late, exit>>

MainGoesOn ==
  /\ InitStep \/ InitFails \/ Unwind \/ SetPolicies \/ Join \/ Release
  /\ UNCHANGED program

\* After mon_close: with auto-restart wv_close, which frees hdlr[], sets closed and
\* joins the thread; without a vmlist there is none, and the join of no thread
\* brings the program down.
WvClose ==
  /\ mpc = "done" /\ exit = "no"
  /\ \/ ~auto /\ exit' = "returned" /\ UNCHANGED closed
     \/ auto /\ wpc = "none" /\ exit' = "crashed" /\ closed' = TRUE
     \/ auto /\ wpc # "none" /\ exit' = "joining" /\ closed' = TRUE
  /\ UNCHANGED <<vars, auto, logging, wpc, wi, vm, downs, late>>

WvJoined ==
  /\ exit = "joining" /\ wpc = "ended" /\ exit' = "returned"
  /\ UNCHANGED <<vars, auto, logging, watch, late>>

ProgramMain == NameLogged \/ StartAll \/ MainGoesOn \/ WvClose \/ WvJoined

-----------------------------------------------------------------------------
(* The listening threads.                                                    *)

\* The answer is yes again when the restart begins.
OkayErr == auto => \A i \in {1} \cap DOMAIN vms : vm[vms[i]] \notin {"dead", "gone"}

\* wv_vmi_okay: the answer is that of the first VM that is watched.
Okay == auto => \A i \in {1} \cap DOMAIN vms : vm[vms[i]] = "up"

\* A thread whose VM is not okay does not look at interrupted.
ListenerGoesOnErr(h) ==
  /\ lpc[h] = "check" => Okay
  /\ MonitorVm(h)
  /\ UNCHANGED program

\* A thread waits while its VM is not okay; from hfm_close on nobody asks.
ListenerGoesOn(h) ==
  /\ lpc[h] = "check" => Okay \/ interrupted[h]
  /\ MonitorVm(h)
  /\ UNCHANGED program

ProgramSignal == Signal /\ UNCHANGED program

-----------------------------------------------------------------------------
(* _monitor_fc, the watcher thread.                                          *)

\* Of the things that main shares, and hdlr[], it uses some.
Uses(things) ==
  late' = (late \/ ~things \subseteq shared \cup (IF closed THEN {} ELSE {"hdlr"}))

\* Things of h are used; some of them go, and others come.
Replace(h, uses, old, new) ==
  /\ held' = [held EXCEPT ![h] = (@ \ old) \cup new]
  /\ misused' = {h} \X (uses \ held[h])

\* It goes on to the next VM, or with this one.
Leave(h, v) == vm' = [vm EXCEPT ![h] = v] /\ wi' = wi + 1
Stay(h, v)  == vm' = [vm EXCEPT ![h] = v] /\ UNCHANGED wi

\* _ping_vm: a VM that is no longer there is destroyed in the next round.
VisitUp(h) ==
  /\ vm[h] = "up"
  /\ \/ Leave(h, "up") /\ UNCHANGED downs
     \/ downs < MaxDowns /\ downs' = downs + 1 /\ Leave(h, "dead")
  /\ Replace(h, {"handler", "vmi"}, {}, {}) /\ Uses({"hdlr"})
  /\ UNCHANGED <<pages, machine, faults>>

\* vmi_destroy: hfm_listen, which takes half a second, does not outlast the five
\* that have passed since the first VM was no longer okay.
VisitDead(h) ==
  /\ vm[h] = "dead" /\ Leave(h, "gone")
  /\ h = vms[1] => lpc[h] # "listen"
  /\ Replace(h, {"handler", "vmi"}, {"vmi"}, {}) /\ Uses({"hdlr"})
  /\ UNCHANGED <<pages, machine, faults>>

\* The VM is awaited, or is there again.  One whose restart failed is running for
\* the watcher, and not okay: nothing is done with it any more.
VisitGone(h) ==
  /\ \/ vm[h] = "gone" /\ (Leave(h, "gone") \/ Stay(h, "xen"))
     \/ vm[h] = "lost" /\ Leave(h, "lost")
  /\ Uses({"hdlr"}) /\ UNCHANGED <<resource, pages, machine, faults>>

\* hfm_restart_vmi: xen_free_interface ...
RestartXen(h) ==
  /\ vm[h] = "xen" /\ Stay(h, "open")
  /\ Replace(h, {"handler", "xen"}, {"xen"}, {}) /\ Uses({})
  /\ UNCHANGED <<pages, machine, faults>>

\* ... and xen_init_interface.
RestartOpen(h) ==
  /\ vm[h] = "open"
  /\ \/ Stay(h, "vmi") /\ Replace(h, {"handler"}, {}, {"xen"}) /\ Uses({})
     \/ Leave(h, "lost") /\ Replace(h, {"handler"}, {}, {}) /\ Uses({"log"})
  /\ UNCHANGED <<pages, machine, faults>>

\* vmi_init, the paging mode, the OS and the events, of a domain that runs without
\* a view.
RestartVmi(h) ==
  /\ vm[h] = "vmi"
  /\ \/ /\ Leave(h, "lost") /\ Replace(h, {"handler"}, {}, {}) /\ Uses({"log"})
        /\ UNCHANGED <<pages, machine>>
     \/ /\ \/ Stay(h, "view") /\ Uses({"config"})
           \/ Leave(h, "lost") /\ Uses({"log", "config"})
        /\ Replace(h, {"handler"}, {"view"}, {"vmi"})
        /\ mapped' = [mapped EXCEPT ![h] = {}] /\ back' = [back EXCEPT ![h] = {}]
        /\ stray' = [stray EXCEPT ![h] = {}] /\ UNCHANGED <<table, guarded>>
        /\ running' = [running EXCEPT ![h] = TRUE] /\ inView' = [inView EXCEPT ![h] = FALSE]
  /\ UNCHANGED faults

\* _setup_altp2m.
RestartView(h) ==
  /\ vm[h] = "view"
  /\ \/ /\ Stay(h, "traps") /\ Replace(h, {"handler", "vmi"}, {}, {"view"}) /\ Uses({})
        /\ inView' = [inView EXCEPT ![h] = TRUE]
     \/ /\ Leave(h, "lost") /\ Uses({"log"}) /\ UNCHANGED inView
        /\ \E new \in {{}, {"view"}} : Replace(h, {"handler", "vmi"}, {}, new)
  /\ UNCHANGED <<pages, running, faults>>

\* tm_destroy, with the pages that the trap manager lists, ...
RestartTraps(h) ==
  /\ vm[h] = "traps" /\ Stay(h, "tm")
  /\ Replace(h, {"handler", "traps"}, {"traps"}, {}) /\ Uses({})
  /\ table' = [table EXCEPT ![h] = {}] /\ guarded' = [guarded EXCEPT ![h] = {}]
  /\ UNCHANGED <<mapped, back, stray, machine, faults>>

\* ... and tm_init.
RestartTm(h) ==
  /\ vm[h] = "tm"
  /\ \/ Stay(h, "policies") /\ Replace(h, {"handler"}, {}, {"traps"}) /\ Uses({})
     \/ Leave(h, "lost") /\ Replace(h, {"handler"}, {}, {}) /\ Uses({"log"})
  /\ UNCHANGED <<pages, machine, faults>>

\* hfm_set_policies, and okay = 1 at its end.
RestartPolicies(h) ==
  /\ vm[h] = "policies"
  /\ \/ /\ Stay(h, "policies") /\ \E p \in Page : Shadow(h, p)
        /\ Uses({"policies", "filters", "log"})
     \/ Leave(h, "up") /\ Uses({"hdlr", "policies"}) /\ UNCHANGED <<pages, faults>>
  /\ Replace(h, {"handler", "xen", "vmi", "view", "traps"}, {}, {})
  /\ UNCHANGED machine

Restart(h) ==
  \/ RestartXen(h) \/ RestartOpen(h) \/ RestartVmi(h) \/ RestartView(h) \/ RestartTraps(h)
  \/ RestartTm(h) \/ RestartPolicies(h)

WatcherVisit ==
  /\ wpc = "visit" /\ wi <= Len(vms)
  /\ LET h == vms[wi] IN
       \/ VisitUp(h)
       \/ (VisitDead(h) \/ VisitGone(h) \/ Restart(h)) /\ UNCHANGED downs
  /\ UNCHANGED <<main, lpc, interrupted, loop, signal, auto, logging, wpc, closed, exit>>

\* closed is read between two rounds.
WatcherRound ==
  /\ wpc = "visit" /\ wi > Len(vms)
  /\ wi' = 1 /\ wpc' = IF closed THEN "ended" ELSE "visit"
  /\ UNCHANGED <<vars, auto, logging, closed, vm, downs, late, exit>>

WatcherThread == WatcherVisit \/ WatcherRound

-----------------------------------------------------------------------------
ProgramNext ==
  \/ ProgramMain \/ ProgramSignal \/ WatcherThread
  \/ \E h \in Handler : ListenerGoesOn(h)

allVars == <<vars, program>>

ProgramSpec == ProgramInit /\ [][ProgramNext]_allVars

\* As in Lifecycle; the calls of the watcher thread return.
FairProgram ==
  /\ ProgramSpec
  /\ WF_allVars(ProgramMain) /\ WF_allVars(WatcherThread)
  /\ \A h \in Handler : WF_allVars(ListenerGoesOn(h))

-----------------------------------------------------------------------------
(* Properties.                                                               *)

ProgramTypeOK ==
  /\ TypeOK
  /\ auto \in BOOLEAN
  /\ count \in 1..LogMax /\ logid \in [Handler -> -1..(LogMax - 1)]
  /\ unopened \in 0..MaxOpenFails
  /\ wpc \in {"none", "visit", "ended"}
  /\ wi \in 1..(Len(vms) + 1) /\ closed \in BOOLEAN
  /\ vm \in [Handler -> VmState] /\ downs \in 0..MaxDowns
  /\ late \in BOOLEAN
  /\ exit \in {"no", "joining", "returned", "crashed"}

\* A VM writes to an entry of the log that is neither the main one nor that of
\* another VM.  It has none, and writelog takes its id for an index far outside
\* of the table, only if the log is full, as each name has taken an entry, the
\* names of VMs that failed too, or if its file could not be opened.
LogOwn ==
  \A h \in Handler :
    /\ \A g \in Handler \ {h} : logid[g] = logid[h] => logid[h] = -1
    /\ logid[h] # 0
    /\ "handler" \in held[h] /\ logid[h] = -1 => names >= LogMax \/ unopened > 0

\* Without auto-restart nothing is used or released that is not held.  With it a
\* thing of a VM may be missing when it is used, which the watcher has destroyed,
\* or a failed restart has left out, or hfm_close has released: only if the thread
\* of that VM is past its loop; or, as wv_vmi_okay answers for the first VM, by
\* the listening of another, and then it is not its handler or output.  What main
\* shares is not used late before all threads have ended.  And the watcher that
\* main joins at the end has been started, if there was a vmlist.
ShutdownOrder ==
  /\ ~auto => misused = {} /\ ~late
  /\ \A m \in misused :
       \/ lpc[m[1]] \notin {"none", "check", "listen"}
       \/ m[1] \in Range(vms) \ {vms[1]} /\ m[2] \notin {"handler", "out"}
  /\ late => mpc \in {"release", "done"} /\ ~\E h \in Handler : Alive(h)
  /\ exit = "crashed" => auto /\ names = 0

\* With auto-restart too a signal ends the program, if what is used late does no
\* other harm, although listening threads may be held up by a VM that is down and
\* main waits for the thread that waits for that VM.
Returns == told ~> exit \in {"returned", "crashed"}
=============================================================================
