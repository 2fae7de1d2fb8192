--------------------------- MODULE Program_proofs ---------------------------
(***************************************************************************)
(* Proofs about Program, for any list of VMs, any size of the log, any     *)
(* files of it that cannot be opened, and any VMs that go down.            *)
(*                                                                         *)
(* Without auto-restart Program refines Lifecycle by leaving its own       *)
(* variables out.  With it the watcher thread takes away what VMs hold:    *)
(* the types, and what is said of main and of its threads, hold as in      *)
(* Lifecycle, and what a VM holds is told by where its restart is.         *)
(***************************************************************************)
EXTENDS Program, Lifecycle_proofs

\* What main and the listening threads do is in Lifecycle.
LEMMA StepCases == [ProgramNext]_allVars => [Next]_vars \/ WatcherVisit
<1> SUFFICES ASSUME [ProgramNext]_allVars, ~WatcherVisit PROVE [Next]_vars
  OBVIOUS
<1>1. CASE ProgramMain
  <2>1. NextName \/ StartThreads \/ InitStep \/ InitFails \/ Unwind \/ SetPolicies \/ Join
          \/ Release \/ UNCHANGED vars
    BY <1>1 DEF ProgramMain, NameLogged, StartAll, MainGoesOn, WvClose, WvJoined
  <2> QED BY <2>1 DEF Main, Next
<1>2. CASE ProgramSignal
  BY <1>2 DEF ProgramSignal, Next
<1>3. CASE WatcherThread
  BY <1>3 DEF WatcherThread, WatcherRound
<1>4. ASSUME NEW h \in Handler, ListenerGoesOn(h) PROVE Next
  BY <1>4 DEF ListenerGoesOn, Next
<1>5. CASE UNCHANGED allVars
  BY <1>5 DEF allVars
<1> QED BY <1>1, <1>2, <1>3, <1>4, <1>5 DEF ProgramNext

\* A visit of the watcher concerns neither main nor where the threads are.
LEMMA VisitFrame ==
  ASSUME WatcherVisit
  PROVE  /\ UNCHANGED <<names, mpc, k, step, vms, shared, lpc, interrupted, todo, page>>
         /\ UNCHANGED <<signals, told, auto, wpc, closed, exit, count, logid, unopened>>
  BY DEF WatcherVisit, main, loop, signal, logging

\* Who starts the watcher, and the setting of auto-restart.
LEMMA Starts ==
  ASSUME [ProgramNext]_allVars
  PROVE  auto' = auto /\ (wpc' # "none" => wpc # "none" \/ (auto /\ StartThreads))
<1>1. CASE ProgramMain
  BY <1>1 DEF ProgramMain, NameLogged, StartAll, MainGoesOn, WvClose, WvJoined, program, watch
<1>2. CASE ProgramSignal \/ WatcherThread
  BY <1>2 DEF ProgramSignal, WatcherThread, WatcherVisit, WatcherRound, program, watch
<1>3. ASSUME NEW h \in Handler, ListenerGoesOn(h) PROVE UNCHANGED <<auto, wpc>>
  BY <1>3 DEF ListenerGoesOn, program, watch
<1>4. UNCHANGED allVars => UNCHANGED <<auto, wpc>>
  BY DEF allVars, program, watch
<1> QED BY <1>1, <1>2, <1>3, <1>4 DEF ProgramNext

(***************************************************************************)
(* Without auto-restart the program with its log implements Lifecycle, so  *)
(* that what main acquires it releases once, and a failure harms no guest. *)
(***************************************************************************)
THEOREM Implements == ProgramSpec /\ ~auto => Spec
<1> DEFINE NoWatcher == ~auto /\ wpc = "none"
<1>1. ProgramInit /\ ~auto => Init /\ NoWatcher
  BY DEF ProgramInit
<1>2. NoWatcher /\ [ProgramNext]_allVars => NoWatcher'
  BY Starts
<1>3. NoWatcher /\ [ProgramNext]_allVars => [Next]_vars
  BY StepCases DEF WatcherVisit
<1> QED BY <1>1, <1>2, <1>3, PTL DEF ProgramSpec, Spec

-----------------------------------------------------------------------------
(* What is known of the variables of Lifecycle.                              *)

\* The watcher is started when main has its VMs; until then, and without it, all
\* is as in Lifecycle.
Quiet   == wi \in Nat \ {0} /\ (wpc # "none" => auto /\ mpc \notin Setup)
PlainOK == ~auto \/ mpc \in Setup => OInv

LifeInv == TInv /\ SInv /\ Quiet /\ PlainOK

LEMMA LifeInit == ProgramInit => LifeInv
  BY InitType, SharedInit, OwnInit DEF ProgramInit, LifeInv, Quiet, PlainOK

\* What is missing of a VM, by where its restart is.
Missing(v) ==
  IF v \in {"gone", "xen", "vmi"} THEN {"vmi"}
  ELSE IF v = "open" THEN {"xen", "vmi"}
  ELSE IF v = "view" THEN {"view"}
  ELSE IF v = "tm" THEN {"traps"}
  ELSE IF v = "lost" THEN {"xen", "vmi", "view", "traps"}
  ELSE {}

\* A visit uses what is not missing, and changes what is.
VisitFits(h, uses, old, new, v) ==
  /\ held' = [held EXCEPT ![h] = (@ \ old) \cup new]
  /\ misused' \subseteq misused \cup ({h} \X (uses \ held[h]))
  /\ vm' = [vm EXCEPT ![h] = v]
  /\ uses \cap Missing(vm[h]) = {} /\ "handler" \notin new
  /\ Resource \ Missing(v) \subseteq (Resource \ (Missing(vm[h]) \cup old)) \cup new
  /\ vm[h] \in {"up", "dead"} /\ v \notin {"up", "dead"} /\ h = vms[1] => lpc[h] # "listen"

LEMMA VisitCases ==
  ASSUME TInv, wi \in Nat \ {0}, WatcherVisit
  PROVE  /\ wi \in 1..Len(vms) /\ vms[wi] \in Handler
         /\ \E uses \in SUBSET Resource, old \in SUBSET Resource, new \in SUBSET Resource,
               v \in VmState : VisitFits(vms[wi], uses, old, new, v)
<1> DEFINE h == vms[wi]
<1>0. wi \in 1..Len(vms) /\ h \in Handler /\ held \in [Handler -> SUBSET Resource]
  BY DEF WatcherVisit, TInv, MainOK, HeldOK
<1> HIDE DEF h
<1> USE DEF VisitFits, Missing, Resource, VmState, Replace, Leave, Stay
<1> SUFFICES \E uses \in SUBSET Resource, old \in SUBSET Resource, new \in SUBSET Resource,
               v \in VmState : VisitFits(h, uses, old, new, v)
  BY <1>0 DEF h
<1>1. CASE VisitUp(h)
  <2>1. VisitFits(h, {"handler", "vmi"}, {}, {}, "up")
          \/ VisitFits(h, {"handler", "vmi"}, {}, {}, "dead")
    BY <1>0, <1>1 DEF VisitUp
  <2> QED BY <2>1 DEF Resource, VmState
<1>2. CASE VisitDead(h)
  <2>1. VisitFits(h, {"handler", "vmi"}, {"vmi"}, {}, "gone")
    BY <1>0, <1>2 DEF VisitDead
  <2> QED BY <2>1
<1>3. CASE VisitGone(h)
  <2>1. held = [held EXCEPT ![h] = (@ \ {}) \cup {}]
    BY <1>0
  <2>2. PICK v \in {"gone", "xen", "lost"} : VisitFits(h, {}, {}, {}, v)
    BY <1>0, <1>3, <2>1 DEF VisitGone, resource
  <2> QED BY <2>2
<1>4. CASE RestartXen(h)
  <2>1. VisitFits(h, {"handler", "xen"}, {"xen"}, {}, "open")
    BY <1>0, <1>4 DEF RestartXen
  <2> QED BY <2>1
<1>5. CASE RestartOpen(h)
  <2>1. VisitFits(h, {"handler"}, {}, {"xen"}, "vmi") \/ VisitFits(h, {"handler"}, {}, {}, "lost")
    BY <1>0, <1>5 DEF RestartOpen
  <2> QED BY <2>1
<1>6. CASE RestartVmi(h)
  <2>1. \/ VisitFits(h, {"handler"}, {}, {}, "lost")
        \/ VisitFits(h, {"handler"}, {"view"}, {"vmi"}, "view")
        \/ VisitFits(h, {"handler"}, {"view"}, {"vmi"}, "lost")
    BY <1>0, <1>6 DEF RestartVmi
  <2> QED BY <2>1
<1>7. CASE RestartView(h)
  <2>1. \/ VisitFits(h, {"handler", "vmi"}, {}, {"view"}, "traps")
        \/ VisitFits(h, {"handler", "vmi"}, {}, {}, "lost")
        \/ VisitFits(h, {"handler", "vmi"}, {}, {"view"}, "lost")
    BY <1>0, <1>7 DEF RestartView
  <2> QED BY <2>1
<1>8. CASE RestartTraps(h)
  <2>1. VisitFits(h, {"handler", "traps"}, {"traps"}, {}, "tm")
    BY <1>0, <1>8 DEF RestartTraps
  <2> QED BY <2>1
<1>9. CASE RestartTm(h)
  <2>1. VisitFits(h, {"handler"}, {}, {"traps"}, "policies")
          \/ VisitFits(h, {"handler"}, {}, {}, "lost")
    BY <1>0, <1>9 DEF RestartTm
  <2> QED BY <2>1
<1>10. CASE RestartPolicies(h)
  <2>1. \E v \in {"policies", "up"} :
          VisitFits(h, {"handler", "xen", "vmi", "view", "traps"}, {}, {}, v)
    BY <1>0, <1>10 DEF RestartPolicies
  <2> QED BY <2>1
<1>11. VisitUp(h) \/ VisitDead(h) \/ VisitGone(h) \/ Restart(h)
  BY DEF WatcherVisit, h
<1> QED
  BY <1>1, <1>2, <1>3, <1>4, <1>5, <1>6, <1>7, <1>8, <1>9, <1>10, <1>11 DEF Restart

\* The pages and the flags of the VM that is visited.
LEMMA VisitPages ==
  ASSUME TInv, wi \in Nat \ {0}, WatcherVisit
  PROVE  PagesOK' /\ FlagsOK' /\ faults' \in [Handler -> 0..MaxFaults]
<1> DEFINE h == vms[wi]
<1>0. h \in Handler /\ MainOK /\ PagesOK /\ FlagsOK
  BY DEF WatcherVisit, TInv, MainOK
<1>1. UNCHANGED <<todo, page, interrupted, told>>
  BY VisitFrame
<1>2. VisitUp(h) \/ VisitDead(h) \/ VisitGone(h) \/ Restart(h)
  BY DEF WatcherVisit
<1> HIDE DEF h
<1>3. CASE UNCHANGED <<pages, machine, faults>>
  BY <1>0, <1>1, <1>3 DEF pages, machine, PagesOK, FlagsOK, MainOK
<1>4. CASE RestartVmi(h)
  BY <1>0, <1>1, <1>4 DEF RestartVmi, pages, machine, PagesOK, FlagsOK, MainOK
<1>5. CASE RestartView(h)
  BY <1>0, <1>1, <1>5 DEF RestartView, pages, PagesOK, FlagsOK, MainOK
<1>6. CASE RestartTraps(h)
  BY <1>0, <1>1, <1>6 DEF RestartTraps, machine, PagesOK, FlagsOK, MainOK
<1>7. CASE RestartPolicies(h)
  <2>1. FlagsOK'
    BY <1>0, <1>1, <1>7 DEF RestartPolicies, machine, FlagsOK
  <2>2. CASE UNCHANGED <<pages, faults>>
    BY <1>0, <1>1, <2>1, <2>2 DEF pages, PagesOK, MainOK
  <2>3. ASSUME NEW p \in Page, Shadow(h, p) PROVE PagesOK' /\ faults' \in [Handler -> 0..MaxFaults]
    BY <1>0, <1>1, <2>3, ShadowType DEF PagesOK
  <2> QED BY <1>7, <2>1, <2>2, <2>3 DEF RestartPolicies
<1> QED
  BY <1>2, <1>3, <1>4, <1>5, <1>6, <1>7
  DEF VisitUp, VisitDead, VisitGone, Restart, RestartXen, RestartOpen, RestartTm

LEMMA VisitType ==
  ASSUME TInv, wi \in Nat \ {0}, WatcherVisit
  PROVE  TInv'
<1>0. UNCHANGED <<names, mpc, k, step, vms, shared, lpc, signals>>
  BY VisitFrame
<1>1. HeldOK'
  <2>1. PICK h \in Handler, uses \in SUBSET Resource, old \in SUBSET Resource,
             new \in SUBSET Resource, v \in VmState : VisitFits(h, uses, old, new, v)
    BY VisitCases
  <2>2. held' = [held EXCEPT ![h] = (@ \ old) \cup new]
        /\ misused' \subseteq misused \cup ({h} \X (uses \ held[h]))
    BY <2>1 DEF VisitFits
  <2> QED BY <2>2 DEF TInv, HeldOK
<1>2. MainOK' /\ IndexOK'
  BY <1>0, VisitPages DEF TInv, MainOK, IndexOK
<1> QED BY <1>1, <1>2, VisitPages DEF TInv

LEMMA LifeStep == LifeInv /\ [ProgramNext]_allVars => LifeInv'
<1> SUFFICES ASSUME LifeInv, [ProgramNext]_allVars PROVE LifeInv'
  OBVIOUS
<1> USE DEF LifeInv
<1>1. CASE WatcherVisit
  <2>1. TInv' /\ auto /\ mpc \notin Setup
    BY <1>1, VisitType DEF Quiet, WatcherVisit
  <2>2. UNCHANGED <<mpc, k, vms, shared, lpc, auto, wpc>>
    BY <1>1, VisitFrame
  <2>3. SInv'
    BY <2>2 DEF SInv, SetupOK, JoinOK, EndOK, Alive
  <2>4. wi' \in Nat \ {0}
    BY <1>1
    DEF Quiet, WatcherVisit, VisitUp, VisitDead, VisitGone, Restart, RestartXen, RestartOpen,
        RestartVmi, RestartView, RestartTraps, RestartTm, RestartPolicies, Leave, Stay
  <2> QED BY <2>1, <2>2, <2>3, <2>4 DEF Quiet, PlainOK
<1>2. CASE ~WatcherVisit
  <2>1. [Next]_vars
    BY <1>2, StepCases
  <2>2. TInv' /\ SInv'
    BY <2>1, TypeStep, SharedStep
  <2>3. (mpc' \in Setup => mpc \in Setup) /\ (StartThreads => mpc' \notin Setup)
    <3>1. CASE Main
      BY <3>1 DEF Main, NextName, InitStep, InitFails, Unwind, SetPolicies, StartThreads, Join,
                  Release, Setup
    <3>2. CASE Signal \/ UNCHANGED vars
      BY <3>2 DEF Signal, vars, main, StartThreads, Setup
    <3>3. ASSUME NEW h \in Handler, MonitorVm(h) PROVE mpc' = mpc
      BY <3>3, ThreadStep DEF main
    <3> QED BY <2>1, <3>1, <3>2, <3>3 DEF Next, StartThreads, Setup
  <2>4. PlainOK'
    BY <2>1, <2>3, OwnStep, Starts DEF PlainOK
  <2>5. wpc' # "none" => auto' /\ mpc' \notin Setup
    BY <2>3, Starts DEF Quiet
  <2>6. wi' \in {wi, 1}
    BY <1>2
    DEF ProgramNext, ProgramMain, NameLogged, StartAll, MainGoesOn, WvClose, WvJoined, program,
        watch, ProgramSignal, WatcherThread, WatcherRound, ListenerGoesOn, allVars
  <2> QED BY <2>2, <2>4, <2>5, <2>6 DEF Quiet
<1> QED BY <1>1, <1>2

(***************************************************************************)
(* With auto-restart as well main joins its threads before it releases     *)
(* what they share: the watcher neither ends nor starts one.               *)
(***************************************************************************)
THEOREM SharedLiveHere == ProgramSpec => []SharedLive
<1>1. LifeInv => SharedLive
  BY DEF LifeInv, TInv, MainOK, SInv, SetupOK, JoinOK, EndOK, SharedLive, Setup
<1> QED BY LifeInit, LifeStep, <1>1, PTL DEF ProgramSpec

-----------------------------------------------------------------------------
(* Types.                                                                    *)

LogTypes ==
  /\ count \in 1..LogMax /\ logid \in [Handler -> -1..(LogMax - 1)]
  /\ unopened \in 0..MaxOpenFails

WatchTypes ==
  /\ auto \in BOOLEAN /\ wpc \in {"none", "visit", "ended"}
  /\ wi \in 1..(Len(vms) + 1) /\ closed \in BOOLEAN
  /\ vm \in [Handler -> VmState] /\ downs \in 0..MaxDowns
  /\ late \in BOOLEAN
  /\ exit \in {"no", "joining", "returned", "crashed"}

LEMMA EntryTypes ==
  ASSUME LogTypes, NEW h \in Handler, AddEntry(h)
  PROVE  LogTypes'
<1>1. CASE count < LogMax /\ logid' = [logid EXCEPT ![h] = count] /\ count' = count + 1
             /\ UNCHANGED unopened
  <2>1. count \in -1..(LogMax - 1) /\ count + 1 \in 1..LogMax
    BY <1>1, ProgramAssumption DEF LogTypes
  <2> QED BY <1>1, <2>1 DEF LogTypes
<1>2. CASE unopened < MaxOpenFails /\ unopened' = unopened + 1 /\ UNCHANGED <<count, logid>>
  BY <1>2, ProgramAssumption DEF LogTypes
<1>3. CASE UNCHANGED logging
  BY <1>3 DEF LogTypes, logging
<1> QED BY <1>1, <1>2, <1>3 DEF AddEntry

LEMMA LogTypesInit == ProgramInit => LogTypes
<1> SUFFICES ASSUME ProgramInit PROVE LogTypes
  OBVIOUS
<1>1. 1 \in 1..LogMax /\ 0 \in 0..MaxOpenFails /\ -1 \in -1..(LogMax - 1)
  BY ProgramAssumption
<1> QED BY <1>1 DEF ProgramInit, LogTypes

\* Only NameLogged changes the log.
LEMMA LogSteps ==
  ASSUME ProgramNext
  PROVE  NameLogged \/ UNCHANGED logging
<1>1. CASE ProgramMain
  BY <1>1 DEF ProgramMain, StartAll, MainGoesOn, WvClose, WvJoined, program
<1>2. CASE ProgramSignal \/ WatcherThread
  BY <1>2 DEF ProgramSignal, WatcherThread, WatcherVisit, WatcherRound, program
<1>3. ASSUME NEW h \in Handler, ListenerGoesOn(h) PROVE UNCHANGED logging
  BY <1>3 DEF ListenerGoesOn, program
<1> QED BY <1>1, <1>2, <1>3 DEF ProgramNext

\* The name that gets an entry is that of a handler.
LEMMA NameStep ==
  ASSUME TInv, NameLogged
  PROVE  /\ UNCHANGED names /\ mpc = "name" /\ k \in Nat
         /\ \/ /\ k \in Handler /\ k <= names /\ mpc' = "init" /\ k' = k
               /\ AddEntry(k) /\ Acquire(k, "handler")
            \/ mpc' = "policies" /\ UNCHANGED logging /\ UNCHANGED resource
<1>1. NextName /\ UNCHANGED names /\ mpc = "name" /\ k \in Nat
  BY DEF NameLogged, NextName, TInv, MainOK
<1>2. CASE k <= names /\ mpc' = "init" /\ k' = k /\ Acquire(k, "handler")
  BY <1>1, <1>2, NameIsHandler DEF NameLogged
<1>3. CASE mpc' = "policies" /\ UNCHANGED resource
  BY <1>1, <1>3 DEF NameLogged
<1> QED BY <1>1, <1>2, <1>3 DEF NextName

LEMMA LogTypesStep == TInv /\ LogTypes /\ [ProgramNext]_allVars => LogTypes'
<1> SUFFICES ASSUME TInv, LogTypes, [ProgramNext]_allVars PROVE LogTypes'
  OBVIOUS
<1>1. CASE UNCHANGED logging
  BY <1>1 DEF LogTypes, logging
<1>2. CASE NameLogged
  BY <1>1, <1>2, NameStep, EntryTypes
<1>3. UNCHANGED allVars => UNCHANGED logging
  BY DEF allVars, program
<1> QED BY <1>1, <1>2, <1>3, LogSteps

-----------------------------------------------------------------------------
(* What the steps of Lifecycle leave alone.                                  *)

\* A listening thread past its loop: from hfm_close on.
Past(h) == lpc[h] \notin {"none", "check", "listen"}

\* What a step of a thread does to what is held, and to its place: it acquires
\* nothing, and does not go back to its loop.
ThreadDoes(h) ==
  /\ \A g \in Handler : held'[g] \subseteq held[g]
  /\ \A g \in Handler \ {h} : held'[g] = held[g]
  /\ misused' \subseteq misused \cup ({h} \X Resource)
  /\ Past(h) => Past(h)'

LEMMA ThreadGoesOn ==
  ASSUME TInv, NEW h \in Handler, MonitorVm(h)
  PROVE  ThreadDoes(h)
<1> USE AfterIs DEF At, GoTo, UseAndFree, Past, resource, ThreadDoes, Resource
<1>0. lpc \in [Handler -> Label] /\ held \in [Handler -> SUBSET Resource]
  BY DEF TInv, MainOK, HeldOK
<1>1. CASE Check(h)        BY <1>0, <1>1 DEF Check
<1>2. CASE Listen(h)       BY <1>0, <1>2 DEF Listen
<1>3. CASE Pause(h)        BY <1>0, <1>3 DEF Pause
<1>4. CASE OutClose(h)     BY <1>0, <1>4 DEF OutClose
<1>5. CASE Unguard(h)      BY <1>0, <1>5 DEF Unguard
<1>6. CASE EndGuards(h)    BY <1>0, <1>6 DEF EndGuards
<1>7. CASE Unmap(h)        BY <1>0, <1>7 DEF Unmap
<1>8. CASE GiveBack(h)     BY <1>0, <1>8 DEF GiveBack
<1>9. CASE EndPages(h)     BY <1>0, <1>9 DEF EndPages
<1>10. CASE TmDestroy(h)   BY <1>0, <1>10 DEF TmDestroy
<1>11. CASE Switch(h)      BY <1>0, <1>11 DEF Switch
<1>12. CASE DestroyView(h) BY <1>0, <1>12 DEF DestroyView
<1>13. CASE XenFree(h)     BY <1>0, <1>13 DEF XenFree
<1>14. CASE Resume(h)      BY <1>0, <1>14 DEF Resume
<1>15. CASE CloseVmi(h)    BY <1>0, <1>15 DEF CloseVmi
<1>16. CASE FreeHandler(h) BY <1>0, <1>16 DEF FreeHandler
<1> QED
  BY <1>1, <1>2, <1>3, <1>4, <1>5, <1>6, <1>7, <1>8, <1>9, <1>10, <1>11, <1>12, <1>13,
     <1>14, <1>15, <1>16
  DEF MonitorVm

\* In its loop a thread keeps what it has, and listens only when it is told that
\* all is well.
LEMMA LoopStep ==
  ASSUME TInv, NEW h \in Handler, ListenerGoesOn(h), ~Past(h)
  PROVE  /\ held' = held
         /\ \/ lpc[h] = "check" /\ UNCHANGED misused
               /\ (lpc'[h] = "listen" => Okay)
            \/ /\ lpc[h] = "listen" /\ lpc'[h] # "listen"
               /\ misused' = {h} \X ({"xen", "vmi", "view", "traps", "out"} \ held[h])
<1>0. /\ lpc \in [Handler -> Label] /\ held \in [Handler -> SUBSET Resource]
      /\ MonitorVm(h) /\ lpc[h] \in {"check", "listen"}
  BY ThreadStep DEF TInv, MainOK, HeldOK, ListenerGoesOn, Past, Alive
<1>1. Check(h) \/ Listen(h)
  BY <1>0
  DEF MonitorVm, At, Pause, OutClose, Unguard, EndGuards, Unmap, GiveBack, EndPages, TmDestroy,
      Switch, DestroyView, XenFree, Resume, CloseVmi, FreeHandler
<1>2. CASE Check(h)
  BY <1>0, <1>2 DEF Check, GoTo, resource, ListenerGoesOn
<1>3. CASE Listen(h)
  BY <1>0, <1>3 DEF Listen, GoTo, UseAndFree
<1> QED BY <1>1, <1>2, <1>3

\* A VM gets its handler where it gets its entry of the log, and nowhere else.
LEMMA NoNewHandler ==
  ASSUME LifeInv, [ProgramNext]_allVars, ~NameLogged
  PROVE  \A g \in Handler : "handler" \in held'[g] => "handler" \in held[g]
<1>0. held \in [Handler -> SUBSET Resource] /\ TInv
  BY DEF LifeInv, TInv, HeldOK
<1>1. CASE UNCHANGED resource
  BY <1>1 DEF resource
<1>2. CASE InitStep \/ InitFails
  <2>1. PICK r \in Resource \ {"handler"} : Acquire(k, r) \/ UNCHANGED resource
    <3>1. step \in 1..5 /\ InitStep => Steps[step] # "handler" /\ Steps[step] \in Resource
      BY StepIsResource DEF Steps
    <3>2. "view" \in Resource \ {"handler"}
      BY DEF Resource
    <3> QED BY <1>0, <1>2, <3>1, <3>2 DEF InitStep, InitFails, TInv, IndexOK
  <2> QED BY <1>0, <1>1, <2>1 DEF Acquire
<1>3. CASE Unwind \/ SetPolicies
  BY <1>0, <1>3 DEF Unwind, SetPolicies, UseAndFree
<1>4. CASE StartThreads \/ Join \/ Release \/ ProgramSignal \/ WatcherRound
             \/ UNCHANGED vars
  BY <1>1, <1>4 DEF StartThreads, Join, Release, ProgramSignal, Signal, WatcherRound, vars
<1>5. ASSUME NEW h \in Handler, ListenerGoesOn(h)
      PROVE  \A g \in Handler : "handler" \in held'[g] => "handler" \in held[g]
  BY <1>0, <1>5, ThreadGoesOn DEF ListenerGoesOn, ThreadDoes
<1>6. CASE ProgramMain
  BY <1>2, <1>3, <1>4, <1>6 DEF ProgramMain, StartAll, MainGoesOn, WvClose, WvJoined
<1>7. UNCHANGED allVars => UNCHANGED vars
  BY DEF allVars
<1>8. CASE WatcherVisit
  <2>1. PICK h \in Handler, uses \in SUBSET Resource, old \in SUBSET Resource,
             new \in SUBSET Resource, v \in VmState : VisitFits(h, uses, old, new, v)
    BY <1>0, <1>8, VisitCases DEF LifeInv, Quiet
  <2> QED BY <1>0, <2>1 DEF VisitFits
<1> QED BY <1>4, <1>5, <1>6, <1>7, <1>8 DEF ProgramNext, WatcherThread

-----------------------------------------------------------------------------
(* The log.                                                                  *)

\* The entries are given out one by one: one for main, and at most one for each
\* name that main has gone through.
CountOK ==
  /\ mpc = "name" => count <= k
  /\ mpc \in {"init", "unwind"} => count <= k + 1

OwnEntry ==
  \A h \in Handler :
    /\ logid[h] # -1 => logid[h] \in 1..(count - 1)
    /\ \A g \in Handler \ {h} : logid[g] = logid[h] => logid[h] = -1

NoEntry ==
  \A h \in Handler :
    "handler" \in held[h] /\ logid[h] = -1 => names >= LogMax \/ unopened > 0

LEMMA CountStep == TInv /\ LogTypes /\ CountOK /\ [ProgramNext]_allVars => CountOK'
<1> SUFFICES ASSUME TInv, LogTypes, CountOK, [ProgramNext]_allVars PROVE CountOK'
  OBVIOUS
<1>0. k \in Nat /\ count \in Nat
  BY DEF TInv, MainOK, LogTypes
<1>1. CASE NameLogged
  <2>1. CASE mpc' = "init" /\ k' = k /\ AddEntry(k)
    BY <1>0, <1>1, <2>1, NameStep DEF CountOK, AddEntry, logging
  <2>2. CASE mpc' = "policies"
    BY <2>2 DEF CountOK
  <2> QED BY <1>1, <2>1, <2>2, NameStep
<1>2. CASE UNCHANGED logging
  <2>1. CASE UNCHANGED <<mpc, k>>
    BY <1>2, <2>1 DEF CountOK, logging
  <2>2. CASE InitStep \/ InitFails \/ Unwind
    BY <1>0, <1>2, <2>2 DEF CountOK, logging, InitStep, InitFails, Unwind
  <2>3. CASE mpc' \notin {"name", "init", "unwind"}
    BY <2>3 DEF CountOK
  <2>4. StartThreads \/ SetPolicies \/ Join \/ Release
          => mpc' \notin {"name", "init", "unwind"}
    BY DEF StartThreads, SetPolicies, Join, Release
  <2>5. Signal \/ UNCHANGED vars => UNCHANGED <<mpc, k>>
    BY DEF Signal, vars, main
  <2>6. \A h \in Handler : MonitorVm(h) => UNCHANGED <<mpc, k>>
    BY ThreadStep DEF main
  <2>7. CASE NextName
    BY <1>0, <1>2, <2>7 DEF CountOK, NextName, logging
  <2> QED
    BY <2>1, <2>2, <2>3, <2>4, <2>5, <2>6, <2>7, StepCases, VisitFrame DEF Next, Main
<1>3. UNCHANGED allVars => UNCHANGED logging
  BY DEF allVars, program
<1> QED BY <1>1, <1>2, <1>3, LogSteps

LEMMA OwnEntryStep ==
  TInv /\ LogTypes /\ OwnEntry /\ [ProgramNext]_allVars => OwnEntry'
<1> SUFFICES ASSUME TInv, LogTypes, OwnEntry, [ProgramNext]_allVars PROVE OwnEntry'
  OBVIOUS
<1>0. count \in Nat /\ logid \in [Handler -> -1..(LogMax - 1)]
  BY DEF LogTypes
<1>1. CASE UNCHANGED <<count, logid>>
  BY <1>1 DEF OwnEntry
<1>2. ASSUME k \in Handler, count < LogMax, logid' = [logid EXCEPT ![k] = count],
             count' = count + 1, count \in 1..LogMax
      PROVE  OwnEntry'
  <2>1. \A h \in Handler : logid'[h] # -1 => logid'[h] \in 1..(count' - 1)
    <3> SUFFICES ASSUME NEW h \in Handler, logid'[h] # -1 PROVE logid'[h] \in 1..(count' - 1)
      OBVIOUS
    <3>1. CASE h = k  BY <1>0, <1>2, <3>1
    <3>2. CASE h # k  BY <1>0, <1>2, <3>2 DEF OwnEntry
    <3> QED BY <3>1, <3>2
  <2>2. \A h \in Handler : logid[h] # count
    BY <1>0 DEF OwnEntry
  <2>3. \A h \in Handler : \A g \in Handler \ {h} : logid'[g] = logid'[h] => logid'[h] = -1
    BY <1>0, <1>2, <2>2 DEF OwnEntry
  <2> QED BY <2>1, <2>3 DEF OwnEntry
<1>3. CASE NameLogged
  <2>1. CASE k \in Handler /\ AddEntry(k)
    BY <1>1, <1>2, <2>1 DEF AddEntry, logging, LogTypes
  <2> QED BY <1>1, <1>3, <2>1, NameStep DEF logging
<1>4. UNCHANGED logging \/ UNCHANGED allVars => UNCHANGED <<count, logid>>
  BY DEF allVars, program, logging
<1> QED BY <1>1, <1>3, <1>4, LogSteps

\* The list of VMs is read once.
LEMMA NamesStay == TInv /\ [ProgramNext]_allVars => UNCHANGED names
<1> SUFFICES ASSUME TInv, [Next]_vars PROVE UNCHANGED names
  BY StepCases, VisitFrame
<1>1. CASE Main
  BY <1>1
  DEF Main, NextName, InitStep, InitFails, Unwind, SetPolicies, StartThreads, Join, Release
<1>2. Signal \/ UNCHANGED vars => UNCHANGED names
  BY DEF Signal, vars, main
<1>3. \A h \in Handler : MonitorVm(h) => UNCHANGED names
  BY ThreadStep DEF main
<1> QED BY <1>1, <1>2, <1>3 DEF Next

LEMMA NoEntryStep ==
  LifeInv /\ LogTypes /\ CountOK /\ NoEntry /\ [ProgramNext]_allVars => NoEntry'
<1> SUFFICES ASSUME LifeInv, LogTypes, CountOK, NoEntry, [ProgramNext]_allVars PROVE NoEntry'
  OBVIOUS
<1>t. TInv
  BY DEF LifeInv
<1>0. /\ count \in Nat /\ unopened \in Nat /\ logid \in [Handler -> -1..(LogMax - 1)]
      /\ LogMax \in Nat /\ names \in Nat /\ k \in Nat /\ names' = names
      /\ held \in [Handler -> SUBSET Resource]
  BY <1>t, NamesStay, ProgramAssumption, LifecycleAssumption DEF LogTypes, TInv, MainOK, HeldOK
<1>1. ASSUME k \in Handler, k <= names, mpc = "name", AddEntry(k), Acquire(k, "handler")
      PROVE  NoEntry'
  <2> SUFFICES ASSUME NEW h \in Handler, "handler" \in held'[h], logid'[h] = -1
               PROVE  names >= LogMax \/ unopened' > 0
    BY <1>0 DEF NoEntry
  <2>1. CASE h # k
    <3>1. held'[h] = held[h] /\ logid'[h] = logid[h] 
          /\ unopened' \in {unopened, unopened + 1}
      BY <1>0, <1>1, <2>1 DEF Acquire, AddEntry, logging
    <3> QED BY <1>0, <3>1 DEF NoEntry
  <2>2. CASE h = k
    <3>1. logid' # [logid EXCEPT ![k] = count]
      BY <1>0, <1>1, <2>2
    <3> QED BY <1>0, <1>1, <3>1 DEF AddEntry, CountOK
  <2> QED BY <2>1, <2>2
<1>2. CASE NameLogged
  <2>1. CASE UNCHANGED logging /\ UNCHANGED resource
    BY <1>0, <2>1 DEF NoEntry, logging, resource
  <2> QED BY <1>t, <1>1, <1>2, <2>1, NameStep
<1>3. CASE ~NameLogged
  <2>1. UNCHANGED logging
    BY <1>3, LogSteps DEF allVars, program
  <2> QED BY <1>0, <1>3, <2>1, NoNewHandler DEF NoEntry, logging
<1> QED BY <1>2, <1>3

LogInv == LogTypes /\ CountOK /\ OwnEntry /\ NoEntry

LEMMA LogInit == ProgramInit => LogInv
<1> SUFFICES ASSUME ProgramInit PROVE LogInv
  OBVIOUS
<1>1. CountOK /\ OwnEntry /\ NoEntry
  BY DEF ProgramInit, Init, CountOK, OwnEntry, NoEntry
<1> QED BY <1>1, LogTypesInit DEF LogInv

LEMMA LogStep == LifeInv /\ LogInv /\ [ProgramNext]_allVars => LogInv'
  BY LogTypesStep, CountStep, OwnEntryStep, NoEntryStep DEF LifeInv, LogInv

(***************************************************************************)
(* However many VMs are named and however small the log is: no two VMs     *)
(* write to one entry of it, none to that of main, and a VM has none only  *)
(* if the log is full or a file could not be opened.                       *)
(***************************************************************************)
THEOREM EntriesOwn == ProgramSpec => []LogOwn
<1>1. LogInv => LogOwn
  BY DEF LogInv, OwnEntry, NoEntry, LogOwn
<1> QED BY LifeInit, LifeStep, LogInit, LogStep, <1>1, PTL DEF ProgramSpec

-----------------------------------------------------------------------------
(* The watcher thread.                                                       *)

\* The threads are started once, when main has its VMs, and it is at its end when
\* it closes the watcher.
StartedOK ==
  /\ wpc = "none" => \A h \in Handler : vm[h] = "up"
  /\ closed => auto /\ mpc = "done"
  /\ exit # "no" => mpc = "done"
  /\ mpc \notin Setup => \A h \in Range(vms) : lpc[h] # "none"
  /\ mpc \notin Setup /\ auto /\ wpc = "none" => names = 0
  /\ exit = "crashed" => auto /\ names = 0

\* Once the watcher may run, a VM whose thread is not past its loop has all that is
\* not missing; the thread of the first does not listen when something may be.
WatchedOK ==
  mpc \notin Setup => \A h \in Range(vms) : ~Past(h) =>
    /\ Resource \ Missing(vm[h]) \subseteq held[h]
    /\ h = vms[1] /\ vm[h] \notin {"up", "dead"} => lpc[h] # "listen"

\* What is used when it is missing, and how late something shared is used.
MisusedOK ==
  \A m \in misused :
    Past(m[1]) \/ (m[1] \in Range(vms) \ {vms[1]} /\ m[2] \notin {"handler", "out"})

LateOK == late => auto /\ mpc \in {"release", "done"}

WatchInv == WatchTypes /\ StartedOK /\ WatchedOK /\ MisusedOK /\ LateOK

\* What a step of main does to its VMs and their threads.
LEMMA MainSteps ==
  ASSUME TInv, Main
  PROVE  /\ Len(vms) \in Nat /\ Len(vms') \in {Len(vms), Len(vms) + 1}
         /\ StartThreads \/ UNCHANGED lpc
         /\ mpc # "done"
         /\ StartThreads \/ (mpc \in Setup /\ mpc' \in Setup)
              \/ (mpc \notin Setup /\ mpc' \notin Setup /\ UNCHANGED vms)
<1> USE DEF Setup
<1>0. vms \in Seq(Handler)
  BY DEF TInv, MainOK
<1>1. CASE NextName     BY <1>0, <1>1 DEF NextName
<1>2. CASE InitStep
  <2>1. k \in Handler
    BY <1>2, NameIsHandler DEF InitStep, TInv, IndexOK
  <2> QED BY <1>0, <1>2, <2>1, OneMore DEF InitStep
<1>3. CASE InitFails    BY <1>0, <1>3 DEF InitFails
<1>4. CASE Unwind       BY <1>0, <1>4 DEF Unwind
<1>5. CASE SetPolicies  BY <1>0, <1>5 DEF SetPolicies
<1>6. CASE StartThreads BY <1>0, <1>6 DEF StartThreads
<1>7. CASE Join         BY <1>0, <1>7 DEF Join
<1>8. CASE Release      BY <1>0, <1>8 DEF Release
<1> QED BY <1>1, <1>2, <1>3, <1>4, <1>5, <1>6, <1>7, <1>8 DEF Main

LEMMA PastStays ==
  ASSUME LifeInv, [ProgramNext]_allVars, NEW h \in Handler, Past(h)
  PROVE  Past(h)'
<1>0. ([Next]_vars \/ UNCHANGED lpc) /\ lpc \in [Handler -> Label]
  BY StepCases, VisitFrame DEF LifeInv, TInv, MainOK
<1>1. CASE UNCHANGED lpc
  BY <1>1 DEF Past
<1>2. Signal \/ UNCHANGED vars => UNCHANGED lpc
  BY DEF Signal, vars
<1>3. CASE Main
  <2>1. ~StartThreads
    BY DEF StartThreads, LifeInv, SInv, SetupOK, Setup, Past
  <2> QED BY <1>1, <1>3, <2>1, MainSteps DEF LifeInv
<1>4. ASSUME NEW g \in Handler, MonitorVm(g) PROVE Past(h)'
  <2>1. CASE g = h
    BY <1>4, <2>1, ThreadGoesOn DEF LifeInv, ThreadDoes
  <2>2. CASE g # h
    <3>1. PICK l \in Label : lpc' = [lpc EXCEPT ![g] = l]
      BY <1>4, ThreadStep DEF LifeInv
    <3> QED BY <1>0, <2>2, <3>1 DEF Past
  <2> QED BY <2>1, <2>2
<1> QED BY <1>0, <1>1, <1>2, <1>3, <1>4 DEF Next

LEMMA WatchInit == ProgramInit => WatchInv
<1> SUFFICES ASSUME ProgramInit PROVE WatchInv
  OBVIOUS
<1>1. Len(vms) = 0 /\ Range(vms) = {}
  BY DEF ProgramInit, Init, Range
<1>2. WatchTypes
  <2>1. wi \in 1..(Len(vms) + 1) /\ downs \in 0..MaxDowns
    BY <1>1, ProgramAssumption DEF ProgramInit
  <2>2. vm \in [Handler -> VmState]
    BY DEF ProgramInit, VmState
  <2> QED BY <2>1, <2>2 DEF ProgramInit, WatchTypes
<1>3. StartedOK
  <2>1. mpc \notin Setup => names = 0
    BY DEF ProgramInit, Init, Setup
  <2> QED BY <1>1, <2>1 DEF ProgramInit, StartedOK
<1>4. WatchedOK /\ MisusedOK /\ LateOK
  BY <1>1 DEF ProgramInit, Init, WatchedOK, MisusedOK, LateOK
<1> QED BY <1>2, <1>3, <1>4 DEF WatchInv

\* What is misused by a step that misuses nothing new.
LEMMA MisusedStays ==
  ASSUME LifeInv, [ProgramNext]_allVars, MisusedOK, misused' \subseteq misused, UNCHANGED vms
  PROVE  MisusedOK'
<1> SUFFICES ASSUME NEW m \in misused
             PROVE  Past(m[1])' \/ (m[1] \in Range(vms) \ {vms[1]} /\ m[2] \notin {"handler", "out"})
  BY DEF MisusedOK
<1>1. m[1] \in Handler
  BY DEF LifeInv, TInv, HeldOK
<1> QED BY <1>1, PastStays DEF MisusedOK

\* main, but for the start of the threads and the end.
LEMMA WatchMain ==
  ASSUME LifeInv, WatchInv, NameLogged \/ MainGoesOn
  PROVE  WatchInv'
<1>1. Main /\ ~StartThreads /\ UNCHANGED <<auto, wpc, wi, closed, vm, downs, late, exit>>
  BY DEF NameLogged, MainGoesOn, Main, program, watch, NextName, InitStep, InitFails, Unwind,
         SetPolicies, Join, Release, StartThreads
<1>2. [ProgramNext]_allVars /\ TInv
  BY DEF ProgramNext, ProgramMain, LifeInv
<1>3. UNCHANGED lpc /\ UNCHANGED names /\ mpc # "done"
      /\ Len(vms) \in Nat /\ Len(vms') \in {Len(vms), Len(vms) + 1}
      /\ \/ mpc \in Setup /\ mpc' \in Setup
         \/ mpc \notin Setup /\ mpc' \notin Setup /\ UNCHANGED vms
  BY <1>1, <1>2, MainSteps, NamesStay
<1>4. WatchTypes'
  <2>1. wi \in 1..(Len(vms') + 1)
    BY <1>3 DEF WatchInv, WatchTypes
  <2> QED BY <1>1, <2>1 DEF WatchInv, WatchTypes
<1>5. StartedOK'
  BY <1>1, <1>3 DEF WatchInv, StartedOK
<1>6. CASE mpc \in Setup /\ mpc' \in Setup
  <2>1. misused' = {}
    BY <1>2, <1>6, LifeStep DEF LifeInv, PlainOK, OInv
  <2>2. ~late
    BY <1>6 DEF WatchInv, LateOK, Setup
  <2> QED BY <1>1, <1>4, <1>5, <1>6, <2>1, <2>2 DEF WatchInv, WatchedOK, MisusedOK, LateOK
<1>7. CASE mpc \notin Setup /\ mpc' \notin Setup /\ UNCHANGED vms
  <2>1. Join \/ Release
    BY <1>1, <1>7 DEF Main, NextName, InitStep, InitFails, Unwind, SetPolicies, Setup
  <2>2. UNCHANGED resource /\ (mpc = "release" => mpc' \in {"release", "done"})
    BY <2>1 DEF Join, Release
  <2>3. WatchedOK'
    BY <1>1, <1>3, <1>7, <2>2 DEF WatchInv, WatchedOK, Past, resource
  <2>4. MisusedOK'
    BY <1>2, <1>7, <2>2, MisusedStays DEF WatchInv, resource
  <2>5. LateOK'
    BY <1>1, <1>3, <2>2 DEF WatchInv, LateOK
  <2> QED BY <1>4, <1>5, <2>3, <2>4, <2>5 DEF WatchInv
<1> QED BY <1>3, <1>6, <1>7

LEMMA WatchStart ==
  ASSUME LifeInv, WatchInv, StartAll
  PROVE  WatchInv'
<1>1. /\ mpc = "policies" /\ mpc' = "join"
      /\ UNCHANGED <<vms, names, auto, wi, closed, vm, downs, late, exit, resource>>
      /\ lpc' = [h \in Handler |-> IF h \in Range(vms) THEN "check" ELSE lpc[h]]
      /\ wpc' = IF auto THEN "visit" ELSE wpc
  BY DEF StartAll, StartThreads
<1>2. Range(vms) \subseteq Handler
  BY InVms DEF LifeInv, TInv, MainOK
<1>3. wpc = "none" /\ ~closed /\ exit = "no" /\ ~late
  BY <1>1 DEF LifeInv, Quiet, WatchInv, StartedOK, LateOK, Setup
<1>4. OInv
  BY <1>1 DEF LifeInv, PlainOK, Setup
<1>5. WatchTypes'
  BY <1>1 DEF WatchInv, WatchTypes
<1>6. StartedOK'
  BY <1>1, <1>2, <1>3 DEF WatchInv, StartedOK, Setup
<1>7. WatchedOK'
  <2>1. \A h \in Range(vms) : Resource \subseteq held[h]
    BY <1>1, <1>2, <1>4 DEF LifeInv, SInv, SetupOK, Setup, OInv, ThreadsOK, ThreadOK, Exactly, Needed
  <2>2. \A h \in Range(vms) : vm[h] = "up"
    BY <1>2, <1>3 DEF WatchInv, StartedOK
  <2> QED BY <1>1, <2>1, <2>2 DEF WatchedOK, resource
<1>8. MisusedOK'
  BY <1>1, <1>4 DEF OInv, MisusedOK, resource
<1>9. LateOK'
  BY <1>1, <1>3 DEF LateOK
<1> QED BY <1>5, <1>6, <1>7, <1>8, <1>9 DEF WatchInv

LEMMA WatchClose ==
  ASSUME LifeInv, WatchInv, WvClose \/ WvJoined
  PROVE  WatchInv'
<1>1. UNCHANGED <<names, mpc, vms, lpc, held, misused, auto, wpc, wi, vm, downs, late>>
  BY DEF WvClose, WvJoined, watch, vars, main, resource
<1>2. mpc = "done" /\ mpc \notin Setup
  BY DEF WvClose, WvJoined, WatchInv, StartedOK, Setup
<1>3. WatchTypes'
  BY <1>1 DEF WvClose, WvJoined, watch, WatchInv, WatchTypes
<1>4. StartedOK'
  BY <1>1, <1>2 DEF WvClose, WvJoined, watch, WatchInv, StartedOK
<1>5. WatchedOK' /\ MisusedOK' /\ LateOK'
  BY <1>1 DEF WatchInv, WatchedOK, MisusedOK, LateOK, Past
<1> QED BY <1>3, <1>4, <1>5 DEF WatchInv

\* A VM whose thread runs is one of vms[], and main has started it.
LEMMA AliveIn ==
  ASSUME SInv, TInv, NEW h \in Handler, Alive(h)
  PROVE  mpc = "join" /\ h \in Range(vms)
<1>1. mpc \notin Setup \cup {"release", "done"}
  BY DEF SInv, SetupOK, EndOK, Alive
<1> QED BY <1>1 DEF TInv, MainOK, SInv, JoinOK

\* What a listening thread in its loop finds.
LEMMA LoopFinds ==
  ASSUME LifeInv, WatchInv, NEW h \in Handler, ListenerGoesOn(h), ~Past(h)
  PROVE  /\ h = vms[1] /\ vm[h] \notin {"up", "dead"} => lpc'[h] # "listen"
         /\ misused' \subseteq misused
              \/ (h # vms[1] /\ \A m \in misused' : m[1] = h /\ m[2] \notin {"handler", "out"})
<1>1. h \in Range(vms) /\ mpc = "join" /\ Len(vms) \in Nat
  BY ThreadStep, AliveIn DEF LifeInv, ListenerGoesOn, TInv, MainOK
<1>2. Resource \ Missing(vm[h]) \subseteq held[h]
      /\ (h = vms[1] /\ vm[h] \notin {"up", "dead"} => lpc[h] # "listen")
  BY <1>1 DEF WatchInv, WatchedOK, Setup
<1>3. CASE lpc[h] = "check" /\ UNCHANGED misused /\ (lpc'[h] = "listen" => Okay)
  <2>1. h = vms[1] /\ Okay => vm[h] = "up"
    <3>1. 1 \in DOMAIN vms
      BY <1>1 DEF LifeInv, TInv, MainOK, Range
    <3>2. ~auto => vm[h] = "up"
      BY DEF LifeInv, Quiet, WatchInv, StartedOK
    <3> QED BY <3>1, <3>2 DEF Okay
  <2> QED BY <1>3, <2>1
<1>4. CASE /\ lpc[h] = "listen" /\ lpc'[h] # "listen"
           /\ misused' = {h} \X ({"xen", "vmi", "view", "traps", "out"} \ held[h])
  <2>1. CASE h = vms[1]
    <3>1. misused' = {}
      BY <1>2, <1>4, <2>1 DEF Missing, Resource
    <3> QED BY <1>4, <3>1
  <2>2. CASE h # vms[1]
    <3>1. "handler" \notin {"xen", "vmi", "view", "traps", "out"} /\ "out" \in held[h]
      BY <1>2 DEF Missing, Resource
    <3> QED BY <1>4, <2>2, <3>1
  <2> QED BY <2>1, <2>2
<1> QED BY <1>3, <1>4, LoopStep DEF LifeInv

LEMMA WatchListener ==
  ASSUME LifeInv, WatchInv, NEW h \in Handler, ListenerGoesOn(h)
  PROVE  WatchInv'
<1>1. MonitorVm(h) /\ UNCHANGED <<auto, wpc, wi, closed, vm, downs, late, exit>>
  BY DEF ListenerGoesOn, program, watch
<1>2. [ProgramNext]_allVars /\ TInv
  BY DEF ProgramNext, LifeInv
<1>3. UNCHANGED <<names, mpc, k, step, vms, shared>>
  BY <1>1, <1>2, ThreadStep DEF main
<1>4. PICK l \in Label \ {"none"} : lpc' = [lpc EXCEPT ![h] = l]
  BY <1>1, <1>2, ThreadStep
<1>5. lpc \in [Handler -> Label] /\ Range(vms) \subseteq Handler
  BY InVms DEF LifeInv, TInv, MainOK
<1>6. h \in Range(vms)
  BY <1>1, ThreadStep, AliveIn DEF LifeInv
<1>7. WatchTypes' /\ StartedOK' /\ LateOK'
  BY <1>1, <1>3, <1>4, <1>5 DEF WatchInv, WatchTypes, StartedOK, LateOK
<1>8. ThreadDoes(h)
  BY <1>1, <1>2, ThreadGoesOn
<1>9. WatchedOK'
  <2> SUFFICES ASSUME mpc \notin Setup, NEW g \in Range(vms), ~Past(g)'
               PROVE  /\ Resource \ Missing(vm[g]) \subseteq held'[g]
                      /\ g = vms[1] /\ vm[g] \notin {"up", "dead"} => lpc'[g] # "listen"
    BY <1>1, <1>3 DEF WatchedOK
  <2>1. ~Past(g) /\ g \in Handler
    BY <1>2, <1>5, PastStays
  <2>2. Resource \ Missing(vm[g]) \subseteq held[g]
        /\ (g = vms[1] /\ vm[g] \notin {"up", "dead"} => lpc[g] # "listen")
    BY <2>1 DEF WatchInv, WatchedOK
  <2>3. CASE g = h
    <3>1. held' = held
      BY <1>2, <2>1, <2>3, LoopStep
    <3> QED BY <2>1, <2>2, <2>3, <3>1, LoopFinds
  <2>4. CASE g # h
    <3>1. held'[g] = held[g] /\ lpc'[g] = lpc[g]
      BY <1>4, <1>5, <1>8, <2>1, <2>4 DEF ThreadDoes
    <3> QED BY <2>2, <3>1
  <2> QED BY <2>3, <2>4
<1>10. MisusedOK'
  <2>1. CASE misused' \subseteq misused
    BY <1>2, <1>3, <2>1, MisusedStays DEF WatchInv
  <2>2. CASE Past(h)
    <3> SUFFICES ASSUME NEW m \in misused'
                 PROVE  Past(m[1])' \/ (m[1] \in Range(vms) \ {vms[1]} /\ m[2] \notin {"handler", "out"})
      BY <1>3 DEF MisusedOK
    <3>1. CASE m \in misused
      <4>1. m[1] \in Handler
        BY <1>2, <3>1 DEF TInv, HeldOK
      <4> QED BY <1>2, <3>1, <4>1, PastStays DEF WatchInv, MisusedOK
    <3>2. CASE m[1] = h
      BY <1>2, <2>2, <3>2, PastStays
    <3> QED BY <1>8, <3>1, <3>2 DEF ThreadDoes
  <2>3. CASE h # vms[1] /\ \A m \in misused' : m[1] = h /\ m[2] \notin {"handler", "out"}
    BY <1>3, <1>6, <2>3 DEF MisusedOK
  <2> QED BY <2>1, <2>2, <2>3, LoopFinds
<1> QED BY <1>7, <1>9, <1>10 DEF WatchInv

\* The watcher's index, the VMs it has found down, and what it uses that is shared.
LEMMA VisitCounts ==
  ASSUME WatchTypes, WatcherVisit
  PROVE  /\ wi' \in {wi, wi + 1} /\ downs' \in 0..MaxDowns
         /\ \E things \in SUBSET (Shared \cup {"hdlr"}) : Uses(things)
<1> USE DEF Leave, Stay
<1> DEFINE h == vms[wi]
<1> HIDE DEF h
<1>1. CASE VisitUp(h)
  <2>1. downs' \in {downs, downs + 1} /\ (downs' = downs \/ downs < MaxDowns)
    BY <1>1 DEF VisitUp
  <2>2. downs' \in 0..MaxDowns
    BY <2>1, ProgramAssumption DEF WatchTypes
  <2> QED BY <1>1, <2>2 DEF VisitUp
<1>2. CASE (VisitDead(h) \/ VisitGone(h) \/ Restart(h)) /\ UNCHANGED downs
  <2>1. wi' \in {wi, wi + 1}
    BY <1>2
    DEF VisitDead, VisitGone, Restart, RestartXen, RestartOpen, RestartVmi, RestartView,
        RestartTraps, RestartTm, RestartPolicies
  <2>2. \/ Uses({"hdlr"}) \/ Uses({}) \/ Uses({"log"}) \/ Uses({"config"}) \/ Uses({"log", "config"})
        \/ Uses({"policies", "filters", "log"}) \/ Uses({"hdlr", "policies"})
    BY <1>2
    DEF VisitDead, VisitGone, Restart, RestartXen, RestartOpen, RestartVmi, RestartView,
        RestartTraps, RestartTm, RestartPolicies
  <2>3. \E things \in SUBSET (Shared \cup {"hdlr"}) : Uses(things)
    BY <2>2 DEF Shared
  <2> QED BY <1>2, <2>1, <2>3 DEF WatchTypes
<1> QED BY <1>1, <1>2 DEF WatcherVisit, h

LEMMA WatchVisit ==
  ASSUME LifeInv, WatchInv, WatcherVisit
  PROVE  WatchInv'
<1>1. UNCHANGED <<names, mpc, vms, shared, lpc, auto, wpc, closed, exit>>
  BY VisitFrame
<1>2. [ProgramNext]_allVars /\ TInv /\ wi \in Nat \ {0} /\ wpc = "visit"
  BY DEF ProgramNext, WatcherThread, LifeInv, Quiet, WatcherVisit
<1>3. auto /\ mpc \notin Setup
  BY <1>2 DEF LifeInv, Quiet
<1> DEFINE h == vms[wi]
<1>4. PICK uses \in SUBSET Resource, old \in SUBSET Resource, new \in SUBSET Resource,
           v \in VmState : VisitFits(h, uses, old, new, v)
  BY <1>2, VisitCases
<1>5. wi \in 1..Len(vms) /\ h \in Handler /\ h \in Range(vms) /\ Len(vms) \in Nat
  BY <1>2, VisitCases, InVms DEF TInv, MainOK
<1>6. Range(vms) \subseteq Handler /\ held \in [Handler -> SUBSET Resource]
  BY <1>2, InVms DEF TInv, MainOK, HeldOK
<1> HIDE DEF h
<1>7. WatchTypes'
  <2>1. wi' \in 1..(Len(vms) + 1)
    BY <1>5, VisitCounts DEF WatchInv
  <2>2. vm' \in [Handler -> VmState]
    BY <1>4, <1>5 DEF VisitFits, WatchInv, WatchTypes
  <2>3. late' \in BOOLEAN /\ downs' \in 0..MaxDowns
    BY VisitCounts DEF WatchInv, WatchTypes, Uses
  <2> QED BY <1>1, <2>1, <2>2, <2>3 DEF WatchInv, WatchTypes
<1>8. StartedOK'
  BY <1>1, <1>2 DEF WatchInv, StartedOK
<1>9. WatchedOK'
  <2> SUFFICES ASSUME NEW g \in Range(vms), ~Past(g)
               PROVE  /\ Resource \ Missing(vm'[g]) \subseteq held'[g]
                      /\ g = vms[1] /\ vm'[g] \notin {"up", "dead"} => lpc[g] # "listen"
    BY <1>1 DEF WatchedOK, Past
  <2>1. Resource \ Missing(vm[g]) \subseteq held[g]
        /\ (g = vms[1] /\ vm[g] \notin {"up", "dead"} => lpc[g] # "listen")
    BY <1>3 DEF WatchInv, WatchedOK
  <2>2. vm \in [Handler -> VmState]
    BY DEF WatchInv, WatchTypes
  <2>3. CASE g = h
    <3>1. vm'[g] = v /\ held'[g] = (held[g] \ old) \cup new
      BY <1>4, <1>5, <1>6, <2>2, <2>3 DEF VisitFits
    <3>2. Resource \ Missing(v) \subseteq (Resource \ (Missing(vm[g]) \cup old)) \cup new
          /\ (vm[g] \in {"up", "dead"} /\ v \notin {"up", "dead"} /\ g = vms[1]
                => lpc[g] # "listen")
      BY <1>4, <2>3 DEF VisitFits
    <3>3. Resource \ Missing(v) \subseteq held'[g]
      BY <2>1, <3>1, <3>2
    <3> QED BY <2>1, <3>1, <3>2, <3>3
  <2>4. CASE g # h
    <3>1. vm'[g] = vm[g] /\ held'[g] = held[g]
      BY <1>4, <1>6, <2>2, <2>4 DEF VisitFits
    <3> QED BY <2>1, <3>1
  <2> QED BY <2>3, <2>4
<1>10. MisusedOK'
  <2>1. misused' \subseteq misused \cup ({h} \X (uses \ held[h])) /\ uses \cap Missing(vm[h]) = {}
    BY <1>4 DEF VisitFits
  <2>2. CASE Past(h)
    <3>1. ASSUME NEW m \in misused', m[1] = h PROVE Past(m[1])
      BY <2>2, <3>1
    <3>2. \A m \in misused' : m \in misused \/ m[1] = h
      BY <2>1
    <3> QED BY <1>1, <3>1, <3>2 DEF WatchInv, MisusedOK, Past
  <2>3. CASE ~Past(h)
    <3>1. Resource \ Missing(vm[h]) \subseteq held[h]
      BY <1>3, <1>5, <2>3 DEF WatchInv, WatchedOK
    <3>2. uses \subseteq held[h]
      BY <2>1, <3>1
    <3>3. misused' \subseteq misused
      BY <2>1, <3>2
    <3> QED BY <1>1, <1>2, <3>3, MisusedStays DEF WatchInv
  <2> QED BY <2>2, <2>3
<1>11. LateOK'
  <2> SUFFICES ASSUME mpc \notin {"release", "done"} PROVE ~late'
    BY <1>1, <1>3 DEF LateOK
  <2>1. ~closed /\ ~late
    BY DEF WatchInv, StartedOK, LateOK
  <2>2. shared = Shared
    BY <1>2 DEF LifeInv, SInv, SetupOK, JoinOK, TInv, MainOK
  <2>3. PICK things \in SUBSET (Shared \cup {"hdlr"}) : Uses(things)
    BY VisitCounts DEF WatchInv
  <2> QED BY <2>1, <2>2, <2>3 DEF Uses
<1> QED BY <1>7, <1>8, <1>9, <1>10, <1>11 DEF WatchInv

LEMMA WatchRest ==
  ASSUME LifeInv, WatchInv, WatcherRound \/ ProgramSignal \/ UNCHANGED allVars
  PROVE  WatchInv'
<1>1. UNCHANGED <<names, mpc, vms, lpc, held, misused, auto, closed, vm, downs, late, exit>>
  BY DEF WatcherRound, ProgramSignal, Signal, allVars, program, watch, vars, main, resource
<1>2. UNCHANGED <<wpc, wi>> \/ (wpc = "visit" /\ wi' = 1 /\ wpc' \in {"visit", "ended"})
  BY DEF WatcherRound, ProgramSignal, allVars, program, watch
<1>3. WatchTypes'
  <2>1. Len(vms) \in Nat
    BY DEF LifeInv, TInv, MainOK
  <2>2. wi' \in 1..(Len(vms) + 1)
    BY <1>2, <2>1 DEF WatchInv, WatchTypes
  <2> QED BY <1>1, <1>2, <2>2 DEF WatchInv, WatchTypes
<1>4. StartedOK'
  BY <1>1, <1>2 DEF WatchInv, StartedOK
<1>5. WatchedOK' /\ MisusedOK' /\ LateOK'
  BY <1>1 DEF WatchInv, WatchedOK, MisusedOK, LateOK, Past
<1> QED BY <1>3, <1>4, <1>5 DEF WatchInv

LEMMA WatchStep == LifeInv /\ WatchInv /\ [ProgramNext]_allVars => WatchInv'
  BY WatchMain, WatchStart, WatchClose, WatchListener, WatchVisit, WatchRest
  DEF ProgramNext, ProgramMain, WatcherThread

(***************************************************************************)
(* Every variable of the program keeps its type: the index of the log is   *)
(* one of its entries, and that of the watcher one of the VMs.             *)
(***************************************************************************)
THEOREM ProgramTypeCorrect == ProgramSpec => []ProgramTypeOK
<1>1. LifeInv /\ LogInv /\ WatchInv => ProgramTypeOK
  BY TypeParts DEF LifeInv, TInv, LogInv, LogTypes, WatchInv, WatchTypes, ProgramTypeOK
<1> QED
  BY LifeInit, LifeStep, LogInit, LogStep, WatchInit, WatchStep, <1>1, PTL DEF ProgramSpec

(***************************************************************************)
(* However VMs go down, and whatever step of a restart fails: until the    *)
(* listening thread of a VM is past its loop, the watcher thread uses      *)
(* nothing of that VM that is missing, and neither does the thread, if it  *)
(* is that of the first VM; that of another may, when it listens.  Without *)
(* auto-restart nothing is missing.  What main shares is there until all   *)
(* threads have ended, and main joins a thread that was never started only *)
(* if vmlist is missing.                                                   *)
(***************************************************************************)
THEOREM AlwaysShutdownOrder == ProgramSpec => []ShutdownOrder
<1>1. LifeInv /\ WatchInv => ShutdownOrder
  BY DEF LifeInv, PlainOK, OInv, SInv, EndOK, WatchInv, StartedOK, MisusedOK, LateOK, Past,
         ShutdownOrder
<1> QED BY LifeInit, LifeStep, WatchInit, WatchStep, <1>1, PTL DEF ProgramSpec
=============================================================================
