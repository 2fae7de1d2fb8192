-------------------------- MODULE Lifecycle_proofs --------------------------
(***************************************************************************)
(* Proofs about Lifecycle, for any list of VMs, any quota, any pages, any  *)
(* calls that fail and any signals.                                        *)
(***************************************************************************)
EXTENDS Lifecycle, SequenceTheorems, TLAPS

\* The labels of a thread.
Label == DOMAIN After \cup {"none", "check", "listen", "ended"}

\* main is before wv_start: no thread has been started.
Setup == {"name", "init", "unwind", "policies"}

\* main's index is a name, and there is room for its VM, while it is in hfm_init.
IndexOK ==
  /\ mpc = "init" => k <= names /\ step \in 1..5 /\ Len(vms) < VmMax
  /\ mpc = "unwind" => k <= names

\* The parts of TypeOK: main's variables, what is held, pages, Boolean values.
MainOK ==
  /\ names \in 0..MaxNames
  /\ mpc \in Setup \cup {"join", "release", "done"}
  /\ k \in Nat \ {0} /\ step \in 0..5
  /\ vms \in Seq(Handler) /\ Len(vms) <= VmMax
  /\ shared \subseteq Shared
  /\ lpc \in [Handler -> Label]
  /\ signals \in 0..MaxSignals /\ faults \in [Handler -> 0..MaxFaults]

HeldOK ==
  held \in [Handler -> SUBSET Resource] /\ misused \subseteq Handler \X Resource

PagesOK ==
  /\ table \in [Handler -> SUBSET Page] /\ mapped \in [Handler -> SUBSET Page]
  /\ guarded \in [Handler -> SUBSET Page] /\ back \in [Handler -> SUBSET Page]
  /\ stray \in [Handler -> SUBSET Page]
  /\ todo \in [Handler -> SUBSET Page] /\ page \in [Handler -> SUBSET Page]

FlagsOK ==
  /\ interrupted \in [Handler -> BOOLEAN] /\ told \in BOOLEAN
  /\ running \in [Handler -> BOOLEAN] /\ inView \in [Handler -> BOOLEAN]

TInv == MainOK /\ HeldOK /\ PagesOK /\ FlagsOK /\ IndexOK

LEMMA StepsLength == Len(Steps) = 5
  BY DEF Steps

LEMMA TypeParts == TypeOK <=> MainOK /\ HeldOK /\ PagesOK /\ FlagsOK
  BY StepsLength
  DEF TypeOK, MainOK, HeldOK, PagesOK, FlagsOK, Setup, Label

\* What follows each label of a thread.
LEMMA AfterIs ==
  /\ After["pause"] = "out" /\ After["out"] = "guards" /\ After["guards"] = "pages"
  /\ After["pages"] = "traps" /\ After["traps"] = "switch" /\ After["switch"] = "view"
  /\ After["view"] = "xen" /\ After["xen"] = "resume" /\ After["resume"] = "vmi"
  /\ After["vmi"] = "handler" /\ After["handler"] = "ended"
  BY DEF After

LEMMA Labels ==
  Label = {"none", "check", "listen", "pause", "out", "guards", "pages", "traps",
           "switch", "view", "xen", "resume", "vmi", "handler", "ended"}
  BY DEF Label, After

LEMMA StepIsResource == \A i \in 1..5 : Steps[i] \in Resource
  BY DEF Steps, Resource

\* The VMs in vms[].
LEMMA InVms ==
  ASSUME vms \in Seq(Handler)
  PROVE  /\ Range(vms) = {vms[i] : i \in 1..Len(vms)}
         /\ Range(vms) \subseteq Handler
  BY DEF Range

\* vmnum grows by one VM.
LEMMA OneMore ==
  ASSUME vms \in Seq(Handler), NEW h \in Handler
  PROVE  /\ Append(vms, h) \in Seq(Handler)
         /\ Len(Append(vms, h)) = Len(vms) + 1
         /\ Range(Append(vms, h)) = Range(vms) \cup {h}
<1>1. /\ Append(vms, h) \in Seq(Handler)
      /\ Len(Append(vms, h)) = Len(vms) + 1
      /\ Append(vms, h)[Len(vms) + 1] = h
      /\ \A i \in 1..Len(vms) : Append(vms, h)[i] = vms[i]
  BY AppendProperties
<1>2. DOMAIN Append(vms, h) = 1..(Len(vms) + 1) /\ DOMAIN vms = 1..Len(vms)
      /\ Len(vms) \in Nat
  BY <1>1
<1>3. Range(Append(vms, h)) = Range(vms) \cup {h}
  BY <1>1, <1>2 DEF Range
<1> QED BY <1>1, <1>3

-----------------------------------------------------------------------------
(* Types.                                                                    *)

LEMMA UseType ==
  ASSUME HeldOK, NEW h \in Handler, NEW u \in SUBSET Resource, NEW f \in SUBSET Resource,
         UseAndFree(h, u, f)
  PROVE  HeldOK'
  BY DEF HeldOK, UseAndFree

LEMMA AcquireType ==
  ASSUME HeldOK, NEW h \in Handler, NEW r \in Resource, Acquire(h, r)
  PROVE  HeldOK'
  BY DEF HeldOK, Acquire

LEMMA FaultType ==
  ASSUME MainOK, NEW h \in Handler, Fault(h)
  PROVE  faults' \in [Handler -> 0..MaxFaults]
<1>1. faults[h] + 1 \in 0..MaxFaults
  BY LifecycleAssumption DEF MainOK, Fault
<1> QED BY <1>1 DEF MainOK, Fault

LEMMA ShadowType ==
  ASSUME MainOK, PagesOK, NEW h \in Handler, NEW p \in Page, Shadow(h, p)
  PROVE  /\ table' \in [Handler -> SUBSET Page] /\ mapped' \in [Handler -> SUBSET Page]
         /\ guarded' \in [Handler -> SUBSET Page] /\ back' \in [Handler -> SUBSET Page]
         /\ stray' \in [Handler -> SUBSET Page]
         /\ faults' \in [Handler -> 0..MaxFaults]
<1>1. faults' \in [Handler -> 0..MaxFaults]
  BY FaultType DEF Shadow, MainOK
<1>2. /\ [mapped EXCEPT ![h] = @ \cup {p}] \in [Handler -> SUBSET Page]
      /\ [table EXCEPT ![h] = @ \cup {p}] \in [Handler -> SUBSET Page]
      /\ [guarded EXCEPT ![h] = @ \cup {p}] \in [Handler -> SUBSET Page]
      /\ [stray EXCEPT ![h] = @ \cup {p}] \in [Handler -> SUBSET Page]
  BY DEF PagesOK
<1> QED BY <1>1, <1>2 DEF PagesOK, Shadow

\* A thread that moves is alive, ends at one of its labels, and leaves main's
\* variables and the signals alone.
LEMMA ThreadStep ==
  ASSUME TInv, NEW h \in Handler, MonitorVm(h)
  PROVE  /\ Alive(h)
         /\ \E l \in Label \ {"none"} : lpc' = [lpc EXCEPT ![h] = l]
         /\ UNCHANGED main /\ UNCHANGED signal
<1> USE Labels, AfterIs DEF Alive, At, GoTo
<1>0. lpc \in [Handler -> Label]
  BY DEF TInv, MainOK
<1>1. CASE Check(h)       BY <1>0, <1>1 DEF Check
<1>2. CASE Listen(h)      BY <1>0, <1>2 DEF Listen
<1>3. CASE Pause(h)       BY <1>0, <1>3 DEF Pause
<1>4. CASE OutClose(h)    BY <1>0, <1>4 DEF OutClose
<1>5. CASE Unguard(h)
  <2>1. lpc' = [lpc EXCEPT ![h] = "guards"] /\ lpc[h] = "guards"
    BY <1>0, <1>5 DEF Unguard
  <2> QED BY <2>1, <1>5 DEF Unguard
<1>6. CASE EndGuards(h)   BY <1>0, <1>6 DEF EndGuards
<1>7. CASE Unmap(h)
  <2>1. lpc' = [lpc EXCEPT ![h] = "pages"] /\ lpc[h] = "pages"
    BY <1>0, <1>7 DEF Unmap
  <2> QED BY <2>1, <1>7 DEF Unmap
<1>8. CASE GiveBack(h)
  <2>1. lpc' = [lpc EXCEPT ![h] = "pages"] /\ lpc[h] = "pages"
    BY <1>0, <1>8 DEF GiveBack
  <2> QED BY <2>1, <1>8 DEF GiveBack
<1>9. CASE EndPages(h)    BY <1>0, <1>9 DEF EndPages
<1>10. CASE TmDestroy(h)  BY <1>0, <1>10 DEF TmDestroy
<1>11. CASE Switch(h)     BY <1>0, <1>11 DEF Switch
<1>12. CASE DestroyView(h) BY <1>0, <1>12 DEF DestroyView
<1>13. CASE XenFree(h)    BY <1>0, <1>13 DEF XenFree
<1>14. CASE Resume(h)     BY <1>0, <1>14 DEF Resume
<1>15. CASE CloseVmi(h)   BY <1>0, <1>15 DEF CloseVmi
<1>16. CASE FreeHandler(h) BY <1>0, <1>16 DEF FreeHandler
<1> QED
  BY <1>1, <1>2, <1>3, <1>4, <1>5, <1>6, <1>7, <1>8, <1>9, <1>10, <1>11, <1>12, <1>13,
     <1>14, <1>15, <1>16
  DEF MonitorVm

\* The data of a thread's step.
LEMMA ThreadData ==
  ASSUME TInv, NEW h \in Handler, MonitorVm(h)
  PROVE  HeldOK' /\ PagesOK' /\ FlagsOK' /\ faults' \in [Handler -> 0..MaxFaults]
<1> USE DEF At, GoTo, machine, loop, pages, resource, main, signal
<1>0. HeldOK /\ MainOK /\ PagesOK /\ FlagsOK
  BY DEF TInv
<1>a. faults \in [Handler -> 0..MaxFaults]
  BY <1>0 DEF MainOK
<1>b. UNCHANGED resource => HeldOK'
  BY <1>0 DEF HeldOK
<1>c. UNCHANGED <<table, mapped, guarded, back, stray, todo, page>> => PagesOK'
  BY <1>0 DEF PagesOK
<1>d. UNCHANGED <<interrupted, running, inView, told>> => FlagsOK'
  BY <1>0 DEF FlagsOK
<1>e. Fault(h) => faults' \in [Handler -> 0..MaxFaults]
  BY <1>0, FaultType
<1>f. told' = told
  BY ThreadStep
<1>1. CASE Check(h)       BY <1>1, <1>a, <1>b, <1>c, <1>d DEF Check
<1>2. CASE Listen(h)
  <2>1. HeldOK'
    BY <1>0, <1>2, UseType DEF Listen, Resource
  <2>2. PagesOK' /\ faults' \in [Handler -> 0..MaxFaults]
    <3>1. CASE \E p \in Page : Shadow(h, p)
      BY <1>0, <1>2, <3>1, ShadowType DEF Listen, PagesOK
    <3>2. CASE ~\E p \in Page : Shadow(h, p)
      BY <1>2, <3>2, <1>a, <1>c, <1>e DEF Listen
    <3> QED BY <3>1, <3>2
  <2>3. FlagsOK'
    BY <1>0, <1>2 DEF Listen, FlagsOK
  <2> QED BY <2>1, <2>2, <2>3
<1>3. CASE Pause(h)
  <2>1. HeldOK'  BY <1>0, <1>3, UseType DEF Pause, Resource
  <2>2. FlagsOK' BY <1>0, <1>3 DEF Pause, FlagsOK
  <2> QED BY <2>1, <2>2, <1>3, <1>a, <1>c, <1>e DEF Pause
<1>4. CASE OutClose(h)
  <2>1. HeldOK'  BY <1>0, <1>4, UseType DEF OutClose, Resource
  <2>2. PagesOK' BY <1>0, <1>4 DEF OutClose, PagesOK
  <2> QED BY <2>1, <2>2, <1>4, <1>a, <1>d DEF OutClose
<1>5. CASE Unguard(h)
  <2>1. HeldOK'  BY <1>0, <1>5, UseType DEF Unguard, Resource
  <2>2. PagesOK' BY <1>0, <1>5 DEF Unguard, PagesOK
  <2> QED BY <2>1, <2>2, <1>5, <1>a, <1>d, <1>e DEF Unguard
<1>6. CASE EndGuards(h)
  <2>1. PagesOK' BY <1>0, <1>6 DEF EndGuards, PagesOK
  <2> QED BY <2>1, <1>6, <1>a, <1>b, <1>d DEF EndGuards
<1>7. CASE Unmap(h)
  <2>1. HeldOK'  BY <1>0, <1>7, UseType DEF Unmap, Resource
  <2>2. PagesOK'
    <3>1. PICK p \in todo[h] : /\ page' = [page EXCEPT ![h] = {p}]
                               /\ todo' = [todo EXCEPT ![h] = @ \ {p}]
                               /\ mapped' = Unmapped(h, p) \/ UNCHANGED mapped
      BY <1>7 DEF Unmap
    <3> QED BY <3>1, <1>0, <1>7 DEF Unmap, PagesOK, Unmapped
  <2> QED BY <2>1, <2>2, <1>7, <1>a, <1>d, <1>e DEF Unmap
<1>8. CASE GiveBack(h)
  <2>1. HeldOK'  BY <1>0, <1>8, UseType DEF GiveBack, Resource
  <2>2. PagesOK' BY <1>0, <1>8 DEF GiveBack, PagesOK, NoPage
  <2> QED BY <2>1, <2>2, <1>8, <1>a, <1>d, <1>e DEF GiveBack
<1>9. CASE EndPages(h)    BY <1>9, <1>a, <1>b, <1>c, <1>d DEF EndPages
<1>10. CASE TmDestroy(h)
  <2>1. HeldOK'  BY <1>0, <1>10, UseType DEF TmDestroy, Resource
  <2>2. PagesOK' BY <1>0, <1>10 DEF TmDestroy, PagesOK
  <2> QED BY <2>1, <2>2, <1>10, <1>a, <1>d DEF TmDestroy
<1>11. CASE Switch(h)
  <2>1. HeldOK'  BY <1>0, <1>11, UseType DEF Switch, Resource
  <2>2. FlagsOK' BY <1>0, <1>11 DEF Switch, FlagsOK
  <2> QED BY <2>1, <2>2, <1>11, <1>a, <1>c, <1>e DEF Switch
<1>12. CASE DestroyView(h)
  <2>1. HeldOK'  BY <1>0, <1>12, UseType DEF DestroyView, Resource
  <2> QED BY <2>1, <1>12, <1>a, <1>c, <1>d, <1>e DEF DestroyView
<1>13. CASE XenFree(h)
  <2>1. HeldOK'  BY <1>0, <1>13, UseType DEF XenFree, Resource
  <2> QED BY <2>1, <1>13, <1>a, <1>c, <1>d DEF XenFree
<1>14. CASE Resume(h)
  <2>1. HeldOK'  BY <1>0, <1>14, UseType DEF Resume, Resource
  <2>2. FlagsOK' BY <1>0, <1>14 DEF Resume, FlagsOK
  <2> QED BY <2>1, <2>2, <1>14, <1>a, <1>c, <1>e DEF Resume
<1>15. CASE CloseVmi(h)
  <2>1. HeldOK'  BY <1>0, <1>15, UseType DEF CloseVmi, Resource
  <2> QED BY <2>1, <1>15, <1>a, <1>c, <1>d DEF CloseVmi
<1>16. CASE FreeHandler(h)
  <2>1. HeldOK'  BY <1>0, <1>16, UseType DEF FreeHandler, Resource
  <2> QED BY <2>1, <1>16, <1>a, <1>c, <1>d DEF FreeHandler
<1> QED
  BY <1>1, <1>2, <1>3, <1>4, <1>5, <1>6, <1>7, <1>8, <1>9, <1>10, <1>11, <1>12, <1>13,
     <1>14, <1>15, <1>16
  DEF MonitorVm

LEMMA ThreadType ==
  ASSUME TInv, NEW h \in Handler, MonitorVm(h)
  PROVE  TInv'
<1>1. HeldOK' /\ PagesOK' /\ FlagsOK' /\ faults' \in [Handler -> 0..MaxFaults]
  BY ThreadData
<1>2. PICK l \in Label : lpc' = [lpc EXCEPT ![h] = l]
  BY ThreadStep
<1>3. UNCHANGED <<names, mpc, k, step, vms, shared, signals>>
  BY ThreadStep DEF main, signal
<1>4. MainOK'
  BY <1>1, <1>2, <1>3 DEF TInv, MainOK
<1>5. IndexOK'
  BY <1>3 DEF TInv, IndexOK
<1> QED BY <1>1, <1>4, <1>5 DEF TInv

LEMMA InitType == Init => TInv
<1> SUFFICES ASSUME Init PROVE TInv
  OBVIOUS
<1>1. MainOK
  BY LifecycleAssumption, Labels, EmptySeq
  DEF Init, MainOK, Setup, Shared
<1>2. HeldOK /\ PagesOK /\ FlagsOK
  BY DEF Init, HeldOK, PagesOK, FlagsOK, NoPage
<1>3. IndexOK
  BY DEF Init, IndexOK
<1> QED BY <1>1, <1>2, <1>3 DEF TInv

\* The names that main goes through are handlers.
LEMMA NameIsHandler ==
  ASSUME TInv, mpc \in {"name", "init", "unwind"}, k <= names
  PROVE  k \in Handler
  BY LifecycleAssumption DEF TInv, MainOK, Handler

LEMMA MainType ==
  ASSUME TInv, Main
  PROVE  TInv'
<1> USE DEF main, machine, loop, pages, resource, signal
<1>0. HeldOK /\ MainOK /\ PagesOK /\ FlagsOK /\ IndexOK
  BY DEF TInv
<1>v. MaxNames \in Nat /\ VmMax \in Nat /\ Len(vms) \in Nat
  BY <1>0, LifecycleAssumption DEF MainOK
<1>b. UNCHANGED resource => HeldOK'
  BY <1>0 DEF HeldOK
<1>c. UNCHANGED <<pages, loop>> => PagesOK'
  BY <1>0 DEF PagesOK
<1>d. UNCHANGED <<interrupted, running, inView, told>> => FlagsOK'
  BY <1>0 DEF FlagsOK
<1>1. CASE NextName
  <2>1. HeldOK'
    <3>1. CASE k <= names /\ Acquire(k, "handler")
      BY <1>0, <1>1, <3>1, AcquireType, NameIsHandler DEF TInv, NextName, Resource
    <3>2. CASE UNCHANGED resource
      BY <1>b, <3>2
    <3> QED BY <1>1, <3>1, <3>2 DEF NextName
  <2>2. MainOK'
    BY <1>0, <1>1 DEF NextName, MainOK, Setup
  <2>3. IndexOK'
    BY <1>0, <1>1, <1>v DEF NextName, IndexOK, MainOK, Quota
  <2> QED BY <2>1, <2>2, <2>3, <1>1, <1>c, <1>d DEF NextName, TInv
<1>2. CASE InitStep
  <2>1. k \in Handler /\ step \in 1..5 /\ k <= names /\ Len(vms) < VmMax
    BY <1>0, <1>2, NameIsHandler DEF InitStep, IndexOK, TInv
  <2>2. HeldOK'
    BY <1>0, <1>2, <2>1, AcquireType, StepIsResource DEF InitStep
  <2>3. MainOK' /\ IndexOK'
    <3>1. CASE step < Len(Steps) /\ step' = step + 1 /\ UNCHANGED <<mpc, k, vms>>
      BY <1>0, <1>2, <2>1, <3>1, StepsLength DEF InitStep, MainOK, IndexOK
    <3>2. CASE vms' = Append(vms, k) /\ k' = k + 1 /\ mpc' = "name" /\ UNCHANGED step
      BY <1>0, <1>2, <2>1, <3>2, OneMore, <1>v DEF InitStep, MainOK, IndexOK, Setup
    <3> QED BY <1>2, <3>1, <3>2 DEF InitStep
  <2>4. FlagsOK'
    BY <1>0, <1>2, <2>1 DEF InitStep, FlagsOK
  <2> QED BY <2>2, <2>3, <2>4, <1>2, <1>c DEF InitStep, TInv
<1>3. CASE InitFails
  <2>1. k \in Handler /\ step \in 1..5 /\ k <= names
    BY <1>0, <1>3, NameIsHandler DEF InitFails, IndexOK, TInv
  <2>2. HeldOK'
    BY <1>0, <1>3, <2>1, <1>b, AcquireType DEF InitFails, Resource
  <2>3. MainOK' /\ IndexOK'
    BY <1>0, <1>3, <2>1 DEF InitFails, MainOK, IndexOK, Setup, UnwindFrom
  <2> QED BY <2>2, <2>3, <1>3, <1>c, <1>d DEF InitFails, TInv
<1>4. CASE Unwind
  <2>1. k \in Handler /\ k <= names /\ step \in 0..5
    BY <1>0, <1>4, NameIsHandler DEF Unwind, IndexOK, MainOK, TInv
  <2>2. HeldOK'
    <3>1. CASE step > 0
      <4>1. {Steps[step]} \in SUBSET Resource
            /\ (IF Steps[step] = "view" THEN {"vmi"} ELSE {}) \in SUBSET Resource
        BY <3>1, <2>1, StepIsResource DEF Resource
      <4>2. UseAndFree(k, IF Steps[step] = "view" THEN {"vmi"} ELSE {}, {Steps[step]})
        BY <1>4, <3>1 DEF Unwind
      <4> DEFINE uses  == IF Steps[step] = "view" THEN {"vmi"} ELSE {}
                 frees == {Steps[step]}
      <4>3. uses \in SUBSET Resource /\ frees \in SUBSET Resource
        BY <4>1
      <4>4. UseAndFree(k, uses, frees)
        BY <4>2
      <4> HIDE DEF uses, frees
      <4> QED BY <1>0, <2>1, <4>3, <4>4, UseType
    <3>2. CASE step = 0
      <4>1. UseAndFree(k, {}, {"handler"})
        BY <1>4, <3>2 DEF Unwind
      <4>2. {} \in SUBSET Resource /\ {"handler"} \in SUBSET Resource
        BY DEF Resource
      <4> QED BY <1>0, <2>1, <4>1, <4>2, UseType
    <3> QED BY <2>1, <3>1, <3>2
  <2>3. MainOK' /\ IndexOK'
    <3>1. CASE step' = step - 1 /\ step > 0 /\ UNCHANGED <<mpc, k>>
      BY <1>0, <1>4, <2>1, <3>1 DEF Unwind, MainOK, IndexOK
    <3>2. CASE mpc' = "name" /\ k' = k + 1 /\ UNCHANGED step
      BY <1>0, <1>4, <2>1, <3>2 DEF Unwind, MainOK, IndexOK, Setup
    <3> QED BY <1>4, <3>1, <3>2 DEF Unwind
  <2>4. FlagsOK'
    BY <1>0, <1>4, <2>1 DEF Unwind, FlagsOK
  <2> QED BY <2>2, <2>3, <2>4, <1>4, <1>c DEF Unwind, TInv
<1>5. CASE SetPolicies
  <2>1. vms[k] \in Handler
    BY <1>0, <1>5 DEF SetPolicies, MainOK
  <2>2. HeldOK'
    BY <1>0, <1>5, <2>1, UseType DEF SetPolicies, Resource
  <2>3. PagesOK' /\ faults' \in [Handler -> 0..MaxFaults] /\ k' \in Nat \ {0}
    <3>1. CASE (\E p \in Page : Shadow(vms[k], p)) /\ UNCHANGED k
      BY <1>0, <1>5, <2>1, <3>1, ShadowType DEF SetPolicies, PagesOK, MainOK
    <3>2. CASE k' = k + 1 /\ UNCHANGED <<pages, faults>>
      BY <1>0, <1>5, <3>2, <1>c DEF SetPolicies, MainOK
    <3> QED BY <1>5, <3>1, <3>2 DEF SetPolicies
  <2>4. MainOK' /\ IndexOK'
    BY <1>0, <1>5, <2>3 DEF SetPolicies, MainOK, IndexOK
  <2> QED BY <2>2, <2>3, <2>4, <1>5, <1>d DEF SetPolicies, TInv
<1>6. CASE StartThreads
  <2>1. lpc' \in [Handler -> Label]
    BY <1>0, <1>6, Labels DEF StartThreads, MainOK
  <2>2. MainOK' /\ IndexOK'
    BY <1>0, <1>6, <2>1 DEF StartThreads, MainOK, IndexOK
  <2> QED BY <2>2, <1>6, <1>b, <1>c, <1>d DEF StartThreads, TInv
<1>7. CASE Join
  <2>1. MainOK' /\ IndexOK'
    BY <1>0, <1>7 DEF Join, MainOK, IndexOK
  <2> QED BY <2>1, <1>7, <1>b, <1>c, <1>d DEF Join, TInv
<1>8. CASE Release
  <2>1. MainOK' /\ IndexOK'
    BY <1>0, <1>8 DEF Release, MainOK, IndexOK
  <2> QED BY <2>1, <1>8, <1>b, <1>c, <1>d DEF Release, TInv
<1> QED
  BY <1>1, <1>2, <1>3, <1>4, <1>5, <1>6, <1>7, <1>8 DEF Main

LEMMA SignalType ==
  ASSUME TInv, Signal
  PROVE  TInv'
<1>1. MainOK' /\ IndexOK'
  BY LifecycleAssumption DEF TInv, Signal, main, MainOK, IndexOK
<1>2. HeldOK' /\ PagesOK'
  BY DEF TInv, Signal, resource, pages, loop, HeldOK, PagesOK
<1>3. FlagsOK'
  <2>1. interrupted' \in [Handler -> BOOLEAN] /\ told' \in BOOLEAN
    BY DEF TInv, Signal, FlagsOK
  <2> QED BY <2>1 DEF TInv, Signal, machine, FlagsOK
<1> QED BY <1>1, <1>2, <1>3 DEF TInv

LEMMA TypeStep == TInv /\ [Next]_vars => TInv'
<1> SUFFICES ASSUME TInv, [Next]_vars PROVE TInv'
  OBVIOUS
<1>1. CASE UNCHANGED vars
  BY <1>1 DEF TInv, MainOK, HeldOK, PagesOK, FlagsOK, IndexOK, vars, main, machine, loop,
              pages, resource, signal
<1> QED BY <1>1, MainType, SignalType, ThreadType DEF Next

(***************************************************************************)
(* The types of main.c's variables and of what hfm_init and hfm_close keep *)
(* of each VM: vms[] holds handlers only, and at most VM_MAX of them.      *)
(***************************************************************************)
THEOREM TypeCorrect == Spec => []TypeOK
<1>1. TInv => TypeOK
  BY TypeParts DEF TInv
<1> QED BY InitType, TypeStep, <1>1, PTL DEF Spec

-----------------------------------------------------------------------------
(* Main outlives its threads.                                                *)

\* Before wv_start nothing is released and nobody listens.
SetupOK == mpc \in Setup => (\A h \in Handler : lpc[h] = "none") /\ shared = Shared

\* While main joins, nothing is released, the threads below its index have ended,
\* and only VMs of vms[] have one.
JoinOK ==
  mpc = "join" =>
    /\ shared = Shared
    /\ k <= Len(vms) + 1
    /\ \A i \in 1..Len(vms) : i < k => lpc[vms[i]] = "ended"
    /\ \A h \in Handler : Alive(h) => h \in Range(vms)

\* When main releases, all threads have ended.
EndOK == mpc \in {"release", "done"} => \A h \in Handler : ~Alive(h)

SInv == SetupOK /\ JoinOK /\ EndOK

LEMMA SharedInit == Init => SInv
  BY DEF Init, SInv, SetupOK, JoinOK, EndOK, Setup, Alive

LEMMA SharedThread ==
  ASSUME TInv, SInv, NEW h \in Handler, MonitorVm(h)
  PROVE  SInv'
<1>1. Alive(h) /\ UNCHANGED <<names, mpc, k, step, vms, shared>>
  BY ThreadStep DEF main
<1>2. PICK l \in Label \ {"none"} : lpc' = [lpc EXCEPT ![h] = l]
  BY ThreadStep
<1>3. lpc \in [Handler -> Label] /\ vms \in Seq(Handler)
  BY DEF TInv, MainOK
<1>4. mpc \notin Setup \cup {"release", "done"}
  BY <1>1 DEF SInv, SetupOK, EndOK, Alive
<1>5. SetupOK' /\ EndOK'
  BY <1>1, <1>4 DEF SetupOK, EndOK
<1>6. JoinOK'
  <2> SUFFICES ASSUME mpc = "join" PROVE JoinOK'
    BY <1>1 DEF JoinOK
  <2>1. \A i \in 1..Len(vms) : i < k => lpc'[vms[i]] = "ended"
    <3> SUFFICES ASSUME NEW i \in 1..Len(vms), i < k PROVE lpc'[vms[i]] = "ended"
      OBVIOUS
    <3>1. vms[i] \in Handler /\ lpc[vms[i]] = "ended"
      BY <1>3 DEF SInv, JoinOK
    <3> QED BY <3>1, <1>1, <1>2, <1>3 DEF Alive
  <2>2. \A g \in Handler : Alive(g)' => g \in Range(vms)
    BY <1>1, <1>2, <1>3 DEF SInv, JoinOK, Alive
  <2> QED BY <1>1, <2>1, <2>2 DEF SInv, JoinOK
<1> QED BY <1>5, <1>6 DEF SInv

LEMMA SharedMain ==
  ASSUME TInv, SInv, Main
  PROVE  SInv'
<1> USE DEF main
<1>0. MainOK /\ SetupOK /\ JoinOK /\ EndOK
  BY DEF TInv, SInv
<1>1. CASE NextName    BY <1>0, <1>1 DEF NextName, SInv, SetupOK, JoinOK, EndOK, Setup
<1>2. CASE InitStep    BY <1>0, <1>2 DEF InitStep, SInv, SetupOK, JoinOK, EndOK, Setup
<1>3. CASE InitFails   BY <1>0, <1>3 DEF InitFails, SInv, SetupOK, JoinOK, EndOK, Setup
<1>4. CASE Unwind      BY <1>0, <1>4 DEF Unwind, SInv, SetupOK, JoinOK, EndOK, Setup
<1>5. CASE SetPolicies BY <1>0, <1>5 DEF SetPolicies, SInv, SetupOK, JoinOK, EndOK, Setup
<1>6. CASE StartThreads
  <2>1. mpc' = "join" /\ k' = 1 /\ shared' = Shared /\ vms' = vms
    BY <1>0, <1>6 DEF StartThreads, SetupOK, Setup
  <2>2. \A h \in Handler : Alive(h)' => h \in Range(vms)
    BY <1>0, <1>6 DEF StartThreads, SetupOK, Setup, Alive
  <2> QED BY <1>0, <2>1, <2>2 DEF SInv, SetupOK, JoinOK, EndOK, Setup, MainOK
<1>7. CASE Join
  <2>1. CASE k <= Threads /\ lpc[vms[k]] = "ended" /\ k' = k + 1 /\ UNCHANGED mpc
    <3>1. \A i \in 1..Len(vms) : i < k + 1 => lpc[vms[i]] = "ended"
      BY <1>0, <1>7, <2>1 DEF Join, JoinOK, MainOK
    <3> QED
      BY <3>1, <1>0, <1>7, <2>1
      DEF Join, Threads, SInv, SetupOK, JoinOK, EndOK, Setup, MainOK, Alive
  <2>2. CASE k > Threads /\ mpc' = "release" /\ k' = 1
    <3>1. \A h \in Range(vms) : lpc[h] = "ended"
      <4>1. \A i \in 1..Len(vms) : i < k
        BY <1>0, <2>2 DEF Threads, MainOK
      <4> QED BY <4>1, <1>0, <1>7, InVms DEF Join, JoinOK, MainOK
    <3>2. \A h \in Handler : ~Alive(h)
      BY <3>1, <1>0, <1>7 DEF Join, JoinOK, Alive
    <3> QED BY <3>2, <2>2, <1>7 DEF Join, SInv, SetupOK, JoinOK, EndOK, Setup, Alive
  <2> QED BY <1>7, <2>1, <2>2 DEF Join
<1>8. CASE Release
  BY <1>0, <1>8 DEF Release, SInv, SetupOK, JoinOK, EndOK, Setup, Alive
<1> QED
  BY <1>1, <1>2, <1>3, <1>4, <1>5, <1>6, <1>7, <1>8 DEF Main

LEMMA SharedStep == TInv /\ SInv /\ [Next]_vars => SInv'
<1> SUFFICES ASSUME TInv, SInv, [Next]_vars PROVE SInv'
  OBVIOUS
<1>1. CASE UNCHANGED <<main, lpc>>
  BY <1>1 DEF SInv, SetupOK, JoinOK, EndOK, Alive, main
<1>2. Signal \/ UNCHANGED vars => UNCHANGED <<main, lpc>>
  BY DEF Signal, vars
<1> QED BY <1>1, <1>2, SharedThread, SharedMain DEF Next

(***************************************************************************)
(* main joins every thread that it started before it releases policies,    *)
(* log, configuration and filters: none of them goes while a thread that   *)
(* uses it is alive, whenever signals come.                                *)
(***************************************************************************)
THEOREM SharedAlwaysLive == Spec => []SharedLive
<1>1. TInv /\ SInv => SharedLive
  BY DEF TInv, MainOK, SInv, SetupOK, JoinOK, EndOK, SharedLive, Setup
<1> QED BY InitType, TypeStep, SharedInit, SharedStep, <1>1, PTL DEF Spec

-----------------------------------------------------------------------------
(* What is acquired is released once.                                        *)

\* The place of a resource in the order of hfm_init.
Rank == [handler |-> 0, xen |-> 1, vmi |-> 2, view |-> 3, traps |-> 4, out |-> 5]

\* What a VM holds when n steps of hfm_init are done.
Got(n) == {r \in Resource : Rank[r] <= n}

\* What a VM still holds when its thread is at l.
Needed(l) ==
  IF l \in {"none", "check", "listen", "pause", "out"} THEN Resource
  ELSE IF l \in {"guards", "pages", "traps"} THEN Resource \ {"out"}
  ELSE IF l \in {"switch", "view"} THEN Resource \ {"out", "traps"}
  ELSE IF l = "xen" THEN {"handler", "xen", "vmi"}
  ELSE IF l \in {"resume", "vmi"} THEN {"handler", "vmi"}
  ELSE IF l = "handler" THEN {"handler"}
  ELSE {}

\* All of s, and nothing else but possibly a view that was left.
Exactly(h, s) == s \subseteq held[h] /\ held[h] \subseteq s \cup {"view"}

\* The VM that main is initialising.
Current(h) == mpc \in {"init", "unwind"} /\ h = k

OthersOK ==
  \A h \in Handler : h \notin Range(vms) /\ ~Current(h) => held[h] \subseteq {"view"}

CurrentOK ==
  /\ mpc = "init" => Exactly(k, Got(step - 1))
  /\ mpc = "unwind" => Exactly(k, Got(step))
  /\ mpc \in {"name", "init", "unwind"} => \A h \in Range(vms) : h < k

ThreadOK(h) ==
  /\ Exactly(h, Needed(lpc[h]))
  /\ "view" \in held[h] \ Needed(lpc[h]) => faults[h] > 0
  /\ lpc[h] = "view" /\ inView[h] => faults[h] > 0

ThreadsOK ==
  /\ \A h \in Range(vms) : ThreadOK(h)
  /\ \A h \in Handler : lpc[h] # "none" => h \in Range(vms)

OInv == misused = {} /\ OthersOK /\ CurrentOK /\ ThreadsOK

LEMMA OwnInit == Init => OInv
<1> SUFFICES ASSUME Init PROVE OInv
  OBVIOUS
<1>1. Range(vms) = {}
  BY DEF Init, Range
<1> QED BY <1>1 DEF Init, OInv, OthersOK, CurrentOK, ThreadsOK

\* Who has called in vain once has done so for ever.
LEMMA FaultStays ==
  ASSUME TInv, NEW h \in Handler, Fault(h) \/ UNCHANGED faults
  PROVE  /\ \A g \in Handler : faults[g] > 0 => faults'[g] > 0
         /\ Fault(h) => faults'[h] > 0
<1>1. faults \in [Handler -> 0..MaxFaults]
  BY DEF TInv, MainOK
<1>2. \A g \in Handler : faults[g] \in Nat
  BY <1>1, LifecycleAssumption
<1>3. CASE Fault(h)
  <2>1. \A g \in Handler : faults'[g] = IF g = h THEN faults[g] + 1 ELSE faults[g]
    BY <1>1, <1>3 DEF Fault
  <2> QED BY <1>2, <2>1
<1>4. CASE ~Fault(h)
  BY <1>4
<1> QED BY <1>3, <1>4

\* A thread that releases f and goes from lpc[h] to m: what it uses is there, and
\* what is needed at m is what was needed before, without f.
LEMMA OwnMove ==
  ASSUME TInv, OInv, NEW h \in Handler, Alive(h), UNCHANGED main,
         NEW u, NEW f, UseAndFree(h, u, f), u \cup f \subseteq Needed(lpc[h]),
         NEW m \in Label \ {"none"}, lpc' = [lpc EXCEPT ![h] = m],
         Needed(m) \subseteq Needed(lpc[h]) \ f,
         Needed(lpc[h]) \ f \subseteq Needed(m) \cup {"view"},
         "view" \in Needed(lpc[h]) \ (f \cup Needed(m)) => faults'[h] > 0,
         \A g \in Handler : faults[g] > 0 => faults'[g] > 0,
         \A g \in Handler : g # h => inView'[g] = inView[g],
         m = "view" /\ inView'[h] => faults'[h] > 0
  PROVE  OInv'
<1>0. /\ held \in [Handler -> SUBSET Resource] /\ lpc \in [Handler -> Label]
      /\ vms \in Seq(Handler)
  BY DEF TInv, HeldOK, MainOK
<1>1. UNCHANGED <<names, mpc, k, step, vms, shared>>
  BY DEF main
<1>2. h \in Range(vms) /\ ThreadOK(h)
  BY DEF OInv, ThreadsOK, Alive
<1>3. misused' = {}
  BY <1>2 DEF UseAndFree, OInv, ThreadOK, Exactly
<1>4. held' = [held EXCEPT ![h] = @ \ f]
  BY DEF UseAndFree
<1>5. Range(vms') = Range(vms) /\ Range(vms) \subseteq Handler
  BY <1>0, <1>1, InVms
<1>6. OthersOK'
  BY <1>0, <1>1, <1>4, <1>5 DEF OInv, OthersOK, Current
<1>7. ~Current(h)
  <2>1. mpc \in {"init", "unwind"} => h < k /\ k \in Nat
    BY <1>2 DEF OInv, CurrentOK, TInv, MainOK
  <2> QED BY <2>1 DEF Current, Handler
<1>8. CurrentOK'
  <2>1. mpc \in {"init", "unwind"} => held'[k] = held[k]
    BY <1>0, <1>4, <1>7 DEF Current
  <2> QED BY <1>1, <1>5, <2>1 DEF OInv, CurrentOK, Exactly
<1>9. ThreadsOK'
  <2>1. \A g \in Range(vms) : ThreadOK(g)'
    <3> SUFFICES ASSUME NEW g \in Range(vms) PROVE ThreadOK(g)'
      OBVIOUS
    <3>1. g \in Handler /\ ThreadOK(g)
      BY <1>5 DEF OInv, ThreadsOK
    <3>2. CASE g # h
      <4>1. held'[g] = held[g] /\ lpc'[g] = lpc[g] /\ inView'[g] = inView[g]
        BY <3>1, <3>2, <1>0, <1>4
      <4> QED BY <3>1, <4>1 DEF ThreadOK, Exactly
    <3>3. CASE g = h
      <4>1. held'[h] = held[h] \ f /\ lpc'[h] = m
        BY <1>0, <1>4
      <4> QED BY <1>2, <3>3, <4>1 DEF ThreadOK, Exactly
    <3> QED BY <3>2, <3>3
  <2>2. \A g \in Handler : lpc'[g] # "none" => g \in Range(vms)
    BY <1>0, <1>2 DEF OInv, ThreadsOK
  <2> QED BY <2>1, <2>2, <1>5 DEF ThreadsOK
<1> QED BY <1>3, <1>6, <1>8, <1>9 DEF OInv

\* The step of a thread from l to m, with one call that may fail.
Moves(h, u, f, l, m) ==
  /\ lpc[h] = l /\ lpc' = [lpc EXCEPT ![h] = m]
  /\ UseAndFree(h, u, f)
  /\ Fault(h) \/ UNCHANGED faults
  /\ \A g \in Handler : g # h => inView'[g] = inView[g]

\* m is not "none", and needs what l needs without f.
Fits(u, f, l, m) ==
  m \in Label \ {"none"} /\ u \cup f \subseteq Needed(l) /\ Needed(m) = Needed(l) \ f

LEMMA OwnRegular ==
  ASSUME TInv, OInv, NEW h \in Handler, MonitorVm(h),
         NEW u, NEW f, NEW l, NEW m, Moves(h, u, f, l, m), Fits(u, f, l, m),
         m = "view" /\ inView'[h] => faults'[h] > 0
  PROVE  OInv'
<1>1. Alive(h) /\ UNCHANGED main
  BY ThreadStep
<1>2. \A g \in Handler : faults[g] > 0 => faults'[g] > 0
  BY FaultStays DEF Moves
<1>3. /\ lpc[h] = l /\ lpc' = [lpc EXCEPT ![h] = m] /\ UseAndFree(h, u, f)
      /\ \A g \in Handler : g # h => inView'[g] = inView[g]
  BY DEF Moves
<1>4. /\ m \in Label \ {"none"} /\ u \cup f \subseteq Needed(lpc[h])
      /\ Needed(m) \subseteq Needed(lpc[h]) \ f
      /\ Needed(lpc[h]) \ f \subseteq Needed(m) \cup {"view"}
      /\ "view" \notin Needed(lpc[h]) \ (f \cup Needed(m))
  BY <1>3 DEF Fits
<1> QED BY <1>1, <1>2, <1>3, <1>4, OwnMove

LEMMA OwnThread ==
  ASSUME TInv, OInv, NEW h \in Handler, MonitorVm(h)
  PROVE  OInv'
<1> USE AfterIs DEF At, GoTo
<1>0. /\ lpc \in [Handler -> Label] /\ ThreadOK(h) /\ inView \in [Handler -> BOOLEAN]
      /\ UNCHANGED resource => UseAndFree(h, {}, {})
  BY ThreadStep DEF OInv, ThreadsOK, Alive, TInv, MainOK, FlagsOK, HeldOK, resource, UseAndFree
<1>s. \A p \in Page : Shadow(h, p) => Fault(h) \/ UNCHANGED faults
  BY DEF Shadow
<1>1. CASE Check(h)
  <2>1. Moves(h, {}, {}, "check", "pause") \/ Moves(h, {}, {}, "check", "listen")
    BY <1>0, <1>1 DEF Check, Moves, machine
  <2>2. Fits({}, {}, "check", "pause") /\ Fits({}, {}, "check", "listen")
    BY Labels DEF Fits, Needed
  <2> QED BY <2>1, <2>2, OwnRegular
<1>2. CASE Listen(h)
  <2>1. Moves(h, {"xen", "vmi", "view", "traps", "out"}, {}, "listen", "check")
    BY <1>0, <1>s, <1>2 DEF Listen, Moves, machine
  <2>2. Fits({"xen", "vmi", "view", "traps", "out"}, {}, "listen", "check")
    BY Labels DEF Fits, Needed, Resource
  <2> QED BY <2>1, <2>2, OwnRegular
<1>3. CASE Pause(h)
  <2>1. Moves(h, {"vmi"}, {}, "pause", "out")
    BY <1>0, <1>3 DEF Pause, Moves, machine
  <2>2. Fits({"vmi"}, {}, "pause", "out")
    BY Labels DEF Fits, Needed, Resource
  <2> QED BY <2>1, <2>2, OwnRegular
<1>4. CASE OutClose(h)
  <2>1. Moves(h, {}, {"out"}, "out", "guards")
    BY <1>0, <1>4 DEF OutClose, Moves, machine
  <2>2. Fits({}, {"out"}, "out", "guards")
    BY Labels DEF Fits, Needed, Resource
  <2> QED BY <2>1, <2>2, OwnRegular
<1>5. CASE Unguard(h)
  <2>0. lpc[h] = "guards" /\ lpc' = [lpc EXCEPT ![h] = "guards"]
    BY <1>0, <1>5 DEF Unguard
  <2>1. Moves(h, {"vmi", "view", "traps"}, {}, "guards", "guards")
    BY <1>0, <1>5, <2>0 DEF Unguard, Moves, machine
  <2>2. Fits({"vmi", "view", "traps"}, {}, "guards", "guards")
    BY Labels DEF Fits, Needed, Resource
  <2> QED BY <2>1, <2>2, OwnRegular
<1>6. CASE EndGuards(h)
  <2>1. Moves(h, {}, {}, "guards", "pages")
    BY <1>0, <1>6 DEF EndGuards, Moves, machine
  <2>2. Fits({}, {}, "guards", "pages")
    BY Labels DEF Fits, Needed, Resource
  <2> QED BY <2>1, <2>2, OwnRegular
<1>7. CASE Unmap(h)
  <2>0. lpc[h] = "pages" /\ lpc' = [lpc EXCEPT ![h] = "pages"]
    BY <1>0, <1>7 DEF Unmap
  <2>1. Moves(h, {"vmi", "view", "traps"}, {}, "pages", "pages")
    BY <1>0, <1>7, <2>0 DEF Unmap, Moves, machine
  <2>2. Fits({"vmi", "view", "traps"}, {}, "pages", "pages")
    BY Labels DEF Fits, Needed, Resource
  <2> QED BY <2>1, <2>2, OwnRegular
<1>8. CASE GiveBack(h)
  <2>0. lpc[h] = "pages" /\ lpc' = [lpc EXCEPT ![h] = "pages"]
    BY <1>0, <1>8 DEF GiveBack
  <2>1. Moves(h, {"xen", "traps"}, {}, "pages", "pages")
    BY <1>0, <1>8, <2>0 DEF GiveBack, Moves, machine
  <2>2. Fits({"xen", "traps"}, {}, "pages", "pages")
    BY Labels DEF Fits, Needed, Resource
  <2> QED BY <2>1, <2>2, OwnRegular
<1>9. CASE EndPages(h)
  <2>1. Moves(h, {}, {}, "pages", "traps")
    BY <1>0, <1>9 DEF EndPages, Moves, machine
  <2>2. Fits({}, {}, "pages", "traps")
    BY Labels DEF Fits, Needed, Resource
  <2> QED BY <2>1, <2>2, OwnRegular
<1>10. CASE TmDestroy(h)
  <2>1. Moves(h, {}, {"traps"}, "traps", "switch")
    BY <1>0, <1>10 DEF TmDestroy, Moves, machine
  <2>2. Fits({}, {"traps"}, "traps", "switch")
    BY Labels DEF Fits, Needed, Resource
  <2> QED BY <2>1, <2>2, OwnRegular
<1>11. CASE Switch(h)
  <2>1. Moves(h, {"vmi"}, {}, "switch", "view")
    BY <1>0, <1>11 DEF Switch, Moves
  <2>2. Fits({"vmi"}, {}, "switch", "view")
    BY Labels DEF Fits, Needed, Resource
  <2>3. inView'[h] => faults'[h] > 0
    BY <1>0, <1>11, FaultStays DEF Switch
  <2> QED BY <2>1, <2>2, <2>3, OwnRegular
<1>12. CASE DestroyView(h)
  <2>1. /\ lpc[h] = "view" /\ lpc' = [lpc EXCEPT ![h] = "xen"] /\ UNCHANGED inView
        /\ Fault(h) \/ UNCHANGED faults
    BY <1>12 DEF DestroyView, machine
  <2>2. CASE ~inView[h] /\ UseAndFree(h, {"vmi"}, {"view"})
    <3>1. Moves(h, {"vmi"}, {"view"}, "view", "xen")
      BY <2>1, <2>2 DEF Moves
    <3>2. Fits({"vmi"}, {"view"}, "view", "xen")
      BY Labels DEF Fits, Needed, Resource
    <3> QED BY <3>1, <3>2, OwnRegular
  <2>3. CASE (inView[h] \/ Fault(h)) /\ UseAndFree(h, {"vmi", "view"}, {})
    <3>1. \A g \in Handler : faults[g] > 0 => faults'[g] > 0
      BY <2>1, FaultStays
    <3>2. faults'[h] > 0
      BY <1>0, <2>1, <2>3, <3>1, FaultStays DEF ThreadOK
    <3>3. /\ {"vmi", "view"} \cup {} \subseteq Needed("view") /\ "xen" \in Label \ {"none"}
          /\ Needed("xen") \subseteq Needed("view") \ {}
          /\ Needed("view") \ {} \subseteq Needed("xen") \cup {"view"}
      BY Labels DEF Needed, Resource
    <3>4. Alive(h) /\ UNCHANGED main
      BY ThreadStep
    <3> QED BY <2>1, <2>3, <3>1, <3>2, <3>3, <3>4, OwnMove
  <2> QED BY <1>12, <2>2, <2>3 DEF DestroyView
<1>13. CASE XenFree(h)
  <2>1. Moves(h, {}, {"xen"}, "xen", "resume")
    BY <1>0, <1>13 DEF XenFree, Moves, machine
  <2>2. Fits({}, {"xen"}, "xen", "resume")
    BY Labels DEF Fits, Needed, Resource
  <2> QED BY <2>1, <2>2, OwnRegular
<1>14. CASE Resume(h)
  <2>1. Moves(h, {"vmi"}, {}, "resume", "vmi")
    BY <1>0, <1>14 DEF Resume, Moves, machine
  <2>2. Fits({"vmi"}, {}, "resume", "vmi")
    BY Labels DEF Fits, Needed, Resource
  <2> QED BY <2>1, <2>2, OwnRegular
<1>15. CASE CloseVmi(h)
  <2>1. Moves(h, {}, {"vmi"}, "vmi", "handler")
    BY <1>0, <1>15 DEF CloseVmi, Moves, machine
  <2>2. Fits({}, {"vmi"}, "vmi", "handler")
    BY Labels DEF Fits, Needed, Resource
  <2> QED BY <2>1, <2>2, OwnRegular
<1>16. CASE FreeHandler(h)
  <2>1. Moves(h, {}, {"handler"}, "handler", "ended")
    BY <1>0, <1>16 DEF FreeHandler, Moves, machine
  <2>2. Fits({}, {"handler"}, "handler", "ended")
    BY Labels DEF Fits, Needed, Resource
  <2> QED BY <2>1, <2>2, OwnRegular
<1> QED
  BY <1>1, <1>2, <1>3, <1>4, <1>5, <1>6, <1>7, <1>8, <1>9, <1>10, <1>11, <1>12, <1>13,
     <1>14, <1>15, <1>16
  DEF MonitorVm

\* Each step of hfm_init acquires the next resource.
LEMMA GotStep ==
  /\ \A i \in 1..5 : Got(i) = Got(i - 1) \cup {Steps[i]} /\ Got(i - 1) = Got(i) \ {Steps[i]}
  /\ Got(0) = {"handler"} /\ Got(5) = Resource
  /\ \A i \in 0..5 : "handler" \in Got(i)
  /\ \A i \in 3..5 : "vmi" \in Got(i) /\ "view" \in Got(i)
  /\ \A i \in 1..5 : Steps[i] = "view" <=> i = 3
<1>1. /\ Got(0) = {"handler"} /\ Got(1) = {"handler", "xen"}
      /\ Got(2) = {"handler", "xen", "vmi"} /\ Got(3) = {"handler", "xen", "vmi", "view"}
      /\ Got(4) = {"handler", "xen", "vmi", "view", "traps"} /\ Got(5) = Resource
  BY DEF Got, Rank, Resource
<1>2. /\ Steps[1] = "xen" /\ Steps[2] = "vmi" /\ Steps[3] = "view" /\ Steps[4] = "traps"
      /\ Steps[5] = "out"
  BY DEF Steps
<1>3. \A i \in 1..5 : i \in {1, 2, 3, 4, 5}
  OBVIOUS
<1>4. \A i \in 1..5 : Got(i) = Got(i - 1) \cup {Steps[i]} /\ Got(i - 1) = Got(i) \ {Steps[i]}
  <2> SUFFICES ASSUME NEW i \in {1, 2, 3, 4, 5}
               PROVE  /\ Got(i) = Got(i - 1) \cup {Steps[i]}
                      /\ Got(i - 1) = Got(i) \ {Steps[i]}
    BY <1>3
  <2>1. CASE i = 1 BY <2>1, <1>1, <1>2
  <2>2. CASE i = 2 BY <2>2, <1>1, <1>2
  <2>3. CASE i = 3 BY <2>3, <1>1, <1>2
  <2>4. CASE i = 4 BY <2>4, <1>1, <1>2
  <2>5. CASE i = 5 BY <2>5, <1>1, <1>2 DEF Resource
  <2> QED BY <2>1, <2>2, <2>3, <2>4, <2>5
<1>5. \A i \in 0..5 : i \in {0, 1, 2, 3, 4, 5}
  OBVIOUS
<1>6. \A i \in 0..5 : "handler" \in Got(i)
  BY <1>1, <1>5 DEF Resource
<1>7. \A i \in 3..5 : "vmi" \in Got(i) /\ "view" \in Got(i)
  <2>1. \A i \in 3..5 : i \in {3, 4, 5}
    OBVIOUS
  <2> QED BY <1>1, <2>1 DEF Resource
<1>8. \A i \in 1..5 : Steps[i] = "view" <=> i = 3
  BY <1>2, <1>3
<1> QED BY <1>1, <1>4, <1>6, <1>7, <1>8

\* main changes what one VM holds while it initialises that VM.
LEMMA OwnInitialising ==
  ASSUME TInv, SInv, OInv, k \in Handler, k \notin Range(vms),
         misused' = {}, UNCHANGED <<lpc, faults, vms>>,
         held' \in [Handler -> SUBSET Resource],
         \A h \in Handler : h # k => held'[h] = held[h] /\ inView'[h] = inView[h]
  PROVE  /\ misused' = {} /\ ThreadsOK'
         /\ \A h \in Handler : h \notin Range(vms)' /\ h # k /\ ~Current(h)
              => held'[h] \subseteq {"view"}
<1>1. Range(vms) \subseteq Handler
  BY InVms DEF TInv, MainOK
<1>2. ThreadsOK'
  <2>1. ASSUME NEW h \in Range(vms) PROVE ThreadOK(h)'
    <3>1. h \in Handler /\ h # k /\ ThreadOK(h)
      BY <1>1 DEF OInv, ThreadsOK
    <3> QED BY <3>1 DEF ThreadOK, Exactly
  <2> QED BY <2>1 DEF OInv, ThreadsOK
<1> QED BY <1>2 DEF OInv, OthersOK

LEMMA OwnMain ==
  ASSUME TInv, SInv, OInv, Main
  PROVE  OInv'
<1> USE DEF main, machine, resource
<1>0. /\ held \in [Handler -> SUBSET Resource] /\ vms \in Seq(Handler)
      /\ lpc \in [Handler -> Label] /\ inView \in [Handler -> BOOLEAN]
      /\ k \in Nat /\ step \in 0..5 /\ misused = {}
      /\ OthersOK /\ CurrentOK /\ ThreadsOK
  BY DEF TInv, MainOK, HeldOK, FlagsOK, OInv
<1>h. held' \in [Handler -> SUBSET Resource]
  BY MainType DEF TInv, HeldOK
<1>i. mpc \in {"name", "init", "unwind"} /\ k <= names => k \in Handler /\ k \notin Range(vms)
  BY <1>0, NameIsHandler DEF CurrentOK
<1>1. CASE NextName
  <2>1. CASE k <= names /\ mpc' = "init" /\ step' = 1 /\ k' = k /\ Acquire(k, "handler")
    <3>1. /\ k \in Handler /\ k \notin Range(vms) /\ mpc = "name"
          /\ UNCHANGED <<vms, lpc, faults, inView>>
      BY <1>1, <1>i, <2>1 DEF NextName
    <3>2. misused' = {} /\ held' = [held EXCEPT ![k] = @ \cup {"handler"}]
      BY <1>0, <2>1 DEF Acquire
    <3>3. ThreadsOK' /\ \A h \in Handler : h \notin Range(vms) /\ h # k => held'[h] \subseteq {"view"}
      BY <1>h, <1>0, <3>1, <3>2, OwnInitialising DEF Current
    <3>4. held'[k] = held[k] \cup {"handler"} /\ held[k] \subseteq {"view"}
      BY <1>0, <3>1, <3>2 DEF OthersOK, Current
    <3>5. Exactly(k, Got(0))'
      BY <2>1, <3>4, GotStep DEF Exactly
    <3>6. step' - 1 = 0
      BY <2>1
    <3>7. CurrentOK'
      BY <1>0, <2>1, <3>1, <3>5, <3>6 DEF CurrentOK, Exactly
    <3> QED BY <2>1, <3>1, <3>2, <3>3, <3>7 DEF OInv, OthersOK, Current
  <2>2. CASE mpc' = "policies" /\ UNCHANGED <<step, resource>>
    BY <1>0, <1>1, <2>2
    DEF NextName, OInv, OthersOK, CurrentOK, ThreadsOK, ThreadOK, Exactly, Current
  <2> QED BY <1>1, <2>1, <2>2 DEF NextName
<1>2. CASE InitStep
  <2>1. /\ k \in Handler /\ k \notin Range(vms) /\ step \in 1..5 /\ mpc = "init"
        /\ UNCHANGED <<lpc, faults>>
    BY <1>2, <1>i DEF InitStep, TInv, IndexOK
  <2>2. misused' = {} /\ held' = [held EXCEPT ![k] = @ \cup {Steps[step]}]
    BY <1>0, <1>2 DEF InitStep, Acquire
  <2>3. Got(step) \subseteq held'[k] /\ held'[k] \subseteq Got(step) \cup {"view"}
    <3>1. held'[k] = held[k] \cup {Steps[step]}
      BY <1>0, <2>1, <2>2
    <3>2. Got(step) = Got(step - 1) \cup {Steps[step]}
      BY <2>1, GotStep
    <3>3. Got(step - 1) \subseteq held[k] /\ held[k] \subseteq Got(step - 1) \cup {"view"}
      BY <1>0, <2>1 DEF CurrentOK, Exactly
    <3> QED BY <3>1, <3>2, <3>3
  <2>4. /\ \A h \in Handler : h # k => held'[h] = held[h] /\ inView'[h] = inView[h]
        /\ \A h \in Handler : h \notin Range(vms) /\ h # k => held'[h] \subseteq {"view"}
    BY <1>0, <1>2, <2>2 DEF InitStep, OthersOK, Current
  <2>5. CASE step' = step + 1 /\ UNCHANGED <<mpc, k, vms>>
    <3>1. ThreadsOK'
      BY <1>h, <2>1, <2>2, <2>4, <2>5, OwnInitialising
    <3>2. OthersOK'
      BY <2>1, <2>4, <2>5 DEF OthersOK, Current
    <3>3. CurrentOK'
      <4>1. step' - 1 = step
        BY <1>0, <2>5
      <4> QED BY <1>0, <2>1, <2>3, <2>5, <4>1 DEF CurrentOK, Exactly
    <3> QED BY <2>2, <3>1, <3>2, <3>3 DEF OInv
  <2>6. CASE step = 5 /\ vms' = Append(vms, k) /\ k' = k + 1 /\ mpc' = "name"
    <3>1. Range(vms') = Range(vms) \cup {k} /\ Range(vms) \subseteq Handler
      BY <1>0, <2>1, <2>6, OneMore, InVms
    <3>2. \A h \in Range(vms') : ThreadOK(h)'
      <4> SUFFICES ASSUME NEW h \in Range(vms') PROVE ThreadOK(h)'
        OBVIOUS
      <4>1. CASE h = k
        <5>1. lpc'[h] = "none" /\ Needed(lpc'[h]) = Resource
          BY <2>1, <4>1 DEF SInv, SetupOK, Setup, Needed
        <5>2. Resource \subseteq held'[h] /\ held'[h] \subseteq Resource
          BY <1>h, <2>1, <2>3, <2>6, <4>1, GotStep
        <5> QED BY <5>1, <5>2 DEF ThreadOK, Exactly
      <4>2. CASE h # k
        <5>1. h \in Handler /\ ThreadOK(h)
          BY <1>0, <3>1, <4>2 DEF ThreadsOK
        <5> QED BY <2>1, <2>4, <4>2, <5>1 DEF ThreadOK, Exactly
      <4> QED BY <4>1, <4>2
    <3>3. ThreadsOK'
      BY <1>0, <2>1, <3>1, <3>2 DEF ThreadsOK
    <3>4. OthersOK'
      BY <2>1, <2>4, <2>6, <3>1 DEF OthersOK, Current
    <3>5. CurrentOK'
      <4>1. \A h \in Range(vms) : h < k
        BY <1>0, <2>1 DEF CurrentOK
      <4>2. \A h \in Range(vms') : h < k + 1
        BY <1>0, <2>1, <3>1, <4>1 DEF Handler
      <4> QED BY <2>6, <4>2 DEF CurrentOK
    <3> QED BY <2>2, <3>3, <3>4, <3>5 DEF OInv
  <2> QED BY <1>2, <2>5, <2>6, StepsLength DEF InitStep
<1>3. CASE InitFails
  <2>1. /\ k \in Handler /\ k \notin Range(vms) /\ step \in 1..5 /\ mpc = "init"
        /\ mpc' = "unwind" /\ step' = step - 1 /\ UNCHANGED <<k, vms, lpc, faults, inView>>
    BY <1>3, <1>i DEF InitFails, UnwindFrom, TInv, IndexOK
  <2>2. /\ misused' = {}
        /\ held' = held \/ held' = [held EXCEPT ![k] = @ \cup {"view"}]
    BY <1>0, <1>3 DEF InitFails, Acquire
  <2>3. \A h \in Handler : h # k => held'[h] = held[h]
    BY <1>0, <2>2
  <2>4. held'[k] = held[k] \/ held'[k] = held[k] \cup {"view"}
    BY <1>0, <2>1, <2>2
  <2>5. ThreadsOK'
    BY <1>h, <2>1, <2>2, <2>3, OwnInitialising
  <2>6. OthersOK'
    BY <1>0, <2>1, <2>3 DEF OthersOK, Current
  <2>7. CurrentOK'
    BY <1>0, <2>1, <2>4 DEF CurrentOK, Exactly
  <2> QED BY <2>2, <2>5, <2>6, <2>7 DEF OInv
<1>4. CASE Unwind
  <2>1. /\ k \in Handler /\ k \notin Range(vms) /\ mpc = "unwind"
        /\ UNCHANGED <<vms, lpc, faults>>
    BY <1>4, <1>i DEF Unwind, TInv, IndexOK
  <2>2. Got(step) \subseteq held[k] /\ held[k] \subseteq Got(step) \cup {"view"}
    BY <1>0, <2>1 DEF CurrentOK, Exactly
  <2>3. CASE step > 0
    <3>1. step \in 1..5 /\ step' = step - 1 /\ UNCHANGED <<mpc, k>>
      BY <1>0, <1>4, <2>3 DEF Unwind
    <3>2. UseAndFree(k, IF Steps[step] = "view" THEN {"vmi"} ELSE {}, {Steps[step]})
      BY <1>4, <2>3, <3>1 DEF Unwind
    <3>3. (IF Steps[step] = "view" THEN {"vmi"} ELSE {}) \cup {Steps[step]} \subseteq held[k]
      BY <2>2, <3>1, GotStep
    <3>4. misused' = {} /\ held' = [held EXCEPT ![k] = @ \ {Steps[step]}]
      BY <1>0, <3>2, <3>3 DEF UseAndFree
    <3>5. \A h \in Handler : h # k => held'[h] = held[h] /\ inView'[h] = inView[h]
      BY <1>0, <1>4, <3>4 DEF Unwind
    <3>6. /\ Got(step - 1) \subseteq held'[k]
          /\ held'[k] \subseteq Got(step - 1) \cup {"view"}
      <4>1. held'[k] = held[k] \ {Steps[step]} /\ Got(step - 1) = Got(step) \ {Steps[step]}
        BY <1>0, <2>1, <3>1, <3>4, GotStep
      <4> QED BY <2>2, <4>1
    <3>7. ThreadsOK'
      BY <1>h, <2>1, <3>4, <3>5, OwnInitialising
    <3>8. OthersOK'
      BY <1>0, <2>1, <3>1, <3>5 DEF OthersOK, Current
    <3>9. CurrentOK'
      BY <1>0, <2>1, <3>1, <3>6 DEF CurrentOK, Exactly
    <3> QED BY <3>4, <3>7, <3>8, <3>9 DEF OInv
  <2>4. CASE step = 0
    <3>1. mpc' = "name" /\ k' = k + 1 /\ UseAndFree(k, {}, {"handler"}) /\ UNCHANGED inView
      BY <1>4, <2>4 DEF Unwind
    <3>2. misused' = {} /\ held' = [held EXCEPT ![k] = @ \ {"handler"}]
      BY <1>0, <2>2, <2>4, <3>1, GotStep DEF UseAndFree
    <3>3. held'[k] \subseteq {"view"} /\ \A h \in Handler : h # k => held'[h] = held[h]
      BY <1>0, <2>1, <2>2, <2>4, <3>2, GotStep
    <3>4. ThreadsOK'
      BY <1>h, <2>1, <3>1, <3>2, <3>3, OwnInitialising
    <3>5. OthersOK'
      BY <1>0, <2>1, <3>1, <3>3 DEF OthersOK, Current
    <3>6. CurrentOK'
      <4>1. \A h \in Range(vms) : h < k /\ h \in Handler
        BY <1>0, <2>1, InVms DEF CurrentOK
      <4>2. \A h \in Range(vms) : h < k + 1
        BY <1>0, <4>1 DEF Handler
      <4> QED BY <2>1, <3>1, <4>2 DEF CurrentOK
    <3> QED BY <3>2, <3>4, <3>5, <3>6 DEF OInv
  <2> QED BY <1>0, <2>3, <2>4
<1>5. CASE SetPolicies
  <2>1. /\ mpc = "policies" /\ UNCHANGED <<mpc, vms, lpc, inView>>
        /\ vms[k] \in Range(vms) /\ vms[k] \in Handler
    BY <1>0, <1>5, InVms DEF SetPolicies, TInv, MainOK
  <2>2. lpc[vms[k]] = "none" /\ Resource \subseteq held[vms[k]]
    BY <1>0, <2>1 DEF SInv, SetupOK, Setup, ThreadsOK, ThreadOK, Exactly, Needed
  <2>3. UseAndFree(vms[k], {"xen", "vmi", "view", "traps"}, {})
    BY <1>5 DEF SetPolicies
  <2>4. held' = held /\ misused' = {}
    BY <1>0, <2>1, <2>2, <2>3 DEF UseAndFree, Resource
  <2>5. Fault(vms[k]) \/ UNCHANGED faults
    BY <1>5 DEF SetPolicies, Shadow
  <2>6. \A h \in Range(vms) : h \in Handler /\ (faults[h] > 0 => faults'[h] > 0)
    BY <1>0, <2>1, <2>5, FaultStays, InVms
  <2> QED
    BY <1>0, <2>1, <2>4, <2>6
    DEF OInv, OthersOK, CurrentOK, ThreadsOK, ThreadOK, Exactly, Current
<1>6. CASE StartThreads
  <2>1. /\ mpc = "policies" /\ mpc' = "join"
        /\ UNCHANGED <<vms, held, misused, inView, faults>>
    BY <1>6 DEF StartThreads
  <2>2. \A h \in Handler : lpc[h] = "none" /\ lpc'[h] = IF h \in Range(vms) THEN "check" ELSE "none"
    BY <1>6 DEF StartThreads, SInv, SetupOK, Setup
  <2>3. \A h \in Range(vms) : ThreadOK(h)'
    <3> SUFFICES ASSUME NEW h \in Range(vms) PROVE ThreadOK(h)'
      OBVIOUS
    <3>1. h \in Handler /\ ThreadOK(h)
      BY <1>0, InVms DEF ThreadsOK
    <3>2. lpc[h] = "none" /\ lpc'[h] = "check" /\ Needed("none") = Needed("check")
      BY <2>2, <3>1 DEF Needed
    <3> QED BY <2>1, <3>1, <3>2 DEF ThreadOK, Exactly
  <2>4. ThreadsOK' /\ OthersOK' /\ CurrentOK'
    BY <1>0, <2>1, <2>2, <2>3 DEF ThreadsOK, OthersOK, CurrentOK, Current
  <2> QED BY <1>0, <2>1, <2>4 DEF OInv
<1>7. CASE Join
  <2>1. /\ mpc = "join" /\ mpc' \in {"join", "release"}
        /\ UNCHANGED <<vms, lpc, held, misused, inView, faults>>
    BY <1>7 DEF Join
  <2> QED
    BY <1>0, <2>1 DEF OInv, OthersOK, CurrentOK, ThreadsOK, ThreadOK, Exactly, Current
<1>8. CASE Release
  <2>1. /\ mpc = "release" /\ mpc' \in {"release", "done"}
        /\ UNCHANGED <<vms, lpc, held, misused, inView, faults>>
    BY <1>8 DEF Release
  <2> QED
    BY <1>0, <2>1 DEF OInv, OthersOK, CurrentOK, ThreadsOK, ThreadOK, Exactly, Current
<1> QED
  BY <1>1, <1>2, <1>3, <1>4, <1>5, <1>6, <1>7, <1>8 DEF Main

LEMMA OwnStep == TInv /\ SInv /\ OInv /\ [Next]_vars => OInv'
<1> SUFFICES ASSUME TInv, SInv, OInv, [Next]_vars PROVE OInv'
  OBVIOUS
<1>1. CASE UNCHANGED <<main, lpc, resource, machine, faults>>
  BY <1>1
  DEF OInv, OthersOK, CurrentOK, ThreadsOK, ThreadOK, Exactly, Current, main, resource, machine
<1>2. Signal \/ UNCHANGED vars => UNCHANGED <<main, lpc, resource, machine, faults>>
  BY DEF Signal, vars
<1> QED BY <1>1, <1>2, OwnThread, OwnMain DEF Next

(***************************************************************************)
(* Whichever step of hfm_init fails for whichever VM, and whatever fails   *)
(* in hfm_close: nothing is used or released that is not held, and a VM    *)
(* whose handler is gone has kept nothing but possibly its view.           *)
(***************************************************************************)
THEOREM AlwaysReleasedOnce == Spec => []ReleasedOnce
<1>1. ASSUME TInv, OInv PROVE ReleasedOnce
  <2>1. lpc \in [Handler -> Label] /\ Range(vms) \subseteq Handler
    BY <1>1, InVms DEF TInv, MainOK
  <2>2. ASSUME NEW h \in Handler, "handler" \notin held[h]
        PROVE  /\ held[h] \subseteq {"view"}
               /\ h \in Range(vms) /\ "view" \in held[h] => faults[h] > 0
    <3>1. ~Current(h)
      BY <1>1, <2>2, GotStep DEF OInv, CurrentOK, Exactly, Current, TInv, MainOK, IndexOK
    <3>2. CASE h \notin Range(vms)
      BY <1>1, <3>1, <3>2 DEF OInv, OthersOK
    <3>3. CASE h \in Range(vms)
      <4>1. ThreadOK(h) /\ lpc[h] \in Label
        BY <1>1, <2>1, <3>3 DEF OInv, ThreadsOK
      <4>2. "handler" \notin Needed(lpc[h])
        BY <2>2, <4>1 DEF ThreadOK, Exactly
      <4>3. Needed(lpc[h]) = {}
        BY <4>2 DEF Needed, Resource
      <4> QED BY <4>1, <4>3 DEF ThreadOK, Exactly
    <3> QED BY <3>2, <3>3
  <2> QED BY <1>1, <2>2 DEF OInv, ReleasedOnce
<1> QED
  BY InitType, TypeStep, SharedInit, SharedStep, OwnInit, OwnStep, <1>1, PTL DEF Spec

-----------------------------------------------------------------------------
(* The guest after the end.                                                  *)

\* The labels of a thread before it closes its VM, while the vCPUs are paused if
\* the pause succeeded, and after the view was switched.
Early   == {"none", "check", "listen", "pause"}
Closing == {"out", "guards", "pages", "traps", "switch", "view", "xen", "resume"}
Late    == {"view", "xen", "resume", "vmi", "handler", "ended"}

\* The view maps what is in the table or still to be done, and no frame of those
\* that are given back.
MapsOK(h) ==
  /\ lpc[h] \in Early \cup {"out", "guards"} => mapped[h] = table[h]
  /\ lpc[h] = "pages" => /\ mapped[h] = todo[h]
                         /\ todo[h] \cap (back[h] \cup page[h]) = {}
  /\ lpc[h] \in {"traps", "switch"} \cup Late => mapped[h] = {}

\* The pages that are closed to the guest are those still to be done.
GuardsOK(h) ==
  /\ lpc[h] = "guards" => guarded[h] = todo[h]
  /\ lpc[h] \in {"pages", "traps", "switch"} \cup Late => guarded[h] = {}

\* With no failure all is in order.  vCPUs that run while their VM is closed are
\* due to a failure, a view that stays to another, a stray INT3 to a third: after
\* one, the others cannot be.
GuestOK(h) ==
  /\ lpc[h] \in Early \cup {"out", "guards"} => back[h] = {} /\ page[h] = {}
  /\ faults[h] = 0 => MapsOK(h) /\ GuardsOK(h)
  /\ lpc[h] \in Closing /\ running[h] => faults[h] # 0 /\ (faults[h] = 1 => MapsOK(h))
  /\ lpc[h] \in Late /\ inView[h]
       => faults[h] # 0 /\ (faults[h] = 1 => mapped[h] = {} /\ guarded[h] = {})
  /\ stray[h] # {} => faults[h] # 0
  /\ stray[h] # {} /\ faults[h] = 1 /\ lpc[h] \in Late => ~inView[h]
  /\ stray[h] # {} /\ faults[h] = 1 /\ lpc[h] \in {"vmi", "handler", "ended"} => running[h]

GuestInv == \A h \in Handler : GuestOK(h)

\* What GuestOK is about, of VM h.
Same(h) ==
  /\ lpc'[h] = lpc[h] /\ faults'[h] = faults[h] /\ running'[h] = running[h]
  /\ table'[h] = table[h] /\ mapped'[h] = mapped[h] /\ guarded'[h] = guarded[h]
  /\ back'[h] = back[h] /\ todo'[h] = todo[h] /\ page'[h] = page[h]
  /\ stray'[h] = stray[h]
  /\ lpc[h] # "none" => inView'[h] = inView[h]

LEMMA GuestSame ==
  ASSUME NEW h \in Handler, GuestOK(h), Same(h)
  PROVE  GuestOK(h)'
  BY DEF GuestOK, Same, MapsOK, GuardsOK, Early, Closing, Late

\* A thread concerns its own VM only.
LEMMA OtherGuests ==
  ASSUME TInv, NEW h \in Handler, MonitorVm(h), NEW g \in Handler, g # h
  PROVE  Same(g)
<1> USE DEF At, GoTo, machine, loop, pages, Same
<1>0. /\ lpc \in [Handler -> Label] /\ faults \in [Handler -> 0..MaxFaults]
      /\ PagesOK /\ FlagsOK
      /\ Fault(h) => faults'[g] = faults[g]
  BY DEF TInv, MainOK, Fault
<1>1. CASE Check(h)       BY <1>0, <1>1 DEF Check
<1>2. CASE Listen(h)
  <2>1. ASSUME NEW p \in Page, Shadow(h, p)
        PROVE  table'[g] = table[g] /\ mapped'[g] = mapped[g] /\ guarded'[g] = guarded[g]
               /\ back'[g] = back[g] /\ stray'[g] = stray[g] /\ faults'[g] = faults[g]
    BY <1>0, <2>1 DEF Shadow, PagesOK
  <2> QED BY <1>0, <1>2, <2>1 DEF Listen
<1>3. CASE Pause(h)       BY <1>0, <1>3 DEF Pause, FlagsOK
<1>4. CASE OutClose(h)    BY <1>0, <1>4 DEF OutClose, PagesOK
<1>5. CASE Unguard(h)     BY <1>0, <1>5 DEF Unguard, PagesOK
<1>6. CASE EndGuards(h)   BY <1>0, <1>6 DEF EndGuards, PagesOK
<1>7. CASE Unmap(h)       BY <1>0, <1>7 DEF Unmap, Unmapped, PagesOK
<1>8. CASE GiveBack(h)    BY <1>0, <1>8 DEF GiveBack, PagesOK
<1>9. CASE EndPages(h)    BY <1>0, <1>9 DEF EndPages
<1>10. CASE TmDestroy(h)  BY <1>0, <1>10 DEF TmDestroy, PagesOK
<1>11. CASE Switch(h)     BY <1>0, <1>11 DEF Switch, FlagsOK
<1>12. CASE DestroyView(h) BY <1>0, <1>12 DEF DestroyView
<1>13. CASE XenFree(h)    BY <1>0, <1>13 DEF XenFree
<1>14. CASE Resume(h)     BY <1>0, <1>14 DEF Resume, FlagsOK
<1>15. CASE CloseVmi(h)   BY <1>0, <1>15 DEF CloseVmi
<1>16. CASE FreeHandler(h) BY <1>0, <1>16 DEF FreeHandler
<1> QED
  BY <1>1, <1>2, <1>3, <1>4, <1>5, <1>6, <1>7, <1>8, <1>9, <1>10, <1>11, <1>12, <1>13,
     <1>14, <1>15, <1>16
  DEF MonitorVm

\* What a call that fails counts.
LEMMA FaultCounts ==
  ASSUME TInv, NEW h \in Handler, Fault(h)
  PROVE  faults[h] \in Nat /\ faults'[h] = faults[h] + 1
  BY LifecycleAssumption DEF TInv, MainOK, Fault

\* Before the VM is closed table and view change together, or a call has failed.
LEMMA EarlyGuest ==
  ASSUME NEW h \in Handler, GuestOK(h), faults[h] \in Nat,
         lpc[h] \in Early, lpc'[h] \in Early,
         back'[h] = back[h], page'[h] = page[h],
         \/ /\ faults'[h] = faults[h] /\ stray'[h] = stray[h]
            /\ mapped[h] = table[h] => mapped'[h] = table'[h]
         \/ faults'[h] = faults[h] + 1
  PROVE  GuestOK(h)'
<1>1. back'[h] = {} /\ page'[h] = {}
  BY DEF GuestOK
<1>2. lpc'[h] \notin Closing /\ lpc'[h] \notin Late /\ lpc'[h] \notin {"guards", "pages"}
      /\ lpc'[h] \notin {"traps", "switch"}
  BY DEF Early, Closing, Late
<1>3. GuardsOK(h)'
  BY <1>2 DEF GuardsOK
<1>4. faults'[h] = 0 => mapped'[h] = table'[h]
  BY DEF GuestOK, MapsOK
<1>5. faults'[h] = 0 => MapsOK(h)'
  BY <1>2, <1>4 DEF MapsOK
<1>6. stray'[h] # {} => faults'[h] # 0
  BY DEF GuestOK
<1>7. lpc'[h] \notin {"vmi", "handler", "ended"}
  BY DEF Early
<1> QED BY <1>1, <1>2, <1>3, <1>5, <1>6, <1>7 DEF GuestOK

\* A page that is shadowed is in the table and in the view, or a call has failed.
LEMMA ShadowGuest ==
  ASSUME TInv, NEW h \in Handler, GuestOK(h), NEW p \in Page, Shadow(h, p),
         lpc[h] \in Early, lpc'[h] \in Early, UNCHANGED loop
  PROVE  GuestOK(h)'
<1>1. faults[h] \in Nat /\ back'[h] = back[h] /\ page'[h] = page[h]
  BY DEF Shadow, TInv, MainOK, loop
<1>2. CASE /\ table' = [table EXCEPT ![h] = @ \cup {p}]
           /\ mapped' = [mapped EXCEPT ![h] = @ \cup {p}]
           /\ UNCHANGED <<faults, stray>>
  <2>1. table'[h] = table[h] \cup {p} /\ mapped'[h] = mapped[h] \cup {p}
    BY <1>2 DEF TInv, PagesOK
  <2> QED BY <1>1, <1>2, <2>1, EarlyGuest
<1>3. CASE Fault(h)
  BY <1>1, <1>3, FaultCounts, EarlyGuest
<1> QED BY <1>2, <1>3 DEF Shadow

\* The steps of hfm_close, each for its own VM.
LEMMA OwnGuest ==
  ASSUME TInv, NEW h \in Handler, GuestOK(h), MonitorVm(h)
  PROVE  GuestOK(h)'
<1> USE AfterIs DEF At, GoTo, machine, pages
<1>0. /\ lpc \in [Handler -> Label] /\ faults \in [Handler -> 0..MaxFaults]
      /\ PagesOK /\ FlagsOK
      /\ faults[h] \in Nat /\ (Fault(h) => faults'[h] = faults[h] + 1)
  BY FaultCounts DEF TInv, MainOK
<1> DEFINE Kept == /\ table'[h] = table[h] /\ mapped'[h] = mapped[h]
                   /\ guarded'[h] = guarded[h] /\ back'[h] = back[h]
                   /\ stray'[h] = stray[h]
           Loop == todo'[h] = todo[h] /\ page'[h] = page[h]
           Cpus == running'[h] = running[h] /\ inView'[h] = inView[h]
           Count == faults'[h] = faults[h]
<1>1. CASE Check(h)
  <2>1. lpc[h] \in Early /\ lpc'[h] \in Early /\ Kept /\ Loop /\ Count
    BY <1>0, <1>1 DEF Check, Early, loop
  <2> QED BY <1>0, <2>1, EarlyGuest
<1>2. CASE Listen(h)
  <2>1. lpc[h] \in Early /\ lpc'[h] \in Early /\ UNCHANGED loop /\ Loop
    BY <1>0, <1>2 DEF Listen, Early, loop
  <2>2. CASE \E p \in Page : Shadow(h, p)
    BY <2>1, <2>2, ShadowGuest
  <2>3. CASE Kept /\ (Count \/ faults'[h] = faults[h] + 1)
    BY <1>0, <2>1, <2>3, EarlyGuest
  <2> QED BY <1>0, <1>2, <2>2, <2>3 DEF Listen
<1>3. CASE Pause(h)
  <2>1. /\ lpc[h] = "pause" /\ lpc'[h] = "out" /\ Kept /\ Loop
        /\ \/ running'[h] = FALSE /\ Count
           \/ faults'[h] = faults[h] + 1
    BY <1>0, <1>3 DEF Pause, FlagsOK, loop
  <2> QED BY <1>0, <2>1 DEF GuestOK, MapsOK, GuardsOK, Early, Closing, Late
<1>4. CASE OutClose(h)
  <2>1. /\ lpc[h] = "out" /\ lpc'[h] = "guards" /\ Kept /\ Cpus /\ Count
        /\ todo'[h] = guarded[h] /\ page'[h] = page[h]
    BY <1>0, <1>4 DEF OutClose, PagesOK
  <2> QED BY <1>0, <2>1 DEF GuestOK, MapsOK, GuardsOK, Early, Closing, Late
<1>5. CASE Unguard(h)
  <2>1. /\ lpc[h] = "guards" /\ lpc'[h] = "guards" /\ Cpus
        /\ table'[h] = table[h] /\ mapped'[h] = mapped[h] /\ back'[h] = back[h]
        /\ stray'[h] = stray[h] /\ page'[h] = page[h]
        /\ \/ Count /\ \E p \in Page : todo'[h] = todo[h] \ {p} /\ guarded'[h] = guarded[h] \ {p}
           \/ faults'[h] = faults[h] + 1
    BY <1>0, <1>5 DEF Unguard, PagesOK
  <2>2. CASE Count
    <3>0. faults'[h] # faults[h] + 1
      BY <1>0, <2>2
    <3>p. PICK p \in Page : todo'[h] = todo[h] \ {p} /\ guarded'[h] = guarded[h] \ {p}
      BY <2>1, <3>0
    <3>1. guarded[h] = todo[h] => guarded'[h] = todo'[h]
      BY <3>p
    <3> QED BY <2>1, <2>2, <3>1 DEF GuestOK, MapsOK, GuardsOK, Early, Closing, Late
  <2>3. CASE faults'[h] = faults[h] + 1
    BY <1>0, <2>1, <2>3 DEF GuestOK, MapsOK, GuardsOK, Early, Closing, Late
  <2> QED BY <1>0, <2>1, <2>2, <2>3
<1>6. CASE EndGuards(h)
  <2>1. /\ lpc[h] = "guards" /\ lpc'[h] = "pages" /\ Kept /\ Cpus /\ Count
        /\ todo[h] = {} /\ todo'[h] = table[h] /\ page'[h] = page[h]
    BY <1>0, <1>6 DEF EndGuards, PagesOK
  <2> QED BY <1>0, <2>1 DEF GuestOK, MapsOK, GuardsOK, Early, Closing, Late
<1>7. CASE Unmap(h)
  <2>1. /\ lpc[h] = "pages" /\ lpc'[h] = "pages" /\ Cpus
        /\ table'[h] = table[h] /\ guarded'[h] = guarded[h] /\ back'[h] = back[h]
        /\ stray'[h] = stray[h] /\ page[h] = {}
        /\ \/ Count /\ \E p \in todo[h] : /\ todo'[h] = todo[h] \ {p}
                                          /\ mapped'[h] = mapped[h] \ {p} /\ page'[h] = {p}
           \/ faults'[h] = faults[h] + 1
    BY <1>0, <1>7 DEF Unmap, Unmapped, PagesOK, NoPage
  <2>2. CASE Count
    <3>0. faults'[h] # faults[h] + 1
      BY <1>0, <2>2
    <3>p. PICK p \in todo[h] : /\ todo'[h] = todo[h] \ {p}
                               /\ mapped'[h] = mapped[h] \ {p} /\ page'[h] = {p}
      BY <2>1, <3>0
    <3>2. mapped[h] = todo[h] => mapped'[h] = todo'[h]
      BY <3>p
    <3>3. todo[h] \cap (back[h] \cup page[h]) = {}
            => todo'[h] \cap (back'[h] \cup page'[h]) = {}
      BY <2>1, <3>p
    <3>1. mapped[h] = todo[h] /\ todo[h] \cap (back[h] \cup page[h]) = {}
            => mapped'[h] = todo'[h] /\ todo'[h] \cap (back'[h] \cup page'[h]) = {}
      BY <3>2, <3>3
    <3> QED BY <2>1, <2>2, <3>1 DEF GuestOK, MapsOK, GuardsOK, Early, Closing, Late
  <2>3. CASE faults'[h] = faults[h] + 1
    BY <1>0, <2>1, <2>3 DEF GuestOK, MapsOK, GuardsOK, Early, Closing, Late
  <2> QED BY <1>0, <2>1, <2>2, <2>3
<1>8. CASE GiveBack(h)
  <2>1. /\ lpc[h] = "pages" /\ lpc'[h] = "pages" /\ Cpus
        /\ table'[h] = table[h] /\ guarded'[h] = guarded[h] /\ mapped'[h] = mapped[h]
        /\ stray'[h] = stray[h] /\ todo'[h] = todo[h] /\ page'[h] = {}
        /\ \/ Count /\ back'[h] = back[h] \cup page[h]
           \/ faults'[h] = faults[h] + 1
    BY <1>0, <1>8 DEF GiveBack, PagesOK, NoPage
  <2> QED BY <1>0, <2>1 DEF GuestOK, MapsOK, GuardsOK, Early, Closing, Late
<1>9. CASE EndPages(h)
  <2>1. /\ lpc[h] = "pages" /\ lpc'[h] = "traps" /\ Kept /\ Loop /\ Cpus /\ Count
        /\ todo[h] = {}
    BY <1>0, <1>9 DEF EndPages, loop
  <2> QED BY <1>0, <2>1 DEF GuestOK, MapsOK, GuardsOK, Early, Closing, Late
<1>10. CASE TmDestroy(h)
  <2>1. /\ lpc[h] = "traps" /\ lpc'[h] = "switch" /\ Loop /\ Cpus /\ Count
        /\ mapped'[h] = mapped[h] /\ guarded'[h] = guarded[h] /\ back'[h] = back[h]
        /\ stray'[h] = stray[h]
    BY <1>0, <1>10 DEF TmDestroy, loop
  <2> QED BY <1>0, <2>1 DEF GuestOK, MapsOK, GuardsOK, Early, Closing, Late
<1>11. CASE Switch(h)
  <2>1. /\ lpc[h] = "switch" /\ lpc'[h] = "view" /\ Kept /\ Loop
        /\ running'[h] = running[h]
        /\ \/ inView'[h] = FALSE /\ Count
           \/ faults'[h] = faults[h] + 1
    BY <1>0, <1>11 DEF Switch, FlagsOK, loop
  <2> QED BY <1>0, <2>1 DEF GuestOK, MapsOK, GuardsOK, Early, Closing, Late
<1>12. CASE DestroyView(h)
  <2>1. /\ lpc[h] = "view" /\ lpc'[h] = "xen" /\ Kept /\ Loop /\ Cpus
        /\ Count \/ faults'[h] = faults[h] + 1
    BY <1>0, <1>12 DEF DestroyView, loop
  <2> QED BY <1>0, <2>1 DEF GuestOK, MapsOK, GuardsOK, Early, Closing, Late
<1>13. CASE XenFree(h)
  <2>1. /\ lpc[h] = "xen" /\ lpc'[h] = "resume" /\ Kept /\ Loop /\ Cpus /\ Count
    BY <1>0, <1>13 DEF XenFree, loop
  <2> QED BY <1>0, <2>1 DEF GuestOK, MapsOK, GuardsOK, Early, Closing, Late
<1>14. CASE Resume(h)
  <2>1. /\ lpc[h] = "resume" /\ lpc'[h] = "vmi" /\ Kept /\ Loop /\ inView'[h] = inView[h]
        /\ \/ running'[h] = TRUE /\ Count
           \/ faults'[h] = faults[h] + 1
    BY <1>0, <1>14 DEF Resume, FlagsOK, loop
  <2> QED BY <1>0, <2>1 DEF GuestOK, MapsOK, GuardsOK, Early, Closing, Late
<1>15. CASE CloseVmi(h)
  <2>1. /\ lpc[h] = "vmi" /\ lpc'[h] = "handler" /\ Kept /\ Loop /\ Cpus /\ Count
    BY <1>0, <1>15 DEF CloseVmi, loop
  <2> QED BY <1>0, <2>1 DEF GuestOK, MapsOK, GuardsOK, Early, Closing, Late
<1>16. CASE FreeHandler(h)
  <2>1. /\ lpc[h] = "handler" /\ lpc'[h] = "ended" /\ Kept /\ Loop /\ Cpus /\ Count
    BY <1>0, <1>16 DEF FreeHandler, loop
  <2> QED BY <1>0, <2>1 DEF GuestOK, MapsOK, GuardsOK, Early, Closing, Late
<1> QED
  BY <1>1, <1>2, <1>3, <1>4, <1>5, <1>6, <1>7, <1>8, <1>9, <1>10, <1>11, <1>12, <1>13,
     <1>14, <1>15, <1>16
  DEF MonitorVm

\* main switches a VM to its view, and shadows its pages, before its thread starts.
LEMMA MainGuest ==
  ASSUME TInv, SInv, GuestInv, Main
  PROVE  GuestInv'
<1> SUFFICES ASSUME NEW h \in Handler PROVE GuestOK(h)'
  BY DEF GuestInv
<1> USE DEF machine, pages, loop, Same
<1>0. /\ GuestOK(h) /\ MainOK /\ FlagsOK /\ PagesOK
      /\ mpc \in Setup => lpc[h] = "none"
      /\ faults[h] \in Nat
  BY DEF GuestInv, TInv, SInv, SetupOK, MainOK
<1>1. CASE NextName
  BY <1>0, <1>1, GuestSame DEF NextName
<1>2. CASE InitStep
  <2>1. lpc[h] = "none"
    BY <1>0, <1>2 DEF InitStep, Setup
  <2> QED BY <1>0, <1>2, <2>1, GuestSame DEF InitStep
<1>3. CASE InitFails
  BY <1>0, <1>3, GuestSame DEF InitFails
<1>4. CASE Unwind
  <2>1. lpc[h] = "none"
    BY <1>0, <1>4 DEF Unwind, Setup
  <2> QED BY <1>0, <1>4, <2>1, GuestSame DEF Unwind
<1>5. CASE SetPolicies
  <2>1. lpc[h] = "none" /\ lpc' = lpc /\ UNCHANGED loop /\ UNCHANGED machine
    BY <1>0, <1>5 DEF SetPolicies, Setup
  <2>2. k \in 1..Len(vms) /\ vms[k] \in Handler
    BY <1>0, <1>5 DEF SetPolicies, MainOK
  <2>3. CASE UNCHANGED <<pages, faults>>
    BY <1>0, <2>1, <2>3, GuestSame
  <2>4. ASSUME NEW p \in Page, Shadow(vms[k], p) PROVE GuestOK(h)'
    <3>1. CASE h = vms[k]
      BY <1>0, <2>1, <2>4, <3>1, ShadowGuest DEF Early
    <3>2. CASE h # vms[k]
      <4>1. /\ table'[h] = table[h] /\ mapped'[h] = mapped[h] /\ guarded'[h] = guarded[h]
            /\ back'[h] = back[h] /\ stray'[h] = stray[h] /\ faults'[h] = faults[h]
        BY <1>0, <2>2, <2>4, <3>2 DEF Shadow, Fault, PagesOK, MainOK
      <4> QED BY <1>0, <2>1, <4>1, GuestSame
    <3> QED BY <3>1, <3>2
  <2> QED BY <1>5, <2>3, <2>4 DEF SetPolicies
<1>6. CASE StartThreads
  <2>1. /\ lpc[h] = "none" /\ lpc'[h] \in {"none", "check"}
        /\ UNCHANGED <<pages, loop, faults>>
    BY <1>0, <1>6 DEF StartThreads, Setup
  <2> QED BY <1>0, <2>1, EarlyGuest DEF Early
<1>7. CASE Join
  BY <1>0, <1>7, GuestSame DEF Join
<1>8. CASE Release
  BY <1>0, <1>8, GuestSame DEF Release
<1> QED
  BY <1>1, <1>2, <1>3, <1>4, <1>5, <1>6, <1>7, <1>8 DEF Main

LEMMA GuestInit == Init => GuestInv
  BY DEF Init, GuestInv, GuestOK, MapsOK, GuardsOK, Early, Closing, Late, NoPage

LEMMA GuestStep == TInv /\ SInv /\ GuestInv /\ [Next]_vars => GuestInv'
<1> SUFFICES ASSUME TInv, SInv, GuestInv, [Next]_vars PROVE GuestInv'
  OBVIOUS
<1>1. CASE Main
  BY <1>1, MainGuest
<1>2. CASE Signal \/ UNCHANGED vars
  BY <1>2, GuestSame DEF Signal, vars, pages, loop, machine, Same, GuestInv
<1>3. ASSUME NEW h \in Handler, MonitorVm(h) PROVE GuestInv'
  <2> SUFFICES ASSUME NEW g \in Handler PROVE GuestOK(g)'
    BY DEF GuestInv
  <2>1. GuestOK(g)
    BY DEF GuestInv
  <2>2. CASE g = h
    BY <1>3, <2>1, <2>2, OwnGuest
  <2>3. CASE g # h
    BY <1>3, <2>1, <2>3, OtherGuests, GuestSame
  <2> QED BY <2>2, <2>3
<1> QED BY <1>1, <1>2, <1>3 DEF Next

\* What hfm_close leaves of the guest if a single call fails for its VM, the pause
\* included: its vCPUs never run on a frame that Xen has got back, and when they
\* are resumed nothing of the view is in their way.  A page that could not be
\* shadowed may have written to frame 0 of the guest, which stays; all else is
\* undone then.  The invariant needs all counts: one fault may leave the vCPUs
\* running, and then no other has left a page mapped.
THEOREM GuestsRestored == Spec => []GuestRestored
<1>1. TInv /\ GuestInv => GuestRestored
  <2> SUFFICES ASSUME TInv, GuestInv, NEW h \in Handler, faults[h] <= 1
      PROVE  /\ running[h] /\ inView[h] => mapped[h] \cap back[h] = {}
             /\ lpc[h] \in {"vmi", "handler", "ended"} =>
                  IF stray[h] = {} THEN inView[h] => mapped[h] = {} /\ guarded[h] = {}
                  ELSE running[h] /\ ~inView[h]
    BY DEF GuestRestored
  <2>1. /\ GuestOK(h) /\ lpc[h] \in Label /\ faults[h] \in {0, 1}
    BY DEF GuestInv, TInv, MainOK
  <2>2. lpc[h] \in Late /\ inView[h] => mapped[h] = {} /\ guarded[h] = {}
    BY <2>1 DEF GuestOK
  <2>3. lpc[h] \in Early \cup {"out", "guards"} => back[h] = {}
    BY <2>1 DEF GuestOK
  <2>4. lpc[h] \in {"pages", "traps", "switch"} /\ running[h] => mapped[h] \cap back[h] = {}
    <3>1. lpc[h] \in {"pages", "traps", "switch"} /\ running[h] => MapsOK(h)
      BY <2>1 DEF GuestOK, Closing
    <3> QED BY <3>1 DEF MapsOK
  <2>5. lpc[h] \in Early \cup {"out", "guards"} \cup {"pages", "traps", "switch"} \cup Late
    BY <2>1, Labels DEF Early, Late
  <2>6. /\ stray[h] # {} /\ lpc[h] \in {"vmi", "handler", "ended"} => running[h]
        /\ stray[h] # {} /\ lpc[h] \in Late => ~inView[h]
    BY <2>1 DEF GuestOK
  <2>7. lpc[h] \in {"vmi", "handler", "ended"} => lpc[h] \in Late
    BY DEF Late
  <2> QED BY <2>2, <2>3, <2>4, <2>5, <2>6, <2>7
<1> QED
  BY InitType, TypeStep, SharedInit, SharedStep, GuestInit, GuestStep, <1>1, PTL DEF Spec
=============================================================================
