-------------------------- MODULE AltpTraps_safety --------------------------
(***************************************************************************)
(* Safety of AltpTraps: the views, that is which of the two maps of memory *)
(* a vCPU runs on and what it may find there; the shadow pages, that no    *)
(* breakpoint on one outlives its traps and that the guest cannot see one; *)
(* the refinement of GuestCpu; and the lists of traps with the calls they  *)
(* report.  Nothing is assumed of the calls of the hypervisor, which may   *)
(* all fail, but where a theorem says so; what is assumed of the guest is  *)
(* stated in each theorem.                                                 *)
(***************************************************************************)
EXTENDS AltpTraps_proofs

-----------------------------------------------------------------------------
(* A guest that plants no breakpoints while it is monitored.                 *)

\* A trap over a breakpoint of the guest's own is known to be one.
BreakpointKnown ==
  \A p \in Pa : traps[p] # <<>> /\ orig[p] = Int3 => doubletrap[p]

\* What _int3_cb remembered of it when it started is still right.
ReinjectKnown == hcpu \in Vcpu /\ orig[at[hcpu]] = Int3 => hreinject

\* INT3 and memory events come from the shadow view, a step event from a
\* single-stepped vCPU, a memory event from an instruction outside the code of
\* interest.
EventSource ==
  \A v \in Vcpu : /\ evt[v] \in Frame \cup {"int3"} => view[v] = "shadow"
                  /\ evt[v] = "step" => step[v]
                  /\ evt[v] \in Frame => at[v] \in {"user", "body"}

\* The one instruction that a vCPU may execute in the origin view is no INT3.
OriginSafe ==
  \A v \in Vcpu : view[v] = "origin" /\ evt[v] = "none" /\ at[v] \in Pa
                  => orig[at[v]] # Int3

VInv == BreakpointKnown /\ ReinjectKnown /\ EventSource /\ OriginSafe /\ ViewDiscipline

LEMMA InitVInv == Init => VInv
<1> SUFFICES ASSUME Init PROVE VInv
  OBVIOUS
<1>1. /\ view = [v \in Vcpu |-> "shadow"] /\ step = [v \in Vcpu |-> FALSE]
      /\ evt = [v \in Vcpu |-> "none"] /\ traps = [p \in Pa |-> <<>>] /\ hcpu = NULL
  BY DEF Init
<1>2. NULL \notin Vcpu /\ "none" \notin Frame \cup {"int3"}
  BY ConstantsAssumption, LabelsAssumption
<1>3. BreakpointKnown /\ ReinjectKnown
  BY <1>1, <1>2 DEF BreakpointKnown, ReinjectKnown
<1>4. EventSource /\ OriginSafe /\ ViewDiscipline
  BY <1>1, <1>2 DEF EventSource, OriginSafe, ViewDiscipline
<1> QED BY <1>3, <1>4 DEF VInv

\* A step of vCPU v's guest keeps VInv if it puts INT3 nowhere and leaves v in
\* order: the other vCPUs, the one being served included, are not concerned.
LEMMA GuestVFrame ==
  ASSUME TInv, VInv, NEW v \in Vcpu, evt[v] = "none",
         UNCHANGED <<view, step, traps, doubletrap, hcpu, hreinject>>,
         \A p \in Pa : orig'[p] = Int3 => orig[p] = Int3,
         \A u \in Vcpu \ {v} : at'[u] = at[u] /\ evt'[u] = evt[u],
         evt'[v] \in Frame \cup {"int3"} => view[v] = "shadow",
         evt'[v] = "step" => step[v],
         evt'[v] \in Frame => at'[v] \in {"user", "body"},
         evt'[v] = "none" => view[v] = "shadow"
  PROVE  VInv'
<1>1. BreakpointKnown'
  BY DEF VInv, BreakpointKnown
<1>2. hcpu \in Vcpu => hcpu # v /\ at[hcpu] \in Pa
  BY DEF TInv, HandlerOK, Suspended
<1>3. ReinjectKnown'
  BY <1>2 DEF VInv, ReinjectKnown
<1>4. EventSource'
  BY DEF VInv, EventSource
<1>5. OriginSafe'
  <2> SUFFICES ASSUME NEW u \in Vcpu, view[u] = "origin", evt'[u] = "none", at'[u] \in Pa
               PROVE  orig'[at'[u]] # Int3
    BY DEF OriginSafe
  <2>1. u # v
    OBVIOUS
  <2> QED BY <2>1 DEF VInv, OriginSafe
<1>6. ViewDiscipline'
  BY DEF VInv, ViewDiscipline
<1> QED BY <1>1, <1>3, <1>4, <1>5, <1>6 DEF VInv

\* The guest's own steps: an instruction that is single-stepped ends with an
\* event, and the INT3 it may fetch shows in the shadow view only.
LEMMA GuestVInv ==
  ASSUME TInv, VInv, Int3 \notin GuestWrites, NEW v \in Vcpu, Guest(v)
  PROVE  VInv'
<1> USE DEF Runs
<1>t. /\ at \in [Vcpu -> Pa \cup {"user", "body", "lost"}]
      /\ step \in [Vcpu -> BOOLEAN] /\ view \in [Vcpu -> {"shadow", "origin"}]
      /\ evt \in [Vcpu -> Frame \cup {"none", "int3", "step"}]
      /\ orig \in [Pa -> Byte]
  BY DEF TInv, TypeOK
<1>v. step[v] <=> view[v] = "origin"
  BY DEF VInv, ViewDiscipline
<1>l. Pa \cap {"user", "body", "lost"} = {} /\ Frame \cap {"none", "int3", "step"} = {}
  BY LabelsAssumption
<1>f. FrameOf \in [Pa -> Frame]
  BY ConstantsAssumption
\* What suspends v next, and when.
<1>e. ASSUME evt[v] = "none", UNCHANGED hfm, UNCHANGED orig,
             \A u \in Vcpu \ {v} : at'[u] = at[u], Retire(v)
      PROVE  VInv'
  <2>1. UNCHANGED <<view, step, traps, doubletrap, hcpu, hreinject>>
    BY <1>e DEF hfm, tables, loopVars
  <2>2. /\ \A u \in Vcpu \ {v} : evt'[u] = evt[u]
        /\ evt'[v] = IF step[v] THEN "step" ELSE "none"
    BY <1>e, <1>t DEF Retire
  <2>3. view[v] = "shadow" \/ view[v] = "origin"
    BY <1>t
  <2> QED BY <1>e, <2>1, <2>2, <2>3, <1>v, <1>l, GuestVFrame
<1>1. ASSUME NEW e \in (Pa \ RetSite) \cup {"body"}, NEW r \in RetSite, Call(v, e, r)
      PROVE  VInv'
  BY <1>1, <1>t, <1>e DEF Call, Native!Call
<1>2. CASE Fetch(v)
  <2>1. CASE Holds(v, at[v]) = Int3
    <3>1. /\ evt' = [evt EXCEPT ![v] = "int3"] /\ evt[v] = "none" /\ at[v] \in Pa
          /\ UNCHANGED <<at, orig, view, step, traps, doubletrap, hcpu, hreinject>>
      BY <1>2, <2>1 DEF Fetch, guest, hfm, tables, loopVars
    <3>2. view[v] = "shadow"
      BY <2>1, <3>1, <1>t DEF Holds, VInv, OriginSafe
    <3> QED BY <3>1, <3>2, <1>t, <1>l, GuestVFrame
  <2>2. CASE Holds(v, at[v]) # Int3
    <3> DEFINE next == IF Holds(v, at[v]) = Junk THEN "lost" ELSE After(at[v])
    <3>1. at' = [at EXCEPT ![v] = next] /\ evt[v] = "none" /\ Retire(v)
          /\ UNCHANGED hfm /\ UNCHANGED orig
      BY <1>2, <2>2 DEF Fetch
    <3> HIDE DEF next
    <3> QED BY <3>1, <1>t, <1>e
  <2> QED BY <2>1, <2>2
<1>3. CASE Return(v)
  BY <1>3, <1>t, <1>e DEF Return, Native!Return
<1>4. CASE Run(v)
  BY <1>4, <1>e DEF Run, guest
\* A data access to a guarded frame comes from the shadow view.
<1>m. ASSUME NEW p \in Pa, Blocked(v, p), evt[v] = "none", at[v] \in {"user", "body"},
             UNCHANGED hfm, UNCHANGED <<at, orig>>,
             evt' = [evt EXCEPT ![v] = FrameOf[p]]
      PROVE  VInv'
  <2>1. UNCHANGED <<view, step, traps, doubletrap, hcpu, hreinject>>
    BY <1>m DEF hfm, tables, loopVars
  <2>2. /\ evt'[v] = FrameOf[p] /\ FrameOf[p] \in Frame
        /\ \A u \in Vcpu \ {v} : evt'[u] = evt[u]
    BY <1>m, <1>t, <1>f
  <2>3. evt'[v] \notin {"none", "int3", "step"} /\ view[v] = "shadow"
    BY <1>m, <2>2, <1>l DEF Blocked
  <2> QED BY <1>m, <2>1, <2>2, <2>3, GuestVFrame
<1>5. ASSUME NEW p \in Pa, Read(v, p)
      PROVE  VInv'
  BY <1>5, <1>e, <1>m DEF Read
<1>6. ASSUME NEW p \in Pa, NEW b \in GuestWrites, Write(v, p, b)
      PROVE  VInv'
  <2>1. UNCHANGED <<at, hfm>> /\ evt[v] = "none" /\ at[v] \in {"user", "body"}
    BY <1>6 DEF Write, guest
  <2>2. CASE Blocked(v, p)
    BY <1>6, <2>1, <2>2, <1>m DEF Write
  <2>3. CASE ~Blocked(v, p)
    <3>1. Retire(v) /\ (UNCHANGED orig \/ orig' = [orig EXCEPT ![p] = b])
      BY <1>6, <2>3 DEF Write
    <3>2. \A q \in Pa : orig'[q] = Int3 => orig[q] = Int3
      BY <3>1, <1>t
    <3>3. UNCHANGED <<view, step, traps, doubletrap, hcpu, hreinject>>
      BY <2>1 DEF hfm, tables, loopVars
    <3>4. /\ \A u \in Vcpu \ {v} : evt'[u] = evt[u]
          /\ evt'[v] = IF step[v] THEN "step" ELSE "none"
      BY <3>1, <1>t DEF Retire
    <3>5. view[v] = "shadow" \/ view[v] = "origin"
      BY <1>t
    <3> QED BY <2>1, <3>2, <3>3, <3>4, <3>5, <1>v, <1>l, GuestVFrame
  <2> QED BY <2>2, <2>3
<1> QED
  BY <1>1, <1>2, <1>3, <1>4, <1>5, <1>6 DEF Guest

\* An event of vCPU v that is answered keeps VInv if what it does to v does.
LEMMA ReplyVFrame ==
  ASSUME TInv, VInv, NEW v \in Vcpu,
         UNCHANGED <<orig, traps, doubletrap>>,
         hcpu' = NULL \/ (UNCHANGED <<hcpu, hreinject>> /\ hcpu # v),
         \A u \in Vcpu \ {v} : /\ at'[u] = at[u] /\ evt'[u] = evt[u]
                              /\ view'[u] = view[u] /\ step'[u] = step[u],
         evt'[v] = "none", step'[v] <=> view'[v] = "origin",
         view'[v] = "origin" /\ at'[v] \in Pa => orig[at'[v]] # Int3
  PROVE  VInv'
<1>1. BreakpointKnown'
  BY DEF VInv, BreakpointKnown
<1>2. ReinjectKnown'
  <2>1. NULL \notin Vcpu
    BY ConstantsAssumption
  <2> QED BY <2>1 DEF VInv, ReinjectKnown
<1>3. EventSource'
  <2>1. "none" \notin Frame \cup {"int3", "step"}
    BY LabelsAssumption
  <2> SUFFICES ASSUME NEW u \in Vcpu
               PROVE  /\ evt'[u] \in Frame \cup {"int3"} => view'[u] = "shadow"
                      /\ evt'[u] = "step" => step'[u]
                      /\ evt'[u] \in Frame => at'[u] \in {"user", "body"}
    BY DEF EventSource
  <2>2. CASE u = v
    BY <2>1, <2>2
  <2>3. CASE u # v
    BY <2>3 DEF VInv, EventSource
  <2> QED BY <2>2, <2>3
<1>4. OriginSafe'
  <2> SUFFICES ASSUME NEW u \in Vcpu, view'[u] = "origin", evt'[u] = "none", at'[u] \in Pa
               PROVE  orig'[at'[u]] # Int3
    BY DEF OriginSafe
  <2>1. CASE u # v
    BY <2>1 DEF VInv, OriginSafe
  <2> QED BY <2>1
<1>5. ViewDiscipline'
  <2> SUFFICES ASSUME NEW u \in Vcpu PROVE step'[u] <=> view'[u] = "origin"
    BY DEF ViewDiscipline
  <2>1. CASE u # v
    BY <2>1 DEF VInv, ViewDiscipline
  <2> QED BY <2>1
<1> QED BY <1>1, <1>2, <1>3, <1>4, <1>5 DEF VInv

\* The events: _int3_cb without a trap, _pre_mem_cb, _post_mem_cb and
\* _singlestep_cb each toggle the step of a vCPU in the state they take it for.
LEMMA EventVInv ==
  ASSUME TInv, VInv, NEW v \in Vcpu, TakeEvent(v)
  PROVE  VInv'
<1> USE DEF guest, memory, tables, loopVars, cpus
<1>t. /\ at \in [Vcpu -> Pa \cup {"user", "body", "lost"}]
      /\ step \in [Vcpu -> BOOLEAN] /\ view \in [Vcpu -> {"shadow", "origin"}]
      /\ evt \in [Vcpu -> Frame \cup {"none", "int3", "step"}]
  BY DEF TInv, TypeOK
<1>l. Pa \cap {"user", "body", "lost"} = {} /\ Frame \cap {"none", "int3", "step"} = {}
      /\ NULL \notin Vcpu
  BY LabelsAssumption, ConstantsAssumption
<1>v. /\ step[v] <=> view[v] = "origin"
      /\ evt[v] \in Frame \cup {"int3"} => view[v] = "shadow"
      /\ evt[v] = "step" => step[v]
      /\ evt[v] \in Frame => at[v] \in {"user", "body"}
  BY DEF VInv, ViewDiscipline, EventSource
<1>h. hpc = "listen" => hcpu = NULL /\ hcpu # v
  BY <1>l DEF TInv, HandlerOK
<1>1. CASE Int3NoTrap(v)
  <2>1. /\ hpc = "listen" /\ evt[v] = "int3" /\ evt' = [evt EXCEPT ![v] = "none"]
        /\ UNCHANGED <<view, step, orig, traps, doubletrap, hcpu, hreinject>>
        /\ at' = at \/ at' = [at EXCEPT ![v] = After(at[v])]
    BY <1>1 DEF Int3NoTrap
  <2>2. \A u \in Vcpu \ {v} : at'[u] = at[u] /\ evt'[u] = evt[u]
    BY <2>1, <1>t
  <2> QED BY <2>1, <2>2, <1>t, <1>v, <1>h, ReplyVFrame
<1>2. CASE Int3Begin(v)
  <2>1. /\ hcpu' = v /\ hreinject' = doubletrap[at[v]] /\ traps[at[v]] # <<>>
        /\ evt[v] = "int3"
        /\ UNCHANGED <<at, view, step, evt, orig, traps, doubletrap>>
    BY <1>2 DEF Int3Begin
  <2>2. at[v] \in Pa
    BY <2>1 DEF TInv, Suspended
  <2>3. ReinjectKnown'
    BY <2>1, <2>2 DEF VInv, BreakpointKnown, ReinjectKnown
  <2> QED BY <2>1, <2>3
        DEF VInv, BreakpointKnown, EventSource, OriginSafe, ViewDiscipline
<1>3. CASE PreMem(v)
  <2>1. /\ evt[v] \in Frame /\ evt' = [evt EXCEPT ![v] = "none"] /\ hpc = "listen"
        /\ UNCHANGED <<at, orig, traps, doubletrap, hcpu, hreinject>>
    BY <1>3 DEF PreMem
  <2>2. at[v] \notin Pa /\ view[v] = "shadow" /\ step[v] = FALSE
    BY <2>1, <1>v, <1>l, <1>t
  <2>3. \/ UNCHANGED <<view, step>>
        \/ /\ view' = [view EXCEPT ![v] = "origin"]
           /\ step' = [step EXCEPT ![v] = ~step[v]]
    BY <1>3 DEF PreMem, ToOrigin
  <2>4. /\ \A u \in Vcpu \ {v} : /\ evt'[u] = evt[u]
                                /\ view'[u] = view[u] /\ step'[u] = step[u]
        /\ evt'[v] = "none"
    BY <2>1, <2>3, <1>t
  <2>5. step'[v] <=> view'[v] = "origin"
    BY <2>2, <2>3, <1>t
  <2> QED BY <2>1, <2>2, <2>4, <2>5, <1>h, ReplyVFrame
<1>4. ASSUME PostMem(v) \/ SingleStep(v)
      PROVE  VInv'
  <2>1. /\ evt[v] = "step" /\ evt' = [evt EXCEPT ![v] = "none"] /\ hpc = "listen"
        /\ view' = [view EXCEPT ![v] = "shadow"]
        /\ step' = [step EXCEPT ![v] = ~step[v]]
        /\ UNCHANGED <<at, orig, traps, doubletrap, hcpu, hreinject>>
    BY <1>4 DEF PostMem, SingleStep, ToShadow
  <2>2. view'[v] = "shadow" /\ step'[v] = FALSE
    BY <2>1, <1>v, <1>t
  <2>3. /\ \A u \in Vcpu \ {v} : /\ evt'[u] = evt[u]
                                /\ view'[u] = view[u] /\ step'[u] = step[u]
        /\ evt'[v] = "none"
    BY <2>1, <1>t
  <2> QED BY <2>1, <2>2, <2>3, <1>h, ReplyVFrame
<1> QED BY <1>1, <1>2, <1>3, <1>4 DEF TakeEvent

\* A step of the handling thread that touches no vCPU keeps VInv if it leaves
\* the breakpoints of the guest's own known.
LEMMA HandlerVFrame ==
  ASSUME VInv, UNCHANGED <<at, evt, view, step, orig, hcpu, hreinject>>,
         BreakpointKnown'
  PROVE  VInv'
  BY DEF VInv, ReinjectKnown, EventSource, OriginSafe, ViewDiscipline

\* _inject_trap appends to the traps of an address that has some already.
LEMMA BeginInjectVInv ==
  ASSUME TInv, VInv, NEW t \in Trap, BeginInject(t), UNCHANGED <<orig, doubletrap>>
  PROVE  BreakpointKnown'
<1>1. t.pa \in Pa /\ traps \in [Pa -> Seq(Trap)]
  BY TrapFields DEF TInv, TypeOK
<1>2. \A p \in Pa : traps'[p] # <<>> => traps[p] # <<>>
  BY <1>1 DEF BeginInject
<1> QED BY <1>2 DEF VInv, BreakpointKnown

\* The steps of the handling thread: an injection, and the loop of _int3_cb,
\* which ends with the vCPU in the origin view, past its own INT3 if it has one.
LEMMA HandlerVInv ==
  ASSUME TInv, VInv, Handler
  PROVE  VInv'
<1> USE DEF guest, memory, tables, loopVars, cpus
<1>t. /\ at \in [Vcpu -> Pa \cup {"user", "body", "lost"}]
      /\ step \in [Vcpu -> BOOLEAN] /\ view \in [Vcpu -> {"shadow", "origin"}]
      /\ evt \in [Vcpu -> Frame \cup {"none", "int3", "step"}]
      /\ traps \in [Pa -> Seq(Trap)] /\ doubletrap \in [Pa -> BOOLEAN]
  BY DEF TInv, TypeOK
<1>k. BreakpointKnown
  BY DEF VInv
<1>1. ASSUME NEW t \in SysTrap, Install(t)
      PROVE  VInv'
  <2>1. EntryTrap(t) \in Trap
    BY DEF Trap
  <2>2. UNCHANGED <<at, evt, view, step, orig, hcpu, hreinject, doubletrap>>
        /\ (BeginInject(EntryTrap(t)) \/ UNCHANGED traps)
    BY <1>1 DEF Install
  <2>3. BreakpointKnown'
    BY <2>1, <2>2, <1>k, BeginInjectVInv DEF BreakpointKnown
  <2> QED BY <2>2, <2>3, HandlerVFrame
<1>2. ASSUME Listen \/ MapShadow \/ CopyShadow \/ Protect
      PROVE  VInv'
  <2>1. UNCHANGED <<at, evt, view, step, orig, hcpu, hreinject, doubletrap, traps>>
    BY <1>2 DEF Listen, MapShadow, CopyShadow, Protect
  <2> QED BY <2>1, <1>k, HandlerVFrame DEF BreakpointKnown
<1>3. CASE Arm
  <2>1. UNCHANGED <<at, evt, view, step, orig, hcpu, hreinject>>
        /\ \/ UNCHANGED <<traps, doubletrap>>
           \/ /\ traps' = [traps EXCEPT ![inj.pa] = ListWith(inj)]
              /\ doubletrap' = [doubletrap EXCEPT ![inj.pa] = orig[inj.pa] = Int3]
    BY <1>3 DEF Arm, GuestInt3
  <2>2. BreakpointKnown'
    BY <2>1, <1>k, <1>t DEF BreakpointKnown
  <2> QED BY <2>1, <2>2, HandlerVFrame
<1>4. CASE EntryCallback
  <2>1. UNCHANGED <<at, evt, view, step, orig, hcpu, hreinject, doubletrap>>
    BY <1>4 DEF EntryCallback
  <2>2. UNCHANGED traps \/ \E r \in Trap : BeginInject(r)
    BY <1>4, EntryStep DEF ForCall
  <2>3. BreakpointKnown'
    BY <2>1, <2>2, <1>k, BeginInjectVInv DEF BreakpointKnown
  <2> QED BY <2>1, <2>3, HandlerVFrame
<1>5. CASE ReturnCallback
  <2> DEFINE p == Head(hloop).pa
             list == ListWithout(Head(hloop))
  <2>1. /\ UNCHANGED <<at, evt, view, step, orig, hcpu, hreinject>>
        /\ traps' = [traps EXCEPT ![p] = list]
        /\ \/ list # <<>> /\ UNCHANGED doubletrap
           \/ list = <<>> /\ doubletrap' = [doubletrap EXCEPT ![p] = FALSE]
    BY <1>5 DEF ReturnCallback
  <2>2. list # <<>> => traps[p] # <<>>
    BY DEF ListWithout
  <2> HIDE DEF p, list
  <2>3. BreakpointKnown'
    BY <2>1, <2>2, <1>k, <1>t DEF BreakpointKnown
  <2> QED BY <2>1, <2>3, HandlerVFrame
<1>6. CASE Int3Reply
  <2>1. /\ hpc = "traps" /\ hcpu' = NULL /\ UNCHANGED <<orig, traps, doubletrap>>
        /\ evt' = [evt EXCEPT ![hcpu] = "none"]
        /\ view' = [view EXCEPT ![hcpu] = "origin"]
        /\ step' = [step EXCEPT ![hcpu] = ~step[hcpu]]
        /\ at' = IF hreinject THEN [at EXCEPT ![hcpu] = After(at[hcpu])] ELSE at
    BY <1>6 DEF Int3Reply, ToOrigin
  <2>2. hcpu \in Vcpu /\ evt[hcpu] = "int3"
    BY <2>1, ServedVcpu
  <2>3. step[hcpu] = FALSE
    BY <2>2, <1>t DEF VInv, EventSource, ViewDiscipline
  <2>4. \A u \in Vcpu \ {hcpu} : /\ at'[u] = at[u] /\ evt'[u] = evt[u]
                                /\ view'[u] = view[u] /\ step'[u] = step[u]
    BY <2>1, <1>t
  <2>5. evt'[hcpu] = "none" /\ step'[hcpu] = TRUE /\ view'[hcpu] = "origin"
    BY <2>1, <2>2, <2>3, <1>t
  <2>6. at'[hcpu] \in Pa => orig[at'[hcpu]] # Int3
    <3>1. CASE hreinject
      BY <3>1, <2>1, <2>2, <1>t, AfterOutside
    <3>2. CASE ~hreinject
      BY <3>2, <2>1, <2>2 DEF VInv, ReinjectKnown
    <3> QED BY <3>1, <3>2
  <2> QED BY <2>1, <2>2, <2>4, <2>5, <2>6, ReplyVFrame
<1> QED
  BY <1>1, <1>2, <1>3, <1>4, <1>5, <1>6 DEF Handler

LEMMA StepVInv ==
  ASSUME Int3 \notin GuestWrites
  PROVE  TInv /\ VInv /\ [Next]_vars => VInv'
<1> SUFFICES ASSUME TInv, VInv, [Next]_vars PROVE VInv'
  OBVIOUS
<1>1. ASSUME NEW v \in Vcpu, Guest(v) PROVE VInv'
  BY <1>1, GuestVInv
<1>2. ASSUME NEW v \in Vcpu, TakeEvent(v) PROVE VInv'
  BY <1>2, EventVInv
<1>3. CASE Handler
  BY <1>3, HandlerVInv
<1>4. CASE UNCHANGED vars
  BY <1>4 DEF VInv, BreakpointKnown, ReinjectKnown, EventSource, OriginSafe,
              ViewDiscipline, vars, guest, memory, cpus, tables, loopVars
<1> QED BY <1>1, <1>2, <1>3, <1>4 DEF Next

THEOREM VInvInvariant ==
  ASSUME Int3 \notin GuestWrites
  PROVE  Spec => []VInv
<1>1. TInv /\ VInv /\ [Next]_vars => VInv'
  BY StepVInv
<1> QED BY <1>1, InitVInv, TInvInvariant, PTL DEF Spec

\* The toggles of _int3_cb, _pre_mem_cb, _post_mem_cb and _singlestep_cb keep
\* the origin view and single-stepping together on every vCPU, with any calls of
\* the hypervisor failing and any code patched, if no INT3 is patched in.
THEOREM ViewsInStep ==
  ASSUME Int3 \notin GuestWrites
  PROVE  Spec => []ViewDiscipline
<1>1. VInv => ViewDiscipline
  BY DEF VInv
<1> QED BY <1>1, VInvInvariant, PTL

\* Under the same assumption the instruction that a vCPU executes in the origin
\* view never traps, so the callbacks of a trap run once per execution.
THEOREM TrappedOnce ==
  ASSUME Int3 \notin GuestWrites
  PROVE  Spec => []TrapsOnce
<1>1. VInv => TrapsOnce
  BY DEF VInv, EventSource, TrapsOnce
<1> QED BY <1>1, VInvInvariant, PTL

-----------------------------------------------------------------------------
(* What the steps do to the pages and the traps.                             *)

\* Steps that leave the pages and the traps alone.
LEMMA QuietStep ==
  ASSUME GuestWrites = {},
         \/ \E v \in Vcpu : Guest(v) \/ TakeEvent(v)
         \/ Int3Reply \/ Listen \/ UNCHANGED vars
  PROVE  /\ UNCHANGED <<memory, remapped, traps, doubletrap, inj>>
         /\ interrupted => interrupted'
         /\ UNCHANGED hpc \/ hpc' \in {"traps", "listen", "closed"}
<1> USE DEF guest, memory, tables, loopVars, cpus
<1>1. ASSUME NEW v \in Vcpu, Guest(v)
      PROVE  UNCHANGED <<memory, remapped, traps, doubletrap, inj, interrupted, hpc>>
  <2>1. UNCHANGED <<orig, shadow, hfm>>
    BY <1>1 DEF Guest, Call, Native!Call, Fetch, Return, Native!Return, Run, Read, Write
  <2> QED BY <2>1 DEF hfm
<1>2. ASSUME NEW v \in Vcpu, TakeEvent(v)
      PROVE  /\ UNCHANGED <<memory, remapped, traps, doubletrap, inj>>
             /\ interrupted => interrupted'
             /\ UNCHANGED hpc \/ hpc' \in {"traps", "listen", "closed"}
  BY <1>2 DEF TakeEvent, Int3NoTrap, Int3Begin, PreMem, PostMem, SingleStep
<1>3. CASE Int3Reply \/ Listen
  BY <1>3 DEF Int3Reply, Listen
<1>4. CASE UNCHANGED vars
  BY <1>4 DEF vars
<1> QED BY <1>1, <1>2, <1>3, <1>4

\* A list to which a trap was added is not empty.
LEMMA ListNotEmpty ==
  ASSUME TInv, NEW t \in Trap
  PROVE  ListWith(t) # <<>>
<1>1. t.pa \in Pa /\ traps \in [Pa -> Seq(Trap)]
  BY TrapFields DEF TInv, TypeOK
<1> QED BY <1>1 DEF ListWith

\* The start of an injection: no address gets its first trap yet.
LEMMA StartStep ==
  ASSUME TInv, EntryCallback \/ \E t \in SysTrap : Install(t)
  PROVE  /\ UNCHANGED <<memory, remapped, doubletrap, interrupted>>
         /\ \A p \in Pa : traps'[p] = <<>> <=> traps[p] = <<>>
         /\ \/ UNCHANGED <<inj, hpc>>
            \/ /\ inj' \in Trap
               /\ hpc' = IF FrameOf[inj'.pa] \in remapped THEN "protect" ELSE "map"
<1> USE DEF memory
<1>1. ASSUME NEW t \in Trap, BeginInject(t) \/ UNCHANGED <<inj, hpc, traps>>
      PROVE  /\ \A p \in Pa : traps'[p] = <<>> <=> traps[p] = <<>>
             /\ \/ UNCHANGED <<inj, hpc>>
                \/ /\ inj' \in Trap
                   /\ hpc' = IF FrameOf[inj'.pa] \in remapped THEN "protect" ELSE "map"
  <2>1. t.pa \in Pa /\ traps \in [Pa -> Seq(Trap)]
    BY TrapFields DEF TInv, TypeOK
  <2>2. ListWith(t) # <<>>
    BY ListNotEmpty
  <2> QED BY <1>1, <2>1, <2>2 DEF BeginInject
<1>2. ASSUME NEW t \in SysTrap, Install(t)
      PROVE  /\ UNCHANGED <<memory, remapped, doubletrap, interrupted>>
             /\ EntryTrap(t) \in Trap
             /\ BeginInject(EntryTrap(t)) \/ UNCHANGED <<inj, hpc, traps>>
  BY <1>2 DEF Install, Trap, loopVars
<1>3. CASE EntryCallback
  <2>1. UNCHANGED <<memory, remapped, doubletrap, interrupted>>
    BY <1>3 DEF EntryCallback
  <2>2. UNCHANGED <<inj, hpc, traps>> \/ \E r \in Trap : BeginInject(r)
    BY <1>3, EntryStep DEF ForCall
  <2>3. CASE UNCHANGED <<inj, hpc, traps>>
    BY <2>1, <2>3
  <2> QED BY <2>1, <2>2, <2>3, <1>1
<1> QED BY <1>1, <1>2, <1>3

-----------------------------------------------------------------------------
(* Breakpoints and traps, whichever calls of the hypervisor fail.            *)

\* An INT3 that HFM wrote is on a page with a remapped_t and has a trap, unless
\* one could not be taken away.
Answered ==
  \A p \in Pa : shadow[p] = Int3 /\ orig[p] # Int3
                => FrameOf[p] \in remapped /\ (traps[p] # <<>> \/ interrupted)

LEMMA InitAnswered == Init => Answered /\ DoubletrapAccurate
<1>1. Junk # Int3
  BY ConstantsAssumption
<1> QED BY <1>1 DEF Init, Answered, DoubletrapAccurate

LEMMA StepAnswered ==
  ASSUME GuestWrites = {}
  PROVE  TInv /\ Answered /\ DoubletrapAccurate /\ [Next]_vars
         => Answered' /\ DoubletrapAccurate'
<1> SUFFICES ASSUME TInv, Answered, DoubletrapAccurate, [Next]_vars
             PROVE  Answered' /\ DoubletrapAccurate'
  OBVIOUS
<1> USE DEF memory, loopVars, Answered, DoubletrapAccurate
<1>t. /\ orig \in [Pa -> Byte] /\ shadow \in [Pa -> Byte \cup {Junk}]
      /\ traps \in [Pa -> Seq(Trap)] /\ doubletrap \in [Pa -> BOOLEAN]
  BY DEF TInv, TypeOK
<1>j. Junk # Int3
  BY ConstantsAssumption
<1>i. hpc \in {"map", "copy", "protect", "arm"} => inj \in Trap /\ inj.pa \in Pa
  BY TrapFields DEF TInv, HandlerOK
<1>1. ASSUME \/ \E v \in Vcpu : Guest(v) \/ TakeEvent(v)
             \/ Int3Reply \/ Listen \/ UNCHANGED vars
      PROVE  Answered' /\ DoubletrapAccurate'
  BY <1>1, QuietStep
<1>2. ASSUME EntryCallback \/ \E t \in SysTrap : Install(t)
      PROVE  Answered' /\ DoubletrapAccurate'
  BY <1>2, StartStep
<1>3. CASE MapShadow
  BY <1>3, <1>t, <1>j DEF MapShadow, tables
<1>4. CASE CopyShadow
  BY <1>4, <1>t DEF CopyShadow
<1>5. CASE Protect
  BY <1>5 DEF Protect
<1>6. CASE Arm
  <2>1. inj \in Trap /\ inj.pa \in Pa
    BY <1>6, <1>i DEF Arm
  <2>2. ListWith(inj) # <<>>
    BY <2>1, ListNotEmpty
  <2> QED BY <1>6, <2>1, <2>2, <1>t DEF Arm, GuestInt3
<1>7. CASE ReturnCallback
  <2> DEFINE p == Head(hloop).pa
             list == ListWithout(Head(hloop))
  <2>1. /\ UNCHANGED <<orig, remapped>>
        /\ traps' = [traps EXCEPT ![p] = list]
        /\ \/ list # <<>> /\ UNCHANGED <<shadow, doubletrap, interrupted>>
           \/ /\ list = <<>>
              /\ doubletrap' = [doubletrap EXCEPT ![p] = FALSE]
              /\ IF FrameOf[p] \in remapped
                 THEN \/ /\ shadow' = [shadow EXCEPT ![p] = orig[p]]
                         /\ UNCHANGED interrupted
                      \/ /\ interrupted' = TRUE
                         /\ \/ \E b \in Byte : shadow' = [shadow EXCEPT ![p] = b]
                            \/ UNCHANGED shadow
                 ELSE UNCHANGED <<shadow, interrupted>>
    BY <1>7 DEF ReturnCallback, RemoveInt3, Disarmed
  <2>2. list # <<>> => traps[p] # <<>>
    BY DEF ListWithout
  <2> HIDE DEF p, list
  <2> QED BY <2>1, <2>2, <1>t
<1> QED
  BY <1>1, <1>2, <1>3, <1>4, <1>5, <1>6, <1>7 DEF Next, Handler

\* doubletrap tells what the guest's memory holds under every registered trap,
\* however traps are added and removed and whichever calls fail.
THEOREM DoubletrapsAccurate ==
  ASSUME GuestWrites = {}
  PROVE  Spec => []DoubletrapAccurate
<1>1. TInv /\ Answered /\ DoubletrapAccurate /\ [Next]_vars
      => Answered' /\ DoubletrapAccurate'
  BY StepAnswered
<1> QED BY <1>1, InitAnswered, TInvInvariant, PTL DEF Spec

\* A breakpoint is never left in a shadow page without a trap, unless monitoring has
\* been interrupted for it: _inject_trap registers the trap in the step that writes
\* INT3, whichever step before failed, and _remove_int3 sets handler->interrupted
\* when it cannot take INT3 away with the last trap.
THEOREM NoInt3Left ==
  ASSUME GuestWrites = {}
  PROVE  Spec => []NoStrayInt3
<1>1. TInv /\ Answered /\ DoubletrapAccurate /\ [Next]_vars
      => Answered' /\ DoubletrapAccurate'
  BY StepAnswered
<1>2. Answered => NoStrayInt3
  BY DEF Answered, NoStrayInt3
<1> QED BY <1>1, <1>2, InitAnswered, TInvInvariant, PTL DEF Spec

-----------------------------------------------------------------------------
(* Breakpoints and the guest's eyes.                                         *)

\* By the time INT3 is written, the page is closed to data access.
ClosedFirst == hpc = "arm" => FrameOf[inj.pa] \in guarded

CInv == Concealed /\ ClosedFirst

LEMMA StepCInv ==
  ASSUME GuestWrites = {}, "mem_event" \notin Faults, "backup" \notin Faults
  PROVE  TInv /\ CInv /\ [Next]_vars => CInv'
<1> SUFFICES ASSUME TInv, CInv, [Next]_vars PROVE CInv'
  OBVIOUS
<1> USE DEF memory, CInv, Concealed, ClosedFirst
<1>t. /\ orig \in [Pa -> Byte] /\ shadow \in [Pa -> Byte \cup {Junk}]
      /\ traps \in [Pa -> Seq(Trap)]
  BY DEF TInv, TypeOK
<1>j. Junk # Int3
  BY ConstantsAssumption
<1>i. hpc \in {"map", "copy", "protect", "arm"} => inj \in Trap /\ inj.pa \in Pa
  BY TrapFields DEF TInv, HandlerOK
<1>1. ASSUME \/ \E v \in Vcpu : Guest(v) \/ TakeEvent(v)
             \/ Int3Reply \/ Listen \/ UNCHANGED vars
      PROVE  CInv'
  BY <1>1, QuietStep
<1>2. ASSUME EntryCallback \/ \E t \in SysTrap : Install(t)
      PROVE  CInv'
  BY <1>2, StartStep
<1>3. CASE MapShadow
  BY <1>3, <1>t, <1>j DEF MapShadow, tables
<1>4. CASE CopyShadow
  BY <1>4, <1>t DEF CopyShadow
<1>5. CASE Protect
  BY <1>5 DEF Protect, GuardedWith
<1>6. CASE Arm
  BY <1>6, <1>i, <1>t DEF Arm, EndInject
<1>7. CASE ReturnCallback
  <2>1. /\ UNCHANGED <<orig, mapped, guarded, inj>> /\ hpc' # "arm"
        /\ \/ UNCHANGED shadow
           \/ shadow' = [shadow EXCEPT ![Head(hloop).pa] = orig[Head(hloop).pa]]
    BY <1>7 DEF ReturnCallback, RemoveInt3, Disarmed
  <2> QED BY <2>1, <1>t
<1> QED
  BY <1>1, <1>2, <1>3, <1>4, <1>5, <1>6, <1>7 DEF Next, Handler

\* No read of the guest ever returns a breakpoint of HFM, if setting the memory
\* event succeeds (_inject_trap does not look) and so does the read of the byte that
\* _remove_int3 puts back.
THEOREM BreakpointsConcealed ==
  ASSUME GuestWrites = {}, "mem_event" \notin Faults, "backup" \notin Faults
  PROVE  Spec => []Concealed
<1>1. Init => CInv
  BY DEF Init, CInv, Concealed, ClosedFirst
<1>2. TInv /\ CInv /\ [Next]_vars => CInv'
  BY StepCInv
<1>3. CInv => Concealed
  BY DEF CInv
<1> QED BY <1>1, <1>2, <1>3, TInvInvariant, PTL DEF Spec

-----------------------------------------------------------------------------
(* The content of a shadow page when no call of the hypervisor fails.        *)

\* A page that has no shadow has no trap; one that is being given a shadow is
\* still without, and has it when the breakpoint is written.
ShadowFirst ==
  /\ \A p \in Pa : traps[p] # <<>> => FrameOf[p] \in remapped
  /\ hpc \in {"map", "copy"} => FrameOf[inj.pa] \notin remapped
  /\ hpc \in {"protect", "arm"} => FrameOf[inj.pa] \in remapped

FInv == ShadowFaithful /\ ShadowFirst

LEMMA StepFInv ==
  ASSUME GuestWrites = {}, Faults = {}
  PROVE  TInv /\ FInv /\ [Next]_vars => FInv'
<1> SUFFICES ASSUME TInv, FInv, [Next]_vars PROVE FInv'
  OBVIOUS
<1> USE DEF memory, FInv, ShadowFaithful, ShadowFirst
<1>t. /\ orig \in [Pa -> Byte] /\ shadow \in [Pa -> Byte \cup {Junk}]
      /\ traps \in [Pa -> Seq(Trap)]
  BY DEF TInv, TypeOK
<1>i. hpc \in {"map", "copy", "protect", "arm"} => inj \in Trap /\ inj.pa \in Pa
  BY TrapFields DEF TInv, HandlerOK
<1>1. ASSUME \/ \E v \in Vcpu : Guest(v) \/ TakeEvent(v)
             \/ Int3Reply \/ Listen \/ UNCHANGED vars
      PROVE  FInv'
  BY <1>1, QuietStep
<1>2. ASSUME EntryCallback \/ \E t \in SysTrap : Install(t)
      PROVE  FInv'
  BY <1>2, StartStep
<1>3. CASE MapShadow
  BY <1>3, <1>i, <1>t DEF MapShadow, tables
<1>4. CASE CopyShadow
  <2>1. /\ UNCHANGED <<orig, traps, inj>> /\ hpc = "copy" /\ hpc' = "protect"
        /\ remapped' = remapped \cup {FrameOf[inj.pa]}
        /\ shadow' = [p \in Pa |-> IF FrameOf[p] = FrameOf[inj.pa] THEN orig[p]
                                                                 ELSE shadow[p]]
    BY <1>4 DEF CopyShadow
  <2>2. \A p \in Pa : FrameOf[p] = FrameOf[inj.pa] => traps[p] = <<>>
    BY <2>1
  <2> QED BY <2>1, <2>2
<1>5. CASE Protect
  BY <1>5 DEF Protect
<1>6. CASE Arm
  <2> DEFINE p == inj.pa
             list == ListWith(inj)
  <2>1. p \in Pa /\ FrameOf[p] \in remapped
    BY <1>6, <1>i DEF Arm
  <2>2. list # <<>>
    <3>1. traps[p] \in Seq(Trap)
      BY <2>1, <1>t
    <3> QED BY <3>1 DEF ListWith
  <2>3. /\ UNCHANGED <<orig, remapped>> /\ hpc' \in {"setup", "traps"}
        /\ traps' = [traps EXCEPT ![p] = list]
        /\ \/ orig[p] = Int3 /\ UNCHANGED shadow
           \/ shadow' = [shadow EXCEPT ![p] = Int3]
    BY <1>6, <2>1 DEF Arm, EndInject, GuestInt3
  <2> HIDE DEF p, list
  <2>4. \A q \in Pa : FrameOf[q] \in remapped' =>
           shadow'[q] = IF traps'[q] # <<>> THEN Int3 ELSE orig'[q]
    BY <2>1, <2>2, <2>3, <1>t
  <2> QED BY <2>1, <2>3, <2>4, <1>t
<1>7. CASE ReturnCallback
  <2> DEFINE t == Head(hloop)
             p == t.pa
             list == ListWithout(t)
  <2>1. list # <<>> => traps[p] # <<>>
    BY DEF ListWithout
  <2>2. /\ UNCHANGED <<orig, remapped, inj>> /\ hpc' \in {"traps", "dead"}
        /\ traps' = [traps EXCEPT ![p] = list]
        /\ \/ list # <<>> /\ UNCHANGED shadow
           \/ list = <<>> /\ shadow' = IF FrameOf[p] \in remapped
                                       THEN [shadow EXCEPT ![p] = orig[p]]
                                       ELSE shadow
    BY <1>7 DEF ReturnCallback, RemoveInt3, Disarmed
  <2>3. p \in Pa
    <3>1. hloop # <<>> /\ hloop \in Seq(Trap)
      BY <1>7 DEF ReturnCallback, TInv, TypeOK
    <3> QED BY <3>1, TrapFields, HeadTailProperties
  <2> HIDE DEF t, p, list
  <2>4. \A q \in Pa : FrameOf[q] \in remapped' =>
           shadow'[q] = IF traps'[q] # <<>> THEN Int3 ELSE orig'[q]
    BY <2>1, <2>2, <2>3, <1>t
  <2> QED BY <2>1, <2>2, <2>3, <2>4, <1>t
<1> QED
  BY <1>1, <1>2, <1>3, <1>4, <1>5, <1>6, <1>7 DEF Next, Handler

\* When no call fails, a shadow page is the guest's page plus exactly the
\* breakpoints of the traps that are registered on it.
THEOREM ShadowsFaithful ==
  ASSUME GuestWrites = {}, Faults = {}
  PROVE  Spec => []ShadowFaithful
<1>1. Init => FInv
  BY DEF Init, FInv, ShadowFaithful, ShadowFirst
<1>2. TInv /\ FInv /\ [Next]_vars => FInv'
  BY StepFInv
<1>3. FInv => ShadowFaithful
  BY DEF FInv
<1> QED BY <1>1, <1>2, <1>3, TInvInvariant, PTL DEF Spec

\* Both at once, as TLC checks them: the pages and doubletrap, from which _int3_cb
\* and _remove_int3 take what the guest's instruction is, agree with its memory.
THEOREM FaithfulAlways ==
  ASSUME GuestWrites = {}, Faults = {}
  PROVE  Spec => []Faithful
<1>1. ShadowFaithful /\ DoubletrapAccurate => Faithful
  BY DEF Faithful
<1> QED BY <1>1, ShadowsFaithful, DoubletrapsAccurate, PTL

-----------------------------------------------------------------------------
(* The guest and what it would do without HFM, when no call fails.           *)

\* The shadow view maps the pages of the table, and one that is being filled.
MapsOK == mapped = IF hpc = "copy" THEN remapped \cup {FrameOf[inj.pa]} ELSE remapped

\* A page is filled while the VM is paused, as the pages of all hooked functions
\* have been shadowed by the time that a callback injects.
SetupOK ==
  /\ hpc \in {"map", "copy"} => paused
  /\ hcpu # NULL \/ hpc \in {"listen", "traps"} => pending = {}
  /\ \A t \in SysTrap \ pending :
       \/ FrameOf[TrapPa[t]] \in remapped
       \/ hpc \in {"map", "copy"} /\ FrameOf[inj.pa] = FrameOf[TrapPa[t]]

\* _int3_cb reinjects the guest's own breakpoints and no others.
ReinjectOK == hcpu \in Vcpu => (hreinject <=> orig[at[hcpu]] = Int3)

LEMMA StepMapsOK ==
  ASSUME Faults = {}
  PROVE  TInv /\ MapsOK /\ [Next]_vars => MapsOK'
<1> SUFFICES ASSUME TInv, MapsOK, [Next]_vars PROVE MapsOK'
  OBVIOUS
<1> USE DEF memory, tables, MapsOK
<1>1. ASSUME NEW v \in Vcpu, Guest(v) \/ TakeEvent(v)
      PROVE  MapsOK'
  <2>1. CASE Guest(v)
    BY <2>1 DEF Guest, Call, Fetch, Return, Run, Read, Write, hfm
  <2>2. CASE TakeEvent(v)
    BY <2>2 DEF TakeEvent, Int3NoTrap, Int3Begin, PreMem, PostMem, SingleStep
  <2> QED BY <1>1, <2>1, <2>2
<1>2. CASE Int3Reply \/ Listen \/ UNCHANGED vars
  BY <1>2 DEF Int3Reply, Listen, vars
<1>3. CASE EntryCallback \/ \E t \in SysTrap : Install(t)
  <2>1. hpc \in {"setup", "traps"}
    BY <1>3 DEF EntryCallback, Install
  <2> QED BY <1>3, <2>1, StartStep
<1>4. CASE MapShadow
  BY <1>4 DEF MapShadow
<1>5. CASE CopyShadow
  BY <1>5 DEF CopyShadow
<1>6. CASE Protect
  BY <1>6 DEF Protect
<1>7. CASE Arm
  BY <1>7 DEF Arm, EndInject
<1>8. CASE ReturnCallback
  BY <1>8 DEF ReturnCallback
<1> QED
  BY <1>1, <1>2, <1>3, <1>4, <1>5, <1>6, <1>7, <1>8 DEF Next, Handler

\* Every return address of interest is on a page that has a hooked function too.
SharedPages == \A r \in RetSite : \E t \in SysTrap : FrameOf[r] = FrameOf[TrapPa[t]]

LEMMA StepSetupOK ==
  ASSUME Faults = {}, SharedPages
  PROVE  TInv /\ FInv /\ SetupOK /\ [Next]_vars => SetupOK'
<1> SUFFICES ASSUME TInv, FInv, SetupOK, [Next]_vars PROVE SetupOK'
  OBVIOUS
<1> USE DEF memory, tables, loopVars, SetupOK
<1>h. hpc \in {"setup", "listen"} => hcpu = NULL
  BY DEF TInv, HandlerOK
<1>1. ASSUME NEW v \in Vcpu, Guest(v) \/ TakeEvent(v)
      PROVE  SetupOK'
  <2>1. CASE Guest(v)
    <3>1. UNCHANGED hfm
      BY <2>1 DEF Guest, Call, Fetch, Return, Run, Read, Write
    <3> QED BY <3>1 DEF hfm
  <2>2. CASE Int3Begin(v)
    BY <2>2 DEF Int3Begin
  <2>3. CASE Int3NoTrap(v) \/ PreMem(v) \/ PostMem(v) \/ SingleStep(v)
    BY <2>3 DEF Int3NoTrap, PreMem, PostMem, SingleStep
  <2> QED BY <1>1, <2>1, <2>2, <2>3 DEF TakeEvent
<1>2. CASE Int3Reply \/ Listen \/ ReturnCallback \/ UNCHANGED vars
  BY <1>2, <1>h DEF Int3Reply, Listen, ReturnCallback, vars
<1>3. ASSUME NEW t \in SysTrap, Install(t)
      PROVE  SetupOK'
  <2>1. /\ hpc = "setup" /\ pending' = pending \ {t} /\ UNCHANGED <<remapped, hcpu>>
        /\ BeginInject(EntryTrap(t)) /\ paused' = (traps[TrapPa[t]] = <<>>)
    BY <1>3 DEF Install
  <2>2. EntryTrap(t).pa = TrapPa[t] /\ TrapPa[t] \in Pa
    BY ConstantsAssumption DEF EntryTrap
  <2>3. CASE traps[TrapPa[t]] # <<>>
    <3>1. FrameOf[TrapPa[t]] \in remapped /\ hpc' = hpc
      BY <2>1, <2>2, <2>3 DEF BeginInject, FInv, ShadowFirst
    <3> QED BY <2>1, <3>1, <1>h
  <2>4. CASE traps[TrapPa[t]] = <<>>
    <3>1. /\ paused' /\ inj' = EntryTrap(t)
          /\ hpc' = IF FrameOf[TrapPa[t]] \in remapped THEN "protect" ELSE "map"
      BY <2>1, <2>2, <2>4 DEF BeginInject
    <3> QED BY <2>1, <2>2, <3>1, <1>h
  <2> QED BY <2>3, <2>4
<1>4. CASE EntryCallback
  <2>1. hpc = "traps" /\ UNCHANGED <<paused, remapped, hcpu, pending>>
    BY <1>4 DEF EntryCallback
  <2>2. UNCHANGED <<inj, hpc>> \/ \E r : r.pa = ret[hcpu] /\ BeginInject(r)
    BY <1>4, EntryStep DEF ForCall, ReturnSite
  <2>3. ret[hcpu] \in RetSite
    BY <2>1, ServedVcpu DEF TInv, TypeOK
  <2>4. FrameOf[ret[hcpu]] \in remapped
    BY <2>1, <2>3 DEF SharedPages
  <2>5. hpc' \in {"traps", "protect"}
    BY <2>1, <2>2, <2>4 DEF BeginInject
  <2> QED BY <2>1, <2>5
<1>5. CASE MapShadow
  BY <1>5 DEF MapShadow
<1>6. CASE CopyShadow
  BY <1>6 DEF CopyShadow
<1>7. CASE Protect
  BY <1>7 DEF Protect
<1>8. CASE Arm
  BY <1>8 DEF Arm, EndInject
<1> QED
  BY <1>1, <1>2, <1>3, <1>4, <1>5, <1>6, <1>7, <1>8 DEF Next, Handler

LEMMA StepReinjectOK ==
  ASSUME GuestWrites = {}
  PROVE  TInv /\ DoubletrapAccurate /\ ReinjectOK /\ [Next]_vars => ReinjectOK'
<1> SUFFICES ASSUME TInv, DoubletrapAccurate, ReinjectOK, [Next]_vars PROVE ReinjectOK'
  OBVIOUS
<1> USE DEF guest, memory, loopVars, ReinjectOK
<1>n. NULL \notin Vcpu
  BY ConstantsAssumption
\* The vCPU that is served stays where it is.
<1>s. ASSUME NEW v \in Vcpu, UNCHANGED <<orig, hcpu, hreinject>>,
             hcpu # v \/ at'[v] = at[v],
             \A u \in Vcpu \ {v} : at'[u] = at[u]
      PROVE  ReinjectOK'
  BY <1>s
<1>1. ASSUME NEW v \in Vcpu, Guest(v)
      PROVE  ReinjectOK'
  <2>1. UNCHANGED <<orig, hfm>> /\ evt[v] = "none"
    BY <1>1 DEF Guest, Call, Native!Call, Fetch, Return, Native!Return, Run, Read, Write, Runs
  <2>2. hcpu # v
    BY <2>1 DEF TInv, HandlerOK
  <2>3. \A u \in Vcpu \ {v} : at'[u] = at[u]
    BY <1>1 DEF Guest, Call, Native!Call, Fetch, Return, Native!Return, Run, Read, Write,
              TInv, TypeOK
  <2> QED BY <2>1, <2>2, <2>3, <1>s DEF hfm
<1>2. ASSUME NEW v \in Vcpu, Int3Begin(v)
      PROVE  ReinjectOK'
  <2>1. /\ evt[v] = "int3" /\ traps[at[v]] # <<>> /\ UNCHANGED <<at, orig>>
        /\ hcpu' = v /\ hreinject' = doubletrap[at[v]]
    BY <1>2 DEF Int3Begin
  <2>2. at[v] \in Pa
    BY <2>1 DEF TInv, Suspended
  <2> QED BY <2>1, <2>2 DEF DoubletrapAccurate
<1>3. ASSUME NEW v \in Vcpu, Int3NoTrap(v) \/ PreMem(v) \/ PostMem(v) \/ SingleStep(v)
      PROVE  ReinjectOK'
  <2>1. hpc = "listen" /\ UNCHANGED hcpu
    BY <1>3 DEF Int3NoTrap, PreMem, PostMem, SingleStep
  <2> QED BY <2>1, <1>n DEF TInv, HandlerOK
<1>4. CASE Int3Reply
  BY <1>4, <1>n DEF Int3Reply
<1>5. CASE \/ Listen \/ MapShadow \/ CopyShadow \/ Protect \/ Arm \/ EntryCallback
           \/ ReturnCallback \/ UNCHANGED vars \/ \E t \in SysTrap : Install(t)
  BY <1>5 DEF Listen, MapShadow, CopyShadow, Protect, Arm, EntryCallback, ReturnCallback,
              Install, vars
<1> QED
  BY <1>1, <1>2, <1>3, <1>4, <1>5 DEF Next, Handler, TakeEvent

\* All that is needed of the engine's tables and of what the vCPUs may see.
PInv == Answered /\ DoubletrapAccurate /\ CInv /\ FInv /\ MapsOK

LEMMA InitPInv == Init => PInv /\ SetupOK /\ ReinjectOK
<1> SUFFICES ASSUME Init PROVE PInv /\ SetupOK /\ ReinjectOK
  OBVIOUS
<1>1. CInv /\ FInv /\ MapsOK
  BY DEF Init, CInv, Concealed, ClosedFirst, FInv, ShadowFaithful, ShadowFirst, MapsOK
<1>2. SetupOK
  BY DEF Init, SetupOK
<1>3. ReinjectOK
  BY ConstantsAssumption DEF Init, ReinjectOK
<1> QED BY <1>1, <1>2, <1>3, InitAnswered DEF PInv

LEMMA StepPInv ==
  ASSUME GuestWrites = {}, Faults = {}
  PROVE  TInv /\ PInv /\ [Next]_vars => PInv'
  BY StepAnswered, StepCInv, StepFInv, StepMapsOK DEF PInv

\* While the vCPUs run, what one of them sees of an address is a breakpoint of HFM
\* or what the guest has there, and a breakpoint of HFM cannot be read.
LEMMA SeesOwnCode ==
  ASSUME TInv, PInv, hpc # "copy", NEW v \in Vcpu, NEW p \in Pa
  PROVE  /\ Holds(v, p) # Int3 => Holds(v, p) = orig[p]
         /\ ~Blocked(v, p) => Holds(v, p) = orig[p]
<1>1. mapped = remapped
  BY DEF PInv, MapsOK
<1>2. FrameOf[p] \in remapped => shadow[p] = IF traps[p] # <<>> THEN Int3 ELSE orig[p]
  BY DEF PInv, FInv, ShadowFaithful
<1>3. FrameOf[p] \in mapped /\ shadow[p] = Int3 /\ orig[p] # Int3 => FrameOf[p] \in guarded
  BY DEF PInv, CInv, Concealed
<1> QED BY <1>1, <1>2, <1>3 DEF Holds, Blocked

\* A step of the guest under HFM is a step that it could make without, or none.
LEMMA GuestRefines ==
  ASSUME GuestWrites = {}, TInv, PInv, SetupOK, NEW v \in Vcpu, Guest(v)
  PROVE  [Native!Next]_Native!vars
<1> USE DEF guest
<1>t. /\ at \in [Vcpu -> Pa \cup {"user", "body", "lost"}]
      /\ seen \in [Vcpu -> Byte \cup {"none", Junk}]
      /\ orig \in [Pa -> Byte] /\ Junk \notin Byte
  BY ConstantsAssumption DEF TInv, TypeOK
<1>r. hpc # "copy"
  BY DEF Guest, Call, Fetch, Return, Run, Read, Write, Runs, SetupOK
<1>1. ASSUME NEW e \in (Pa \ RetSite) \cup {"body"}, NEW r \in RetSite, Call(v, e, r)
      PROVE  Native!Next
  BY <1>1 DEF Call, Native!Next
<1>2. CASE Fetch(v)
  <2>1. CASE Holds(v, at[v]) = Int3
    BY <1>2, <2>1 DEF Fetch, Native!vars
  <2>2. CASE Holds(v, at[v]) # Int3
    <3>1. at[v] \in Pa /\ UNCHANGED <<ret, call, orig>>
      BY <1>2 DEF Fetch
    <3>2. Holds(v, at[v]) = orig[at[v]] /\ orig[at[v]] # Junk
      BY <2>2, <3>1, <1>r, <1>t, SeesOwnCode
    <3>3. /\ seen' = [seen EXCEPT ![v] = orig[at[v]]]
          /\ at' = [at EXCEPT ![v] = Native!After(at[v])]
      BY <1>2, <2>2, <3>2 DEF Fetch, After
    <3> QED BY <3>1, <3>3 DEF Native!Next, Native!Exec
  <2> QED BY <2>1, <2>2
<1>3. CASE Return(v)
  BY <1>3 DEF Return, Native!Next
<1>4. CASE Run(v)
  BY <1>4 DEF Run, Native!vars
<1>5. ASSUME NEW p \in Pa, Read(v, p)
      PROVE  [Native!Next]_Native!vars
  <2>1. CASE Blocked(v, p)
    BY <1>5, <2>1 DEF Read, Native!vars
  <2>2. CASE ~Blocked(v, p)
    <3>1. Holds(v, p) = orig[p]
      BY <2>2, <1>r, SeesOwnCode
    <3>2. Native!Read(v, p)
      BY <1>5, <2>2, <3>1 DEF Read, Native!Read
    <3> QED BY <3>2 DEF Native!Next
  <2> QED BY <2>1, <2>2
<1> QED
  BY <1>1, <1>2, <1>3, <1>4, <1>5 DEF Guest

\* A step of the engine changes nothing of the guest, or has it run an instruction.
LEMMA EngineRefines ==
  ASSUME "peek" \notin Faults, TInv, ReinjectOK, Handler \/ \E v \in Vcpu : TakeEvent(v)
  PROVE  [Native!Next]_Native!vars
<1> USE DEF guest, memory, Native!vars
<1>1. ASSUME NEW v \in Vcpu, Int3NoTrap(v)
      PROVE  [Native!Next]_Native!vars
  <2>1. evt[v] = "int3" /\ UNCHANGED <<ret, call, orig>>
    BY <1>1 DEF Int3NoTrap
  <2>2. at[v] \in Pa
    BY <2>1 DEF TInv, Suspended
  <2>3. CASE orig[at[v]] = Int3
    <3>1. /\ seen' = [seen EXCEPT ![v] = orig[at[v]]]
          /\ at' = [at EXCEPT ![v] = Native!After(at[v])]
      BY <1>1, <2>3 DEF Int3NoTrap, ReinjectUntrapped, After
    <3> QED BY <2>1, <2>2, <3>1 DEF Native!Next, Native!Exec
  <2>4. CASE orig[at[v]] # Int3
    BY <1>1, <2>1, <2>4 DEF Int3NoTrap, ReinjectUntrapped
  <2> QED BY <2>3, <2>4
<1>2. CASE Int3Reply
  <2>1. hpc = "traps" /\ UNCHANGED <<ret, call, orig>>
    BY <1>2 DEF Int3Reply
  <2>2. hcpu \in Vcpu /\ at[hcpu] \in Pa
    BY <2>1, ServedVcpu
  <2>3. CASE hreinject
    <3>1. orig[at[hcpu]] = Int3
      BY <2>2, <2>3 DEF ReinjectOK
    <3>2. /\ seen' = [seen EXCEPT ![hcpu] = orig[at[hcpu]]]
          /\ at' = [at EXCEPT ![hcpu] = Native!After(at[hcpu])]
      BY <1>2, <2>3, <3>1 DEF Int3Reply, After
    <3> QED BY <2>1, <2>2, <3>2 DEF Native!Next, Native!Exec
  <2>4. CASE ~hreinject
    BY <1>2, <2>1, <2>4 DEF Int3Reply
  <2> QED BY <2>3, <2>4
<1>3. ASSUME NEW v \in Vcpu, Int3Begin(v) \/ PreMem(v) \/ PostMem(v) \/ SingleStep(v)
      PROVE  UNCHANGED Native!vars
  BY <1>3 DEF Int3Begin, PreMem, PostMem, SingleStep
<1>4. CASE \/ Listen \/ MapShadow \/ CopyShadow \/ Protect \/ Arm \/ EntryCallback
           \/ ReturnCallback \/ \E t \in SysTrap : Install(t)
  BY <1>4 DEF Listen, MapShadow, CopyShadow, Protect, Arm, EntryCallback, ReturnCallback,
              Install
<1> QED BY <1>1, <1>2, <1>3, <1>4 DEF Handler, TakeEvent

(***************************************************************************)
(* The guest runs as if unmonitored: the engine implements GuestCpu.  This *)
(* holds if no call of the hypervisor fails, if the guest leaves its code  *)
(* alone, and if every page that a return trap is put on has been shadowed *)
(* for a hooked function before, while the VM was paused.                  *)
(***************************************************************************)
THEOREM TransparentAlways ==
  ASSUME GuestWrites = {}, Faults = {}, SharedPages
  PROVE  Spec => Transparent
<1> DEFINE Inv == TInv /\ PInv /\ SetupOK /\ ReinjectOK
<1>1. Init => Native!Init /\ Inv
  BY InitTInv, InitPInv DEF Init
<1>2. Inv /\ [Next]_vars => Inv'
  BY StepTInv, StepPInv, StepSetupOK, StepReinjectOK DEF PInv
<1>3. Inv /\ [Next]_vars => [Native!Next]_Native!vars
  <2> SUFFICES ASSUME Inv, [Next]_vars PROVE [Native!Next]_Native!vars
    OBVIOUS
  <2>1. ASSUME NEW v \in Vcpu, Guest(v) PROVE [Native!Next]_Native!vars
    BY <2>1, GuestRefines
  <2>2. CASE Handler \/ \E v \in Vcpu : TakeEvent(v)
    BY <2>2, EngineRefines
  <2>3. CASE UNCHANGED vars
    BY <2>3 DEF vars, guest, memory, Native!vars
  <2> QED BY <2>1, <2>2, <2>3 DEF Next
<1> HIDE DEF Inv
<1> QED BY <1>1, <1>2, <1>3, PTL DEF Spec, Transparent, Native!Spec

\* Nobody slips past a trap at a hooked entry: its breakpoint is in the shadow
\* page as long as the trap is registered, and a vCPU is in the origin view for
\* the one instruction that _int3_cb lets it execute.
THEOREM NoCallMissed ==
  ASSUME GuestWrites = {}, Faults = {}
  PROVE  Spec => NoMissedCall
<1> DEFINE Inv == TInv /\ VInv /\ PInv
           Slips(v) == at[v] \in Entry /\ at'[v] # at[v] /\ traps[at[v]] # <<>>
           Granted(v) == (view[v] = "origin" /\ step[v]) \/ (hcpu = v /\ hpc = "traps")
<1>1. Init => Inv
  BY InitTInv, InitVInv, InitPInv
<1>2. Inv /\ [Next]_vars => Inv'
  BY StepTInv, StepVInv, StepPInv
<1>3. Inv /\ Next => \A v \in Vcpu : Slips(v) => Granted(v)
  <2> SUFFICES ASSUME Inv, Next, NEW v \in Vcpu, Slips(v) PROVE Granted(v)
    OBVIOUS
  <2>1. at \in [Vcpu -> Pa \cup {"user", "body", "lost"}] /\ at[v] \in Pa
        /\ view \in [Vcpu -> {"shadow", "origin"}]
    BY ConstantsAssumption DEF Entry, TInv, TypeOK
  <2>2. at[v] \notin {"user", "body"}
    BY <2>1, LabelsAssumption
  <2>3. ASSUME NEW u \in Vcpu, Guest(u)
        PROVE  Granted(v)
    <3>1. CASE Fetch(u)
      <4>1. u = v /\ Holds(v, at[v]) # Int3
        BY <3>1, <2>1 DEF Fetch, guest
      <4>2. FrameOf[at[v]] \in remapped /\ shadow[at[v]] = Int3
        BY <2>1 DEF PInv, FInv, ShadowFaithful, ShadowFirst
      <4>3. view[v] = "origin"
        BY <4>1, <4>2, <2>1 DEF Holds, PInv, MapsOK
      <4> QED BY <4>3 DEF VInv, ViewDiscipline
    <3>2. CASE ~Fetch(u)
      BY <2>3, <3>2, <2>1, <2>2
         DEF Guest, Call, Native!Call, Return, Native!Return, Run, Read, Write, guest
    <3> QED BY <3>1, <3>2
  <2>4. ASSUME NEW u \in Vcpu, TakeEvent(u)
        PROVE  Granted(v)
    BY <2>4, <2>1 DEF TakeEvent, Int3NoTrap, Int3Begin, PreMem, PostMem, SingleStep, guest
  <2>5. CASE Handler
    <3>1. CASE Int3Reply
      BY <3>1, <2>1 DEF Int3Reply
    <3>2. CASE ~Int3Reply
      BY <2>5, <3>2 DEF Handler, Listen, MapShadow, CopyShadow, Protect, Arm, EntryCallback,
                        ReturnCallback, Install, guest
    <3> QED BY <3>1, <3>2
  <2> QED BY <2>3, <2>4, <2>5 DEF Next
<1>4. Inv /\ [Next]_vars
      => [\A v \in Vcpu :
            (at[v] \in Entry /\ at'[v] # at[v] /\ traps[at[v]] # <<>>)
              => \/ view[v] = "origin" /\ step[v]
                 \/ hcpu = v /\ hpc = "traps"]_vars
  BY <1>3
<1> HIDE DEF Inv
<1> QED BY <1>1, <1>2, <1>4, PTL DEF Spec, NoMissedCall

-----------------------------------------------------------------------------
(* Lists of traps.                                                           *)

\* A list without its first element.
LEMMA TailList ==
  ASSUME NEW s \in Seq(Trap), s # <<>>, IsInjective(s)
  PROVE  IsInjective(Tail(s)) /\ ToSet(Tail(s)) = ToSet(s) \ {Head(s)}
         /\ Head(s) \in ToSet(s)
<1> USE DEF ToSet, IsInjective
<1>1. /\ Tail(s) \in Seq(Trap) /\ Len(Tail(s)) = Len(s) - 1 /\ Len(s) \in Nat \ {0}
      /\ \A i \in 1..Len(Tail(s)) : Tail(s)[i] = s[i + 1]
      /\ Head(s) = s[1]
  BY HeadTailProperties
<1>2. DOMAIN s = 1..Len(s) /\ DOMAIN Tail(s) = 1..(Len(s) - 1)
  BY <1>1
<1>3. IsInjective(Tail(s))
  BY <1>1, <1>2
<1>4. ASSUME NEW i \in DOMAIN s, s[i] # Head(s)
      PROVE  s[i] \in ToSet(Tail(s))
  <2>1. i # 1 /\ i - 1 \in DOMAIN Tail(s)
    BY <1>1, <1>2, <1>4
  <2>2. Tail(s)[i - 1] = s[i]
    BY <1>1, <1>2, <2>1
  <2> QED BY <2>1, <2>2
<1>5. ASSUME NEW i \in DOMAIN Tail(s)
      PROVE  Tail(s)[i] \in ToSet(s) \ {Head(s)}
  <2>1. i + 1 \in DOMAIN s /\ i + 1 # 1 /\ 1 \in DOMAIN s /\ Tail(s)[i] = s[i + 1]
    BY <1>1, <1>2
  <2> QED BY <1>1, <2>1
<1>6. Head(s) \in ToSet(s)
  BY <1>1, <1>2
<1> QED BY <1>3, <1>4, <1>5, <1>6

\* A list with one more element.
LEMMA AppendSet ==
  ASSUME NEW s \in Seq(Trap), NEW t \in Trap
  PROVE  ToSet(Append(s, t)) = ToSet(s) \cup {t}
<1> DEFINE a == Append(s, t)
<1>1. /\ DOMAIN s = 1..Len(s) /\ DOMAIN a = 1..(Len(s) + 1) /\ Len(s) \in Nat
      /\ \A i \in 1..Len(s) : a[i] = s[i]
      /\ a[Len(s) + 1] = t
  BY AppendProperties
<1> HIDE DEF a
<1>2. \A i \in DOMAIN a : i \in DOMAIN s \/ i = Len(s) + 1
  BY <1>1
<1>3. ToSet(a) = ToSet(s) \cup {t}
  BY <1>1, <1>2 DEF ToSet
<1> QED BY <1>3 DEF a

LEMMA AppendList ==
  ASSUME NEW s \in Seq(Trap), IsInjective(s), NEW t \in Trap, t \notin ToSet(s)
  PROVE  IsInjective(Append(s, t)) /\ ToSet(Append(s, t)) = ToSet(s) \cup {t}
<1> DEFINE a == Append(s, t)
<1>1. /\ DOMAIN s = 1..Len(s) /\ DOMAIN a = 1..(Len(s) + 1) /\ Len(s) \in Nat
      /\ \A i \in 1..Len(s) : a[i] = s[i]
      /\ a[Len(s) + 1] = t
  BY AppendProperties
<1> HIDE DEF a
<1>2. \A i \in DOMAIN a : i \in DOMAIN s \/ i = Len(s) + 1
  BY <1>1
<1>3. IsInjective(a)
  BY <1>1, <1>2 DEF IsInjective, ToSet
<1> QED BY <1>3, AppendSet DEF a

\* A list without one of its elements.
LEMMA RemoveList ==
  ASSUME NEW s \in Seq(Trap), IsInjective(s), NEW i \in DOMAIN s
  PROVE  IsInjective(RemoveAt(s, i)) /\ ToSet(RemoveAt(s, i)) = ToSet(s) \ {s[i]}
<1> DEFINE a == SubSeq(s, 1, i - 1)
           b == SubSeq(s, i + 1, Len(s))
           r == RemoveAt(s, i)
<1>1. Len(s) \in Nat /\ DOMAIN s = 1..Len(s) /\ i \in 1..Len(s)
  OBVIOUS
<1>2. /\ a \in Seq(Trap) /\ Len(a) = i - 1
      /\ \A j \in 1..(i - 1) : a[j] = s[j]
  <2>1. \A j \in 1..(i - 1) : s[j] \in Trap
    BY <1>1
  <2> QED BY <1>1, <2>1, SubSeqProperties, Z3
<1>3. /\ b \in Seq(Trap) /\ Len(b) = Len(s) - i
      /\ \A j \in 1..(Len(s) - i) : b[j] = s[i + j]
  <2>1. \A j \in (i + 1)..Len(s) : s[j] \in Trap
    BY <1>1
  <2>2. /\ b \in Seq(Trap) /\ Len(b) = IF i + 1 <= Len(s) THEN Len(s) - (i + 1) + 1 ELSE 0
        /\ \A j \in 1..(Len(s) - (i + 1) + 1) : b[j] = s[i + 1 + j - 1]
    BY <1>1, <2>1, SubSeqProperties, Z3
  <2> HIDE DEF b
  <2>3. Len(b) = Len(s) - i
    BY <1>1, <2>2
  <2>4. ASSUME NEW j \in 1..(Len(s) - i) PROVE b[j] = s[i + j]
    <3>1. j \in 1..(Len(s) - (i + 1) + 1) /\ i + 1 + j - 1 = i + j
      BY <1>1
    <3>2. b[j] = s[i + 1 + j - 1]
      BY <2>2, <3>1, Zenon
    <3> QED BY <3>1, <3>2, Zenon
  <2> QED BY <2>2, <2>3, <2>4
<1> HIDE DEF a, b
<1>4. /\ Len(r) = Len(s) - 1 /\ DOMAIN r = 1..(Len(s) - 1)
      /\ \A j \in DOMAIN r : r[j] = IF j < i THEN s[j] ELSE s[j + 1]
  <2>1. r = a \o b
    BY DEF RemoveAt, a, b
  <2> HIDE DEF r
  <2>2. /\ r \in Seq(Trap) /\ Len(r) = Len(a) + Len(b)
        /\ \A j \in 1..(Len(a) + Len(b)) :
             r[j] = IF j <= Len(a) THEN a[j] ELSE b[j - Len(a)]
    <3>1. /\ a \o b \in Seq(Trap) /\ Len(a \o b) = Len(a) + Len(b)
          /\ \A j \in 1..(Len(a) + Len(b)) :
               (a \o b)[j] = IF j <= Len(a) THEN a[j] ELSE b[j - Len(a)]
      BY <1>2, <1>3, ConcatProperties
    <3> QED BY <2>1, <3>1, Zenon
  <2>3. Len(r) = Len(s) - 1 /\ DOMAIN r = 1..(Len(s) - 1)
    BY <1>1, <1>2, <1>3, <2>2
  <2>4. ASSUME NEW j \in DOMAIN r, ~(j < i)
        PROVE  r[j] = s[j + 1]
    <3>1. j - Len(a) = j - i + 1 /\ ~(j <= Len(a)) /\ j \in 1..(Len(a) + Len(b))
      BY <1>1, <1>2, <1>3, <2>3, <2>4
    <3>2. j - i + 1 \in 1..(Len(s) - i) /\ i + (j - i + 1) = j + 1
      BY <1>1, <2>3, <2>4
    <3> QED BY <1>3, <2>2, <3>1, <3>2
  <2>5. ASSUME NEW j \in DOMAIN r, j < i
        PROVE  r[j] = s[j]
    BY <1>1, <1>2, <1>3, <2>2, <2>3, <2>5
  <2> QED BY <2>3, <2>4, <2>5
<1> HIDE DEF r
<1>5. \A j \in DOMAIN s : j # i => \E k \in DOMAIN r : r[k] = s[j]
  <2> TAKE j \in DOMAIN s
  <2>1. CASE j < i
    BY <1>1, <1>4, <2>1
  <2>2. CASE j > i
    <3>1. j - 1 \in DOMAIN r /\ r[j - 1] = s[j]
      BY <1>1, <1>4, <2>2
    <3> QED BY <3>1
  <2> QED BY <1>1, <2>1, <2>2
<1>6. \A j \in DOMAIN r : \E k \in DOMAIN s : k # i /\ r[j] = s[k]
  <2> TAKE j \in DOMAIN r
  <2>1. CASE j < i
    BY <1>1, <1>4, <2>1
  <2>2. CASE ~(j < i)
    <3>1. j + 1 \in DOMAIN s /\ j + 1 # i /\ r[j] = s[j + 1]
      BY <1>1, <1>4, <2>2
    <3> QED BY <3>1
  <2> QED BY <2>1, <2>2
<1>7. IsInjective(r)
  BY <1>1, <1>4 DEF IsInjective
<1>8. ToSet(r) = ToSet(s) \ {s[i]}
  BY <1>5, <1>6 DEF ToSet, IsInjective
<1> QED BY <1>7, <1>8 DEF r

-----------------------------------------------------------------------------
(* The traps in play: where each is, and that it is there once.              *)

InPlay == (Registered \cup {inj}) \cap Trap

\* A list of breakpoint_tbl has its own traps, and each of them once.
ListsOK ==
  \A p \in Pa : /\ IsInjective(traps[p])
               /\ \A t \in ToSet(traps[p]) : t.pa = p

\* A trap that is being injected is in no list yet.
PlaceOK ==
  /\ hpc \in {"setup", "listen", "traps"} => inj = NULL
  /\ inj \in Trap => inj \notin Registered

\* What _int3_cb has still to look at is in the list of the address.
LoopOK ==
  /\ IsInjective(hloop)
  /\ hcpu = NULL => hloop = <<>>
  /\ hcpu \in Vcpu => ToSet(hloop) \subseteq ToSet(traps[at[hcpu]])

LEMMA RegisteredIs ==
  ASSUME TInv, ListsOK
  PROVE  /\ Registered \subseteq Trap
         /\ \A t \in Trap : t \in Registered <=> t \in ToSet(traps[t.pa])
<1>1. \A p \in Pa : traps[p] \in Seq(Trap) /\ ToSet(traps[p]) \subseteq Trap
  BY DEF TInv, TypeOK, ToSet
<1>2. Registered = UNION {ToSet(traps[p]) : p \in Pa}
  BY DEF Registered, ToSet
<1>3. Registered \subseteq Trap
  BY <1>1, <1>2
<1>4. ASSUME NEW t \in Trap PROVE t \in Registered <=> t \in ToSet(traps[t.pa])
  <2>1. t.pa \in Pa
    BY TrapFields
  <2> QED BY <1>2, <2>1 DEF ListsOK
<1> QED BY <1>3, <1>4

\* A trap joins the others at its address.
LEMMA TrapAdded ==
  ASSUME TInv, ListsOK, NEW t \in Trap, t \notin Registered,
         traps' = [traps EXCEPT ![t.pa] = ListWith(t)]
  PROVE  /\ ListsOK' /\ Registered' = Registered \cup {t}
         /\ \A p \in Pa : ToSet(traps[p]) \subseteq ToSet(traps'[p])
<1>1. t.pa \in Pa /\ traps \in [Pa -> Seq(Trap)]
  BY TrapFields DEF TInv, TypeOK
<1>2. t \notin ToSet(traps[t.pa]) /\ IsInjective(traps[t.pa])
  BY <1>1, RegisteredIs DEF ListsOK
<1>3. /\ IsInjective(ListWith(t))
      /\ ToSet(ListWith(t)) = ToSet(traps[t.pa]) \cup {t}
  BY <1>1, <1>2, AppendList DEF ListWith
<1>4. /\ traps'[t.pa] = ListWith(t)
      /\ \A p \in Pa \ {t.pa} : traps'[p] = traps[p]
  BY <1>1
<1>5. ListsOK'
  BY <1>3, <1>4 DEF ListsOK
<1>6. /\ ToSet(traps'[t.pa]) = ToSet(traps[t.pa]) \cup {t}
      /\ \A p \in Pa \ {t.pa} : ToSet(traps'[p]) = ToSet(traps[p])
  BY <1>3, <1>4
<1>7. /\ Registered = UNION {ToSet(traps[p]) : p \in Pa}
      /\ Registered' = UNION {ToSet(traps'[p]) : p \in Pa}
  BY DEF Registered, ToSet
<1>8. \A p \in Pa : ToSet(traps[p]) \subseteq ToSet(traps'[p])
  BY <1>6
<1>9. Registered' \subseteq Registered \cup {t}
  BY <1>6, <1>7
<1>10. Registered \cup {t} \subseteq Registered'
  BY <1>1, <1>6, <1>7, <1>8
<1> QED BY <1>5, <1>8, <1>9, <1>10

\* A trap leaves the others at its address.
LEMMA TrapRemoved ==
  ASSUME TInv, ListsOK, NEW t \in Registered,
         traps' = [traps EXCEPT ![t.pa] = ListWithout(t)]
  PROVE  /\ ListsOK' /\ Registered' = Registered \ {t}
         /\ \A p \in Pa : ToSet(traps'[p]) = ToSet(traps[p]) \ {t}
<1>1. t \in Trap /\ t.pa \in Pa /\ traps \in [Pa -> Seq(Trap)]
  BY RegisteredIs, TrapFields DEF TInv, TypeOK
<1>2. t \in ToSet(traps[t.pa]) /\ IsInjective(traps[t.pa])
  BY <1>1, RegisteredIs DEF ListsOK
<1>3. /\ IsInjective(ListWithout(t))
      /\ ToSet(ListWithout(t)) = ToSet(traps[t.pa]) \ {t}
  <2> DEFINE list == traps[t.pa]
             i == CHOOSE j \in DOMAIN list : list[j] = t
  <2>1. i \in DOMAIN list /\ list[i] = t /\ \E j \in DOMAIN list : list[j] = t
    BY <1>2 DEF ToSet
  <2>2. ListWithout(t) = RemoveAt(list, i)
    BY <2>1 DEF ListWithout
  <2>3. list \in Seq(Trap)
    BY <1>1
  <2> HIDE DEF i
  <2> QED BY <2>1, <2>2, <2>3, <1>2, RemoveList
<1>4. /\ traps'[t.pa] = ListWithout(t)
      /\ \A p \in Pa \ {t.pa} : traps'[p] = traps[p]
  BY <1>1
<1>5. ListsOK'
  BY <1>3, <1>4 DEF ListsOK
<1>6. \A p \in Pa : ToSet(traps'[p]) = ToSet(traps[p]) \ {t}
  BY <1>3, <1>4 DEF ListsOK
<1>7. /\ Registered = UNION {ToSet(traps[p]) : p \in Pa}
      /\ Registered' = UNION {ToSet(traps'[p]) : p \in Pa}
  BY DEF Registered, ToSet
<1>8. Registered' = Registered \ {t}
  BY <1>6, <1>7
<1> QED BY <1>5, <1>6, <1>8

\* A trap that waits to be installed is not there yet.
PendingOK == \A t \in pending : EntryTrap(t) \notin InPlay

\* The return traps in play were made for calls that matched and that are not
\* reported yet.
PastOK ==
  /\ InPlay \cap RetTrap \subseteq matched
  /\ Reported \subseteq matched
  /\ Reported \cap InPlay = {}

\* Everything about the traps in play.
PlayInv == ListsOK /\ PlaceOK /\ LoopOK /\ PendingOK /\ PastOK

LEMMA InitPlayInv == Init => PlayInv
<1> SUFFICES ASSUME Init PROVE PlayInv
  OBVIOUS
<1>1. /\ \A p \in Pa : traps[p] = <<>>
      /\ inj = NULL /\ hloop = <<>> /\ hcpu = NULL /\ fired = {} /\ matched = {}
  BY DEF Init
<1>2. NULL \notin Trap /\ NULL \notin Vcpu
  BY ConstantsAssumption
<1>3. Registered = {} /\ InPlay = {} /\ Reported = {}
  BY <1>1, <1>2 DEF Registered, InPlay, Reported
<1>4. ListsOK /\ LoopOK
  BY <1>1, <1>2 DEF ListsOK, LoopOK, IsInjective, ToSet
<1>5. PlaceOK /\ PendingOK /\ PastOK
  BY <1>1, <1>2, <1>3 DEF PlaceOK, PendingOK, PastOK
<1> QED BY <1>4, <1>5 DEF PlayInv

\* The steps that concern no trap.
LEMMA PlayFrame ==
  ASSUME PlayInv, UNCHANGED <<traps, inj, pending, matched, fired, hloop, hcpu>>,
         hcpu \in Vcpu => at'[hcpu] = at[hcpu],
         hpc' \in {"setup", "listen", "traps"} => inj = NULL
  PROVE  PlayInv'
<1>1. Registered' = Registered /\ InPlay' = InPlay /\ Reported' = Reported
  BY DEF Registered, InPlay, Reported
<1>2. ListsOK'
  BY DEF PlayInv, ListsOK
<1>3. PlaceOK'
  BY <1>1 DEF PlayInv, PlaceOK
<1>4. LoopOK'
  BY DEF PlayInv, LoopOK
<1>5. PendingOK' /\ PastOK'
  BY <1>1 DEF PlayInv, PendingOK, PastOK
<1> QED BY <1>2, <1>3, <1>4, <1>5 DEF PlayInv

\* _inject_trap puts its trap in play: at once or as the one being injected.
LEMMA BeginPlay ==
  ASSUME TInv, ListsOK, inj = NULL, hpc \in {"setup", "traps"},
         NEW t \in Trap, t \notin InPlay, BeginInject(t)
  PROVE  /\ ListsOK' /\ PlaceOK' /\ InPlay' = InPlay \cup {t}
         /\ \A p \in Pa : ToSet(traps[p]) \subseteq ToSet(traps'[p])
<1>1. NULL \notin Trap /\ Registered \subseteq Trap
  BY ConstantsAssumption, RegisteredIs
<1>2. InPlay = Registered /\ t \notin Registered
  BY <1>1 DEF InPlay
<1>3. CASE traps[t.pa] # <<>>
  <2>1. traps' = [traps EXCEPT ![t.pa] = ListWith(t)] /\ UNCHANGED <<inj, hpc>>
    BY <1>3 DEF BeginInject
  <2>2. /\ ListsOK' /\ Registered' = Registered \cup {t}
        /\ \A p \in Pa : ToSet(traps[p]) \subseteq ToSet(traps'[p])
    BY <2>1, <1>2, TrapAdded
  <2>3. InPlay' = InPlay \cup {t} /\ PlaceOK'
    BY <1>1, <1>2, <2>1, <2>2 DEF InPlay, PlaceOK
  <2> QED BY <2>2, <2>3
<1>4. CASE traps[t.pa] = <<>>
  <2>1. UNCHANGED traps /\ inj' = t /\ hpc' \in {"protect", "map"}
    BY <1>4 DEF BeginInject
  <2>2. Registered' = Registered /\ ListsOK'
    BY <2>1 DEF Registered, ListsOK
  <2>3. InPlay' = InPlay \cup {t} /\ PlaceOK'
    BY <1>1, <1>2, <2>1, <2>2 DEF InPlay, PlaceOK
  <2> QED BY <2>1, <2>2, <2>3
<1> QED BY <1>3, <1>4

\* The guest, and the steps of HFM that concern no trap.
LEMMA QuietPlay ==
  ASSUME TInv, PlayInv,
         \/ \E v \in Vcpu : Guest(v) \/ (TakeEvent(v) /\ ~Int3Begin(v))
         \/ Listen \/ MapShadow \/ CopyShadow \/ Protect \/ UNCHANGED vars
  PROVE  PlayInv'
<1>0. /\ at \in [Vcpu -> Pa \cup {"user", "body", "lost"}]
      /\ hcpu \in Vcpu => evt[hcpu] = "int3"
      /\ hpc = "listen" => hcpu = NULL
      /\ NULL \notin Vcpu
      /\ hpc \in {"setup", "listen", "traps"} => inj = NULL
  BY ConstantsAssumption DEF TInv, TypeOK, HandlerOK, PlayInv, PlaceOK
<1>1. ASSUME NEW v \in Vcpu, Guest(v)
      PROVE  PlayInv'
  <2>1. UNCHANGED hfm /\ evt[v] = "none"
    BY <1>1 DEF Guest, Call, Fetch, Return, Run, Read, Write, Runs
  <2>2. \A u \in Vcpu \ {v} : at'[u] = at[u]
    BY <1>1, <1>0 DEF Guest, Call, Native!Call, Fetch, Return, Native!Return, Run, Read,
                      Write, guest
  <2>3. UNCHANGED <<traps, inj, pending, matched, fired, hloop, hcpu, hpc>>
    BY <2>1 DEF hfm, tables, loopVars, history
  <2> QED BY <1>0, <2>1, <2>2, <2>3, PlayFrame
<1>2. ASSUME NEW v \in Vcpu, TakeEvent(v), ~Int3Begin(v)
      PROVE  PlayInv'
  <2>1. hpc = "listen"
        /\ UNCHANGED <<traps, inj, pending, matched, fired, hloop, hcpu, hpc>>
    BY <1>2 DEF TakeEvent, Int3NoTrap, PreMem, PostMem, SingleStep, tables, loopVars, history
  <2> QED BY <1>0, <2>1, PlayFrame
<1>3. CASE Listen \/ MapShadow \/ CopyShadow \/ Protect
  <2>1. UNCHANGED <<at, traps, inj, pending, matched, fired, hloop, hcpu>>
        /\ (hpc \in {"setup", "listen"} \/ hpc' \in {"copy", "protect", "arm"})
    BY <1>3 DEF Listen, MapShadow, CopyShadow, Protect, guest, tables, loopVars, history
  <2> QED BY <1>0, <2>1, PlayFrame
<1>4. CASE UNCHANGED vars
  BY <1>4, <1>0, PlayFrame DEF vars, guest, tables, loopVars, history
<1> QED BY <1>1, <1>2, <1>3, <1>4

\* The end of _inject_trap: the trap is registered or given up.
LEMMA ArmPlay ==
  ASSUME TInv, PlayInv, Arm
  PROVE  /\ PlayInv' /\ UNCHANGED <<matched, fired>>
         /\ {"test", "int3"} \cap Faults = {} => InPlay' = InPlay
<1>1. /\ inj \in Trap /\ inj \notin Registered /\ inj' = NULL
      /\ NULL \notin Trap /\ Registered \subseteq Trap
      /\ UNCHANGED <<at, pending, matched, fired, hloop, hcpu>>
  BY ConstantsAssumption, RegisteredIs
     DEF Arm, EndInject, TInv, HandlerOK, PlayInv, PlaceOK, guest, loopVars, history
<1>2. /\ ListsOK' /\ InPlay' \subseteq InPlay
      /\ \A p \in Pa : ToSet(traps[p]) \subseteq ToSet(traps'[p])
      /\ {"test", "int3"} \cap Faults = {} => InPlay' = InPlay
  <2>1. CASE traps' = [traps EXCEPT ![inj.pa] = ListWith(inj)]
    <3>1. /\ ListsOK' /\ Registered' = Registered \cup {inj}
          /\ \A p \in Pa : ToSet(traps[p]) \subseteq ToSet(traps'[p])
      BY <1>1, <2>1, TrapAdded DEF PlayInv
    <3> QED BY <1>1, <3>1 DEF InPlay
  <2>2. CASE UNCHANGED traps /\ {"test", "int3"} \cap Faults # {}
    <3>1. ListsOK' /\ Registered' = Registered
      BY <2>2 DEF PlayInv, ListsOK, Registered
    <3> QED BY <1>1, <2>2, <3>1 DEF InPlay
  <2> QED BY <2>1, <2>2 DEF Arm
<1>3. PlaceOK'
  BY <1>1 DEF PlaceOK
<1>4. LoopOK'
  <2>1. hcpu \in Vcpu => at[hcpu] \in Pa
    BY DEF TInv, HandlerOK, Suspended
  <2> QED BY <1>1, <1>2, <2>1 DEF PlayInv, LoopOK
<1>5. PendingOK'
  BY <1>1, <1>2 DEF PlayInv, PendingOK
<1>6. PastOK'
  <2>1. Reported' = Reported
    BY <1>1 DEF Reported
  <2> QED BY <1>1, <1>2, <2>1 DEF PlayInv, PastOK
<1> QED BY <1>1, <1>2, <1>3, <1>4, <1>5, <1>6 DEF PlayInv

\* hfm_monitor_syscall: one of the traps that waited is in play.
LEMMA InstallPlay ==
  ASSUME TInv, PlayInv, NEW t \in SysTrap, Install(t)
  PROVE  PlayInv' /\ UNCHANGED <<matched, fired>> /\ InPlay \subseteq InPlay'
<1>1. /\ hpc = "setup" /\ hcpu = NULL /\ inj = NULL /\ hloop = <<>>
      /\ t \in pending /\ pending' = pending \ {t}
      /\ UNCHANGED <<hloop, hcpu, matched, fired>>
      /\ NULL \notin Vcpu
  BY ConstantsAssumption
     DEF Install, TInv, HandlerOK, PlayInv, PlaceOK, LoopOK, loopVars, history
<1>2. /\ EntryTrap(t) \in Trap /\ EntryTrap(t) \notin RetTrap /\ EntryTrap(t) \notin InPlay
      /\ \A u \in SysTrap \ {t} : EntryTrap(u) # EntryTrap(t)
  BY <1>1, ConstantsAssumption DEF Trap, EntryTrap, RetTrap, PlayInv, PendingOK
<1>3. /\ ListsOK' /\ PlaceOK'
      /\ InPlay' = InPlay \/ InPlay' = InPlay \cup {EntryTrap(t)}
  <2>1. CASE BeginInject(EntryTrap(t))
    BY <1>1, <1>2, <2>1, BeginPlay DEF PlayInv
  <2>2. CASE UNCHANGED <<inj, hpc, traps>>
    BY <2>2 DEF PlayInv, ListsOK, PlaceOK, InPlay, Registered
  <2> QED BY <2>1, <2>2 DEF Install
<1>4. LoopOK'
  BY <1>1 DEF PlayInv, LoopOK
<1>5. PendingOK'
  <2>1. pending \subseteq SysTrap
    BY DEF TInv, TypeOK
  <2> QED BY <1>1, <1>2, <1>3, <2>1 DEF PlayInv, PendingOK
<1>6. PastOK'
  <2>1. Reported' = Reported /\ Reported \subseteq RetTrap
    BY <1>1 DEF Reported, TInv, TypeOK
  <2> QED BY <1>1, <1>2, <1>3, <2>1 DEF PlayInv, PastOK
<1> QED BY <1>1, <1>3, <1>4, <1>5, <1>6 DEF PlayInv

\* The loop of _int3_cb starts with all the traps of the address, and ends.
LEMMA EndsPlay ==
  ASSUME TInv, PlayInv, Int3Reply \/ \E v \in Vcpu : Int3Begin(v)
  PROVE  PlayInv' /\ UNCHANGED <<matched, fired>> /\ InPlay' = InPlay
<1>1. /\ UNCHANGED <<traps, inj, pending, matched, fired>>
      /\ hpc \in {"listen", "traps"} /\ inj = NULL
      /\ NULL \notin Vcpu
  BY ConstantsAssumption DEF Int3Reply, Int3Begin, PlayInv, PlaceOK, tables, history
<1>2. InPlay' = InPlay /\ Registered' = Registered /\ Reported' = Reported
  BY <1>1 DEF InPlay, Registered, Reported
<1>3. LoopOK'
  <2>1. CASE Int3Reply
    <3>1. hloop' = hloop /\ hloop = <<>> /\ hcpu' = NULL
      BY <2>1 DEF Int3Reply
    <3> QED BY <3>1, <1>1 DEF PlayInv, LoopOK
  <2>2. ASSUME NEW v \in Vcpu, Int3Begin(v) PROVE LoopOK'
    <3>1. hloop' = traps[at[v]] /\ hcpu' = v /\ UNCHANGED <<at, traps>> /\ at[v] \in Pa
      BY <2>2 DEF Int3Begin, TInv, Suspended, guest, tables
    <3> QED BY <3>1, <1>1 DEF PlayInv, ListsOK, LoopOK
  <2> QED BY <2>1, <2>2
<1>4. ListsOK' /\ PlaceOK' /\ PendingOK' /\ PastOK'
  BY <1>1, <1>2 DEF PlayInv, ListsOK, PlaceOK, PendingOK, PastOK
<1> QED BY <1>1, <1>2, <1>3, <1>4 DEF PlayInv

\* The first trap of the loop is registered where the vCPU is.
LEMMA LoopHead ==
  ASSUME TInv, PlayInv, hpc = "traps", hloop # <<>>
  PROVE  /\ Head(hloop) \in Registered /\ Head(hloop) \in ToSet(hloop)
         /\ Head(hloop) \in Trap /\ Head(hloop).pa = at[hcpu] /\ inj = NULL
         /\ hloop \in Seq(Trap) /\ IsInjective(Tail(hloop))
         /\ ToSet(Tail(hloop)) = ToSet(hloop) \ {Head(hloop)}
<1>1. hcpu \in Vcpu /\ at[hcpu] \in Pa
  BY ServedVcpu
<1>2. hloop \in Seq(Trap) /\ IsInjective(hloop) /\ ToSet(hloop) \subseteq ToSet(traps[at[hcpu]])
      /\ inj = NULL
  BY <1>1 DEF TInv, TypeOK, PlayInv, LoopOK, PlaceOK
<1>3. /\ IsInjective(Tail(hloop)) /\ Head(hloop) \in ToSet(hloop)
      /\ ToSet(Tail(hloop)) = ToSet(hloop) \ {Head(hloop)}
  BY <1>2, TailList
<1>4. Head(hloop) \in Registered
  BY <1>1, <1>2, <1>3 DEF Registered, ToSet
<1>5. Head(hloop).pa = at[hcpu]
  BY <1>1, <1>2, <1>3 DEF PlayInv, ListsOK
<1> QED BY <1>2, <1>3, <1>4, <1>5, RegisteredIs DEF PlayInv

\* A callback that reports takes its trap out of play.
LEMMA ReturnPlay ==
  ASSUME TInv, PlayInv, ReturnCallback
  PROVE  /\ PlayInv' /\ matched' = matched
         /\ InPlay' = InPlay \ {Head(hloop)} /\ Reported' = Reported \cup {Head(hloop)}
<1> DEFINE t == Head(hloop)
<1>1. /\ hpc = "traps" /\ hloop # <<>> /\ t.extra # NULL
      /\ traps' = [traps EXCEPT ![t.pa] = ListWithout(t)]
      /\ fired' = fired \cup {[trap |-> t, by |-> <<hcpu, call[hcpu]>>]}
      /\ hloop' = Tail(hloop) \/ hloop' = <<>>
      /\ UNCHANGED <<at, pending, inj, hcpu, matched>>
  BY DEF ReturnCallback, NextNode, guest
<1>2. /\ t \in Registered /\ t \in Trap /\ t.pa = at[hcpu] /\ inj = NULL
      /\ IsInjective(Tail(hloop)) /\ ToSet(Tail(hloop)) = ToSet(hloop) \ {t}
  BY <1>1, LoopHead
<1>3. t \in RetTrap /\ hcpu \in Vcpu /\ at[hcpu] \in Pa /\ NULL \notin Vcpu /\ NULL \notin Trap
  BY <1>1, <1>2, TrapFields, ServedVcpu, ConstantsAssumption
<1>4. /\ ListsOK' /\ Registered' = Registered \ {t}
      /\ \A p \in Pa : ToSet(traps'[p]) = ToSet(traps[p]) \ {t}
  BY <1>1, <1>2, TrapRemoved DEF PlayInv
<1>5. Reported' = Reported \cup {t}
  <2> DEFINE f == [trap |-> t, by |-> <<hcpu, call[hcpu]>>]
  <2>1. fired' = fired \cup {f} /\ f.trap = t
    BY <1>1
  <2> HIDE DEF f, t
  <2> QED BY <2>1 DEF Reported
<1>6. InPlay' = InPlay \ {t} /\ t \in InPlay
  BY <1>1, <1>2, <1>3, <1>4 DEF InPlay
<1> HIDE DEF t
<1>7. PlaceOK'
  BY <1>1, <1>2, <1>3 DEF PlaceOK
<1>8. LoopOK'
  <2>1. IsInjective(<<>>) /\ ToSet(<<>>) = {}
    BY DEF IsInjective, ToSet
  <2>2. ToSet(hloop) \subseteq ToSet(traps[at[hcpu]])
    BY <1>3 DEF PlayInv, LoopOK
  <2>3. IsInjective(hloop') /\ ToSet(hloop') \subseteq ToSet(traps'[at[hcpu]])
    BY <1>1, <1>2, <1>3, <1>4, <2>1, <2>2
  <2> QED BY <1>1, <1>3, <2>3 DEF LoopOK
<1>9. PendingOK'
  BY <1>1, <1>6 DEF PlayInv, PendingOK
<1>10. PastOK'
  BY <1>1, <1>3, <1>5, <1>6 DEF PlayInv, PastOK
<1> QED BY <1>1, <1>4, <1>5, <1>6, <1>7, <1>8, <1>9, <1>10 DEF PlayInv, t

\* A callback that matches puts a return trap in play that no call has had.
LEMMA EntryPlay ==
  ASSUME TInv, PlayInv, EntryCallback, \A r \in matched : ~ForCall(r)
  PROVE  /\ PlayInv' /\ fired' = fired
         /\ \/ matched' = matched /\ InPlay' = InPlay
            \/ \E r : matched' = matched \cup {r} /\ InPlay' = InPlay \cup {r}
<1>1. /\ hpc = "traps" /\ hloop # <<>>
      /\ UNCHANGED <<at, pending, hcpu, fired>>
  BY DEF EntryCallback, guest
<1>2. /\ Head(hloop) \in Trap /\ inj = NULL /\ hloop \in Seq(Trap)
      /\ IsInjective(Tail(hloop)) /\ ToSet(Tail(hloop)) \subseteq ToSet(hloop)
      /\ Head(hloop) \in ToSet(hloop)
  BY <1>1, LoopHead
<1>3. hcpu \in Vcpu /\ at[hcpu] \in Pa /\ NULL \notin Vcpu /\ traps \in [Pa -> Seq(Trap)]
  BY <1>1, ServedVcpu, ConstantsAssumption DEF TInv, TypeOK
<1>4. ToSet(hloop) \subseteq ToSet(traps[at[hcpu]])
  BY <1>3 DEF PlayInv, LoopOK
<1>a. CASE UNCHANGED <<inj, hpc, traps, matched>> /\ hloop' = Tail(hloop)
  <2>1. Registered' = Registered /\ InPlay' = InPlay /\ Reported' = Reported
    BY <1>a, <1>1 DEF InPlay, Registered, Reported
  <2>2. ListsOK' /\ PlaceOK' /\ PendingOK' /\ PastOK'
    BY <1>a, <1>1, <2>1 DEF PlayInv, ListsOK, PlaceOK, PendingOK, PastOK
  <2>3. LoopOK'
    BY <1>a, <1>1, <1>2, <1>3 DEF PlayInv, LoopOK
  <2> QED BY <1>a, <1>1, <2>1, <2>2, <2>3 DEF PlayInv
<1>b. ASSUME NEW r, ForCall(r), BeginInject(r), hloop' = LoopWith(r),
             matched' = matched \cup {r}
      PROVE  PlayInv' /\ InPlay' = InPlay \cup {r}
  <2>1. r \in RetTrap /\ r \in Trap /\ r \notin matched
    BY <1>b DEF ForCall
  <2>2. r \notin InPlay /\ r \notin Reported
    BY <2>1 DEF PlayInv, PastOK
  <2>3. \A t \in SysTrap : EntryTrap(t) # r
    BY <2>1, ConstantsAssumption DEF EntryTrap, RetTrap
  <2>4. /\ ListsOK' /\ PlaceOK' /\ InPlay' = InPlay \cup {r}
        /\ \A p \in Pa : ToSet(traps[p]) \subseteq ToSet(traps'[p])
    BY <1>1, <1>2, <1>b, <2>1, <2>2, BeginPlay DEF PlayInv
  <2>5. LoopOK'
    <3>1. CASE r.pa = at[hcpu]
      <4>1. traps[r.pa] # <<>>
        <5>1. ToSet(<<>>) = {}
          BY DEF ToSet
        <5>2. traps[at[hcpu]] = <<>> => ToSet(traps[at[hcpu]]) = {}
          BY <5>1
        <5> QED BY <1>2, <1>4, <3>1, <5>2, Zenon
      <4>2. traps'[r.pa] = Append(traps[r.pa], r)
        BY <1>b, <1>3, <3>1, <4>1 DEF BeginInject, ListWith
      <4>3. r \notin ToSet(traps[r.pa]) /\ IsInjective(traps[r.pa])
        <5>1. r \notin Registered
          BY <2>1, <2>2 DEF InPlay
        <5> QED BY <1>3, <2>1, <3>1, <5>1, RegisteredIs DEF PlayInv, ListsOK
      <4>4. ToSet(traps'[r.pa]) = ToSet(traps[r.pa]) \cup {r}
        BY <1>3, <2>1, <3>1, <4>2, <4>3, AppendList
      <4>5. Tail(hloop) \in Seq(Trap) /\ r \notin ToSet(Tail(hloop))
        BY <1>1, <1>2, <1>4, <3>1, <4>3, HeadTailProperties
      <4>6. /\ IsInjective(Append(Tail(hloop), r))
            /\ ToSet(Append(Tail(hloop), r)) = ToSet(Tail(hloop)) \cup {r}
        BY <1>2, <2>1, <4>5, AppendList
      <4>7. hloop' = Append(Tail(hloop), r)
        BY <1>b, <3>1 DEF LoopWith
      <4> QED BY <1>1, <1>2, <1>3, <1>4, <3>1, <4>4, <4>6, <4>7 DEF LoopOK
    <3>2. CASE r.pa # at[hcpu]
      <4>1. hloop' = Tail(hloop)
        BY <1>b, <3>2 DEF LoopWith
      <4> QED BY <1>1, <1>2, <1>3, <1>4, <2>4, <4>1 DEF LoopOK
    <3> QED BY <3>1, <3>2
  <2>6. PendingOK'
    <3>1. pending \subseteq SysTrap
      BY DEF TInv, TypeOK
    <3> QED BY <1>1, <2>3, <2>4, <3>1 DEF PlayInv, PendingOK
  <2>7. PastOK'
    <3>1. Reported' = Reported
      BY <1>1 DEF Reported
    <3> QED BY <1>b, <2>2, <2>4, <3>1 DEF PlayInv, PastOK
  <2> QED BY <2>4, <2>5, <2>6, <2>7 DEF PlayInv
<1>5. \/ UNCHANGED <<inj, hpc, traps, matched>> /\ hloop' = Tail(hloop)
      \/ \E r : /\ ForCall(r) /\ BeginInject(r)
                /\ hloop' = LoopWith(r) /\ matched' = matched \cup {r}
  BY EntryStep
<1> QED BY <1>1, <1>a, <1>b, <1>5

-----------------------------------------------------------------------------
(* The calls that matched.                                                   *)

\* The instruction at the entry of s in the call that vCPU v is in: not reached
\* any more, executed next in the origin view, or asked about already.
Asked(v, s) ==
  \/ at[v] # TrapPa[s]
  \/ view[v] = "origin" /\ evt[v] = "none"
  \/ hcpu = v /\ EntryTrap(s) \notin ToSet(hloop)

\* A call that matched was made, and its callback is not called for it again.
CallsOK ==
  \A r \in matched, v \in Vcpu, c \in 1..MaxCalls :
     r.extra = <<v, c>> => c <= call[v] /\ (c = call[v] => Asked(v, r.sys))

LEMMA CallsFrame ==
  ASSUME TInv, CallsOK, matched' = matched,
         \A v \in Vcpu : \/ call'[v] = call[v] + 1
                         \/ /\ call'[v] = call[v]
                            /\ \A s \in SysTrap : Asked(v, s) => Asked(v, s)'
  PROVE  CallsOK'
<1> SUFFICES ASSUME NEW r \in matched, NEW v \in Vcpu, NEW c \in 1..MaxCalls,
                    r.extra = <<v, c>>
             PROVE  c <= call'[v] /\ (c = call'[v] => Asked(v, r.sys)')
  BY DEF CallsOK
<1>1. c <= call[v] /\ (c = call[v] => Asked(v, r.sys))
  BY DEF CallsOK
<1>2. r.sys \in SysTrap /\ call[v] \in Nat /\ c \in Nat
  BY ConstantsAssumption DEF TInv, TypeOK, RetTrap
<1>3. CASE call'[v] = call[v] + 1
  BY <1>1, <1>2, <1>3
<1>4. CASE /\ call'[v] = call[v]
           /\ \A s \in SysTrap : Asked(v, s) => Asked(v, s)'
  BY <1>1, <1>2, <1>4
<1> QED BY <1>3, <1>4

\* An instruction of the guest: in the origin view it is executed.
LEMMA GuestCalls ==
  ASSUME TInv, VInv, CallsOK, NEW v \in Vcpu, Guest(v)
  PROVE  CallsOK'
<1>t. /\ at \in [Vcpu -> Pa \cup {"user", "body", "lost"}]
      /\ call \in [Vcpu -> 0..MaxCalls] /\ ret \in [Vcpu -> RetSite]
      /\ view \in [Vcpu -> {"shadow", "origin"}]
      /\ evt \in [Vcpu -> Frame \cup {"none", "int3", "step"}]
      /\ TrapPa \in [SysTrap -> Pa \ RetSite]
      /\ Pa \cap {"user", "body", "lost"} = {}
  BY ConstantsAssumption, LabelsAssumption DEF TInv, TypeOK
<1>1. /\ evt[v] = "none" /\ UNCHANGED <<view, hcpu, hloop, matched>>
  BY DEF Guest, Call, Fetch, Return, Run, Read, Write, Runs, hfm, loopVars, history
<1>2. hcpu # v
  BY <1>1 DEF TInv, HandlerOK
<1>3. \A u \in Vcpu \ {v} : at'[u] = at[u] /\ evt'[u] = evt[u] /\ call'[u] = call[u]
  BY <1>t DEF Guest, Call, Native!Call, Fetch, Return, Native!Return, Run, Read, Write,
              Retire, guest
<1>4. ASSUME NEW u \in Vcpu \ {v}, NEW s \in SysTrap, Asked(u, s)
      PROVE  Asked(u, s)'
  BY <1>1, <1>3, <1>4 DEF Asked
<1>5. \/ call'[v] = call[v] + 1
      \/ /\ call'[v] = call[v]
         /\ \/ at'[v] \notin Pa \ RetSite
            \/ at'[v] = at[v] /\ at[v] \in Pa /\ view[v] = "shadow"
  <2>1. ASSUME NEW e \in (Pa \ RetSite) \cup {"body"}, NEW r \in RetSite, Call(v, e, r)
        PROVE  call'[v] = call[v] + 1
    BY <2>1, <1>t DEF Call, Native!Call
  <2>2. CASE Fetch(v)
    <3>1. CASE Holds(v, at[v]) = Int3
      <4>1. at' = at /\ call' = call /\ at[v] \in Pa
        BY <2>2, <3>1 DEF Fetch, guest
      <4>2. view[v] = "shadow"
        BY <1>1, <1>t, <3>1, <4>1 DEF Holds, VInv, OriginSafe
      <4> QED BY <4>1, <4>2
    <3>2. CASE Holds(v, at[v]) # Int3
      <4>1. at'[v] \in {"user", "body", "lost"} /\ call' = call
        BY <2>2, <3>2, <1>t, AfterOutside DEF Fetch
      <4> QED BY <4>1, <1>t
    <3> QED BY <3>1, <3>2
  <2>3. CASE Return(v)
    <3>1. at'[v] \in RetSite /\ call' = call
      BY <2>3, <1>t DEF Return, Native!Return
    <3> QED BY <3>1
  <2>4. ASSUME Run(v) \/ (\E p \in Pa : Read(v, p))
               \/ \E p \in Pa, b \in GuestWrites : Write(v, p, b)
        PROVE  at'[v] \notin Pa \ RetSite /\ call'[v] = call[v]
    <3>1. at' = at /\ call' = call /\ at[v] \in {"user", "body"}
      BY <2>4 DEF Run, Read, Write, guest
    <3> QED BY <3>1, <1>t
  <2> QED BY <2>1, <2>2, <2>3, <2>4 DEF Guest
<1>6. ASSUME NEW s \in SysTrap, Asked(v, s), call'[v] # call[v] + 1
      PROVE  Asked(v, s)'
  <2>1. CASE at'[v] \notin Pa \ RetSite
    BY <2>1, <1>t DEF Asked
  <2>2. CASE at'[v] = at[v] /\ view[v] = "shadow"
    BY <2>2, <1>2, <1>6 DEF Asked
  <2> QED BY <1>5, <1>6, <2>1, <2>2
<1> QED BY <1>1, <1>3, <1>4, <1>5, <1>6, CallsFrame

\* An event of vCPU v: v is suspended in front of an instruction, and stays
\* there or continues behind it.
LEMMA EventCalls ==
  ASSUME TInv, CallsOK, NEW v \in Vcpu, TakeEvent(v)
  PROVE  CallsOK'
<1>1. /\ hpc = "listen" /\ evt[v] # "none" /\ matched' = matched /\ call' = call
      /\ \A u \in Vcpu \ {v} : at'[u] = at[u] /\ evt'[u] = evt[u] /\ view'[u] = view[u]
      /\ at'[v] = at[v] \/ at'[v] = After(at[v])
  <2>1. /\ at \in [Vcpu -> Pa \cup {"user", "body", "lost"}]
        /\ evt \in [Vcpu -> Frame \cup {"none", "int3", "step"}]
        /\ view \in [Vcpu -> {"shadow", "origin"}]
        /\ "none" \notin Frame
    BY LabelsAssumption DEF TInv, TypeOK
  <2> QED BY <2>1 DEF TakeEvent, Int3NoTrap, Int3Begin, PreMem, PostMem, SingleStep, ToOrigin,
                      ToShadow, guest, cpus, history
<1>2. hcpu = NULL /\ NULL \notin Vcpu
  BY <1>1, ConstantsAssumption DEF TInv, HandlerOK
<1>3. ASSUME NEW u \in Vcpu, NEW s \in SysTrap, Asked(u, s)
      PROVE  Asked(u, s)'
  <2>1. CASE u = v
    <3>1. at[v] # TrapPa[s]
      BY <1>1, <1>2, <1>3, <2>1 DEF Asked
    <3>2. TrapPa[s] \in Pa
      BY ConstantsAssumption
    <3>3. at'[v] # TrapPa[s]
      BY <1>1, <3>1, <3>2, AfterOutside
    <3> QED BY <2>1, <3>3 DEF Asked
  <2>2. CASE u # v
    BY <1>1, <1>2, <1>3, <2>2 DEF Asked
  <2> QED BY <2>1, <2>2
<1> QED BY <1>1, <1>3, CallsFrame

\* The callback for the call that vCPU hcpu is in has not been called before.
LEMMA AskedOnce ==
  ASSUME TInv, PlayInv, CallsOK, EntryCallback
  PROVE  \A r \in matched : ~ForCall(r)
<1> SUFFICES ASSUME NEW r \in matched, ForCall(r) PROVE FALSE
  OBVIOUS
<1>1. hpc = "traps" /\ hloop # <<>> /\ Head(hloop).extra = NULL
  BY DEF EntryCallback
<1>2. /\ Head(hloop) \in Trap /\ Head(hloop) \in ToSet(hloop)
      /\ Head(hloop).pa = at[hcpu]
  BY <1>1, LoopHead
<1>3. /\ hcpu \in Vcpu /\ evt[hcpu] = "int3" /\ call[hcpu] \in 1..MaxCalls
  BY <1>1, ServedVcpu
<1>4. PICK s \in SysTrap : Head(hloop) = EntryTrap(s)
  BY <1>1, <1>2, ConstantsAssumption DEF Trap, RetTrap
<1>5. at[hcpu] = TrapPa[s] /\ r.sys = s /\ r.extra = <<hcpu, call[hcpu]>>
  BY <1>2, <1>4 DEF EntryTrap, ForCall
<1>6. ~Asked(hcpu, s)
  BY <1>2, <1>3, <1>4, <1>5 DEF Asked
<1> QED BY <1>3, <1>5, <1>6 DEF CallsOK

\* The steps of the handling thread.
LEMMA HandlerCalls ==
  ASSUME TInv, PlayInv, CallsOK, Handler
  PROVE  CallsOK'
<1> USE DEF guest, cpus, loopVars, history
<1>1. ASSUME \/ \E t \in SysTrap : Install(t)
             \/ Listen \/ MapShadow \/ CopyShadow \/ Protect \/ Arm
      PROVE  CallsOK'
  <2>1. UNCHANGED <<at, call, view, evt, hcpu, hloop, matched>>
    BY <1>1 DEF Install, Listen, MapShadow, CopyShadow, Protect, Arm
  <2> QED BY <2>1, CallsFrame DEF Asked
<1>2. CASE ReturnCallback
  <2>1. /\ UNCHANGED <<at, call, view, evt, hcpu, matched>>
        /\ hloop' = Tail(hloop) \/ hloop' = <<>>
        /\ hpc = "traps" /\ hloop # <<>>
    BY <1>2 DEF ReturnCallback, NextNode
  <2>2. ToSet(hloop') \subseteq ToSet(hloop)
    <3>1. ToSet(<<>>) = {}
      BY DEF ToSet
    <3> QED BY <2>1, <3>1, LoopHead
  <2> QED BY <2>1, <2>2, CallsFrame DEF Asked
<1>3. CASE Int3Reply
  <2>1. /\ hpc = "traps" /\ UNCHANGED <<call, matched>>
        /\ evt' = [evt EXCEPT ![hcpu] = "none"] /\ view' = [view EXCEPT ![hcpu] = "origin"]
        /\ at' = at \/ at' = [at EXCEPT ![hcpu] = After(at[hcpu])]
    BY <1>3 DEF Int3Reply, ToOrigin
  <2>2. /\ hcpu \in Vcpu /\ at \in [Vcpu -> Pa \cup {"user", "body", "lost"}]
        /\ evt \in [Vcpu -> Frame \cup {"none", "int3", "step"}]
        /\ view \in [Vcpu -> {"shadow", "origin"}]
    BY <2>1, ServedVcpu DEF TInv, TypeOK
  <2>3. evt'[hcpu] = "none" /\ view'[hcpu] = "origin"
    BY <2>1, <2>2
  <2>4. \A u \in Vcpu \ {hcpu} : at'[u] = at[u] /\ evt'[u] = evt[u] /\ view'[u] = view[u]
    BY <2>1, <2>2
  <2>5. \A u \in Vcpu, s \in SysTrap : Asked(u, s) => Asked(u, s)'
    BY <2>3, <2>4 DEF Asked
  <2> QED BY <2>1, <2>5, CallsFrame
<1>4. CASE EntryCallback
  <2>1. /\ hpc = "traps" /\ hloop # <<>> /\ Head(hloop).extra = NULL
        /\ UNCHANGED <<at, call, view, evt, hcpu>>
    BY <1>4 DEF EntryCallback
  <2>2. /\ Head(hloop) \in Trap /\ Head(hloop) \in ToSet(hloop)
        /\ Tail(hloop) \in Seq(Trap) /\ IsInjective(Tail(hloop))
        /\ ToSet(Tail(hloop)) = ToSet(hloop) \ {Head(hloop)}
        /\ hcpu \in Vcpu /\ call[hcpu] \in 1..MaxCalls
    BY <2>1, LoopHead, ServedVcpu, HeadTailProperties
  <2>3. PICK s \in SysTrap : Head(hloop) = EntryTrap(s)
    BY <2>1, <2>2, ConstantsAssumption DEF Trap, RetTrap
  <2>4. PICK v \in Vcpu : v = hcpu
    BY <2>2
  <2>5. \A r : ForCall(r) => r.sys = s /\ r.extra = <<v, call[v]>>
    BY <2>3, <2>4 DEF EntryTrap, ForCall
  <2>a. /\ matched' = matched \/ \E r : ForCall(r) /\ matched' = matched \cup {r}
        /\ \A q \in SysTrap : EntryTrap(q) \in ToSet(hloop')
                                => EntryTrap(q) \in ToSet(hloop) \ {Head(hloop)}
    <3>1. CASE UNCHANGED matched /\ hloop' = Tail(hloop)
      BY <2>2, <3>1
    <3>2. ASSUME NEW r, ForCall(r), hloop' = LoopWith(r), matched' = matched \cup {r}
          PROVE  \A q \in SysTrap : EntryTrap(q) \in ToSet(hloop')
                                       => EntryTrap(q) \in ToSet(hloop) \ {Head(hloop)}
      <4>1. r \in Trap /\ \A q \in SysTrap : EntryTrap(q) # r
        BY <3>2, ConstantsAssumption DEF ForCall, EntryTrap, RetTrap
      <4>2. ToSet(Append(Tail(hloop), r)) = ToSet(Tail(hloop)) \cup {r}
        BY <2>2, <4>1, AppendSet
      <4> QED BY <2>2, <3>2, <4>1, <4>2 DEF LoopWith
    <3> QED BY <1>4, <3>1, <3>2, EntryStep
  <2>6. Asked(v, s)'
    <3>1. hcpu' = v /\ EntryTrap(s) \notin ToSet(hloop')
      BY <2>1, <2>3, <2>4, <2>a
    <3> QED BY <3>1 DEF Asked
  <2>7. ASSUME NEW u \in Vcpu, NEW q \in SysTrap, Asked(u, q)
        PROVE  Asked(u, q)'
    BY <2>1, <2>a, <2>7 DEF Asked
  <2>8. ASSUME NEW m \in matched', NEW u \in Vcpu, NEW c \in 1..MaxCalls,
               m.extra = <<u, c>>
        PROVE  c <= call'[u] /\ (c = call'[u] => Asked(u, m.sys)')
    <3>1. CASE m \in matched
      <4>1. m.sys \in SysTrap
        BY <3>1 DEF TInv, TypeOK, RetTrap
      <4> QED BY <2>1, <2>7, <2>8, <3>1, <4>1 DEF CallsOK
    <3>2. CASE ForCall(m)
      <4>1. u = v /\ c = call[v] /\ m.sys = s
        BY <2>5, <2>8, <3>2
      <4>2. c <= call'[u]
        BY <2>1, <2>2, <2>4, <4>1
      <4> QED BY <2>6, <4>1, <4>2
    <3> QED BY <2>8, <2>a, <3>1, <3>2
  <2> QED BY <2>8 DEF CallsOK
<1> QED BY <1>1, <1>2, <1>3, <1>4 DEF Handler

\* Where the traps are, and which calls they are about.
CallInv == PlayInv /\ CallsOK

LEMMA StepCallInv ==
  ASSUME Int3 \notin GuestWrites
  PROVE  TInv /\ VInv /\ CallInv /\ [Next]_vars => CallInv'
<1> SUFFICES ASSUME TInv, VInv, CallInv, [Next]_vars PROVE CallInv'
  OBVIOUS
<1> USE DEF CallInv
<1>1. ASSUME NEW v \in Vcpu, Guest(v) PROVE CallInv'
  BY <1>1, QuietPlay, GuestCalls
<1>2. ASSUME NEW v \in Vcpu, TakeEvent(v) PROVE CallInv'
  BY <1>2, QuietPlay, EndsPlay, EventCalls
<1>3. CASE Handler
  <2>1. CallsOK'
    BY <1>3, HandlerCalls
  <2>2. CASE EntryCallback
    BY <2>1, <2>2, AskedOnce, EntryPlay
  <2>3. CASE ReturnCallback
    BY <2>1, <2>3, ReturnPlay
  <2>4. CASE ~EntryCallback /\ ~ReturnCallback
    BY <1>3, <2>1, <2>4, QuietPlay, EndsPlay, ArmPlay, InstallPlay DEF Handler
  <2> QED BY <2>2, <2>3, <2>4
<1>4. CASE UNCHANGED vars
  <2>1. CallsOK'
    BY <1>4 DEF CallsOK, Asked, vars, guest, cpus, loopVars, history
  <2> QED BY <1>4, <2>1, QuietPlay
<1> QED BY <1>1, <1>2, <1>3, <1>4 DEF Next

LEMMA InitCallInv == Init => CallInv
  BY InitPlayInv DEF Init, CallInv, CallsOK

\* The loop of _int3_cb follows no trap that a removal has freed, and no callback
\* gets parameters that a return callback has freed: whatever a read of the
\* freed node returns, and whichever calls of the hypervisor fail.
THEOREM LoopsSafe ==
  ASSUME Int3 \notin GuestWrites
  PROVE  Spec => []LoopMemory
<1>1. TInv /\ VInv /\ CallInv /\ [Next]_vars => CallInv'
  BY StepCallInv
<1>2. TInv /\ CallInv => LoopMemory
  <2> SUFFICES ASSUME TInv, CallInv PROVE LoopMemory
    OBVIOUS
  <2>1. LoopLive
    <3>1. hcpu \in Vcpu \cup {NULL}
      BY DEF TInv, TypeOK
    <3>2. LoopOK
      BY DEF CallInv, PlayInv
    <3> SUFFICES ASSUME NEW i \in DOMAIN hloop
                 PROVE  \E j \in DOMAIN traps[at[hcpu]] : hloop[i] = traps[at[hcpu]][j]
      BY DEF LoopLive
    <3>3. hcpu = NULL => hloop = <<>>
      BY <3>2 DEF LoopOK
    <3>4. hcpu \in Vcpu
      BY <3>1, <3>3
    <3>5. hloop[i] \in ToSet(traps[at[hcpu]])
      BY <3>2, <3>4 DEF LoopOK, ToSet
    <3> QED BY <3>5 DEF ToSet
  <2>2. Reported \subseteq Trap
    BY DEF Reported, TInv, TypeOK, Trap
  <2>3. ParamsFreedOnce
    BY <2>2 DEF CallInv, PlayInv, PastOK, InPlay, ParamsFreedOnce
  <2> QED BY <2>1, <2>3 DEF LoopMemory
<1> QED BY <1>1, <1>2, InitCallInv, VInvInvariant, TInvInvariant, PTL DEF Spec

\* A call that matched is reported, or its trap is registered at its return address
\* or being injected there, as long as _inject_trap's writes succeed.
THEOREM AlwaysTracked ==
  ASSUME Int3 \notin GuestWrites, {"test", "int3"} \cap Faults = {}
  PROVE  Spec => []MatchedTracked
<1> DEFINE Tracked == matched \subseteq Reported \cup InPlay
<1>1. TInv /\ VInv /\ CallInv /\ [Next]_vars => CallInv'
  BY StepCallInv
<1>2. Init => Tracked
  BY DEF Init
<1>3. TInv /\ CallInv /\ Tracked /\ [Next]_vars => Tracked'
  <2> SUFFICES ASSUME TInv, CallInv, Tracked, [Next]_vars PROVE Tracked'
    OBVIOUS
  <2>1. ASSUME UNCHANGED <<matched, fired>>, InPlay \subseteq InPlay' PROVE Tracked'
    BY <2>1 DEF Reported
  <2>2. ASSUME UNCHANGED <<traps, inj, matched, fired>> PROVE Tracked'
    BY <2>1, <2>2 DEF InPlay, Registered
  <2>3. CASE EntryCallback
    <3>1. fired' = fired
          /\ \/ matched' = matched /\ InPlay' = InPlay
             \/ \E r : matched' = matched \cup {r} /\ InPlay' = InPlay \cup {r}
      BY <2>3, AskedOnce, EntryPlay DEF CallInv
    <3> QED BY <3>1 DEF Reported
  <2>4. CASE ReturnCallback
    <3>1. \E t : matched' = matched /\ InPlay' = InPlay \ {t} /\ Reported' = Reported \cup {t}
      BY <2>4, ReturnPlay DEF CallInv
    <3> QED BY <3>1
  <2>5. CASE Arm
    BY <2>1, <2>5, ArmPlay DEF CallInv
  <2>6. ASSUME NEW t \in SysTrap, Install(t) PROVE Tracked'
    BY <2>1, <2>6, InstallPlay DEF CallInv
  <2>7. ASSUME NEW v \in Vcpu, Guest(v) PROVE Tracked'
    <3>1. UNCHANGED hfm
      BY <2>7 DEF Guest, Call, Fetch, Return, Run, Read, Write
    <3> QED BY <2>2, <3>1 DEF hfm, tables, history
  <2>8. ASSUME NEW v \in Vcpu, TakeEvent(v) PROVE Tracked'
    <3>1. UNCHANGED <<traps, inj, matched, fired>>
      BY <2>8 DEF TakeEvent, Int3NoTrap, Int3Begin, PreMem, PostMem, SingleStep, tables, history
    <3> QED BY <2>2, <3>1
  <2>9. ASSUME Listen \/ MapShadow \/ CopyShadow \/ Protect \/ Int3Reply \/ UNCHANGED vars
        PROVE  Tracked'
    <3>1. UNCHANGED <<traps, inj, matched, fired>>
      BY <2>9 DEF Listen, MapShadow, CopyShadow, Protect, Int3Reply, vars, tables, history
    <3> QED BY <2>2, <3>1
  <2> QED BY <2>3, <2>4, <2>5, <2>6, <2>7, <2>8, <2>9 DEF Next, Handler
<1>4. Tracked => MatchedTracked
  BY DEF InPlay, MatchedTracked
<1> HIDE DEF Tracked
<1> QED BY <1>1, <1>2, <1>3, <1>4, InitCallInv, VInvInvariant, TInvInvariant, PTL DEF Spec
=============================================================================
