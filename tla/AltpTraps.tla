------------------------------ MODULE AltpTraps ------------------------------
(***************************************************************************)
(* The breakpoint engine of hfm.c and trapmngr.c for one virtual machine.  *)
(*                                                                         *)
(* HFM keeps a second guest-physical view (altp2m_idx, "shadow") in which  *)
(* every frame that holds a hooked function is replaced by a private copy  *)
(* with INT3 written over the hooked addresses; ORIGIN_IDX ("origin") maps *)
(* the guest's memory unmodified.  One thread per VM takes the events      *)
(* (INT3, memory access, single step) that suspend a vCPU, one at a time,  *)
(* and answers each with a view switch and a toggle of single-stepping,    *)
(* while the other vCPUs keep running.                                     *)
(*                                                                         *)
(* A handler that makes several hypercalls is split at each of them (hpc), *)
(* because the other vCPUs see memory change there.  Data is abstracted to *)
(* one byte per address of interest; what a callback reads from the guest  *)
(* to decide whether a policy matches is a free choice.                    *)
(***************************************************************************)
EXTENDS Naturals, Sequences, SequencesExt

CONSTANTS
  Vcpu,         \* the virtual CPUs of the guest
  Frame,        \* the guest frames that hold the addresses below
  Pa,           \* physical addresses of kernel code
  FrameOf,      \* [Pa -> Frame], pa >> PAGE_OFFSET_BITS
  SysTrap,      \* the traps hfm_monitor_syscall is asked to install
  TrapPa,       \* [SysTrap -> Pa], the entry point each of them hooks
  RetSite,      \* addresses that follow a call of a kernel function
  Byte,         \* what one address may hold
  Int3,         \* the byte INT3_CHAR
  Junk,         \* the content of a frame nobody has written yet
  NULL,
  InitCode,     \* the contents the guest's code may have at first
  GuestWrites,  \* the bytes the guest may patch its code with
  Faults,       \* the calls of the hypervisor that may fail
  FreedNext,    \* what loop->next reads after the node was freed
  Matches,      \* whether a call matches some policy: any of these answers
  MaxCalls      \* bound: calls per vCPU

Entry  == {TrapPa[t] : t \in SysTrap}
CallId == Vcpu \X (1..MaxCalls)

\* trap_t: a trap on a function's entry has extra = NULL; one on its return
\* address is self_destroy and carries in extra the call it was made for.  It may
\* be anywhere if that address could not be found out.
ReturnPa == IF "return" \in Faults THEN Pa ELSE RetSite
EntryTrap(t) == [pa |-> TrapPa[t], sys |-> t, extra |-> NULL]
RetTrap      == [pa : ReturnPa, sys : SysTrap, extra : CallId]
Trap         == {EntryTrap(t) : t \in SysTrap} \cup RetTrap

FaultKind == {"symbol", "alloc", "slat", "copy", "mem_event", "test", "int3",
              "peek", "return", "backup", "restore"}

ASSUME ConstantsAssumption ==
  /\ FrameOf \in [Pa -> Frame]
  /\ TrapPa \in [SysTrap -> Pa \ RetSite]
  /\ RetSite \subseteq Pa
  /\ Int3 \in Byte /\ Junk \notin Byte
  /\ InitCode \subseteq [Pa -> Byte]
  /\ GuestWrites \subseteq Byte
  /\ Faults \subseteq FaultKind
  /\ FreedNext \subseteq {"old", "null", "fault"}
  /\ Matches \subseteq BOOLEAN
  /\ MaxCalls \in Nat
  /\ NULL \notin CallId /\ NULL \notin Vcpu /\ NULL \notin Trap

\* The values that label a state are not addresses, frames or bytes.
ASSUME LabelsAssumption ==
  /\ Pa \cap {"user", "body", "lost"} = {}
  /\ Frame \cap {"none", "int3", "step"} = {}
  /\ Byte \cap {"none"} = {} /\ Junk # "none"

VARIABLES
  at, ret, call, seen, orig,               \* the guest, as in GuestCpu
  shadow, mapped, guarded, zeroPage,       \* the hypervisor's memory maps
  view, step, evt, paused,                 \* the hypervisor's vCPU state
  remapped, traps, doubletrap, memtraps,   \* trapmngr_t's tables
  stepCb,                                  \* step_event[v]->callback
  pending, hpc, inj, hcpu, hloop, hreinject, \* the thread that runs HFM
  interrupted,                             \* handler->interrupted = -1
  matched, fired                           \* history: calls that matched, reports

guest   == <<at, ret, call, seen>>
memory  == <<orig, shadow, mapped, guarded, zeroPage>>
cpus    == <<view, step, evt>>
tables  == <<remapped, traps, doubletrap, memtraps>>
loopVars == <<hcpu, hloop, hreinject, interrupted>>
history == <<matched, fired>>
vars == <<guest, memory, cpus, paused, tables, stepCb, pending, hpc, inj,
          loopVars, history>>

Native == INSTANCE GuestCpu WITH
  at <- at, ret <- ret, call <- call, seen <- seen, orig <- orig

After(p) == Native!After(p)

Init ==
  /\ Native!Init
  /\ shadow = [p \in Pa |-> Junk]
  /\ mapped = {} /\ guarded = {} /\ zeroPage = FALSE
  /\ view = [v \in Vcpu |-> "shadow"]
  /\ step = [v \in Vcpu |-> FALSE]
  /\ evt = [v \in Vcpu |-> "none"]
  /\ paused = FALSE
  /\ remapped = {} /\ memtraps = {}
  /\ traps = [p \in Pa |-> <<>>]
  /\ doubletrap = [p \in Pa |-> FALSE]
  /\ stepCb = [v \in Vcpu |-> "single"]
  /\ pending = SysTrap /\ hpc = "setup"
  /\ inj = NULL /\ hcpu = NULL /\ hloop = <<>> /\ hreinject = FALSE
  /\ interrupted = FALSE
  /\ matched = {} /\ fired = {}

-----------------------------------------------------------------------------
(* The guest on the hypervisor: external to HFM, driven by its settings.     *)

hfm == <<paused, mapped, guarded, zeroPage, view, step, tables, stepCb,
         pending, hpc, inj, loopVars, history>>

\* A vCPU that is not paused with the VM nor suspended on an event.
Runs(v) == ~paused /\ evt[v] = "none"

\* An instruction ends: the monitor trap flag, when set, raises a step event.
Retire(v) == evt' = [evt EXCEPT ![v] = IF step[v] THEN "step" ELSE "none"]

\* The byte that a vCPU's view shows at p.
Holds(v, p) ==
  IF view[v] = "shadow" /\ FrameOf[p] \in mapped THEN shadow[p] ELSE orig[p]

\* A data access that the shadow view's permissions do not let through.
Blocked(v, p) == view[v] = "shadow" /\ FrameOf[p] \in guarded

Call(v, e, r) ==
  /\ Runs(v)
  /\ Native!Call(v, e, r)
  /\ Retire(v)
  /\ UNCHANGED <<hfm, shadow>>

\* Fetch and execute the instruction at at[v].  INT3 suspends the vCPU in
\* front of it; a frame of junk takes the guest wherever it leads.
Fetch(v) ==
  /\ Runs(v) /\ at[v] \in Pa
  /\ \/ /\ Holds(v, at[v]) = Int3
        /\ evt' = [evt EXCEPT ![v] = "int3"]
        /\ UNCHANGED guest
     \/ /\ Holds(v, at[v]) # Int3
        /\ seen' = [seen EXCEPT ![v] = Holds(v, at[v])]
        /\ at' = [at EXCEPT ![v] = IF Holds(v, at[v]) = Junk THEN "lost"
                                                             ELSE After(at[v])]
        /\ Retire(v)
        /\ UNCHANGED <<ret, call>>
  /\ UNCHANGED <<hfm, orig, shadow>>

Return(v) ==
  /\ Runs(v)
  /\ Native!Return(v)
  /\ Retire(v)
  /\ UNCHANGED <<hfm, shadow>>

\* Any other instruction; it matters only while the vCPU is single-stepped.
Run(v) ==
  /\ Runs(v) /\ at[v] \in {"user", "body"} /\ step[v]
  /\ Retire(v)
  /\ UNCHANGED <<hfm, guest, orig, shadow>>

Read(v, p) ==
  /\ Runs(v) /\ at[v] \in {"user", "body"}
  /\ \/ /\ Blocked(v, p)
        /\ evt' = [evt EXCEPT ![v] = FrameOf[p]]
        /\ UNCHANGED seen
     \/ /\ ~Blocked(v, p)
        /\ seen' = [seen EXCEPT ![v] = Holds(v, p)]
        /\ Retire(v)
  /\ UNCHANGED <<hfm, at, ret, call, orig, shadow>>

\* A write lands in the frame that the vCPU's view maps.
Write(v, p, b) ==
  /\ Runs(v) /\ at[v] \in {"user", "body"} /\ b # Holds(v, p)
  /\ \/ /\ Blocked(v, p)
        /\ evt' = [evt EXCEPT ![v] = FrameOf[p]]
        /\ UNCHANGED <<orig, shadow>>
     \/ /\ ~Blocked(v, p)
        /\ IF view[v] = "shadow" /\ FrameOf[p] \in mapped
           THEN shadow' = [shadow EXCEPT ![p] = b] /\ UNCHANGED orig
           ELSE orig' = [orig EXCEPT ![p] = b] /\ UNCHANGED shadow
        /\ Retire(v)
  /\ UNCHANGED <<hfm, guest>>

Guest(v) ==
  \/ \E e \in (Pa \ RetSite) \cup {"body"}, r \in RetSite : Call(v, e, r)
  \/ Fetch(v)
  \/ Return(v)
  \/ Run(v)
  \/ \E p \in Pa : Read(v, p)
  \/ \E p \in Pa, b \in GuestWrites : Write(v, p, b)

-----------------------------------------------------------------------------
(* _inject_trap and _create_shadow_page.                                     *)

\* Operators named ...Err are erroneous variants of the operator that follows:
\* each is what a plausible slip in that code would compute, and is used only to
\* confirm that the properties at the end of this module notice it.

\* A second trap at an address is taken for one that is already there.
ListWithErr(t) == IF traps[t.pa] = <<>> THEN <<t>> ELSE traps[t.pa]

\* tm_add_int3trap: the traps at t.pa after t is added to them.
ListWith(t) == Append(traps[t.pa], t)

\* _inject_trap(t) as called during setup or from _int3_cb: an address that
\* already has a trap only gets t appended; the first one needs a shadow page,
\* the protection of the page and the INT3, which are the steps that follow.
BeginInject(t) ==
  IF traps[t.pa] # <<>>
  THEN /\ traps' = [traps EXCEPT ![t.pa] = ListWith(t)]
       /\ UNCHANGED <<inj, hpc>>
  ELSE /\ inj' = t
       /\ hpc' = IF FrameOf[t.pa] \in remapped THEN "protect" ELSE "map"
       /\ UNCHANGED traps

\* The return from _inject_trap: hfm_monitor_syscall resumes the VM, _int3_cb
\* goes on with its loop.
EndInject ==
  /\ hpc' = IF hcpu = NULL THEN "setup" ELSE "traps"
  /\ inj' = NULL /\ paused' = FALSE

\* xen_alloc_shadow_frame and vmi_slat_change_gfn: from here on the shadow view
\* shows the new frame, whose content is not the guest's yet.  A failure leaves
\* remapped->r = 0 and the injection goes on regardless.
MapShadow ==
  /\ hpc = "map"
  /\ \/ /\ mapped' = mapped \cup {FrameOf[inj.pa]}
        /\ shadow' = [p \in Pa |-> IF FrameOf[p] = FrameOf[inj.pa] THEN Junk
                                                                 ELSE shadow[p]]
        /\ hpc' = "copy"
     \/ /\ {"alloc", "slat"} \cap Faults # {}
        /\ hpc' = "protect"
        /\ UNCHANGED <<mapped, shadow>>
  /\ UNCHANGED <<guest, orig, guarded, zeroPage, cpus, paused, tables, stepCb,
                 pending, inj, loopVars, history>>

\* vmi_read_pa, vmi_write_pa and tm_add_remapped.
CopyShadow ==
  /\ hpc = "copy"
  /\ \/ /\ shadow' = [p \in Pa |-> IF FrameOf[p] = FrameOf[inj.pa] THEN orig[p]
                                                                 ELSE shadow[p]]
        /\ remapped' = remapped \cup {FrameOf[inj.pa]}
     \/ "copy" \in Faults /\ UNCHANGED <<shadow, remapped>>
  /\ hpc' = "protect"
  /\ UNCHANGED <<guest, orig, mapped, guarded, zeroPage, cpus, paused, traps,
                 doubletrap, memtraps, stepCb, pending, inj, loopVars,
                 history>>

\* The memory event is not set, or set on the wrong view.
GuardedWithErr(f) == guarded

\* vmi_set_mem_event(frame, VMI_MEMACCESS_RW, altp2m_idx).
GuardedWith(f) == guarded \cup {f}

\* tm_add_memtrap and vmi_set_mem_event, whose result nobody looks at.
Protect ==
  /\ hpc = "protect"
  /\ memtraps' = memtraps \cup {FrameOf[inj.pa]}
  /\ \/ guarded' = GuardedWith(FrameOf[inj.pa])
     \/ "mem_event" \in Faults /\ UNCHANGED guarded
  /\ hpc' = "arm"
  /\ UNCHANGED <<guest, orig, shadow, mapped, zeroPage, cpus, paused, remapped,
                 traps, doubletrap, stepCb, pending, inj, loopVars,
                 history>>

\* The test for a breakpoint of the guest's own is the wrong way round.
GuestInt3Err(p) == orig[p] # Int3

\* What _inject_trap finds at the address in the guest's memory.
GuestInt3(p) == orig[p] = Int3

\* Write INT3 over the address in the shadow page unless the guest has one of
\* its own there, and register the trap.  With remapped->r = 0 the write goes
\* to the guest's frame 0.
Arm ==
  /\ hpc = "arm"
  /\ \/ /\ IF GuestInt3(inj.pa) THEN UNCHANGED <<shadow, zeroPage>>
           ELSE IF FrameOf[inj.pa] \in remapped
           THEN shadow' = [shadow EXCEPT ![inj.pa] = Int3] /\ UNCHANGED zeroPage
           ELSE zeroPage' = TRUE /\ UNCHANGED shadow
        /\ traps' = [traps EXCEPT ![inj.pa] = ListWith(inj)]
        /\ doubletrap' = [doubletrap EXCEPT ![inj.pa] = GuestInt3(inj.pa)]
     \/ /\ \/ "test" \in Faults
           \/ "int3" \in Faults /\ ~GuestInt3(inj.pa)
        /\ UNCHANGED <<shadow, zeroPage, traps, doubletrap>>
  /\ EndInject
  /\ UNCHANGED <<guest, orig, mapped, guarded, cpus, remapped, memtraps, stepCb,
                 pending, loopVars, history>>

\* hfm_monitor_syscall: the VM is paused until the trap is in place.  A symbol
\* that cannot be located or translated is skipped.
Install(t) ==
  /\ hpc = "setup" /\ t \in pending
  /\ pending' = pending \ {t}
  /\ \/ BeginInject(EntryTrap(t)) /\ paused' = (traps[TrapPa[t]] = <<>>)
     \/ "symbol" \in Faults /\ UNCHANGED <<inj, hpc, traps, paused>>
  /\ UNCHANGED <<guest, memory, cpus, remapped, doubletrap, memtraps, stepCb,
                 loopVars, history>>

\* main starts _monitor_vm once all the policies are set; it listens until a
\* critical error interrupts it, which it sees when the events that wait have been
\* served, or some of them.  What hfm_close does then is in Lifecycle.
Listen ==
  /\ \/ hpc = "setup" /\ pending = {} /\ hpc' = "listen"
     \/ hpc = "listen" /\ interrupted /\ hpc' = "closed"
  /\ UNCHANGED <<guest, memory, cpus, paused, tables, stepCb, pending, inj,
                 loopVars, history>>

-----------------------------------------------------------------------------
(* _int3_cb: an INT3 that vCPU v fetched in whatever view it was in.         *)

\* Every INT3 without a trap is taken for the guest's own.
ReinjectUntrappedErr(p) == TRUE

\* Whether an INT3 without a trap is the guest's: what its memory holds there.
ReinjectUntrapped(p) == orig[p] = Int3

\* No trap is registered at the address, e.g. because the last one was removed
\* while the event waited: the guest's own INT3 is reinjected, anything else
\* is executed again.  If that byte cannot be read, HFM is interrupted and says
\* nothing about it: LibVMI may do either.
Int3NoTrap(v) ==
  /\ hpc = "listen" /\ evt[v] = "int3" /\ traps[at[v]] = <<>>
  /\ evt' = [evt EXCEPT ![v] = "none"]
  /\ \E reinject \in BOOLEAN :
       /\ \/ reinject = ReinjectUntrapped(at[v]) /\ UNCHANGED interrupted
          \/ "peek" \in Faults /\ interrupted' = TRUE
       /\ IF reinject
          THEN /\ seen' = [seen EXCEPT ![v] = Int3]
               /\ at' = [at EXCEPT ![v] = After(at[v])]
          ELSE UNCHANGED <<seen, at>>
  /\ UNCHANGED <<ret, call, memory, view, step, paused, tables, stepCb, pending,
                 hpc, inj, hcpu, hloop, hreinject, history>>

Int3Begin(v) ==
  /\ hpc = "listen" /\ evt[v] = "int3" /\ traps[at[v]] # <<>>
  /\ hpc' = "traps" /\ hcpu' = v
  /\ hloop' = traps[at[v]]
  /\ hreinject' = doubletrap[at[v]]
  /\ UNCHANGED <<guest, memory, cpus, paused, tables, stepCb, pending, inj,
                 interrupted, history>>

\* The return trap is placed on the address that has just been trapped.
ReturnTrapErr(t, v, p) == [pa |-> at[v], sys |-> t.sys, extra |-> <<v, call[v]>>]

\* The trap at p on the return of the call that vCPU v is entering, made for the
\* entry trap t.
ReturnTrap(t, v, p) == [pa |-> p, sys |-> t.sys, extra |-> <<v, call[v]>>]

\* Where it is put: the return address is read from the top of the stack and
\* translated.  Nobody looks whether that worked: the address is anything then.
ReturnSite(v) == IF "return" \in Faults THEN Pa ELSE {ret[v]}

\* What is left of the loop when t is injected: it walks the list itself, and sees
\* a trap that is appended to it.
LoopWith(t) == IF t.pa = at[hcpu] THEN Append(Tail(hloop), t) ELSE Tail(hloop)

\* The callback of a trap on a function's entry: when a policy matches, a trap
\* is injected at the call's return address, with the VM running.
EntryCallback ==
  /\ hpc = "traps" /\ hloop # <<>> /\ Head(hloop).extra = NULL
  /\ \/ FALSE \in Matches /\ hloop' = Tail(hloop) /\ UNCHANGED <<inj, hpc, traps, matched>>
     \/ /\ TRUE \in Matches
        /\ \E p \in ReturnSite(hcpu) : LET t == ReturnTrap(Head(hloop), hcpu, p) IN
             /\ hloop' = LoopWith(t)
             /\ matched' = matched \cup {t}
             /\ BeginInject(t)
  /\ UNCHANGED <<guest, memory, cpus, paused, remapped, doubletrap, memtraps,
                 stepCb, pending, hcpu, hreinject, interrupted, fired>>

\* The trap is not unlinked from the list.
ListWithoutErr(t) == traps[t.pa]

\* tm_remove_int3trap: the list of traps at t.pa without t.
ListWithout(t) ==
  LET list == traps[t.pa] IN
  IF \E i \in DOMAIN list : list[i] = t
  THEN RemoveAt(list, CHOOSE i \in DOMAIN list : list[i] = t) ELSE list

\* The breakpoint is left in the shadow page.
DisarmedErr(p) == shadow

\* _remove_int3 when it succeeds: the shadow page with the guest's byte back at p.
Disarmed(p) == [shadow EXCEPT ![p] = orig[p]]

\* _remove_int3.  If the guest's byte cannot be read, what is written is any byte,
\* as backup is not initialised; if it cannot be written, INT3 stays.  Monitoring
\* is interrupted either way.
RemoveInt3(p) ==
  \/ shadow' = Disarmed(p) /\ UNCHANGED interrupted
  \/ /\ interrupted' = TRUE
     /\ \/ "backup" \in Faults /\ \E b \in Byte : shadow' = [shadow EXCEPT ![p] = b]
        \/ "restore" \in Faults /\ UNCHANGED shadow

\* The loop does not advance past the trap that it removed.
NextNodeErr(next) == hloop

\* loop->next, read from the node that tm_remove_int3trap has just freed: the
\* old link, or the NULL that the slice allocator leaves there.
NextNode(next) == IF next = "old" THEN Tail(hloop) ELSE <<>>

\* The callback of a trap on a return address, which then removes itself; the
\* last one takes its breakpoint along.  HFM crashes if the freed node reads as
\* garbage, or if the page has no remapped_t.
ReturnCallback ==
  /\ hpc = "traps" /\ hloop # <<>> /\ Head(hloop).extra # NULL
  /\ LET t == Head(hloop) IN
     /\ fired' = fired \cup {[trap |-> t, by |-> <<hcpu, call[hcpu]>>]}
     /\ traps' = [traps EXCEPT ![t.pa] = ListWithout(t)]
     /\ IF ListWithout(t) # <<>> THEN UNCHANGED <<shadow, doubletrap, interrupted>>
        ELSE /\ doubletrap' = [doubletrap EXCEPT ![t.pa] = FALSE]
             /\ IF FrameOf[t.pa] \in remapped
                THEN RemoveInt3(t.pa) ELSE UNCHANGED <<shadow, interrupted>>
     /\ \E next \in FreedNext :
          /\ hloop' = NextNode(next)
          /\ hpc' = IF \/ next = "fault"
                       \/ ListWithout(t) = <<>> /\ FrameOf[t.pa] \notin remapped
                    THEN "dead" ELSE "traps"
  /\ UNCHANGED <<guest, orig, mapped, guarded, zeroPage, cpus, paused, remapped,
                 memtraps, stepCb, pending, inj, hcpu, hreinject, matched>>

\* The view is switched without single-stepping.
ToOriginErr(v, cb) ==
  /\ view' = [view EXCEPT ![v] = "origin"]
  /\ stepCb' = [stepCb EXCEPT ![v] = cb]
  /\ UNCHANGED step

\* Single-stepping ends but the vCPU stays in the origin view.
ToShadowErr(v) ==
  /\ step' = [step EXCEPT ![v] = ~@]
  /\ UNCHANGED view

\* VMM_PAGETABLE_ID with ORIGIN_IDX and TOGGLE_SINGLESTEP, cb as the callback of
\* the step; and the same with altp2m_idx when the step is over.
ToOrigin(v, cb) ==
  /\ view' = [view EXCEPT ![v] = "origin"]
  /\ step' = [step EXCEPT ![v] = ~@]
  /\ stepCb' = [stepCb EXCEPT ![v] = cb]

ToShadow(v) ==
  /\ view' = [view EXCEPT ![v] = "shadow"]
  /\ step' = [step EXCEPT ![v] = ~@]

\* The end of the loop: the vCPU runs one instruction in the origin view, after
\* the guest's own INT3 is reinjected if the trap replaced one.
Int3Reply ==
  /\ hpc = "traps" /\ hloop = <<>>
  /\ evt' = [evt EXCEPT ![hcpu] = "none"]
  /\ ToOrigin(hcpu, "single")
  /\ IF hreinject THEN /\ seen' = [seen EXCEPT ![hcpu] = Int3]
                       /\ at' = [at EXCEPT ![hcpu] = After(at[hcpu])]
                  ELSE UNCHANGED <<seen, at>>
  /\ hpc' = "listen" /\ hcpu' = NULL /\ hreinject' = FALSE
  /\ UNCHANGED <<ret, call, memory, paused, tables, pending, inj, hloop, interrupted,
                 history>>

-----------------------------------------------------------------------------
(* _pre_mem_cb, _post_mem_cb and _singlestep_cb.                             *)

\* A data access to a monitored page: let the vCPU run one instruction in the
\* origin view.  An event for a page that is not in the table is ignored.
PreMem(v) ==
  /\ hpc = "listen" /\ evt[v] \in Frame
  /\ evt' = [evt EXCEPT ![v] = "none"]
  /\ IF evt[v] \in memtraps
     THEN ToOrigin(v, "post")
     ELSE UNCHANGED <<view, step, stepCb>>
  /\ UNCHANGED <<guest, memory, paused, tables, pending, hpc, inj,
                 loopVars, history>>

\* After that instruction, back to the shadow view.  pass->traps is never set,
\* so a page that was written is not copied again.
PostMem(v) ==
  /\ hpc = "listen" /\ evt[v] = "step" /\ stepCb[v] = "post"
  /\ evt' = [evt EXCEPT ![v] = "none"]
  /\ ToShadow(v)
  /\ stepCb' = [stepCb EXCEPT ![v] = "single"]
  /\ UNCHANGED <<guest, memory, paused, tables, pending, hpc, inj,
                 loopVars, history>>

SingleStep(v) ==
  /\ hpc = "listen" /\ evt[v] = "step" /\ stepCb[v] = "single"
  /\ evt' = [evt EXCEPT ![v] = "none"]
  /\ ToShadow(v)
  /\ UNCHANGED <<guest, memory, paused, tables, stepCb, pending, hpc, inj,
                 loopVars, history>>

-----------------------------------------------------------------------------
\* What the handling thread does next by itself, and the events it may take.
Handler ==
  \/ \E t \in SysTrap : Install(t)
  \/ Listen \/ MapShadow \/ CopyShadow \/ Protect \/ Arm
  \/ EntryCallback \/ ReturnCallback \/ Int3Reply

TakeEvent(v) ==
  Int3NoTrap(v) \/ Int3Begin(v) \/ PreMem(v) \/ PostMem(v) \/ SingleStep(v)

Next ==
  \/ \E v \in Vcpu : Guest(v) \/ TakeEvent(v)
  \/ Handler

Spec == Init /\ [][Next]_vars

\* The handling thread is scheduled; the event ring is first-in first-out, so
\* no vCPU's event waits for ever behind others'; a vCPU keeps executing, and
\* a function that was called returns in the end.
Fairness ==
  /\ WF_vars(Handler)
  /\ \A v \in Vcpu : /\ SF_vars(TakeEvent(v))
                    /\ WF_vars(Fetch(v) \/ Run(v))
                    /\ SF_vars(Return(v))

FairSpec == Spec /\ Fairness

-----------------------------------------------------------------------------
(* Properties.                                                               *)

TypeOK ==
  /\ at \in [Vcpu -> Pa \cup {"user", "body", "lost"}]
  /\ ret \in [Vcpu -> RetSite]
  /\ call \in [Vcpu -> 0..MaxCalls]
  /\ seen \in [Vcpu -> Byte \cup {"none", Junk}]
  /\ orig \in [Pa -> Byte]
  /\ shadow \in [Pa -> Byte \cup {Junk}]
  /\ mapped \subseteq Frame /\ guarded \subseteq Frame
  /\ zeroPage \in BOOLEAN /\ paused \in BOOLEAN /\ hreinject \in BOOLEAN
  /\ interrupted \in BOOLEAN
  /\ view \in [Vcpu -> {"shadow", "origin"}]
  /\ step \in [Vcpu -> BOOLEAN]
  /\ evt \in [Vcpu -> Frame \cup {"none", "int3", "step"}]
  /\ remapped \subseteq Frame /\ memtraps \subseteq Frame
  /\ traps \in [Pa -> Seq(Trap)]
  /\ doubletrap \in [Pa -> BOOLEAN]
  /\ stepCb \in [Vcpu -> {"single", "post"}]
  /\ pending \subseteq SysTrap
  /\ hpc \in {"setup", "listen", "traps", "map", "copy", "protect", "arm", "closed", "dead"}
  /\ inj \in Trap \cup {NULL}
  /\ hcpu \in Vcpu \cup {NULL}
  /\ hloop \in Seq(Trap)
  /\ matched \subseteq RetTrap
  /\ fired \subseteq [trap : RetTrap, by : CallId]

\* The traps registered anywhere, and those that are calls being reported.
Registered == UNION {{traps[p][i] : i \in DOMAIN traps[p]} : p \in Pa}
Reported   == {f.trap : f \in fired}

\* A breakpoint that HFM wrote is never visible to a read: the page is closed
\* to data access in the shadow view before INT3 is written (_inject_trap sets
\* the memory event first), whatever the order of injections and removals.
Concealed ==
  \A p \in Pa : /\ FrameOf[p] \in mapped
               /\ shadow[p] = Int3 /\ orig[p] # Int3
               => FrameOf[p] \in guarded

\* A shadow page is the guest's page plus exactly the breakpoints that are
\* registered: no trap without its INT3, and no INT3 left behind by a removal
\* (_inject_trap, _remove_int3, tm_remove_int3trap).
ShadowFaithful ==
  \A p \in Pa : FrameOf[p] \in remapped =>
     shadow[p] = IF traps[p] # <<>> THEN Int3 ELSE orig[p]

\* No breakpoint outlives its traps unnoticed: an INT3 that the shadow view shows
\* and the guest's memory does not hold has a trap that will answer for it, even
\* when calls of the hypervisor fail half way through an injection.  Only a failed
\* _remove_int3 leaves one without, and monitoring has been interrupted then.
NoStrayInt3 ==
  \A p \in Pa : /\ FrameOf[p] \in mapped
               /\ shadow[p] = Int3 /\ orig[p] # Int3
               => traps[p] # <<>> \/ interrupted

\* trapmngr.h on doubletrap: whether the original instruction is INT3.  What
\* _int3_cb decides by it (reinject or not) is decided correctly.
DoubletrapAccurate ==
  \A p \in Pa : traps[p] # <<>> => doubletrap[p] = (orig[p] = Int3)

\* The state that the callbacks decide by is the guest's: what a shadow page shows,
\* and what the engine takes an INT3 for.
Faithful == ShadowFaithful /\ DoubletrapAccurate

\* The origin view is only ever active for a single-stepped instruction: every
\* switch to it comes with single-stepping on, every switch back turns it off,
\* although each handler merely toggles it.
ViewDiscipline == \A v \in Vcpu : step[v] <=> view[v] = "origin"

\* A vCPU that was sent to the origin view never traps again on the same
\* instruction, so the callbacks of a trap run once per execution.
TrapsOnce == \A v \in Vcpu : evt[v] = "int3" => view[v] = "shadow"

\* The loop of _int3_cb only looks at trap_t's that are still registered at the
\* address: it dereferences no trap that a removal has freed.
LoopLive ==
  \A i \in DOMAIN hloop : \E j \in DOMAIN traps[at[hcpu]] :
     hloop[i] = traps[at[hcpu]][j]

\* A return callback frees the parameters its trap carries, so it must be the
\* last to see them: a call that was reported has no trap left anywhere.
ParamsFreedOnce == Reported \cap (Registered \cup {inj}) = {}

\* No callback reads memory that a removal, or a callback before it, has freed: the
\* traps of the loop and the parameters that they carry.
LoopMemory == LoopLive /\ ParamsFreedOnce

\* No matched call is forgotten: until it is reported its trap is registered at
\* its return address, or about to be.
MatchedTracked == matched \subseteq Reported \cup Registered \cup {inj}

\* The instruction at a hooked entry is executed only in the one-instruction
\* window that _int3_cb grants, after its callbacks, or reinjected by it: no
\* vCPU slips past a registered trap while another is being served.
NoMissedCall ==
  [][\A v \in Vcpu :
       (at[v] \in Entry /\ at'[v] # at[v] /\ traps[at[v]] # <<>>)
         => \/ view[v] = "origin" /\ step[v]
            \/ hcpu = v /\ hpc = "traps"]_vars

\* The guest runs as if unmonitored: the engine implements GuestCpu.
Transparent == Native!Spec

\* A vCPU that entered the origin view is monitored again later.
MonitoringResumes ==
  \A v \in Vcpu : view[v] = "origin" ~> view[v] = "shadow"

\* An instruction with a trap on it is executed in the end: the trap delays the
\* guest and never holds it.
GuestProgress ==
  \A v \in Vcpu, p \in Pa : at[v] = p ~> at[v] # p

\* Every matched call is reported in the end.
MatchedReported ==
  \A m \in RetTrap : m \in matched ~> m \in Reported

\* file_created.c: the return callback is called when the function is returned,
\* that is, by the return of the very call that matched.
ReturnOwn == \A f \in fired : f.trap.extra = f.by
=============================================================================
