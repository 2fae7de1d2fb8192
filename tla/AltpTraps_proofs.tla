-------------------------- MODULE AltpTraps_proofs --------------------------
(***************************************************************************)
(* Proofs about AltpTraps, for every number of vCPUs, traps, frames and    *)
(* calls.  TInv is the inductive invariant of the types, which the proofs  *)
(* of the other modules build on.                                          *)
(***************************************************************************)
EXTENDS AltpTraps, SequenceTheorems, TLAPS

-----------------------------------------------------------------------------
(* Types.                                                                    *)

\* Only a vCPU that made a call is at a code address or inside a function.
Called == \A v \in Vcpu : at[v] \in Pa \cup {"body"} => call[v] \in 1..MaxCalls

\* A vCPU suspended on INT3 is at a code address.
Suspended == \A v \in Vcpu : evt[v] = "int3" => at[v] \in Pa

\* The handler's program counter against its local variables; the vCPU that is
\* being served stays suspended.
HandlerOK ==
  /\ hpc \in {"map", "copy", "protect", "arm"} => inj \in Trap
  /\ hpc \in {"setup", "listen"} => hcpu = NULL
  /\ hpc = "traps" => hcpu \in Vcpu
  /\ hcpu \in Vcpu => evt[hcpu] = "int3"

TInv == TypeOK /\ Called /\ Suspended /\ HandlerOK

\* The guest continues after an instruction in its own code, off the addresses
\* of interest.
LEMMA AfterOutside ==
  ASSUME NEW p PROVE After(p) \in {"user", "body"} /\ After(p) \notin Pa
  BY LabelsAssumption DEF After, Native!After

\* Every trap sits at a code address, and one that carries a call is a return
\* trap.
LEMMA TrapFields ==
  ASSUME NEW t \in Trap
  PROVE  /\ t.pa \in Pa /\ t.sys \in SysTrap
         /\ t.extra # NULL => t \in RetTrap
  BY ConstantsAssumption DEF Trap, RetTrap, ReturnPa, EntryTrap

\* Unlinking a trap leaves a list of traps.
LEMMA ListWithoutType ==
  ASSUME TypeOK, NEW t \in Trap
  PROVE  ListWithout(t) \in Seq(Trap)
<1> DEFINE list == traps[t.pa]
           i == CHOOSE j \in DOMAIN list : list[j] = t
<1>1. list \in Seq(Trap)
  BY TrapFields DEF TypeOK
<1>2. CASE \E j \in DOMAIN list : list[j] = t
  <2>1. i \in 1..Len(list)
    BY <1>1, <1>2
  <2>2. SubSeq(list, 1, i-1) \in Seq(Trap) /\ SubSeq(list, i+1, Len(list)) \in Seq(Trap)
    <3>1. \A j \in 1..(i-1) : list[j] \in Trap
      BY <1>1, <2>1
    <3>2. \A j \in (i+1)..Len(list) : list[j] \in Trap
      BY <1>1, <2>1
    <3> HIDE DEF list, i
    <3> QED BY <1>1, <2>1, <3>1, <3>2, SubSeqProperties, Z3
  <2>3. RemoveAt(list, i) \in Seq(Trap)
    BY <2>2 DEF RemoveAt
  <2> QED BY <2>3, <1>2 DEF ListWithout
<1>3. CASE ~ \E j \in DOMAIN list : list[j] = t
  BY <1>1, <1>3 DEF ListWithout
<1> QED BY <1>2, <1>3

\* Adding one does too.
LEMMA ListWithType ==
  ASSUME TypeOK, NEW t \in Trap
  PROVE  ListWith(t) \in Seq(Trap)
  BY TrapFields DEF ListWith, TypeOK

LEMMA InitTInv == Init => TInv
<1> SUFFICES ASSUME Init PROVE TInv
  OBVIOUS
<1> USE ConstantsAssumption, LabelsAssumption DEF Init, Native!Init
<1>1. TypeOK
  <2>1. <<>> \in Seq(Trap)
    BY EmptySeq
  <2>2. orig \in [Pa -> Byte] /\ call \in [Vcpu -> 0..MaxCalls]
    OBVIOUS
  <2> QED BY <2>1, <2>2 DEF TypeOK
<1>2. Called /\ Suspended
  BY DEF Called, Suspended
<1>3. HandlerOK
  BY DEF HandlerOK
<1> QED BY <1>1, <1>2, <1>3 DEF TInv

\* A step that touches no variable of HFM and leaves INT3 events pending keeps
\* TInv if what it does to the guest's variables is well typed.
LEMMA GuestFrame ==
  ASSUME TInv, UNCHANGED hfm,
         at' \in [Vcpu -> Pa \cup {"user", "body", "lost"}],
         ret' \in [Vcpu -> RetSite],
         call' \in [Vcpu -> 0..MaxCalls],
         seen' \in [Vcpu -> Byte \cup {"none", Junk}],
         orig' \in [Pa -> Byte],
         shadow' \in [Pa -> Byte \cup {Junk}],
         evt' \in [Vcpu -> Frame \cup {"none", "int3", "step"}],
         \A u \in Vcpu : evt[u] = "int3" => evt'[u] = "int3",
         Called', Suspended'
  PROVE  TInv'
<1>1. TypeOK'
  BY DEF TInv, TypeOK, hfm, tables, loopVars, history
<1>2. HandlerOK'
  BY DEF TInv, HandlerOK, hfm, loopVars
<1> QED BY <1>1, <1>2 DEF TInv

\* The guest's own steps.
LEMMA GuestTInv ==
  ASSUME TInv, NEW v \in Vcpu, Guest(v)
  PROVE  TInv'
<1> USE DEF Runs, Retire
<1> DEFINE At == Pa \cup {"user", "body", "lost"}
           Seen == Byte \cup {"none", Junk}
           Event == Frame \cup {"none", "int3", "step"}
<1>t. /\ at \in [Vcpu -> At] /\ ret \in [Vcpu -> RetSite]
      /\ call \in [Vcpu -> 0..MaxCalls] /\ seen \in [Vcpu -> Seen]
      /\ evt \in [Vcpu -> Event]
      /\ orig \in [Pa -> Byte] /\ shadow \in [Pa -> Byte \cup {Junk}]
  BY DEF TInv, TypeOK
<1>c. Called /\ Suspended
  BY DEF TInv
<1>f. FrameOf \in [Pa -> Frame] /\ RetSite \subseteq Pa /\ GuestWrites \subseteq Byte
      /\ MaxCalls \in Nat
  BY ConstantsAssumption
<1>l. Pa \cap {"user", "body", "lost"} = {} /\ Frame \cap {"none", "int3", "step"} = {}
  BY LabelsAssumption
<1>h. \A p \in Pa : Holds(v, p) \in Byte \cup {Junk}
  BY <1>t DEF Holds
<1>1. ASSUME NEW e \in (Pa \ RetSite) \cup {"body"}, NEW r \in RetSite, Call(v, e, r)
      PROVE  TInv'
  <2>1. Called' /\ Suspended'
    BY <1>1, <1>t, <1>c, <1>f, <1>l DEF Call, Native!Call, Called, Suspended
  <2> QED BY <1>1, <2>1, <1>t, <1>f, GuestFrame DEF Call, Native!Call
<1>2. CASE Fetch(v)
  <2>1. CASE Holds(v, at[v]) = Int3
    <3>1. Called' /\ Suspended'
      BY <1>2, <2>1, <1>t, <1>c DEF Fetch, guest, Called, Suspended
    <3> QED BY <1>2, <2>1, <3>1, <1>t, GuestFrame DEF Fetch, guest
  <2>2. CASE Holds(v, at[v]) # Int3
    <3> DEFINE b == Holds(v, at[v])
               next == IF b = Junk THEN "lost" ELSE After(at[v])
    <3>1. at[v] \in Pa /\ evt[v] = "none" /\ UNCHANGED <<ret, call, hfm, orig, shadow>>
          /\ evt' = [evt EXCEPT ![v] = IF step[v] THEN "step" ELSE "none"]
          /\ seen' = [seen EXCEPT ![v] = b] /\ at' = [at EXCEPT ![v] = next]
      BY <1>2, <2>2 DEF Fetch
    <3>2. b \in Byte \cup {Junk} /\ next \in {"user", "body", "lost"}
      BY <3>1, <1>h, AfterOutside
    <3> HIDE DEF b, next
    <3>3. Called'
      BY <3>1, <3>2, <1>t, <1>c, <1>l DEF Called
    <3>4. Suspended'
      BY <3>1, <3>2, <1>t, <1>c, <1>l DEF Suspended
    <3>5. seen' \in [Vcpu -> Seen] /\ at' \in [Vcpu -> At]
      BY <3>1, <3>2, <1>t
    <3>6. evt' \in [Vcpu -> Event] /\ \A u \in Vcpu : evt[u] = "int3" => evt'[u] = "int3"
      BY <3>1, <1>t
    <3> QED BY <3>1, <3>3, <3>4, <3>5, <3>6, <1>t, GuestFrame
  <2> QED BY <2>1, <2>2
<1>3. CASE Return(v)
  <2>1. Called' /\ Suspended'
    BY <1>3, <1>t, <1>c, <1>f, <1>l DEF Return, Native!Return, Called, Suspended
  <2> QED BY <1>3, <2>1, <1>t, <1>f, GuestFrame DEF Return, Native!Return
<1>4. CASE Run(v)
  <2>1. Called' /\ Suspended'
    BY <1>4, <1>t, <1>c DEF Run, guest, Called, Suspended
  <2> QED BY <1>4, <2>1, <1>t, GuestFrame DEF Run, guest
<1>5. ASSUME NEW p \in Pa, Read(v, p)
      PROVE  TInv'
  <2> DEFINE b == Holds(v, p)
  <2>1. b \in Byte \cup {Junk} /\ FrameOf[p] \in Frame
    BY <1>h, <1>f
  <2>2. UNCHANGED <<at, ret, call, hfm, orig, shadow>> /\ evt[v] = "none"
        /\ (UNCHANGED seen \/ seen' = [seen EXCEPT ![v] = b])
    BY <1>5 DEF Read
  <2>3. \E e \in Frame \cup {"step", "none"} : evt' = [evt EXCEPT ![v] = e]
    BY <1>5, <2>1 DEF Read
  <2> HIDE DEF b
  <2>4. seen' \in [Vcpu -> Seen]
    BY <2>1, <2>2, <1>t
  <2>5. evt' \in [Vcpu -> Event] /\ \A u \in Vcpu : evt[u] = "int3" <=> evt'[u] = "int3"
    BY <2>2, <2>3, <1>t, <1>l
  <2>6. Called' /\ Suspended'
    BY <2>2, <2>5, <1>c DEF Called, Suspended
  <2> QED BY <2>2, <2>4, <2>5, <2>6, <1>t, GuestFrame
<1>6. ASSUME NEW p \in Pa, NEW b \in GuestWrites, Write(v, p, b)
      PROVE  TInv'
  <2>1. FrameOf[p] \in Frame /\ b \in Byte
    BY <1>f
  <2>2. UNCHANGED <<at, ret, call, seen, hfm>> /\ evt[v] = "none"
        /\ (UNCHANGED orig \/ orig' = [orig EXCEPT ![p] = b])
        /\ (UNCHANGED shadow \/ shadow' = [shadow EXCEPT ![p] = b])
    BY <1>6 DEF Write, guest
  <2>3. \E e \in Frame \cup {"step", "none"} : evt' = [evt EXCEPT ![v] = e]
    BY <1>6, <2>1 DEF Write
  <2>4. orig' \in [Pa -> Byte] /\ shadow' \in [Pa -> Byte \cup {Junk}]
    BY <2>1, <2>2, <1>t
  <2>5. evt' \in [Vcpu -> Event] /\ \A u \in Vcpu : evt[u] = "int3" <=> evt'[u] = "int3"
    BY <2>2, <2>3, <1>t, <1>l
  <2>6. Called' /\ Suspended'
    BY <2>2, <2>5, <1>c DEF Called, Suspended
  <2> QED BY <2>2, <2>4, <2>5, <2>6, <1>t, GuestFrame
<1> QED
  BY <1>1, <1>2, <1>3, <1>4, <1>5, <1>6 DEF Guest

\* What _inject_trap does first is well typed for any trap.
LEMMA BeginInjectType ==
  ASSUME TypeOK, NEW t \in Trap, BeginInject(t)
  PROVE  /\ traps' \in [Pa -> Seq(Trap)]
         /\ \/ UNCHANGED <<inj, hpc>>
            \/ inj' = t /\ hpc' \in {"map", "protect"}
<1>1. ListWith(t) \in Seq(Trap) /\ t.pa \in Pa
  BY ListWithType, TrapFields
<1> QED BY <1>1 DEF BeginInject, TypeOK

\* The steps of an injection.
LEMMA InjectTInv ==
  ASSUME TInv,
         \/ MapShadow \/ CopyShadow \/ Protect \/ Arm \/ Listen
         \/ \E t \in SysTrap : Install(t)
  PROVE  TInv'
<1> USE DEF guest, cpus, tables, loopVars, history, memory
<1>t. TypeOK /\ Called /\ Suspended /\ HandlerOK
  BY DEF TInv
<1>f. FrameOf \in [Pa -> Frame] /\ NULL \notin Vcpu
  BY ConstantsAssumption
<1>i. inj \in Trap => inj.pa \in Pa /\ FrameOf[inj.pa] \in Frame
  BY TrapFields, <1>f
<1>c. ASSUME UNCHANGED <<at, call, evt>>
      PROVE  Called' /\ Suspended'
  BY <1>t, <1>c DEF Called, Suspended
<1>1. CASE MapShadow
  <2>0. inj \in Trap
    BY <1>1, <1>t DEF MapShadow, HandlerOK
  <2>1. shadow' \in [Pa -> Byte \cup {Junk}] /\ mapped' \subseteq Frame
    BY <1>1, <1>t, <1>i, <2>0 DEF MapShadow, TypeOK
  <2>2. TypeOK'
    BY <1>1, <1>t, <2>1 DEF MapShadow, TypeOK
  <2>3. HandlerOK'
    BY <1>1, <1>t, <2>0 DEF MapShadow, HandlerOK
  <2> QED BY <1>1, <1>c, <2>2, <2>3 DEF MapShadow, TInv
<1>2. CASE CopyShadow
  <2>0. inj \in Trap
    BY <1>2, <1>t DEF CopyShadow, HandlerOK
  <2>1. shadow' \in [Pa -> Byte \cup {Junk}] /\ remapped' \subseteq Frame
    BY <1>2, <1>t, <1>i, <2>0 DEF CopyShadow, TypeOK
  <2>2. TypeOK'
    BY <1>2, <1>t, <2>1 DEF CopyShadow, TypeOK
  <2>3. HandlerOK'
    BY <1>2, <1>t, <2>0 DEF CopyShadow, HandlerOK
  <2> QED BY <1>2, <1>c, <2>2, <2>3 DEF CopyShadow, TInv
<1>3. CASE Protect
  <2>0. inj \in Trap
    BY <1>3, <1>t DEF Protect, HandlerOK
  <2>1. guarded' \subseteq Frame /\ memtraps' \subseteq Frame
    BY <1>3, <1>t, <1>i, <2>0 DEF Protect, GuardedWith, TypeOK
  <2>2. TypeOK'
    BY <1>3, <1>t, <2>1 DEF Protect, TypeOK
  <2>3. HandlerOK'
    BY <1>3, <1>t, <2>0 DEF Protect, HandlerOK
  <2> QED BY <1>3, <1>c, <2>2, <2>3 DEF Protect, TInv
<1>4. CASE Arm
  <2>0. inj \in Trap
    BY <1>4, <1>t DEF Arm, HandlerOK
  <2>1. ListWith(inj) \in Seq(Trap) /\ Int3 \in Byte /\ GuestInt3(inj.pa) \in BOOLEAN
    BY <1>t, <2>0, ListWithType, ConstantsAssumption DEF GuestInt3
  <2>2. /\ traps' \in [Pa -> Seq(Trap)] /\ doubletrap' \in [Pa -> BOOLEAN]
        /\ shadow' \in [Pa -> Byte \cup {Junk}] /\ zeroPage' \in BOOLEAN
    BY <1>4, <1>t, <1>i, <2>0, <2>1 DEF Arm, TypeOK
  <2>3. /\ hpc' = IF hcpu = NULL THEN "setup" ELSE "traps"
        /\ inj' = NULL /\ paused' = FALSE
        /\ UNCHANGED <<guest, orig, mapped, guarded, cpus, remapped, memtraps,
                       stepCb, pending, loopVars, history>>
    BY <1>4 DEF Arm, EndInject
  <2>4. TypeOK'
    BY <1>t, <2>2, <2>3 DEF TypeOK
  <2>5. HandlerOK'
    BY <1>t, <2>3 DEF TypeOK, HandlerOK
  <2> QED BY <2>3, <1>c, <2>4, <2>5 DEF TInv
<1>5. CASE Listen
  <2>1. TypeOK'
    BY <1>5, <1>t DEF Listen, TypeOK
  <2>2. HandlerOK'
    BY <1>5, <1>t DEF Listen, HandlerOK
  <2> QED BY <1>5, <1>c, <2>1, <2>2 DEF Listen, TInv
<1>6. ASSUME NEW t \in SysTrap, Install(t)
      PROVE  TInv'
  <2>1. EntryTrap(t) \in Trap
    BY DEF Trap
  <2>2. /\ traps' \in [Pa -> Seq(Trap)] /\ paused' \in BOOLEAN /\ hpc = "setup"
        /\ \/ UNCHANGED <<inj, hpc>>
           \/ inj' \in Trap /\ hpc' \in {"map", "protect"}
        /\ pending' \subseteq SysTrap
        /\ UNCHANGED <<guest, memory, cpus, remapped, doubletrap, memtraps,
                       stepCb, loopVars, history>>
    BY <1>6, <1>t, <2>1, BeginInjectType DEF Install, TypeOK
  <2>3. TypeOK'
    BY <1>t, <2>2 DEF TypeOK
  <2>4. HandlerOK'
    BY <1>t, <1>f, <2>2 DEF HandlerOK
  <2> QED BY <2>2, <1>c, <2>3, <2>4 DEF TInv
<1> QED BY <1>1, <1>2, <1>3, <1>4, <1>5, <1>6

\* The events that are answered at once, and the start of _int3_cb.
LEMMA EventTInv ==
  ASSUME TInv, NEW v \in Vcpu, TakeEvent(v)
  PROVE  TInv'
<1> USE DEF guest, cpus, tables, loopVars, history, memory
<1>t. TypeOK /\ Called /\ Suspended /\ HandlerOK
  BY DEF TInv
<1>f. NULL \notin Vcpu /\ Int3 \in Byte
  BY ConstantsAssumption
<1>l. Pa \cap {"user", "body", "lost"} = {} /\ Frame \cap {"none", "int3", "step"} = {}
  BY LabelsAssumption
<1>1. CASE Int3NoTrap(v)
  <2>1. After(at[v]) \in {"user", "body"} /\ at[v] \in Pa
    BY <1>1, <1>t, AfterOutside DEF Int3NoTrap, Suspended
  <2>2. /\ at' \in [Vcpu -> Pa \cup {"user", "body", "lost"}]
        /\ seen' \in [Vcpu -> Byte \cup {"none", Junk}]
        /\ evt' \in [Vcpu -> Frame \cup {"none", "int3", "step"}]
        /\ interrupted' \in BOOLEAN
    <3>1. /\ at \in [Vcpu -> Pa \cup {"user", "body", "lost"}]
          /\ seen \in [Vcpu -> Byte \cup {"none", Junk}]
          /\ interrupted \in BOOLEAN
          /\ evt \in [Vcpu -> Frame \cup {"none", "int3", "step"}]
      BY <1>t DEF TypeOK
    <3>2. /\ at' = at \/ at' = [at EXCEPT ![v] = After(at[v])]
          /\ seen' = seen \/ seen' = [seen EXCEPT ![v] = Int3]
          /\ evt' = [evt EXCEPT ![v] = "none"]
          /\ interrupted' \in {interrupted, TRUE}
      BY <1>1 DEF Int3NoTrap
    <3> QED BY <3>1, <3>2, <2>1, <1>f
  <2>3. TypeOK'
    BY <1>1, <1>t, <2>2 DEF Int3NoTrap, TypeOK
  <2>4. \A u \in Vcpu : at'[u] \in Pa \cup {"body"} => at[u] \in Pa \cup {"body"}
    BY <1>1, <1>t, <2>1 DEF Int3NoTrap, TypeOK
  <2>5. Called'
    BY <1>1, <1>t, <2>4 DEF Int3NoTrap, Called
  <2>6. Suspended'
    BY <1>1, <1>t DEF Int3NoTrap, Suspended, TypeOK
  <2>7. HandlerOK'
    BY <1>1, <1>t, <1>f DEF Int3NoTrap, HandlerOK, TypeOK
  <2> QED BY <2>3, <2>5, <2>6, <2>7 DEF TInv
<1>2. CASE Int3Begin(v)
  <2>1. at[v] \in Pa
    BY <1>2, <1>t DEF Int3Begin, Suspended
  <2>2. hloop' \in Seq(Trap) /\ hreinject' \in BOOLEAN
    BY <1>2, <1>t, <2>1 DEF Int3Begin, TypeOK
  <2>3. /\ hpc' = "traps" /\ hcpu' = v /\ evt[v] = "int3"
        /\ UNCHANGED <<at, call, evt, inj, matched, fired>>
    BY <1>2 DEF Int3Begin
  <2>4. TypeOK'
    BY <1>2, <1>t, <2>2 DEF Int3Begin, TypeOK
  <2>5. Called' /\ Suspended'
    BY <2>3, <1>t DEF Called, Suspended
  <2>6. HandlerOK'
    BY <2>3, <1>t DEF HandlerOK
  <2> QED BY <2>4, <2>5, <2>6 DEF TInv
<1>3. ASSUME PreMem(v) \/ PostMem(v) \/ SingleStep(v)
      PROVE  TInv'
  <2>1. /\ view' \in [Vcpu -> {"shadow", "origin"}] /\ step' \in [Vcpu -> BOOLEAN]
        /\ stepCb' \in [Vcpu -> {"single", "post"}]
    <3>1. CASE PreMem(v)
      BY <3>1, <1>t DEF PreMem, ToOrigin, TypeOK
    <3>2. CASE PostMem(v) \/ SingleStep(v)
      BY <3>2, <1>t DEF PostMem, SingleStep, ToShadow, TypeOK
    <3> QED BY <1>3, <3>1, <3>2
  <2>2. /\ evt' = [evt EXCEPT ![v] = "none"] /\ evt[v] # "int3"
        /\ UNCHANGED <<guest, memory, paused, tables, pending, hpc, inj,
                       loopVars, history>>
    BY <1>3, <1>l DEF PreMem, PostMem, SingleStep
  <2>3. TypeOK'
    BY <1>t, <2>1, <2>2 DEF TypeOK
  <2>4. Called' /\ Suspended'
    BY <1>t, <2>2 DEF Called, Suspended, TypeOK
  <2>5. HandlerOK'
    BY <1>t, <2>2 DEF HandlerOK, TypeOK
  <2> QED BY <2>3, <2>4, <2>5 DEF TInv
<1> QED BY <1>1, <1>2, <1>3 DEF TakeEvent

\* A vCPU served by _int3_cb is at a code address, in a call it made.
LEMMA ServedVcpu ==
  ASSUME TInv, hpc = "traps"
  PROVE  hcpu \in Vcpu /\ evt[hcpu] = "int3" /\ at[hcpu] \in Pa
         /\ call[hcpu] \in 1..MaxCalls /\ <<hcpu, call[hcpu]>> \in CallId
  BY DEF TInv, HandlerOK, Suspended, Called, CallId

\* r is a trap on the return of the call whose entry is being served.
ForCall(r) ==
  /\ r \in RetTrap /\ r \in Trap /\ r.pa \in ReturnSite(hcpu)
  /\ r.sys = Head(hloop).sys /\ r.extra = <<hcpu, call[hcpu]>>

\* The callback of an entry trap asks for such a trap or for none.
LEMMA EntryStep ==
  ASSUME TInv, EntryCallback
  PROVE  /\ hpc = "traps" /\ hloop # <<>> /\ Head(hloop) \in Trap /\ Head(hloop).extra = NULL
         /\ \/ UNCHANGED <<inj, hpc, traps, matched>> /\ hloop' = Tail(hloop)
            \/ \E r : /\ ForCall(r) /\ BeginInject(r)
                      /\ hloop' = LoopWith(r) /\ matched' = matched \cup {r}
<1>1. hpc = "traps" /\ hloop # <<>> /\ Head(hloop).extra = NULL
  BY DEF EntryCallback
<1>2. Head(hloop) \in Trap
  BY <1>1, HeadTailProperties DEF TInv, TypeOK
<1>3. ASSUME NEW p \in ReturnSite(hcpu)
      PROVE  ForCall(ReturnTrap(Head(hloop), hcpu, p))
  <2>1. ret[hcpu] \in RetSite /\ <<hcpu, call[hcpu]>> \in CallId
    BY <1>1, ServedVcpu DEF TInv, TypeOK
  <2>2. p \in ReturnPa
    BY <1>3, <2>1 DEF ReturnSite, ReturnPa
  <2>3. ReturnTrap(Head(hloop), hcpu, p) \in RetTrap
    BY <1>2, <2>1, <2>2, TrapFields DEF ReturnTrap, RetTrap
  <2> QED BY <1>3, <2>3 DEF ForCall, Trap, ReturnTrap
<1>4. CASE UNCHANGED <<inj, hpc, traps, matched>> /\ hloop' = Tail(hloop)
  BY <1>1, <1>2, <1>4
<1>5. ASSUME NEW p \in ReturnSite(hcpu), NEW r, r = ReturnTrap(Head(hloop), hcpu, p),
             BeginInject(r), hloop' = LoopWith(r), matched' = matched \cup {r}
      PROVE  \E q : /\ ForCall(q) /\ BeginInject(q)
                    /\ hloop' = LoopWith(q) /\ matched' = matched \cup {q}
  BY <1>3, <1>5
<1> QED BY <1>1, <1>2, <1>4, <1>5 DEF EntryCallback

\* The loop of _int3_cb.
LEMMA LoopTInv ==
  ASSUME TInv, EntryCallback \/ ReturnCallback \/ Int3Reply
  PROVE  TInv'
<1> USE DEF guest, cpus, tables, loopVars, history, memory
<1>t. TypeOK /\ Called /\ Suspended /\ HandlerOK /\ hpc = "traps"
  BY DEF TInv, EntryCallback, ReturnCallback, Int3Reply
<1>s. hcpu \in Vcpu /\ evt[hcpu] = "int3" /\ at[hcpu] \in Pa
      /\ <<hcpu, call[hcpu]>> \in CallId
  BY <1>t, ServedVcpu
<1>h. hloop # <<>> => Head(hloop) \in Trap /\ Tail(hloop) \in Seq(Trap)
  BY <1>t, HeadTailProperties DEF TypeOK
<1>f. NULL \notin Vcpu /\ Int3 \in Byte
  BY ConstantsAssumption
<1>1. CASE EntryCallback
  <2>1. \A r : ForCall(r) => r \in RetTrap /\ r \in Trap /\ LoopWith(r) \in Seq(Trap)
    BY <1>1, <1>h, AppendProperties DEF ForCall, LoopWith, EntryCallback
  <2>2. Tail(hloop) \in Seq(Trap) /\ matched \subseteq RetTrap
    BY <1>1, <1>h, <1>t DEF EntryCallback, TypeOK
  <2>3. hloop' \in Seq(Trap) /\ matched' \subseteq RetTrap
    BY <1>1, <2>1, <2>2, EntryStep
  <2>4. /\ traps' \in [Pa -> Seq(Trap)]
        /\ \/ UNCHANGED <<inj, hpc>>
           \/ inj' \in Trap /\ hpc' \in {"map", "protect"}
    BY <1>1, <1>t, <2>1, EntryStep, BeginInjectType DEF TypeOK
  <2>5. TypeOK'
    BY <1>1, <1>t, <2>3, <2>4 DEF EntryCallback, TypeOK
  <2>6. Called' /\ Suspended'
    BY <1>1, <1>t DEF EntryCallback, Called, Suspended
  <2>7. HandlerOK'
    BY <1>1, <1>t, <2>4 DEF EntryCallback, HandlerOK
  <2> QED BY <2>5, <2>6, <2>7 DEF TInv
<1>2. CASE ReturnCallback
  <2> DEFINE t == Head(hloop)
  <2>1. t \in RetTrap /\ t \in Trap /\ t.pa \in Pa
    BY <1>2, <1>h, TrapFields DEF ReturnCallback
  <2>2. traps' \in [Pa -> Seq(Trap)]
    BY <1>2, <1>t, <2>1, ListWithoutType DEF ReturnCallback, TypeOK
  <2>3. /\ doubletrap' \in [Pa -> BOOLEAN] /\ shadow' \in [Pa -> Byte \cup {Junk}]
        /\ interrupted' \in BOOLEAN
    <3>1. /\ doubletrap \in [Pa -> BOOLEAN] /\ shadow \in [Pa -> Byte \cup {Junk}]
          /\ interrupted \in BOOLEAN /\ orig \in [Pa -> Byte]
      BY <1>t DEF TypeOK
    <3>2. /\ UNCHANGED doubletrap \/ doubletrap' = [doubletrap EXCEPT ![t.pa] = FALSE]
          /\ UNCHANGED <<shadow, interrupted>> \/ RemoveInt3(t.pa)
      BY <1>2 DEF ReturnCallback
    <3>3. RemoveInt3(t.pa) => shadow' \in [Pa -> Byte \cup {Junk}] /\ interrupted' \in BOOLEAN
      BY <2>1, <3>1 DEF RemoveInt3, Disarmed
    <3> QED BY <3>1, <3>2, <3>3
  <2>4. hloop' \in Seq(Trap)
    BY <1>2, <1>h, EmptySeq DEF ReturnCallback, NextNode
  <2>5. fired' \subseteq [trap : RetTrap, by : CallId]
    <3>1. fired \subseteq [trap : RetTrap, by : CallId]
      BY <1>t DEF TypeOK
    <3>2. [trap |-> t, by |-> <<hcpu, call[hcpu]>>] \in [trap : RetTrap, by : CallId]
      BY <1>s, <2>1
    <3>3. fired' = fired \cup {[trap |-> t, by |-> <<hcpu, call[hcpu]>>]}
      BY <1>2 DEF ReturnCallback
    <3> QED BY <3>1, <3>2, <3>3, Zenon
  <2>6. hpc' \in {"traps", "dead"}
    BY <1>2 DEF ReturnCallback
  <2>7. UNCHANGED <<guest, orig, mapped, guarded, zeroPage, cpus, paused, remapped,
                    memtraps, stepCb, pending, inj, hcpu, hreinject, matched>>
    BY <1>2 DEF ReturnCallback
  <2>8. TypeOK'
    BY <1>t, <2>2, <2>3, <2>4, <2>5, <2>6, <2>7 DEF TypeOK
  <2>9. Called' /\ Suspended'
    BY <1>t, <2>7 DEF Called, Suspended
  <2>10. HandlerOK'
    BY <1>t, <2>6, <2>7 DEF HandlerOK
  <2> QED BY <2>8, <2>9, <2>10 DEF TInv
<1>3. CASE Int3Reply
  <2>1. After(at[hcpu]) \in {"user", "body"}
    BY AfterOutside
  <2>2. /\ at' \in [Vcpu -> Pa \cup {"user", "body", "lost"}]
        /\ seen' \in [Vcpu -> Byte \cup {"none", Junk}]
        /\ evt' \in [Vcpu -> Frame \cup {"none", "int3", "step"}]
        /\ view' \in [Vcpu -> {"shadow", "origin"}] /\ step' \in [Vcpu -> BOOLEAN]
        /\ stepCb' \in [Vcpu -> {"single", "post"}]
    <3>1. /\ at' \in [Vcpu -> Pa \cup {"user", "body", "lost"}]
          /\ seen' \in [Vcpu -> Byte \cup {"none", Junk}]
      BY <1>3, <1>t, <1>f, <2>1 DEF Int3Reply, TypeOK
    <3>2. evt' \in [Vcpu -> Frame \cup {"none", "int3", "step"}]
      BY <1>3, <1>t DEF Int3Reply, TypeOK
    <3>3. /\ view' \in [Vcpu -> {"shadow", "origin"}] /\ step' \in [Vcpu -> BOOLEAN]
          /\ stepCb' \in [Vcpu -> {"single", "post"}]
      BY <1>3, <1>t DEF Int3Reply, ToOrigin, TypeOK
    <3> QED BY <3>1, <3>2, <3>3
  <2>3. TypeOK'
    BY <1>3, <1>t, <2>2 DEF Int3Reply, TypeOK
  <2>4. \A u \in Vcpu : at'[u] \in Pa \cup {"body"} => at[u] \in Pa \cup {"body"}
    BY <1>3, <1>t, <1>s, <2>1 DEF Int3Reply, TypeOK
  <2>5. Called'
    BY <1>3, <1>t, <2>4 DEF Int3Reply, Called
  <2>6. Suspended'
    BY <1>3, <1>t DEF Int3Reply, Suspended, TypeOK
  <2>7. HandlerOK'
    BY <1>3, <1>t, <1>f DEF Int3Reply, HandlerOK
  <2> QED BY <2>3, <2>5, <2>6, <2>7 DEF TInv
<1> QED BY <1>1, <1>2, <1>3

LEMMA StepTInv == TInv /\ [Next]_vars => TInv'
<1> SUFFICES ASSUME TInv, [Next]_vars PROVE TInv'
  OBVIOUS
<1>1. ASSUME NEW v \in Vcpu, Guest(v) PROVE TInv'
  BY <1>1, GuestTInv
<1>2. ASSUME NEW v \in Vcpu, TakeEvent(v) PROVE TInv'
  BY <1>2, EventTInv
<1>3. CASE Handler
  BY <1>3, InjectTInv, LoopTInv DEF Handler
<1>4. CASE UNCHANGED vars
  BY <1>4 DEF TInv, TypeOK, Called, Suspended, HandlerOK, vars, guest, memory, cpus,
              tables, loopVars, history
<1> QED BY <1>1, <1>2, <1>3, <1>4 DEF Next

THEOREM TInvInvariant == Spec => []TInv
  BY InitTInv, StepTInv, PTL DEF Spec

\* Every variable of the engine stays within its type, whatever the guest writes
\* and whichever calls of the hypervisor fail.
THEOREM TypeCorrect == Spec => []TypeOK
<1>1. TInv => TypeOK
  BY DEF TInv
<1> QED BY <1>1, TInvInvariant, PTL
=============================================================================
