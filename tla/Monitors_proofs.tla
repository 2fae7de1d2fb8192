--------------------------- MODULE Monitors_proofs ---------------------------
(***************************************************************************)
(* What holds of the monitors for any policy files, VMs and guests: the    *)
(* types, that each function is hooked once for each monitor that wants it *)
(* and for no other, that no callback reads parameters that nobody made,   *)
(* and that of each call what policies ask for is reported, once, under    *)
(* the first policy that asks, and nothing else is.                        *)
(***************************************************************************)
EXTENDS Monitors, FiniteSetTheorems, WellFoundedInduction, TLAPS

-----------------------------------------------------------------------------
(* The table of policies.                                                    *)

\* An action that the table knows is a type of policies, or none.
LEMMA ActionType ==
  ASSUME NEW word
  PROVE  LookupAction(word) \in Types \cup {"invalid"}
BY DEF LookupAction, Types

\* What get_policies keeps of a file are policies under their own ids, none of
\* which is 0, with types that have a monitor; and they are finitely many.
LEMMA PoliciesKept ==
  ASSUME NEW file \in Seq(Line)
  PROVE  LET table == GetPolicies(file) IN
         /\ IsFiniteSet(DOMAIN table)
         /\ DOMAIN table \subseteq Int \ {0}
         /\ \A id \in DOMAIN table :
              /\ table[id] \in Policy /\ table[id].id = id
              /\ table[id].type \in Types
<1> DEFINE kept == {i \in DOMAIN file : Kept(file, i)}
           ids == {file[i].id : i \in kept}
           At(id) == file[CHOOSE i \in kept : file[i].id = id]
           table == GetPolicies(file)
<1>1. /\ DOMAIN table = ids
      /\ \A id \in ids : table[id] = [id |-> id, type |-> LookupAction(At(id).action),
                                      path |-> At(id).path, extract |-> At(id).extract]
  BY Zenon DEF GetPolicies
<1>2. IsFiniteSet(ids)
  <2>1. IsFiniteSet(1..Len(file))
    BY FS_Interval
  <2>2. kept \subseteq 1..Len(file)
    OBVIOUS
  <2>3. IsFiniteSet(kept)
    BY <2>1, <2>2, FS_Subset
  <2> DEFINE idOf == [i \in kept |-> file[i].id]
  <2>4. idOf \in Surjection(kept, ids)
    BY DEF Surjection
  <2> QED
    BY <2>3, <2>4, FS_Surjection
<1>3. ASSUME NEW id \in ids
      PROVE  /\ At(id) \in Line /\ CheckValid(At(id)) /\ At(id).id = id
  <2>1. \E i \in kept : file[i].id = id
    OBVIOUS
  <2>2. PICK i \in kept : i = (CHOOSE j \in kept : file[j].id = id) /\ file[i].id = id
    BY <2>1
  <2>3. file[i] \in Line /\ Kept(file, i)
    OBVIOUS
  <2> QED
    BY <2>2, <2>3 DEF Kept
<1>4. ASSUME NEW id \in ids
      PROVE  /\ id \in Int \ {0}
             /\ table[id] \in Policy /\ table[id].id = id /\ table[id].type \in Types
  <2> DEFINE line == At(id)
  <2>1. line \in Line /\ CheckValid(line) /\ line.id = id
    BY <1>3
  <2>2. id \in Int \ {0} /\ line.path \in SUBSET Name /\ line.extract \in BOOLEAN
    BY <2>1 DEF Line, CheckValid
  <2>3. LookupAction(line.action) \in Types
    BY <2>1, ActionType DEF CheckValid
  <2>4. table[id] = [id |-> id, type |-> LookupAction(line.action),
                     path |-> line.path, extract |-> line.extract]
    BY <1>1
  <2> HIDE DEF line
  <2> QED
    BY <2>2, <2>3, <2>4 DEF Policy
<1> QED
  BY <1>1, <1>2, <1>4

\* A listing of finitely many ids is a sequence of them that has them all.
LEMMA ListingIsSeq ==
  ASSUME NEW ids, IsFiniteSet(ids), NEW l \in Listings(ids)
  PROVE  l \in Seq(ids) /\ \A id \in ids : \E i \in DOMAIN l : l[i] = id
<1>1. Cardinality(ids) \in Nat
  BY FS_CardinalityType
<1>2. l \in [1..Cardinality(ids) -> ids] /\ \A id \in ids : \E i \in DOMAIN l : l[i] = id
  BY DEF Listings
<1> QED
  BY <1>1, <1>2

-----------------------------------------------------------------------------
(* Types.                                                                    *)

\* What TypeOK says of the table, the filters and the policies to be added, and
\* that every policy has a monitor and every policy of the table is listed.
SettingsOK ==
  /\ DOMAIN policies \subseteq Int \ {0}
  /\ \A id \in DOMAIN policies :
       policies[id] \in Policy /\ policies[id].id = id /\ policies[id].type \in Types
  /\ order \in Seq(DOMAIN policies)
  /\ \A id \in DOMAIN policies : \E i \in DOMAIN order : order[i] = id

LEMMA SettingsInit == Init => SettingsOK
<1> SUFFICES ASSUME Init PROVE SettingsOK
  OBVIOUS
<1>1. PICK file \in PolicyFile : policies = GetPolicies(file)
  BY DEF Init
<1>2. file \in Seq(Line) /\ order \in Listings(DOMAIN policies)
  BY MonitorsAssumption DEF Init
<1> QED
  BY <1>1, <1>2, PoliciesKept, ListingIsSeq DEF SettingsOK

\* The settings are made once.
LEMMA SettingsStep == SettingsOK /\ [Next]_vars => UNCHANGED settings /\ SettingsOK'
<1> SUFFICES ASSUME SettingsOK, [Next]_vars PROVE UNCHANGED settings /\ SettingsOK'
  OBVIOUS
<1>1. UNCHANGED settings
  BY DEF Next, vars, settings, Setup, StartSetup, AddPolicy, EndSetup, GoDown, Enter,
         EntryCallback, Return, ReturnCallback
<1> QED
  BY <1>1 DEF SettingsOK, settings

\* A set of naturals that is not empty has a least element.
LEMMA LeastIndex ==
  ASSUME NEW found \in SUBSET Nat, found # {}
  PROVE  \E i \in found : \A j \in found : i <= j
<1>1. \E i \in found : \A j \in found : ~(<<j, i>> \in OpToRel(<, Nat))
  BY NatLessThanWellFounded, WFMin
<1>2. PICK i \in found : \A j \in found : ~(<<j, i>> \in OpToRel(<, Nat))
  BY <1>1
<1>3. ASSUME NEW j \in found PROVE i <= j
  <2>1. i \in Nat /\ j \in Nat
    OBVIOUS
  <2>2. j < i => <<j, i>> \in OpToRel(<, Nat)
    BY <2>1, Zenon DEF OpToRel
  <2>3. ~(j < i)
    BY <1>2, <2>2, Zenon
  <2> QED
    BY <2>1, <2>3
<1> QED
  BY <1>3

\* filter_match answers with the id of a pattern that matches, the first of these.
LEMMA FilterMatchFirst ==
  ASSUME NEW type \in Types, NEW name,
         DOMAIN policies \subseteq Int, filter[type] \in Seq(DOMAIN policies),
         FilterMatch(type, name) >= 0
  PROVE  \E i \in Matching(type, name) :
           /\ FilterMatch(type, name) = filter[type][i]
           /\ filter[type][i] \in DOMAIN policies
           /\ \A j \in Matching(type, name) : i <= j
<1> DEFINE found == Matching(type, name)
<1>1. found # {}
  BY DEF FilterMatch, NoMatch
<1>2. found \subseteq DOMAIN filter[type] /\ DOMAIN filter[type] \subseteq Nat
  BY DEF Matching
<1>3. \E i \in found : \A j \in found : i <= j
  BY <1>1, <1>2, LeastIndex
<1>4. PICK i \in found : /\ i = (CHOOSE k \in found : \A j \in found : k <= j)
                         /\ \A j \in found : i <= j
  BY <1>3
<1>5. FilterMatch(type, name) = filter[type][i]
  BY <1>1, <1>4 DEF FilterMatch
<1>6. filter[type][i] \in DOMAIN policies
  BY <1>2
<1> QED
  BY <1>4, <1>5, <1>6

\* The answer is the id of a policy or -1.
LEMMA FilterMatchAnswer ==
  ASSUME NEW type \in Types, NEW name,
         DOMAIN policies \subseteq Int, filter[type] \in Seq(DOMAIN policies)
  PROVE  FilterMatch(type, name) \in Int
<1> DEFINE found == Matching(type, name)
<1>1. CASE found = {}
  BY <1>1 DEF FilterMatch, NoMatch
<1>2. CASE found # {}
  <2>1. found \subseteq DOMAIN filter[type] /\ DOMAIN filter[type] \subseteq Nat
    BY DEF Matching
  <2>2. \E i \in found : \A j \in found : i <= j
    BY <1>2, <2>1, LeastIndex
  <2>3. PICK i \in found : i = (CHOOSE k \in found : \A j \in found : k <= j)
    BY <2>2
  <2>4. FilterMatch(type, name) = filter[type][i]
    BY <1>2, <2>3 DEF FilterMatch
  <2> QED
    BY <2>1, <2>4
<1> QED
  BY <1>1, <1>2

\* Only setinformation_cb of file_created.c hands on what it has not made, and a
\* caller that is not in a call has nothing to be run.
OwnOK ==
  \A c \in Caller :
    /\ pc[c] = "idle" => tracked[c] = {}
    /\ \A params \in tracked[c] :
         ~params.own => params.type = "create" /\ call[c].func \in SetInfoFuncs

TInv == TypeOK /\ SettingsOK /\ OwnOK

LEMMA TypesInit == Init => TInv
<1> SUFFICES ASSUME Init, SettingsOK PROVE TypeOK /\ OwnOK
  BY SettingsInit DEF TInv
<1>1. NothingDue \in [Types -> Nat] /\ NoHooks \in [Func -> [Types -> Nat]]
  BY DEF NothingDue, NoHooks
<1>2. NoCall \in Call
  BY MonitorsAssumption DEF NoCall, Call, Func, OpenFuncs, Classes, Statuses, Infos
<1>3. OwnOK
  BY DEF Init, OwnOK
<1>4. SetupTypeOK
  BY <1>1, MonitorsAssumption DEF Init, SettingsOK, SetupTypeOK
<1>5. CallsTypeOK
  BY <1>1, <1>2 DEF Init, CallsTypeOK
<1> QED
  BY <1>3, <1>4, <1>5 DEF TypeOK

\* What a callback reads of a call is a call of the same function; only the monitors
\* of deletions and attributes read its class and its flag.
LEMMA ReadAsCall ==
  ASSUME CallsTypeOK, NEW c \in Caller, NEW type, NEW made \in ReadAs(c, type)
  PROVE  /\ made \in Call /\ made.func = call[c].func
         /\ type \notin {"delete", "attr"} =>
              made.class = call[c].class /\ made.flag = call[c].flag
<1>1. call[c] \in Call
  BY DEF CallsTypeOK
<1>2. PICK name \in ReadName(c),
           class \in IF type \in {"delete", "attr"} THEN ReadClass(c) ELSE {call[c].class},
           flag \in IF type \in {"delete", "attr"} THEN ReadFlag(c) ELSE {call[c].flag} :
        made = AsRead(call[c], name, class, flag)
  BY DEF ReadAs
<1>3. name \in Name
  BY <1>1, MonitorsAssumption DEF ReadName, ReadOfAttributes, ReadOfHandle, ReadUnicode, Call
<1>4. class \in Classes /\ flag \in BOOLEAN
  BY <1>1, <1>2 DEF ReadClass, ReadFlag, Call, Classes
<1> QED
  BY <1>1, <1>2, <1>3, <1>4 DEF AsRead, Call

\* A report on a policy of the table is a report.
LEMMA ReportedType ==
  ASSUME NEW func, NEW type \in Types, NEW id \in DOMAIN policies, NEW name \in Name,
         DOMAIN policies \subseteq Int, NEW report \in Reported(func, type, id, name)
  PROVE  report \in Report /\ report.type = type /\ report.id = id /\ report.name = name
<1>1. PICK e \in BOOLEAN : report = [type |-> type, action |-> "create", id |-> id,
                                    name |-> name, extracted |-> e]
  BY Zenon DEF Reported, Extracted
<1>2. id \in Int /\ "create" \in Types
  BY DEF Types
<1>3. report \in Report
  BY <1>1, <1>2, Zenon DEF Report
<1> QED
  BY <1>1, <1>3

\* The first of a sequence, and the others.
LEMMA HeadAndTail ==
  ASSUME NEW S, NEW l \in Seq(S), l # <<>>
  PROVE  /\ Head(l) \in S /\ Tail(l) \in Seq(S)
         /\ \A x \in S : (\E i \in DOMAIN l : l[i] = x)
              => x = Head(l) \/ \E i \in DOMAIN Tail(l) : Tail(l)[i] = x
<1>1. Head(l) = l[1] /\ 1 \in DOMAIN l /\ Tail(l) \in Seq(S)
  OBVIOUS
<1>2. ASSUME NEW i \in DOMAIN l, i # 1
      PROVE  i - 1 \in DOMAIN Tail(l) /\ Tail(l)[i - 1] = l[i]
  BY <1>2
<1> QED
  BY <1>1, <1>2

LEMMA MoreHooksType ==
  ASSUME NEW of \in [Func -> [Types -> Nat]], NEW funcs, NEW type \in Types
  PROVE  /\ MoreHooks(of, funcs, type) \in [Func -> [Types -> Nat]]
         /\ \A func \in Func, other \in Types :
              MoreHooks(of, funcs, type)[func][other] =
                IF other = type /\ func \in funcs THEN of[func][other] + 1
                ELSE of[func][other]
<1>1. ASSUME NEW func \in Func
      PROVE  /\ [of[func] EXCEPT ![type] = @ + IF func \in funcs THEN 1 ELSE 0] \in [Types -> Nat]
             /\ \A other \in Types :
                  [of[func] EXCEPT ![type] = @ + IF func \in funcs THEN 1 ELSE 0][other] =
                    IF other = type /\ func \in funcs THEN of[func][other] + 1
                    ELSE of[func][other]
  <2>1. of[func] \in [Types -> Nat]
    OBVIOUS
  <2> QED
    BY <2>1
<1> QED
  BY <1>1 DEF MoreHooks

LEMMA HookedFuncs == \A type, vm : Hooked(type, vm) \subseteq Func
BY DEF Hooked, CreateHooks, DeleteHooks, ModifyHooks, AttrHooks, AccessHooks,
       Func, OpenFuncs, SetInfoFuncs, WriteFuncs, SecurityFuncs

\* The steps of hfm_set_policies, and a VM that goes down.
LEMMA TypesSetup ==
  ASSUME TInv, NEW vm \in Vm, Setup(vm) \/ GoDown(vm), SettingsOK', UNCHANGED settings
  PROVE  TypeOK' /\ OwnOK'
<1> USE DEF TInv, TypeOK, settings
<1>1. NothingDue \in [Types -> Nat] /\ NoHooks \in [Func -> [Types -> Nat]] /\ NoCall \in Call
  BY MonitorsAssumption
     DEF NothingDue, NoHooks, NoCall, Call, Func, OpenFuncs, Classes, Statuses, Infos
<1>2. CASE StartSetup(vm)
  <2>1. SetupTypeOK'
    BY <1>1, <1>2 DEF StartSetup, SetupTypeOK, Flags
  <2>2. CallsTypeOK' /\ OwnOK'
    BY <1>2 DEF StartSetup, CallsTypeOK, OwnOK, calls
  <2> QED
    BY <2>1, <2>2
<1>3. CASE AddPolicy(vm)
  <2> DEFINE id == Head(left)  type == policies[id].type
  <2>1. id \in DOMAIN policies /\ type \in Types /\ Tail(left) \in Seq(DOMAIN policies)
    <3>1. left \in Seq(DOMAIN policies) /\ left # <<>>
      BY <1>3 DEF AddPolicy, SetupTypeOK
    <3>2. id \in DOMAIN policies /\ Tail(left) \in Seq(DOMAIN policies)
      BY <3>1, HeadAndTail
    <3> QED
      BY <3>2 DEF SettingsOK
  <2>2. filter' \in [Types -> Seq(DOMAIN policies)]
    <3>1. filter[type] \in Seq(DOMAIN policies)
      BY <2>1 DEF SetupTypeOK
    <3>2. Append(filter[type], id) \in Seq(DOMAIN policies)
      BY <2>1, <3>1
    <3> QED
      BY <1>3, <2>1, <3>2 DEF AddPolicy, SetupTypeOK, Extended
  <2>3. inited' \in [Vm -> SUBSET Types]
    <3>1. inited \in [Vm -> SUBSET Types] /\ inited[vm] \cup {type} \in SUBSET Types
      BY <2>1 DEF SetupTypeOK
    <3>2. inited' = inited \/ inited' = [inited EXCEPT ![vm] = @ \cup {type}]
      BY <1>3 DEF AddPolicy
    <3> QED
      BY <3>1, <3>2
  <2>4. hooks' \in [Vm -> [Func -> [Types -> Nat]]]
    <3>1. CASE UNCHANGED hooks
      BY <3>1 DEF SetupTypeOK
    <3>2. ASSUME NEW found \in SUBSET Func,
                 hooks' = [hooks EXCEPT ![vm] = MoreHooks(@, found, type)]
          PROVE  hooks' \in [Vm -> [Func -> [Types -> Nat]]]
      <4>1. hooks \in [Vm -> [Func -> [Types -> Nat]]]
        BY DEF SetupTypeOK
      <4>2. MoreHooks(hooks[vm], found, type) \in [Func -> [Types -> Nat]]
        BY <4>1, <2>1, MoreHooksType
      <4> QED
        BY <3>2, <4>1, <4>2
    <3> QED
      BY <1>3, <3>1, <3>2, HookedFuncs DEF AddPolicy
  <2>5. SetupTypeOK'
    BY <1>3, <2>1, <2>2, <2>3, <2>4 DEF AddPolicy, SetupTypeOK
  <2>6. CallsTypeOK' /\ OwnOK'
    BY <1>3 DEF AddPolicy, CallsTypeOK, OwnOK, calls
  <2> QED
    BY <2>5, <2>6
<1>4. CASE EndSetup(vm)
  <2>1. SetupTypeOK'
    BY <1>4 DEF EndSetup, SetupTypeOK
  <2>2. CallsTypeOK' /\ OwnOK'
    BY <1>4 DEF EndSetup, CallsTypeOK, OwnOK, calls
  <2> QED
    BY <2>1, <2>2
<1>5. CASE GoDown(vm)
  <2>1. SetupTypeOK'
    BY <1>5, MonitorsAssumption DEF GoDown, SetupTypeOK
  <2>2. CallsTypeOK' /\ OwnOK'
    BY <1>1, <1>5 DEF GoDown, CallsTypeOK, OwnOK
  <2> QED
    BY <2>1, <2>2
<1> QED
  BY <1>2, <1>3, <1>4, <1>5 DEF Setup

\* One more report on a policy of the table.
LEMMA ReportsType ==
  ASSUME CallsTypeOK, NEW c \in Caller, NEW report \in Report, report.id \in DOMAIN policies,
         reports' = [reports EXCEPT ![c] = Append(@, report)]
  PROVE  /\ reports' \in [Caller -> Seq(Report)]
         /\ \A d \in Caller : \A i \in DOMAIN reports'[d] : reports'[d][i].id \in DOMAIN policies
<1>1. reports \in [Caller -> Seq(Report)]
  BY DEF CallsTypeOK
<1>2. Append(reports[c], report) \in Seq(Report)
  BY <1>1
<1>3. ASSUME NEW i \in DOMAIN Append(reports[c], report)
      PROVE  Append(reports[c], report)[i].id \in DOMAIN policies
  <2>1. reports[c] \in Seq(Report) /\ \A j \in DOMAIN reports[c] : reports[c][j].id \in DOMAIN policies
    BY <1>1 DEF CallsTypeOK
  <2> QED
    BY <2>1
<1>4. reports'[c] = Append(reports[c], report) /\ \A d \in Caller \ {c} : reports'[d] = reports[d]
  BY <1>1
<1>5. ASSUME NEW d \in Caller PROVE \A i \in DOMAIN reports'[d] : reports'[d][i].id \in DOMAIN policies
  <2>1. CASE d = c
    BY <1>3, <1>4, <2>1
  <2>2. CASE d # c
    BY <1>4, <2>2 DEF CallsTypeOK
  <2> QED
    BY <2>1, <2>2
<1> QED
  BY <1>1, <1>2, <1>5

\* A guest's thread calls.
LEMMA TypesEnter ==
  ASSUME TInv, NEW c \in Caller, NEW request \in Request, Enter(c, request), UNCHANGED settings
  PROVE  TypeOK' /\ OwnOK'
<1> USE DEF TInv, TypeOK, settings
<1>1. request \in Call /\ request.func \in Func
  BY RequestAssumption DEF Call
<1>2. hooks[VmOf[c]][request.func] \in [Types -> Nat]
  BY <1>1, MonitorsAssumption DEF SetupTypeOK
<1>3. tracked[c] = {}
  BY DEF Enter, Over, OwnOK
<1>4. CallsTypeOK'
  <2>1. pc' \in [Caller -> {"idle", "entered", "returned"}] /\ call' \in [Caller -> Call]
    BY <1>1 DEF Enter, CallsTypeOK
  <2>2. /\ due' \in [Caller -> [Types -> Nat]]
        /\ misread' \in [Caller -> SUBSET Types] /\ misjudged' \in [Caller -> SUBSET Types]
    BY <1>2 DEF Enter, CallsTypeOK
  <2>3. reports' \in [Caller -> Seq(Report)]
        /\ \A d \in Caller : \A i \in DOMAIN reports'[d] : reports'[d][i].id \in DOMAIN policies
    BY DEF Enter, CallsTypeOK
  <2> QED
    BY <2>1, <2>2, <2>3 DEF Enter, CallsTypeOK
<1>5. SetupTypeOK'
  BY DEF Enter, SetupTypeOK, setup
<1>6. OwnOK'
  BY <1>3 DEF Enter, OwnOK, CallsTypeOK
<1> QED
  BY <1>4, <1>5, <1>6

\* A callback is run on entry.
LEMMA TypesEntryCallback ==
  ASSUME TInv, NEW c \in Caller, NEW type \in Types, EntryCallback(c, type), UNCHANGED settings
  PROVE  TypeOK' /\ OwnOK'
<1> USE DEF TInv, TypeOK, settings
<1>1. SetupTypeOK'
  BY DEF EntryCallback, SetupTypeOK, setup
<1>2. pc' \in [Caller -> {"idle", "entered", "returned"}] /\ call' \in [Caller -> Call]
  BY DEF EntryCallback, CallsTypeOK
<1>3. due' \in [Caller -> [Types -> Nat]]
  <2>1. due \in [Caller -> [Types -> Nat]] /\ due[c] \in [Types -> Nat] /\ due[c][type] - 1 \in Nat
    BY DEF EntryCallback, CallsTypeOK
  <2>2. [due[c] EXCEPT ![type] = due[c][type] - 1] \in [Types -> Nat]
    BY <2>1
  <2>3. due' = [due EXCEPT ![c] = [due[c] EXCEPT ![type] = due[c][type] - 1]]
    BY Zenon DEF EntryCallback
  <2> QED
    BY <2>1, <2>2, <2>3
<1>4. PICK made \in ReadAs(c, type) :
        /\ misread' = [misread EXCEPT ![c] =
                         IF made.name = call[c].name THEN @ ELSE @ \cup {type}]
        /\ misjudged' = [misjudged EXCEPT ![c] =
                           IF made.class = call[c].class /\ made.flag = call[c].flag
                           THEN @ ELSE @ \cup {type}]
        /\ LET id == FilterMatch(type, made.name) IN
           \/ /\ ReportsAtOnce(type, made)
              /\ \E report \in Reported(made.func, type, id, made.name) :
                   reports' = [reports EXCEPT ![c] = Append(@, report)]
              /\ UNCHANGED tracked
           \/ /\ Tracks(type, made)
              /\ tracked' = [tracked EXCEPT ![c] =
                   @ \cup {[type |-> type, id |-> id, name |-> made.name, own |-> TRUE]}]
              /\ UNCHANGED reports
           \/ /\ ReturnsAnything(type, made)
              /\ tracked' = [tracked EXCEPT ![c] =
                   @ \cup {[type |-> type, id |-> NoMatch, name |-> NoName, own |-> FALSE]}]
              /\ UNCHANGED reports
           \/ /\ ~ReportsAtOnce(type, made) /\ ~Tracks(type, made)
              /\ UNCHANGED <<tracked, reports>>
  BY Zenon DEF EntryCallback
<1> DEFINE name == made.name  func == made.func
<1>5. name \in Name /\ NoName \in Name /\ NoMatch \in Int /\ func = call[c].func
  BY ReadAsCall, MonitorsAssumption DEF NoMatch, Call
<1>6. misread' \in [Caller -> SUBSET Types] /\ misjudged' \in [Caller -> SUBSET Types]
  <2>1. /\ misread \in [Caller -> SUBSET Types] /\ misread[c] \cup {type} \in SUBSET Types
        /\ misjudged \in [Caller -> SUBSET Types] /\ misjudged[c] \cup {type} \in SUBSET Types
    BY DEF CallsTypeOK
  <2> QED
    BY <1>4, <2>1
<1> DEFINE id == FilterMatch(type, name)
<1>7. id \in Int /\ (id >= 0 => id \in DOMAIN policies)
  <2>1. DOMAIN policies \subseteq Int /\ filter[type] \in Seq(DOMAIN policies)
    BY DEF SetupTypeOK
  <2>2. id \in Int
    BY <2>1, FilterMatchAnswer
  <2>3. ASSUME id >= 0 PROVE id \in DOMAIN policies
    <3>1. \E i \in Matching(type, name) : id = filter[type][i] /\ filter[type][i] \in DOMAIN policies
      BY <2>1, <2>3, FilterMatchFirst
    <3> QED
      BY <3>1, Zenon
  <2> QED
    BY <2>2, <2>3
<1>8. DOMAIN policies \subseteq Int
  BY DEF SetupTypeOK
<1>9. pc[c] = "entered" /\ UNCHANGED <<pc, call, policies>>
  BY DEF EntryCallback
<1>10. CASE /\ ReportsAtOnce(type, made) /\ UNCHANGED tracked
            /\ \E report \in Reported(func, type, id, name) :
                 reports' = [reports EXCEPT ![c] = Append(@, report)]
  <2>1. id \in DOMAIN policies
    BY <1>7, <1>10 DEF ReportsAtOnce
  <2>2. PICK report \in Reported(func, type, id, name) :
          reports' = [reports EXCEPT ![c] = Append(@, report)]
    BY <1>10
  <2>3. report \in Report /\ report.id \in DOMAIN policies
    BY <1>5, <1>8, <2>1, ReportedType
  <2>4. /\ reports' \in [Caller -> Seq(Report)]
        /\ \A d \in Caller : \A i \in DOMAIN reports'[d] : reports'[d][i].id \in DOMAIN policies
    BY <2>2, <2>3, ReportsType
  <2>5. CallsTypeOK'
    BY <1>2, <1>3, <1>6, <1>9, <1>10, <2>4 DEF CallsTypeOK
  <2> QED
    BY <1>1, <1>9, <1>10, <2>5 DEF OwnOK
<1>11. ASSUME NEW params \in Params, UNCHANGED reports,
              tracked' = [tracked EXCEPT ![c] = @ \cup {params}],
              params.own => params.id \in DOMAIN policies,
              ~params.own => params.type = "create" /\ call[c].func \in SetInfoFuncs
       PROVE  TypeOK' /\ OwnOK'
  <2>1. /\ tracked \in [Caller -> SUBSET Params] /\ tracked[c] \cup {params} \in SUBSET Params
        /\ tracked'[c] = tracked[c] \cup {params}
        /\ \A d \in Caller \ {c} : tracked'[d] = tracked[d]
    BY <1>11 DEF CallsTypeOK
  <2>2. tracked' \in [Caller -> SUBSET Params]
    BY <1>11, <2>1
  <2>3. \A d \in Caller : \A other \in tracked'[d] : other.own => other.id \in DOMAIN policies
    BY <1>11, <2>1 DEF CallsTypeOK
  <2>4. CallsTypeOK'
    BY <1>2, <1>3, <1>6, <1>9, <1>11, <2>2, <2>3 DEF CallsTypeOK
  <2>5. OwnOK'
    BY <1>9, <1>11, <2>1 DEF OwnOK
  <2> QED
    BY <1>1, <2>4, <2>5
<1>12. CASE /\ Tracks(type, made) /\ UNCHANGED reports
            /\ tracked' = [tracked EXCEPT ![c] =
                 @ \cup {[type |-> type, id |-> id, name |-> name, own |-> TRUE]}]
  <2>1. id >= 0
    <3>1. id >= 0 \/ id > 0
      BY <1>12, Zenon DEF Tracks, CreatefileTracks, WritefileTracks, SetsecurityTracks
    <3> HIDE DEF id
    <3> QED
      BY <1>7, <3>1
  <2>2. id \in DOMAIN policies /\ id \in Int
    BY <1>7, <1>8, <2>1
  <2> DEFINE params == [type |-> type, id |-> id, name |-> name, own |-> TRUE]
  <2>3. params \in Params /\ params.own /\ params.id = id
    BY <1>5, <2>2, Zenon DEF Params
  <2> HIDE DEF params
  <2> QED
    BY <1>11, <1>12, <2>2, <2>3 DEF params
<1>13. CASE /\ ReturnsAnything(type, made) /\ UNCHANGED reports
            /\ tracked' = [tracked EXCEPT ![c] =
                 @ \cup {[type |-> type, id |-> NoMatch, name |-> NoName, own |-> FALSE]}]
  <2> DEFINE params == [type |-> type, id |-> NoMatch, name |-> NoName, own |-> FALSE]
  <2>1. params \in Params /\ ~params.own /\ params.type = type
    BY <1>5, Zenon DEF Params
  <2>2. type = "create" /\ call[c].func \in SetInfoFuncs
    BY <1>5, <1>13 DEF ReturnsAnything
  <2> HIDE DEF params
  <2> QED
    BY <1>11, <1>13, <2>1, <2>2 DEF params
<1>14. CASE UNCHANGED <<tracked, reports>>
  <2>1. CallsTypeOK'
    BY <1>2, <1>3, <1>6, <1>9, <1>14 DEF CallsTypeOK
  <2> QED
    BY <1>1, <1>9, <1>14, <2>1 DEF OwnOK
<1> QED
  BY <1>4, <1>10, <1>12, <1>13, <1>14

\* The function returns.
LEMMA TypesReturn ==
  ASSUME TInv, NEW c \in Caller, Return(c), UNCHANGED settings
  PROVE  TypeOK' /\ OwnOK'
<1> USE DEF TInv, TypeOK, settings
<1>1. SetupTypeOK'
  BY DEF Return, SetupTypeOK, setup
<1>2. PICK end \in Ends(c) : call' = [call EXCEPT ![c] = end]
  BY DEF Return
<1>3. call \in [Caller -> Call] /\ call[c] \in Call
  BY DEF CallsTypeOK
<1>4. PICK status \in Statuses, info \in Infos : end = EndedAs(call[c], status, info)
  <2>1. InfosOf(call[c].func) \subseteq Infos
    BY DEF InfosOf, Infos
  <2> QED
    BY <2>1 DEF Ends
<1>5. end \in Call /\ end.func = call[c].func
  BY <1>3, <1>4 DEF Call, EndedAs
<1>6. /\ call' \in [Caller -> Call] /\ call'[c].func = call[c].func
      /\ \A d \in Caller \ {c} : call'[d] = call[d]
  BY <1>2, <1>3, <1>5
<1>7. CallsTypeOK'
  BY <1>6 DEF Return, CallsTypeOK
<1>8. OwnOK'
  BY <1>6 DEF Return, CallsTypeOK, OwnOK
<1> QED
  BY <1>1, <1>7, <1>8

\* A callback is run on return.
LEMMA TypesReturnCallback ==
  ASSUME TInv, NEW c \in Caller, NEW params \in tracked[c], ReturnCallback(c, params),
         UNCHANGED settings
  PROVE  TypeOK' /\ OwnOK'
<1> USE DEF TInv, TypeOK, settings
<1>1. SetupTypeOK'
  BY DEF ReturnCallback, SetupTypeOK, setup
<1>2. /\ tracked \in [Caller -> SUBSET Params] /\ params \in Params
      /\ tracked' = [tracked EXCEPT ![c] = @ \ {params}]
      /\ UNCHANGED <<policies, pc, call, due, misread>>
  BY DEF ReturnCallback, CallsTypeOK, Without
<1> PICK info \in ReadInfo(c, params.type) :
        LET confirmed == /\ ReadsParams(call[c].func, params.type)
                         /\ Confirms(params.type, info, call[c].status) IN
        /\ misjudged' = [misjudged EXCEPT ![c] =
                           IF info = call[c].info THEN @ ELSE @ \cup {params.type}]
        /\ \/ /\ confirmed
              /\ \E report \in Reported(call[c].func, params.type, params.id, params.name) :
                   reports' = [reports EXCEPT ![c] = Append(@, report)]
           \/ ~confirmed /\ UNCHANGED reports
  BY Zenon DEF ReturnCallback
<1>3. tracked' \in [Caller -> SUBSET Params] /\ \A d \in Caller : tracked'[d] \subseteq tracked[d]
  BY <1>2
<1>4. /\ reports' \in [Caller -> Seq(Report)]
      /\ \A d \in Caller : \A i \in DOMAIN reports'[d] : reports'[d][i].id \in DOMAIN policies
  <2>1. CASE UNCHANGED reports
    BY <2>1 DEF CallsTypeOK
  <2>2. CASE /\ ReadsParams(call[c].func, params.type)
             /\ \E report \in Reported(call[c].func, params.type, params.id, params.name) :
                  reports' = [reports EXCEPT ![c] = Append(@, report)]
    <3>1. params.own
      BY <2>2 DEF OwnOK, ReadsParams
    <3>2. params.type \in Types /\ params.name \in Name /\ params.id \in DOMAIN policies
      BY <1>2, <3>1 DEF CallsTypeOK, Params
    <3>3. PICK report \in Reported(call[c].func, params.type, params.id, params.name) :
            reports' = [reports EXCEPT ![c] = Append(@, report)]
      BY <2>2
    <3>4. report \in Report /\ report.id \in DOMAIN policies
      <4>1. DOMAIN policies \subseteq Int
        BY DEF SetupTypeOK
      <4> QED
        BY <3>2, <3>3, <4>1, ReportedType
    <3> QED
      BY <3>3, <3>4, ReportsType
  <2> QED
    BY <2>1, <2>2
<1>5. CallsTypeOK'
  <2>1. misjudged \in [Caller -> SUBSET Types] /\ misjudged[c] \cup {params.type} \in SUBSET Types
    BY <1>2 DEF CallsTypeOK, Params
  <2>2. misjudged' \in [Caller -> SUBSET Types]
    BY <2>1
  <2> QED
    BY <1>2, <1>3, <1>4, <2>2 DEF CallsTypeOK
<1>6. OwnOK'
  BY <1>2, <1>3 DEF OwnOK
<1> QED
  BY <1>1, <1>5, <1>6

LEMMA TypesStep == TInv /\ [Next]_vars => TInv'
<1> SUFFICES ASSUME TInv, [Next]_vars PROVE TInv'
  OBVIOUS
<1>1. UNCHANGED settings /\ SettingsOK'
  BY SettingsStep DEF TInv
<1>2. ASSUME NEW vm \in Vm, Setup(vm) \/ GoDown(vm) PROVE TypeOK' /\ OwnOK'
  BY <1>1, <1>2, TypesSetup
<1>3. ASSUME NEW c \in Caller, NEW request \in Request, Enter(c, request) PROVE TypeOK' /\ OwnOK'
  BY <1>1, <1>3, TypesEnter
<1>4. ASSUME NEW c \in Caller, NEW type \in Types, EntryCallback(c, type) PROVE TypeOK' /\ OwnOK'
  BY <1>1, <1>4, TypesEntryCallback
<1>5. ASSUME NEW c \in Caller, Return(c) PROVE TypeOK' /\ OwnOK'
  BY <1>1, <1>5, TypesReturn
<1>6. ASSUME NEW c \in Caller, NEW params \in tracked[c], ReturnCallback(c, params)
      PROVE  TypeOK' /\ OwnOK'
  BY <1>1, <1>6, TypesReturnCallback
<1>7. CASE UNCHANGED vars
  <2>1. UNCHANGED settings /\ UNCHANGED setup /\ UNCHANGED calls
    BY <1>7 DEF vars
  <2>2. SetupTypeOK' /\ CallsTypeOK' /\ OwnOK'
    BY <2>1 DEF settings, setup, calls, TInv, TypeOK, SetupTypeOK, CallsTypeOK, OwnOK
  <2> QED
    BY <1>1, <2>2 DEF TInv, TypeOK
<1>8. CASE Next
  <2>1. TypeOK' /\ OwnOK'
    BY <1>2, <1>3, <1>4, <1>5, <1>6, <1>8, Zenon DEF Next
  <2> QED
    BY <1>1, <2>1 DEF TInv
<1> QED
  BY <1>7, <1>8

\* Whatever the policy files say and however often VMs restart, the monitors'
\* variables keep their types; in particular no report names a policy that
\* g_hash_table_lookup would not find in send_output.
THEOREM TypeCorrect == Spec => []TypeOK
<1>1. TInv => TypeOK
  BY DEF TInv
<1> QED
  BY <1>1, TypesInit, TypesStep, PTL DEF Spec

\* Return callbacks read parameters only that the entry callback has made: what
\* setinformation_cb of file_created.c returns by accident is never looked at.
THEOREM ParamsAlwaysOwned == Spec => []ParamsOwned
<1>1. TInv => ParamsOwned
  BY DEF TInv, OwnOK, ParamsOwned, ReadsParams
<1> QED
  BY <1>1, TypesInit, TypesStep, PTL DEF Spec

-----------------------------------------------------------------------------
(* Hooks.                                                                    *)

\* The flags tell of each function how often it is hooked.
FlagsOK(vm) ==
  \A func \in Func, type \in Types :
    /\ hooks[vm][func][type] \in {0, 1}
    /\ hooks[vm][func][type] = 1 =>
         type \in inited[vm] /\ func \in Hooked(type, vm) /\ type \in Wanted
    /\ type \in inited[vm] /\ func \in Hooked(type, vm) \ Missable => hooks[vm][func][type] = 1

\* The policies whose type has no flag yet are still to be added.
LeftOK(vm) ==
  adder = {vm} =>
    /\ phase[vm] # "on"
    /\ \A id \in DOMAIN policies :
         policies[id].type \in inited[vm] \/ \E i \in DOMAIN left : left[i] = id

\* A VM that is up has been given all policies.
OnOK(vm) == phase[vm] = "on" => \A id \in DOMAIN policies : policies[id].type \in inited[vm]

HInv == \A vm \in Vm : FlagsOK(vm) /\ LeftOK(vm) /\ OnOK(vm)

LEMMA HooksInit == Init => HInv
<1> SUFFICES ASSUME Init, NEW vm \in Vm PROVE FlagsOK(vm) /\ LeftOK(vm) /\ OnOK(vm)
  BY DEF HInv
<1>1. FlagsOK(vm)
  BY DEF Init, FlagsOK, NoHooks, NothingDue
<1>2. LeftOK(vm) /\ OnOK(vm)
  BY DEF Init, LeftOK, OnOK
<1> QED
  BY <1>1, <1>2

\* What is not touched of one VM when hfm_set_policies works for another.
LEMMA HooksOther ==
  ASSUME HInv, UNCHANGED policies, NEW vm \in Vm, NEW other \in Vm,
         UNCHANGED <<hooks[other], inited[other], phase[other]>>,
         adder' # {other}
  PROVE  FlagsOK(other)' /\ LeftOK(other)' /\ OnOK(other)'
BY DEF HInv, FlagsOK, LeftOK, OnOK, Wanted

LEMMA HooksStep == TInv /\ HInv /\ [Next]_vars => HInv'
<1> SUFFICES ASSUME TInv, HInv, [Next]_vars PROVE HInv'
  OBVIOUS
<1> USE DEF TInv, TypeOK
<1>1. UNCHANGED settings /\ UNCHANGED policies
  BY SettingsStep DEF settings
<1>2. ASSUME NEW vm \in Vm, StartSetup(vm) PROVE HInv'
  <2>1. FlagsOK(vm)' /\ LeftOK(vm)' /\ OnOK(vm)'
    <3>1. hooks'[vm] = NoHooks /\ inited'[vm] = {} /\ phase'[vm] # "on" /\ left' = order
      BY <1>2 DEF StartSetup, SetupTypeOK, Flags
    <3>2. FlagsOK(vm)'
      BY <3>1 DEF FlagsOK, NoHooks, NothingDue
    <3>3. LeftOK(vm)' /\ OnOK(vm)'
      BY <1>1, <3>1 DEF LeftOK, OnOK, SettingsOK
    <3> QED
      BY <3>2, <3>3
  <2>2. ASSUME NEW other \in Vm, other # vm
        PROVE  FlagsOK(other)' /\ LeftOK(other)' /\ OnOK(other)'
    <3>1. UNCHANGED <<hooks[other], inited[other], phase[other]>> /\ adder' # {other}
      BY <1>2, <2>2 DEF StartSetup, SetupTypeOK
    <3> QED
      BY <1>1, <3>1, HooksOther
  <2> QED
    BY <2>1, <2>2 DEF HInv
<1>3. ASSUME NEW vm \in Vm, AddPolicy(vm) PROVE HInv'
  <2> DEFINE id == Head(left)  type == policies[id].type
  <2>1. /\ id \in DOMAIN policies /\ type \in Types
        /\ \A x \in DOMAIN policies : (\E i \in DOMAIN left : left[i] = x)
             => x = id \/ \E i \in DOMAIN Tail(left) : Tail(left)[i] = x
    <3>1. left \in Seq(DOMAIN policies) /\ left # <<>>
      BY <1>3 DEF AddPolicy, SetupTypeOK
    <3>2. /\ id \in DOMAIN policies
          /\ \A x \in DOMAIN policies : (\E i \in DOMAIN left : left[i] = x)
               => x = id \/ \E i \in DOMAIN Tail(left) : Tail(left)[i] = x
      BY <3>1, HeadAndTail
    <3> QED
      BY <3>2 DEF SettingsOK
  <2>2. type \in Wanted
    BY <2>1 DEF Wanted
  <2>3. adder = {vm} /\ left' = Tail(left) /\ UNCHANGED <<phase, adder>>
    BY <1>3 DEF AddPolicy
  <2>4. CASE type \in inited[vm] /\ UNCHANGED <<inited, hooks>>
    <3>1. FlagsOK(vm)'
      BY <1>1, <2>4 DEF HInv, FlagsOK, Wanted
    <3>2. LeftOK(vm)'
      BY <1>1, <2>1, <2>3, <2>4 DEF HInv, LeftOK
    <3>3. OnOK(vm)'
      BY <1>1, <2>3, <2>4 DEF HInv, OnOK
    <3>4. ASSUME NEW other \in Vm, other # vm
          PROVE  FlagsOK(other)' /\ LeftOK(other)' /\ OnOK(other)'
      BY <1>1, <2>3, <2>4, <3>4, HooksOther
    <3> QED
      BY <3>1, <3>2, <3>3, <3>4 DEF HInv
  <2>5. ASSUME type \notin inited[vm], inited' = [inited EXCEPT ![vm] = @ \cup {type}],
               NEW found \in SUBSET Hooked(type, vm), Hooked(type, vm) \ Missable \subseteq found,
               hooks' = [hooks EXCEPT ![vm] = MoreHooks(@, found, type)]
        PROVE  HInv'
    <3>1. /\ hooks'[vm] = MoreHooks(hooks[vm], found, type)
          /\ inited'[vm] = inited[vm] \cup {type}
          /\ hooks[vm] \in [Func -> [Types -> Nat]]
      BY <2>5 DEF SetupTypeOK
    <3>2. \A func \in Func, any \in Types :
            hooks'[vm][func][any] = IF any = type /\ func \in found THEN hooks[vm][func][any] + 1
                                    ELSE hooks[vm][func][any]
      BY <2>1, <3>1, MoreHooksType
    <3>3. FlagsOK(vm)
      BY DEF HInv
    <3>4. FlagsOK(vm)'
      <4> SUFFICES ASSUME NEW func \in Func, NEW any \in Types
                   PROVE  /\ hooks'[vm][func][any] \in {0, 1}
                          /\ hooks'[vm][func][any] = 1 =>
                               any \in inited'[vm] /\ func \in Hooked(any, vm) /\ any \in Wanted
                          /\ any \in inited'[vm] /\ func \in Hooked(any, vm) \ Missable
                               => hooks'[vm][func][any] = 1
        BY <1>1 DEF FlagsOK, Wanted
      <4>1. CASE any # type
        BY <3>1, <3>2, <3>3, <4>1 DEF FlagsOK
      <4>2. CASE any = type
        <5>1. hooks[vm][func][any] = 0
          BY <2>5, <3>3, <4>2 DEF FlagsOK
        <5>2. hooks'[vm][func][any] = IF func \in found THEN 1 ELSE 0
          BY <3>2, <4>2, <5>1
        <5> HIDE DEF type
        <5> QED
          BY <2>2, <2>5, <3>1, <4>2, <5>2
      <4> QED
        BY <4>1, <4>2
    <3>5. LeftOK(vm)' /\ OnOK(vm)'
      BY <1>1, <2>1, <2>3, <3>1 DEF HInv, LeftOK, OnOK
    <3>6. ASSUME NEW other \in Vm, other # vm
          PROVE  FlagsOK(other)' /\ LeftOK(other)' /\ OnOK(other)'
      <4>1. UNCHANGED <<hooks[other], inited[other], phase[other]>> /\ adder' # {other}
        BY <2>3, <2>5, <3>6 DEF SetupTypeOK
      <4> QED
        BY <1>1, <4>1, HooksOther
    <3> QED
      BY <3>4, <3>5, <3>6 DEF HInv
  <2> QED
    BY <1>3, <2>4, <2>5 DEF AddPolicy
<1>4. ASSUME NEW vm \in Vm, EndSetup(vm) PROVE HInv'
  <2>1. FlagsOK(vm)' /\ LeftOK(vm)' /\ OnOK(vm)'
    <3>1. FlagsOK(vm)' /\ LeftOK(vm)'
      BY <1>1, <1>4 DEF EndSetup, HInv, FlagsOK, LeftOK, Wanted
    <3>2. OnOK(vm)'
      BY <1>1, <1>4 DEF EndSetup, HInv, LeftOK, OnOK
    <3> QED
      BY <3>1, <3>2
  <2>2. ASSUME NEW other \in Vm, other # vm
        PROVE  FlagsOK(other)' /\ LeftOK(other)' /\ OnOK(other)'
    <3>1. UNCHANGED <<hooks[other], inited[other], phase[other]>> /\ adder' # {other}
      BY <1>4, <2>2 DEF EndSetup, SetupTypeOK
    <3> QED
      BY <1>1, <3>1, HooksOther
  <2> QED
    BY <2>1, <2>2 DEF HInv
<1>5. ASSUME NEW vm \in Vm, GoDown(vm) PROVE HInv'
  <2>1. /\ UNCHANGED <<hooks, inited, adder, left>>
        /\ \A other \in Vm : phase'[other] = "on" => phase[other] = "on"
    BY <1>5 DEF GoDown, SetupTypeOK
  <2> QED
    BY <1>1, <2>1 DEF HInv, FlagsOK, LeftOK, OnOK, Wanted
<1>6. CASE UNCHANGED setup
  BY <1>1, <1>6 DEF HInv, FlagsOK, LeftOK, OnOK, Wanted, setup
<1>7. ASSUME NEW c \in Caller,
             \/ \E request \in Request : Enter(c, request)
             \/ \E type \in Types : EntryCallback(c, type)
             \/ Return(c)
             \/ \E params \in tracked[c] : ReturnCallback(c, params)
      PROVE  UNCHANGED setup
  BY <1>7 DEF Enter, EntryCallback, Return, ReturnCallback
<1>8. UNCHANGED vars => UNCHANGED setup
  BY DEF vars
<1> QED
  BY <1>2, <1>3, <1>4, <1>5, <1>6, <1>7, <1>8 DEF Next, Setup

\* However often VMs restart and whatever symbols are missing, each function has
\* one hook of each monitor that wants it, and none of another (mon_add_policy,
\* the ..._init flags of vmhdlr_t, hfm_restart_vmi).
THEOREM HooksAlwaysOnce == Spec => []HooksOnce
<1>1. TInv /\ HInv => HooksOnce
  <2> SUFFICES ASSUME TInv, HInv, NEW vm \in Vm
               PROVE  /\ \A func \in Func, type \in Types :
                           /\ hooks[vm][func][type] <= 1
                           /\ hooks[vm][func][type] = 1 => func \in Hooked(type, vm) /\ type \in Wanted
                      /\ phase[vm] = "on" =>
                           \A type \in Wanted : \A func \in Hooked(type, vm) \ Missable :
                             hooks[vm][func][type] = 1
    BY DEF HooksOnce
  <2>1. FlagsOK(vm) /\ OnOK(vm)
    BY DEF HInv
  <2>2. Wanted \subseteq Types
    BY DEF Wanted, TInv, SettingsOK
  <2>3. ASSUME NEW func \in Func, NEW type \in Types
        PROVE  /\ hooks[vm][func][type] <= 1
               /\ hooks[vm][func][type] = 1 => func \in Hooked(type, vm) /\ type \in Wanted
    BY <2>1 DEF FlagsOK
  <2>4. ASSUME phase[vm] = "on", NEW type \in Wanted, NEW func \in Hooked(type, vm) \ Missable
        PROVE  hooks[vm][func][type] = 1
    <3>1. type \in inited[vm]
      BY <2>1, <2>4 DEF OnOK, Wanted
    <3>2. type \in Types /\ func \in Func
      BY <2>2, HookedFuncs
    <3> QED
      BY <2>1, <3>1, <3>2 DEF FlagsOK
  <2> QED
    BY <2>3, <2>4
<1>2. Init => TInv /\ HInv
  BY TypesInit, HooksInit
<1>3. TInv /\ HInv /\ [Next]_vars => TInv' /\ HInv'
  BY TypesStep, HooksStep
<1> QED
  BY <1>1, <1>2, <1>3, PTL DEF Spec

-----------------------------------------------------------------------------
(* Filters.                                                                  *)

\* The policy id is in the filter of its type.
Added(id) == LET of == filter[policies[id].type] IN \E i \in DOMAIN of : of[i] = id

\* A pattern comes after those of the policies of its type that are listed before
\* its own: a filter is copies of the list, one after the other.
InOrder ==
  \A type \in Types : \A i \in DOMAIN filter[type] :
    \E k \in DOMAIN order :
      /\ order[k] = filter[type][i] /\ policies[order[k]].type = type
      /\ \A j \in 1..(k - 1) : policies[order[j]].type = type =>
           \E h \in 1..(i - 1) : filter[type][h] = order[j]

\* What is left to be added is the rest of the list, and all before it was added.
LeftIsRest ==
  adder # {} =>
    \E m \in 0..Len(order) :
      /\ Len(order) = m + Len(left)
      /\ \A i \in 1..Len(left) : left[i] = order[m + i]
      /\ \A j \in 1..m : Added(order[j])

\* After the first VM has been set up no policy is missing.
AllAdded == (\E vm \in Vm : phase[vm] # "new") => \A id \in DOMAIN policies : Added(id)

FInv == InOrder /\ LeftIsRest /\ AllAdded

LEMMA FiltersInit == Init => FInv
  BY DEF Init, FInv, InOrder, LeftIsRest, AllAdded

\* A pattern more, at the end.
LEMMA FilterGrows ==
  ASSUME TInv, NEW type \in Types, NEW id \in DOMAIN policies, UNCHANGED settings,
         filter' = [filter EXCEPT ![type] = Extended(@, id)]
  PROVE  /\ \A other \in Types \ {type} : filter'[other] = filter[other]
         /\ DOMAIN filter[type] = 1..Len(filter[type]) /\ Len(filter[type]) \in Nat
         /\ DOMAIN filter'[type] = 1..(Len(filter[type]) + 1)
         /\ \A i \in DOMAIN filter[type] : filter'[type][i] = filter[type][i]
         /\ filter'[type][Len(filter[type]) + 1] = id
         /\ \A any \in DOMAIN policies : Added(any) => Added(any)'
<1>1. filter[type] \in Seq(DOMAIN policies) /\ filter'[type] = Append(filter[type], id)
      /\ \A other \in Types \ {type} : filter'[other] = filter[other]
  BY DEF TInv, TypeOK, SetupTypeOK, Extended
<1>2. /\ DOMAIN filter[type] = 1..Len(filter[type]) /\ Len(filter[type]) \in Nat
      /\ DOMAIN filter'[type] = 1..(Len(filter[type]) + 1)
      /\ \A i \in DOMAIN filter[type] : filter'[type][i] = filter[type][i]
      /\ filter'[type][Len(filter[type]) + 1] = id
  BY <1>1
<1>3. ASSUME NEW any \in DOMAIN policies, Added(any) PROVE Added(any)'
  <2>1. policies[any].type \in Types /\ policies' = policies
    BY DEF TInv, SettingsOK, settings
  <2>2. CASE policies[any].type = type
    BY <1>2, <1>3, <2>1, <2>2 DEF Added
  <2>3. CASE policies[any].type # type
    BY <1>1, <1>3, <2>1, <2>3 DEF Added
  <2> QED BY <2>2, <2>3
<1> QED BY <1>1, <1>2, <1>3

\* hfm_set_policies adds the next policy of the list.
LEMMA FiltersAdd ==
  ASSUME TInv, FInv, NEW vm \in Vm, AddPolicy(vm), UNCHANGED settings
  PROVE  FInv'
<1>0. PICK id \in {Head(left)}, type \in {policies[Head(left)].type} : TRUE
  OBVIOUS
<1>1. PICK m \in 0..Len(order) :
        /\ Len(order) = m + Len(left)
        /\ \A i \in 1..Len(left) : left[i] = order[m + i]
        /\ \A j \in 1..m : Added(order[j])
  BY DEF FInv, LeftIsRest, AddPolicy
<1>2. /\ left \in Seq(DOMAIN policies) /\ left # <<>> /\ order \in Seq(DOMAIN policies)
      /\ left' = Tail(left) /\ policies' = policies /\ order' = order
      /\ adder' = adder /\ phase' = phase
  BY DEF TInv, TypeOK, SetupTypeOK, AddPolicy, settings
<1>3. /\ Len(left) \in Nat \ {0} /\ Len(order) \in Nat
      /\ id = left[1] /\ type = policies[id].type
      /\ DOMAIN order = 1..Len(order) /\ Len(left') = Len(left) - 1
      /\ \A i \in 1..Len(left') : left'[i] = left[i + 1]
  BY <1>0, <1>2
<1>4. m + 1 \in DOMAIN order /\ order[m + 1] = id /\ id \in DOMAIN policies
      /\ \A j \in DOMAIN order : order[j] \in DOMAIN policies
  <2>1. m + 1 \in DOMAIN order /\ order[m + 1] = left[1]
    BY <1>1, <1>3
  <2> QED BY <1>2, <1>3, <2>1
<1>5. type \in Types /\ filter' = [filter EXCEPT ![type] = Extended(@, id)]
  BY <1>0, <1>3, <1>4 DEF TInv, SettingsOK, AddPolicy
<1>6. /\ \A other \in Types \ {type} : filter'[other] = filter[other]
      /\ DOMAIN filter[type] = 1..Len(filter[type]) /\ Len(filter[type]) \in Nat
      /\ DOMAIN filter'[type] = 1..(Len(filter[type]) + 1)
      /\ \A i \in DOMAIN filter[type] : filter'[type][i] = filter[type][i]
      /\ filter'[type][Len(filter[type]) + 1] = id
      /\ \A any \in DOMAIN policies : Added(any) => Added(any)'
  BY <1>4, <1>5, FilterGrows
<1>7. Added(id)'
  <2>1. Len(filter[type]) + 1 \in DOMAIN filter'[type]
    BY <1>6
  <2>2. policies'[id].type = type
    BY <1>2, <1>3
  <2> QED BY <1>6, <2>1, <2>2 DEF Added
<1>8. LeftIsRest'
  <2>1. Len(order) = (m + 1) + Len(left') /\ m + 1 \in 0..Len(order)
    BY <1>1, <1>3
  <2>2. \A i \in 1..Len(left') : left'[i] = order[(m + 1) + i]
    <3> SUFFICES ASSUME NEW i \in 1..Len(left') PROVE left'[i] = order[(m + 1) + i]
      OBVIOUS
    <3>1. i + 1 \in 1..Len(left) /\ m + (i + 1) = (m + 1) + i
      BY <1>3
    <3>2. left[i + 1] = order[m + (i + 1)]
      BY <1>1, <3>1
    <3> QED BY <1>3, <3>1, <3>2
  <2>3. ASSUME NEW j \in 1..(m + 1) PROVE Added(order[j])'
    <3>1. CASE j = m + 1
      BY <1>2, <1>4, <1>7, <3>1 DEF Added
    <3>2. CASE j # m + 1
      <4>1. j \in 1..m /\ j \in DOMAIN order
        BY <1>1, <1>3, <3>2
      <4>2. Added(order[j]) /\ order[j] \in DOMAIN policies
        BY <1>1, <1>4, <4>1
      <4>3. \A any \in DOMAIN policies : Added(any) /\ any = order[j] => Added(any)'
        BY <1>6
      <4> QED BY <1>2, <4>2, <4>3 DEF Added
    <3> QED BY <3>1, <3>2
  <2> QED BY <1>2, <2>1, <2>2, <2>3 DEF LeftIsRest
<1>9. AllAdded'
  <2> SUFFICES ASSUME NEW other \in Vm, phase'[other] # "new", NEW any \in DOMAIN policies
               PROVE  Added(any)'
    BY <1>2 DEF AllAdded
  <2>1. Added(any)
    BY <1>2 DEF FInv, AllAdded
  <2> QED BY <1>6, <2>1
<1>10. InOrder'
  <2> SUFFICES ASSUME NEW any \in Types, NEW i \in DOMAIN filter'[any]
        PROVE  \E k \in DOMAIN order :
                 /\ order[k] = filter'[any][i] /\ policies[order[k]].type = any
                 /\ \A j \in 1..(k - 1) : policies[order[j]].type = any =>
                      \E h \in 1..(i - 1) : filter'[any][h] = order[j]
    BY <1>2 DEF InOrder
  <2>1. CASE any # type
    BY <1>6, <2>1 DEF FInv, InOrder
  <2>2. CASE any = type /\ i \in DOMAIN filter[type]
    <3>1. PICK k \in DOMAIN order :
            /\ order[k] = filter[type][i] /\ policies[order[k]].type = type
            /\ \A j \in 1..(k - 1) : policies[order[j]].type = type =>
                 \E h \in 1..(i - 1) : filter[type][h] = order[j]
      BY <1>5, <2>2 DEF FInv, InOrder
    <3>2. \A h \in 1..(i - 1) : h \in DOMAIN filter[type]
      BY <1>6, <2>2
    <3>3. filter'[type][i] = filter[type][i]
      BY <1>6, <2>2
    <3>4. ASSUME NEW j \in 1..(k - 1), policies[order[j]].type = type
          PROVE  \E h \in 1..(i - 1) : filter'[type][h] = order[j]
      <4>1. PICK h \in 1..(i - 1) : filter[type][h] = order[j]
        BY <3>1, <3>4
      <4> QED BY <1>6, <3>2, <4>1
    <3> QED BY <2>2, <3>1, <3>3, <3>4
  <2>3. CASE any = type /\ i = Len(filter[type]) + 1
    <3>1. order[m + 1] = filter'[type][i] /\ policies[order[m + 1]].type = type
      BY <1>3, <1>4, <1>6, <2>3
    <3>2. ASSUME NEW j \in 1..((m + 1) - 1), policies[order[j]].type = type
          PROVE  \E h \in 1..(i - 1) : filter'[type][h] = order[j]
      <4>1. j \in 1..m
        BY <1>1
      <4>2. Added(order[j])
        BY <1>1, <4>1
      <4>3. PICK h \in DOMAIN filter[type] : filter[type][h] = order[j]
        BY <3>2, <4>2 DEF Added
      <4> QED BY <1>6, <2>3, <4>3
    <3> QED BY <1>4, <2>3, <3>1, <3>2
  <2>4. any = type => i \in DOMAIN filter[type] \/ i = Len(filter[type]) + 1
    BY <1>6
  <2> QED BY <2>1, <2>2, <2>3, <2>4
<1> QED BY <1>8, <1>9, <1>10 DEF FInv

\* hfm_set_policies starts from the whole list, and ends when nothing is left.
LEMMA FiltersStep == TInv /\ FInv /\ [Next]_vars => FInv'
<1> SUFFICES ASSUME TInv, FInv, [Next]_vars PROVE FInv'
  OBVIOUS
<1>1. UNCHANGED settings /\ policies' = policies /\ order' = order
      /\ order \in Seq(DOMAIN policies)
      /\ \A id \in DOMAIN policies : \E i \in DOMAIN order : order[i] = id
  BY SettingsStep DEF TInv, SettingsOK, settings
<1>2. ASSUME NEW vm \in Vm, StartSetup(vm) PROVE FInv'
  <2>1. left' = order /\ filter' = filter /\ phase' = phase
    BY <1>2 DEF StartSetup
  <2>2. /\ 0 \in 0..Len(order) /\ Len(order) = 0 + Len(left')
        /\ \A i \in 1..Len(left') : left'[i] = order[0 + i]
        /\ \A j \in 1..0 : Added(order[j])'
    BY <1>1, <2>1
  <2>3. LeftIsRest'
    BY <1>1, <2>2, Zenon DEF LeftIsRest
  <2> QED BY <1>1, <2>1, <2>3 DEF FInv, InOrder, AllAdded, Added
<1>3. ASSUME NEW vm \in Vm, AddPolicy(vm) PROVE FInv'
  BY <1>1, <1>3, FiltersAdd
<1>4. ASSUME NEW vm \in Vm, EndSetup(vm) PROVE FInv'
  <2>1. left = <<>> /\ filter' = filter /\ adder # {} /\ adder' = {}
    BY <1>4 DEF EndSetup
  <2>2. PICK m \in 0..Len(order) : Len(order) = m + Len(left) /\ \A j \in 1..m : Added(order[j])
    BY <2>1 DEF FInv, LeftIsRest
  <2>3. m = Len(order) /\ DOMAIN order = 1..Len(order)
    BY <1>1, <2>1, <2>2
  <2>4. \A id \in DOMAIN policies : Added(id)
    BY <1>1, <2>2, <2>3
  <2> QED BY <1>1, <2>1, <2>4 DEF FInv, InOrder, LeftIsRest, AllAdded, Added
<1>5. ASSUME NEW vm \in Vm, GoDown(vm) PROVE FInv'
  <2>1. UNCHANGED <<filter, adder, left>> /\ phase[vm] = "on"
        /\ \A other \in Vm \ {vm} : phase'[other] = phase[other]
    BY <1>5 DEF GoDown, TInv, TypeOK, SetupTypeOK
  <2>2. InOrder' /\ LeftIsRest'
    BY <1>1, <2>1 DEF FInv, InOrder, LeftIsRest, Added
  <2>3. \E other \in Vm : phase[other] # "new"
    BY <2>1
  <2>4. AllAdded'
    BY <1>1, <2>1, <2>3 DEF FInv, AllAdded, Added
  <2> QED BY <2>2, <2>4 DEF FInv
<1>6. CASE UNCHANGED setup
  BY <1>1, <1>6 DEF FInv, InOrder, LeftIsRest, AllAdded, Added, setup
<1>7. ASSUME NEW c \in Caller,
             \/ \E request \in Request : Enter(c, request)
             \/ \E type \in Types : EntryCallback(c, type)
             \/ Return(c)
             \/ \E params \in tracked[c] : ReturnCallback(c, params)
      PROVE  UNCHANGED setup
  BY <1>7 DEF Enter, EntryCallback, Return, ReturnCallback
<1>8. UNCHANGED vars => UNCHANGED setup
  BY DEF vars
<1> QED
  BY <1>2, <1>3, <1>4, <1>5, <1>6, <1>7, <1>8 DEF Next, Setup

\* The policy of a report is the first in the list that covers its name.
First(type, name, id) ==
  \E j \in DOMAIN order :
    /\ order[j] = id /\ id \in Covering(type, name)
    /\ \A k \in DOMAIN order : order[k] \in Covering(type, name) => j <= k

\* What filter_match answers is the first policy that covers the name.
LEMMA AnswerIsFirst ==
  ASSUME TInv, FInv, NEW type \in Types, NEW name, FilterMatch(type, name) >= 0
  PROVE  First(type, name, FilterMatch(type, name))
<1>1. DOMAIN policies \subseteq Int /\ filter[type] \in Seq(DOMAIN policies)
      /\ order \in Seq(DOMAIN policies)
  BY DEF TInv, TypeOK, SetupTypeOK
<1>2. PICK i \in Matching(type, name) :
        /\ FilterMatch(type, name) = filter[type][i]
        /\ filter[type][i] \in DOMAIN policies
        /\ \A j \in Matching(type, name) : i <= j
  BY <1>1, FilterMatchFirst
<1>3. i \in DOMAIN filter[type] /\ name \in policies[filter[type][i]].path
  BY <1>2 DEF Matching
<1>4. PICK k \in DOMAIN order :
        /\ order[k] = filter[type][i] /\ policies[order[k]].type = type
        /\ \A j \in 1..(k - 1) : policies[order[j]].type = type =>
             \E h \in 1..(i - 1) : filter[type][h] = order[j]
  BY <1>3 DEF FInv, InOrder
<1>5. order[k] \in Covering(type, name)
  BY <1>2, <1>3, <1>4 DEF Covering
<1>6. ASSUME NEW j \in DOMAIN order, order[j] \in Covering(type, name) PROVE k <= j
  <2>1. k \in Nat /\ j \in Nat \ {0} /\ i \in Nat /\ DOMAIN filter[type] = 1..Len(filter[type])
        /\ Len(filter[type]) \in Nat
    <3>1. DOMAIN order = 1..Len(order) /\ Len(order) \in Nat
      BY <1>1
    <3>2. DOMAIN filter[type] = 1..Len(filter[type]) /\ Len(filter[type]) \in Nat
      BY <1>1
    <3> QED BY <1>3, <3>1, <3>2
  <2>2. ASSUME j < k PROVE FALSE
    <3>1. j \in 1..(k - 1) /\ policies[order[j]].type = type
      BY <1>6, <2>1, <2>2 DEF Covering
    <3>2. PICK h \in 1..(i - 1) : filter[type][h] = order[j]
      BY <1>4, <3>1
    <3>3. h \in Matching(type, name)
      BY <1>3, <1>6, <2>1, <3>2 DEF Matching, Covering
    <3> QED BY <1>2, <2>1, <3>2, <3>3
  <2> QED BY <2>1, <2>2
<1> QED BY <1>2, <1>4, <1>5, <1>6 DEF First

\* When all policies have been added, a name that policies cover whose ids are not
\* negative is not missed.
LEMMA AnswerIfCovered ==
  ASSUME TInv, \A id \in DOMAIN policies : Added(id), NEW type \in Types, NEW name,
         Covering(type, name) # {}, \A id \in Covering(type, name) : id >= 0, InOrder
  PROVE  FilterMatch(type, name) > 0
<1> DEFINE found == Matching(type, name)
<1>1. DOMAIN policies \subseteq Int \ {0} /\ filter[type] \in Seq(DOMAIN policies)
  BY DEF TInv, TypeOK, SetupTypeOK
<1>2. PICK id \in DOMAIN policies : policies[id].type = type /\ name \in policies[id].path
  BY DEF Covering
<1>3. PICK i \in DOMAIN filter[type] : filter[type][i] = id
  BY <1>2 DEF Added
<1>4. found # {} /\ found \in SUBSET Nat
  BY <1>1, <1>2, <1>3 DEF Matching
<1>5. \E j \in found : \A k \in found : j <= k
  BY <1>4, LeastIndex
<1>6. PICK j \in found : j = (CHOOSE k \in found : \A h \in found : k <= h)
  BY <1>5
<1>7. FilterMatch(type, name) = filter[type][j]
  BY <1>4, <1>6 DEF FilterMatch
<1>8. filter[type][j] \in Covering(type, name)
  <2>1. j \in DOMAIN filter[type] /\ name \in policies[filter[type][j]].path
    BY <1>6 DEF Matching
  <2>2. policies[filter[type][j]].type = type
    BY <2>1 DEF InOrder
  <2>3. filter[type][j] \in DOMAIN policies
    BY <1>1, <2>1
  <2> QED BY <2>1, <2>2, <2>3 DEF Covering
<1> QED BY <1>1, <1>7, <1>8 DEF Covering

-----------------------------------------------------------------------------
(* Calls.                                                                    *)

\* The types that are reported when the call returns, and the functions on whose
\* entry their callbacks make parameters.
OnReturn == {"create", "modify", "access"}
TrackedFuncs(type) ==
  IF type = "create" THEN OpenFuncs ELSE IF type = "modify" THEN WriteFuncs ELSE SecurityFuncs

ReportsOf(c, type) == {i \in DOMAIN reports[c] : reports[c][i].type = type}
TrackedOf(c, type) == {params \in tracked[c] : params.type = type}

\* Each type has an entry callback to run, or a return callback, or a report, and
\* one of these at the most.
OneEach(c) ==
  \A type \in Types :
    /\ due[c][type] \in {0, 1}
    /\ due[c][type] = 1 => /\ pc[c] = "entered" /\ call[c].func \in Hooked(type, VmOf[c])
                           /\ ReportsOf(c, type) = {} /\ TrackedOf(c, type) = {}
    /\ TrackedOf(c, type) # {} => ReportsOf(c, type) = {}
    /\ \A p, q \in TrackedOf(c, type) : p = q
    /\ \A i, j \in ReportsOf(c, type) : i = j

\* Parameters, or a report, are for the first policy that covers the name, which
\* is the name of the call if it was read.
Sound(c, made) ==
  /\ First(made.type, made.name, made.id)
  /\ made.type \notin misread[c] => made.name = call[c].name

\* The call is what a report of a type says, or one of those that are let off.
Fair(c, type) == type \notin misjudged[c] => IsOf(c, type) \/ Stale(c, type)

TrackedOK(c) ==
  \A params \in tracked[c] : params.own =>
    /\ Sound(c, params)
    /\ params.type \in OnReturn /\ call[c].func \in TrackedFuncs(params.type)

ReportsOK(c) ==
  \A i \in DOMAIN reports[c] :
    /\ Sound(c, reports[c][i]) /\ Fair(c, reports[c][i].type)
    /\ pc[c] = "entered" => reports[c][i].type \notin OnReturn

\* Calls are made while their VM is up.
Up(c) == pc[c] # "idle" => phase[VmOf[c]] = "on"

\* Policies ask for a report of this type, and the call, as far as it has got, may
\* be one that they ask for.  writefile_cb does not look at a file without a name.
Expected(c, type) ==
  LET covering == Covering(type, call[c].name) IN
  /\ hooks[VmOf[c]][call[c].func][type] > 0
  /\ type \notin misread[c] \cup misjudged[c]
  /\ covering # {} /\ \A id \in covering : id >= 0
  /\ type = "modify" => call[c].name # NoName

Possible(c, type) ==
  IF type \notin OnReturn THEN IsOf(c, type)
  ELSE /\ call[c].func \in TrackedFuncs(type)
       /\ pc[c] = "entered" \/ (call[c].status = "success" /\ IsOf(c, type))

\* What is to be reported is on its way.
OnItsWay(c, type) ==
  \/ due[c][type] = 1
  \/ \E params \in TrackedOf(c, type) : params.own
  \/ ReportsOf(c, type) # {}

HandledOK(c) ==
  pc[c] # "idle" =>
    \A type \in Types : Expected(c, type) /\ Possible(c, type) => OnItsWay(c, type)

CallOK(c) == OneEach(c) /\ TrackedOK(c) /\ ReportsOK(c) /\ Up(c) /\ HandledOK(c)

CInv == \A c \in Caller : CallOK(c)

\* The caller c does nothing, nor does its VM as long as the call goes on.
SameCall(c) ==
  /\ pc'[c] = pc[c] /\ call'[c] = call[c] /\ due'[c] = due[c]
  /\ tracked'[c] = tracked[c] /\ misread'[c] = misread[c]
  /\ misjudged'[c] = misjudged[c] /\ reports'[c] = reports[c]
  /\ pc[c] # "idle" => /\ hooks'[VmOf[c]] = hooks[VmOf[c]]
                       /\ phase'[VmOf[c]] = phase[VmOf[c]]

LEMMA FirstStays ==
  ASSUME UNCHANGED settings
  PROVE  /\ \A type, name, id : First(type, name, id)' <=> First(type, name, id)
         /\ \A type, name : Covering(type, name)' = Covering(type, name)
  BY DEF First, Covering, settings

LEMMA CallSame ==
  ASSUME UNCHANGED settings, NEW c \in Caller, CallOK(c), SameCall(c)
  PROVE  CallOK(c)'
<1>1. OneEach(c)' /\ Up(c)'
  BY DEF CallOK, SameCall, OneEach, ReportsOf, TrackedOf, Up
<1>2. \A made : Sound(c, made)' <=> Sound(c, made)
  BY FirstStays DEF SameCall, Sound
<1>3. \A type : (IsOf(c, type)' <=> IsOf(c, type)) /\ (Fair(c, type)' <=> Fair(c, type))
  BY DEF SameCall, IsOf, Fair, Stale
<1>4. TrackedOK(c)' /\ ReportsOK(c)'
  BY <1>2, <1>3 DEF CallOK, SameCall, TrackedOK, ReportsOK
<1>5. HandledOK(c)'
  BY <1>3, FirstStays DEF CallOK, SameCall, HandledOK, Expected, Possible, OnItsWay, ReportsOf, TrackedOf
<1> QED BY <1>1, <1>4, <1>5 DEF CallOK

LEMMA CallsInit == Init => CInv
<1> SUFFICES ASSUME Init, NEW c \in Caller PROVE CallOK(c)
  BY DEF CInv
<1>1. /\ pc[c] = "idle" /\ due[c] = NothingDue /\ tracked[c] = {} /\ reports[c] = <<>>
  BY DEF Init
<1>2. DOMAIN reports[c] = {}
  BY <1>1
<1> QED
  BY <1>1, <1>2 DEF CallOK, OneEach, NothingDue, ReportsOf, TrackedOf, TrackedOK, ReportsOK, Up,
                    HandledOK

\* hfm_set_policies works for VMs that are not up, where no call goes on.
LEMMA CallsSetup ==
  ASSUME TInv, HInv, CInv, NEW vm \in Vm, Setup(vm), UNCHANGED settings
  PROVE  CInv'
<1> SUFFICES ASSUME NEW c \in Caller PROVE CallOK(c)'
  BY DEF CInv
<1>1. CallOK(c) /\ VmOf[c] \in Vm
  BY MonitorsAssumption DEF CInv
<1>2. UNCHANGED calls
  BY DEF Setup, StartSetup, AddPolicy, EndSetup
<1>3. phase[vm] # "on"
  BY DEF Setup, StartSetup, AddPolicy, EndSetup, HInv, LeftOK
<1>4. pc[c] # "idle" => VmOf[c] # vm
  BY <1>1, <1>3 DEF CallOK, Up
<1>5. \A other \in Vm \ {vm} : hooks'[other] = hooks[other] /\ phase'[other] = phase[other]
  BY DEF Setup, StartSetup, AddPolicy, EndSetup, TInv, TypeOK, SetupTypeOK
<1>6. SameCall(c)
  BY <1>1, <1>2, <1>4, <1>5 DEF SameCall, calls
<1> QED BY <1>1, <1>6, CallSame

LEMMA CallsGoDown ==
  ASSUME TInv, CInv, NEW vm \in Vm, GoDown(vm), UNCHANGED settings
  PROVE  CInv'
<1> SUFFICES ASSUME NEW c \in Caller PROVE CallOK(c)'
  BY DEF CInv
<1>1. CASE VmOf[c] = vm
  <2>1. /\ pc'[c] = "idle" /\ due'[c] = NothingDue /\ tracked'[c] = {} /\ reports'[c] = <<>>
    BY <1>1 DEF GoDown
  <2>2. DOMAIN reports'[c] = {}
    BY <2>1
  <2> QED
    BY <2>1, <2>2 DEF CallOK, OneEach, NothingDue, ReportsOf, TrackedOf, TrackedOK, ReportsOK, Up,
                      HandledOK
<1>2. CASE VmOf[c] # vm
  <2>1. /\ pc'[c] = pc[c] /\ call'[c] = call[c] /\ due'[c] = due[c]
        /\ tracked'[c] = tracked[c] /\ misread'[c] = misread[c]
        /\ misjudged'[c] = misjudged[c] /\ reports'[c] = reports[c]
    BY <1>2 DEF GoDown
  <2>2. hooks' = hooks /\ phase'[VmOf[c]] = phase[VmOf[c]]
    BY <1>2, MonitorsAssumption DEF GoDown, TInv, TypeOK, SetupTypeOK
  <2> QED BY <2>1, <2>2, CallSame DEF SameCall, CInv
<1> QED BY <1>1, <1>2

\* A call is made when nothing is left of the one before, and has one entry callback
\* to run for each hook.
LEMMA CallsEnter ==
  ASSUME TInv, HInv, CallsTypeOK, NEW c \in Caller, CallOK(c), NEW request \in Request,
         Enter(c, request), UNCHANGED settings
  PROVE  CallOK(c)'
<1>1. /\ pc'[c] = "entered" /\ call'[c] = request /\ due'[c] = hooks[VmOf[c]][request.func]
      /\ misread'[c] = {} /\ misjudged'[c] = {} /\ reports'[c] = <<>> /\ tracked'[c] = tracked[c]
      /\ hooks' = hooks /\ phase' = phase /\ phase[VmOf[c]] = "on" /\ Over(c)
  BY DEF Enter, CallsTypeOK, setup
<1>2. tracked[c] = {}
  BY <1>1 DEF Over, TInv, OwnOK
<1>3. DOMAIN reports'[c] = {}
  BY <1>1
<1>4. request.func \in Func /\ VmOf[c] \in Vm
  BY RequestAssumption, MonitorsAssumption DEF Call
<1>5. \A type \in Types :
        /\ due'[c][type] \in {0, 1}
        /\ due'[c][type] = 1 => request.func \in Hooked(type, VmOf[c])
  BY <1>1, <1>4 DEF HInv, FlagsOK
<1>6. OneEach(c)'
  BY <1>1, <1>2, <1>3, <1>5 DEF OneEach, ReportsOf, TrackedOf
<1>7. TrackedOK(c)' /\ ReportsOK(c)' /\ Up(c)'
  BY <1>1, <1>2, <1>3 DEF TrackedOK, ReportsOK, Up
<1>8. HandledOK(c)'
  BY <1>1, <1>5 DEF HandledOK, Expected, OnItsWay
<1> QED BY <1>6, <1>7, <1>8 DEF CallOK

\* The function returns: what was reported until then stays true of the call.
LEMMA CallsReturn ==
  ASSUME TInv, NEW c \in Caller, CallOK(c), Return(c), UNCHANGED settings
  PROVE  CallOK(c)'
<1>1. PICK end \in Ends(c) : call' = [call EXCEPT ![c] = end]
  BY DEF Return
<1>2. call \in [Caller -> Call] /\ call[c] \in Call
  BY DEF TInv, TypeOK, CallsTypeOK
<1>3. PICK status \in Statuses, info \in Infos : end = EndedAs(call[c], status, info)
  <2>1. InfosOf(call[c].func) \subseteq Infos
    BY DEF InfosOf, Infos
  <2> QED BY <2>1 DEF Ends
<1>4. /\ end.func = call[c].func /\ end.name = call[c].name /\ end.class = call[c].class
      /\ end.flag = call[c].flag
  BY <1>2, <1>3 DEF Call, EndedAs
<1>5. /\ pc[c] = "entered" /\ pc'[c] = "returned" /\ call'[c] = end
      /\ due'[c] = due[c] /\ misread'[c] = misread[c]
      /\ misjudged'[c] = misjudged[c] /\ reports'[c] = reports[c]
      /\ tracked'[c] = tracked[c] /\ hooks' = hooks /\ phase' = phase
      /\ \A type \in Types : due[c][type] = 0
  BY <1>1, <1>2 DEF Return, setup, TInv, TypeOK, CallsTypeOK
<1>6. \A type : type \in Types \ OnReturn =>
        (IsOf(c, type)' <=> IsOf(c, type)) /\ (Fair(c, type)' <=> Fair(c, type))
  <2>1. Types \ OnReturn = {"delete", "attr"}
    BY DEF Types, OnReturn
  <2>2. IsOf(c, "delete")' <=> IsOf(c, "delete")
    BY <1>4, <1>5 DEF IsOf
  <2>3. IsOf(c, "attr")' <=> IsOf(c, "attr")
    BY <1>4, <1>5 DEF IsOf
  <2> QED BY <1>5, <2>1, <2>2, <2>3 DEF Fair, Stale
<1>7. OneEach(c)' /\ Up(c)'
  BY <1>5 DEF CallOK, OneEach, ReportsOf, TrackedOf, Up
<1>8. \A made : Sound(c, made)' <=> Sound(c, made)
  BY <1>4, <1>5, FirstStays DEF Sound
<1>9. TrackedOK(c)'
  BY <1>4, <1>5, <1>8 DEF CallOK, TrackedOK
<1>10. ReportsOK(c)'
  <2>1. reports[c] \in Seq(Report)
    BY DEF TInv, TypeOK, CallsTypeOK
  <2>2. \A i \in DOMAIN reports[c] : reports[c][i] \in Report
    BY <2>1
  <2>3. \A i \in DOMAIN reports[c] : reports[c][i].type \in Types
    BY <2>2 DEF Report
  <2> QED BY <1>5, <1>6, <1>8, <2>3 DEF CallOK, ReportsOK
<1>11. HandledOK(c)'
  <2> SUFFICES ASSUME NEW type \in Types, Expected(c, type)', Possible(c, type)'
               PROVE  OnItsWay(c, type)'
    BY DEF HandledOK
  <2>1. Expected(c, type)
    BY <1>4, <1>5, FirstStays DEF Expected
  <2>2. Possible(c, type)
    BY <1>4, <1>5, <1>6 DEF Possible
  <2>3. OnItsWay(c, type)
    BY <1>4, <1>5, <2>1, <2>2 DEF CallOK, HandledOK
  <2> QED BY <1>5, <2>3 DEF OnItsWay, ReportsOf, TrackedOf
<1> QED BY <1>7, <1>9, <1>10, <1>11 DEF CallOK

\* One more report of a call.
LEMMA OneReport ==
  ASSUME TInv, NEW c \in Caller, NEW report,
         reports' = [reports EXCEPT ![c] = Append(@, report)]
  PROVE  /\ \A i \in DOMAIN reports'[c] :
              \/ i \in DOMAIN reports[c] /\ reports'[c][i] = reports[c][i]
              \/ i = Len(reports[c]) + 1 /\ reports'[c][i] = report
         /\ \A type : type # report.type => ReportsOf(c, type)' = ReportsOf(c, type)
         /\ \A type : type = report.type =>
              /\ ReportsOf(c, type)' # {}
              /\ ReportsOf(c, type) = {} => \A i, j \in ReportsOf(c, type)' : i = j
<1>1. reports[c] \in Seq(Report) /\ reports'[c] = Append(reports[c], report)
  BY DEF TInv, TypeOK, CallsTypeOK
<1>2. /\ Len(reports[c]) \in Nat /\ DOMAIN reports[c] = 1..Len(reports[c])
      /\ DOMAIN reports'[c] = 1..(Len(reports[c]) + 1)
      /\ \A i \in DOMAIN reports[c] : reports'[c][i] = reports[c][i]
      /\ reports'[c][Len(reports[c]) + 1] = report
  BY <1>1
<1>3. /\ \A i \in DOMAIN reports'[c] : i \in DOMAIN reports[c] \/ i = Len(reports[c]) + 1
      /\ \A i \in DOMAIN reports[c] : i \in DOMAIN reports'[c] /\ i # Len(reports[c]) + 1
      /\ Len(reports[c]) + 1 \in DOMAIN reports'[c]
  BY <1>2
<1>4. ASSUME NEW type, type # report.type PROVE ReportsOf(c, type)' = ReportsOf(c, type)
  BY <1>2, <1>3, <1>4 DEF ReportsOf
<1>5. ASSUME NEW type, type = report.type
      PROVE  /\ ReportsOf(c, type)' # {}
             /\ ReportsOf(c, type) = {} => \A i, j \in ReportsOf(c, type)' : i = j
  <2>1. ReportsOf(c, type)' = ReportsOf(c, type) \cup {Len(reports[c]) + 1}
    BY <1>2, <1>3, <1>5 DEF ReportsOf
  <2> QED BY <2>1
<1> QED BY <1>2, <1>3, <1>4, <1>5

\* What a hooked function of a type is, and which functions the monitors of the
\* types that are reported on return hook.
LEMMA HookedFor ==
  /\ \A vm, func : func \in Hooked("delete", vm) /\ func \in OpenFuncs => vm \in Win8
  /\ \A vm, func : func \in Hooked("modify", vm) => func \in WriteFuncs
  /\ \A vm, func : func \in Hooked("attr", vm) => func \in SetInfoFuncs
  /\ \A vm, func : func \in Hooked("access", vm) => func \in SecurityFuncs
  BY DEF Hooked, DeleteHooks, ModifyHooks, AttrHooks, AccessHooks, OpenFuncs, SetInfoFuncs

\* What an entry callback reports at once the call does, and what it has to report
\* at once, or has to hand on, it does if a policy covers the name.
LEMMA AtOnceIsOf ==
  ASSUME NEW c \in Caller, NEW type, NEW made, made.func = call[c].func,
         call[c].func \in Hooked(type, VmOf[c]), ReportsAtOnce(type, made)
  PROVE  /\ type \notin OnReturn
         /\ made.class = call[c].class /\ made.flag = call[c].flag => IsOf(c, type)
<1>1. CASE type = "delete"
  <2>1. DeletesOpen(made) \/ (made.func \in OpenFuncs /\ made.flag /\ VmOf[c] \in Win8)
    BY <1>1, HookedFor DEF ReportsAtOnce, DeletesOnClose
  <2> QED BY <1>1, <2>1 DEF DeletesOpen, IsOf, OnReturn
<1>2. CASE type = "attr"
  <2>1. call[c].func \in SetInfoFuncs /\ ChangesAttributes(made)
    BY <1>2, HookedFor DEF ReportsAtOnce
  <2> QED BY <1>2, <2>1 DEF ChangesAttributes, IsOf, OnReturn
<1> QED BY <1>1, <1>2 DEF ReportsAtOnce

LEMMA ReportedIfAsked ==
  ASSUME NEW c \in Caller, NEW type \in Types, NEW made, made.func = call[c].func,
         made.class = call[c].class, made.flag = call[c].flag, pc[c] = "entered",
         Possible(c, type), type = "modify" => made.name # NoName,
         FilterMatch(type, made.name) > 0, FilterMatch(type, made.name) \in Int
  PROVE  /\ type \notin OnReturn => ReportsAtOnce(type, made)
         /\ type \in OnReturn => Tracks(type, made) /\ ~ReturnsAnything(type, made)
         /\ type \in OnReturn <=> ~ReportsAtOnce(type, made)
<1>1. FilterMatch(type, made.name) >= 0
  OBVIOUS
<1>2. CASE type = "delete"
  BY <1>1, <1>2 DEF Possible, OnReturn, IsOf, ReportsAtOnce, DeletesOpen, DeletesOnClose
<1>3. CASE type = "attr"
  BY <1>1, <1>3 DEF Possible, OnReturn, IsOf, ReportsAtOnce, ChangesAttributes
<1>4. CASE type = "create"
  BY <1>1, <1>4 DEF Possible, OnReturn, TrackedFuncs, OpenFuncs, SetInfoFuncs, Tracks,
                    CreatefileTracks, ReturnsAnything, ReportsAtOnce
<1>5. CASE type = "modify"
  BY <1>1, <1>5 DEF Possible, OnReturn, Tracks, WritefileTracks, ReturnsAnything, ReportsAtOnce
<1>6. CASE type = "access"
  BY <1>1, <1>6 DEF Possible, OnReturn, Tracks, SetsecurityTracks, ReturnsAnything, ReportsAtOnce
<1> QED BY <1>2, <1>3, <1>4, <1>5, <1>6 DEF Types

\* What is tracked is on a function of its type, for a policy.
LEMMA TrackedIsFor ==
  ASSUME NEW c \in Caller, NEW type \in Types, NEW made, made.func = call[c].func,
         call[c].func \in Hooked(type, VmOf[c]),
         Tracks(type, made), FilterMatch(type, made.name) \in Int
  PROVE  /\ type \in OnReturn /\ call[c].func \in TrackedFuncs(type)
         /\ FilterMatch(type, made.name) >= 0
<1>1. CASE type = "create"
  BY <1>1 DEF Tracks, CreatefileTracks, OnReturn, TrackedFuncs
<1>2. CASE type = "modify"
  BY <1>2, HookedFor DEF Tracks, WritefileTracks, OnReturn, TrackedFuncs
<1>3. CASE type = "access"
  BY <1>3, HookedFor DEF Tracks, SetsecurityTracks, OnReturn, TrackedFuncs
<1> QED BY <1>1, <1>2, <1>3 DEF Tracks

\* What an entry callback of a type made, if anything, is a report or parameters.
LEMMA CallsMade ==
  ASSUME TInv, NEW c \in Caller, CallOK(c), NEW type \in Types, UNCHANGED settings,
         UNCHANGED <<setup, pc, call>>, pc[c] = "entered", due[c][type] = 1, due'[c][type] = 0,
         \A other \in Types \ {type} : due'[c][other] = due[c][other],
         \A other : other # type =>
           /\ (other \in misread'[c] <=> other \in misread[c])
           /\ (other \in misjudged'[c] <=> other \in misjudged[c]),
         NEW made, made.type = type,
         \/ /\ reports' = [reports EXCEPT ![c] = Append(@, made)] /\ UNCHANGED tracked
            /\ Sound(c, made)' /\ Fair(c, type)' /\ type \notin OnReturn
         \/ /\ tracked'[c] = tracked[c] \cup {made} /\ UNCHANGED reports
            /\ made.own => Sound(c, made)' /\ type \in OnReturn /\ call[c].func \in TrackedFuncs(type)
         \/ UNCHANGED <<tracked, reports>>,
         \/ reports'[c] = Append(reports[c], made)
         \/ made \in tracked'[c] /\ made.own
         \/ ~(Expected(c, type)' /\ Possible(c, type)')
  PROVE  CallOK(c)'
<1>1. ReportsOf(c, type) = {} /\ TrackedOf(c, type) = {}
  BY DEF CallOK, OneEach
<1>2. UNCHANGED <<hooks, phase, pc, call>>
  BY DEF setup
<1>3. \A any : any.type # type => (Sound(c, any)' <=> Sound(c, any))
  BY <1>2, FirstStays DEF Sound
<1>4. \A any : /\ (IsOf(c, any)' <=> IsOf(c, any))
               /\ any # type => (Fair(c, any)' <=> Fair(c, any))
  BY <1>2 DEF IsOf, Fair, Stale
<1>5. Up(c)'
  BY <1>2 DEF CallOK, Up
<1>6. \A other \in Types \ {type} : Expected(c, other)' /\ Possible(c, other)'
                                      => Expected(c, other) /\ Possible(c, other)
  BY <1>2, <1>4, FirstStays DEF Expected, Possible
<1>7. \A params \in tracked[c] : params.type # type
  BY <1>1 DEF TrackedOf
<1>8. \A i \in DOMAIN reports[c] : reports[c][i].type # type
  BY <1>1 DEF ReportsOf
<1>9. CASE /\ reports' = [reports EXCEPT ![c] = Append(@, made)] /\ UNCHANGED tracked
           /\ Sound(c, made)' /\ Fair(c, type)' /\ type \notin OnReturn
  <2>1. /\ \A i \in DOMAIN reports'[c] :
             \/ i \in DOMAIN reports[c] /\ reports'[c][i] = reports[c][i]
             \/ i = Len(reports[c]) + 1 /\ reports'[c][i] = made
        /\ \A any : any # type => ReportsOf(c, any)' = ReportsOf(c, any)
        /\ ReportsOf(c, type)' # {}
        /\ \A i, j \in ReportsOf(c, type)' : i = j
    <3>1. made.type = type
      OBVIOUS
    <3>2. reports' = [reports EXCEPT ![c] = Append(@, made)]
      BY <1>9
    <3>3. /\ \A i \in DOMAIN reports'[c] :
               \/ i \in DOMAIN reports[c] /\ reports'[c][i] = reports[c][i]
               \/ i = Len(reports[c]) + 1 /\ reports'[c][i] = made
          /\ \A any : any # made.type => ReportsOf(c, any)' = ReportsOf(c, any)
          /\ \A any : any = made.type =>
               /\ ReportsOf(c, any)' # {}
               /\ ReportsOf(c, any) = {} => \A i, j \in ReportsOf(c, any)' : i = j
      BY <3>2, OneReport
    <3> QED BY <1>1, <3>1, <3>3
  <2>2. \A any : TrackedOf(c, any)' = TrackedOf(c, any)
    BY <1>9 DEF TrackedOf
  <2>3. OneEach(c)'
    <3>1. ASSUME NEW any \in Types \ {type}
          PROVE  /\ due'[c][any] \in {0, 1}
                 /\ due'[c][any] = 1 => /\ pc'[c] = "entered" /\ call'[c].func \in Hooked(any, VmOf[c])
                                        /\ ReportsOf(c, any)' = {} /\ TrackedOf(c, any)' = {}
                 /\ TrackedOf(c, any)' # {} => ReportsOf(c, any)' = {}
                 /\ \A p, q \in TrackedOf(c, any)' : p = q
                 /\ \A i, j \in ReportsOf(c, any)' : i = j
      BY <1>2, <2>1, <2>2 DEF CallOK, OneEach
    <3> QED BY <1>1, <2>1, <2>2, <3>1 DEF OneEach
  <2>4. TrackedOK(c)'
    BY <1>2, <1>3, <1>7, <1>9 DEF CallOK, TrackedOK
  <2>5. ReportsOK(c)'
    BY <1>2, <1>3, <1>4, <1>8, <1>9, <2>1 DEF CallOK, ReportsOK
  <2>6. HandledOK(c)'
    BY <1>2, <1>6, <2>1, <2>2 DEF CallOK, HandledOK, OnItsWay
  <2> QED BY <1>5, <2>3, <2>4, <2>5, <2>6 DEF CallOK
<1>10. ASSUME UNCHANGED reports
       PROVE  ReportsOK(c)' /\ \A any : ReportsOf(c, any)' = ReportsOf(c, any)
  BY <1>2, <1>3, <1>4, <1>8, <1>10 DEF CallOK, ReportsOK, ReportsOf
<1>11. CASE /\ tracked'[c] = tracked[c] \cup {made} /\ UNCHANGED reports
            /\ made.own => Sound(c, made)' /\ type \in OnReturn /\ call[c].func \in TrackedFuncs(type)
  <2>1. TrackedOf(c, type)' = {made} /\ \A any : any # type => TrackedOf(c, any)' = TrackedOf(c, any)
    BY <1>1, <1>11 DEF TrackedOf
  <2>2. OneEach(c)'
    <3>1. ASSUME NEW any \in Types \ {type}
          PROVE  /\ due'[c][any] \in {0, 1}
                 /\ due'[c][any] = 1 => /\ pc'[c] = "entered" /\ call'[c].func \in Hooked(any, VmOf[c])
                                        /\ ReportsOf(c, any)' = {} /\ TrackedOf(c, any)' = {}
                 /\ TrackedOf(c, any)' # {} => ReportsOf(c, any)' = {}
                 /\ \A p, q \in TrackedOf(c, any)' : p = q
                 /\ \A i, j \in ReportsOf(c, any)' : i = j
      BY <1>2, <1>10, <1>11, <2>1 DEF CallOK, OneEach
    <3> QED BY <1>1, <1>10, <1>11, <2>1, <3>1 DEF OneEach
  <2>3. TrackedOK(c)'
    BY <1>2, <1>3, <1>7, <1>11 DEF CallOK, TrackedOK
  <2>4. ASSUME NEW any \in Types, Expected(c, any)', Possible(c, any)'
        PROVE  OnItsWay(c, any)'
    <3>1. CASE any # type
      BY <1>2, <1>6, <1>10, <1>11, <2>1, <2>4, <3>1 DEF CallOK, HandledOK, OnItsWay
    <3>2. CASE any = type
      <4>1. ReportsOf(c, type)' = {}
        BY <1>1, <1>10, <1>11
      <4>2. reports'[c] # Append(reports[c], made)
        <5>1. reports[c] \in Seq(Report)
          BY DEF TInv, TypeOK, CallsTypeOK
        <5>2. Len(Append(reports[c], made)) = Len(reports[c]) + 1 /\ Len(reports[c]) \in Nat
          BY <5>1
        <5> QED BY <1>11, <5>2
      <4>3. made.own
        BY <2>4, <3>2, <4>2
      <4> QED BY <2>1, <3>2, <4>3 DEF OnItsWay
    <3> QED BY <3>1, <3>2
  <2>5. HandledOK(c)'
    BY <1>2, <2>4 DEF HandledOK
  <2> QED BY <1>5, <1>10, <1>11, <2>2, <2>3, <2>5 DEF CallOK
<1>12. CASE UNCHANGED <<tracked, reports>>
  <2>1. \A any : TrackedOf(c, any)' = TrackedOf(c, any)
    BY <1>12 DEF TrackedOf
  <2>2. OneEach(c)'
    <3>1. ASSUME NEW any \in Types
          PROVE  /\ due'[c][any] \in {0, 1}
                 /\ due'[c][any] = 1 => /\ pc'[c] = "entered" /\ call'[c].func \in Hooked(any, VmOf[c])
                                        /\ ReportsOf(c, any)' = {} /\ TrackedOf(c, any)' = {}
                 /\ TrackedOf(c, any)' # {} => ReportsOf(c, any)' = {}
                 /\ \A p, q \in TrackedOf(c, any)' : p = q
                 /\ \A i, j \in ReportsOf(c, any)' : i = j
      BY <1>2, <1>10, <1>12, <2>1 DEF CallOK, OneEach
    <3> QED BY <3>1 DEF OneEach
  <2>3. TrackedOK(c)'
    BY <1>2, <1>3, <1>7, <1>12 DEF CallOK, TrackedOK
  <2>4. ~(Expected(c, type)' /\ Possible(c, type)')
    <3>1. made \notin tracked'[c]
      BY <1>7, <1>12
    <3>2. reports'[c] # Append(reports[c], made)
      <4>1. reports[c] \in Seq(Report)
        BY DEF TInv, TypeOK, CallsTypeOK
      <4>2. Len(Append(reports[c], made)) = Len(reports[c]) + 1 /\ Len(reports[c]) \in Nat
        BY <4>1
      <4> QED BY <1>12, <4>2
    <3> QED BY <3>1, <3>2
  <2>5. HandledOK(c)'
    BY <1>2, <1>6, <1>10, <1>12, <2>1, <2>4 DEF CallOK, HandledOK, OnItsWay
  <2> QED BY <1>5, <1>10, <1>12, <2>2, <2>3, <2>5 DEF CallOK
<1> QED BY <1>9, <1>11, <1>12

LEMMA CallsEntryCallback ==
  ASSUME TInv, FInv, NEW c \in Caller, CallOK(c), NEW type \in Types, EntryCallback(c, type),
         UNCHANGED settings
  PROVE  CallOK(c)'
<1>1. /\ pc[c] = "entered" /\ due[c][type] = 1 /\ due'[c][type] = 0
      /\ \A other \in Types \ {type} : due'[c][other] = due[c][other]
      /\ UNCHANGED <<setup, pc, call>> /\ UNCHANGED policies
  <2>1. due \in [Caller -> [Types -> Nat]] /\ due[c] \in [Types -> Nat]
    BY DEF TInv, TypeOK, CallsTypeOK
  <2>2. due' = [due EXCEPT ![c] = [due[c] EXCEPT ![type] = due[c][type] - 1]]
    BY Zenon DEF EntryCallback
  <2>3. due[c][type] = 1
    BY DEF EntryCallback, CallOK, OneEach
  <2>4. due'[c][type] = 0 /\ \A other \in Types \ {type} : due'[c][other] = due[c][other]
    BY <2>1, <2>2, <2>3
  <2> QED BY <2>3, <2>4 DEF EntryCallback, settings
<1>2. PICK made \in ReadAs(c, type) :
        /\ misread' = [misread EXCEPT ![c] =
                         IF made.name = call[c].name THEN @ ELSE @ \cup {type}]
        /\ misjudged' = [misjudged EXCEPT ![c] =
                           IF made.class = call[c].class /\ made.flag = call[c].flag
                           THEN @ ELSE @ \cup {type}]
        /\ LET id == FilterMatch(type, made.name) IN
           \/ /\ ReportsAtOnce(type, made)
              /\ \E report \in Reported(made.func, type, id, made.name) :
                   reports' = [reports EXCEPT ![c] = Append(@, report)]
              /\ UNCHANGED tracked
           \/ /\ Tracks(type, made)
              /\ tracked' = [tracked EXCEPT ![c] =
                   @ \cup {[type |-> type, id |-> id, name |-> made.name, own |-> TRUE]}]
              /\ UNCHANGED reports
           \/ /\ ReturnsAnything(type, made)
              /\ tracked' = [tracked EXCEPT ![c] =
                   @ \cup {[type |-> type, id |-> NoMatch, name |-> NoName, own |-> FALSE]}]
              /\ UNCHANGED reports
           \/ /\ ~ReportsAtOnce(type, made) /\ ~Tracks(type, made)
              /\ UNCHANGED <<tracked, reports>>
  BY Zenon DEF EntryCallback
<1> DEFINE name == made.name
<1> DEFINE id == FilterMatch(type, name)
<1>3. \A other : other # type =>
         /\ (other \in misread'[c] <=> other \in misread[c])
        /\ (other \in misjudged'[c] <=> other \in misjudged[c])
  BY <1>2 DEF TInv, TypeOK, CallsTypeOK
<1>4. /\ type \notin misread'[c] => name = call[c].name
      /\ type \notin misjudged'[c] => made.class = call[c].class /\ made.flag = call[c].flag
      /\ made.func = call[c].func
  BY <1>2, ReadAsCall DEF TInv, TypeOK, CallsTypeOK
<1>5. id \in Int
  <2>1. DOMAIN policies \subseteq Int /\ filter[type] \in Seq(DOMAIN policies)
    BY DEF TInv, TypeOK, SetupTypeOK
  <2> QED BY <2>1, FilterMatchAnswer
<1>6. call[c].func \in Hooked(type, VmOf[c])
  BY <1>1 DEF CallOK, OneEach
<1>7. ASSUME NEW any, id >= 0, any.type = type, any.name = name, any.id = id
      PROVE  Sound(c, any)'
  <2>1. First(type, name, id)
    BY <1>7, AnswerIsFirst
  <2>2. First(any.type, any.name, any.id)'
    BY <1>7, <2>1, FirstStays
  <2> QED BY <1>1, <1>4, <1>7, <2>2 DEF Sound
<1>8. ASSUME Expected(c, type)', Possible(c, type)'
      PROVE  /\ type \notin OnReturn => ReportsAtOnce(type, made)
             /\ type \in OnReturn => Tracks(type, made) /\ ~ReturnsAnything(type, made)
             /\ type \in OnReturn <=> ~ReportsAtOnce(type, made)
  <2>1. name = call[c].name /\ made.class = call[c].class /\ made.flag = call[c].flag
    BY <1>1, <1>4, <1>8 DEF Expected
  <2>2. Covering(type, name) # {} /\ \A any \in Covering(type, name) : any >= 0
    BY <1>1, <1>8, <2>1, FirstStays DEF Expected
  <2>3. \A any \in DOMAIN policies : Added(any)
    <3>1. VmOf[c] \in Vm /\ phase[VmOf[c]] # "new"
      BY <1>1, MonitorsAssumption DEF CallOK, Up
    <3> QED BY <3>1 DEF FInv, AllAdded
  <2>4. id > 0
    BY <2>2, <2>3, AnswerIfCovered DEF FInv
  <2>5. Possible(c, type)
    BY <1>1, <1>8 DEF Possible, IsOf
  <2>6. type = "modify" => name # NoName
    BY <1>1, <1>8, <2>1 DEF Expected
  <2> QED BY <1>1, <1>4, <1>5, <2>1, <2>4, <2>5, <2>6, ReportedIfAsked
<1>9. CASE /\ ReportsAtOnce(type, made) /\ UNCHANGED tracked
           /\ \E report \in Reported(made.func, type, id, name) :
                reports' = [reports EXCEPT ![c] = Append(@, report)]
  <2>1. PICK report \in Reported(made.func, type, id, name) :
          reports' = [reports EXCEPT ![c] = Append(@, report)]
    BY <1>9
  <2>2. report.type = type /\ report.name = name /\ report.id = id
    BY <2>1 DEF Reported
  <2>3. id >= 0
    BY <1>9 DEF ReportsAtOnce
  <2>4. Sound(c, report)'
    BY <1>7, <2>2, <2>3
  <2>5. Fair(c, type)' /\ type \notin OnReturn
    <3>1. /\ type \notin OnReturn
          /\ made.class = call[c].class /\ made.flag = call[c].flag => IsOf(c, type)
      BY <1>4, <1>6, <1>9, AtOnceIsOf
    <3>2. IsOf(c, type)' <=> IsOf(c, type)
      BY <1>1 DEF IsOf
    <3> QED BY <1>4, <3>1, <3>2 DEF Fair
  <2>6. reports'[c] = Append(reports[c], report)
    BY <2>1 DEF TInv, TypeOK, CallsTypeOK
  <2> QED BY <1>1, <1>3, <1>9, <2>1, <2>2, <2>4, <2>5, <2>6, CallsMade
<1>10. CASE /\ Tracks(type, made) /\ UNCHANGED reports
            /\ tracked' = [tracked EXCEPT ![c] =
                 @ \cup {[type |-> type, id |-> id, name |-> name, own |-> TRUE]}]
  <2>1. PICK params \in {[type |-> type, id |-> id, name |-> name, own |-> TRUE]} : TRUE
    OBVIOUS
  <2>2. params.type = type /\ params.name = name /\ params.id = id /\ params.own
    BY <2>1
  <2>3. tracked'[c] = tracked[c] \cup {params}
    BY <1>10, <2>1 DEF TInv, TypeOK, CallsTypeOK
  <2>4. type \in OnReturn /\ call[c].func \in TrackedFuncs(type) /\ id >= 0
    BY <1>4, <1>5, <1>6, <1>10, TrackedIsFor
  <2>5. Sound(c, params)'
    BY <1>7, <2>2, <2>4
  <2>6. params \in tracked'[c]
    BY <2>3
  <2> QED BY <1>1, <1>3, <1>10, <2>2, <2>3, <2>4, <2>5, <2>6, CallsMade
<1>11. CASE /\ ReturnsAnything(type, made) /\ UNCHANGED reports
            /\ tracked' = [tracked EXCEPT ![c] =
                 @ \cup {[type |-> type, id |-> NoMatch, name |-> NoName, own |-> FALSE]}]
  <2>1. PICK params \in {[type |-> type, id |-> NoMatch, name |-> NoName, own |-> FALSE]} : TRUE
    OBVIOUS
  <2>2. params.type = type /\ ~params.own
    BY <2>1
  <2>3. tracked'[c] = tracked[c] \cup {params}
    BY <1>11, <2>1 DEF TInv, TypeOK, CallsTypeOK
  <2>4. ~(Expected(c, type)' /\ Possible(c, type)')
    BY <1>8, <1>11 DEF ReturnsAnything, OnReturn
  <2> QED BY <1>1, <1>3, <1>11, <2>2, <2>3, <2>4, CallsMade
<1>12. CASE ~ReportsAtOnce(type, made) /\ ~Tracks(type, made) /\ UNCHANGED <<tracked, reports>>
  <2>1. PICK none \in {[type |-> type]} : TRUE
    OBVIOUS
  <2>2. none.type = type
    BY <2>1
  <2>3. ~(Expected(c, type)' /\ Possible(c, type)')
    BY <1>8, <1>12
  <2> QED BY <1>1, <1>3, <1>12, <2>2, <2>3, CallsMade
<1> QED BY <1>2, <1>9, <1>10, <1>11, <1>12

\* A return callback uses up its parameters, and reports if the call came to pass.
LEMMA CallsReturnCallback ==
  ASSUME TInv, NEW c \in Caller, CallOK(c), NEW params \in tracked[c], ReturnCallback(c, params),
         UNCHANGED settings
  PROVE  CallOK(c)'
<1> DEFINE type == params.type
<1>1. /\ pc[c] = "returned" /\ tracked'[c] = tracked[c] \ {params}
      /\ UNCHANGED <<setup, pc, call, due, misread>> /\ UNCHANGED <<hooks, phase, policies>>
  BY DEF ReturnCallback, Without, TInv, TypeOK, CallsTypeOK, setup, settings
<1>2. type \in Types /\ params \in TrackedOf(c, type)
  BY DEF TInv, TypeOK, CallsTypeOK, Params, TrackedOf
<1>3. TrackedOf(c, type) = {params} /\ ReportsOf(c, type) = {}
  BY <1>2 DEF CallOK, OneEach
<1>4. TrackedOf(c, type)' = {} /\ \A other : other # type => TrackedOf(c, other)' = TrackedOf(c, other)
  BY <1>1, <1>3 DEF TrackedOf
<1>5. \A made : Sound(c, made)' <=> Sound(c, made)
  BY <1>1, FirstStays DEF Sound
<1>6. PICK info \in ReadInfo(c, type) :
        LET confirmed == ReadsParams(call[c].func, type) /\ Confirms(type, info, call[c].status) IN
        /\ misjudged' = [misjudged EXCEPT ![c] = IF info = call[c].info THEN @ ELSE @ \cup {type}]
        /\ \/ /\ confirmed
              /\ \E report \in Reported(call[c].func, type, params.id, params.name) :
                   reports' = [reports EXCEPT ![c] = Append(@, report)]
           \/ ~confirmed /\ UNCHANGED reports
  BY Zenon DEF ReturnCallback
<1>7. /\ type \notin misjudged'[c] => info = call[c].info
      /\ \A other : other # type => (other \in misjudged'[c] <=> other \in misjudged[c])
      /\ misjudged[c] \subseteq misjudged'[c]
  BY <1>6 DEF TInv, TypeOK, CallsTypeOK
<1>8. \A other : /\ (IsOf(c, other)' <=> IsOf(c, other))
                 /\ other # type => (Fair(c, other)' <=> Fair(c, other))
  BY <1>1, <1>7 DEF IsOf, Fair, Stale
<1>9. Up(c)' /\ TrackedOK(c)'
  BY <1>1, <1>5 DEF CallOK, Up, TrackedOK
<1>10. \A other \in Types : due'[c][other] = 0
  BY <1>1 DEF CallOK, OneEach
<1>11. \A other \in Types : Expected(c, other)' /\ Possible(c, other)'
                             => Expected(c, other) /\ Possible(c, other)
  BY <1>1, <1>7, <1>8, FirstStays DEF Expected, Possible
<1>12. CASE /\ ReadsParams(call[c].func, type) /\ Confirms(type, info, call[c].status)
            /\ \E report \in Reported(call[c].func, type, params.id, params.name) :
                 reports' = [reports EXCEPT ![c] = Append(@, report)]
  <2>1. PICK report \in Reported(call[c].func, type, params.id, params.name) :
          reports' = [reports EXCEPT ![c] = Append(@, report)]
    BY <1>12
  <2>2. report.type = type /\ report.name = params.name /\ report.id = params.id
    BY <2>1 DEF Reported
  <2>3. params.own
    BY <1>12 DEF TInv, OwnOK, ReadsParams
  <2>4. Sound(c, params) /\ type \in OnReturn /\ call[c].func \in TrackedFuncs(type)
    BY <2>3 DEF CallOK, TrackedOK
  <2>5. Sound(c, report)'
    BY <1>5, <2>2, <2>4 DEF Sound
  <2>6. Fair(c, type)'
    <3> SUFFICES ASSUME type \notin misjudged'[c] PROVE IsOf(c, type) \/ Stale(c, type)
      BY <1>1, <1>8 DEF Fair, Stale
    <3>0. info = call[c].info
      BY <1>7
    <3>1. CASE type = "create"
      BY <1>12, <2>4, <3>0, <3>1 DEF Confirms, CreatefileConfirms, TrackedFuncs, IsOf, Stale
    <3>2. CASE type = "modify"
      BY <1>12, <2>4, <3>2 DEF Confirms, WritefileConfirms, TrackedFuncs, IsOf
    <3>3. CASE type = "access"
      BY <1>12, <2>4, <3>3 DEF Confirms, SetsecurityConfirms, TrackedFuncs, IsOf
    <3> QED BY <2>4, <3>1, <3>2, <3>3 DEF OnReturn
  <2>7. /\ \A i \in DOMAIN reports'[c] :
             \/ i \in DOMAIN reports[c] /\ reports'[c][i] = reports[c][i]
             \/ i = Len(reports[c]) + 1 /\ reports'[c][i] = report
        /\ \A any : any # report.type => ReportsOf(c, any)' = ReportsOf(c, any)
        /\ \A any : any = report.type =>
             /\ ReportsOf(c, any)' # {}
             /\ ReportsOf(c, any) = {} => \A i, j \in ReportsOf(c, any)' : i = j
    BY <2>1, OneReport
  <2>8. /\ ReportsOf(c, type)' # {} /\ \A i, j \in ReportsOf(c, type)' : i = j
        /\ \A any : any # type => ReportsOf(c, any)' = ReportsOf(c, any)
    BY <1>3, <2>2, <2>7
  <2>9. OneEach(c)'
    <3>1. ASSUME NEW any \in Types \ {type}
          PROVE  /\ TrackedOf(c, any)' # {} => ReportsOf(c, any)' = {}
                 /\ \A p, q \in TrackedOf(c, any)' : p = q
                 /\ \A i, j \in ReportsOf(c, any)' : i = j
      BY <1>4, <2>8 DEF CallOK, OneEach
    <3> QED BY <1>4, <1>10, <2>8, <3>1 DEF OneEach
  <2>10. ReportsOK(c)'
    <3>1. \A i \in DOMAIN reports[c] : reports[c][i].type # type
      BY <1>3 DEF ReportsOf
    <3> QED BY <1>1, <1>5, <1>8, <2>2, <2>5, <2>6, <2>7, <3>1 DEF CallOK, ReportsOK
  <2>11. HandledOK(c)'
    BY <1>1, <1>4, <1>11, <2>8 DEF CallOK, HandledOK, OnItsWay
  <2> QED BY <1>9, <2>9, <2>10, <2>11 DEF CallOK
<1>13. CASE /\ ~(ReadsParams(call[c].func, type) /\ Confirms(type, info, call[c].status))
            /\ UNCHANGED reports
  <2>1. \A any : ReportsOf(c, any)' = ReportsOf(c, any)
    BY <1>13 DEF ReportsOf
  <2>2. OneEach(c)'
    <3>1. ASSUME NEW any \in Types \ {type}
          PROVE  /\ TrackedOf(c, any)' # {} => ReportsOf(c, any)' = {}
                 /\ \A p, q \in TrackedOf(c, any)' : p = q
                 /\ \A i, j \in ReportsOf(c, any)' : i = j
      BY <1>4, <2>1 DEF CallOK, OneEach
    <3> QED BY <1>3, <1>4, <1>10, <2>1, <3>1 DEF OneEach
  <2>3. ReportsOK(c)'
    <3>1. \A i \in DOMAIN reports[c] : reports[c][i].type # type
      BY <1>3 DEF ReportsOf
    <3> QED BY <1>1, <1>5, <1>13, <1>8, <3>1 DEF CallOK, ReportsOK
  <2>4. ASSUME params.own, type \notin misjudged'[c] PROVE ~Possible(c, type)
    <3>1. type \in OnReturn /\ call[c].func \in TrackedFuncs(type)
      BY <2>4 DEF CallOK, TrackedOK
    <3>2. ReadsParams(call[c].func, type)
      BY <3>1 DEF TrackedFuncs, ReadsParams, OpenFuncs, SetInfoFuncs
    <3>3. ~Confirms(type, call[c].info, call[c].status)
      BY <1>13, <1>7, <2>4, <3>2
    <3>4. ASSUME call[c].status = "success", IsOf(c, type)
          PROVE  Confirms(type, call[c].info, call[c].status)
      <4>1. CASE type = "create"
        BY <3>4, <4>1 DEF IsOf, Confirms, CreatefileConfirms, NtSuccess
      <4>2. CASE type = "modify"
        BY <3>4, <4>2 DEF IsOf, Confirms, WritefileConfirms
      <4>3. CASE type = "access"
        BY <3>4, <4>3 DEF IsOf, Confirms, SetsecurityConfirms
      <4> QED BY <3>1, <4>1, <4>2, <4>3 DEF OnReturn
    <3> QED BY <1>1, <3>1, <3>3, <3>4 DEF Possible
  <2>5. ASSUME NEW any \in Types, Expected(c, any)', Possible(c, any)'
        PROVE  OnItsWay(c, any)'
    <3>1. OnItsWay(c, any) /\ Possible(c, any) /\ any \notin misjudged'[c]
      BY <1>1, <1>11, <2>5 DEF CallOK, HandledOK, Expected
    <3>2. CASE any # type
      BY <1>1, <1>4, <2>1, <3>1, <3>2 DEF OnItsWay
    <3>3. CASE any = type
      BY <1>1, <1>3, <1>10, <2>4, <3>1, <3>3 DEF OnItsWay
    <3> QED BY <3>2, <3>3
  <2>6. HandledOK(c)'
    BY <1>1, <2>5 DEF HandledOK
  <2> QED BY <1>9, <2>2, <2>3, <2>6 DEF CallOK
<1> QED BY <1>6, <1>12, <1>13

\* One caller does something.
LEMMA CallsOther ==
  ASSUME TInv, CInv, UNCHANGED settings, UNCHANGED setup, NEW c \in Caller, CallOK(c)',
         \A d \in Caller \ {c} :
           /\ pc'[d] = pc[d] /\ call'[d] = call[d] /\ due'[d] = due[d]
           /\ tracked'[d] = tracked[d] /\ misread'[d] = misread[d]
           /\ misjudged'[d] = misjudged[d] /\ reports'[d] = reports[d]
  PROVE  CInv'
<1> SUFFICES ASSUME NEW d \in Caller PROVE CallOK(d)'
  BY DEF CInv
<1>1. CASE d = c
  BY <1>1
<1>2. CASE d # c
  <2>1. SameCall(d)
    BY <1>2 DEF SameCall, setup
  <2> QED BY <2>1, CallSame DEF CInv
<1> QED BY <1>1, <1>2

LEMMA CallsStep == TInv /\ HInv /\ FInv /\ CInv /\ [Next]_vars => CInv'
<1> SUFFICES ASSUME TInv, HInv, FInv, CInv, [Next]_vars PROVE CInv'
  OBVIOUS
<1>1. UNCHANGED settings
  BY SettingsStep DEF TInv
<1>2. CallsTypeOK /\ \A c \in Caller : CallOK(c)
  BY DEF TInv, TypeOK, CInv
<1>3. ASSUME NEW vm \in Vm, Setup(vm) PROVE CInv'
  BY <1>1, <1>3, CallsSetup
<1>4. ASSUME NEW vm \in Vm, GoDown(vm) PROVE CInv'
  BY <1>1, <1>4, CallsGoDown
<1>5. ASSUME NEW c \in Caller, NEW request \in Request, Enter(c, request) PROVE CInv'
  <2>1. CallOK(c)'
    BY <1>1, <1>2, <1>5, CallsEnter
  <2>2. UNCHANGED setup /\ \A d \in Caller \ {c} :
           /\ pc'[d] = pc[d] /\ call'[d] = call[d] /\ due'[d] = due[d]
           /\ tracked'[d] = tracked[d] /\ misread'[d] = misread[d]
           /\ misjudged'[d] = misjudged[d] /\ reports'[d] = reports[d]
    BY <1>2, <1>5 DEF Enter, CallsTypeOK
  <2> QED BY <1>1, <2>1, <2>2, CallsOther
<1>6. ASSUME NEW c \in Caller, NEW type \in Types, EntryCallback(c, type) PROVE CInv'
  <2>1. CallOK(c)'
    BY <1>1, <1>2, <1>6, CallsEntryCallback
  <2>2. UNCHANGED setup /\ \A d \in Caller \ {c} :
           /\ pc'[d] = pc[d] /\ call'[d] = call[d] /\ due'[d] = due[d]
           /\ tracked'[d] = tracked[d] /\ misread'[d] = misread[d]
           /\ misjudged'[d] = misjudged[d] /\ reports'[d] = reports[d]
    BY <1>2, <1>6 DEF EntryCallback, CallsTypeOK
  <2> QED BY <1>1, <2>1, <2>2, CallsOther
<1>7. ASSUME NEW c \in Caller, Return(c) PROVE CInv'
  <2>1. CallOK(c)'
    BY <1>1, <1>2, <1>7, CallsReturn
  <2>2. UNCHANGED setup /\ \A d \in Caller \ {c} :
           /\ pc'[d] = pc[d] /\ call'[d] = call[d] /\ due'[d] = due[d]
           /\ tracked'[d] = tracked[d] /\ misread'[d] = misread[d]
           /\ misjudged'[d] = misjudged[d] /\ reports'[d] = reports[d]
    BY <1>2, <1>7 DEF Return, CallsTypeOK
  <2> QED BY <1>1, <2>1, <2>2, CallsOther
<1>8. ASSUME NEW c \in Caller, NEW params \in tracked[c], ReturnCallback(c, params) PROVE CInv'
  <2>1. CallOK(c)'
    BY <1>1, <1>2, <1>8, CallsReturnCallback
  <2>2. UNCHANGED setup /\ \A d \in Caller \ {c} :
           /\ pc'[d] = pc[d] /\ call'[d] = call[d] /\ due'[d] = due[d]
           /\ tracked'[d] = tracked[d] /\ misread'[d] = misread[d]
           /\ misjudged'[d] = misjudged[d] /\ reports'[d] = reports[d]
    BY <1>2, <1>8 DEF ReturnCallback, CallsTypeOK
  <2> QED BY <1>1, <2>1, <2>2, CallsOther
<1>9. CASE UNCHANGED vars
  <2>1. UNCHANGED setup /\ UNCHANGED calls
    BY <1>9 DEF vars
  <2>2. \A c \in Caller : SameCall(c)
    BY <2>1 DEF SameCall, setup, calls
  <2> QED BY <1>1, <1>2, <2>2, CallSame DEF CInv
<1> QED BY <1>3, <1>4, <1>5, <1>6, <1>7, <1>8, <1>9, Zenon DEF Next

\* A report names a policy that covers the file, there is one of a type at the most,
\* and it is of a call that did what it says, however the callbacks of entry and
\* return, the threads and the restarts of VMs interleave (..._cb and ..._ret_cb of
\* monitors/*.c, filter_match).  It is not so if what the file's name, the arguments
\* or IO_STATUS_BLOCK hold could not be read, which hfm_read_... answers with 0; nor
\* for a call that failed and found a FILE_CREATED in IO_STATUS_BLOCK.
THEOREM ReportsAlwaysSound == Spec => []ReportsSound
<1>1. TInv /\ CInv => ReportsSound
  <2> SUFFICES ASSUME TInv, CInv, NEW c \in Caller
               PROVE  /\ \A i, j \in DOMAIN reports[c] : reports[c][i].type = reports[c][j].type => i = j
                      /\ \A i \in DOMAIN reports[c] :
                           LET report == reports[c][i] IN
                           /\ report.id \in Covering(report.type, report.name)
                           /\ report.type \notin misread[c] => report.name = call[c].name
                           /\ report.type \notin misjudged[c] =>
                                IsOf(c, report.type) \/ Stale(c, report.type)
    BY DEF ReportsSound, ReportedOnce, Justified
  <2>1. CallOK(c)
    BY DEF CInv
  <2>2. \A i \in DOMAIN reports[c] : reports[c][i].type \in Types
    <3>1. reports[c] \in Seq(Report)
      BY DEF TInv, TypeOK, CallsTypeOK
    <3>2. \A i \in DOMAIN reports[c] : reports[c][i] \in Report
      BY <3>1
    <3> QED BY <3>2 DEF Report
  <2>3. \A i, j \in DOMAIN reports[c] : reports[c][i].type = reports[c][j].type => i = j
    BY <2>1, <2>2 DEF CallOK, OneEach, ReportsOf
  <2>4. \A i \in DOMAIN reports[c] : Sound(c, reports[c][i]) /\ Fair(c, reports[c][i].type)
    BY <2>1 DEF CallOK, ReportsOK
  <2> QED BY <2>3, <2>4 DEF Sound, First, Fair
<1>2. Init => TInv /\ HInv /\ FInv /\ CInv
  BY TypesInit, HooksInit, FiltersInit, CallsInit
<1>3. TInv /\ HInv /\ FInv /\ CInv /\ [Next]_vars => TInv' /\ HInv' /\ FInv' /\ CInv'
  BY TypesStep, HooksStep, FiltersStep, CallsStep
<1> QED BY <1>1, <1>2, <1>3, PTL DEF Spec

\* The first policy in the order of the table is the one reported, though each
\* restart of a VM appends the patterns again (filter_add, hfm_set_policies).
THEOREM AlwaysFirstInOrder == Spec => []FirstInOrder
<1>1. CInv => FirstInOrder
  <2> SUFFICES ASSUME CInv, NEW c \in Caller, NEW i \in DOMAIN reports[c]
               PROVE  \E j \in DOMAIN order :
                        /\ order[j] \in Covering(reports[c][i].type, reports[c][i].name)
                        /\ order[j] = reports[c][i].id
                        /\ \A k \in DOMAIN order :
                             order[k] \in Covering(reports[c][i].type, reports[c][i].name) => j <= k
    BY DEF FirstInOrder
  <2>1. First(reports[c][i].type, reports[c][i].name, reports[c][i].id)
    BY DEF CInv, CallOK, ReportsOK, Sound
  <2> QED BY <2>1 DEF First
<1>2. Init => TInv /\ HInv /\ FInv /\ CInv
  BY TypesInit, HooksInit, FiltersInit, CallsInit
<1>3. TInv /\ HInv /\ FInv /\ CInv /\ [Next]_vars => TInv' /\ HInv' /\ FInv' /\ CInv'
  BY TypesStep, HooksStep, FiltersStep, CallsStep
<1> QED BY <1>1, <1>2, <1>3, PTL DEF Spec

\* Calls on functions for writing are made to files that have a name.
NamedWrites == \A c \in Caller : pc[c] # "idle" /\ call[c].func \in WriteFuncs => call[c].name # NoName

LEMMA NamedWritesStep ==
  ASSUME \A request \in Request : request.func \in WriteFuncs => request.name # NoName
  PROVE  /\ Init => NamedWrites
         /\ TInv /\ NamedWrites /\ [Next]_vars => NamedWrites'
<1>1. Init => NamedWrites
  BY DEF Init, NamedWrites
<1>2. ASSUME TInv, NamedWrites, [Next]_vars PROVE NamedWrites'
  <2>0. call \in [Caller -> Call] /\ pc \in [Caller -> {"idle", "entered", "returned"}]
    BY <1>2 DEF TInv, TypeOK, CallsTypeOK
  <2>1. ASSUME NEW vm \in Vm, Setup(vm) PROVE NamedWrites'
    BY <1>2, <2>1 DEF Setup, StartSetup, AddPolicy, EndSetup, NamedWrites, calls
  <2>2. ASSUME NEW vm \in Vm, GoDown(vm) PROVE NamedWrites'
    BY <1>2, <2>2 DEF GoDown, NamedWrites
  <2>3. ASSUME NEW c \in Caller, NEW request \in Request, Enter(c, request) PROVE NamedWrites'
    BY <1>2, <2>0, <2>3 DEF Enter, NamedWrites
  <2>4. ASSUME NEW c \in Caller, NEW type \in Types, EntryCallback(c, type) PROVE NamedWrites'
    BY <1>2, <2>4 DEF EntryCallback, NamedWrites
  <2>5. ASSUME NEW c \in Caller, Return(c) PROVE NamedWrites'
    <3>1. PICK end \in Ends(c) : call' = [call EXCEPT ![c] = end]
      BY <2>5 DEF Return
    <3>2. end.func = call[c].func /\ end.name = call[c].name
      <4>1. PICK status, info : end = EndedAs(call[c], status, info)
        BY <3>1 DEF Ends
      <4> QED BY <2>0, <4>1 DEF EndedAs, Call
    <3> QED BY <1>2, <2>0, <2>5, <3>1, <3>2 DEF Return, NamedWrites
  <2>6. ASSUME NEW c \in Caller, NEW params \in tracked[c], ReturnCallback(c, params)
        PROVE  NamedWrites'
    BY <1>2, <2>6 DEF ReturnCallback, NamedWrites
  <2>7. CASE UNCHANGED vars
    BY <1>2, <2>7 DEF vars, calls, NamedWrites
  <2> QED BY <1>2, <2>1, <2>2, <2>3, <2>4, <2>5, <2>6, <2>7, Zenon DEF Next
<1> QED BY <1>1, <1>2

\* An operation that a policy asks for is not missed, whichever call it is made with
\* and whatever else is going on (hfm_set_policies before the VM is listened to, the
\* entry callback that takes the name, the return callback that confirms it), if what
\* the callbacks of that type read of it could be read: where hfm_read_... fails the
\* class, the flag or the Information is 0, and the call may be passed over.  A file
\* that is written has a name: writefile_cb looks at no other.
THEOREM NothingEverMissed ==
  ASSUME \A request \in Request : request.func \in WriteFuncs => request.name # NoName
  PROVE  Spec => []NothingMissed
<1>1. TInv /\ HInv /\ CInv /\ NamedWrites => NothingMissed
  <2> SUFFICES ASSUME TInv, HInv, CInv, NamedWrites, NEW c \in Caller, NEW type \in Types,
                      Done(c), call[c].status = "success", IsOf(c, type),
                      hooks[VmOf[c]][call[c].func][type] > 0,
                      type \notin misread[c] \cup misjudged[c],
                      Covering(type, call[c].name) # {},
                      \A id \in Covering(type, call[c].name) : id >= 0
               PROVE  \E i \in DOMAIN reports[c] : reports[c][i].type = type
    BY DEF NothingMissed
  <2>1. CallOK(c) /\ pc[c] = "returned" /\ tracked[c] = {}
    BY DEF CInv, Done
  <2>2. call[c] \in Call /\ call[c].func \in Func /\ VmOf[c] \in Vm
    BY MonitorsAssumption DEF TInv, TypeOK, CallsTypeOK, Call
  <2>3. call[c].func \in Hooked(type, VmOf[c])
    BY <2>2 DEF HInv, FlagsOK
  <2>4. Expected(c, type)
    <3>1. type = "modify" => call[c].name # NoName
      BY <2>1, <2>3, HookedFor DEF NamedWrites
    <3> QED BY <3>1 DEF Expected
  <2>5. Possible(c, type)
    BY <2>1 DEF Possible, IsOf, TrackedFuncs, OnReturn, Types
  <2>6. OnItsWay(c, type)
    BY <2>1, <2>4, <2>5 DEF CallOK, HandledOK
  <2>7. due[c][type] # 1 /\ TrackedOf(c, type) = {}
    BY <2>1 DEF CallOK, OneEach, TrackedOf
  <2> QED BY <2>6, <2>7 DEF OnItsWay, ReportsOf
<1>2. Init => TInv /\ HInv /\ FInv /\ CInv /\ NamedWrites
  BY TypesInit, HooksInit, FiltersInit, CallsInit, NamedWritesStep
<1>3. TInv /\ HInv /\ FInv /\ CInv /\ NamedWrites /\ [Next]_vars
        => TInv' /\ HInv' /\ FInv' /\ CInv' /\ NamedWrites'
  BY TypesStep, HooksStep, FiltersStep, CallsStep, NamedWritesStep
<1> QED BY <1>1, <1>2, <1>3, PTL DEF Spec
=============================================================================
