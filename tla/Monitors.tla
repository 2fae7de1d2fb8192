------------------------------ MODULE Monitors ------------------------------
(***************************************************************************)
(* From the policy file to the reports: policy.c, hfm_set_policies,        *)
(* monitor.c, the monitors in monitors/*.c and monitor_util.c, with what   *)
(* they read through context.c.                                            *)
(*                                                                         *)
(* The policies are added VM by VM, once by main and again after each      *)
(* restart of a VM.  A monitor hooks its functions when the first policy   *)
(* of its type is added for a VM; its filter is one for all VMs.  A thread *)
(* of a guest calls a function: each hook on it runs its entry callback,   *)
(* which reports at once or hands parameters to a return callback.         *)
(*                                                                         *)
(* The hooks work here as GuestCpu promises, one event at a time; what the *)
(* engine makes of that is AltpTraps.  Paths and patterns are what they    *)
(* match, which FnMatch decides, and a match is atomic: FileFilter has the *)
(* threads that share one.                                                 *)
(***************************************************************************)
EXTENDS Integers, Sequences, FiniteSets

CONSTANTS
  Vm,           \* the VMs of vmlist
  Win8,         \* those that run Windows 8
  Caller,       \* threads of the guests that call kernel functions
  VmOf,         \* the VM of each
  PolicyFile,   \* what the policy file may say: sequences of lines
  Name,         \* file names
  Broken,       \* what a name may be read as when the guest's memory cannot be
  NoName,       \* the empty one of these
  FileExtract,  \* the option file-extract
  Missable,     \* the functions that may not be found or not be hooked
  Request,      \* bound: the calls that are made
  MaxCalling,   \* bound: how many threads make calls
  MaxRestarts   \* bound: how often VMs go down

Types == {"create", "delete", "modify", "attr", "access"}

\* A line: id, severity, action, the names its pattern matches (none: the line
\* has no path), and the option EXTRACT.
Line == [id : Int, severity : STRING, action : STRING, path : SUBSET Name, extract : BOOLEAN]
Policy == [id : Int, type : Types \cup {"invalid"}, path : SUBSET Name, extract : BOOLEAN]

ASSUME MonitorsAssumption ==
  /\ Win8 \subseteq Vm /\ VmOf \in [Caller -> Vm]
  /\ \A file \in PolicyFile : file \in Seq(Line)
  /\ Broken \subseteq Name /\ NoName \in Broken
  /\ FileExtract \in BOOLEAN /\ MaxRestarts \in Nat /\ MaxCalling \in Nat

VARIABLES
  policies,      \* the hash table of get_policies, by id
  order,         \* the order in which g_hash_table_get_values lists it
  filter,        \* of each type: the ids of the patterns, in the order of the list
  phase,         \* of each VM: "new", "on", or "down" while it has to be restarted
  adder, left,   \* hfm_set_policies: the VM, and the policies still to be added
  inited,        \* of each VM: the types whose ..._init flag is set
  hooks,         \* of each VM: how many hooks each function has for each type
  downs,         \* how often VMs went down
  pc, call,      \* each caller: where it is, and its call
  due,           \* the entry callbacks that it still has to run
  tracked,       \* the return traps of the call: parameters by type
  misread,       \* history: types that did not read the file's name
  misjudged,     \* history: types that did not read what is done to the file
  reports        \* what was reported of the call

settings == <<policies, order>>
setup    == <<filter, phase, adder, left, inited, hooks, downs>>
calls    == <<pc, call, due, tracked, misread, misjudged, reports>>
vars     == <<settings, setup, calls>>

-----------------------------------------------------------------------------
(* get_policies.                                                             *)

LookupAction(word) ==
  CASE word = "CREATE"         -> "create"
    [] word = "DELETE"         -> "delete"
    [] word = "MODIFY_CONTENT" -> "modify"
    [] word = "CHANGE_ATTR"    -> "attr"
    [] word = "CHANGE_ACCESS"  -> "access"
    [] OTHER                   -> "invalid"

\* An id that is no number, which atoi makes 0, is let pass.
CheckValidErr(line) ==
  /\ line.severity \in {"WARNING", "CRITICAL"}
  /\ LookupAction(line.action) # "invalid" /\ line.path # {}

\* _check_valid.
CheckValid(line) ==
  /\ line.id # 0
  /\ line.severity \in {"WARNING", "CRITICAL"}
  /\ LookupAction(line.action) # "invalid" /\ line.path # {}

\* Lines are inserted one by one: the last valid line of an id stays.
Kept(file, i) ==
  /\ CheckValid(file[i])
  /\ \A j \in (i + 1)..Len(file) : CheckValid(file[j]) => file[j].id # file[i].id

GetPolicies(file) ==
  LET kept == {i \in DOMAIN file : Kept(file, i)}
      At(id) == file[CHOOSE i \in kept : file[i].id = id]
  IN [id \in {file[i].id : i \in kept} |->
        [id |-> id, type |-> LookupAction(At(id).action),
         path |-> At(id).path, extract |-> At(id).extract]]

\* The ways in which a hash table may list a set of ids.
Listings(ids) ==
  {l \in [1..Cardinality(ids) -> ids] : \A id \in ids : \E i \in DOMAIN l : l[i] = id}

-----------------------------------------------------------------------------
(* The functions, and what a guest may call them with.                       *)

OpenFuncs == {"NtOpenFile", "NtCreateFile", "ZwCreateFile"}
SetInfoFuncs == {"NtSetInformationFile", "ZwSetInformationFile"}
WriteFuncs == {"NtWriteFile", "ZwWriteFile"}
SecurityFuncs == {"NtSetSecurityObject", "ZwSetSecurityObject"}
Func == OpenFuncs \cup SetInfoFuncs \cup WriteFuncs \cup SecurityFuncs

\* class: FileInformationClass.  flag: DeleteFile, attributes that are not 0, or
\* access and options for deletion; relative: a RootDirectory is given; status
\* and info: how the call ended and what IO_STATUS_BLOCK holds then.
Classes == {"none", "rename", "disposition", "basic"}
Statuses == {"open", "success", "pending", "error"}
Infos == {"none", "created", "superseded", "opened"}
Call == [func : Func, name : Name, class : Classes, flag : BOOLEAN,
         relative : BOOLEAN, status : Statuses, info : Infos]

\* What file_created.c, file_deleted.c, ... hook on a VM.
CreateHooks == {"NtOpenFile", "NtCreateFile"} \cup SetInfoFuncs
DeleteHooks(vm) == IF vm \in Win8 THEN {"NtCreateFile", "ZwCreateFile"} ELSE SetInfoFuncs
ModifyHooks == WriteFuncs
AttrHooks == SetInfoFuncs
AccessHooks == SecurityFuncs

Hooked(type, vm) ==
  CASE type = "create" -> CreateHooks
    [] type = "delete" -> DeleteHooks(vm)
    [] type = "modify" -> ModifyHooks
    [] type = "attr"   -> AttrHooks
    [] OTHER           -> AccessHooks

ASSUME RequestAssumption ==
  /\ Request \subseteq Call /\ Missable \subseteq Func
  /\ \A request \in Request : request.status = "open" /\ request.info = "none"

NothingDue == [type \in Types |-> 0]
NoHooks == [func \in Func |-> NothingDue]
NoCall == [func |-> "NtOpenFile", name |-> NoName, class |-> "none", flag |-> FALSE,
           relative |-> FALSE, status |-> "open", info |-> "none"]

\* Parameters: own says that the callback which is given them has made them.
Params == [type : Types, id : Int, name : Name, own : BOOLEAN]
Report == [type : Types, action : Types, id : Int, name : Name, extracted : BOOLEAN]

Init ==
  /\ \E file \in PolicyFile : policies = GetPolicies(file)
  /\ order \in Listings(DOMAIN policies)
  /\ filter = [type \in Types |-> <<>>]
  /\ phase = [vm \in Vm |-> "new"]
  /\ adder = {} /\ left = <<>>
  /\ inited = [vm \in Vm |-> {}] /\ hooks = [vm \in Vm |-> NoHooks]
  /\ downs = 0
  /\ pc = [c \in Caller |-> "idle"] /\ call = [c \in Caller |-> NoCall]
  /\ due = [c \in Caller |-> NothingDue]
  /\ tracked = [c \in Caller |-> {}]
  /\ misread = [c \in Caller |-> {}] /\ misjudged = [c \in Caller |-> {}]
  /\ reports = [c \in Caller |-> <<>>]

-----------------------------------------------------------------------------
(* hfm_set_policies, called by main and by hfm_restart_vmi.                  *)

\* The flags are not cleared, as if the hooks had survived.
FlagsErr(vm) == inited[vm]

\* hfm_restart_vmi clears them; a new handle has none.
Flags(vm) == {}

\* The trap manager is a new one, and so is the guest's memory.
StartSetup(vm) ==
  /\ adder = {} /\ phase[vm] \in {"new", "down"}
  /\ phase[vm] = "down" => \A other \in Vm : phase[other] # "new"
  /\ adder' = {vm} /\ left' = order
  /\ inited' = [inited EXCEPT ![vm] = Flags(vm)]
  /\ hooks' = [hooks EXCEPT ![vm] = NoHooks]
  /\ UNCHANGED <<settings, filter, phase, downs, calls>>

\* A policy is put before the others.
ExtendedErr(ids, id) == <<id>> \o ids

\* g_slist_append in filter_add.
Extended(ids, id) == Append(ids, id)

\* One more hook of a type on each of some functions.
MoreHooks(of, funcs, type) ==
  [func \in Func |-> [of[func] EXCEPT ![type] = @ + IF func \in funcs THEN 1 ELSE 0]]

\* ..._add_policy by way of mon_add_policy.  hfm_monitor_syscall hooks nothing if
\* it does not find the symbol, and says that it did.
AddPolicy(vm) ==
  /\ adder = {vm} /\ left # <<>>
  /\ LET id == Head(left)  type == policies[id].type IN
     /\ \/ type \in inited[vm] /\ UNCHANGED <<inited, hooks>>
        \/ /\ type \notin inited[vm]
           /\ inited' = [inited EXCEPT ![vm] = @ \cup {type}]
           /\ \E found \in SUBSET Hooked(type, vm) :
                /\ Hooked(type, vm) \ Missable \subseteq found
                /\ hooks' = [hooks EXCEPT ![vm] = MoreHooks(@, found, type)]
     /\ filter' = [filter EXCEPT ![type] = Extended(@, id)]
  /\ left' = Tail(left)
  /\ UNCHANGED <<settings, phase, adder, downs, calls>>

EndSetup(vm) ==
  /\ adder = {vm} /\ left = <<>>
  /\ adder' = {} /\ phase' = [phase EXCEPT ![vm] = "on"]
  /\ UNCHANGED <<settings, filter, left, inited, hooks, downs, calls>>

\* External: the guest goes down, with all its calls, after main has set it up.
GoDown(vm) ==
  /\ phase[vm] = "on" /\ downs < MaxRestarts
  /\ \A other \in Vm : phase[other] # "new"
  /\ phase' = [phase EXCEPT ![vm] = "down"] /\ downs' = downs + 1
  /\ LET Reset(of, none) == [c \in Caller |-> IF VmOf[c] = vm THEN none ELSE of[c]] IN
     /\ pc' = Reset(pc, "idle") /\ call' = Reset(call, NoCall) /\ due' = Reset(due, NothingDue)
     /\ tracked' = Reset(tracked, {})
     /\ misread' = Reset(misread, {}) /\ misjudged' = Reset(misjudged, {})
     /\ reports' = Reset(reports, <<>>)
  /\ UNCHANGED <<settings, filter, adder, left, inited, hooks>>

-----------------------------------------------------------------------------
(* Entry callbacks.                                                          *)

\* -1 in the code: no pattern of the filter matches.
NoMatch == -1

\* filter_match: the first pattern of a type that matches a name.
Matching(type, name) == {i \in DOMAIN filter[type] : name \in policies[filter[type][i]].path}
FilterMatch(type, name) ==
  LET found == Matching(type, name) IN
  IF found = {} THEN NoMatch
  ELSE filter[type][CHOOSE i \in found : \A j \in found : i <= j]

\* hfm_read_unicode: a string that cannot be read is empty.
ReadUnicode(name) == {name} \cup Broken

\* The name of an open file: hfm_fileobj_from_handle, which finds its object in
\* the handle table or fails, and hfm_read_filename_from_object.
ReadOfHandle(c) == ReadUnicode(call[c].name)

\* The name of a file to be opened.  _read_process_path puts the directory of the
\* program in front of it if it is relative to another directory.
ReadOfAttributes(c) == IF call[c].relative THEN Name ELSE ReadUnicode(call[c].name)

ReadName(c) == IF call[c].func \in OpenFuncs THEN ReadOfAttributes(c) ELSE ReadOfHandle(c)

\* FileInformationClass, which is 0, and so none of the classes, if hfm_read_32 fails.
ReadClass(c) == {call[c].class, "none"}

\* DeleteFile, FileAttributes or CreateOptions: 0 if the read fails; and whatever is
\* found at page 0 if it was the address of the first two that could not be read.
ReadFlag(c) == IF call[c].func \in OpenFuncs THEN {call[c].flag, FALSE} ELSE BOOLEAN

\* The call as the entry callback of a type reads it.
AsRead(made, name, class, flag) ==
  [made EXCEPT !.name = name, !.class = class, !.flag = flag]
ReadAs(c, type) ==
  {AsRead(call[c], name, class, flag) :
     name \in ReadName(c),
     class \in IF type \in {"delete", "attr"} THEN ReadClass(c) ELSE {call[c].class},
     flag \in IF type \in {"delete", "attr"} THEN ReadFlag(c) ELSE {call[c].flag}}

\* Any class will do.
ChangesAttributesErr(made) == made.class # "none" /\ made.flag

\* setinformation_cb of attr_changed.c reports these.
ChangesAttributes(made) == made.class = "basic" /\ made.flag

\* setinformation_cb of file_deleted.c, and createfile_cb for Windows 8.
DeletesOpen(made) ==
  made.func \in SetInfoFuncs /\ made.class = "disposition" /\ made.flag
DeletesOnClose(made) == made.func \in OpenFuncs /\ made.flag

\* What is reported before the call has done anything.
ReportsAtOnce(type, made) ==
  /\ \/ type = "delete" /\ (DeletesOpen(made) \/ DeletesOnClose(made))
     \/ type = "attr" /\ ChangesAttributes(made)
  /\ FilterMatch(type, made.name) >= 0

\* createfile_cb, writefile_cb and setsecurity_cb hand parameters to the callback
\* on return.
CreatefileTracks(made) == made.func \in OpenFuncs /\ FilterMatch("create", made.name) >= 0
WritefileTracks(made) == made.name # NoName /\ FilterMatch("modify", made.name) >= 0
SetsecurityTracks(made) == FilterMatch("access", made.name) > 0

Tracks(type, made) ==
  \/ type = "create" /\ CreatefileTracks(made)
  \/ type = "modify" /\ WritefileTracks(made)
  \/ type = "access" /\ SetsecurityTracks(made)

\* setinformation_cb of file_created.c has no return statement: what its caller
\* finds may not be NULL.
ReturnsAnything(type, made) == type = "create" /\ made.func \in SetInfoFuncs

\* hfm_extract_file is asked only where a caller passes a file object, and may
\* not get hold of the file's contents.
Extracted(func, type, id) ==
  IF /\ type = "modify" \/ (type = "delete" /\ func \in SetInfoFuncs)
     /\ FileExtract /\ policies[id].extract
  THEN BOOLEAN ELSE {FALSE}

\* send_output: the action is always MON_CREATE.
Reported(func, type, id, name) ==
  {[type |-> type, action |-> "create", id |-> id, name |-> name, extracted |-> e] :
     e \in Extracted(func, type, id)}

\* Nothing is left to do for the last call of c.
Over(c) == pc[c] = "idle" \/ (pc[c] = "returned" /\ tracked[c] = {})

\* External: a thread of the guest calls a function.  Listening begins when main
\* has set up all VMs, and again when a VM has been restarted.
Enter(c, request) ==
  /\ Over(c) /\ phase[VmOf[c]] = "on"
  /\ \A vm \in Vm : phase[vm] # "new"
  /\ Cardinality({d \in Caller \ {c} : pc[d] # "idle"}) < MaxCalling
  /\ pc' = [pc EXCEPT ![c] = "entered"]
  /\ call' = [call EXCEPT ![c] = request]
  /\ due' = [due EXCEPT ![c] = hooks[VmOf[c]][request.func]]
  /\ misread' = [misread EXCEPT ![c] = {}] /\ misjudged' = [misjudged EXCEPT ![c] = {}]
  /\ reports' = [reports EXCEPT ![c] = <<>>]
  /\ UNCHANGED <<settings, setup, tracked>>

\* One entry callback, and the return trap that _int3_cb makes of its result.
EntryCallback(c, type) ==
  /\ pc[c] = "entered" /\ due[c][type] > 0
  /\ due' = [due EXCEPT ![c][type] = @ - 1]
  /\ \E made \in ReadAs(c, type) :
       /\ misread' = [misread EXCEPT ![c] =
                        IF made.name = call[c].name THEN @ ELSE @ \cup {type}]
       /\ misjudged' = [misjudged EXCEPT ![c] =
                          IF made.class = call[c].class /\ made.flag = call[c].flag
                          THEN @ ELSE @ \cup {type}]
       /\ LET id == FilterMatch(type, made.name) IN
          \/ /\ ReportsAtOnce(type, made)
             /\ \E report \in Reported(made.func, type, id, made.name) :
                  reports' = [reports EXCEPT ![c] = Append(@, report)]
             /\ UNCHANGED tracked
          \/ /\ Tracks(type, made)
             /\ tracked' = [tracked EXCEPT ![c] =
                  @ \cup {[type |-> type, id |-> id, name |-> made.name, own |-> TRUE]}]
             /\ UNCHANGED reports
          \/ /\ ReturnsAnything(type, made)
             /\ tracked' = [tracked EXCEPT ![c] =
                  @ \cup {[type |-> type, id |-> NoMatch, name |-> NoName, own |-> FALSE]}]
             /\ UNCHANGED reports
          \/ /\ ~ReportsAtOnce(type, made) /\ ~Tracks(type, made)
             /\ UNCHANGED <<tracked, reports>>
  /\ UNCHANGED <<settings, setup, pc, call>>

-----------------------------------------------------------------------------
(* Return callbacks.                                                         *)

\* What may come of a call.  IO_STATUS_BLOCK is not written if it fails.
InfosOf(func) == IF func \in OpenFuncs THEN Infos \ {"none"} ELSE {"none"}
EndedAs(made, status, info) == [made EXCEPT !.status = status, !.info = info]
Ends(c) ==
  {EndedAs(call[c], status, info) :
     status \in Statuses \ {"open"}, info \in InfosOf(call[c].func)}

\* External: the function returns.
Return(c) ==
  /\ pc[c] = "entered" /\ \A type \in Types : due[c][type] = 0
  /\ pc' = [pc EXCEPT ![c] = "returned"]
  /\ \E end \in Ends(c) : call' = [call EXCEPT ![c] = end]
  /\ UNCHANGED <<settings, setup, due, tracked, misread, misjudged, reports>>

NtSuccess(status) == status \in {"success", "pending"}

\* The callback of file_created.c on SetInformation functions is that of the
\* others.
ReadsParamsErr(func, type) == TRUE

\* setinformation_ret_cb does not touch its parameters.
ReadsParams(func, type) == ~(type = "create" /\ func \in SetInfoFuncs)

\* Information as createfile_ret_cb reads it: 0, which is FILE_CREATED, if the read
\* fails; anything if the guest has 32 bits, which are half of what is read.
ReadInfo(c, type) == IF type = "create" THEN InfosOf(call[c].func) ELSE {call[c].info}

\* The condition under which each return callback reports.
CreatefileConfirms(info, status) ==
  info = "created" \/ (info = "superseded" /\ NtSuccess(status))
WritefileConfirms(status) == NtSuccess(status)
SetsecurityConfirms(status) == status = "success"

Confirms(type, info, status) ==
  \/ type = "create" /\ CreatefileConfirms(info, status)
  \/ type = "modify" /\ WritefileConfirms(status)
  \/ type = "access" /\ SetsecurityConfirms(status)

\* The trap stays registered.
WithoutErr(traps, params) == traps

\* A return trap removes itself.
Without(traps, params) == traps \ {params}

\* Parameters are freed by the callback that reads them.
ReturnCallback(c, params) ==
  /\ pc[c] = "returned" /\ params \in tracked[c]
  /\ tracked' = [tracked EXCEPT ![c] = Without(@, params)]
  /\ \E info \in ReadInfo(c, params.type) :
       LET confirmed == /\ ReadsParams(call[c].func, params.type)
                        /\ Confirms(params.type, info, call[c].status) IN
       /\ misjudged' = [misjudged EXCEPT ![c] =
                          IF info = call[c].info THEN @ ELSE @ \cup {params.type}]
       /\ \/ /\ confirmed
             /\ \E report \in Reported(call[c].func, params.type, params.id, params.name) :
                  reports' = [reports EXCEPT ![c] = Append(@, report)]
          \/ ~confirmed /\ UNCHANGED reports
  /\ UNCHANGED <<settings, setup, pc, call, due, misread>>

Setup(vm) == StartSetup(vm) \/ AddPolicy(vm) \/ EndSetup(vm)

Next ==
  \/ \E vm \in Vm : Setup(vm) \/ GoDown(vm)
  \/ \E c \in Caller :
       \/ \E request \in Request : Enter(c, request)
       \/ \E type \in Types : EntryCallback(c, type)
       \/ Return(c)
       \/ \E params \in tracked[c] : ReturnCallback(c, params)

Spec == Init /\ [][Next]_vars

-----------------------------------------------------------------------------
(* Properties.                                                               *)

SetupTypeOK ==
  /\ DOMAIN policies \subseteq Int \ {0}
  /\ \A id \in DOMAIN policies : policies[id] \in Policy /\ policies[id].id = id
  /\ order \in Seq(DOMAIN policies) /\ left \in Seq(DOMAIN policies)
  /\ filter \in [Types -> Seq(DOMAIN policies)]
  /\ phase \in [Vm -> {"new", "on", "down"}]
  /\ adder \in {{}} \cup {{vm} : vm \in Vm}
  /\ inited \in [Vm -> SUBSET Types]
  /\ hooks \in [Vm -> [Func -> [Types -> Nat]]]
  /\ downs \in 0..MaxRestarts

CallsTypeOK ==
  /\ pc \in [Caller -> {"idle", "entered", "returned"}]
  /\ call \in [Caller -> Call]
  /\ due \in [Caller -> [Types -> Nat]]
  /\ tracked \in [Caller -> SUBSET Params]
  /\ misread \in [Caller -> SUBSET Types] /\ misjudged \in [Caller -> SUBSET Types]
  /\ reports \in [Caller -> Seq(Report)]
  /\ \A c \in Caller :
       /\ \A params \in tracked[c] : params.own => params.id \in DOMAIN policies
       /\ \A i \in DOMAIN reports[c] : reports[c][i].id \in DOMAIN policies

\* Every variable has its type: in particular, the filters, the parameters and the
\* reports name only ids that the table of policies has, where send_output looks
\* them up without asking.
TypeOK == SetupTypeOK /\ CallsTypeOK

\* The types of the policies in the table.
Wanted == {policies[id].type : id \in DOMAIN policies}

\* However often a VM is set up and however many policies of a type there are, no
\* function is hooked twice for one monitor; and once a VM is up, as often as that
\* may be, the functions of the monitors that the policy file asks for, and of no
\* others, are hooked, those excepted that could not be.
HooksOnce ==
  \A vm \in Vm :
    /\ \A func \in Func, type \in Types :
         /\ hooks[vm][func][type] <= 1
         /\ hooks[vm][func][type] = 1 => func \in Hooked(type, vm) /\ type \in Wanted
    /\ phase[vm] = "on" => \A type \in Wanted : \A func \in Hooked(type, vm) \ Missable :
                              hooks[vm][func][type] = 1

\* A call gives rise to one report of a type at the most, though several policies
\* match, the function was hooked before the restart too, and the callbacks of
\* entry and return both may report.
ReportedOnce ==
  \A c \in Caller : \A i, j \in DOMAIN reports[c] :
    reports[c][i].type = reports[c][j].type => i = j

\* What the monitor of a type is there to report of a call, if it comes to pass.
IsOf(c, type) ==
  LET made == call[c] IN
  CASE type = "create" -> /\ made.func \in OpenFuncs /\ NtSuccess(made.status)
                          /\ made.info \in {"created", "superseded"}
    [] type = "delete" ->
         \/ made.func \in SetInfoFuncs /\ made.class = "disposition" /\ made.flag
         \/ made.func \in OpenFuncs /\ made.flag /\ VmOf[c] \in Win8
    [] type = "modify" -> made.func \in WriteFuncs /\ NtSuccess(made.status)
    [] type = "attr"   -> made.func \in SetInfoFuncs /\ made.class = "basic" /\ made.flag
    [] OTHER           -> made.func \in SecurityFuncs /\ made.status = "success"

\* All is done for the last call of c, and it was not lost with its VM.
Done(c) == pc[c] = "returned" /\ tracked[c] = {}

\* Policies of a type that match a name.
Covering(type, name) ==
  {id \in DOMAIN policies : policies[id].type = type /\ name \in policies[id].path}

\* No operation that a policy asks for is missed: if a call succeeded that does
\* what the type is about, to a file that policies of the type cover, all with
\* ids that are not negative, there is a report of it when the callbacks have run,
\* provided that the function is hooked and that the reads of the name and of what
\* is done went well: a read that fails returns 0, and the call is passed over.
NothingMissed ==
  \A c \in Caller, type \in Types :
    LET covering == Covering(type, call[c].name) IN
    /\ Done(c) /\ call[c].status = "success" /\ IsOf(c, type)
    /\ hooks[VmOf[c]][call[c].func][type] > 0
    /\ type \notin misread[c] \cup misjudged[c]
    /\ covering # {} /\ \A id \in covering : id >= 0
    => \E i \in DOMAIN reports[c] : reports[c][i].type = type

\* createfile_ret_cb looks at the status only if Information is FILE_SUPERSEDED: of
\* a call that failed it takes a FILE_CREATED that was there before for its own.
Stale(c, type) == type = "create" /\ call[c].info = "created" /\ ~NtSuccess(call[c].status)

\* Nothing is reported that did not happen: each report carries the id of a policy
\* of the type of the monitor that made it, covering the name it carries, which
\* is the one of the call if it was read, and the call succeeded in what the type is
\* about.  Two kinds of reports are let off: those whose arguments, or whose
\* IO_STATUS_BLOCK, could not be read, and the creations just mentioned.
Justified ==
  \A c \in Caller : \A i \in DOMAIN reports[c] :
    LET report == reports[c][i] IN
    /\ report.id \in Covering(report.type, report.name)
    /\ report.type \notin misread[c] => report.name = call[c].name
    /\ report.type \notin misjudged[c] => IsOf(c, report.type) \/ Stale(c, report.type)

\* The reports of a call are what it did, each once.
ReportsSound == ReportedOnce /\ Justified

\* No callback takes for its parameters what setinformation_cb of file_created.c
\* returns without a return statement, a value that nobody has allocated.
ParamsOwned ==
  \A c \in Caller : \A params \in tracked[c] :
    ReadsParams(call[c].func, params.type) => params.own

\* The policy a report names is the first of its type, in the order of the table,
\* that covers the name, whatever the restarts have added to the filter again.
FirstInOrder ==
  \A c \in Caller : \A i \in DOMAIN reports[c] :
    LET report == reports[c][i]
        covering == {j \in DOMAIN order : order[j] \in Covering(report.type, report.name)}
    IN \E j \in covering : order[j] = report.id /\ \A k \in covering : j <= k
=============================================================================
