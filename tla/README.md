# HFM in TLA+

HFM watches the files of Windows guests from outside: it hooks kernel functions
of a Xen virtual machine with hidden breakpoints, follows every hooked call to
its return, compares paths with policies and logs what matched. This directory
holds TLA+ models of the parts of HFM whose correctness depends on order,
concurrency and failure, the TLC configurations that check them on small
instances, and TLAPS proofs of what holds for every instance.

Paths below are relative to `src/` of the repository (`hfm.c` is
`src/src/hfm.c`).

## 1. Inventory

| component | files | state it keeps | operations |
|---|---|---|---|
| breakpoint engine | `hfm.c`, `include/private.h` | per VM: LibVMI handle, view index `altp2m_idx`, `step_event[16]`, `interrupted` | `hfm_init`, `hfm_monitor_syscall`, `_inject_trap`, `_create_shadow_page`, `_remove_int3`, `_int3_cb`, `_pre_mem_cb`, `_post_mem_cb`, `_singlestep_cb`, `hfm_listen`, `hfm_close` |
| trap manager | `trapmngr.c` | `remapped_tbl` (frame to copy), `breakpoint_tbl` (address to traps and `doubletrap`), `memaccess_tbl` | add, find and remove for each table |
| restart watcher | `multiwatch.c` | per VM: `state`, `okay`, `boot_done`; a watcher thread, a boot thread per restart | `wv_add_vm`, `wv_start`, `_monitor_fc`, `_get_vm_state`, `_wait_boot_fc`, `wv_vmi_okay`, `wv_close` |
| program and its threads | `main.c` | list of VMs, one listening thread each | start, `_init_vms`, `_monitor_vm`, signals, release |
| restart of a VM | `hfm.c` (`hfm_restart_vmi`) | replaces handle, views, events, trap manager and hooks in place | called by the watcher thread |
| monitors | `monitors/*.c` | per policy type: a file filter shared by all VMs; per call in flight: a parameter block | `mon_init`, `*_add_policy`, the entry and return callback of each hook |
| file filter, fnmatch | `monitors/file_filter.c`, `monitors/fnmatch.c` | list of patterns and policy ids | `filter_add`, `filter_match`, `fn_translate`, `fn_match` |
| guest memory access | `context.c`, `win.c`, `monitors/monitor_util.c` | the list of drives, made once per VM | `win_list_drives`, `hfm_fileobj_from_handle`, reads of names |
| policies | `policy.c` | table of policies by id | `get_policies`, `free_policies` |
| logging | `log.c` | table of entries, one writer | `log_init`, `log_add_entry`, `writelog` |
| configuration, profiles, outputs | `config.c`, `rekall.c`, `outputs/*.c` | strings, a JSON tree, sockets and files | parsing, formatting |
| Xen interface | `xen_helper.c` | a connection, the memory limit | `xen_alloc_shadow_frame`, `xen_free_shadow_frame` |
| fcleaner | `fcleaner/*.c` | a hash table of files | a separate program, unfinished: its `main` returns at once |

### How they interact

`main.c` initialises each VM (`hfm_init`), passes the policies to the monitors
(`hfm_set_policies`), which call `hfm_monitor_syscall` for each function they
hook, and then starts one listening thread per VM. That thread calls
`hfm_listen` in a loop; LibVMI takes the events of the VM from a ring, one at a
time, and calls back into `hfm.c`, which calls back into the monitors, which may
inject further traps (on return addresses). With `auto-restart` a watcher thread
and its boot threads use, destroy and replace the same handles; the flag `okay`
of the VM is all that separates them from the listening thread.

### What is hard

* Only the vCPU that raised an event is suspended. Its siblings run the same
  hooked code, read and patch the same pages, and queue events of their own,
  which are served after the tables they were raised under have changed.
* The callbacks only *toggle* single-stepping. One event served in the wrong
  state inverts it for good.
* Traps are freed while `_int3_cb` walks the list that they are on, and the
  entry callbacks extend such lists.
* An injection is six steps, each of which may fail, and the VM runs meanwhile
  when it was started by a callback.
* The watcher thread destroys a handle that another thread uses, with a flag and
  a `sleep` in place of a lock.
* `hfm_init` acquires five things and may fail at any of them; the calls of
  `hfm_close` are not checked, and signals come at any time.
* VMs reboot at any moment, also while the watcher waits for them to boot.
* At the end, `main` releases what the watcher thread may still use, and joins
  threads that wait for a VM only the watcher can bring back.
* Lists and tables of the guest's kernel are read word by word while the guest
  runs and changes them, and any read may fail.

### What makes each component correct

* *Engine and trap manager:* the guest runs as if unmonitored; its breakpoints
  and HFM's are told apart; no hooked call is missed; a matched call is reported
  once; the views, the tables and the pages agree; nothing dangling is used.
* *Restart watcher:* it uses no handle that it has destroyed, and takes none away
  from under a thread that listens; a VM that died is noticed; a VM that comes back
  is monitored.
* *Program:* every thread ends, and each resource is released once and after
  its last use.
* *Monitors and policies:* a hook exists once per policy type, function and VM,
  also after restarts; an operation that a policy covers is reported once, under
  the first policy that covers it, and nothing else is reported; a return
  callback only reads parameters that its entry callback made.
* *File filter, fnmatch:* a path is matched as the pattern language says;
  cursors and nodes stay inside their lists; every match returns; threads that
  share a filter do not disturb one another.
* *Log:* each VM writes to an entry of its own.
* *Guest memory access:* a handle leads to its object or to none; the list of
  drives is complete; following links of the guest comes to an end.

The hazards behind these properties are listed, each with its line, in
`PROJECT.json`.

## 2. Modules

| module | models | kind |
|---|---|---|
| `GuestCpu` | the guest without HFM: what the engine promises | abstract specification |
| `AltpTraps` | engine and trap manager of one VM, with its vCPUs and the hypervisor's views | detailed specification |
| `MCAltpTraps` | its instances | model checking |
| `AltpTraps_proofs`, `AltpTraps_safety` | theorems about it | proofs |
| `Watcher` | `multiwatch.c`, the listening threads of `main.c`, `hfm_restart_vmi` | specification |
| `MCWatcher` | its instances | model checking |
| `Watcher_proofs` | theorems about it | proofs |
| `FnMatch` | the comparison of names in `fnmatch.c`, and what the pattern language means | operators |
| `FileFilter` | `file_filter.c` and the matching loop of `fnmatch.c`, with the threads that share a filter; extends `FnMatch` | specification |
| `MCFileFilter` | its instances | model checking |
| `FileFilter_proofs` | theorems about it | proofs |
| `Monitors` | `policy.c`, `hfm_set_policies`, `monitors/*.c`, and what they read through `context.c` | specification |
| `MCMonitors` | its instances | model checking |
| `Monitors_proofs` | theorems about it | proofs |
| `Lifecycle` | `main.c` from start to end, `_init_vms`, `hfm_init` and its error paths, signals, the listening threads, `hfm_close`; without auto-restart | specification |
| `MCLifecycle` | its instances | model checking |
| `Lifecycle_proofs` | theorems about it | proofs |
| `Program` | the whole of `main.c`: `Lifecycle` with `log.c` and with the watcher thread of auto-restart, from `wv_start` to `wv_close`; extends `Lifecycle` | specification |
| `MCProgram` | its instances | model checking |
| `Program_proofs` | theorems about it | proofs |
| `GuestObjects` | `win_list_drives` (`win.c`) and `hfm_fileobj_from_handle` (`context.c`), and the guest that changes what they read | specification |
| `MCGuestObjects` | its instances | model checking |
| `GuestObjects_proofs` | theorems about it | proofs |

The modules stand on one another as the code does. `Monitors` takes for granted
that a hook fires once per call and a return trap once per return, which is what
`AltpTraps` is about, and that a filter answers with its first pattern that
matches, which is what `FileFilter` is about. `AltpTraps` takes whether a
callback's policy matches as a choice, and `Watcher` says when the set-up of a VM
is repeated, which `AltpTraps` starts from (`Init`), `Monitors` repeats
(`StartSetup` to `EndSetup`) and `FileFilter` sees as patterns added once more.
`Lifecycle` is around them all: what happens inside one call of `hfm_listen` is
`AltpTraps`, here a step that may shadow a page or interrupt its VM. `Program`
takes the actions of `Lifecycle` and adds to them what the log and auto-restart
need; without auto-restart every step of `Program` is a step of `Lifecycle` or leaves
its variables alone, and with it the steps of a restart take things from a VM and
give them back. `GuestObjects` is inside one step of two others: a listing of drives is in
the first step of `hfm_init` in `Lifecycle`, and a look-up of a handle in the
callbacks of `Monitors`, which take its answer as a choice.

### GuestCpu and AltpTraps

`GuestCpu` is a set of vCPUs that call kernel functions, execute the instruction
at an entry point, return, execute the instruction at the return address, and
read or patch code. What a vCPU last fetched or read is recorded in `seen`, so
that a guest which is shown a wrong byte has a behaviour `GuestCpu` does not
have. `AltpTraps` instantiates it (`Native`) with the same variables, and the
property `Transparent == Native!Spec` says that all the engine does in addition
is stuttering: the refinement mapping is the identity on
`at, ret, call, seen, orig`. `orig` is the guest's memory, which is also what
the view `ORIGIN_IDX` maps; the engine has no action that writes it. (An
allocation that fails makes `_inject_trap` write INT3 to frame 0, which is kept
apart as `zeroPage`.)

State of `AltpTraps` and what it stands for:

| variable | code |
|---|---|
| `shadow`, `mapped` | the frames of `xen_alloc_shadow_frame`, and which gfns `vmi_slat_change_gfn` has remapped in `altp2m_idx` |
| `guarded` | pages closed to reads and writes by `vmi_set_mem_event` |
| `zeroPage` | whether INT3 was written to frame 0 |
| `view[v]`, `step[v]`, `evt[v]` | the view of a vCPU, its monitor trap flag, the event that it is suspended on |
| `paused` | `vmi_pause_vm` in `hfm_monitor_syscall` |
| `remapped`, `memtraps` | `remapped_tbl`, `memaccess_tbl` |
| `traps[p]`, `doubletrap[p]` | the `int3_wrapper_t` of `breakpoint_tbl` at `p`; no traps means no entry |
| `stepCb[v]` | `step_event[v]->callback`: `_singlestep_cb` or `_post_mem_cb` |
| `hpc`, `inj`, `hcpu`, `hloop`, `hreinject` | where the thread is: the trap being injected, the vCPU, the list and the `doubletrap` that `_int3_cb` has in its local variables |
| `pending` | the hooks the policies still ask for during set-up |
| `interrupted` | `handler->interrupted = -1`, after which `_monitor_vm` stops listening (`hpc = "closed"`) |
| `matched`, `fired` | history: matched calls, and the reports with the call that caused them |

Each handler is one action, except where the other vCPUs can see memory change
in the middle of it: `_inject_trap` is split at its hypercalls into `MapShadow`,
`CopyShadow`, `Protect` and `Arm`, and `_int3_cb` into `Int3Begin`, one
`EntryCallback` or `ReturnCallback` per trap of the list, and `Int3Reply`.
`EndInject` is the return of `_inject_trap` to its caller, which is
`hfm_monitor_syscall` (resume the VM) or `_int3_cb` (go on with the loop).

What a callback reads in the guest's memory in order to decide whether a policy
matches is abstracted to a choice among `Matches`. Memory is one byte per
address of interest. A freed `GSList` node is a choice among `FreedNext`: its
link may read as before (`"old"`), as the `NULL` that the slice allocator puts
there (`"null"`), or as something that crashes HFM (`"fault"`).

`Faults` names the calls of the hypervisor that may fail. Beside those of an injection
they are `"peek"`, the read that tells an INT3 of the guest from one just removed;
`"return"`, the read or the translation of a return address, which nobody checks, so
that the trap may be put anywhere; and the two of `_remove_int3`: `"backup"`, the read of
the guest's byte, after which it writes whatever its local variable holds, and
`"restore"`, the write, after which INT3 stays. All but `"return"` interrupt monitoring.

### Watcher

| variable | code |
|---|---|
| `power`, `downs` | the domain itself: off, booting, up; how often it went down |
| `vmi` | `vm->vmi`: live, stale (its domain has gone), freed by `vmi_destroy` |
| `state`, `okay`, `boot_done` | `vm_hdlr_t` |
| `booter` | `_wait_boot_fc`, before and after its own `vmi_init` |
| `lpc` | `_monitor_vm`: at the check of `wv_vmi_okay`, or inside `vmi_events_listen` |
| `wpc`, `wi` | `_monitor_fc`: at the top of the loop, in `sleep(2)`, or at one of two points of `hfm_restart_vmi`; the VM it visits |
| `late` | whether the listener is still in the call it was in when `okay` was cleared |

Each state of `_get_vm_state` is an action (`VmRunning`, `VmDestroy`,
`VmShutdown`, `VmBooting`, `VmRestarted`), and `hfm_restart_vmi` is two
(`RestartInit`, `RestartSetup`), each with its failures.

**Timing.** `_get_vm_state` sleeps two seconds after it has cleared `okay`; a
call of `vmi_events_listen` lasts at most half a second plus the callbacks it
makes. `Settled` assumes that the sleep outlasts it. This is the only
assumption about time, and the code itself rests on it.

### FnMatch and FileFilter

| variable | code |
|---|---|
| `policies`, `readd`, `sets` | `vm->policies`; what a call of `hfm_set_policies` has still to add; how many calls there were |
| `patterns`, `cursor` | `filter->patterns` with `filter->ids`; `cur_node` of each pattern, modulo 256 |
| `pc`, `path`, `index`, `pos` | a listening thread: where it is, the path it matches, `i` of `filter_match`, `cur_node` of the path |
| `depth` | how many calls of `_match` are open; `_match` keeps no locals across a call |
| `saw`, `answer` | the shared cursor as read last; the result (0 for -1) |

A path or a pattern is the sequence of the names between its slashes, and a name
is the sequence of its characters where a wildcard may be among them.
`FilterMatch` is a call of `filter_match`; `NextPattern`, `Visit`, `Compare`,
`Advance` and `Fail` are the parts of `fn_match` and `_match` between two accesses
to the shared cursor. `Advance` may write back a cursor that was read earlier, as
an unlocked increment does, so the increments that another thread made are lost.

`Means` is the reference: what the README says a pattern stands for. The code
differs from it where a name with a star in it reaches over the ends of the name
in the buffer, and where more than one name follows a double star, as the matcher
steps back in the pattern only. `MatchExact` says how far the two agree, in both
directions.

### Monitors

| variable | code |
|---|---|
| `policies`, `order` | the hash table of `get_policies`, and the order in which it is listed |
| `filter` | per monitor the ids of its filter, one for all VMs |
| `phase`, `adder`, `left` | where each VM is in its set-up; the call of `hfm_set_policies` in progress |
| `inited`, `hooks` | the flags `*_init` of `vmhdlr_t`; how many hooks of each monitor each function has |
| `pc`, `call`, `due` | a thread of a guest, the call it makes, the entry callbacks still to be run |
| `tracked` | the return traps of the call with their parameters; `own` is false for the value that `setinformation_cb` of `file_created.c` returns without a return statement |
| `reports`, `misread`, `misjudged` | history: what `send_output` was given; which monitors read another name; and which did not read what is done to the file, an argument or `IO_STATUS_BLOCK` |

`StartSetup`, `AddPolicy` (one turn of the loop of `hfm_set_policies`, with the
monitor's `*_add_policy` and, for the first policy of a type, its hooks) and
`EndSetup` are the set-up of a VM by `main` or by `hfm_restart_vmi`.
`EntryCallback` and `ReturnCallback` are the callbacks of all monitors; the
operators they are made of (`DeletesOpen`, `WritefileTracks`,
`CreatefileConfirms`, ...) are one per callback. A name is read as it is, or as
empty when the guest's memory cannot be read; a name relative to another directory
as anything, since the code puts the program's directory in front of it. The
information class, the flag and `Information` are read as they are or as 0, which
`hfm_read_*` return if they fail (`ReadClass`, `ReadFlag`, `ReadInfo`): 0 is no class
and no flag, but it is `FILE_CREATED`. (That is the enumeration of `constants.h`;
Windows has 2 for it.) Names
and patterns are sets here: a policy covers the names that its path matches.

### Lifecycle

| variable | code |
|---|---|
| `mpc`, `k`, `step` | `main`: where it is, the index of its loop, the step of `hfm_init` it is at or unwinds from |
| `names`, `vms` | the names in `vmlist` (0: there is none); `vms[]` with `vmnum` |
| `shared` | what `main` has not released yet: policies, log, configuration, filters |
| `lpc[h]` | `_monitor_vm` of each VM: the check, `hfm_listen`, and each step of `hfm_close` |
| `interrupted[h]` | `vm->interrupted` |
| `held[h]`, `misused` | what was acquired for a VM and not released; what the last call for a VM used or released that was not held |
| `table`, `mapped`, `guarded`, `back`, `stray` | `remapped_tbl`; the pages the view maps to a shadow frame; those closed to data accesses; those whose frame Xen has got back; those that could not be shadowed, whose INT3 went to frame 0 of the guest |
| `todo`, `page` | the loops of `_destroy_traps` |
| `running`, `inView` | whether the vCPUs run, and in which view |
| `faults`, `signals`, `told` | failed calls per VM; signals, and whether one found the VMs in `vms[]` |

`NextName`, `InitStep`, `InitFails` and `Unwind` are `_init_vms` with `hfm_init`
and its labels `error5` to `error1`; `SetPolicies`, `StartThreads`, `Join` and
`Release` the rest of `main`. `Signal` is `close_handler`. `Check` to
`FreeHandler` are the thread of a VM, one action per call of `hfm_close` that
changes what the guest or another thread can see, each with its failure. A VM
whose view is switched to at the wrong time, or not back, shows in `inView`.
`hfm_listen` and `hfm_set_policies` are abstracted to what matters at the end:
which pages they leave shadowed, and how.

### Program

| variable | code |
|---|---|
| `auto` | `auto_restart`; -1, which the configuration gives when it does not say, is true in C |
| `count`, `logid[h]`, `unopened` | `entry_count` of `log.c`; the id a VM got from `log_add_entry`; log files that could not be opened |
| `wpc`, `wi`, `closed` | `_monitor_fc` and its index; `wv->closed`, set when `hdlr[]` has been freed |
| `vm[h]`, `downs` | what the watcher has made of a VM: up, found dead, destroyed (`gone`), at one of the steps of `hfm_restart_vmi`, or left by one that failed (`lost`); how often one has been found down |
| `late` | history: something that main shares, or `hdlr[]`, was used after it was released |
| `exit` | `main` before `wv_close`, in its `pthread_join`, returned, or brought down by a join of no thread |

`NameLogged` is `NextName` with the entry of the log, made before `hfm_init`;
`StartAll` is `StartThreads` with `wv_start`; `MainGoesOn` are the other steps of
`main` in `Lifecycle`; `WvClose` and `WvJoined` are `wv_close`. `ListenerGoesOn` is
a step of a listening thread behind `wv_vmi_okay`, which answers for the first
VM; a thread that is let through listens on whatever is there.

The watcher works on the same `held`, `misused` and pages as `Lifecycle`: `VisitUp`
pings, `VisitDead` destroys the handle, `VisitGone` waits for the VM, and `RestartXen`,
`RestartOpen`, `RestartVmi`, `RestartView`, `RestartTraps`, `RestartTm` and
`RestartPolicies` are `hfm_restart_vmi`, each with what it uses, releases and replaces and
with its failure, which leaves the VM without what comes behind it. They alternate
freely with the listening threads, `hfm_close` included. How long the watcher
waits is in `Watcher`; one thing is taken from there: the first VM's `hfm_listen` of half a
second is over by the time its handle is destroyed (`VisitDead`), as `okay` was
cleared a round before.

### GuestObjects

| variable | code |
|---|---|
| `alive`, `flink` | the guest's processes and the ring of their links, also of those that have ended |
| `level`, `leaves`, `entry` | a handle table: the level in the low bits of its code, the tables of its lowest level, what each handle stands for |
| `inDir`, `heads`, `next` | the entries of the directory `GLOBAL??`, its buckets and their chains |
| `pc` | where `win_list_drives` or `hfm_fileobj_from_handle` is |
| `cur`, `found` | `next_list_entry` and `dir_entry`; whether System was met |
| `code`, `mid`, `leaf`, `n`, `slot` | the level as it was read; `table` and `table2`; the counters of the three nested loops |
| `objs`, `bucket`, `drives` | the objects of the table, the bucket that is read, the list of drives |
| `handle`, `got` | the handle of a call and the object it led to |
| `want`, `kept` | history: what the handle has stood for since the call was made (`None` if that changed); the directory entries that were there all the time |

`ReadHead` and `ReadProc` are `win_cur_processes`, `TableCode` to `ReadLink` the
rest of `win_list_drives`; each is one read of the guest's memory with what is
done with it, and its failure. `CallWith`, `LookupCode`, `LookupMid`,
`LookupLeaf`, `LookupObject` and `CallDone` are `hfm_fileobj_from_handle`. Between
any two of them `Guest` may create and end processes, open and close handles,
let the table grow, and change the directory.

A read that fails leaves a 64-bit variable as it was and sets a 32-bit one to 0;
the model allows either at each read. The guest is external, and this is assumed
of Windows: processes are added at the tail of their list and entries at the head
of their chain; what is taken out keeps its own link, and is not put back while
it is being read; System is the first process, its handle of `GLOBAL??` is never
closed, and another process runs beside it. The last assumption matters:
`win_cur_processes` adds a process to the list when it has read the link to the
next, so the last process is never listed (`win.c:242-263`).

### Operators named ...Err

Each is a plausible slip in the code next to it: a list that is not extended, a
flag that is not reset, a guard that is dropped. They occur in no specification.
`PROJECT.json` (`mutants`) tells which property notices each when it replaces the
correct operator.

## 3. Runs

Every run is exhaustive for its configuration.

| run | expected | question |
|---|---|---|
| `EngineCore` | pass, 377,881 states | two vCPUs, two monitors on one function, any placement of the guest's own breakpoints, nothing fails: type, `Concealed`, `Faithful`, `TrapsOnce`, `MatchedTracked`, `NoMissedCall`, and the refinement `Transparent` |
| `EngineLive` | pass, 37,061 states | under `FairSpec`: `MonitoringResumes`, `GuestProgress`, `MatchedReported` |
| `EngineFaults` | pass, 4,129,134 states | two frames, shadowed while the VM runs, a guest that patches its code, every call in `Faults` may fail: `ViewDiscipline`, `LoopMemory`, `NoStrayInt3` |
| `EngineReturnOwn` | violation | is a return callback run by the return of its own call? |
| `WatcherSafe` | pass, 119,744 states | two VMs, two reboots each, every call may fail: type, `FirstListenSafe`, `HandleSound`, and `DeathNoticed` under `FairSpec` |
| `WatcherReboot` | violation | is a VM that reboots monitored again? |
| `FilterMatch` | pass, 170,356 states | one thread, 13 patterns, paths of up to four names, a restart while it matches: type, `IndexInRange`, `MatchExact`, and `Returns` under `FairSpec` |
| `FilterShared` | violation | is a path that a pattern spells out matched when two VMs match at once? |
| `MonitorReports` | pass, 711,384 states | two VMs (one of them Windows 8), three policy files, a restart, any read may fail: type, `HooksOnce`, `NothingMissed`, `ReportsSound`, `ParamsOwned`, `FirstInOrder` |
| `LifecycleEnds` | pass, 304,633 states | three names for two places, one page, one failure per VM, one signal: type, `ReleasedOnce`, `SharedLive`, `GuestRestored`, and `Ends` under `FairSpec` |
| `ProgramEnds` | pass, 531,374 states | two names, auto-restart on or off, a log with room for one VM, a log file that cannot be opened, one VM that goes down and is set up again, any step of which may fail: type, `LogOwn`, `ShutdownOrder`, and `Returns` under `FairProgram` |
| `GuestReads` | pass, 724,398 states | a handle table of each level, a chain of two drives, two changes by the guest, one failed read: type, `HandleResolved`, `DrivesFound`, and `WalkEnds` |

`Faithful` joins three facts about each address: a page in the table holds the
guest's page plus exactly the registered breakpoints, a page that is not is
the guest's own, and `doubletrap` tells what the guest has under a trap.
`LoopMemory` joins what `_int3_cb` may count on while it walks a list of traps:
the traps ahead of it are registered, and none has been reported and freed.
`NoStrayInt3` says that HFM knows of a breakpoint it could not take away: monitoring is
interrupted then. `HandleSound` says that the watcher pings and destroys no handle after
`vmi_destroy` and opens none next to another; the threads that listen are the subject
of `FirstListenSafe`, for the first VM, and of `ShutdownOrder`. `MatchExact` says that the matcher finds whatever a pattern without a double
star means, and nothing that a pattern does not mean where the code supports
it. `ReportsSound` says that a report is the only one of its type and call and is backed by
its policy and by what the call did, and `NothingMissed` that there is one; both let off, by
name, the calls of which a read failed (`misjudged`), and the first the failed calls
that find `FILE_CREATED` (`Stale`). `GuestRestored` lets off frame 0 of the guest
(`stray`). `ShutdownOrder` says who uses what is not there: without auto-restart
nobody; with it a thread past its loop or the watcher then, and the listening of a VM
other than the first. A VM lacks its handle when the watcher has destroyed it, more
when a restart is at it or has failed, and everything when its thread has closed it.

The three violations are disagreements between the code and what its own
documentation says; `findings` in `PROJECT.json` quotes both sides. In short:

* **EngineReturnOwn.** A return trap is registered under the physical return
  address alone. Another vCPU (or thread) that returns there first runs the
  callback with its own registers and somebody else's parameters.
* **WatcherReboot.** `_wait_for_booting` does not wait for the kernel, and a
  restart that failed is never tried again.
* **FilterShared.** The cursor of a pattern is part of the filter, which all VMs
  share; `fn_match` of one thread resets it under another's match.

### What the code does not do, by these models or by reading

These are no runs of their own. The models contain those about the engine, the
watcher, the file filter, the program, the log and the guest's objects; the
properties are stated so that they hold with them.

* `loop->next` is read from the list node that `tm_remove_int3trap` has just freed.
  If it reads as `NULL`, the second monitor is not told of this return. Its trap
  stays, and fires at the next return to the same address. `EngineLive` therefore
  assumes that the link still reads as it was.
* A shadow page that cannot be made keeps the page out of the table but not the
  INT3 from being written: to frame 0 of the guest, from where nothing removes it.
* `_remove_int3` goes on after a failed read and writes an uninitialised byte over the
  breakpoint; after a failed write the breakpoint stays without a trap. The guest meets
  it in the time until `hfm_close`.
* The results of `vmi_read_addr` and `vmi_pagetable_lookup` are not looked at when a
  return trap is made (`hfm.c:235-237`): it may be put at any address.
* `hfm_read_*` do not tell a failed read from a 0: an open whose `IO_STATUS_BLOCK` cannot be
  read is reported as a creation, and a deletion or a change of attributes whose
  class or flag cannot be read is not reported.
* A new frame is mapped before it is filled; a vCPU that fetches from it meanwhile,
  which is possible when a callback injects, executes zeros.
* `_pre_mem_cb` has the line that would re-examine the traps of a written page
  commented out. A guest that writes INT3 over a hooked instruction later on
  traps, is sent to the origin view, traps there too (which toggles
  single-stepping off), and so on for ever.
* `wv_vmi_okay` looks its VM up and answers for the first (`multiwatch.c:57`): the
  listener of any other VM is not kept off a handle that was destroyed, and is
  held up by a first VM that is down. `FirstListenSafe` is therefore about the
  first VM, and `ShutdownOrder` excepts the listening of the others.
* A restart that fails leaves a VM without a handle, a view or a trap manager, and its
  thread, when a signal ends it, closes it all the same: `hfm_close` pauses, resets and
  destroys what is not there. So with auto-restart `ReleasedOnce` and `GuestRestored`
  are not claimed, and `ShutdownOrder` only says that the thread is past its loop.
* A restart never gives the shadow frames of the old domain back (`tm_destroy` only
  frees the list of them), which are gone with the domain.
* After a failure behind a double star the matcher gives back nothing of the path,
  so the names that the failed attempt took are gone: `/root/**/*`, the README's
  own example (line 48), does not match every file of the directories below.
  That part of `MatchExact` is therefore about patterns without a double star.
* A signal that comes before `_init_vms` returns is lost: `vmnum` is 0 until then.
* `_setup_altp2m` leaves its view behind if the switch to it fails, and
  `_create_shadow_page` its frame if the page cannot be copied.
* `close_handler` writes into the handler of a VM whose thread has closed and freed
  it by itself (`_remove_int3` interrupts its own VM), since `vms[]` keeps it.
* With auto-restart, `main` releases policies, log and configuration while the
  watcher may restart a VM that reads them, `wv_close` frees its handlers before
  it joins the thread that visits them, and a listening thread closes a VM that the
  watcher pings. `ShutdownOrder` says from when on this can happen.
* `wv_close` joins the watcher thread also when `main` came there by `goto`
  without having started it (`main.c:85`).
* `log_add_entry` returns -1 when the table is full or the file cannot be opened, and
  `writelog` uses it as an unsigned index. A VM that fails has taken an entry
  for good.
* `hfm_fileobj_from_handle` and `win_list_drives` declare `object_offset` again in an
  inner block (`context.c:106`, `win.c:84`): the one used afterwards stays 0.
* On a 64-bit Windows 10 an entry of a handle table is shifted and masked in
  `win.c:297`, but `context.c:162` keeps bit 19, so some objects are read at a
  wrong address. `HandleResolved` leaves them out (`Shifted`).
* A handle beyond a table of one level, or beyond the pointers of a larger one,
  is looked up past the table's end; the models answer anything.
* A link of a directory chain that can never be read makes `win.c:222` loop for
  ever: the failed read leaves `dir_entry` as it was. Failed reads are
  bounded (`MaxFails`), and `WalkEnds` is under that bound.
* The list of drives is not released with its VM.
* `&&` binds tighter than `||` in `file_created.c:179`: the status is tested for
  superseded files only, although the comment of line 160 speaks of calls that
  succeeded, and a failed call leaves `IO_STATUS_BLOCK` as it was. `ReportsSound`
  allows a creation to be reported of such a call.
* `send_output` reports every event with the action `MON_CREATE`. `Monitors` has
  that in `Reported`.
* `policy.c` accepts `WARNING` and `CRITICAL`; the README says `WARN`. A line with
  too few fields reaches `strcicmp` with `NULL`.
* `main.c` reads `policy-file` and `log-dir`, while the command line is merged into
  `policy_file` and `log_file`.
* `ids` of a filter has 128 entries, and nothing stops `filter_add` from writing
  the next one; every restart adds all policies again.

### Bounds, and why they are enough

* *Two vCPUs.* One is served while the other runs; every event is about one
  vCPU, and the tables do not count vCPUs. A third one adds more of the same.
* *One call per vCPU* (`MaxCalls`). Two calls in flight at one return address,
  by two vCPUs, give the list of traps its interesting lengths (with two
  monitors, up to four return traps).
* *One entry, one return address.* They are on one frame (`EngineCore`: both
  kinds of trap share a page) or on two (`EngineFaults`: the
  return's frame is shadowed by a callback while the VM runs).
* *Bytes:* an ordinary instruction, a patched one, INT3.
* *Two VMs, two reboots.* The first VM of the list is special in the code; the
  second stands for the others. A second reboot lets what an earlier restart
  left behind (`boot_done`, a handle) meet a later one.

* *Patterns and paths.* The 13 patterns have every kind of node (`character`,
  `star`, `mixed`, `double_star`) first, last and next to a double star; the
  paths are long enough for a double star to take none, one or two names.
  Tables of two policies, one of which may be refused, `MaxPatterns = 4`
  and one restart let a match run while the list is extended by another copy.
* *Monitors.* A call touches no state that another call reads: one calling thread
  at a time (`MaxCalling`) shows what a call can do, with the set-up of either
  VM, which does matter to it, before, between and during calls. The policy
  files hold an id that is given twice, 0 and negative ids, an unknown severity
  and a line with no path. `NtCreateFile` may be missing (`Missable`).
* *Start and end without the watcher.* Three names and room for two: a VM fails before, between or
  after others that succeed, and names are left over. Two VMs close at once. With
  one page there is a guarded page with and without a table entry; pages are
  treated one by one. One failure per VM is what `GuestRestored` is about; the
  proofs of the other properties allow any number. A second signal sets flags
  that are set.

* *The whole program.* Two names, of which either may fail for want of a log
  entry, a log file or a place; the failures of `hfm_init` and `hfm_close` are those of
  `LifecycleEnds`, so no call fails here (`MaxFaults = 0`). Two VMs are a first one,
  whose state holds all listeners up, and another. `LogMax = 2` has room for `main`
  and one VM, and `MaxOpenFails = 1`. One of the VMs goes down once (`MaxDowns = 1`), the first
  or the other; that both are down at a time is left to the proofs, which allow any number.
* *Objects of the guest.* `Low`, `Mid` and `Buckets` are 2: each loop has a first and
  a last turn, and a table of each level is there to begin with and may grow
  into the next. Two changes by the guest can take an entry away and the one
  behind it, or put one before it and take it away. Any read may be the one that
  fails. Handles are in the first table, in later ones, and beyond the last.

`Transparent`, `Concealed` and `Faithful` are checked where frames are
shadowed during set-up, with the VM paused, and the guest does not patch hooked
pages; outside these limits they do not hold, for the reasons given above.
`EngineFaults` checks what remains.

Deadlock is checked except where the system may stop: where HFM can crash
(`hpc = "dead"`, reached with `FreedNext = "fault"` or when a page has no
`remapped_t`), which is in `EngineFaults`, and where the program ends, which is in
`LifecycleEnds` and `ProgramEnds`.
With `MaxCalls` reached, guests keep reading, so a system that stops is one that
hangs. The threads of `FileFilter` and the guests of `Monitors` can always make
another call.

### Fairness

* `WF(Handler)`: the listening thread is a thread of its own and never blocks
  between hypercalls.
* `SF(TakeEvent(v))`: the event ring is first-in first-out, so a vCPU's event is
  taken although the handler is busy with others again and again. The model has
  no ring; strong fairness is what the ring gives.
* `WF(Fetch(v) \/ Run(v))`, `SF(Return(v))`: Xen schedules the vCPUs, and kernel
  functions return. Nothing is assumed of calls, reads or writes.
* In `Watcher`, weak fairness for the watcher, boot and listening threads.
  Nothing is assumed of the domains: they may go down and stay down.
* In `Lifecycle`, weak fairness of `main` and of each thread: they are threads of
  their own, and `hfm_listen` returns after half a second. No signal is assumed.
* In `Program`, weak fairness of `main`, of the watcher thread and of each listening
  thread. Nothing is assumed of the VMs: the first may be down for good.
* In `GuestObjects`, weak fairness of the listing and of a look-up, each of which runs
  in a thread of HFM that does not block. The guest may stop or go on, up to
  `MaxChanges`: one that changed a list as fast as it is read could keep the walk
  in it for ever.
* In `FileFilter`, weak fairness of the steps of a match: a listening thread is
  scheduled and takes no lock. Restarts are not assumed to come or to end.

## 4. Proofs

All theorems hold for any vCPUs, traps, frames, addresses, lists of VMs and
bounds that satisfy the assumptions the modules name (`ConstantsAssumption`,
`LabelsAssumption`, `WatcherAssumption`, `FilterAssumption`, `MonitorsAssumption`,
`RequestAssumption`, `LifecycleAssumption`, `ProgramAssumption`, `ObjectsAssumption`).

| theorem | states | under |
|---|---|---|
| `AltpTraps_proofs!TypeCorrect` | `[]TypeOK` | any guest, any failures |
| `AltpTraps_safety!ViewsInStep` | `[]ViewDiscipline` | the guest plants no INT3; any failures |
| `AltpTraps_safety!TrappedOnce` | `[]TrapsOnce` | the same |
| `AltpTraps_safety!DoubletrapsAccurate` | `[]DoubletrapAccurate` | the guest does not patch its code; any failures |
| `AltpTraps_safety!NoInt3Left` | `[]NoStrayInt3`: INT3 without a trap has interrupted monitoring | the same |
| `AltpTraps_safety!BreakpointsConcealed` | `[]Concealed` | the same, and `vmi_set_mem_event` and the read of `_remove_int3` do not fail |
| `AltpTraps_safety!ShadowsFaithful` | `[]ShadowFaithful` | the same, and nothing fails |
| `AltpTraps_safety!FaithfulAlways` | `[]Faithful` | the same |
| `AltpTraps_safety!TransparentAlways` | `Spec => Native!Spec`, which is `Transparent` | the same, and each return address is on the page of a hooked entry |
| `AltpTraps_safety!NoCallMissed` | `NoMissedCall` | the guest does not patch its code, and nothing fails |
| `AltpTraps_safety!LoopsSafe` | `[]LoopMemory` | the guest plants no INT3; any failures |
| `AltpTraps_safety!AlwaysTracked` | `[]MatchedTracked` | the same, but `_inject_trap`'s own reads and writes succeed |
| `Watcher_proofs!TypeCorrect` | `[]TypeOK` | any failures, any reboots |
| `Watcher_proofs!FirstListensSafely` | `[]FirstListenSafe` | the same |
| `Watcher_proofs!HandlesSound` | `[]HandleSound`: the watcher's own uses of a handle | the same |
| `FileFilter_proofs!TypeCorrect` | `[]TypeOK` | any threads, tables, paths and restarts |
| `FileFilter_proofs!OneVmIndexInRange` | `[]IndexInRange` | one listening thread (with two it is violated) |
| `FileFilter_proofs!OneVmMatchExact` | `[]MatchExact` | one listening thread, any patterns and paths of up to `MaxNodes` names |
| `Monitors_proofs!TypeCorrect` | `[]TypeOK` | any policy files, VMs and guests |
| `Monitors_proofs!HooksAlwaysOnce` | `[]HooksOnce` | the same |
| `Monitors_proofs!ParamsAlwaysOwned` | `[]ParamsOwned` | the same |
| `Monitors_proofs!ReportsAlwaysSound` | `[]ReportsSound` | the same; calls of which a read failed are let off in it |
| `Monitors_proofs!AlwaysFirstInOrder` | `[]FirstInOrder` | any policy files, VMs, guests and failed reads |
| `Monitors_proofs!NothingEverMissed` | `[]NothingMissed` | the same for the reads, and files that are written have a name |
| `Lifecycle_proofs!TypeCorrect` | `[]TypeOK` | any list of VMs, quota, pages, failures and signals |
| `Lifecycle_proofs!SharedAlwaysLive` | `[]SharedLive` | the same |
| `Lifecycle_proofs!AlwaysReleasedOnce` | `[]ReleasedOnce` | the same |
| `Lifecycle_proofs!GuestsRestored` | `[]GuestRestored` | the same |
| `Program_proofs!Implements` | `ProgramSpec /\ ~auto => Spec` of `Lifecycle` | any names, quota, log, failures and signals, without auto-restart |
| `Program_proofs!SharedLiveHere` | `[]SharedLive` | the same, with or without auto-restart, and any VMs that go down |
| `Program_proofs!ProgramTypeCorrect` | `[]ProgramTypeOK` | the same |
| `Program_proofs!EntriesOwn` | `[]LogOwn` | the same |
| `Program_proofs!AlwaysShutdownOrder` | `[]ShutdownOrder` | the same |
| `GuestObjects_proofs!ObjectTypes` | `[]TypeOK` | tables and buckets of any size, any changes by the guest, any failed reads |
| `GuestObjects_proofs!AlwaysResolved` | `[]HandleResolved` | the same |
| `GuestObjects_proofs!AlwaysDrivesFound` | `[]DrivesFound` | the same; the chains of `GLOBAL??` are lists at first (`Chained`) |

The argument of each:

* **Types.** `TypeOK` is not inductive: reports name the call of the vCPU being
  served, which exists only if that vCPU made one, and the handler's steps use
  `inj` and `hcpu`, which are `NULL` elsewhere. `TInv` adds that only a vCPU that
  made a call is in kernel code (`Called`), that a vCPU suspended on INT3 is at
  a code address (`Suspended`), and that `inj` and `hcpu` are set wherever `hpc`
  says they are used (`HandlerOK`).
* **Views.** The handlers toggle single-stepping, so `ViewDiscipline` alone says
  nothing of a vCPU that has an event outstanding. `VInv` adds where events come
  from (`EventSource`: INT3 and memory events from the shadow view, step events
  from a vCPU that is stepped) and why the origin view cannot raise another INT3
  (`OriginSafe`): a vCPU sent there is in front of an instruction that is not
  INT3 in the guest's memory, because otherwise `doubletrap` (`BreakpointKnown`)
  and what `_int3_cb` remembered of it (`ReinjectKnown`) made it reinject.
* **Shadow pages.** `Answered`, together with `DoubletrapAccurate`, is inductive:
  an INT3 of HFM's is on a page of the table and has a trap, unless monitoring has
  been `interrupted` (a failed removal leaves it there). `CInv` adds to
  `Concealed` that the page of the injection is closed by the time INT3 is
  written (`ClosedFirst`). `FInv` adds to `ShadowFaithful` that a page with a trap
  is in the table, and where in an injection its page enters it (`ShadowFirst`).
* **Refinement.** What a vCPU executes or reads must be what `orig` holds
  (`SeesOwnCode`). `Concealed` gives it for reads, `ShadowFirst` and the views for
  fetches: an address without a trap shows the guest's byte on a page that is
  filled. A page that is mapped and not filled yet is the one danger: `MapsOK` says
  that there is at most one, during `copy`, and `SetupOK` that the VM is paused
  then, since every page is shadowed during set-up if the return addresses share
  the pages of the entries (`SharedPages`). `ReinjectOK` makes the two steps in
  which HFM executes an INT3 for the guest the guest's own. `GuestRefines` and
  `EngineRefines` map each action to a step of `GuestCpu` or to a stutter. Without
  `SharedPages` the theorem would be wrong: a callback shadows the page of the
  return address while other vCPUs run on it.
* **Traps and calls.** `LoopMemory` says nothing of lists that a callback extends.
  `PlayInv` follows each trap: a list has only its own traps, and each of them
  once (`ListsOK`); the one being injected is in no list (`PlaceOK`); what is left of
  the loop is a part of the list of its address (`LoopOK`); a hook that waits is not
  there yet (`PendingOK`); a return trap in play belongs to a call that matched and
  is not reported (`PastOK`). The last needs that no call is matched twice by one
  hook, which is `CallsOK`: once a call has matched, its vCPU either has left the
  entry, or is about to execute it in the origin view, or has the rest of the loop
  before it without that trap (`Asked`). There `VInv` comes in: in the origin view
  the entry cannot trap again.
* **Watcher.** `WInv` has three parts. `OkayOK`: while the first VM is okay it has
  a handle, is not being restarted and is in `STATE_RUNNING` or `STATE_RESTARTED`.
  `LateOK`: a listener that is still inside although `okay` was cleared is waited
  for, the watcher being asleep at that VM. `VisitOK`: what holds of the VM in the
  middle of a visit. Together: the handle is destroyed or replaced only in
  visits that come after the sleep. `HInv` adds for `HandleSound` which state of a
  VM goes with which handle (`StateOK`), and that in the middle of a restart the old
  handle is freed and the new one opened exactly between the two steps (`RestartOK`).

* **File filter.** That `pos` and `depth` stay within the length of a path, and
  that a thread in the middle of a match has a pattern (`index` within the list),
  is what types need beside `TypeOK`. With one thread, `CursorOK` relates the
  cursor to the depth of the recursion and to `saw`: each open call of `_match` has
  advanced the pattern by one, so there is a node to step back to, and `saw` is the
  cursor where it is used. `MatchOK` adds for `MatchExact` what the two cursors say of
  the meaning: those of the path and of the pattern are level up to the first double star,
  and the names behind them match (`AlignAt`). Behind it the path may be ahead by what the
  double star has taken; stepping back in the pattern alone is then harmless as long
  as one name at most follows. So a match gives the ends that `Means` asks for
  (`AlignDone`), and a failure shows two names that differ or two lengths that do
  (`AlignFail`). Under that lie lemmas about one name: where `fn_translate` puts its characters
  (`NameChars`), that a name with one star that means a name of the path matches it
  (`MixedHolds`), and that a name without a star, or a star alone, means what it
  matches (`MatchedMeans`). They are proved by the least counterexample (`LeastNumber`),
  as `FlattenSeq` and the names of a path have any length.
* **Monitors.** `TInv` strengthens `TypeOK` with `SettingsOK` (the listing covers
  the table, which holds valid policies) and `OwnOK` (parameters that are nobody's
  belong to `create` on a SetInformation function, whose callback reads none).
  `HInv` says for each VM which flags and hooks go together (`FlagsOK`), which
  types are still to come in `left` (`LeftOK`), and that a VM that is up has the
  flags of all types that are wanted (`OnOK`). `FInv` says what a filter is: the
  policies of its type in listing order, over and over (`InOrder`), of which what a VM
  in the middle of its set-up has still to add is the rest (`LeftIsRest`); once a VM
  is up they have all been added (`AllAdded`). So the first that matches in the filter is the
  first in the table. `CInv` follows each type through a call: its entry callback is due,
  or there are parameters for its return, or there is a report, and never two of
  these (`OneEach`); what was tracked or reported is what the call did (`TrackedOK`, `ReportsOK`); and
  a type that is asked for and that the hooks allow for is in one of the three
  (`HandledOK`). `NothingMissed` follows at the end of the call, where
  only reports are left. `writefile_cb` looks at files with a name only, hence the
  hypothesis.
* **Start and end.** `SInv` says for each phase of `main` which threads may be alive:
  none before they are started (`SetupOK`); while it joins, only those of `vms[]`,
  and not the ones below its index (`JoinOK`); none when it releases (`EndOK`).
  `OInv` says what is held of each VM: exactly what the first `step` steps of
  `hfm_init` acquire, while it is initialised (`CurrentOK`); exactly what its thread
  needs at its label (`ThreadsOK`); nothing, if it failed (`OthersOK`) - each time
  apart from a view that was left, and then a call has failed.  `GuestInv` counts
  the failures of each VM against what is left of its view: with none, the view maps
  what is in the table or still to be done (`MapsOK`) and closes the pages still to
  be done (`GuardsOK`); vCPUs that run while their VM is closed, and a view that stays
  behind, each take a failure, so that with one in all the maps are still right.
* **The whole program.** Without auto-restart the watcher is never started (`Starts`),
  and each action of `Program` is one of `Lifecycle` or leaves its variables alone
  (`StepCases`), which is `Implements`. With it a visit of the watcher is neither. `VisitCases`
  brings its steps into one form (`VisitFits`): things that are used, things that
  go, things that come. `LifeInv` keeps what the visits leave true of `Lifecycle`: the types, where
  the threads are (`SInv`, hence `SharedLiveHere`), and `OInv` until the watcher starts (`PlainOK`).
  From then on `Missing` says, by the state of its restart, what a VM may lack, and `WatchedOK`
  that a VM has all else until its thread is past its loop, and that the first VM's thread
  does not listen while something may be missing: there `Okay` and the sleep come in. So
  a visit uses nothing that is missing, and a listening thread something only if it is
  that of another VM, and then not the output or the handler (`MisusedOK`). `LogInv` adds that the
  entries given so far are distinct and below `entry_count`, and who has none;
  `StartedOK` when the listening threads and the watcher have been started, and `LateOK` that main
  is at its release when something shared is used too late.
* **Objects of the guest.** `TInv` ties the place in the code to the local variables
  it uses: a counter is within its table, and an address that was read leads to a
  table of that level. `RInv` relates a look-up to the table while the guest changes
  it: as long as the handle has stood for one object (`want`), the parts of the
  path that were read already lead to it, although the table may have grown
  above them. `DrivesFound` takes three invariants, one for each structure that
  `win_list_drives` walks. The ring of the processes has ranks in which it is linked
  (`Ranked`), so System is not the last and is listed when the walk has gone on from it
  (`SystemOK`). The handle of `GLOBAL??` is among the objects read once the
  loops are past its place (`DirAt`, `TableOK`); that the inner counters begin at 0 for each table
  is used here. And a kept drive that is not in the list is ahead of the walk (`Ahead`):
  in a later bucket, or not before the current entry in its own.  Before and after are ranks
  (`Listed`), of the entries that are in the directory and of those that were taken out
  while the walk was at them, whose links still lead to nothing behind a kept
  entry. A new entry gets a rank below all others of its bucket; an entry taken out
  keeps its own.

Only model-checked is everything temporal under fairness (`MonitoringResumes`,
`GuestProgress`, `MatchedReported`, `DeathNoticed`, `Returns`, `Ends`, `WalkEnds`),
which is out of the prover's reach. Every invariant of a passing run has a theorem.
`NothingMissed` and `MatchedTracked`, and the properties of the engine that say so above, are
proved under the hypotheses of the table; `IndexInRange` and `MatchExact` for one listening thread.

## 5. Plan

The modules planned at the beginning are there: the engine with its trap manager,
the restart watcher, the file filter, the monitors with their policies, the program
from start to end, first without and then with log and watcher, and the reads of
the guest's objects. Each invariant that a run checks is proved. What is
left, in this order:

1. The steps that the liveness arguments rest on and that are actions or invariants
   themselves: a measure that falls with each step of a match, of a walk or of a
   shutdown, so that only fairness is left to TLC.
2. Fewer hypotheses: what holds of `NoMissedCall` and `MatchedTracked` where a call fails.
3. The hazards without a property (the size of the memory, the number of vCPUs
   and of filter ids), which need instances larger than TLC can check, but no more than a
   theorem about a bound.

## 6. Not modelled, and why

* `config.c`, `rekall.c`, `outputs/*.c`: parsing, formatting and I/O, with no state
  that outlives a call other than handles.
* `fcleaner`: its `main` returns before it does anything, and the parts behind the
  return are called by unit tests only. A model would be of a program that does
  not run.
* A failure of `mon_init`, which does nothing and returns 0.
* `xen_helper.c`: an allocation that may fail, a frame that is given back and an
  interface that is opened and closed are all the engine sees of it. The memory
  limit (`memsize`, 32 bits) is a hazard without a property.
* The 16 step events and 128 filter ids: limits out of reach of an instance that
  checks anything else; the first is assumed, the second is `MaxPatterns`.
* Paths longer than a nodelist (13 levels, 256 characters): the code's behaviour is
  undefined there; `MaxNodes` keeps the models inside.
* The domains, the hypervisor and the guests are external: modelled by what the
  code can observe of them.
