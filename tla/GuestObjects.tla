---------------------------- MODULE GuestObjects ----------------------------
(***************************************************************************)
(* What HFM reads of the guest's kernel: win_list_drives (win.c), which    *)
(* hfm_init calls to learn the drive letters, and hfm_fileobj_from_handle  *)
(* (context.c), by which the callbacks of a call learn its file.           *)
(*                                                                         *)
(* Both walk structures of the guest word by word, while its vCPUs run:    *)
(* hfm_init does not pause the VM, and a callback holds no vCPU but its    *)
(* own.  Processes come and go, handles are opened and closed, a handle    *)
(* table grows by a level, and names are put into the directory GLOBAL??   *)
(* and taken out of it, between any two reads.                             *)
(*                                                                         *)
(* The handle table of the model is that of System for the list of drives  *)
(* and that of the calling process for a handle: it is walked the same     *)
(* way.  Addresses are abstract; a table is known by its number.           *)
(***************************************************************************)
EXTENDS Naturals, FiniteSets

CONSTANTS
  Low,         \* lowest_count: the entries of a table of the lowest level
  Mid,         \* mid_count, table_no: the pointers of a table above it
  Proc,        \* the processes that the guest may run
  System,      \* the one that is always the first, and never exits
  Object,      \* the objects that handles may stand for
  Dir,         \* the directory GLOBAL??, one of them; its handle is never closed
  Shifted,     \* those whose entries have bit 19 set, on a 64-bit Windows 10
  Entry,       \* the entries that GLOBAL?? may have
  Drive,       \* those of them that are symbolic links with a drive index
  Buckets,     \* bucket_size: the length of its hash table
  BucketOf,    \* the bucket of each entry
  Tables,      \* the handle tables that there may be at first
  Dirs,        \* the contents that GLOBAL?? may have at first
  Handle,      \* the handles, divided by HANDLE_MULTIPLIER, of calls
  None,        \* the address 0
  Junk,        \* an address where there is no object
  MaxChanges,  \* bound: how often the guest changes any of this
  MaxFails     \* bound: how many reads fail

\* The tables that a handle table of a level has room for.
Room(l) == CASE l = 0 -> 1 [] l = 1 -> Mid [] OTHER -> Mid * Mid

Index == 0..(Low * Mid * Mid - 1)

\* The chains of a directory are lists: there is an order of places in which the
\* head of a bucket is the first of its entries, and each links to the next.
Chained(d) ==
  LET In(b) == {e \in d.entries : BucketOf[e] = b} IN
  \E place \in [d.entries -> 1..Cardinality(d.entries)] : \A b \in 1..Buckets :
    /\ d.heads[b] \in In(b) \cup {None} /\ \A x \in In(b) : d.next[x] \in In(b) \cup {None}
    /\ \A e \in In(b) :
         /\ d.heads[b] # None /\ place[d.heads[b]] <= place[e]
         /\ \A x \in In(b) :
              /\ place[x] = place[e] => x = e
              /\ place[x] < place[e] =>
                   d.next[x] # None /\ place[d.next[x]] \in (place[x] + 1)..place[e]

ASSUME ObjectsAssumption ==
  /\ Low \in Nat \ {0} /\ Mid \in Nat \ {0} /\ Buckets \in Nat
  /\ System \in Proc /\ Proc # {System} /\ "head" \notin Proc \cup Entry
  /\ Dir \in Object /\ Shifted \subseteq Object /\ Drive \subseteq Entry
  /\ None \notin Object \cup Entry \cup Nat /\ Junk \notin Object \cup {None}
  /\ BucketOf \in [Entry -> 1..Buckets]
  /\ \A tab \in Tables :
       /\ tab.level \in 0..2 /\ tab.leaves \in 1..Room(tab.level)
       /\ tab.entry \in [Index -> Object \cup {None}]
       /\ \A i \in Index : tab.entry[i] # None => i < tab.leaves * Low
       /\ \E i \in 0..(tab.leaves * Low - 1) : tab.entry[i] = Dir
  /\ \A d \in Dirs :
       /\ d.entries \subseteq Entry
       /\ d.heads \in [1..Buckets -> Entry \cup {None}]
       /\ d.next \in [Entry -> Entry \cup {None}]
       /\ Chained(d)
  /\ Handle \subseteq Nat /\ MaxChanges \in Nat /\ MaxFails \in Nat

VARIABLES
  alive, flink,          \* PsActiveProcessHead: the processes and their links
  level, leaves, entry,  \* a handle table: its level, how many tables it has at
                         \* the lowest level, what each handle stands for
  inDir, heads, next,    \* GLOBAL??: its entries, its buckets and their chains
  changes,               \* how often the guest has changed any of this
  pc,                    \* where HFM is
  cur,                   \* next_list_entry and dir_entry
  found,                 \* process_addr is that of System
  code,                  \* table_levels, as it was read
  mid, leaf, n, slot,    \* table and table2, and the counters of the loops
  objs,                  \* the objects of the table
  bucket, drives,        \* the bucket that is read; the list of drives
  handle, got,           \* the handle of a call, and the object it led to
  want,                  \* history: what it has stood for since the call was made
  kept,                  \* history: the entries that have not been taken out
  fails                  \* how many reads have failed

procs  == <<alive, flink>>
table  == <<level, leaves, entry>>
dir    == <<inDir, heads, next, kept>>
walk   == <<cur, found, code, mid, leaf, n, slot, objs, bucket, drives>>
call   == <<handle, got, want>>
vars   == <<procs, table, dir, changes, pc, walk, call, fails>>

\* The list of processes is a ring through its head; System is the first, and
\* a Windows that has booted always runs another process.
Init ==
  /\ \E p \in Proc \ {System} :
       /\ alive = {System, p}
       /\ flink = [q \in Proc \cup {"head"} |->
                     CASE q = "head" -> System [] q = System -> p [] OTHER -> "head"]
  /\ \E tab \in Tables : level = tab.level /\ leaves = tab.leaves /\ entry = tab.entry
  /\ \E d \in Dirs : inDir = d.entries /\ heads = d.heads /\ next = d.next
  /\ kept = inDir /\ changes = 0
  /\ pc = "boot" /\ cur = "head" /\ found = FALSE /\ code = 0
  /\ mid = None /\ leaf = None /\ n = 0 /\ slot = 0 /\ objs = {}
  /\ bucket = 1 /\ drives = {}
  /\ handle = 0 /\ got = None /\ want = None
  /\ fails = 0

-----------------------------------------------------------------------------
(* The guest. *)

Change == changes < MaxChanges /\ changes' = changes + 1

\* A new process goes to the tail of the list.
ProcCreate(p) ==
  /\ Change /\ p \in Proc \ alive
  /\ alive' = alive \cup {p}
  /\ \E tail \in alive : /\ flink[tail] = "head"
                         /\ flink' = [flink EXCEPT ![tail] = p, ![p] = "head"]
  /\ UNCHANGED <<table, dir, pc, walk, call, fails>>

\* A process that ends leaves the list; its own link stays as it was.
ProcExit(p) ==
  /\ Change /\ p \in alive \ {System} /\ alive # {System, p}
  /\ alive' = alive \ {p}
  /\ \E q \in alive : /\ flink[q] = p
                      /\ flink' = [flink EXCEPT ![q] = flink[p]]
  /\ UNCHANGED <<table, dir, pc, walk, call, fails>>

\* What handle i stands for changes, under the call that was made with it too.
SetEntry(i, o) ==
  /\ entry' = [entry EXCEPT ![i] = o]
  /\ want' = IF i = handle THEN None ELSE want
  /\ UNCHANGED <<procs, level, leaves, dir, pc, walk, handle, got, fails>>

Open(i, o) == Change /\ i < leaves * Low /\ entry[i] = None /\ SetEntry(i, o)

Close(i) == Change /\ entry[i] \in Object \ {Dir} /\ SetEntry(i, None)

\* One more table of the lowest level; a table that is full gets a level above
\* it, whose first pointer is to the table as it was.
Grow ==
  /\ Change /\ leaves < Mid * Mid
  /\ leaves' = leaves + 1
  /\ level' = IF leaves = Room(level) THEN level + 1 ELSE level
  /\ UNCHANGED <<procs, entry, dir, pc, walk, call, fails>>

\* A name is put at the head of its chain ...
DirInsert(e) ==
  /\ Change /\ e \in Entry \ inDir /\ next[e] = None
  /\ inDir' = inDir \cup {e}
  /\ next' = [next EXCEPT ![e] = heads[BucketOf[e]]]
  /\ heads' = [heads EXCEPT ![BucketOf[e]] = e]
  /\ UNCHANGED <<procs, table, kept, pc, walk, call, fails>>

\* ... and taken out of it; its own link stays as it was.
DirRemove(e) ==
  /\ Change /\ e \in inDir
  /\ inDir' = inDir \ {e} /\ kept' = kept \ {e}
  /\ \/ /\ heads[BucketOf[e]] = e
        /\ heads' = [heads EXCEPT ![BucketOf[e]] = next[e]] /\ next' = next
     \/ /\ heads' = heads
        /\ \E d \in inDir : /\ next[d] = e
                            /\ next' = [next EXCEPT ![d] = next[e]]
  /\ UNCHANGED <<procs, table, pc, walk, call, fails>>

Guest ==
  \/ \E p \in Proc : ProcCreate(p) \/ ProcExit(p)
  \/ \E i \in Index : Close(i) \/ \E o \in Object \ {Dir} : Open(i, o)
  \/ Grow
  \/ \E e \in Entry : DirInsert(e) \/ DirRemove(e)

-----------------------------------------------------------------------------
(* A read.  One that fails leaves a 64-bit variable as it was, and sets a   *)
(* 32-bit one to 0.                                                         *)

Succeeds == fails' = fails
Fails    == fails < MaxFails /\ fails' = fails + 1

ReadInto(x, old, value) == \/ Succeeds /\ x = value
                           \/ Fails /\ x \in {old, None}

HFM(from) == pc = from /\ UNCHANGED <<procs, table, dir, changes>>

(* win_list_drives: first the processes, win_cur_processes. *)

ReadHead ==
  /\ HFM("boot")
  /\ \/ Succeeds /\ pc' = "procs"
     \/ Fails /\ pc' = "code"
  /\ UNCHANGED <<walk, call>>

\* Each turn lists the process it was at, once it has read the link to the next:
\* the last one, whose link is to the head, is never listed.
ReadProc ==
  /\ HFM("procs")
  /\ \/ /\ Succeeds /\ flink[cur] # "head"
        /\ cur' = flink[cur] /\ pc' = pc
        /\ found' = (found \/ cur = System)
     \/ /\ Fails /\ flink[cur] # "head"            \* the process id
        /\ cur' = flink[cur] /\ pc' = pc /\ found' = found
     \/ /\ (Succeeds /\ flink[cur] = "head") \/ Fails
        /\ pc' = "code" /\ UNCHANGED <<cur, found>>
  /\ UNCHANGED <<code, mid, leaf, n, slot, objs, bucket, drives, call>>

\* The code of the handle table: its address, and its level in the low bits.
TableCode ==
  /\ HFM("code")
  /\ \/ /\ found /\ Succeeds
        /\ code' = level
        /\ pc' = CASE level = 0 -> "entries" [] level = 1 -> "leaf" [] OTHER -> "mid"
        /\ leaf' = IF level = 0 THEN 0 ELSE None
        /\ mid' = IF level = 1 THEN 0 ELSE None
     \/ /\ (~found /\ Succeeds) \/ Fails
        /\ pc' = "idle" /\ UNCHANGED <<code, mid, leaf>>
  /\ UNCHANGED <<cur, found, n, slot, objs, bucket, drives, call>>

MidAt(i)     == IF i * Mid < leaves THEN i ELSE None
LeafAt(m, j) == IF m * Mid + j < leaves THEN m * Mid + j ELSE None

\* The counter of the inner loop is not reset.
GoOnAtErr(m) ==
  /\ n' = m /\ slot' = slot + 1
  /\ pc' = CASE m >= Room(code) -> "dir" [] OTHER -> "leaf"

\* The loops go on at the place n of the next table of the lowest level.
GoOnAt(m) ==
  /\ n' = m /\ slot' = 0
  /\ pc' = CASE m >= Room(code) -> "dir"
             [] m < Room(code) /\ code = 2 /\ m % Mid = 0 -> "mid"
             [] OTHER -> "leaf"

ReadMid ==
  /\ HFM("mid")
  /\ ReadInto(mid', mid, MidAt(n \div Mid))
  /\ IF mid' = None THEN GoOnAt(n + Mid)
                    ELSE pc' = "leaf" /\ UNCHANGED <<n, slot>>
  /\ UNCHANGED <<cur, found, code, leaf, objs, bucket, drives, call>>

ReadLeaf ==
  /\ HFM("leaf")
  /\ ReadInto(leaf', leaf, LeafAt(mid, n % Mid))
  /\ IF leaf' = None THEN GoOnAt(n + 1)
                     ELSE pc' = "entries" /\ UNCHANGED <<n, slot>>
  /\ UNCHANGED <<cur, found, code, mid, objs, bucket, drives, call>>

\* The loop over the entries ends one entry early.
ReadEntryErr ==
  /\ HFM("entries")
  /\ \E o \in Object \cup {None} :
       /\ ReadInto(o, None, entry[leaf * Low + slot])
       /\ objs' = objs \cup ({o} \ {None})
  /\ IF slot + 2 < Low THEN slot' = slot + 1 /\ UNCHANGED <<pc, n>>
                       ELSE GoOnAt(n + 1)
  /\ UNCHANGED <<cur, found, code, mid, leaf, bucket, drives, call>>

\* An entry of a table: obj is 0 before it is read.
ReadEntry ==
  /\ HFM("entries")
  /\ \E o \in Object \cup {None} :
       /\ ReadInto(o, None, entry[leaf * Low + slot])
       /\ objs' = objs \cup ({o} \ {None})
  /\ IF slot + 1 < Low THEN slot' = slot + 1 /\ UNCHANGED <<pc, n>>
                       ELSE GoOnAt(n + 1)
  /\ UNCHANGED <<cur, found, code, mid, leaf, bucket, drives, call>>

\* The object among them whose type and name are those of GLOBAL??.
FindDirectory ==
  /\ HFM("dir")
  /\ \/ Dir \in objs /\ Succeeds /\ pc' = "bucket"
     \/ ((Dir \notin objs /\ Succeeds) \/ Fails) /\ pc' = "idle"
  /\ UNCHANGED <<walk, call>>

\* A chain that ends has the same bucket read again.
NextBucketErr == bucket' = bucket

NextBucket == bucket' = bucket + 1

\* The head of a chain: dir_entry is 0 before it is read.
ReadBucket ==
  /\ HFM("bucket")
  /\ IF bucket > Buckets
     THEN pc' = "idle" /\ Succeeds /\ UNCHANGED <<cur, bucket>>
     ELSE /\ ReadInto(cur', None, heads[bucket])
          /\ IF cur' = None THEN NextBucket /\ pc' = pc
                            ELSE pc' = "chain" /\ bucket' = bucket
  /\ UNCHANGED <<found, code, mid, leaf, n, slot, objs, drives, call>>

\* The object of an entry, its type and its drive index.
ReadDrive ==
  /\ HFM("chain") /\ pc' = "link"
  /\ \/ Succeeds /\ drives' = drives \cup ({cur} \cap Drive)
     \/ Fails /\ drives' = drives
  /\ UNCHANGED <<cur, found, code, mid, leaf, n, slot, objs, bucket, call>>

ReadLink ==
  /\ HFM("link")
  /\ ReadInto(cur', cur, next[cur])
  /\ IF cur' = None THEN NextBucket /\ pc' = "bucket"
                    ELSE pc' = "chain" /\ bucket' = bucket
  /\ UNCHANGED <<found, code, mid, leaf, n, slot, objs, drives, call>>

ListDrives ==
  \/ ReadHead \/ ReadProc \/ TableCode \/ ReadMid \/ ReadLeaf \/ ReadEntry
  \/ FindDirectory \/ ReadBucket \/ ReadDrive \/ ReadLink

-----------------------------------------------------------------------------
(* hfm_fileobj_from_handle, in a callback of a call with the handle h.      *)

CallWith(h) ==
  /\ HFM("idle") /\ pc' = "lookup"
  /\ handle' = h /\ got' = None
  /\ want' = IF h \in Index THEN entry[h] ELSE None
  /\ UNCHANGED <<walk, fails>>

\* The address an entry of the table gives: bit 19 is not part of it, but is
\* taken with it.
Decoded(o) == IF o \in Object \ Shifted THEN o ELSE Junk

\* The reads up to the code of the table: after one that fails, file_obj is 0.
LookupCode ==
  /\ HFM("lookup")
  /\ \/ /\ Succeeds /\ code' = level
        /\ pc' = CASE level = 0 -> "object" [] level = 1 -> "leafOf" [] OTHER -> "midOf"
        /\ leaf' = IF level = 0 THEN 0 ELSE None
        /\ mid' = IF level = 1 THEN 0 ELSE None
     \/ Fails /\ pc' = "answer" /\ UNCHANGED <<code, mid, leaf>>
  /\ UNCHANGED <<cur, found, n, slot, objs, bucket, drives, call>>

\* The place of the handle: its entry, and the pointers of the tables above it.
Slot    == handle % Low
Above   == handle \div Low
TopSlot == Above \div Mid

\* The place of the table before the one that has the handle.
MidSlotErr == IF Above > 0 THEN (Above - 1) % Mid ELSE 0

MidSlot == IF code = 1 THEN Above ELSE Above % Mid

\* A table that has no such place is read past its end.
PastEnd(i, size) == i >= size

AnswerWith(o) == pc' = "answer" /\ got' = Decoded(o) /\ UNCHANGED <<handle, want>>

LookupMid ==
  /\ HFM("midOf")
  /\ IF PastEnd(TopSlot, Mid)
     THEN Succeeds /\ mid' = mid /\ \E o \in Object \cup {Junk} : AnswerWith(o)
     ELSE /\ ReadInto(mid', None, MidAt(TopSlot))
          /\ IF mid' = None THEN AnswerWith(None) ELSE pc' = "leafOf" /\ UNCHANGED call
  /\ UNCHANGED <<cur, found, code, leaf, n, slot, objs, bucket, drives>>

LookupLeaf ==
  /\ HFM("leafOf")
  /\ IF PastEnd(MidSlot, Mid)
     THEN Succeeds /\ leaf' = leaf /\ \E o \in Object \cup {Junk} : AnswerWith(o)
     ELSE /\ ReadInto(leaf', None, LeafAt(mid, MidSlot))
          /\ IF leaf' = None THEN AnswerWith(None) ELSE pc' = "object" /\ UNCHANGED call
  /\ UNCHANGED <<cur, found, code, mid, n, slot, objs, bucket, drives>>

\* On a table of level 0 the index is not bounded by its size.
LookupObject ==
  /\ HFM("object")
  /\ \E o \in Object \cup {None, Junk} :
       /\ AnswerWith(o)
       /\ IF code = 0 /\ PastEnd(handle, Low)
          THEN Succeeds
          ELSE ReadInto(o, None, entry[leaf * Low + Slot])
  /\ UNCHANGED walk

CallDone == HFM("answer") /\ pc' = "idle" /\ UNCHANGED <<walk, call, fails>>

FromHandle == LookupCode \/ LookupMid \/ LookupLeaf \/ LookupObject \/ CallDone

Next == Guest \/ ListDrives \/ (\E h \in Handle : CallWith(h)) \/ FromHandle

\* HFM goes on; the guest and the calls may stop.
Spec == Init /\ [][Next]_vars /\ WF_vars(ListDrives) /\ WF_vars(FromHandle)

-----------------------------------------------------------------------------
TypeOK ==
  /\ alive \subseteq Proc /\ flink \in [Proc \cup {"head"} -> Proc \cup {"head"}]
  /\ level \in 0..2 /\ leaves \in 1..Room(level)
  /\ entry \in [Index -> Object \cup {None}]
  /\ inDir \subseteq Entry /\ kept \subseteq inDir
  /\ heads \in [1..Buckets -> Entry \cup {None}] /\ next \in [Entry -> Entry \cup {None}]
  /\ changes \in 0..MaxChanges /\ fails \in 0..MaxFails
  /\ pc \in {"boot", "procs", "code", "mid", "leaf", "entries", "dir", "bucket", "chain",
             "link", "idle", "lookup", "midOf", "leafOf", "object", "answer"}
  /\ cur \in Proc \cup Entry \cup {"head", None} /\ found \in BOOLEAN
  /\ code \in 0..2 /\ code <= level
  /\ mid \in Nat \cup {None} /\ leaf \in 0..(leaves - 1) \cup {None}
  /\ n \in Nat /\ slot \in 0..(Low - 1)
  /\ objs \subseteq Object /\ bucket \in 1..(Buckets + 1) /\ drives \subseteq Drive
  /\ handle \in Handle \cup {0} /\ got \in Object \cup {None, Junk}
  /\ want \in Object \cup {None}

(* A handle that has stood for one object all through the call leads to that *)
(* object, or to none when a read fails: never to another one, although the  *)
(* table may grow by a level, and other handles come and go, between the     *)
(* read of its code and those of its entries.  (The objects whose entries    *)
(* have bit 19 set are left out: context.c:162 keeps the bit.)               *)
HandleResolved ==
  pc = "answer" /\ want \in Object \ Shifted =>
    got = want \/ (fails > 0 /\ got \notin Object)

(* With no failed read, the list holds every drive that GLOBAL?? has held    *)
(* from the start of the listing to its end, whatever was put before the     *)
(* entry that is read, or taken out next to it, meanwhile.                   *)
DrivesFound ==
  pc \notin {"boot", "procs", "code", "mid", "leaf", "entries", "dir", "bucket", "chain", "link"}
    /\ fails = 0 => kept \cap Drive \subseteq drives

(* win_list_drives ends, although it follows links that the guest changes    *)
(* and goes on from entries that are no longer in their lists, and although  *)
(* a failed read of a chain link sends it back to the entry it was at.       *)
WalkEnds == pc = "boot" ~> pc = "idle"
=============================================================================
