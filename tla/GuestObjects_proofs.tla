------------------------- MODULE GuestObjects_proofs -------------------------
(***************************************************************************)
(* Proofs about GuestObjects, for handle tables of any size, any contents  *)
(* of them and of GLOBAL??, any changes by the guest and any failed reads. *)
(***************************************************************************)
EXTENDS GuestObjects, Integers, TLAPS

-----------------------------------------------------------------------------
(* The place of a handle in its table.                                       *)

\* A product is no less than its factor.
LEMMA Square ==
  ASSUME NEW m \in Nat \ {0}
  PROVE  m * m \in Nat \ {0} /\ m <= m * m
<1> DEFINE p == m - 1
<1>1. p \in Nat /\ m = p + 1
  OBVIOUS
<1> HIDE DEF p
<1>2. m * m = p * p + p + p + 1 /\ p * p \in Nat
  BY <1>1
<1> QED BY <1>1, <1>2

\* How many tables a level has room for.
LEMMA RoomIs ==
  /\ Room(0) = 1 /\ Room(1) = Mid /\ Room(2) = Mid * Mid
  /\ \A l \in 0..2 : Room(l) \in Nat \ {0} /\ Room(l) <= Mid * Mid
<1>1. Mid \in Nat \ {0} /\ Mid * Mid \in Nat \ {0} /\ Mid <= Mid * Mid /\ 1 <= Mid * Mid
  <2>1. Mid \in Nat \ {0}
    BY ObjectsAssumption
  <2> QED BY <2>1, Square
<1>2. \A l \in 0..2 : l = 0 \/ l = 1 \/ l = 2
  OBVIOUS
<1>3. Room(0) = 1 /\ Room(1) = Mid /\ Room(2) = Mid * Mid
  BY DEF Room
<1> QED BY <1>1, <1>2, <1>3

\* The number of a table of the lowest level and a place in it are a handle.
LEMMA PlaceOf ==
  ASSUME NEW h \in Nat, NEW size \in Nat \ {0}
  PROVE  /\ h \div size \in Nat /\ h % size \in 0..(size - 1)
         /\ h = (h \div size) * size + (h % size)
         /\ \A m \in Nat : h < m * size => h \div size < m
<1>1. h \div size \in Nat /\ h % size \in 0..(size - 1) /\ h = (h \div size) * size + (h % size)
  OBVIOUS
<1>2. ASSUME NEW m \in Nat, h < m * size PROVE h \div size < m
  <2> DEFINE q == h \div size
             r == h % size
  <2>1. q \in Nat /\ r \in Nat /\ h = q * size + r
    BY <1>1
  <2> HIDE DEF q, r
  <2>2. ~ (q >= m)
    <3> SUFFICES ASSUME q >= m PROVE FALSE
      OBVIOUS
    <3>1. q * size >= m * size
      BY <2>1
    <3> QED BY <1>2, <2>1, <3>1
  <2> QED BY <2>1, <2>2 DEF q
<1> QED BY <1>1, <1>2

\* The loops go from one table of the middle level to the next.
LEMMA NextTable ==
  ASSUME NEW a \in Nat, NEW size \in Nat \ {0}, a % size = 0
  PROVE  (a + size) % size = 0
<1> DEFINE q == a \div size
           p == (a + size) \div size
           r == (a + size) % size
<1>1. q \in Nat /\ a = q * size
  BY PlaceOf
<1>2. p \in Nat /\ r \in 0..(size - 1) /\ a + size = p * size + r
  BY PlaceOf
<1> HIDE DEF q, p, r
<1>3. (q + 1 - p) * size = r
  BY <1>1, <1>2
<1> DEFINE d == q + 1 - p
<1>4. d \in Int /\ d * size = r /\ r >= 0 /\ r < size
  BY <1>1, <1>2, <1>3
<1> HIDE DEF d
<1>5. ~(d >= 1) /\ ~(d <= -1)
  BY <1>4
<1>6. d = 0
  BY <1>4, <1>5
<1>7. r = 0
  BY <1>4, <1>6
<1> QED BY <1>7 DEF r

-----------------------------------------------------------------------------
(* Types.                                                                    *)

GuestTypes ==
  /\ alive \subseteq Proc /\ flink \in [Proc \cup {"head"} -> Proc \cup {"head"}]
  /\ level \in 0..2 /\ leaves \in 1..Room(level)
  /\ entry \in [Index -> Object \cup {None}]
  /\ inDir \subseteq Entry /\ kept \subseteq inDir
  /\ heads \in [1..Buckets -> Entry \cup {None}] /\ next \in [Entry -> Entry \cup {None}]
  /\ changes \in 0..MaxChanges

\* What a handle stands for is in one of the tables there are.
InTables == \A i \in Index : entry[i] # None => i < leaves * Low

WalkTypes ==
  /\ fails \in 0..MaxFails
  /\ pc \in {"boot", "procs", "code", "mid", "leaf", "entries", "dir", "bucket", "chain",
             "link", "idle", "lookup", "midOf", "leafOf", "object", "answer"}
  /\ cur \in Proc \cup Entry \cup {"head", None} /\ found \in BOOLEAN
  /\ code \in 0..2 /\ code <= level
  /\ mid \in Nat \cup {None} /\ leaf \in 0..(leaves - 1) \cup {None}
  /\ n \in Nat /\ slot \in 0..(Low - 1)
  /\ objs \subseteq Object /\ bucket \in 1..(Buckets + 1) /\ drives \subseteq Drive
  /\ handle \in Handle \cup {0} /\ got \in Object \cup {None, Junk}
  /\ want \in Object \cup {None}

\* What is read is where there is something of its kind.
WalkPlaces ==
  /\ pc \in {"boot", "procs"} => cur \in Proc \cup {"head"}
  /\ pc \in {"chain", "link"} => cur \in Entry /\ bucket <= Buckets
  /\ pc \in {"boot", "procs", "code"} => n = 0
  /\ pc = "mid" => code = 2 /\ n % Mid = 0
  /\ pc \in {"leaf", "leafOf"} => mid \in Nat
  /\ pc = "leaf" => code # 0
  /\ pc = "entries" => code = 0 \/ mid \in Nat

TInv == GuestTypes /\ InTables /\ WalkTypes /\ WalkPlaces

LEMMA TypeParts == TypeOK <=> GuestTypes /\ WalkTypes
  BY DEF TypeOK, GuestTypes, WalkTypes

LEMMA InitType == Init => TInv
<1> SUFFICES ASSUME Init PROVE TInv
  OBVIOUS
<1>1. PICK tab \in Tables : level = tab.level /\ leaves = tab.leaves /\ entry = tab.entry
  BY DEF Init
<1>2. PICK d \in Dirs : inDir = d.entries /\ heads = d.heads /\ next = d.next
  BY DEF Init
<1>3. level \in 0..2 /\ leaves \in 1..Room(level) /\ entry \in [Index -> Object \cup {None}]
      /\ InTables
  BY <1>1, ObjectsAssumption DEF InTables
<1>4. inDir \subseteq Entry /\ heads \in [1..Buckets -> Entry \cup {None}]
      /\ next \in [Entry -> Entry \cup {None}]
  BY <1>2, ObjectsAssumption
<1>5. alive \subseteq Proc /\ flink \in [Proc \cup {"head"} -> Proc \cup {"head"}]
  BY ObjectsAssumption DEF Init
<1>6. GuestTypes
  BY <1>3, <1>4, <1>5, ObjectsAssumption DEF Init, GuestTypes
<1>7. WalkTypes /\ WalkPlaces
  <2>1. /\ 0 \in 0..MaxFails /\ 0 \in 0..(Low - 1) /\ 1 \in 1..(Buckets + 1)
        /\ 0 <= level
    BY <1>3, ObjectsAssumption
  <2>2. WalkPlaces
    BY DEF Init, WalkPlaces
  <2>3. /\ pc = "boot" /\ cur = "head" /\ found = FALSE /\ code = 0
        /\ mid = None /\ leaf = None /\ n = 0 /\ slot = 0 /\ objs = {} /\ bucket = 1
        /\ drives = {} /\ handle = 0 /\ got = None /\ want = None /\ fails = 0
    BY DEF Init
  <2>4. WalkTypes
    <3>1. fails \in 0..MaxFails /\ slot \in 0..(Low - 1) /\ bucket \in 1..(Buckets + 1)
          /\ code \in 0..2 /\ code <= level /\ n \in Nat
      BY <2>1, <2>3
    <3>2. pc \in {"boot"} /\ cur \in {"head"} /\ mid \in {None} /\ leaf \in {None}
          /\ objs \subseteq Object /\ drives \subseteq Drive /\ handle \in {0} /\ got \in {None}
          /\ want \in {None} /\ found \in BOOLEAN
      BY <2>3
    <3> QED BY <3>1, <3>2 DEF WalkTypes
  <2> QED BY <2>2, <2>4
<1> QED BY <1>3, <1>6, <1>7 DEF TInv

\* What the guest does while HFM is at work: levels and tables are added only, and
\* the handle of a call may cease to stand for what it did.
LEMMA GuestStep ==
  ASSUME TInv, Guest
  PROVE  /\ GuestTypes' /\ InTables'
         /\ level' \in 0..2 /\ level <= level' /\ leaves' \in Nat /\ leaves <= leaves'
         /\ UNCHANGED <<pc, walk, handle, got, fails>>
         /\ want' # None => want' = want /\ entry'[handle] = entry[handle]
<1> USE DEF procs, table, dir, call
<1>0. GuestTypes /\ InTables /\ Low \in Nat \ {0} /\ Mid \in Nat \ {0} /\ MaxChanges \in Nat
  BY ObjectsAssumption DEF TInv
<1>1. level \in 0..2 /\ leaves \in Nat \ {0} /\ leaves <= Room(level) /\ Room(level) <= Mid * Mid
  BY <1>0, RoomIs DEF GuestTypes
<1>2. Change => changes' \in 0..MaxChanges
  BY <1>0 DEF Change, GuestTypes
<1>3. ASSUME NEW p \in Proc, ProcCreate(p) PROVE GuestTypes'
  BY <1>0, <1>2, <1>3 DEF ProcCreate, GuestTypes
<1>4. ASSUME NEW p \in Proc, ProcExit(p) PROVE GuestTypes'
  <2>1. flink[p] \in Proc \cup {"head"}
    BY <1>0, <1>4 DEF GuestTypes
  <2> QED BY <1>0, <1>2, <1>4, <2>1 DEF ProcExit, GuestTypes
<1>5. ASSUME NEW i \in Index, Close(i) \/ \E o \in Object \ {Dir} : Open(i, o)
      PROVE  /\ GuestTypes' /\ InTables' /\ UNCHANGED <<level, leaves>>
             /\ UNCHANGED <<pc, walk, handle, got, fails>>
             /\ want' # None => want' = want /\ entry'[handle] = entry[handle]
  <2>1. PICK o \in Object \cup {None} : SetEntry(i, o) /\ Change /\ (o # None => i < leaves * Low)
    BY <1>5 DEF Open, Close
  <2>2. GuestTypes'
    BY <1>0, <1>2, <2>1 DEF SetEntry, GuestTypes
  <2>3. InTables'
    BY <1>0, <2>1 DEF SetEntry, GuestTypes, InTables
  <2>4. want' # None => want' = want /\ entry'[handle] = entry[handle]
    BY <1>0, <2>1 DEF SetEntry, GuestTypes
  <2> QED BY <2>1, <2>2, <2>3, <2>4 DEF SetEntry
<1>6. ASSUME Grow
      PROVE  GuestTypes' /\ InTables' /\ level' \in 0..2 /\ level <= level'
  <2>1. leaves' = leaves + 1 /\ leaves < Mid * Mid /\ UNCHANGED entry /\ Change
        /\ level' = IF leaves = Room(level) THEN level + 1 ELSE level
    BY <1>6 DEF Grow
  <2>2. level' \in 0..2 /\ leaves' \in 1..Room(level')
    <3>1. CASE leaves # Room(level)
      <4>1. Room(level) \in Nat
        BY <1>1, RoomIs
      <4> QED BY <1>1, <2>1, <3>1, <4>1
    <3>2. CASE leaves = Room(level) /\ level = 0
      <4>1. Mid # 1
        BY <2>1, <3>2, RoomIs
      <4> QED BY <1>0, <2>1, <3>2, <4>1, RoomIs
    <3>3. CASE leaves = Room(level) /\ level = 1
      BY <1>0, <1>1, <2>1, <3>3, RoomIs
    <3>4. ~(leaves = Room(level) /\ level = 2)
      BY <2>1, <1>1, RoomIs
    <3>5. level = 0 \/ level = 1 \/ level = 2
      BY <1>1
    <3> QED BY <3>1, <3>2, <3>3, <3>4, <3>5
  <2>3. GuestTypes'
    BY <1>0, <1>2, <1>6, <2>1, <2>2 DEF Grow, GuestTypes
  <2>4. InTables'
    <3>1. leaves * Low \in Nat /\ (leaves + 1) * Low = leaves * Low + Low /\ Low \in Nat
      BY <1>0, <1>1
    <3>2. Index \subseteq Nat
      BY DEF Index
    <3>3. \A i \in Nat : i < leaves * Low => i < leaves' * Low
      BY <2>1, <3>1
    <3> QED BY <1>0, <2>1, <3>2, <3>3 DEF InTables
  <2>5. level <= level'
    BY <1>1, <2>1
  <2> QED BY <2>2, <2>3, <2>4, <2>5
<1>7. ASSUME NEW e \in Entry, DirInsert(e) PROVE GuestTypes'
  <2>1. BucketOf[e] \in 1..Buckets
    BY ObjectsAssumption
  <2>2. heads' \in [1..Buckets -> Entry \cup {None}] /\ next' \in [Entry -> Entry \cup {None}]
    BY <1>0, <1>7, <2>1 DEF DirInsert, GuestTypes
  <2> QED BY <1>0, <1>2, <1>7, <2>2 DEF DirInsert, GuestTypes
<1>8. ASSUME NEW e \in Entry, DirRemove(e) PROVE GuestTypes'
  <2>1. BucketOf[e] \in 1..Buckets /\ next[e] \in Entry \cup {None}
    BY <1>0, ObjectsAssumption DEF GuestTypes
  <2>2. heads' \in [1..Buckets -> Entry \cup {None}] /\ next' \in [Entry -> Entry \cup {None}]
    BY <1>0, <1>8, <2>1 DEF DirRemove, GuestTypes
  <2> QED BY <1>0, <1>2, <1>8, <2>2 DEF DirRemove, GuestTypes
<1>9. UNCHANGED <<leaves, entry>> => InTables'
  BY <1>0 DEF InTables
<1>10. CASE \E p \in Proc : ProcCreate(p) \/ ProcExit(p)
  <2>1. UNCHANGED <<table, pc, walk, call, fails>>
    BY <1>10 DEF ProcCreate, ProcExit
  <2> QED BY <1>1, <1>3, <1>4, <1>9, <1>10, <2>1
<1>11. CASE \E e \in Entry : DirInsert(e) \/ DirRemove(e)
  <2>1. UNCHANGED <<table, pc, walk, call, fails>>
    BY <1>11 DEF DirInsert, DirRemove
  <2> QED BY <1>1, <1>7, <1>8, <1>9, <1>11, <2>1
<1>12. CASE Grow
  <2>1. UNCHANGED <<entry, pc, walk, call, fails>> /\ leaves' = leaves + 1
    BY <1>12 DEF Grow
  <2> QED BY <1>1, <1>6, <1>12, <2>1
<1>13. CASE \E i \in Index : Close(i) \/ \E o \in Object \ {Dir} : Open(i, o)
  BY <1>1, <1>5, <1>13
<1> QED BY <1>10, <1>11, <1>12, <1>13 DEF Guest

\* A read counts, if it fails.
LEMMA ReadCounts ==
  ASSUME WalkTypes
  PROVE  Succeeds \/ Fails => fails' \in 0..MaxFails
  BY ObjectsAssumption DEF WalkTypes, Succeeds, Fails

\* The place where the loops over the table go on.
LEMMA GoOnType ==
  ASSUME NEW m \in Nat \ {0}, GoOnAt(m), code \in 0..2
  PROVE  /\ n' = m /\ slot' = 0
         /\ pc' \in {"dir", "mid", "leaf"}
         /\ pc' = "mid" => code = 2 /\ m % Mid = 0
         /\ pc' = "leaf" => code # 0 /\ ~(code = 2 /\ m % Mid = 0)
<1>1. n' = m /\ slot' = 0
  BY DEF GoOnAt
<1>2. CASE m >= Room(code)
  BY <1>1, <1>2 DEF GoOnAt
<1>3. CASE ~(m >= Room(code))
  <2>1. m < Room(code) /\ code # 0
    BY <1>3, RoomIs
  <2>2. pc' = IF code = 2 /\ m % Mid = 0 THEN "mid" ELSE "leaf"
    BY <1>3, <2>1 DEF GoOnAt
  <2> QED BY <1>1, <2>1, <2>2
<1> QED BY <1>2, <1>3

\* The pointers of a table: those that there are, and no others.
LEMMA PointerTypes ==
  ASSUME TInv, NEW i \in Nat, NEW j \in Nat
  PROVE  /\ MidAt(i) \in Nat \cup {None}
         /\ LeafAt(i, j) \in 0..(leaves - 1) \cup {None}
<1>1. level \in 0..2 /\ leaves \in 1..Room(level)
  BY DEF TInv, GuestTypes
<1>2. Room(level) \in Nat
  BY <1>1, RoomIs
<1>3. leaves \in Nat
  BY <1>1, <1>2
<1>4. Mid \in Nat
  BY ObjectsAssumption
<1>5. i * Mid + j \in Nat
  BY <1>4
<1> QED BY <1>3, <1>5 DEF MidAt, LeafAt

\* HFM does not write to the guest here.
LEMMA GuestStays ==
  ASSUME TInv, NEW from, HFM(from)
  PROVE  /\ GuestTypes' /\ InTables' /\ UNCHANGED <<level, leaves, entry>>
         /\ pc = from
  BY DEF HFM, TInv, GuestTypes, InTables, procs, table, dir

LEMMA ListType ==
  ASSUME TInv, ListDrives
  PROVE  WalkTypes' /\ WalkPlaces'
<1> USE DEF call
<1>0. /\ WalkTypes /\ WalkPlaces /\ GuestTypes
      /\ Low \in Nat \ {0} /\ Mid \in Nat \ {0} /\ Buckets \in Nat
  BY ObjectsAssumption DEF TInv
<1>r. Succeeds \/ Fails => fails' \in 0..MaxFails
  BY <1>0, ReadCounts
<1>g. \A from : HFM(from) => pc = from /\ UNCHANGED <<level, leaves, heads, next, flink>>
  BY DEF HFM, procs, table, dir
<1>1. CASE ReadHead
  BY <1>0, <1>r, <1>g, <1>1 DEF ReadHead, WalkTypes, WalkPlaces, walk
<1>2. CASE ReadProc
  <2>1. pc = "procs" /\ n = 0 /\ cur \in Proc \cup {"head"} /\ flink[cur] \in Proc \cup {"head"}
    BY <1>0, <1>g, <1>2 DEF ReadProc, WalkPlaces, GuestTypes
  <2>2. pc' \in {"procs", "code"} /\ cur' \in Proc \cup {"head"} /\ found' \in BOOLEAN
        /\ fails' \in 0..MaxFails /\ n' = 0
    BY <1>0, <1>r, <1>2, <2>1 DEF ReadProc, WalkTypes
  <2>3. UNCHANGED <<code, level, leaves, mid, leaf, slot, objs, bucket, drives, call>>
    BY <1>g, <1>2 DEF ReadProc
  <2> QED BY <1>0, <2>2, <2>3 DEF WalkTypes, WalkPlaces
<1>3. CASE TableCode
  <2>1. pc = "code" /\ n = 0 /\ 0 % Mid = 0 /\ fails' \in 0..MaxFails
        /\ UNCHANGED <<cur, found, level, leaves, n, slot, objs, bucket, drives, call>>
    BY <1>0, <1>r, <1>g, <1>3 DEF TableCode, WalkPlaces
  <2>2. level \in 0..2 /\ 0 \in 0..(leaves - 1)
    <3>1. level \in 0..2 /\ leaves \in 1..Room(level)
      BY <1>0 DEF GuestTypes
    <3>2. Room(level) \in Nat
      BY <3>1, RoomIs
    <3> QED BY <3>1, <3>2
  <2>3. CASE pc' = "idle" /\ UNCHANGED <<code, mid, leaf>>
    BY <1>0, <2>1, <2>3 DEF WalkTypes, WalkPlaces
  <2>4. CASE /\ code' = level
             /\ pc' = CASE level = 0 -> "entries" [] level = 1 -> "leaf" [] OTHER -> "mid"
             /\ leaf' = IF level = 0 THEN 0 ELSE None
             /\ mid' = IF level = 1 THEN 0 ELSE None
    <3>1. \/ code' = 0 /\ pc' = "entries" /\ leaf' = 0 /\ mid' = None
          \/ code' = 1 /\ pc' = "leaf" /\ leaf' = None /\ mid' = 0
          \/ code' = 2 /\ pc' = "mid" /\ leaf' = None /\ mid' = None
      BY <2>2, <2>4
    <3> QED BY <1>0, <2>1, <2>2, <2>4, <3>1 DEF WalkTypes, WalkPlaces
  <2> QED BY <1>3, <2>3, <2>4 DEF TableCode
<1>4. CASE ReadMid
  <2>1. n % Mid = 0 /\ (n + Mid) % Mid = 0 /\ n + Mid \in Nat \ {0} /\ n \div Mid \in Nat
        /\ code = 2 /\ pc = "mid"
    <3>1. n % Mid = 0 /\ n \in Nat /\ code = 2 /\ pc = "mid"
      BY <1>0, <1>g, <1>4 DEF ReadMid, WalkTypes, WalkPlaces
    <3>2. (n + Mid) % Mid = 0
      BY <1>0, <3>1, NextTable
    <3>3. n + Mid \in Nat \ {0} /\ n \div Mid \in Nat
      BY <1>0, <3>1
    <3> QED BY <3>1, <3>2, <3>3
  <2>2. mid' \in Nat \cup {None} /\ fails' \in 0..MaxFails
    BY <1>0, <1>r, <1>4, <2>1, PointerTypes DEF ReadMid, ReadInto, WalkTypes
  <2>3. CASE mid' = None
    <3>1. n' = n + Mid /\ slot' = 0 /\ pc' \in {"dir", "mid"}
      BY <1>0, <1>4, <2>1, <2>3, GoOnType DEF ReadMid, WalkTypes
    <3> QED BY <1>0, <1>g, <1>4, <2>1, <2>2, <3>1 DEF ReadMid, WalkTypes, WalkPlaces
  <2>4. CASE mid' # None
    BY <1>0, <1>g, <1>4, <2>1, <2>2, <2>4 DEF ReadMid, WalkTypes, WalkPlaces
  <2> QED BY <2>3, <2>4
<1>5. CASE ReadLeaf
  <2>1. n % Mid \in Nat /\ n + 1 \in Nat \ {0} /\ mid \in Nat /\ code # 0 /\ pc = "leaf"
    BY <1>0, <1>g, <1>5 DEF ReadLeaf, WalkTypes, WalkPlaces
  <2>2. leaf' \in 0..(leaves - 1) \cup {None} /\ fails' \in 0..MaxFails
    BY <1>0, <1>r, <1>5, <2>1, PointerTypes DEF ReadLeaf, ReadInto, WalkTypes
  <2>3. CASE leaf' = None
    <3>1. n' = n + 1 /\ slot' = 0 /\ pc' \in {"dir", "mid", "leaf"}
          /\ (pc' = "mid" => code = 2 /\ n' % Mid = 0)
      BY <1>0, <1>5, <2>1, <2>3, GoOnType DEF ReadLeaf, WalkTypes
    <3> QED BY <1>0, <1>g, <1>5, <2>1, <2>2, <3>1 DEF ReadLeaf, WalkTypes, WalkPlaces
  <2>4. CASE leaf' # None
    BY <1>0, <1>g, <1>5, <2>1, <2>2, <2>4 DEF ReadLeaf, WalkTypes, WalkPlaces
  <2> QED BY <2>3, <2>4
<1>6. CASE ReadEntry
  <2>1. n + 1 \in Nat \ {0} /\ pc = "entries" /\ (code = 0 \/ mid \in Nat)
    BY <1>0, <1>g, <1>6 DEF ReadEntry, WalkTypes, WalkPlaces
  <2>2. objs' \subseteq Object /\ fails' \in 0..MaxFails
    BY <1>0, <1>r, <1>6 DEF ReadEntry, ReadInto, WalkTypes
  <2>3. CASE slot + 1 < Low
    <3>1. slot' \in 0..(Low - 1) /\ pc' = pc /\ n' = n
      BY <1>0, <1>6, <2>3 DEF ReadEntry, WalkTypes
    <3> QED BY <1>0, <1>g, <1>6, <2>1, <2>2, <3>1 DEF ReadEntry, WalkTypes, WalkPlaces
  <2>4. CASE ~(slot + 1 < Low)
    <3>1. n' = n + 1 /\ slot' = 0 /\ pc' \in {"dir", "mid", "leaf"}
          /\ (pc' = "mid" => code = 2 /\ n' % Mid = 0) /\ (pc' = "leaf" => code # 0)
      BY <1>0, <1>6, <2>1, <2>4, GoOnType DEF ReadEntry, WalkTypes
    <3> QED BY <1>0, <1>g, <1>6, <2>1, <2>2, <3>1 DEF ReadEntry, WalkTypes, WalkPlaces
  <2> QED BY <2>3, <2>4
<1>7. CASE FindDirectory
  BY <1>0, <1>r, <1>g, <1>7 DEF FindDirectory, WalkTypes, WalkPlaces, walk
<1>8. CASE ReadBucket
  BY <1>0, <1>r, <1>g, <1>8 DEF ReadBucket, ReadInto, NextBucket, WalkTypes, WalkPlaces, GuestTypes
<1>9. CASE ReadDrive
  BY <1>0, <1>r, <1>g, <1>9 DEF ReadDrive, WalkTypes, WalkPlaces
<1>10. CASE ReadLink
  BY <1>0, <1>r, <1>g, <1>10 DEF ReadLink, ReadInto, NextBucket, WalkTypes, WalkPlaces, GuestTypes
<1> QED
  BY <1>1, <1>2, <1>3, <1>4, <1>5, <1>6, <1>7, <1>8, <1>9, <1>10 DEF ListDrives

LEMMA LookupType ==
  ASSUME TInv, FromHandle \/ \E h \in Handle : CallWith(h)
  PROVE  WalkTypes' /\ WalkPlaces'
<1> USE DEF call
<1>0. /\ WalkTypes /\ WalkPlaces /\ GuestTypes
      /\ Low \in Nat \ {0} /\ Mid \in Nat \ {0}
  BY ObjectsAssumption DEF TInv
<1>r. Succeeds \/ Fails => fails' \in 0..MaxFails
  BY <1>0, ReadCounts
<1>g. \A from : HFM(from) => pc = from /\ UNCHANGED <<level, leaves, entry>>
  BY DEF HFM, table
<1>a. \A o \in Object \cup {None, Junk} : Decoded(o) \in Object \cup {None, Junk}
  BY DEF Decoded
<1>h. handle \in Nat
  BY <1>0, ObjectsAssumption DEF WalkTypes
<1>t. TopSlot \in Nat /\ Above % Mid \in Nat /\ Above \in Nat /\ MidSlot \in Nat
  <2>1. Above \in Nat
    BY <1>0, <1>h, PlaceOf DEF Above
  <2>2. Above \div Mid \in Nat /\ Above % Mid \in Nat
    BY <1>0, <2>1, PlaceOf
  <2> QED BY <2>1, <2>2 DEF TopSlot, MidSlot
<1>1. ASSUME NEW h \in Handle, CallWith(h) PROVE WalkTypes' /\ WalkPlaces'
  <2>1. want' \in Object \cup {None}
    BY <1>0, <1>1 DEF CallWith, GuestTypes
  <2> QED BY <1>0, <1>g, <1>1, <2>1 DEF CallWith, WalkTypes, WalkPlaces, walk
<1>2. CASE LookupCode
  <2>1. fails' \in 0..MaxFails /\ UNCHANGED <<level, leaves, cur, found, n, slot, objs, bucket, drives, call>>
    BY <1>r, <1>g, <1>2 DEF LookupCode
  <2>2. level \in 0..2 /\ 0 \in 0..(leaves - 1)
    <3>1. level \in 0..2 /\ leaves \in 1..Room(level)
      BY <1>0 DEF GuestTypes
    <3>2. Room(level) \in Nat
      BY <3>1, RoomIs
    <3> QED BY <3>1, <3>2
  <2>3. CASE pc' = "answer" /\ UNCHANGED <<code, mid, leaf>>
    BY <1>0, <2>1, <2>3 DEF WalkTypes, WalkPlaces
  <2>4. CASE /\ code' = level
             /\ pc' = CASE level = 0 -> "object" [] level = 1 -> "leafOf" [] OTHER -> "midOf"
             /\ leaf' = IF level = 0 THEN 0 ELSE None
             /\ mid' = IF level = 1 THEN 0 ELSE None
    <3>1. \/ code' = 0 /\ pc' = "object" /\ leaf' = 0 /\ mid' = None
          \/ code' = 1 /\ pc' = "leafOf" /\ leaf' = None /\ mid' = 0
          \/ code' = 2 /\ pc' = "midOf" /\ leaf' = None /\ mid' = None
      BY <2>2, <2>4
    <3> QED BY <1>0, <2>1, <2>2, <2>4, <3>1 DEF WalkTypes, WalkPlaces
  <2> QED BY <1>2, <2>3, <2>4 DEF LookupCode
<1>3. CASE LookupMid
  <2>1. mid' \in Nat \cup {None} /\ fails' \in 0..MaxFails
    BY <1>0, <1>r, <1>t, <1>3, PointerTypes DEF LookupMid, ReadInto, WalkTypes
  <2>2. pc' = "answer" \/ (pc' = "leafOf" /\ mid' # None)
    BY <1>3 DEF LookupMid, AnswerWith
  <2>3. got' \in Object \cup {None, Junk} /\ UNCHANGED <<handle, want>>
    BY <1>0, <1>a, <1>3 DEF LookupMid, AnswerWith, WalkTypes
  <2>4. UNCHANGED <<level, leaves, cur, found, code, leaf, n, slot, objs, bucket, drives>>
    BY <1>g, <1>3 DEF LookupMid
  <2> QED BY <1>0, <2>1, <2>2, <2>3, <2>4 DEF WalkTypes, WalkPlaces
<1>4. CASE LookupLeaf
  <2>1. mid \in Nat
    BY <1>0, <1>g, <1>4 DEF LookupLeaf, WalkPlaces
  <2>2. leaf' \in 0..(leaves - 1) \cup {None} /\ fails' \in 0..MaxFails
    BY <1>0, <1>r, <1>t, <1>4, <2>1, PointerTypes DEF LookupLeaf, ReadInto, WalkTypes
  <2>3. pc' \in {"answer", "object"}
    BY <1>4 DEF LookupLeaf, AnswerWith
  <2>4. got' \in Object \cup {None, Junk} /\ UNCHANGED <<handle, want>>
    BY <1>0, <1>a, <1>4 DEF LookupLeaf, AnswerWith, WalkTypes
  <2>5. UNCHANGED <<level, leaves, cur, found, code, mid, n, slot, objs, bucket, drives>>
    BY <1>g, <1>4 DEF LookupLeaf
  <2> QED BY <1>0, <2>2, <2>3, <2>4, <2>5 DEF WalkTypes, WalkPlaces
<1>5. CASE LookupObject
  <2>1. fails' \in 0..MaxFails
    BY <1>r, <1>5 DEF LookupObject, ReadInto
  <2>2. pc' = "answer" /\ got' \in Object \cup {None, Junk} /\ UNCHANGED <<handle, want>>
    BY <1>a, <1>5 DEF LookupObject, AnswerWith
  <2>3. UNCHANGED <<level, leaves, walk>>
    BY <1>g, <1>5 DEF LookupObject
  <2> QED BY <1>0, <2>1, <2>2, <2>3 DEF WalkTypes, WalkPlaces, walk
<1>6. CASE CallDone
  BY <1>0, <1>g, <1>6 DEF CallDone, WalkTypes, WalkPlaces, walk
<1> QED BY <1>1, <1>2, <1>3, <1>4, <1>5, <1>6 DEF FromHandle

\* The numbers of tables remain numbers of tables.
LEMMA MoreTables ==
  ASSUME NEW a \in Nat, NEW b \in Nat, a <= b
  PROVE  \A i \in 0..(a - 1) : i \in 0..(b - 1)
  OBVIOUS

LEMMA TypeStep == TInv /\ [Next]_vars => TInv'
<1> SUFFICES ASSUME TInv, [Next]_vars PROVE TInv'
  OBVIOUS
<1>1. CASE Guest
  <2>1. /\ GuestTypes' /\ InTables' /\ UNCHANGED <<pc, walk, handle, got, fails>>
        /\ level' \in 0..2 /\ level <= level' /\ leaves' \in Nat /\ leaves <= leaves'
        /\ want' \in {want, None}
    BY <1>1, GuestStep
  <2>2. code <= level'
    BY <2>1 DEF TInv, WalkTypes, GuestTypes
  <2>3. leaf \in 0..(leaves' - 1) \cup {None}
    <3>1. level \in 0..2 /\ leaves \in 1..Room(level) /\ Room(level) \in Nat
      BY RoomIs DEF TInv, GuestTypes
    <3>2. leaves \in Nat
      BY <3>1
    <3>3. leaf \in 0..(leaves - 1) \cup {None}
      BY DEF TInv, WalkTypes
    <3>4. \A i \in 0..(leaves - 1) : i \in 0..(leaves' - 1)
      <4>1. leaves' \in Nat /\ leaves <= leaves'
        BY <2>1
      <4> QED BY <3>2, <4>1, MoreTables
    <3> QED BY <3>3, <3>4
  <2>4. WalkTypes'
    <3>1. want' \in Object \cup {None}
      BY <2>1 DEF TInv, WalkTypes
    <3>2. UNCHANGED <<pc, cur, found, code, mid, leaf, n, slot, objs, bucket, drives, handle,
                      got, fails>>
      BY <2>1 DEF walk
    <3> QED BY <2>2, <2>3, <3>1, <3>2 DEF TInv, WalkTypes
  <2>5. WalkPlaces'
    BY <2>1 DEF TInv, WalkPlaces, walk
  <2> QED BY <2>1, <2>4, <2>5 DEF TInv
<1>2. CASE ListDrives \/ FromHandle \/ \E h \in Handle : CallWith(h)
  <2>1. \E from : HFM(from)
    BY <1>2
    DEF ListDrives, ReadHead, ReadProc, TableCode, ReadMid, ReadLeaf, ReadEntry, FindDirectory,
        ReadBucket, ReadDrive, ReadLink, FromHandle, LookupCode, LookupMid, LookupLeaf,
        LookupObject, CallDone, CallWith
  <2> QED BY <1>2, <2>1, GuestStays, ListType, LookupType DEF TInv
<1>3. CASE UNCHANGED vars
  BY <1>3
  DEF TInv, GuestTypes, InTables, WalkTypes, WalkPlaces, vars, procs, table, dir, walk, call
<1> QED BY <1>1, <1>2, <1>3 DEF Next

(***************************************************************************)
(* Whatever the guest changes between two reads, and whichever of them     *)
(* fail: the walk keeps to the buckets and to the tables of the level that *)
(* it has read, which is never more than there is.                         *)
(***************************************************************************)
THEOREM ObjectTypes == Spec => []TypeOK
<1>1. TInv => TypeOK
  BY TypeParts DEF TInv
<1> QED BY InitType, TypeStep, <1>1, PTL DEF Spec

-----------------------------------------------------------------------------
(* A handle leads to its object.                                             *)

\* While a handle that still stands for what it did is looked up, the tables that
\* have been read are those above its entry, and the code gives room for it: later
\* levels are put above the tables, and leave these where they are.
LookupOK ==
  want # None =>
    /\ pc \in {"lookup", "midOf", "leafOf", "object"} =>
         got = None /\ handle \in Index /\ entry[handle] = want
    /\ pc \in {"midOf", "leafOf", "object"} => handle < Room(code) * Low
    /\ pc = "midOf" => code = 2
    /\ pc = "leafOf" => code \in {1, 2} /\ mid = Above \div Mid
    /\ pc = "object" => leaf = Above

RInv == LookupOK /\ HandleResolved

\* An entry, its table, and the table above that.
LEMMA HandlePlace ==
  ASSUME TInv, handle \in Index, entry[handle] # None
  PROVE  /\ Above \in Nat /\ Slot \in 0..(Low - 1) /\ Above * Low + Slot = handle
         /\ Above < leaves /\ leaves \in Nat /\ leaves <= Room(level) /\ handle < Room(level) * Low
         /\ TopSlot \in Nat /\ Above % Mid \in 0..(Mid - 1) /\ TopSlot * Mid + (Above % Mid) = Above
         /\ \A m \in Nat : handle < m * Low => Above < m
         /\ \A m \in Nat : Above < m * Mid => TopSlot < m
<1>0. Low \in Nat \ {0} /\ Mid \in Nat \ {0} /\ handle \in Nat
  BY ObjectsAssumption DEF Index
<1>1. Above \in Nat /\ Slot \in 0..(Low - 1) /\ Above * Low + Slot = handle
      /\ \A m \in Nat : handle < m * Low => Above < m
  BY <1>0, PlaceOf DEF Above, Slot
<1>2. TopSlot \in Nat /\ Above % Mid \in 0..(Mid - 1) /\ TopSlot * Mid + (Above % Mid) = Above
      /\ \A m \in Nat : Above < m * Mid => TopSlot < m
  BY <1>0, <1>1, PlaceOf DEF TopSlot
<1>3. level \in 0..2 /\ leaves \in 1..Room(level) /\ Room(level) \in Nat
  BY RoomIs DEF TInv, GuestTypes
<1>4. leaves \in Nat /\ leaves <= Room(level)
  BY <1>3
<1>5. handle < leaves * Low
  BY DEF TInv, InTables
<1>6. Above < leaves
  BY <1>1, <1>4, <1>5
<1>7. leaves * Low <= Room(level) * Low
  BY <1>0, <1>3, <1>4
<1>8. handle < Room(level) * Low
  <2>1. leaves * Low \in Nat /\ Room(level) * Low \in Nat
    BY <1>0, <1>3, <1>4
  <2> QED BY <1>0, <1>5, <1>7, <2>1
<1> QED BY <1>1, <1>2, <1>4, <1>6, <1>8

LEMMA ResolvedInit == Init => RInv
  BY DEF Init, RInv, LookupOK, HandleResolved

\* A failed read leads to no object.
LEMMA FailedRead ==
  ASSUME WalkTypes, Fails, pc' = "answer", got' \in {None, Junk}
  PROVE  RInv'
<1>1. fails' > 0 /\ got' \notin Object
  BY ObjectsAssumption DEF WalkTypes, Fails
<1> QED BY <1>1 DEF RInv, LookupOK, HandleResolved

LEMMA ResolvedOther ==
  ASSUME TInv, RInv,
         Guest \/ ListDrives \/ (\E h \in Handle : CallWith(h)) \/ CallDone \/ UNCHANGED vars
  PROVE  RInv'
<1>1. CASE Guest
  <2>1. UNCHANGED <<pc, code, mid, leaf, handle, got, fails>>
        /\ (want' # None => want' = want /\ entry'[handle] = entry[handle])
    BY <1>1, GuestStep DEF walk
  <2>2. LookupOK'
    BY <2>1 DEF RInv, LookupOK, Above
  <2>3. None \notin Object
    BY ObjectsAssumption
  <2>4. HandleResolved'
    BY <2>1, <2>3 DEF RInv, HandleResolved
  <2> QED BY <2>2, <2>4 DEF RInv
<1>2. CASE ListDrives
  <2>1. pc' \notin {"lookup", "midOf", "leafOf", "object", "answer"}
    BY <1>2
    DEF ListDrives, ReadHead, ReadProc, TableCode, ReadMid, ReadLeaf, ReadEntry, FindDirectory,
        ReadBucket, ReadDrive, ReadLink, GoOnAt, HFM
  <2> QED BY <2>1 DEF RInv, LookupOK, HandleResolved
<1>3. ASSUME NEW h \in Handle, CallWith(h) PROVE RInv'
  <2>1. pc' = "lookup" /\ handle' = h /\ got' = None /\ UNCHANGED entry
        /\ want' = IF h \in Index THEN entry[h] ELSE None
    BY <1>3 DEF CallWith, HFM, table
  <2> QED BY <2>1 DEF RInv, LookupOK, HandleResolved
<1>4. CASE CallDone
  BY <1>4 DEF CallDone, RInv, LookupOK, HandleResolved
<1>5. CASE UNCHANGED vars
  BY <1>5 DEF RInv, LookupOK, HandleResolved, Above, vars, walk, call, table
<1> QED BY <1>1, <1>2, <1>3, <1>4, <1>5

\* Two steps that LookupMid and LookupLeaf have in common: what is read is the next
\* table above the entry, or the read fails.
LEMMA ResolvedRead ==
  ASSUME TInv, RInv, LookupMid \/ LookupLeaf, want # None
  PROVE  RInv'
<1>0. /\ WalkTypes /\ Low \in Nat \ {0} /\ Mid \in Nat \ {0} /\ None \notin Object \cup Nat
  BY ObjectsAssumption DEF TInv
<1>a. AnswerWith(None) => pc' = "answer" /\ got' \in {None, Junk}
  BY ObjectsAssumption DEF AnswerWith, Decoded
<1>b. pc \in {"midOf", "leafOf"} /\ UNCHANGED <<code, entry>>
  BY DEF LookupMid, LookupLeaf, HFM, table
<1>c. /\ got = None /\ handle \in Index /\ entry[handle] = want /\ handle < Room(code) * Low
      /\ pc = "midOf" => code = 2
      /\ pc = "leafOf" => code \in {1, 2} /\ mid = Above \div Mid
  BY <1>b DEF RInv, LookupOK
<1>d. /\ Above \in Nat /\ Above < leaves /\ leaves \in Nat
      /\ TopSlot \in Nat /\ Above % Mid \in 0..(Mid - 1) /\ TopSlot * Mid + (Above % Mid) = Above
      /\ \A m \in Nat : handle < m * Low => Above < m
      /\ \A m \in Nat : Above < m * Mid => TopSlot < m
  BY <1>c, HandlePlace
<1>1. CASE LookupMid
  <2>1. pc = "midOf" /\ code = 2
    BY <1>1, <1>c DEF LookupMid, HFM
  <2>2. Above < Mid * Mid
    BY <1>0, <1>c, <1>d, <2>1, RoomIs
  <2>3. ~PastEnd(TopSlot, Mid)
    BY <1>0, <1>d, <2>2 DEF PastEnd
  <2>4. MidAt(TopSlot) = TopSlot
    <3>1. TopSlot * Mid <= Above /\ TopSlot * Mid \in Nat
      BY <1>0, <1>d
    <3>2. TopSlot * Mid < leaves
      BY <1>d, <3>1
    <3> QED BY <3>2 DEF MidAt
  <2>5. \/ mid' = TopSlot /\ pc' = "leafOf" /\ UNCHANGED call
        \/ Fails /\ AnswerWith(None)
    BY <1>0, <1>1, <1>d, <2>3, <2>4 DEF LookupMid, ReadInto
  <2>6. CASE mid' = TopSlot /\ pc' = "leafOf" /\ UNCHANGED call
    BY <1>b, <1>c, <2>1, <2>6 DEF RInv, LookupOK, HandleResolved, call, Above, TopSlot
  <2> QED BY <1>0, <1>a, <2>5, <2>6, FailedRead
<1>2. CASE LookupLeaf
  <2>1. pc = "leafOf" /\ code \in {1, 2} /\ mid = TopSlot
    BY <1>2, <1>c DEF LookupLeaf, HFM, TopSlot
  <2>2. MidSlot \in Nat /\ ~PastEnd(MidSlot, Mid) /\ mid * Mid + MidSlot = Above
    <3>1. CASE code = 1
      <4>1. Above < Mid /\ MidSlot = Above
        BY <1>0, <1>c, <1>d, <3>1, RoomIs DEF MidSlot
      <4>2. TopSlot = 0
        BY <1>0, <1>d, <4>1
      <4> QED BY <1>0, <1>d, <2>1, <4>1, <4>2 DEF PastEnd
    <3>2. CASE code = 2
      <4>1. MidSlot = Above % Mid
        BY <3>2 DEF MidSlot
      <4> QED BY <1>0, <1>d, <2>1, <4>1 DEF PastEnd
    <3> QED BY <2>1, <3>1, <3>2
  <2>3. LeafAt(mid, MidSlot) = Above
    BY <1>d, <2>2 DEF LeafAt
  <2>4. \/ leaf' = Above /\ pc' = "object" /\ UNCHANGED call
        \/ Fails /\ AnswerWith(None)
    BY <1>0, <1>2, <1>d, <2>2, <2>3 DEF LookupLeaf, ReadInto
  <2>5. CASE leaf' = Above /\ pc' = "object" /\ UNCHANGED call
    BY <1>b, <1>c, <2>5 DEF RInv, LookupOK, HandleResolved, call, Above
  <2> QED BY <1>0, <1>a, <2>4, <2>5, FailedRead
<1> QED BY <1>1, <1>2

LEMMA ResolvedStep == TInv /\ RInv /\ [Next]_vars => RInv'
<1> SUFFICES ASSUME TInv, RInv, [Next]_vars PROVE RInv'
  OBVIOUS
<1>0. /\ WalkTypes /\ Low \in Nat \ {0} /\ Mid \in Nat \ {0} /\ None \notin Object \cup Nat
      /\ Junk \notin Object
  BY ObjectsAssumption DEF TInv
<1>1. CASE LookupCode
  <2>1. pc = "lookup" /\ UNCHANGED <<handle, got, want, entry>>
    BY <1>1 DEF LookupCode, HFM, call, table
  <2>2. CASE Fails /\ pc' = "answer"
    <3>1. want # None => got' \in {None, Junk}
      BY <2>1 DEF RInv, LookupOK
    <3>2. CASE want = None
      BY <1>0, <2>1, <2>2, <3>2 DEF RInv, LookupOK, HandleResolved
    <3> QED BY <1>0, <2>2, <3>1, <3>2, FailedRead
  <2>3. CASE /\ code' = level
             /\ pc' = CASE level = 0 -> "object" [] level = 1 -> "leafOf" [] OTHER -> "midOf"
             /\ leaf' = IF level = 0 THEN 0 ELSE None
             /\ mid' = IF level = 1 THEN 0 ELSE None
    <3>1. level \in 0..2
      BY DEF TInv, GuestTypes
    <3>2. \/ code' = 0 /\ pc' = "object" /\ leaf' = 0
          \/ code' = 1 /\ pc' = "leafOf" /\ mid' = 0
          \/ code' = 2 /\ pc' = "midOf"
      BY <2>3, <3>1
    <3>3. HandleResolved'
      BY <3>2 DEF HandleResolved
    <3>4. ASSUME want # None PROVE LookupOK'
      <4>1. got = None /\ handle \in Index /\ entry[handle] = want
        BY <2>1, <3>4 DEF RInv, LookupOK
      <4>2. handle < Room(code') * Low /\ Above \in Nat /\ TopSlot \in Nat
            /\ (\A m \in Nat : handle < m * Low => Above < m)
            /\ (\A m \in Nat : Above < m * Mid => TopSlot < m)
        BY <2>3, <3>4, <4>1, HandlePlace
      <4>3. code' = 0 => Above = 0
        BY <1>0, <4>2, RoomIs
      <4>4. code' = 1 => TopSlot = 0
        <5> SUFFICES ASSUME code' = 1 PROVE TopSlot = 0
          OBVIOUS
        <5>1. Above < Mid
          BY <1>0, <4>2, RoomIs
        <5> QED BY <1>0, <4>2, <5>1
      <4> QED BY <2>1, <3>2, <4>1, <4>2, <4>3, <4>4 DEF LookupOK, Above, TopSlot
    <3>5. want = None => LookupOK'
      BY <2>1 DEF LookupOK
    <3> QED BY <3>3, <3>4, <3>5 DEF RInv
  <2> QED BY <1>1, <2>2, <2>3 DEF LookupCode
<1>2. CASE (LookupMid \/ LookupLeaf) /\ want = None
  <2>1. want' = None
    BY <1>2 DEF LookupMid, LookupLeaf, AnswerWith, call
  <2> QED BY <1>0, <2>1 DEF RInv, LookupOK, HandleResolved
<1>3. CASE LookupObject
  <2>1. pc = "object" /\ want' = want /\ pc' = "answer"
    BY <1>3 DEF LookupObject, HFM, AnswerWith
  <2>2. LookupOK'
    BY <2>1 DEF LookupOK
  <2>3. ASSUME want \in Object \ Shifted
        PROVE  got' = want \/ (fails' > 0 /\ got' \notin Object)
    <3>1. /\ handle \in Index /\ entry[handle] = want /\ handle < Room(code) * Low
          /\ leaf = Above /\ want # None
      BY <1>0, <2>1, <2>3 DEF RInv, LookupOK
    <3>2. entry[leaf * Low + Slot] = want
      BY <3>1, HandlePlace
    <3>3. ~(code = 0 /\ PastEnd(handle, Low))
      BY <1>0, <3>1, RoomIs DEF PastEnd, Index
    <3>4. PICK o \in Object \cup {None, Junk} : AnswerWith(o) /\ ReadInto(o, None, want)
      BY <1>3, <3>2, <3>3 DEF LookupObject
    <3>5. CASE o = want
      BY <2>3, <3>4, <3>5 DEF AnswerWith, Decoded
    <3>6. CASE Fails /\ o = None
      <4>1. fails' > 0
        BY <1>0, <3>6, ObjectsAssumption DEF WalkTypes, Fails
      <4> QED BY <1>0, <3>4, <3>6, <4>1 DEF AnswerWith, Decoded
    <3> QED BY <3>4, <3>5, <3>6 DEF ReadInto
  <2>4. HandleResolved'
    BY <2>1, <2>3 DEF HandleResolved
  <2> QED BY <2>2, <2>4 DEF RInv
<1> QED
  BY <1>1, <1>2, <1>3, ResolvedOther, ResolvedRead DEF Next, FromHandle

(***************************************************************************)
(* For handle tables of every size and level, and whatever the guest does  *)
(* between the reads: a handle that stands for one object through the call *)
(* leads hfm_fileobj_from_handle to that object, or to none if a read      *)
(* fails.                                                                  *)
(***************************************************************************)
THEOREM AlwaysResolved == Spec => []HandleResolved
<1>1. RInv => HandleResolved
  BY DEF RInv
<1> QED BY InitType, TypeStep, ResolvedInit, ResolvedStep, <1>1, PTL DEF Spec

-----------------------------------------------------------------------------
(* System is found among the processes.                                      *)

\* Ranks in which the processes are linked: each to the one of the next rank.
Ranked(rank) ==
  /\ \A p, q \in alive : rank[p] = rank[q] => p = q
  /\ \A p \in alive : rank[System] <= rank[p]
  /\ \A p \in alive : flink[p] = "head" => \A q \in alive : rank[q] <= rank[p]
  /\ \A p \in alive : flink[p] # "head" =>
       /\ flink[p] \in alive /\ rank[p] < rank[flink[p]]
       /\ \A q \in alive : rank[q] <= rank[p] \/ rank[flink[p]] <= rank[q]

RingOK ==
  /\ flink["head"] = System /\ System \in alive /\ \E p \in alive : p # System
  /\ \E rank \in [Proc -> Nat] : Ranked(rank)

\* System has been listed, or is about to be.
SystemOK ==
  fails = 0 =>
    /\ pc = "boot" => cur = "head"
    /\ pc = "procs" => cur \in {"head", System} \/ found
    /\ pc \notin {"boot", "procs"} => found

PInv == RingOK /\ SystemOK

LEMMA ProcsInit == Init => PInv
<1> SUFFICES ASSUME Init PROVE PInv
  OBVIOUS
<1>1. PICK p \in Proc \ {System} :
        /\ alive = {System, p}
        /\ flink = [q \in Proc \cup {"head"} |->
                      CASE q = "head" -> System [] q = System -> p [] OTHER -> "head"]
  BY DEF Init
<1>2. "head" \notin Proc /\ System \in Proc
  BY ObjectsAssumption
<1>3. flink["head"] = System /\ flink[System] = p /\ flink[p] = "head"
  BY <1>1, <1>2
<1> DEFINE rank == [q \in Proc |-> IF q = System THEN 0 ELSE 1]
<1>4. rank \in [Proc -> Nat] /\ rank[System] = 0 /\ rank[p] = 1
  BY <1>2
<1> HIDE DEF rank
<1>5. Ranked(rank)
  BY <1>1, <1>2, <1>3, <1>4 DEF Ranked
<1>6. RingOK
  BY <1>1, <1>3, <1>4, <1>5 DEF RingOK
<1>7. SystemOK
  BY DEF Init, SystemOK
<1> QED BY <1>6, <1>7 DEF PInv

\* A process that ends is not System, and leaves another one behind.
LEMMA RingExit ==
  ASSUME TInv, RingOK, NEW p \in Proc, ProcExit(p)
  PROVE  RingOK'
<1>1. PICK q \in alive : flink[q] = p /\ flink' = [flink EXCEPT ![q] = flink[p]]
  BY DEF ProcExit
<1>2. p \in alive /\ p # System /\ alive # {System, p} /\ alive' = alive \ {p}
  BY DEF ProcExit
<1>3. PICK rank \in [Proc -> Nat] : Ranked(rank)
  BY DEF RingOK
<1>4. /\ alive \subseteq Proc /\ flink \in [Proc \cup {"head"} -> Proc \cup {"head"}]
      /\ "head" \notin Proc
  BY ObjectsAssumption DEF TInv, GuestTypes
<1>5. flink'[q] = flink[p] /\ \A r \in (Proc \cup {"head"}) \ {q} : flink'[r] = flink[r]
  BY <1>1, <1>4
<1>6. \A r \in alive : rank[r] \in Nat
  BY <1>3, <1>4
<1>7. q # p /\ rank[q] < rank[p]
  BY <1>1, <1>2, <1>3, <1>4, <1>6 DEF Ranked
<1>8. \A r \in alive : flink[r] = p => r = q
  <2> SUFFICES ASSUME NEW r \in alive, flink[r] = p PROVE rank[r] = rank[q]
    BY <1>3 DEF Ranked
  <2>1. rank[r] < rank[p] /\ rank[r] \in Nat /\ rank[q] \in Nat /\ rank[p] \in Nat
    BY <1>2, <1>3, <1>4, <1>6 DEF Ranked
  <2>2. rank[q] <= rank[r] \/ rank[p] <= rank[q]
    BY <1>2, <1>3, <1>4 DEF Ranked
  <2>3. rank[r] <= rank[q] \/ rank[p] <= rank[r]
    BY <1>1, <1>2, <1>3, <1>4 DEF Ranked
  <2> QED BY <1>7, <2>1, <2>2, <2>3
<1>9. \A x \in alive' : rank[x] <= rank[q] \/ rank[p] < rank[x]
  <2> SUFFICES ASSUME NEW x \in alive, x # p, ~(rank[x] <= rank[q]) PROVE rank[p] < rank[x]
    BY <1>2
  <2>1. rank[p] <= rank[x] /\ rank[p] # rank[x]
    BY <1>1, <1>2, <1>3, <1>4 DEF Ranked
  <2> QED BY <1>2, <1>6, <2>1
<1>10. Ranked(rank)'
  <2>1. \A x, y \in alive' : rank[x] = rank[y] => x = y
    BY <1>2, <1>3 DEF Ranked
  <2>2. \A x \in alive' : rank[System] <= rank[x]
    BY <1>2, <1>3 DEF Ranked
  <2>3. ASSUME NEW x \in alive', flink'[x] = "head", NEW y \in alive' PROVE rank[y] <= rank[x]
    <3>1. CASE x = q
      <4>1. rank[y] <= rank[p]
        BY <1>2, <1>3, <1>5, <2>3, <3>1 DEF Ranked
      <4> QED BY <1>2, <1>6, <1>9, <2>3, <3>1, <4>1
    <3>2. CASE x # q
      BY <1>2, <1>3, <1>4, <1>5, <2>3, <3>2 DEF Ranked
    <3> QED BY <3>1, <3>2
  <2>4. ASSUME NEW x \in alive', flink'[x] # "head"
        PROVE  /\ flink'[x] \in alive' /\ rank[x] < rank[flink'[x]]
               /\ \A y \in alive' : rank[y] <= rank[x] \/ rank[flink'[x]] <= rank[y]
    <3>1. CASE x = q
      <4>1. /\ flink[p] \in alive /\ rank[p] < rank[flink[p]]
            /\ \A y \in alive : rank[y] <= rank[p] \/ rank[flink[p]] <= rank[y]
        BY <1>2, <1>3, <1>5, <2>4, <3>1 DEF Ranked
      <4>2. flink[p] # p /\ rank[q] < rank[flink[p]]
        BY <1>2, <1>6, <1>7, <4>1
      <4>3. ASSUME NEW y \in alive' PROVE rank[y] <= rank[q] \/ rank[flink[p]] <= rank[y]
        BY <1>2, <1>6, <1>9, <4>1, <4>3
      <4> QED BY <1>2, <1>5, <3>1, <4>1, <4>2, <4>3
    <3>2. CASE x # q
      <4>1. flink'[x] = flink[x] /\ flink[x] # p /\ x \in alive
        BY <1>2, <1>4, <1>5, <1>8, <2>4, <3>2
      <4> QED BY <1>2, <1>3, <2>4, <4>1 DEF Ranked
    <3> QED BY <3>1, <3>2
  <2> QED BY <2>1, <2>2, <2>3, <2>4 DEF Ranked
<1>11. flink'["head"] = System /\ System \in alive' /\ \E x \in alive' : x # System
  BY <1>1, <1>2, <1>4, <1>5 DEF RingOK
<1> QED BY <1>3, <1>10, <1>11 DEF RingOK

LEMMA RingStep == TInv /\ RingOK /\ [Next]_vars => RingOK'
<1> SUFFICES ASSUME TInv, RingOK, [Next]_vars PROVE RingOK'
  OBVIOUS
<1>1. CASE UNCHANGED procs
  BY <1>1 DEF RingOK, Ranked, procs
<1>2. ASSUME NEW p \in Proc, ProcCreate(p) PROVE RingOK'
  <2>1. PICK tail \in alive : flink[tail] = "head" /\ flink' = [flink EXCEPT ![tail] = p, ![p] = "head"]
    BY <1>2 DEF ProcCreate
  <2>2. p \in Proc \ alive /\ alive' = alive \cup {p}
    BY <1>2 DEF ProcCreate
  <2>3. PICK rank \in [Proc -> Nat] : Ranked(rank)
    BY DEF RingOK
  <2>4. /\ alive \subseteq Proc /\ flink \in [Proc \cup {"head"} -> Proc \cup {"head"}]
        /\ "head" \notin Proc
    BY ObjectsAssumption DEF TInv, GuestTypes
  <2>5. /\ flink'[tail] = p /\ flink'[p] = "head" /\ tail # p
        /\ \A r \in alive \cup {"head"} : r # tail => flink'[r] = flink[r]
    BY <2>1, <2>2, <2>4
  <2>6. \A r \in alive : rank[r] \in Nat /\ rank[r] <= rank[tail]
    BY <2>1, <2>3, <2>4 DEF Ranked
  <2> DEFINE after == [rank EXCEPT ![p] = rank[tail] + 1]
  <2>7. after \in [Proc -> Nat] /\ after[p] = rank[tail] + 1 /\ \A r \in alive : after[r] = rank[r]
    BY <2>2, <2>3, <2>4, <2>6
  <2> HIDE DEF after
  <2>8. Ranked(after)'
    <3>1. \A x, y \in alive' : after[x] = after[y] => x = y
      BY <2>2, <2>3, <2>6, <2>7 DEF Ranked
    <3>2. \A x \in alive' : after[System] <= after[x]
      BY <2>2, <2>3, <2>6, <2>7 DEF Ranked, RingOK
    <3>3. \A x \in alive' : flink'[x] = "head" => \A y \in alive' : after[y] <= after[x]
      <4>1. \A x \in alive' : flink'[x] = "head" => x = p
        <5> SUFFICES ASSUME NEW x \in alive, x # tail, flink[x] = "head" PROVE FALSE
          BY <2>2, <2>4, <2>5
        <5> QED BY <2>3, <2>6 DEF Ranked
      <4> QED BY <2>1, <2>2, <2>6, <2>7, <4>1
    <3>4. ASSUME NEW x \in alive', flink'[x] # "head"
          PROVE  /\ flink'[x] \in alive' /\ after[x] < after[flink'[x]]
                 /\ \A y \in alive' : after[y] <= after[x] \/ after[flink'[x]] <= after[y]
      <4>1. x \in alive
        BY <2>2, <2>5, <3>4
      <4>2. CASE x = tail
        <5>1. flink'[x] = p /\ p \in alive'
          BY <2>2, <2>5, <4>2
        <5>2. after[x] = rank[tail] /\ after[p] = rank[tail] + 1 /\ rank[tail] \in Nat
          BY <2>1, <2>6, <2>7, <4>2
        <5>3. \A y \in alive' : y = p \/ after[y] <= rank[tail]
          BY <2>2, <2>6, <2>7
        <5>4. \A y \in alive' : after[y] <= after[x] \/ after[p] <= after[y]
          BY <5>2, <5>3
        <5> QED BY <5>1, <5>2, <5>4
      <4>3. CASE x # tail
        <5>1. flink'[x] = flink[x] /\ flink[x] \in alive
          BY <2>3, <2>5, <3>4, <4>1, <4>3 DEF Ranked
        <5>2. rank[x] < rank[flink[x]] /\ \A y \in alive : rank[y] <= rank[x] \/ rank[flink[x]] <= rank[y]
          BY <2>3, <4>1, <3>4, <5>1 DEF Ranked
        <5>3. after[x] = rank[x] /\ after[flink[x]] = rank[flink[x]] /\ flink[x] \in alive'
          BY <2>2, <2>7, <4>1, <5>1
        <5>4. rank[flink[x]] <= after[p]
          <6>1. rank[flink[x]] <= rank[tail] /\ rank[flink[x]] \in Nat /\ rank[tail] \in Nat
            BY <2>1, <2>6, <5>1
          <6> QED BY <2>7, <6>1
        <5>5. \A y \in alive' : after[y] <= rank[x] \/ rank[flink[x]] <= after[y]
          BY <2>2, <2>7, <5>2, <5>4
        <5> QED BY <5>1, <5>2, <5>3, <5>5
      <4> QED BY <4>2, <4>3
    <3> QED BY <3>1, <3>2, <3>3, <3>4 DEF Ranked
  <2>9. flink'["head"] = System /\ System \in alive' /\ \E x \in alive' : x # System
    BY <2>1, <2>2, <2>4, <2>5 DEF RingOK
  <2> QED BY <2>7, <2>8, <2>9 DEF RingOK
<1>3. \A p \in Proc : ProcExit(p) => RingOK'
  BY RingExit
<1>4. ASSUME Guest, ~\E p \in Proc : ProcCreate(p) \/ ProcExit(p) PROVE UNCHANGED procs
  BY <1>4 DEF Guest, Close, Open, SetEntry, Grow, DirInsert, DirRemove
<1>5. ListDrives \/ FromHandle \/ (\E h \in Handle : CallWith(h)) \/ UNCHANGED vars => UNCHANGED procs
  BY DEF ListDrives, ReadHead, ReadProc, TableCode, ReadMid, ReadLeaf, ReadEntry, FindDirectory,
         ReadBucket, ReadDrive, ReadLink, FromHandle, LookupCode, LookupMid, LookupLeaf,
         LookupObject, CallDone, CallWith, HFM, vars
<1> QED BY <1>1, <1>2, <1>3, <1>4, <1>5 DEF Next

\* A failed read is counted.
LEMMA NoFailure ==
  ASSUME TInv, fails' = 0
  PROVE  /\ ~Fails
         /\ Succeeds => fails = 0
         /\ \A x, old, value : ReadInto(x, old, value) => x = value /\ fails = 0
<1>1. fails \in Nat
  BY ObjectsAssumption DEF TInv, WalkTypes
<1>2. ~Fails /\ (Succeeds => fails = 0)
  BY <1>1 DEF Fails, Succeeds
<1> QED BY <1>2 DEF ReadInto

\* The steps of HFM, but for those that read the processes, the table or the directory.
LEMMA OtherSteps ==
  ASSUME FromHandle \/ (\E h \in Handle : CallWith(h)) \/ UNCHANGED vars
  PROVE  /\ UNCHANGED <<procs, table, dir, found, objs, bucket, drives>>
         /\ \/ pc' = pc /\ UNCHANGED walk /\ fails' = fails
            \/ /\ pc \in {"idle", "lookup", "midOf", "leafOf", "object", "answer"}
               /\ pc' \in {"idle", "lookup", "midOf", "leafOf", "object", "answer"}
               /\ fails' = fails \/ Fails
BY DEF FromHandle, LookupCode, LookupMid, LookupLeaf, LookupObject, CallDone, CallWith, HFM,
       AnswerWith, Succeeds, ReadInto, vars, walk

LEMMA SystemStep == TInv /\ PInv /\ [Next]_vars => SystemOK'
<1> SUFFICES ASSUME TInv, PInv, [Next]_vars, fails' = 0
             PROVE  /\ pc' = "boot" => cur' = "head"
                    /\ pc' = "procs" => cur' \in {"head", System} \/ found'
                    /\ pc' \notin {"boot", "procs"} => found'
  BY DEF SystemOK
<1>1. CASE Guest
  <2>1. UNCHANGED <<pc, walk, fails>>
    BY <1>1, GuestStep
  <2> QED BY <2>1 DEF PInv, SystemOK, walk
<1>2. CASE FromHandle \/ (\E h \in Handle : CallWith(h)) \/ UNCHANGED vars
  <2>1. fails = 0
    BY <1>2, OtherSteps, NoFailure
  <2> QED BY <1>2, <2>1, OtherSteps DEF PInv, SystemOK, walk
<1>3. CASE ReadHead
  <2>1. pc = "boot" /\ pc' = "procs" /\ cur' = cur /\ fails = 0
    BY <1>3, NoFailure DEF ReadHead, HFM, walk
  <2> QED BY <2>1 DEF PInv, SystemOK
<1>4. CASE ReadProc
  <2>1. pc = "procs" /\ fails = 0 /\ Succeeds
    BY <1>4, NoFailure DEF ReadProc, HFM
  <2>2. cur \in {"head", System} => flink[cur] # "head"
    <3>1. PICK rank \in [Proc -> Nat] : Ranked(rank)
      BY DEF PInv, RingOK
    <3>2. PICK p \in alive : p # System
      BY DEF PInv, RingOK
    <3>3. alive \subseteq Proc /\ System \in alive /\ flink["head"] = System /\ "head" \notin Proc
      BY ObjectsAssumption DEF TInv, GuestTypes, PInv, RingOK
    <3>4. rank[System] <= rank[p] /\ rank[System] # rank[p] /\ rank[System] \in Nat /\ rank[p] \in Nat
      BY <3>1, <3>2, <3>3 DEF Ranked
    <3>5. ~(rank[p] <= rank[System])
      BY <3>4
    <3>6. flink[System] # "head"
      BY <3>1, <3>2, <3>3, <3>5 DEF Ranked
    <3> QED BY <3>3, <3>6
  <2>3. cur \in {"head", System} \/ found
    BY <2>1 DEF PInv, SystemOK
  <2>4. CASE flink[cur] # "head" /\ cur' = flink[cur] /\ pc' = pc /\ found' = (found \/ cur = System)
    BY <2>1, <2>3, <2>4 DEF PInv, RingOK
  <2>5. CASE flink[cur] = "head" /\ pc' = "code" /\ UNCHANGED <<cur, found>>
    BY <2>2, <2>3, <2>5
  <2> QED BY <1>4, <2>1, <2>4, <2>5, NoFailure DEF ReadProc
<1>5. CASE TableCode \/ ReadMid \/ ReadLeaf \/ ReadEntry \/ FindDirectory \/ ReadBucket \/ ReadDrive
             \/ ReadLink
  <2>1. fails = 0 /\ found' = found /\ pc \notin {"boot", "procs"} /\ pc' \notin {"boot", "procs"}
    BY <1>5, NoFailure
    DEF TableCode, ReadMid, ReadLeaf, ReadEntry, FindDirectory, ReadBucket, ReadDrive, ReadLink,
        HFM, GoOnAt, walk
  <2> QED BY <2>1 DEF PInv, SystemOK
<1> QED BY <1>1, <1>2, <1>3, <1>4, <1>5 DEF Next, ListDrives

LEMMA ProcsStep == TInv /\ PInv /\ [Next]_vars => PInv'
  BY RingStep, SystemStep DEF PInv

-----------------------------------------------------------------------------
(* GLOBAL?? is found among the objects of the table.                         *)

\* The next table is under the same pointer, as long as that has one.
LEMMA SamePointer ==
  ASSUME NEW a \in Nat, NEW size \in Nat \ {0}, (a + 1) % size # 0
  PROVE  (a + 1) \div size = a \div size
<1> DEFINE q == a \div size
           r == a % size
           p == (a + 1) \div size
           s == (a + 1) % size
<1>1. q \in Nat /\ r \in 0..(size - 1) /\ a = q * size + r
  BY PlaceOf
<1>2. p \in Nat /\ s \in 0..(size - 1) /\ a + 1 = p * size + s /\ s # 0
  BY PlaceOf
<1> HIDE DEF p, q, r, s
<1> DEFINE d == p - q
<1>3. d \in Int /\ d * size = r + 1 - s
  BY <1>1, <1>2
<1> HIDE DEF d
<1>4. ~(d >= 1) /\ ~(d <= -1)
  BY <1>1, <1>2, <1>3
<1>5. d = 0
  BY <1>3, <1>4
<1> QED BY <1>1, <1>2, <1>5 DEF d, p, q

\* A number below the size is not divisible by it.
LEMMA Below ==
  ASSUME NEW a \in Nat \ {0}, NEW size \in Nat \ {0}, a < size
  PROVE  a % size # 0
<1> DEFINE q == a \div size
           r == a % size
<1>1. q \in Nat /\ r \in Nat /\ a = q * size + r
  BY PlaceOf
<1> HIDE DEF q, r
<1>2. q * size >= size \/ q = 0
  BY <1>1
<1>3. r # 0
  BY <1>1, <1>2
<1> QED BY <1>3 DEF r

InTable == {"mid", "leaf", "entries"}

\* How much of the table has been read.
Place == n * Low + slot

\* The handle h of System for GLOBAL?? is in the part of the table that is read, and
\* has been read if the loops are past it.
DirAt(h) ==
  /\ entry[h] = Dir
  /\ pc \in InTable => h < Room(code) * Low /\ (h < Place => Dir \in objs)

TableOK ==
  fails = 0 =>
    /\ \E h \in Index : DirAt(h)
    /\ pc \in {"boot", "procs", "code", "mid", "leaf"} => slot = 0
    /\ pc \in {"leaf", "entries"} /\ code # 0 => mid = n \div Mid
    /\ pc = "entries" => leaf = n
    /\ pc \notin {"boot", "procs", "code"} \cup InTable => Dir \in objs

LEMMA TableInit == Init => TableOK
<1> SUFFICES ASSUME Init PROVE TableOK
  OBVIOUS
<1>1. PICK tab \in Tables : level = tab.level /\ leaves = tab.leaves /\ entry = tab.entry
  BY DEF Init
<1>2. \E i \in 0..(leaves * Low - 1) : entry[i] = Dir
  BY <1>1, ObjectsAssumption
<1>3. level \in 0..2 /\ leaves \in 1..Room(level) /\ Low \in Nat \ {0}
  BY <1>1, ObjectsAssumption
<1>4. 0..(leaves * Low - 1) \subseteq Index
  <2>1. Room(level) \in Nat /\ Room(level) <= Mid * Mid /\ Mid * Mid \in Nat
    BY <1>3, RoomIs, Square, ObjectsAssumption
  <2>2. leaves \in Nat /\ leaves <= Mid * Mid
    BY <1>3, <2>1
  <2>3. leaves * Low <= (Mid * Mid) * Low /\ leaves * Low \in Nat /\ (Mid * Mid) * Low \in Nat
    BY <1>3, <2>1, <2>2
  <2>4. (Mid * Mid) * Low = Low * Mid * Mid
    BY <1>3, ObjectsAssumption
  <2> QED BY <2>3, <2>4 DEF Index
<1>5. pc = "boot" /\ slot = 0
  BY DEF Init
<1> QED BY <1>2, <1>4, <1>5 DEF TableOK, DirAt, InTable

\* The loops go on with the next table, or are done with all of them.
LEMMA GoOnTable ==
  ASSUME TInv, NEW m \in Nat \ {0}, GoOnAt(m), UNCHANGED <<code, entry>>, NEW h \in Index,
         entry[h] = Dir, h < Room(code) * Low, h < m * Low => Dir \in objs',
         pc' = "leaf" => mid' = m \div Mid
  PROVE  TableOK'
<1>1. code \in 0..2 /\ Room(code) \in Nat /\ Low \in Nat \ {0} /\ h \in Nat
  BY RoomIs, ObjectsAssumption DEF TInv, WalkTypes, Index
<1>2. n' = m /\ slot' = 0 /\ pc' \in {"dir", "mid", "leaf"}
  BY <1>1, GoOnType
<1>3. CASE pc' = "dir"
  <2>1. m >= Room(code)
    BY <1>3 DEF GoOnAt
  <2>2. Room(code) * Low <= m * Low /\ Room(code) * Low \in Nat /\ m * Low \in Nat
    BY <1>1, <2>1
  <2>3. Dir \in objs'
    BY <1>1, <2>2
  <2> QED BY <1>3, <2>3 DEF TableOK, DirAt, InTable
<1>4. CASE pc' \in {"mid", "leaf"}
  <2>1. Place' = m * Low
    BY <1>1, <1>2 DEF Place
  <2> QED BY <1>2, <1>4, <2>1 DEF TableOK, DirAt, InTable
<1> QED BY <1>2, <1>3, <1>4

\* Where there is no table any more, there is no handle of System's.
LEMMA PastTables ==
  ASSUME TInv, NEW h \in Index, entry[h] = Dir, NEW m \in Nat, m >= leaves
  PROVE  h < m * Low
<1>1. leaves \in Nat /\ Low \in Nat /\ h \in Nat
  <2>1. level \in 0..2 /\ leaves \in 1..Room(level) /\ Room(level) \in Nat
    BY RoomIs DEF TInv, GuestTypes
  <2> QED BY <2>1, ObjectsAssumption DEF Index
<1>2. h < leaves * Low
  BY ObjectsAssumption DEF TInv, InTables
<1>3. leaves * Low <= m * Low /\ leaves * Low \in Nat /\ m * Low \in Nat
  BY <1>1
<1> QED BY <1>1, <1>2, <1>3

LEMMA TableRead ==
  ASSUME TInv, PInv, TableOK, fails' = 0,
         TableCode \/ ReadMid \/ ReadLeaf \/ ReadEntry \/ FindDirectory
  PROVE  TableOK'
<1>0. /\ code \in 0..2 /\ n \in Nat /\ slot \in 0..(Low - 1) /\ level \in 0..2 /\ objs \subseteq Object
      /\ Low \in Nat \ {0} /\ Mid \in Nat \ {0} /\ None \notin Object \cup Nat /\ Dir \in Object
  BY ObjectsAssumption DEF TInv, GuestTypes, WalkTypes
<1>1. leaves \in Nat /\ leaves <= Room(level) /\ \A l \in 0..2 : Room(l) \in Nat
  <2>1. leaves \in 1..Room(level) /\ \A l \in 0..2 : Room(l) \in Nat
    BY RoomIs DEF TInv, GuestTypes
  <2> QED BY <1>0, <2>1
<1>2. fails = 0 /\ UNCHANGED <<level, leaves, entry>>
  BY NoFailure DEF TableCode, ReadMid, ReadLeaf, ReadEntry, FindDirectory, HFM, table
<1>3. PICK h \in Index : DirAt(h)
  BY <1>2 DEF TableOK
<1>4. entry[h] = Dir /\ h \in Nat /\ n * Low \in Nat
  BY <1>0, <1>3 DEF DirAt, Index
<1>5. CASE TableCode
  <2>1. pc = "code" /\ found /\ n = 0 /\ slot = 0 /\ UNCHANGED <<n, slot, objs>>
    BY <1>2, <1>5 DEF TableCode, HFM, PInv, SystemOK, TInv, WalkPlaces, TableOK
  <2>2. /\ code' = level
        /\ \/ level = 0 /\ pc' = "entries" /\ leaf' = 0
           \/ level = 1 /\ pc' = "leaf" /\ mid' = 0
           \/ level = 2 /\ pc' = "mid"
    <3>1. /\ code' = level
          /\ pc' = CASE level = 0 -> "entries" [] level = 1 -> "leaf" [] OTHER -> "mid"
          /\ leaf' = IF level = 0 THEN 0 ELSE None
          /\ mid' = IF level = 1 THEN 0 ELSE None
      BY <1>5, <2>1, NoFailure DEF TableCode
    <3> QED BY <1>0, <3>1
  <2>3. h < Room(code') * Low
    BY <1>0, <1>1, <1>4, <2>2, PastTables
  <2>4. Place' = 0 /\ 0 \div Mid = 0
    BY <1>0, <2>1 DEF Place
  <2>5. DirAt(h)'
    BY <1>2, <1>4, <2>3, <2>4 DEF DirAt
  <2> QED BY <2>1, <2>2, <2>4, <2>5 DEF TableOK, InTable
<1>6. CASE ReadMid
  <2>1. /\ pc = "mid" /\ code = 2 /\ n % Mid = 0 /\ slot = 0 /\ mid' = MidAt(n \div Mid)
        /\ UNCHANGED <<code, objs>>
    BY <1>2, <1>6, NoFailure DEF ReadMid, HFM, TInv, WalkPlaces, TableOK
  <2>2. (n \div Mid) * Mid = n /\ n \div Mid \in Nat
    BY <1>0, <2>1, PlaceOf
  <2>3. h < Room(code) * Low /\ (h < n * Low => Dir \in objs)
    BY <1>0, <1>3, <1>4, <2>1 DEF DirAt, InTable, Place
  <2>4. CASE n < leaves
    <3>1. mid' = n \div Mid /\ mid' # None
      BY <1>0, <2>1, <2>2, <2>4 DEF MidAt
    <3>2. pc' = "leaf" /\ UNCHANGED <<n, slot>>
      BY <1>6, <3>1 DEF ReadMid
    <3>3. DirAt(h)'
      BY <1>0, <1>2, <1>4, <2>1, <2>3, <3>2 DEF DirAt, Place
    <3> QED BY <2>1, <3>1, <3>2, <3>3 DEF TableOK, InTable
  <2>5. CASE ~(n < leaves)
    <3>1. mid' = None
      BY <1>0, <1>1, <2>1, <2>2, <2>5 DEF MidAt
    <3>2. GoOnAt(n + Mid) /\ n + Mid \in Nat \ {0} /\ (n + Mid) % Mid = 0
      <4>1. GoOnAt(n + Mid)
        BY <1>6, <3>1 DEF ReadMid
      <4>2. n + Mid \in Nat \ {0}
        BY <1>0
      <4>3. (n + Mid) % Mid = 0
        BY <1>0, <2>1, NextTable
      <4> QED BY <4>1, <4>2, <4>3
    <3>3. pc' # "leaf"
      BY <1>0, <2>1, <3>2, GoOnType
    <3>4. Dir \in objs
      BY <1>0, <1>1, <1>4, <2>3, <2>5, PastTables
    <3> QED BY <1>2, <1>4, <2>1, <2>3, <3>2, <3>3, <3>4, GoOnTable
  <2> QED BY <2>4, <2>5
<1>7. ASSUME pc \in {"leaf", "entries"}, UNCHANGED <<code, mid>>, GoOnAt(n + 1),
             h < (n + 1) * Low => Dir \in objs'
      PROVE  TableOK'
  <2>1. n + 1 \in Nat \ {0} /\ h < Room(code) * Low
    BY <1>0, <1>3, <1>7 DEF DirAt, InTable
  <2>2. ASSUME pc' = "leaf" PROVE mid' = (n + 1) \div Mid
    <3>1. code # 0 /\ ~(code = 2 /\ (n + 1) % Mid = 0)
      BY <1>0, <1>7, <2>1, <2>2, GoOnType
    <3>2. ~(n + 1 >= Room(code))
      BY <1>7, <2>2 DEF GoOnAt
    <3>3. (n + 1) % Mid # 0
      <4>1. CASE code = 1
        BY <1>0, <2>1, <3>2, <4>1, RoomIs, Below
      <4> QED BY <1>0, <3>1, <4>1
    <3>4. mid = n \div Mid
      BY <1>2, <1>7, <3>1 DEF TableOK
    <3> QED BY <1>0, <1>7, <3>3, <3>4, SamePointer
  <2> QED BY <1>2, <1>4, <1>7, <2>1, <2>2, GoOnTable
<1>8. CASE ReadLeaf
  <2>1. /\ pc = "leaf" /\ code # 0 /\ slot = 0 /\ leaf' = LeafAt(mid, n % Mid) /\ mid = n \div Mid
        /\ UNCHANGED <<code, mid, objs>>
    BY <1>2, <1>8, NoFailure DEF ReadLeaf, HFM, TInv, WalkPlaces, TableOK
  <2>2. leaf' = IF n < leaves THEN n ELSE None
    <3>1. n = (n \div Mid) * Mid + (n % Mid)
      BY <1>0, PlaceOf
    <3> QED BY <2>1, <3>1 DEF LeafAt
  <2>3. h < Room(code) * Low /\ (h < n * Low => Dir \in objs)
    BY <1>0, <1>3, <1>4, <2>1 DEF DirAt, InTable, Place
  <2>4. CASE n < leaves
    <3>1. leaf' = n /\ leaf' # None
      BY <1>0, <2>2, <2>4
    <3>2. pc' = "entries" /\ UNCHANGED <<n, slot>>
      BY <1>8, <3>1 DEF ReadLeaf
    <3>3. DirAt(h)'
      BY <1>0, <1>2, <1>4, <2>1, <2>3, <3>2 DEF DirAt, Place
    <3> QED BY <2>1, <3>1, <3>2, <3>3 DEF TableOK, InTable
  <2>5. CASE ~(n < leaves)
    <3>1. leaf' = None
      BY <2>2, <2>5
    <3>2. GoOnAt(n + 1)
      BY <1>8, <3>1 DEF ReadLeaf
    <3>3. Dir \in objs
      BY <1>0, <1>1, <1>4, <2>3, <2>5, PastTables
    <3> QED BY <1>7, <2>1, <3>2, <3>3
  <2> QED BY <2>4, <2>5
<1>9. CASE ReadEntry
  <2>1. pc = "entries" /\ leaf = n /\ UNCHANGED <<code, mid, leaf>>
    BY <1>2, <1>9 DEF ReadEntry, HFM, TableOK
  <2>2. objs' = objs \cup ({entry[Place]} \ {None})
    BY <1>9, <2>1, NoFailure DEF ReadEntry, Place
  <2>3. Place \in Nat /\ h < Room(code) * Low /\ (h < Place => Dir \in objs)
    BY <1>0, <1>3, <1>4, <2>1 DEF DirAt, InTable, Place
  <2>4. h < Place + 1 => Dir \in objs'
    <3>1. h < Place + 1 => h < Place \/ h = Place
      BY <1>4, <2>3
    <3>2. h = Place => Dir \in objs'
      BY <1>0, <1>4, <2>2
    <3> QED BY <2>2, <2>3, <3>1, <3>2
  <2>5. CASE slot + 1 < Low
    <3>1. slot' = slot + 1 /\ UNCHANGED <<pc, n>>
      BY <1>9, <2>5 DEF ReadEntry
    <3>2. Place' = Place + 1
      BY <1>0, <1>4, <3>1 DEF Place
    <3>3. DirAt(h)'
      BY <1>2, <1>4, <2>1, <2>3, <2>4, <3>2 DEF DirAt
    <3> QED BY <1>2, <2>1, <3>1, <3>3 DEF TableOK, InTable
  <2>6. CASE ~(slot + 1 < Low)
    <3>1. GoOnAt(n + 1)
      BY <1>9, <2>6 DEF ReadEntry
    <3>2. (n + 1) * Low = Place + 1
      <4>1. slot = Low - 1
        BY <1>0, <2>6
      <4>2. (n + 1) * Low = n * Low + Low
        BY <1>0
      <4> QED BY <1>0, <1>4, <4>1, <4>2 DEF Place
    <3> QED BY <1>7, <2>1, <2>4, <3>1, <3>2
  <2> QED BY <2>5, <2>6
<1>10. CASE FindDirectory
  <2>1. pc = "dir" /\ UNCHANGED <<objs, slot>>
    BY <1>10 DEF FindDirectory, HFM, walk
  <2>2. Dir \in objs
    BY <1>2, <2>1 DEF TableOK, InTable
  <2>3. pc' = "bucket"
    BY <1>10, <2>2, NoFailure DEF FindDirectory
  <2> QED BY <1>2, <1>4, <2>1, <2>2, <2>3 DEF TableOK, DirAt, InTable
<1> QED BY <1>5, <1>6, <1>8, <1>9, <1>10

LEMMA TableStep == TInv /\ PInv /\ TableOK /\ [Next]_vars => TableOK'
<1> SUFFICES ASSUME TInv, PInv, TableOK, [Next]_vars, fails' = 0 PROVE TableOK'
  BY DEF TableOK
<1>1. CASE Guest
  <2>1. UNCHANGED <<pc, code, mid, leaf, n, slot, objs, fails>>
    BY <1>1, GuestStep DEF walk
  <2>2. \A h \in Index : entry[h] = Dir => entry'[h] = Dir
    <3>1. ASSUME NEW i \in Index, Close(i) \/ \E o \in Object \ {Dir} : Open(i, o)
          PROVE  \A h \in Index : entry[h] = Dir => entry'[h] = Dir
      <4>1. entry[i] # Dir
        BY <3>1, ObjectsAssumption DEF Close, Open
      <4>2. PICK o : entry' = [entry EXCEPT ![i] = o]
        BY <3>1 DEF Close, Open, SetEntry
      <4> QED BY <4>1, <4>2 DEF TInv, GuestTypes
    <3>2. (\E i \in Index : Close(i) \/ \E o \in Object \ {Dir} : Open(i, o)) \/ UNCHANGED entry
      BY <1>1 DEF Guest, ProcCreate, ProcExit, Grow, DirInsert, DirRemove, table
    <3> QED BY <3>1, <3>2
  <2> QED BY <2>1, <2>2 DEF TableOK, DirAt, Place
<1>2. CASE FromHandle \/ (\E h \in Handle : CallWith(h)) \/ UNCHANGED vars
  <2>1. fails = 0
    BY <1>2, OtherSteps, NoFailure
  <2>2. UNCHANGED <<entry, objs>>
    BY <1>2, OtherSteps DEF table
  <2>3. CASE pc' = pc /\ UNCHANGED walk
    BY <2>1, <2>2, <2>3 DEF TableOK, DirAt, Place, walk
  <2>4. CASE /\ pc \in {"idle", "lookup", "midOf", "leafOf", "object", "answer"}
             /\ pc' \in {"idle", "lookup", "midOf", "leafOf", "object", "answer"}
    BY <2>1, <2>2, <2>4 DEF TableOK, DirAt, InTable
  <2> QED BY <1>2, <2>3, <2>4, OtherSteps
<1>3. CASE ReadHead \/ ReadProc
  <2>1. fails = 0 /\ UNCHANGED <<entry, slot>> /\ pc \in {"boot", "procs"}
        /\ pc' \in {"boot", "procs", "code"}
    BY <1>3, NoFailure DEF ReadHead, ReadProc, HFM, table, walk
  <2> QED BY <2>1 DEF TableOK, DirAt, InTable
<1>4. CASE ReadBucket \/ ReadDrive \/ ReadLink
  <2>1. fails = 0 /\ UNCHANGED <<entry, objs>> /\ pc \in {"bucket", "chain", "link"}
        /\ pc' \in {"bucket", "chain", "link", "idle"}
    BY <1>4, NoFailure DEF ReadBucket, ReadDrive, ReadLink, HFM, table
  <2> QED BY <2>1 DEF TableOK, DirAt, InTable
<1>5. CASE TableCode \/ ReadMid \/ ReadLeaf \/ ReadEntry \/ FindDirectory
  BY <1>5, TableRead
<1> QED BY <1>1, <1>2, <1>3, <1>4, <1>5 DEF Next, ListDrives

-----------------------------------------------------------------------------
(* The list of drives.                                                       *)

\* The entries in S are those that a walk may come to: all that are in GLOBAL??,
\* and those that were taken out, whose links lead on.  From each of them the link
\* leads to none that is behind a kept entry, if the one it starts from is before it.
Listed(S, rank) ==
  /\ inDir \subseteq S
  /\ \A b \in 1..Buckets : heads[b] # None => heads[b] \in S /\ BucketOf[heads[b]] = b
  /\ \A x \in S : next[x] # None => next[x] \in S /\ BucketOf[next[x]] = BucketOf[x]
  /\ \A f \in kept :
       /\ heads[BucketOf[f]] # None /\ rank[heads[BucketOf[f]]] <= rank[f]
       /\ \A x \in S : BucketOf[x] = BucketOf[f] =>
            /\ rank[x] = rank[f] => x = f
            /\ rank[x] < rank[f] => next[x] # None /\ rank[next[x]] <= rank[f]

InList == {"boot", "procs", "code", "dir", "bucket", "chain", "link"} \cup InTable

\* A kept entry that is not in the list of drives is ahead.
Ahead(rank, f) ==
  /\ pc \in InList /\ BucketOf[f] >= bucket
  /\ pc = "chain" /\ BucketOf[f] = bucket => rank[cur] <= rank[f]
  /\ pc = "link" /\ BucketOf[f] = bucket => rank[cur] < rank[f]

Reached(S, rank) ==
  fails = 0 =>
    /\ pc \in {"boot", "procs", "code", "dir"} \cup InTable => bucket = 1
    /\ pc \in {"chain", "link"} => cur \in S /\ BucketOf[cur] = bucket
    /\ \A f \in (kept \cap Drive) \ drives : Ahead(rank, f)

DInv == \E S \in SUBSET Entry : \E rank \in [S -> Int] : Listed(S, rank) /\ Reached(S, rank)

LEMMA DrivesInit == Init => DInv
<1> SUFFICES ASSUME Init PROVE DInv
  OBVIOUS
<1>1. PICK d \in Dirs : inDir = d.entries /\ heads = d.heads /\ next = d.next
  BY DEF Init
<1>2. kept = inDir /\ pc = "boot" /\ bucket = 1
  BY DEF Init
<1>3. inDir \subseteq Entry /\ BucketOf \in [Entry -> 1..Buckets] /\ Chained(d)
  BY <1>1, ObjectsAssumption
<1> DEFINE In(b) == {e \in d.entries : BucketOf[e] = b}
<1>4. PICK place \in [d.entries -> 1..Cardinality(d.entries)] : \A b \in 1..Buckets :
        /\ d.heads[b] \in In(b) \cup {None} /\ \A x \in In(b) : d.next[x] \in In(b) \cup {None}
        /\ \A e \in In(b) :
             /\ d.heads[b] # None /\ place[d.heads[b]] <= place[e]
             /\ \A x \in In(b) :
                  /\ place[x] = place[e] => x = e
                  /\ place[x] < place[e] =>
                       d.next[x] # None /\ place[d.next[x]] \in (place[x] + 1)..place[e]
  BY <1>3 DEF Chained
<1>5. place \in [inDir -> Int]
  <2>1. 1..Cardinality(d.entries) \subseteq Int
    OBVIOUS
  <2> QED BY <1>1, <2>1
<1>6. Listed(inDir, place)
  <2>1. \A x \in inDir : BucketOf[x] \in 1..Buckets /\ x \in In(BucketOf[x])
    BY <1>1, <1>3
  <2>2. \A b \in 1..Buckets : heads[b] # None => heads[b] \in inDir /\ BucketOf[heads[b]] = b
    BY <1>1, <1>4
  <2>3. \A x \in inDir : next[x] # None => next[x] \in inDir /\ BucketOf[next[x]] = BucketOf[x]
    BY <1>1, <1>4, <2>1
  <2>4. ASSUME NEW f \in inDir
        PROVE  /\ heads[BucketOf[f]] # None /\ place[heads[BucketOf[f]]] <= place[f]
               /\ \A x \in inDir : BucketOf[x] = BucketOf[f] =>
                    /\ place[x] = place[f] => x = f
                    /\ place[x] < place[f] => next[x] # None /\ place[next[x]] <= place[f]
    <3>1. /\ heads[BucketOf[f]] # None /\ place[heads[BucketOf[f]]] <= place[f]
          /\ \A x \in In(BucketOf[f]) :
               /\ place[x] = place[f] => x = f
               /\ place[x] < place[f] =>
                    next[x] # None /\ place[next[x]] \in (place[x] + 1)..place[f]
      BY <1>1, <1>4, <2>1
    <3>2. \A x \in inDir : BucketOf[x] = BucketOf[f] => x \in In(BucketOf[f])
      BY <1>1
    <3>3. \A k, l : k \in l..place[f] => k <= place[f]
      OBVIOUS
    <3> HIDE DEF In
    <3> QED BY <3>1, <3>2, <3>3
  <2> QED BY <1>2, <2>2, <2>3, <2>4 DEF Listed
<1>7. Reached(inDir, place)
  <2>1. \A f \in kept : BucketOf[f] >= 1
    BY <1>2, <1>3
  <2> QED BY <1>2, <2>1 DEF Reached, Ahead, InList
<1> QED BY <1>3, <1>5, <1>6, <1>7 DEF DInv

\* An entry is put before all others of its bucket, and was in none.
LEMMA DrivesInsert ==
  ASSUME TInv, DInv, NEW e \in Entry, DirInsert(e)
  PROVE  DInv'
<1>0. PICK S \in SUBSET Entry : \E rank \in [S -> Int] : Listed(S, rank) /\ Reached(S, rank)
  BY DEF DInv
<1>1. PICK rank \in [S -> Int] : Listed(S, rank) /\ Reached(S, rank)
  BY <1>0
<1> DEFINE b == BucketOf[e]
<1>2. /\ e \notin inDir /\ inDir' = inDir \cup {e} /\ kept' = kept
      /\ UNCHANGED <<pc, bucket, cur, drives, fails>>
  BY DEF DirInsert, walk
<1>3. /\ b \in 1..Buckets /\ heads \in [1..Buckets -> Entry \cup {None}]
      /\ next \in [Entry -> Entry \cup {None}] /\ kept \subseteq inDir /\ None \notin Entry
      /\ \A x \in Entry : BucketOf[x] \in 1..Buckets
  BY ObjectsAssumption DEF TInv, GuestTypes
<1>4. /\ heads'[b] = e /\ \A other \in (1..Buckets) \ {b} : heads'[other] = heads[other]
      /\ next'[e] = heads[b] /\ \A x \in Entry \ {e} : next'[x] = next[x]
  BY <1>3 DEF DirInsert
<1>5. heads[b] # None => heads[b] \in S /\ BucketOf[heads[b]] = b
  BY <1>1, <1>3 DEF Listed
<1>6. PICK lowest \in Int : lowest = IF heads[b] = None THEN 0 ELSE rank[heads[b]] - 1
  BY <1>1, <1>5
<1>7. \A f \in kept : f \in S /\ f # e
  BY <1>1, <1>2, <1>3 DEF Listed
<1>8. \A f \in kept : BucketOf[f] = b => lowest < rank[f]
  BY <1>1, <1>5, <1>6, <1>7 DEF Listed
<1>9. PICK after \in [S \cup {e} -> Int] :
        after[e] = lowest /\ \A x \in S : x # e => after[x] = rank[x]
  <2>1. [x \in S \cup {e} |-> IF x = e THEN lowest ELSE rank[x]] \in [S \cup {e} -> Int]
    OBVIOUS
  <2> QED BY <2>1
<1> HIDE DEF b
<1>10. \A f \in kept : after[f] = rank[f]
  BY <1>7, <1>9
<1>11. \A f \in kept, x \in S : BucketOf[x] = BucketOf[f] /\ rank[x] <= rank[f] => after[x] <= rank[f]
  BY <1>6, <1>7, <1>8, <1>9 DEF b
<1>12. Listed(S \cup {e}, after)'
  <2>1. inDir' \subseteq S \cup {e}
    BY <1>1, <1>2 DEF Listed
  <2>2. \A o \in 1..Buckets : heads'[o] # None => heads'[o] \in S \cup {e} /\ BucketOf[heads'[o]] = o
    BY <1>1, <1>4 DEF Listed, b
  <2>3. \A x \in S \cup {e} : next'[x] # None => next'[x] \in S \cup {e} /\ BucketOf[next'[x]] = BucketOf[x]
    BY <1>1, <1>4, <1>5, <1>9 DEF Listed, b
  <2>4. ASSUME NEW f \in kept
        PROVE  heads'[BucketOf[f]] # None /\ after[heads'[BucketOf[f]]] <= after[f]
    <3>1. CASE BucketOf[f] = b
      BY <1>3, <1>4, <1>6, <1>7, <1>8, <1>9, <1>10, <3>1
    <3>2. CASE BucketOf[f] # b
      <4>1. BucketOf[f] \in 1..Buckets
        BY <1>3, <1>7
      <4>2. heads'[BucketOf[f]] = heads[BucketOf[f]] /\ heads[BucketOf[f]] # None
            /\ rank[heads[BucketOf[f]]] <= rank[f]
        BY <1>1, <1>4, <3>2, <4>1 DEF Listed
      <4>3. heads[BucketOf[f]] \in S /\ BucketOf[heads[BucketOf[f]]] = BucketOf[f]
        BY <1>1, <4>1, <4>2 DEF Listed
      <4> QED BY <1>10, <1>11, <4>2, <4>3
    <3> QED BY <3>1, <3>2
  <2>5. ASSUME NEW f \in kept, NEW x \in S \cup {e}, BucketOf[x] = BucketOf[f]
        PROVE  /\ after[x] = after[f] => x = f
               /\ after[x] < after[f] => next'[x] # None /\ after[next'[x]] <= after[f]
    <3>1. CASE x = e
      <4>1. heads[b] # None /\ rank[heads[b]] <= rank[f] /\ heads[b] \in S /\ BucketOf[heads[b]] = b
        BY <1>1, <1>5, <2>5, <3>1 DEF Listed, b
      <4>2. after[heads[b]] <= rank[f]
        BY <1>11, <2>5, <3>1, <4>1 DEF b
      <4>3. after[x] # after[f]
        BY <1>6, <1>7, <1>8, <1>9, <1>10, <2>5, <3>1 DEF b
      <4> QED BY <1>4, <1>10, <3>1, <4>1, <4>2, <4>3
    <3>2. CASE x # e
      <4>1. x \in S /\ after[x] = rank[x] /\ next'[x] = next[x]
        BY <1>4, <1>9, <3>2
      <4>2. /\ rank[x] = rank[f] => x = f
            /\ rank[x] < rank[f] => next[x] # None /\ rank[next[x]] <= rank[f]
        BY <1>1, <2>5, <4>1 DEF Listed
      <4>3. next[x] # None => next[x] \in S /\ BucketOf[next[x]] = BucketOf[x]
        BY <1>1, <4>1 DEF Listed
      <4> QED BY <1>10, <1>11, <2>5, <4>1, <4>2, <4>3
    <3> QED BY <3>1, <3>2
  <2> QED BY <1>2, <2>1, <2>2, <2>3, <2>4, <2>5 DEF Listed
<1>13. Reached(S \cup {e}, after)'
  <2> SUFFICES ASSUME fails = 0
               PROVE  /\ pc \in {"boot", "procs", "code", "dir"} \cup InTable => bucket = 1
                      /\ pc \in {"chain", "link"} => cur \in S \cup {e} /\ BucketOf[cur] = bucket
                      /\ \A f \in (kept \cap Drive) \ drives : Ahead(after, f)'
    BY <1>2 DEF Reached
  <2>1. /\ pc \in {"boot", "procs", "code", "dir"} \cup InTable => bucket = 1
        /\ pc \in {"chain", "link"} => cur \in S /\ BucketOf[cur] = bucket
    BY <1>1 DEF Reached
  <2>2. ASSUME NEW f \in (kept \cap Drive) \ drives PROVE Ahead(after, f)'
    <3>1. Ahead(rank, f)
      BY <1>1, <2>2 DEF Reached
    <3>2. ASSUME pc \in {"chain", "link"}, BucketOf[f] = bucket, rank[cur] <= rank[f]
          PROVE  after[cur] <= after[f]
      BY <1>10, <1>11, <2>1, <3>2
    <3>3. ASSUME pc = "link", BucketOf[f] = bucket, rank[cur] < rank[f]
          PROVE  after[cur] < after[f]
      <4>1. CASE cur = e
        BY <1>8, <1>9, <1>10, <2>1, <3>3, <4>1 DEF b
      <4>2. CASE cur # e
        BY <1>9, <1>10, <2>1, <3>3, <4>2
      <4> QED BY <4>1, <4>2
    <3> QED BY <1>2, <3>1, <3>2, <3>3 DEF Ahead
  <2> QED BY <2>1, <2>2
<1>14. S \cup {e} \in SUBSET Entry
  OBVIOUS
<1> QED BY <1>12, <1>13, <1>14 DEF DInv

\* An entry that is taken out leads where it did, and what led to it leads there too.
LEMMA DrivesRemove ==
  ASSUME TInv, DInv, NEW e \in Entry, DirRemove(e)
  PROVE  DInv'
<1>0. PICK S \in SUBSET Entry : \E rank \in [S -> Int] : Listed(S, rank) /\ Reached(S, rank)
  BY DEF DInv
<1>1. PICK rank \in [S -> Int] : Listed(S, rank) /\ Reached(S, rank)
  BY <1>0
<1>2. /\ e \in inDir /\ inDir' = inDir \ {e} /\ kept' = kept \ {e}
      /\ UNCHANGED <<pc, bucket, cur, drives, fails>>
  BY DEF DirRemove, walk
<1>3. /\ heads \in [1..Buckets -> Entry \cup {None}]
      /\ next \in [Entry -> Entry \cup {None}] /\ kept \subseteq inDir /\ None \notin Entry
      /\ \A x \in Entry : BucketOf[x] \in 1..Buckets
  BY ObjectsAssumption DEF TInv, GuestTypes
<1>4. e \in S /\ kept \subseteq S /\ \A x \in S : rank[x] \in Int
  BY <1>1, <1>2, <1>3 DEF Listed
<1>5. \A f \in kept \ {e} : BucketOf[f] = BucketOf[e] /\ rank[e] <= rank[f] =>
        next[e] # None /\ rank[next[e]] <= rank[f]
  BY <1>1, <1>4 DEF Listed
<1>6. next[e] # None => next[e] \in S /\ BucketOf[next[e]] = BucketOf[e]
  BY <1>1, <1>4 DEF Listed
<1>7. Listed(S, rank)'
  <2>1. CASE heads[BucketOf[e]] = e /\ heads' = [heads EXCEPT ![BucketOf[e]] = next[e]] /\ next' = next
    <3>1. /\ heads'[BucketOf[e]] = next[e]
          /\ \A b \in (1..Buckets) \ {BucketOf[e]} : heads'[b] = heads[b]
      BY <1>3, <2>1
    <3>2. \A b \in 1..Buckets : heads'[b] # None => heads'[b] \in S /\ BucketOf[heads'[b]] = b
      BY <1>1, <1>6, <3>1 DEF Listed
    <3>3. ASSUME NEW f \in kept \ {e}
          PROVE  heads'[BucketOf[f]] # None /\ rank[heads'[BucketOf[f]]] <= rank[f]
      <4>1. heads[BucketOf[f]] # None /\ rank[heads[BucketOf[f]]] <= rank[f]
        BY <1>1 DEF Listed
      <4>2. BucketOf[f] \in 1..Buckets
        BY <1>3, <1>4
      <4> QED BY <1>5, <2>1, <3>1, <4>1, <4>2
    <3> QED BY <1>1, <1>2, <2>1, <3>2, <3>3 DEF Listed
  <2>2. CASE heads' = heads /\ \E d \in inDir : next[d] = e /\ next' = [next EXCEPT ![d] = next[e]]
    <3>1. PICK d \in inDir : next[d] = e /\ next' = [next EXCEPT ![d] = next[e]]
      BY <2>2
    <3>2. /\ d \in S /\ next'[d] = next[e] /\ BucketOf[d] = BucketOf[e]
          /\ \A x \in Entry \ {d} : next'[x] = next[x]
      BY <1>1, <1>2, <1>3, <3>1 DEF Listed
    <3>3. \A x \in S : next'[x] # None => next'[x] \in S /\ BucketOf[next'[x]] = BucketOf[x]
      BY <1>1, <1>6, <3>2 DEF Listed
    <3>4. ASSUME NEW f \in kept \ {e}, NEW x \in S, BucketOf[x] = BucketOf[f], rank[x] < rank[f]
          PROVE  next'[x] # None /\ rank[next'[x]] <= rank[f]
      <4>1. next[x] # None /\ rank[next[x]] <= rank[f]
        BY <1>1, <3>4 DEF Listed
      <4>2. CASE x = d
        BY <1>5, <3>1, <3>2, <3>4, <4>1, <4>2
      <4>3. CASE x # d
        BY <3>2, <4>1, <4>3
      <4> QED BY <4>2, <4>3
    <3> QED BY <1>1, <1>2, <2>2, <3>3, <3>4 DEF Listed
  <2> QED BY <2>1, <2>2 DEF DirRemove
<1>8. Reached(S, rank)'
  BY <1>1, <1>2 DEF Reached, Ahead
<1> QED BY <1>7, <1>8 DEF DInv

\* A read of the directory goes past a kept entry only with the entry in the list.
LEMMA DrivesRead ==
  ASSUME TInv, PInv, TableOK, fails' = 0, ListDrives,
         NEW S \in SUBSET Entry, NEW rank \in [S -> Int], Listed(S, rank), Reached(S, rank)
  PROVE  Reached(S, rank)'
<1>1. /\ kept' = kept /\ heads \in [1..Buckets -> Entry \cup {None}] /\ Buckets \in Nat
      /\ None \notin Entry /\ bucket \in 1..(Buckets + 1)
      /\ \A f \in kept : BucketOf[f] \in 1..Buckets /\ f \in S
      /\ \A x \in S : rank[x] \in Int
  <2>1. UNCHANGED dir
    BY DEF ListDrives, ReadHead, ReadProc, TableCode, ReadMid, ReadLeaf, ReadEntry, FindDirectory,
           ReadBucket, ReadDrive, ReadLink, HFM
  <2> QED BY <2>1, ObjectsAssumption DEF dir, TInv, GuestTypes, WalkTypes, Listed
<1> DEFINE due == (kept \cap Drive) \ drives
<1>2. CASE ReadHead \/ ReadProc \/ TableCode \/ ReadMid \/ ReadLeaf \/ ReadEntry \/ FindDirectory
  <2>1. fails = 0 /\ UNCHANGED <<bucket, drives>>
    BY <1>2, NoFailure
    DEF ReadHead, ReadProc, TableCode, ReadMid, ReadLeaf, ReadEntry, FindDirectory, walk
  <2>2. pc \in {"boot", "procs", "code", "dir"} \cup InTable
    BY <1>2
    DEF ReadHead, ReadProc, TableCode, ReadMid, ReadLeaf, ReadEntry, FindDirectory, HFM, InTable
  <2>3. pc' \in {"boot", "procs", "code", "dir", "bucket"} \cup InTable
    <3>1. CASE TableCode
      <4>1. found
        BY <2>1, <3>1 DEF PInv, SystemOK, TableCode, HFM
      <4> QED BY <3>1, <4>1, NoFailure DEF TableCode, InTable
    <3>2. CASE FindDirectory
      <4>1. Dir \in objs
        BY <2>1, <3>2 DEF TableOK, FindDirectory, HFM, InTable
      <4> QED BY <3>2, <4>1, NoFailure DEF FindDirectory
    <3>3. CASE ReadHead \/ ReadProc \/ ReadMid \/ ReadLeaf \/ ReadEntry
      BY <3>3 DEF ReadHead, ReadProc, ReadMid, ReadLeaf, ReadEntry, HFM, GoOnAt, InTable
    <3> QED BY <1>2, <3>1, <3>2, <3>3
  <2>4. bucket = 1 /\ \A f \in due : BucketOf[f] >= bucket
    BY <2>1, <2>2 DEF Reached, Ahead
  <2> QED BY <1>1, <2>1, <2>3, <2>4 DEF Reached, Ahead, InList, InTable
<1>3. CASE ReadBucket
  <2>1. pc = "bucket" /\ fails = 0 /\ drives' = drives /\ \A f \in due : BucketOf[f] >= bucket
    BY <1>3, NoFailure DEF ReadBucket, HFM, Reached, Ahead
  <2>2. CASE bucket > Buckets
    <3>1. pc' = "idle"
      BY <1>3, <2>2 DEF ReadBucket
    <3>2. due = {}
      BY <1>1, <2>1, <2>2
    <3> QED BY <1>1, <2>1, <3>1, <3>2 DEF Reached, InTable
  <2>3. CASE bucket <= Buckets
    <3>1. /\ cur' = heads[bucket] /\ bucket \in 1..Buckets
          /\ IF cur' = None THEN bucket' = bucket + 1 /\ pc' = "bucket"
                            ELSE pc' = "chain" /\ bucket' = bucket
      BY <1>1, <1>3, <2>1, <2>3, NoFailure DEF ReadBucket, NextBucket
    <3>2. /\ heads[bucket] # None => heads[bucket] \in S /\ BucketOf[heads[bucket]] = bucket
          /\ \A f \in due : BucketOf[f] = bucket =>
               heads[bucket] # None /\ rank[heads[bucket]] <= rank[f]
      BY <3>1 DEF Listed
    <3>3. CASE cur' = None
      <4>1. \A f \in due : BucketOf[f] >= bucket'
        BY <1>1, <2>1, <3>1, <3>2, <3>3
      <4> QED BY <1>1, <2>1, <3>1, <3>3, <4>1 DEF Reached, Ahead, InList, InTable
    <3>4. CASE cur' # None
      BY <1>1, <2>1, <3>1, <3>2, <3>4 DEF Reached, Ahead, InList, InTable
    <3> QED BY <3>3, <3>4
  <2> QED BY <1>1, <2>2, <2>3
<1>4. CASE ReadDrive
  <2>1. /\ pc = "chain" /\ pc' = "link" /\ fails = 0 /\ UNCHANGED <<cur, bucket>>
        /\ drives' = drives \cup ({cur} \cap Drive)
    BY <1>4, NoFailure DEF ReadDrive, HFM
  <2>2. cur \in S /\ BucketOf[cur] = bucket /\ \A f \in due :
          BucketOf[f] >= bucket /\ (BucketOf[f] = bucket => rank[cur] <= rank[f])
    BY <2>1 DEF Reached, Ahead
  <2>3. \A f \in due : f # cur /\ BucketOf[f] = bucket => rank[cur] < rank[f]
    BY <1>1, <2>2 DEF Listed
  <2> QED BY <1>1, <2>1, <2>2, <2>3 DEF Reached, Ahead, InList, InTable
<1>5. CASE ReadLink
  <2>1. /\ pc = "link" /\ fails = 0 /\ drives' = drives /\ cur' = next[cur]
        /\ IF cur' = None THEN bucket' = bucket + 1 /\ pc' = "bucket"
                          ELSE pc' = "chain" /\ bucket' = bucket
    BY <1>5, NoFailure DEF ReadLink, NextBucket, HFM
  <2>2. cur \in S /\ BucketOf[cur] = bucket /\ \A f \in due :
          BucketOf[f] >= bucket /\ (BucketOf[f] = bucket => rank[cur] < rank[f])
    BY <2>1 DEF Reached, Ahead
  <2>3. /\ next[cur] # None => next[cur] \in S /\ BucketOf[next[cur]] = bucket
        /\ \A f \in due : BucketOf[f] = bucket => next[cur] # None /\ rank[next[cur]] <= rank[f]
    BY <2>2 DEF Listed
  <2>4. CASE cur' = None
    <3>1. \A f \in due : BucketOf[f] >= bucket'
      BY <1>1, <2>1, <2>2, <2>3, <2>4
    <3> QED BY <1>1, <2>1, <2>4, <3>1 DEF Reached, Ahead, InList, InTable
  <2>5. CASE cur' # None
    BY <1>1, <2>1, <2>2, <2>3, <2>5 DEF Reached, Ahead, InList, InTable
  <2> QED BY <2>4, <2>5
<1> QED BY <1>2, <1>3, <1>4, <1>5 DEF ListDrives

LEMMA DrivesStep == TInv /\ PInv /\ TableOK /\ DInv /\ [Next]_vars => DInv'
<1> SUFFICES ASSUME TInv, PInv, TableOK, DInv, [Next]_vars PROVE DInv'
  OBVIOUS
<1>0. PICK S \in SUBSET Entry : \E rank \in [S -> Int] : Listed(S, rank) /\ Reached(S, rank)
  BY DEF DInv
<1>1. PICK rank \in [S -> Int] : Listed(S, rank) /\ Reached(S, rank)
  BY <1>0
<1>2. UNCHANGED dir => Listed(S, rank)'
  BY <1>1 DEF dir, Listed
<1>3. CASE Guest
  <2>1. CASE \E e \in Entry : DirInsert(e) \/ DirRemove(e)
    BY <2>1, DrivesInsert, DrivesRemove
  <2>2. CASE UNCHANGED dir
    <3>1. UNCHANGED <<pc, walk, fails>>
      BY <1>3, GuestStep
    <3>2. Reached(S, rank)'
      BY <1>1, <2>2, <3>1 DEF Reached, Ahead, dir, walk
    <3> QED BY <1>2, <2>2, <3>2 DEF DInv
  <2>3. (\E e \in Entry : DirInsert(e) \/ DirRemove(e)) \/ UNCHANGED dir
    BY <1>3 DEF Guest, ProcCreate, ProcExit, Grow, Open, Close, SetEntry
  <2> QED BY <2>1, <2>2, <2>3
<1>4. CASE FromHandle \/ (\E h \in Handle : CallWith(h)) \/ UNCHANGED vars
  <2>1. UNCHANGED dir
    BY <1>4, OtherSteps
  <2>2. ASSUME fails' = 0 PROVE fails = 0
    BY <1>4, <2>2, OtherSteps, NoFailure
  <2>3. /\ UNCHANGED <<kept, bucket, drives>>
        /\ \/ pc' = pc /\ cur' = cur
           \/ {pc, pc'} \cap ({"bucket", "chain", "link", "boot", "procs", "code", "dir"} \cup InTable) = {}
    BY <1>4, OtherSteps DEF dir, walk, InTable
  <2>4. Reached(S, rank)'
    BY <1>1, <2>2, <2>3 DEF Reached, Ahead, InList
  <2> QED BY <1>2, <2>1, <2>4 DEF DInv
<1>5. CASE ListDrives
  <2>1. UNCHANGED dir
    BY <1>5
    DEF ListDrives, ReadHead, ReadProc, TableCode, ReadMid, ReadLeaf, ReadEntry, FindDirectory,
        ReadBucket, ReadDrive, ReadLink, HFM
  <2>2. Reached(S, rank)'
    <3>1. CASE fails' = 0
      BY <1>1, <1>5, <3>1, DrivesRead
    <3>2. CASE fails' # 0
      BY <3>2 DEF Reached
    <3> QED BY <3>1, <3>2
  <2> QED BY <1>2, <2>1, <2>2 DEF DInv
<1> QED BY <1>3, <1>4, <1>5 DEF Next

(***************************************************************************)
(* For every directory, table and list of processes there may be, and      *)
(* however often the guest changes them while win_list_drives reads: with  *)
(* no failed read, the list has every drive that GLOBAL?? has held from    *)
(* the start of the listing to its end.                                    *)
(***************************************************************************)
THEOREM AlwaysDrivesFound == Spec => []DrivesFound
<1>1. ASSUME TInv, DInv PROVE DrivesFound
  <2> SUFFICES ASSUME pc \notin {"boot", "procs", "code", "mid", "leaf", "entries", "dir", "bucket",
                                 "chain", "link"}, fails = 0
               PROVE  kept \cap Drive \subseteq drives
    BY DEF DrivesFound
  <2>1. pc \notin InList
    BY DEF InList, InTable
  <2> QED BY <1>1, <2>1 DEF DInv, Reached, Ahead
<1> QED BY InitType, ProcsInit, TableInit, DrivesInit, TypeStep, ProcsStep, TableStep, DrivesStep,
           <1>1, PTL DEF Spec
=============================================================================
