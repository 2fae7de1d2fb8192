--------------------------- MODULE MCGuestObjects ---------------------------
(* Tables of two entries, and two pointers: one of each level to begin with. *)
EXTENDS GuestObjects, TLC

CONSTANTS sys, smss, word, global, file, marked, c, d, com, new

MCProc   == {sys, smss, word}
MCObject == {global, file, marked}
MCEntry  == {c, d, com, new}
MCDrive  == {c, d, new}
MCBucketOf == [e \in MCEntry |-> IF e = com THEN 2 ELSE 1]

Holding(held) == [i \in Index |-> IF i \in DOMAIN held THEN held[i] ELSE None]

MCTables ==
  { [level |-> 0, leaves |-> 1, entry |-> Holding(0 :> marked @@ 1 :> global)],
    [level |-> 1, leaves |-> 2, entry |-> Holding(1 :> file @@ 2 :> global)],
    [level |-> 2, leaves |-> 3, entry |-> Holding(4 :> global @@ 5 :> file)] }

\* C: before D: in one chain; a link that is no drive in the other.
MCDirs ==
  { [entries |-> {c, d, com},
     heads |-> [b \in 1..2 |-> IF b = 1 THEN c ELSE com],
     next  |-> [e \in MCEntry |-> IF e = c THEN d ELSE None]] }

MCHandle == {0, 1, 3, 5, 9}
=============================================================================
