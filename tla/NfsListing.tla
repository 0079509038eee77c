------------------------------ MODULE NfsListing ------------------------------
(***************************************************************************)
(* Listing a directory of the export (nfs_dir.c, nfs_ops_readdir): the     *)
(* snapshot the entries are read from, and the positions of a scan, which  *)
(* have to hold while names are removed and the snapshot is made again.    *)
(*                                                                         *)
(* A stable scan takes the next position from the reply                    *)
(* (MSG_READDIR_NEXT); positions then follow from the names. A legacy one  *)
(* adds d_reclen; its positions are sums of the lengths of the names.      *)
(***************************************************************************)
EXTENDS Naturals, Sequences, FiniteSets, SequencesExt, FiniteSetsExt

CONSTANTS
  Names,       \* names of entries: 1, 2...
  Hash,        \* their hashes, by name
  Scans,       \* scans of the directory
  Legacy,      \* those of them that are legacy scans
  UINT16_MAX,  \* the largest d_reclen
  MaxChanges   \* bound: changes of the directory

NFS_DIR_FIRST == 3
NoSnap == [ents |-> <<>>, made |-> FALSE]

VARIABLES
  dir,      \* server: the names in the directory
  snap,     \* d->dirSnap: the entries with their marks "gone"
  offs,     \* the position each scan reads next
  got,      \* how often (2: twice or more) each scan was given a name
  ended,    \* the scans that have been told the end
  always,   \* the names that have been in the directory since a scan began
  strange,  \* the legacy scans that saw the snapshot go, or a length cut off
  extern,   \* names another client removed
  changes

vars == <<dir, snap, offs, got, ended, always, strange, extern, changes>>

namelen(n) == 1 + (n % 2)

\* The position of a name depends on the name alone. Names with the same hash
\* share it; positions next to each other are the other hard case.
nfs_dir_pos(n) == NFS_DIR_FIRST + Hash[n]

-----------------------------------------------------------------------------
(* Snapshots (nfs_dir.c)                                                   *)

\* nfs_dir_cmp: by position, then by name.
nfs_dir_cmp(a, b) == nfs_dir_pos(a) < nfs_dir_pos(b) \/ (nfs_dir_pos(a) = nfs_dir_pos(b) /\ a < b)

\* nfs_dir_add for every name, then nfs_dir_sort.
Listed(names) ==
  [ents |-> [k \in 1..Cardinality(names) |-> [name |-> SetToSortSeq(names, nfs_dir_cmp)[k], gone |-> FALSE]],
   made |-> TRUE]

lpos(s, i) == NFS_DIR_FIRST + MapThenSumSet(LAMBDA k : namelen(s.ents[k].name), 1..(i - 1))
Key(s, i, legacy) == IF legacy THEN lpos(s, i) ELSE nfs_dir_pos(s.ents[i].name)

\* The entries from the first whose key is at least o (nfs_dir_lowerBound).
From(s, o, legacy) == {i \in 1..Len(s.ents) : Key(s, i, legacy) >= o}

\* Those that nfs_dir_seek and nfs_dir_seekLegacy can return; the first is read.
Live(s, o, legacy) == {i \in From(s, o, legacy) : ~s.ents[i].gone}

\* Mutant of End: the position of the entry itself.
EndSame(s, i, legacy) ==
  IF legacy THEN lpos(s, i) ELSE nfs_dir_pos(s.ents[i].name)

\* The position after entry i.
End(s, i, legacy) ==
  IF legacy THEN lpos(s, i) + namelen(s.ents[i].name) ELSE nfs_dir_pos(s.ents[i].name) + 1

\* nfs_dir_remove.
Struck(s, n) ==
  [s EXCEPT !.ents = [i \in DOMAIN @ |-> IF @[i].name = n THEN [@[i] EXCEPT !.gone = TRUE] ELSE @[i]]]

-----------------------------------------------------------------------------
(* Requests                                                                *)

\* The snapshot goes: scans that depend on it are no longer sure of their place.
Lose == strange' = strange \cup {c \in Legacy : snap.made /\ offs[c] >= NFS_DIR_FIRST}

Given(g, n) == [g EXCEPT ![n] = Min({@ + 1, 2})]

\* An entry is returned, with the position after it.
Entry(c, s) ==
  LET leg == c \in Legacy
      i == Min(Live(s, offs[c], leg))
      step == End(s, i, leg) - offs[c]
  IN /\ got' = [got EXCEPT ![c] = Given(@, s.ents[i].name)]
     /\ offs' = [offs EXCEPT ![c] = IF leg THEN @ + Min({step, UINT16_MAX}) ELSE End(s, i, leg)]
     /\ strange' = IF leg /\ step > UINT16_MAX THEN strange \cup {c} ELSE strange
     /\ snap' = s /\ UNCHANGED ended

\* "." at 0 drops the listing, so that a new scan reads a new one; ".." at 1.
Dot(c) ==
  /\ offs[c] = 0
  /\ offs' = [offs EXCEPT ![c] = 1]
  /\ always' = [always EXCEPT ![c] = dir]
  /\ snap' = NoSnap /\ Lose
  /\ UNCHANGED <<dir, got, ended, extern, changes>>

DotDot(c) ==
  /\ offs[c] = 1
  /\ offs' = [offs EXCEPT ![c] = IF c \in Legacy THEN 1 + 2 ELSE 2]
  /\ UNCHANGED <<dir, snap, got, ended, always, strange, extern, changes>>

\* The next entry, from a new listing if there is none; the end drops it.
Listing(c) ==
  /\ offs[c] > 1 /\ c \notin ended
  /\ \E s \in {IF snap.made THEN snap ELSE Listed(dir)} :
       \/ Live(s, offs[c], c \in Legacy) # {} /\ Entry(c, s)
       \/ /\ Live(s, offs[c], c \in Legacy) = {}
          /\ ended' = ended \cup {c} /\ snap' = NoSnap
          /\ strange' = strange \cup {d \in Legacy \ {c} : offs[d] >= NFS_DIR_FIRST}
          /\ UNCHANGED <<offs, got>>
  /\ UNCHANGED <<dir, always, extern, changes>>

readdir(c) == Dot(c) \/ DotDot(c) \/ Listing(c)

\* The directory changes by nfs_ops_unlink (the name is struck), by
\* nfs_ops_create and nfs_ops_link (the listing is dropped), or elsewhere.
Removed(n) == always' = [c \in Scans |-> always[c] \ {n}] /\ dir' = dir \ {n}

Unlink(n) ==
  /\ n \in dir /\ Removed(n)
  /\ snap' = Struck(snap, n)
  /\ UNCHANGED <<offs, got, ended, strange, extern>>

Create(n) ==
  /\ n \notin dir
  /\ dir' = dir \cup {n} /\ snap' = NoSnap /\ Lose
  /\ extern' = extern \ {n}
  /\ UNCHANGED <<offs, got, ended, always>>

Host(n) ==
  /\ \/ n \in dir /\ Removed(n) /\ extern' = extern \cup {n}
     \/ n \notin dir /\ dir' = dir \cup {n} /\ UNCHANGED <<always, extern>>
  /\ UNCHANGED <<snap, offs, got, ended, strange>>

Change ==
  /\ changes < MaxChanges /\ changes' = changes + 1
  /\ \E n \in Names : Unlink(n) \/ Create(n) \/ Host(n)

\* Another directory is listed, the directory is closed, or the client rebuilt.
Drop ==
  /\ snap.made /\ changes < MaxChanges /\ changes' = changes + 1
  /\ snap' = NoSnap /\ Lose
  /\ UNCHANGED <<dir, offs, got, ended, always, extern>>

Init ==
  /\ dir \in SUBSET Names
  /\ snap = NoSnap
  /\ offs = [c \in Scans |-> 0] /\ got = [c \in Scans |-> [n \in Names |-> 0]]
  /\ always = [c \in Scans |-> {}]
  /\ ended = {} /\ strange = {} /\ extern = {} /\ changes = 0

Next == (\E c \in Scans : readdir(c)) \/ Change \/ Drop

Spec == Init /\ [][Next]_vars /\ \A c \in Scans : WF_vars(readdir(c))

-----------------------------------------------------------------------------
(* Properties                                                              *)

\* The names a scan cannot tell from n: a stable one those with n's position.
Same(c, n) == IF c \in Legacy THEN {n} ELSE {m \in Names : nfs_dir_pos(m) = nfs_dir_pos(n)}

\* A scan that has ended was given every name that was in the directory all the
\* time, and no scan is given a name twice, while names are removed and made and
\* the listing is made again; a legacy scan as long as the listing lasts. Of names
\* that share a position a stable scan is given one (nfs_dir.h:15-17).
ScansComplete ==
  \A c \in Scans \ strange :
    /\ c \in ended => \A n \in always[c] : \E m \in Same(c, n) : got[c][m] > 0
    /\ \A n \in Names : MapThenSumSet(LAMBDA m : got[c][m], Same(c, n)) <= 1

\* An entry that is returned is in the directory, unless another client of the
\* server removed it (nfs_dir_remove).
Returned == \A c \in Scans, n \in Names : got'[c][n] > got[c][n] => n \in dir \cup extern

\* Every scan ends, whatever happens to the directory meanwhile.
ScansEnd == \A c \in Scans : <>(c \in ended)
=============================================================================
