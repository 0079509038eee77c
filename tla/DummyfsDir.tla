----------------------------- MODULE DummyfsDir -----------------------------
(***************************************************************************)
(* A directory of dummyfs (dummyfs/dir.c, dummyfs_readdirNext): entries    *)
(* indexed by the hash of their name and kept in a list in the order of    *)
(* their positions, and clients that read the directory position by        *)
(* position, with a hint they share, while entries come and go.            *)
(*                                                                         *)
(* fs->mutex makes every request one step.                                 *)
(***************************************************************************)
EXTENDS Integers, Sequences, FiniteSets

CONSTANTS
  Names,   \* names of entries
  Hash,    \* dummyfs_dir_hash, by name
  MaxPos,  \* bound: entries ever added
  RecMax   \* UINT16_MAX: the largest d_reclen

Keys == {Hash[n] : n \in Names}
None == -1   \* a NULL entry

ConstantsAssumption ==
  /\ DOMAIN Hash = Names
  /\ MaxPos \in Nat /\ RecMax \in Nat \ {0}

VARIABLES
  ents,     \* the allocated entries by position: name, and the neighbours
            \* with the same key
  tree,     \* dir.tree: the first entry of each key
  list,     \* dir.list: the positions in list order
  nextPos,  \* dir.nextPos
  entries,  \* dir.entries
  hint,     \* dir.hint
  scan      \* a client that reads the directory from its start

index == <<ents, tree, list, nextPos, entries>>
vars == <<index, hint, scan>>

Positions == 0..(MaxPos - 1)

-----------------------------------------------------------------------------
(* Finding an entry by name                                                *)

\* dummyfs_dir_get: the entry called name, following the entries of its key.
Get(name) ==
  LET from[p \in Positions \cup {None}] ==
        IF p \notin DOMAIN ents THEN None
        ELSE IF ents[p].name = name THEN p
        ELSE from[ents[p].next]
  IN from[tree[Hash[name]]]

\* The last entry of a key, None if it has none.
Last(key) ==
  LET last[p \in Positions \cup {None}] ==
        IF p \notin DOMAIN ents THEN None
        ELSE IF ents[p].next = None THEN p
        ELSE last[ents[p].next]
  IN last[tree[key]]

-----------------------------------------------------------------------------
(* dummyfs_dir_add and dummyfs_dir_removeEntry                             *)

Index(p) == CHOOSE i \in DOMAIN list : list[i] = p

\* The entry behind p in the list: the list is circular, its end is None.
Behind(p) == IF Index(p) = Len(list) THEN None ELSE list[Index(p) + 1]

\* What a scan may rely on: the entries that are there from its start on.
Steady(s, p) == [s EXCEPT !.steady = @ \ {p}]

\* A name that exists, or an allocation that fails, leaves the directory alone.
dir_add(name) ==
  /\ Get(name) = None
  /\ nextPos < MaxPos
  /\ LET p    == nextPos
         prev == Last(Hash[name])
         new  == [name |-> name, prev |-> prev, next |-> None]
     IN /\ ents' = [q \in DOMAIN ents \cup {p} |->
                      IF q = p THEN new
                      ELSE IF q = prev THEN [ents[q] EXCEPT !.next = p]
                      ELSE ents[q]]
        /\ tree' = IF prev = None THEN [tree EXCEPT ![Hash[name]] = p] ELSE tree
        /\ list' = Append(list, p)
        /\ nextPos' = p + 1
  /\ entries' = entries + 1
  /\ hint' = [hint EXCEPT !.entry = None]
  /\ UNCHANGED scan

HintWithout(p) == IF hint.entry = p THEN [hint EXCEPT !.entry = Behind(p)] ELSE hint

\* Mutant of Unchained: the next entry of the key keeps its neighbour.
UnchainedHalf(p) ==
  [q \in DOMAIN ents \ {p} |->
     IF q = ents[p].prev THEN [ents[q] EXCEPT !.next = None] ELSE ents[q]]

\* The other entries once p is taken out of those with its key.
Unchained(p) ==
  [q \in DOMAIN ents \ {p} |->
     IF q = ents[p].prev THEN [ents[q] EXCEPT !.next = ents[p].next]
     ELSE IF q = ents[p].next THEN [ents[q] EXCEPT !.prev = ents[p].prev]
     ELSE ents[q]]

\* Mutant of removeEntry: the last entry takes the place of the one that goes.
removeEntrySwap(p) ==
  /\ hint' = HintWithout(p)
  /\ list' = [i \in 1..(Len(list) - 1) |-> IF i = Index(p) THEN list[Len(list)] ELSE list[i]]
  /\ ents' = Unchained(p)
  /\ tree' = IF ents[p].prev = None THEN [tree EXCEPT ![Hash[ents[p].name]] = ents[p].next]
             ELSE tree
  /\ entries' = entries - 1
  /\ scan' = Steady(scan, p)
  /\ UNCHANGED nextPos

removeEntry(p) ==
  /\ hint' = HintWithout(p)
  /\ list' = [i \in 1..(Len(list) - 1) |-> IF i < Index(p) THEN list[i] ELSE list[i + 1]]
  /\ ents' = Unchained(p)
  /\ tree' = IF ents[p].prev = None THEN [tree EXCEPT ![Hash[ents[p].name]] = ents[p].next]
             ELSE tree
  /\ entries' = entries - 1
  /\ scan' = Steady(scan, p)
  /\ UNCHANGED nextPos

dir_remove(name) == Get(name) # None /\ removeEntry(Get(name))

-----------------------------------------------------------------------------
(* dummyfs_readdirNext                                                     *)

\* Where the walk along the list starts.
Start(offs) ==
  IF hint.entry # None /\ offs >= hint.offs THEN Index(hint.entry) ELSE 1

\* The entries the walk may stop at, and the one it does.
Ahead(offs) == {i \in Start(offs)..Len(list) : list[i] >= offs}

Found(offs) == list[CHOOSE i \in Ahead(offs) : \A j \in Ahead(offs) : i <= j]

\* Mutant of Reclen: counts entries, not positions.
ReclenOne(offs) == 1

Reclen(offs) == IF Found(offs) + 1 - offs > RecMax THEN RecMax ELSE Found(offs) + 1 - offs

\* The hint after an entry was returned.
HintAt(offs) == [offs |-> Found(offs) + 1, entry |-> Behind(Found(offs))]

\* Some other client reads at a position of its own.  A position without an
\* entry, or a buffer too small for it, leaves the directory alone.
readdirNext(offs) ==
  /\ Ahead(offs) # {}
  /\ hint' = HintAt(offs)
  /\ UNCHANGED <<index, scan>>

Idle == [on |-> FALSE, legacy |-> FALSE, capped |-> FALSE, at |-> 0, got |-> <<>>, steady |-> {}]

\* The client of interest starts to read.  A legacy client adds d_reclen to its
\* position instead of taking *next.
opendir(legacy) ==
  /\ ~scan.on
  /\ scan' = [Idle EXCEPT !.on = TRUE, !.legacy = legacy, !.steady = DOMAIN ents]
  /\ UNCHANGED <<index, hint>>

readNext ==
  /\ scan.on /\ Ahead(scan.at) # {} /\ Len(scan.got) < 2 * MaxPos
  /\ hint' = HintAt(scan.at)
  /\ scan' = [scan EXCEPT
                !.at = IF scan.legacy THEN @ + Reclen(@) ELSE Found(@) + 1,
                !.capped = @ \/ (scan.legacy /\ Found(scan.at) + 1 - scan.at > RecMax),
                !.got = Append(@, Found(scan.at))]
  /\ UNCHANGED index

closedir ==
  /\ scan.on /\ Ahead(scan.at) = {}
  /\ scan' = Idle
  /\ UNCHANGED <<index, hint>>

-----------------------------------------------------------------------------
\* dummyfs_dir_init
Init ==
  /\ ents = <<>> /\ tree = [k \in Keys |-> None] /\ list = <<>>
  /\ nextPos = 0 /\ entries = 0
  /\ hint = [offs |-> 0, entry |-> None]
  /\ scan = Idle

Next ==
  \/ \E name \in Names : dir_add(name) \/ dir_remove(name)
  \/ \E offs \in 0..MaxPos : readdirNext(offs)
  \/ \E legacy \in BOOLEAN : opendir(legacy)
  \/ readNext \/ closedir

Spec == Init /\ [][Next]_vars

-----------------------------------------------------------------------------
(* Properties                                                              *)

\* Types of the variables.
TypeOK ==
  /\ DOMAIN ents \subseteq Positions
  /\ \A p \in DOMAIN ents :
       ents[p] \in [name : Names, prev : Positions \cup {None}, next : Positions \cup {None}]
  /\ tree \in [Keys -> Positions \cup {None}]
  /\ list \in Seq(Positions) /\ nextPos \in 0..MaxPos /\ entries \in Nat
  /\ hint \in [offs : 0..MaxPos, entry : Positions \cup {None}]
  /\ scan \in [on : BOOLEAN, legacy : BOOLEAN, capped : BOOLEAN, at : 0..MaxPos,
               got : Seq(Positions), steady : SUBSET Positions]

\* "readdir position, unique in the directory and never reused" and "all
\* entries, in position order" (dummyfs_internal.h:49, 50): the list holds every
\* entry once, in the order of positions that the next entry continues.
InPositionOrder ==
  /\ \A i, j \in DOMAIN list : i < j => list[i] < list[j]
  /\ {list[i] : i \in DOMAIN list} = DOMAIN ents
  /\ \A p \in DOMAIN ents : p < nextPos
  /\ entries = Len(list)

\* Whatever was added and removed, each entry is found by its name through the
\* tree and the entries of its key, and a name has one entry.
FoundByName ==
  /\ \A p \in DOMAIN ents : Get(ents[p].name) = p
  /\ \A k \in Keys : tree[k] # None =>
       tree[k] \in DOMAIN ents /\ Hash[ents[tree[k]].name] = k

\* "first entry at or after offs, NULL if unknown" (dummyfs_internal.h:82).
HintRight ==
  hint.entry # None =>
    /\ hint.entry \in DOMAIN ents /\ hint.entry >= hint.offs
    /\ \A p \in DOMAIN ents : p >= hint.offs => hint.entry <= p

\* "deleting during a scan neither skips nor repeats an entry"
\* (dummyfs.c:830): a client never passes an entry that was there all along,
\* whatever others add, remove and read meanwhile, and gets none twice.  The
\* latter holds for a client that adds d_reclen unless a step was cut at 64 Ki.
ScanExact ==
  /\ \A p \in scan.steady : p < scan.at => \E i \in DOMAIN scan.got : scan.got[i] = p
  /\ ~scan.capped => \A i, j \in DOMAIN scan.got : i < j => scan.got[i] < scan.got[j]
=============================================================================
