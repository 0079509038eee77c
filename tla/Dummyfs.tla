------------------------------ MODULE Dummyfs -------------------------------
(***************************************************************************)
(* The objects of dummyfs (dummyfs/dummyfs.c, object.c): creation and its  *)
(* error paths, links that replace what they find, unlink, references of   *)
(* open files, and destruction at the last put.  A directory is a function *)
(* from names to ids here (module DummyfsDir has its insides).             *)
(*                                                                         *)
(* fs->mutex makes every request one step, and the references a request    *)
(* takes and gives back cancel out: what remains of them is that the last  *)
(* put destroys an unused object (Put).                                    *)
(***************************************************************************)
EXTENDS Integers, FiniteSets

CONSTANTS
  Ids,       \* object ids, the root's 0 among them
  Names,     \* names of entries
  Kinds,     \* kinds of objects that clients create
  MaxOpens,  \* bound: opens by clients at a time
  MaxFails   \* bound: requests that fail half way

Root == 0    \* DUMMYFS_ROOTID
None == -1

\* Symbolic links and devices are files here: they are linked alike.
ASSUME ConstantsAssumption ==
  /\ Ids \subseteq Nat /\ IsFiniteSet(Ids) /\ Root \in Ids /\ IsFiniteSet(Names)
  /\ "dir" \in Kinds /\ Kinds \subseteq {"dir", "file", "mapped"}
  /\ MaxOpens \in Nat /\ MaxFails \in Nat

VARIABLES
  obj,    \* ctx->dummytree: the objects by id
  opens,  \* how often clients hold each id open
  fails,  \* bound: requests that failed half way
  lost    \* history: ids whose links or references such a request left wrong

vars == <<obj, opens, fails, lost>>

-----------------------------------------------------------------------------
(* Directories and objects                                                 *)

IsDir(o) == o.kind = "dir"
Has(o, name) == IsDir(o) /\ name \in DOMAIN o.ents

Entries(o) == Cardinality(DOMAIN o.ents) + (IF o.dot THEN 1 ELSE 0) + (IF o.dotdot # None THEN 1 ELSE 0)

\* Mutant of dir_empty: counts one entry too few.
dir_emptyLax(o) == Entries(o) <= 3

dir_empty(o) == Entries(o) <= 2

\* dummyfs_dir_add and dummyfs_dir_replace.
With(o, name, id) ==
  [o EXCEPT !.ents = [n \in DOMAIN @ \cup {name} |-> IF n = name THEN id ELSE @[n]]]

dir_remove(o, name) == [o EXCEPT !.ents = [n \in DOMAIN @ \ {name} |-> @[n]]]

NewObject(kind) ==
  [kind |-> kind, nlink |-> 0, refs |-> 0, ents |-> <<>>, dot |-> FALSE, dotdot |-> None]

\* idtree_alloc gives the lowest free id.
object_create == CHOOSE i \in Ids \ DOMAIN obj : \A j \in Ids \ DOMAIN obj : i <= j

\* Mutant of object_remove: the links are not looked at.
object_removeLinked(o) == o.refs = 0 /\ (IsDir(o) => dir_empty(o))

\* dummyfs_object_remove succeeds.
object_remove(o) == o.nlink = 0 /\ o.refs = 0 /\ (IsDir(o) => dir_empty(o))

\* The objects m after the last put of each of ids: the unused are destroyed.
Put(m, ids) == [i \in {j \in DOMAIN m : j \in ids => ~object_remove(m[j])} |-> m[i]]

-----------------------------------------------------------------------------
(* _dummyfs_link                                                           *)

\* A directory about to be linked into d: dummyfs_dir_init and both dots.
DirInit(o, d) == [o EXCEPT !.ents = <<>>, !.dot = TRUE, !.dotdot = d]

\* Mutant of Counted: a new directory's "." is not counted.
CountedOnce(m, d, o) ==
  IF IsDir(m[o])
  THEN LET c == [m EXCEPT ![o] = [DirInit(@, d) EXCEPT !.nlink = 1]]
       IN [c EXCEPT ![d].nlink = @ + 1]
  ELSE [m EXCEPT ![o].nlink = @ + 1]

\* The objects before the entry of o is added to d: both dots are links.
Counted(m, d, o) ==
  IF IsDir(m[o])
  THEN LET c == [m EXCEPT ![o] = [DirInit(@, d) EXCEPT !.nlink = 2]]
       IN [c EXCEPT ![d].nlink = @ + 1]
  ELSE [m EXCEPT ![o].nlink = @ + 1]

\* "Explicitly disallow overwriting directories and linking to self"
Victims(m, d, name, o) ==
  IF Has(m[d], name) /\ ~IsDir(m[m[d].ents[name]]) /\ m[d].ents[name] # o
  THEN {m[d].ents[name]} ELSE {}

\* dummyfs_dir_add reports EEXIST.
Exists(m, d, name, o) == Has(m[d], name) /\ Victims(m, d, name, o) = {}

\* Mutant of Linked: the object that loses its name keeps its link.
LinkedOver(m, d, name, o) == LET c == Counted(m, d, o) IN [c EXCEPT ![d] = With(@, name, o)]

Linked(m, d, name, o) ==
  LET c == Counted(m, d, o)
      v == Victims(c, d, name, o)
  IN [i \in DOMAIN c |->
        LET e == IF i = d THEN With(c[i], name, o) ELSE c[i]
        IN IF i \in v THEN [e EXCEPT !.nlink = @ - 1] ELSE e]

\* The objects after an allocation failed at one of the three dummyfs_dir_add
\* calls, or the last of them refused the name: only the links of o are taken
\* back, and those only at the last.
LinkFailed(m, d, o, at) ==
  IF ~IsDir(m[o]) THEN m
  ELSE IF at = "entry" THEN [Counted(m, d, o) EXCEPT ![o].nlink = @ - 2]
  ELSE [m EXCEPT ![o] = [DirInit(@, None) EXCEPT !.nlink = 1, !.dot = (at = "dotdot")]]

\* What such a failure leaves wrong.
FailLost(m, d, o, at) ==
  IF ~IsDir(m[o]) THEN {} ELSE IF at = "entry" THEN {d} ELSE {o}

-----------------------------------------------------------------------------
(* Requests.  Clients use the ids of objects that they were given before.   *)

Live == DOMAIN obj

\* _dummyfs_create.  A failure to write the target of a symbolic link unlinks
\* it again, which leaves nothing behind.
create(d, name, kind) ==
  /\ IsDir(obj[d]) /\ ~Has(obj[d], name) /\ Ids # Live
  /\ LET o == object_create
         m == [i \in Live \cup {o} |-> IF i = o THEN NewObject(kind) ELSE obj[i]]
     IN \/ /\ obj' = Linked(m, d, name, o)
           /\ UNCHANGED <<fails, lost>>
        \/ \E at \in {"dot", "dotdot", "entry"} :
             /\ kind = "dir" /\ fails < MaxFails
             /\ obj' = Put(LinkFailed(m, d, o, at), {d, o})
             /\ fails' = fails + 1
             /\ lost' = lost \cup FailLost(m, d, o, at)
  /\ UNCHANGED opens

\* dummyfs_link of a file; a failure leaves nothing behind.
link(d, name, o) ==
  /\ IsDir(obj[d]) /\ ~IsDir(obj[o])
  /\ ~Exists(obj, d, name, o)
  /\ obj' = Put(Linked(obj, d, name, o), {d, o} \cup Victims(obj, d, name, o))
  /\ UNCHANGED <<opens, fails, lost>>

\* dummyfs_link of a directory without links: the root while it has no
\* directories in it, or one that was removed while open.  It is emptied, also
\* when the link fails.
relink(d, name, o) ==
  /\ IsDir(obj[d]) /\ IsDir(obj[o]) /\ obj[o].nlink = 0
  /\ fails < MaxFails /\ fails' = fails + 1
  /\ LET c        == Counted(obj, d, o)
         contents == {obj[o].ents[n] : n \in DOMAIN obj[o].ents}
     IN \/ /\ ~Exists(c, d, name, o)
           /\ obj' = Put(Linked(obj, d, name, o), {d, o} \cup Victims(c, d, name, o))
           /\ lost' = lost \cup contents
        \/ \E at \in {"dot", "dotdot", "entry"} :
             /\ obj' = Put(LinkFailed(obj, d, o, at), {d, o})
             /\ lost' = lost \cup contents \cup FailLost(obj, d, o, at)
  /\ UNCHANGED opens

Unlinked(d, name) ==
  LET o == obj[d].ents[name]
      r == [obj EXCEPT ![d] = dir_remove(@, name)]
  IN IF IsDir(obj[o]) THEN [[r EXCEPT ![o].nlink = @ - 2] EXCEPT ![d].nlink = @ - 1]
     ELSE [r EXCEPT ![o].nlink = @ - 1]

unlink(d, name) ==
  /\ Has(obj[d], name)
  /\ LET o == obj[d].ents[name]
     IN /\ o # Root
        /\ IsDir(obj[o]) => dir_empty(obj[o])
        /\ obj' = Put(Unlinked(d, name), {d, o})
  /\ UNCHANGED <<opens, fails, lost>>

\* dummyfs_lookup: the ids one component of a path leads to from d.  From the
\* root, ".." leads out of the file system.
Reached(d) ==
  {obj[d].ents[n] : n \in DOMAIN obj[d].ents}
    \cup (IF d = Root THEN {} ELSE {obj[d].dotdot} \ {None})

OpenCount == Cardinality({h \in Ids \X (1..MaxOpens) : h[2] <= opens[h[1]]})

open(o) ==
  /\ OpenCount < MaxOpens
  /\ obj' = [obj EXCEPT ![o].refs = @ + 1]
  /\ opens' = [opens EXCEPT ![o] = @ + 1]
  /\ UNCHANGED <<fails, lost>>

close(o) ==
  /\ opens[o] > 0
  /\ obj' = Put([obj EXCEPT ![o].refs = @ - 1], {o})
  /\ opens' = [opens EXCEPT ![o] = @ - 1]
  /\ UNCHANGED <<fails, lost>>

\* _dummyfs_truncate of a mapped file returns with the reference it took.
truncate(o) ==
  /\ obj[o].kind = "mapped" /\ fails < MaxFails
  /\ obj' = [obj EXCEPT ![o].refs = @ + 1]
  /\ fails' = fails + 1 /\ lost' = lost \cup {o}
  /\ UNCHANGED opens

\* dummyfs_destroy, and any request that only takes and gives back an object.
destroy(o) ==
  /\ obj' = Put(obj, {o})
  /\ UNCHANGED <<opens, fails, lost>>

-----------------------------------------------------------------------------
\* dummyfs_alloc: the root has the reference it was created with.
Init ==
  /\ obj = [i \in {Root} |-> [DirInit(NewObject("dir"), Root) EXCEPT !.refs = 1]]
  /\ opens = [i \in Ids |-> 0]
  /\ fails = 0 /\ lost = {}

Next ==
  \/ \E d \in Live, name \in Names :
       \/ \E kind \in Kinds : create(d, name, kind)
       \/ \E o \in Live : link(d, name, o) \/ relink(d, name, o)
       \/ unlink(d, name)
  \/ \E o \in Live : open(o) \/ close(o) \/ truncate(o) \/ destroy(o)

Spec == Init /\ [][Next]_vars

-----------------------------------------------------------------------------
(* Properties                                                              *)

Ents == UNION {[S -> Ids] : S \in SUBSET Names}
Object ==
  [kind : Kinds, nlink : Nat, refs : Nat, ents : Ents, dot : BOOLEAN, dotdot : Ids \cup {None}]

\* Types of the variables: among them "assert((o->nlink >= 0) && (o->refs >= 0))"
\* (object.c:59).
TypeOK ==
  /\ Live \subseteq Ids /\ \A i \in Live : obj[i] \in Object
  /\ opens \in [Ids -> Nat] /\ fails \in 0..MaxFails /\ lost \subseteq Ids

\* The entries that name o, as pairs of a directory and a name.
LinksIn(m, o) == {e \in (DOMAIN m) \X Names : Has(m[e[1]], e[2]) /\ m[e[1]].ents[e[2]] = o}
Links(o) == LinksIn(obj, o)

SubdirsIn(m, o) == {n \in DOMAIN m[o].ents : IsDir(m[m[o].ents[n]])}

\* What the link count of o is there to count.
Count(m, o) ==
  IF IsDir(m[o]) THEN 2 * Cardinality(LinksIn(m, o)) + Cardinality(SubdirsIn(m, o))
  ELSE Cardinality(LinksIn(m, o))

\* "assert(victim_o != NULL)", "assert(o != NULL)" (dummyfs.c:589, 664): an
\* entry names an object that exists, and the ".." of a directory that has a
\* name leads to the directory that has it: a lookup from there finds objects.
EntriesLive ==
  /\ \A d \in Live : \A n \in DOMAIN obj[d].ents : obj[d].ents[n] \in Live
  /\ \A d \in Live : \A n \in SubdirsIn(obj, d) : obj[obj[d].ents[n]].dotdot = d
  /\ \A d \in Live : d = Root \/ Links(d) # {} => Reached(d) \subseteq Live

\* A link count is the number of names, and for a directory that of its dots
\* and of the directories in it, whatever links replaced.
LinksRight == \A o \in Live \ lost : obj[o].nlink = Count(obj, o)

\* What a client holds open exists, and what nobody holds or names is gone,
\* but for a directory that was removed while open and filled again.
NeitherEarlyNorLate ==
  /\ \A o \in Ids : opens[o] > 0 => o \in Live
  /\ \A o \in Live \ (lost \cup {Root}) :
       opens[o] = 0 /\ Links(o) = {} => IsDir(obj[o]) /\ DOMAIN obj[o].ents # {}
=============================================================================
