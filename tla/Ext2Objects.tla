----------------------------- MODULE Ext2Objects -----------------------------
(***************************************************************************)
(* The objects of ext2: the cache of inodes with its reference counts and  *)
(* LRU list (obj.c), the inode allocator (inode.c), the requests on names  *)
(* and objects (ext2.c, libext2.c) and mounting.                           *)
(*                                                                         *)
(* fs->lock makes every request one step. A request is a chain of          *)
(* operators on a record s of the variables; the accesses to the disk and  *)
(* the allocations of memory it makes are counted in s.n, and those whose  *)
(* numbers are in s.bad fail. Contents of files and the layout of          *)
(* directories are left to Ext2Blocks and Ext2Dir: here a directory is a   *)
(* set of entries, and a file has no contents.                             *)
(***************************************************************************)
EXTENDS Integers, Sequences, FiniteSets, FiniteSetsExt, SequencesExt, TLC

CONSTANTS
  Groups,       \* fs->groups
  GroupInodes,  \* fs->sb->groupInodes
  FirstIno,     \* EXT2_FIRST_INO
  MaxObjects,   \* MAX_OBJECTS
  Rooms,        \* the sets of groups that can have free blocks
  Names,        \* names of entries
  MaxOpen,      \* bound: descriptors open at a time
  MaxLinks,     \* bound: names of an inode
  MaxFaults,    \* bound: failures in a behaviour
  MaxOps,       \* bound: requests in a behaviour
  MaxOdd        \* bound: kinds of irregular use after which requests are followed

Root == 2
Inos == 1..(Groups * GroupInodes)
GroupNos == 0..(Groups - 1)
Types == {"dir", "file", "dev"}

VARIABLES
  cache,    \* fs->objs->used: the objects in memory, by inode number
  lru,      \* fs->objs->lru
  disk,     \* the inode table
  bmp,      \* the inode bitmaps: the inodes in use
  gdt, sb,  \* free inodes and directories by group; free inodes (in memory)
  onDisk,   \* gdt and sb as they were last written
  ents,     \* the entries of the directories, by inode
  mounted,
  opens,    \* descriptors the clients hold, by inode
  seen,     \* an inode number a client has looked up (0 if none)
  ops,      \* requests so far
  faults,   \* failures so far
  odd,      \* the kinds of irregular use so far
  orphans,  \* inodes in use that had no name when the server crashed
  broken    \* the server followed a link of an object that is on no list

state == <<cache, lru, disk, bmp, gdt, sb, onDisk, ents, odd, broken>>
vars == <<state, mounted, opens, seen, ops, faults, orphans>>

State == [cache |-> cache, lru |-> lru, disk |-> disk, bmp |-> bmp, gdt |-> gdt, sb |-> sb,
          onDisk |-> onDisk, ents |-> ents, odd |-> odd, broken |-> broken]

-----------------------------------------------------------------------------
(* Steps of a request                                                      *)

Access(s) == [s EXCEPT !.n = @ + 1, !.err = s.n + 1 \in s.bad]
Fail(s) == [s EXCEPT !.err = TRUE]
Ok(s) == [s EXCEPT !.err = FALSE]
\* What follows a step: always, after success, after an error. A server that
\* has died goes no further.
On(s, Op(_)) == IF s.broken THEN s ELSE Op(s)
Then(s, Op(_)) == IF s.broken \/ s.err THEN s ELSE Op(s)
Else(s, Op(_)) == IF s.broken \/ ~s.err THEN s ELSE Op(Ok(s))

\* What follows also runs after an error, which is returned in the end.
Finally(s, Op(_)) == IF s.broken THEN s ELSE [Op(Ok(s)) EXCEPT !.err = s.err]

Odd(s, kind) == [s EXCEPT !.odd = @ \cup {kind}]

GroupOf(i) == (i - 1) \div GroupInodes
Without(f, i) == [j \in DOMAIN f \ {i} |-> f[j]]
IsDir(t) == IF t = "dir" THEN 1 ELSE 0

-----------------------------------------------------------------------------
(* Inodes (inode.c, gdt.c, sb.c)                                           *)

gdt_syncone(s, g) == Then(Access(s), LAMBDA r : [r EXCEPT !.onDisk.gdt[g] = r.gdt[g]])
sb_sync(s) == Then(Access(s), LAMBDA r : [r EXCEPT !.onDisk.sb = r.sb])

sb_init(s) == Then(Access(s), LAMBDA r : [r EXCEPT !.sb = r.onDisk.sb])
gdt_sync(s) == Then(Access(s), LAMBDA r : [r EXCEPT !.onDisk.gdt = r.gdt])
gdt_init(s) == Then(Access(s), LAMBDA r : [r EXCEPT !.gdt = r.onDisk.gdt])

inode_sync(s, i) ==
  Then(Access(s), LAMBDA r :
    [r EXCEPT !.disk[i] = [links |-> r.cache[i].links, type |-> r.cache[i].type]])

\* ext2_inode_init: the inode is read; its copy is made in Enter.
inode_init(s) == Access(s)

\* The bit of i and the counts of its group; d is 1 if i becomes free, else -1.
Counted(s, i, t, d) ==
  LET g == GroupOf(i) IN
  [s EXCEPT !.bmp = IF i \in @ THEN @ \ {i} ELSE @ \cup {i},
            !.gdt[g] = [free |-> @.free + d, dirs |-> @.dirs - d * IsDir(t)]]

\* Mutant of Toggle: a freed inode is not counted in the superblock.
ToggleOnce(s, i, t, d) ==
  Then(Access(s), LAMBDA w :
    Then(gdt_syncone(Counted(w, i, t, d), GroupOf(i)), LAMBDA r :
      sb_sync([r EXCEPT !.sb = IF d < 0 THEN @ - 1 ELSE @])))

\* The bitmap is written, then the descriptor of the group, then the
\* superblock. A failure of the second is undone if the bitmap can be written.
Toggle(s, i, t, d) ==
  Then(Access(s), LAMBDA w :
    On(gdt_syncone(Counted(w, i, t, d), GroupOf(i)), LAMBDA r :
      IF ~r.err THEN sb_sync([r EXCEPT !.sb = @ + d])
      ELSE On(Access(Ok(r)), LAMBDA u :
             Fail(IF u.err THEN sb_sync([Ok(u) EXCEPT !.sb = @ + d])
                  ELSE Counted(u, i, t, -d)))))

inode_destroy(s, i, t) ==
  IF i < FirstIno THEN Fail(s) ELSE Then(Access(s), LAMBDA r : Toggle(r, i, t, 1))

\* The first group of seq that passes Test; Groups if none does.
FirstGroup(seq, Test(_)) ==
  LET k == SelectInSeq(seq, Test) IN IF k = 0 THEN Groups ELSE seq[k]

Or(g, h) == IF g # Groups THEN g ELSE h

\* The groups from g on, all of them once.
Around(g) == [k \in 1..Groups |-> (g + k - 1) % Groups]

\* The groups tried at distances 1, 2, 4...
Hops(p) ==
  LET at[k \in 0..Groups] ==
        IF k = 0 THEN (GroupOf(p) + p) % Groups ELSE (at[k - 1] + 2 ^ (k - 1)) % Groups
  IN [k \in 1..Cardinality({j \in 0..Groups : 2 ^ j < Groups}) |-> at[k]]

\* ext2_inode_filegroup; roomy are the groups with free blocks.
filegroup(s, p, roomy) ==
  LET Free(g) == s.gdt[g].free > 0
      Both(g) == Free(g) /\ g \in roomy
  IN Or(FirstGroup(<<GroupOf(p)>> \o Hops(p), Both),
        FirstGroup(Around(GroupOf(p) + 1), Free))

\* ext2_inode_dirgroup, from group pg; roomy are the groups with as many free
\* blocks as the average.
dirgroup(s, pg, roomy) ==
  LET Many(g) == s.gdt[g].free >= s.sb \div Groups
      Both(g) == Many(g) /\ g \in roomy
      Free(g) == s.gdt[g].free > 0
  IN Or(FirstGroup(Around(pg), Both), Or(FirstGroup(Around(pg), Many), FirstGroup(Around(pg), Free)))

\* The group of a new inode below p. What the choice depends on besides is in c:
\* the state of the blocks and, below the root, rand().
Chances == [start : GroupNos, roomy : Rooms]

NewGroup(s, p, t, c) ==
  IF t = "dir" THEN dirgroup(s, IF p = Root THEN c.start ELSE GroupOf(p), c.roomy)
  ELSE filegroup(s, p, c.roomy)

Unused(s, g) == {i \in Inos : GroupOf(i) = g /\ i \notin s.bmp}

\* ext2_inode_create: s.ino is the new inode.
inode_create(s, g, t) ==
  IF g = Groups THEN Fail(s)
  ELSE Then(Access(s), LAMBDA r :
         IF Unused(s, g) = {} THEN Fail(r)
         ELSE LET i == Min(Unused(s, g)) IN Toggle([r EXCEPT !.ino = i], i, t, -1))

-----------------------------------------------------------------------------
(* Objects (obj.c)                                                         *)

Obj(inode, refs) ==
  [refs |-> refs, links |-> inode.links, type |-> inode.type, mp |-> FALSE, dirty |-> TRUE]

\* _ext2_obj_sync; the cached indirect blocks it writes are in Ext2Blocks.
obj_sync(s, i) ==
  IF ~s.cache[i].dirty THEN s
  ELSE Then(inode_sync(s, i), LAMBDA r : [r EXCEPT !.cache[i].dirty = FALSE])

\* ext2_obj_truncate to 0 or to another size.
obj_truncate(s, i) ==
  Then(Access(s), LAMBDA r : obj_sync([r EXCEPT !.cache[i].dirty = TRUE], i))

\* _ext2_obj_remove
Removed(s, i) == [s EXCEPT !.cache = Without(@, i)]

\* _ext2_obj_destroy. The entries of a directory go with its blocks.
obj_destroy(s, i, ignoreSync) ==
  On(Then(obj_truncate(s, i), LAMBDA r : [r EXCEPT !.ents[i] = {}]), LAMBDA t :
    IF t.err /\ ~ignoreSync THEN t
    ELSE On(Ok(inode_sync([Ok(t) EXCEPT !.cache[i].links = 0], i)), LAMBDA w :
           On(inode_destroy(w, i, w.cache[i].type), LAMBDA d :
             IF d.err /\ ~ignoreSync THEN d ELSE Removed(Ok(d), i))))

removelru(s) ==
  IF s.lru = <<>> THEN Fail(s)
  ELSE Then(obj_sync(s, Head(s.lru)), LAMBDA r :
         Removed([r EXCEPT !.lru = Tail(@)], Head(s.lru)))

\* The second half of _ext2_obj_create: an object for inode i. A number that
\* another object still has cannot be entered in the tree.
Enter(s, i, inode) ==
  LET full == Cardinality(DOMAIN s.cache) >= MaxObjects IN
  Then(IF full THEN removelru(s) ELSE s, LAMBDA r :
    Then(Access(r), LAMBDA a :
      IF i \in DOMAIN a.cache THEN [a EXCEPT !.broken = TRUE]
      ELSE [a EXCEPT !.cache = (i :> Obj(inode, 1)) @@ @]))

\* _ext2_obj_create with a new inode: one that gets no object is given back.
obj_create(s, p, t, c) ==
  Then(inode_create(s, NewGroup(s, p, t, c), t), LAMBDA r :
    Else(Then(Access(r), LAMBDA m : Enter(m, r.ino, [links |-> 0, type |-> t])),
         LAMBDA o : Fail(inode_destroy(o, r.ino, t))))

\* Whether a free inode is taken for an object.
Stale(s, i) == IF i \in s.bmp THEN s ELSE Odd(s, "stale")

\* Mutant of obj_get: an inode that gets no object is given back here as well.
obj_getFrees(s, i) ==
  IF i \in DOMAIN s.cache
  THEN [s EXCEPT !.cache[i].refs = @ + 1,
                 !.lru = IF s.cache[i].refs = 0 /\ ~s.cache[i].mp THEN Remove(@, i) ELSE @]
  ELSE Then(inode_init(s), LAMBDA r :
         Else(Enter(Stale(r, i), i, r.disk[i]), LAMBDA o : Fail(inode_destroy(o, i, o.disk[i].type))))

\* ext2_obj_get; an error stands for NULL.
obj_get(s, i) ==
  IF i \in DOMAIN s.cache
  THEN LET idle == s.cache[i].refs = 0 /\ ~s.cache[i].mp IN
       [s EXCEPT !.cache[i].refs = @ + 1,
                 !.lru = IF idle THEN Remove(@, i) ELSE @,
                 !.broken = @ \/ (idle /\ ~Contains(s.lru, i))]
  ELSE Then(inode_init(s), LAMBDA r : Enter(Stale(r, i), i, r.disk[i]))

\* ext2_obj_put; the error of a deletion is ignored.
obj_put(s, i) ==
  LET r == [s EXCEPT !.cache[i].refs = @ - 1] IN
  IF i \notin DOMAIN s.cache THEN [s EXCEPT !.broken = TRUE]
  ELSE IF r.cache[i].refs > 0 \/ r.cache[i].mp THEN r
  ELSE IF r.cache[i].links = 0 THEN Ok(obj_destroy(r, i, FALSE))
  ELSE [r EXCEPT !.lru = Append(@, i)]

\* A request on the object of i: get, Op, put.
With(s, i, Op(_)) ==
  Then(obj_get(s, i), LAMBDA r : Finally(Op(r), LAMBDA u : obj_put(u, i)))

-----------------------------------------------------------------------------
(* Entries (dir.c; Ext2Dir has their layout)                               *)

Entry(n, i) == [name |-> n, ino |-> i]
Called(s, d, n) == {e \in s.ents[d] : e.name = n}

\* _ext2_dir_search: s.ino is the inode found, s.far that it is in a block after
\* the first.
dir_search(s, d, n) ==
  Then(Access(s), LAMBDA r :
    IF Called(s, d, n) = {} THEN Fail(r)
    ELSE [r EXCEPT !.ino = (CHOOSE e \in Called(s, d, n) : TRUE).ino])

\* The write of a directory block dirties its inode and syncs it.
Written(s, d) == obj_sync([s EXCEPT !.cache[d].dirty = TRUE], d)

\* _ext2_dir_add; it may be an entry of a directory that was removed meanwhile,
\* again "." and ".." of one that is linked anew, or a name that is there already.
dir_add(s, d, n, i) ==
  Then(Access(IF s.cache[d].links = 0 THEN Odd(s, "stale")
              ELSE IF Called(s, d, n) # {} THEN Odd(s, "twice") ELSE s), LAMBDA r :
    Written([r EXCEPT !.ents[d] = @ \cup {Entry(n, i)}], d))

dir_remove(s, d, n) ==
  Then(Access(s), LAMBDA r : Written([r EXCEPT !.ents[d] = @ \ {CHOOSE e \in @ : e.name = n}], d))

dir_empty(s, i) == \A e \in s.ents[i] : e.name \in {".", ".."}

-----------------------------------------------------------------------------
(* Requests (ext2.c)                                                       *)

Link(s, i, d) == [s EXCEPT !.cache[i].links = @ + d]
Dirty(s, i) == [s EXCEPT !.cache[i].dirty = TRUE]

\* The body of ext2_link, with both objects held. A search that fails for
\* whatever reason is taken for the absence of the name, and so is a name that is
\* found in a block after the first: _ext2_dir_search returns the block's offset.
Linked(s, d, n, i) ==
  LET f == dir_search(s, d, n)
      isDir == s.cache[i].type = "dir"
  IN IF s.cache[d].type # "dir" \/ (~f.err /\ ~s.far) \/ (isDir /\ s.cache[i].links > 0) THEN Fail(f)
     ELSE Then(dir_add(Ok(f), d, n, i), LAMBDA a :
            LET b == Dirty(Link(a, i, 1), i) IN
            IF ~isDir THEN obj_sync(b, i)
            ELSE Then(dir_add(b, i, ".", i), LAMBDA c :
                   Then(dir_add(Link(c, i, 1), i, "..", d), LAMBDA e :
                     Then(obj_sync(Dirty(Link(e, d, 1), d), d), LAMBDA g : obj_sync(g, i)))))

ext2_link(s, d, n, i) ==
  IF d = i THEN Fail(s)
  ELSE With(s, d, LAMBDA r : With(r, i, LAMBDA q : Linked(q, d, n, i)))

\* Mutant of Unlinked: the parent of a removed directory keeps its link.
UnlinkedParent(s, d, n, i) ==
  LET isDir == s.cache[i].type = "dir" IN
  IF isDir /\ (s.cache[i].mp \/ ~dir_empty(s, i)) THEN Fail(s)
  ELSE Then(dir_remove(s, d, n), LAMBDA r :
         On(Dirty(Link(r, i, IF isDir THEN -2 ELSE -1), i), LAMBDA u :
           IF ~isDir /\ u.cache[i].links > 0 THEN obj_sync(u, i) ELSE u))

\* The body of ext2_unlink, with both objects held.
Unlinked(s, d, n, i) ==
  LET isDir == s.cache[i].type = "dir" IN
  IF isDir /\ (s.cache[i].mp \/ ~dir_empty(s, i)) THEN Fail(s)
  ELSE Then(dir_remove(s, d, n), LAMBDA r :
         On(IF r.cache[i].links > 1 THEN Dirty(Link(r, i, -1), i) ELSE Link(r, i, -1), LAMBDA u :
           IF isDir THEN obj_sync(Link(Dirty(Link(u, d, -1), d), i, -1), d)
           ELSE IF u.cache[i].links > 0 THEN obj_sync(u, i)
           ELSE u))

ext2_unlink(s, d, n) ==
  With(s, d, LAMBDA r :
    IF r.cache[d].type # "dir" THEN Fail(r)
    ELSE Then(dir_search(r, d, n), LAMBDA f :
           On(obj_get(f, f.ino), LAMBDA o :
             IF o.err THEN Fail(dir_remove(Odd(Ok(o), "dropped"), d, n))
             ELSE Finally(Unlinked(o, d, n, f.ino), LAMBDA u : obj_put(u, f.ino)))))

ext2_create(s, d, n, t, c) ==
  Then(obj_create(s, d, t, c), LAMBDA r :
    On(ext2_link(r, d, n, r.ino), LAMBDA l :
      IF l.err THEN Fail(obj_destroy(Ok(l), r.ino, FALSE))
      ELSE obj_put([l EXCEPT !.ino = r.ino, !.cache[r.ino].mp = t = "dev"], r.ino)))

\* It asks neither for references nor for names.
ext2_destroy(s, i) ==
  Then(obj_get(s, i), LAMBDA r :
    On(Then(obj_sync(Odd(r, "destroyed"), i), LAMBDA q : obj_truncate(q, i)), LAMBDA u :
      IF u.err THEN Finally(u, LAMBDA q : obj_put(q, i)) ELSE obj_destroy(u, i, FALSE)))

\* One name of a path, below the object held in s.dir. A name whose inode
\* cannot be brought into memory is removed.
LookupName(s, n) ==
  IF s.err \/ s.stop THEN s
  ELSE Then(Finally(
         Then(IF s.cache[s.dir].type # "dir" THEN Fail(s) ELSE dir_search(s, s.dir, n), LAMBDA f :
           Else(obj_get(f, f.ino), LAMBDA o : Fail(dir_remove(Odd(o, "dropped"), s.dir, n)))),
         LAMBDA r : obj_put(r, s.dir)), LAMBDA u :
           [u EXCEPT !.dir = u.ino,
                     !.stop = u.cache[u.ino].mp /\ u.cache[u.ino].type = "dir"])

ext2_lookup(s, d, path) ==
  Then(obj_get(s, d), LAMBDA r :
    Then(FoldLeft(LookupName, [r EXCEPT !.dir = d, !.stop = FALSE], path), LAMBDA u :
      obj_put([u EXCEPT !.ino = u.dir], u.dir)))

\* Mutant of ext2_close: only its own reference is given back.
ext2_closeOnce(s, i) ==
  Then(obj_get(s, i), LAMBDA r : Then(obj_sync(r, i), LAMBDA u : obj_put(u, i)))

\* It gives back its own reference and that of ext2_open, unless the sync fails.
ext2_close(s, i) ==
  Then(obj_get(s, i), LAMBDA r :
    Then(obj_sync(r, i), LAMBDA u : obj_put(obj_put(u, i), i)))

ext2_write(s, i) == With(s, i, LAMBDA r : Then(Access(r), LAMBDA w : Written(w, i)))

ext2_truncate(s, i) ==
  With(s, i, LAMBDA r :
    IF r.cache[i].type # "file" THEN Fail(r) ELSE Then(obj_truncate(r, i), sb_sync))

\* ext2_setattr: atDev with another object or with this one, or any other attribute.
ext2_setattr(s, i, attr) ==
  With(s, i, LAMBDA r :
    Written([r EXCEPT !.cache[i].mp = CASE attr = "mount" -> TRUE [] attr = "unmount" -> FALSE
                                        [] OTHER -> @], i))

Bound(s, i) == [s EXCEPT !.cache[i].mp = TRUE, !.cache[i].dirty = TRUE]

\* libext2_create. A device that lost its oid is given the new one, or makes
\* way for what is created; sym is the creation of a symbolic link.
libext2_create(s, d, n, t, sym, c) ==
  LET New(r) == Then(ext2_create(r, d, n, t, c), LAMBDA q :
                  IF ~sym THEN q
                  ELSE On(ext2_write(q, q.ino), LAMBDA w :
                         IF w.err THEN Fail(ext2_destroy(Ok(w), q.ino))
                         ELSE [w EXCEPT !.ino = q.ino]))
      Put(r) == obj_put(r, r.old)
      Replace(g) ==
        IF g.cache[g.old].type # "dev" \/ g.cache[g.old].mp THEN Fail(Put(g))
        ELSE IF t = "dev" THEN Finally(obj_sync(Bound(g, g.old), g.old), Put)
        ELSE [Then(Put(g), LAMBDA r : ext2_unlink(r, d, n)) EXCEPT !.gone = TRUE]
  IN On(On(ext2_lookup(s, d, <<n>>), LAMBDA f :
          IF f.err THEN [Ok(f) EXCEPT !.gone = TRUE]
          ELSE Then(obj_get([f EXCEPT !.old = f.ino], f.ino), Replace)), LAMBDA r :
       IF r.err \/ ~r.gone THEN r ELSE New(r))

\* ext2_objs_destroy, in the order of the inode numbers.
objs_destroy(s) ==
  LET Release(r, i) ==
        IF r.cache[i].links = 0 THEN Ok(obj_destroy(r, i, TRUE))
        ELSE Removed(Ok(obj_sync(r, i)), i)
  IN [FoldLeft(Release, s, SetToSortSeq(DOMAIN s.cache, <)) EXCEPT !.lru = <<>>]

\* ext2_objs_busy
busy == \E i \in DOMAIN cache \ {Root} : cache[i].refs > 0 /\ ~cache[i].mp

-----------------------------------------------------------------------------
(* The system: clients send requests, the disk may fail, the server may    *)
(* crash between two requests                                              *)

Init ==
  /\ cache = (Root :> Obj([links |-> 2, type |-> "dir"], 1))
  /\ lru = <<>>
  /\ disk = [i \in Inos |-> [links |-> IF i = Root THEN 2 ELSE 0,
                             type |-> IF i = Root THEN "dir" ELSE "file"]]
  /\ bmp = 1..(FirstIno - 1)
  /\ gdt = [g \in GroupNos |->
              [free |-> Cardinality({i \in Inos : GroupOf(i) = g /\ i >= FirstIno}),
               dirs |-> IF g = GroupOf(Root) THEN 1 ELSE 0]]
  /\ sb = Cardinality(Inos) - FirstIno + 1
  /\ onDisk = [gdt |-> gdt, sb |-> sb]
  /\ ents = [i \in Inos |-> IF i = Root THEN {Entry(".", Root), Entry("..", Root)} ELSE {}]
  /\ mounted = TRUE
  /\ opens = [i \in Inos |-> 0]
  /\ seen = 0 /\ ops = 0 /\ faults = 0 /\ odd = {} /\ orphans = {} /\ broken = FALSE

Start(bad) ==
  State @@ [n |-> 0, err |-> FALSE, bad |-> bad, ino |-> 0, old |-> 0, dir |-> 0,
            stop |-> FALSE, gone |-> FALSE, far |-> FALSE]

Becomes(r) ==
  /\ cache' = r.cache /\ lru' = r.lru /\ disk' = r.disk /\ bmp' = r.bmp /\ gdt' = r.gdt
  /\ sb' = r.sb /\ onDisk' = r.onDisk /\ ents' = r.ents /\ broken' = r.broken
  /\ odd' = r.odd \cup IF r.bad = {} THEN {} ELSE {"io"}

\* A request: Op with the failures of this run, After what the client makes of it.
Do(Op(_), After(_)) ==
  \E bad \in IF faults = MaxFaults THEN {{}} ELSE {{}} \cup {{k} : k \in 1..Op(Start({})).n} :
    \E r \in {Op(Start(bad))} :
      /\ Becomes(r)
      /\ faults' = faults + Cardinality(bad)
      /\ After(r)

Running == mounted /\ ~broken /\ ops < MaxOps /\ Cardinality(odd) <= MaxOdd
Request == Running /\ ops' = ops + 1
Keeps(r) == UNCHANGED <<opens, seen>>
Sees(r) == seen' = (IF r.err THEN seen ELSE r.ino) /\ UNCHANGED opens

Known == {seen} \ {0}
Dirs == {Root} \cup Known

\* Where the entry called n of directory d may lie, if there is one.
Far(d, n) == {FALSE} \cup {e.name = n : e \in ents[d]}

create(d, n, t, sym, c) ==
  /\ Request /\ (sym => t = "file") /\ (t # "dir" => c.start = 0)
  /\ \E far \in Far(d, n) :
       Do(LAMBDA s : libext2_create([s EXCEPT !.far = far], d, n, t, sym, c), Sees)
  /\ UNCHANGED <<mounted, orphans>>

lookup(d, path) ==
  /\ Request /\ Do(LAMBDA s : ext2_lookup(s, d, path), Sees)
  /\ UNCHANGED <<mounted, orphans>>

open(i) ==
  /\ Request /\ MapThenSumSet(LAMBDA j : opens[j], Inos) < MaxOpen
  /\ Do(LAMBDA s : obj_get(s, i),
        LAMBDA r : opens' = [opens EXCEPT ![i] = @ + IF r.err THEN 0 ELSE 1] /\ UNCHANGED seen)
  /\ UNCHANGED <<mounted, orphans>>

close(i) ==
  /\ Request /\ opens[i] > 0
  /\ Do(LAMBDA s : ext2_close(s, i),
        LAMBDA r : opens' = [opens EXCEPT ![i] = @ - 1] /\ UNCHANGED seen)
  /\ UNCHANGED <<mounted, orphans>>

link(d, n, i) ==
  /\ Request /\ Cardinality({e \in ents[d] : e.ino = i}) < MaxLinks
  /\ \E far \in Far(d, n) : Do(LAMBDA s : ext2_link([s EXCEPT !.far = far], d, n, i), Keeps)
  /\ UNCHANGED <<mounted, orphans>>

unlink(d, n) ==
  /\ Request /\ Do(LAMBDA s : ext2_unlink(s, d, n), Keeps)
  /\ UNCHANGED <<mounted, orphans>>

destroy(i) ==
  /\ Request /\ Do(LAMBDA s : ext2_destroy(s, i), Keeps)
  /\ UNCHANGED <<mounted, orphans>>

setattr(i, attr) ==
  /\ Request /\ Do(LAMBDA s : ext2_setattr(s, i, attr), Keeps)
  /\ UNCHANGED <<mounted, orphans>>

write(i) ==
  /\ Request /\ Do(LAMBDA s : ext2_write(s, i), Keeps)
  /\ UNCHANGED <<mounted, orphans>>

truncate(i) ==
  /\ Request /\ Do(LAMBDA s : ext2_truncate(s, i), Keeps)
  /\ UNCHANGED <<mounted, orphans>>

\* ext2_read and ext2_readdir hold the object and change nothing here.
read(i) ==
  /\ Request /\ Do(LAMBDA s : With(s, i, LAMBDA r : r), Keeps)
  /\ UNCHANGED <<mounted, orphans>>

\* Neither do ext2_getattr and ext2_getattrAll.
getattr(i) ==
  /\ Request /\ Do(LAMBDA s : With(s, i, LAMBDA r : r), Keeps)
  /\ UNCHANGED <<mounted, orphans>>

\* libext2_unmount, which the driver calls if no object is busy.
unmount ==
  /\ Request /\ ~busy
  /\ Do(LAMBDA s : Ok(sb_sync(Ok(gdt_sync(objs_destroy(s))))), LAMBDA r : opens' = [i \in Inos |-> 0] /\ seen' = 0)
  /\ mounted' = FALSE /\ UNCHANGED orphans

\* i is in a directory under a name of its own.
Named(i) == \E d \in bmp : \E e \in ents[d] : e.ino = i /\ e.name \in Names

\* The entries for i in the directories that have a name, and in the root.
Count(i) ==
  MapThenSumSet(LAMBDA d : Cardinality({e \in ents[d] : e.ino = i}),
                {d \in bmp : d = Root \/ Named(d)})

\* The server dies between two requests; what it had in memory is lost.
crash ==
  /\ Running
  /\ cache' = <<>> /\ lru' = <<>>
  /\ orphans' = orphans \cup {i \in bmp : i >= FirstIno /\ Count(i) = 0}
  /\ mounted' = FALSE /\ opens' = [i \in Inos |-> 0] /\ seen' = 0
  /\ UNCHANGED <<disk, bmp, gdt, sb, onDisk, ents, ops, faults, odd, broken>>

\* libext2_mount, libext2_storage_mount
mount ==
  /\ ~mounted
  /\ Do(LAMBDA s : Then(sb_init(s), LAMBDA r : Then(gdt_init(r), LAMBDA q : obj_get(q, Root))),
        LAMBDA r : mounted' = ~r.err /\ Keeps(r))
  /\ UNCHANGED <<ops, orphans>>

Next ==
  \/ \E d \in Dirs, n \in Names :
       \/ \E t \in Types, sym \in BOOLEAN, c \in Chances : create(d, n, t, sym, c)
       \/ \E i \in Known \cup {j \in Inos : opens[j] > 0} : link(d, n, i)
       \/ unlink(d, n)
  \/ \E d \in Dirs, path \in SeqOf(Names, 2) \ {<<>>} : lookup(d, path)
  \/ \E i \in Known :
       \/ open(i) \/ destroy(i) \/ write(i) \/ truncate(i) \/ read(i) \/ getattr(i)
       \/ \E attr \in {"mount", "unmount", "mode"} : setattr(i, attr)
  \/ \E i \in Inos : close(i)
  \/ unmount \/ crash \/ mount

Spec == Init /\ [][Next]_vars

-----------------------------------------------------------------------------
(* Properties. Several hold as long as no use was irregular: no failure of *)
(* the disk or of an allocation ("io"), no request for an inode or in a    *)
(* directory that was deleted since the client looked it up ("stale"), no  *)
(* name dropped by a lookup that found no room for the object ("dropped"), *)
(* no name added twice by a link ("twice"; Ext2Dir), no mtDestroy          *)
(* ("destroyed").                                                          *)

Regular == odd = {}

\* ext2_link and ext2_unlink keep the link counts: the count of an inode that
\* has a name, in memory or else on disk, is the number of entries for it, "."
\* and ".." included; and every entry is for an inode in use. "ext2 writes its
\* metadata through on every operation" (libext2_sync): between two requests the
\* inode on disk has the link count of the names on disk, so a crash loses none.
NamesExact ==
  Regular =>
    /\ \A i \in bmp : i = Root \/ Named(i) =>
         Count(i) = IF i \in DOMAIN cache THEN cache[i].links ELSE disk[i].links
    /\ \A d \in bmp : d = Root \/ Named(d) => \A e \in ents[d] : e.ino \in bmp
    /\ \A i \in bmp : i = Root \/ Named(i) => disk[i].links = Count(i)

\* ext2_inode_create and ext2_inode_destroy: an inode is in use exactly while it
\* has a name, is open, or stands for another object; and the counts of the
\* groups and of the superblock, in memory and on disk, agree with the bitmaps.
\* Only a crash leaves an inode in use for nobody. While an inode is free, a new
\* file gets a group that has one, whatever its parent and wherever blocks are
\* free (ext2_inode_filegroup).
InodesExact ==
  Regular =>
    /\ \A i \in FirstIno..(Groups * GroupInodes) :
         i \in bmp <=> Named(i) \/ opens[i] > 0 \/ i \in orphans
                      \/ (i \in DOMAIN cache /\ cache[i].mp)
    /\ \A g \in GroupNos : gdt[g].free = Cardinality(Unused(State, g))
    /\ sb = Cardinality(Inos \ bmp)
    /\ onDisk = [gdt |-> gdt, sb |-> sb]
    /\ bmp # Inos =>
         \A p \in bmp \ {1}, roomy \in SUBSET GroupNos :
           LET g == filegroup(State, p, roomy) IN g # Groups /\ Unused(State, g) # {}

\* ext2_obj_get and ext2_obj_put: between two requests an object has the
\* references of its open descriptors, and the root one more; it is on the LRU
\* list, once, exactly if it may be evicted; the cache is within its limit.
ObjectsHeld ==
  Regular =>
    /\ \A i \in DOMAIN cache :
         /\ cache[i].refs = opens[i] + IF i = Root THEN 1 ELSE 0
         /\ Len(SelectSeq(lru, LAMBDA j : j = i)) =
              IF cache[i].refs = 0 /\ ~cache[i].mp THEN 1 ELSE 0
    /\ \A i \in Inos : opens[i] > 0 => i \in DOMAIN cache
    /\ Cardinality(DOMAIN cache) <= MaxObjects
    /\ ~broken

\* _ext2_obj_create gives an inode back only if it allocated it: whatever fails
\* in a request, it frees no inode that was in use before and keeps its name. That
\* would give the inode to the next file as well ("freeing it marks a directory
\* that is still referenced as available", obj.c). Nothing is said of the inode
\* that a create takes itself: when the link fails after it has added the entry
\* (ext2.c:591-621), ext2_create frees the inode and the entry stays. The inode of
\* a device may be freed and taken again within one request, by what is created in
\* its place.
FreedUnnamed ==
  [][Regular /\ odd' \subseteq {"io", "dropped"} =>
       \A i \in bmp \ bmp' : disk[i].type # "dev" => ~Named(i)']_vars
=============================================================================
