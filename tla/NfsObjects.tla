------------------------------ MODULE NfsObjects ------------------------------
(***************************************************************************)
(* The NFS client: the table of nodes (nfs_node.c), the cached handles and *)
(* attributes, and the requests of nfs_ops.c that use them.                *)
(*                                                                         *)
(* One thread serves every request, so a request is one step: a chain of   *)
(* operators on a record s of the variables. The calls it makes to libnfs  *)
(* and the allocations of nodes are numbered in s.n, and s.bad tells which *)
(* of them fail, and how. The server, its files and libnfs are modelled as *)
(* far as the client can tell; a listing is modelled in NfsListing.        *)
(***************************************************************************)
EXTENDS Integers, Sequences, FiniteSets, SequencesExt, TLC

CONSTANTS
  Names,         \* names of entries
  MaxDepth,      \* bound: names in a path
  NFS_IDLE_MAX,  \* handles kept after the last close
  NFS_RECLAIM_MAX,  \* how often a request rebuilds the client
  MaxSize,       \* bound: units of data in a file (a WRITE carries one)
  MaxIno,        \* bound: files the export has ever had
  MaxOpen,       \* bound: opens the clients hold at a time
  MaxNodes,      \* bound: nodes ever made
  MaxOps,        \* bound: requests in a behaviour
  MaxFaults,     \* bound: failures in a behaviour
  MaxOdd         \* bound: kinds of irregular use after which requests are followed

NFS_ROOTID == 0
Null == 0
NoAttr == [ino |-> 0]
NoFh == [ino |-> 0]
Types == {"file", "dir", "symlink", "dev"}

VARIABLES
  nodes,    \* fs->nodes.byId; byPath holds those that are not detached
  idle,     \* fs->nodes.idleHead ... idleTail
  nextId,   \* fs->nodes.nextId
  scan,     \* fs->scanNode, the one node that holds a listing (NoScan if none)
  dead,     \* fs->nfs has no socket: an earlier call was abandoned
  live,     \* handles opened in fs->nfs and not closed
  lapsed,   \* server: the client's state is discarded
  names,    \* server: the file each path names
  files,    \* server: type and data of the files
  opens,    \* opens the clients have not closed, by node id
  ops, faults,
  odd,      \* the kinds of irregular use so far
  wrong     \* what has gone wrong: see the properties

state == <<nodes, idle, nextId, scan, dead, live, lapsed, names, files, odd, wrong>>
vars == <<state, opens, ops, faults>>

NoScan == 1000
State == [nodes |-> nodes, idle |-> idle, nextId |-> nextId, scan |-> scan, dead |-> dead,
          live |-> live, lapsed |-> lapsed, names |-> names, files |-> files,
          odd |-> odd, wrong |-> wrong]

-----------------------------------------------------------------------------
(* Steps of a request                                                      *)

On(s, Op(_)) == Op(s)
Then(s, Op(_)) == IF s.rc = "ok" THEN Op(s) ELSE s
Rc(s, rc) == [s EXCEPT !.rc = rc]
Odd(s, kind) == [s EXCEPT !.odd = @ \cup {kind}]
Wrong(s, what) == [s EXCEPT !.wrong = @ \cup {what}]
Without(f, i) == [j \in DOMAIN f \ {i} |-> f[j]]

\* A call to libnfs, which the server answers with Op(s). A stateful one needs
\* the state the server keeps for the client. It can fail without being made
\* ("eio": 25 attempts where the code retries), be abandoned before or after it
\* is made, and fails at once on a context that has been abandoned.
Call(s, stateful, Op(_)) ==
  LET k == s.n + 1
      t == [s EXCEPT !.n = k, !.calls = @ + 1]
      how == IF k \in DOMAIN s.bad THEN s.bad[k] ELSE "none"
  IN IF s.dead
     THEN Rc(IF s.calls = 0 /\ ~s.tried THEN Wrong(t, "dead") ELSE t, "timeout")
     ELSE CASE how = "eio" -> Rc(t, "eio")
            [] how = "lost" -> Rc([t EXCEPT !.dead = TRUE], "timeout")
            [] how = "done" ->
                 On(Op(Rc(t, "ok")), LAMBDA u :
                   Rc([IF u.names = t.names /\ u.files = t.files THEN u ELSE Odd(u, "lost")
                         EXCEPT !.dead = TRUE], "timeout"))
            [] OTHER -> IF stateful /\ s.lapsed THEN Rc(t, "expired") ELSE Op(Rc(t, "ok"))

\* An allocation of memory.
Alloc(s) ==
  LET k == s.n + 1 IN Rc([s EXCEPT !.n = k], IF k \in DOMAIN s.bad THEN "nomem" ELSE "ok")

-----------------------------------------------------------------------------
(* The server                                                              *)

Parent(p) == SubSeq(p, 1, Len(p) - 1)
Exists(s, p) == p = <<>> \/ p \in DOMAIN s.names
IsDir(s, p) == p = <<>> \/ (p \in DOMAIN s.names /\ s.files[s.names[p]].type = "dir")
\* What stands for the times and links of a directory.
Children(s, p) == Cardinality({q \in DOMAIN s.names : Parent(q) = p})
NamesOf(s, i) == {p \in DOMAIN s.names : s.names[p] = i}

StatOf(s, p) ==
  IF p = <<>> THEN [ino |-> MaxIno + 1, type |-> "dir", nlink |-> 1, size |-> Children(s, p)]
  ELSE [ino |-> s.names[p], type |-> s.files[s.names[p]].type,
        nlink |-> Cardinality(NamesOf(s, s.names[p])),
        size |-> IF IsDir(s, p) THEN Children(s, p) ELSE Len(s.files[s.names[p]].data)]

lstat64(s, p) ==
  Call(s, FALSE, LAMBDA t : IF Exists(t, p) THEN [t EXCEPT !.st = StatOf(t, p)]
                            ELSE Rc(t, "enoent"))

OpenFh(s, p, rw) ==
  Then(Call(s, TRUE, LAMBDA t : IF Exists(t, p) THEN t ELSE Rc(t, "enoent")), LAMBDA t :
    [t EXCEPT !.fh = [ino |-> StatOf(t, p).ino, rw |-> rw, old |-> FALSE], !.live = @ + 1])

\* The handle is gone whatever the server answers.
CloseFh(s, fh) ==
  On(IF fh.old THEN Wrong(s, "handle") ELSE s, LAMBDA t :
    Rc(Call([t EXCEPT !.live = @ - 1], FALSE, LAMBDA u : u), s.rc))

NewFile(s, p, type) ==
  LET i == Len(s.files) + 1 IN
  [s EXCEPT !.files = Append(@, [type |-> type, data |-> <<>>]), !.names = @ @@ (p :> i)]

\* open2 with O_EXCL, mkdir2 and symlink.
MakeFile(s, p, type) ==
  Call(s, type = "file", LAMBDA t :
    IF Exists(t, p) THEN Rc(t, "eexist")
    ELSE IF ~IsDir(t, Parent(p)) THEN Rc(t, "enoent")
    ELSE NewFile(t, p, type))

\* rmdir and unlink.
RemoveName(s, p) ==
  Call(s, FALSE, LAMBDA t :
    IF ~Exists(t, p) THEN Rc(t, "enoent")
    ELSE IF IsDir(t, p) /\ \E q \in DOMAIN t.names : Parent(q) = p THEN Rc(t, "enotempty")
    ELSE [t EXCEPT !.names = Without(@, p)])

LinkName(s, p, q) ==
  Call(s, FALSE, LAMBDA t :
    IF ~Exists(t, p) \/ ~IsDir(t, Parent(q)) THEN Rc(t, "enoent")
    ELSE IF Exists(t, q) THEN Rc(t, "eexist")
    ELSE IF IsDir(t, p) THEN Rc(t, "eperm")
    ELSE [t EXCEPT !.names = @ @@ (q :> t.names[p])])

\* The data from offset o on become v; a gap is filled with 0.
Stored(data, o, v) ==
  [k \in 1..(IF Len(data) > o THEN Len(data) ELSE o + 1) |->
     IF k = o + 1 THEN v ELSE IF k <= Len(data) THEN data[k] ELSE 0]

Resized(data, n) == [k \in 1..n |-> IF k <= Len(data) THEN data[k] ELSE 0]

\* A request on node id changes the data of file i: what is cached about other
\* names of the file is kept.
Changed(s, id, i) ==
  IF NamesOf(s, i) \subseteq (IF s.nodes[id].detached THEN {} ELSE {s.nodes[id].path}) THEN s
  ELSE Odd(s, "sibling")

-----------------------------------------------------------------------------
(* Nodes (nfs_node.c)                                                      *)

Node(id, path) == [path |-> path, fh |-> NoFh, type |-> "unknown", refs |-> 0, mnt |-> FALSE,
                   attr |-> NoAttr, detached |-> FALSE, file |-> Null]

findPath(s, p) == {i \in DOMAIN s.nodes : s.nodes[i].path = p /\ ~s.nodes[i].detached}

\* Finds the node of a path or adds one; its id is put in s.id.
node_get(s, p) ==
  IF findPath(s, p) # {} THEN [s EXCEPT !.id = CHOOSE i \in findPath(s, p) : TRUE, !.rc = "ok"]
  ELSE Then(Alloc(s), LAMBDA t :
         [t EXCEPT !.nodes = @ @@ (t.nextId :> Node(t.nextId, p)), !.id = t.nextId,
                   !.nextId = @ + 1])

idleUnlink(s, id) == [s EXCEPT !.idle = SelectSeq(@, LAMBDA i : i # id)]
idlePush(s, id) ==
  IF id \in ToSet(s.idle) THEN s ELSE [s EXCEPT !.idle = <<id>> \o @]

node_remove(s, id) ==
  IF id = NFS_ROOTID THEN s ELSE [idleUnlink(s, id) EXCEPT !.nodes = Without(@, id)]

detachPath(s, id) ==
  IF id = NFS_ROOTID \/ s.nodes[id].detached THEN s
  ELSE [idleUnlink(s, id) EXCEPT !.nodes[id].detached = TRUE, !.nodes[id].attr = NoAttr]

attrDrop(s, id) == [s EXCEPT !.nodes[id].attr = NoAttr]

\* Mutant of attrDropByIno: only the node of the removed path is dropped (later).
attrDropByInoNone(s, ino) == s

attrDropByIno(s, ino) ==
  [s EXCEPT !.nodes = [i \in DOMAIN @ |->
     IF @[i].attr.ino = ino /\ ~@[i].mnt THEN [@[i] EXCEPT !.attr = NoAttr] ELSE @[i]]]

invalidateHandles(s) ==
  [s EXCEPT !.nodes = [i \in DOMAIN @ |-> [@[i] EXCEPT !.fh = NoFh, !.attr = NoAttr]],
            !.idle = <<>>]

-----------------------------------------------------------------------------
(* Rebuilding the client                                                   *)

\* The node holds the listing exactly while it is fs->scanNode.
dirDrop(s, id) == IF s.scan = id THEN [s EXCEPT !.scan = NoScan] ELSE s

\* The old context is destroyed, with the handles opened in it.
Destroyed(s) ==
  LET Old(fh) == IF fh = NoFh THEN fh ELSE [fh EXCEPT !.old = TRUE] IN
  [s EXCEPT !.nodes = [i \in DOMAIN @ |-> [@[i] EXCEPT !.fh = Old(@)]], !.fh = Old(@),
            !.live = 0]

\* A new context is made and mounted; the old one is kept if that fails. A
\* fresh context is not the dead one, so its mount is not a call on that.
reclaim(s) ==
  Then(Alloc(s), LAMBDA a :
    On(Call([a EXCEPT !.dead = FALSE], FALSE, LAMBDA t : [t EXCEPT !.lapsed = FALSE]), LAMBDA t :
      IF t.rc # "ok" THEN Rc([t EXCEPT !.dead = s.dead, !.tried = TRUE], "eio")
      ELSE Destroyed(invalidateHandles(dirDrop(t, t.scan)))))

isRecoverable(rc) == rc \in {"timeout", "expired"}

\* Rebuilds the client after rc if the budget allows; s.rc is "ok" then and
\* rc otherwise.
tryReclaim(s) ==
  IF s.budget = 0 \/ ~isRecoverable(s.rc) THEN s
  ELSE On(reclaim([s EXCEPT !.budget = @ - 1, !.rc = "ok"]), LAMBDA t :
         IF t.rc = "ok" THEN t ELSE Rc(t, s.rc))

\* Before every request (nfs_ops_recover).
ops_recover(s) ==
  IF s.dead THEN [Rc(reclaim(s), "ok") EXCEPT !.calls = 0, !.tried = TRUE] ELSE s

ops_renew(s) ==
  On(Call(s, TRUE, LAMBDA t : t), LAMBDA t :
    IF isRecoverable(t.rc) THEN reclaim(Rc(t, "ok")) ELSE t)

-----------------------------------------------------------------------------
(* Attributes                                                              *)

\* A request on node id concerned file i.
Touch(s, id, i) ==
  IF s.nodes[id].file \in {Null, i} \/ s.nodes[id].refs = 0 \/ s.odd # {} THEN s
  ELSE IF s.nodes[id].detached THEN Odd(s, "split") ELSE Wrong(s, "astray")

Special(s, id) == s.nodes[id].mnt /\ s.nodes[id].type = "dev"

refreshStat(s, id, force) ==
  IF Special(s, id) THEN [Rc(s, "ok") EXCEPT !.st = [NoAttr EXCEPT !.ino = 0]]
  ELSE IF ~force /\ s.nodes[id].attr # NoAttr
  THEN [Rc(s, "ok") EXCEPT !.st = s.nodes[id].attr, !.nodes[id].type = s.nodes[id].attr.type]
  ELSE On(lstat64(s, s.nodes[id].path), LAMBDA t :
         IF t.rc # "ok" THEN attrDrop(t, id)
         ELSE [t EXCEPT !.nodes[id].type = t.st.type, !.nodes[id].attr = t.st])

getattr(s, id) == Then(refreshStat(s, id, FALSE), LAMBDA t : Touch(t, id, t.st.ino))

\* The size the server has now, for an append.
getattrNow(s, id) ==
  Then(refreshStat(s, id, TRUE), LAMBDA t :
    [Touch(t, id, t.st.ino) EXCEPT !.offs = IF Special(t, id) THEN 0 ELSE t.st.size])

\* Runs Body again while it asks for it: after a rebuild of the client.
Retry(s, Body(_)) ==
  FoldLeft(LAMBDA t, k : IF t.again THEN Body([t EXCEPT !.again = FALSE, !.rc = "ok"]) ELSE t,
           [s EXCEPT !.again = TRUE], [k \in 1..(NFS_RECLAIM_MAX + 1) |-> k])

\* After a failure: once more if the client could be rebuilt, else Give(s).
Again(s, Give(_)) ==
  On(tryReclaim(s), LAMBDA t : IF t.rc = "ok" THEN [t EXCEPT !.again = TRUE] ELSE Give(t))

-----------------------------------------------------------------------------
(* Requests on nodes                                                       *)

Ref(s, id) ==
  LET fh == s.nodes[id].fh IN
  [s EXCEPT !.nodes[id].refs = @ + 1,
            !.nodes[id].file = IF s.nodes[id].refs > 0 THEN @
                               ELSE IF fh = NoFh THEN Null ELSE fh.ino]

ops_open(s, id) ==
  IF id \in ToSet(s.idle) /\ s.nodes[id].fh # NoFh THEN Ref(idleUnlink(s, id), id)
  ELSE Then(refreshStat(s, id, TRUE), LAMBDA r :
    IF r.nodes[id].type # "file" \/ r.nodes[id].fh # NoFh THEN Ref(r, id)
    ELSE Then(Retry(r, LAMBDA t :
                On(OpenFh(t, t.nodes[id].path, TRUE), LAMBDA u :
                  On(IF u.rc = "ok" \/ isRecoverable(u.rc) THEN u
                     ELSE OpenFh(Rc(u, "ok"), u.nodes[id].path, FALSE), LAMBDA w :
                    IF w.rc = "ok" THEN w ELSE Again(w, LAMBDA x : x)))),
              LAMBDA t : Ref([t EXCEPT !.nodes[id].fh = t.fh], id)))

\* Closes the handle of a node.
DropFh(s, id) ==
  IF s.nodes[id].fh = NoFh THEN s
  ELSE [CloseFh(s, s.nodes[id].fh) EXCEPT !.nodes[id].fh = NoFh]

\* Mutant of Park: the list is allowed one handle more.
ParkMore(s, id) ==
  On(idlePush(s, id), LAMBDA t :
    IF Len(t.idle) <= NFS_IDLE_MAX + 1 \/ Last(t.idle) = id THEN t
    ELSE idleUnlink(DropFh(t, Last(t.idle)), Last(t.idle)))

Park(s, id) ==
  On(idlePush(s, id), LAMBDA t :
    IF Len(t.idle) <= NFS_IDLE_MAX \/ Last(t.idle) = id THEN t
    ELSE idleUnlink(DropFh(t, Last(t.idle)), Last(t.idle)))

ops_close(s, id) ==
  On([s EXCEPT !.nodes[id].refs = IF @ > 0 THEN @ - 1 ELSE 0,
               !.nodes[id].file = IF s.nodes[id].refs > 1 THEN @ ELSE Null], LAMBDA t :
    IF t.nodes[id].refs > 0 THEN t
    ELSE IF t.nodes[id].detached THEN node_remove(dirDrop(DropFh(t, id), id), id)
    ELSE On(IF t.nodes[id].type = "dir" THEN dirDrop(t, id) ELSE t, LAMBDA u :
           IF u.nodes[id].fh # NoFh /\ id \notin ToSet(u.idle) THEN Park(u, id) ELSE u))

\* The handle a transfer uses: the node's, or one opened for it.
UseFh(s, id, rw) ==
  IF s.nodes[id].fh # NoFh THEN [s EXCEPT !.fh = s.nodes[id].fh, !.owned = FALSE]
  ELSE Then(OpenFh(s, s.nodes[id].path, rw), LAMBDA t : [t EXCEPT !.owned = TRUE])

Release(s) == IF s.owned THEN CloseFh(s, s.fh) ELSE s

\* A call with handle s.fh.
WithFh(s, id, Op(_)) ==
  On(IF s.fh.old THEN Wrong(s, "handle") ELSE s, LAMBDA t :
    Call(t, TRUE, LAMBDA u : Op(Touch(u, id, u.fh.ino))))

ops_read(s, id) ==
  IF s.nodes[id].type = "dir" THEN Rc(s, "eisdir")
  ELSE IF s.nodes[id].type = "symlink" THEN lstat64(s, s.nodes[id].path)
  ELSE Retry(s, LAMBDA t :
    On(UseFh(t, id, FALSE), LAMBDA u :
      IF u.rc # "ok" THEN Again(u, LAMBDA x : x)
      ELSE On(WithFh(u, id, LAMBDA x : x), LAMBDA w :
             IF w.rc = "ok" THEN Release(w) ELSE Again(w, LAMBDA x : Release(x)))))

\* One WRITE of a unit at offs + done.
pwrite(s, id, v) ==
  WithFh(s, id, LAMBDA t :
    IF ~t.fh.rw THEN Rc(t, "ebadf")
    ELSE [Changed(t, id, t.fh.ino) EXCEPT
            !.files[t.fh.ino].data = Stored(@, t.offs + t.done, v), !.done = @ + 1])

\* What the reply claims to be written is in the file. (After its name was
\* removed a rebuilt client writes to the file that has the path now: Touch.)
Written(s, id, v) ==
  IF s.done = 0 \/ s.nodes[id].detached \/ s.odd # {} \/ (LET d == s.files[s.fh.ino].data IN
       \A k \in 1..s.done : s.offs + k <= Len(d) /\ d[s.offs + k] = v)
  THEN s ELSE Wrong(s, "write")

\* Mutant of WriteAll: a retry starts again behind the unit that failed.
WriteAllSkip(s, id, len, v) ==
  FoldLeft(LAMBDA t, k : IF t.done < len /\ t.rc = "ok"
                         THEN On(pwrite(t, id, v), LAMBDA u :
                                IF u.rc = "timeout" THEN [u EXCEPT !.done = t.done + 1] ELSE u)
                         ELSE t,
           s, [k \in 1..len |-> k])

\* The rest of the transfer, until a WRITE fails.
WriteAll(s, id, len, v) ==
  FoldLeft(LAMBDA t, k : IF t.done < len /\ t.rc = "ok"
                         THEN On(pwrite(t, id, v), LAMBDA u :
                                IF u.rc = "ok" THEN u ELSE [u EXCEPT !.done = t.done])
                         ELSE t,
           s, [k \in 1..len |-> k])

ops_write(s, id, append, o, len, v) ==
  IF s.nodes[id].type = "dir" THEN Rc(s, "eisdir")
  ELSE Then(IF append THEN getattrNow(s, id) ELSE [s EXCEPT !.offs = o], LAMBDA a :
    On(Retry(a, LAMBDA t :
         On(UseFh(t, id, TRUE), LAMBDA u :
           IF u.rc # "ok" THEN Again(u, LAMBDA x : x)
           ELSE On(WriteAll(u, id, len, v), LAMBDA w :
                  IF w.rc = "ok" THEN Release(w) ELSE Again(w, LAMBDA x : Release(x))))),
       LAMBDA t : Written(attrDrop(t, id), id, v)))

\* mtTruncate, and mtSetAttr of the size.
ops_truncate(s, id, n) ==
  LET SetSize(t, i) == [Changed(t, id, i) EXCEPT !.files[i].data = Resized(@, n)] IN
  attrDrop(IF s.nodes[id].fh # NoFh
           THEN WithFh([s EXCEPT !.fh = s.nodes[id].fh], id, LAMBDA t :
                  IF t.fh.rw THEN SetSize(t, t.fh.ino) ELSE Rc(t, "ebadf"))
           ELSE Call(s, FALSE, LAMBDA t :
                  LET p == t.nodes[id].path IN
                  IF ~Exists(t, p) THEN Rc(t, "enoent")
                  ELSE IF IsDir(t, p) THEN Rc(t, "eisdir")
                  ELSE SetSize(Touch(t, id, t.names[p]), t.names[p])), id)

\* mtSetAttr of the mode or of a time, by path; a time is written with the
\* other one as the server has it.
ops_setattr(s, id, what) ==
  LET ByPath(t) == Then(lstat64(t, t.nodes[id].path), LAMBDA u : Touch(u, id, u.st.ino)) IN
  On(attrDrop(s, id), LAMBDA t :
    CASE what = "mode" -> ByPath(t)
      [] what = "time" -> Then(lstat64(t, t.nodes[id].path), LAMBDA u : ByPath(u))
      [] what = "dev" -> IF t.nodes[id].type # "dir" THEN Rc(t, "einval")
                         ELSE [t EXCEPT !.nodes[id].mnt = TRUE])

ops_destroy(s, id) ==
  On(IF s.nodes[id].refs > 0 THEN Odd(s, "destroyed") ELSE s, LAMBDA t :
    node_remove(dirDrop(DropFh(t, id), id), id))

-----------------------------------------------------------------------------
(* Requests on names                                                       *)

\* One component of a lookup: s.id is the directory reached so far.
Component(s, name, last) ==
  LET child == s.nodes[s.id].path \o <<name>>
      known == findPath(s, child)
      ln == CHOOSE i \in known : TRUE
      fresh == known # {} /\ s.nodes[ln].attr # NoAttr
  IN IF known # {} /\ s.nodes[ln].mnt THEN [s EXCEPT !.id = ln, !.stop = TRUE]
     ELSE On(IF fresh THEN [s EXCEPT !.st = s.nodes[ln].attr] ELSE lstat64(s, child), LAMBDA t :
       IF t.rc # "ok" THEN IF known = {} THEN t ELSE attrDrop(t, ln)
       ELSE Then(node_get(t, child), LAMBDA u :
         On([u EXCEPT !.nodes[u.id].type = u.st.type,
                      !.nodes[u.id].attr = IF fresh THEN @ ELSE u.st], LAMBDA w :
           IF last \/ w.st.type = "dir" THEN w ELSE Rc(w, "enotdir"))))

ops_lookup(s, dir, comps) ==
  FoldLeft(LAMBDA t, k : IF t.rc # "ok" \/ t.stop THEN t
                         ELSE Component(t, comps[k], k = Len(comps)),
           [s EXCEPT !.id = dir], [k \in 1..Len(comps) |-> k])

\* The node of a name just created; without memory for one the request fails
\* with the file made.
Made(s, d, path, type) ==
  On(node_get(s, path), LAMBDA t :
    IF t.rc # "ok" THEN Odd(t, "lost")
    ELSE [dirDrop(attrDrop(attrDrop(t, d), t.id), d) EXCEPT
       !.nodes[t.id].type = type, !.nodes[t.id].mnt = @ \/ type = "dev"])

ops_create(s, d, name, type) ==
  LET path == s.nodes[d].path \o <<name>>
      special == \E i \in findPath(s, path) : Special(s, i)
  IN IF type = "dev"
     THEN Made(IF Exists(s, path) \/ findPath(s, path) # {} THEN Odd(s, "shadow") ELSE s,
               d, path, type)
     ELSE IF type = "file" /\ special THEN Rc(s, "eexist")
     ELSE Then(MakeFile(s, path, type), LAMBDA t :
            Made(IF type # "file" THEN t
                 ELSE \* close, chmod and utimes, whose failures are ignored
                   Rc(lstat64(lstat64(lstat64(t, path), path), path), "ok"), d, path, type))

\* Mutant of Unnamed: an open node keeps its path.
UnnamedBound(s, id) ==
  IF s.nodes[id].refs = 0 THEN node_remove(dirDrop(DropFh(s, id), id), id)
  ELSE attrDrop(s, id)

\* The node of a removed name.
Unnamed(s, id) ==
  IF s.nodes[id].refs = 0 THEN node_remove(dirDrop(DropFh(s, id), id), id)
  ELSE detachPath(s, id)

ops_unlink(s, d, name) ==
  LET path == s.nodes[d].path \o <<name>>
      ln == CHOOSE i \in findPath(s, path) : TRUE
  IN IF findPath(s, path) # {} /\ s.nodes[ln].mnt
     THEN node_remove(dirDrop(IF s.nodes[ln].refs > 0 THEN Odd(s, "destroyed") ELSE s, ln), ln)
     ELSE Then(lstat64(s, path), LAMBDA t :
       On(attrDrop(RemoveName(t, path), d), LAMBDA u :
         IF u.rc # "ok" THEN u
         ELSE On(attrDropByIno(u, t.st.ino), LAMBDA w :
                IF findPath(w, path) = {} THEN w ELSE Unnamed(w, ln))))

ops_link(s, d, name, id) ==
  LET ino == s.nodes[id].attr.ino IN
  On(LinkName(s, s.nodes[id].path, s.nodes[d].path \o <<name>>), LAMBDA t :
    On(attrDrop(dirDrop(attrDrop(t, d), d), id), LAMBDA u :
      IF u.rc # "ok" THEN u
      ELSE IF ino # 0 THEN attrDropByIno(u, ino) ELSE Odd(u, "linked")))

\* mtReaddir: "." at 0, ".." at 1, then the listing, made when the directory
\* has none; the end of the listing drops it. (Entries: see NfsListing.)
ops_readdir(s, d, offs, atEnd) ==
  IF offs = 0 THEN dirDrop(Rc(lstat64(s, s.nodes[d].path), "ok"), d)
  ELSE IF offs = 1 THEN Rc(lstat64(s, s.nodes[d].path), "ok")
  ELSE On(IF s.scan = d THEN s
          ELSE On(dirDrop(dirDrop(s, d), s.scan), LAMBDA t :
                 Then(Call(t, FALSE, LAMBDA u : IF IsDir(u, u.nodes[d].path) THEN u
                                                ELSE Rc(u, "enoent")), LAMBDA u :
                   Then(Alloc(u), LAMBDA w : [w EXCEPT !.scan = d]))),
          LAMBDA t : IF t.rc = "ok" /\ atEnd THEN dirDrop(t, d) ELSE t)

ops_statfs(s) == Call(s, FALSE, LAMBDA t : t)

-----------------------------------------------------------------------------
(* The server loop                                                         *)

Start(bad) ==
  State @@ [n |-> 0, calls |-> 0, bad |-> bad, rc |-> "ok", tried |-> FALSE, st |-> NoAttr,
            fh |-> NoFh, id |-> NFS_ROOTID, budget |-> NFS_RECLAIM_MAX, again |-> FALSE,
            owned |-> FALSE, offs |-> 0, done |-> 0, stop |-> FALSE]

\* Up to MaxFaults failures of the calls that are made.
Kinds == {"eio", "lost", "done"}
BadOne(Op(_)) == {k :> how : k \in 1..Op(Start(<<>>)).n, how \in Kinds}
BadTwo(Op(_)) ==
  UNION {{b @@ (k :> how) : k \in (Max(DOMAIN b) + 1)..Op(Start(b)).n, how \in Kinds} :
           b \in BadOne(Op)}
Bads(Op(_)) == {<<>>}
  \cup (IF faults < MaxFaults THEN BadOne(Op) ELSE {})
  \cup (IF faults + 1 < MaxFaults THEN BadTwo(Op) ELSE {})

Done(r) ==
  /\ nodes' = r.nodes /\ idle' = r.idle /\ nextId' = r.nextId /\ scan' = r.scan
  /\ dead' = r.dead /\ live' = r.live /\ lapsed' = r.lapsed
  /\ names' = r.names /\ files' = r.files /\ odd' = r.odd /\ wrong' = r.wrong
  /\ faults' = faults + Cardinality(DOMAIN r.bad)

\* nfs_loopThread: the client is rebuilt first if it must be.
Serve(Op(_), Reply(_)) ==
  \E bad \in Bads(LAMBDA s : Op(ops_recover(s))) :
    \E r \in {Op(ops_recover(Start(bad)))} : Done(r) /\ Reply(r)

\* A request on node id; d is what a success adds to the opens of id.
Request(id, d, Op(_)) ==
  /\ Cardinality(odd) <= MaxOdd
  /\ Serve(Op, LAMBDA r : opens' = IF r.rc = "ok" THEN [opens EXCEPT ![id] = @ + d] ELSE opens)

\* A request that changes the export or the table, of which there are MaxOps.
Change(id, Op(_)) == ops < MaxOps /\ ops' = ops + 1 /\ Request(id, 0, Op)
Query(id, d, Op(_)) == Request(id, d, Op) /\ UNCHANGED ops

\* A directory that was removed while open is not where its path leads.
In(s, d) == IF s.nodes[d].detached THEN Odd(s, "stale") ELSE s

\* Directories a name can be added to.
Dirs == {i \in DOMAIN nodes : Len(nodes[i].path) < MaxDepth}
Room == nextId + MaxDepth <= MaxNodes + 1
Comps(d) == UNION {[1..k -> Names] : k \in 1..(MaxDepth - Len(nodes[d].path))}

Opened == SumFunction(opens)

mtLookup == Room /\ \E d \in Dirs : \E c \in Comps(d) : Query(d, 0, LAMBDA s : ops_lookup(s, d, c))
mtOpen == \E i \in DOMAIN nodes : Opened < MaxOpen /\ Query(i, 1, LAMBDA s : ops_open(s, i))
mtClose == \E i \in DOMAIN nodes : opens[i] > 0 /\ Query(i, -1, LAMBDA s : ops_close(s, i))
mtRead == \E i \in DOMAIN nodes : opens[i] > 0 /\ Query(i, 0, LAMBDA s : ops_read(s, i))
mtWrite ==
  \E i \in DOMAIN nodes, app \in BOOLEAN, len \in 1..2 :
    /\ opens[i] > 0
    /\ app => \A f \in DOMAIN files : Len(files[f].data) + len <= MaxSize
    /\ Change(i, LAMBDA s : ops_write(s, i, app, 0, len, 2))
mtTruncate ==
  \E i \in DOMAIN nodes, n \in {0} : Change(i, LAMBDA s : ops_truncate(s, i, n))
mtSetAttr ==
  \E i \in DOMAIN nodes, what \in {"mode", "time", "dev"} :
    /\ what = "dev" => i # NFS_ROOTID
    /\ Query(i, 0, LAMBDA s : ops_setattr(s, i, what))
mtGetAttr == \E i \in DOMAIN nodes : Query(i, 0, LAMBDA s : getattr(s, i))
mtCreate ==
  \E d \in Dirs, name \in Names, type \in Types :
    /\ Len(files) < MaxIno /\ Room
    /\ Change(d, LAMBDA s : ops_create(In(s, d), d, name, type))
mtDestroy ==
  \E i \in DOMAIN nodes \ {NFS_ROOTID} : Change(i, LAMBDA s : ops_destroy(s, i))
mtUnlink ==
  \E d \in Dirs, name \in Names : Change(d, LAMBDA s : ops_unlink(In(s, d), d, name))
mtLink ==
  \E d \in Dirs, name \in Names, i \in DOMAIN nodes \ {NFS_ROOTID} :
    Change(d, LAMBDA s : ops_link(In(s, d), d, name, i))
mtReaddir ==
  \E d \in {i \in DOMAIN nodes : nodes[i].type = "dir"}, offs \in 0..2, atEnd \in BOOLEAN :
    /\ opens[d] > 0 /\ (atEnd => offs = 2)
    /\ Query(d, 0, LAMBDA s : ops_readdir(s, d, offs, atEnd))
mtStat == Query(NFS_ROOTID, 0, LAMBDA s : ops_statfs(s))

\* nfs_renewThread sends itself a message every 45 s.
Renew == UNCHANGED <<opens, ops, names, files>> /\ Serve(ops_renew, LAMBDA r : TRUE)

\* 100 ms pass: what is cached about a node is no longer used.
Expire ==
  \E i \in DOMAIN nodes :
    /\ nodes[i].attr # NoAttr
    /\ nodes' = [nodes EXCEPT ![i].attr = NoAttr]
    /\ UNCHANGED <<idle, nextId, scan, dead, live, lapsed, names, files, odd, wrong,
                   opens, ops, faults>>

\* The server discards the client's state: the lease lapsed or it restarted.
Lapse ==
  /\ ~lapsed /\ faults < MaxFaults
  /\ lapsed' = TRUE /\ faults' = faults + 1
  /\ UNCHANGED <<nodes, idle, nextId, scan, dead, live, names, files, odd, wrong, opens, ops>>

\* Another client of the server removes a file, or puts a new one in its place.
Host ==
  \E p \in DOMAIN names :
    /\ files[names[p]].type = "file" /\ Cardinality(odd) <= MaxOdd
    /\ ops < MaxOps /\ ops' = ops + 1
    /\ \/ names' = Without(names, p) /\ UNCHANGED files
       \/ /\ Len(files) < MaxIno
          /\ files' = Append(files, [type |-> "file", data |-> <<>>])
          /\ names' = [names EXCEPT ![p] = Len(files) + 1]
    /\ odd' = odd \cup {"host"}
    /\ UNCHANGED <<nodes, idle, nextId, scan, dead, live, lapsed, wrong, opens, faults>>

\* The export holds a file in one name and nothing else.
Init ==
  /\ nodes = NFS_ROOTID :> [Node(NFS_ROOTID, <<>>) EXCEPT !.type = "dir"]
  /\ idle = <<>> /\ nextId = NFS_ROOTID + 1 /\ scan = NoScan
  /\ dead = FALSE /\ live = 0 /\ lapsed = FALSE
  /\ \E n \in Names : names = <<n>> :> 1
  /\ files = <<[type |-> "file", data |-> <<1>>]>>
  /\ opens = [i \in 0..MaxNodes |-> 0]
  /\ ops = 0 /\ faults = 0 /\ odd = {} /\ wrong = {}

Next ==
  \/ mtLookup \/ mtOpen \/ mtClose \/ mtRead \/ mtWrite \/ mtTruncate \/ mtSetAttr
  \/ mtGetAttr \/ mtCreate \/ mtDestroy \/ mtUnlink \/ mtLink \/ mtReaddir \/ mtStat
  \/ Renew \/ Expire \/ Lapse \/ Host

Spec == Init /\ [][Next]_vars

\* Names are only compared.
Symmetry == Permutations(Names)

-----------------------------------------------------------------------------
(* Properties                                                              *)

Regular == odd = {}
Open(i) == nodes[i].fh # NoFh

\* No call is made with a handle of a context that has been destroyed, and every
\* handle kept belongs to the context in use (nfs_node_invalidateHandles); no
\* request starts on an abandoned context without trying to rebuild it; data and
\* attributes of an open file that has its name are read from and written to that
\* file; and the units a write reports are in the file, also when the client was
\* rebuilt in the middle of the write.
CallsRight ==
  /\ wrong = {}
  /\ \A i \in DOMAIN nodes : Open(i) => ~nodes[i].fh.old

\* No handle is lost: those open in the context are those the nodes hold, unless
\* a device was made over a file (nfs_ops_unlink forgets the file's handle then).
\* The idle list holds exactly the nodes with a handle and no open, and no more
\* than NFS_IDLE_MAX (nfs_ops_close).
HandlesCounted ==
  /\ "shadow" \notin odd => live = Cardinality({i \in DOMAIN nodes : Open(i)})
  /\ ToSet(idle) = {i \in DOMAIN nodes : Open(i) /\ nodes[i].refs = 0}
  /\ Len(idle) = Cardinality(ToSet(idle)) /\ Len(idle) <= NFS_IDLE_MAX

\* A node exists while it is open, and counts its opens; one whose name was
\* removed goes with the last close. The scanned node exists (fs->scanNode).
NodesHeld ==
  /\ "destroyed" \notin odd =>
       \A i \in DOMAIN opens : opens[i] = IF i \in DOMAIN nodes THEN nodes[i].refs ELSE 0
  /\ \A i \in DOMAIN nodes : nodes[i].detached => nodes[i].refs > 0
  /\ scan # NoScan => scan \in DOMAIN nodes

\* A kept handle leads to the file that has the node's path now, also when the
\* path was removed and made again (nfs_ops_unlink, nfs_ops_close); and nodes live
\* as long as they are held.
HandleNamesFile ==
  NodesHeld /\ (Regular => \A i \in DOMAIN nodes :
    Open(i) /\ ~nodes[i].detached
      => nodes[i].path \in DOMAIN names /\ names[nodes[i].path] = nodes[i].fh.ino)

\* Cached attributes are those the server would report, as long as only this
\* client changes the export and learns of what it changed. Requests drop what
\* they make untrue ("every op that mutates the object ... clears it",
\* nfs_node.h:58) but for two: a write or truncate through one name of a file
\* leaves the size cached for its other names (nfs_ops.c:928, 954), and a link
\* of a node with nothing cached leaves their count of links (nfs_ops.c:1394).
AttrCoherent ==
  odd \cap {"host", "lost"} = {} => \A i \in DOMAIN nodes :
    nodes[i].attr # NoAttr /\ ~nodes[i].detached =>
      LET p == nodes[i].path
          stale == {a \in {"type", "nlink", "size"} : nodes[i].attr[a] # StatOf(State, p)[a]}
      IN /\ Exists(State, p) /\ nodes[i].attr.ino = StatOf(State, p).ino
         /\ "size" \in stale => "sibling" \in odd
         /\ "nlink" \in stale => "linked" \in odd
         /\ "type" \notin stale
=============================================================================
