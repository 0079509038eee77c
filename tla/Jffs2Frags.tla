----------------------------- MODULE Jffs2Frags -----------------------------
(***************************************************************************)
(* The contents of one regular file of jffs2: its nodes on the flash, the  *)
(* tree of fragments that says which node holds which byte, writing,       *)
(* truncating, garbage collection of its nodes, and the reconstruction of  *)
(* the tree from the nodes found on the flash (src/jffs2/nodelist.c,       *)
(* write.c, read.c, fs.c, gc.c, readinode.c, libjffs2.c).                  *)
(*                                                                         *)
(* Bytes stand for runs of bytes no write ever splits.  A file is a        *)
(* sequence of them; byte i of the file is element i + 1.  Where a node    *)
(* lies and which block is collected is module Jffs2Space's; here any node *)
(* may be collected, and a dead node may be erased once what made it dead  *)
(* has left the write buffer.                                              *)
(***************************************************************************)
EXTENDS Integers, Sequences, SequencesExt, FiniteSetsExt

CONSTANTS
    K,          \* the nodes there is room for on the flash
    Page,       \* PAGE_SIZE
    MaxSize,    \* bound on the size of the file
    Writes,     \* the writes asked for, as <<offset, length>>
    Sizes,      \* the sizes asked for
    Orders,     \* orders in which the nodes may be found on the flash
    Requests,   \* writes and truncations
    Failures,   \* writes that fail
    Passes,     \* nodes garbage collected
    Erasures,   \* dead nodes erased
    Rereads,    \* power losses and times the inode is dropped from memory
    After       \* requests after one of those, or after a failure

Nodes == 1..K
None == 0

VARIABLES
    f,          \* the inode in memory and the nodes of the file on the flash
    state,      \* the inode cache: "present", "absent", or "lost" to a read
    op,         \* the request being served, under the inode's i_rwsem
    gc,         \* the node being rewritten by garbage_collect_dnode, under alloc_sem
    log,        \* nodes still in the write buffer, with the contents each leaves
    want,       \* the contents the requests so far ask for (ghost)
    base,       \* the contents when the write buffer was last empty (ghost)
    odd,        \* departures from the plain course of events (ghost)
    left        \* requests, passes, crashes and evictions still to come

vars == <<f, state, op, gc, log, want, base, odd, left>>

Then(c, F(_)) == F(c)

(***************************************************************************)
(* Nodes and fragments.  A node is a jffs2_raw_inode with the flag of its  *)
(* reference; one without data only says how long the file is.  A hole     *)
(* node has COMPR_ZERO.  A torn node has a good header and bad data.       *)
(***************************************************************************)
Unused == [ver |-> 0, ofs |-> 0, data |-> <<>>, hole |-> FALSE, isize |-> 0,
           flag |-> "free", torn |-> FALSE]

End(nd) == nd.ofs + Len(nd.data)
FragEnd(fr) == fr.ofs + fr.size
PageOf(p) == p \div Page
Aligned(p) == p % Page = 0

TreeEnd(c) == IF c.tree = <<>> THEN 0 ELSE FragEnd(Last(c.tree))
Dead(nd) == nd.flag \in {"free", "obsolete"}
Live(c) == {n \in Nodes : ~Dead(c.flash[n])}
Room(c) == {n \in Nodes : c.flash[n].flag = "free"}
New(c) == Min(Room(c))

Mark(c, ns, flag) ==
    [c EXCEPT !.flash = [n \in Nodes |->
        IF n \in ns THEN [@[n] EXCEPT !.flag = flag] ELSE @[n]]]

mark_node_obsolete(c, n) == Mark(c, {n}, "obsolete")

\* jffs2_read_inode_range: what is not covered by a node reads as zero.
read_byte(c, p) ==
    LET here == {i \in DOMAIN c.tree : c.tree[i].ofs <= p /\ p < FragEnd(c.tree[i])}
        node == IF here = {} THEN None ELSE c.tree[Min(here)].node
    IN  IF node = None THEN 0 ELSE c.flash[node].data[p - c.flash[node].ofs + 1]

read_inode_range(c, offset, len) == [i \in 1..len |-> read_byte(c, offset + i - 1)]

(***************************************************************************)
(* The fragment tree (nodelist.c).                                         *)
(***************************************************************************)
\* Mutant of obsolete_node_frags: a node without fragments is not obsolete.
obsolete_node_fragsKeeps(c, dead) ==
    [c EXCEPT !.count = [n \in Nodes |-> @[n] - Cardinality({fr \in dead : fr.node = n})]]

\* obsolete_node_frag for each fragment of a set.
obsolete_node_frags(c, dead) ==
    LET lost(n) == Cardinality({fr \in dead : fr.node = n})
        count == [n \in Nodes |-> c.count[n] - lost(n)]
        hit == {n \in Nodes : lost(n) > 0}
    IN  Mark(Mark([c EXCEPT !.count = count],
                  {n \in hit : count[n] > 0}, "normal"),
             {n \in hit : count[n] = 0}, "obsolete")

\* no_overlapping_node: past the end of the tree a fragment without a node fills
\* the gap before offset o.
no_overlapping_node(c, o) ==
    IF TreeEnd(c) < o THEN <<[ofs |-> TreeEnd(c), size |-> o - TreeEnd(c), node |-> None]>> ELSE <<>>

\* add_frag_to_fragtree: node n's range becomes one fragment, what it covers of
\* others is cut off, and whatever now shares a page is left for the collector.
add_frag_to_fragtree(c, n) ==
    LET o == c.flash[n].ofs
        e == End(c.flash[n])
        T == c.tree
        before == [i \in 1..Len(SelectSeq(T, LAMBDA fr : fr.ofs < o)) |->
                     [T[i] EXCEPT !.size = Min({@, o - T[i].ofs})]]
        rest == SelectSeq(T, LAMBDA fr : FragEnd(fr) > e)
        after == [i \in DOMAIN rest |->
                     [rest[i] EXCEPT !.ofs = Max({@, e}), !.size = FragEnd(rest[i]) - Max({rest[i].ofs, e})]]
        whole == {T[i] : i \in {j \in DOMAIN T : T[j].ofs >= o /\ FragEnd(T[j]) <= e}}
        split == {T[i].node : i \in {j \in DOMAIN T : T[j].ofs < o /\ FragEnd(T[j]) > e}}
        beside == {T[i].node : i \in {j \in DOMAIN T :
                      \/ FragEnd(T[j]) > o /\ T[j].ofs < o
                      \/ FragEnd(T[j]) > e /\ o < T[j].ofs /\ T[j].ofs < e
                      \/ j = Len(T) /\ FragEnd(T[j]) <= o /\ PageOf(FragEnd(T[j]) - 1) = PageOf(o)}}
    IN  Then(obsolete_node_frags([c EXCEPT
                 !.tree = before \o no_overlapping_node(c, o) \o <<[ofs |-> o, size |-> e - o, node |-> n]>> \o after,
                 !.count = [m \in Nodes |-> @[m] + (IF m \in split THEN 1 ELSE 0)]], whole),
             LAMBDA d : IF beside = {} THEN d ELSE Mark(d, (beside \union {n}) \ {None}, "normal"))

\* The fragments next to the one of node n that share a page with it.
Neighbours(c, n) ==
    LET at == CHOOSE i \in DOMAIN c.tree : c.tree[i].ofs = c.flash[n].ofs
    IN  {c.tree[i].node : i \in DOMAIN c.tree \cap
            ((IF Aligned(c.tree[at].ofs) THEN {} ELSE {at - 1, at}) \union
             (IF Aligned(FragEnd(c.tree[at])) \/ at = Len(c.tree) THEN {} ELSE {at, at + 1}))}

add_full_dnode_to_inode(c, n) ==
    IF c.flash[n].data = <<>> THEN c
    ELSE Then(add_frag_to_fragtree([c EXCEPT !.count[n] = 1], n),
              LAMBDA d : Mark(d, Neighbours(d, n) \ {None}, "normal"))

truncate_fragtree(c, size) ==
    LET kept == SelectSeq(c.tree, LAMBDA fr : fr.ofs < size)
        cut == [i \in DOMAIN kept |-> [kept[i] EXCEPT !.size = Min({@, size - kept[i].ofs})]]
        gone == {c.tree[i] : i \in Len(kept) + 1 .. Len(c.tree)}
    IN  Then(obsolete_node_frags([c EXCEPT !.tree = cut], gone),
             LAMBDA d : IF /\ TreeEnd(d) >= size /\ size > 0
                           /\ Last(cut).node # None /\ Aligned(Last(cut).ofs)
                        THEN Mark(d, {Last(cut).node}, "pristine") ELSE d)

\* The metadata node is superseded by a node of data.
drop_metadata(c) ==
    IF c.meta = None THEN c ELSE [mark_node_obsolete(c, c.meta) EXCEPT !.meta = None]

(***************************************************************************)
(* jffs2_write_dnode: the node goes to the write buffer.  A node that      *)
(* fills its page, or runs from the start of one to the end of the file,   *)
(* can later be collected without a look at its page.                      *)
(***************************************************************************)
write_dnode(c, n, nd) ==
    LET whole == \/ Len(nd.data) >= Page
                 \/ Aligned(nd.ofs) /\ End(nd) = nd.isize
    IN  [c EXCEPT !.flash[n] = [nd EXCEPT !.flag = IF whole THEN "pristine" ELSE "normal"],
                  !.count[n] = 0]

Node(ver, ofs, data, hole, isize) ==
    [Unused EXCEPT !.ver = ver, !.ofs = ofs, !.data = data, !.hole = hole, !.isize = isize]

Zeros(n) == [i \in 1..n |-> 0]

Overlay(w, ofs, data) ==
    [i \in 1..Max({Len(w), ofs + Len(data)}) |->
        IF ofs < i /\ i <= ofs + Len(data) THEN data[i - ofs]
        ELSE IF i <= Len(w) THEN w[i] ELSE 0]

\* Node n was written; c is the inode with it and w what the file then holds.
Written(c, n, w) ==
    /\ f' = c
    /\ log' = Append(log, [node |-> n, want |-> w])
    /\ want' = w

Idle == [at |-> "idle"]
Present == state = "present"
Locked == gc.at # "idle"        \* alloc_sem is held across steps

\* jffs2_create has written the new file's first node.
Init ==
    /\ f = [flash |-> [n \in Nodes |-> IF n = 1 THEN [Node(1, 0, <<>>, FALSE, 0) EXCEPT !.flag = "pristine"]
                                       ELSE Unused],
            tree |-> <<>>, count |-> [n \in Nodes |-> 0], meta |-> 1, isize |-> 0, ver |-> 1]
    /\ state = "present"
    /\ op = Idle /\ gc = Idle
    /\ log = <<>> /\ want = <<>> /\ base = <<>>
    /\ odd = {}
    /\ left = [requests |-> Requests, passes |-> Passes, failures |-> Failures,
             erasures |-> Erasures, rereads |-> Rereads]

(***************************************************************************)
(* Requests.  libjffs2_write first puts a hole between the end of the file *)
(* and the length of the write, then writes one node per page (or less, as *)
(* the block has room) giving up the locks after each, and only then       *)
(* raises i_size.                                                          *)
(***************************************************************************)
Serving(at) == Present /\ op.at = at
Request == Serving("idle") /\ ~Locked /\ left.requests > 0 /\ left' = [left EXCEPT !.requests = @ - 1]

\* Some node on the flash holds bytes past the end of the file.
Behind(c) == \E n \in Nodes : c.flash[n].flag # "free" /\ End(c.flash[n]) > c.isize

\* libjffs2_prepareWrite: c is the inode after it.
prepareWrite(len) ==
    IF len <= f.isize THEN f
    ELSE Then(New(f), LAMBDA n :
           [drop_metadata(add_full_dnode_to_inode(
              write_dnode([f EXCEPT !.ver = @ + 1], n,
                          Node(f.ver + 1, f.isize, Zeros(len - f.isize), TRUE, len)), n))
            EXCEPT !.isize = len])

Write(offs, len) ==
    /\ Request
    /\ len > f.isize => Room(f) # {}
    /\ \E c \in {prepareWrite(len)} :
         /\ IF len > f.isize THEN Written(c, New(f), Overlay(want, len, <<>>))
            ELSE UNCHANGED <<f, log, want>>
         /\ op' = [at |-> "range", offs |-> offs, len |-> len, isize |-> c.isize,
                   value |-> 1 + (left.requests % 2)]
         /\ odd' = IF offs > c.isize /\ Behind(c) THEN odd \union {"gap"} ELSE odd
    /\ UNCHANGED <<state, gc, base>>

\* One turn of jffs2_write_inode_range, with room for n bytes of data.
write_inode_range(n) ==
    /\ Serving("range") /\ ~Locked /\ Room(f) # {}
    /\ n <= Min({op.len, Page - (op.offs % Page)})
    /\ \E isize \in {Max({op.isize, op.offs + n})}, data \in {[i \in 1..n |-> op.value]} :
         /\ Written(drop_metadata(add_full_dnode_to_inode(
                      write_dnode([f EXCEPT !.ver = @ + 1], New(f),
                                  Node(f.ver + 1, op.offs, data, FALSE, isize)), New(f))),
                    New(f), Overlay(want, op.offs, data))
         /\ op' = [op EXCEPT !.at = IF n = op.len THEN "size" ELSE "range",
                             !.offs = @ + n, !.len = @ - n, !.isize = isize]
    /\ UNCHANGED <<state, gc, base, odd, left>>

\* There is no space, or the node could not be written twice: the request fails
\* with i_size as it was.
WriteFails ==
    /\ Serving("range") /\ ~Locked
    /\ left.failures > 0 /\ left' = [left EXCEPT !.failures = @ - 1, !.requests = Min({@, After})]
    /\ op' = Idle
    /\ odd' = IF f.isize # Len(want) THEN odd \union {"partial"} ELSE odd
    /\ UNCHANGED <<f, state, gc, log, want, base>>

SetISize ==
    /\ Serving("size")
    /\ f' = [f EXCEPT !.isize = Max({@, op.offs})]
    /\ op' = Idle
    /\ UNCHANGED <<state, gc, log, want, base, odd, left>>

\* jffs2_do_setattr: a node without data says the new size; growing the file it
\* is a hole.  Shrinking it, i_size follows once the locks are released.
setattr(c, n, size) ==
    IF size > c.isize
    THEN Then(write_dnode(c, n, Node(c.ver, c.isize, Zeros(size - c.isize), TRUE, size)),
              LAMBDA d : drop_metadata([add_full_dnode_to_inode(d, n) EXCEPT !.isize = size]))
    ELSE Then(write_dnode(c, n, Node(c.ver, 0, <<>>, FALSE, size)),
              LAMBDA d : [drop_metadata(IF size < d.isize THEN truncate_fragtree(d, size) ELSE d)
                          EXCEPT !.meta = n])

do_setattr(size) ==
    /\ Request /\ Room(f) # {}
    /\ Written(setattr([f EXCEPT !.ver = @ + 1], New(f), size), New(f),
               Overlay(SubSeq(want, 1, Min({size, Len(want)})), size, <<>>))
    /\ op' = IF size < f.isize THEN [at |-> "setsize", size |-> size] ELSE Idle
    /\ UNCHANGED <<state, gc, base, odd>>

truncate_setsize ==
    /\ Serving("setsize")
    /\ f' = [f EXCEPT !.isize = op.size]
    /\ op' = Idle
    /\ UNCHANGED <<state, gc, log, want, base, odd, left>>

(***************************************************************************)
(* Garbage collection of a node (gc.c), with alloc_sem held.               *)
(***************************************************************************)
Pass(n) ==
    /\ ~Locked /\ left.passes > 0 /\ n \in Live(f) /\ Room(f) # {}
    /\ left' = [left EXCEPT !.passes = @ - 1]

\* The inode with node n's copy m in its place.
Moved(c, n, m) ==
    [mark_node_obsolete(c, n) EXCEPT
        !.tree = [i \in DOMAIN @ |-> IF @[i].node = n THEN [@[i] EXCEPT !.node = m] ELSE @[i]],
        !.count[m] = c.count[n], !.count[n] = 0]

\* The node is copied as it is; the inode need not be in memory.
collect_pristine(n) ==
    /\ Pass(n) /\ state # "lost"
    /\ f.flash[n].flag = "pristine" /\ f.meta # n
    /\ Written(Moved([f EXCEPT !.flash[New(f)] = f.flash[n]], n, New(f)), New(f), want)
    /\ UNCHANGED <<state, op, gc, base, odd>>

\* The length of the file as its fragments say, i_size only without any.
ilen(c) == IF c.tree = <<>> THEN c.isize ELSE TreeEnd(c)

Stale(isize) == IF isize # Len(want) THEN odd \union {"stale"} ELSE odd

collect_metadata(n) ==
    /\ Pass(n) /\ Present /\ f.meta = n
    /\ Written([mark_node_obsolete(write_dnode([f EXCEPT !.ver = @ + 1], New(f),
                     Node(f.ver + 1, 0, <<>>, FALSE, ilen(f))), n) EXCEPT !.meta = New(f)],
               New(f), want)
    /\ odd' = Stale(ilen(f))
    /\ UNCHANGED <<state, op, gc, base>>

FragsOf(c, n) == {i \in DOMAIN c.tree : c.tree[i].node = n}
Start(c, n) == c.tree[Min(FragsOf(c, n))].ofs
Stop(c, n) == FragEnd(c.tree[Max(FragsOf(c, n))])
InOnePage(c, n) == PageOf(Start(c, n)) = PageOf(Stop(c, n) - 1)

\* Mutant of replacement_hole: every hole is written as a new one.
replacement_holeNew(c, n) ==
    Node(c.ver + 1, Start(c, n), Zeros(Stop(c, n) - Start(c, n)), TRUE, ilen(c))

\* A node that crosses a page is a hole.  With several fragments left it keeps
\* its version, so that what lies between them stays newer.
replacement_hole(c, n) ==
    IF c.count[n] > 1 /\ c.flash[n].hole
    THEN [c.flash[n] EXCEPT !.isize = ilen(c)]
    ELSE Node(c.ver + 1, Start(c, n), Zeros(Stop(c, n) - Start(c, n)), TRUE, ilen(c))

collect_hole(n) ==
    /\ Pass(n) /\ Present /\ FragsOf(f, n) # {} /\ ~InOnePage(f, n)
    /\ \E nd \in {replacement_hole(f, n)}, m \in {New(f)} :
         Written(Then(write_dnode([f EXCEPT !.ver = Max({@, nd.ver})], m, nd),
                   LAMBDA d : IF nd.ver = d.ver
                              THEN drop_metadata(add_full_dnode_to_inode(d, m))
                              ELSE Mark(Moved(d, n, m), {m}, "normal")),
                 m, want)
    /\ odd' = Stale(ilen(f))
    /\ UNCHANGED <<state, op, gc, base>>

\* How far down and up a node's rewrite may reach within its page: over every
\* fragment short of the page's edge, and over the one at the edge unless it is
\* a hole or lies in a clean block.
Lows(c, n) ==
    LET min == PageOf(Start(c, n)) * Page
        below == {i \in DOMAIN c.tree : min <= c.tree[i].ofs /\ c.tree[i].ofs < Start(c, n)}
        inner == {c.tree[i].ofs : i \in below} \ {min}
        edge == {i \in below : c.tree[i].ofs = min /\ c.tree[i].node # None}
    IN  {Min(inner \union {Start(c, n)})} \union {min : i \in edge}

Highs(c, n) ==
    LET max == (PageOf(Start(c, n)) + 1) * Page
        above == {i \in DOMAIN c.tree : c.tree[i].ofs >= Stop(c, n) /\ FragEnd(c.tree[i]) <= max}
        inner == {FragEnd(c.tree[i]) : i \in above} \ {max}
        edge == {i \in above : FragEnd(c.tree[i]) = max /\ c.tree[i].node # None}
    IN  {Max(inner \union {Stop(c, n)})} \union {max : i \in edge}

\* Any other node is rewritten from the contents of its page.
collect_dnode(n) ==
    /\ Pass(n) /\ Present /\ FragsOf(f, n) # {} /\ InOnePage(f, n)
    /\ \E lo \in {Start(f, n)} \union Lows(f, n), hi \in {Stop(f, n)} \union Highs(f, n) :
         gc' = [at |-> "dnode", offset |-> lo, orig_end |-> Stop(f, n), end |-> hi]
    /\ UNCHANGED <<f, state, op, log, want, base, odd>>

DnodeStep(k) ==
    /\ gc.at = "dnode" /\ Room(f) # {}
    /\ k <= gc.end - gc.offset
    /\ Written(drop_metadata(add_full_dnode_to_inode(
                 write_dnode([f EXCEPT !.ver = @ + 1], New(f),
                   Node(f.ver + 1, gc.offset, read_inode_range(f, gc.offset, k), FALSE, f.isize)), New(f))),
               New(f), want)
    /\ gc' = IF gc.offset + k >= gc.orig_end THEN Idle ELSE [gc EXCEPT !.offset = @ + k]
    /\ odd' = Stale(f.isize)
    /\ UNCHANGED <<state, op, base, left>>

DnodeFails ==
    /\ gc.at = "dnode" /\ Room(f) = {}
    /\ gc' = Idle
    /\ UNCHANGED <<f, state, op, log, want, base, odd, left>>

(***************************************************************************)
(* The medium.                                                             *)
(***************************************************************************)
\* A dead node goes with its block, once the write buffer is flushed.
Erase(n) ==
    /\ f.flash[n].flag = "obsolete"
    /\ left.erasures > 0 /\ left' = [left EXCEPT !.erasures = @ - 1]
    /\ f' = [f EXCEPT !.flash[n] = Unused]
    /\ log' = <<>> /\ base' = want
    /\ UNCHANGED <<state, op, gc, want, odd>>

NoMemory(c) == [c EXCEPT !.tree = <<>>, !.count = [n \in Nodes |-> 0], !.meta = None, !.isize = 0, !.ver = 0]

Reread ==
    /\ left.rereads > 0
    /\ left' = [left EXCEPT !.rereads = @ - 1, !.requests = Min({@, After})]

\* Power is lost with the first i nodes of the write buffer on the flash, and of
\* the next one perhaps the first page.  NAND keeps no mark of what was obsolete.
Crash(i, torn) ==
    /\ Reread
    /\ i <= Len(log)
    /\ torn => i < Len(log) /\ Len(f.flash[log[i + 1].node].data) > 0 /\ ~f.flash[log[i + 1].node].hole
    /\ \E lost \in {{log[j].node : j \in i + 1 .. Len(log)}} :
         f' = NoMemory([f EXCEPT !.flash = [n \in Nodes |->
                IF f.flash[n].flag = "free" THEN Unused
                ELSE IF n \notin lost THEN [f.flash[n] EXCEPT !.flag = "unchecked"]
                ELSE IF torn /\ n = log[i + 1].node
                THEN [f.flash[n] EXCEPT !.flag = "unchecked", !.torn = TRUE]
                ELSE Unused]])
    /\ want' = IF i = 0 THEN base ELSE log[i].want
    /\ base' = want' /\ log' = <<>>
    /\ state' = "absent" /\ op' = Idle /\ gc' = Idle
    /\ UNCHANGED odd

\* The inode is dropped from memory: jffs2_do_clear_inode of a file with names.
Evict ==
    /\ Reread
    /\ Serving("idle") /\ ~Locked
    /\ f' = NoMemory(f) /\ state' = "absent"
    /\ UNCHANGED <<op, gc, log, want, base, odd>>

(***************************************************************************)
(* jffs2_do_read_inode.  The nodes come in some order.  tn lists those     *)
(* kept by offset, the shorter first; over are those an earlier one in the *)
(* list reaches into; mdata is the newest without data.  The data of a     *)
(* node is checked only when the node would displace another or be part of *)
(* the tree.                                                               *)
(***************************************************************************)
\* r is the inode c and the jffs2_readinode_info.
Info(c) == [c |-> c, tn |-> <<>>, over |-> {}, mdata |-> None, lost |-> FALSE]
Nd(r, n) == r.c.flash[n]
Good(r, n) == Nd(r, n).flag # "unchecked" \/ ~Nd(r, n).torn
check_tn_node(r, n) ==
    IF Nd(r, n).flag # "unchecked" THEN r
    ELSE [r EXCEPT !.c = Mark(@, {n}, IF Nd(r, n).torn THEN "obsolete" ELSE "pristine")]
kill_tn(r, n) == [r EXCEPT !.c = mark_node_obsolete(@, n)]

\* Node n comes before m in the list.
TnBefore(r, n, m) ==
    \/ Nd(r, n).ofs < Nd(r, m).ofs
    \/ Nd(r, n).ofs = Nd(r, m).ofs /\ Len(Nd(r, n).data) < Len(Nd(r, m).data)

\* The search for node n's offset ends beside its place in the list, before or
\* after it as the tree is shaped, and backs up over what is overlapped.
lookup_tn(r, n) ==
    LET here == Len(SelectSeq(r.tn, LAMBDA m : Nd(r, m).ofs < Nd(r, n).ofs))
    IN  {here, here + 1} \cap DOMAIN r.tn

back_up(r, i) == Max({j \in 1..i : r.tn[j] \notin r.over} \union {1})

\* No node before the overlapped first one is left: its mark is taken back.
unmark_first(r, i) ==
    IF back_up(r, i) = 1 /\ r.tn[1] \in r.over THEN [r EXCEPT !.over = @ \ {r.tn[1]}] ELSE r

Drop(r, i) == [r EXCEPT !.tn = RemoveAt(@, i), !.over = @ \ {r.tn[i]}]

\* Node n goes into the list; what it reaches into, and whether it is reached.
insert_tn(r, n) ==
    LET i == Len(SelectSeq(r.tn, LAMBDA m : ~TnBefore(r, n, m)))
        list == InsertAt(r.tn, i + 1, n)
        reach(j) == End(Nd(r, list[j])) > Nd(r, n).ofs
        \* behind: back to the first that reaches n or is not itself reached
        stop == Max({j \in 1..i : reach(j) \/ list[j] \notin r.over} \union {1})
        ahead == {list[j] : j \in {k \in i + 2 .. Len(list) : Nd(r, list[k]).ofs < End(Nd(r, n))}}
    IN  [r EXCEPT !.tn = list,
                  !.over = (IF i = 0 THEN @
                            ELSE IF reach(stop) THEN @ \union {n}
                            ELSE IF list[stop] \in @ THEN @ \ {list[stop]} ELSE @) \union ahead]

\* The new node hides node i of the list and perhaps more that follow it.
RECURSIVE kill_hidden(_, _, _)
kill_hidden(r, n, i) ==
    IF i > Len(r.tn) \/ End(Nd(r, r.tn[i])) > End(Nd(r, n)) THEN [r |-> r, i |-> i]
    ELSE IF Nd(r, r.tn[i]).ver < Nd(r, n).ver THEN kill_hidden(Drop(kill_tn(r, r.tn[i]), i), n, i)
    ELSE kill_hidden(r, n, i + 1)

Hides(r, n, m) == Nd(r, n).ver > Nd(r, m).ver /\ Nd(r, n).ofs <= Nd(r, m).ofs /\ End(Nd(r, n)) >= End(Nd(r, m))

\* jffs2_add_tn_to_tree from node i of the list on.
RECURSIVE add_tn(_, _, _)
add_tn(r, n, i) ==
    IF i > Len(r.tn) \/ Nd(r, r.tn[i]).ofs > End(Nd(r, n)) THEN insert_tn(r, n)
    ELSE Then(r.tn[i], LAMBDA m :
      IF Nd(r, m).ver = Nd(r, n).ver
      THEN IF Good(r, m) THEN kill_tn(check_tn_node(r, m), n)
           ELSE [kill_tn(r, m) EXCEPT !.tn[i] = n, !.over = @ \ {m}]
      ELSE IF Hides(r, n, m)
      THEN IF ~Good(r, n) THEN kill_tn(r, n)
           ELSE Then(kill_hidden(check_tn_node(r, n), n, i), LAMBDA k : add_tn(k.r, n, k.i))
      ELSE IF Hides(r, m, n)
      THEN IF Good(r, m) THEN kill_tn(check_tn_node(r, m), n)
           ELSE insert_tn(Drop(kill_tn(r, m), i), n)
      ELSE add_tn(r, n, i + 1))

\* read_dnode: header checks; a node without data counts as checked.
read_dnode(c, n) ==
    IF c.flash[n].flag # "unchecked" THEN c
    ELSE IF c.flash[n].ofs > c.flash[n].isize THEN mark_node_obsolete(c, n)
    ELSE IF c.flash[n].hole \/ c.flash[n].data = <<>> THEN Mark(c, {n}, "normal") ELSE c

\* Of the nodes without data only the newest matters.
keep_mdata(r, n) ==
    IF r.mdata = None THEN [r EXCEPT !.mdata = n]
    ELSE IF Nd(r, r.mdata).ver < Nd(r, n).ver THEN [kill_tn(r, r.mdata) EXCEPT !.mdata = n]
    ELSE kill_tn(r, n)

\* A bad node is replaced by its copy, but not its mark (ghost).
NoteFlag(r, q) ==
    [q EXCEPT !.lost = @ \/ \E i \in DOMAIN q.tn \cap DOMAIN r.tn :
        q.tn[i] # r.tn[i] /\ Nd(r, q.tn[i]).ver = Nd(r, r.tn[i]).ver /\ r.tn[i] \in r.over]

\* Mutant of note_version: nodes without data are not counted.
note_versionData(r, n) == IF Nd(r, n).data = <<>> THEN r ELSE [r EXCEPT !.c.ver = Max({@, Nd(r, n).ver})]

note_version(r, n) == [r EXCEPT !.c.ver = Max({@, Nd(r, n).ver})]

\* One turn of jffs2_get_inode_nodes: what may become of r with node n.
get_inode_node(r, n) ==
    Then([r EXCEPT !.c = read_dnode(@, n)], LAMBDA s :
      IF Dead(Nd(s, n)) THEN {s}
      ELSE Then(note_version(s, n), LAMBDA q :
        IF Nd(q, n).data = <<>> THEN {keep_mdata(q, n)}
        ELSE IF q.tn = <<>> THEN {insert_tn(q, n)}
        ELSE {NoteFlag(q, add_tn(unmark_first(q, i), n, back_up(q, i))) : i \in lookup_tn(q, n)}))

get_inode_nodes(c, order) ==
    FoldLeft(LAMBDA R, n : IF Dead(c.flash[n]) THEN R ELSE UNION {get_inode_node(r, n) : r \in R},
             {Info(c)}, order)

\* Mutant of replay_order: overlapping nodes enter as they lie in the list.
replay_orderListed(r) == r.tn

\* The order in which the nodes of the list enter the tree: from the last on,
\* each run of overlapped nodes in the order of their versions.
replay_order(r) ==
    LET first == {i \in DOMAIN r.tn : i = 1 \/ r.tn[i] \notin r.over}
        run(i) == SortSeq(SubSeq(r.tn, i, Min({j - 1 : j \in {k \in first : k > i}} \union {Len(r.tn)})),
                          LAMBDA n, m : Nd(r, n).ver < Nd(r, m).ver)
    IN  FoldLeft(LAMBDA seq, i : seq \o (IF i \in first THEN run(i) ELSE <<>>), <<>>,
                 [j \in 1..Len(r.tn) |-> Len(r.tn) + 1 - j])

\* a is [c |-> the inode, latest |-> the newest good node so far].
add_checked(a, n) ==
    Then(check_tn_node(Info(a.c), n).c, LAMBDA d :
      IF Dead(d.flash[n]) THEN [a EXCEPT !.c = d]
      ELSE [c |-> add_full_dnode_to_inode(d, n),
            latest |-> IF a.latest = None \/ d.flash[n].ver > d.flash[a.latest].ver THEN n ELSE a.latest])

build_inode_fragtree(r) == FoldLeft(add_checked, [c |-> r.c, latest |-> r.mdata], replay_order(r))

\* The metadata node is kept if it is the newest; the newest node's isize is the
\* length of the file, if there is as much.
finish_read(a, mdata) ==
    Then(IF mdata = None THEN a.c
         ELSE IF mdata = a.latest THEN [a.c EXCEPT !.meta = mdata]
         ELSE mark_node_obsolete(a.c, mdata), LAMBDA c :
      Then(truncate_fragtree(c, c.flash[a.latest].isize), LAMBDA d :
        [d EXCEPT !.isize = Min({c.flash[a.latest].isize, TreeEnd(d)})]))

do_read_inode(order) ==
    /\ state = "absent"
    /\ \E r \in get_inode_nodes(f, order) :
         /\ \E a \in {build_inode_fragtree(r)} :
              IF a.latest = None THEN f' = a.c /\ state' = "lost"
              ELSE f' = finish_read(a, r.mdata) /\ state' = "present"
         /\ odd' = IF r.lost THEN odd \union {"flag"} ELSE odd
    /\ UNCHANGED <<op, gc, log, want, base, left>>

(***************************************************************************)
(* The system.                                                             *)
(***************************************************************************)
Collect(n) == collect_pristine(n) \/ collect_metadata(n) \/ collect_hole(n) \/ collect_dnode(n)

Next ==
    \/ \E w \in Writes : Write(w[1], w[2])
    \/ \E n \in 1..Page : write_inode_range(n)
    \/ WriteFails \/ SetISize
    \/ \E size \in Sizes : do_setattr(size)
    \/ truncate_setsize
    \/ \E n \in Nodes : Collect(n) \/ Erase(n)
    \/ \E k \in 1..Page : DnodeStep(k)
    \/ DnodeFails
    \/ \E i \in 0..K, torn \in BOOLEAN : Crash(i, torn)
    \/ Evict
    \/ \E order \in Orders : do_read_inode(order)

Spec == Init /\ [][Next]_vars

(***************************************************************************)
(* Properties.                                                             *)
(***************************************************************************)
\* Types of the variables.
TypeOK ==
    /\ \A n \in Nodes :
         /\ f.flash[n].flag \in {"free", "unchecked", "pristine", "normal", "obsolete"}
         /\ End(f.flash[n]) \in 0..MaxSize
         /\ f.count[n] \in 0..MaxSize
    /\ f.meta \in Nodes \union {None}
    /\ f.isize \in 0..MaxSize
    /\ state \in {"present", "absent", "lost"}
    /\ op.at \in {"idle", "range", "size", "setsize"}
    /\ gc.at \in {"idle", "dnode"}
    /\ Len(log) <= K
    /\ odd \subseteq {"gap", "stale", "partial", "flag"}

Holds ==
    /\ state # "lost"
    /\ Present => /\ TreeEnd(f) = Len(want)
                  /\ read_inode_range(f, 0, Len(want)) = want
                  /\ op.at = "idle" => f.isize = Len(want)

\* The file reads back as the requests left it: while they run, after its nodes
\* were moved, after it was dropped from memory and, as far as the write buffer
\* had been flushed, after a power loss.  The exceptions are what odd notes: a
\* write behind the end of a file that was longer before (libjffs2_prepareWrite
\* compares the length only), a node written by the collector while i_size lags
\* behind (gc.c:1361), a write that failed half way, and CopyReplaces below.  It
\* is stated for two readings: a third can meet a torn node beside a good one
\* that was given the same version (NewestOnTop), take them for copies and drop
\* the good one.
ReadsBack == odd = {} => Holds

\* "Same overlapping from in front and behind" (readinode.c:280): the good copy
\* of a node that the collector had moved takes the place of the bad one, and
\* the file still reads back.
CopyReplaces == odd \subseteq {"flag"} => Holds

\* The fragments tile the file (add_frag_to_fragtree); a node counts its
\* fragments; every node that is not obsolete is in the tree or is the metadata
\* node, as garbage_collect_live expects of a node it finds.
Accounted ==
    TypeOK /\ (Present =>
      /\ \A i \in DOMAIN f.tree :
           /\ f.tree[i].size > 0
           /\ f.tree[i].ofs = IF i = 1 THEN 0 ELSE FragEnd(f.tree[i - 1])
           /\ f.tree[i].node # None =>
                /\ ~Dead(f.flash[f.tree[i].node])
                /\ f.flash[f.tree[i].node].ofs <= f.tree[i].ofs
                /\ FragEnd(f.tree[i]) <= End(f.flash[f.tree[i].node])
      /\ \A n \in Nodes : f.count[n] = Cardinality(FragsOf(f, n))
      /\ Live(f) = {n \in Nodes : f.count[n] > 0} \union ({f.meta} \ {None}))

\* The next version number is above that of every node on the flash whose data
\* is good, dead ones included, as the order of the nodes at the next mount
\* depends on it (jffs2_get_inode_nodes, highest_version).  A torn node is
\* excepted: once a read has found it bad later reads skip it
\* (readinode.c:560-569), and its version may be given again.
NewestOnTop == Present /\ odd = {} => \A n \in Nodes : f.flash[n].torn \/ f.flash[n].ver <= f.ver

\* Nothing but a request changes what a read returns: not the collector, not the
\* write buffer and not the erasing of nodes (gc.c).
CollectKeeps ==
    [][Present /\ state' = state /\ left'.requests = left.requests /\ op' = op =>
         read_inode_range(f', 0, MaxSize) = read_inode_range(f, 0, MaxSize)]_vars
=============================================================================
