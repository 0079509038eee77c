----------------------------- MODULE Jffs2Space -----------------------------
(***************************************************************************)
(* The flash space of jffs2 on NAND: erase blocks, their node references   *)
(* and sizes, the block lists, the write buffer, the reservation of space, *)
(* garbage collection, erasing and the scan of the flash at mount          *)
(* (src/jffs2/nodemgmt.c, gc.c, erase.c, wbuf.c, scan.c, summary.c,        *)
(* background.c, build.c).                                                 *)
(*                                                                         *)
(* The nodes are the directory entries of one directory: a node says which *)
(* inode a name stands for, 0 for a deletion entry.  Sizes are in units of *)
(* sizeof(jffs2_raw_inode) + JFFS2_MIN_DATA_LEN bytes, the amount below    *)
(* which space is not worth calling dirty.                                 *)
(***************************************************************************)
EXTENDS Integers, Sequences, SequencesExt, FiniteSetsExt

CONSTANTS
    N,          \* number of erase blocks
    Sector,     \* c->sector_size
    Page,       \* c->wbuf_pagesize
    Names,      \* the names of the directory
    NodeLen,    \* length of a name's entry
    RefilePeriod, \* 128: how often a dead block is kept for later
    Overhead,   \* 2% of the flash plus 100 bytes per block, rounded up
    Requests,   \* number of entries written by requests
    Passes,     \* number of passes of the background thread
    Mishaps,    \* number of flash operations that fail and of power losses
    Toll        \* the requests a mishap takes away, to bound what follows one

Blocks == 1..N
None == 0
NoSum == -1
Threads == {"writer", "gcd"}

VARIABLES
    s,          \* the superblock info, the directory in core and the flash
    pc,         \* what each thread does
    job,        \* the writer's request
    sem,        \* the thread that holds alloc_sem
    hist,       \* the values of each name a power loss may leave (ghost)
    left        \* requests, passes and mishaps still to come; whether no erase
                \* failed so far and no two blocks were erased at a time (ghost)

vars == <<s, pc, job, sem, hist, left>>

(***************************************************************************)
(* Sizes.  Every byte of a block is free, used, dirty or wasted and is     *)
(* counted both in the block and in the superblock.                        *)
(***************************************************************************)
Sizes == {"free", "used", "dirty", "wasted"}

ISDIRTY(size) == size > 1
VERYDIRTY(size) == 2 * size >= Sector

resv_blocks_deletion == 2

resv_blocks_write == resv_blocks_deletion + (Overhead + Sector - 1) \div Sector
nospc_dirty_size == Sector + (N * Sector + 99) \div 100

\* n units of block b change from one kind to another.
Recount(c, b, from, to, n) ==
    [c EXCEPT !.blk[b][from] = @ - n, !.blk[b][to] = @ + n,
              !.sz[from] = @ - n, !.sz[to] = @ + n]

Ref(k, ino, len, st) == [k |-> k, ino |-> ino, len |-> len, st |-> st]

\* Space no entry lives in: padding, summaries, the end of a block.
Blank(len, st) == Ref("", 0, len, st)

Kind(st) == IF st = "obsolete" THEN "dirty" ELSE "used"

link_node_ref(c, b, ref) ==
    Recount([c EXCEPT !.blk[b].refs = Append(@, ref)], b, "free", Kind(ref.st), ref.len)

scan_dirty_space(c, b, n) ==
    IF n = 0 THEN c ELSE link_node_ref(c, b, Blank(n, "obsolete"))

\* The rest of the block becomes an obsolete node, counted as wasted.
Waste(c, b, n) ==
    Recount(link_node_ref(c, b, Blank(n, "obsolete")), b, "dirty", "wasted", n)

wbuf_dirty(c) == c.wb.len > 0
write_ofs(c, b) == Sector - c.blk[b].free

(***************************************************************************)
(* Lists.                                                                  *)
(***************************************************************************)
Lists == {"free", "clean", "dirty", "very_dirty", "erasable", "pending_wbuf",
          "erase_pending", "erasing", "complete", "checking", "bad", "bad_used"}

list_del(c, b) == [c EXCEPT !.li = [l \in Lists |-> SelectSeq(c.li[l], LAMBDA x : x # b)]]
add_tail(c, l, b) == [c EXCEPT !.li[l] = Append(@, b)]
list_add(c, l, b) == [c EXCEPT !.li[l] = <<b>> \o @]
move_tail(c, l, b) == add_tail(list_del(c, b), l, b)
list_move(c, l, b) == list_add(list_del(c, b), l, b)
on_list(c, l, b) == b \in ToSet(c.li[l])
Erasing(c, n) == [c EXCEPT !.nr_erasing = @ + n]

(***************************************************************************)
(* A node becomes obsolete.  Its block is refiled by what is left in it,   *)
(* unless it is being written or collected, or the flash is being scanned. *)
(* The block waits for the write buffer if that holds anything: the node   *)
(* that replaces this one may not be on the flash yet.                     *)
(***************************************************************************)
RefileEarly(c, b, added) ==
    LET d == c.blk[b] IN
    IF c.scanning \/ b = c.next THEN c
    ELSE IF d.used = 0
         THEN Erasing(add_tail(IF b = c.gcb THEN [c EXCEPT !.gcb = None] ELSE list_del(c, b),
                               "erase_pending", b), 1)
    ELSE IF b = c.gcb THEN c ELSE move_tail(c, "dirty", b)

Refile(c, b, added) ==
    LET d == c.blk[b] IN
    IF c.scanning \/ b = c.next THEN c
    ELSE IF d.used = 0
         THEN add_tail(IF b = c.gcb THEN [c EXCEPT !.gcb = None] ELSE list_del(c, b),
                       IF wbuf_dirty(c) THEN "pending_wbuf" ELSE "erasable", b)
    ELSE IF b = c.gcb THEN c
    ELSE IF ISDIRTY(d.dirty) /\ ~ISDIRTY(d.dirty - added) THEN move_tail(c, "dirty", b)
    ELSE IF VERYDIRTY(d.dirty) /\ ~VERYDIRTY(d.dirty - added) THEN move_tail(c, "very_dirty", b)
    ELSE c

mark_node_obsolete(c, b, i) ==
    LET ref == c.blk[b].refs[i]
        d == c.blk[b]
        dirtying == (d.dirty > 0 \/ ISDIRTY(d.wasted + ref.len)) /\ b # c.next
        keep == on_list(c, "bad_used", b) /\ d.wasted > 0
        waste == IF dirtying /\ ~keep THEN d.wasted ELSE 0
        c1 == Recount(c, b, Kind(ref.st), IF dirtying THEN "dirty" ELSE "wasted", ref.len)
        c2 == [Recount(c1, b, "wasted", "dirty", waste) EXCEPT !.blk[b].refs[i].st = "obsolete"]
    IN  IF ref.st = "obsolete" THEN c
        ELSE Refile(c2, b, IF dirtying /\ ~keep THEN ref.len + waste ELSE 0)

(***************************************************************************)
(* Erasing.  A pending block loses its references before the flash is      *)
(* erased; an erased one is checked and marked before it is free.          *)
(***************************************************************************)
EmptyBlock == [refs |-> <<>>, free |-> 0, used |-> 0, dirty |-> 0, wasted |-> 0]

\* erase_pending_blocks takes a pending block to erase it.
StartErase(c, b) ==
    LET d == c.blk[b] IN
    list_add([list_del(c, b) EXCEPT
                !.blk[b] = EmptyBlock,
                !.sz = [f \in Sizes \cup {"erasing", "bad"} |->
                          IF f = "erasing" THEN @[f] + Sector
                          ELSE IF f = "bad" THEN @[f] ELSE @[f] - d[f]]],
             "erasing", b)

erase_succeeded(c, b) == move_tail(c, "complete", b)

\* The block goes back to the pending ones, all of it dirty.
EraseAgain(c, b) ==
    list_move([c EXCEPT !.sz.erasing = @ - Sector, !.sz.dirty = @ + Sector,
                        !.blk[b].dirty = Sector], "erase_pending", b)

erase_failedCounted(c, b, known) ==
    IF known /\ c.bad_count[b] = 0
    THEN EraseAgain([c EXCEPT !.bad_count[b] = 1], b)
    ELSE list_move([c EXCEPT !.sz.erasing = @ - Sector, !.sz.bad = @ + Sector,
                             !.bad_count[b] = IF known THEN 2 ELSE @], "bad", b)

\* The second failure at the device, or one the device cannot place, ends the block.
erase_failed(c, b, known) ==
    IF known /\ c.bad_count[b] = 0
    THEN EraseAgain([c EXCEPT !.bad_count[b] = 1], b)
    ELSE Erasing(list_move([c EXCEPT !.sz.erasing = @ - Sector, !.sz.bad = @ + Sector,
                                     !.bad_count[b] = IF known THEN 2 ELSE @], "bad", b), -1)

mark_erased_block(c, b) ==
    Erasing(move_tail([c EXCEPT !.blk[b].free = Sector, !.sz.erasing = @ - Sector,
                                !.sz.free = @ + Sector, !.nr_free = @ + 1], "free", b), -1)

Erased == [nodes |-> <<>>, upto |-> 0, marked |-> FALSE]
Marked == [Erased EXCEPT !.marked = TRUE]
NoWbuf == [b |-> None, ofs |-> 0, len |-> 0]

Ret(c, r) == [c EXCEPT !.ret = r]

\* The next thing done to c.
Then(c, F(_)) == F(c)

\* BUG(), a null pointer followed or a list linked wrongly: the behaviour ends
\* here.
Bug(c, what) == [c EXCEPT !.bug = what, !.ret = "bug"]

(***************************************************************************)
(* Choosing the block to write to.                                         *)
(***************************************************************************)
\* A block other than the next one is already on a list: it is linked into a
\* second one, and the next block is left on none.
close_nextblock(c, b) ==
    LET d == c.blk[b]
        dirty == ISDIRTY(d.wasted + d.dirty)
        c1 == IF dirty THEN Recount(c, b, "wasted", "dirty", d.wasted) ELSE c
        c2 == [add_tail(c1, IF ~dirty THEN "clean"
                            ELSE IF VERYDIRTY(d.wasted + d.dirty) THEN "very_dirty" ELSE "dirty", b)
                EXCEPT !.next = None]
    IN  IF c.next = None THEN c
        ELSE IF c.next = b THEN c2 ELSE Bug(c2, "stale block closed")

\* erase_pending_blocks(c, 1) when its caller holds alloc_sem.
EraseOne(c) ==
    LET mark(d) == LET b == Head(d.li["complete"]) IN
                   mark_erased_block([d EXCEPT !.flash[b] = Marked], b)
        erase(d) == LET b == Head(d.li["erase_pending"]) IN erase_succeeded(StartErase(d, b), b)
    IN  IF c.li["complete"] # <<>> THEN mark(c)
        ELSE IF c.li["erase_pending"] # <<>> THEN mark(erase(c))
        ELSE c

\* With the free list empty a dead block is erased first.  The buffer can hold
\* nothing here that a flush could write: there is no next block.
find_nextblock(c) ==
    IF c.li["free"] # <<>>
    THEN [c EXCEPT !.next = Head(c.li["free"]), !.li["free"] = Tail(@), !.nr_free = @ - 1,
                   !.sum = 0, !.ret = "ok",
                   !.wb = IF @.ofs \in {0, Sector} /\ @.len = 0 THEN NoWbuf ELSE @]
    ELSE Then(IF c.nr_erasing = 0 /\ c.li["erasable"] # <<>>
              THEN Erasing(move_tail(c, "erase_pending", Head(c.li["erasable"])), 1) ELSE c,
         LAMBDA d :
            IF d.nr_erasing > 0 THEN Ret(EraseOne(d), "again")
            ELSE IF d.li["pending_wbuf"] = <<>> THEN Ret(d, "nospc")
            ELSE IF wbuf_dirty(d) THEN Bug(d, "no next block") ELSE Ret(d, "again"))

(***************************************************************************)
(* The write buffer holds the part of the last page that is not yet on the *)
(* flash.                                                                  *)
(***************************************************************************)
\* One block in RefilePeriod is kept for later, the others are erased at once.
refile_wbuf_blocks(c) ==
    FoldLeft(LAMBDA d, b :
                LET e == [list_del(d, b) EXCEPT !.n = (@ + 1) % RefilePeriod] IN
                IF d.n # 0 THEN Erasing(add_tail(e, "erase_pending", b), 1)
                ELSE add_tail(e, "erasable", b),
             c, c.li["pending_wbuf"])

\* A block a write failed in: nothing more is written to it.
block_refile(c, b) ==
    LET c1 == IF c.next = b THEN [c EXCEPT !.next = None] ELSE list_del(c, b)
        c2 == IF c.blk[b].refs # <<>> THEN list_add(c1, "bad_used", b)
              ELSE Erasing(list_add(c1, "erase_pending", b), 1)
    IN  Waste(c2, b, c.blk[b].free)

Offset(refs, i) == FoldLeft(LAMBDA n, r : n + r.len, 0, SubSeq(refs, 1, i - 1))

\* Reference i moves, as it stands, to the end of the block nb.
MoveRef(c, b, i, nb) ==
    LET ref == c.blk[b].refs[i]
        c1 == link_node_ref(c, nb, ref)
    IN  IF ref.st = "obsolete" THEN c1
        ELSE [Recount(c1, b, "used", "dirty", ref.len) EXCEPT !.blk[b].refs[i].st = "obsolete"]

\* The references first to the last but one of b move to the next block.
MoveRefs(c, b, first, start, old) ==
    LET last == Len(c.blk[b].refs)
        len == Offset(c.blk[b].refs, last) - start
        moved == SelectSeq(old, LAMBDA x : x.at >= start)
    IN  FoldLeft(LAMBDA e, i : MoveRef(e, b, i, c.next),
                 [c EXCEPT !.sum = NoSum,
                    !.wb = [b |-> c.next, ofs |-> len - (len % Page), len |-> len % Page],
                    !.flash[c.next].upto = len - (len % Page),
                    !.flash[c.next].nodes = [i \in 1..Len(moved) |->
                                               [moved[i] EXCEPT !.at = @ - start]]],
                 [i \in 1..(last - first) |-> first + i - 1])

\* The references with a live node that has a part in the buffer.
InBuffer(refs, ofs) ==
    {i \in 1..Len(refs) : /\ refs[i].st # "obsolete"
                          /\ ~(i < Len(refs) /\ Offset(refs, i + 1) <= ofs)}

\* The page the buffer was for could not be written.  The nodes that have a
\* part in the buffer move to a new block.  Without one they stay in the buffer,
\* and the flash they were for takes no more writes.  While only the other
\* thread has a block to give, the recovery waits for its erase.
wbuf_recover(c) ==
    LET b == c.wb.b
        recover(d, first, start) ==
            IF d.ret # "ok"
            THEN [d EXCEPT !.lost = TRUE, !.flash[b] = c.flash[b],
                           !.bug = IF d.ret = "again" THEN "waits" ELSE @]
            ELSE Then(MoveRefs(d, b, first, start, c.flash[b].nodes), LAMBDA e :
                      IF first = 1 THEN Erasing(list_move(e, "erase_pending", b), 1) ELSE e)
        retry(d) == IF d.ret = "again" THEN find_nextblock(d) ELSE d
        from(d, inbuf) ==
            IF inbuf = {} THEN [d EXCEPT !.wb.len = 0]
            ELSE recover(retry(find_nextblock(d)), Min(inbuf), Offset(d.blk[b].refs, Min(inbuf)))
    IN  Then([block_refile(c, b) EXCEPT !.fail = FALSE,
                 !.flash[b].nodes = SelectSeq(@, LAMBDA x : x.at < c.wb.ofs)],
             LAMBDA d : from(d, InBuffer(d.blk[b].refs, c.wb.ofs)))

flush_wbufUnpadded(c, pad) ==
    IF ~wbuf_dirty(c) THEN Ret(c, "ok")
    ELSE IF c.next = None THEN Bug(c, "no next block")
    ELSE IF c.fail THEN Ret(wbuf_recover(c), "eio")
    ELSE [refile_wbuf_blocks(c) EXCEPT !.wb.ofs = @ + Page, !.wb.len = 0, !.wbi = FALSE,
                                       !.flash[c.wb.b].upto = c.wb.ofs + Page, !.ret = "ok"]

\* The buffer reaches the flash; with a pad, the rest of its page is wasted.
flush_wbuf(c, pad) ==
    LET c1 == IF pad THEN Waste(c, c.wb.b, Page - c.wb.len) ELSE c IN
    IF ~wbuf_dirty(c) THEN Ret(c, "ok")
    ELSE IF c.next = None THEN Bug(c, "no next block")
    ELSE IF c.fail THEN Ret(wbuf_recover(c), "eio")
    ELSE IF pad /\ c.blk[c.wb.b].free < Page - c.wb.len THEN Bug(c, "accounting error")
    ELSE [refile_wbuf_blocks(c1) EXCEPT !.wb.ofs = @ + Page, !.wb.len = 0, !.wbi = FALSE,
                                        !.flash[c.wb.b].upto = c.wb.ofs + Page, !.ret = "ok"]

\* A second attempt writes what a recovery left in the buffer.
flush_wbuf_pad(c) ==
    Then(flush_wbuf(c, TRUE), LAMBDA d : IF d.ret = "eio" THEN flush_wbuf(d, TRUE) ELSE d)

\* The buffer turns to block b.  What it still holds for another one is written
\* first.
TurnTo(c, b) ==
    LET ofs == write_ofs(c, b) IN
    IF c.wb.b = b THEN Ret(c, "ok")
    ELSE Then(flush_wbuf(c, TRUE), LAMBDA d :
              IF d.ret # "ok" THEN d
              ELSE [d EXCEPT !.wb = [b |-> b, ofs |-> ofs - (ofs % Page), len |-> ofs % Page]])

\* The buffer is filled, but its page cannot be written.
WriteFails(c) == Ret(wbuf_recover([c EXCEPT !.wb.len = Page]), "eio")

(***************************************************************************)
(* Reserving space.                                                        *)
(***************************************************************************)
\* Units a summary of n entries takes at the end of a block.
SumNeed(n) == 1 + n \div 4

\* Without a summary the end of the block is wasted.
CloseWasting(c, b) == close_nextblock(Waste(c, b, c.blk[b].free), b)

\* The summary fills the block.
sum_write_sumnode(c) ==
    LET b == c.next
        n == c.blk[b].free
        node == [k |-> "", v |-> 0, ino |-> 0, len |-> n, at |-> Sector - n]
        written(d) == [refile_wbuf_blocks(d) EXCEPT
                          !.wb = [b |-> b, ofs |-> Sector, len |-> 0],
                          !.wbi = FALSE, !.sum = 0, !.flash[b].upto = Sector,
                          !.flash[b].nodes = Append(@, node)]
        write(d) == IF d.bug # "" THEN d
                    ELSE IF d.ret # "ok" THEN [d EXCEPT !.sum = NoSum]
                    ELSE IF d.fail THEN [WriteFails(d) EXCEPT !.sum = NoSum]
                    ELSE close_nextblock(link_node_ref(written(d), b, Blank(n, "normal")), b)
    IN  IF c.sum = 0 THEN Bug(c, "empty summary")
        ELSE IF n < SumNeed(c.sum) THEN [c EXCEPT !.sum = NoSum]
        ELSE write(TurnTo(c, b))

\* len and a summary with the node in it must fit, or the block is closed.  jeb
\* is read again after a flush, not after the summary could not be written.
do_reserve_space(c, len, summary) ==
    LET jeb == c.next
        full(d, b, need) == b # None /\ len + need > d.blk[b].free
        closing == summary /\ full(c, jeb, SumNeed(c.sum + 1))
        nosum(d) == ~summary \/ (closing /\ d.sum = NoSum)
        close(d, b) == IF d.bug = "" /\ full(d, b, 0) THEN CloseWasting(d, b) ELSE d
        skip(d) == IF ~(nosum(d) /\ full(d, jeb, 0)) THEN d
                   ELSE IF wbuf_dirty(d) THEN Then(flush_wbuf_pad(d), LAMBDA e : close(e, e.next))
                   ELSE close(d, jeb)
        find(d) == IF d.bug # "" THEN d
                   ELSE IF d.next = None THEN find_nextblock(d) ELSE Ret(d, "ok")
    IN  Then(IF closing /\ c.sum # NoSum THEN sum_write_sumnode(c) ELSE c, LAMBDA d :
             IF d.bug # "" THEN d ELSE Then(skip(d), find))

(***************************************************************************)
(* Writing a node.                                                         *)
(***************************************************************************)
NodesOn(flash) == UNION {ToSet(flash[b].nodes) : b \in Blocks}

NextVersion(c, k) == 1 + Max({0} \cup {x.v : x \in {y \in NodesOn(c.flash) : y.k = k}})

\* Only the order of the versions of a name matters.
Ranked(c) ==
    LET older(x) == {y.v : y \in {z \in NodesOn(c.flash) : z.k = x.k /\ z.v < x.v}} IN
    [c EXCEPT !.flash = [b \in Blocks |->
        [c.flash[b] EXCEPT !.nodes = [i \in 1..Len(@) |->
            [@[i] EXCEPT !.v = IF @ = 0 THEN 0 ELSE 1 + Cardinality(older(c.flash[b].nodes[i]))]]]]]

\* Where the entry of a name is, if it has one.
Entries(c, k) == {<<b, i>> \in Blocks \X (1..Sector) :
                     /\ i <= Len(c.blk[b].refs)
                     /\ c.blk[b].refs[i].k = k
                     /\ c.blk[b].refs[i].st # "obsolete"}

\* The inode a name stands for, 0 if the name is absent or deleted.
Value(c, k) == IF \E e \in Entries(c, k) : c.blk[e[1]].refs[e[2]].ino # 0 THEN 1 ELSE 0

\* The bytes of a node follow those in the buffer; whole pages are written.
flash_writev(c, node, gc) ==
    LET b == c.next
        ofs == write_ofs(c, b)
        c1 == TurnTo(c, b)
        end == ofs + node.len
        pages == end - (end % Page)
        c2 == [c1 EXCEPT !.wb.ofs = pages, !.wb.len = end % Page,
                         !.flash[b].nodes = Append(@, [node EXCEPT !.at = ofs]),
                         !.sum = IF @ = NoSum THEN @ ELSE @ + 1,
                         !.ret = "ok"]
        c3 == IF pages = c1.wb.ofs THEN c2
              ELSE [refile_wbuf_blocks(c2) EXCEPT !.wbi = FALSE, !.flash[b].upto = pages]
    IN  IF c1.ret # "ok" THEN c1
        ELSE IF ofs # c1.wb.ofs + c1.wb.len THEN Bug(c, "non-contiguous write")
        ELSE IF c.fail /\ pages # c1.wb.ofs THEN WriteFails(c1)
        ELSE [c3 EXCEPT !.wbi = (@ \/ ~gc) /\ wbuf_dirty(c3)]

\* A block that is full of live nodes is clean.
add_physical_node_ref(c, b, ref) ==
    Then(link_node_ref(c, b, ref), LAMBDA d :
         IF d.blk[b].free = 0 /\ d.blk[b].dirty = 0 /\ ~ISDIRTY(d.blk[b].wasted)
         THEN [add_tail(flush_wbuf_pad(d), "clean", b) EXCEPT !.next = None] ELSE d)

\* The entry of a name is written to the reserved space; it replaces the old
\* entry, which becomes obsolete (add_fd_to_list).
write_dirent(c, k, ino, gc) ==
    LET node == [k |-> k, v |-> NextVersion(c, k), ino |-> ino, len |-> NodeLen[k], at |-> 0]
        obsolete(d, old) ==
            IF old = {} THEN d
            ELSE LET o == CHOOSE x \in old : TRUE IN mark_node_obsolete(d, o[1], o[2])
    IN  Then(flash_writev(c, node, gc), LAMBDA d :
             IF d.ret # "ok" THEN d
             ELSE Ret(obsolete(add_physical_node_ref(d, c.next, Ref(k, ino, NodeLen[k], "pristine")),
                               Entries(d, k)), "ok"))

(***************************************************************************)
(* Garbage collection of one node.                                         *)
(***************************************************************************)
Firsts == <<"erasable", "very_dirty", "dirty", "clean">>

find_gc_block(c) ==
    LET lists(d) == (IF d.li["bad_used"] # <<>> /\ d.nr_free > 0 THEN <<"bad_used">> ELSE <<>>)
                    \o SelectSeq(Firsts, LAMBDA l : d.li[l] # <<>>)
        take(d, b) == [Recount(list_del(d, b), b, "wasted", "dirty", d.blk[b].wasted)
                        EXCEPT !.gcb = b, !.gcn = 1,
                               !.bug = IF d.blk[b].refs = <<>> THEN "no node to collect" ELSE @]
    IN  Then(IF lists(c) = <<>> /\ c.li["pending_wbuf"] # <<>> THEN flush_wbuf_pad(c) ELSE c,
             LAMBDA d : IF d.bug # "" \/ lists(d) = <<>> THEN d
                        ELSE take(d, Head(d.li[Head(lists(d))])))

eraseit(c) ==
    IF c.gcb # None /\ c.blk[c.gcb].used = 0
    THEN Erasing(add_tail([c EXCEPT !.gcb = None], "erase_pending", c.gcb), 1) ELSE c

\* A deletion entry is needed while an older entry of its name is on another block.
StillDeletes(c, b, k) ==
    \E x \in Blocks \ {b} : \E r \in ToSet(c.blk[x].refs) :
        r.k = k /\ r.ino # 0 /\ r.st = "obsolete"

\* Copy the entry at the collection point to the log; a failed write is tried
\* once more.
garbage_collect_dirent(c) ==
    LET b == c.gcb
        k == c.blk[b].refs[c.gcn].k
        ino == c.blk[b].refs[c.gcn].ino
        try(d) == Then(do_reserve_space(d, NodeLen[k], TRUE),
                       LAMBDA e : IF e.ret = "ok" THEN write_dirent(e, k, ino, TRUE) ELSE e)
        check(d) == IF /\ d.ret \notin {"again", "bug"}
                       /\ d.blk[b].dirty = c.blk[b].dirty
                       /\ d.blk[b].refs[c.gcn].st # "obsolete"
                    THEN Ret(d, "nospc") ELSE d
    IN  Then(try(c), LAMBDA d : check(IF d.ret = "eio" THEN try(d) ELSE d))

GcCollect(c) ==
    LET collect(d, b, refs, live) ==
            IF live = {} THEN Bug(d, "end of the list")
            ELSE Then([d EXCEPT !.gcn = Min(live)], LAMBDA e :
                 IF refs[e.gcn].k = "" \/ (refs[e.gcn].ino = 0 /\ ~StillDeletes(e, b, refs[e.gcn].k))
                 THEN Ret(eraseit(mark_node_obsolete(e, b, e.gcn)), "ok")
                 ELSE Ret(e, "copy"))
        from(d, b) ==
            IF b = None THEN Ret(d, IF d.nr_erasing > 0 THEN "again" ELSE "eio")
            ELSE IF d.blk[b].used = 0 THEN Ret(eraseit(d), "ok")
            ELSE collect(d, b, d.blk[b].refs,
                         {i \in d.gcn..Len(d.blk[b].refs) : d.blk[b].refs[i].st # "obsolete"})
    IN  Then(IF c.gcb # None THEN c ELSE find_gc_block(c),
             LAMBDA d : IF d.bug # "" THEN d ELSE from(d, d.gcb))

(***************************************************************************)
(* Mounting: the blocks are scanned in order.                              *)
(***************************************************************************)
Whole(f, x) == x.at + x.len <= f.upto

\* A node whose bytes are not all there is dirt of its full length; of two
\* entries of a name the older one is obsolete.
scan_node(c, b, x) ==
    LET o == c.fds[x.k]
        i(d) == Len(d.blk[b].refs)
        newest(d) == [d EXCEPT !.fds[x.k] = [v |-> x.v, b |-> b, i |-> i(d)]]
        file(d) == IF x.k = "" THEN d
                   ELSE Then([d EXCEPT !.sum = @ + 1], LAMBDA e :
                        IF o.v = 0 THEN newest(e)
                        ELSE IF x.v < o.v THEN mark_node_obsolete(e, b, i(e))
                        ELSE mark_node_obsolete(newest(e), o.b, o.i))
        st == IF x.k = "" THEN "normal" ELSE "pristine"
    IN  Then(scan_dirty_space(c, b, x.at - write_ofs(c, b)), LAMBDA d :
             IF Whole(c.flash[b], x) THEN file(link_node_ref(d, b, Ref(x.k, x.ino, x.len, st)))
             ELSE scan_dirty_space(d, b, x.len))

file_dirty(c, b) ==
    LET c1 == scan_dirty_space(c, b, c.blk[b].free)
        c2 == Recount(c1, b, "wasted", "dirty", c1.blk[b].wasted)
    IN  list_add(c2, IF VERYDIRTY(c2.blk[b].dirty) THEN "very_dirty" ELSE "dirty", b)

\* The block with the most room becomes the next block.  s.sum is what was
\* collected for this block, keep what was collected for the next block.
scan_partdirty(c, b, keep) ==
    LET better == c.blk[b].free > Page
                  /\ (c.next = None \/ c.blk[c.next].free < c.blk[b].free)
        room == SumNeed(c.sum) <= c.blk[b].free
    IN  IF ~better THEN [file_dirty(c, b) EXCEPT !.sum = keep]
        ELSE [IF c.next = None THEN c ELSE file_dirty(c, c.next)
                EXCEPT !.next = b, !.sum = IF room THEN @ ELSE NoSum]

Pending(c, b) == Erasing(list_add(c, "erase_pending", b), 1)

\* The list the block goes on; what was collected for its summary counts only
\* if it becomes the next block.
scan_classify(c, b, keep) ==
    LET d == c.blk[b] IN
    IF d.refs = <<>> /\ c.flash[b].marked
    THEN [list_add(c, "free", b) EXCEPT !.nr_free = @ + 1, !.sum = keep]
    ELSE IF d.refs = <<>> THEN [Pending(c, b) EXCEPT !.empty = @ + 1, !.sum = keep]
    ELSE IF ~ISDIRTY(Sector - d.used)
         THEN [list_add(Recount(c, b, "dirty", "wasted", d.dirty), "clean", b) EXCEPT !.sum = keep]
    ELSE IF d.used > 0 THEN scan_partdirty(c, b, keep)
    ELSE [Pending(c, b) EXCEPT !.sum = keep]

scan_eraseblock(c, b) ==
    LET f == c.flash[b]
        pad(d) == scan_dirty_space(d, b, Max({0, f.upto - write_ofs(d, b)}))
        summary == \E x \in ToSet(f.nodes) : x.k = "" /\ Whole(f, x)
        waste(d) == IF summary THEN d ELSE Recount(d, b, "wasted", "dirty", d.blk[b].wasted)
    IN  IF c.bad_count[b] = 2
        THEN list_add([c EXCEPT !.sz.bad = @ + Sector, !.sz.free = @ - Sector,
                                !.blk[b].free = 0], "bad", b)
        ELSE Then(FoldLeft(LAMBDA d, x : scan_node(d, b, x), [c EXCEPT !.sum = 0], f.nodes),
                  LAMBDA d : Then(pad(d), LAMBDA e : scan_classify(waste(e), b, c.sum)))

Zero == [f \in Sizes \cup {"erasing", "bad"} |-> IF f = "free" THEN N * Sector ELSE 0]

Unscanned(flash, bad) ==
    [blk |-> [b \in Blocks |-> [EmptyBlock EXCEPT !.free = Sector]], sz |-> Zero,
     li |-> [l \in Lists |-> <<>>], next |-> None, gcb |-> None, gcn |-> 1,
     nr_free |-> 0, nr_erasing |-> 0, wb |-> NoWbuf, wbi |-> FALSE, sum |-> 0, n |-> 0,
     flash |-> flash, bad_count |-> [b \in Blocks |-> IF bad[b] = 2 THEN 2 ELSE 0],
     scanning |-> TRUE, empty |-> 0, fds |-> [k \in Names |-> [v |-> 0, b |-> 0, i |-> 0]],
     fail |-> FALSE, lost |-> FALSE, ret |-> "ok", bug |-> ""]

rotate_list(l, by) ==
    IF l = <<>> THEN l
    ELSE LET x == 1 + (by % Len(l)) IN SubSeq(l, x + 1, Len(l)) \o SubSeq(l, 1, x)

Rotated == {"clean", "very_dirty", "dirty", "erase_pending", "free"}

\* What the scan keeps only for itself.
Forget(c) == [c EXCEPT !.scanning = FALSE, !.empty = 0, !.ret = "ok", !.fail = FALSE,
                       !.fds = [k \in Names |-> [v |-> 0, b |-> 0, i |-> 0]]]

\* What is dirty in the next block is wasted, and writing starts at a page.
AlignNext(c) ==
    IF c.next = None THEN c
    ELSE Then(Recount(c, c.next, "dirty", "wasted", c.blk[c.next].dirty),
              LAMBDA d : scan_dirty_space(d, d.next, d.blk[d.next].free % Page))

\* Refused when nothing is in use and some block is neither free, empty nor bad.
Refuse(c) ==
    LET bad == Len(c.li["bad"]) IN
    c.nr_erasing > 0 /\ c.sz.used = 0 /\ (c.nr_free + c.empty + bad # N \/ bad = N)

scan_medium(flash, bad, by) ==
    Then(AlignNext(FoldLeft(scan_eraseblock, Unscanned(flash, bad), [i \in 1..N |-> i])), LAMBDA c :
         Ranked(Forget([c EXCEPT
            !.bug = IF Refuse(c) THEN "refused" ELSE "",
            !.li = [l \in Lists |-> IF l \in Rotated THEN rotate_list(@[l], by) ELSE @[l]]])))

(***************************************************************************)
(* The threads.  A section under alloc_sem is one step; erasing happens    *)
(* outside it.                                                             *)
(***************************************************************************)
At(a) == [at |-> a, b |-> None]
NoJob == [op |-> "none", k |-> "", ino |-> 0, again |-> FALSE, b |-> None, ofs |-> 0]

TypeOK ==
    /\ s.next \in 0..N /\ s.gcb \in 0..N
    /\ \A l \in Lists : ToSet(s.li[l]) \subseteq Blocks
    /\ \A b \in Blocks : \A f \in Sizes : s.blk[b][f] \in 0..Sector
    /\ pc \in [Threads -> [at : {"idle", "reserve", "gc", "gc2", "collect", "erase", "flash",
                                 "mark", "sync", "pad", "dead"}, b : 0..N]]
    /\ sem \in Threads \cup {"none"}
    /\ hist \in [Names -> SUBSET {0, 1}]

Init ==
    /\ s = scan_medium([b \in Blocks |-> Marked], [b \in Blocks |-> 0], 0)
    /\ pc = [t \in Threads |-> At("idle")]
    /\ job = NoJob
    /\ sem = "none"
    /\ hist = [k \in Names |-> {0}]
    /\ left = [requests |-> Requests, passes |-> Passes, mishaps |-> Mishaps,
               calm |-> TRUE]

\* A name's entry is on the flash.
Durable(c, k) ==
    \A e \in Entries(c, k) : Offset(c.blk[e[1]].refs, e[2] + 1) <= c.flash[e[1]].upto

\* The step's outcome, and what a power loss may now leave of each name.  A
\* step that waits for the other thread's erase happens after that erase.
Becomes(c) ==
    /\ c.bug # "waits"
    /\ s' = Ranked(Forget(c))
    /\ hist' = [k \in Names |-> IF Durable(c, k) THEN {Value(c, k)} ELSE hist[k] \cup {Value(c, k)}]

\* A write to the flash may fail.
MayFail == left.mishaps > 0 /\ left.requests >= Toll
Faulty(f) == f => MayFail

Mishap == [left EXCEPT !.mishaps = @ - 1, !.requests = @ - Toll]

\* A step that finds no free block may erase one itself.
Alone == s.li["erasing"] = <<>> \/ s.li["free"] # <<>>
Spend(c, f) == left' = [IF f /\ ~c.fail THEN Mishap ELSE left EXCEPT !.calm = @ /\ Alone]

Running == s.bug = ""

\* create, link, unlink and rename write one entry for a name; fsync flushes.
Request(k) ==
    /\ Running /\ pc["writer"].at = "idle" /\ left.requests > 0
    /\ job' = [NoJob EXCEPT !.op = "write", !.k = k, !.ino = 1 - Value(s, k)]
    /\ pc' = [pc EXCEPT !["writer"] = At("reserve")]
    /\ left' = [left EXCEPT !.requests = @ - 1]
    /\ UNCHANGED <<s, sem, hist>>

Done == /\ pc' = [pc EXCEPT !["writer"] = At("idle")]
        /\ job' = NoJob
        /\ sem' = "none"

Short == s.nr_free + s.nr_erasing < resv_blocks_write

Low == \/ s.sz.dirty + s.sz.erasing - s.nr_erasing * Sector < nospc_dirty_size
       \/ (s.sz.free + s.sz.dirty + s.sz.erasing) \div Sector <= resv_blocks_write

Deleting == job.ino = 0 /\ s.nr_free + s.nr_erasing >= resv_blocks_deletion

AtReserve == Running /\ pc["writer"].at = "reserve" /\ sem \in {"none", "writer"}

ReserveFails ==
    /\ AtReserve /\ Short /\ Low /\ ~Deleting
    /\ Done
    /\ UNCHANGED <<s, hist, left>>

ReserveCollects ==
    /\ AtReserve /\ Short /\ ~Low
    /\ pc' = [pc EXCEPT !["writer"] = At("gc")]
    /\ sem' = "none"
    /\ UNCHANGED <<s, job, hist, left>>

\* Space is reserved, the entry written and filed.  A write that fails is
\* tried once more, with the space reserved anew.
reserve_space(f) ==
    /\ AtReserve /\ (Short => Low /\ Deleting)
    /\ Faulty(f)
    /\ \E c \in {Then(do_reserve_space([s EXCEPT !.fail = f], NodeLen[job.k], TRUE), LAMBDA d :
                    IF d.ret = "ok" THEN write_dirent(d, job.k, job.ino, FALSE) ELSE d)} :
        /\ Becomes(c)
        /\ Spend(c, f)
        /\ \/ /\ c.ret = "again"
              /\ sem' = "writer"
              /\ UNCHANGED <<pc, job>>
           \/ /\ c.ret = "eio" /\ ~job.again
              /\ sem' = "none"
              /\ job' = [job EXCEPT !.again = TRUE]
              /\ UNCHANGED pc
           \/ /\ c.ret \in {"ok", "nospc", "bug"} \/ (c.ret = "eio" /\ job.again)
              /\ Done

\* A pass of garbage collection ends with r.
PassEnds(t, r) ==
    LET to == IF t = "gcd" THEN IF r = "nospc" THEN "dead" ELSE "idle"
              ELSE IF job.op = "sync" THEN IF r = "ok" THEN "sync" ELSE "pad"
              ELSE IF r \in {"ok", "again"} THEN "reserve" ELSE "idle"
    IN  /\ pc' = [pc EXCEPT ![t] = At(to)]
        /\ job' = IF t = "writer" /\ to = "idle" THEN NoJob ELSE job

\* The background thread makes a pass at least once a second.
Wake ==
    /\ Running /\ pc["gcd"].at = "idle" /\ left.passes > 0
    /\ pc' = [pc EXCEPT !["gcd"] = At("gc")]
    /\ left' = [left EXCEPT !.passes = @ - 1]
    /\ UNCHANGED <<s, job, sem, hist>>

\* Blocks to erase come first.
PassErases(t) ==
    /\ Running /\ pc[t].at = "gc" /\ sem = "none"
    /\ s.li["complete"] # <<>> \/ s.li["erase_pending"] # <<>>
    /\ pc' = [pc EXCEPT ![t] = At("erase")]
    /\ UNCHANGED <<s, job, sem, hist, left>>

PassCollects(t, f) ==
    /\ Running /\ pc[t].at \in {"gc", "gc2"} /\ sem = "none"
    /\ pc[t].at = "gc" => s.li["complete"] = <<>> /\ s.li["erase_pending"] = <<>>
    /\ Faulty(f)
    /\ \E c \in {GcCollect([s EXCEPT !.fail = f])} :
        /\ Becomes(c)
        /\ Spend(c, f)
        /\ \/ /\ c.ret = "copy"
              /\ pc' = [pc EXCEPT ![t] = At("collect")]
              /\ sem' = t
              /\ UNCHANGED job
           \/ /\ c.ret # "copy"
              /\ PassEnds(t, c.ret)
              /\ UNCHANGED sem

PassCopies(t, f) ==
    /\ Running /\ pc[t].at = "collect"
    /\ Faulty(f)
    /\ \E c \in {garbage_collect_dirent([s EXCEPT !.fail = f])} :
        /\ Spend(c, f)
        /\ \/ /\ c.ret = "again"
              /\ Becomes(c)
              /\ UNCHANGED <<pc, job, sem>>
           \/ /\ c.ret # "again"
              /\ Becomes(eraseit(c))
              /\ PassEnds(t, c.ret)
              /\ sem' = "none"

\* One turn of erase_pending_blocks.
TakeErased(t) ==
    LET b == Head(s.li["complete"]) IN
    /\ Running /\ pc[t].at = "erase" /\ s.li["complete"] # <<>>
    /\ s' = list_move(s, "checking", b)
    /\ pc' = [pc EXCEPT ![t] = [at |-> "mark", b |-> b]]
    /\ UNCHANGED <<job, sem, hist, left>>

TakePending(t) ==
    LET b == Head(s.li["erase_pending"]) IN
    /\ Running /\ pc[t].at = "erase" /\ s.li["complete"] = <<>> /\ s.li["erase_pending"] # <<>>
    /\ Becomes(StartErase(s, b))
    /\ pc' = [pc EXCEPT ![t] = [at |-> "flash", b |-> b]]
    /\ left' = [left EXCEPT !.calm = @ /\ s.li["erasing"] = <<>>]
    /\ UNCHANGED <<job, sem>>

NoneToErase(t) ==
    /\ Running /\ pc[t].at = "erase" /\ s.li["complete"] = <<>> /\ s.li["erase_pending"] = <<>>
    /\ pc' = [pc EXCEPT ![t] = At("gc2")]
    /\ UNCHANGED <<s, job, sem, hist, left>>

Erase(t) ==
    LET b == pc[t].b IN
    /\ Running /\ pc[t].at = "flash"
    /\ s' = erase_succeeded([s EXCEPT !.flash[b] = Erased], b)
    /\ pc' = [pc EXCEPT ![t] = At("erase")]
    /\ UNCHANGED <<job, sem, hist, left>>

EraseFails(t, known) ==
    /\ Running /\ pc[t].at = "flash" /\ MayFail
    /\ s' = erase_failed(s, pc[t].b, known)
    /\ pc' = [pc EXCEPT ![t] = At("erase")]
    /\ left' = [Mishap EXCEPT !.calm = FALSE]
    /\ UNCHANGED <<job, sem, hist>>

Mark(t) ==
    LET b == pc[t].b IN
    /\ Running /\ pc[t].at = "mark"
    /\ s' = mark_erased_block([s EXCEPT !.flash[b] = Marked], b)
    /\ PassEnds(t, "ok")
    /\ UNCHANGED <<sem, hist, left>>

MarkFails(t) ==
    /\ Running /\ pc[t].at = "mark" /\ MayFail
    /\ s' = erase_failed(s, pc[t].b, TRUE)
    /\ PassEnds(t, "ok")
    /\ left' = Mishap
    /\ UNCHANGED <<sem, hist>>

(***************************************************************************)
(* fsync, umount: garbage is collected until the buffer has moved on.      *)
(***************************************************************************)
Sync ==
    /\ Running /\ pc["writer"].at = "idle" /\ sem = "none" /\ s.wbi /\ wbuf_dirty(s)
    /\ job' = [NoJob EXCEPT !.op = "sync", !.b = s.wb.b, !.ofs = s.wb.ofs]
    /\ pc' = [pc EXCEPT !["writer"] = At("gc")]
    /\ UNCHANGED <<s, sem, hist, left>>


SyncAgain ==
    /\ Running /\ pc["writer"].at = "sync" /\ sem = "none"
    /\ IF job.b = s.wb.b /\ job.ofs = s.wb.ofs
       THEN pc' = [pc EXCEPT !["writer"] = At("gc")] /\ UNCHANGED <<job, sem>>
       ELSE Done
    /\ UNCHANGED <<s, hist, left>>

\* Collecting failed: the rest of the page is wasted.
SyncPads(f) ==
    /\ Running /\ pc["writer"].at = "pad" /\ sem = "none"
    /\ Faulty(f)
    /\ \E c \in {flush_wbuf_pad([s EXCEPT !.fail = f])} : Becomes(c) /\ Spend(c, f)
    /\ Done

(***************************************************************************)
(* Power is lost and comes back.  A block being erased holds its nodes,    *)
(* nothing, or garbage.                                                    *)
(***************************************************************************)
Junk == [nodes |-> <<>>, upto |-> Sector, marked |-> FALSE]

\* The nodes of which something is on the flash.
OnFlash(f) == [f EXCEPT !.nodes = SelectSeq(@, LAMBDA x : x.at < f.upto)]

Crash(by) ==
    /\ Running /\ MayFail
    /\ \E half \in [ToSet(s.li["erasing"]) -> {"old", "erased", "junk"}] :
        LET flash == [b \in Blocks |->
                        IF b \notin DOMAIN half \/ half[b] = "old" THEN OnFlash(s.flash[b])
                        ELSE IF half[b] = "erased" THEN Erased ELSE Junk]
        IN  s' = scan_medium(flash, s.bad_count, by)
    /\ hist' = [k \in Names |-> {Value(s', k)}]
    /\ pc' = [t \in Threads |-> At("idle")]
    /\ job' = NoJob
    /\ sem' = "none"
    /\ left' = Mishap

Next ==
    \/ \E k \in Names : Request(k)
    \/ ReserveFails \/ ReserveCollects
    \/ \E f \in BOOLEAN : reserve_space(f)
    \/ Wake
    \/ \E t \in Threads : \/ PassErases(t)
                          \/ \E f \in BOOLEAN : PassCollects(t, f) \/ PassCopies(t, f)
                          \/ TakeErased(t) \/ TakePending(t) \/ NoneToErase(t)
                          \/ Erase(t) \/ Mark(t) \/ MarkFails(t)
                          \/ \E known \in BOOLEAN : EraseFails(t, known)
    \/ Sync \/ SyncAgain
    \/ \E f \in BOOLEAN : SyncPads(f)
    \/ \E by \in 0..1 : Crash(by)

Spec == Init /\ [][Next]_vars

(***************************************************************************)
(* Properties.                                                             *)
(***************************************************************************)
\* What the sanity check of the accounting asks of the sizes
\* (dbg_acct_sanity_check): the kinds of space of a block add up to the block,
\* those of the flash to the flash.  And the sums over the blocks are the
\* totals, so that a total never drifts from what the blocks hold.
SumSizes(d) == d.free + d.used + d.dirty + d.wasted
Held(c) == ToSet(c.li["erasing"]) \cup ToSet(c.li["complete"]) \cup ToSet(c.li["checking"])
Accounting ==
    LET out == Held(s) \cup ToSet(s.li["bad"]) IN
    /\ \A b \in Blocks \ out : SumSizes(s.blk[b]) = Sector
    /\ \A f \in Sizes : s.sz[f] = FoldLeft(LAMBDA n, b : n + s.blk[b][f], 0,
                                            [i \in 1..N |-> i])
    /\ s.sz.erasing = Sector * Cardinality(Held(s))
    /\ s.sz.bad = Sector * Len(s.li["bad"])
    /\ SumSizes(s.sz) + s.sz.erasing + s.sz.bad = N * Sector
    /\ \A b \in Blocks \ out :
         s.blk[b].used = FoldLeft(LAMBDA n, r : n + (IF r.st = "obsolete" THEN 0 ELSE r.len), 0,
                                  s.blk[b].refs)

\* Every block is in one place: a list, the block written to or the block being
\* collected.  A block being erased or checked has a thread that does it, so
\* nobody waits for an erase in vain, and the counts are those of the lists.
OnOneList ==
    /\ \A b \in Blocks : Cardinality({l \in Lists : on_list(s, l, b)})
                         + (IF s.next = b THEN 1 ELSE 0) + (IF s.gcb = b THEN 1 ELSE 0) = 1
    /\ \A b \in Blocks : on_list(s, "erasing", b) \/ on_list(s, "checking", b)
                         <=> \E t \in Threads : pc[t].b = b
    /\ s.nr_free = Len(s.li["free"])
    /\ s.nr_erasing = Cardinality(Held(s)) + Len(s.li["erase_pending"])

\* What a mount would read for a name, if the blocks of gone are erased.
Found(k, gone) ==
    LET on == UNION {{x \in ToSet(s.flash[b].nodes) : x.k = k /\ Whole(s.flash[b], x)}
                       : b \in Blocks \ gone}
    IN  IF \E x \in on : x.ino # 0 /\ \A y \in on : y.v <= x.v THEN 1 ELSE 0

\* Whenever power is lost, a mount finds for each name its last value that
\* reached the flash, or a later one: no entry is erased before the one that
\* replaces it is written, and no deletion is forgotten while what it deletes
\* can still be read.  A failed write changes nothing of this; an erase that
\* fails does, and so do two at a time.  Their blocks have lost their references
\* (StartErase) while their nodes may still be on the flash, so a collector that
\* looks for what a deletion entry deletes does not see them and drops the entry
\* (garbage_collect_deletion_dirent): the next mount finds the deleted name.
NothingLost ==
    Running /\ left.calm =>
      \A k \in Names : \A gone \in SUBSET ToSet(s.li["erasing"]) : Found(k, gone) \in hist[k]

\* When fsync returns, what the directory holds is on the flash, after a failed
\* write too: no power loss can bring an older value back.
SyncDone == pc["writer"].at \in {"sync", "pad"} /\ pc'["writer"].at = "idle" /\ Running'

\* The page that is written next was not written since its block was erased, in
\* a block that was mounted half full too (flash_writev).
PagesOnce ==
    s.next # None =>
      LET ofs == write_ofs(s, s.next)
          page == IF s.wb.b = s.next THEN s.wb.ofs ELSE ofs - (ofs % Page)
      IN  page >= s.flash[s.next].upto

\* The code meets none of the cases it calls BUG() for and follows no null
\* pointer, and no mount refuses a flash it wrote itself.  While one write fails
\* the blocks kept for collecting leave one to recover the buffer to; a second
\* mishap may take that one away (flush_wbuf then follows nextblock, which is
\* null).  One case is excepted: the summary of a full block cannot be written and
\* what is recovered fills whole pages.  The stale block is then closed again,
\* which links it into two lists (do_reserve_space).
\* While nothing has failed and power has not been lost, collecting never runs
\* out of blocks to copy to: the background thread does not give up.
NoBug ==
    /\ s.bug \in {"", "stale block closed"} /\ ~s.lost
    /\ left.mishaps = Mishaps => pc["gcd"].at # "dead"

\* The books are right, after a recovered write too: types, Accounting, OnOneList
\* and PagesOnce (mark_node_obsolete, mark_erased_block, flush_wbuf).  Not once a
\* stale block was closed: it is then on two lists and the block that was to be
\* written next on none (do_reserve_space).
Bookkeeping == s.bug # "stale block closed" => TypeOK /\ Accounting /\ OnOneList /\ PagesOnce
=============================================================================
