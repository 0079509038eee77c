----------------------------- MODULE Ext2Blocks -----------------------------
(***************************************************************************)
(* The storage of ext2 files: allocation of blocks with its bitmaps and    *)
(* counts (ext2/block.c), the block map of an inode with its indirect      *)
(* blocks and their cache, and reading, writing and truncating a file      *)
(* (ext2/file.c).                                                          *)
(*                                                                         *)
(* fs->lock (libext2.c) makes every request one step. A request is a chain *)
(* of operators on a record s of everything it may change; s.err stops the *)
(* chain as an error return does. The accesses to the device are counted   *)
(* in s.n, and those in s.bad fail.                                        *)
(*                                                                         *)
(* A block holds Addr words, which are the unit of offsets and sizes: the  *)
(* data of a file, or in an indirect block the numbers of other blocks.    *)
(***************************************************************************)
EXTENDS Integers, Sequences, FiniteSets, FiniteSetsExt, SequencesExt, TLC

CONSTANTS
  Files,        \* inodes
  Links,        \* those that are symbolic links short enough for the inode
  Home,         \* the group of an inode, by file
  Groups,       \* fs->groups
  GroupBlocks,  \* sb->groupBlocks
  Meta,         \* blocks at the start of a group that hold its bitmaps
  FstBlocks,    \* sb->fstBlock: 1 with blocks of 1 KiB, else 0
  Word,         \* bits in an element of a bitmap
  Direct,       \* DIRECT_BLOCKS
  Addr,         \* block numbers in an indirect block
  RunMax,       \* EXT2_READ_RUN_MAX in blocks
  Offsets,      \* where writes start
  Lengths,      \* how much they write
  Sizes,        \* what files are truncated to
  MaxOps,       \* bound: requests
  MaxAccess,    \* bound: the access of a request that fails
  MaxFaulty     \* bound: the last request in which one fails

VARIABLES
  fst,     \* sb->fstBlock
  bmp,     \* the bitmap of each group on the device: bits 1..GroupBlocks
  gfree,   \* gdt[].freeBlocks
  sfree,   \* sb->freeBlocks
  disk,    \* the words of each block
  table,   \* the inodes on the device
  obj,     \* the inode in memory, its indirect blocks, OFLAG_DIRTY
  want,    \* what a file should read as, by word
  ops,     \* requests so far
  sound,   \* no request has failed, nothing was allocated outside a write
  short,   \* a request has found no space
  torn     \* an access to the device has failed, or a truncate found no space

vars == <<fst, bmp, gfree, sfree, disk, table, obj, want, ops, sound, short, torn>>

GroupSet == 0..(Groups - 1)
Bits     == 1..GroupBlocks
Words    == 0..(Addr - 1)
Slots    == 0..2                  \* obj->ind
Null     == <<>>                  \* data == NULL
Junk     == 99                    \* what memory or a free block happens to hold
Zeros    == [w \in Words |-> 0]

-----------------------------------------------------------------------------
(* Block numbers and bits                                                  *)

blockToGroup(s, bno) == (bno - s.fst) \div GroupBlocks
blockToOffs(s, bno)  == ((bno - s.fst) % GroupBlocks) + 1
blockValid(s, bno)   == bno >= s.fst /\ bno < s.fst + Groups * GroupBlocks
blockFromOffs(s, g, offs) == s.fst + g * GroupBlocks + offs - 1

\* ext2_findzerobit: the first clear bit from the element that holds bit offs
\* on, 0 if there is none.
findzerobit(used, offs) ==
  LET clear == {b \in Bits \ used : (b - 1) \div Word >= offs \div Word}
  IN IF clear = {} THEN 0 ELSE Min(clear)

-----------------------------------------------------------------------------
(* Requests                                                                *)

Ok(s)      == s.err = "EOK"
Err(s, e)  == [s EXCEPT !.err = e]
Then(s, Op(_)) == IF Ok(s) THEN Op(s) ELSE s

\* k accesses to the device; the first bad one ends them.
Access(s, k) ==
  LET hit == {i \in s.bad : s.n < i /\ i <= s.n + k}
  IN IF hit = {} THEN [s EXCEPT !.n = @ + k]
     ELSE [s EXCEPT !.n = Min(hit), !.err = "EIO"]

\* ext2_block_write of whole blocks that follow each other.
WriteRun(s, bno, data) ==
  Then(Access(s, 1), LAMBDA t :
    [t EXCEPT !.disk = [b \in {bno + i - 1 : i \in DOMAIN data} |-> data[b - bno + 1]] @@ @])

\* ext2_gdt_syncone reads and writes a block of descriptors.
gdt_syncone(s) == Access(s, 2)

-----------------------------------------------------------------------------
(* Taking and giving back bits                                             *)

\* Mutant of Toggle: a failed descriptor sync does not roll the bitmap back.
ToggleKeeps(s, g, old, bits, d) ==
  Then(Access(s, 1), LAMBDA w :
    LET done == gdt_syncone([w EXCEPT !.bmp[g] = SymDiff(old, bits), !.gfree[g] = @ + d])
    IN IF Ok(done) THEN [done EXCEPT !.sfree = @ + d]
       ELSE [done EXCEPT !.gfree[g] = @ - d])

\* The bitmap of group g, read as old, is written with bits flipped, then the
\* counts follow, d up. If the descriptor cannot be written the bitmap is
\* written back; if that fails too, the counts stay.
Toggle(s, g, old, bits, d) ==
  Then(Access(s, 1), LAMBDA w :
    LET done == gdt_syncone([w EXCEPT !.bmp[g] = SymDiff(old, bits), !.gfree[g] = @ + d])
        back == Access(Err(done, "EOK"), 1)
    IN IF Ok(done) THEN [done EXCEPT !.sfree = @ + d]
       ELSE IF Ok(back)
       THEN Err([back EXCEPT !.bmp[g] = old, !.gfree[g] = @ - d], "EIO")
       ELSE [back EXCEPT !.sfree = @ + d])

\* The groups a search visits, from group g round to it again; the first of
\* them with a clear bit ends it. A position offs counts in the first group.
Visit(g, i) == (g + i) % Groups
Clear(s, g, i, offs) ==
  IF i = 0 /\ offs # 0 /\ offs \notin s.bmp[g] THEN offs
  ELSE findzerobit(s.bmp[Visit(g, i)], IF i = 0 THEN offs ELSE 0)
Hit(s, g, offs) == {i \in GroupSet : Clear(s, g, i, offs) # 0}

\* ext2_block_createone: one block, in the group of the inode if it can.
block_createone(s) ==
  LET hit  == Hit(s, Home[s.f], 0)
      i    == Min(hit)
      g    == Visit(Home[s.f], i)
      bit  == Clear(s, Home[s.f], i, 0)
  IN IF hit = {} THEN Then(Access(s, Groups), LAMBDA t : Err(t, "ENOSPC"))
     ELSE Then(Access(s, i + 1), LAMBDA t :
            [Toggle(t, g, t.bmp[g], {bit}, -1) EXCEPT !.res = blockFromOffs(s, g, bit)])

\* ext2_block_destroyone
block_destroyone(s, bno) ==
  IF bno = 0 THEN s
  ELSE IF ~blockValid(s, bno) THEN Err(s, "EINVAL")
  ELSE Then(Access(s, 1), LAMBDA t :
         Toggle(t, blockToGroup(s, bno), t.bmp[blockToGroup(s, bno)], {blockToOffs(s, bno)}, 1))

\* ext2_block_destroy: n blocks that follow each other. Each group starts with
\* its bitmaps, so such a run of file blocks stays within one group.
block_destroy(s, bno, n) ==
  IF n = 0 \/ ~blockValid(s, bno) \/ ~blockValid(s, bno + n - 1) THEN Err(s, "EINVAL")
  ELSE Then(Access(s, 1), LAMBDA t :
         Toggle(t, blockToGroup(s, bno), t.bmp[blockToGroup(s, bno)],
                {blockToOffs(s, bno + i) : i \in 0..(n - 1)}, n))

-----------------------------------------------------------------------------
(* The block map                                                           *)

\* ext2_block_offs: the index at each level, from the data block upwards. The
\* last is an index into inode->block.
block_offs(block) ==
  LET b1 == block - Direct
      b2 == b1 - Addr
      b3 == b2 - Addr * Addr
  IN IF block < Direct THEN <<block>>
     ELSE IF b1 < Addr THEN <<b1, Direct>>
     ELSE IF b2 < Addr * Addr THEN <<b2 % Addr, b2 \div Addr, Direct + 1>>
     ELSE <<b3 % Addr, (b3 \div Addr) % Addr, b3 \div (Addr * Addr), Direct + 2>>

\* The block number at index offs[k] of level k: in the inode, or in the cached
\* indirect block of that level.
PtrAt(s, offs, k) ==
  IF k = Len(offs) THEN s.ino.block[offs[k]] ELSE s.ind[k - 1].data[offs[k]]

SetPtr(s, offs, k, bno) ==
  IF k = Len(offs) THEN [s EXCEPT !.ino.block[offs[k]] = bno]
  ELSE [s EXCEPT !.ind[k - 1].data[offs[k]] = bno]

\* ext2_block_readind: brings the indirect block whose number is at level k
\* into slot k - 2, after the one there was written back. A slot keeps memory
\* that was just allocated also when no block can be had for it.
block_readind(s, offs, k, alloc) ==
  LET bno  == PtrAt(s, offs, k)
      slot == s.ind[k - 2]
      out  == IF slot.data = Null
              THEN [s EXCEPT !.ind[k - 2].data = [w \in Words |-> Junk]]
              ELSE WriteRun(s, slot.bno, <<slot.data>>)
      in(t, b, d) == [t EXCEPT !.ind[k - 2] = [bno |-> b, data |-> d]]
  IN IF bno = 0 /\ ~alloc THEN [s EXCEPT !.gone = TRUE]
     ELSE IF bno # 0 /\ bno = slot.bno THEN s
     ELSE IF bno = 0
     THEN Then(Then(out, block_createone), LAMBDA t :
            SetPtr(in([t EXCEPT !.ino.blocks = @ + 1], t.res, Zeros), offs, k, t.res))
     ELSE Then(out, LAMBDA o :
            Then(Access(o, 1), LAMBDA t : in(t, bno, t.disk[bno])))

\* ext2_block_ind: the indirect blocks on the way to a data block, from the
\* inode down. Without alloc it ends at the first that does not exist; the
\* block numbers from level low up can be reached.
RECURSIVE Down(_, _, _, _)
Down(s, offs, k, alloc) ==
  IF k = 1 THEN s
  ELSE Then(block_readind(s, offs, k, alloc), LAMBDA t :
         IF t.gone THEN t ELSE Down([t EXCEPT !.low = k - 1], offs, k - 1, alloc))

block_ind(s, offs, alloc) ==
  Down([s EXCEPT !.gone = FALSE, !.low = Len(offs)], offs, Len(offs), alloc)

\* ext2_block_get: afterwards the number of the file's block is at Ptr.
block_get(s, block) == block_ind(s, block_offs(block), TRUE)
Ptr(s, block) == PtrAt(s, block_offs(block), 1)
SetBlock(s, block, bno) == SetPtr(s, block_offs(block), 1, bno)

-----------------------------------------------------------------------------
(* Writing blocks of a file                                                *)

\* Up to n blocks from bit on become the file's blocks from block on.
RECURSIVE Take(_, _, _, _, _, _, _)
Take(s, block, g, bit, k, n, old) ==
  IF k = n \/ bit + k > GroupBlocks \/ bit + k \in old THEN [s EXCEPT !.res = k]
  ELSE Then(block_get(s, block + k), LAMBDA t :
         Take(SetBlock(t, block + k, blockFromOffs(s, g, bit + k)), block, g, bit, k + 1, n, old))

\* ext2_block_create: up to n blocks that follow each other, behind lbno if it
\* can. It works on the bitmap it read at first and writes that back.
block_create(s, block, lbno, n) ==
  LET g0   == IF lbno # 0 THEN blockToGroup(s, lbno) ELSE Home[s.f]
      o0   == IF lbno # 0 THEN blockToOffs(s, lbno) ELSE 0
      hit  == Hit(s, g0, o0)
      g    == Visit(g0, Min(hit))
      bit  == Clear(s, g0, Min(hit), o0)
  IN IF hit = {} THEN Then(Access(s, Groups), LAMBDA t : Err(t, "ENOSPC"))
     ELSE Then(Access(s, Min(hit) + 1), LAMBDA t :
            Then(Take(t, block, g, bit, 0, n, s.bmp[g]), LAMBDA u :
              [Toggle(u, g, s.bmp[g], bit..(bit + u.res - 1), -u.res) EXCEPT !.res = u.res]))

\* ext2_block_syncone
block_syncone(s, block, data) ==
  Then(block_get(s, block), LAMBDA t :
    LET u == IF Ptr(t, block) # 0 THEN t
             ELSE Then(block_createone(t), LAMBDA v :
                    [SetBlock(v, block, v.res) EXCEPT !.ino.blocks = @ + 1])
    IN Then(u, LAMBDA v : WriteRun(v, Ptr(v, block), <<data>>)))

\* ext2_block_sync: the blocks data[i + 1 .. j] of the request are written as a
\* run, from where the first of them is.
Flush(s, block, data, i, j) ==
  Then(block_get(s, block + i), LAMBDA t :
    WriteRun(t, Ptr(t, block + i), SubSeq(data, i + 1, j)))

\* Mutant of HoleEnd: the blocks of a hole are not looked up before they are
\* allocated.
HoleEndAll(s, block, j, n) == [s EXCEPT !.res = n]

\* Where the hole ends that the request met in front of block + j. Looking up
\* its blocks creates the indirect blocks it needs.
RECURSIVE HoleEnd(_, _, _, _)
HoleEnd(s, block, j, n) ==
  IF j >= n THEN [s EXCEPT !.res = n]
  ELSE Then(block_get(s, block + j), LAMBDA t :
         IF Ptr(t, block + j) # 0 THEN [t EXCEPT !.res = j] ELSE HoleEnd(t, block, j + 1, n))

\* A hole is filled run by run.
RECURSIVE Fill(_, _, _, _, _, _)
Fill(s, block, data, i, j, lbno) ==
  IF i >= j THEN s
  ELSE Then(block_create(s, block + i, lbno, j - i), LAMBDA t :
         Then(Flush([t EXCEPT !.ino.blocks = @ + t.res], block, data, i, i + t.res), LAMBDA u :
           Fill(u, block, data, i + t.res, j, lbno)))

\* A run in progress starts at i and has its last block at lbno; it ends at a
\* hole, at a block that does not follow, and at the end of the request.
RECURSIVE block_sync(_, _, _, _, _, _)
block_sync(s, block, data, i, j, lbno) ==
  IF j >= Len(data) THEN IF i < j THEN Flush(s, block, data, i, j) ELSE s
  ELSE Then(block_get(s, block + j), LAMBDA t :
    LET bno == Ptr(t, block + j)
        out == IF i < j THEN Flush(t, block, data, i, j) ELSE t
    IN IF bno = 0
       THEN Then(Then(out, LAMBDA u : HoleEnd(u, block, j + 1, Len(data))), LAMBDA u :
              Then(Fill(u, block, data, j, u.res, lbno), LAMBDA v :
                block_sync(v, block, data, u.res, u.res, 0)))
       ELSE IF lbno = 0 \/ bno = lbno + 1 THEN block_sync(t, block, data, i, j + 1, bno)
       ELSE Then(out, LAMBDA u : block_sync(u, block, data, j, j + 1, bno)))

\* Mutant of block_init: a hole is read like a block with number 0.
block_initAny(s, block) ==
  Then(block_get(s, block), LAMBDA t :
    Then(Access(t, 1), LAMBDA u : [u EXCEPT !.buf = u.disk[Ptr(u, block)]]))

\* ext2_block_init: a hole reads as zeros.
block_init(s, block) ==
  Then(block_get(s, block), LAMBDA t :
    IF Ptr(t, block) = 0 THEN [t EXCEPT !.buf = Zeros]
    ELSE Then(Access(t, 1), LAMBDA u : [u EXCEPT !.buf = u.disk[Ptr(u, block)]]))

-----------------------------------------------------------------------------
(* _ext2_obj_sync, _ext2_file_write and _ext2_file_read                    *)

\* The inode if it is dirty, then whatever indirect blocks are cached.
obj_sync(s) ==
  LET inode == IF ~s.dirty THEN s
               ELSE Then(Access(s, 2), LAMBDA t : [t EXCEPT !.table = t.ino, !.dirty = FALSE])
      slot(t, d) == IF t.ind[d].data = Null THEN t
                    ELSE WriteRun(t, t.ind[d].bno, <<t.ind[d].data>>)
  IN Then(Then(Then(inode, LAMBDA t : slot(t, 0)), LAMBDA t : slot(t, 1)), LAMBDA t : slot(t, 2))

\* Words from..to of a block become val.
Part(s, block, from, to, val) ==
  Then(block_init(s, block), LAMBDA t :
    block_syncone(t, block, [w \in Words |-> IF w \in from..to THEN val ELSE t.buf[w]]))

Link(s) == s.f \in Links

\* Changed: the times, OFLAG_DIRTY.
Dirty(s, size) == [s EXCEPT !.ino.size = size, !.dirty = TRUE]

file_write(s, offs, len, val) ==
  LET in    == offs % Addr
      head  == IF in # 0 \/ len < Addr THEN Min({Addr - in, len}) ELSE 0
      first == offs \div Addr
      next  == IF head > 0 THEN first + 1 ELSE first
      full  == (len - head) \div Addr
      rest  == len - head - full * Addr
      h == IF head = 0 THEN s ELSE Part(s, first, in, in + head - 1, val)
      b == Then(h, LAMBDA t :
             IF full = 0 THEN t
             ELSE block_sync(t, next, [i \in 1..full |-> [w \in Words |-> val]], 0, 0, 0))
      d == Then(b, LAMBDA t : IF rest = 0 THEN t ELSE Part(t, next + full, 0, rest - 1, val))
      l == [s EXCEPT !.ino.block = [i \in DOMAIN @ |-> IF i < len THEN val ELSE @[i]]]
  IN IF Link(s) /\ (offs # 0 \/ s.ino.size # 0) THEN Err(s, "EINVAL")
     ELSE Then(IF Link(s) THEN l ELSE d, LAMBDA t :
            Then(obj_sync(Dirty(t, Max({t.ino.size, offs + len}))), LAMBDA u :
              Access(u, 1)))     \* ext2_sb_sync

\* The blocks behind first that follow it on the device, up to RunMax in all.
RECURSIVE RunLen(_, _, _, _, _)
RunLen(s, block, n, end, first) ==
  IF block + n >= end \/ n + 1 > RunMax THEN [s EXCEPT !.res = n]
  ELSE Then(block_get(s, block + n), LAMBDA t :
         IF Ptr(t, block + n) # first + n THEN [t EXCEPT !.res = n]
         ELSE RunLen(t, block, n + 1, end, first))

\* The words of a block, in order.
Text(d) == [i \in 1..Addr |-> d[i - 1]]

RECURSIVE ReadRuns(_, _, _)
ReadRuns(s, block, end) ==
  IF block >= end THEN s
  ELSE Then(block_get(s, block), LAMBDA t :
    LET first == Ptr(t, block)
    IN IF first = 0 THEN ReadRuns([t EXCEPT !.out = @ \o Text(Zeros)], block + 1, end)
       ELSE Then(RunLen(t, block, 1, end, first), LAMBDA u :
              Then(Access(u, 1), LAMBDA v :
                ReadRuns([v EXCEPT !.out =
                            @ \o [i \in 1..(u.res * Addr) |->
                                    v.disk[first + (i - 1) \div Addr][(i - 1) % Addr]]],
                         block + u.res, end))))

file_read(s, offs, asked) ==
  LET len   == Min({asked, s.ino.size - offs})
      in    == offs % Addr
      part  == in # 0 \/ len < Addr
      head  == Min({Addr - in, len})
      first == offs \div Addr
      end   == (offs + len) \div Addr
      next  == IF part THEN first + 1 ELSE first
      h == IF ~part THEN s
           ELSE Then(block_init(s, first), LAMBDA t :
                  [t EXCEPT !.out = [i \in 1..head |-> t.buf[in + i - 1]]])
      r == Then(h, LAMBDA t : ReadRuns(t, next, end))
  IN IF offs >= s.ino.size \/ len = 0 THEN s
     ELSE IF Link(s) THEN [s EXCEPT !.out = [i \in 1..len |-> s.ino.block[offs + i - 1]]]
     ELSE Then(r, LAMBDA t :
            LET rest == len - Len(t.out)
            IN IF rest = 0 THEN t
               ELSE Then(block_init(t, Max({next, end})), LAMBDA u :
                      [u EXCEPT !.out = @ \o [i \in 1..rest |-> u.buf[i - 1]]]))

-----------------------------------------------------------------------------
(* _ext2_file_truncate                                                     *)

\* Runs of blocks are given back, up to end; a hole ends a run.
RECURSIVE FreeRuns(_, _, _, _, _)
FreeRuns(s, block, end, first, run) ==
  LET out(t) == IF run = 0 THEN t
                ELSE Then(block_destroy(t, first, run), LAMBDA u : [u EXCEPT !.freed = @ + run])
  IN IF block >= end THEN out(s)
     ELSE Then(block_get(s, block), LAMBDA t :
       LET bno == Ptr(t, block)
       IN IF bno # 0 /\ run # 0 /\ bno = first + run
          THEN FreeRuns(t, block + 1, end, first, run + 1)
          ELSE Then(out(t), LAMBDA u :
                 FreeRuns(u, block + 1, end, bno, IF bno = 0 THEN 0 ELSE 1)))

\* Mutant of iblock_free: the block stays in the cache.
iblock_freeKeeps(s, bno) ==
  IF bno = 0 THEN s
  ELSE Then(block_destroyone(s, bno), LAMBDA t : [t EXCEPT !.ino.blocks = @ - 1])

\* ext2_iblock_free: an indirect block goes, from the cache too.
iblock_free(s, bno) ==
  IF bno = 0 THEN s
  ELSE Then(block_destroyone(s, bno), LAMBDA t :
         [t EXCEPT !.ino.blocks = @ - 1,
                   !.ind = [d \in Slots |-> IF @[d].data # Null /\ @[d].bno = bno
                                            THEN [bno |-> 0, data |-> Null] ELSE @[d]]])

\* The last entry that is visited below level k, the way back being downwards.
Emptied(offs, k) == \A l \in 1..(k - 1) : offs[l] = 0

\* The indirect blocks that have become empty, from the lowest level up.
RECURSIVE FreeLevels(_, _, _)
FreeLevels(s, offs, k) ==
  IF k > Len(offs) THEN s
  ELSE IF ~Emptied(offs, k) \/ k < s.low THEN FreeLevels(s, offs, k + 1)
  ELSE Then(iblock_free(s, PtrAt(s, offs, k)), LAMBDA t :
         FreeLevels(SetPtr(t, offs, k, 0), offs, k + 1))

\* ext2_iblock_destroy: the block numbers from start on, last first.
RECURSIVE iblock_destroy(_, _, _)
iblock_destroy(s, start, n) ==
  IF n = 0 THEN s
  ELSE LET offs == block_offs(start + n - 1)
       IN Then(block_ind(s, offs, FALSE), LAMBDA t :
            Then(FreeLevels(IF t.low = 1 THEN SetPtr(t, offs, 1, 0) ELSE t, offs, 2), LAMBDA u :
              iblock_destroy(u, start, n - 1)))

Ceil(n) == (n + Addr - 1) \div Addr

file_truncate(s, size) ==
  LET start == Ceil(size)
      end   == Ceil(s.ino.size)
      last  == size \div Addr
      f == FreeRuns([s EXCEPT !.freed = 0], start, end, 0, 0)
      i == Then(f, LAMBDA t : iblock_destroy(t, start, end - start))
      a == Then(i, LAMBDA t : [t EXCEPT !.ino.blocks = @ - t.freed])
      z == Then(a, LAMBDA t :
             IF size % Addr = 0 THEN t
             ELSE Then(block_get(t, last), LAMBDA u :
                    IF Ptr(u, last) = 0 THEN u ELSE Part(u, last, size % Addr, Addr - 1, 0)))
  IN IF Link(s) \/ s.ino.size <= size THEN Dirty(s, size)
     ELSE Then(z, LAMBDA t : Dirty(t, size))

-----------------------------------------------------------------------------
(* Requests on files                                                       *)

S0(f, bad) ==
  [f |-> f, fst |-> fst, bmp |-> bmp, gfree |-> gfree, sfree |-> sfree, disk |-> disk,
   table |-> table[f], ino |-> obj[f].ino, ind |-> obj[f].ind, dirty |-> obj[f].dirty,
   n |-> 0, bad |-> bad, err |-> "EOK", res |-> 0, buf |-> Zeros, out |-> <<>>,
   gone |-> FALSE, low |-> 1, freed |-> 0]

Becomes(s) ==
  /\ bmp' = s.bmp /\ gfree' = s.gfree /\ sfree' = s.sfree /\ disk' = s.disk
  /\ table' = [table EXCEPT ![s.f] = s.table]
  /\ obj' = [obj EXCEPT ![s.f] = [ino |-> s.ino, ind |-> s.ind, dirty |-> s.dirty]]
  /\ ops' = ops + 1
  /\ short' = (short \/ s.err = "ENOSPC")
  /\ UNCHANGED fst

\* One access fails, or two in a row.
Bad ==
  {{}} \cup (IF ops < MaxFaulty THEN {{k, k + i} : k \in 1..MaxAccess, i \in 0..1} ELSE {})

Failed(s) == \E k \in s.bad : k <= s.n

\* Nothing is asked of a file system after a request was torn.
Running == ops < MaxOps /\ ~torn

\* The values files write: told apart, and in a link a number of a block.
Val(f) == IF f \in Links THEN Meta + 1 ELSE 50 + Home[f]

\* A file as it should read after len words at offs became val.
Written(t, offs, len, val) ==
  [i \in 1..Max({Len(t), offs + len}) |->
     IF i > offs /\ i <= offs + len THEN val ELSE IF i <= Len(t) THEN t[i] ELSE 0]

\* ... after it was cut or extended.
Cut(t, size) == [i \in 1..size |-> IF i <= Len(t) THEN t[i] ELSE 0]

write(f, offs, len, bad) ==
  /\ Running
  /\ f \in Links => len <= Direct + 3    \* MAX_SYMLINK_LEN_IN_INODE
  /\ LET s == file_write(S0(f, bad), offs, len, Val(f))
     IN /\ Becomes(s)
        /\ want' = IF Ok(s) THEN [want EXCEPT ![f] = Written(@, offs, len, Val(f))] ELSE want
        /\ sound' = (sound /\ s.err \in {"EOK", "EINVAL"})
        /\ torn' = Failed(s)

\* ext2_obj_truncate, ext2_sb_sync; for a link only when it is deleted.
truncate(f, size, bad) ==
  /\ Running
  /\ f \in Links => size = 0
  /\ LET s == Then(Then(file_truncate(S0(f, bad), size), obj_sync), LAMBDA t : Access(t, 1))
     IN /\ Becomes(s)
        /\ want' = IF Ok(s) THEN [want EXCEPT ![f] = Cut(@, size)] ELSE want
        /\ sound' = (sound /\ Ok(s))
        /\ torn' = ~Ok(s)

\* A read leaves OFLAG_DIRTY alone, also when it has added indirect blocks.
read(f, offs, len) ==
  /\ Running
  /\ LET s == file_read(S0(f, {}), offs, len)
     IN Becomes(s) /\ sound' = (sound /\ s.bmp = bmp)
  /\ UNCHANGED <<want, torn>>

\* _ext2_obj_removelru, and later ext2_inode_init for the next request.
Load(i) == [ino |-> i, dirty |-> TRUE, ind |-> [d \in Slots |-> [bno |-> 0, data |-> Null]]]

evict(f) ==
  /\ Running
  /\ LET s == obj_sync(S0(f, {}))
     IN /\ Becomes([s EXCEPT !.ino = s.table, !.dirty = TRUE, !.ind = Load(s.table).ind])
  /\ UNCHANGED <<want, sound, torn>>

BlockSet == 0..(Groups * GroupBlocks)

Init ==
  /\ fst \in FstBlocks
  /\ bmp = [g \in GroupSet |-> 1..Meta]
  /\ gfree = [g \in GroupSet |-> GroupBlocks - Meta]
  /\ sfree = Groups * (GroupBlocks - Meta)
  /\ disk = [b \in BlockSet |-> [w \in Words |-> Junk]]
  /\ table = [f \in Files |-> [size |-> 0, blocks |-> 0,
                               block |-> [i \in 0..(Direct + 2) |-> 0]]]
  /\ obj = [f \in Files |-> Load(table[f])]
  /\ want = [f \in Files |-> <<>>]
  /\ ops = 0 /\ sound = TRUE /\ short = FALSE /\ torn = FALSE

Next ==
  \E f \in Files :
     \/ \E bad \in Bad :
          \/ \E offs \in Offsets, len \in Lengths : write(f, offs, len, bad)
          \/ \E size \in Sizes : truncate(f, size, bad)
     \/ read(f, 0, obj[f].ino.size)
     \/ evict(f)

Spec == Init /\ [][Next]_vars

-----------------------------------------------------------------------------
(* Properties                                                              *)

\* The blocks of f as the device would show them after a sync: for each block
\* in use, data or indirect, how often it is referred to.
Cached(f, bno, d) ==
  IF obj[f].ind[d].data # Null /\ obj[f].ind[d].bno = bno THEN obj[f].ind[d].data ELSE disk[bno]

\* Every reference from bno, an indirect block of level d, downwards.
RECURSIVE Below(_, _, _)
Below(f, bno, d) ==
  IF bno = 0 THEN <<>>
  ELSE IF d < 0 THEN <<bno>>
  ELSE <<bno>> \o FlattenSeq([w \in 1..Addr |-> Below(f, Cached(f, bno, d)[w - 1], d - 1)])

RefsOf(f) ==
  IF f \in Links THEN <<>>
  ELSE FlattenSeq([i \in 1..(Direct + 3) |-> 
         Below(f, obj[f].ino.block[i - 1], Max({-1, i - Direct - 1}))])

Uses     == [f \in Files |-> ToSet(RefsOf(f))]
Reserved == {blockFromOffs([fst |-> fst], g, b) : g \in GroupSet, b \in 1..Meta}
Marked   == UNION {{blockFromOffs([fst |-> fst], g, b) : b \in bmp[g]} : g \in GroupSet}

\* A block belongs to one file and to one place in it, is marked in the bitmap
\* and is none of the file system's own, whatever mix of writes over holes,
\* overwrites, truncates and evictions came before, also after writes and reads
\* that found the disk full. A truncate that finds it full (it takes indirect
\* blocks for holes, file.c:277) ends with blocks freed that the file still
\* names, as one that meets a bad block does: that is where torn ends it.
OwnedOnce ==
  ~torn =>
    LET refs == FlattenSeq([i \in 1..Cardinality(Files) |-> RefsOf(SetToSeq(Files)[i])])
    IN Cardinality(ToSet(refs)) = Len(refs) /\ ToSet(refs) \subseteq Marked \ Reserved

\* The counts of a group and of the file system agree with the bitmaps, also
\* after requests that failed half way (block.c:198: "a failed descriptor sync
\* does not leave blocks that the bitmap calls free but the group counts still
\* call used").
CountsAgree ==
  /\ \A g \in GroupSet : gfree[g] = GroupBlocks - Cardinality(bmp[g])
  /\ sfree = MapThenSumSet(LAMBDA g : gfree[g], GroupSet)

\* Reading a file gives what was written to it, zeros where nothing was or
\* where it was cut and extended again.
ReadsBack ==
  sound => \A f \in Files :
    LET s == file_read(S0(f, {}), 0, Len(want[f]))
    IN Ok(s) => s.out = want[f]

\* While no request has failed, no block is marked without an owner and
\* i_blocks counts data and indirect blocks.
NoLeak ==
  sound =>
    LET uses == Uses
    IN /\ Marked = Reserved \cup UNION {uses[f] : f \in Files}
       /\ \A f \in Files : obj[f].ino.blocks = Cardinality(uses[f])

\* A cached indirect block is one of the file's own on that level, so that
\* writing it back cannot hit a block given to someone else (block.c:722). A
\* filled slot with number 0, whose write-back lands on the superblock
\* (block.c:729), does not come up until a request has found no space: that one
\* leaves the memory it got for a block it did not get (block.c:427-437).
CacheOwned ==
  ~torn => \A f \in Files :
    LET mine == ToSet(RefsOf(f)) \cup (IF short THEN {0} ELSE {})
    IN \A d \in Slots : obj[f].ind[d].data # Null => obj[f].ind[d].bno \in mine

=============================================================================
