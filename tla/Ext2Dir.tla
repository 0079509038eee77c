------------------------------- MODULE Ext2Dir -------------------------------
(***************************************************************************)
(* A directory of ext2 (ext2/dir.c): blocks of records that follow each    *)
(* other by their sizes, and a client that reads the directory position by *)
(* position while entries are added and removed.                           *)
(*                                                                         *)
(* fs->lock (libext2.c) makes every request one step. A block is a         *)
(* function of the offsets at which a record was written; what lies inside *)
(* a record is not kept. Growing the directory can fail, on a full disk    *)
(* for example, after its size was raised.                                 *)
(***************************************************************************)
EXTENDS Integers, Sequences, FiniteSets, FiniteSetsExt, SequencesExt, TLC

CONSTANTS
  Names,      \* names of entries
  NameLen,    \* their lengths, by name; also of ".", ".." and NoName
  BlockSz,    \* fs->blocksz
  RecMax,     \* UINT16_MAX: the largest d_reclen
  MaxBlocks   \* bound: blocks of the directory

Hdr == 8        \* sizeof(ext2_dirent_t)
NoName == ""    \* entry->len = 0

VARIABLES
  blocks,  \* the directory's blocks: records by offset
  added,   \* how often a name was added and not removed
  lost,    \* names whose addition wrote a record of size 0
  scan     \* a client that reads the directory from its start

vars == <<blocks, added, lost, scan>>

-----------------------------------------------------------------------------
(* Records                                                                 *)

\* The space a record needs: header and name, rounded up to 4 bytes.
Rec(n) == IF n = NoName THEN 0 ELSE ((NameLen[n] + Hdr + 3) \div 4) * 4

Fresh(n) == 0 :> [live |-> TRUE, name |-> n, size |-> BlockSz]

\* A block that was never written reads as zeros.
Zeros == 0 :> [live |-> FALSE, name |-> NoName, size |-> 0]

\* The offsets a walk along the sizes visits before it ends or meets a record
\* of size 0.
Walk(b) ==
  LET from[o \in Nat] ==
        IF o \notin DOMAIN b THEN {}
        ELSE IF b[o].size = 0 THEN {}
        ELSE {o} \cup from[o + b[o].size]
  IN from[0]

\* _ext2_dir_valid
Valid(b, o) ==
  b[o].size >= Hdr /\ b[o].size <= BlockSz - o /\ Hdr + NameLen[b[o].name] <= b[o].size

\* A walk of b meets a record that is not well formed.
Broken(b) == Walk(b) = {} \/ \E o \in Walk(b) : ~Valid(b, o)

Dot(n) == n \in {".", ".."}

\* _ext2_dir_empty: it may be removed. A broken block is an error, not an answer.
Empty(bs) ==
  \A i \in DOMAIN bs :
     /\ ~Broken(bs[i])
     /\ \A o \in Walk(bs[i]) : bs[i][o].live => Dot(bs[i][o].name)

\* Mutant of Places: the old name of an unused record counts.
PlacesStale(bs, n) ==
  UNION {{<<i, o>> : o \in {q \in Walk(bs[i]) : bs[i][q].name = n}} : i \in DOMAIN bs}

\* Where a live record called n is; _ext2_dir_find takes the first.
Places(bs, n) ==
  UNION {{<<i, o>> : o \in {q \in Walk(bs[i]) : bs[i][q].live /\ bs[i][q].name = n}} :
           i \in DOMAIN bs}

Find(bs, n) ==
  CHOOSE p \in Places(bs, n) :
     \A q \in Places(bs, n) : p[1] * BlockSz + p[2] <= q[1] * BlockSz + q[2]

-----------------------------------------------------------------------------
(* _ext2_dir_add                                                           *)

\* The record that reaches the end of b, and where the next one would start.
Final(b) == CHOOSE o \in Walk(b) : o + b[o].size = BlockSz
Room(b) == Final(b) + Rec(b[Final(b)].name)

Dead(b) == Walk(b) = {}

\* No space in the last block: a new one is taken.
Grows(bs, n) ==
  bs = <<>> \/ (~Dead(Last(bs)) /\ Rec(n) >= BlockSz - Room(Last(bs)))

\* The last block with n in it. A first record of size 0 ends the search for
\* space, and n is written there, with size 0 as well.
Filled(b, n) ==
  IF Dead(b) THEN 0 :> [live |-> TRUE, name |-> n, size |-> 0]
  ELSE (Room(b) :> [live |-> TRUE, name |-> n, size |-> BlockSz - Room(b)])
       @@ [b EXCEPT ![Final(b)].size = Rec(b[Final(b)].name)]

Added(bs, n) ==
  IF Grows(bs, n) THEN Append(bs, Fresh(n))
  ELSE [bs EXCEPT ![Len(bs)] = Filled(@, n)]

dir_add(n) ==
  /\ Len(Added(blocks, n)) <= MaxBlocks
  /\ blocks' = Added(blocks, n)
  /\ IF Grows(blocks, n) \/ ~Dead(Last(blocks))
     THEN added' = [added EXCEPT ![n] = @ + 1] /\ UNCHANGED lost
     ELSE lost' = lost \cup {n} /\ UNCHANGED added
  /\ UNCHANGED scan

\* The write of a new block fails: the size stays raised, the block is a hole.
dir_addFails(n) ==
  /\ Grows(blocks, n) /\ Len(blocks) < MaxBlocks
  /\ blocks' = Append(blocks, Zeros)
  /\ UNCHANGED <<added, lost, scan>>

\* The answers of _ext2_dir_search: the offset of the block that has the name, or
\* an error; the search may fail for lack of memory or in a read.
Searched(n) ==
  {-1} \cup {(p[1] - 1) * BlockSz : p \in IF Places(blocks, n) = {} THEN {} ELSE {Find(blocks, n)}}

\* ext2_link takes only the answer 0 for a name that exists: a name in a block
\* after the first is added once more.
ext2_link(n) == (\E r \in Searched(n) : r # 0) /\ (dir_add(n) \/ dir_addFails(n))

\* libext2_create looks the name up first (ext2_lookup), and refuses any it finds.
libext2_create(n) == (\E r \in Searched(n) : r < 0) /\ ext2_link(n)

-----------------------------------------------------------------------------
(* _ext2_dir_remove                                                        *)

\* The record in front of the one at o.
Before(b, o) == CHOOSE q \in Walk(b) : q + b[q].size = o

\* An entry inside a block: the record in front takes its space.
Merged(b, o) ==
  [q \in DOMAIN b \ {o} |->
     IF q = Before(b, o) THEN [b[q] EXCEPT !.size = @ + b[o].size] ELSE b[q]]

\* Block i holds nothing but one unused record.
Unused(bs, i) == ~bs[i][0].live /\ bs[i][0].size = BlockSz

\* The blocks that stay when the last one goes: emptied ones before it go too,
\* down to the first, which is never empty.
Kept(bs) == Max({1} \cup {i \in 2..(Len(bs) - 1) : ~Unused(bs, i)})

Removed(bs, i, o) ==
  IF o # 0 THEN [bs EXCEPT ![i] = Merged(@, o)]
  ELSE IF bs[i][0].size = BlockSz /\ i = Len(bs) THEN SubSeq(bs, 1, Kept(bs))
  ELSE [bs EXCEPT ![i][0].live = FALSE]

\* The entry at p is no longer one of those a scan can rely on.
Steady(s, p) == [s EXCEPT !.steady = @ \ {p}, !.seen = @ \ {p}, !.twice = @ \ {p}]

\* Mutant of dir_remove: the entries behind the removed one move up.
dir_removeMoves(n) ==
  /\ Places(blocks, n) # {}
  /\ LET p == Find(blocks, n)
         b == blocks[p[1]]
         at(o) == IF o > p[2] THEN o - b[p[2]].size ELSE o
         rest == {o \in Walk(b) : o # p[2]}
     IN blocks' = IF rest = {} THEN Removed(blocks, p[1], p[2])
                  ELSE [blocks EXCEPT ![p[1]] =
                          [q \in {at(o) : o \in rest} |->
                             LET o == CHOOSE x \in rest : at(x) = q
                             IN [b[o] EXCEPT !.size = IF o = Max(rest) THEN BlockSz - q ELSE @]]]
  /\ added' = [added EXCEPT ![n] = @ - 1]
  /\ scan' = Steady(scan, Find(blocks, n))
  /\ UNCHANGED lost

dir_remove(n) ==
  /\ Places(blocks, n) # {}
  /\ LET p == Find(blocks, n)
     IN blocks' = Removed(blocks, p[1], p[2]) /\ scan' = Steady(scan, p)
  /\ added' = [added EXCEPT ![n] = @ - 1]
  /\ UNCHANGED lost

-----------------------------------------------------------------------------
(* _ext2_dir_read and its client                                           *)

Pos(i, o) == (i - 1) * BlockSz + o

\* The records of block i that a read from position offs may return.
Hits(i, offs) ==
  {o \in Walk(blocks[i]) :
     Pos(i, o) >= offs /\ blocks[i][o].live /\ blocks[i][o].name # NoName}

\* The block where the read stops: it has such a record, or is broken.
Stops(offs) ==
  {i \in DOMAIN blocks : i > offs \div BlockSz /\ (Hits(i, offs) # {} \/ Broken(blocks[i]))}

\* The read finds an entry: its block and offset, its name and where it ends.
Finds(offs) == Stops(offs) # {} /\ Hits(Min(Stops(offs)), offs) # {}
At(offs)    == <<Min(Stops(offs)), Min(Hits(Min(Stops(offs)), offs))>>
Found(offs) == blocks[At(offs)[1]][At(offs)[2]]
End(offs)   == Pos(At(offs)[1], At(offs)[2]) + Found(offs).size

Reclen(offs) == Min({End(offs) - offs, RecMax})

Idle == [on |-> FALSE, next |-> FALSE, pos |-> 0, cut |-> FALSE, done |-> FALSE,
         steady |-> {}, seen |-> {}, twice |-> {}]

\* A client opens the directory; next: it takes the position the reply gives
\* (MSG_READDIR_NEXT), else it adds d_reclen.
opendir(next) ==
  /\ ~scan.on
  /\ scan' = [Idle EXCEPT !.on = TRUE, !.next = next,
                          !.steady = UNION {Places(blocks, n) : n \in Names}]
  /\ UNCHANGED <<blocks, added, lost>>

\* The read ends the scan with ENOENT, or with EIO at a broken block.
readNext ==
  /\ scan.on /\ ~scan.done
  /\ scan' = IF ~Finds(scan.pos) THEN [scan EXCEPT !.done = TRUE]
             ELSE [scan EXCEPT
                     !.pos = IF scan.next THEN End(@) ELSE @ + Reclen(@),
                     !.cut = @ \/ (~scan.next /\ Reclen(scan.pos) < End(scan.pos) - scan.pos),
                     !.seen = @ \cup ({At(scan.pos)} \cap scan.steady),
                     !.twice = @ \cup ({At(scan.pos)} \cap scan.seen)]
  /\ UNCHANGED <<blocks, added, lost>>

closedir ==
  /\ scan.on
  /\ scan' = Idle
  /\ UNCHANGED <<blocks, added, lost>>

-----------------------------------------------------------------------------
(* ext2_link gives a new directory "." and then "..".                      *)

Init ==
  /\ blocks = Added(Added(<<>>, "."), "..")
  /\ added = [n \in Names |-> 0] /\ lost = {}
  /\ scan = Idle

Next ==
  \/ \E n \in Names : libext2_create(n) \/ ext2_link(n) \/ dir_remove(n)
  \/ \E next \in BOOLEAN : opendir(next)
  \/ readNext
  \/ closedir

Spec == Init /\ [][Next]_vars

-----------------------------------------------------------------------------
(* Properties                                                              *)

\* The records of every block cover it without gap or overlap, each large
\* enough for its name, whatever was added and removed (dir.c:29: "A bad one
\* would make a walk loop or overrun the block"); a block whose first write
\* failed is the exception.
Tiled ==
  \A i \in DOMAIN blocks :
     \/ Dead(blocks[i]) /\ i = Len(blocks)
     \/ /\ ~Broken(blocks[i])
        /\ \E o \in Walk(blocks[i]) : o + blocks[i][o].size = BlockSz

\* A name has as many entries as it was added and not removed times: what is
\* added is found, and removing a name takes one entry and none of another name.
\* Additions after a growth of the directory failed are not found (lost). It is
\* not said that a name has one entry at most: see ext2_link.
FoundByName == \A n \in Names : Cardinality(Places(blocks, n)) = added[n]

\* rmdir never takes a directory that holds an entry, and, unless a block is
\* broken, takes every one that holds none.
EmptyRight ==
  /\ Empty(blocks) => lost = {} /\ \A n \in Names : added[n] = 0
  /\ (\A n \in Names : added[n] = 0) /\ (\A i \in DOMAIN blocks : ~Broken(blocks[i])) => Empty(blocks)

\* A scan returns every entry that is there from its start to its end while
\* others are removed, by the client itself or by someone else, and added. It
\* returns none of those twice (an entry is a record: a name that was added twice
\* has two), unless a d_reclen was cut at 64 KiB (dir.c:207).
ScanExact ==
  /\ scan.cut \/ scan.twice = {}
  /\ scan.done => scan.seen = scan.steady
=============================================================================
