------------------------------- MODULE FatFile -------------------------------
(***************************************************************************)
(* An open file or root directory of a FAT volume: the cache of contiguous *)
(* areas that reads parse out of the cluster chain (fat/fatchain.c,        *)
(* fat/fatio.c) and the object that holds it (fat/libfat.c). The driver    *)
(* never writes, so the volume does not change. An object's requests hold  *)
(* its lock throughout, so each one is a step. A byte is represented by    *)
(* its position on the device.                                             *)
(***************************************************************************)
EXTENDS Integers, Sequences, SequencesExt

CONSTANTS
  BytesPerSec, SecPerClus, Clusters,  \* the geometry
  RootOff, DataOff,                   \* first sector of the root directory, of the data
  MaxAreas,                           \* FAT_CHAIN_AREAS
  Chains,                             \* the cluster chains to look at
  Slack,                              \* bytes by which a file may miss its last cluster's end
  Lens,                               \* lengths of reads
  MaxRefs, MaxFaults                  \* bounds on opens and on device errors

VARIABLES
  chain, isRoot,        \* the volume: clusters of the file, or the fixed root directory
  size,                 \* size of a file; ANY: a directory, which is read to its last cluster
  refs,                 \* refcount of the open object; 0: there is none
  cache,                \* its fatchain_cache_t
  faults,               \* device errors so far
  spoilt,               \* ghost: the cache was left inconsistent (see ReadsBack)
  stuck                 \* info->objLock was left locked

vars == <<chain, isRoot, size, refs, cache, faults, spoilt, stuck>>

FAT_EOF == -1
ANY == -1
ROOT_DIR_CLUSTER == 0

\* fat_getCluster of the entry: a FAT12/16 root directory has no chain.
Start == IF isRoot THEN ROOT_DIR_CLUSTER ELSE chain[1]

\* The entry of a cluster in the FAT, without a device error. Clusters of other files
\* are not reached.
fatchain_getOne(cl) ==
  LET i == CHOOSE j \in DOMAIN chain : chain[j] = cl
  IN IF i = Len(chain) THEN FAT_EOF ELSE chain[i + 1]

fatchain_initCache(cluster) ==
  [chainStart |-> cluster, nextAfterAreas |-> cluster, areasOffset |-> 0, areasLength |-> 0,
   areas |-> << >>]

\* The area of one cluster.
setNext(cl) == [start |-> DataOff + (cl - 2) * SecPerClus, size |-> SecPerClus]

\* The loop of fatchain_parseNext. done are the complete areas, area is under way and
\* good is the number of device reads that still succeed. A failed parse leaves area in
\* the cache.
RECURSIVE Parse(_, _, _, _, _)
Parse(c, area, skip, done, good) ==
  IF c.nextAfterAreas >= Clusters \/ good = 0
  THEN [c |-> [c EXCEPT !.areas = Append(done, area)], ok |-> FALSE, good |-> good]
  ELSE
    LET next == fatchain_getOne(c.nextAfterAreas)
        c1 == [c EXCEPT !.nextAfterAreas = next]
        skipped == skip > 0 /\ skip >= area.size
        kept == [start |-> area.start + skip, size |-> area.size - skip]
        areas == IF skipped THEN done ELSE Append(done, kept)
        c2 == IF skipped THEN c1 ELSE [c1 EXCEPT !.areasLength = @ + kept.size]
    IN IF next = c.nextAfterAreas + 1
       THEN Parse(c1, [area EXCEPT !.size = @ + SecPerClus], skip, done, good - 1)
       ELSE IF Len(areas) = MaxAreas \/ next = FAT_EOF
       THEN [c |-> [c2 EXCEPT !.areas = areas], ok |-> TRUE, good |-> good - 1]
       ELSE Parse(c2, setNext(next), IF skipped THEN skip - area.size ELSE 0, areas, good - 1)

\* The root directory of FAT12 and FAT16 is one area.
ParseRoot(c, skip) ==
  LET len == DataOff - RootOff
      eof == [c EXCEPT !.nextAfterAreas = FAT_EOF]
  IN IF skip >= len
     THEN [eof EXCEPT !.areasOffset = 0, !.areasLength = 0, !.areas = << >>]
     ELSE [eof EXCEPT !.areasOffset = skip, !.areasLength = len - skip,
                      !.areas = <<[start |-> RootOff + skip, size |-> len - skip]>>]

\* Mutant of fatchain_parseNext: the areas parsed before do not count.
ParseNextSkips(c, skip, good) ==
  IF c.nextAfterAreas = ROOT_DIR_CLUSTER
  THEN [c |-> ParseRoot(c, skip), ok |-> TRUE, good |-> good]
  ELSE Parse([c EXCEPT !.areasOffset = @ + skip, !.areasLength = 0],
             setNext(c.nextAfterAreas), skip, << >>, good)

fatchain_parseNext(c, skip, good) ==
  IF c.nextAfterAreas = ROOT_DIR_CLUSTER
  THEN [c |-> ParseRoot(c, skip), ok |-> TRUE, good |-> good]
  ELSE Parse([c EXCEPT !.areasOffset = @ + c.areasLength + skip, !.areasLength = 0],
             setNext(c.nextAfterAreas), skip, << >>, good)

\* The bytes of areas from sector secoff and byte insecoff on.
Bytes(areas, secoff, insecoff) ==
  LET sectors == FlattenSeq([i \in DOMAIN areas |->
                               [j \in 1..areas[i].size |-> areas[i].start + j - 1]])
      all == FlattenSeq([i \in DOMAIN sectors |->
                           [j \in 1..BytesPerSec |-> sectors[i] * BytesPerSec + j - 1]])
  IN SubSeq(all, secoff * BytesPerSec + insecoff + 1, Len(all))

\* The loop of fatio_read: the areas, then the next areas while the chain goes on. An
\* entry that is not set ends it.
RECURSIVE Collect(_, _, _, _, _, _)
Collect(c, secoff, insecoff, len, data, good) ==
  LET all == data \o Bytes(c.areas, secoff, insecoff)
      read(n) == [c |-> c, data |-> SubSeq(all, 1, n), ok |-> TRUE]
  IN IF Len(all) >= len THEN read(len)
     ELSE IF Len(c.areas) < MaxAreas \/ c.nextAfterAreas = FAT_EOF THEN read(Len(all))
     ELSE LET p == fatchain_parseNext(c, 0, good)
          IN IF p.ok THEN Collect(p.c, 0, 0, len, all, p.good)
             ELSE [c |-> p.c, data |-> << >>, ok |-> FALSE]

Rewinds(c, offset) == c.areasOffset > offset \div BytesPerSec

\* fatio_read: what it returns and leaves as the cache.
fatio_read(c0, offset, len, good) ==
  LET secoff == offset \div BytesPerSec
      insecoff == offset % BytesPerSec
      c == IF Rewinds(c0, offset)
           THEN [c0 EXCEPT !.nextAfterAreas = c0.chainStart, !.areasOffset = 0, !.areasLength = 0]
           ELSE c0
      beyond == c.areasOffset + c.areasLength <= secoff
      from == IF c.areasLength = 0 THEN [c EXCEPT !.nextAfterAreas = c.chainStart] ELSE c
      p == IF beyond
           THEN fatchain_parseNext(from, secoff - c.areasOffset - c.areasLength, good)
           ELSE [c |-> c, ok |-> TRUE, good |-> good]
  IN IF beyond /\ c.nextAfterAreas = FAT_EOF THEN [c |-> c, data |-> << >>, ok |-> TRUE]
     ELSE IF p.ok THEN Collect(p.c, secoff - p.c.areasOffset, insecoff, len, << >>, p.good)
     ELSE [c |-> p.c, data |-> << >>, ok |-> FALSE]

-----------------------------------------------------------------------------
(* Requests.                                                               *)

NoCache == fatchain_initCache(FAT_EOF)

\* A device error while open reads the directory entry leaves objLock locked.
open ==
  /\ ~stuck /\ refs < MaxRefs
  /\ \/ /\ refs' = refs + 1
        /\ cache' = IF refs = 0 THEN fatchain_initCache(Start) ELSE cache
        /\ UNCHANGED <<faults, stuck>>
     \/ /\ refs = 0 /\ ~isRoot /\ faults < MaxFaults
        /\ stuck' = TRUE /\ faults' = faults + 1
        /\ UNCHANGED <<refs, cache>>
  /\ UNCHANGED <<chain, isRoot, size, spoilt>>

close ==
  /\ ~stuck /\ refs > 0
  /\ refs' = refs - 1
  /\ cache' = IF refs = 1 THEN NoCache ELSE cache
  /\ spoilt' = (spoilt /\ refs > 1)
  /\ UNCHANGED <<chain, isRoot, size, faults, stuck>>

\* Where the file or directory ends.
Contents ==
  IF isRoot THEN Bytes(<<[start |-> RootOff, size |-> DataOff - RootOff]>>, 0, 0)
  ELSE Bytes([i \in DOMAIN chain |-> setNext(chain[i])], 0, 0)
End == IF size = ANY THEN Len(Contents) ELSE size

\* libfat_read, and fatio_dirScan of libfat_readdir: offsets in a directory are not
\* checked. good device reads of the FAT succeed; an error of a read of data leaves the
\* cache as a shorter read would.
Offsets == 0..(IF size = ANY THEN End + BytesPerSec ELSE End - 1)
Length(offset, len) == IF size # ANY /\ size - offset < len THEN size - offset ELSE len

read(offset, len, good) ==
  LET r == fatio_read(cache, offset, Length(offset, len), good)
      pastRoot == isRoot /\ cache.nextAfterAreas = ROOT_DIR_CLUSTER /\ offset >= End
  IN /\ ~stuck /\ refs > 0
     /\ cache' = r.c
     /\ faults' = IF r.ok THEN faults ELSE faults + 1
     /\ spoilt' = ((spoilt /\ ~Rewinds(cache, offset)) \/ pastRoot
                   \/ (~r.ok /\ r.c.areasOffset + r.c.areasLength > 0))
     /\ UNCHANGED <<chain, isRoot, size, refs, stuck>>

\* libfat_umount frees every object, open or not; the volume is then mounted again. It
\* waits for objLock.
remount ==
  /\ ~stuck /\ refs > 0
  /\ refs' = 0 /\ cache' = NoCache /\ spoilt' = FALSE
  /\ UNCHANGED <<chain, isRoot, size, faults, stuck>>

Init ==
  /\ \/ chain \in Chains /\ isRoot = FALSE
        /\ \/ size = ANY
           \/ size \in {Len(chain) * SecPerClus * BytesPerSec - s : s \in Slack}
     \/ chain = << >> /\ isRoot = TRUE /\ size = ANY
  /\ refs = 0 /\ cache = NoCache /\ faults = 0 /\ spoilt = FALSE /\ stuck = FALSE

\* No chain has as many clusters as the volume: with good = Clusters no read fails.
Next ==
  \/ open
  \/ close
  \/ remount
  \/ \E o \in Offsets, l \in Lens : read(o, l, Clusters)
  \/ \E o \in Offsets, l \in Lens, good \in 0..(Len(chain) - 1) :
        faults < MaxFaults /\ read(o, l, good)

Spec == Init /\ [][Next]_vars

-----------------------------------------------------------------------------
(* A read returns the file's bytes from its offset on, as many as asked    *)
(* for and present, whatever reads at other offsets have left in the cache *)
(* (fatio_read, fatchain_parseNext). Excepted is a cache left by a failed  *)
(* parse, until a read rewinds it or the object is freed, and that of a    *)
(* FAT12/16 root directory that was first read past its end.               *)
ReadsBack ==
  refs > 0 /\ ~spoilt =>
    \A o \in Offsets, l \in Lens :
      fatio_read(cache, o, Length(o, l), Clusters).data =
        SubSeq(Contents, o + 1, IF o + l > End THEN End ELSE o + l)
=============================================================================
