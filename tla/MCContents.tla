----------------------------- MODULE MCContents ------------------------------
(***************************************************************************)
(* The contents of files and the space they are paid from, for TLC: memory *)
(* in dummyfs (DummyfsData), blocks in ext2 (Ext2Blocks) and chains of     *)
(* clusters in FAT (FatFile). part says which of them a behaviour is       *)
(* about.                                                                  *)
(***************************************************************************)
EXTENDS Integers

CONSTANTS MaxOps, MaxAccess, MaxFaulty

VARIABLES
  part,
  file, used, want, cut, stale, leaked, dead,
  fst, bmp, gfree, sfree, disk, table, obj, want2, ops, sound, short, torn,
  chain, isRoot, size, refs, cache, faults, spoilt, stuck

dummyVars == <<file, used, want, cut, stale, leaked, dead>>
ext2Vars  == <<fst, bmp, gfree, sfree, disk, table, obj, want2, ops, sound, short, torn>>
fatVars   == <<chain, isRoot, size, refs, cache, faults, spoilt, stuck>>

\* A file, a symbolic link and a mapped file on a budget that the file alone
\* can use up.
DummyFiles == {"f", "l", "m"}
DummyVal == [f \in DummyFiles |-> IF f = "f" THEN 1 ELSE 2]
Dummy == INSTANCE DummyfsData WITH
  obj <- file, Files <- DummyFiles, Symlinks <- {"l"}, Mapped <- {"m"}, Val <- DummyVal,
  Chunk <- 3, ObjSz <- 1, NameSz <- 1, EntSz <- 1, PtrSz <- 1, SizeMax <- 15,
  Offs <- {0, 2, 3, 5}, Lens <- {1, 3}, Sizes <- {0, 1, 2, 3, 5}, MaxSize <- 6, MaxBad <- 3

\* Two groups of four free blocks, blocks of two words, all levels of
\* indirection within 15 blocks of a file.
Ext2Files == {"f", "g", "l"}
Ext2Home == [f \in Ext2Files |-> IF f = "g" THEN 1 ELSE 0]
Ext2 == INSTANCE Ext2Blocks WITH
  want <- want2, Files <- Ext2Files, Links <- {"l"}, Home <- Ext2Home,
  Groups <- 2, GroupBlocks <- 5, Meta <- 1, FstBlocks <- {0, 1}, Word <- 2,
  Direct <- 1, Addr <- 2, RunMax <- 2,
  Offsets <- {0, 3, 14}, Lengths <- {1, 5}, Sizes <- {0, 3, 12}

\* Chains of three and four clusters in one to four pieces, two of which the cache holds.
FatChains == {<<2, 3, 4>>, <<4, 5, 2, 3>>, <<5, 4, 3, 2>>}
Fat == INSTANCE FatFile WITH
  BytesPerSec <- 2, SecPerClus <- 2, Clusters <- 6, RootOff <- 3, DataOff <- 6, MaxAreas <- 2,
  Chains <- FatChains, Slack <- {0, 3}, Lens <- {1, 5}, MaxRefs <- 2, MaxFaults <- 1

\* The variables of a part that a behaviour is not about are not used.
NoDummy == file = 0 /\ used = 0 /\ want = 0 /\ cut = 0 /\ stale = 0 /\ leaked = 0 /\ dead = 0
NoExt2 ==
  /\ fst = 0 /\ bmp = 0 /\ gfree = 0 /\ sfree = 0 /\ disk = 0 /\ table = 0 /\ obj = 0
  /\ want2 = 0 /\ ops = 0 /\ sound = 0 /\ short = 0 /\ torn = 0
NoFat ==
  /\ chain = 0 /\ isRoot = 0 /\ size = 0 /\ refs = 0 /\ cache = 0 /\ faults = 0 /\ spoilt = 0
  /\ stuck = 0

Init ==
  \/ part = "dummyfs" /\ Dummy!Init /\ NoExt2 /\ NoFat
  \/ part = "ext2" /\ Ext2!Init /\ NoDummy /\ NoFat
  \/ part = "fat" /\ Fat!Init /\ NoDummy /\ NoExt2

NextDummy == part = "dummyfs" /\ Dummy!Next /\ UNCHANGED <<part, ext2Vars, fatVars>>
NextExt2  == part = "ext2" /\ Ext2!Next /\ UNCHANGED <<part, dummyVars, fatVars>>
NextFat   == part = "fat" /\ Fat!Next /\ UNCHANGED <<part, dummyVars, ext2Vars>>

Spec == Init /\ [][NextDummy \/ NextExt2 \/ NextFat]_<<part, dummyVars, ext2Vars, fatVars>>

-----------------------------------------------------------------------------
(* The properties, each where it applies; they are stated in the modules.  *)

\* All: a file reads as it was written (dummyfs_read, _ext2_file_read, fatio_read).
ReadsBack ==
  /\ part = "dummyfs" => Dummy!ReadsBack
  /\ part = "ext2" => Ext2!ReadsBack
  /\ part = "fat" => Fat!ReadsBack
\* DummyfsData: the budget is what is held (dummyfs/memory.c).
BudgetExact == part = "dummyfs" => Dummy!BudgetExact
\* Ext2Blocks: a block has one owner and is marked (ext2/block.c), and cached
\* indirect blocks are the file's own (ext2_iblock_free).
OwnedOnce == part = "ext2" => Ext2!OwnedOnce /\ Ext2!CacheOwned
\* Ext2Blocks: free counts agree with bitmaps, also after failures; without them no
\* marked block is without owner and i_blocks is right.
CountsAgree == part = "ext2" => Ext2!CountsAgree /\ Ext2!NoLeak
=============================================================================
