---------------------------- MODULE MCDirectories ----------------------------
(***************************************************************************)
(* Directories that clients read position by position while others change  *)
(* them, for TLC: the index of a dummyfs directory (DummyfsDir), the       *)
(* records of an ext2 one (Ext2Dir) and the listing of an NFS one          *)
(* (NfsListing). part says which of them a behaviour is about.             *)
(***************************************************************************)
EXTENDS Integers

VARIABLES
  part,
  ents, tree, list, nextPos, entries, hint, scan,
  blocks, added, lost, scan2,
  dir, snap, offs, got, ended, always, strange, extern, changes

dummyVars == <<ents, tree, list, nextPos, entries, hint, scan>>
ext2Vars  == <<blocks, added, lost, scan2>>
nfsVars   == <<dir, snap, offs, got, ended, always, strange, extern, changes>>

DirNames == {"a", "b", "c"}

\* Two of the names have the same hash.
DummyHash == [n \in DirNames |-> IF n = "c" THEN 2 ELSE 1]
Dummy == INSTANCE DummyfsDir WITH Names <- DirNames, Hash <- DummyHash, MaxPos <- 5, RecMax <- 2

\* Blocks of 40 bytes: the first has room for a short name behind "." and "..",
\* others hold three short names or two long ones. RecMax is just above a block.
Ext2Len == [n \in DirNames \cup {".", "..", ""} |->
              CASE n = "" -> 0 [] n = ".." -> 2 [] n = "c" -> 6 [] OTHER -> 1]
Ext2 == INSTANCE Ext2Dir WITH
  Names <- {"a", "c"}, NameLen <- Ext2Len, BlockSz <- 40, RecMax <- 42, MaxBlocks <- 3,
  scan <- scan2

\* Two scans, one of them by a client that adds up d_reclen, of at most 3. Two of
\* the names share a position.
NfsNames == 1..3
NfsHash == <<1, 0, 1>>
NfsScans == {1, 2}
NfsLegacy == {2}
Nfs == INSTANCE NfsListing WITH
  Names <- NfsNames, Hash <- NfsHash, Scans <- NfsScans, Legacy <- NfsLegacy, UINT16_MAX <- 3, MaxChanges <- 2

ASSUME Dummy!ConstantsAssumption

\* The variables of a part that a behaviour is not about are not used.
NoDummy ==
  ents = 0 /\ tree = 0 /\ list = 0 /\ nextPos = 0 /\ entries = 0 /\ hint = 0 /\ scan = 0
NoExt2 == blocks = 0 /\ added = 0 /\ lost = 0 /\ scan2 = 0
NoNfs ==
  /\ dir = 0 /\ snap = 0 /\ offs = 0 /\ got = 0 /\ ended = 0 /\ always = 0 /\ strange = 0
  /\ extern = 0 /\ changes = 0

Init ==
  \/ part = "dummyfs" /\ Dummy!Init /\ NoExt2 /\ NoNfs
  \/ part = "ext2" /\ Ext2!Init /\ NoDummy /\ NoNfs
  \/ part = "nfs" /\ Nfs!Init /\ NoDummy /\ NoExt2

NextDummy == part = "dummyfs" /\ Dummy!Next /\ UNCHANGED <<part, ext2Vars, nfsVars>>
NextExt2  == part = "ext2" /\ Ext2!Next /\ UNCHANGED <<part, dummyVars, nfsVars>>
NextNfs   == part = "nfs" /\ Nfs!Next /\ UNCHANGED <<part, dummyVars, ext2Vars>>
ReadNfs(c) == part = "nfs" /\ Nfs!readdir(c) /\ UNCHANGED <<part, dummyVars, ext2Vars>>

vars == <<part, dummyVars, ext2Vars, nfsVars>>

Spec ==
  /\ Init /\ [][NextDummy \/ NextExt2 \/ NextNfs]_vars
  /\ \A c \in NfsScans : WF_vars(ReadNfs(c))

-----------------------------------------------------------------------------
(* The properties, each where it applies; they are stated in the modules.  *)

\* DummyfsDir: the variables have their types, the list is in position order
\* (dummyfs_dir_add), and the hint is the first entry at its position.
InPositionOrder == part = "dummyfs" => Dummy!TypeOK /\ Dummy!InPositionOrder /\ Dummy!HintRight
\* Both: an entry is found by its name (dummyfs_dir_get, _ext2_dir_find). In ext2
\* the records of a block cover it, and a directory is taken for empty exactly if
\* it is (_ext2_dir_empty).
FoundByName ==
  /\ part = "dummyfs" => Dummy!FoundByName
  /\ part = "ext2" => Ext2!FoundByName /\ Ext2!Tiled /\ Ext2!EmptyRight
\* All: a scan neither skips nor repeats an entry (dummyfs_readdirNext,
\* _ext2_dir_read, nfs_ops_readdir), and in NFS a name removed here is not
\* returned (nfs_dir_remove).
ScanExact ==
  /\ []/\ part = "dummyfs" => Dummy!ScanExact
       /\ part = "ext2" => Ext2!ScanExact
       /\ part = "nfs" => Nfs!ScansComplete
  /\ [][part = "nfs" => Nfs!Returned]_vars
\* NfsListing: every scan ends, whatever happens to the directory meanwhile.
ScansEnd == \A c \in NfsScans : <>(part = "nfs" => c \in ended)
=============================================================================
