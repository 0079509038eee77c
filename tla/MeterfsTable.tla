---------------------------- MODULE MeterfsTable ----------------------------
(***************************************************************************)
(* The file table of meterfs (meterfs/meterfs.c): two copies of a table of *)
(* file headers on NOR flash, of which a change rewrites the older one and *)
(* commits it by writing its header last.  Mounting (meterfs_checkfs)      *)
(* picks the newer copy, repairs a damaged one, migrates tables of the     *)
(* pre-v1 format, and formats a partition without a valid table.           *)
(*                                                                         *)
(* One step is one flash primitive (the erase of a sector, a write-verify  *)
(* of one header).  Power may be cut before, after or in the middle of any *)
(* of them, and each may report an error.                                  *)
(***************************************************************************)
EXTENDS Integers, Sequences

CONSTANTS
  Names,        \* file names
  MaxFileCnt,   \* MAX_FILE_CNT
  FirstSector,  \* file headers that fit in the first sector of a table
  SectorCnts,   \* sizes, in sectors, that callers ask for
  PartSectors,  \* size of the partition in sectors
  UidMod,       \* 2^32 in the code: uid is a uint32_t
  IdMod,        \* 2^31 in the code: index_t.no has 31 bits
  Attempts,     \* the 3 attempts of meterfs_checkfs
  FaultyFlash,  \* whether erases and writes may report errors
  Blank,        \* content of an erased cell
  Torn          \* content of a cell whose erase or write did not finish

Formats == {"old", "v1"}

\* fileheader_t: the fields a commit changes (record size, encryption and
\* firstid among them) are represented by uid, which every commit changes.
FileHdr == [name : Names, sector : Nat, cnt : Nat, uid : 0..(UidMod - 1)]

\* header_t.  The checksum is represented by the file headers it covers.
Header == [id : 0..(IdMod - 1), fmt : Formats, files : Seq(FileHdr)]

Entry == [fmt : Formats, file : FileHdr]

ASSUME ConstantsAssumption ==
  /\ MaxFileCnt \in Nat /\ FirstSector \in Nat
  /\ SectorCnts \subseteq Nat \ {0} /\ PartSectors \in Nat
  /\ UidMod \in Nat \ {0} /\ IdMod \in Nat \ {0} /\ Attempts \in Nat \ {0}
  /\ FaultyFlash \in BOOLEAN
  /\ Blank # Torn
  /\ Blank \notin Header /\ Torn \notin Header
  /\ Blank \notin Entry /\ Torn \notin Entry

VARIABLES
  hdr,      \* flash: for each table, its header cell
  ent,      \* flash: for each table, its file header cells
  hcurr,    \* ctx->hcurrAddr, as the index of the table in use
  filecnt,  \* ctx->filecnt
  nodes,    \* ctx->nodesTree: the cached file headers, by file id
  unread,   \* ids whose re-read after a commit failed (their cache is stale)
  alive,    \* the partition is mounted (a failed mount discards ctx)
  pc,       \* the step the server is at
  job,      \* what the table being written is written for
  fid,      \* the file id a devctl request names
  tgt,      \* the table being written
  want,     \* the header being written, with the file headers it covers
  pos,      \* the next file header to write
  seen,     \* what meterfs_checkfs read of both headers
  tries,    \* its three retry counters
  acked,    \* history: the file table in use, as mounting or the last
            \* successful operation left it
  wiping,   \* history: the partition is unformatted or being wiped
  spoilt    \* history: flash failed in the second half of a migration

tab == <<hdr, ent>>
ctx == <<hcurr, filecnt, nodes, unread, alive>>
engine == <<job, fid, tgt, want, pos>>
history == <<acked, wiping, spoilt>>
vars == <<tab, ctx, pc, engine, seen, tries, history>>

Tables == {0, 1}
Slots == 1..MaxFileCnt
EmptyHdr == [id |-> 0, fmt |-> "v1", files |-> <<>>]
Unseen == [valid |-> FALSE, migrate |-> FALSE, id |-> 0, filecnt |-> 0]
NoTries == [check |-> 0, migrate |-> 0, write |-> 0]

-----------------------------------------------------------------------------
(* Reading a table                                                         *)

EntryOf(h, k) == [fmt |-> h.fmt, file |-> h.files[k]]

\* nvalid, magic and version are right, and filecnt is in range.
HeaderOk(t) ==
  /\ hdr[t] \notin {Blank, Torn}
  /\ Len(hdr[t].files) <= MaxFileCnt

ChecksumOk(t) ==
  \A k \in 1..Len(hdr[t].files) : ent[t][k] = EntryOf(hdr[t], k)

isHeaderValid(t) == HeaderOk(t) /\ ChecksumOk(t)

\* The outputs are stored before the checksum is known, and not at all when
\* the header itself is bad: the caller keeps what it had.
ReadHeader(t) ==
  IF HeaderOk(t)
  THEN [valid   |-> ChecksumOk(t),
        migrate |-> hdr[t].fmt = "old",
        id      |-> hdr[t].id,
        filecnt |-> Len(hdr[t].files)]
  ELSE [seen[t] EXCEPT !.valid = FALSE]

\* Mutant of Newer: takes the older table.
NewerSwapped(s) == IF s[0].id + 1 = s[1].id THEN 0 ELSE 1

\* id[0].no + 1 == id[1].no is computed in int: it does not wrap.
Newer(s) == IF s[0].id + 1 = s[1].id THEN 1 ELSE 0

\* meterfs_getFileInfoName: the position of a name in the table in use.
Positions(name) ==
  {k \in 1..Len(hdr[hcurr].files) : ent[hcurr][k].file.name = name}

-----------------------------------------------------------------------------
(* The engine that writes a table                                          *)

\* meterfs_copyData copies from the start, header first; the other writers
\* write the header last.
HeaderFirst == job \in {"fix", "refix", "copy"}

StartTable(j, t, w) ==
  /\ job' = j /\ tgt' = t /\ want' = w /\ pos' = 1
  /\ pc' = "erase0"
  /\ UNCHANGED fid

\* The cells a step of the engine erases or programs, and with what.
ErasedSlots == {k \in Slots : (k <= FirstSector) <=> (pc = "erase0")}

EraseCells(v) ==
  /\ hdr' = IF pc = "erase0" THEN [hdr EXCEPT ![tgt] = v] ELSE hdr
  /\ ent' = [ent EXCEPT ![tgt] = [k \in Slots |-> IF k \in ErasedSlots THEN v ELSE @[k]]]

\* Programming clears bits: it can complete a torn write of the same value,
\* and cannot turn one value into another.
Programs(old, v) == old \in {Blank, Torn, v}

\* The cell after a write of v over old that failed or was cut short.
Outcomes(old, v) == {old, Torn} \cup (IF Programs(old, v) THEN {v} ELSE {})

AfterErase == IF HeaderFirst \/ want.files = <<>> THEN "hdr" ELSE "ents"
AfterHdr == IF HeaderFirst /\ want.files # <<>> THEN "ents" ELSE "done"
AfterEnt == IF pos < Len(want.files) THEN "ents"
            ELSE IF HeaderFirst THEN "done" ELSE "hdr"

eraseFileTable ==
  \/ /\ pc = "erase0"
     /\ EraseCells(Blank)
     /\ pc' = "erase1"
     /\ UNCHANGED <<hcurr, filecnt>>
  \/ /\ pc = "erase1"
     /\ EraseCells(Blank)
     /\ pc' = IF job = "chip" THEN "done" ELSE IF job = "junk" THEN "junk" ELSE AfterErase
     \* fixFileTable and migrateFileTable switch to the intact table here
     /\ IF HeaderFirst
        THEN hcurr' = 1 - tgt /\ filecnt' = Len(want.files)
        ELSE UNCHANGED <<hcurr, filecnt>>

EraseStep ==
  /\ eraseFileTable
  /\ UNCHANGED <<nodes, unread, alive, engine, seen, tries, history>>

WriteEnt ==
  /\ pc = "ents"
  /\ Programs(ent[tgt][pos], EntryOf(want, pos))
  /\ ent' = [ent EXCEPT ![tgt][pos] = EntryOf(want, pos)]
  /\ pos' = pos + 1
  /\ pc' = AfterEnt
  /\ tries' = IF job = "migrate" THEN [tries EXCEPT !.write = 0] ELSE tries
  /\ UNCHANGED <<hdr, ctx, job, fid, tgt, want, seen, history>>

WriteHdr ==
  /\ pc = "hdr"
  /\ Programs(hdr[tgt], want)
  /\ hdr' = [hdr EXCEPT ![tgt] = want]
  /\ pc' = AfterHdr
  /\ UNCHANGED <<ent, ctx, engine, seen, tries, history>>

-----------------------------------------------------------------------------
(* Errors reported by a flash primitive                                    *)

\* What a step that reports an error, or that a power cut interrupts, may
\* leave behind: nothing done, a torn cell, or all of it done.
Interrupted ==
  \/ UNCHANGED tab
  \/ pc \in {"erase0", "erase1"} /\ \E v \in {Blank, Torn} : EraseCells(v)
  \/ /\ pc = "ents"
     /\ \E v \in Outcomes(ent[tgt][pos], EntryOf(want, pos)) : ent' = [ent EXCEPT ![tgt][pos] = v]
     /\ UNCHANGED hdr
  \/ /\ pc = "hdr"
     /\ \E v \in Outcomes(hdr[tgt], want) : hdr' = [hdr EXCEPT ![tgt] = v]
     /\ UNCHANGED ent

\* A file header built from cells that were erased or torn.
JunkFile == [name |-> CHOOSE n \in Names : TRUE, sector |-> 0, cnt |-> 0, uid |-> UidMod - 1]

\* What meterfs_migrateFileTable builds from table src as cells h and e hold it.
Migrated(h, e, src) ==
  [id    |-> h[src].id,
   fmt   |-> "v1",
   files |-> [k \in 1..Len(h[src].files) |->
                IF e[src][k] \in {Blank, Torn} THEN JunkFile ELSE e[src][k].file]]

migrateFileTable(h, e, src) ==
  IF h[src] \in {Blank, Torn}
  THEN StartTable("junk", 1 - src, EmptyHdr)
  ELSE StartTable("migrate", 1 - src, Migrated(h, e, src))

Rest ==
  /\ job' = "none" /\ fid' = 0 /\ tgt' = 0 /\ want' = EmptyHdr /\ pos' = 1
  /\ seen' = [t \in Tables |-> Unseen] /\ tries' = NoTries

Forget ==
  /\ hcurr' = 0 /\ filecnt' = 0 /\ nodes' = <<>> /\ unread' = {}
  /\ alive' = FALSE

\* The operation in progress returns an error: to the caller of a mounted
\* partition, or out of meterfs_init, whose caller discards ctx.
Abort ==
  /\ Rest
  /\ IF alive THEN pc' = "idle" /\ UNCHANGED ctx ELSE pc' = "off" /\ Forget

MigrationSource == IF job = "copy" THEN tgt ELSE 1 - tgt

\* The retry loops around and inside meterfs_migrateFileTable.
RetryMigration ==
  IF pc \in {"ents", "hdr"} /\ tries.write + 1 < Attempts
  THEN /\ tries' = [tries EXCEPT !.write = @ + 1]
       /\ IF job = "copy" THEN pc' = "hdr" /\ pos' = 1 ELSE UNCHANGED <<pc, pos>>
       /\ UNCHANGED <<job, fid, tgt, want, seen, ctx>>
  ELSE IF tries.migrate + 1 < Attempts
  THEN /\ tries' = [tries EXCEPT !.migrate = @ + 1, !.write = 0]
       /\ migrateFileTable(hdr', ent', MigrationSource)
       /\ UNCHANGED <<seen, ctx>>
  ELSE Abort

FlashError ==
  /\ FaultyFlash
  /\ pc \in {"erase0", "erase1", "ents", "hdr"}
  /\ Interrupted
  /\ IF job \in {"migrate", "junk", "copy"} THEN RetryMigration ELSE Abort
  /\ spoilt' = (spoilt \/ job = "copy")
  /\ UNCHANGED <<acked, wiping>>

\* Migration from an unreadable source writes junk, which fails validation.
WriteJunk ==
  /\ pc = "junk"
  /\ hdr' = [hdr EXCEPT ![tgt] = Torn]
  /\ RetryMigration
  /\ UNCHANGED <<ent, history>>

-----------------------------------------------------------------------------
(* Mounting: meterfs_init and meterfs_checkfs                              *)

PowerCut ==
  /\ pc # "off"
  /\ Interrupted
  /\ pc' = "off" /\ Rest /\ Forget
  /\ UNCHANGED history

init ==
  /\ pc = "off"
  /\ pc' = "check"
  /\ UNCHANGED <<tab, ctx, engine, seen, tries, history>>

\* Mutant of NextCheck: the attempt is not counted.
NextCheckStuck == tries.check

NextCheck == tries.check + 1

\* One iteration of the loop that reads both headers.
checkHeaders ==
  /\ pc = "check"
  /\ LET s    == [t \in Tables |-> ReadHeader(t)]
         both == s[0].valid /\ s[1].valid
         old  == s[0].migrate \/ s[1].migrate
         bad  == IF s[0].valid THEN 1 ELSE 0
         src  == IF s[0].migrate /\ s[1].migrate THEN Newer(s)
                 ELSE IF s[0].migrate THEN 0 ELSE 1
         last == NextCheck = Attempts
     IN /\ seen' = s
        /\ \/ /\ both /\ ~old
              /\ pc' = "select"
              /\ UNCHANGED <<engine, tries>>
           \/ /\ both /\ old
              /\ migrateFileTable(hdr, ent, src)
              /\ tries' = [tries EXCEPT !.migrate = 0, !.write = 0]
           \/ /\ ~both /\ old
              /\ IF hdr[1 - bad] \in {Blank, Torn}
                 THEN StartTable("refix", bad, EmptyHdr)
                 ELSE StartTable("refix", bad, hdr[1 - bad])
              /\ tries' = [tries EXCEPT !.check = NextCheck]
           \/ /\ ~both /\ ~old
              /\ pc' = IF last THEN "select" ELSE "check"
              /\ tries' = [tries EXCEPT !.check = NextCheck]
              /\ UNCHANGED engine
  /\ UNCHANGED <<tab, ctx, history>>

\* Mutant of NoneValid: one bad table is enough.
SomeInvalid == ~seen[0].valid \/ ~seen[1].valid

NoneValid == ~seen[0].valid /\ ~seen[1].valid

\* The tail of meterfs_checkfs, on what the loop read.
selectTable ==
  /\ pc = "select"
  /\ \/ /\ NoneValid
        /\ hcurr' = 0 /\ filecnt' = 0
        /\ StartTable("format", 0, EmptyHdr)
     \/ /\ seen[0].valid /\ seen[1].valid
        /\ hcurr' = Newer(seen) /\ filecnt' = seen[Newer(seen)].filecnt
        /\ pc' = "partial"
        /\ UNCHANGED engine
     \/ \E bad \in Tables :
          /\ ~seen[bad].valid /\ seen[1 - bad].valid
          /\ StartTable("fix", bad, hdr[1 - bad])
          /\ UNCHANGED <<hcurr, filecnt>>
  /\ UNCHANGED <<tab, nodes, unread, alive, seen, tries, history>>

\* A table is complete while mounting.
TableDone ==
  /\ pc = "done"
  /\ \/ /\ job = "migrate"
        /\ StartTable("copy", 1 - tgt, want)
        /\ tries' = [tries EXCEPT !.write = 0]
     \/ /\ job = "copy"
        /\ pc' = "select" /\ UNCHANGED <<engine, tries>>
     \/ /\ job = "refix"
        /\ pc' = IF tries.check = Attempts THEN "select" ELSE "check"
        /\ UNCHANGED <<engine, tries>>
     \/ /\ job = "fix"
        /\ pc' = "partial" /\ UNCHANGED <<engine, tries>>
     \/ /\ job = "format" /\ tgt = 0
        /\ StartTable("format", 1, EmptyHdr) /\ UNCHANGED tries
     \/ /\ job = "format" /\ tgt = 1
        /\ pc' = "fill" /\ UNCHANGED <<engine, tries>>
  /\ UNCHANGED <<tab, ctx, seen, history>>

\* meterfs_doPartialErase finishes an interrupted partial erase of a data
\* sector (see MeterfsRecords); here it only succeeds or fails.
finishPartialErase ==
  /\ pc = "partial"
  /\ \/ pc' = "fill" /\ UNCHANGED <<ctx, engine, seen, tries>>
     \/ FaultyFlash /\ Abort
  /\ UNCHANGED <<tab, history>>

rbTreeFill ==
  /\ pc = "fill"
  /\ nodes' = [k \in 1..filecnt |-> ent[hcurr][k]]
  /\ acked' = [k \in 1..filecnt |-> ent[hcurr][k].file]
  /\ unread' = {}
  /\ alive' = TRUE
  /\ pc' = "idle"
  /\ Rest
  /\ wiping' = FALSE
  /\ UNCHANGED <<tab, hcurr, filecnt, spoilt>>

-----------------------------------------------------------------------------
(* Requests on a mounted partition: meterfs_devctl                         *)

Readable == pc = "idle" /\ hdr[hcurr] \notin {Blank, Torn}

\* Mutant of headerNew: rewrites the table in use.
headerInUse == hcurr

\* The table a change is written to.
headerNew == 1 - hcurr

\* Mutant of NextUid: uid is wider than 32 bits.
NextUidWide(u) == u + 1

NextUid(u) == (u + 1) % UidMod

\* updateFileInfo and resetFile: the header of the file named like the cached
\* one, with its next uid, which must not come round to the first again.
FileChange(k) ==
  /\ Readable
  /\ hdr[hcurr].id + 1 < IdMod
  /\ \E p \in Positions(nodes[k].file.name) :
       LET f == ent[hcurr][p].file
           g == [f EXCEPT !.uid = NextUid(@)]
           w == [id    |-> hdr[hcurr].id + 1,
                 fmt   |-> hdr[hcurr].fmt,
                 files |-> [i \in 1..filecnt |->
                              IF i = p THEN g ELSE ent[hcurr][i].file]]
       IN /\ g.uid # UidMod - 1
          /\ want' = w
  /\ job' = "commit" /\ fid' = k /\ tgt' = headerNew /\ pos' = 1
  /\ UNCHANGED <<tab, ctx, seen, tries, history>>

\* meterfs_resizeFile and meterfs_changeFileEncryption clear the content first.
updateFileInfo(k) == FileChange(k) /\ pc' = "clear"

\* meterfs_resetFile leaves the content in place.
resetFile(k) == FileChange(k) /\ pc' = "erase0"

\* Sector 4 holds the journal, sector 5 the spare copy.
FirstDataSector == 6

\* The sector a new file of cnt sectors starts at, and whether it is allowed.
NewSector ==
  IF filecnt = 0 THEN FirstDataSector
  ELSE ent[hcurr][filecnt].file.sector + ent[hcurr][filecnt].file.cnt

FitsPartition(cnt) ==
  IF filecnt = 0 THEN cnt < PartSectors - 4 ELSE NewSector + cnt < PartSectors

allocateFile(name, cnt) ==
  /\ Readable
  /\ hdr[hcurr].id + 1 < IdMod
  /\ Positions(name) = {}
  /\ cnt >= 2
  /\ filecnt < MaxFileCnt
  /\ FitsPartition(cnt)
  /\ job' = "alloc" /\ fid' = filecnt + 1 /\ tgt' = headerNew /\ pos' = 1
  /\ want' = [id    |-> hdr[hcurr].id + 1,
              fmt   |-> hdr[hcurr].fmt,
              files |-> Append([i \in 1..filecnt |-> ent[hcurr][i].file],
                               [name |-> name, sector |-> NewSector, cnt |-> cnt,
                                uid |-> UidMod - 1])]
  /\ pc' = "clear"
  /\ UNCHANGED <<tab, ctx, seen, tries, history>>

\* The data sectors of the file are erased.
clearContent ==
  /\ pc = "clear"
  /\ \/ pc' = "erase0" /\ UNCHANGED <<ctx, engine, seen, tries>>
     \/ FaultyFlash /\ Abort
  /\ UNCHANGED <<tab, history>>

\* The new table is in use; devctl then reads the header back into the node.
commitFileChange ==
  /\ pc = "done" /\ job = "commit"
  /\ hcurr' = tgt
  /\ acked' = want.files /\ wiping' = FALSE
  /\ \/ /\ nodes' = [nodes EXCEPT ![fid] = ent[tgt][fid]]
        /\ unread' = unread \ {fid}
     \/ /\ FaultyFlash
        /\ unread' = unread \cup {fid}
        /\ UNCHANGED nodes
  /\ pc' = "idle" /\ Rest
  /\ UNCHANGED <<tab, filecnt, alive, spoilt>>

\* Mutant of addFile: the count of files is left alone.
addFileUncounted ==
  /\ pc = "done" /\ job = "alloc"
  /\ nodes' = Append(nodes, ent[tgt][fid])
  /\ hcurr' = tgt
  /\ acked' = want.files /\ wiping' = FALSE
  /\ pc' = "idle" /\ Rest
  /\ UNCHANGED <<tab, filecnt, unread, alive, spoilt>>

\* The node of the new file is added, or getFilePos or node_add fails and ctx
\* stays on the old table.
addFile ==
  /\ pc = "done" /\ job = "alloc"
  /\ \/ /\ nodes' = Append(nodes, ent[tgt][fid])
        /\ filecnt' = filecnt + 1
        /\ hcurr' = tgt
        /\ acked' = want.files /\ wiping' = FALSE
        /\ UNCHANGED <<unread, alive, spoilt>>
     \/ FaultyFlash /\ UNCHANGED <<ctx, history>>
  /\ pc' = "idle" /\ Rest
  /\ UNCHANGED tab

chiperase ==
  /\ pc = "idle"
  /\ StartTable("chip", 0, EmptyHdr)
  /\ wiping' = TRUE
  /\ UNCHANGED <<tab, ctx, seen, tries, acked, spoilt>>

finishChiperase ==
  \/ /\ pc = "done" /\ job = "chip" /\ tgt = 0
     /\ StartTable("chip", 1, EmptyHdr)
     /\ UNCHANGED <<tab, ctx, seen, tries, history>>
  \/ /\ pc = "done" /\ job = "chip" /\ tgt = 1
     /\ nodes' = <<>> /\ unread' = {}
     /\ pc' = "check" /\ Rest
     /\ UNCHANGED <<tab, hcurr, filecnt, alive, history>>

-----------------------------------------------------------------------------
TableOf(h) == [k \in Slots |-> IF k <= Len(h.files) THEN EntryOf(h, k) ELSE Blank]

InitMemory ==
  /\ hcurr = 0 /\ filecnt = 0 /\ nodes = <<>> /\ unread = {} /\ alive = FALSE
  /\ pc = "off"
  /\ job = "none" /\ fid = 0 /\ tgt = 0 /\ want = EmptyHdr /\ pos = 1
  /\ seen = [t \in Tables |-> Unseen] /\ tries = NoTries

\* A partition that was never formatted.
Init ==
  /\ InitMemory
  /\ hdr = [t \in Tables |-> Blank] /\ ent = [t \in Tables |-> [k \in Slots |-> Blank]]
  /\ acked = <<>> /\ wiping = TRUE /\ spoilt = FALSE

\* A partition written by the release before the v1 format: table n is the
\* newer one and the other lacks the file allocated last.
InitOld(fs, n) ==
  /\ InitMemory
  /\ hdr = [t \in Tables |->
             [id    |-> IF t = n THEN 1 ELSE 0,
              fmt   |-> "old",
              files |-> IF t = n THEN fs ELSE SubSeq(fs, 1, Len(fs) - 1)]]
  /\ ent = [t \in Tables |-> TableOf(hdr[t])]
  /\ acked = fs /\ wiping = FALSE /\ spoilt = FALSE

Mounting ==
  \/ checkHeaders \/ selectTable \/ TableDone \/ finishPartialErase \/ rbTreeFill

Server ==
  \/ Mounting
  \/ EraseStep \/ WriteEnt \/ WriteHdr \/ WriteJunk
  \/ clearContent \/ commitFileChange \/ addFile \/ finishChiperase

Requests ==
  \/ \E k \in DOMAIN nodes : updateFileInfo(k) \/ resetFile(k)
  \/ \E name \in Names, cnt \in SectorCnts : allocateFile(name, cnt)
  \/ chiperase

Next == init \/ Server \/ Requests \/ FlashError \/ PowerCut

Spec == Init /\ [][Next]_vars

-----------------------------------------------------------------------------
(* Properties                                                              *)

EntCell == Entry \cup {Blank, Torn}
HdrCell == Header \cup {Blank, Torn}

\* Types of the variables.
TypeOK ==
  /\ hdr \in [Tables -> HdrCell] /\ ent \in [Tables -> [Slots -> EntCell]]
  /\ hcurr \in Tables /\ filecnt \in 0..MaxFileCnt
  /\ nodes \in Seq(EntCell) /\ unread \subseteq Nat /\ alive \in BOOLEAN
  /\ pc \in {"off", "check", "select", "partial", "fill", "idle", "clear",
             "erase0", "erase1", "ents", "hdr", "junk", "done"}
  /\ job \in {"none", "commit", "alloc", "chip", "fix", "refix", "copy",
              "migrate", "junk", "format"}
  /\ fid \in 0..MaxFileCnt /\ tgt \in Tables /\ want \in Header /\ pos \in Nat
  /\ seen \in [Tables -> [valid : BOOLEAN, migrate : BOOLEAN,
                          id : 0..(IdMod - 1), filecnt : 0..MaxFileCnt]]
  /\ tries \in [check : Nat, migrate : Nat, write : Nat]
  /\ acked \in Seq(FileHdr) /\ wiping \in BOOLEAN /\ spoilt \in BOOLEAN

\* The file table that mounting the partition now would present.
Recoverable ==
  LET s == [t \in Tables |-> ReadHeader(t)]
  IN IF s[0].valid /\ s[1].valid THEN hdr[Newer(s)].files
     ELSE IF s[0].valid THEN hdr[0].files
     ELSE IF s[1].valid THEN hdr[1].files
     ELSE <<>>

\* "A damaged filetable header can be fixed as there should be a copy of file
\* table at all times" (meterfs.c:394): whatever step the server is at, a
\* power cut there leaves a valid table.
CopyAtAllTimes == ~wiping => \E t \in Tables : isHeaderValid(t)

\* The same, unless flash failed in the second half of a migration.
CopyUnlessSpoilt == ~wiping /\ ~spoilt => \E t \in Tables : isHeaderValid(t)

\* Mounting formats a partition only if it was wiped or never formatted.
FormatsOnlyWiped == job = "format" => wiping \/ spoilt

\* An idle server serves the table it acknowledged: the table at hcurrAddr is
\* valid, ctx->filecnt is its count and each cached header is the one on
\* flash, unless reading it back failed.
ServesAcked ==
  pc = "idle" /\ ~wiping /\ ~spoilt =>
    /\ isHeaderValid(hcurr)
    /\ hdr[hcurr].files = acked /\ hdr[hcurr].fmt = "v1"
    /\ filecnt = Len(acked) /\ DOMAIN nodes = 1..filecnt
    /\ \A k \in (1..filecnt) \ unread : nodes[k] = ent[hcurr][k]

\* Mounting comes to an end, mounted or refused, however often flash reports
\* errors: its retry loops are bounded.
MountEnds == pc = "check" ~> pc \in {"idle", "off"}

\* What a caller may rely on across power cuts (module FileTable).
FT == INSTANCE FileTable WITH cur <- Recoverable, ack <- acked, wiping <- (wiping \/ spoilt)
ImplementsFileTable == FT!Spec
======
