--------------------------- MODULE MeterfsRecords ---------------------------
(***************************************************************************)
(* The records of one meterfs file (meterfs/meterfs.c): a ring of fixed    *)
(* slots over the sectors of the file.  A record is written in three       *)
(* write-verified steps (data, entry with nvalid set, nvalid cleared); a   *)
(* step that does not verify is retried after a partial erase, which keeps *)
(* the part of the sector below the failed address by way of a journal and *)
(* a spare sector.  Mounting finishes a journaled partial erase and finds  *)
(* the newest and oldest record by probing and bisection.                  *)
(*                                                                         *)
(* A slot is modelled by cells: the id, the checksum, and the data cells.  *)
(* Sizes and offsets are counted in cells and keep the code's arithmetic.  *)
(* The header of the file changes atomically (module MeterfsTable).        *)
(***************************************************************************)
EXTENDS Integers, Sequences, FiniteSets, FiniteSetsExt

CONSTANTS
  SectorSz,     \* ctx->sectorsz, in cells
  SectorCnt,    \* header.sectorcnt
  Shapes,       \* record slot sizes and record counts a header may ask for
  MaxWrites,    \* bound: calls of meterfs_writeFile
  MaxCuts,      \* bound: power cuts
  MaxResets,    \* bound: reset and resize requests
  MaxFaults,    \* bound: good writes that fail to verify
  EarlyErase,   \* whether setEarlyErase is requested
  MaxErrors,    \* bound: erases and copies that report errors
  Blank, Torn   \* contents of erased and of half-written cells

EntrySz == 2    \* sizeof(entry_t): the id cell and the checksum cell
ENOENT == -2
EIO == -5

Size == SectorCnt * SectorSz
Offsets == 0..(Size - 1)

\* SECTORS(f, sectorsz)
Sectors(s) == (s.max * s.slot + SectorSz - 1) \div SectorSz + 1

\* The file has a sector more than its records fill (meterfs_allocateFile), and
\* a slot is smaller than a sector.  The code takes larger ones too: they get
\* only the sector erased that their end reaches, and are not modelled.
ShapesFit ==
  \A s \in Shapes :
    s.slot \in (EntrySz + 1)..(SectorSz - 1) /\ s.max > 0 /\ Sectors(s) <= SectorCnt

VARIABLES
  cell,      \* flash: the sectors of the file
  beyond,    \* flash: the sector after the file, 0 while it is what its owner
             \* wrote, else the slot size with which it was erased
  spare,     \* flash: the spare sector
  journal,   \* flash: the partial erase journal
  hdr,       \* flash: the file header (slot, max, firstid)
  f,         \* file_t of the mounted file
  early,     \* ctx->earlyErase
  pc,        \* the step the server is at
  w,         \* the record being written: where, its number, its payload, how far
  pe,        \* the partial erase in progress: its address and who asked for it
  count,     \* bounds: writes, cuts, resets, faults and errors so far
  log,       \* history: payloads acknowledged since the file was last emptied
  inflight,  \* history: payloads of unacknowledged writes since
  rewritten, \* history: payloads whose entry needed a partial erase
  renumbered,\* history: the file was reset while it held records
  muddled    \* history: and was then mounted or reset again, or a request was
             \* served while a partial erase was pending

flash == <<cell, beyond, spare, journal>>
history == <<log, inflight, rewritten, renumbered, muddled>>
vars == <<flash, hdr, f, early, pc, w, pe, count, history>>

IdCell(no, nvalid) == [no |-> no, nvalid |-> nvalid]
Sum(d) == [sum |-> d]
Data(d) == [data |-> d]

-----------------------------------------------------------------------------
(* Flash                                                                   *)

\* Programming clears bits: nvalid may go from 1 to 0, nothing else changes
\* once written.
Programs(old, v) ==
  \/ old \in {Blank, v}
  \/ "no" \in DOMAIN v /\ old = IdCell(v.no, 1)

SectorCells(s) == {o \in Offsets : o \div SectorSz = s}

Erased(s, v) == [o \in Offsets |-> IF o \in SectorCells(s) THEN v ELSE cell[o]]

\* Erasing sector s of the file, which may be the one after its last.
EraseSector(s, v) ==
  IF s < SectorCnt
  THEN cell' = Erased(s, v) /\ UNCHANGED beyond
  ELSE beyond' = hdr.slot /\ UNCHANGED cell

\* The cells a write covers and what it puts there.
Span(x) ==
  CASE x.stage = "data"   -> [o \in (x.off + EntrySz)..(x.off + hdr.slot - 1) |-> Data(x.d)]
    [] x.stage = "entry"  -> [o \in x.off..(x.off + 1) |->
                                IF o = x.off THEN IdCell(x.no, 1) ELSE Sum(x.d)]
    [] x.stage = "commit" -> [o \in {x.off} |-> IdCell(x.no, 0)]

Start(span) == Min(DOMAIN span)

Merge(old, v) == IF Programs(old, v) THEN v ELSE Torn

Written(c, span) ==
  [o \in DOMAIN c |-> IF o \in DOMAIN span THEN Merge(c[o], span[o]) ELSE c[o]]

\* A write cut short at cell p.
CutShort(c, span, p) ==
  [o \in DOMAIN c |-> IF o \notin DOMAIN span \/ o > p THEN c[o]
                      ELSE IF o = p THEN Torn ELSE Merge(c[o], span[o])]

\* Clearing nvalid flips one bit: it happens or it does not.
CutWrites(c, span) ==
  IF \E o \in DOMAIN span : c[o] # Blank /\ Programs(c[o], span[o]) /\ Cardinality(DOMAIN span) = 1
  THEN {}
  ELSE {CutShort(c, span, p) : p \in DOMAIN span}

-----------------------------------------------------------------------------
(* meterfs_getFilePos                                                      *)

Total(h) == Size \div h.slot

EmptyFile ==
  [no |-> 0, nvalid |-> 1, off |-> 0, fno |-> 0, fnvalid |-> 1, foff |-> 0,
   cnt |-> 0, early |-> FALSE]

\* What ctx->read returns of an id; beyond the file it is someone else's data.
IdAt(off) == IF off \in Offsets THEN cell[off] ELSE Blank

IsValid(c) == c \notin {Blank, Torn} /\ "no" \in DOMAIN c /\ c.nvalid = 0

\* The i-th offset probed for a starting point: about one per sector.
Probe(h) ==
  LET interval == (SectorSz \div h.slot + 1) * h.slot
      p[i \in Nat] ==
        IF i = 0 THEN 0
        ELSE LET o == p[i - 1] + interval
             IN IF o % SectorSz > h.slot THEN o - h.slot ELSE o
  IN p

Probed(h) ==
  {i \in 0..(SectorCnt - 1) :
     LET c == IdAt(Probe(h)[i]) IN IsValid(c) /\ c.no >= h.firstid}

\* Mutant of Newest: gives up after the first step of one record.
NewestStops(h) ==
  LET walk[s \in Nat \X Nat \X Nat] ==
        LET iv == s[1]
            o  == ((s[3] \div h.slot + iv) % Total(h)) * h.slot
        IN IF iv = 0 THEN [no |-> s[2], off |-> s[3]]
           ELSE IF IdAt(o) = IdCell(s[2] + iv, 0) THEN walk[<<iv \div 2, s[2] + iv, o>>]
           ELSE walk[<<iv \div 2, s[2], s[3]>>]
  IN walk

\* Walk forward from record no at offset off by halving steps.
Newest(h) ==
  LET walk[s \in Nat \X Nat \X Nat] ==
        LET iv == s[1]
            no == s[2]
            off == s[3]
            o  == ((off \div h.slot + iv) % Total(h)) * h.slot
        IN IF iv = 0 THEN [no |-> no, off |-> off]
           ELSE IF IdAt(o) = IdCell(no + iv, 0)
           THEN walk[<<IF iv = 1 THEN 1 ELSE iv \div 2, no + iv, o>>]
           ELSE walk[<<iv \div 2, no, off>>]
  IN walk

\* C division truncates towards zero.
Half(n) == IF n < 0 THEN -((-n) \div 2) ELSE n \div 2

\* Walk by diff records, or as many of them as there are.
Oldest(h) ==
  LET walk[s \in Int \X Int \X Nat \X Nat] ==
        LET iv   == s[1]
            diff == s[2]
            no   == s[3]
            off  == s[4]
            i    == off \div h.slot + iv
            o    == (IF i < 0 THEN i + Total(h) ELSE i % Total(h)) * h.slot
        IN IF iv = 0 \/ diff = 0 THEN [no |-> no, off |-> off]
           ELSE IF IdAt(o) = IdCell(no + iv, 0)
           THEN walk[<<IF iv \in {-1, 1} THEN iv ELSE Half(iv), diff - iv, no + iv, o>>]
           ELSE walk[<<Half(iv), diff, no, off>>]
  IN walk

getFilePos(h) ==
  IF Probed(h) = {} THEN EmptyFile
  ELSE LET o0   == Probe(h)[Min(Probed(h))]
           n0   == IdAt(o0).no
           last == Newest(h)[<<Total(h) - 1, n0, o0>>]
           far  == last.no - n0 > 2 * (h.max - 1)
           from == IF far THEN last ELSE [no |-> n0, off |-> o0]
           diff == (IF far THEN 0 ELSE last.no - n0) - (h.max - 1)
           frst == Oldest(h)[<<diff, diff, from.no, from.off>>]
       IN [no |-> last.no, nvalid |-> 0, off |-> last.off,
           fno |-> frst.no, fnvalid |-> 0, foff |-> frst.off,
           cnt |-> last.no - frst.no + 1, early |-> FALSE]

-----------------------------------------------------------------------------
(* meterfs_writeRecord                                                     *)

\* A partial erase is journaled and not finished.
Pending == journal \notin {Blank, Torn}

Idle == [off |-> 0, no |-> 0, d |-> 0, stage |-> "data", try |-> 1, early |-> FALSE]
NoErase == [addr |-> 0, by |-> "none", pending |-> FALSE]

\* The slot after off, or the first when it would not fit.
NextSlot(off) ==
  IF off + hdr.slot + hdr.slot > Size THEN 0 ELSE off + hdr.slot

WriteOffset ==
  IF f.nvalid = 0 THEN NextSlot(f.off)
  ELSE IF f.off + hdr.slot > Size THEN 0 ELSE f.off

\* Whether the slot at off reaches the sector after the one it starts in.
NeedsErase(off) == off = 0 \/ off \div SectorSz # (off + hdr.slot) \div SectorSz

SectorAhead(off) == (off + hdr.slot) \div SectorSz

writeRecord ==
  /\ pc = "idle" /\ count.writes < MaxWrites
  /\ count' = [count EXCEPT !.writes = @ + 1]
  /\ w' = [Idle EXCEPT !.off = WriteOffset, !.no = f.no + 1, !.d = count.writes + 1]
  /\ inflight' = inflight \cup {count.writes + 1}
  /\ pc' = IF ~f.early /\ NeedsErase(WriteOffset) THEN "ahead" ELSE "write"
  /\ f' = [f EXCEPT !.early = FALSE]
  /\ muddled' = (muddled \/ Pending)
  /\ UNCHANGED <<flash, hdr, early, pe, log, rewritten, renumbered>>

\* The request ends with an error.
GiveUp == pc' = "idle" /\ w' = Idle /\ pe' = NoErase

\* An erase or a copy reports an error.
FlashError ==
  /\ count.errors < MaxErrors
  /\ count' = [count EXCEPT !.errors = @ + 1]

eraseAhead ==
  /\ pc = "ahead"
  /\ \/ EraseSector(SectorAhead(w.off), Blank) /\ pc' = "write" /\ UNCHANGED <<w, pe, count>>
     \/ FlashError /\ GiveUp /\ UNCHANGED <<cell, beyond>>
  /\ UNCHANGED <<spare, journal, hdr, f, early, history>>

\* The next step of a write that went well.
Advance(x) ==
  CASE x.stage = "data"  -> w' = [x EXCEPT !.stage = "entry", !.try = 1] /\ pc' = "write"
    [] x.stage = "entry" -> w' = [x EXCEPT !.stage = "commit", !.try = 1] /\ pc' = "write"
    [] OTHER -> w' = x /\ pc' = IF early /\ NeedsErase(NextSlot(x.off)) THEN "early" ELSE "ack"

\* meterfs_safeWrite, when the write verifies.  Completing a torn cell may work.
writeVerified ==
  /\ pc = "write"
  /\ \A o \in DOMAIN Span(w) : cell[o] = Torn \/ Programs(cell[o], Span(w)[o])
  /\ cell' = [o \in Offsets |-> IF o \in DOMAIN Span(w) THEN Span(w)[o] ELSE cell[o]]
  /\ Advance(w)
  /\ UNCHANGED <<beyond, spare, journal, hdr, f, early, pe, count, history>>

\* meterfs_safeWrite, when it does not: partial erase, then one more attempt.
writeFailed ==
  /\ pc = "write"
  /\ \/ /\ \E o \in DOMAIN Span(w) : ~Programs(cell[o], Span(w)[o])
        /\ UNCHANGED count
     \/ /\ count.faults < MaxFaults
        /\ count' = [count EXCEPT !.faults = @ + 1]
  /\ cell' \in {cell, Written(cell, Span(w))}
  /\ pe' = [addr |-> Start(Span(w)), by |-> IF w.try = 1 THEN "retry" ELSE "clean",
            pending |-> FALSE]
  /\ pc' = "start"
  /\ rewritten' = IF w.stage = "data" THEN rewritten ELSE rewritten \cup {w.d}
  /\ UNCHANGED <<beyond, spare, journal, hdr, f, early, w, log, inflight, renumbered, muddled>>

-----------------------------------------------------------------------------
(* meterfs_startPartialErase and meterfs_doPartialErase                    *)

EraseAt == pe.addr \div SectorSz
Kept == pe.addr % SectorSz

\* meterfs_safeWrite returns an error to meterfs_writeRecord, which cleans up
\* after a failed entry by one more partial erase.
SafeWriteFailed ==
  IF w.stage = "data" THEN GiveUp
  ELSE pe' = [addr |-> w.off, by |-> "tidy", pending |-> FALSE] /\ pc' = "start" /\ UNCHANGED w

\* The partial erase returns to its caller.
EraseReturns(ok) ==
  CASE pe.by = "retry" /\ ok -> pc' = "write" /\ w' = [w EXCEPT !.try = 2] /\ pe' = NoErase
    [] pe.by \in {"retry", "clean"} /\ ~(pe.by = "retry" /\ ok) -> SafeWriteFailed
    [] pe.by = "tidy" -> GiveUp
    [] pe.by = "mount" -> pc' = (IF ok THEN "scan" ELSE "off") /\ pe' = NoErase /\ UNCHANGED w

\* A primitive reports an error.  Errors of the leading doPartialErase, which
\* finishes what an earlier one left, are ignored.
EraseError ==
  /\ FlashError
  /\ IF pe.pending
     THEN pc' = "eraseJournal" /\ pe' = [pe EXCEPT !.pending = FALSE] /\ UNCHANGED w
     ELSE EraseReturns(FALSE)
  /\ UNCHANGED flash

startPartialErase ==
  /\ pc = "start"
  /\ pc' = IF Pending THEN "eraseSector" ELSE "eraseJournal"
  /\ pe' = [pe EXCEPT !.pending = Pending]
  /\ UNCHANGED <<flash, w, count>>

eraseJournal ==
  /\ pc = "eraseJournal"
  /\ \/ journal' = Blank /\ pc' = "eraseSpare" /\ UNCHANGED <<cell, beyond, spare, w, pe, count>>
     \/ EraseError

eraseSpare ==
  /\ pc = "eraseSpare"
  /\ \/ /\ spare' = [o \in DOMAIN spare |-> Blank]
        /\ pc' = "backup" /\ UNCHANGED <<cell, beyond, journal, w, pe, count>>
     \/ EraseError

\* Mutant of BackupSpan: one cell short.
BackupShort == [o \in 0..(Kept - 2) |-> cell[EraseAt * SectorSz + o]]

\* Cells of a sector below the erase offset, as a write to the spare sector.
BackupSpan == [o \in 0..(Kept - 1) |-> cell[EraseAt * SectorSz + o]]

backup ==
  /\ pc = "backup"
  /\ \/ /\ spare' = Written(spare, BackupSpan)
        /\ pc' = "writeJournal" /\ UNCHANGED <<cell, beyond, journal, w, pe, count>>
     \/ EraseError

writeJournal ==
  /\ pc = "writeJournal"
  /\ \/ /\ journal' = [sector |-> EraseAt, kept |-> Kept]
        /\ pc' = "eraseSector" /\ UNCHANGED <<cell, beyond, spare, w, pe, count>>
     \/ EraseError

\* meterfs_doPartialErase goes by the journal.
eraseSector ==
  /\ pc = "eraseSector"
  /\ \/ /\ EraseSector(journal.sector, Blank)
        /\ pc' = "restore" /\ UNCHANGED <<spare, journal, w, pe, count>>
     \/ EraseError

RestoreSpan ==
  [o \in {p \in SectorCells(journal.sector) : p % SectorSz < journal.kept} |->
     spare[o % SectorSz]]

restore ==
  /\ pc = "restore"
  /\ \/ /\ cell' = Written(cell, RestoreSpan)
        /\ pc' = "clearJournal" /\ UNCHANGED <<beyond, spare, journal, w, pe, count>>
     \/ EraseError

clearJournal ==
  /\ pc = "clearJournal"
  /\ \/ /\ journal' = Blank
        /\ IF pe.pending
           THEN pc' = "eraseJournal" /\ pe' = [pe EXCEPT !.pending = FALSE] /\ UNCHANGED w
           ELSE EraseReturns(TRUE)
        /\ UNCHANGED <<cell, beyond, spare, count>>
     \/ EraseError

PartialErase ==
  /\ \/ startPartialErase \/ eraseJournal \/ eraseSpare \/ backup \/ writeJournal
     \/ eraseSector \/ restore \/ clearJournal
  /\ UNCHANGED <<hdr, f, early, history>>

-----------------------------------------------------------------------------
(* The end of a write                                                      *)

earlyErase ==
  /\ pc = "early"
  /\ \/ /\ EraseSector(SectorAhead(NextSlot(w.off)), Blank)
        /\ w' = [w EXCEPT !.early = TRUE] /\ UNCHANGED count
     \/ FlashError /\ UNCHANGED <<cell, beyond, w>>
  /\ pc' = "ack"
  /\ UNCHANGED <<spare, journal, hdr, f, early, pe, history>>

\* The file holds fewer records than it promises.
Growing == f.cnt < hdr.max

acknowledge ==
  /\ pc = "ack"
  /\ LET g == [f EXCEPT !.no = w.no, !.nvalid = 0, !.off = w.off, !.early = w.early]
     IN f' = IF Growing
             THEN [g EXCEPT !.cnt = @ + 1, !.fnvalid = 0,
                            !.fno  = IF f.fnvalid = 1 THEN g.no ELSE @,
                            !.foff = IF f.fnvalid = 1 THEN g.off ELSE @]
             ELSE [g EXCEPT !.fno = @ + 1, !.foff = NextSlot(@)]
  /\ log' = Append(log, w.d)
  /\ inflight' = {}
  /\ GiveUp
  /\ UNCHANGED <<flash, hdr, early, count, rewritten, renumbered, muddled>>

-----------------------------------------------------------------------------
(* meterfs_readRecord: the payload of record idx, or the error             *)

readRecord(idx) ==
  LET o == ((f.foff \div hdr.slot + idx) % Total(hdr)) * hdr.slot
      d == cell[o + 1]
  IN IF f.fnvalid = 1 \/ idx > f.cnt \/ cell[o] # IdCell(f.fno + idx, 0) THEN ENOENT
     ELSE IF /\ d \notin {Blank, Torn} /\ "sum" \in DOMAIN d
             /\ \A p \in (o + EntrySz)..(o + hdr.slot - 1) : cell[p] = Data(d.sum)
          THEN d.sum
     ELSE EIO

-----------------------------------------------------------------------------
(* Requests that change the header                                         *)

\* meterfs_resetFile: entries below firstid are ignored from now on.
resetFile ==
  /\ pc = "idle" /\ count.resets < MaxResets
  /\ count' = [count EXCEPT !.resets = @ + 1]
  /\ hdr' = [hdr EXCEPT !.firstid = f.no + 1]
  /\ f' = getFilePos(hdr')
  /\ muddled' = (muddled \/ renumbered \/ Pending)
  /\ renumbered' = (renumbered \/ log # <<>>)
  /\ log' = <<>> /\ rewritten' = {} /\ inflight' = {}
  /\ UNCHANGED <<flash, early, pc, w, pe>>

\* meterfs_updateFileInfo: erase every sector, then commit the new header.
resizeFile ==
  /\ pc = "idle" /\ count.resets < MaxResets
  /\ count' = [count EXCEPT !.resets = @ + 1]
  /\ pc' = "clear" /\ w' = [Idle EXCEPT !.off = 0]
  /\ UNCHANGED <<flash, hdr, f, early, pe, history>>

\* w.off counts the sectors erased.
clearSector ==
  /\ pc = "clear" /\ w.off < SectorCnt
  /\ \/ EraseSector(w.off, Blank) /\ w' = [w EXCEPT !.off = @ + 1] /\ UNCHANGED <<pc, pe, count, muddled>>
     \/ FlashError /\ GiveUp /\ muddled' = TRUE /\ UNCHANGED <<cell, beyond>>
  /\ UNCHANGED <<spare, journal, hdr, f, early, log, inflight, rewritten, renumbered>>

commitResize ==
  /\ pc = "clear" /\ w.off = SectorCnt
  /\ \E s \in Shapes : hdr' = [slot |-> s.slot, max |-> s.max, firstid |-> hdr.firstid]
  /\ f' = getFilePos(hdr')
  /\ log' = <<>> /\ rewritten' = {} /\ inflight' = {}
  /\ muddled' = Pending
  /\ renumbered' = (hdr.firstid > 1)
  /\ GiveUp
  /\ UNCHANGED <<flash, early, count>>

setEarlyErase ==
  /\ EarlyErase
  /\ pc = "idle" /\ early' = ~early
  /\ UNCHANGED <<flash, hdr, f, pc, w, pe, count, history>>

-----------------------------------------------------------------------------
(* Power cuts and mounting                                                 *)

\* What an interrupted step leaves on flash.
CutStep ==
  \/ UNCHANGED flash
  \/ /\ pc \in {"ahead", "early"}
     /\ EraseSector(SectorAhead(IF pc = "ahead" THEN w.off ELSE NextSlot(w.off)), Torn)
     /\ UNCHANGED <<spare, journal>>
  \/ pc = "clear" /\ w.off < SectorCnt /\ EraseSector(w.off, Torn) /\ UNCHANGED <<spare, journal>>
  \/ pc = "write" /\ cell' \in CutWrites(cell, Span(w)) /\ UNCHANGED <<beyond, spare, journal>>
  \/ pc \in {"eraseJournal", "writeJournal", "clearJournal"} /\ journal' = Torn
       /\ UNCHANGED <<cell, beyond, spare>>
  \/ pc = "eraseSpare" /\ spare' = [o \in DOMAIN spare |-> Torn]
       /\ UNCHANGED <<cell, beyond, journal>>
  \/ pc = "backup" /\ spare' \in CutWrites(spare, BackupSpan)
       /\ UNCHANGED <<cell, beyond, journal>>
  \/ pc = "eraseSector" /\ EraseSector(journal.sector, Torn) /\ UNCHANGED <<spare, journal>>
  \/ pc = "restore" /\ cell' \in CutWrites(cell, RestoreSpan) /\ UNCHANGED <<beyond, spare, journal>>

PowerCut ==
  /\ pc # "off" /\ count.cuts < MaxCuts
  /\ count' = [count EXCEPT !.cuts = @ + 1]
  /\ CutStep
  /\ muddled' = (muddled \/ renumbered \/ pc = "clear")
  /\ pc' = "off" /\ w' = Idle /\ pe' = NoErase /\ f' = EmptyFile /\ early' = FALSE
  /\ UNCHANGED <<hdr, log, inflight, rewritten, renumbered>>

mount ==
  /\ pc = "off"
  /\ pc' = IF Pending THEN "eraseSector" ELSE "scan"
  /\ pe' = [NoErase EXCEPT !.by = "mount"]
  /\ UNCHANGED <<flash, hdr, f, early, w, count, history>>

\* Which unacknowledged write a record found at off is from: by its checksum, or
\* the last when that is gone.
TurnedUp(off) ==
  LET ds == {d \in inflight : cell[off + 1] = Sum(d)}
  IN Max(IF ds = {} THEN inflight ELSE ds)

\* meterfs_rbTreeFill.  An unacknowledged record that turns up counts as written.
scan ==
  /\ pc = "scan"
  /\ f' = getFilePos(hdr)
  /\ log' = IF inflight # {} /\ f'.no = Len(log) + 1 THEN Append(log, TurnedUp(f'.off)) ELSE log
  /\ inflight' = {}
  /\ pc' = "idle" /\ pe' = NoErase
  /\ UNCHANGED <<flash, hdr, early, w, count, rewritten, renumbered, muddled>>

-----------------------------------------------------------------------------
Init ==
  /\ cell = [o \in Offsets |-> Blank] /\ beyond = 0
  /\ spare = [o \in 0..(SectorSz - 1) |-> Blank] /\ journal = Blank
  /\ \E s \in Shapes : hdr = [slot |-> s.slot, max |-> s.max, firstid |-> 0]
  /\ f = EmptyFile /\ early = FALSE
  /\ pc = "idle" /\ w = Idle /\ pe = NoErase
  /\ count = [writes |-> 0, cuts |-> 0, resets |-> 0, faults |-> 0, errors |-> 0]
  /\ log = <<>> /\ inflight = {} /\ rewritten = {} /\ renumbered = FALSE /\ muddled = FALSE

Server ==
  \/ eraseAhead \/ writeVerified \/ writeFailed \/ PartialErase \/ earlyErase
  \/ acknowledge \/ clearSector \/ commitResize \/ scan

Requests == writeRecord \/ resetFile \/ resizeFile \/ setEarlyErase

Next == mount \/ Server \/ Requests \/ PowerCut

Spec == Init /\ [][Next]_vars

-----------------------------------------------------------------------------
(* Properties                                                              *)

Cells ==
  [no : Nat, nvalid : {0, 1}] \cup [sum : Nat] \cup [data : Nat] \cup {Blank, Torn}

\* Types of the variables.
TypeOK ==
  /\ cell \in [Offsets -> Cells] /\ beyond \in {0} \cup {s.slot : s \in Shapes}
  /\ spare \in [0..(SectorSz - 1) -> Cells]
  /\ journal \in [sector : 0..(SectorCnt - 1), kept : 0..(SectorSz - 1)] \cup {Blank, Torn}
  /\ \E s \in Shapes : hdr.slot = s.slot /\ hdr.max = s.max
  /\ hdr.firstid \in Nat
  /\ f \in [no : Nat, nvalid : {0, 1}, off : Offsets, fno : Nat, fnvalid : {0, 1},
            foff : Offsets, cnt : 0..Total(hdr), early : BOOLEAN]
  /\ early \in BOOLEAN
  /\ w \in [off : Offsets, no : Nat, d : Nat, stage : {"data", "entry", "commit"},
            try : 1..2, early : BOOLEAN]
  /\ pe \in [addr : Offsets, by : {"none", "retry", "clean", "tidy", "mount"},
             pending : BOOLEAN]
  /\ log \in Seq(Nat) /\ inflight \subseteq Nat

\* The record a reader finds at idx is the one acknowledged at that place.
Reads(idx) == readRecord(idx) = log[f.fno + idx]

\* Mounting and writing keep the newest acknowledged record the newest one
\* found, and find as many records as the file promises, but for the oldest
\* one when the next write has displaced it already.
FindsAll ==
  pc = "idle" /\ ~muddled =>
    f.no = Len(log) /\ f.cnt \in Min({Len(log), hdr.max - 1})..hdr.max

\* Records that may be gone: the oldest, when the sector ahead was erased for a
\* write that failed or is yet to come, and records whose entry was rewritten.
Displaced(idx) == idx = 0 /\ f.cnt = hdr.max /\ (inflight # {} \/ f.early)

\* Every other record of an idle file reads back as it was acknowledged (after
\* a partial erase that failed, from the next mount on).
ReadsBack ==
  pc = "idle" /\ ~muddled /\ ~Pending =>
    \A idx \in 0..(f.cnt - 1) :
      Reads(idx) \/ Displaced(idx) \/ log[f.fno + idx] \in rewritten

\* Whatever fails, a reader gets an error or the record acknowledged under
\* that number, never another one.
NeverWrong ==
  pc = "idle" /\ ~muddled =>
    \A idx \in 0..(f.cnt - 1) :
      \/ readRecord(idx) \in {ENOENT, EIO}
      \/ f.fno + idx \in DOMAIN log /\ Reads(idx)

\* Writing a record erases no sector of another file, but when the slots fill
\* the sectors of this one to the last byte: the slot that ends there makes
\* meterfs_writeRecord erase the first sector of the next file (meterfs.c:1031).
NeighbourIntact == beyond = 0 \/ Size % beyond = 0

\* "There shouldn't be pending operation at this point" (meterfs.c:226): no
\* journal is pending when a request starts.
NoPendingErase == pc = "idle" => ~Pending
======
