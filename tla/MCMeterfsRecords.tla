-------------------------- MODULE MCMeterfsRecords --------------------------
(***************************************************************************)
(* The records of a meterfs file for TLC: the ring of slots on flash, in   *)
(* three geometries, and the byte reads above it. part says which of them a  *)
(* behaviour is about.                                                     *)
(***************************************************************************)
EXTENDS Integers

CONSTANTS
  SectorSz, SectorCnt, Shapes, MaxWrites, MaxCuts, MaxResets, MaxFaults, MaxErrors,
  EarlyErase, Blank, Torn

VARIABLES
  part,
  cell, beyond, spare, journal, hdr, f, early, pc, w, pe, count,
  log, inflight, rewritten, renumbered, muddled,
  file, req, buff, i, idx, pos, ret

recordVars == <<cell, beyond, spare, journal, hdr, f, early, pc, w, pe, count,
                log, inflight, rewritten, renumbered, muddled>>
readVars   == <<file, req, buff, i, idx, pos, ret>>

Shape(slot, max) == [slot |-> slot, max |-> max]

\* Two shapes to resize between, with room for two more slots than records.
Roomy == {Shape(4, 2), Shape(5, 1)}

Records == INSTANCE MeterfsRecords

\* A ring of six slots, four of them live, with sector boundaries inside slots,
\* long enough to be written round and over its start again.
Ring == INSTANCE MeterfsRecords WITH
  SectorSz <- 5, SectorCnt <- 4, Shapes <- {Shape(3, 4)}, MaxWrites <- 9, MaxCuts <- 2,
  MaxResets <- 0, MaxFaults <- 1, MaxErrors <- 0, EarlyErase <- TRUE

\* A file whose sectors are filled by slots of 3 cells, and not by slots of 4.
Full == INSTANCE MeterfsRecords WITH
  SectorSz <- 5, SectorCnt <- 3, Shapes <- {Shape(3, 3), Shape(4, 2)}, MaxWrites <- 7,
  MaxCuts <- 1, MaxResets <- 1, MaxFaults <- 0, MaxErrors <- 0, EarlyErase <- TRUE

Read == INSTANCE MeterfsRead WITH RecordSzs <- {1, 2, 3}, MaxRecords <- 3, MaxLen <- 7

ASSUME Records!ShapesFit /\ Ring!ShapesFit /\ Full!ShapesFit

\* The variables of a part that a behaviour is not about are not used.
NoRecords ==
  /\ cell = 0 /\ beyond = 0 /\ spare = 0 /\ journal = 0 /\ hdr = 0 /\ f = 0 /\ early = 0
  /\ pc = 0 /\ w = 0 /\ pe = 0 /\ count = 0
  /\ log = 0 /\ inflight = 0 /\ rewritten = 0 /\ renumbered = 0 /\ muddled = 0
NoRead == file = 0 /\ req = 0 /\ buff = 0 /\ i = 0 /\ idx = 0 /\ pos = 0 /\ ret = 0

Init ==
  \/ part = "records" /\ Records!Init /\ NoRead
  \/ part = "ring" /\ Ring!Init /\ NoRead
  \/ part = "full" /\ Full!Init /\ NoRead
  \/ part = "read" /\ Read!Init /\ NoRecords

NextRecords == part = "records" /\ Records!Next /\ UNCHANGED <<part, readVars>>
NextRing    == part = "ring" /\ Ring!Next /\ UNCHANGED <<part, readVars>>
NextFull    == part = "full" /\ Full!Next /\ UNCHANGED <<part, readVars>>
NextRead    == part = "read" /\ Read!Next /\ UNCHANGED <<part, recordVars>>

Spec == Init /\ [][NextRecords \/ NextRing \/ NextFull \/ NextRead]_<<part, recordVars, readVars>>

-----------------------------------------------------------------------------
(* The properties, each where it applies; they are stated in the modules.  *)

\* MeterfsRecords: the variables have their types, and a mount finds every record
\* that counts (getFilePos).
FindsAll ==
  /\ part = "records" => Records!TypeOK /\ Records!FindsAll
  /\ part = "ring" => Ring!TypeOK /\ Ring!FindsAll
  /\ part = "full" => Full!TypeOK /\ Full!FindsAll
\* MeterfsRecords: acknowledged records read back (meterfs_readRecord), nothing else
\* does (entry_t.crc), the next file is left alone unless the slots fill the
\* file (meterfs_writeRecord) and, where no erase fails, a partial erase starts
\* with an empty journal.
ReadsBack ==
  /\ part = "records" => Records!ReadsBack /\ Records!NeverWrong /\ Records!NeighbourIntact
  /\ part = "ring" =>
       Ring!ReadsBack /\ Ring!NeverWrong /\ Ring!NeighbourIntact /\ Ring!NoPendingErase
  /\ part = "full" =>
       Full!ReadsBack /\ Full!NeverWrong /\ Full!NeighbourIntact /\ Full!NoPendingErase
\* MeterfsRead: aligned reads are continuous, stay in their buffer and report
\* errors rightly (meterfs_readFile).
ContinuousByRecord == part = "read" => Read!ContinuousByRecord /\ Read!StaysInBuffer
=============================================================================
