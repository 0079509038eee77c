----------------------------- MODULE MeterfsRead -----------------------------
(***************************************************************************)
(* meterfs_readFile (meterfs/meterfs.c): a read at a byte offset of a file *)
(* of fixed-size records, one meterfs_readRecord per turn of its loop.     *)
(* Byte k of the file is represented by k, so that the buffer shows where  *)
(* each of its bytes came from.                                            *)
(***************************************************************************)
EXTENDS Integers, FiniteSetsExt

CONSTANTS
  RecordSzs,   \* record sizes
  MaxRecords,  \* records a file may hold
  MaxLen       \* longest buffer

ENOENT == -2
EIO == -5
EINVAL == -22
Running == -1000
Unset == -1

VARIABLES
  file,  \* header.recordsz, header.filesz, recordcnt, and the records that
         \* fail their checksum
  req,   \* off and bufflen of the request
  buff,  \* the caller's buffer
  i, idx, pos,
  ret    \* what the call returned, or Running

vars == <<file, req, buff, i, idx, pos, ret>>

Init ==
  /\ \E sz \in RecordSzs, cnt \in 0..MaxRecords, more \in 0..1 :
       \E bad \in SUBSET (0..(cnt - 1)) :
         file = [recordsz |-> sz, cnt |-> cnt, filesz |-> (cnt + more) * sz, bad |-> bad]
  /\ \E off \in 0..(file.filesz + 1), len \in 0..MaxLen : req = [off |-> off, len |-> len]
  /\ buff = [k \in 0..(MaxLen - 1) |-> Unset]
  /\ i = 0 /\ ret = Running
  /\ idx = req.off \div file.recordsz /\ pos = req.off % file.recordsz

\* The early returns.
refuse ==
  /\ ret = Running /\ i = 0
  /\ \/ req.len = 0 /\ ret' = EINVAL
     \/ req.len > 0 /\ (file.cnt = 0 \/ req.off >= file.filesz) /\ ret' = 0
  /\ UNCHANGED <<file, req, buff, i, idx, pos>>

Accepted == req.len > 0 /\ file.cnt > 0 /\ req.off < file.filesz

\* Mutant of readRecord: reads one record too many.
readBeyond(chunk) ==
  IF idx > file.cnt THEN ENOENT
  ELSE IF idx \in file.bad THEN EIO
  ELSE Min({chunk, file.recordsz - pos})

\* meterfs_readRecord: the bytes it copies, or its error.  The slot after the
\* newest record holds no record of the next number.
readRecord(chunk) ==
  IF idx >= file.cnt THEN ENOENT
  ELSE IF idx \in file.bad THEN EIO
  ELSE Min({chunk, file.recordsz - pos})

Chunk == Min({req.len - i, file.recordsz})

readFile ==
  /\ ret = Running /\ Accepted /\ i < req.len
  /\ LET n == readRecord(Chunk)
     IN IF n <= 0
        THEN ret' = (IF i > 0 THEN i ELSE n) /\ UNCHANGED <<buff, i, idx, pos>>
        ELSE /\ buff' = [k \in DOMAIN buff |->
                           IF k \in i..(i + n - 1) THEN idx * file.recordsz + pos + k - i
                           ELSE buff[k]]
             /\ pos' = 0 /\ i' = i + Chunk /\ idx' = idx + 1
             /\ UNCHANGED ret
  /\ UNCHANGED <<file, req>>

finish ==
  /\ ret = Running /\ Accepted /\ i >= req.len
  /\ ret' = i
  /\ UNCHANGED <<file, req, buff, i, idx, pos>>

Next == refuse \/ readFile \/ finish

Spec == Init /\ [][Next]_vars

-----------------------------------------------------------------------------
\* The bytes a reader may expect: up to the end of the file, the buffer or the
\* first bad record.
Expected ==
  LET end == Min({file.cnt} \cup {b \in file.bad : b >= req.off \div file.recordsz})
  IN Max({0, Min({req.len, end * file.recordsz - req.off})})

\* The file read "as a continuous data buffer (as in a typical file system)"
\* (meterfs/README.md:22).
Continuous ==
  ret > 0 =>
    /\ ret = Expected
    /\ \A k \in 0..(ret - 1) : buff[k] = req.off + k

\* The reads for which that holds: those that start at a record, and those
\* that stay inside one.
ContinuousByRecord ==
  LET start == req.off % file.recordsz
  IN start = 0 \/ start + req.len <= file.recordsz => Continuous

\* Nothing is written to the buffer behind the bytes asked for, and an error is
\* returned only if nothing was read.
StaysInBuffer ==
  /\ \A k \in DOMAIN buff : k >= req.len => buff[k] = Unset
  /\ ret \in {ENOENT, EIO} => \A k \in DOMAIN buff : buff[k] = Unset
=============================================================================
