------------------------- MODULE MeterfsTableMount --------------------------
(***************************************************************************)
(* The steps that erase and write a table, and those of mounting a         *)
(* partition, keep the invariant.                                          *)
(***************************************************************************)
EXTENDS MeterfsTableInv

\* Erasing a sector of the table being written keeps the invariant.
LEMMA Erase ==
  ASSUME IInv, EraseStep
  PROVE  IInv'
<1>1. /\ EraseCells(Blank) /\ pc \in {"erase0", "erase1"} /\ Writing
      /\ UNCHANGED <<nodes, unread, alive, job, fid, tgt, want, pos, seen, tries, acked, wiping,
                     spoilt>>
  BY DEF EraseStep, eraseFileTable, engine, history, Writing
<1>2. /\ hdr' \in [Tables -> HdrCell] /\ ent' \in [Tables -> [Slots -> EntCell]]
      /\ hdr'[1 - tgt] = hdr[1 - tgt] /\ ent'[1 - tgt] = ent[1 - tgt]
      /\ hdr'[tgt] = IF pc = "erase0" THEN Blank ELSE hdr[tgt]
  BY <1>1, Erasing DEF IInv
<1>3. /\ job \in {"commit", "alloc", "chip", "fix", "format"}
      /\ tgt \in Tables /\ hcurr \in Tables /\ want \in Header /\ 1 - tgt \in Tables
      /\ HeaderFirst <=> job = "fix"
  BY <1>1 DEF IInv, JobInv, TypeOK, HeaderFirst, Tables
<1>4. \/ pc = "erase0" /\ pc' = "erase1" /\ UNCHANGED <<hcurr, filecnt>>
      \/ /\ pc = "erase1" /\ job = "fix"
         /\ pc' = "hdr" /\ hcurr' = 1 - tgt /\ filecnt' = Len(want.files)
      \/ /\ pc = "erase1" /\ job = "chip" /\ pc' = "done" /\ UNCHANGED <<hcurr, filecnt>>
      \/ /\ pc = "erase1" /\ job \in {"commit", "alloc", "format"}
         /\ pc' = (IF want.files = <<>> THEN "hdr" ELSE "ents") /\ UNCHANGED <<hcurr, filecnt>>
  BY <1>3 DEF EraseStep, eraseFileTable, AfterErase, HeaderFirst
<1>5. pc' \in {"erase1", "ents", "hdr", "done"} /\ hcurr' \in Tables /\ filecnt' \in 0..MaxFileCnt
  <2>1. job = "fix" => Len(want.files) \in 0..MaxFileCnt
    BY <1>3, ValidTable DEF IInv, MountInv
  <2>2. QED
    BY <1>3, <1>4, <2>1 DEF IInv, TypeOK, Tables
<1>6. TypeOK'
  BY <1>1, <1>2, <1>5 DEF IInv, TypeOK
<1>7. \A t \in Tables : hdr'[t] \in {hdr[t], Blank}
  BY <1>2, <1>3 DEF Tables
<1>8. FormatInv'
  <2>1. ASSUME NEW t \in Tables, Intact(t)'
        PROVE  Intact(t) /\ hdr'[t] = hdr[t]
    BY <1>7, <2>1 DEF Intact
  <2>2. QED
    BY <1>1, <2>1 DEF IInv, FormatInv
<1>9. JobInv'
  <2>1. job' = job /\ alive' = alive
    BY <1>1
  <2>2. pc' \notin {"junk", "off", "check", "select", "idle", "clear", "partial", "fill"}
    BY <1>5
  <2>3. QED
    BY <1>3, <2>1, <2>2 DEF JobInv
<1>10. PICK u \in Tables : u = 1 - tgt /\ u = 1 - tgt' /\ (isHeaderValid(u)' <=> isHeaderValid(u))
  BY <1>1, <1>2, <1>3, Framing
<1>11. ServingInv'
  <2> SUFFICES ASSUME Serving PROVE ServingInv'
    BY <1>1, <1>3, <1>5 DEF ServingInv, Serving, Writing
  <2>1. job \in {"commit", "alloc", "chip"} /\ UNCHANGED <<hcurr, filecnt>>
    BY <1>1, <1>4 DEF Serving, Writing
  <2>2. CASE hcurr = 1 - tgt
    BY <1>1, <1>2, <1>3, <2>1, <2>2, Framing DEF IInv, ServingInv
  <2>3. CASE hcurr # 1 - tgt
    <3>1. hcurr = tgt /\ job = "chip" /\ wiping
      BY <1>3, <2>1, <2>3 DEF Tables, IInv, ChangeInv, WipeInv
    <3>2. hdr'[hcurr] = Blank
      BY <1>1, <1>2, <3>1 DEF IInv, WipeInv
    <3>3. QED
      BY <1>1, <2>1, <3>1, <3>2 DEF IInv, ServingInv, Intact
  <2>4. QED
    BY <2>2, <2>3
<1>12. ChangeInv'
  <2> SUFFICES ASSUME job \in {"commit", "alloc"} PROVE ChangeInv'
    BY <1>1 DEF ChangeInv
  <2>1. UNCHANGED <<hcurr, filecnt>> /\ hcurr = 1 - tgt
    BY <1>3, <1>4 DEF IInv, ChangeInv, Tables
  <2>2. Serving' /\ Intact(hcurr)'
    BY <1>1, <1>2, <1>5, <2>1 DEF Serving, Writing, IInv, ChangeInv, Intact
  <2>3. pos = 1 /\ (want.files # <<>> => Len(want.files) > 0)
    BY <1>1, <1>3 DEF IInv, ChangeInv, Header
  <2>4. /\ ChangeInv /\ UNCHANGED <<job, fid, want, tgt, pos>>
        /\ hdr'[hcurr] = hdr[hcurr] /\ pc' \in {"erase1", "ents", "hdr"}
        /\ pc' = "ents" => want.files # <<>>
        /\ pc' = "hdr" => want.files = <<>>
    BY <1>1, <1>2, <1>4, <2>1 DEF IInv
  <2>5. /\ pc' = "ents" => pos' \in 1..Len(want'.files)
        /\ pc' = "ents" => \A k \in 1..(pos' - 1) : ent'[tgt'][k] = EntryOf(want', k)
        /\ pc' = "hdr" => \A k \in 1..Len(want'.files) : ent'[tgt'][k] = EntryOf(want', k)
    BY <2>3, <2>4
  <2>6. QED
    BY <2>1, <2>2, <2>3, <2>4, <2>5, SMTT(30) DEF ChangeInv
<1>13. WipeInv'
  <2>1. WipeInv /\ Writing' /\ pc' \notin {"check", "select", "fill"}
    BY <1>5 DEF IInv, Writing
  <2>2. CASE job = "chip"
    <3>1. hdr'[tgt] = Blank /\ (tgt = 1 => hdr'[0] = Blank)
      BY <1>1, <1>2, <1>3, <2>1, <2>2 DEF WipeInv, Tables
    <3>2. pc' \notin {"ents", "hdr"}
      BY <1>4, <2>2
    <3>3. QED
      BY <1>1, <2>1, <2>2, <3>1, <3>2 DEF WipeInv
  <2>3. CASE job = "format"
    <3>1. UNCHANGED <<hcurr, filecnt>> /\ pc' \in {"erase1", "hdr"}
      BY <1>4, <2>1, <2>3 DEF WipeInv, EmptyHdr
    <3>2. tgt = 1 => hdr'[0] = hdr[0]
      BY <1>2
    <3>3. hdr'[0] \in {hdr[0], Blank}
      BY <1>7 DEF Tables
    <3>4. QED
      BY <1>1, <2>1, <2>3, <3>1, <3>2, <3>3 DEF WipeInv
  <2>4. QED
    BY <1>1, <2>1, <2>2, <2>3 DEF WipeInv
<1>14. MountInv'
  BY <1>1, <1>2, <1>3, <1>4, <1>10 DEF IInv, MountInv, Writing
<1>15. CopyUnlessSpoilt'
  <2>1. ~wiping => isHeaderValid(1 - tgt)
    BY <1>1, <1>3 DEF IInv, ChangeInv, ServingInv, WipeInv, MountInv, Tables
  <2>2. QED
    BY <1>1, <1>3, <1>10, <2>1 DEF CopyUnlessSpoilt
<1>16. QED
  BY <1>6, <1>8, <1>9, <1>11, <1>12, <1>13, <1>14, <1>15 DEF IInv

\* Writing a file header keeps the invariant.
LEMMA WriteEntry ==
  ASSUME IInv, WriteEnt
  PROVE  IInv'
<1>1. /\ pc = "ents" /\ Writing /\ ent' = [ent EXCEPT ![tgt][pos] = EntryOf(want, pos)]
      /\ pos' = pos + 1
      /\ UNCHANGED <<hdr, hcurr, filecnt, nodes, unread, alive, job, fid, tgt, want, seen, acked,
                     wiping, spoilt>>
  BY DEF WriteEnt, ctx, history, Writing
<1>2. /\ job \in {"commit", "alloc", "fix"} /\ pos \in 1..Len(want.files)
      /\ tgt \in Tables /\ want \in Header /\ Len(want.files) <= MaxFileCnt
  BY <1>1 DEF IInv, JobInv, ChangeInv, WipeInv, MountInv, FormatInv, TypeOK
<1>3. tries' = tries
  BY <1>2 DEF WriteEnt
<1>4. pos \in Slots /\ EntryOf(want, pos) \in EntCell
  <2>1. want.files \in Seq(FileHdr) /\ want.fmt \in Formats
    BY <1>2 DEF Header
  <2>2. QED
    BY <1>2, <2>1, ConstantsAssumption DEF Slots, EntryOf, EntCell, Entry
<1>5. /\ ent' \in [Tables -> [Slots -> EntCell]] /\ ent'[1 - tgt] = ent[1 - tgt]
      /\ ent'[tgt] = [ent[tgt] EXCEPT ![pos] = EntryOf(want, pos)]
  BY <1>1, <1>2, <1>4 DEF IInv, TypeOK, Tables
<1>6. pc' = IF pos < Len(want.files) THEN "ents" ELSE IF job = "fix" THEN "done" ELSE "hdr"
  BY <1>2 DEF WriteEnt, AfterEnt, HeaderFirst
<1>7. TypeOK'
  <2>1. pos' \in Nat /\ pc' \in {"ents", "done", "hdr"}
    BY <1>1, <1>2, <1>6 DEF Header
  <2>2. QED
    BY <1>1, <1>3, <1>5, <2>1 DEF IInv, TypeOK
<1>8. FormatInv'
  BY <1>1 DEF IInv, FormatInv, Intact
<1>9. JobInv'
  BY <1>1, <1>2, <1>6 DEF JobInv, Writing
<1>10. hcurr = 1 - tgt /\ hcurr \in Tables
  BY <1>1, <1>2 DEF IInv, ChangeInv, MountInv, TypeOK, Tables
<1>11. PICK u \in Tables : u = hcurr /\ u = hcurr' /\ u = 1 - tgt /\ u = 1 - tgt'
                           /\ (isHeaderValid(u)' <=> isHeaderValid(u))
  BY <1>1, <1>5, <1>10, Framing
<1>12. ServingInv'
  <2> SUFFICES ASSUME Serving PROVE ServingInv'
    BY <1>1, <1>2, <1>6 DEF ServingInv, Serving, Writing
  <2>1. QED
    BY <1>1, <1>5, <1>10, <1>11 DEF IInv, ServingInv, Intact
<1>13. ChangeInv'
  <2> SUFFICES ASSUME job \in {"commit", "alloc"} PROVE ChangeInv'
    BY <1>1 DEF ChangeInv
  <2>1. Serving' /\ Intact(hcurr)'
    BY <1>1, <1>6 DEF Serving, Writing, IInv, ChangeInv, Intact
  <2>2. \A k \in 1..pos : ent'[tgt][k] = EntryOf(want, k)
    <3>1. \A k \in 1..(pos - 1) : k \in Slots /\ k # pos /\ ent[tgt][k] = EntryOf(want, k)
      <4>1. \A k \in 1..(pos - 1) : ent[tgt][k] = EntryOf(want, k)
        BY <1>1 DEF IInv, ChangeInv
      <4>2. pos \in 1..MaxFileCnt
        BY <1>4 DEF Slots
      <4>3. QED
        BY <4>1, <4>2, ConstantsAssumption DEF Slots
    <3>2. ent[tgt] \in [Slots -> EntCell]
      BY <1>2 DEF IInv, TypeOK
    <3>3. ent'[tgt][pos] = EntryOf(want, pos) /\ \A k \in Slots : k # pos => ent'[tgt][k] = ent[tgt][k]
      BY <1>4, <1>5, <3>2
    <3>4. \A k \in 1..pos : k = pos \/ k \in 1..(pos - 1)
      BY <1>2 DEF Header
    <3>5. QED
      BY <3>1, <3>3, <3>4
  <2>3. Len(want.files) \in Nat
    BY <1>2 DEF Header
  <2>4. QED
    BY <1>1, <1>2, <1>6, <2>1, <2>2, <2>3 DEF IInv, ChangeInv, EntryOf
<1>14. WipeInv'
  BY <1>1, <1>2, <1>6 DEF IInv, WipeInv
<1>15. MountInv'
  <2>1. Len(want.files) \in Nat
    BY <1>2 DEF Header
  <2>2. QED
    BY <1>1, <1>2, <1>6, <1>11, <2>1 DEF IInv, MountInv, Writing
<1>16. CopyUnlessSpoilt'
  BY <1>1, <1>2, <1>11 DEF IInv, CopyUnlessSpoilt, ChangeInv, ServingInv, MountInv
<1>17. QED
  BY <1>7, <1>8, <1>9, <1>12, <1>13, <1>14, <1>15, <1>16 DEF IInv

\* A table whose header and file headers are written is valid.
LEMMA Complete ==
  ASSUME NEW t \in Tables, hdr[t] \in Header, Len(hdr[t].files) <= MaxFileCnt,
         \A k \in 1..Len(hdr[t].files) : ent[t][k] = EntryOf(hdr[t], k)
  PROVE  isHeaderValid(t)
BY ConstantsAssumption DEF isHeaderValid, HeaderOk, ChecksumOk

\* Writing a table header, the commit of a change, keeps the invariant.
LEMMA WriteHeader ==
  ASSUME IInv, WriteHdr
  PROVE  IInv'
<1>1. /\ pc = "hdr" /\ Writing /\ hdr' = [hdr EXCEPT ![tgt] = want]
      /\ UNCHANGED <<ent, hcurr, filecnt, nodes, unread, alive, job, fid, tgt, want, pos, seen,
                     tries, acked, wiping, spoilt>>
  BY DEF WriteHdr, ctx, engine, history, Writing
<1>2. /\ job \in {"commit", "alloc", "fix", "format"} /\ tgt \in Tables /\ want \in Header
      /\ Len(want.files) \in Nat
  BY <1>1 DEF IInv, JobInv, WipeInv, TypeOK, Header, Writing
<1>3. pc' = IF job = "fix" /\ want.files # <<>> THEN "ents" ELSE "done"
  BY <1>2 DEF WriteHdr, AfterHdr, HeaderFirst
<1>4. /\ hdr' \in [Tables -> HdrCell] /\ hdr'[1 - tgt] = hdr[1 - tgt] /\ hdr'[tgt] = want
      /\ 1 - tgt \in Tables
  BY <1>1, <1>2 DEF IInv, TypeOK, Tables, HdrCell
<1>5. TypeOK'
  BY <1>1, <1>3, <1>4 DEF IInv, TypeOK
<1>6. FormatInv'
  BY <1>1, <1>2, <1>4 DEF IInv, FormatInv, Intact, Tables, Unique
<1>7. JobInv'
  BY <1>1, <1>2, <1>3 DEF JobInv, Writing
<1>8. PICK u \in Tables : u = 1 - tgt /\ u = 1 - tgt' /\ (isHeaderValid(u)' <=> isHeaderValid(u))
                          /\ (Intact(u)' <=> Intact(u)) /\ hdr'[u] = hdr[u]
  BY <1>1, <1>4, Framing
<1>9. ServingInv'
  <2> SUFFICES ASSUME job \in {"commit", "alloc"} PROVE ServingInv'
    BY <1>1, <1>2, <1>3 DEF ServingInv, Serving, Writing
  <2>1. u = hcurr /\ u = hcurr' /\ Serving
    BY <1>1, <1>2, <1>8 DEF IInv, ChangeInv, TypeOK, Tables
  <2>2. QED
    BY <1>1, <1>8, <2>1 DEF IInv, ServingInv
<1>10. ChangeInv'
  <2> SUFFICES ASSUME job \in {"commit", "alloc"} PROVE ChangeInv'
    BY <1>1 DEF ChangeInv
  <2>1. u = hcurr /\ u = hcurr'
    BY <1>1, <1>2, <1>8 DEF IInv, ChangeInv, TypeOK, Tables
  <2>2. Serving' /\ Intact(hcurr)'
    BY <1>1, <1>3, <1>8, <2>1 DEF IInv, ChangeInv, Serving, Writing
  <2>3. QED
    BY <1>1, <1>3, <1>4, <1>8, <2>1, <2>2 DEF IInv, ChangeInv, EntryOf
<1>11. WipeInv'
  BY <1>1, <1>2, <1>3, <1>4 DEF IInv, WipeInv, Writing, Tables
<1>12. MountInv'
  <2>1. want.files # <<>> => Len(want.files) > 0
    BY <1>2 DEF Header
  <2>2. CASE job = "fix"
    <3>1. ~alive /\ want = hdr[u] /\ isHeaderValid(u) /\ pos = 1 /\ hcurr = u /\ filecnt = Len(want.files)
      BY <1>1, <1>8, <2>2 DEF IInv, MountInv
    <3>2. /\ ~alive' /\ want' = hdr'[u] /\ isHeaderValid(u)' /\ hcurr' = u /\ filecnt' = Len(want'.files)
          /\ pc' = "ents" => pos' \in 1..Len(want'.files)
      BY <1>1, <1>2, <1>3, <1>8, <2>1, <3>1
    <3>3. pc' \in {"ents", "done"}
      BY <1>3
    <3>4. QED
      BY <1>8, <3>2, <3>3 DEF MountInv, Writing
  <2>3. CASE job # "fix"
    BY <1>1, <1>2, <1>3, <2>3 DEF MountInv
  <2>4. QED
    BY <2>2, <2>3
<1>13. CopyUnlessSpoilt'
  <2>1. CASE job \in {"commit", "alloc"}
    <3>1. u = hcurr /\ Serving /\ Intact(hcurr)
      BY <1>8, <2>1 DEF IInv, ChangeInv, TypeOK, Tables
    <3>2. isHeaderValid(u)
      BY <3>1 DEF IInv, ServingInv
    <3>3. QED
      BY <1>8, <3>2 DEF CopyUnlessSpoilt
  <2>2. CASE job = "fix"
    <3>1. isHeaderValid(u)
      BY <1>8, <2>2 DEF IInv, MountInv
    <3>2. QED
      BY <1>8, <3>1 DEF CopyUnlessSpoilt
  <2>3. CASE job = "format"
    BY <1>1, <2>3 DEF IInv, WipeInv, CopyUnlessSpoilt
  <2>4. QED
    BY <1>2, <2>1, <2>2, <2>3
<1>14. QED
  BY <1>5, <1>6, <1>7, <1>9, <1>10, <1>11, <1>12, <1>13 DEF IInv

\* Tables and histories that a step leaves alone.
Frame == UNCHANGED <<hdr, ent, wiping, spoilt, acked>>

\* A step that leaves the tables and the served state alone keeps what the
\* invariant says of them.
LEMMA Framed ==
  ASSUME IInv, Frame
  PROVE  /\ \A t \in Tables : (isHeaderValid(t)' <=> isHeaderValid(t)) /\ (Intact(t)' <=> Intact(t))
         /\ CopyUnlessSpoilt'
         /\ \A t \in Tables : Intact(t)' =>
              hdr'[t].fmt = "v1" /\ Len(hdr'[t].files) <= MaxFileCnt /\ Unique(hdr'[t].files)
<1>1. \A t \in Tables : (isHeaderValid(t)' <=> isHeaderValid(t)) /\ (Intact(t)' <=> Intact(t))
  BY DEF Frame, isHeaderValid, HeaderOk, ChecksumOk, Intact
<1>2. CopyUnlessSpoilt'
  BY <1>1 DEF IInv, CopyUnlessSpoilt, Frame
<1>3. QED
  BY <1>1, <1>2 DEF IInv, FormatInv, Frame, Unique

\* Going on after a completed table while mounting keeps the invariant.
LEMMA MountTable ==
  ASSUME IInv, TableDone
  PROVE  IInv'
<1>1. pc = "done" /\ UNCHANGED <<hdr, ent, hcurr, filecnt, nodes, unread, alive, seen, acked, wiping, spoilt>>
  BY DEF TableDone, tab, ctx, history
<1>2. job \in {"fix", "format"}
  BY <1>1 DEF TableDone, IInv, JobInv, Writing
<1>3. Frame
  BY <1>1 DEF Frame
<1>4. UNCHANGED tries /\ fid' = fid
  BY <1>2 DEF TableDone, StartTable, engine
<1>5. CASE job = "fix"
  <2>1. pc' = "partial" /\ UNCHANGED <<job, fid, tgt, want, pos>>
    BY <1>5 DEF TableDone, engine
  <2>2. TypeOK' /\ FormatInv'
    BY <1>1, <1>3, <1>4, <2>1, Framed DEF IInv, TypeOK, FormatInv, Unique
  <2>3. PICK u \in Tables : u = 1 - tgt /\ u = 1 - tgt' /\ u = hcurr /\ u = hcurr'
                            /\ isHeaderValid(u) /\ isHeaderValid(u)'
    BY <1>1, <1>3, <1>5, <2>1, Framed DEF IInv, MountInv, TypeOK, Tables
  <2>4. MountInv'
    BY <1>1, <1>5, <2>1, <2>3 DEF IInv, MountInv
  <2>5. JobInv' /\ ServingInv' /\ ChangeInv' /\ WipeInv'
    BY <1>1, <1>5, <2>1 DEF IInv, MountInv, JobInv, ServingInv, ChangeInv, WipeInv, Serving, Writing
  <2>6. QED
    BY <1>3, <2>2, <2>4, <2>5, Framed DEF IInv
<1>6. CASE job = "format"
  <2>1. /\ wiping /\ hcurr = 0 /\ filecnt = 0 /\ hdr[0] = EmptyHdr /\ want = EmptyHdr
        /\ alive => nodes = <<>>
    BY <1>1, <1>6 DEF IInv, WipeInv
  <2>2. /\ \/ tgt' = 1 /\ pc' = "erase0" /\ pos' = 1
           \/ tgt' = tgt /\ pc' = "fill" /\ pos' = pos
        /\ job' = "format" /\ want' = EmptyHdr
    BY <1>6, <2>1 DEF TableDone, StartTable, engine
  <2>3. TypeOK' /\ FormatInv'
    <3>1. tgt' \in Tables /\ pos' \in Nat /\ want' \in Header /\ job' = job
          /\ pc' \in {"erase0", "fill"} /\ want' = want
      BY <1>6, <2>1, <2>2, EmptyHdrType DEF IInv, TypeOK, Tables
    <3>2. QED
      BY <1>1, <1>3, <1>4, <3>1, Framed DEF IInv, TypeOK, FormatInv, Unique
  <2>4. isHeaderValid(0) /\ Len(hdr[0].files) = 0
    BY <2>1, EmptyHdrType, ConstantsAssumption
       DEF isHeaderValid, HeaderOk, ChecksumOk, EmptyHdr
  <2>5. PICK u \in Tables : u = 0 /\ u = hcurr' /\ isHeaderValid(u)' /\ Len(hdr'[u].files) = 0
    BY <1>1, <1>3, <2>1, <2>4, Framed DEF Tables
  <2>6. MountInv'
    BY <1>1, <2>1, <2>2, <2>5 DEF MountInv
  <2>7. JobInv' /\ ServingInv' /\ ChangeInv' /\ WipeInv'
    BY <1>1, <2>1, <2>2 DEF JobInv, ServingInv, ChangeInv, WipeInv, Serving, Writing
  <2>8. QED
    BY <1>3, <2>3, <2>6, <2>7, Framed DEF IInv
<1>7. QED
  BY <1>2, <1>5, <1>6

\* What meterfs_checkfs reads of a header has its types.
LEMMA ReadType ==
  ASSUME IInv, NEW t \in Tables
  PROVE  /\ ReadHeader(t) \in [valid : BOOLEAN, migrate : BOOLEAN, id : 0..(IdMod - 1),
                               filecnt : 0..MaxFileCnt]
         /\ ~ReadHeader(t).migrate
         /\ ReadHeader(t).valid <=> isHeaderValid(t)
         /\ isHeaderValid(t) => ReadHeader(t).filecnt = Len(hdr[t].files)
<1>1. seen[t] \in [valid : BOOLEAN, migrate : BOOLEAN, id : 0..(IdMod - 1), filecnt : 0..MaxFileCnt]
      /\ ~seen[t].migrate
  BY DEF IInv, TypeOK, FormatInv
<1>2. CASE ~HeaderOk(t)
  BY <1>1, <1>2 DEF ReadHeader, isHeaderValid
<1>3. CASE HeaderOk(t)
  <2>1. hdr[t] \in Header /\ hdr[t].fmt = "v1"
    BY <1>3 DEF IInv, TypeOK, FormatInv, Intact, HdrCell, HeaderOk
  <2>2. Len(hdr[t].files) \in 0..MaxFileCnt /\ hdr[t].id \in 0..(IdMod - 1)
    BY <1>3, <2>1, ConstantsAssumption DEF HeaderOk, Header
  <2>3. ChecksumOk(t) \in BOOLEAN
    BY DEF ChecksumOk
  <2>4. QED
    BY <1>3, <2>1, <2>2, <2>3 DEF ReadHeader, isHeaderValid
<1>4. QED
  BY <1>2, <1>3

\* Reading both headers keeps the invariant.
LEMMA CheckHeaders ==
  ASSUME IInv, checkHeaders
  PROVE  IInv'
<1>1. pc = "check" /\ UNCHANGED <<hdr, ent, hcurr, filecnt, nodes, unread, alive, acked, wiping, spoilt>>
      /\ seen' = [t \in Tables |-> ReadHeader(t)] /\ job = "none"
  BY DEF checkHeaders, tab, ctx, history, IInv, JobInv
<1>2. ~ReadHeader(0).migrate /\ ~ReadHeader(1).migrate
  BY ReadType DEF Tables
<1>3. pc' \in {"select", "check"} /\ UNCHANGED engine
      /\ (tries' = tries \/ tries' = [tries EXCEPT !.check = NextCheck])
  BY <1>2 DEF checkHeaders, Tables
<1>4. UNCHANGED <<job, fid, tgt, want, pos>>
  BY <1>3 DEF engine
<1>5. tries' \in [check : Nat, migrate : Nat, write : Nat]
  BY <1>3, SMTT(30) DEF IInv, TypeOK, NextCheck
<1>6. /\ seen' \in [Tables -> [valid : BOOLEAN, migrate : BOOLEAN, id : 0..(IdMod - 1),
                               filecnt : 0..MaxFileCnt]]
      /\ \A t \in Tables : /\ ~seen'[t].migrate
                           /\ seen'[t].valid <=> isHeaderValid(t)
                           /\ isHeaderValid(t) => seen'[t].filecnt = Len(hdr[t].files)
  BY <1>1, ReadType
<1>7. Frame
  BY <1>1 DEF Frame
<1>8. TypeOK'
  BY <1>1, <1>3, <1>4, <1>5, <1>6 DEF IInv, TypeOK
<1>9. FormatInv'
  BY <1>1, <1>4, <1>6, <1>7, Framed DEF IInv, FormatInv, Unique
<1>10. JobInv' /\ ServingInv' /\ ChangeInv' /\ WipeInv'
  BY <1>1, <1>3, <1>4 DEF IInv, JobInv, ServingInv, ChangeInv, WipeInv, Serving, Writing
<1>11. MountInv'
  BY <1>1, <1>3, <1>4, <1>6, <1>7, Framed DEF MountInv
<1>12. QED
  BY <1>7, <1>8, <1>9, <1>10, <1>11, Framed DEF IInv

\* Choosing a table, a repair or a format keeps the invariant.
LEMMA SelectTable ==
  ASSUME IInv, selectTable
  PROVE  IInv'
<1>1. pc = "select" /\ UNCHANGED <<hdr, ent, nodes, unread, alive, seen, tries, acked, wiping, spoilt>>
      /\ job = "none"
  BY DEF selectTable, tab, history, IInv, JobInv
<1>2. Frame
  BY <1>1 DEF Frame
<1>3. \A t \in Tables : /\ seen[t].valid <=> isHeaderValid(t)
                        /\ isHeaderValid(t) => seen[t].filecnt = Len(hdr[t].files)
  BY <1>1 DEF IInv, MountInv
<1>4. ASSUME NEW t \in Tables, isHeaderValid(t)
      PROVE  ~alive
  BY <1>1, <1>4 DEF IInv, WipeInv, isHeaderValid, HeaderOk
<1>5. CASE NoneValid /\ hcurr' = 0 /\ filecnt' = 0 /\ StartTable("format", 0, EmptyHdr)
  <2>1. /\ job' = "format" /\ tgt' = 0 /\ want' = EmptyHdr /\ pos' = 1 /\ pc' = "erase0"
        /\ fid' = fid
    BY <1>5 DEF StartTable
  <2>2. wiping
    BY <1>3, <1>5 DEF NoneValid, IInv, CopyUnlessSpoilt, FormatInv, Tables
  <2>3. TypeOK'
    BY <1>1, <1>5, <2>1, EmptyHdrType, ConstantsAssumption DEF IInv, TypeOK, Tables
  <2>4. FormatInv'
    <3>1. want'.fmt = "v1" /\ Len(want'.files) <= MaxFileCnt /\ Unique(want'.files)
      BY <2>1, ConstantsAssumption, SMTT(30) DEF EmptyHdr, Unique
    <3>2. QED
      BY <1>1, <1>2, <3>1, Framed DEF IInv, FormatInv, Unique
  <2>5. JobInv' /\ ServingInv' /\ ChangeInv' /\ MountInv'
    BY <2>1 DEF JobInv, ServingInv, ChangeInv, MountInv, Serving, Writing
  <2>6. WipeInv'
    BY <1>1, <1>5, <2>1, <2>2 DEF IInv, WipeInv, Writing, Tables
  <2>7. QED
    BY <1>2, <2>3, <2>4, <2>5, <2>6, Framed DEF IInv
<1>6. CASE /\ seen[0].valid /\ seen[1].valid
           /\ hcurr' = Newer(seen) /\ filecnt' = seen[Newer(seen)].filecnt
           /\ pc' = "partial" /\ UNCHANGED engine
  <2>1. UNCHANGED <<job, fid, tgt, want, pos>>
    BY <1>6 DEF engine
  <2>2. /\ hcurr' \in Tables /\ isHeaderValid(hcurr') /\ ~alive
        /\ filecnt' = Len(hdr[hcurr'].files) /\ filecnt' \in 0..MaxFileCnt
    BY <1>3, <1>4, <1>6 DEF Newer, Tables, IInv, TypeOK
  <2>3. TypeOK' /\ FormatInv'
    BY <1>1, <1>2, <1>6, <2>1, <2>2, Framed DEF IInv, TypeOK, FormatInv, Unique
  <2>4. JobInv' /\ ServingInv' /\ ChangeInv' /\ WipeInv'
    BY <1>1, <1>6, <2>1, <2>2 DEF JobInv, ServingInv, ChangeInv, WipeInv, Serving, Writing
  <2>5. PICK u \in Tables : u = hcurr' /\ isHeaderValid(u)' /\ filecnt' = Len(hdr'[u].files)
    BY <1>1, <1>2, <2>2, Framed
  <2>6. MountInv'
    BY <1>1, <1>6, <2>1, <2>5 DEF MountInv
  <2>7. QED
    BY <1>2, <2>3, <2>4, <2>6, Framed DEF IInv
<1>7. ASSUME NEW bad \in Tables, ~seen[bad].valid, seen[1 - bad].valid,
             StartTable("fix", bad, hdr[1 - bad]), UNCHANGED <<hcurr, filecnt>>
      PROVE  IInv'
  <2>1. /\ job' = "fix" /\ tgt' = bad /\ want' = hdr[1 - bad] /\ pos' = 1 /\ pc' = "erase0"
        /\ fid' = fid
    BY <1>7 DEF StartTable
  <2>2. 1 - bad \in Tables
    BY DEF Tables
  <2>3. isHeaderValid(1 - bad) /\ ~alive
    BY <1>3, <1>4, <1>7, <2>2
  <2>4. Intact(1 - bad) /\ hdr[1 - bad] \in Header
    BY <2>2, <2>3, ValidTable DEF IInv
  <2>5. TypeOK'
    BY <1>1, <1>7, <2>1, <2>4 DEF IInv, TypeOK
  <2>6. FormatInv'
    <3>1. want'.fmt = "v1" /\ Len(want'.files) <= MaxFileCnt /\ Unique(want'.files)
      BY <2>1, <2>2, <2>4 DEF IInv, FormatInv
    <3>2. QED
      BY <1>1, <1>2, <3>1, Framed DEF IInv, FormatInv, Unique
  <2>7. JobInv' /\ ServingInv' /\ ChangeInv' /\ WipeInv'
    BY <1>1, <2>1, <2>3 DEF JobInv, ServingInv, ChangeInv, WipeInv, Serving, Writing
  <2>8. PICK u \in Tables : u = 1 - bad /\ u = 1 - tgt' /\ isHeaderValid(u)' /\ want' = hdr'[u]
    BY <1>1, <1>2, <2>1, <2>2, <2>3, Framed
  <2>9. MountInv'
    BY <1>1, <2>1, <2>3, <2>8 DEF MountInv, Writing
  <2>10. QED
    BY <1>2, <2>5, <2>6, <2>7, <2>9, Framed DEF IInv
<1>8. QED
  BY <1>5, <1>6, <1>7 DEF selectTable

\* Filling the tree of nodes, the end of a mount, keeps the invariant.
LEMMA FillNodes ==
  ASSUME IInv, rbTreeFill
  PROVE  IInv'
<1>1. /\ pc = "fill" /\ pc' = "idle" /\ Rest /\ alive' /\ ~wiping' /\ unread' = {}
      /\ UNCHANGED <<hdr, ent, hcurr, filecnt, spoilt>>
      /\ nodes' = [k \in 1..filecnt |-> ent[hcurr][k]]
      /\ acked' = [k \in 1..filecnt |-> ent[hcurr][k].file]
  BY DEF rbTreeFill, tab
<1>2. hcurr \in Tables /\ isHeaderValid(hcurr) /\ filecnt = Len(hdr[hcurr].files) /\ filecnt \in Nat
  BY <1>1, ConstantsAssumption DEF IInv, MountInv, TypeOK
<1>3. /\ Intact(hcurr) /\ hdr[hcurr] \in Header
      /\ \A k \in 1..filecnt : /\ ent[hcurr][k] = EntryOf(hdr[hcurr], k) /\ ent[hcurr][k] \in Entry
                               /\ ent[hcurr][k].file = hdr[hcurr].files[k]
  BY <1>2, ValidTable DEF IInv
<1>4. nodes' \in Seq(Entry) /\ Len(nodes') = filecnt
  <2>1. nodes' = [k \in 1..filecnt |-> nodes'[k]] /\ \A k \in 1..filecnt : nodes'[k] \in Entry
    BY <1>1, <1>3
  <2>2. QED
    BY <1>2, <2>1, FunctionSeq
<1>5. hdr[hcurr].files \in Seq(FileHdr)
  BY <1>3 DEF Header
<1>6. acked' = hdr[hcurr].files
  <2>1. /\ acked' = [k \in 1..Len(hdr[hcurr].files) |-> acked'[k]]
        /\ \A k \in 1..Len(hdr[hcurr].files) : acked'[k] = hdr[hcurr].files[k]
    BY <1>1, <1>2, <1>3
  <2>2. QED
    BY <1>5, <2>1, SameSeq
<1>7. TypeOK'
  <2>1. nodes' \in Seq(EntCell)
    BY <1>4 DEF EntCell
  <2>2. alive' \in BOOLEAN /\ wiping' \in BOOLEAN /\ unread' \subseteq Nat
    BY Zenon DEF rbTreeFill
  <2>3. QED
    BY <1>1, <1>5, <1>6, <2>1, <2>2, RestType, Zenon DEF IInv, TypeOK
<1>8. \A t \in Tables : (isHeaderValid(t)' <=> isHeaderValid(t)) /\ (Intact(t)' <=> Intact(t))
  BY <1>1, Framing
<1>9. FormatInv'
  <2>1. want'.fmt = "v1" /\ Len(want'.files) <= MaxFileCnt /\ Unique(want'.files)
    BY <1>1, ConstantsAssumption DEF Rest, EmptyHdr, Unique
  <2>2. \A t \in Tables : ~seen'[t].migrate
    BY <1>1 DEF Rest, Unseen
  <2>3. \A t \in Tables : Intact(t)' =>
          hdr'[t].fmt = "v1" /\ Len(hdr'[t].files) <= MaxFileCnt /\ Unique(hdr'[t].files)
    BY <1>1, <1>8 DEF IInv, FormatInv
  <2>4. QED
    BY <1>1, <1>4, <2>1, <2>2, <2>3 DEF IInv, FormatInv, Unique
<1>10. job' = "none"
  BY <1>1 DEF Rest
<1>11. JobInv' /\ ChangeInv' /\ WipeInv' /\ MountInv'
  BY <1>1, <1>10 DEF JobInv, ChangeInv, WipeInv, MountInv, Writing
<1>12. PICK u \in Tables : u = hcurr /\ u = hcurr' /\ isHeaderValid(u)' /\ Intact(u)'
  BY <1>1, <1>2, <1>3, <1>8
<1>13. ServingInv'
  <2>1. \A k \in 1..filecnt : nodes'[k].file.name = hdr'[u].files[k].name /\ nodes'[k] = ent'[u][k]
    BY <1>1, <1>2, <1>3, <1>12
  <2>2. QED
    BY <1>1, <1>2, <1>4, <1>6, <1>12, <2>1, SMTT(30) DEF ServingInv
<1>14. CopyUnlessSpoilt'
  BY <1>12 DEF CopyUnlessSpoilt
<1>15. QED
  BY <1>7, <1>9, <1>11, <1>13, <1>14 DEF IInv

=============================================================================
