------------------------ MODULE MeterfsTableRefines -------------------------
(***************************************************************************)
(* The file table of a partition formatted by this release implements      *)
(* FileTable: what a mount would present changes only at the write of a    *)
(* table header, and then to the table of the one operation in progress.   *)
(***************************************************************************)
EXTENDS MeterfsTableProofs

\* Files are laid out one behind the other.
Ordered(fs) ==
  \A i, j \in 1..Len(fs) : i < j => fs[i].sector + fs[i].cnt <= fs[j].sector

OrderInv ==
  /\ \A t \in Tables : Intact(t) => Ordered(hdr[t].files)
  /\ Ordered(want.files)

\* A change is the table in use with one file changed or one more file, under the
\* next id.
NewTable(j, h, w) ==
  j \in {"commit", "alloc"} =>
    /\ w.id = h.id + 1
    /\ j = "commit" => w.files \in FT!Changed(h.files)
    /\ j = "alloc" => FT!Extends(h.files, w.files)
NewTableInv == NewTable(job, hdr[hcurr], want)

\* The table being written is not valid until its last step.
TargetInv ==
  /\ job \in {"commit", "alloc"} /\ pc \in {"erase1", "ents", "hdr"} => hdr[tgt] = Blank
  /\ job = "fix" =>
       /\ pc = "erase0" => ~isHeaderValid(tgt)
       /\ pc \in {"erase1", "hdr"} => hdr[tgt] = Blank
       /\ pc \in {"ents", "done"} => hdr[tgt] = want
  /\ job = "format" =>
       /\ pc = "fill" => tgt = 1
       /\ tgt = 1 /\ pc \in {"done", "fill"} => hdr[1] = EmptyHdr

\* Mounting presents what a mount would present.
PresentInv ==
  /\ pc = "select" => \A t \in Tables : isHeaderValid(t) => seen[t].id = hdr[t].id
  /\ pc \in {"partial", "fill"} => Recoverable = hdr[hcurr].files

RInv == OrderInv /\ NewTableInv /\ TargetInv /\ PresentInv

-----------------------------------------------------------------------------
(* What a mount would present                                              *)

\* What a mount presents of tables with headers h, of which v tells the valid.
Presented(v, h) ==
  IF v[0] /\ v[1] THEN IF h[0].id + 1 = h[1].id THEN h[1].files ELSE h[0].files
  ELSE IF v[0] THEN h[0].files
  ELSE IF v[1] THEN h[1].files
  ELSE <<>>

\* meterfs_checkfs reads a table as valid exactly if it is, and then its id.
PresentsValid == Recoverable = Presented([t \in Tables |-> isHeaderValid(t)], hdr)

LEMMA Reading == TypeOK => PresentsValid
<1> SUFFICES ASSUME TypeOK
             PROVE  Recoverable = Presented([t \in Tables |-> isHeaderValid(t)], hdr)
  BY DEF PresentsValid
<1>1. ASSUME NEW t \in Tables
      PROVE  /\ ReadHeader(t).valid <=> isHeaderValid(t)
             /\ isHeaderValid(t) => ReadHeader(t).id = hdr[t].id
  <2>1. seen[t] \in [valid : BOOLEAN, migrate : BOOLEAN, id : 0..(IdMod - 1), filecnt : 0..MaxFileCnt]
    BY DEF TypeOK
  <2>2. CASE ~HeaderOk(t)
    BY <2>1, <2>2 DEF ReadHeader, isHeaderValid
  <2>3. CASE HeaderOk(t)
    BY <2>3 DEF ReadHeader, isHeaderValid
  <2>4. QED
    BY <2>2, <2>3
<1>2. 0 \in Tables /\ 1 \in Tables
  BY DEF Tables
<1>3. QED
  BY <1>1, <1>2 DEF Recoverable, Presented, Newer

\* The same after a step.
LEMMA ReadingNext == TypeOK' => PresentsValid'
BY Reading, PTL

\* Of two valid tables the one with the next id is presented, and a valid table if the
\* other is not valid or holds the same files.
NewerOk ==
  \A u \in Tables :
    isHeaderValid(u) /\ isHeaderValid(1 - u) /\ hdr[1 - u].id = hdr[u].id + 1 =>
      Recoverable = hdr[1 - u].files

OnlyOk ==
  \A u \in Tables :
    isHeaderValid(u) /\ (~isHeaderValid(1 - u) \/ hdr[1 - u].files = hdr[u].files) =>
      Recoverable = hdr[u].files

LEMMA Presenting == TypeOK => NewerOk /\ OnlyOk
<1> SUFFICES ASSUME TypeOK PROVE NewerOk /\ OnlyOk
  OBVIOUS
<1>1. Recoverable = Presented([t \in Tables |-> isHeaderValid(t)], hdr)
  BY Reading DEF PresentsValid
<1>2. \A u \in Tables : 1 - u \in Tables /\ 1 - (1 - u) = u
  BY DEF Tables
<1>3. \A u \in Tables : isHeaderValid(u) => hdr[u].id \in Nat
  BY ValidTable, ConstantsAssumption DEF Header
<1>4. NewerOk
  BY <1>1, <1>2, <1>3 DEF NewerOk, Presented, Tables
<1>5. OnlyOk
  BY <1>1, <1>2 DEF OnlyOk, Presented, Tables
<1>6. QED
  BY <1>4, <1>5

\* The same after a step.
LEMMA PresentingNext == TypeOK' => NewerOk' /\ OnlyOk'
BY Presenting, PTL

\* A step that leaves the tables alone leaves alone what a mount would present.
LEMMA SamePresented ==
  ASSUME TypeOK, TypeOK', UNCHANGED <<hdr, ent>>
  PROVE  Recoverable' = Recoverable
<1>1. \A t \in Tables : isHeaderValid(t)' <=> isHeaderValid(t)
  BY Framing
<1>2. QED
  BY <1>1, Reading, ReadingNext DEF PresentsValid, Presented, Tables

-----------------------------------------------------------------------------
(* Each step keeps RInv                                                    *)

\* The header a table is formatted with has no files to order.
LEMMA EmptyOrdered == EmptyHdr.files = <<>> /\ Ordered(EmptyHdr.files)
<1>1. EmptyHdr.files = <<>>
  BY Zenon DEF EmptyHdr
<1>2. Len(<<>>) = 0
  OBVIOUS
<1>3. 1..Len(EmptyHdr.files) = {}
  BY <1>1, <1>2
<1>4. QED
  BY <1>1, <1>3 DEF Ordered

\* After a request, an error or a power cut nothing is being written.
LEMMA RestKeeps ==
  ASSUME IInv, RInv, Rest, pc' \notin {"select", "partial", "fill"},
         \A t \in Tables : hdr'[t] \in {hdr[t], Blank, Torn, want}
  PROVE  RInv'
<1>1. job' = "none" /\ want' = EmptyHdr
  BY DEF Rest
<1>2. OrderInv'
  BY <1>1, EmptyOrdered DEF RInv, OrderInv, Intact, Ordered
<1>3. QED
  BY <1>1, <1>2 DEF RInv, NewTableInv, NewTable, TargetInv, PresentInv

\* A step that leaves the tables and the engine alone, of a server that writes nothing.
LEMMA IdleKeeps ==
  ASSUME IInv, RInv, UNCHANGED <<hdr, ent, job, want>>, job = "none",
         pc' \notin {"select", "partial", "fill"}
  PROVE  RInv'
<1>1. OrderInv'
  BY DEF RInv, OrderInv, Intact, Ordered
<1>2. QED
  BY <1>1 DEF RInv, NewTableInv, NewTable, TargetInv, PresentInv

\* Reading both headers.
LEMMA CheckKeeps ==
  ASSUME IInv, RInv, checkHeaders
  PROVE  RInv'
<1>1. /\ pc = "check" /\ UNCHANGED <<hdr, ent>> /\ job = "none"
      /\ seen' = [t \in Tables |-> ReadHeader(t)]
  BY DEF checkHeaders, tab, IInv, JobInv
<1>2. pc' \in {"select", "check"} /\ UNCHANGED engine
  BY ReadType DEF checkHeaders, Tables
<1>3. UNCHANGED <<job, want>>
  BY <1>2 DEF engine
<1>4. OrderInv'
  BY <1>1, <1>3 DEF RInv, OrderInv, Intact, Ordered
<1>5. ASSUME NEW t \in Tables, isHeaderValid(t)'
      PROVE  seen'[t].id = hdr'[t].id
  <2>1. isHeaderValid(t)
    BY <1>1, <1>5, Framing
  <2>2. QED
    BY <1>1, <2>1 DEF isHeaderValid, ReadHeader
<1>6. PresentInv'
  BY <1>2, <1>5 DEF PresentInv
<1>7. QED
  BY <1>1, <1>3, <1>4, <1>6 DEF RInv, NewTableInv, NewTable, TargetInv

\* Choosing a table, a repair or a format.
LEMMA SelectKeeps ==
  ASSUME IInv, IInv', RInv, selectTable
  PROVE  RInv'
<1>1. /\ pc = "select" /\ UNCHANGED <<hdr, ent>> /\ job = "none"
      /\ \A t \in Tables : seen[t].valid <=> isHeaderValid(t)
      /\ \A t \in Tables : isHeaderValid(t) => seen[t].id = hdr[t].id
  BY DEF selectTable, tab, IInv, JobInv, MountInv, RInv, PresentInv
<1>2. \A t \in Tables : isHeaderValid(t)' <=> isHeaderValid(t)
  BY <1>1, Framing
<1>4. CASE StartTable("format", 0, EmptyHdr)
  <2>1. job' = "format" /\ tgt' = 0 /\ want' = EmptyHdr /\ pc' = "erase0"
    BY <1>4 DEF StartTable
  <2>2. OrderInv'
    BY <1>1, <2>1, EmptyOrdered DEF RInv, OrderInv, Intact, Ordered
  <2>3. QED
    BY <2>1, <2>2 DEF RInv, NewTableInv, NewTable, TargetInv, PresentInv
<1>5. CASE /\ seen[0].valid /\ seen[1].valid
           /\ hcurr' = Newer(seen) /\ pc' = "partial" /\ UNCHANGED engine
  <2>1. UNCHANGED <<job, want>>
    BY <1>5 DEF engine
  <2>2. OrderInv'
    BY <1>1, <2>1 DEF RInv, OrderInv, Intact, Ordered
  <2>3. isHeaderValid(0) /\ isHeaderValid(1) /\ 0 \in Tables /\ 1 \in Tables
    BY <1>1, <1>5 DEF Tables
  <2>4. Recoverable = hdr[Newer(seen)].files
    BY <1>1, <2>3, Reading DEF PresentsValid, Presented, Newer, IInv
  <2>5. Recoverable' = hdr'[hcurr'].files
    BY <1>1, <1>5, <2>4, SamePresented DEF IInv
  <2>6. QED
    BY <1>1, <1>5, <2>1, <2>2, <2>5 DEF RInv, NewTableInv, NewTable, TargetInv, PresentInv
<1>6. ASSUME NEW bad \in Tables, ~seen[bad].valid, seen[1 - bad].valid,
             StartTable("fix", bad, hdr[1 - bad])
      PROVE  RInv'
  <2>1. job' = "fix" /\ tgt' = bad /\ want' = hdr[1 - bad] /\ pc' = "erase0"
    BY <1>6 DEF StartTable
  <2>2. 1 - bad \in Tables
    BY DEF Tables
  <2>3. Intact(1 - bad)
    BY <1>1, <1>6, <2>2 DEF isHeaderValid, HeaderOk, Intact
  <2>4. OrderInv'
    BY <1>1, <2>1, <2>2, <2>3 DEF RInv, OrderInv, Intact, Ordered
  <2>5. ~isHeaderValid(bad)'
    BY <1>1, <1>2, <1>6
  <2>6. PICK u \in Tables : u = tgt' /\ ~isHeaderValid(u)'
    BY <2>1, <2>5
  <2>7. QED
    BY <2>1, <2>4, <2>6 DEF RInv, NewTableInv, NewTable, TargetInv, PresentInv
<1>7. QED
  BY <1>4, <1>5, <1>6 DEF selectTable

\* Going on after a completed table while mounting.
LEMMA MountTableKeeps ==
  ASSUME IInv, IInv', RInv, TableDone
  PROVE  RInv'
<1>1. pc = "done" /\ UNCHANGED <<hdr, ent, hcurr>> /\ job \in {"fix", "format"}
  BY DEF TableDone, tab, ctx, IInv, JobInv, Writing
<1>2. Recoverable' = Recoverable
  BY <1>1, SamePresented DEF IInv
<1>3. CASE job = "fix"
  <2>1. pc' = "partial" /\ UNCHANGED <<job, tgt, want>>
    BY <1>3 DEF TableDone, engine
  <2>2. OrderInv'
    BY <1>1, <2>1 DEF RInv, OrderInv, Intact, Ordered
  <2>3. /\ tgt \in Tables /\ hcurr \in Tables /\ hcurr = 1 - tgt /\ 1 - hcurr = tgt
        /\ isHeaderValid(hcurr) /\ want = hdr[hcurr] /\ hdr[tgt] = want
    <3>1. /\ tgt \in Tables /\ hcurr \in Tables /\ hcurr = 1 - tgt
          /\ isHeaderValid(1 - tgt) /\ want = hdr[1 - tgt] /\ hdr[tgt] = want
      BY <1>1, <1>3 DEF IInv, TypeOK, MountInv, RInv, TargetInv
    <3>2. 1 - hcurr = tgt
      BY <3>1 DEF Tables
    <3>3. QED
      BY <3>1, <3>2
  <2>4. Recoverable = hdr[hcurr].files
    BY <2>3, Presenting DEF IInv, OnlyOk
  <2>5. QED
    BY <1>1, <1>2, <1>3, <2>1, <2>2, <2>4 DEF RInv, NewTableInv, NewTable, TargetInv, PresentInv
<1>4. CASE job = "format"
  <2>1. /\ \/ tgt' = 1 /\ pc' = "erase0"
           \/ tgt = 1 /\ tgt' = tgt /\ pc' = "fill"
        /\ job' = "format" /\ want' = EmptyHdr
    BY <1>1, <1>4 DEF TableDone, StartTable, engine, IInv, WipeInv
  <2>2. OrderInv'
    BY <1>1, <2>1, EmptyOrdered DEF RInv, OrderInv, Intact, Ordered
  <2>3. hcurr = 0 /\ hdr[0] = EmptyHdr /\ (tgt = 1 => hdr[1] = EmptyHdr)
    BY <1>1, <1>4 DEF IInv, WipeInv, RInv, TargetInv
  <2>4. CASE pc' = "erase0"
    BY <2>1, <2>2, <2>4 DEF RInv, NewTableInv, NewTable, TargetInv, PresentInv
  <2>5. CASE tgt = 1 /\ pc' = "fill"
    <3>1. isHeaderValid(0) /\ 0 \in Tables
      <4>1. pc' = "fill" /\ hcurr' = 0
        BY <1>1, <2>3, <2>5
      <4>2. PICK u \in Tables : u = 0 /\ u = hcurr' /\ isHeaderValid(u)'
        BY <4>1 DEF IInv, MountInv, Tables
      <4>3. QED
        BY <1>1, <4>2, Framing
    <3>2. Recoverable = hdr[0].files
      BY <2>3, <2>5, <3>1, Presenting DEF IInv, OnlyOk
    <3>3. QED
      BY <1>1, <1>2, <2>1, <2>2, <2>3, <2>5, <3>2 DEF RInv, NewTableInv, NewTable, TargetInv, PresentInv
  <2>6. QED
    BY <2>1, <2>4, <2>5
<1>5. QED
  BY <1>1, <1>3, <1>4

\* Erasing a sector of the table being written.
LEMMA EraseKeeps ==
  ASSUME IInv, RInv, EraseStep
  PROVE  RInv'
<1>1. /\ EraseCells(Blank) /\ pc \in {"erase0", "erase1"} /\ Writing
      /\ UNCHANGED <<job, fid, tgt, want>>
  BY DEF EraseStep, eraseFileTable, engine, Writing
<1>2. /\ hdr'[1 - tgt] = hdr[1 - tgt]
      /\ hdr'[tgt] = IF pc = "erase0" THEN Blank ELSE hdr[tgt]
      /\ hdr' \in [Tables -> HdrCell]
  BY <1>1, Erasing DEF IInv
<1>3. /\ job \in {"commit", "alloc", "chip", "fix", "format"} /\ tgt \in Tables
      /\ HeaderFirst <=> job = "fix"
  BY <1>1 DEF IInv, JobInv, TypeOK, HeaderFirst
<1>4. /\ pc = "erase0" => pc' = "erase1"
      /\ pc = "erase1" /\ job = "fix" => pc' = "hdr"
      /\ pc = "erase1" /\ job \in {"commit", "alloc"} => pc' \in {"ents", "hdr"}
      /\ pc = "erase1" /\ job = "format" => pc' \in {"ents", "hdr"}
      /\ job # "fix" => hcurr' = hcurr
      /\ pc' \in {"erase1", "ents", "hdr", "done"}
  BY <1>1, <1>3 DEF EraseStep, eraseFileTable, AfterErase, HeaderFirst
<1>5. \A t \in Tables : hdr'[t] \in {hdr[t], Blank}
  BY <1>2, <1>3 DEF Tables
<1>6. OrderInv'
  BY <1>1, <1>5 DEF RInv, OrderInv, Intact, Ordered
<1>7. TargetInv'
  BY <1>1, <1>2, <1>3, <1>4 DEF RInv, TargetInv
<1>8. NewTableInv'
  <2> SUFFICES ASSUME job \in {"commit", "alloc"} PROVE NewTableInv'
    BY <1>1 DEF NewTableInv, NewTable
  <2>1. hcurr = 1 - tgt /\ hcurr' = hcurr
    BY <1>3, <1>4 DEF IInv, ChangeInv, TypeOK, Tables
  <2>2. hdr'[hcurr'] = hdr[hcurr] /\ want' = want /\ job' = job
    BY <1>1, <1>2, <2>1
  <2>3. QED
    BY <2>2 DEF RInv, NewTableInv
<1>9. PresentInv'
  BY <1>4 DEF PresentInv
<1>10. QED
  BY <1>6, <1>7, <1>8, <1>9 DEF RInv

\* Writing a file header.
LEMMA EntryKeeps ==
  ASSUME IInv, RInv, WriteEnt
  PROVE  RInv'
<1>1. pc = "ents" /\ Writing /\ UNCHANGED <<hdr, hcurr, job, tgt, want>>
  BY DEF WriteEnt, ctx, Writing
<1>2. job \in {"commit", "alloc", "fix"}
  BY <1>1 DEF IInv, JobInv, WipeInv
<1>3. pc' = IF pos < Len(want.files) THEN "ents" ELSE IF job = "fix" THEN "done" ELSE "hdr"
  BY <1>2 DEF WriteEnt, AfterEnt, HeaderFirst
<1>4. OrderInv'
  BY <1>1 DEF RInv, OrderInv, Intact, Ordered
<1>5. TargetInv' /\ PresentInv'
  BY <1>1, <1>2, <1>3 DEF RInv, TargetInv, PresentInv
<1>6. NewTableInv'
  BY <1>1 DEF RInv, NewTableInv, NewTable, FT!Changed, FT!Extends
<1>7. QED
  BY <1>4, <1>5, <1>6 DEF RInv

\* Writing a table header.
LEMMA HeaderKeeps ==
  ASSUME IInv, RInv, WriteHdr
  PROVE  RInv'
<1>1. /\ pc = "hdr" /\ Writing /\ hdr' = [hdr EXCEPT ![tgt] = want]
      /\ UNCHANGED <<hcurr, job, tgt, want>>
  BY DEF WriteHdr, ctx, engine, Writing
<1>2. job \in {"commit", "alloc", "fix", "format"} /\ tgt \in Tables
  BY <1>1 DEF IInv, JobInv, WipeInv, TypeOK, Writing
<1>3. pc' = IF job = "fix" /\ want.files # <<>> THEN "ents" ELSE "done"
  BY <1>2 DEF WriteHdr, AfterHdr, HeaderFirst
<1>4. hdr'[1 - tgt] = hdr[1 - tgt] /\ hdr'[tgt] = want /\ \A t \in Tables : hdr'[t] \in {hdr[t], want}
  BY <1>1, <1>2 DEF IInv, TypeOK, Tables
<1>5. OrderInv'
  BY <1>1, <1>4 DEF RInv, OrderInv, Intact, Ordered
<1>6. TargetInv' /\ PresentInv'
  BY <1>1, <1>2, <1>3, <1>4 DEF IInv, WipeInv, RInv, TargetInv, PresentInv
<1>7. NewTableInv'
  <2> SUFFICES ASSUME job \in {"commit", "alloc"} PROVE NewTableInv'
    BY <1>1 DEF NewTableInv, NewTable
  <2>1. hcurr = 1 - tgt
    BY <1>2 DEF IInv, ChangeInv, TypeOK, Tables
  <2>2. hdr'[hcurr'] = hdr[hcurr] /\ want' = want /\ job' = job
    BY <1>1, <1>4, <2>1
  <2>3. QED
    BY <2>2 DEF RInv, NewTableInv
<1>8. QED
  BY <1>5, <1>6, <1>7 DEF RInv

\* The last file ends behind all others.
LEMMA LastEnds ==
  ASSUME NEW fs \in Seq(FileHdr), Ordered(fs), Len(fs) > 0
  PROVE  \A k \in 1..Len(fs) :
           fs[k].sector + fs[k].cnt <= fs[Len(fs)].sector + fs[Len(fs)].cnt
<1> DEFINE n == Len(fs)
<1>1. n \in Nat /\ n \in 1..n /\ \A k \in 1..n : fs[k].sector \in Nat /\ fs[k].cnt \in Nat
  <2>1. n \in Nat /\ n \in 1..n /\ \A k \in 1..n : fs[k] \in FileHdr
    OBVIOUS
  <2>2. QED
    BY <2>1 DEF FileHdr
<1>2. \A k \in 1..n : k < n => fs[k].sector + fs[k].cnt <= fs[n].sector
  BY <1>1 DEF Ordered
<1>3. QED
  BY <1>1, <1>2, SMTT(30)

\* Replacing an element of a sequence, element by element.
LEMMA ReplaceSeq ==
  ASSUME NEW S, NEW s \in Seq(S), NEW i \in 1..Len(s), NEW e,
         NEW f, f = [k \in 1..Len(s) |-> IF k = i THEN e ELSE s[k]]
  PROVE  f = [s EXCEPT ![i] = e]
OBVIOUS

\* The next uid of one file makes a changed file table.
LEMMA ChangedIs ==
  ASSUME NEW a, NEW i \in DOMAIN a, (a[i].uid + 1) % UidMod # UidMod - 1
  PROVE  [a EXCEPT ![i].uid = (@ + 1) % UidMod] \in FT!Changed(a)
BY Zenon DEF FT!Changed

\* A change of a file's header.
LEMMA ChangeKeeps ==
  ASSUME IInv, RInv, NEW k \in DOMAIN nodes, FileChange(k), pc' \in {"clear", "erase0"}
  PROVE  RInv'
<1> DEFINE h == hdr[hcurr]
<1>1. /\ Readable /\ job' = "commit" /\ UNCHANGED <<hdr, ent, hcurr>>
  BY DEF FileChange, tab, ctx
<1>2. /\ h.files \in Seq(FileHdr) /\ Len(h.files) = filecnt /\ Intact(hcurr) /\ hcurr \in Tables
      /\ \A i \in 1..filecnt : ent[hcurr][i].file = h.files[i] /\ h.files[i] \in FileHdr
  BY <1>1, Mounted, Zenon
<1>3. PICK p \in Positions(nodes[k].file.name) :
        /\ [ent[hcurr][p].file EXCEPT !.uid = NextUid(@)].uid # UidMod - 1
        /\ want' = [id    |-> h.id + 1,
                    fmt   |-> h.fmt,
                    files |-> [i \in 1..filecnt |->
                                 IF i = p THEN [ent[hcurr][p].file EXCEPT !.uid = NextUid(@)]
                                 ELSE ent[hcurr][i].file]]
  BY DEF FileChange
<1>4. p \in 1..filecnt /\ h.files[p] \in FileHdr
  BY <1>2, <1>3 DEF Positions
<1> DEFINE g == [h.files[p] EXCEPT !.uid = (@ + 1) % UidMod]
           fs == [h.files EXCEPT ![p] = g]
<1>5. want'.id = h.id + 1 /\ want'.files = fs /\ (h.files[p].uid + 1) % UidMod # UidMod - 1
  <2>1. ent[hcurr][p].file = h.files[p]
    BY <1>2, <1>4
  <2>2. [h.files[p] EXCEPT !.uid = NextUid(@)] = g /\ g.uid = (h.files[p].uid + 1) % UidMod
    BY <1>4 DEF NextUid, FileHdr
  <2>3. [i \in 1..filecnt |-> IF i = p THEN g ELSE ent[hcurr][i].file] = fs
    <3> DEFINE e == [i \in 1..Len(h.files) |-> IF i = p THEN g ELSE h.files[i]]
    <3>1. [i \in 1..filecnt |-> IF i = p THEN g ELSE ent[hcurr][i].file] = e
      BY <1>2
    <3> HIDE DEF g
    <3>2. e = fs
      BY <1>2, <1>4, ReplaceSeq
    <3>3. QED
      BY <3>1, <3>2
  <2>4. QED
    BY <1>3, <2>1, <2>2, <2>3
<1>6. fs \in FT!Changed(h.files)
  <2>1. p \in DOMAIN h.files
    BY <1>2, <1>4
  <2>2. QED
    BY <1>5, <2>1, ChangedIs
<1>7. Ordered(fs)
  <2>1. g.sector = h.files[p].sector /\ g.cnt = h.files[p].cnt
    BY <1>4 DEF FileHdr
  <2>2. /\ Len(fs) = Len(h.files)
        /\ \A i \in 1..Len(fs) : fs[i].sector = h.files[i].sector /\ fs[i].cnt = h.files[i].cnt
    BY <1>2, <1>4, <2>1
  <2>3. Ordered(h.files)
    BY <1>2 DEF RInv, OrderInv
  <2>4. QED
    BY <2>2, <2>3 DEF Ordered
<1>8. OrderInv'
  BY <1>1, <1>5, <1>7 DEF RInv, OrderInv, Intact, Ordered
<1>9. NewTableInv'
  <2>1. hdr'[hcurr'] = h /\ job' = "commit"
    BY <1>1
  <2> HIDE DEF h, fs
  <2>2. QED
    BY <1>5, <1>6, <2>1, Zenon DEF NewTableInv, NewTable
<1>10. QED
  BY <1>1, <1>8, <1>9 DEF RInv, TargetInv, PresentInv

\* An appended file makes an extended file table.
LEMMA ExtendsIs ==
  ASSUME NEW a \in Seq(FileHdr), NEW f \in FileHdr, f.uid = UidMod - 1,
         \A k \in 1..Len(a) : a[k].name # f.name /\ a[k].sector + a[k].cnt <= f.sector
  PROVE  FT!Extends(a, Append(a, f))
<1> DEFINE b == Append(a, f)
<1>1. Len(b) = Len(a) + 1 /\ b[Len(a) + 1] = f /\ SubSeq(b, 1, Len(a)) = a
  OBVIOUS
<1>2. f.name \in Names
  BY DEF FileHdr
<1>3. DOMAIN a = 1..Len(a)
  OBVIOUS
<1> HIDE DEF b
<1>4. FT!Extends(a, b)
  BY <1>1, <1>2, <1>3 DEF FT!Extends
<1>5. QED
  BY <1>4 DEF b

\* Appending a file behind all others keeps files in order.
LEMMA AppendOrdered ==
  ASSUME NEW a \in Seq(FileHdr), NEW f \in FileHdr, Ordered(a),
         \A k \in 1..Len(a) : a[k].sector + a[k].cnt <= f.sector
  PROVE  Ordered(Append(a, f))
<1> DEFINE b == Append(a, f)
<1>1. Len(b) = Len(a) + 1 /\ b[Len(a) + 1] = f /\ \A k \in 1..Len(a) : b[k] = a[k]
  BY AppendSeq
<1> HIDE DEF b
<1>2. ASSUME NEW i \in 1..Len(b), NEW j \in 1..Len(b), i < j
      PROVE  b[i].sector + b[i].cnt <= b[j].sector
  <2>1. Len(a) \in Nat /\ i \in 1..Len(a)
    BY <1>1, <1>2
  <2>2. CASE j \in 1..Len(a)
    BY <1>1, <1>2, <2>1, <2>2 DEF Ordered
  <2>3. CASE j = Len(a) + 1
    BY <1>1, <2>1, <2>3
  <2>4. QED
    BY <1>1, <2>1, <2>2, <2>3
<1>3. QED
  BY <1>2 DEF Ordered, b

\* The allocation of a file.
LEMMA AllocateKeeps ==
  ASSUME IInv, RInv, NEW name \in Names, NEW cnt \in SectorCnts, allocateFile(name, cnt)
  PROVE  RInv'
<1> DEFINE h == hdr[hcurr]
           f == [name |-> name, sector |-> NewSector, cnt |-> cnt, uid |-> UidMod - 1]
<1>1. /\ Readable /\ Positions(name) = {} /\ job' = "alloc" /\ pc' = "clear"
      /\ UNCHANGED <<hdr, ent, hcurr>>
      /\ want' = [id |-> h.id + 1, fmt |-> h.fmt,
                  files |-> Append([i \in 1..filecnt |-> ent[hcurr][i].file], f)]
  BY DEF allocateFile, tab, ctx
<1>2. /\ h.files \in Seq(FileHdr) /\ Len(h.files) = filecnt /\ Intact(hcurr) /\ hcurr \in Tables
      /\ \A i \in 1..filecnt : ent[hcurr][i].file = h.files[i] /\ h.files[i] \in FileHdr
  BY <1>1, Mounted, Zenon
<1>3. Ordered(h.files)
  BY <1>2 DEF RInv, OrderInv
<1>4. [i \in 1..filecnt |-> ent[hcurr][i].file] = h.files
  <2> DEFINE e == [i \in 1..Len(h.files) |-> ent[hcurr][i].file]
  <2>1. e = [i \in 1..Len(h.files) |-> e[i]] /\ \A i \in 1..Len(h.files) : e[i] = h.files[i]
    BY <1>2
  <2>2. e = h.files
    BY <1>2, <2>1, SameSeq
  <2>3. QED
    BY <1>2, <2>2
<1>5. /\ NewSector \in Nat
      /\ \A k \in 1..Len(h.files) : h.files[k].sector + h.files[k].cnt <= NewSector
  <2>1. CASE filecnt = 0
    BY <1>2, <2>1 DEF NewSector, FirstDataSector
  <2>2. CASE filecnt # 0
    <3>1. filecnt \in 1..filecnt /\ Len(h.files) > 0
      BY <1>2, <2>2
    <3>2. NewSector = h.files[filecnt].sector + h.files[filecnt].cnt
      BY <1>2, <2>2, <3>1 DEF NewSector
    <3>3. h.files[filecnt] \in FileHdr
      BY <1>2, <3>1
    <3>4. NewSector \in Nat
      BY <3>2, <3>3 DEF FileHdr
    <3>5. QED
      BY <1>2, <1>3, <3>1, <3>2, <3>4, LastEnds
  <2>3. QED
    BY <2>1, <2>2
<1>6. f \in FileHdr /\ f.uid = UidMod - 1 /\ f.sector = NewSector
  BY <1>5, ConstantsAssumption DEF FileHdr
<1>7. \A k \in 1..Len(h.files) : h.files[k].name # f.name
  BY <1>1, <1>2 DEF Positions
<1> HIDE DEF f
<1>8. /\ want'.id = h.id + 1 /\ want'.files = Append(h.files, f)
  BY <1>1, <1>4
<1>9. FT!Extends(h.files, want'.files)
  BY <1>2, <1>5, <1>6, <1>7, <1>8, ExtendsIs
<1>10. Ordered(want'.files)
  BY <1>2, <1>3, <1>5, <1>6, <1>8, AppendOrdered
<1>11. OrderInv'
  BY <1>1, <1>10 DEF RInv, OrderInv, Intact, Ordered
<1>12. NewTableInv'
  <2>1. hdr'[hcurr'] = h /\ job' = "alloc"
    BY <1>1
  <2> HIDE DEF h
  <2>2. QED
    BY <1>8, <1>9, <2>1, Zenon DEF NewTableInv, NewTable
<1>13. QED
  BY <1>1, <1>11, <1>12 DEF RInv, TargetInv, PresentInv

\* A step that clears content, starts a chip erase or finishes a partial erase.
LEMMA WaitKeeps ==
  ASSUME IInv, IInv', RInv,
         clearContent \/ chiperase \/ finishPartialErase \/ finishChiperase
  PROVE  RInv'
<1>1. UNCHANGED <<hdr, ent>> /\ \A t \in Tables : hdr'[t] = hdr[t]
  BY DEF clearContent, chiperase, finishPartialErase, finishChiperase, tab
<1>2. CASE Rest /\ pc' \in {"idle", "off", "check"}
  BY <1>1, <1>2, RestKeeps
<1>3. CASE job' = "chip" /\ want' = EmptyHdr /\ pc' = "erase0"
  <2>1. OrderInv'
    BY <1>1, <1>3, EmptyOrdered DEF RInv, OrderInv, Intact, Ordered
  <2>2. QED
    BY <1>3, <2>1 DEF RInv, NewTableInv, NewTable, TargetInv, PresentInv
<1>4. CASE pc = "clear" /\ pc' = "erase0" /\ UNCHANGED <<ctx, engine>>
  <2>1. UNCHANGED <<hcurr, job, tgt, want>> /\ job \in {"commit", "alloc"}
    BY <1>4 DEF ctx, engine, IInv, JobInv
  <2>2. OrderInv'
    BY <1>1, <2>1 DEF RInv, OrderInv, Intact, Ordered
  <2>3. NewTableInv'
    BY <1>1, <2>1 DEF RInv, NewTableInv
  <2>4. QED
    BY <1>4, <2>1, <2>2, <2>3 DEF RInv, TargetInv, PresentInv
<1>5. CASE pc = "partial" /\ pc' = "fill" /\ UNCHANGED <<ctx, engine>>
  <2>1. UNCHANGED <<hcurr, job, tgt, want>> /\ job \in {"none", "fix"}
    BY <1>5 DEF ctx, engine, IInv, JobInv
  <2>2. OrderInv'
    BY <1>1, <2>1 DEF RInv, OrderInv, Intact, Ordered
  <2>3. Recoverable' = hdr'[hcurr'].files
    BY <1>1, <1>5, <2>1, SamePresented DEF IInv, RInv, PresentInv
  <2>4. QED
    BY <1>5, <2>1, <2>2, <2>3 DEF RInv, NewTableInv, NewTable, TargetInv, PresentInv
<1>6. QED
  BY <1>2, <1>3, <1>4, <1>5
     DEF clearContent, chiperase, finishPartialErase, finishChiperase, Abort, StartTable

\* A step that fails or is cut short.
LEMMA StopKeeps ==
  ASSUME IInv, RInv, FlashError \/ PowerCut
  PROVE  RInv'
<1>1. Interrupted /\ Rest /\ pc' \in {"idle", "off"}
  <2>1. CASE FlashError
    <3>1. job \notin {"migrate", "junk", "copy"}
      BY <2>1 DEF FlashError, IInv, JobInv, Writing
    <3>2. QED
      BY <2>1, <3>1 DEF FlashError, Abort
  <2>2. CASE PowerCut
    BY <2>2 DEF PowerCut
  <2>3. QED
    BY <2>1, <2>2
<1>2. /\ hdr'[1 - tgt] = hdr[1 - tgt] /\ hdr'[tgt] \in {hdr[tgt], Blank, Torn, want}
  BY <1>1, Interrupting DEF IInv, FormatInv, ChangeInv, WipeInv, MountInv, JobInv, Writing,
     TypeOK, tab
<1>3. \A t \in Tables : hdr'[t] \in {hdr[t], Blank, Torn, want}
  BY <1>2 DEF IInv, TypeOK, Tables
<1>4. QED
  BY <1>1, <1>3, RestKeeps

-----------------------------------------------------------------------------
(* The theorems                                                            *)

\* RInv holds in every reachable state of a partition formatted by this release.
THEOREM RInvariance == Spec => [](IInv /\ RInv)
<1>1. Init => RInv
  <2> SUFFICES ASSUME Init PROVE RInv
    OBVIOUS
  <2>1. want = EmptyHdr /\ pc = "off" /\ job = "none" /\ \A t \in Tables : ~Intact(t)
    BY DEF Init, InitMemory, Intact
  <2>2. QED
    BY <2>1, EmptyOrdered DEF RInv, OrderInv, NewTableInv, NewTable, TargetInv, PresentInv
<1>2. IInv /\ IInv' /\ RInv /\ [Next]_vars => RInv'
  <2> SUFFICES ASSUME IInv, IInv', RInv, [Next]_vars PROVE RInv'
    OBVIOUS
  <2>1. CASE UNCHANGED vars
    <3>1. UNCHANGED <<hdr, ent, hcurr, pc, job, tgt, want, seen>>
      BY <2>1 DEF vars, tab, ctx, engine
    <3>2. OrderInv'
      BY <3>1 DEF RInv, OrderInv, Intact, Ordered
    <3>3. NewTableInv'
      BY <3>1 DEF RInv, NewTableInv, NewTable, FT!Changed, FT!Extends
    <3>4. \A t \in Tables : isHeaderValid(t)' <=> isHeaderValid(t)
      BY <3>1, Framing
    <3>5. PICK u \in Tables : u = tgt /\ u = tgt' /\ (isHeaderValid(u)' <=> isHeaderValid(u))
      BY <3>1, <3>4 DEF IInv, TypeOK
    <3>6. TargetInv'
      BY <3>1, <3>5 DEF RInv, TargetInv
    <3>7. PresentInv'
      BY <3>1, <3>4, SamePresented DEF IInv, RInv, PresentInv
    <3>8. QED
      BY <3>2, <3>3, <3>6, <3>7 DEF RInv
  <2>2. CASE init
    <3>1. UNCHANGED <<hdr, ent, job, want>> /\ job = "none" /\ pc' = "check"
      BY <2>2 DEF init, tab, engine, IInv, JobInv
    <3>2. QED
      BY <3>1, IdleKeeps
  <2>3. CASE checkHeaders \/ selectTable \/ TableDone
    BY <2>3, CheckKeeps, SelectKeeps, MountTableKeeps
  <2>4. CASE rbTreeFill \/ commitFileChange \/ addFile
    <3>1. Rest /\ pc' = "idle" /\ \A t \in Tables : hdr'[t] = hdr[t]
      BY <2>4 DEF rbTreeFill, commitFileChange, addFile, tab
    <3>2. QED
      BY <3>1, RestKeeps
  <2>5. CASE EraseStep \/ WriteEnt \/ WriteHdr
    BY <2>5, EraseKeeps, EntryKeeps, HeaderKeeps
  <2>6. CASE WriteJunk
    BY <2>6 DEF WriteJunk, IInv, JobInv
  <2>7. CASE clearContent \/ chiperase \/ finishPartialErase \/ finishChiperase
    BY <2>7, WaitKeeps
  <2>8. ASSUME NEW k \in DOMAIN nodes, updateFileInfo(k) \/ resetFile(k)
        PROVE  RInv'
    BY <2>8, ChangeKeeps DEF updateFileInfo, resetFile
  <2>9. ASSUME NEW name \in Names, NEW cnt \in SectorCnts, allocateFile(name, cnt)
        PROVE  RInv'
    BY <2>9, AllocateKeeps
  <2>10. CASE FlashError \/ PowerCut
    BY <2>10, StopKeeps
  <2>11. QED
    BY <2>1, <2>2, <2>3, <2>4, <2>5, <2>6, <2>7, <2>8, <2>9, <2>10
       DEF Next, Server, Mounting, Requests
<1>3. QED
  BY <1>1, <1>2, Invariance, PTL DEF Spec

\* A step of the engine that writes a table, completed or not: a mount would present the
\* same files, the acknowledged ones, or those of the change being written.
LEMMA TableStep ==
  ASSUME IInv, IInv', RInv, ~wiping, pc \in {"erase0", "erase1", "ents", "hdr"},
         hdr'[1 - tgt] = hdr[1 - tgt], ent'[1 - tgt] = ent[1 - tgt],
         pc = "erase0" => hdr'[tgt] \in {Blank, Torn},
         pc \in {"erase1", "ents"} => hdr'[tgt] = hdr[tgt],
         pc = "hdr" => hdr'[tgt] \in {hdr[tgt], Torn, want}
  PROVE  \/ Recoverable' \in {Recoverable, acked}
         \/ Recoverable' \in FT!Changed(acked) \/ FT!Extends(acked, Recoverable')
<1>1. job \in {"commit", "alloc", "fix"} /\ tgt \in Tables
  BY DEF IInv, JobInv, Writing, WipeInv, TypeOK
<1>2. PICK v \in Tables, u \in Tables : v = tgt /\ u = 1 - tgt /\ v = 1 - u
  BY <1>1 DEF Tables
<1>3. /\ NewerOk' /\ OnlyOk' /\ OnlyOk
  BY Presenting, PresentingNext DEF IInv
<1>4. isHeaderValid(u) /\ hdr'[u] = hdr[u]
  <2>1. CASE job = "fix"
    BY <1>2, <2>1 DEF IInv, MountInv
  <2>2. CASE job \in {"commit", "alloc"}
    <3>1. hcurr = u /\ Serving /\ Intact(hcurr)
      <4>1. tgt = 1 - hcurr /\ Serving /\ Intact(hcurr)
        BY <2>2 DEF IInv, ChangeInv
      <4>2. hcurr \in {0, 1}
        BY DEF IInv, TypeOK, Tables
      <4>3. QED  BY <1>2, <4>1, <4>2
    <3>2. isHeaderValid(hcurr)
      BY <3>1 DEF IInv, ServingInv
    <3>3. QED
      BY <1>2, <3>1, <3>2
  <2>3. QED
    BY <1>1, <2>1, <2>2
<1>5. isHeaderValid(u)'
  BY <1>2, <1>4, Framing
<1>6. ASSUME ~isHeaderValid(v)' \/ hdr'[v].files = hdr[u].files
      PROVE  Recoverable' = hdr[u].files
  BY <1>2, <1>3, <1>4, <1>5, <1>6 DEF OnlyOk
<1>7. ASSUME hdr'[tgt] \in {Blank, Torn}
      PROVE  ~isHeaderValid(v)'
  BY <1>2, <1>7 DEF isHeaderValid, HeaderOk
<1>8. CASE job = "fix"
  <2>1. want = hdr[u]
    BY <1>2, <1>8 DEF IInv, MountInv
  <2>2. ~isHeaderValid(tgt) \/ hdr[tgt].files = hdr[u].files
    <3>1. ~isHeaderValid(tgt) \/ hdr[tgt] = Blank \/ hdr[tgt] = want
      BY <1>8 DEF RInv, TargetInv
    <3>2. QED
      BY <2>1, <3>1 DEF isHeaderValid, HeaderOk
  <2>3. Recoverable = hdr[u].files
    BY <1>2, <1>3, <1>4, <2>2 DEF OnlyOk
  <2>4. hdr'[tgt] \in {Blank, Torn, want}
    BY <1>8 DEF RInv, TargetInv
  <2>5. QED
    BY <1>2, <1>6, <1>7, <2>1, <2>3, <2>4
<1>9. CASE job \in {"commit", "alloc"}
  <2>1. hcurr = u /\ Serving
    <3>1. tgt = 1 - hcurr /\ Serving
      BY <1>9 DEF IInv, ChangeInv
    <3>2. hcurr \in {0, 1}
      BY DEF IInv, TypeOK, Tables
    <3>3. QED  BY <1>2, <3>1, <3>2
  <2>2. hdr[u].files = acked
    BY <2>1 DEF IInv, ServingInv
  <2>3. /\ want.id = hdr[u].id + 1
        /\ want.files \in FT!Changed(acked) \/ FT!Extends(acked, want.files)
    BY <1>9, <2>1, <2>2 DEF RInv, NewTableInv, NewTable
  <2>4. hdr'[tgt] \in {Blank, Torn, want}
    BY <1>9 DEF RInv, TargetInv
  <2>5. CASE ~isHeaderValid(v)'
    BY <1>6, <2>2, <2>5
  <2>6. CASE isHeaderValid(v)'
    <3>1. hdr'[tgt] = want
      BY <1>7, <2>4, <2>6
    <3>2. Recoverable' = want.files
      <4>1. isHeaderValid(1 - u)'
        BY <1>2, <2>6
      <4>2. hdr'[1 - u].id = hdr'[u].id + 1
        BY <1>2, <1>4, <2>3, <3>1
      <4>3. QED
        BY <1>2, <1>3, <1>5, <3>1, <4>1, <4>2 DEF NewerOk
    <3>3. QED
      BY <2>3, <3>2
  <2>7. QED
    BY <2>5, <2>6
<1>10. QED
  BY <1>1, <1>8, <1>9

\* A completed change: a mount would present the table just written.
LEMMA WrittenPresented ==
  ASSUME IInv, RInv, pc = "done", job \in {"commit", "alloc"}
  PROVE  Recoverable = want.files
<1>1. /\ hcurr \in Tables /\ tgt = 1 - hcurr /\ Serving /\ Intact(hcurr)
      /\ want.id = hdr[hcurr].id + 1
  BY DEF IInv, TypeOK, ChangeInv, RInv, NewTableInv, NewTable
<1>2. isHeaderValid(hcurr)
  BY <1>1 DEF IInv, ServingInv
<1>3. hdr[tgt] = want /\ isHeaderValid(tgt)
  BY Written, Zenon
<1>4. isHeaderValid(1 - hcurr)
  BY <1>1, <1>3
<1>5. QED
  BY <1>1, <1>2, <1>3, <1>4, Presenting DEF IInv, NewerOk

\* A mount that comes to its end serves the table it found.
LEMMA FillPresented ==
  ASSUME IInv, RInv, rbTreeFill
  PROVE  acked' = Recoverable
<1>1. /\ Recoverable = hdr[hcurr].files /\ isHeaderValid(hcurr) /\ hcurr \in Tables
      /\ filecnt = Len(hdr[hcurr].files)
      /\ acked' = [k \in 1..filecnt |-> ent[hcurr][k].file]
  BY DEF rbTreeFill, IInv, TypeOK, MountInv, RInv, PresentInv
<1>2. /\ hdr[hcurr].files \in Seq(FileHdr)
      /\ \A k \in 1..Len(hdr[hcurr].files) : ent[hcurr][k].file = hdr[hcurr].files[k]
  BY <1>1, ValidTable DEF IInv, Header
<1> DEFINE fs == hdr[hcurr].files
           e == [k \in 1..Len(fs) |-> ent[hcurr][k].file]
<1>3. e = [k \in 1..Len(fs) |-> e[k]] /\ \A k \in 1..Len(fs) : e[k] = fs[k]
  BY <1>2
<1>4. e = fs
  BY <1>2, <1>3, SameSeq
<1>5. QED
  BY <1>1, <1>4

\* The steps that acknowledge a table; every other one that ends on an unwiped partition
\* leaves the acknowledged table alone.
Acknowledges == acked' = Recoverable /\ ~wiping' /\ UNCHANGED <<hdr, ent>>

LEMMA AcknowledgesOrNot ==
  ASSUME IInv, RInv, Next, ~wiping'
  PROVE  Acknowledges \/ (~wiping /\ UNCHANGED <<acked, wiping>>)
<1>1. CASE rbTreeFill
  BY <1>1, FillPresented DEF rbTreeFill, Acknowledges, tab
<1>2. CASE commitFileChange
  <2>1. acked' = want.files /\ UNCHANGED <<hdr, ent>> /\ pc = "done" /\ job \in {"commit", "alloc"}
    BY <1>2 DEF commitFileChange, tab
  <2>2. QED
    BY <2>1, WrittenPresented DEF Acknowledges
<1>3. CASE addFile
  <2>1. /\ UNCHANGED <<hdr, ent>> /\ pc = "done" /\ job \in {"commit", "alloc"}
        /\ acked' = want.files \/ UNCHANGED <<acked, wiping>>
    BY <1>3 DEF addFile, tab, history
  <2>2. QED
    BY <2>1, WrittenPresented DEF Acknowledges
<1>4. CASE chiperase
  BY <1>4 DEF chiperase
<1>5. CASE \/ init \/ checkHeaders \/ selectTable \/ TableDone \/ finishPartialErase
           \/ EraseStep \/ WriteEnt \/ WriteHdr \/ WriteJunk \/ clearContent \/ finishChiperase
           \/ FlashError \/ PowerCut
           \/ \E k \in DOMAIN nodes : updateFileInfo(k) \/ resetFile(k)
           \/ \E name \in Names, cnt \in SectorCnts : allocateFile(name, cnt)
  <2>1. UNCHANGED <<acked, wiping>>
    BY <1>5 DEF init, checkHeaders, selectTable, TableDone, finishPartialErase, EraseStep, WriteEnt,
       WriteHdr, WriteJunk, clearContent, finishChiperase, FlashError, PowerCut, updateFileInfo,
       resetFile, FileChange, allocateFile, history
  <2>2. QED
    BY <2>1
<1>6. QED
  BY <1>1, <1>2, <1>3, <1>4, <1>5 DEF Next, Server, Mounting, Requests

\* Every other step leaves the tables alone or is a step, completed or not, of the engine
\* that writes one.
LEMMA TablesOrEngine ==
  ASSUME IInv, RInv, Next, ~UNCHANGED <<hdr, ent>>
  PROVE  /\ pc \in {"erase0", "erase1", "ents", "hdr"}
         /\ hdr'[1 - tgt] = hdr[1 - tgt] /\ ent'[1 - tgt] = ent[1 - tgt]
         /\ pc = "erase0" => hdr'[tgt] \in {Blank, Torn}
         /\ pc \in {"erase1", "ents"} => hdr'[tgt] = hdr[tgt]
         /\ pc = "hdr" => hdr'[tgt] \in {hdr[tgt], Torn, want}
<1>1. CASE EraseStep
  BY <1>1, Erasing DEF EraseStep, eraseFileTable, IInv
<1>2. CASE WriteEnt
  BY <1>2 DEF WriteEnt, IInv, TypeOK, Tables
<1>3. CASE WriteHdr
  BY <1>3 DEF WriteHdr, IInv, TypeOK, Tables
<1>4. CASE FlashError \/ PowerCut
  <2>1. Interrupted
    BY <1>4 DEF FlashError, PowerCut
  <2>2. (pc = "ents" => pos \in 1..Len(want.files)) /\ Len(want.files) <= MaxFileCnt
    BY DEF IInv, FormatInv, ChangeInv, WipeInv, MountInv, JobInv, Writing
  <2>3. QED
    BY <2>1, <2>2, Interrupting DEF IInv, Writing, tab, TypeOK
<1>5. CASE WriteJunk
  BY <1>5 DEF WriteJunk, IInv, JobInv
<1>6. CASE \/ init \/ checkHeaders \/ selectTable \/ TableDone \/ finishPartialErase \/ rbTreeFill
           \/ clearContent \/ finishChiperase \/ commitFileChange \/ addFile \/ chiperase
           \/ \E k \in DOMAIN nodes : updateFileInfo(k) \/ resetFile(k)
           \/ \E name \in Names, cnt \in SectorCnts : allocateFile(name, cnt)
  BY <1>6 DEF init, checkHeaders, selectTable, TableDone, finishPartialErase, rbTreeFill,
     clearContent, finishChiperase, commitFileChange, addFile, chiperase, updateFileInfo, resetFile,
     FileChange, allocateFile, tab
<1>7. QED
  BY <1>1, <1>2, <1>3, <1>4, <1>5, <1>6 DEF Next, Server, Mounting, Requests

\* Each step of the file table is a step of FileTable or leaves its variables alone.
LEMMA Simulation ==
  ASSUME IInv, IInv', RInv, [Next]_vars
  PROVE  FT!Next \/ UNCHANGED <<Recoverable, acked, wiping \/ spoilt>>
<1>1. ~spoilt /\ ~spoilt'
  BY DEF IInv, FormatInv
<1>2. wiping \in BOOLEAN /\ wiping' \in BOOLEAN /\ spoilt \in BOOLEAN /\ spoilt' \in BOOLEAN
  BY DEF IInv, TypeOK
<1>3. CASE UNCHANGED vars
  <2>1. UNCHANGED <<hdr, ent, acked, wiping, spoilt>>
    BY <1>3 DEF vars, tab, history
  <2>2. Recoverable' = Recoverable
    BY <2>1, SamePresented DEF IInv
  <2>3. QED
    BY <2>1, <2>2
<1>4. CASE wiping'
  <2>1. (wiping' \/ spoilt') = TRUE
    BY <1>2, <1>4
  <2>2. QED
    BY <2>1 DEF FT!Next, FT!Wipe
<1>5. CASE Next /\ ~wiping'
  <2>1. (wiping' \/ spoilt') = FALSE
    BY <1>1, <1>2, <1>5
  <2>2. CASE Acknowledges
    <3>1. acked' = Recoverable /\ Recoverable' = Recoverable
      BY <2>2, SamePresented DEF Acknowledges, IInv
    <3>2. QED
      BY <2>1, <3>1 DEF FT!Next, FT!Adopt
  <2>3. CASE ~wiping /\ UNCHANGED <<acked, wiping>>
    <3>1. (wiping' \/ spoilt') = (wiping \/ spoilt) /\ ~(wiping \/ spoilt)
      BY <1>1, <1>2, <2>3
    <3>2. CASE Recoverable' = Recoverable
      BY <2>3, <3>1, <3>2
    <3>3. CASE Recoverable' = acked
      BY <2>3, <3>1, <3>3 DEF FT!Next, FT!Undo
    <3>4. CASE Recoverable' \in FT!Changed(acked) \/ FT!Extends(acked, Recoverable')
      BY <2>3, <3>1, <3>4 DEF FT!Next, FT!Commit
    <3>5. CASE UNCHANGED <<hdr, ent>>
      BY <3>2, <3>5, SamePresented DEF IInv
    <3>6. CASE ~UNCHANGED <<hdr, ent>>
      <4>1. \/ Recoverable' \in {Recoverable, acked}
            \/ Recoverable' \in FT!Changed(acked) \/ FT!Extends(acked, Recoverable')
        BY <1>5, <2>3, <3>6, TablesOrEngine, TableStep
      <4>2. QED
        BY <3>2, <3>3, <3>4, <4>1
    <3>7. QED
      BY <3>5, <3>6
  <2>4. QED
    BY <1>5, <2>2, <2>3, AcknowledgesOrNot
<1>6. QED
  BY <1>2, <1>3, <1>4, <1>5

\* The file table on flash implements FileTable through every sequence of requests, flash
\* errors, power cuts and mounts: a change takes effect in one step, the write of a table
\* header, and neither a power cut nor a repair changes what a mount would present.
THEOREM Refinement == Spec => ImplementsFileTable
<1>1. Init => FT!Init
  <2> SUFFICES ASSUME Init PROVE FT!Init
    OBVIOUS
  <2>1. wiping = TRUE
    BY DEF Init
  <2>2. QED
    BY <2>1, Zenon DEF FT!Init
<1>2. IInv /\ IInv' /\ RInv /\ [Next]_vars
        => [FT!Next]_<<Recoverable, acked, wiping \/ spoilt>>
  BY Simulation
<1>3. QED
  BY <1>1, <1>2, RInvariance, PTL DEF Spec, ImplementsFileTable, FT!Spec

=============================================================================
