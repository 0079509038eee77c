------------------------- MODULE MeterfsTableProofs -------------------------
(***************************************************************************)
(* The file table of a partition formatted by this release, for every      *)
(* number of files, attempts, sector sizes and id and uid widths: types,   *)
(* a recoverable copy at every step, no formatting of a table in use, and  *)
(* the served table is the acknowledged one.                               *)
(***************************************************************************)
EXTENDS MeterfsTableMount

-----------------------------------------------------------------------------
(* Each request keeps the invariant                                        *)

\* What a request finds on a mounted partition that is readable.
LEMMA Mounted ==
  ASSUME IInv, Readable
  PROVE  /\ hcurr \in Tables /\ Serving /\ alive /\ job = "none" /\ Intact(hcurr)
         /\ isHeaderValid(hcurr) /\ hdr[hcurr] \in Header /\ hdr[hcurr].fmt = "v1"
         /\ hdr[hcurr].files \in Seq(FileHdr) /\ Len(hdr[hcurr].files) = filecnt
         /\ filecnt \in 0..MaxFileCnt /\ Unique(hdr[hcurr].files)
         /\ nodes \in Seq(Entry) /\ Len(nodes) = filecnt
         /\ \A k \in 1..filecnt :
              /\ ent[hcurr][k].file = hdr[hcurr].files[k] /\ hdr[hcurr].files[k] \in FileHdr
              /\ nodes[k].file.name = hdr[hcurr].files[k].name
<1>1. pc = "idle" /\ Intact(hcurr) /\ hcurr \in Tables /\ Serving
  BY DEF Readable, Intact, IInv, TypeOK, Serving
<1>2. /\ isHeaderValid(hcurr) /\ alive /\ Len(nodes) = filecnt /\ Len(hdr[hcurr].files) = filecnt
      /\ \A k \in 1..filecnt : nodes[k].file.name = hdr[hcurr].files[k].name
  BY <1>1 DEF IInv, ServingInv
<1>3. /\ hdr[hcurr] \in Header
      /\ \A k \in 1..filecnt : ent[hcurr][k].file = hdr[hcurr].files[k]
  BY <1>1, <1>2, ValidTable DEF IInv
<1>4. hdr[hcurr].files \in Seq(FileHdr)
  BY <1>3 DEF Header
<1>5. job = "none" /\ hdr[hcurr].fmt = "v1" /\ Unique(hdr[hcurr].files) /\ nodes \in Seq(Entry)
      /\ filecnt \in 0..MaxFileCnt
  BY <1>1 DEF IInv, JobInv, FormatInv, TypeOK
<1>6. \A k \in 1..filecnt : hdr[hcurr].files[k] \in FileHdr
  BY <1>2, <1>4
<1>7. QED
  BY <1>1, <1>2, <1>3, <1>4, <1>5, <1>6

\* A request starts to write a changed table.
LEMMA Request ==
  ASSUME IInv, Readable, want' \in Header, want'.fmt = "v1", Len(want'.files) <= MaxFileCnt,
         Unique(want'.files), job' \in {"commit", "alloc"}, fid' \in 0..MaxFileCnt,
         tgt' = headerNew, pos' = 1, pc' \in {"clear", "erase0"},
         UNCHANGED <<tab, ctx, seen, tries, history>>,
         job' = "commit" =>
           /\ fid' \in 1..filecnt /\ Len(want'.files) = filecnt
           /\ \A k \in 1..filecnt :
                /\ want'.files[k].name = hdr[hcurr].files[k].name
                /\ k # fid' => want'.files[k] = hdr[hcurr].files[k],
         job' = "alloc" =>
           /\ fid' = filecnt + 1 /\ Len(want'.files) = filecnt + 1
           /\ \A k \in 1..filecnt : want'.files[k] = hdr[hcurr].files[k]
  PROVE  IInv'
<1>1. UNCHANGED <<hdr, ent, hcurr, filecnt, nodes, unread, alive, seen, tries, acked, wiping, spoilt>>
  BY DEF tab, ctx, history
<1>2. Frame
  BY <1>1 DEF Frame
<1>3. tgt' \in Tables /\ tgt' = 1 - hcurr
  <2>1. hcurr \in Tables /\ tgt' = headerNew
    BY Mounted
  <2>2. QED
    BY <2>1 DEF headerNew, Tables
<1>4. TypeOK'
  BY <1>1, <1>3 DEF IInv, TypeOK
<1>5. FormatInv'
  BY <1>1, <1>2, Framed DEF IInv, FormatInv, Unique
<1>6. JobInv' /\ WipeInv' /\ MountInv'
  BY DEF JobInv, WipeInv, MountInv, Writing
<1>7. PICK u \in Tables : u = hcurr /\ u = hcurr' /\ (isHeaderValid(u)' <=> isHeaderValid(u))
                          /\ (Intact(u)' <=> Intact(u)) /\ Intact(u)
  BY <1>1, <1>2, Framed, Mounted
<1>8. ServingInv'
  BY <1>1, <1>7, Mounted DEF IInv, ServingInv
<1>9. ChangeInv'
  BY <1>1, <1>3, <1>7 DEF ChangeInv, Serving, Writing
<1>10. QED
  BY <1>2, <1>4, <1>5, <1>6, <1>8, <1>9, Framed DEF IInv

\* A request that changes a file header keeps the invariant.
LEMMA ChangeFile ==
  ASSUME IInv, NEW k \in DOMAIN nodes, FileChange(k), pc' \in {"clear", "erase0"}
  PROVE  IInv'
<1> DEFINE h == hdr[hcurr]
<1>1. Readable /\ h.id + 1 < IdMod
  BY DEF FileChange
<1>2. /\ job' = "commit" /\ fid' = k /\ tgt' = headerNew /\ pos' = 1
      /\ UNCHANGED <<tab, ctx, seen, tries, history>>
  BY DEF FileChange
<1>m. /\ hdr[hcurr] \in Header /\ hdr[hcurr].fmt = "v1" /\ Unique(hdr[hcurr].files)
      /\ hdr[hcurr].files \in Seq(FileHdr) /\ Len(hdr[hcurr].files) = filecnt
      /\ nodes \in Seq(Entry) /\ Len(nodes) = filecnt /\ filecnt \in 0..MaxFileCnt
      /\ \A i \in 1..filecnt :
           /\ ent[hcurr][i].file = hdr[hcurr].files[i] /\ hdr[hcurr].files[i] \in FileHdr
           /\ nodes[i].file.name = hdr[hcurr].files[i].name
  BY <1>1, Mounted, Zenon
<1>3. k \in 1..filecnt
  BY <1>m
<1>4. PICK p \in Positions(nodes[k].file.name) :
        want' = [id    |-> h.id + 1,
                 fmt   |-> h.fmt,
                 files |-> [i \in 1..filecnt |->
                              IF i = p THEN [ent[hcurr][p].file EXCEPT !.uid = NextUid(@)]
                              ELSE ent[hcurr][i].file]]
  BY DEF FileChange
<1>5. p \in 1..filecnt /\ h.files[p].name = h.files[k].name
  BY <1>1, <1>3, <1>4, <1>m DEF Positions
<1>6. p = k
  BY <1>1, <1>3, <1>5, <1>m DEF Unique
<1> DEFINE g == [h.files[k] EXCEPT !.uid = NextUid(@)]
<1>7. h.files[k] \in FileHdr
  BY <1>1, <1>3, <1>m
<1>8. g \in FileHdr /\ g.name = h.files[k].name
  <2>1. NextUid(h.files[k].uid) \in 0..(UidMod - 1)
    BY <1>7, ConstantsAssumption DEF FileHdr, NextUid
  <2>2. QED
    BY <1>7, <2>1 DEF FileHdr
<1> DEFINE fs == [i \in 1..filecnt |-> IF i = k THEN g ELSE h.files[i]]
<1>9. want' = [id |-> h.id + 1, fmt |-> h.fmt, files |-> fs]
  BY <1>1, <1>3, <1>4, <1>6, <1>m
<1>10. fs \in Seq(FileHdr) /\ Len(fs) = filecnt
  <2>1. filecnt \in Nat /\ fs = [i \in 1..filecnt |-> fs[i]] /\ \A i \in 1..filecnt : fs[i] \in FileHdr
    BY <1>8, <1>m, ConstantsAssumption
  <2>2. QED
    BY <2>1, FunctionSeq
<1>11. \A i \in 1..filecnt : fs[i].name = h.files[i].name /\ (i # k => fs[i] = h.files[i])
  BY <1>8
<1>12. Unique(fs)
  BY <1>1, <1>10, <1>11, <1>m DEF Unique
<1>13. want' \in Header /\ want'.fmt = "v1" /\ want'.files = fs
  <2>1. h.id + 1 \in 0..(IdMod - 1) /\ h.fmt = "v1"
    BY <1>1, <1>m, ConstantsAssumption DEF Header
  <2>2. QED
    BY <1>9, <1>10, <2>1 DEF Header, Formats
<1> HIDE DEF fs, g, h
<1>14. filecnt \in 0..MaxFileCnt
  BY <1>1, <1>m
<1>15. Len(want'.files) <= MaxFileCnt /\ fid' \in 0..MaxFileCnt
  BY <1>2, <1>3, <1>10, <1>13, <1>14, ConstantsAssumption
<1>16. QED
  BY <1>1, <1>2, <1>3, <1>10, <1>11, <1>12, <1>13, <1>15, Request DEF h

\* A request that allocates a file keeps the invariant.
LEMMA AllocateFile ==
  ASSUME IInv, NEW name \in Names, NEW cnt \in SectorCnts, allocateFile(name, cnt)
  PROVE  IInv'
<1> DEFINE h == hdr[hcurr]
           f == [name |-> name, sector |-> NewSector, cnt |-> cnt, uid |-> UidMod - 1]
           fs == Append(h.files, f)
<1>1. Readable /\ h.id + 1 < IdMod /\ Positions(name) = {} /\ filecnt < MaxFileCnt
  BY DEF allocateFile
<1>2. /\ job' = "alloc" /\ fid' = filecnt + 1 /\ tgt' = headerNew /\ pos' = 1 /\ pc' = "clear"
      /\ UNCHANGED <<tab, ctx, seen, tries, history>>
      /\ want' = [id |-> h.id + 1, fmt |-> h.fmt,
                  files |-> Append([i \in 1..filecnt |-> ent[hcurr][i].file], f)]
  BY DEF allocateFile
<1>m. /\ h \in Header /\ h.fmt = "v1" /\ Unique(h.files)
      /\ h.files \in Seq(FileHdr) /\ Len(h.files) = filecnt /\ filecnt \in 0..MaxFileCnt
      /\ \A i \in 1..filecnt : ent[hcurr][i].file = h.files[i] /\ h.files[i] \in FileHdr
  BY <1>1, Mounted, Zenon
<1>3. [i \in 1..filecnt |-> ent[hcurr][i].file] = h.files
  <2> DEFINE e == [i \in 1..Len(h.files) |-> ent[hcurr][i].file]
  <2>1. e = [i \in 1..Len(h.files) |-> e[i]] /\ \A i \in 1..Len(h.files) : e[i] = h.files[i]
    BY <1>m
  <2>2. e = h.files
    BY <1>m, <2>1, SameSeq
  <2>3. QED
    BY <1>m, <2>2
<1>4. want' = [id |-> h.id + 1, fmt |-> h.fmt, files |-> fs]
  BY <1>2, <1>3
<1>5. filecnt \in 0..MaxFileCnt /\ h.files \in Seq(FileHdr) /\ Len(h.files) = filecnt
  BY <1>1, <1>m
<1>6. NewSector \in Nat
  <2>1. CASE filecnt = 0
    BY <2>1 DEF NewSector, FirstDataSector
  <2>2. CASE filecnt # 0
    <3>1. ent[hcurr][filecnt].file \in FileHdr
      BY <1>1, <1>5, <2>2, <1>m
    <3>2. QED
      BY <2>2, <3>1 DEF NewSector, FileHdr
  <2>3. QED
    BY <2>1, <2>2
<1>7. f \in FileHdr
  BY <1>6, ConstantsAssumption DEF FileHdr
<1> HIDE DEF f
<1>8. fs \in Seq(FileHdr) /\ Len(fs) = filecnt + 1 /\ fs[filecnt + 1] = f
      /\ \A i \in 1..filecnt : fs[i] = h.files[i]
  BY <1>5, <1>7
<1>9. \A i \in 1..filecnt : h.files[i].name # f.name
  BY <1>1, <1>5, <1>m DEF Positions, f
<1> HIDE DEF fs
<1>10. Unique(fs)
  <2>1. SUFFICES ASSUME NEW i \in 1..(filecnt + 1), NEW j \in 1..(filecnt + 1),
                        fs[i].name = fs[j].name
                 PROVE  i = j
    BY <1>8 DEF Unique
  <2>2. CASE i \in 1..filecnt /\ j \in 1..filecnt
    BY <1>1, <1>5, <1>8, <2>1, <2>2, <1>m DEF Unique
  <2>3. QED
    BY <1>5, <1>8, <1>9, <2>1, <2>2
<1>11. want' \in Header /\ want'.fmt = "v1" /\ want'.files = fs
  <2>1. h.id + 1 \in 0..(IdMod - 1) /\ h.fmt = "v1"
    BY <1>1, <1>m, ConstantsAssumption DEF Header
  <2>2. QED
    BY <1>4, <1>8, <2>1 DEF Header, Formats
<1> HIDE DEF h
<1>12. Len(want'.files) <= MaxFileCnt /\ fid' \in 0..MaxFileCnt
  BY <1>1, <1>2, <1>5, <1>8, <1>11, ConstantsAssumption
<1>13. QED
  BY <1>1, <1>2, <1>8, <1>10, <1>11, <1>12, Request DEF h

\* The state after a request: the server is idle, and what it serves is valid.
LEMMA Answered ==
  ASSUME IInv, Rest, pc' = "idle", alive, UNCHANGED <<hdr, ent, alive, spoilt>>,
         nodes' \in Seq(Entry), ServingInv', CopyUnlessSpoilt'
  PROVE  FormatInv' /\ JobInv' /\ ChangeInv' /\ WipeInv' /\ MountInv'
<1>1. want'.fmt = "v1" /\ Len(want'.files) <= MaxFileCnt /\ Unique(want'.files)
  BY EmptyHdrFormat DEF Rest
<1>2. \A t \in Tables : ~seen'[t].migrate
  BY DEF Rest, Unseen
<1>3. \A t \in Tables : Intact(t)' =>
        hdr'[t].fmt = "v1" /\ Len(hdr'[t].files) <= MaxFileCnt /\ Unique(hdr'[t].files)
  BY DEF IInv, FormatInv, Intact
<1>4. FormatInv'
  BY <1>1, <1>2, <1>3 DEF IInv, FormatInv, Unique
<1>5. job' = "none"
  BY DEF Rest
<1>6. JobInv' /\ ChangeInv' /\ WipeInv' /\ MountInv'
  BY <1>5 DEF JobInv, ChangeInv, WipeInv, MountInv, Writing
<1>7. QED
  BY <1>4, <1>6

\* A change that reached its end: the new table is valid.
LEMMA Written ==
  ASSUME IInv, pc = "done", job \in {"commit", "alloc"}
  PROVE  /\ tgt \in Tables /\ hdr[tgt] = want /\ want \in Header /\ Intact(tgt) /\ isHeaderValid(tgt)
         /\ alive /\ Len(nodes) = filecnt /\ nodes \in Seq(Entry) /\ filecnt \in 0..MaxFileCnt
         /\ want.files \in Seq(FileHdr) /\ Len(want.files) <= MaxFileCnt
         /\ \A k \in 1..Len(want.files) : ent[tgt][k] = EntryOf(want, k) /\ ent[tgt][k] \in Entry
                                          /\ ent[tgt][k].file = want.files[k]
         /\ \A k \in 1..filecnt :
              /\ nodes[k].file.name = hdr[hcurr].files[k].name
              /\ k \notin unread => nodes[k] = ent[hcurr][k]
              /\ ent[hcurr][k] = EntryOf(hdr[hcurr], k)
<1>1. /\ tgt \in Tables /\ hdr[tgt] = want /\ want \in Header /\ Len(want.files) <= MaxFileCnt
      /\ Serving /\ hcurr \in Tables /\ Intact(hcurr) /\ filecnt \in 0..MaxFileCnt
      /\ \A k \in 1..Len(want.files) : ent[tgt][k] = EntryOf(want, k)
  BY DEF IInv, TypeOK, ChangeInv, FormatInv
<1>2. /\ alive /\ Len(nodes) = filecnt /\ nodes \in Seq(Entry)
      /\ isHeaderValid(hcurr) /\ Len(hdr[hcurr].files) = filecnt
      /\ \A k \in 1..filecnt :
              /\ nodes[k].file.name = hdr[hcurr].files[k].name
              /\ k \notin unread => nodes[k] = ent[hcurr][k]
  BY <1>1 DEF IInv, ServingInv, FormatInv
<1>3. isHeaderValid(tgt)
  BY <1>1, Complete
<1>4. \A k \in 1..filecnt : ent[hcurr][k] = EntryOf(hdr[hcurr], k)
  BY <1>1, <1>2, ValidTable DEF IInv
<1>5. want.files \in Seq(FileHdr)
  BY <1>1 DEF Header
<1>6. QED
  BY <1>1, <1>2, <1>3, <1>4, <1>5, ValidTable DEF IInv

\* Switching to the changed table keeps the invariant.
LEMMA CommitFileChange ==
  ASSUME IInv, commitFileChange
  PROVE  IInv'
<1>1. /\ pc = "done" /\ job = "commit" /\ hcurr' = tgt /\ acked' = want.files /\ ~wiping'
      /\ UNCHANGED <<hdr, ent, filecnt, alive, spoilt>> /\ Rest /\ pc' = "idle"
  BY DEF commitFileChange, tab
<1>2. /\ fid \in 1..filecnt /\ Len(want.files) = filecnt
      /\ \A k \in 1..filecnt :
              /\ want.files[k].name = hdr[hcurr].files[k].name
              /\ k # fid => want.files[k] = hdr[hcurr].files[k]
      /\ hcurr \in Tables /\ Intact(hcurr) /\ hdr[hcurr].fmt = "v1" /\ want.fmt = "v1"
  BY <1>1 DEF IInv, ChangeInv, TypeOK, FormatInv
<1>3. \/ nodes' = [nodes EXCEPT ![fid] = ent[tgt][fid]] /\ unread' = unread \ {fid}
      \/ nodes' = nodes /\ unread' = unread \cup {fid}
  BY DEF commitFileChange
<1>w. /\ tgt \in Tables /\ hdr[tgt] = want /\ Intact(tgt) /\ isHeaderValid(tgt)
      /\ Len(nodes) = filecnt /\ nodes \in Seq(Entry) /\ want.files \in Seq(FileHdr)
      /\ \A k \in 1..Len(want.files) : ent[tgt][k] = EntryOf(want, k) /\ ent[tgt][k] \in Entry
                                       /\ ent[tgt][k].file = want.files[k]
      /\ \A k \in 1..filecnt :
           /\ nodes[k].file.name = hdr[hcurr].files[k].name
           /\ k \notin unread => nodes[k] = ent[hcurr][k]
           /\ ent[hcurr][k] = EntryOf(hdr[hcurr], k)
  <2>1. job \in {"commit", "alloc"}
    BY <1>1
  <2>2. QED
    BY <1>1, <2>1, Written, Zenon
<1>4. ent[tgt][fid] \in Entry /\ ent[tgt][fid].file.name = want.files[fid].name
  BY <1>2, <1>w
<1>5. /\ nodes' \in Seq(Entry) /\ Len(nodes') = filecnt
      /\ \A k \in 1..filecnt : k # fid => nodes'[k] = nodes[k]
      /\ nodes'[fid] = ent[tgt][fid] \/ (nodes'[fid] = nodes[fid] /\ fid \in unread')
  <2>1. CASE nodes' = [nodes EXCEPT ![fid] = ent[tgt][fid]]
    BY <1>2, <1>w, <1>4, <2>1, ExceptSeq
  <2>2. CASE nodes' = nodes /\ unread' = unread \cup {fid}
    BY <1>w, <2>2
  <2>3. QED
    BY <1>3, <2>1, <2>2
<1>6. ASSUME NEW k \in 1..filecnt
      PROVE  /\ nodes'[k].file.name = want.files[k].name
             /\ k \notin unread' => nodes'[k] = ent[tgt][k]
  <2>1. CASE k = fid
    BY <1>2, <1>4, <1>5, <1>w, <2>1
  <2>2. CASE k # fid
    <3>1. nodes'[k] = nodes[k] /\ (k \notin unread' => k \notin unread)
      BY <1>3, <1>5, <2>2
    <3>2. ent[tgt][k] = ent[hcurr][k]
      <4>1. ent[tgt][k] = EntryOf(want, k) /\ ent[hcurr][k] = EntryOf(hdr[hcurr], k)
        BY <1>2, <1>w
      <4>2. want.fmt = hdr[hcurr].fmt /\ want.files[k] = hdr[hcurr].files[k]
        BY <1>2, <2>2
      <4>3. QED
        BY <4>1, <4>2 DEF EntryOf
    <3>3. QED
      BY <1>2, <1>w, <3>1, <3>2
  <2>3. QED
    BY <2>1, <2>2
<1>7. PICK u \in Tables : u = tgt /\ u = hcurr' /\ isHeaderValid(u)' /\ Intact(u)' /\ hdr'[u] = want
                          /\ ent'[u] = ent[tgt]
  BY <1>1, Written, Framing
<1>8. ServingInv'
  <2>1. alive'
    BY <1>1, Written, Zenon
  <2>2. filecnt' = filecnt /\ hdr'[u].files = acked' /\ Len(hdr'[u].files) = filecnt
    BY <1>1, <1>2, <1>7
  <2>3. \A k \in 1..filecnt : /\ nodes'[k].file.name = hdr'[u].files[k].name
                              /\ k \notin unread' => nodes'[k] = ent'[u][k]
    BY <1>6, <1>7
  <2>4. QED
    BY <1>5, <1>7, <2>1, <2>2, <2>3 DEF ServingInv
<1>9. CopyUnlessSpoilt'
  BY <1>7 DEF CopyUnlessSpoilt
<1>10. TypeOK'
  <2>1. nodes' \in Seq(EntCell) /\ unread' \subseteq Nat
    <3>1. nodes' \in Seq(EntCell)
      BY <1>5 DEF EntCell
    <3>2. fid \in Nat /\ unread \subseteq Nat
      BY <1>2 DEF IInv, TypeOK
    <3>3. QED
      BY <1>3, <3>1, <3>2
  <2>2. wiping' \in BOOLEAN
    BY Zenon DEF commitFileChange
  <2>3. hcurr' \in Tables /\ acked' \in Seq(FileHdr)
    BY <1>1, Written
  <2>4. QED
    BY <1>1, <2>1, <2>2, <2>3, RestType, Zenon DEF IInv, TypeOK
<1>11. QED
  BY <1>1, <1>5, <1>8, <1>9, <1>10, Answered, Written DEF IInv

\* Adding the allocated file, or failing to, keeps the invariant.
LEMMA AddFile ==
  ASSUME IInv, addFile
  PROVE  IInv'
<1>1. pc = "done" /\ job = "alloc" /\ UNCHANGED <<hdr, ent, alive, spoilt>> /\ Rest /\ pc' = "idle"
  BY DEF addFile, tab, ctx, history
<1>2. CASE /\ nodes' = Append(nodes, ent[tgt][fid]) /\ filecnt' = filecnt + 1 /\ hcurr' = tgt
           /\ acked' = want.files /\ wiping' = FALSE /\ UNCHANGED <<unread, alive, spoilt>>
  <2>1. /\ fid = filecnt + 1 /\ Len(want.files) = filecnt + 1
        /\ \A k \in 1..filecnt : want.files[k] = hdr[hcurr].files[k]
        /\ hcurr \in Tables /\ Intact(hcurr) /\ hdr[hcurr].fmt = "v1" /\ want.fmt = "v1"
    BY <1>1 DEF IInv, ChangeInv, TypeOK, FormatInv
  <2>w. /\ tgt \in Tables /\ hdr[tgt] = want /\ Intact(tgt) /\ isHeaderValid(tgt)
        /\ Len(nodes) = filecnt /\ nodes \in Seq(Entry) /\ filecnt \in 0..MaxFileCnt
        /\ want.files \in Seq(FileHdr) /\ Len(want.files) <= MaxFileCnt
        /\ \A k \in 1..Len(want.files) : ent[tgt][k] = EntryOf(want, k) /\ ent[tgt][k] \in Entry
                                         /\ ent[tgt][k].file = want.files[k]
        /\ \A k \in 1..filecnt :
             /\ nodes[k].file.name = hdr[hcurr].files[k].name
             /\ k \notin unread => nodes[k] = ent[hcurr][k]
             /\ ent[hcurr][k] = EntryOf(hdr[hcurr], k)
    <3>1. job \in {"commit", "alloc"}
      BY <1>1
    <3>2. QED
      BY <1>1, <3>1, Written, Zenon
  <2>2. /\ filecnt \in Nat /\ filecnt + 1 \in 0..MaxFileCnt /\ fid \in 1..Len(want.files)
        /\ ent[tgt][fid] \in Entry
    BY <2>1, <2>w, ConstantsAssumption, SMTT(30)
  <2>3. /\ nodes' \in Seq(Entry) /\ Len(nodes') = filecnt'
        /\ nodes'[fid] = ent[tgt][fid] /\ \A k \in 1..filecnt : nodes'[k] = nodes[k]
    BY <1>2, <2>1, <2>2, <2>w, AppendSeq
  <2>4. ASSUME NEW k \in 1..filecnt'
        PROVE  /\ nodes'[k].file.name = want.files[k].name
               /\ k \notin unread' => nodes'[k] = ent[tgt][k]
    <3>1. CASE k = fid
      BY <2>2, <2>3, <2>w, <3>1
    <3>2. CASE k \in 1..filecnt
      <4>1. ent[tgt][k] = ent[hcurr][k]
        <5>0. k \in 1..Len(want.files)
          BY <2>1, <2>2, <3>2
        <5>1. ent[tgt][k] = EntryOf(want, k) /\ ent[hcurr][k] = EntryOf(hdr[hcurr], k)
          BY <2>w, <3>2, <5>0
        <5>2. want.fmt = hdr[hcurr].fmt /\ want.files[k] = hdr[hcurr].files[k]
          BY <2>1, <3>2
        <5>3. QED
          BY <5>1, <5>2 DEF EntryOf
      <4>2. QED
        BY <1>2, <2>1, <2>3, <2>w, <3>2, <4>1
    <3>3. QED
      <4>1. k \in 1..(filecnt + 1)
        BY <1>2, <2>4
      <4>2. k = fid \/ k \in 1..filecnt
        BY <2>1, <2>2, <4>1
      <4>3. QED
        BY <3>1, <3>2, <4>2
  <2>5. PICK u \in Tables : u = tgt /\ u = hcurr' /\ isHeaderValid(u)' /\ Intact(u)' /\ hdr'[u] = want
                            /\ ent'[u] = ent[tgt]
    BY <1>1, <1>2, Written, Framing
  <2>6. ServingInv'
    <3>1. alive'
      BY <1>1, Written, Zenon
    <3>2. hdr'[u].files = acked' /\ Len(hdr'[u].files) = filecnt'
      BY <1>2, <2>1, <2>5
    <3>3. \A k \in 1..filecnt' : /\ nodes'[k].file.name = hdr'[u].files[k].name
                                 /\ k \notin unread' => nodes'[k] = ent'[u][k]
      BY <2>4, <2>5
    <3>4. QED
      BY <2>3, <2>5, <3>1, <3>2, <3>3 DEF ServingInv
  <2>7. CopyUnlessSpoilt'
    BY <2>5 DEF CopyUnlessSpoilt
  <2>8. TypeOK'
    <3>1. nodes' \in Seq(EntCell)
      BY <2>3 DEF EntCell
    <3>2. wiping' \in BOOLEAN
      BY <1>2, Zenon
    <3>3. hcurr' \in Tables /\ acked' \in Seq(FileHdr) /\ filecnt' \in 0..MaxFileCnt
      BY <1>1, <1>2, <2>2, Written
    <3>4. QED
      BY <1>1, <1>2, <3>1, <3>2, <3>3, RestType, Zenon DEF IInv, TypeOK
  <2>9. QED
    BY <1>1, <2>3, <2>6, <2>7, <2>8, Answered, Written DEF IInv
<1>3. CASE UNCHANGED <<ctx, history>>
  <2>1. UNCHANGED <<hcurr, filecnt, nodes, unread, alive, acked, wiping, spoilt>>
    BY <1>3 DEF ctx, history
  <2>2. Frame
    BY <1>1, <2>1 DEF Frame
  <2>3. PICK u \in Tables : u = hcurr /\ u = hcurr' /\ (isHeaderValid(u)' <=> isHeaderValid(u))
                            /\ (Intact(u)' <=> Intact(u))
    BY <2>1, <2>2, Framed DEF IInv, TypeOK
  <2>4. Serving
    BY <1>1 DEF Serving, Writing
  <2>5. ServingInv'
    <3>1. ServingInv /\ UNCHANGED <<hdr, ent>>
      BY <1>1 DEF IInv
    <3>2. QED
      BY <2>1, <2>3, <2>4, <3>1 DEF ServingInv
  <2>6. TypeOK'
    BY <1>1, <2>1, RestType, Zenon DEF IInv, TypeOK
  <2>7. QED
    BY <1>1, <2>1, <2>2, <2>5, <2>6, Answered, Written, Framed DEF IInv
<1>4. QED
  BY <1>2, <1>3 DEF addFile

\* The end of a chip erase keeps the invariant.
LEMMA FinishChiperase ==
  ASSUME IInv, finishChiperase
  PROVE  IInv'
<1>1. /\ pc = "done" /\ job = "chip" /\ wiping /\ alive
      /\ UNCHANGED <<hdr, ent, hcurr, filecnt, alive, acked, wiping, spoilt>>
  BY DEF finishChiperase, tab, ctx, history, IInv, WipeInv, ServingInv, Serving, Writing
<1>2. Frame
  BY <1>1 DEF Frame
<1>3. want' = EmptyHdr
  BY DEF finishChiperase, StartTable, Rest
<1>4. want'.fmt = "v1" /\ Len(want'.files) <= MaxFileCnt /\ Unique(want'.files)
  BY <1>3, EmptyHdrFormat
<1>5. CASE /\ tgt = 0 /\ StartTable("chip", 1, EmptyHdr)
           /\ UNCHANGED <<tab, ctx, seen, tries, history>>
  <2>1. /\ job' = "chip" /\ tgt' = 1 /\ pos' = 1 /\ pc' = "erase0"
        /\ UNCHANGED <<fid, nodes, unread, seen, tries>>
    BY <1>5 DEF StartTable, ctx
  <2>2. TypeOK'
    BY <1>1, <1>3, <2>1, EmptyHdrType DEF IInv, TypeOK, Tables
  <2>3. FormatInv'
    BY <1>1, <1>2, <1>4, <2>1, Framed DEF IInv, FormatInv, Unique
  <2>4. JobInv' /\ ChangeInv' /\ MountInv'
    BY <2>1 DEF JobInv, ChangeInv, MountInv, Writing
  <2>5. hdr[0] = Blank
    BY <1>1, <1>5 DEF IInv, WipeInv
  <2>6. WipeInv'
    BY <1>1, <2>1, <2>5 DEF WipeInv
  <2>7. PICK u \in Tables : u = hcurr /\ u = hcurr' /\ (isHeaderValid(u)' <=> isHeaderValid(u))
                            /\ (Intact(u)' <=> Intact(u))
    BY <1>1, <1>2, Framed DEF IInv, TypeOK
  <2>8. ServingInv'
    BY <1>1, <2>1, <2>7 DEF IInv, ServingInv, Serving, Writing
  <2>9. QED
    BY <1>2, <2>2, <2>3, <2>4, <2>6, <2>8, Framed DEF IInv
<1>6. CASE tgt = 1 /\ nodes' = <<>> /\ unread' = {} /\ pc' = "check" /\ Rest
  <2>1. job' = "none" /\ \A t \in Tables : ~seen'[t].migrate
    BY <1>6 DEF Rest, Unseen
  <2>2. nodes' \in Seq(Entry) /\ nodes' \in Seq(EntCell) /\ unread' \subseteq Nat
    BY <1>6, EmptySeq, Zenon
  <2>3. TypeOK'
    BY <1>1, <1>6, <2>2, RestType, Zenon DEF IInv, TypeOK
  <2>4. FormatInv'
    BY <1>1, <1>2, <1>4, <2>1, <2>2, Framed DEF IInv, FormatInv, Unique
  <2>5. \A t \in Tables : hdr[t] = Blank
    BY <1>1, <1>6 DEF IInv, WipeInv, Tables
  <2>6. JobInv' /\ ServingInv' /\ ChangeInv' /\ WipeInv' /\ MountInv'
    BY <1>1, <1>6, <2>1, <2>5 DEF JobInv, ServingInv, ChangeInv, WipeInv, MountInv, Serving, Writing
  <2>7. QED
    BY <1>2, <2>3, <2>4, <2>6, Framed DEF IInv
<1>7. QED
  BY <1>5, <1>6 DEF finishChiperase

\* A stuttering step keeps the invariant.
LEMMA Stutter ==
  ASSUME IInv, UNCHANGED vars
  PROVE  IInv'
<1> USE DEF vars, tab, ctx, engine, history
<1>1. Frame
  BY DEF Frame
<1>2. TypeOK'
  BY DEF IInv, TypeOK
<1>3. FormatInv'
  BY <1>1, Framed DEF IInv, FormatInv, Unique
<1>4. JobInv' /\ WipeInv'
  BY DEF IInv, JobInv, WipeInv, Writing
<1>5. PICK u \in Tables : u = hcurr /\ u = hcurr' /\ (isHeaderValid(u)' <=> isHeaderValid(u))
                          /\ (Intact(u)' <=> Intact(u))
  BY <1>1, Framed DEF IInv, TypeOK
<1>6. ServingInv'
  BY <1>5 DEF IInv, ServingInv, Serving, Writing
<1>7. ChangeInv'
  BY <1>5 DEF IInv, ChangeInv, Serving, Writing, EntryOf
<1>8. PICK v \in Tables : v = 1 - tgt /\ v = 1 - tgt' /\ (isHeaderValid(v)' <=> isHeaderValid(v))
  BY <1>1, Framed DEF IInv, TypeOK, Tables
<1>9. MountInv'
  BY <1>1, <1>5, <1>8, Framed DEF IInv, MountInv, Writing
<1>10. QED
  BY <1>1, <1>2, <1>3, <1>4, <1>6, <1>7, <1>9, Framed DEF IInv

\* A partition that was never formatted satisfies the invariant.
LEMMA Initially ==
  ASSUME Init
  PROVE  IInv
<1> USE DEF Init, InitMemory
<1>1. TypeOK
  <2>1. nodes \in Seq(EntCell) /\ acked \in Seq(FileHdr) /\ unread \subseteq Nat
        /\ alive \in BOOLEAN /\ wiping \in BOOLEAN /\ spoilt \in BOOLEAN
    BY EmptySeq, Zenon
  <2>2. /\ hdr \in [Tables -> HdrCell] /\ ent \in [Tables -> [Slots -> EntCell]]
        /\ hcurr \in Tables /\ filecnt \in 0..MaxFileCnt
        /\ fid \in 0..MaxFileCnt /\ tgt \in Tables /\ want \in Header /\ pos \in Nat
        /\ seen \in [Tables -> [valid : BOOLEAN, migrate : BOOLEAN,
                                id : 0..(IdMod - 1), filecnt : 0..MaxFileCnt]]
        /\ tries \in [check : Nat, migrate : Nat, write : Nat]
    BY EmptyHdrType, ConstantsAssumption DEF Tables, HdrCell, EntCell, Unseen, NoTries
  <2>3. QED
    BY <2>1, <2>2, Zenon DEF TypeOK
<1>2. FormatInv
  <2>1. nodes \in Seq(Entry)
    BY EmptySeq, Zenon
  <2>2. \A t \in Tables : ~seen[t].migrate /\ ~Intact(t)
    BY DEF Unseen, Intact
  <2>3. want.fmt = "v1" /\ Len(want.files) <= MaxFileCnt /\ Unique(want.files)
    BY EmptyHdrFormat
  <2>4. ~spoilt
    BY Zenon
  <2>5. QED
    BY <2>1, <2>2, <2>3, <2>4, Zenon DEF FormatInv
<1>3. ~alive /\ wiping
  BY Zenon
<1>4. JobInv /\ ServingInv /\ ChangeInv /\ WipeInv /\ MountInv
  BY <1>3 DEF JobInv, ServingInv, ChangeInv, WipeInv, MountInv, Serving, Writing
<1>5. CopyUnlessSpoilt
  BY <1>3 DEF CopyUnlessSpoilt
<1>6. QED
  BY <1>1, <1>2, <1>4, <1>5 DEF IInv

-----------------------------------------------------------------------------
(* The theorems                                                            *)

\* IInv is inductive, and so holds in every reachable state of a partition
\* formatted by this release.
THEOREM Invariance == Spec => []IInv
<1>1. Init => IInv
  BY Initially
<1>2. IInv /\ [Next]_vars => IInv'
  <2> SUFFICES ASSUME IInv, [Next]_vars PROVE IInv'
    OBVIOUS
  <2>1. CASE UNCHANGED vars
    BY <2>1, Stutter
  <2>2. CASE init
    BY <2>2, InitMount
  <2>3. CASE Mounting
    BY <2>3, CheckHeaders, SelectTable, MountTable, FinishPartialErase, FillNodes DEF Mounting
  <2>4. CASE EraseStep \/ WriteEnt \/ WriteHdr
    BY <2>4, Erase, WriteEntry, WriteHeader
  <2>5. CASE WriteJunk
    BY <2>5 DEF WriteJunk, IInv, JobInv
  <2>6. CASE clearContent \/ commitFileChange \/ addFile \/ finishChiperase
    BY <2>6, ClearContent, CommitFileChange, AddFile, FinishChiperase
  <2>7. CASE Requests
    <3>1. ASSUME NEW k \in DOMAIN nodes, updateFileInfo(k) \/ resetFile(k)
          PROVE  IInv'
      BY <3>1, ChangeFile DEF updateFileInfo, resetFile
    <3>2. QED
      BY <2>7, <3>1, AllocateFile, Chiperase DEF Requests
  <2>8. CASE FlashError
    BY <2>8, FlashErrors
  <2>9. CASE PowerCut
    BY <2>9, Cut
  <2>10. QED
    BY <2>1, <2>2, <2>3, <2>4, <2>5, <2>6, <2>7, <2>8, <2>9 DEF Next, Server
<1>3. QED
  BY <1>1, <1>2, PTL DEF Spec

\* Types of the file table's state (ctx, both tables on flash and the
\* progress of meterfs_checkfs and of a change).
THEOREM TypeCorrect == Spec => []TypeOK
<1>1. IInv => TypeOK
  BY DEF IInv
<1>2. QED
  BY <1>1, Invariance, PTL

\* Whatever step a change, a mount or a repair has reached, and after every
\* flash error and every power cut, flash holds a valid file table: what
\* meterfs_fixFileTable relies on.
THEOREM AlwaysACopy == Spec => []CopyUnlessSpoilt
<1>1. IInv => CopyUnlessSpoilt
  BY DEF IInv
<1>2. QED
  BY <1>1, Invariance, PTL

\* meterfs_checkfs erases both tables only on a partition that was wiped or
\* never formatted.
THEOREM NeverFormatsData == Spec => []FormatsOnlyWiped
<1>1. IInv => FormatsOnlyWiped
  BY DEF IInv, WipeInv, FormatsOnlyWiped
<1>2. QED
  BY <1>1, Invariance, PTL

\* An idle server serves the table acknowledged last, through every sequence
\* of requests, flash errors, power cuts and mounts.
THEOREM ServesTheAcknowledged == Spec => []ServesAcked
<1>1. IInv => ServesAcked
  <2> SUFFICES ASSUME IInv, pc = "idle", ~wiping
               PROVE  /\ isHeaderValid(hcurr)
                      /\ hdr[hcurr].files = acked /\ hdr[hcurr].fmt = "v1"
                      /\ filecnt = Len(acked) /\ DOMAIN nodes = 1..filecnt
                      /\ \A k \in (1..filecnt) \ unread : nodes[k] = ent[hcurr][k]
    BY DEF ServesAcked
  <2>1. Serving /\ hcurr \in Tables
    BY DEF Serving, IInv, TypeOK
  <2>2. Intact(hcurr) /\ Len(nodes) = filecnt /\ nodes \in Seq(EntCell)
    BY <2>1 DEF IInv, ServingInv, TypeOK
  <2>3. QED
    BY <2>1, <2>2 DEF IInv, ServingInv, FormatInv
<1>2. QED
  BY <1>1, Invariance, PTL

=============================================================================
