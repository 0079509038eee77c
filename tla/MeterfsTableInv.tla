-------------------------- MODULE MeterfsTableInv ---------------------------
(***************************************************************************)
(* The inductive invariant of a partition formatted by this release, and   *)
(* the steps that cut power, fail or only wait: each of them keeps it.     *)
(***************************************************************************)
EXTENDS MeterfsTable, TLAPS

\* The header cell of table t holds a header.
Intact(t) == hdr[t] \notin {Blank, Torn}

Writing == pc \in {"erase0", "erase1", "ents", "hdr", "done"}

\* A request is served, or could be.
Serving ==
  pc \in {"idle", "clear"} \/ (Writing /\ job \in {"commit", "alloc", "chip"})

Unique(fs) == \A i, j \in 1..Len(fs) : fs[i].name = fs[j].name => i = j

\* Every table is of the v1 format, and no migration ever starts.
FormatInv ==
  /\ \A t \in Tables : Intact(t) =>
       /\ hdr[t].fmt = "v1"
       /\ Len(hdr[t].files) <= MaxFileCnt
       /\ Unique(hdr[t].files)
  /\ want.fmt = "v1" /\ Len(want.files) <= MaxFileCnt /\ Unique(want.files)
  /\ \A t \in Tables : ~seen[t].migrate
  /\ nodes \in Seq(Entry)
  /\ ~spoilt

\* Which jobs a step may belong to.
JobInv ==
  /\ pc # "junk"
  /\ pc \in {"off", "check", "select", "idle"} => job = "none"
  /\ pc = "clear" => job \in {"commit", "alloc"}
  /\ Writing => job \in {"commit", "alloc", "chip", "fix", "format"}
  /\ pc = "partial" => job \in {"none", "fix"} /\ ~alive
  /\ pc = "fill" => job \in {"none", "fix", "format"}
  /\ pc = "off" => ~alive

\* A mounted partition.  A wiped one may be left with its tables erased.
ServingInv ==
  Serving =>
    /\ alive
    /\ Len(nodes) = filecnt
    /\ Intact(hcurr) =>
         /\ isHeaderValid(hcurr)
         /\ Len(hdr[hcurr].files) = filecnt
         /\ \A k \in 1..filecnt :
              /\ nodes[k].file.name = hdr[hcurr].files[k].name
              /\ k \notin unread => nodes[k] = ent[hcurr][k]
    /\ ~wiping => Intact(hcurr) /\ hdr[hcurr].files = acked

\* A change is written to the other table and differs from the one in use in
\* one file.
ChangeInv ==
  job \in {"commit", "alloc"} =>
    /\ Serving
    /\ tgt = 1 - hcurr
    /\ Intact(hcurr)
    /\ pc \in {"clear", "erase0", "erase1"} => pos = 1
    /\ pc = "ents" => pos \in 1..Len(want.files)
    /\ pc = "ents" => \A k \in 1..(pos - 1) : ent[tgt][k] = EntryOf(want, k)
    /\ pc \in {"hdr", "done"} => \A k \in 1..Len(want.files) : ent[tgt][k] = EntryOf(want, k)
    /\ pc = "done" => hdr[tgt] = want
    /\ job = "commit" =>
         /\ fid \in 1..filecnt /\ Len(want.files) = filecnt
         /\ \A k \in 1..filecnt :
              /\ want.files[k].name = hdr[hcurr].files[k].name
              /\ k # fid => want.files[k] = hdr[hcurr].files[k]
    /\ job = "alloc" =>
         /\ fid = filecnt + 1 /\ Len(want.files) = filecnt + 1
         /\ \A k \in 1..filecnt : want.files[k] = hdr[hcurr].files[k]

\* A wiped partition is erased, table 0 first, and formatted at once.
WipeInv ==
  /\ job = "chip" =>
       /\ wiping /\ pc \notin {"ents", "hdr"}
       /\ pc \in {"erase1", "done"} => hdr[tgt] = Blank
       /\ tgt = 1 => hdr[0] = Blank
  /\ alive /\ pc \in {"check", "select"} =>
       wiping /\ nodes = <<>> /\ \A t \in Tables : hdr[t] = Blank
  /\ job = "format" =>
       /\ wiping /\ hcurr = 0 /\ filecnt = 0 /\ want = EmptyHdr /\ pc # "ents"
       /\ tgt = 1 \/ pc \in {"done", "fill"} => hdr[0] = EmptyHdr
       /\ alive => nodes = <<>> /\ hdr[0] \in {Blank, Torn, EmptyHdr}
       /\ Writing \/ pc = "fill"

\* What mounting has read is what the tables hold, and it repairs a table from
\* a valid one.
MountInv ==
  /\ pc = "select" => \A t \in Tables :
       /\ seen[t].valid <=> isHeaderValid(t)
       /\ isHeaderValid(t) => seen[t].filecnt = Len(hdr[t].files)
  /\ job = "fix" =>
       /\ ~alive /\ want = hdr[1 - tgt] /\ isHeaderValid(1 - tgt)
       /\ pc \in {"erase0", "erase1", "hdr"} => pos = 1
       /\ pc = "ents" => pos \in 1..Len(want.files)
       /\ pc \in {"ents", "hdr", "done", "partial", "fill"} =>
            hcurr = 1 - tgt /\ filecnt = Len(want.files)
       /\ Writing \/ pc \in {"partial", "fill"}
  /\ pc \in {"partial", "fill"} =>
       isHeaderValid(hcurr) /\ filecnt = Len(hdr[hcurr].files)

IInv ==
  /\ TypeOK /\ FormatInv /\ JobInv /\ ServingInv /\ ChangeInv /\ WipeInv /\ MountInv
  /\ CopyUnlessSpoilt

-----------------------------------------------------------------------------
(* Facts about the steps that change flash                                 *)

\* The empty sequence is a sequence over any set.
LEMMA EmptySeq == \A S : <<>> \in Seq(S)
OBVIOUS

\* The header meterfs_checkfs formats a table with is a header.
LEMMA EmptyHdrType == EmptyHdr \in Header
BY ConstantsAssumption DEF EmptyHdr, Header, Formats

\* It is of the v1 format, and its names are unique.
LEMMA EmptyHdrFormat ==
  EmptyHdr.fmt = "v1" /\ Len(EmptyHdr.files) <= MaxFileCnt /\ Unique(EmptyHdr.files)
<1>1. EmptyHdr.fmt = "v1" /\ EmptyHdr.files = <<>>
  BY Zenon DEF EmptyHdr
<1>2. Len(<<>>) = 0
  OBVIOUS
<1>3. Len(EmptyHdr.files) = 0
  BY <1>1, <1>2
<1>4. 1..Len(EmptyHdr.files) = {} /\ 0 <= MaxFileCnt
  BY <1>3, ConstantsAssumption
<1>5. QED
  BY <1>1, <1>3, <1>4 DEF Unique

\* A function on 1..n is a sequence of length n.
LEMMA FunctionSeq ==
  ASSUME NEW S, NEW n \in Nat, NEW f, f = [k \in 1..n |-> f[k]], \A k \in 1..n : f[k] \in S
  PROVE  f \in Seq(S) /\ Len(f) = n
OBVIOUS

\* Two sequences of one length with the same elements are equal.
LEMMA SameSeq ==
  ASSUME NEW S, NEW s \in Seq(S), NEW f, f = [k \in 1..Len(s) |-> f[k]],
         \A k \in 1..Len(s) : f[k] = s[k]
  PROVE  f = s
OBVIOUS

\* Replacing an element of a sequence.
LEMMA ExceptSeq ==
  ASSUME NEW S, NEW s \in Seq(S), NEW i \in 1..Len(s), NEW e \in S
  PROVE  LET r == [s EXCEPT ![i] = e]
         IN r \in Seq(S) /\ Len(r) = Len(s) /\ r[i] = e /\ \A k \in 1..Len(s) : k # i => r[k] = s[k]
OBVIOUS

\* Appending an element to a sequence.
LEMMA AppendSeq ==
  ASSUME NEW S, NEW s \in Seq(S), NEW e \in S
  PROVE  LET r == Append(s, e)
         IN /\ r \in Seq(S) /\ Len(r) = Len(s) + 1 /\ r[Len(s) + 1] = e
            /\ \A k \in 1..Len(s) : r[k] = s[k]
OBVIOUS

\* Erasing part of the table being written leaves the other table alone.
LEMMA Erasing ==
  ASSUME TypeOK, NEW v \in {Blank, Torn}, EraseCells(v)
  PROVE  /\ hdr' \in [Tables -> HdrCell] /\ ent' \in [Tables -> [Slots -> EntCell]]
         /\ hdr'[1 - tgt] = hdr[1 - tgt] /\ ent'[1 - tgt] = ent[1 - tgt]
         /\ hdr'[tgt] = IF pc = "erase0" THEN v ELSE hdr[tgt]
BY DEF TypeOK, EraseCells, Tables, EntCell, HdrCell

\* So does a step that fails or is cut short, and it leaves behind no header
\* but the old one or the new one.
LEMMA Interrupting ==
  ASSUME TypeOK, Interrupted,
         pc = "ents" => pos \in 1..Len(want.files), Len(want.files) <= MaxFileCnt
  PROVE  /\ hdr' \in [Tables -> HdrCell] /\ ent' \in [Tables -> [Slots -> EntCell]]
         /\ hdr'[1 - tgt] = hdr[1 - tgt] /\ ent'[1 - tgt] = ent[1 - tgt]
         /\ pc = "erase0" => hdr'[tgt] \in {Blank, Torn} \/ UNCHANGED tab
         /\ pc \in {"erase1", "ents"} => hdr'[tgt] = hdr[tgt]
         /\ pc = "hdr" => hdr'[tgt] \in {hdr[tgt], Torn, want}
         /\ ~Writing \/ pc = "done" => UNCHANGED tab
<1>1. CASE UNCHANGED tab
  BY <1>1 DEF TypeOK, tab, Tables
<1>2. CASE pc \in {"erase0", "erase1"} /\ \E v \in {Blank, Torn} : EraseCells(v)
  BY <1>2, Erasing DEF Writing
<1>3. ASSUME pc = "ents", UNCHANGED hdr,
             NEW v \in Outcomes(ent[tgt][pos], EntryOf(want, pos)),
             ent' = [ent EXCEPT ![tgt][pos] = v]
      PROVE  /\ ent' \in [Tables -> [Slots -> EntCell]]
             /\ ent'[1 - tgt] = ent[1 - tgt]
  <2>1. pos \in Slots /\ EntryOf(want, pos) \in Entry
    BY <1>3, ConstantsAssumption DEF Slots, TypeOK, Header, EntryOf, Entry
  <2>2. v \in EntCell
    BY <2>1 DEF Outcomes, EntCell, TypeOK
  <2>3. QED
    BY <1>3, <2>1, <2>2 DEF TypeOK, Tables
<1>4. ASSUME pc = "hdr", UNCHANGED ent, NEW v \in Outcomes(hdr[tgt], want),
             hdr' = [hdr EXCEPT ![tgt] = v]
      PROVE  /\ hdr' \in [Tables -> HdrCell] /\ hdr'[1 - tgt] = hdr[1 - tgt]
             /\ hdr'[tgt] \in {hdr[tgt], Torn, want}
  BY <1>4 DEF TypeOK, Tables, HdrCell, Outcomes
<1>5. QED
  BY <1>1, <1>2, <1>3, <1>4 DEF Interrupted, TypeOK, Writing, tab

\* A table whose cells are left alone stays valid.
LEMMA Framing ==
  ASSUME NEW t \in Tables, hdr'[t] = hdr[t], ent'[t] = ent[t]
  PROVE  (isHeaderValid(t)' <=> isHeaderValid(t)) /\ (Intact(t)' <=> Intact(t))
BY DEF isHeaderValid, HeaderOk, ChecksumOk, Intact

\* What a valid table holds.
LEMMA ValidTable ==
  ASSUME TypeOK, NEW t \in Tables, isHeaderValid(t)
  PROVE  /\ Intact(t) /\ hdr[t] \in Header /\ Len(hdr[t].files) \in 0..MaxFileCnt
         /\ \A k \in 1..Len(hdr[t].files) :
              /\ ent[t][k] = EntryOf(hdr[t], k) /\ ent[t][k] \in Entry
              /\ ent[t][k].file = hdr[t].files[k]
<1>1. Intact(t) /\ Len(hdr[t].files) <= MaxFileCnt
  BY DEF isHeaderValid, HeaderOk, Intact
<1>2. hdr[t] \in Header
  BY <1>1 DEF TypeOK, Intact, HdrCell
<1>3. hdr[t].files \in Seq(FileHdr) /\ hdr[t].fmt \in Formats
  BY <1>2 DEF Header
<1>4. Len(hdr[t].files) \in 0..MaxFileCnt
  BY <1>1, <1>3, ConstantsAssumption
<1>5. ASSUME NEW k \in 1..Len(hdr[t].files)
      PROVE  ent[t][k] = EntryOf(hdr[t], k) /\ ent[t][k] \in Entry
             /\ ent[t][k].file = hdr[t].files[k]
  <2>1. ent[t][k] = EntryOf(hdr[t], k)
    BY DEF isHeaderValid, ChecksumOk
  <2>2. hdr[t].files[k] \in FileHdr
    BY <1>3
  <2>3. QED
    BY <1>3, <2>1, <2>2 DEF EntryOf, Entry
<1>6. QED
  BY <1>1, <1>2, <1>4, <1>5

-----------------------------------------------------------------------------
(* Each step keeps the invariant                                           *)

\* Starting to mount (meterfs_init) keeps the invariant.
LEMMA InitMount ==
  ASSUME IInv, init
  PROVE  IInv'
<1> USE DEF init, IInv, tab, ctx, engine, history, Intact, Writing, isHeaderValid, HeaderOk,
            ChecksumOk, Serving
<1>1. TypeOK'
  BY DEF TypeOK
<1>2. FormatInv'
  BY DEF FormatInv
<1>3. JobInv' /\ ServingInv'
  BY DEF JobInv, ServingInv
<1>4. ChangeInv'
  BY DEF ChangeInv, JobInv
<1>5. WipeInv'
  BY DEF WipeInv, JobInv
<1>6. MountInv' /\ CopyUnlessSpoilt'
  BY DEF MountInv, JobInv, CopyUnlessSpoilt
<1>7. QED
  BY <1>1, <1>2, <1>3, <1>4, <1>5, <1>6

\* Starting a chip erase keeps the invariant.
LEMMA Chiperase ==
  ASSUME IInv, chiperase
  PROVE  IInv'
<1> USE DEF chiperase, StartTable, IInv, tab, ctx, history, Intact, Writing, isHeaderValid,
            HeaderOk, ChecksumOk, Serving
<1>1. TypeOK'
  BY EmptyHdrType DEF TypeOK, Tables
<1>2. FormatInv'
  BY ConstantsAssumption DEF FormatInv, EmptyHdr, Unique
<1>3. JobInv' /\ ServingInv'
  BY DEF JobInv, ServingInv
<1>4. ChangeInv' /\ WipeInv'
  BY DEF ChangeInv, WipeInv
<1>5. MountInv' /\ CopyUnlessSpoilt'
  BY DEF MountInv, CopyUnlessSpoilt
<1>6. QED
  BY <1>1, <1>2, <1>3, <1>4, <1>5

\* The state after a mount or a request gave up, or after a power cut.
LEMMA Resting ==
  ASSUME IInv, Rest, UNCHANGED <<wiping, spoilt>>, nodes' \in {nodes, <<>>},
         hdr' \in [Tables -> HdrCell],
         \A t \in Tables : hdr'[t] \in {hdr[t], Blank, Torn, want}
  PROVE  /\ FormatInv'
         /\ ~(job' \in {"commit", "alloc", "chip", "fix", "format"})
<1>1. want' = EmptyHdr /\ job' = "none" /\ \A t \in Tables : ~seen'[t].migrate
  BY DEF Rest, Unseen
<1>2. ASSUME NEW t \in Tables, Intact(t)'
      PROVE  /\ hdr'[t].fmt = "v1" /\ Len(hdr'[t].files) <= MaxFileCnt
             /\ Unique(hdr'[t].files)
  BY <1>2 DEF IInv, FormatInv, Intact
<1>3. nodes' \in Seq(Entry) /\ ~spoilt'
  BY EmptySeq, Zenon DEF IInv, FormatInv
<1>4. want'.fmt = "v1" /\ Len(want'.files) <= MaxFileCnt /\ Unique(want'.files)
  BY <1>1, ConstantsAssumption DEF EmptyHdr, Unique
<1>5. FormatInv'
  BY <1>1, <1>2, <1>3, <1>4 DEF FormatInv, Unique, Intact
<1>6. QED
  BY <1>1, <1>5

\* An engine at rest has its types.
LEMMA RestType ==
  ASSUME Rest
  PROVE  /\ job' = "none" /\ fid' \in 0..MaxFileCnt /\ tgt' \in Tables /\ want' \in Header
         /\ pos' \in Nat
         /\ seen' \in [Tables -> [valid : BOOLEAN, migrate : BOOLEAN,
                                  id : 0..(IdMod - 1), filecnt : 0..MaxFileCnt]]
         /\ tries' \in [check : Nat, migrate : Nat, write : Nat]
BY EmptyHdrType, ConstantsAssumption DEF Rest, Tables, Unseen, NoTries

\* A discarded ctx has its types.
LEMMA ForgetType ==
  /\ 0 \in Tables /\ 0 \in 0..MaxFileCnt
  /\ {} \subseteq Nat /\ FALSE \in BOOLEAN
BY ConstantsAssumption DEF Tables

\* A power cut at any step keeps the invariant.
LEMMA Cut ==
  ASSUME IInv, PowerCut
  PROVE  IInv'
<1>1. /\ hdr' \in [Tables -> HdrCell] /\ ent' \in [Tables -> [Slots -> EntCell]]
      /\ hdr'[1 - tgt] = hdr[1 - tgt] /\ ent'[1 - tgt] = ent[1 - tgt]
      /\ hdr'[tgt] \in {hdr[tgt], Blank, Torn, want}
      /\ ~Writing \/ pc = "done" => UNCHANGED tab
  BY Interrupting DEF IInv, PowerCut, FormatInv, ChangeInv, WipeInv, MountInv, JobInv, Writing,
     TypeOK, tab
<1>2. \A t \in Tables : hdr'[t] \in {hdr[t], Blank, Torn, want}
  BY <1>1 DEF IInv, TypeOK, Tables
<1>3. /\ pc' = "off" /\ hcurr' = 0 /\ filecnt' = 0 /\ nodes' = <<>> /\ unread' = {}
      /\ alive' = FALSE /\ Rest /\ UNCHANGED <<acked, wiping, spoilt>>
  BY DEF PowerCut, Forget, history
<1>4. TypeOK'
  <2>1. nodes' \in Seq(EntCell)
    BY <1>3, EmptySeq, Zenon
  <2>2. /\ hcurr' \in Tables /\ filecnt' \in 0..MaxFileCnt
        /\ unread' \subseteq Nat /\ alive' \in BOOLEAN
    <3>1. hcurr' = 0 /\ filecnt' = 0 /\ unread' = {} /\ alive' = FALSE
      BY <1>3, Zenon
    <3>2. QED
      BY <3>1, ForgetType, Zenon
  <2>3. acked' \in Seq(FileHdr) /\ wiping' \in BOOLEAN /\ spoilt' \in BOOLEAN
    BY <1>3 DEF IInv, TypeOK
  <2>4. QED
    BY <1>1, <1>3, <2>1, <2>2, <2>3, RestType, Zenon DEF TypeOK
<1>5. FormatInv' /\ job' = "none"
  BY <1>1, <1>2, <1>3, Resting, RestType
<1>6. JobInv' /\ ServingInv' /\ ChangeInv' /\ WipeInv' /\ MountInv'
  BY <1>3, <1>5 DEF JobInv, ServingInv, ChangeInv, WipeInv, MountInv, Serving, Writing
<1>7. CopyUnlessSpoilt'
  <2> SUFFICES ASSUME ~wiping PROVE \E t \in Tables : isHeaderValid(t)'
    BY <1>3 DEF CopyUnlessSpoilt
  <2>1. CASE ~Writing
    BY <1>1, <2>1 DEF IInv, CopyUnlessSpoilt, FormatInv, isHeaderValid, HeaderOk, ChecksumOk, tab
  <2>2. CASE Writing
    <3>1. isHeaderValid(1 - tgt) /\ 1 - tgt \in Tables
      BY <2>2 DEF IInv, JobInv, ChangeInv, ServingInv, WipeInv, MountInv, TypeOK, Tables
    <3>2. QED
      BY <1>1, <3>1, Framing
  <2>3. QED
    BY <2>1, <2>2
<1>8. QED
  BY <1>4, <1>5, <1>6, <1>7 DEF IInv

\* A flash primitive that reports an error keeps the invariant, whichever job
\* it belongs to.
LEMMA Failing ==
  ASSUME IInv, Abort, UNCHANGED history,
         /\ hdr' \in [Tables -> HdrCell] /\ ent' \in [Tables -> [Slots -> EntCell]]
         /\ hdr'[1 - tgt] = hdr[1 - tgt] /\ ent'[1 - tgt] = ent[1 - tgt]
         /\ pc = "erase0" => hdr'[tgt] \in {Blank, Torn} \/ UNCHANGED tab
         /\ pc \in {"erase1", "ents"} => hdr'[tgt] = hdr[tgt]
         /\ pc = "hdr" => hdr'[tgt] \in {hdr[tgt], Torn, want}
         /\ ~Writing => UNCHANGED tab,
         pc \in {"clear", "partial", "erase0", "erase1", "ents", "hdr"}
  PROVE  IInv'
<1>1. hdr'[tgt] \in {hdr[tgt], Blank, Torn, want}
  BY DEF Writing, tab
<1>2. \A t \in Tables : hdr'[t] \in {hdr[t], Blank, Torn, want}
  BY <1>1 DEF IInv, TypeOK, Tables
<1>3. nodes' \in {nodes, <<>>} /\ UNCHANGED <<acked, wiping, spoilt>> /\ Rest
  BY DEF Abort, Forget, ctx, history
<1>4. FormatInv' /\ job' = "none"
  BY <1>2, <1>3, Resting, RestType
<1>5. pc' \in {"idle", "off"} /\ (pc' = "off" => ~alive') /\ (pc' = "idle" => alive /\ UNCHANGED ctx)
  BY DEF Abort, Forget
<1>6. TypeOK'
  <2>1. /\ hcurr' \in Tables /\ filecnt' \in 0..MaxFileCnt
        /\ unread' \subseteq Nat /\ alive' \in BOOLEAN
    <3>1. CASE UNCHANGED <<hcurr, filecnt, unread, alive>>
      BY <3>1 DEF IInv, TypeOK
    <3>2. CASE hcurr' = 0 /\ filecnt' = 0 /\ unread' = {} /\ alive' = FALSE
      BY <3>2, ForgetType, Zenon
    <3>3. QED
      BY <3>1, <3>2, Zenon DEF Abort, Forget, ctx
  <2>2. nodes' \in Seq(EntCell)
    <3>1. nodes \in Seq(EntCell)
      BY DEF IInv, TypeOK
    <3>2. QED
      BY <1>3, <3>1, EmptySeq, Zenon
  <2>3. acked' \in Seq(FileHdr) /\ wiping' \in BOOLEAN /\ spoilt' \in BOOLEAN
    BY <1>3 DEF IInv, TypeOK
  <2>4. QED
    BY <1>3, <1>5, <2>1, <2>2, <2>3, RestType, Zenon DEF TypeOK
<1>7. JobInv' /\ ChangeInv' /\ WipeInv' /\ MountInv'
  BY <1>4, <1>5 DEF JobInv, ChangeInv, WipeInv, MountInv, Writing
<1>8. ~wiping => \E t \in Tables : isHeaderValid(t)'
  <2> SUFFICES ASSUME ~wiping PROVE \E t \in Tables : isHeaderValid(t)'
    OBVIOUS
  <2>1. CASE ~Writing
    BY <2>1 DEF IInv, CopyUnlessSpoilt, FormatInv, isHeaderValid, HeaderOk, ChecksumOk, tab
  <2>2. CASE Writing
    <3>1. isHeaderValid(1 - tgt) /\ 1 - tgt \in Tables
      BY <2>2, SMTT(30) DEF IInv, JobInv, ChangeInv, ServingInv, WipeInv, MountInv, TypeOK, Tables
    <3>2. QED
      BY <3>1, Framing
  <2>3. QED
    BY <2>1, <2>2
<1>9. ServingInv'
  <2> SUFFICES ASSUME pc' = "idle" PROVE ServingInv'
    BY <1>5 DEF ServingInv, Serving, Writing
  <2>1. alive /\ UNCHANGED <<hcurr, filecnt, nodes, unread, alive>>
    BY <1>5 DEF ctx
  <2>2. hcurr \in Tables
    BY DEF IInv, TypeOK
  <2>3. CASE job = "format"
    <3>1. hcurr = 0 /\ filecnt = 0 /\ nodes = <<>> /\ wiping /\ want = EmptyHdr
      BY <2>1, <2>3 DEF IInv, WipeInv
    <3>2. hdr'[0] \in {Blank, Torn, EmptyHdr}
      BY <1>2, <2>1, <2>3, <3>1 DEF IInv, WipeInv, Tables
    <3>3. hdr'[0] = EmptyHdr => isHeaderValid(0)' /\ Len(hdr'[0].files) = 0
      BY ConstantsAssumption, EmptyHdrType
         DEF EmptyHdr, isHeaderValid, HeaderOk, ChecksumOk
    <3>4. QED
      BY <1>3, <2>1, <3>1, <3>2, <3>3 DEF ServingInv, Intact
  <2>4. CASE hdr'[hcurr] = hdr[hcurr] /\ ent'[hcurr] = ent[hcurr] /\ Serving
    BY <1>3, <2>1, <2>2, <2>4, Framing DEF IInv, ServingInv
  <2>5. CASE hdr'[hcurr] \in {Blank, Torn} /\ wiping /\ Serving
    BY <1>3, <2>1, <2>5 DEF IInv, ServingInv, Intact
  <2>6. CASE ~Writing
    BY <2>1, <2>4, <2>6 DEF IInv, JobInv, Serving, Writing, tab
  <2>7. CASE Writing /\ job \in {"commit", "alloc"}
    BY <2>2, <2>4, <2>7 DEF IInv, ChangeInv, Tables
  <2>8. CASE Writing /\ job = "chip"
    BY <2>2, <2>4, <2>5, <2>8, SMTT(30) DEF IInv, WipeInv, Serving, Writing, Tables, tab, TypeOK
  <2>9. QED
    BY <2>1, <2>3, <2>6, <2>7, <2>8 DEF IInv, JobInv, MountInv
<1>10. QED
  BY <1>3, <1>4, <1>6, <1>7, <1>8, <1>9 DEF IInv, CopyUnlessSpoilt

\* A reported error is one of those of Failing: no migration is under way.
LEMMA FlashErrors ==
  ASSUME IInv, FlashError
  PROVE  IInv'
<1>1. job \notin {"migrate", "junk", "copy"} /\ pc \in {"erase0", "erase1", "ents", "hdr"}
  BY DEF IInv, JobInv, FlashError, Writing
<1>2. Interrupted /\ Abort /\ UNCHANGED <<acked, wiping>>
  BY <1>1 DEF FlashError
<1>3. spoilt' = spoilt
  BY <1>1 DEF FlashError, IInv, TypeOK
<1>4. pc = "ents" => pos \in 1..Len(want.files)
  BY <1>1 DEF IInv, JobInv, ChangeInv, WipeInv, MountInv, Writing
<1>5. QED
  BY <1>1, <1>2, <1>3, <1>4, Interrupting, Failing DEF IInv, FormatInv, history, Writing

\* The engine is idle, or starts on a table whose content was cleared.
LEMMA ClearContent ==
  ASSUME IInv, clearContent
  PROVE  IInv'
<1>1. CASE Abort
  BY <1>1, Failing DEF clearContent, IInv, TypeOK, tab, history, Writing, Tables
<1>2. CASE pc' = "erase0" /\ UNCHANGED <<ctx, engine, seen, tries>>
  <2> USE <1>2 DEF clearContent, IInv, tab, ctx, engine, history, Intact, Writing,
                   isHeaderValid, HeaderOk, ChecksumOk, Serving
  <2>1. TypeOK' /\ FormatInv'
    BY DEF TypeOK, FormatInv
  <2>2. JobInv' /\ ServingInv'
    BY DEF JobInv, ServingInv
  <2>3. ChangeInv'
    BY DEF ChangeInv, JobInv, EntryOf
  <2>4. WipeInv' /\ MountInv' /\ CopyUnlessSpoilt'
    BY DEF WipeInv, MountInv, CopyUnlessSpoilt, JobInv
  <2>5. QED
    BY <2>1, <2>2, <2>3, <2>4
<1>3. QED
  BY <1>1, <1>2 DEF clearContent

\* Finishing a pending partial erase while mounting keeps the invariant.
LEMMA FinishPartialErase ==
  ASSUME IInv, finishPartialErase
  PROVE  IInv'
<1>1. CASE Abort
  BY <1>1, Failing DEF finishPartialErase, IInv, TypeOK, tab, history, Writing, Tables
<1>2. CASE pc' = "fill" /\ UNCHANGED <<ctx, engine, seen, tries>>
  <2> USE <1>2 DEF finishPartialErase, IInv, tab, ctx, engine, history, Intact, Writing,
                   isHeaderValid, HeaderOk, ChecksumOk, Serving
  <2>1. TypeOK' /\ FormatInv'
    BY DEF TypeOK, FormatInv
  <2>2. JobInv' /\ ServingInv' /\ ChangeInv'
    BY DEF JobInv, ServingInv, ChangeInv
  <2>3. WipeInv' /\ MountInv' /\ CopyUnlessSpoilt'
    BY DEF WipeInv, MountInv, CopyUnlessSpoilt, JobInv
  <2>4. QED
    BY <2>1, <2>2, <2>3
<1>3. QED
  BY <1>1, <1>2 DEF finishPartialErase

=============================================================================
