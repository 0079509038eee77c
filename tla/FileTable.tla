------------------------------ MODULE FileTable ------------------------------
(***************************************************************************)
(* What the meterfs file table promises its callers, whatever the medium   *)
(* does: the table a mount would present (cur) is the acknowledged one     *)
(* (ack) or that of the one operation that is still unacknowledged.  An    *)
(* operation takes effect in one step, at most one of them can be pending, *)
(* and a power cut never changes the table.                                *)
(***************************************************************************)
EXTENDS Integers, Sequences

CONSTANTS Names, UidMod

VARIABLES
  cur,     \* the table a mount would present
  ack,     \* the table in use
  wiping   \* the partition is being wiped, or was never formatted

\* The file table with one file header replaced, under the file's next uid.
Changed(a) ==
  {[a EXCEPT ![k].uid = (@ + 1) % UidMod] :
     k \in {i \in DOMAIN a : (a[i].uid + 1) % UidMod # UidMod - 1}}

\* b is a with one more file, behind all others and under a new name.
Extends(a, b) ==
  /\ Len(b) = Len(a) + 1
  /\ SubSeq(b, 1, Len(a)) = a
  /\ LET f == b[Len(b)] IN
       /\ f.name \in Names /\ f.uid = UidMod - 1
       /\ \A k \in DOMAIN a : a[k].name # f.name /\ a[k].sector + a[k].cnt <= f.sector

Init == wiping \in BOOLEAN /\ (cur = ack \/ wiping)

Commit ==
  /\ ~wiping
  /\ cur' \in Changed(ack) \/ Extends(ack, cur')
  /\ UNCHANGED <<ack, wiping>>

\* An operation that failed after its commit is undone by the next one.
Undo == ~wiping /\ cur' = ack /\ UNCHANGED <<ack, wiping>>

\* A commit is acknowledged, or a mount presents the table.
Adopt == ack' = cur /\ wiping' = FALSE /\ UNCHANGED cur

\* Of a partition that is wiped nothing is promised.
Wipe == wiping' = TRUE

Next == Commit \/ Undo \/ Adopt \/ Wipe

Spec == Init /\ [][Next]_<<cur, ack, wiping>>
=============================================================================
