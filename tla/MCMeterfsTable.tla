--------------------------- MODULE MCMeterfsTable ---------------------------
EXTENDS MeterfsTable

CONSTANTS a, b

File(n, s, u) == [name |-> n, sector |-> s, cnt |-> 2, uid |-> u]

\* File tables left by the release before the v1 format.
OldFileTables ==
  {<<File(a, 6, UidMod - 1)>>, <<File(a, 6, 0), File(b, 8, UidMod - 1)>>}

InitOlds == \E fs \in OldFileTables, n \in Tables : InitOld(fs, n)

\* A fresh partition or an old one.  A server that has started an operation
\* goes on with it, and is started again after a power cut.
FairSpecAll == (Init \/ InitOlds) /\ [][Next]_vars /\ WF_vars(init) /\ WF_vars(Server)

=============================================================================
