---------------------------- MODULE ServersProofs ----------------------------
(***************************************************************************)
(* The start of the servers, for every number of failures: "/" is served,  *)
(* the mounts know where they are, and the lease of an idle client is kept *)
(* as long as nothing fails.                                               *)
(***************************************************************************)
EXTENDS MCServers, TLAPS

-----------------------------------------------------------------------------
(* The inductive invariant                                                 *)

USE DEF NfsPort, RamPort, TmpPort

Ports == {NfsPort, RamPort, TmpPort}
Started == {"splice", "prev", "take", "loop"}

Types ==
  /\ root \in {"none", NfsPort, RamPort} /\ serving \in SUBSET Ports
  /\ prev \in {"none", RamPort} /\ faults \in Nat
  /\ nmode \in Nfs!Modes /\ tmode \in {"mount", "daemon", "named"} /\ rmode = "root"

\* Which steps of the NFS server a mode leads to, and when it serves.
NfsRight ==
  /\ npc \in {"bind", "splice", "prev", "take"} => nmode = "takeover"
  /\ npc = "register" => nmode = "root"
  /\ npc \in Started => NfsPort \in serving
  /\ root = NfsPort => npc \in {"start", "loop"}
  /\ nmode = "takeover" /\ root = NfsPort => npc = "loop"
  /\ nmode = "takeover" /\ npc = "loop" => root = NfsPort

\* The file system in memory has registered "/" and not ended.
Registered == rpc \in {"alloc", "modules", "start", "loop"}

\* It keeps "/" until the NFS server takes it away, and gets it back if that fails.
RootKept ==
  /\ rpc \notin {"wait", "sync"} /\ (RamPort \in serving => rpc = "loop")
  /\ nmode = "takeover" /\ Registered =>
       /\ npc \notin {"take", "loop", "exited"} => root = RamPort
       /\ npc = "take" => root = RamPort \/ (root = "none" /\ (prev = RamPort \/ faults >= 1))
       /\ npc = "exited" => root = RamPort \/ faults >= 2

\* The NFS server is mounted where nfs_mountThread recorded.
NfsMount ==
  /\ \A f : <<f, NfsPort>> \in mnt => nmt = "done" /\ f = ntarget
  /\ nmt \in {"send", "done"} => nparent = ntarget
  /\ nmt \notin {"none", "ended"} => npc = "loop"

\* The second dummyfs is mounted where it sent the mount to.
TmpMount ==
  /\ \A f : <<f, TmpPort>> \in mnt => tmt = "done" /\ f = ttarget
  /\ tmt = "done" => <<ttarget, TmpPort>> \in mnt
  /\ tmt \in {"send", "done"} => ttarget \in dirs
  /\ tpc # "modules" /\ (tpc = "sync" => tmode = "daemon")
  /\ tpc \in {"register", "wait", "alloc"} => tmt = "none"
  /\ tpc = "start" /\ tmode # "daemon" => tmt = "none"
  /\ tmt \notin {"none", "ended"} =>
       tpc \in {"sync", "start", "loop"} /\ tmode \in {"mount", "daemon"}

\* Without a takeover "/" stays what it was when the second dummyfs looked it up.
TmpRoot ==
  nmode # "takeover" =>
    /\ tmode \in {"mount", "daemon"} /\ tpc \in {"sync", "start", "loop"} =>
         tparent = root /\ root # "none"
    /\ tmt \in {"send", "done"} => ttarget = root /\ root # "none"

BootInv == Types /\ NfsRight /\ RootKept /\ NfsMount /\ TmpMount /\ TmpRoot /\ Tmp!WaiterHonest

\* Without a failure the renew thread is never more than a unit late.
LeaseInv ==
  faults \in Nat /\
  (faults = 0 =>
     /\ ctx = "ok" /\ lapsed = FALSE /\ age \in Nat
     /\ renew = "sleep" => age = 0
     /\ renew = "sent" => age <= 1)

IInv ==
  /\ part \in {"boot", "lease"}
  /\ part = "boot" => BootInv
  /\ part = "lease" => LeaseInv

-----------------------------------------------------------------------------
(* The steps of the NFS server                                             *)

Kept == BootInv /\ part = "boot"

\* Lease of the NFS server keeps the invariant.
LEMMA Leased ==
  ASSUME BootInv, Nfs!Lease, UNCHANGED <<rvars, tvars>>
  PROVE  BootInv'
<1>1. Types /\ NfsRight /\ RootKept /\ NfsMount /\ TmpMount /\ TmpRoot /\ Tmp!WaiterHonest
  BY DEF BootInv
<1>2. Types'
  <2>1. faults' \in Nat
    BY <1>1 DEF Types, Nfs!Lease, Nfs!Step, Nfs!Fault, Nfs!Exit, rvars, tvars
  <2>2. serving' \in SUBSET Ports
    BY <1>1 DEF Types, Ports, Nfs!Lease, Nfs!Step, Nfs!Fault, Nfs!Exit, rvars, tvars
  <2>3. root' \in {"none", NfsPort, RamPort} /\ prev' \in {"none", RamPort}
    BY <1>1 DEF Types, Nfs!Lease, Nfs!Step, Nfs!Fault, Nfs!Exit, rvars, tvars
  <2>4. nmode' = nmode /\ tmode' = tmode /\ rmode' = rmode
    BY DEF Nfs!Lease, Nfs!Step, Nfs!Fault, Nfs!Exit, rvars, tvars
  <2>5. QED  BY <1>1, <2>1, <2>2, <2>3, <2>4 DEF Types
<1>3. NfsRight'
  BY <1>1 DEF NfsRight, Types, Started, Nfs!Modes, Nfs!Lease, Nfs!Step, Nfs!Fault, Nfs!Exit, rvars, tvars
<1>4. RootKept'
  BY <1>1 DEF RootKept, Types, NfsRight, Started, Registered, Nfs!Lease, Nfs!Step, Nfs!Fault, Nfs!Exit, rvars, tvars
<1>5. NfsMount'
  BY <1>1 DEF NfsMount, NfsRight, Nfs!Lease, Nfs!Step, Nfs!Fault, Nfs!Exit, rvars, tvars
<1>6. TmpMount'
  BY <1>1 DEF TmpMount, Types, Nfs!Lease, Nfs!Step, Nfs!Fault, Nfs!Exit, rvars, tvars
<1>7. TmpRoot'
  BY <1>1 DEF TmpRoot, Types, NfsRight, TmpMount, Ports, Nfs!Modes, Nfs!Lease, Nfs!Step, Nfs!Fault, Nfs!Exit, rvars, tvars
<1>8. Tmp!WaiterHonest'
  BY <1>1 DEF Tmp!WaiterHonest, TmpMount, Nfs!Lease, Nfs!Step, Nfs!Fault, Nfs!Exit, rvars, tvars
<1>9. QED  BY <1>2, <1>3, <1>4, <1>5, <1>6, <1>7, <1>8 DEF BootInv

\* MountExport of the NFS server keeps the invariant.
LEMMA Mounted ==
  ASSUME BootInv, Nfs!MountExport, UNCHANGED <<rvars, tvars>>
  PROVE  BootInv'
<1>1. Types /\ NfsRight /\ RootKept /\ NfsMount /\ TmpMount /\ TmpRoot /\ Tmp!WaiterHonest
  BY DEF BootInv
<1>2. Types'
  <2>1. faults' \in Nat
    BY <1>1 DEF Types, Nfs!MountExport, Nfs!Step, Nfs!Fault, Nfs!Exit, rvars, tvars
  <2>2. serving' \in SUBSET Ports
    BY <1>1 DEF Types, Ports, Nfs!MountExport, Nfs!Step, Nfs!Fault, Nfs!Exit, rvars, tvars
  <2>3. root' \in {"none", NfsPort, RamPort} /\ prev' \in {"none", RamPort}
    BY <1>1 DEF Types, Nfs!MountExport, Nfs!Step, Nfs!Fault, Nfs!Exit, rvars, tvars
  <2>4. nmode' = nmode /\ tmode' = tmode /\ rmode' = rmode
    BY DEF Nfs!MountExport, Nfs!Step, Nfs!Fault, Nfs!Exit, rvars, tvars
  <2>5. QED  BY <1>1, <2>1, <2>2, <2>3, <2>4 DEF Types
<1>3. NfsRight'
  BY <1>1 DEF NfsRight, Types, Started, Nfs!Modes, Nfs!MountExport, Nfs!Step, Nfs!Fault, Nfs!Exit, rvars, tvars
<1>4. RootKept'
  BY <1>1 DEF RootKept, Types, NfsRight, Started, Registered, Nfs!MountExport, Nfs!Step, Nfs!Fault, Nfs!Exit, rvars, tvars
<1>5. NfsMount'
  BY <1>1 DEF NfsMount, NfsRight, Nfs!MountExport, Nfs!Step, Nfs!Fault, Nfs!Exit, rvars, tvars
<1>6. TmpMount'
  BY <1>1 DEF TmpMount, Types, Nfs!MountExport, Nfs!Step, Nfs!Fault, Nfs!Exit, rvars, tvars
<1>7. TmpRoot'
  BY <1>1 DEF TmpRoot, Types, NfsRight, TmpMount, Ports, Nfs!Modes, Nfs!MountExport, Nfs!Step, Nfs!Fault, Nfs!Exit, rvars, tvars
<1>8. Tmp!WaiterHonest'
  BY <1>1 DEF Tmp!WaiterHonest, TmpMount, Nfs!MountExport, Nfs!Step, Nfs!Fault, Nfs!Exit, rvars, tvars
<1>9. QED  BY <1>2, <1>3, <1>4, <1>5, <1>6, <1>7, <1>8 DEF BootInv

\* Prepare of the NFS server keeps the invariant.
LEMMA Prepared ==
  ASSUME BootInv, Nfs!Prepare, UNCHANGED <<rvars, tvars>>
  PROVE  BootInv'
<1>1. Types /\ NfsRight /\ RootKept /\ NfsMount /\ TmpMount /\ TmpRoot /\ Tmp!WaiterHonest
  BY DEF BootInv
<1>2. Types'
  <2>1. faults' \in Nat
    BY <1>1 DEF Types, Nfs!Prepare, Nfs!Step, Nfs!Fault, Nfs!Exit, rvars, tvars
  <2>2. serving' \in SUBSET Ports
    BY <1>1 DEF Types, Ports, Nfs!Prepare, Nfs!Step, Nfs!Fault, Nfs!Exit, rvars, tvars
  <2>3. root' \in {"none", NfsPort, RamPort} /\ prev' \in {"none", RamPort}
    BY <1>1 DEF Types, Nfs!Prepare, Nfs!Step, Nfs!Fault, Nfs!Exit, rvars, tvars
  <2>4. nmode' = nmode /\ tmode' = tmode /\ rmode' = rmode
    BY DEF Nfs!Prepare, Nfs!Step, Nfs!Fault, Nfs!Exit, rvars, tvars
  <2>5. QED  BY <1>1, <2>1, <2>2, <2>3, <2>4 DEF Types
<1>3. NfsRight'
  BY <1>1 DEF NfsRight, Types, Started, Nfs!Modes, Nfs!Prepare, Nfs!Step, Nfs!Fault, Nfs!Exit, rvars, tvars
<1>4. RootKept'
  BY <1>1 DEF RootKept, Types, NfsRight, Started, Registered, Nfs!Prepare, Nfs!Step, Nfs!Fault, Nfs!Exit, rvars, tvars
<1>5. NfsMount'
  BY <1>1 DEF NfsMount, NfsRight, Nfs!Prepare, Nfs!Step, Nfs!Fault, Nfs!Exit, rvars, tvars
<1>6. TmpMount'
  BY <1>1 DEF TmpMount, Types, Nfs!Prepare, Nfs!Step, Nfs!Fault, Nfs!Exit, rvars, tvars
<1>7. TmpRoot'
  BY <1>1 DEF TmpRoot, Types, NfsRight, TmpMount, Ports, Nfs!Modes, Nfs!Prepare, Nfs!Step, Nfs!Fault, Nfs!Exit, rvars, tvars
<1>8. Tmp!WaiterHonest'
  BY <1>1 DEF Tmp!WaiterHonest, TmpMount, Nfs!Prepare, Nfs!Step, Nfs!Fault, Nfs!Exit, rvars, tvars
<1>9. QED  BY <1>2, <1>3, <1>4, <1>5, <1>6, <1>7, <1>8 DEF BootInv

\* RegisterRoot of the NFS server keeps the invariant.
LEMMA RootRegistered ==
  ASSUME BootInv, Nfs!RegisterRoot, UNCHANGED <<rvars, tvars>>
  PROVE  BootInv'
<1>1. Types /\ NfsRight /\ RootKept /\ NfsMount /\ TmpMount /\ TmpRoot /\ Tmp!WaiterHonest
  BY DEF BootInv
<1>2. Types'
  BY <1>1 DEF Types, Ports, NfsRight, Nfs!Modes, Nfs!RegisterRoot, Nfs!Fault, Nfs!Exit, rvars, tvars
<1>3. NfsRight'
  BY <1>1 DEF NfsRight, Types, Started, Nfs!Modes, Nfs!RegisterRoot, Nfs!Fault, Nfs!Exit, rvars, tvars
<1>4. RootKept'
  BY <1>1 DEF RootKept, Types, NfsRight, Started, Registered, Nfs!RegisterRoot, Nfs!Fault, Nfs!Exit, rvars, tvars
<1>5. NfsMount'
  BY <1>1 DEF NfsMount, NfsRight, Nfs!RegisterRoot, Nfs!Fault, Nfs!Exit, rvars, tvars
<1>6. TmpMount'
  BY <1>1 DEF TmpMount, Types, Nfs!RegisterRoot, Nfs!Fault, Nfs!Exit, rvars, tvars
<1>7. TmpRoot'
  BY <1>1 DEF TmpRoot, Types, NfsRight, TmpMount, Ports, Nfs!Modes, Nfs!RegisterRoot, Nfs!Fault, Nfs!Exit, rvars, tvars
<1>8. Tmp!WaiterHonest'
  BY <1>1 DEF Tmp!WaiterHonest, TmpMount, Nfs!RegisterRoot, Nfs!Fault, Nfs!Exit, rvars, tvars
<1>9. QED  BY <1>2, <1>3, <1>4, <1>5, <1>6, <1>7, <1>8 DEF BootInv

\* Bind of the NFS server keeps the invariant.
LEMMA Bound ==
  ASSUME BootInv, Nfs!Bind, UNCHANGED <<rvars, tvars>>
  PROVE  BootInv'
<1>1. Types /\ NfsRight /\ RootKept /\ NfsMount /\ TmpMount /\ TmpRoot /\ Tmp!WaiterHonest
  BY DEF BootInv
<1>2. Types'
  BY <1>1 DEF Types, Ports, NfsRight, Nfs!Modes, Nfs!Bind, Nfs!Fault, rvars, tvars
<1>3. NfsRight'
  BY <1>1 DEF NfsRight, Types, Started, Nfs!Modes, Nfs!Bind, Nfs!Fault, rvars, tvars
<1>4. RootKept'
  BY <1>1 DEF RootKept, Types, NfsRight, Started, Registered, Nfs!Bind, Nfs!Fault, rvars, tvars
<1>5. NfsMount'
  BY <1>1 DEF NfsMount, NfsRight, Nfs!Bind, Nfs!Fault, rvars, tvars
<1>6. TmpMount'
  BY <1>1 DEF TmpMount, Types, Nfs!Bind, Nfs!Fault, rvars, tvars
<1>7. TmpRoot'
  BY <1>1 DEF TmpRoot, Types, NfsRight, TmpMount, Ports, Nfs!Modes, Nfs!Bind, Nfs!Fault, rvars, tvars
<1>8. Tmp!WaiterHonest'
  BY <1>1 DEF Tmp!WaiterHonest, TmpMount, Nfs!Bind, Nfs!Fault, rvars, tvars
<1>9. QED  BY <1>2, <1>3, <1>4, <1>5, <1>6, <1>7, <1>8 DEF BootInv

\* Start of the NFS server keeps the invariant.
LEMMA Begun ==
  ASSUME BootInv, Nfs!Start, UNCHANGED <<rvars, tvars>>
  PROVE  BootInv'
<1>1. Types /\ NfsRight /\ RootKept /\ NfsMount /\ TmpMount /\ TmpRoot /\ Tmp!WaiterHonest
  BY DEF BootInv
<1>2. Types'
  BY <1>1 DEF Types, Ports, NfsRight, Nfs!Modes, Nfs!Start, rvars, tvars
<1>3. NfsRight'
  BY <1>1 DEF NfsRight, Types, Started, Nfs!Modes, Nfs!Start, rvars, tvars
<1>4. RootKept'
  BY <1>1 DEF RootKept, Types, NfsRight, Started, Registered, Nfs!Start, rvars, tvars
<1>5. NfsMount'
  BY <1>1 DEF NfsMount, NfsRight, Nfs!Start, rvars, tvars
<1>6. TmpMount'
  BY <1>1 DEF TmpMount, Types, Nfs!Start, rvars, tvars
<1>7. TmpRoot'
  BY <1>1 DEF TmpRoot, Types, NfsRight, TmpMount, Ports, Nfs!Modes, Nfs!Start, rvars, tvars
<1>8. Tmp!WaiterHonest'
  BY <1>1 DEF Tmp!WaiterHonest, TmpMount, Nfs!Start, rvars, tvars
<1>9. QED  BY <1>2, <1>3, <1>4, <1>5, <1>6, <1>7, <1>8 DEF BootInv

\* Splice of the NFS server keeps the invariant.
LEMMA Spliced ==
  ASSUME BootInv, Nfs!Splice, UNCHANGED <<rvars, tvars>>
  PROVE  BootInv'
<1>1. Types /\ NfsRight /\ RootKept /\ NfsMount /\ TmpMount /\ TmpRoot /\ Tmp!WaiterHonest
  BY DEF BootInv
<1>2. Types'
  BY <1>1 DEF Types, Ports, NfsRight, Nfs!Modes, Nfs!Splice, rvars, tvars
<1>3. NfsRight'
  BY <1>1 DEF NfsRight, Types, Started, Nfs!Modes, Nfs!Splice, rvars, tvars
<1>4. RootKept'
  BY <1>1 DEF RootKept, Types, NfsRight, Started, Registered, Nfs!Splice, rvars, tvars
<1>5. NfsMount'
  BY <1>1 DEF NfsMount, NfsRight, Nfs!Splice, rvars, tvars
<1>6. TmpMount'
  BY <1>1 DEF TmpMount, Types, Nfs!Splice, rvars, tvars
<1>7. TmpRoot'
  BY <1>1 DEF TmpRoot, Types, NfsRight, TmpMount, Ports, Nfs!Modes, Nfs!Splice, rvars, tvars
<1>8. Tmp!WaiterHonest'
  BY <1>1 DEF Tmp!WaiterHonest, TmpMount, Nfs!Splice, rvars, tvars
<1>9. QED  BY <1>2, <1>3, <1>4, <1>5, <1>6, <1>7, <1>8 DEF BootInv

\* Unregister of the NFS server keeps the invariant.
LEMMA Unregistered ==
  ASSUME BootInv, Nfs!Unregister, UNCHANGED <<rvars, tvars>>
  PROVE  BootInv'
<1>1. Types /\ NfsRight /\ RootKept /\ NfsMount /\ TmpMount /\ TmpRoot /\ Tmp!WaiterHonest
  BY DEF BootInv
<1>2. Types'
  BY <1>1 DEF Types, Ports, NfsRight, Nfs!Modes, Nfs!Unregister, Nfs!Fault, rvars, tvars
<1>3. NfsRight'
  BY <1>1 DEF NfsRight, Types, Started, Nfs!Modes, Nfs!Unregister, Nfs!Fault, rvars, tvars
<1>4. RootKept'
  BY <1>1 DEF RootKept, Types, NfsRight, Started, Registered, Nfs!Unregister, Nfs!Fault, rvars, tvars
<1>5. NfsMount'
  BY <1>1 DEF NfsMount, NfsRight, Nfs!Unregister, Nfs!Fault, rvars, tvars
<1>6. TmpMount'
  BY <1>1 DEF TmpMount, Types, Nfs!Unregister, Nfs!Fault, rvars, tvars
<1>7. TmpRoot'
  BY <1>1 DEF TmpRoot, Types, NfsRight, TmpMount, Ports, Nfs!Modes, Nfs!Unregister, Nfs!Fault, rvars, tvars
<1>8. Tmp!WaiterHonest'
  BY <1>1 DEF Tmp!WaiterHonest, TmpMount, Nfs!Unregister, Nfs!Fault, rvars, tvars
<1>9. QED  BY <1>2, <1>3, <1>4, <1>5, <1>6, <1>7, <1>8 DEF BootInv

\* Take of the NFS server keeps the invariant.
LEMMA Taken ==
  ASSUME BootInv, Nfs!Take, UNCHANGED <<rvars, tvars>>
  PROVE  BootInv'
<1>1. Types /\ NfsRight /\ RootKept /\ NfsMount /\ TmpMount /\ TmpRoot /\ Tmp!WaiterHonest
  BY DEF BootInv
<1>2. Types'
  <2>1. faults' \in Nat
    BY <1>1 DEF Types, Nfs!Take, Nfs!Fault, Nfs!Exit, rvars, tvars
  <2>2. serving' \in SUBSET Ports
    BY <1>1 DEF Types, Ports, Nfs!Take, Nfs!Fault, Nfs!Exit, rvars, tvars
  <2>3. root' \in {"none", NfsPort, RamPort} /\ prev' \in {"none", RamPort}
    BY <1>1 DEF Types, Nfs!Take, Nfs!Fault, Nfs!Exit, rvars, tvars
  <2>4. nmode' = nmode /\ tmode' = tmode /\ rmode' = rmode
    BY DEF Nfs!Take, Nfs!Fault, Nfs!Exit, rvars, tvars
  <2>5. QED  BY <1>1, <2>1, <2>2, <2>3, <2>4 DEF Types
<1>3. NfsRight'
  BY <1>1 DEF NfsRight, Types, Started, Nfs!Modes, Nfs!Take, Nfs!Fault, Nfs!Exit, rvars, tvars
<1>4. RootKept'
  BY <1>1 DEF RootKept, Types, NfsRight, Started, Registered, Nfs!Take, Nfs!Fault, Nfs!Exit, rvars, tvars
<1>5. NfsMount'
  BY <1>1 DEF NfsMount, NfsRight, Nfs!Take, Nfs!Fault, Nfs!Exit, rvars, tvars
<1>6. TmpMount'
  BY <1>1 DEF TmpMount, Types, Nfs!Take, Nfs!Fault, Nfs!Exit, rvars, tvars
<1>7. TmpRoot'
  BY <1>1 DEF TmpRoot, Types, NfsRight, TmpMount, Ports, Nfs!Modes, Nfs!Take, Nfs!Fault, Nfs!Exit, rvars, tvars
<1>8. Tmp!WaiterHonest'
  BY <1>1 DEF Tmp!WaiterHonest, TmpMount, Nfs!Take, Nfs!Fault, Nfs!Exit, rvars, tvars
<1>9. QED  BY <1>2, <1>3, <1>4, <1>5, <1>6, <1>7, <1>8 DEF BootInv

\* Look of the NFS server keeps the invariant.
LEMMA NfsLooked ==
  ASSUME BootInv, Nfs!Look, UNCHANGED <<rvars, tvars>>
  PROVE  BootInv'
<1>1. Types /\ NfsRight /\ RootKept /\ NfsMount /\ TmpMount /\ TmpRoot /\ Tmp!WaiterHonest
  BY DEF BootInv
<1>2. Types'
  BY <1>1 DEF Types, Ports, NfsRight, Nfs!Modes, Nfs!Look, Nfs!kernel, rvars, tvars
<1>3. NfsRight'
  BY <1>1 DEF NfsRight, Types, Started, Nfs!Modes, Nfs!Look, Nfs!kernel, rvars, tvars
<1>4. RootKept'
  BY <1>1 DEF RootKept, Types, NfsRight, Started, Registered, Nfs!Look, Nfs!kernel, rvars, tvars
<1>5. NfsMount'
  BY <1>1 DEF NfsMount, NfsRight, Nfs!Look, Nfs!kernel, rvars, tvars
<1>6. TmpMount'
  BY <1>1 DEF TmpMount, Types, Nfs!Look, Nfs!kernel, rvars, tvars
<1>7. TmpRoot'
  BY <1>1 DEF TmpRoot, Types, NfsRight, TmpMount, Ports, Nfs!Modes, Nfs!Look, Nfs!kernel, rvars, tvars
<1>8. Tmp!WaiterHonest'
  BY <1>1 DEF Tmp!WaiterHonest, TmpMount, Nfs!Look, Nfs!kernel, rvars, tvars
<1>9. QED  BY <1>2, <1>3, <1>4, <1>5, <1>6, <1>7, <1>8 DEF BootInv

\* Record of the NFS server keeps the invariant.
LEMMA Recorded ==
  ASSUME BootInv, Nfs!Record, UNCHANGED <<rvars, tvars>>
  PROVE  BootInv'
<1>1. Types /\ NfsRight /\ RootKept /\ NfsMount /\ TmpMount /\ TmpRoot /\ Tmp!WaiterHonest
  BY DEF BootInv
<1>2. Types'
  BY <1>1 DEF Types, Ports, NfsRight, Nfs!Modes, Nfs!Record, Nfs!kernel, rvars, tvars
<1>3. NfsRight'
  BY <1>1 DEF NfsRight, Types, Started, Nfs!Modes, Nfs!Record, Nfs!kernel, rvars, tvars
<1>4. RootKept'
  BY <1>1 DEF RootKept, Types, NfsRight, Started, Registered, Nfs!Record, Nfs!kernel, rvars, tvars
<1>5. NfsMount'
  BY <1>1 DEF NfsMount, NfsRight, Nfs!Record, Nfs!kernel, rvars, tvars
<1>6. TmpMount'
  BY <1>1 DEF TmpMount, Types, Nfs!Record, Nfs!kernel, rvars, tvars
<1>7. TmpRoot'
  BY <1>1 DEF TmpRoot, Types, NfsRight, TmpMount, Ports, Nfs!Modes, Nfs!Record, Nfs!kernel, rvars, tvars
<1>8. Tmp!WaiterHonest'
  BY <1>1 DEF Tmp!WaiterHonest, TmpMount, Nfs!Record, Nfs!kernel, rvars, tvars
<1>9. QED  BY <1>2, <1>3, <1>4, <1>5, <1>6, <1>7, <1>8 DEF BootInv

\* Send of the NFS server keeps the invariant.
LEMMA NfsSent ==
  ASSUME BootInv, Nfs!Send, UNCHANGED <<rvars, tvars>>
  PROVE  BootInv'
<1>1. Types /\ NfsRight /\ RootKept /\ NfsMount /\ TmpMount /\ TmpRoot /\ Tmp!WaiterHonest
  BY DEF BootInv
<1>2. Types'
  BY <1>1 DEF Types, Ports, NfsRight, Nfs!Modes, Nfs!Send, Nfs!Fault, rvars, tvars
<1>3. NfsRight'
  BY <1>1 DEF NfsRight, Types, Started, Nfs!Modes, Nfs!Send, Nfs!Fault, rvars, tvars
<1>4. RootKept'
  BY <1>1 DEF RootKept, Types, NfsRight, Started, Registered, Nfs!Send, Nfs!Fault, rvars, tvars
<1>5. NfsMount'
  BY <1>1 DEF NfsMount, NfsRight, Nfs!Send, Nfs!Fault, rvars, tvars
<1>6. TmpMount'
  BY <1>1 DEF TmpMount, Types, Nfs!Send, Nfs!Fault, rvars, tvars
<1>7. TmpRoot'
  BY <1>1 DEF TmpRoot, Types, NfsRight, TmpMount, Ports, Nfs!Modes, Nfs!Send, Nfs!Fault, rvars, tvars
<1>8. Tmp!WaiterHonest'
  BY <1>1 DEF Tmp!WaiterHonest, TmpMount, Nfs!Send, Nfs!Fault, rvars, tvars
<1>9. QED  BY <1>2, <1>3, <1>4, <1>5, <1>6, <1>7, <1>8 DEF BootInv

-----------------------------------------------------------------------------
(* The steps of the file system in memory                                  *)

\* Register of the root dummyfs keeps the invariant.
LEMMA RamRegistered ==
  ASSUME BootInv, Ram!Register, UNCHANGED <<nvars, tvars>>
  PROVE  BootInv'
<1>1. Types /\ NfsRight /\ RootKept /\ NfsMount /\ TmpMount /\ TmpRoot /\ Tmp!WaiterHonest
  BY DEF BootInv
<1>2. Types'
  BY <1>1 DEF Types, Ports, NfsRight, Nfs!Modes, Ram!Register, Ram!Exit, nvars, tvars
<1>3. NfsRight'
  BY <1>1 DEF NfsRight, Types, Started, Nfs!Modes, Ram!Register, Ram!Exit, nvars, tvars
<1>4. RootKept'
  BY <1>1 DEF RootKept, Types, NfsRight, Started, Registered, Ram!Register, Ram!Exit, nvars, tvars
<1>5. NfsMount'
  BY <1>1 DEF NfsMount, NfsRight, Ram!Register, Ram!Exit, nvars, tvars
<1>6. TmpMount'
  BY <1>1 DEF TmpMount, Types, Ram!Register, Ram!Exit, nvars, tvars
<1>7. TmpRoot'
  BY <1>1 DEF TmpRoot, Types, NfsRight, TmpMount, Ports, Nfs!Modes, Ram!Register, Ram!Exit, nvars, tvars
<1>8. Tmp!WaiterHonest'
  BY <1>1 DEF Tmp!WaiterHonest, TmpMount, Ram!Register, Ram!Exit, nvars, tvars
<1>9. QED  BY <1>2, <1>3, <1>4, <1>5, <1>6, <1>7, <1>8 DEF BootInv

\* waitMountpt of the root dummyfs keeps the invariant.
LEMMA RamWaited ==
  ASSUME BootInv, Ram!waitMountpt, UNCHANGED <<nvars, tvars>>
  PROVE  BootInv'
<1>1. Types /\ NfsRight /\ RootKept /\ NfsMount /\ TmpMount /\ TmpRoot /\ Tmp!WaiterHonest
  BY DEF BootInv
<1>2. Types'
  BY <1>1 DEF Types, Ports, NfsRight, Nfs!Modes, Ram!waitMountpt, Ram!kernel, nvars, tvars
<1>3. NfsRight'
  BY <1>1 DEF NfsRight, Types, Started, Nfs!Modes, Ram!waitMountpt, Ram!kernel, nvars, tvars
<1>4. RootKept'
  BY <1>1 DEF RootKept, Types, NfsRight, Started, Registered, Ram!waitMountpt, Ram!kernel, nvars, tvars
<1>5. NfsMount'
  BY <1>1 DEF NfsMount, NfsRight, Ram!waitMountpt, Ram!kernel, nvars, tvars
<1>6. TmpMount'
  BY <1>1 DEF TmpMount, Types, Ram!waitMountpt, Ram!kernel, nvars, tvars
<1>7. TmpRoot'
  BY <1>1 DEF TmpRoot, Types, NfsRight, TmpMount, Ports, Nfs!Modes, Ram!waitMountpt, Ram!kernel, nvars, tvars
<1>8. Tmp!WaiterHonest'
  BY <1>1 DEF Tmp!WaiterHonest, TmpMount, Ram!waitMountpt, Ram!kernel, nvars, tvars
<1>9. QED  BY <1>2, <1>3, <1>4, <1>5, <1>6, <1>7, <1>8 DEF BootInv

\* mount of the root dummyfs keeps the invariant.
LEMMA RamMounted ==
  ASSUME BootInv, Ram!mount, UNCHANGED <<nvars, tvars>>
  PROVE  BootInv'
<1>1. Types /\ NfsRight /\ RootKept /\ NfsMount /\ TmpMount /\ TmpRoot /\ Tmp!WaiterHonest
  BY DEF BootInv
<1>2. Types'
  <2>1. faults' \in Nat
    BY <1>1 DEF Types, Ram!mount, Ram!Fault, Ram!Exit, nvars, tvars
  <2>2. serving' \in SUBSET Ports
    BY <1>1 DEF Types, Ports, Ram!mount, Ram!Fault, Ram!Exit, nvars, tvars
  <2>3. root' \in {"none", NfsPort, RamPort} /\ prev' \in {"none", RamPort}
    BY <1>1 DEF Types, Ram!mount, Ram!Fault, Ram!Exit, nvars, tvars
  <2>4. nmode' = nmode /\ tmode' = tmode /\ rmode' = rmode
    BY DEF Ram!mount, Ram!Fault, Ram!Exit, nvars, tvars
  <2>5. QED  BY <1>1, <2>1, <2>2, <2>3, <2>4 DEF Types
<1>3. NfsRight'
  BY <1>1 DEF NfsRight, Types, Started, Nfs!Modes, Ram!mount, Ram!Fault, Ram!Exit, nvars, tvars
<1>4. RootKept'
  BY <1>1 DEF RootKept, Types, NfsRight, Started, Registered, Ram!mount, Ram!Fault, Ram!Exit, nvars, tvars
<1>5. NfsMount'
  BY <1>1 DEF NfsMount, NfsRight, Ram!mount, Ram!Fault, Ram!Exit, nvars, tvars
<1>6. TmpMount'
  BY <1>1 DEF TmpMount, Types, Ram!mount, Ram!Fault, Ram!Exit, nvars, tvars
<1>7. TmpRoot'
  BY <1>1 DEF TmpRoot, Types, NfsRight, TmpMount, Ports, Nfs!Modes, Ram!mount, Ram!Fault, Ram!Exit, nvars, tvars
<1>8. Tmp!WaiterHonest'
  BY <1>1 DEF Tmp!WaiterHonest, TmpMount, Ram!mount, Ram!Fault, Ram!Exit, nvars, tvars
<1>9. QED  BY <1>2, <1>3, <1>4, <1>5, <1>6, <1>7, <1>8 DEF BootInv

\* fetch_modules of the root dummyfs keeps the invariant.
LEMMA RamFetched ==
  ASSUME BootInv, Ram!fetch_modules, UNCHANGED <<nvars, tvars>>
  PROVE  BootInv'
<1>1. Types /\ NfsRight /\ RootKept /\ NfsMount /\ TmpMount /\ TmpRoot /\ Tmp!WaiterHonest
  BY DEF BootInv
<1>2. Types'
  <2>1. faults' \in Nat
    BY <1>1 DEF Types, Ram!fetch_modules, Ram!Fault, Ram!Exit, nvars, tvars
  <2>2. serving' \in SUBSET Ports
    BY <1>1 DEF Types, Ports, Ram!fetch_modules, Ram!Fault, Ram!Exit, nvars, tvars
  <2>3. root' \in {"none", NfsPort, RamPort} /\ prev' \in {"none", RamPort}
    BY <1>1 DEF Types, Ram!fetch_modules, Ram!Fault, Ram!Exit, nvars, tvars
  <2>4. nmode' = nmode /\ tmode' = tmode /\ rmode' = rmode
    BY DEF Ram!fetch_modules, Ram!Fault, Ram!Exit, nvars, tvars
  <2>5. QED  BY <1>1, <2>1, <2>2, <2>3, <2>4 DEF Types
<1>3. NfsRight'
  BY <1>1 DEF NfsRight, Types, Started, Nfs!Modes, Ram!fetch_modules, Ram!Fault, Ram!Exit, nvars, tvars
<1>4. RootKept'
  BY <1>1 DEF RootKept, Types, NfsRight, Started, Registered, Ram!fetch_modules, Ram!Fault, Ram!Exit, nvars, tvars
<1>5. NfsMount'
  BY <1>1 DEF NfsMount, NfsRight, Ram!fetch_modules, Ram!Fault, Ram!Exit, nvars, tvars
<1>6. TmpMount'
  BY <1>1 DEF TmpMount, Types, Ram!fetch_modules, Ram!Fault, Ram!Exit, nvars, tvars
<1>7. TmpRoot'
  BY <1>1 DEF TmpRoot, Types, NfsRight, TmpMount, Ports, Nfs!Modes, Ram!fetch_modules, Ram!Fault, Ram!Exit, nvars, tvars
<1>8. Tmp!WaiterHonest'
  BY <1>1 DEF Tmp!WaiterHonest, TmpMount, Ram!fetch_modules, Ram!Fault, Ram!Exit, nvars, tvars
<1>9. QED  BY <1>2, <1>3, <1>4, <1>5, <1>6, <1>7, <1>8 DEF BootInv

\* SyncMount of the root dummyfs keeps the invariant.
LEMMA RamSyncs ==
  ASSUME BootInv, Ram!SyncMount, UNCHANGED <<nvars, tvars>>
  PROVE  BootInv'
<1>1. Types /\ NfsRight /\ RootKept /\ NfsMount /\ TmpMount /\ TmpRoot /\ Tmp!WaiterHonest
  BY DEF BootInv
<1>2. Types'
  BY <1>1 DEF Types, Ports, NfsRight, Nfs!Modes, Ram!SyncMount, Ram!kernel, nvars, tvars
<1>3. NfsRight'
  BY <1>1 DEF NfsRight, Types, Started, Nfs!Modes, Ram!SyncMount, Ram!kernel, nvars, tvars
<1>4. RootKept'
  BY <1>1 DEF RootKept, Types, NfsRight, Started, Registered, Ram!SyncMount, Ram!kernel, nvars, tvars
<1>5. NfsMount'
  BY <1>1 DEF NfsMount, NfsRight, Ram!SyncMount, Ram!kernel, nvars, tvars
<1>6. TmpMount'
  BY <1>1 DEF TmpMount, Types, Ram!SyncMount, Ram!kernel, nvars, tvars
<1>7. TmpRoot'
  BY <1>1 DEF TmpRoot, Types, NfsRight, TmpMount, Ports, Nfs!Modes, Ram!SyncMount, Ram!kernel, nvars, tvars
<1>8. Tmp!WaiterHonest'
  BY <1>1 DEF Tmp!WaiterHonest, TmpMount, Ram!SyncMount, Ram!kernel, nvars, tvars
<1>9. QED  BY <1>2, <1>3, <1>4, <1>5, <1>6, <1>7, <1>8 DEF BootInv

\* Synced of the root dummyfs keeps the invariant.
LEMMA RamSynced ==
  ASSUME BootInv, Ram!Synced, UNCHANGED <<nvars, tvars>>
  PROVE  BootInv'
<1>1. Types /\ NfsRight /\ RootKept /\ NfsMount /\ TmpMount /\ TmpRoot /\ Tmp!WaiterHonest
  BY DEF BootInv
<1>2. Types'
  BY <1>1 DEF Types, Ports, NfsRight, Nfs!Modes, Ram!Synced, Ram!Exit, nvars, tvars
<1>3. NfsRight'
  BY <1>1 DEF NfsRight, Types, Started, Nfs!Modes, Ram!Synced, Ram!Exit, nvars, tvars
<1>4. RootKept'
  BY <1>1 DEF RootKept, Types, NfsRight, Started, Registered, Ram!Synced, Ram!Exit, nvars, tvars
<1>5. NfsMount'
  BY <1>1 DEF NfsMount, NfsRight, Ram!Synced, Ram!Exit, nvars, tvars
<1>6. TmpMount'
  BY <1>1 DEF TmpMount, Types, Ram!Synced, Ram!Exit, nvars, tvars
<1>7. TmpRoot'
  BY <1>1 DEF TmpRoot, Types, NfsRight, TmpMount, Ports, Nfs!Modes, Ram!Synced, Ram!Exit, nvars, tvars
<1>8. Tmp!WaiterHonest'
  BY <1>1 DEF Tmp!WaiterHonest, TmpMount, Ram!Synced, Ram!Exit, nvars, tvars
<1>9. QED  BY <1>2, <1>3, <1>4, <1>5, <1>6, <1>7, <1>8 DEF BootInv

\* Start of the root dummyfs keeps the invariant.
LEMMA RamStarted ==
  ASSUME BootInv, Ram!Start, UNCHANGED <<nvars, tvars>>
  PROVE  BootInv'
<1>1. Types /\ NfsRight /\ RootKept /\ NfsMount /\ TmpMount /\ TmpRoot /\ Tmp!WaiterHonest
  BY DEF BootInv
<1>2. Types'
  BY <1>1 DEF Types, Ports, NfsRight, Nfs!Modes, Ram!Start, Ram!Serve, nvars, tvars
<1>3. NfsRight'
  BY <1>1 DEF NfsRight, Types, Started, Nfs!Modes, Ram!Start, Ram!Serve, nvars, tvars
<1>4. RootKept'
  BY <1>1 DEF RootKept, Types, NfsRight, Started, Registered, Ram!Start, Ram!Serve, nvars, tvars
<1>5. NfsMount'
  BY <1>1 DEF NfsMount, NfsRight, Ram!Start, Ram!Serve, nvars, tvars
<1>6. TmpMount'
  BY <1>1 DEF TmpMount, Types, Ram!Start, Ram!Serve, nvars, tvars
<1>7. TmpRoot'
  BY <1>1 DEF TmpRoot, Types, NfsRight, TmpMount, Ports, Nfs!Modes, Ram!Start, Ram!Serve, nvars, tvars
<1>8. Tmp!WaiterHonest'
  BY <1>1 DEF Tmp!WaiterHonest, TmpMount, Ram!Start, Ram!Serve, nvars, tvars
<1>9. QED  BY <1>2, <1>3, <1>4, <1>5, <1>6, <1>7, <1>8 DEF BootInv

\* Look of the root dummyfs keeps the invariant.
LEMMA RamLooked ==
  ASSUME BootInv, Ram!Look, UNCHANGED <<nvars, tvars>>
  PROVE  BootInv'
<1>1. Types /\ NfsRight /\ RootKept /\ NfsMount /\ TmpMount /\ TmpRoot /\ Tmp!WaiterHonest
  BY DEF BootInv
<1>2. Types'
  BY <1>1 DEF Types, Ports, NfsRight, Nfs!Modes, Ram!Look, Ram!kernel, nvars, tvars
<1>3. NfsRight'
  BY <1>1 DEF NfsRight, Types, Started, Nfs!Modes, Ram!Look, Ram!kernel, nvars, tvars
<1>4. RootKept'
  BY <1>1 DEF RootKept, Types, NfsRight, Started, Registered, Ram!Look, Ram!kernel, nvars, tvars
<1>5. NfsMount'
  BY <1>1 DEF NfsMount, NfsRight, Ram!Look, Ram!kernel, nvars, tvars
<1>6. TmpMount'
  BY <1>1 DEF TmpMount, Types, Ram!Look, Ram!kernel, nvars, tvars
<1>7. TmpRoot'
  BY <1>1 DEF TmpRoot, Types, NfsRight, TmpMount, Ports, Nfs!Modes, Ram!Look, Ram!kernel, nvars, tvars
<1>8. Tmp!WaiterHonest'
  BY <1>1 DEF Tmp!WaiterHonest, TmpMount, Ram!Look, Ram!kernel, nvars, tvars
<1>9. QED  BY <1>2, <1>3, <1>4, <1>5, <1>6, <1>7, <1>8 DEF BootInv

\* Send of the root dummyfs keeps the invariant.
LEMMA RamSent ==
  ASSUME BootInv, Ram!Send, UNCHANGED <<nvars, tvars>>
  PROVE  BootInv'
<1>1. Types /\ NfsRight /\ RootKept /\ NfsMount /\ TmpMount /\ TmpRoot /\ Tmp!WaiterHonest
  BY DEF BootInv
<1>2. Types'
  BY <1>1 DEF Types, Ports, NfsRight, Nfs!Modes, Ram!Send, Ram!Fault, nvars, tvars
<1>3. NfsRight'
  BY <1>1 DEF NfsRight, Types, Started, Nfs!Modes, Ram!Send, Ram!Fault, nvars, tvars
<1>4. RootKept'
  BY <1>1 DEF RootKept, Types, NfsRight, Started, Registered, Ram!Send, Ram!Fault, nvars, tvars
<1>5. NfsMount'
  BY <1>1 DEF NfsMount, NfsRight, Ram!Send, Ram!Fault, nvars, tvars
<1>6. TmpMount'
  BY <1>1 DEF TmpMount, Types, Ram!Send, Ram!Fault, nvars, tvars
<1>7. TmpRoot'
  BY <1>1 DEF TmpRoot, Types, NfsRight, TmpMount, Ports, Nfs!Modes, Ram!Send, Ram!Fault, nvars, tvars
<1>8. Tmp!WaiterHonest'
  BY <1>1 DEF Tmp!WaiterHonest, TmpMount, Ram!Send, Ram!Fault, nvars, tvars
<1>9. QED  BY <1>2, <1>3, <1>4, <1>5, <1>6, <1>7, <1>8 DEF BootInv

-----------------------------------------------------------------------------
(* The steps of the second dummyfs                                         *)

\* Register of the second dummyfs keeps the invariant.
LEMMA TmpRegistered ==
  ASSUME BootInv, Tmp!Register, UNCHANGED <<nvars, rvars>>
  PROVE  BootInv'
<1>1. Types /\ NfsRight /\ RootKept /\ NfsMount /\ TmpMount /\ TmpRoot /\ Tmp!WaiterHonest
  BY DEF BootInv
<1>2. Types'
  BY <1>1 DEF Types, Ports, NfsRight, Nfs!Modes, Tmp!Register, Tmp!Exit, nvars, rvars
<1>3. NfsRight'
  BY <1>1 DEF NfsRight, Types, Started, Nfs!Modes, Tmp!Register, Tmp!Exit, nvars, rvars
<1>4. RootKept'
  BY <1>1 DEF RootKept, Types, NfsRight, Started, Registered, Tmp!Register, Tmp!Exit, nvars, rvars
<1>5. NfsMount'
  BY <1>1 DEF NfsMount, NfsRight, Tmp!Register, Tmp!Exit, nvars, rvars
<1>6. TmpMount'
  BY <1>1 DEF TmpMount, Types, Tmp!Register, Tmp!Exit, nvars, rvars
<1>7. TmpRoot'
  BY <1>1 DEF TmpRoot, Types, NfsRight, TmpMount, Ports, Nfs!Modes, Tmp!Register, Tmp!Exit, nvars, rvars
<1>8. Tmp!WaiterHonest'
  BY <1>1 DEF Tmp!WaiterHonest, TmpMount, Tmp!Register, Tmp!Exit, nvars, rvars
<1>9. QED  BY <1>2, <1>3, <1>4, <1>5, <1>6, <1>7, <1>8 DEF BootInv

\* waitMountpt of the second dummyfs keeps the invariant.
LEMMA TmpWaited ==
  ASSUME BootInv, Tmp!waitMountpt, UNCHANGED <<nvars, rvars>>
  PROVE  BootInv'
<1>1. Types /\ NfsRight /\ RootKept /\ NfsMount /\ TmpMount /\ TmpRoot /\ Tmp!WaiterHonest
  BY DEF BootInv
<1>2. Types'
  BY <1>1 DEF Types, Ports, NfsRight, Nfs!Modes, Tmp!waitMountpt, Tmp!kernel, nvars, rvars
<1>3. NfsRight'
  BY <1>1 DEF NfsRight, Types, Started, Nfs!Modes, Tmp!waitMountpt, Tmp!kernel, nvars, rvars
<1>4. RootKept'
  BY <1>1 DEF RootKept, Types, NfsRight, Started, Registered, Tmp!waitMountpt, Tmp!kernel, nvars, rvars
<1>5. NfsMount'
  BY <1>1 DEF NfsMount, NfsRight, Tmp!waitMountpt, Tmp!kernel, nvars, rvars
<1>6. TmpMount'
  BY <1>1 DEF TmpMount, Types, Tmp!waitMountpt, Tmp!kernel, nvars, rvars
<1>7. TmpRoot'
  BY <1>1 DEF TmpRoot, Types, NfsRight, TmpMount, Ports, Nfs!Modes, Tmp!waitMountpt, Tmp!kernel, nvars, rvars
<1>8. Tmp!WaiterHonest'
  BY <1>1 DEF Tmp!WaiterHonest, TmpMount, Tmp!waitMountpt, Tmp!kernel, nvars, rvars
<1>9. QED  BY <1>2, <1>3, <1>4, <1>5, <1>6, <1>7, <1>8 DEF BootInv

\* mount of the second dummyfs keeps the invariant.
LEMMA TmpMounted ==
  ASSUME BootInv, Tmp!mount, UNCHANGED <<nvars, rvars>>
  PROVE  BootInv'
<1>1. Types /\ NfsRight /\ RootKept /\ NfsMount /\ TmpMount /\ TmpRoot /\ Tmp!WaiterHonest
  BY DEF BootInv
<1>2. Types'
  <2>1. faults' \in Nat
    BY <1>1 DEF Types, Tmp!mount, Tmp!Fault, Tmp!Exit, Tmp!Found, Tmp!Missing, nvars, rvars
  <2>2. serving' \in SUBSET Ports
    BY <1>1 DEF Types, Ports, Tmp!mount, Tmp!Fault, Tmp!Exit, Tmp!Found, Tmp!Missing, nvars, rvars
  <2>3. root' \in {"none", NfsPort, RamPort} /\ prev' \in {"none", RamPort}
    BY <1>1 DEF Types, Tmp!mount, Tmp!Fault, Tmp!Exit, Tmp!Found, Tmp!Missing, nvars, rvars
  <2>4. nmode' = nmode /\ tmode' = tmode /\ rmode' = rmode
    BY DEF Tmp!mount, Tmp!Fault, Tmp!Exit, Tmp!Found, Tmp!Missing, nvars, rvars
  <2>5. QED  BY <1>1, <2>1, <2>2, <2>3, <2>4 DEF Types
<1>3. NfsRight'
  BY <1>1 DEF NfsRight, Types, Started, Nfs!Modes, Tmp!mount, Tmp!Fault, Tmp!Exit, Tmp!Found, Tmp!Missing, nvars, rvars
<1>4. RootKept'
  BY <1>1 DEF RootKept, Types, NfsRight, Started, Registered, Tmp!mount, Tmp!Fault, Tmp!Exit, Tmp!Found, Tmp!Missing, nvars, rvars
<1>5. NfsMount'
  BY <1>1 DEF NfsMount, NfsRight, Tmp!mount, Tmp!Fault, Tmp!Exit, Tmp!Found, Tmp!Missing, nvars, rvars
<1>6. TmpMount'
  BY <1>1 DEF TmpMount, Types, Tmp!mount, Tmp!Fault, Tmp!Exit, Tmp!Found, Tmp!Missing, nvars, rvars
<1>7. TmpRoot'
  BY <1>1 DEF TmpRoot, Types, NfsRight, TmpMount, Ports, Nfs!Modes, Tmp!mount, Tmp!Fault, Tmp!Exit, Tmp!Found, Tmp!Missing, nvars, rvars
<1>8. Tmp!WaiterHonest'
  BY <1>1 DEF Tmp!WaiterHonest, TmpMount, Tmp!mount, Tmp!Fault, Tmp!Exit, Tmp!Found, Tmp!Missing, nvars, rvars
<1>9. QED  BY <1>2, <1>3, <1>4, <1>5, <1>6, <1>7, <1>8 DEF BootInv

\* fetch_modules of the second dummyfs keeps the invariant.
LEMMA TmpFetched ==
  ASSUME BootInv, Tmp!fetch_modules, UNCHANGED <<nvars, rvars>>
  PROVE  BootInv'
<1>1. Types /\ NfsRight /\ RootKept /\ NfsMount /\ TmpMount /\ TmpRoot /\ Tmp!WaiterHonest
  BY DEF BootInv
<1>2. Types'
  <2>1. faults' \in Nat
    BY <1>1 DEF Types, Tmp!fetch_modules, Tmp!Fault, Tmp!Exit, nvars, rvars
  <2>2. serving' \in SUBSET Ports
    BY <1>1 DEF Types, Ports, Tmp!fetch_modules, Tmp!Fault, Tmp!Exit, nvars, rvars
  <2>3. root' \in {"none", NfsPort, RamPort} /\ prev' \in {"none", RamPort}
    BY <1>1 DEF Types, Tmp!fetch_modules, Tmp!Fault, Tmp!Exit, nvars, rvars
  <2>4. nmode' = nmode /\ tmode' = tmode /\ rmode' = rmode
    BY DEF Tmp!fetch_modules, Tmp!Fault, Tmp!Exit, nvars, rvars
  <2>5. QED  BY <1>1, <2>1, <2>2, <2>3, <2>4 DEF Types
<1>3. NfsRight'
  BY <1>1 DEF NfsRight, Types, Started, Nfs!Modes, Tmp!fetch_modules, Tmp!Fault, Tmp!Exit, nvars, rvars
<1>4. RootKept'
  BY <1>1 DEF RootKept, Types, NfsRight, Started, Registered, Tmp!fetch_modules, Tmp!Fault, Tmp!Exit, nvars, rvars
<1>5. NfsMount'
  BY <1>1 DEF NfsMount, NfsRight, Tmp!fetch_modules, Tmp!Fault, Tmp!Exit, nvars, rvars
<1>6. TmpMount'
  BY <1>1 DEF TmpMount, Types, Tmp!fetch_modules, Tmp!Fault, Tmp!Exit, nvars, rvars
<1>7. TmpRoot'
  BY <1>1 DEF TmpRoot, Types, NfsRight, TmpMount, Ports, Nfs!Modes, Tmp!fetch_modules, Tmp!Fault, Tmp!Exit, nvars, rvars
<1>8. Tmp!WaiterHonest'
  BY <1>1 DEF Tmp!WaiterHonest, TmpMount, Tmp!fetch_modules, Tmp!Fault, Tmp!Exit, nvars, rvars
<1>9. QED  BY <1>2, <1>3, <1>4, <1>5, <1>6, <1>7, <1>8 DEF BootInv

\* SyncMount of the second dummyfs keeps the invariant.
LEMMA TmpSyncs ==
  ASSUME BootInv, Tmp!SyncMount, UNCHANGED <<nvars, rvars>>
  PROVE  BootInv'
<1>1. Types /\ NfsRight /\ RootKept /\ NfsMount /\ TmpMount /\ TmpRoot /\ Tmp!WaiterHonest
  BY DEF BootInv
<1>2. Types'
  BY <1>1 DEF Types, Ports, NfsRight, Nfs!Modes, Tmp!SyncMount, Tmp!kernel, nvars, rvars
<1>3. NfsRight'
  BY <1>1 DEF NfsRight, Types, Started, Nfs!Modes, Tmp!SyncMount, Tmp!kernel, nvars, rvars
<1>4. RootKept'
  BY <1>1 DEF RootKept, Types, NfsRight, Started, Registered, Tmp!SyncMount, Tmp!kernel, nvars, rvars
<1>5. NfsMount'
  BY <1>1 DEF NfsMount, NfsRight, Tmp!SyncMount, Tmp!kernel, nvars, rvars
<1>6. TmpMount'
  BY <1>1 DEF TmpMount, Types, Tmp!SyncMount, Tmp!kernel, nvars, rvars
<1>7. TmpRoot'
  BY <1>1 DEF TmpRoot, Types, NfsRight, TmpMount, Ports, Nfs!Modes, Tmp!SyncMount, Tmp!kernel, nvars, rvars
<1>8. Tmp!WaiterHonest'
  BY <1>1 DEF Tmp!WaiterHonest, TmpMount, Tmp!SyncMount, Tmp!kernel, nvars, rvars
<1>9. QED  BY <1>2, <1>3, <1>4, <1>5, <1>6, <1>7, <1>8 DEF BootInv

\* Synced of the second dummyfs keeps the invariant.
LEMMA TmpSynced ==
  ASSUME BootInv, Tmp!Synced, UNCHANGED <<nvars, rvars>>
  PROVE  BootInv'
<1>1. Types /\ NfsRight /\ RootKept /\ NfsMount /\ TmpMount /\ TmpRoot /\ Tmp!WaiterHonest
  BY DEF BootInv
<1>2. Types'
  BY <1>1 DEF Types, Ports, NfsRight, Nfs!Modes, Tmp!Synced, Tmp!Exit, nvars, rvars
<1>3. NfsRight'
  BY <1>1 DEF NfsRight, Types, Started, Nfs!Modes, Tmp!Synced, Tmp!Exit, nvars, rvars
<1>4. RootKept'
  BY <1>1 DEF RootKept, Types, NfsRight, Started, Registered, Tmp!Synced, Tmp!Exit, nvars, rvars
<1>5. NfsMount'
  BY <1>1 DEF NfsMount, NfsRight, Tmp!Synced, Tmp!Exit, nvars, rvars
<1>6. TmpMount'
  BY <1>1 DEF TmpMount, Types, Tmp!Synced, Tmp!Exit, nvars, rvars
<1>7. TmpRoot'
  BY <1>1 DEF TmpRoot, Types, NfsRight, TmpMount, Ports, Nfs!Modes, Tmp!Synced, Tmp!Exit, nvars, rvars
<1>8. Tmp!WaiterHonest'
  BY <1>1 DEF Tmp!WaiterHonest, TmpMount, Tmp!Synced, Tmp!Exit, nvars, rvars
<1>9. QED  BY <1>2, <1>3, <1>4, <1>5, <1>6, <1>7, <1>8 DEF BootInv

\* Start of the second dummyfs keeps the invariant.
LEMMA TmpStarted ==
  ASSUME BootInv, Tmp!Start, UNCHANGED <<nvars, rvars>>
  PROVE  BootInv'
<1>1. Types /\ NfsRight /\ RootKept /\ NfsMount /\ TmpMount /\ TmpRoot /\ Tmp!WaiterHonest
  BY DEF BootInv
<1>2. Types'
  BY <1>1 DEF Types, Ports, NfsRight, Nfs!Modes, Tmp!Start, Tmp!Serve, nvars, rvars
<1>3. NfsRight'
  BY <1>1 DEF NfsRight, Types, Started, Nfs!Modes, Tmp!Start, Tmp!Serve, nvars, rvars
<1>4. RootKept'
  BY <1>1 DEF RootKept, Types, NfsRight, Started, Registered, Tmp!Start, Tmp!Serve, nvars, rvars
<1>5. NfsMount'
  BY <1>1 DEF NfsMount, NfsRight, Tmp!Start, Tmp!Serve, nvars, rvars
<1>6. TmpMount'
  BY <1>1 DEF TmpMount, Types, Tmp!Start, Tmp!Serve, nvars, rvars
<1>7. TmpRoot'
  BY <1>1 DEF TmpRoot, Types, NfsRight, TmpMount, Ports, Nfs!Modes, Tmp!Start, Tmp!Serve, nvars, rvars
<1>8. Tmp!WaiterHonest'
  BY <1>1 DEF Tmp!WaiterHonest, TmpMount, Tmp!Start, Tmp!Serve, nvars, rvars
<1>9. QED  BY <1>2, <1>3, <1>4, <1>5, <1>6, <1>7, <1>8 DEF BootInv

\* Look of the second dummyfs keeps the invariant.
LEMMA TmpLooked ==
  ASSUME BootInv, Tmp!Look, UNCHANGED <<nvars, rvars>>
  PROVE  BootInv'
<1>1. Types /\ NfsRight /\ RootKept /\ NfsMount /\ TmpMount /\ TmpRoot /\ Tmp!WaiterHonest
  BY DEF BootInv
<1>2. Types'
  BY <1>1 DEF Types, Ports, NfsRight, Nfs!Modes, Tmp!Look, Tmp!kernel, Tmp!Found, Tmp!Missing, nvars, rvars
<1>3. NfsRight'
  BY <1>1 DEF NfsRight, Types, Started, Nfs!Modes, Tmp!Look, Tmp!kernel, Tmp!Found, Tmp!Missing, nvars, rvars
<1>4. RootKept'
  BY <1>1 DEF RootKept, Types, NfsRight, Started, Registered, Tmp!Look, Tmp!kernel, Tmp!Found, Tmp!Missing, nvars, rvars
<1>5. NfsMount'
  BY <1>1 DEF NfsMount, NfsRight, Tmp!Look, Tmp!kernel, Tmp!Found, Tmp!Missing, nvars, rvars
<1>6. TmpMount'
  BY <1>1 DEF TmpMount, Types, Tmp!Look, Tmp!kernel, Tmp!Found, Tmp!Missing, nvars, rvars
<1>7. TmpRoot'
  BY <1>1 DEF TmpRoot, Types, NfsRight, TmpMount, Ports, Nfs!Modes, Tmp!Look, Tmp!kernel, Tmp!Found, Tmp!Missing, nvars, rvars
<1>8. Tmp!WaiterHonest'
  BY <1>1 DEF Tmp!WaiterHonest, TmpMount, Tmp!Look, Tmp!kernel, Tmp!Found, Tmp!Missing, nvars, rvars
<1>9. QED  BY <1>2, <1>3, <1>4, <1>5, <1>6, <1>7, <1>8 DEF BootInv

\* Send of the second dummyfs keeps the invariant.
LEMMA TmpSent ==
  ASSUME BootInv, Tmp!Send, UNCHANGED <<nvars, rvars>>
  PROVE  BootInv'
<1>1. Types /\ NfsRight /\ RootKept /\ NfsMount /\ TmpMount /\ TmpRoot /\ Tmp!WaiterHonest
  BY DEF BootInv
<1>2. Types'
  BY <1>1 DEF Types, Ports, NfsRight, Nfs!Modes, Tmp!Send, Tmp!Fault, nvars, rvars
<1>3. NfsRight'
  BY <1>1 DEF NfsRight, Types, Started, Nfs!Modes, Tmp!Send, Tmp!Fault, nvars, rvars
<1>4. RootKept'
  BY <1>1 DEF RootKept, Types, NfsRight, Started, Registered, Tmp!Send, Tmp!Fault, nvars, rvars
<1>5. NfsMount'
  BY <1>1 DEF NfsMount, NfsRight, Tmp!Send, Tmp!Fault, nvars, rvars
<1>6. TmpMount'
  BY <1>1 DEF TmpMount, Types, Tmp!Send, Tmp!Fault, nvars, rvars
<1>7. TmpRoot'
  BY <1>1 DEF TmpRoot, Types, NfsRight, TmpMount, Ports, Nfs!Modes, Tmp!Send, Tmp!Fault, nvars, rvars
<1>8. Tmp!WaiterHonest'
  BY <1>1 DEF Tmp!WaiterHonest, TmpMount, Tmp!Send, Tmp!Fault, nvars, rvars
<1>9. QED  BY <1>2, <1>3, <1>4, <1>5, <1>6, <1>7, <1>8 DEF BootInv

\* Waiter of the second dummyfs keeps the invariant.
LEMMA TmpWaiterKeeps ==
  ASSUME BootInv, Tmp!Waiter, UNCHANGED <<nvars, rvars>>
  PROVE  BootInv'
<1>1. Types /\ NfsRight /\ RootKept /\ NfsMount /\ TmpMount /\ TmpRoot /\ Tmp!WaiterHonest
  BY DEF BootInv
<1>2. Types'
  BY <1>1 DEF Types, Ports, NfsRight, Nfs!Modes, Tmp!Waiter, Tmp!kernel, nvars, rvars
<1>3. NfsRight'
  BY <1>1 DEF NfsRight, Types, Started, Nfs!Modes, Tmp!Waiter, Tmp!kernel, nvars, rvars
<1>4. RootKept'
  BY <1>1 DEF RootKept, Types, NfsRight, Started, Registered, Tmp!Waiter, Tmp!kernel, nvars, rvars
<1>5. NfsMount'
  BY <1>1 DEF NfsMount, NfsRight, Tmp!Waiter, Tmp!kernel, nvars, rvars
<1>6. TmpMount'
  BY <1>1 DEF TmpMount, Types, Tmp!Waiter, Tmp!kernel, nvars, rvars
<1>7. TmpRoot'
  BY <1>1 DEF TmpRoot, Types, NfsRight, TmpMount, Ports, Nfs!Modes, Tmp!Waiter, Tmp!kernel, nvars, rvars
<1>8. Tmp!WaiterHonest'
  BY <1>1 DEF Tmp!WaiterHonest, TmpMount, Tmp!Waiter, Tmp!kernel, nvars, rvars
<1>9. QED  BY <1>2, <1>3, <1>4, <1>5, <1>6, <1>7, <1>8 DEF BootInv

\* Making a mount point keeps the invariant.
LEMMA DirsMade ==
  ASSUME BootInv, MakeDirs
  PROVE  BootInv'
<1>1. /\ dirs \subseteq dirs'
      /\ UNCHANGED <<root, mnt, serving, gone, named, faults, nvars, rvars, tvars>>
  BY DEF MakeDirs
<1>2. Types' /\ NfsRight' /\ RootKept' /\ NfsMount' /\ TmpRoot'
  BY <1>1 DEF BootInv, Types, NfsRight, RootKept, NfsMount, TmpRoot, Registered, nvars, rvars, tvars
<1>3. TmpMount'
  BY <1>1 DEF BootInv, TmpMount, tvars
<1>4. Tmp!WaiterHonest'
  BY <1>1 DEF BootInv, Tmp!WaiterHonest, tvars
<1>5. QED  BY <1>2, <1>3, <1>4 DEF BootInv

-----------------------------------------------------------------------------
(* The steps of the lease                                                  *)

\* A step of the loop of the NFS server keeps the lease, unless it fails.
LEMMA Served ==
  ASSUME LeaseInv, Lease!ServeRenew \/ Lease!ServeRequest
  PROVE  LeaseInv'
<1>1. faults' \in Nat /\ (faults' = 0 => faults = 0 /\ faults' = faults)
  BY DEF LeaseInv, Lease!ServeRenew, Lease!ServeRequest, Lease!Unrepaired, Lease!Fault
<1>2. CASE faults' = 0 /\ Lease!ServeRenew
  <2>1. ctx' = "ok" /\ lapsed' = FALSE /\ age' = 0 /\ renew' = "sleep"
    BY <1>1, <1>2 DEF LeaseInv, Lease!ServeRenew, Lease!Unrepaired, Lease!Fault, Lease!Reclaimed
  <2>2. QED  BY <1>1, <2>1 DEF LeaseInv
<1>3. CASE faults' = 0 /\ Lease!ServeRequest
  <2>1. ctx' = "ok" /\ lapsed' = FALSE /\ age' = age /\ renew' = renew
    BY <1>1, <1>3 DEF LeaseInv, Lease!ServeRequest, Lease!Unrepaired, Lease!Fault, Lease!Reclaimed
  <2>2. QED  BY <1>1, <2>1 DEF LeaseInv
<1>4. QED  BY <1>1, <1>2, <1>3 DEF LeaseInv

\* Every step of the lease keeps its invariant.
LEMMA LeaseKeeps ==
  ASSUME LeaseInv, Lease!Next
  PROVE  LeaseInv'
<1>1. CASE Lease!Wake
  <2>1. faults' = faults /\ ctx' = ctx /\ renew = "sleep" /\ renew' = "sent"
    BY <1>1 DEF Lease!Wake
  <2>2. CASE faults = 0
    <3>1. age = 0 /\ lapsed = FALSE /\ ctx = "ok"
      BY <2>1, <2>2 DEF LeaseInv
    <3>2. age' = 1 /\ lapsed' = (lapsed \/ age + 1 >= 2)
      BY <1>1, <3>1 DEF Lease!Wake, Lease!Older
    <3>3. ~(age + 1 >= 2)
      BY <3>1
    <3>4. lapsed' = FALSE
      BY <3>1, <3>2, <3>3
    <3>5. QED  BY <2>1, <2>2, <3>1, <3>2, <3>4 DEF LeaseInv
  <2>3. QED  BY <2>1, <2>2 DEF LeaseInv
<1>2. CASE Lease!Stall
  BY <1>2 DEF LeaseInv, Lease!Stall, Lease!Fault
<1>3. CASE Lease!Ask
  BY <1>3 DEF LeaseInv, Lease!Ask
<1>4. QED  BY <1>1, <1>2, <1>3, Served DEF Lease!Next

-----------------------------------------------------------------------------
(* The theorems                                                            *)

\* The invariant holds at the start.
LEMMA InitIs == ASSUME Init PROVE IInv
<1>1. CASE part = "boot" /\ InitBoot
  <2>1. Types
    BY <1>1 DEF InitBoot, Types, Ports, Nfs!OwnInit
  <2>2. NfsRight /\ RootKept /\ NfsMount
    BY <1>1 DEF InitBoot, NfsRight, RootKept, NfsMount, Registered, Started, Nfs!OwnInit, Ram!OwnInit
  <2>3. TmpMount /\ TmpRoot /\ Tmp!WaiterHonest
    BY <1>1 DEF InitBoot, TmpMount, TmpRoot, Tmp!WaiterHonest, Tmp!OwnInit
  <2>4. QED  BY <1>1, <2>1, <2>2, <2>3 DEF IInv, BootInv
<1>2. CASE part = "lease" /\ Lease!Init
  BY <1>2 DEF IInv, LeaseInv, Lease!Init
<1>3. QED  BY <1>1, <1>2 DEF Init

\* Every step of the start-up keeps its invariant.
LEMMA BootKeeps == ASSUME BootInv, part = "boot", Next PROVE BootInv' /\ part' = "boot"
<1>1. CASE NfsMain \/ NfsMounting
  <2>1. part' = "boot" /\ UNCHANGED <<rvars, tvars>> /\ (Nfs!Main \/ Nfs!Mounting)
    BY <1>1 DEF NfsMain, NfsMounting, Boot
  <2>2. QED  BY <2>1, Leased, Mounted, Prepared, RootRegistered, Bound, Begun, Spliced, Unregistered,
                Taken, NfsLooked, Recorded, NfsSent DEF Nfs!Main, Nfs!Mounting
<1>2. CASE RamMain \/ RamMounting
  <2>1. part' = "boot" /\ UNCHANGED <<nvars, tvars>> /\ (Ram!Main \/ Ram!Mounting)
    BY <1>2 DEF RamMain, RamMounting, Boot
  <2>2. QED  BY <2>1, RamRegistered, RamWaited, RamMounted, RamFetched, RamSyncs, RamSynced, RamStarted,
                RamLooked, RamSent DEF Ram!Main, Ram!Mounting
<1>3. CASE TmpMain \/ TmpMounting \/ TmpWaiter
  <2>1. part' = "boot" /\ UNCHANGED <<nvars, rvars>> /\ (Tmp!Main \/ Tmp!Mounting \/ Tmp!Waiter)
    BY <1>3 DEF TmpMain, TmpMounting, TmpWaiter, Boot
  <2>2. QED  BY <2>1, TmpRegistered, TmpWaited, TmpMounted, TmpFetched, TmpSyncs, TmpSynced, TmpStarted,
                TmpLooked, TmpSent, TmpWaiterKeeps DEF Tmp!Main, Tmp!Mounting
<1>4. CASE MakeDirs
  BY <1>4, DirsMade DEF MakeDirs
<1>5. ~LeaseNext
  BY DEF LeaseNext, AtLease
<1>6. QED  BY <1>1, <1>2, <1>3, <1>4, <1>5 DEF Next

\* A stuttering step keeps the invariant.
LEMMA StutterIs == ASSUME IInv, UNCHANGED vars PROVE IInv'
<1>1. part' = part /\ UNCHANGED <<kernel, nvars, rvars, tvars, lvars>>
  BY DEF vars
<1>2. CASE part = "boot"
  <2>1. Types' /\ NfsRight' /\ RootKept' /\ NfsMount'
    BY <1>1, <1>2 DEF IInv, BootInv, Types, NfsRight, RootKept, NfsMount, Registered, kernel, nvars, rvars, tvars
  <2>2. TmpMount' /\ TmpRoot' /\ Tmp!WaiterHonest'
    BY <1>1, <1>2 DEF IInv, BootInv, TmpMount, TmpRoot, Tmp!WaiterHonest, kernel, nvars, tvars
  <2>3. QED  BY <1>1, <1>2, <2>1, <2>2 DEF IInv, BootInv
<1>3. CASE part = "lease"
  BY <1>1, <1>3 DEF IInv, LeaseInv, kernel, lvars
<1>4. QED  BY <1>2, <1>3 DEF IInv

\* The start-up of the servers and the lease keep their invariant at every step of
\* nfs/srv.c and dummyfs/srv.c, whichever of the calls fail and how often.
THEOREM Invariance == Spec => []IInv
<1>1. Init => IInv
  BY InitIs
<1>2. IInv /\ [Next]_vars => IInv'
  <2>1. CASE UNCHANGED vars
    BY <2>1, StutterIs
  <2>2. CASE Next /\ part = "boot"
    BY <2>2, BootKeeps DEF IInv
  <2>3. CASE Next /\ part = "lease"
    <3>1. part' = part /\ Lease!Next
      BY <2>3 DEF Next, LeaseNext, AtLease, NfsMain, NfsMounting, RamMain, RamMounting, TmpMain,
                  TmpMounting, TmpWaiter, Boot, MakeDirs
    <3>2. QED  BY <2>3, <3>1, LeaseKeeps DEF IInv
  <2>4. QED  BY <2>1, <2>2, <2>3 DEF IInv
<1>3. QED  BY <1>1, <1>2, PTL DEF Spec

\* The export becomes "/" only with its mounts in place.
LEMMA BindsKept == ASSUME IInv, Next, part = "boot" PROVE Nfs!BindsReady
<1>1. SUFFICES ASSUME root = NfsPort PROVE binds' = binds
  BY DEF Nfs!BindsReady
<1>2. npc # "bind"
  BY <1>1 DEF IInv, BootInv, NfsRight
<1>3. CASE NfsMain
  BY <1>2, <1>3 DEF NfsMain, Nfs!Main, Nfs!Lease, Nfs!MountExport, Nfs!Prepare, Nfs!RegisterRoot, Nfs!Bind,
                    Nfs!Start, Nfs!Splice, Nfs!Unregister, Nfs!Take
<1>4. CASE NfsMounting
  BY <1>4 DEF NfsMounting, Nfs!Mounting, Nfs!Look, Nfs!Record, Nfs!Send
<1>5. CASE ~NfsMain /\ ~NfsMounting
  BY <1>5 DEF Next, RamMain, RamMounting, TmpMain, TmpMounting, TmpWaiter, MakeDirs, LeaseNext, AtLease, nvars
<1>6. QED  BY <1>3, <1>4, <1>5

\* "/" never leads to an NFS server that does not serve, a takeover that fails gives
\* "/" back to the server that had it (nfs_runTakeover), the mounts of the export are
\* in place when it becomes "/", a server that can be reached at a mount point knows
\* where it is mounted, and a process that waits for a daemon is told only after the
\* mount was made (dummyfs_do_mount, nfs_mountThread): in every order of the steps of
\* the three servers and with any number of failures.
THEOREM RootAlwaysServed == Spec => RootServed
<1> DEFINE P == part = "boot" =>
                  /\ Nfs!RootServed /\ Nfs!NeverRootless(RamPort) /\ Nfs!ParentKnown
                  /\ TmpParent /\ Tmp!WaiterHonest
           Q == part = "boot" => Nfs!BindsReady
<1>1. IInv => P
  <2>1. SUFFICES ASSUME IInv, part = "boot"
                 PROVE  /\ Nfs!RootServed /\ Nfs!NeverRootless(RamPort) /\ Nfs!ParentKnown
                        /\ TmpParent /\ Tmp!WaiterHonest
    OBVIOUS
  <2>2. Types /\ NfsRight /\ RootKept /\ NfsMount /\ TmpMount /\ TmpRoot /\ Tmp!WaiterHonest
    BY <2>1 DEF IInv, BootInv
  <2>3. Nfs!RootServed
    BY <2>2 DEF Nfs!RootServed, NfsRight, Started
  <2>4. Nfs!NeverRootless(RamPort)
    BY <2>2 DEF Nfs!NeverRootless, Types, NfsRight, RootKept, Registered, Started
  <2>5. Nfs!ParentKnown
    BY <2>2 DEF Nfs!ParentKnown, NfsMount
  <2>6. TmpParent
    BY <2>2 DEF TmpParent, TmpMount, TmpRoot
  <2>7. QED  BY <2>2, <2>3, <2>4, <2>5, <2>6
<1>2. IInv /\ [Next]_vars => [Q]_vars
  BY BindsKept
<1> HIDE DEF P, Q
<1>3. Spec => []P /\ [][Q]_vars
  BY <1>1, <1>2, Invariance, PTL DEF Spec
<1>4. QED  BY <1>3 DEF RootServed, P, Q

\* The lease of an idle client never lapses as long as nothing fails: the renew
\* thread (nfs_renewThread) is heard by the server within every period.
THEOREM LeaseAlwaysKept == Spec => [](part = "lease" => Lease!LeaseKept)
<1>1. IInv => (part = "lease" => Lease!LeaseKept)
  BY DEF IInv, LeaseInv, Lease!LeaseKept
<1>2. QED  BY <1>1, Invariance, PTL
=============================================================================
