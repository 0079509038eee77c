------------------------------ MODULE MCServers ------------------------------
(***************************************************************************)
(* The start of a system, for TLC: dummyfs as "/" in memory (Ram), the NFS *)
(* server (Nfs) and a second dummyfs (Tmp), which find each other through  *)
(* the namespace; or, as a part of its own, the lease of the NFS server    *)
(* once it serves (NfsLease).                                              *)
(***************************************************************************)
EXTENDS Naturals, FiniteSets

CONSTANT MaxFaults

VARIABLES
  part,
  root, mnt, serving, gone, named, dirs, faults,
  nmode, npc, nmt, nparent, ntarget, prev, binds,
  rmode, rpc, rmt, rparent, rtarget, rtries, rwaiter,
  tmode, tpc, tmt, tparent, ttarget, ttries, twaiter,
  ctx, lapsed, age, renew, req

kernel == <<root, mnt, serving, gone, named, dirs, faults>>
nvars == <<nmode, npc, nmt, nparent, ntarget, prev, binds>>
rvars == <<rmode, rpc, rmt, rparent, rtarget, rtries, rwaiter>>
tvars == <<tmode, tpc, tmt, tparent, ttarget, ttries, twaiter>>
lvars == <<ctx, lapsed, age, renew, req>>
vars == <<part, kernel, nvars, rvars, tvars, lvars>>

RamPort == "ram"
TmpPort == "tmp"
NfsPort == "nfs"

Nfs == INSTANCE NfsServer WITH
  Self <- NfsPort, mode <- nmode, pc <- npc, mt <- nmt, parent <- nparent, target <- ntarget
Ram == INSTANCE DummyfsServer WITH
  Self <- RamPort, MOUNTPT_WAIT_TRIES <- 2, mode <- rmode, pc <- rpc, mt <- rmt,
  parent <- rparent, target <- rtarget, tries <- rtries, waiter <- rwaiter
Tmp == INSTANCE DummyfsServer WITH
  Self <- TmpPort, MOUNTPT_WAIT_TRIES <- 2, mode <- tmode, pc <- tpc, mt <- tmt,
  parent <- tparent, target <- ttarget, tries <- ttries, waiter <- twaiter

\* The thread wakes every 45 s, the lease of a Linux server is 90 s.
Lease == INSTANCE NfsLease WITH NFS_RENEW <- 1, LEASE <- 2

NoBoot ==
  /\ root = 0 /\ mnt = 0 /\ serving = 0 /\ gone = 0 /\ named = 0 /\ dirs = 0
  /\ nmode = 0 /\ npc = 0 /\ nmt = 0 /\ nparent = 0 /\ ntarget = 0 /\ prev = 0 /\ binds = 0
  /\ rmode = 0 /\ rpc = 0 /\ rmt = 0 /\ rparent = 0 /\ rtarget = 0 /\ rtries = 0 /\ rwaiter = 0
  /\ tmode = 0 /\ tpc = 0 /\ tmt = 0 /\ tparent = 0 /\ ttarget = 0 /\ ttries = 0 /\ twaiter = 0
NoLease == ctx = 0 /\ lapsed = 0 /\ age = 0 /\ renew = 0 /\ req = 0

\* Someone makes the mount points in the file system in memory.
MakeDirs ==
  /\ part = "boot" /\ UNCHANGED <<part, lvars>>
  /\ RamPort \in serving \ dirs
  /\ dirs' = dirs \cup {RamPort}
  /\ UNCHANGED <<root, mnt, serving, gone, named, faults, nvars, rvars, tvars>>

\* The NFS server and the file system in memory may both want to be "/".
InitBoot ==
  /\ root = "none" /\ mnt = {} /\ serving = {} /\ gone = {} /\ named = {} /\ dirs = {NfsPort}
  /\ faults = 0
  /\ nmode \in Nfs!Modes /\ tmode \in {"mount", "daemon", "named"} /\ rmode = "root"
  /\ Nfs!OwnInit /\ Ram!OwnInit /\ Tmp!OwnInit

Init == (part = "boot" /\ InitBoot /\ NoLease) \/ (part = "lease" /\ Lease!Init /\ NoBoot)

Boot == part = "boot" /\ UNCHANGED <<part, lvars>>
NfsMain == Boot /\ Nfs!Main /\ UNCHANGED <<rvars, tvars>>
NfsMounting == Boot /\ Nfs!Mounting /\ UNCHANGED <<rvars, tvars>>
RamMain == Boot /\ Ram!Main /\ UNCHANGED <<nvars, tvars>>
RamMounting == Boot /\ Ram!Mounting /\ UNCHANGED <<nvars, tvars>>
TmpMain == Boot /\ Tmp!Main /\ UNCHANGED <<nvars, rvars>>
TmpMounting == Boot /\ Tmp!Mounting /\ UNCHANGED <<nvars, rvars>>
TmpWaiter == Boot /\ Tmp!Waiter /\ UNCHANGED <<nvars, rvars>>

AtLease ==
  /\ part = "lease"
  /\ UNCHANGED <<part, root, mnt, serving, gone, named, dirs, nvars, rvars, tvars>>
LeaseNext == AtLease /\ Lease!Next
LeaseServes == AtLease /\ Lease!ServeRenew
LeaseWakes == AtLease /\ Lease!Wake

Next ==
  \/ NfsMain \/ NfsMounting \/ RamMain \/ RamMounting \/ TmpMain \/ TmpMounting \/ TmpWaiter
  \/ MakeDirs \/ LeaseNext

Fairness ==
  /\ WF_vars(NfsMain) /\ WF_vars(NfsMounting) /\ WF_vars(RamMain) /\ WF_vars(RamMounting)
  /\ WF_vars(TmpMain) /\ WF_vars(TmpMounting) /\ WF_vars(MakeDirs)
  /\ WF_vars(LeaseServes) /\ WF_vars(LeaseWakes)

Spec == Init /\ [][Next]_vars /\ Fairness

-----------------------------------------------------------------------------

\* The ".." of a dummyfs leads to the file system it is mounted in, as long as
\* "/" is not taken over in between: fs->parent is looked up first.
TmpParent == nmode # "takeover" => \A f \in dirs : <<f, TmpPort>> \in mnt => tparent = f

\* "/" never leads to an NFS server that does not serve, a takeover that fails
\* leaves it to the server that had it, and the mounts of the export are in place
\* when it becomes "/" (nfs_runTakeover). A server that can be reached at a mount
\* point knows where it is mounted, and a process that waits for a daemon is told
\* only after the mount was made (dummyfs_do_mount, nfs_mountThread).
RootServed ==
  /\ [](part = "boot" =>
         /\ Nfs!RootServed /\ Nfs!NeverRootless(RamPort) /\ Nfs!ParentKnown
         /\ TmpParent /\ Tmp!WaiterHonest)
  /\ [][part = "boot" => Nfs!BindsReady]_vars

\* Nobody waits for another server for ever: without failures every server
\* serves or ends, and a mount that was sent is answered. A client that resolved
\* "/" gets an answer in the end, or an error from a process that ended.
BootEnds ==
  /\ <>[](part = "boot" /\ faults = 0 =>
                     /\ npc \in {"loop", "exited"} /\ nmt \notin {"record", "send"}
                     /\ tpc \in {"loop", "exited"} /\ tmt # "send"
                     /\ rpc \in {"loop", "exited"} /\ rmt # "send")
  /\ <>[](part = "boot" /\ root # "none" => root \in serving \cup gone)

\* The lease of the NFS server never lapses as long as nothing fails; and a client
\* whose context was abandoned, or whose state the server discarded, works again
\* in the end without a request of anyone (nfs_renewThread).
Recovered ==
  /\ [](part = "lease" => Lease!LeaseKept)
  /\ (part = "lease" /\ (ctx = "dead" \/ lapsed)) ~> (part = "lease" /\ ctx = "ok" /\ ~lapsed)
=============================================================================
