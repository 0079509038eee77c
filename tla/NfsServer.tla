------------------------------ MODULE NfsServer ------------------------------
(***************************************************************************)
(* The start of the NFS server (nfs/srv.c): as a subtree that is mounted   *)
(* on a directory, as "/" before there is one, or taking "/" over from a   *)
(* file system in memory. The namespace is shared with the other servers   *)
(* (DummyfsServer); the loop and the lease are in NfsLease.                *)
(***************************************************************************)
EXTENDS Naturals

CONSTANTS
  Self,       \* the port of this server
  MaxFaults   \* bound: failures in all servers together

VARIABLES
  root, mnt, serving, gone, named, dirs, faults,
  mode,       \* "subtree", "root" or "takeover"
  pc, mt,     \* the main thread and nfs_mountThread
  parent,     \* fs.parent
  target,     \* the directory the mount is sent to
  prev,       \* the root to restore
  binds       \* directories of the export that other servers are mounted on

kernel == <<root, mnt, serving, gone, named, dirs, faults>>
own == <<mode, pc, mt, parent, target, prev, binds>>
vars == <<kernel, own>>

Modes == {"subtree", "root", "takeover"}

-----------------------------------------------------------------------------
(* The namespace                                                           *)

Fault == faults < MaxFaults /\ faults' = faults + 1

Exit == pc' = "exited" /\ mt' = "ended" /\ gone' = gone \cup {Self} /\ serving' = serving \ {Self}

\* A step that can fail; the process ends then.
Step(from, to) ==
  /\ pc = from
  /\ \/ pc' = to /\ UNCHANGED <<mt, gone, serving, faults>>
     \/ Fault /\ Exit

-----------------------------------------------------------------------------
(* The main thread                                                         *)

\* wait_for_dhcp_lease reads a file under "/"; root mode waits 10 s instead.
Lease ==
  /\ \/ (mode = "root" \/ root \in serving) /\ Step("lease", "mount")
     \/ mode # "root" /\ root \notin serving /\ pc = "lease" /\ Exit /\ UNCHANGED faults
  /\ UNCHANGED <<root, mnt, named, dirs, mode, parent, target, prev, binds>>

\* The export is mounted: at the first try for a subtree, or until a deadline.
MountExport ==
  /\ \/ Step("mount", "nodes")
     \/ /\ pc = "mount" /\ mode # "subtree" /\ Fault
        /\ UNCHANGED <<pc, mt, gone, serving>>
  /\ UNCHANGED <<root, mnt, named, dirs, mode, parent, target, prev, binds>>

\* nfs_node_init, portCreate and the parent until a mount is made.
Prepare ==
  /\ Step("nodes", CASE mode = "subtree" -> "start" [] mode = "root" -> "register"
                     [] OTHER -> "bind")
  /\ parent' = IF pc' = "exited" THEN parent ELSE Self
  /\ UNCHANGED <<root, mnt, named, dirs, mode, target, prev, binds>>

\* Root mode registers first.
RegisterRoot ==
  /\ pc = "register"
  /\ \/ root = "none" /\ root' = Self /\ pc' = "start" /\ UNCHANGED <<mt, gone, serving>>
     \/ root # "none" /\ Exit /\ UNCHANGED root
  /\ UNCHANGED <<mnt, named, dirs, faults, mode, parent, target, prev, binds>>

\* /dev, and /tmp and /ramtmp if there is a server for them, become mount points
\* of the export; without memory for a node they stay on it.
Bind ==
  /\ pc = "bind" /\ pc' = "start"
  /\ \/ binds' = {"dev"} \cup (IF named # {} THEN {"tmp", "ramtmp"} ELSE {}) /\ UNCHANGED faults
     \/ Fault /\ binds' \in SUBSET ({"dev"} \cup (IF named # {} THEN {"tmp", "ramtmp"} ELSE {}))
  /\ UNCHANGED <<root, mnt, serving, gone, named, dirs, mode, mt, parent, target,
                 prev>>

\* The loop is started, and for a subtree the mount thread; a takeover goes on.
Start ==
  /\ pc = "start"
  /\ serving' = serving \cup {Self}
  /\ mt' = IF mode = "subtree" THEN "look" ELSE mt
  /\ pc' = IF mode = "takeover" THEN "splice" ELSE "loop"
  /\ UNCHANGED <<root, mnt, gone, named, dirs, faults, mode, parent, target,                  prev, binds>>

\* The old root is asked to mount this server on its root directory. Whether
\* "/" then leads here is up to the kernel; it goes on if not.
Splice ==
  /\ pc = "splice" /\ root \in serving \cup gone \cup {"none"}
  /\ \/ root \in serving /\ root' = Self /\ pc' = "loop" /\ UNCHANGED faults
     \/ pc' = "prev" /\ UNCHANGED <<root, faults>>
  /\ UNCHANGED <<mnt, serving, gone, named, dirs, mode, mt, parent, target, prev, binds>>

\* The root to restore is kept, and "/" taken away from it.
Unregister ==
  /\ pc = "prev"
  /\ \/ prev' = root /\ root' = "none" /\ UNCHANGED faults
     \/ Fault /\ prev' = root /\ UNCHANGED root
     \/ Fault /\ prev' = "none" /\ root' = "none"
  /\ pc' = "take"
  /\ UNCHANGED <<mnt, serving, gone, named, dirs, mode, mt, parent, target,                  binds>>

\* Mutant of Take: the old root is not registered again.
TakeOnly ==
  /\ pc = "take"
  /\ \/ root = "none" /\ root' = Self /\ pc' = "loop" /\ UNCHANGED <<mt, gone, serving, faults>>
     \/ root # "none" /\ Exit /\ UNCHANGED <<root, faults>>
     \/ Fault /\ Exit /\ UNCHANGED root
  /\ UNCHANGED <<mnt, named, dirs, mode, parent, target, prev, binds>>

\* "/" is registered, or the old root again and the process ends.
Take ==
  /\ pc = "take"
  /\ \/ root = "none" /\ root' = Self /\ pc' = "loop" /\ UNCHANGED <<mt, gone, serving, faults>>
     \/ root # "none" /\ Exit /\ UNCHANGED <<root, faults>>
     \/ /\ Fault /\ Exit
        /\ root' = IF root = "none" THEN prev ELSE root
  /\ UNCHANGED <<mnt, named, dirs, mode, parent, target, prev, binds>>

-----------------------------------------------------------------------------
(* nfs_mountThread                                                         *)

Look ==
  /\ mt = "look" /\ root \notin {"none", Self}
  /\ \/ root \in serving /\ root \in dirs /\ target' = root /\ mt' = "record"
     \/ (root \in gone \/ (root \in serving /\ root \notin dirs)) /\ mt' = "failed" /\ UNCHANGED target
  /\ UNCHANGED <<kernel, mode, pc, parent, prev, binds>>

\* The parent is known before anyone can come in through the mount point.
Record ==
  /\ mt = "record" /\ parent' = target /\ mt' = "send"
  /\ UNCHANGED <<kernel, mode, pc, target, prev, binds>>

Send ==
  /\ mt = "send"
  /\ \/ target \in serving /\ mnt' = mnt \cup {<<target, Self>>} /\ mt' = "done" /\ UNCHANGED faults
     \/ Fault /\ mt' = "failed" /\ UNCHANGED mnt
  /\ UNCHANGED <<root, serving, gone, named, dirs, mode, pc, parent, target, prev, binds>>

OwnInit ==
  /\ pc = "lease" /\ mt = "none" /\ parent = "none" /\ target = "none"
  /\ prev = "none" /\ binds = {}

Main ==
  \/ Lease \/ MountExport \/ Prepare \/ RegisterRoot \/ Bind \/ Start \/ Splice \/ Unregister
  \/ Take
Mounting == Look \/ Record \/ Send
Next == Main \/ Mounting

-----------------------------------------------------------------------------
(* Properties                                                              *)

\* "/" never leads to this server before it serves: nobody waits for a server
\* that is not ready (nfs_runTakeover).
RootServed == mode = "takeover" /\ root = Self => Self \in serving

\* As long as the server that had "/" lives, there is a "/" with a server, but
\* for the moment between portUnregister and portRegister: a takeover that fails
\* gives it back.
NeverRootless(old) ==
  mode = "takeover" /\ faults <= 1 /\ pc # "take" /\ old \in serving => root \in serving

\* The server knows the file system it is mounted in when it can be reached there.
ParentKnown == \A f \in dirs : <<f, Self>> \in mnt => parent = f

\* What is mounted in the export is in place when the export becomes "/".
BindsReady == root = Self => binds' = binds
=============================================================================
