---------------------------- MODULE DummyfsServer ----------------------------
(***************************************************************************)
(* The start of a dummyfs server (dummyfs/srv.c): registering "/" or a     *)
(* name, waiting for a mount point in another file system, mounting there  *)
(* before or after it starts to serve, and telling the process that waits  *)
(* for a daemon. The namespace (root, mnt, serving, gone, named) is shared *)
(* with the other servers.                                                 *)
(***************************************************************************)
EXTENDS Naturals

CONSTANTS
  Self,               \* the port of this server
  MOUNTPT_WAIT_TRIES, \* how often -m looks for its mount point
  MaxFaults           \* bound: failures in all servers together

VARIABLES
  root,     \* kernel: the port registered as "/", or "none"
  mnt,      \* <<f, p>>: port p is mounted on the mount point in file system f
  serving,  \* ports whose server answers requests
  gone,     \* ports whose process ended
  named,    \* ports registered under a name of their own
  dirs,     \* file systems that have the mount point
  faults,
  mode,     \* "root" (with -r), "mount" (-m), "daemon" (-D -m) or "named" (-N)
  pc, mt,   \* the main thread and dummyfs_mount_async
  parent,   \* fs->parent: the file system ".." leads to
  target,   \* the directory the mount is sent to
  tries,
  waiter    \* the process that started a daemon

kernel == <<root, mnt, serving, gone, named, dirs, faults>>
own == <<mode, pc, mt, parent, target, tries, waiter>>
vars == <<kernel, own>>

Modes == {"root", "mount", "daemon", "named"}

-----------------------------------------------------------------------------
(* The namespace                                                           *)

Fault == faults < MaxFaults /\ faults' = faults + 1

\* A lookup in "/" is answered by its server; it fails at once without one.
Found(dir) == root \in serving /\ (dir => root \in dirs)
Missing(dir) == root = "none" \/ root \in gone \/ (root \in serving /\ dir /\ root \notin dirs)

Exit == pc' = "exited" /\ mt' = "ended" /\ gone' = gone \cup {Self} /\ serving' = serving \ {Self}
Serve == pc' = "loop" /\ serving' = serving \cup {Self} /\ UNCHANGED gone

-----------------------------------------------------------------------------
(* The main thread                                                         *)

\* "/" is registered first; the port of a named server is, too.
Register ==
  /\ pc = "register"
  /\ \/ mode = "root" /\ root = "none" /\ root' = Self /\ pc' = "alloc" /\ UNCHANGED <<named, mt, gone, serving>>
     \/ mode = "root" /\ root # "none" /\ Exit /\ UNCHANGED <<root, named>>
     \/ mode = "named" /\ named' = named \cup {Self} /\ pc' = "alloc" /\ UNCHANGED <<root, mt, gone, serving>>
     \/ mode \in {"mount", "daemon"} /\ pc' = "wait" /\ UNCHANGED <<root, named, mt, gone, serving>>
  /\ UNCHANGED <<mnt, dirs, faults, mode, parent, target, tries, waiter>>

\* dummyfs_waitMountpt: the mount point is looked for a bounded number of times.
waitMountpt ==
  /\ pc = "wait"
  /\ \/ Found(TRUE) /\ pc' = "alloc" /\ UNCHANGED tries
     \/ /\ Missing(TRUE) /\ tries' = tries + 1
        /\ pc' = IF tries' = MOUNTPT_WAIT_TRIES THEN "alloc" ELSE "wait"
  /\ UNCHANGED <<kernel, mode, mt, parent, target, waiter>>

\* dummyfs_mount: memory, and the file system that has the mount point.
mount ==
  /\ pc = "alloc"
  /\ \/ Fault /\ Exit /\ UNCHANGED parent
     \/ /\ mode \in {"root", "named"} /\ parent' = Self
        /\ pc' = IF mode = "root" THEN "modules" ELSE "start"
        /\ UNCHANGED <<mt, gone, serving, faults>>
     \/ /\ mode \in {"mount", "daemon"} /\ Found(TRUE) /\ parent' = root
        /\ pc' = IF mode = "daemon" THEN "sync" ELSE "start"
        /\ UNCHANGED <<mt, gone, serving, faults>>
     \/ mode \in {"mount", "daemon"} /\ Missing(TRUE) /\ Exit /\ UNCHANGED <<parent, faults>>
  /\ UNCHANGED <<root, mnt, named, dirs, mode, target, tries, waiter>>

fetch_modules ==
  /\ pc = "modules"
  /\ \/ Fault /\ Exit
     \/ pc' = "start" /\ UNCHANGED <<mt, gone, serving, faults>>
  /\ UNCHANGED <<root, mnt, named, dirs, mode, parent, target, tries, waiter>>

\* A daemon mounts before it serves, and then tells the process that waits.
SyncMount ==
  /\ pc = "sync" /\ mt = "none"
  /\ mt' = "look"
  /\ UNCHANGED <<kernel, mode, pc, parent, target, tries, waiter>>

Synced ==
  /\ pc = "sync" /\ mt \in {"done", "failed"}
  /\ IF mt = "failed" THEN Exit /\ UNCHANGED waiter
     ELSE /\ waiter' = IF waiter = "waiting" THEN "told" ELSE waiter
          /\ pc' = "start" /\ UNCHANGED <<mt, gone, serving>>
  /\ UNCHANGED <<root, mnt, named, dirs, faults, mode, parent, target, tries>>

\* Mutant of Start: the root server mounts itself before it serves.
StartSync ==
  /\ pc = "start"
  /\ IF mode = "root" /\ mt \notin {"done", "failed"}
     THEN mt = "none" /\ mt' = "look" /\ UNCHANGED <<pc, gone, serving>>
     ELSE Serve /\ mt' = IF mode = "mount" THEN "look" ELSE mt
  /\ UNCHANGED <<root, mnt, named, dirs, faults, mode, parent, target, tries, waiter>>

\* The others start dummyfs_mount_async if they have a mount point.
Start ==
  /\ pc = "start" /\ Serve
  /\ mt' = IF mode \in {"root", "mount"} THEN "look" ELSE mt
  /\ UNCHANGED <<root, mnt, named, dirs, faults, mode, parent, target, tries, waiter>>

-----------------------------------------------------------------------------
(* dummyfs_mount_sync and dummyfs_do_mount                                 *)

\* It waits until "/" is another file system, finds the mount point there and
\* tells that file system.
Look ==
  /\ mt = "look" /\ root \notin {"none", Self}
  /\ \/ Found(TRUE) /\ target' = root /\ mt' = "send"
     \/ Missing(TRUE) /\ mt' = "failed" /\ UNCHANGED target
  /\ UNCHANGED <<kernel, mode, pc, parent, tries, waiter>>

Send ==
  /\ mt = "send"
  /\ \/ target \in serving /\ mnt' = mnt \cup {<<target, Self>>} /\ mt' = "done" /\ UNCHANGED faults
     \/ Fault /\ mt' = "failed" /\ UNCHANGED mnt
  /\ UNCHANGED <<root, serving, gone, named, dirs, mode, pc, parent, target, tries, waiter>>

\* The process that waits for a daemon gives up after 10 s, or is told.
Waiter ==
  /\ \/ waiter = "waiting" /\ waiter' = "failed"
     \/ waiter = "told" /\ waiter' = "ok"
  /\ UNCHANGED <<kernel, mode, pc, mt, parent, target, tries>>

OwnInit ==
  /\ pc = "register" /\ mt = "none" /\ parent = Self /\ target = "none" /\ tries = 0
  /\ waiter = IF mode = "daemon" THEN "waiting" ELSE "none"

Main == Register \/ waitMountpt \/ mount \/ fetch_modules \/ SyncMount \/ Synced \/ Start
Mounting == Look \/ Send
Next == Main \/ Mounting \/ Waiter

-----------------------------------------------------------------------------
(* Properties                                                              *)

\* A process is told that its daemon is up only after the mount was made.
WaiterHonest == waiter \in {"told", "ok"} => \E f \in dirs : <<f, Self>> \in mnt

=============================================================================
