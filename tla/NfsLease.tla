------------------------------- MODULE NfsLease -------------------------------
(***************************************************************************)
(* The NFSv4 lease of the server process (nfs/srv.c, nfs/nfs_ops.c): the   *)
(* loop thread, which alone uses libnfs, and the renew thread, which sends *)
(* it a message every NFS_RENEW_SECS. Time passes in units of 45 s. What   *)
(* requests do with a client that was rebuilt is in NfsObjects.            *)
(***************************************************************************)
EXTENDS Naturals

CONSTANTS
  NFS_RENEW,   \* units between two messages of the renew thread
  LEASE,       \* units after which the server discards the client's state
  MaxFaults    \* bound: calls that fail, and handlers that take a unit

VARIABLES
  ctx,      \* fs->nfs: "ok", or "dead" (abandoned: nfs_get_fd is negative)
  lapsed,   \* the server has discarded the client's state
  age,      \* units since the server heard of the client
  renew,    \* nfs_renewThread: "sleep", or "sent" while it waits for the reply
  req,      \* a client: "none" or "sent"
  faults

vars == <<ctx, lapsed, age, renew, req, faults>>

Fault == faults < MaxFaults /\ faults' = faults + 1

\* Time passes on the server.
Older(n) ==
  /\ age' = IF age + n > LEASE THEN LEASE ELSE age + n
  /\ lapsed' = (lapsed \/ age + n >= LEASE)

\* A new context is mounted in place of the old one (nfs_reclaim), or not.
Reclaimed == ctx' = "ok" /\ lapsed' = FALSE /\ age' = 0

\* nfs_ops_recover, then a call that fails in a way a new client would repeat.
Unrepaired ==
  /\ Fault /\ UNCHANGED <<lapsed, age>>
  /\ ctx' \in {ctx, "dead"}

\* Mutant of ServeRenew: a lease that has lapsed is left to the next request.
ServeRenewOnly ==
  /\ renew = "sent" /\ renew' = "sleep" /\ UNCHANGED req
  /\ \/ ctx = "dead" /\ Reclaimed /\ UNCHANGED faults
     \/ ctx = "ok" /\ UNCHANGED <<ctx, lapsed, faults>> /\ age' = IF lapsed THEN age ELSE 0
     \/ Unrepaired

\* NFS_MSG_RENEW: nfs_ops_recover, then nfs_ops_renew, which rebuilds the client
\* if the lease has lapsed or the call was abandoned.
ServeRenew ==
  /\ renew = "sent" /\ renew' = "sleep" /\ UNCHANGED req
  /\ \/ (ctx = "dead" \/ lapsed) /\ Reclaimed /\ UNCHANGED faults
     \/ ctx = "ok" /\ ~lapsed /\ age' = 0 /\ UNCHANGED <<ctx, lapsed, faults>>
     \/ ~lapsed /\ Fault /\ Reclaimed
     \/ Unrepaired

\* A request of a client; one that needs the state rebuilds the client if it
\* has lapsed.
ServeRequest ==
  /\ req = "sent" /\ req' = "none" /\ UNCHANGED renew
  /\ \/ (ctx = "dead" \/ lapsed) /\ Reclaimed /\ UNCHANGED faults
     \/ ctx = "ok" /\ UNCHANGED <<ctx, lapsed, age, faults>>
     \/ Unrepaired

Wake == renew = "sleep" /\ renew' = "sent" /\ Older(NFS_RENEW) /\ UNCHANGED <<ctx, req, faults>>

\* A handler holds the loop for a unit: calls wait for up to 25 attempts.
Stall == renew = "sent" /\ Fault /\ Older(1) /\ UNCHANGED <<ctx, renew, req>>

Ask == req = "none" /\ req' = "sent" /\ UNCHANGED <<ctx, lapsed, age, renew, faults>>

Init == ctx = "ok" /\ lapsed = FALSE /\ age = 0 /\ renew = "sleep" /\ req = "none" /\ faults = 0

Next == ServeRenew \/ ServeRequest \/ Wake \/ Stall \/ Ask

-----------------------------------------------------------------------------
(* Properties                                                              *)

\* The lease of an idle client never lapses as long as nothing fails.
LeaseKept == faults = 0 => ~lapsed
=============================================================================
