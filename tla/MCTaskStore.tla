---------------------------- MODULE MCTaskStore ----------------------------
(* Requests for the instances of TaskStore.  To stay small, a request varies *)
(* either the edges of the blocker graph or the status and the lease.        *)
EXTENDS StopHook, TLC

CONSTANTS LeaseExpiries   \* deadlines a lease input may carry

TaskSymmetry == Permutations(TaskIds)

MCLeases == [expiresAt : LeaseExpiries, revoked : {FALSE}]

MCCreate(statuses, sessions, leases, edges) ==
  [status : statuses, resumable : {TRUE}, session : sessions, lease : leases, blockedBy : edges]

MCUpdate(statuses, notes, leases, edges) ==
  [status : statuses, note : notes, resumable : {Keep}, session : {Keep},
   lease : leases, blockedBy : edges]

MCCreateInputs ==
  MCCreate({"todo"}, {NoSession}, {NoLease}, SUBSET TaskIds)
    \cup MCCreate({"in_progress"}, Sessions, MCLeases \cup {NoLease}, {{}})

MCUpdateInputs ==
  MCUpdate({Keep}, {Keep}, {Keep}, SUBSET TaskIds)
    \cup MCUpdate({"done", Keep}, Notes \cup {NoNote, Keep}, MCLeases \cup {Keep}, {Keep})
=============================================================================
