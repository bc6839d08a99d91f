----------------------------- MODULE MCStoreLock -----------------------------
(* The instance of StoreLock for TLC: which tools meet. *)
EXTENDS StoreLock, TLC

CONSTANTS c1, c2, c3

Synthesis == Locked("supervisor", Alone("task") \o Alone("finding"))
Failover == Locked("supervisor", Alone("task"))
Hooked == Alone("task") \o Alone("task")

\* A failover beside a task tool with a hook and another supervisor tool; a forced
\* synthesis beside tools of the two inner stores.
MCMixes ==
  {c1 :> Failover @@ c2 :> Hooked @@ c3 :> Alone("supervisor"),
   c1 :> Synthesis @@ c2 :> Alone("task") @@ c3 :> Alone("finding")}
==============================================================================
