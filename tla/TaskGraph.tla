----------------------------- MODULE TaskGraph -----------------------------
(***************************************************************************)
(* The dependency graph of the task store (task_graph_runtime.ts): pure    *)
(* operators over a graph g, a function from the ids of the existing tasks *)
(* to records with (at least) a status and a set blockedBy of task ids.    *)
(* An edge may name an id outside DOMAIN g: a dangling blocker.            *)
(*                                                                         *)
(* Nothing here is recursive.  "A path of blocker edges leads from u to t" *)
(* is said with closed sets: t belongs to every set of tasks that holds    *)
(* the blockers of u and the blockers of its own members.  CycleSearch.tla *)
(* is the depth-first search the code runs, checked against OnCycle.       *)
(***************************************************************************)

CONSTANT TaskIds        \* every task id the program may ever generate or be given

Status == {"todo", "in_progress", "suspended", "blocked",
           "done", "canceled", "force_synthesized"}

TERMINAL == {"done", "canceled", "force_synthesized"}

IsOpen(g, t) == g[t].status \notin TERMINAL

UnknownBlockers(g, t) == g[t].blockedBy \ DOMAIN g

\* The edges the walks follow: an unknown id has no outgoing edges.
Blockers(g, t) == g[t].blockedBy \cap DOMAIN g

ClosedUnderBlockers(g, X) == \A t \in X : Blockers(g, t) \subseteq X

\* t is reachable from its own blockers.
OnCycle(g, t) ==
  \A X \in SUBSET DOMAIN g :
     (ClosedUnderBlockers(g, X) /\ Blockers(g, t) \subseteq X) => t \in X

\* What validateBlockedByEdges accepts: it looks at the edges of one subject.
ValidEdges(g, t) == UnknownBlockers(g, t) = {} /\ ~OnCycle(g, t)

\* Startable now: open, and every blocker exists and is terminal.
ReadySet(g) ==
  {t \in DOMAIN g :
     /\ IsOpen(g, t)
     /\ \A b \in g[t].blockedBy : b \in DOMAIN g /\ g[b].status \in TERMINAL}

=============================================================================
