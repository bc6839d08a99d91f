------------------------------ MODULE StopHook ------------------------------
(***************************************************************************)
(* _Stop (hook_tools.ts): what the lifecycle hook answers about the tasks  *)
(* of the store when a model wants to end its turn.  It objects only to    *)
(* work that can be started; blocked work is context beneath a real        *)
(* objection, so an answer may be empty while tasks are open.  A scope is  *)
(* a supervisor session, or the fleet; scoping by owner, and what the hook *)
(* says about the sessions themselves, are not modelled.                   *)
(***************************************************************************)
EXTENDS TaskStore

CONSTANT Fleet          \* no agentId and no sessionId supplied

Scopes == Sessions \cup {Fleet}

InScope(scope) ==
  {t \in DOMAIN tasks : IsOpen(tasks, t) /\ (scope = Fleet \/ tasks[t].session = scope)}

\* Mutant of Objections: only tasks that never waited on anything.
Objections_Unblocked(scope) == {t \in InScope(scope) : tasks[t].blockedBy = {}}

Objections(scope) == InScope(scope) \cap ReadySet(tasks)

-----------------------------------------------------------------------------
(* Properties *)

\* A path of blocker edges leads from t to u, through open tasks only.
WaitsOn(t, u) ==
  \A X \in SUBSET DOMAIN tasks :
     /\ t \in X
     /\ \A v \in X : \A b \in Blockers(tasks, v) : IsOpen(tasks, b) => b \in X
     => u \in X

\* "There is nothing it can do about it": when _Stop lets an agent go although tasks
\* in its scope are open, each of them waits on a task outside the scope that can be
\* started now; so a quiet fleet-wide _Stop means that no task is open at all.
QuietStopIsHonest ==
  \A scope \in Scopes :
     Objections(scope) = {} =>
        \A t \in InScope(scope) : \E u \in ReadySet(tasks) : u \notin InScope(scope) /\ WaitsOn(t, u)
=============================================================================
