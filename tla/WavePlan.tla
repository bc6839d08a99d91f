------------------------------ MODULE WavePlan ------------------------------
(***************************************************************************)
(* assignWaves (task_graph_runtime.ts): the open tasks of one snapshot of  *)
(* the store, grouped into waves, one iteration of its loop at a time.     *)
(* Wave n is waves[n + 1].  The plan starts nothing: route_parallel_tasks  *)
(* and the stop hook only show it, so what it says must be right whatever  *)
(* graph the document holds, one written by hand included.                 *)
(***************************************************************************)
EXTENDS TaskGraph, Sequences, Naturals, FiniteSets

CONSTANTS MaxTasks,      \* bound: tasks in the snapshot
          Pending        \* the plan is not finished

VARIABLES
  snapshot,    \* tasks
  placed, waves, remaining,
  report       \* unscheduled: for each task that cannot be placed, the reason

planVars == <<snapshot, placed, waves, remaining, report>>

Snapshots ==
  UNION {[ids -> [status : {"todo", "done"}, blockedBy : SUBSET TaskIds]]
           : ids \in {X \in SUBSET TaskIds : IsFiniteSet(X) /\ Cardinality(X) <= MaxTasks}}

Open == {t \in DOMAIN snapshot : IsOpen(snapshot, t)}

PlanInit ==
  /\ snapshot \in Snapshots
  /\ placed = {} /\ waves = <<>> /\ remaining = Open
  /\ report = Pending

Wave ==
  {t \in remaining :
     \A b \in snapshot[t].blockedBy :
        b \in DOMAIN snapshot /\ (snapshot[b].status \in TERMINAL \/ b \in placed)}

PlacesWave ==
  /\ report = Pending
  /\ Wave # {}
  /\ placed' = placed \cup Wave
  /\ waves' = Append(waves, Wave)
  /\ remaining' = remaining \ Wave
  /\ UNCHANGED <<snapshot, report>>

Reason(t) ==
  IF UnknownBlockers(snapshot, t) # {} THEN "unknown_blocker"
  ELSE IF OnCycle(snapshot, t) THEN "cycle" ELSE "blocked_by_unscheduled"

Reports ==
  /\ report = Pending
  /\ Wave = {}
  /\ report' = [t \in remaining |-> Reason(t)]
  /\ UNCHANGED <<snapshot, placed, waves, remaining>>

PlanNext == PlacesWave \/ Reports

PlanSpec == PlanInit /\ [][PlanNext]_planVars

-----------------------------------------------------------------------------
(* Properties *)

PlanTypeOK ==
  /\ snapshot \in Snapshots
  /\ placed \subseteq DOMAIN snapshot /\ remaining \subseteq DOMAIN snapshot
  /\ waves \in Seq(SUBSET DOMAIN snapshot)
  /\ report = Pending
       \/ report \in [remaining -> {"unknown_blocker", "cycle", "blocked_by_unscheduled"}]

InWave(t, n) == n \in 1 .. Len(waves) /\ t \in waves[n]

\* "What cannot be placed is never silently dropped": at every moment each open
\* task is in exactly one wave or still to be placed or reported.
NoTaskDropped ==
  \A t \in Open :
     /\ t \in remaining <=> \A n \in 1 .. Len(waves) : ~InWave(t, n)
     /\ \A m, n \in 1 .. Len(waves) : InWave(t, m) /\ InWave(t, n) => m = n

\* Waves can be run one after the other, all tasks of a wave at once: a task waits
\* only on finished tasks and on tasks of earlier waves.
WavesRespectBlockers ==
  \A n \in 1 .. Len(waves) : \A t \in waves[n] : \A b \in snapshot[t].blockedBy :
     /\ b \in DOMAIN snapshot
     /\ snapshot[b].status \in TERMINAL \/ \E m \in 1 .. n - 1 : InWave(b, m)

\* What is reported really is stuck: after everything that was placed is done,
\* still no reported task could be started.
ReportedAreStuck ==
  report # Pending =>
     ReadySet([t \in DOMAIN snapshot |->
                 IF t \in placed THEN [snapshot[t] EXCEPT !.status = "done"] ELSE snapshot[t]]) = {}

\* A graph the store accepts (no dangling id, no cycle) is scheduled completely.
AcceptedGraphIsScheduled ==
  (report # Pending /\ \A t \in DOMAIN snapshot : ValidEdges(snapshot, t)) => report = <<>>

\* "Every path to this task passes through a task that can never be scheduled": a
\* task reported so waits on another reported one.
BlameIsPassedOn ==
  report # Pending =>
     \A t \in DOMAIN report :
        report[t] = "blocked_by_unscheduled" => snapshot[t].blockedBy \cap DOMAIN report # {}
=============================================================================
