---------------------------- MODULE CycleSearch ----------------------------
(***************************************************************************)
(* findCycleThrough (task_graph_runtime.ts): the depth-first search that   *)
(* decides whether an edge may be stored, one loop iteration at a time.    *)
(* The recursive walk is its explicit stack: path holds the ids it is in,  *)
(* rest[i] the blockers of path[i] it has not looked at.  The code looks   *)
(* at them in sorted order; here any order will do, so the result does not *)
(* depend on how task ids compare.                                         *)
(***************************************************************************)
EXTENDS TaskGraph, Sequences, Naturals

VARIABLES
  graph,       \* tasks: ids with their blockedBy
  start,       \* startId
  path, rest,  \* the stack of walk
  exhausted,   \* visited for nothing
  verdict      \* "searching", then "none" (null) or "cycle" (path is the answer)

searchVars == <<graph, start, path, rest, exhausted, verdict>>

Graphs == UNION {[ids -> [blockedBy : SUBSET TaskIds]] : ids \in SUBSET TaskIds}

OnPath == {path[i] : i \in 1 .. Len(path)}
Top == path[Len(path)]
Pop(stack) == SubSeq(stack, 1, Len(stack) - 1)

SearchInit ==
  /\ graph \in Graphs
  /\ start \in TaskIds
  /\ exhausted = {}
  /\ IF start \in DOMAIN graph
       THEN path = <<start>> /\ rest = <<graph[start].blockedBy>> /\ verdict = "searching"
       ELSE path = <<>> /\ rest = <<>> /\ verdict = "none"

\* The next blocker of the innermost walk.
Looks(b) ==
  /\ verdict = "searching"
  /\ b \in rest[Len(path)]

Remaining(b) == [rest EXCEPT ![Len(rest)] = @ \ {b}]

Closes(b) ==
  /\ Looks(b)
  /\ b = start
  /\ verdict' = "cycle"
  /\ UNCHANGED <<graph, start, path, rest, exhausted>>

\* Mutant of Skips: "on the path" is asked before "is it startId".
Skips_Start(b) ==
  /\ Looks(b)
  /\ b \notin DOMAIN graph \/ b \in OnPath \/ b \in exhausted
  /\ rest' = Remaining(b)
  /\ UNCHANGED <<graph, start, path, exhausted, verdict>>

Skips(b) ==
  /\ Looks(b)
  /\ b # start
  /\ b \notin DOMAIN graph \/ b \in OnPath \/ b \in exhausted
  /\ rest' = Remaining(b)
  /\ UNCHANGED <<graph, start, path, exhausted, verdict>>

Descends(b) ==
  /\ Looks(b)
  /\ b # start
  /\ b \in DOMAIN graph /\ b \notin OnPath /\ b \notin exhausted
  /\ path' = Append(path, b)
  /\ rest' = Append(Remaining(b), graph[b].blockedBy)
  /\ UNCHANGED <<graph, start, exhausted, verdict>>

Backtracks ==
  /\ verdict = "searching"
  /\ rest[Len(path)] = {}
  /\ path' = Pop(path)
  /\ rest' = Pop(rest)
  /\ exhausted' = exhausted \cup {Top}
  /\ verdict' = IF Len(path) = 1 THEN "none" ELSE "searching"
  /\ UNCHANGED <<graph, start>>

SearchNext ==
  \/ \E b \in TaskIds : Closes(b) \/ Skips(b) \/ Descends(b)
  \/ Backtracks

SearchSpec == SearchInit /\ [][SearchNext]_searchVars /\ WF_searchVars(SearchNext)

-----------------------------------------------------------------------------
(* Properties *)

SearchTypeOK ==
  /\ graph \in Graphs
  /\ start \in TaskIds
  /\ path \in Seq(DOMAIN graph) /\ rest \in Seq(SUBSET TaskIds)
  /\ Len(path) = Len(rest)
  /\ exhausted \subseteq DOMAIN graph
  /\ verdict \in {"searching", "none", "cycle"}
  /\ verdict = "searching" => path # <<>>

\* The search decides what it is trusted for: whether start is reachable from its
\* own blockers.  Tasks given up in one branch are never the missing link of another.
SearchDecides ==
  /\ verdict = "cycle" => start \in DOMAIN graph /\ OnCycle(graph, start)
  /\ verdict = "none"  => ~(start \in DOMAIN graph /\ OnCycle(graph, start))

\* The answer is a diagnostic one can act on: each task on it waits on the next
\* and the last on the first, and no task is named twice.
PathIsCycle ==
  verdict = "cycle" =>
     /\ path[1] = start
     /\ \A i \in 1 .. Len(path) - 1 : path[i + 1] \in graph[path[i]].blockedBy
     /\ start \in graph[Top].blockedBy
     /\ \A i, j \in 1 .. Len(path) : path[i] = path[j] => i = j

=============================================================================
