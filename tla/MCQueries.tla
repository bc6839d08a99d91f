------------------------------ MODULE MCQueries -----------------------------
(***************************************************************************)
(* The instance for TLC of the tools that only compute an answer: the      *)
(* search for a cycle and the wave plan on one snapshot of the tasks, and  *)
(* the two tools that select under a token budget.  A behaviour is one     *)
(* query of either.  Some repositories are rich in numbers, some in kinds  *)
(* of files.                                                               *)
(***************************************************************************)
EXTENDS CycleSearch, WavePlan, RepoMap, MemoryRecall

queryVars == <<searchVars, planVars, mapVars, selectVars, recallVars>>

MCInit ==
  /\ SearchInit
  /\ \E status \in [DOMAIN graph -> {"todo", "done"}] :
        snapshot = [id \in DOMAIN graph |-> [status |-> status[id], blockedBy |-> graph[id].blockedBy]]
  /\ PlanInit /\ MapInit /\ RecallInit

\* The store is empty, and nothing is asked of it.
NoTasks == graph = [id \in {} |-> Pending] /\ report = Pending /\ start = CHOOSE t \in TaskIds : TRUE

\* On one snapshot of the tasks the search from some task, then the plan.
Searches == UNCHANGED planVars /\ SearchNext
Plans    == verdict # "searching" /\ UNCHANGED searchVars /\ PlanNext

InMap    == NoTasks /\ step = "idle" /\ MapNext /\ UNCHANGED <<searchVars, planVars, recallVars>>
InMemory == NoTasks /\ phase = "start" /\ RecallNext /\ UNCHANGED <<searchVars, planVars, mapVars>>
InTasks  == /\ step = "idle" /\ phase = "start"
            /\ Searches \/ Plans
            /\ UNCHANGED <<mapVars, selectVars, recallVars>>

MCNext == InMap \/ InMemory \/ InTasks

MCSpec == MCInit /\ [][MCNext]_queryVars

\* Properties of the instances.
\* What is read back of the repository and of the memory fits the budget it was asked
\* for, no entry of the memory is in the answer twice, and no path is missing from the
\* answer that the repository map does not account for.
AnswersAreWhole == MapFitsBudget /\ EveryPathIsAccounted /\ RecallFitsBudget

FileOf(p, kind, lines, score, stages) ==
  [path |-> p, kind |-> kind, lines |-> lines, score |-> score, stages |-> stages]

Explicit(n) == [explicit |-> n, window |-> 0, windows |-> {}, reserved |-> 0]

InA == <<"a">>
InB == <<"b">>
InC == <<"c">>
InE == <<"e">>

\* Likenesses between the paths: 2 of a path with itself.
Sims(paths, levels) ==
  LET pairs == {{p, q} : p, q \in paths}
  IN  {f \in [pairs -> levels \cup {2}] : \A p \in paths : f[{p}] = 2}

Selections(paths, sims, scores) ==
  {[git |-> TRUE, cap |-> Len(paths), rules |-> <<>>, gitRules |-> <<>>, request |-> Explicit(n), sim |-> sim,
    tree |-> [k \in DOMAIN paths |-> FileOf(paths[k], "text", <<IF k \in large THEN 8 ELSE 3>>, r[k], 1)]]
     : n \in 2 .. 3, sim \in sims, large \in SUBSET {1, 2}, r \in [DOMAIN paths -> scores]}

\* Selection: texts of one or two tokens, every score and likeness.
Numbers == Selections(<<InA, InB, InC>>, Sims({InA, InB, InC}, {0, 1}), 0 .. 2)
             \cup Selections(<<InA, InB, InC, InE>>, Sims({InA, InB, InC, InE}, {0}), 0 .. 1)

\* Kinds: files in a directory that rules exclude and include again.
DistD == <<"dist", "d">>
DistK == <<"dist", "k">>
Deep == {} \* AnyDepth
Rule(pattern, anchored, dirOnly, negated) ==
  [pattern |-> pattern, anchored |-> anchored, dirOnly |-> dirOnly, negated |-> negated]

RuleLists ==
  LET set == {Rule(<<{"dist"}>>, FALSE, TRUE, FALSE), Rule(<<{"dist"}, Deep>>, TRUE, FALSE, FALSE),
              Rule(<<Deep, {"k"}>>, TRUE, FALSE, TRUE), Rule(<<{"d", "a"}>>, FALSE, FALSE, FALSE)}
  IN  {<<>>} \cup {<<x>> : x \in set} \cup {<<x, y>> : x, y \in set}

Requests ==
  {Explicit(2), Explicit(6),
   [explicit |-> 0, window |-> 0, windows |-> {}, reserved |-> 0],
   [explicit |-> 0, window |-> 0, windows |-> {4096, 2400}, reserved |-> 80]}

\* What a walk meets and git does not: a .gitignore, and the .git directory.
Sources == {[git |-> TRUE, first |-> InA, rules |-> <<>>], [git |-> FALSE, first |-> InA, rules |-> <<>>],
            [git |-> FALSE, first |-> <<".git", "h">>, rules |-> <<Rule(<<{"k"}>>, FALSE, FALSE, FALSE)>>]}

KindRepos(stages) ==
  {[git |-> s.git, cap |-> c, rules |-> rules, gitRules |-> s.rules, request |-> q,
    sim |-> [x \in {{p, o} : p, o \in {s.first, DistD, DistK}} |-> IF Cardinality(x) = 1 THEN 2 ELSE 0],
    tree |-> <<FileOf(s.first, a, <<3, 4>>, 1, stages), FileOf(DistD, d, <<9>>, 2, 1),
               FileOf(DistK, "text", <<2, 3, 3>>, 1, 1)>>]
     : s \in Sources, c \in 1 .. 3, rules \in RuleLists, q \in Requests,
       a \in {"text", "missing", "empty"}, d \in {"text", "huge", "binary"}}

\* Memory files: three entries, the last a copy of the first or not, one superseded.
EntryIds == {"a", "b", "c"}
Alike == {f \in [{{x, y} : x, y \in EntryIds} -> 0 .. 2] : \A x \in EntryIds : f[{x}] = 2}

MCMemories ==
  {[budget |-> n, preamble |-> p, query |-> TRUE, includeSuperseded |-> s, rel |-> rel, sim |-> sim,
    entries |-> <<[id |-> "a", chars |-> 5, superseded |-> FALSE],
                  [id |-> "b", chars |-> 8, superseded |-> s],
                  [id |-> last, chars |-> 5, superseded |-> FALSE]>>]
     : n \in {2, 5, 7, 8}, p \in {0, 7}, s \in BOOLEAN, rel \in [EntryIds -> 0 .. 1], sim \in Alike,
       last \in {"a", "c"}}

MCRepos == Numbers \cup KindRepos(1)
MCConflicts == KindRepos(3)
=============================================================================
