-------------------------- MODULE Queries_proofs --------------------------
(***************************************************************************)
(* Theorems about the two walks over the dependency graph, the greedy      *)
(* choice under a budget, and the two answers that are made with it.       *)
(*                                                                         *)
(* CycleSearch is correct on every graph.  Three facts carry it: a task    *)
(* given up has all its blockers behind it (given up or still on the       *)
(* path), so what is given up is closed once the path is gone; no task     *)
(* given up is blocked by start; and whatever is on the path lies in every *)
(* closed set that holds the blockers of start.                            *)
(*                                                                         *)
(* WavePlan, for every snapshot of the document, keeps, orders and blames  *)
(* rightly, and it schedules every graph the store accepts.                *)
(*                                                                         *)
(* ContextSelection picks what the naive rounds pick, for every input.     *)
(* Each pick can only bring the candidates nearer to what is chosen, so a  *)
(* gain computed in an earlier round is no lower than the gain of today;   *)
(* and a gain that is fresh and the highest of them all leads the round.   *)
(*                                                                         *)
(* The repository map keeps books: at every phase the paths that are still *)
(* to be dealt with and those in the omissions are all that was considered,*)
(* each of them once (Pends), and what a phase takes from the former it    *)
(* adds to the latter (Omits).  What a selection spends is what the chosen *)
(* cost in whatever order they are put together (KeptWeighs).              *)
(***************************************************************************)
EXTENDS MCQueries, Operators_proofs

\* Where the path stands.
Depth == 1 .. Len(path)

\* No task here is looked at again.
Visited == exhausted \cup OnPath

\* The sets that hold everything reachable from the blockers of start.
Closures ==
  {X \in SUBSET DOMAIN graph :
     ClosedUnderBlockers(graph, X) /\ Blockers(graph, start) \subseteq X}

\* The stack is a path of blocker edges from start, and rest what is left of them.
StackInv ==
  /\ path # <<>> => path[1] = start
  /\ \A i \in Depth : rest[i] \subseteq graph[path[i]].blockedBy
  /\ \A i \in Depth : i > 1 => path[i] \in graph[path[i - 1]].blockedBy
  /\ \A i, j \in Depth : path[i] = path[j] => i = j

\* No edge is lost: it was followed, or it is still to be looked at.
EdgeInv ==
  /\ \A v \in exhausted :
        Blockers(graph, v) \subseteq Visited /\ start \notin graph[v].blockedBy
  /\ \A i \in Depth :
        /\ Blockers(graph, path[i]) \subseteq Visited \cup rest[i]
        /\ start \in graph[path[i]].blockedBy => start \in rest[i]

\* What the path holds beyond start is reachable from its blockers.
ReachInv == \A X \in Closures, i \in Depth : i > 1 => path[i] \in X

\* What the verdict stands for.
VerdictInv ==
  /\ verdict = "cycle" => path # <<>> /\ start \in graph[Top].blockedBy
  /\ verdict = "none" => path = <<>>
  /\ start \in DOMAIN graph => path # <<>> \/ start \in exhausted

\* All that the search keeps.
SearchInv == SearchTypeOK /\ StackInv /\ EdgeInv /\ ReachInv /\ VerdictInv

-----------------------------------------------------------------------------
\* What popping a stack leaves.
LEMMA PopFacts ==
  ASSUME NEW S, NEW stack \in Seq(S), stack # <<>>
  PROVE  /\ Pop(stack) \in Seq(S)
         /\ Len(Pop(stack)) = Len(stack) - 1
         /\ \A i \in 1 .. Len(stack) - 1 : Pop(stack)[i] = stack[i]
<1> DEFINE m == Len(stack) - 1
           s == SubSeq(stack, 1, m)
<1>1. m \in Int /\ m >= 0 /\ \A i \in 1 .. m : stack[i] \in S
  BY EmptySeq
<1>2. /\ s \in Seq(S)
      /\ Len(s) = IF 1 <= m THEN m - 1 + 1 ELSE 0
      /\ \A i \in 1 .. m - 1 + 1 : s[i] = stack[1 + i - 1]
  <2> HIDE DEF m
  <2>1. QED
    BY <1>1, SubSeqProperties
<1>3. s \in Seq(S) /\ Len(s) = m /\ \A i \in 1 .. m : s[i] = stack[i]
  <2> HIDE DEF m, s
  <2>1. QED
    BY <1>1, <1>2
<1>4. QED
  BY <1>3 DEF Pop

\* What pushing on a stack leaves.
LEMMA PushFacts ==
  ASSUME NEW S, NEW stack \in Seq(S), NEW e \in S
  PROVE  /\ Append(stack, e) \in Seq(S)
         /\ Len(Append(stack, e)) = Len(stack) + 1
         /\ \A i \in 1 .. Len(stack) : Append(stack, e)[i] = stack[i]
         /\ Append(stack, e)[Len(stack) + 1] = e
OBVIOUS

\* Crossing the blocker off changes only the innermost entry.
LEMMA RemainingFacts ==
  ASSUME SearchTypeOK, verdict = "searching", NEW b
  PROVE  /\ Remaining(b) \in Seq(SUBSET TaskIds)
         /\ Len(Remaining(b)) = Len(path)
         /\ Remaining(b)[Len(path)] = rest[Len(path)] \ {b}
         /\ \A i \in Depth : i # Len(path) => Remaining(b)[i] = rest[i]
         /\ \A i \in Depth : Remaining(b)[i] = rest[i] \/ Remaining(b)[i] = rest[i] \ {b}
BY DEF SearchTypeOK, Remaining, Depth

\* The records of a graph have a set of task ids as blockedBy.
LEMMA GraphFacts ==
  ASSUME SearchTypeOK, NEW v \in DOMAIN graph
  PROVE  graph[v].blockedBy \subseteq TaskIds /\ v \in TaskIds
BY DEF SearchTypeOK, Graphs

-----------------------------------------------------------------------------
\* A search starts with none of it to show.
LEMMA InitInv == SearchInit => SearchInv
<1> SUFFICES ASSUME SearchInit PROVE SearchInv
  OBVIOUS
<1>1. graph \in Graphs /\ DOMAIN graph \subseteq TaskIds /\ start \in TaskIds
  BY DEF SearchInit, Graphs
<1>2. CASE start \in DOMAIN graph
  <2>1. graph[start].blockedBy \subseteq TaskIds
    BY <1>1, <1>2 DEF Graphs
  <2>2. path = <<start>> /\ rest = <<graph[start].blockedBy>> /\ verdict = "searching"
        /\ exhausted = {}
    BY <1>2 DEF SearchInit
  <2>3. SearchTypeOK
    BY <1>1, <1>2, <2>1, <2>2 DEF SearchTypeOK
  <2>4. StackInv
    BY <2>2 DEF StackInv, Depth
  <2>5. EdgeInv
    BY <2>2 DEF EdgeInv, Depth, Blockers
  <2>6. ReachInv /\ VerdictInv
    BY <2>2 DEF ReachInv, VerdictInv, Depth
  <2>7. QED
    BY <2>3, <2>4, <2>5, <2>6 DEF SearchInv
<1>3. CASE start \notin DOMAIN graph
  <2>1. path = <<>> /\ rest = <<>> /\ verdict = "none" /\ exhausted = {}
    BY <1>3 DEF SearchInit
  <2>2. SearchTypeOK
    BY <1>1, <2>1 DEF SearchTypeOK
  <2>3. StackInv /\ EdgeInv /\ ReachInv /\ VerdictInv
    BY <1>3, <2>1 DEF StackInv, EdgeInv, ReachInv, VerdictInv, Depth
  <2>4. QED
    BY <2>2, <2>3 DEF SearchInv
<1>4. QED
  BY <1>2, <1>3

\* Closing, skipping, descending and backtracking keep the invariant.
LEMMA ClosesInv ==
  ASSUME SearchInv, NEW b \in TaskIds, Closes(b)
  PROVE  SearchInv'
<1>1. SearchTypeOK' /\ Depth' = Depth /\ Visited' = Visited
  BY DEF SearchInv, SearchTypeOK, Closes, Depth, Visited, OnPath
<1>2. StackInv'
  BY <1>1 DEF SearchInv, StackInv, Closes
<1>3. EdgeInv'
  BY <1>1 DEF SearchInv, EdgeInv, Closes, Blockers
<1>4. ReachInv'
  BY <1>1 DEF SearchInv, ReachInv, Closures, Closes, ClosedUnderBlockers, Blockers
<1>5. start \in graph[Top].blockedBy /\ path # <<>>
  BY DEF SearchInv, SearchTypeOK, StackInv, Closes, Looks, Top, Depth
<1>6. VerdictInv'
  BY <1>5 DEF SearchInv, VerdictInv, Closes, Top
<1>7. QED
  BY <1>1, <1>2, <1>3, <1>4, <1>6 DEF SearchInv

\* Leaving out a blocker seen before keeps it.
LEMMA SkipsInv ==
  ASSUME SearchInv, NEW b \in TaskIds, Skips(b)
  PROVE  SearchInv'
<1>1. SearchTypeOK /\ verdict = "searching" /\ b \in rest[Len(path)]
  BY DEF SearchInv, Skips, Looks
<1>2. /\ rest' \in Seq(SUBSET TaskIds) /\ Len(rest') = Len(path)
      /\ rest'[Len(path)] = rest[Len(path)] \ {b}
      /\ \A i \in Depth : i # Len(path) => rest'[i] = rest[i]
      /\ \A i \in Depth : rest'[i] = rest[i] \/ rest'[i] = rest[i] \ {b}
  BY <1>1, RemainingFacts DEF Skips
<1>3. SearchTypeOK' /\ Depth' = Depth /\ Visited' = Visited
  BY <1>1, <1>2 DEF SearchTypeOK, Skips, Depth, Visited, OnPath
<1>4. StackInv'
  BY <1>2, <1>3 DEF SearchInv, StackInv, Skips
<1>5. \A v \in exhausted :
         Blockers(graph, v) \subseteq Visited /\ start \notin graph[v].blockedBy
  BY DEF SearchInv, EdgeInv
<1>6. ASSUME NEW i \in Depth
      PROVE  /\ Blockers(graph, path[i]) \subseteq Visited \cup rest'[i]
             /\ start \in graph[path[i]].blockedBy => start \in rest'[i]
  <2>1. /\ Blockers(graph, path[i]) \subseteq Visited \cup rest[i]
        /\ start \in graph[path[i]].blockedBy => start \in rest[i]
    BY DEF SearchInv, EdgeInv
  <2>2. b # start /\ (b \in DOMAIN graph => b \in Visited)
    BY DEF Skips, Visited
  <2>3. Blockers(graph, path[i]) \subseteq DOMAIN graph
    BY DEF Blockers
  <2>4. rest'[i] = rest[i] \/ rest'[i] = rest[i] \ {b}
    BY <1>2
  <2>5. QED
    BY <2>1, <2>2, <2>3, <2>4
<1>7. EdgeInv'
  BY <1>3, <1>5, <1>6 DEF EdgeInv, Skips, Blockers
<1>8. ReachInv'
  BY <1>3 DEF SearchInv, ReachInv, Closures, Skips, ClosedUnderBlockers, Blockers
<1>9. VerdictInv'
  BY <1>1 DEF SearchInv, VerdictInv, Skips
<1>10. QED
  BY <1>3, <1>4, <1>7, <1>8, <1>9 DEF SearchInv

\* Going on to a blocker keeps it.
LEMMA DescendsInv ==
  ASSUME SearchInv, NEW b \in TaskIds, Descends(b)
  PROVE  SearchInv'
<1> DEFINE n == Len(path)
<1>1. /\ SearchTypeOK /\ verdict = "searching" /\ b \in rest[n]
      /\ path \in Seq(DOMAIN graph) /\ n \in Nat /\ n >= 1 /\ n \in Depth
      /\ path # <<>>
  BY EmptySeq DEF SearchInv, SearchTypeOK, Descends, Looks, Depth
<1>2. /\ Remaining(b) \in Seq(SUBSET TaskIds) /\ Len(Remaining(b)) = n
      /\ Remaining(b)[n] = rest[n] \ {b}
      /\ \A i \in Depth : i # n => Remaining(b)[i] = rest[i]
      /\ \A i \in Depth : Remaining(b)[i] = rest[i] \/ Remaining(b)[i] = rest[i] \ {b}
  BY <1>1, RemainingFacts
<1>3. b \in DOMAIN graph /\ b \notin OnPath /\ b \notin exhausted /\ b # start
  BY DEF Descends
<1>4. graph[b].blockedBy \subseteq TaskIds
  BY <1>1, <1>3, GraphFacts
<1>5. /\ path' \in Seq(DOMAIN graph) /\ Len(path') = n + 1 /\ path'[n + 1] = b
      /\ \A i \in Depth : path'[i] = path[i]
  BY <1>1, <1>3, PushFacts DEF Descends, Depth
<1>6. /\ rest' \in Seq(SUBSET TaskIds) /\ Len(rest') = n + 1
      /\ rest'[n + 1] = graph[b].blockedBy
      /\ \A i \in Depth : rest'[i] = Remaining(b)[i]
  BY <1>2, <1>4, PushFacts DEF Descends, Depth
<1>7. Depth' = Depth \cup {n + 1} /\ n + 1 \notin Depth
  BY <1>1, <1>5 DEF Depth
<1>8. OnPath' = OnPath \cup {b} /\ Visited' = Visited \cup {b}
  <2>1. \A i \in Depth' : path'[i] \in OnPath \cup {b}
    BY <1>5, <1>7 DEF OnPath, Depth
  <2>2. \A i \in Depth : path[i] \in OnPath'
    BY <1>5, <1>7 DEF OnPath, Depth
  <2>3. b \in OnPath'
    BY <1>5, <1>7 DEF OnPath, Depth
  <2>4. OnPath' = OnPath \cup {b}
    BY <2>1, <2>2, <2>3 DEF OnPath, Depth
  <2>5. QED
    BY <2>4 DEF Visited, Descends
<1>9. UNCHANGED <<graph, start, exhausted, verdict>>
  BY DEF Descends
<1>10. SearchTypeOK'
  BY <1>1, <1>5, <1>6, <1>9 DEF SearchTypeOK
<1>11. b \in graph[path[n]].blockedBy /\ b \in Blockers(graph, path[n])
  BY <1>1, <1>3 DEF SearchInv, StackInv, Blockers
<1>12. StackInv'
  <2>1. path'[1] = start
    BY <1>1, <1>5 DEF SearchInv, StackInv, Depth
  <2>2. \A i \in Depth' : rest'[i] \subseteq graph[path'[i]].blockedBy
    BY <1>2, <1>5, <1>6, <1>7 DEF SearchInv, StackInv
  <2>3. \A i \in Depth' : i > 1 => path'[i] \in graph[path'[i - 1]].blockedBy
    <3>1. SUFFICES ASSUME NEW i \in Depth', i > 1
                   PROVE  path'[i] \in graph[path'[i - 1]].blockedBy
      OBVIOUS
    <3>2. CASE i = n + 1
      BY <1>1, <1>5, <1>11, <3>2 DEF Depth
    <3>3. CASE i \in Depth
      <4>1. i - 1 \in Depth
        BY <1>1, <3>1, <3>3 DEF Depth
      <4>2. QED
        BY <1>5, <3>1, <3>3, <4>1 DEF SearchInv, StackInv
    <3>4. QED
      BY <1>7, <3>2, <3>3
  <2>4. \A i, j \in Depth' : path'[i] = path'[j] => i = j
    <3>1. \A i \in Depth : path[i] # b
      BY <1>3 DEF OnPath, Depth
    <3>2. \A i, j \in Depth : path[i] = path[j] => i = j
      BY DEF SearchInv, StackInv
    <3>3. QED
      BY <1>5, <1>7, <3>1, <3>2
  <2>5. QED
    BY <1>9, <2>1, <2>2, <2>3, <2>4 DEF StackInv
<1>13. EdgeInv'
  <2>1. \A v \in exhausted :
           Blockers(graph, v) \subseteq Visited' /\ start \notin graph[v].blockedBy
    BY <1>8 DEF SearchInv, EdgeInv
  <2>2. ASSUME NEW i \in Depth
        PROVE  /\ Blockers(graph, path[i]) \subseteq Visited' \cup rest'[i]
               /\ start \in graph[path[i]].blockedBy => start \in rest'[i]
    <3>1. /\ Blockers(graph, path[i]) \subseteq Visited \cup rest[i]
          /\ start \in graph[path[i]].blockedBy => start \in rest[i]
      BY DEF SearchInv, EdgeInv
    <3>2. rest'[i] = rest[i] \/ rest'[i] = rest[i] \ {b}
      BY <1>2, <1>6
    <3>3. QED
      BY <1>3, <1>8, <3>1, <3>2
  <2>3. Blockers(graph, b) \subseteq rest'[n + 1]
    BY <1>6 DEF Blockers
  <2>4. \A i \in Depth' :
           /\ Blockers(graph, path'[i]) \subseteq Visited' \cup rest'[i]
           /\ start \in graph[path'[i]].blockedBy => start \in rest'[i]
    BY <1>5, <1>6, <1>7, <2>2, <2>3
  <2>5. QED
    BY <1>9, <2>1, <2>4 DEF EdgeInv, Blockers
<1>14. ASSUME NEW X \in Closures PROVE b \in X
  <2>1. ClosedUnderBlockers(graph, X) /\ Blockers(graph, start) \subseteq X
    BY DEF Closures
  <2>2. CASE n = 1
    <3>1. path[n] = start
      BY <1>1, <2>2 DEF SearchInv, StackInv
    <3>2. QED
      BY <1>11, <2>1, <3>1
  <2>3. CASE n # 1
    <3>1. n > 1
      <4> HIDE DEF n
      <4>1. n \in Nat /\ n >= 1
        BY <1>1
      <4>2. QED
        BY <2>3, <4>1
    <3>2. path[n] \in X
      BY <1>1, <3>1 DEF SearchInv, ReachInv
    <3>3. QED
      BY <1>11, <2>1, <3>2 DEF ClosedUnderBlockers
  <2>4. QED
    BY <2>2, <2>3
<1>15. ReachInv'
  <2>1. Closures' = Closures
    BY <1>9 DEF Closures, ClosedUnderBlockers, Blockers
  <2>2. ASSUME NEW X \in Closures, NEW i \in Depth', i > 1
        PROVE  path'[i] \in X
    BY <1>5, <1>7, <1>14, <2>2 DEF SearchInv, ReachInv
  <2>3. QED
    BY <2>1, <2>2 DEF ReachInv
<1>16. VerdictInv'
  <2>1. path' # <<>>
    BY <1>1, <1>5
  <2>2. QED
    BY <1>1, <1>9, <2>1 DEF VerdictInv
<1>17. QED
  BY <1>10, <1>12, <1>13, <1>15, <1>16 DEF SearchInv

\* Giving a task up keeps it.
LEMMA BacktracksInv ==
  ASSUME SearchInv, Backtracks
  PROVE  SearchInv'
<1> DEFINE n == Len(path)
<1>1. /\ SearchTypeOK /\ verdict = "searching" /\ rest[n] = {}
      /\ path \in Seq(DOMAIN graph) /\ rest \in Seq(SUBSET TaskIds)
      /\ path # <<>> /\ rest # <<>> /\ Len(rest) = n
      /\ n \in Nat /\ n >= 1 /\ n \in Depth /\ Top = path[n]
  BY EmptySeq DEF SearchInv, SearchTypeOK, Backtracks, Depth, Top
<1>2. /\ path' \in Seq(DOMAIN graph) /\ Len(path') = n - 1
      /\ \A i \in 1 .. n - 1 : path'[i] = path[i]
  BY <1>1, PopFacts DEF Backtracks
<1>3. /\ rest' \in Seq(SUBSET TaskIds) /\ Len(rest') = n - 1
      /\ \A i \in 1 .. n - 1 : rest'[i] = rest[i]
  BY <1>1, PopFacts DEF Backtracks
<1>4. Depth' = 1 .. n - 1 /\ Depth = Depth' \cup {n} /\ n \notin Depth'
  BY <1>1, <1>2 DEF Depth
<1>5. UNCHANGED <<graph, start>> /\ exhausted' = exhausted \cup {path[n]}
  BY <1>1 DEF Backtracks
<1>6. Visited' = Visited
  <2>1. \A i \in Depth' : path'[i] \in OnPath
    BY <1>2, <1>4 DEF OnPath, Depth
  <2>2. OnPath' \subseteq OnPath
    BY <2>1 DEF OnPath, Depth
  <2>3. \A i \in Depth : path[i] \in OnPath' \cup {path[n]}
    BY <1>2, <1>4 DEF OnPath, Depth
  <2>4. OnPath \subseteq OnPath' \cup {path[n]} /\ path[n] \in OnPath
    BY <1>1, <2>3 DEF OnPath, Depth
  <2>5. QED
    BY <1>5, <2>2, <2>4 DEF Visited
<1>7. path[n] \in DOMAIN graph
  BY <1>1 DEF Depth
<1>8. SearchTypeOK'
  <2>1. (path' # <<>>) \/ n = 1
    BY <1>1, <1>2 
  <2>2. QED
    BY <1>1, <1>2, <1>3, <1>5, <1>7, <2>1 DEF SearchTypeOK, Backtracks
<1>9. StackInv'
  <2>1. path' # <<>> => path'[1] = start
    <3>1. path' # <<>> => 1 \in 1 .. n - 1
      BY <1>1, <1>2, EmptySeq
    <3>2. QED
      BY <1>1, <1>2, <3>1 DEF SearchInv, StackInv
  <2>2. \A i \in Depth' : rest'[i] \subseteq graph[path'[i]].blockedBy
    BY <1>2, <1>3, <1>4 DEF SearchInv, StackInv
  <2>3. \A i \in Depth' : i > 1 => path'[i] \in graph[path'[i - 1]].blockedBy
    <3>1. \A i \in Depth' : i > 1 => i - 1 \in Depth'
      BY <1>1, <1>4
    <3>2. QED
      BY <1>2, <1>4, <3>1 DEF SearchInv, StackInv
  <2>4. \A i, j \in Depth' : path'[i] = path'[j] => i = j
    BY <1>2, <1>4 DEF SearchInv, StackInv
  <2>5. QED
    BY <1>5, <2>1, <2>2, <2>3, <2>4 DEF StackInv
<1>10. EdgeInv'
  <2>1. \A v \in exhausted' :
           Blockers(graph, v) \subseteq Visited /\ start \notin graph[v].blockedBy
    BY <1>1, <1>5 DEF SearchInv, EdgeInv
  <2>2. \A i \in Depth' :
           /\ Blockers(graph, path'[i]) \subseteq Visited \cup rest'[i]
           /\ start \in graph[path'[i]].blockedBy => start \in rest'[i]
    BY <1>2, <1>3, <1>4 DEF SearchInv, EdgeInv
  <2>3. QED
    BY <1>5, <1>6, <2>1, <2>2 DEF EdgeInv, Blockers
<1>11. ReachInv'
  <2>1. Closures' = Closures
    BY <1>5 DEF Closures, ClosedUnderBlockers, Blockers
  <2>2. QED
    BY <1>2, <1>4, <2>1 DEF SearchInv, ReachInv
<1>12. VerdictInv'
  <2>1. verdict' # "cycle" /\ (verdict' = "none" => n = 1)
    BY DEF Backtracks
  <2>2. n = 1 => path' = <<>> /\ path[n] = start
    BY <1>1, <1>2, EmptySeq DEF SearchInv, StackInv
  <2>3. n # 1 => path' # <<>>
    BY <1>1, <1>2, EmptySeq
  <2>4. QED
    BY <1>5, <2>1, <2>2, <2>3 DEF VerdictInv
<1>13. QED
  BY <1>8, <1>9, <1>10, <1>11, <1>12 DEF SearchInv

-----------------------------------------------------------------------------
\* The search keeps it.
LEMMA Invariance == SearchSpec => []SearchInv
<1>1. SearchInv /\ [SearchNext]_searchVars => SearchInv'
  <2>1. SUFFICES ASSUME SearchInv, [SearchNext]_searchVars PROVE SearchInv'
    OBVIOUS
  <2>2. CASE \E b \in TaskIds : Closes(b)
    BY <2>1, <2>2, ClosesInv
  <2>3. CASE \E b \in TaskIds : Skips(b)
    BY <2>1, <2>3, SkipsInv
  <2>4. CASE \E b \in TaskIds : Descends(b)
    BY <2>1, <2>4, DescendsInv
  <2>5. CASE Backtracks
    BY <2>1, <2>5, BacktracksInv
  <2>6. CASE UNCHANGED searchVars
    <3>1. UNCHANGED <<graph, start, path, rest, exhausted, verdict>>
      BY <2>6 DEF searchVars
    <3>2. SearchTypeOK' /\ Depth' = Depth /\ Visited' = Visited /\ Top' = Top
      BY <2>1, <3>1 DEF SearchInv, SearchTypeOK, Depth, Visited, OnPath, Top
    <3>3. Closures' = Closures /\ (\A v : Blockers(graph, v)' = Blockers(graph, v))
      BY <3>1 DEF Closures, ClosedUnderBlockers, Blockers
    <3>4. StackInv' /\ ReachInv' /\ VerdictInv'
      BY <2>1, <3>1, <3>2, <3>3 DEF SearchInv, StackInv, ReachInv, VerdictInv
    <3>5. EdgeInv'
      BY <2>1, <3>1, <3>2 DEF SearchInv, EdgeInv, Blockers
    <3>6. QED
      BY <3>2, <3>4, <3>5 DEF SearchInv
  <2>7. QED
    BY <2>1, <2>2, <2>3, <2>4, <2>5, <2>6 DEF SearchNext
<1>2. QED
  BY InitInv, <1>1, PTL DEF SearchSpec

\* What the invariant says of a search that has ended.
LEMMA Decided == SearchInv => SearchDecides
<1>1. SUFFICES ASSUME SearchInv PROVE SearchDecides
  OBVIOUS
<1>2. ASSUME verdict = "cycle" PROVE start \in DOMAIN graph /\ OnCycle(graph, start)
  <2> DEFINE n == Len(path)
  <2>1. /\ path \in Seq(DOMAIN graph) /\ path # <<>> /\ path[1] = start
        /\ start \in graph[path[n]].blockedBy
    BY <1>1, <1>2 DEF SearchInv, SearchTypeOK, StackInv, VerdictInv, Top
  <2>2. n \in Nat /\ n >= 1 /\ start \in DOMAIN graph
    BY <2>1, EmptySeq
  <2>3. ASSUME NEW X \in Closures PROVE start \in X
    <3>1. start \in Blockers(graph, path[n])
      BY <2>1, <2>2 DEF Blockers
    <3>2. CASE n = 1
      BY <2>1, <3>1, <3>2 DEF Closures
    <3>3. CASE n # 1
      <4>1. n \in Depth /\ n > 1
        <5> HIDE DEF n
        <5>1. n > 1 /\ n \in 1 .. n
          BY <2>2, <3>3
        <5>2. QED
          BY <5>1 DEF Depth, n
      <4>2. path[n] \in X
        BY <1>1, <4>1 DEF SearchInv, ReachInv
      <4>3. QED
        BY <3>1, <4>2 DEF Closures, ClosedUnderBlockers
    <3>4. QED
      BY <3>2, <3>3
  <2>4. QED
    BY <2>2, <2>3 DEF OnCycle, Closures
<1>3. ASSUME verdict = "none", start \in DOMAIN graph PROVE ~OnCycle(graph, start)
  <2> DEFINE X == exhausted \ {start}
  <2>1. path = <<>> /\ start \in exhausted /\ exhausted \subseteq DOMAIN graph
    BY <1>1, <1>3 DEF SearchInv, SearchTypeOK, VerdictInv
  <2>2. Visited = exhausted
    BY <2>1 DEF Visited, OnPath
  <2>3. \A v \in exhausted : Blockers(graph, v) \subseteq X
    BY <1>1, <2>2 DEF SearchInv, EdgeInv, Blockers
  <2>4. X \in SUBSET DOMAIN graph /\ ClosedUnderBlockers(graph, X)
        /\ Blockers(graph, start) \subseteq X /\ start \notin X
    BY <2>1, <2>3 DEF ClosedUnderBlockers
  <2>5. QED
    BY <2>4 DEF OnCycle
<1>4. QED
  BY <1>2, <1>3 DEF SearchDecides

-----------------------------------------------------------------------------
\* findCycleThrough keeps its stack, marks and verdict well formed on every graph.
THEOREM SearchTypeCorrect == SearchSpec => []SearchTypeOK
BY Invariance, PTL DEF SearchInv

\* findCycleThrough returns a path exactly when the task is reachable from its own
\* blockers, on every graph and whatever order it visits them in: an edge is
\* refused as cyclic if and only if storing it would close a cycle.
THEOREM SearchCorrect == SearchSpec => []SearchDecides
BY Invariance, Decided, PTL

\* The path it returns is a cycle through the task, each task on it named once.
THEOREM PathCorrect == SearchSpec => []PathIsCycle
<1>1. SearchInv => PathIsCycle
  <2>1. SUFFICES ASSUME SearchInv, verdict = "cycle"
                 PROVE  /\ path[1] = start
                        /\ \A i \in 1 .. Len(path) - 1 : path[i + 1] \in graph[path[i]].blockedBy
                        /\ start \in graph[Top].blockedBy
                        /\ \A i, j \in 1 .. Len(path) : path[i] = path[j] => i = j
    BY DEF PathIsCycle
  <2>2. path[1] = start /\ start \in graph[Top].blockedBy /\ Len(path) \in Nat
    BY <2>1 DEF SearchInv, SearchTypeOK, StackInv, VerdictInv
  <2>3. \A i, j \in 1 .. Len(path) : path[i] = path[j] => i = j
    BY <2>1 DEF SearchInv, StackInv, Depth
  <2>4. ASSUME NEW i \in 1 .. Len(path) - 1
        PROVE  path[i + 1] \in graph[path[i]].blockedBy
    <3>1. i + 1 \in Depth /\ i + 1 > 1 /\ (i + 1) - 1 = i
      BY <2>2 DEF Depth
    <3>2. QED
      BY <2>1, <3>1 DEF SearchInv, StackInv
  <2>5. QED
    BY <2>2, <2>3, <2>4
<1>2. QED
  BY Invariance, <1>1, PTL

-----------------------------------------------------------------------------
(* WavePlan *)

\* A snapshot is a finite graph.
LEMMA SnapshotIsFinite == ASSUME PlanTypeOK PROVE IsFiniteSet(DOMAIN snapshot)
BY DEF PlanTypeOK, Snapshots

\* The plan keeps its types.
LEMMA PlanTypeStep ==
  ASSUME PlanTypeOK, [PlanNext]_planVars
  PROVE  PlanTypeOK'
<1>1. Wave \subseteq remaining
  BY DEF Wave
<1>2. CASE PlacesWave
  BY <1>1, <1>2 DEF PlacesWave, PlanTypeOK
<1>3. CASE Reports
  BY <1>3 DEF Reports, Reason, PlanTypeOK
<1>4. CASE UNCHANGED planVars
  BY <1>4 DEF planVars, PlanTypeOK
<1>5. QED
  BY <1>2, <1>3, <1>4 DEF PlanNext

\* Whatever the document holds, the plan and its report stay well formed.
THEOREM PlanTypeCorrect == PlanSpec => []PlanTypeOK
<1>1. PlanInit => PlanTypeOK
  BY DEF PlanInit, PlanTypeOK, Open
<1>2. PlanTypeOK /\ [PlanNext]_planVars => PlanTypeOK'
  BY PlanTypeStep
<1>3. QED
  BY <1>1, <1>2, PTL DEF PlanSpec

-----------------------------------------------------------------------------
(* The inductive invariant *)

\* The waves partition what is placed, and with remaining it makes up the open tasks.
Partition ==
  /\ placed \subseteq Open
  /\ remaining = Open \ placed
  /\ \A n \in 1 .. Len(waves) : waves[n] \subseteq placed
  /\ \A t \in placed : \E n \in 1 .. Len(waves) : t \in waves[n]
  /\ \A m, n \in 1 .. Len(waves) : m # n => waves[m] \cap waves[n] = {}

\* A report is written when no wave is left, about all that remains.
Reported == report # Pending => Wave = {} /\ report = [t \in remaining |-> Reason(t)]

\* All that the plan keeps.
PlanInv == PlanTypeOK /\ Partition /\ WavesRespectBlockers /\ Reported

\* What appending one wave does to the sequence of waves.
LEMMA NewWave ==
  ASSUME PlanTypeOK, PlacesWave
  PROVE  /\ Len(waves) \in Nat /\ Len(waves') = Len(waves) + 1
         /\ waves'[Len(waves) + 1] = Wave
         /\ \A n \in 1 .. Len(waves) : waves'[n] = waves[n]
         /\ 1 .. Len(waves') = (1 .. Len(waves)) \cup {Len(waves) + 1}
<1>1. Wave \in SUBSET DOMAIN snapshot /\ waves \in Seq(SUBSET DOMAIN snapshot)
  BY DEF PlanTypeOK, Wave
<1>2. waves' = Append(waves, Wave)
  BY DEF PlacesWave
<1>3. Len(waves) \in Nat /\ Len(waves') = Len(waves) + 1
  BY <1>1, <1>2
<1>4. waves'[Len(waves) + 1] = Wave /\ \A n \in 1 .. Len(waves) : waves'[n] = waves[n]
  BY <1>1, <1>2
<1>5. QED
  BY <1>3, <1>4

\* A wave is taken from what remains, so the parts stay disjoint.
LEMMA PartitionKept ==
  ASSUME PlanTypeOK, Partition, PlacesWave
  PROVE  Partition'
<1> DEFINE k == Len(waves) + 1
<1>1. Wave \subseteq remaining /\ Open' = Open
  BY DEF Wave, PlacesWave, Open
<1>2. placed' = placed \cup Wave /\ remaining' = remaining \ Wave
  BY DEF PlacesWave
<1>3. placed' \subseteq Open' /\ remaining' = Open' \ placed'
  BY <1>1, <1>2 DEF Partition
<1>4. ASSUME NEW n \in 1 .. Len(waves')
      PROVE  waves'[n] \subseteq placed'
  BY <1>2, NewWave DEF Partition
<1>5. ASSUME NEW t \in placed'
      PROVE  \E n \in 1 .. Len(waves') : t \in waves'[n]
  BY <1>2, NewWave DEF Partition
<1>6. ASSUME NEW m \in 1 .. Len(waves'), NEW n \in 1 .. Len(waves'), m # n
      PROVE  waves'[m] \cap waves'[n] = {}
  <2>1. Wave \cap placed = {}
    BY <1>1 DEF Partition
  <2>2. QED
    BY <1>6, <2>1, NewWave DEF Partition
<1>7. QED
  BY <1>3, <1>4, <1>5, <1>6 DEF Partition

\* The tasks of the new wave wait on finished or placed tasks only, and those that
\* are placed are in earlier waves.
LEMMA OrderKept ==
  ASSUME PlanTypeOK, Partition, WavesRespectBlockers, PlacesWave
  PROVE  WavesRespectBlockers'
<1>1. snapshot' = snapshot
  BY DEF PlacesWave
<1>2. ASSUME NEW n \in 1 .. Len(waves'), NEW t \in waves'[n], NEW b \in snapshot[t].blockedBy
      PROVE  /\ b \in DOMAIN snapshot
             /\ snapshot[b].status \in TERMINAL
                  \/ \E m \in 1 .. n - 1 : m \in 1 .. Len(waves') /\ b \in waves'[m]
  <2>1. CASE n \in 1 .. Len(waves)
    <3>1. t \in waves[n]
      BY <2>1, NewWave
    <3>2. /\ b \in DOMAIN snapshot
          /\ snapshot[b].status \in TERMINAL
               \/ \E m \in 1 .. n - 1 : m \in 1 .. Len(waves) /\ b \in waves[m]
      BY <2>1, <3>1 DEF WavesRespectBlockers, InWave
    <3>3. QED
      BY <3>2, NewWave
  <2>2. CASE n = Len(waves) + 1
    <3>1. b \in DOMAIN snapshot /\ (snapshot[b].status \in TERMINAL \/ b \in placed)
      BY <2>2, NewWave DEF Wave
    <3>2. b \in placed => \E m \in 1 .. n - 1 : m \in 1 .. Len(waves') /\ b \in waves'[m]
      <4>1. ASSUME b \in placed
            PROVE  \E m \in 1 .. Len(waves) : b \in waves[m]
        BY <4>1 DEF Partition
      <4>2. 1 .. n - 1 = 1 .. Len(waves)
        BY <2>2, NewWave
      <4>3. QED
        BY <4>1, <4>2, NewWave
    <3>3. QED
      BY <3>1, <3>2
  <2>3. QED
    BY <2>1, <2>2, NewWave
<1>3. QED
  BY <1>1, <1>2 DEF WavesRespectBlockers, InWave

\* A wave, or the end of the plan, keeps it.
LEMMA PlanStep ==
  ASSUME PlanInv, [PlanNext]_planVars
  PROVE  PlanInv'
<1>1. PlanTypeOK'
  BY PlanTypeStep DEF PlanInv
<1>2. CASE PlacesWave
  <2>1. Reported'
    BY <1>2 DEF PlacesWave, Reported
  <2>2. QED
    BY <1>1, <1>2, <2>1, PartitionKept, OrderKept DEF PlanInv
<1>3. CASE Reports
  <2>1. UNCHANGED <<snapshot, placed, waves, remaining>> /\ Wave' = Wave
    BY <1>3 DEF Reports, Wave
  <2>2. Partition' /\ WavesRespectBlockers'
    BY <2>1 DEF PlanInv, Partition, Open, WavesRespectBlockers, InWave
  <2>3. Reported'
    BY <1>3, <2>1 DEF Reports, Reported, Reason
  <2>4. QED
    BY <1>1, <2>2, <2>3 DEF PlanInv
<1>4. CASE UNCHANGED planVars
  BY <1>1, <1>4
     DEF planVars, PlanInv, Partition, Open, WavesRespectBlockers, InWave, Reported, Wave, Reason
<1>5. QED
  BY <1>2, <1>3, <1>4 DEF PlanNext

\* The plan keeps it.
LEMMA PlanCorrect == PlanSpec => []PlanInv
<1>1. PlanInit => PlanInv
  <2> SUFFICES ASSUME PlanInit
               PROVE  PlanInv
    OBVIOUS
  <2>1. PlanTypeOK
    BY DEF PlanInit, PlanTypeOK, Open
  <2>2. placed = {} /\ Len(waves) = 0 /\ remaining = Open /\ report = Pending
    BY DEF PlanInit
  <2>3. QED
    BY <2>1, <2>2 DEF PlanInv, Partition, WavesRespectBlockers, Reported
<1>2. PlanInv /\ [PlanNext]_planVars => PlanInv'
  BY PlanStep
<1>3. QED
  BY <1>1, <1>2, PTL DEF PlanSpec

-----------------------------------------------------------------------------
(* What the plan says *)

\* Every open task is in exactly one wave, or remains and is then reported.
THEOREM NothingDropped == PlanSpec => []NoTaskDropped
<1>1. PlanInv => NoTaskDropped
  BY DEF PlanInv, Partition, NoTaskDropped, InWave
<1>2. QED
  BY <1>1, PlanCorrect, PTL

\* Waves can be run one after the other: blockers are finished or in earlier waves.
THEOREM OrderRespected == PlanSpec => []WavesRespectBlockers
<1>1. PlanInv => WavesRespectBlockers
  BY DEF PlanInv
<1>2. QED
  BY <1>1, PlanCorrect, PTL

\* The document after every placed task is done.
Carried ==
  [t \in DOMAIN snapshot |-> IF t \in placed THEN [snapshot[t] EXCEPT !.status = "done"] ELSE snapshot[t]]

\* The graph that the plan carries has the edges of the document.
LEMMA CarriedGraph ==
  ASSUME PlanTypeOK
  PROVE  /\ DOMAIN Carried = DOMAIN snapshot
         /\ \A t \in DOMAIN snapshot :
               /\ Carried[t].blockedBy = snapshot[t].blockedBy
               /\ Carried[t].status \in TERMINAL <=> t \in placed \/ snapshot[t].status \in TERMINAL
<1>1. \A t \in DOMAIN snapshot : snapshot[t] \in [status : {"todo", "done"}, blockedBy : SUBSET TaskIds]
  BY DEF PlanTypeOK, Snapshots
<1>2. QED
  BY <1>1 DEF Carried, TERMINAL

\* A plan that has ended has nothing left to start.
LEMMA NothingIsReady == ASSUME PlanInv, report # Pending PROVE ReadySet(Carried) = {}
<1>1. SUFFICES ASSUME NEW t \in ReadySet(Carried)
               PROVE  FALSE
  OBVIOUS
<1>2. t \in remaining
  BY CarriedGraph DEF ReadySet, PlanInv, Partition, Open, IsOpen
<1>3. \A b \in snapshot[t].blockedBy :
         b \in DOMAIN snapshot /\ (snapshot[b].status \in TERMINAL \/ b \in placed)
  BY CarriedGraph DEF ReadySet, PlanInv
<1>4. t \in Wave
  BY <1>2, <1>3 DEF Wave
<1>5. QED
  BY <1>4 DEF PlanInv, Reported

\* A reported task is stuck: nothing could be started once all placed tasks are done.
THEOREM StuckIsStuck == PlanSpec => []ReportedAreStuck
<1>1. PlanInv => ReportedAreStuck
  BY NothingIsReady DEF ReportedAreStuck, Carried
<1>2. QED
  BY <1>1, PlanCorrect, PTL

\* A graph without dangling id and without cycle is scheduled completely: otherwise
\* something would be ready once all placed tasks are done.
THEOREM AcceptedScheduled == PlanSpec => []AcceptedGraphIsScheduled
<1>1. ASSUME PlanInv, report # Pending, \A t \in DOMAIN snapshot : ValidEdges(snapshot, t)
      PROVE  report = <<>>
  <2>1. \A t \in DOMAIN Carried : UnknownBlockers(Carried, t) = {} /\ ~OnCycle(Carried, t)
    BY <1>1, CarriedGraph, SameEdges DEF ValidEdges, PlanInv
  <2>2. ~ \E t \in DOMAIN Carried : IsOpen(Carried, t)
    BY <1>1, <2>1, CarriedGraph, SnapshotIsFinite, SomethingIsReady, NothingIsReady DEF PlanInv
  <2>3. remaining = {}
    BY <1>1, <2>2, CarriedGraph DEF PlanInv, Partition, Open, IsOpen
  <2>4. QED
    BY <1>1, <2>3 DEF PlanInv, Reported
<1>2. PlanInv => AcceptedGraphIsScheduled
  BY <1>1 DEF AcceptedGraphIsScheduled
<1>3. QED
  BY <1>2, PlanCorrect, PTL

\* A task reported as behind unscheduled ones waits on another reported task.
THEOREM BlameCorrect == PlanSpec => []BlameIsPassedOn
<1>1. ASSUME PlanInv, report # Pending, NEW t \in DOMAIN report,
             report[t] = "blocked_by_unscheduled"
      PROVE  snapshot[t].blockedBy \cap DOMAIN report # {}
  <2>1. t \in remaining /\ t \notin Wave /\ DOMAIN report = remaining
    BY <1>1 DEF PlanInv, Reported
  <2>2. snapshot[t].blockedBy \subseteq DOMAIN snapshot
    BY <1>1, <2>1 DEF PlanInv, Reported, Reason, UnknownBlockers
  <2>3. PICK b \in snapshot[t].blockedBy : snapshot[b].status \notin TERMINAL /\ b \notin placed
    BY <2>1, <2>2 DEF Wave
  <2>4. b \in remaining
    BY <1>1, <2>2, <2>3 DEF PlanInv, Partition, Open, IsOpen
  <2>5. QED
    BY <2>1, <2>4
<1>2. PlanInv => BlameIsPassedOn
  BY <1>1 DEF BlameIsPassedOn
<1>3. QED
  BY <1>2, PlanCorrect, PTL

-----------------------------------------------------------------------------
(* Sums, and the first of the highest *)

\* A set of naturals has a least member.
LEMMA LeastIs ==
  ASSUME NEW S \in SUBSET Nat, S # {}
  PROVE  Min(S) \in S /\ \A y \in S : Min(S) <= y
<1>1. \E m \in S : \A y \in S : m <= y
  BY HasLeast
<1> QED
  BY <1>1 DEF Min

\* A finite set of numbers has a greatest member.
LEMMA GreatestIs ==
  ASSUME NEW S \in SUBSET Int, IsFiniteSet(S), S # {}
  PROVE  Max(S) \in S /\ \A y \in S : y <= Max(S)
<1> DEFINE R == {p \in S \X S : p[1] > p[2]}
           n == Cardinality(S)
           t == InOrder(S, R)
<1>1. StrictOrder(S, R)
  BY DEF StrictOrder
<1> HIDE DEF R
<1>2. n \in Nat /\ t \in Bijection(1 .. n, S) /\ \A a, b \in 1 .. n : a < b => <<t[a], t[b]>> \in R
  BY <1>1, InOrderSorts
<1> HIDE DEF n, t
<1>3. PICK y \in S : TRUE
  OBVIOUS
<1>4. PICK b \in 1 .. n : t[b] = y
  BY <1>2 DEF Bijection, Surjection
<1>5. 1 \in 1 .. n /\ t[1] \in S
  BY <1>2, <1>4 DEF Bijection, Injection
<1>6. \A z \in S : z <= t[1]
  <2> SUFFICES ASSUME NEW z \in S PROVE z <= t[1]
    OBVIOUS
  <2>1. PICK c \in 1 .. n : t[c] = z
    BY <1>2 DEF Bijection, Surjection
  <2>2. c = 1 \/ 1 < c
    BY <1>2
  <2>3. CASE c = 1
    BY <1>5, <2>1, <2>3
  <2>4. CASE 1 < c
    <3>1. <<t[1], t[c]>> \in R
      BY <1>2, <1>5, <2>4
    <3>2. t[1] > t[c]
      BY <3>1 DEF R
    <3>3. z \in Int /\ t[1] \in Int
      BY <1>5
    <3> QED
      BY <2>1, <3>2, <3>3
  <2> QED
    BY <2>2, <2>3, <2>4
<1>7. \E m \in S : \A z \in S : m >= z
  BY <1>5, <1>6
<1>8. Max(S) \in S /\ \A z \in S : Max(S) >= z
  BY <1>7 DEF Max
<1> QED
  BY <1>8

\* The values of a function on a finite set are finitely many.
LEMMA ImageFinite ==
  ASSUME NEW S, IsFiniteSet(S), NEW f
  PROVE  IsFiniteSet({f[x] : x \in S})
<1> DEFINE V == {f[x] : x \in S}
           g == [x \in S |-> f[x]]
<1>1. g \in [S -> V] /\ \A v \in V : \E x \in S : g[x] = v
  OBVIOUS
<1> HIDE DEF V, g
<1>2. g \in Surjection(S, V)
  BY <1>1 DEF Surjection
<1> QED
  BY <1>2, FS_Surjection DEF V

\* First(f, S) is the place of the highest value, the first of them.
Leads(f, S, i) == i \in S /\ \A j \in S : f[j] <= f[i] /\ (j < i => f[j] < f[i])

\* The first of the highest is the one that leads.
LEMMA FirstLeads ==
  ASSUME NEW S \in SUBSET Nat, IsFiniteSet(S), S # {}, NEW f, \A i \in S : f[i] \in Int
  PROVE  Leads(f, S, First(f, S))
<1> DEFINE V == {f[i] : i \in S}
           T == {i \in S : \A j \in S : f[j] <= f[i]}
<1>1. V \in SUBSET Int /\ V # {} /\ IsFiniteSet(V)
  BY ImageFinite
<1>2. PICK top \in V : \A v \in V : v <= top
  <2> HIDE DEF V
  <2> QED
    BY <1>1, GreatestIs
<1>3. PICK i \in S : f[i] = top
  BY <1>2
<1>4. i \in T
  BY <1>2, <1>3
<1>5. First(f, S) = Min(T)
  BY DEF First
<1>6. T \in SUBSET Nat /\ T # {}
  BY <1>4
<1>7. Min(T) \in T /\ \A y \in T : Min(T) <= y
  <2> HIDE DEF T
  <2> QED
    BY <1>6, LeastIs
<1> DEFINE m == Min(T)
<1>8. m \in S /\ \A j \in S : f[j] <= f[m]
  BY <1>7
<1>9. \A j \in S : (\A k \in S : f[k] <= f[j]) => m <= j
  BY <1>7
<1> HIDE DEF m, T
<1>10. ASSUME NEW j \in S, j < m PROVE f[j] < f[m]
  <2>1. j \in Nat /\ m \in Nat /\ f[j] \in Int /\ f[m] \in Int
    BY <1>8
  <2>2. ~ (m <= j)
    BY <1>10, <2>1
  <2>3. PICK k \in S : ~ (f[k] <= f[j])
    BY <1>9, <2>2
  <2>4. f[k] <= f[m] /\ f[k] \in Int
    BY <1>8
  <2> QED
    BY <2>1, <2>3, <2>4
<1> QED
  BY <1>5, <1>8, <1>10 DEF Leads, m

\* There is only one such place.
LEMMA LeadsOnce ==
  ASSUME NEW S \in SUBSET Nat, NEW f, \A i \in S : f[i] \in Int,
         NEW i, NEW j, Leads(f, S, i), Leads(f, S, j)
  PROVE  i = j
<1>1. i \in S /\ j \in S /\ f[i] <= f[j] /\ f[j] <= f[i]
      /\ (i < j => f[i] < f[j]) /\ (j < i => f[j] < f[i])
  BY DEF Leads
<1>2. i \in Nat /\ j \in Nat /\ f[i] \in Int /\ f[j] \in Int
  BY <1>1
<1> QED
  BY <1>1, <1>2

\* g sums s up.
Sums(g, s) ==
  /\ g \in [0 .. Len(s) -> Int] /\ g[0] = 0
  /\ \A k \in 1 .. Len(s) : g[k] = g[k - 1] + s[k]

\* The sums exist, and the last is the total.
LEMMA TotalSums ==
  ASSUME NEW s \in Seq(Int)
  PROVE  \E g : Sums(g, s) /\ Total(s) = g[Len(s)]
<1> DEFINE n == Len(s)
           F[k \in 0 .. n] == IF k = 0 THEN 0 ELSE F[k - 1] + s[k]
           Built(f, m) == f = [k \in 0 .. m |-> IF k = 0 THEN 0 ELSE f[k - 1] + s[k]]
           T == {m \in Nat : \E f : Built(f, m)}
<1>1. n \in Nat /\ \A k \in 1 .. n : s[k] \in Int
  OBVIOUS
<1>2. Nat \subseteq T
  <2>1. 0 \in T
    <3>1. Built([k \in 0 .. 0 |-> 0], 0)
      OBVIOUS
    <3> QED
      BY <3>1
  <2>2. ASSUME NEW m \in Nat, m \in T PROVE m + 1 \in T
    <3>1. PICK f : Built(f, m)
      BY <2>2
    <3> DEFINE g == [k \in 0 .. m + 1 |-> IF k = m + 1 THEN f[k - 1] + s[k] ELSE f[k]]
    <3>2. \A k \in 0 .. m + 1 : k # 0 => k - 1 \in 0 .. m /\ g[k - 1] = f[k - 1]
      OBVIOUS
    <3>3. \A k \in 0 .. m + 1 : k # m + 1 => k \in 0 .. m
      OBVIOUS
    <3>4. \A k \in 0 .. m : f[k] = IF k = 0 THEN 0 ELSE f[k - 1] + s[k]
      BY <3>1
    <3>5. g = [k \in 0 .. m + 1 |-> IF k = m + 1 THEN f[k - 1] + s[k] ELSE f[k]]
      OBVIOUS
    <3> HIDE DEF g
    <3>6. \A k \in 0 .. m + 1 : g[k] = IF k = 0 THEN 0 ELSE g[k - 1] + s[k]
      BY <3>2, <3>3, <3>4, <3>5
    <3>7. Built(g, m + 1)
      BY <3>5, <3>6
    <3> HIDE DEF Built
    <3> QED
      BY <3>7
  <2> HIDE DEF T
  <2> QED
    BY <2>1, <2>2, NatSet
<1>3. F = [k \in 0 .. n |-> IF k = 0 THEN 0 ELSE F[k - 1] + s[k]]
  BY <1>1, <1>2
<1>4. Total(s) = F[n]
  BY DEF Total
<1> HIDE DEF F, n
<1>5. \A k \in 0 .. n : F[k] = IF k = 0 THEN 0 ELSE F[k - 1] + s[k]
  BY <1>3
<1>6. F[0] = 0 /\ \A k \in 1 .. n : F[k] = F[k - 1] + s[k]
  BY <1>1, <1>5
<1> DEFINE U == {m \in Nat : m \in 0 .. n => F[m] \in Int}
<1>7. Nat \subseteq U
  <2>1. 0 \in U
    BY <1>6
  <2>2. ASSUME NEW m \in Nat, m \in U PROVE m + 1 \in U
    <3> SUFFICES ASSUME m + 1 \in 0 .. n PROVE F[m + 1] \in Int
      OBVIOUS
    <3>1. m \in 0 .. n /\ m + 1 \in 1 .. n /\ (m + 1) - 1 = m
      BY <1>1
    <3>2. F[m] \in Int /\ F[m + 1] = F[m] + s[m + 1] /\ s[m + 1] \in Int
      BY <1>1, <1>6, <2>2, <3>1
    <3> QED
      BY <3>2
  <2> HIDE DEF U
  <2> QED
    BY <2>1, <2>2, NatSet
<1>8. F \in [0 .. n -> Int]
  <2>1. \A k \in 0 .. n : F[k] \in Int
    BY <1>1, <1>7
  <2> QED
    BY <1>3, <2>1
<1> QED
  BY <1>4, <1>6, <1>8 DEF Sums, n

\* Sums of sequences of one length, one of which is nowhere larger.
LEMMA SumsGrow ==
  ASSUME NEW s \in Seq(Int), NEW t, NEW n \in Nat, n <= Len(s), NEW g, NEW h, Sums(g, s),
         h \in [0 .. n -> Int], h[0] = 0, \A k \in 1 .. n : h[k] = h[k - 1] + t[k],
         \A k \in 1 .. n : t[k] \in Int /\ s[k] <= t[k]
  PROVE  g[n] <= h[n]
<1> DEFINE U == {m \in Nat : m \in 0 .. n => g[m] <= h[m]}
<1>0. Len(s) \in Nat /\ \A k \in 1 .. Len(s) : s[k] \in Int
  OBVIOUS
<1>1. 0 \in U
  BY DEF Sums
<1>2. ASSUME NEW m \in Nat, m \in U PROVE m + 1 \in U
  <2> SUFFICES ASSUME m + 1 \in 0 .. n PROVE g[m + 1] <= h[m + 1]
    OBVIOUS
  <2>1. m \in 0 .. n /\ m + 1 \in 1 .. n /\ (m + 1) - 1 = m /\ m + 1 \in 1 .. Len(s) /\ m \in 0 .. Len(s)
    BY <1>0
  <2>2. g[m + 1] = g[m] + s[m + 1] /\ g[m] \in Int /\ s[m + 1] \in Int
    BY <1>0, <2>1 DEF Sums
  <2>3. h[m + 1] = h[m] + t[m + 1] /\ h[m] \in Int /\ t[m + 1] \in Int /\ s[m + 1] <= t[m + 1]
    BY <2>1
  <2>4. g[m] <= h[m]
    BY <1>2, <2>1
  <2>5. \A a, b, c, d \in Int : a <= b /\ c <= d => a + c <= b + d
    OBVIOUS
  <2>6. g[m] + s[m + 1] <= h[m] + t[m + 1]
    BY <2>2, <2>3, <2>4, <2>5
  <2> QED
    BY <2>2, <2>3, <2>6, Zenon
<1> HIDE DEF U
<1>3. Nat \subseteq U
  BY <1>1, <1>2, NatSet
<1> QED
  BY <1>3 DEF U

\* A sum of numbers is a number.
LEMMA TotalType ==
  ASSUME NEW s \in Seq(Int)
  PROVE  Total(s) \in Int
<1>1. PICK g : Sums(g, s) /\ Total(s) = g[Len(s)]
  BY TotalSums
<1>2. Len(s) \in 0 .. Len(s)
  OBVIOUS
<1> QED
  BY <1>1, <1>2 DEF Sums

\* It grows with each of them.
LEMMA TotalGrows ==
  ASSUME NEW s \in Seq(Int), NEW t \in Seq(Int), Len(s) = Len(t), \A k \in 1 .. Len(s) : s[k] <= t[k]
  PROVE  Total(s) <= Total(t)
<1> DEFINE n == Len(s)
<1>0. n \in Nat /\ n <= n /\ \A k \in 1 .. n : t[k] \in Int
  OBVIOUS
<1>1. PICK g : Sums(g, s) /\ Total(s) = g[n]
  BY TotalSums
<1>2. PICK h : Sums(h, t) /\ Total(t) = h[n]
  BY TotalSums
<1>3. h \in [0 .. n -> Int] /\ h[0] = 0 /\ \A k \in 1 .. n : h[k] = h[k - 1] + t[k]
  BY <1>2 DEF Sums
<1>5. \A k \in 1 .. n : t[k] \in Int /\ s[k] <= t[k]
  BY <1>0
<1> HIDE DEF n
<1>6. n <= Len(s)
  BY <1>0 DEF n
<1>7. g[n] <= h[n]
  BY <1>0, <1>1, <1>3, <1>5, <1>6, SumsGrow
<1> QED
  BY <1>1, <1>2, <1>7

\* A number more.
LEMMA TotalAppend ==
  ASSUME NEW s \in Seq(Int), NEW x \in Int
  PROVE  Total(Append(s, x)) = Total(s) + x
<1> DEFINE n == Len(s)
           t == Append(s, x)
<1>0. n \in Nat /\ \A k \in 1 .. n : s[k] \in Int
  OBVIOUS
<1>1. t \in Seq(Int) /\ Len(t) = n + 1 /\ t[n + 1] = x /\ \A k \in 1 .. n : t[k] = s[k]
  OBVIOUS
<1> HIDE DEF t
<1>2. PICK g : Sums(g, s) /\ Total(s) = g[n]
  BY TotalSums
<1>3. PICK h : Sums(h, t) /\ Total(t) = h[n + 1]
  BY <1>1, TotalSums
<1>4. h[n + 1] = h[n] + x /\ h[n] \in Int /\ g[n] \in Int
  <2>1. n + 1 \in 1 .. n + 1 /\ (n + 1) - 1 = n /\ n \in 0 .. n + 1 /\ n \in 0 .. n
    BY <1>0
  <2> QED
    BY <1>1, <1>2, <1>3, <2>1 DEF Sums
<1> DEFINE U == {m \in Nat : m \in 0 .. n => g[m] = h[m]}
<1>5. 0 \in U
  BY <1>2, <1>3 DEF Sums
<1>6. ASSUME NEW m \in Nat, m \in U PROVE m + 1 \in U
  <2> SUFFICES ASSUME m + 1 \in 0 .. n PROVE g[m + 1] = h[m + 1]
    OBVIOUS
  <2>1. m \in 0 .. n /\ m + 1 \in 1 .. n /\ (m + 1) - 1 = m /\ m + 1 \in 1 .. n + 1
    BY <1>0
  <2>2. g[m + 1] = g[m] + s[m + 1]
    BY <1>2, <2>1 DEF Sums
  <2>3. h[m + 1] = h[m] + t[m + 1]
    BY <1>1, <1>3, <2>1 DEF Sums
  <2>4. t[m + 1] = s[m + 1] /\ g[m] = h[m]
    BY <1>1, <1>6, <2>1
  <2> QED
    BY <2>2, <2>3, <2>4
<1> HIDE DEF U, n
<1>7. Nat \subseteq U
  BY <1>5, <1>6, NatSet
<1>8. g[n] = h[n]
  BY <1>0, <1>7 DEF U
<1> QED
  BY <1>2, <1>3, <1>4, <1>8 DEF t

-----------------------------------------------------------------------------
(* The gain of a candidate only shrinks *)

\* An input of n candidates.
InputOf(in, n) ==
  /\ n \in Nat /\ Candidates(in) = 1 .. n /\ Count(in) = n
  /\ \A i \in 1 .. n : in.cost[i] \in Nat /\ in.rel[i] \in Int
  /\ \A i, j \in 1 .. n : in.sim[i][j] \in Int
  /\ in.weights.rel \in Int /\ in.weights.coverage \in Nat /\ in.weights.diversity \in Nat
  /\ in.budget \in Int /\ in.minGain \subseteq Int

\* Every input is one.
LEMMA InputFacts ==
  ASSUME NEW in \in SelectInputs
  PROVE  \E n : InputOf(in, n)
<1>1. PICK n \in Nat : in \in [cost : [1 .. n -> Nat], rel : [1 .. n -> Int], sim : Matrix(n),
                               weights : Weights, budget : Int, minGain : SUBSET Int]
  BY DEF SelectInputs
<1>2. /\ in.cost \in [1 .. n -> Nat] /\ in.rel \in [1 .. n -> Int] /\ in.sim \in Matrix(n)
      /\ in.weights \in Weights /\ in.budget \in Int /\ in.minGain \in SUBSET Int
  BY <1>1
<1>3. Candidates(in) = 1 .. n
  BY <1>2 DEF Candidates
<1>4. Count(in) = n
  BY <1>3, FS_Interval DEF Count
<1>5. \A i \in 1 .. n : in.cost[i] \in Nat /\ in.rel[i] \in Int
  BY <1>2
<1>6. \A i, j \in 1 .. n : in.sim[i][j] \in Int
  BY <1>2 DEF Matrix
<1>7. in.weights.rel \in Int /\ in.weights.coverage \in Nat /\ in.weights.diversity \in Nat
  BY <1>2 DEF Weights
<1> QED
  BY <1>2, <1>3, <1>4, <1>5, <1>6, <1>7 DEF InputOf

\* The nearest pick, or 0.
LEMMA ClosestIs ==
  ASSUME NEW in, NEW n, InputOf(in, n), NEW picks \in Seq(1 .. n), NEW j \in 1 .. n
  PROVE  /\ Closest(in, picks, j) \in Int /\ 0 <= Closest(in, picks, j)
         /\ \A k \in DOMAIN picks : in.sim[picks[k]][j] <= Closest(in, picks, j)
         /\ \/ Closest(in, picks, j) = 0
            \/ \E k \in DOMAIN picks : Closest(in, picks, j) = in.sim[picks[k]][j]
<1> DEFINE f == [k \in DOMAIN picks |-> in.sim[picks[k]][j]]
           V == {f[k] : k \in DOMAIN picks}
           S == {0} \cup V
<1>1. IsFiniteSet(DOMAIN picks) /\ \A k \in DOMAIN picks : picks[k] \in 1 .. n
  BY SeqPlaces
<1>2. IsFiniteSet(V)
  <2> HIDE DEF f
  <2> QED
    BY <1>1, ImageFinite
<1>3. \A k \in DOMAIN picks : f[k] = in.sim[picks[k]][j] /\ f[k] \in Int
  BY <1>1 DEF InputOf
<1>4. S = {0} \cup {in.sim[picks[k]][j] : k \in DOMAIN picks}
  OBVIOUS
<1> HIDE DEF f
<1>5. V \subseteq Int
  BY <1>3
<1>6. IsFiniteSet(S) /\ S \in SUBSET Int /\ S # {}
  <2> HIDE DEF V
  <2>1. IsFiniteSet({0})
    BY FS_Singleton
  <2>2. IsFiniteSet({0} \cup V)
    BY <1>2, <2>1, FS_Union, Zenon
  <2>3. {0} \cup V \in SUBSET Int /\ {0} \cup V # {}
    BY <1>5
  <2> QED
    BY <2>2, <2>3
<1>7. Max(S) \in S /\ \A y \in S : y <= Max(S)
  <2> HIDE DEF S
  <2> QED
    BY <1>6, GreatestIs
<1>8. Closest(in, picks, j) = Max(S)
  BY <1>4 DEF Closest
<1> DEFINE m == Max(S)
<1>9. m \in Int /\ 0 <= m
  BY <1>6, <1>7
<1>10. \A k \in DOMAIN picks : f[k] <= m
  BY <1>7
<1>11. m = 0 \/ \E k \in DOMAIN picks : m = f[k]
  BY <1>7
<1> HIDE DEF m, S
<1> QED
  BY <1>3, <1>8, <1>9, <1>10, <1>11 DEF m

\* Another pick can only be nearer.
LEMMA ClosestGrows ==
  ASSUME NEW in, NEW n, InputOf(in, n), NEW picks \in Seq(1 .. n), NEW x \in 1 .. n, NEW j \in 1 .. n
  PROVE  Closest(in, picks, j) <= Closest(in, Append(picks, x), j)
<1> DEFINE more == Append(picks, x)
<1>1. more \in Seq(1 .. n) /\ \A k \in DOMAIN picks : k \in DOMAIN more /\ more[k] = picks[k]
  OBVIOUS
<1> HIDE DEF more
<1> DEFINE a == Closest(in, picks, j)
           b == Closest(in, more, j)
<1>2. a \in Int /\ (a = 0 \/ \E k \in DOMAIN picks : a = in.sim[picks[k]][j])
  BY ClosestIs
<1>3. b \in Int /\ 0 <= b /\ \A k \in DOMAIN more : in.sim[more[k]][j] <= b
  BY <1>1, ClosestIs
<1> HIDE DEF a, b
<1>4. CASE a = 0
  BY <1>3, <1>4 DEF a, b, more
<1>5. CASE \E k \in DOMAIN picks : a = in.sim[picks[k]][j]
  <2>1. PICK k \in DOMAIN picks : a = in.sim[picks[k]][j]
    BY <1>5
  <2>2. in.sim[more[k]][j] <= b /\ more[k] = picks[k]
    BY <1>1, <1>3
  <2>3. a <= b
    BY <2>1, <2>2
  <2> QED
    BY <2>3 DEF a, b, more
<1> QED
  BY <1>2, <1>4, <1>5

\* Every term of the coverage is a number, and shrinks.
LEMMA NearerShrinks ==
  ASSUME NEW in, NEW n, InputOf(in, n), NEW picks \in Seq(1 .. n), NEW x \in 1 .. n,
         NEW i \in 1 .. n, NEW j \in 1 .. n
  PROVE  /\ Nearer(in, i, picks, j) \in Int
         /\ Nearer(in, i, Append(picks, x), j) \in Int
         /\ Nearer(in, i, Append(picks, x), j) <= Nearer(in, i, picks, j)
<1> DEFINE a == Closest(in, picks, j)
           b == Closest(in, Append(picks, x), j)
           s == in.sim[i][j]
<1>1. a \in Int /\ b \in Int /\ a <= b
  <2>1. Append(picks, x) \in Seq(1 .. n)
    OBVIOUS
  <2> QED
    BY <2>1, ClosestIs, ClosestGrows
<1>2. s \in Int
  BY DEF InputOf
<1>3. /\ Nearer(in, i, picks, j) = (IF s - a > 0 THEN s - a ELSE 0)
      /\ Nearer(in, i, Append(picks, x), j) = (IF s - b > 0 THEN s - b ELSE 0)
  BY DEF Nearer
<1> HIDE DEF a, b, s
<1> QED
  BY <1>1, <1>2, <1>3

\* "gain(i | S) is non-increasing as S grows."
LEMMA GainShrinks ==
  ASSUME NEW in, NEW n, InputOf(in, n), NEW picks \in Seq(1 .. n), NEW x \in 1 .. n, NEW i \in 1 .. n
  PROVE  /\ Gain(in, i, picks) \in Int
         /\ Gain(in, i, Append(picks, x)) <= Gain(in, i, picks)
<1> DEFINE more == Append(picks, x)
           old == [j \in Candidates(in) |-> Nearer(in, i, picks, j)]
           new == [j \in Candidates(in) |-> Nearer(in, i, more, j)]
           rel == in.weights.rel * in.rel[i] * Count(in)
           cov == in.weights.coverage
           div == in.weights.diversity * Count(in)
           a == Closest(in, picks, i)
           b == Closest(in, more, i)
<1>1. more \in Seq(1 .. n)
  OBVIOUS
<1>2. \A j \in 1 .. n : Nearer(in, i, picks, j) \in Int /\ Nearer(in, i, more, j) \in Int
                        /\ Nearer(in, i, more, j) <= Nearer(in, i, picks, j)
  BY NearerShrinks
<1>3. Candidates(in) = 1 .. n /\ n \in Nat
  BY DEF InputOf
<1> HIDE DEF more
<1>4. old \in Seq(Int) /\ new \in Seq(Int) /\ Len(old) = n /\ Len(new) = n
      /\ \A j \in 1 .. n : new[j] <= old[j]
  BY <1>2, <1>3
<1>5. Gain(in, i, picks) = rel + cov * Total(old) - div * a
      /\ Gain(in, i, more) = rel + cov * Total(new) - div * b
  BY DEF Gain
<1> HIDE DEF old, new
<1>6. Total(new) \in Int /\ Total(old) \in Int /\ Total(new) <= Total(old)
  <2>1. \A j \in 1 .. Len(new) : new[j] <= old[j]
    BY <1>4
  <2>2. Len(new) = Len(old)
    BY <1>4
  <2>3. Total(new) <= Total(old)
    BY <1>4, <2>1, <2>2, TotalGrows
  <2> QED
    BY <1>4, <2>3, TotalType
<1>7. rel \in Int /\ cov \in Nat /\ div \in Nat
  <2>1. Count(in) = n /\ in.rel[i] \in Int /\ in.weights.rel \in Int
        /\ in.weights.coverage \in Nat /\ in.weights.diversity \in Nat
    BY DEF InputOf
  <2> QED
    BY <1>3, <2>1
<1>8. a \in Int /\ b \in Int /\ a <= b
  BY <1>1, ClosestIs, ClosestGrows DEF more
<1> HIDE DEF rel, cov, div, a, b
<1>9. \A c \in Nat : \A u, v \in Int : u <= v => c * u <= c * v /\ c * u \in Int /\ c * v \in Int
  OBVIOUS
<1>10. cov * Total(new) <= cov * Total(old) /\ cov * Total(new) \in Int /\ cov * Total(old) \in Int
  BY <1>6, <1>7, <1>9
<1>11. div * a <= div * b /\ div * a \in Int /\ div * b \in Int
  BY <1>7, <1>8, <1>9
<1>12. \A r, u, v, y, z \in Int : u <= v /\ y <= z => (r + v - y \in Int) /\ (r + u - z <= r + v - y)
  OBVIOUS
<1>13. rel + cov * Total(old) - div * a \in Int
       /\ rel + cov * Total(new) - div * b <= rel + cov * Total(old) - div * a
  BY <1>7, <1>10, <1>11, <1>12
<1> QED
  BY <1>5, <1>13 DEF more

\* What is spent.
LEMMA SpentGrows ==
  ASSUME NEW in, NEW n, InputOf(in, n), NEW picks \in Seq(1 .. n), NEW x \in 1 .. n
  PROVE  /\ Spent(in, picks) \in Int
         /\ Spent(in, Append(picks, x)) = Spent(in, picks) + in.cost[x]
<1> DEFINE s == [k \in DOMAIN picks |-> in.cost[picks[k]]]
           t == [k \in DOMAIN Append(picks, x) |-> in.cost[Append(picks, x)[k]]]
<1>1. \A i \in 1 .. n : in.cost[i] \in Int
  BY DEF InputOf
<1>2. s \in Seq(Int) /\ in.cost[x] \in Int
  <2>1. \A k \in 1 .. Len(picks) : picks[k] \in 1 .. n
    BY SeqPlaces
  <2>2. s \in [1 .. Len(picks) -> Int] /\ Len(picks) \in Nat
    BY <1>1, <2>1
  <2> HIDE DEF s
  <2> QED
    BY <1>1, <2>2
<1>3. t = Append(s, in.cost[x])
  BY <1>1, <1>2
<1>4. Spent(in, picks) = Total(s) /\ Spent(in, Append(picks, x)) = Total(t)
  BY DEF Spent
<1> HIDE DEF s, t
<1>5. Total(Append(s, in.cost[x])) = Total(s) + in.cost[x]
  BY <1>2, TotalAppend
<1> QED
  BY <1>2, <1>3, <1>4, <1>5, TotalType

-----------------------------------------------------------------------------
(* What the lazy choice knows: stale gains bound the gains of today *)

\* What a round may pick from.
StillOpen(in, picks) ==
  IF in.budget <= 0 THEN {} ELSE Fitting(in, Candidates(in) \ Range(picks), picks)

\* a holds the picks after each round of the naive selection.
Rounds(in, a) == a[0] = <<>> /\ \A k \in 1 .. Count(in) : a[k] = NaiveRound(in, a[k - 1])

\* The rounds exist, and the last is the answer.
LEMMA NaiveRounds ==
  ASSUME NEW in, NEW n, InputOf(in, n)
  PROVE  \E a : Rounds(in, a) /\ Naive(in) = a[n]
<1> DEFINE N == Count(in)
           F[k \in 0 .. N] == IF k = 0 THEN <<>> ELSE NaiveRound(in, F[k - 1])
           Built(f, m) == f = [k \in 0 .. m |-> IF k = 0 THEN <<>> ELSE NaiveRound(in, f[k - 1])]
           T == {m \in Nat : \E f : Built(f, m)}
<1>1. N \in Nat /\ N = n
  BY DEF InputOf
<1>2. Nat \subseteq T
  <2>1. 0 \in T
    <3>1. Built([k \in 0 .. 0 |-> <<>>], 0)
      OBVIOUS
    <3> QED
      BY <3>1
  <2>2. ASSUME NEW m \in Nat, m \in T PROVE m + 1 \in T
    <3>1. PICK f : Built(f, m)
      BY <2>2
    <3> DEFINE g == [k \in 0 .. m + 1 |-> IF k = m + 1 THEN NaiveRound(in, f[k - 1]) ELSE f[k]]
    <3>2. \A k \in 0 .. m + 1 : k # 0 => k - 1 \in 0 .. m /\ g[k - 1] = f[k - 1]
      OBVIOUS
    <3>3. \A k \in 0 .. m + 1 : k # m + 1 => k \in 0 .. m
      OBVIOUS
    <3>4. \A k \in 0 .. m : f[k] = IF k = 0 THEN <<>> ELSE NaiveRound(in, f[k - 1])
      BY <3>1
    <3>5. g = [k \in 0 .. m + 1 |-> IF k = m + 1 THEN NaiveRound(in, f[k - 1]) ELSE f[k]]
      OBVIOUS
    <3> HIDE DEF g
    <3>6. \A k \in 0 .. m + 1 : g[k] = IF k = 0 THEN <<>> ELSE NaiveRound(in, g[k - 1])
      BY <3>2, <3>3, <3>4, <3>5
    <3>7. Built(g, m + 1)
      BY <3>5, <3>6
    <3> HIDE DEF Built
    <3> QED
      BY <3>7
  <2> HIDE DEF T
  <2> QED
    BY <2>1, <2>2, NatSet
<1>3. F = [k \in 0 .. N |-> IF k = 0 THEN <<>> ELSE NaiveRound(in, F[k - 1])]
  BY <1>1, <1>2
<1>4. Naive(in) = F[N]
  BY DEF Naive
<1> HIDE DEF F, N
<1>5. \A k \in 0 .. N : F[k] = IF k = 0 THEN <<>> ELSE NaiveRound(in, F[k - 1])
  BY <1>3
<1>6. F[0] = <<>> /\ \A k \in 1 .. N : F[k] = NaiveRound(in, F[k - 1])
  BY <1>1, <1>5
<1> QED
  BY <1>1, <1>4, <1>6 DEF Rounds, N

\* A round that adds nothing is the last that counts.
LEMMA RoundsEnd ==
  ASSUME NEW in, NEW n, InputOf(in, n), NEW a, Rounds(in, a), NEW m \in 0 .. n,
         NaiveRound(in, a[m]) = a[m]
  PROVE  a[n] = a[m]
<1> DEFINE U == {d \in Nat : m + d \in 0 .. n => a[m + d] = a[m]}
<1>1. n \in Nat /\ Count(in) = n
  BY DEF InputOf
<1>2. 0 \in U
  OBVIOUS
<1>3. ASSUME NEW d \in Nat, d \in U PROVE d + 1 \in U
  <2> SUFFICES ASSUME m + (d + 1) \in 0 .. n PROVE a[m + (d + 1)] = a[m]
    OBVIOUS
  <2>1. m + d \in 0 .. n /\ m + (d + 1) \in 1 .. n /\ (m + (d + 1)) - 1 = m + d
    BY <1>1
  <2>2. a[m + d] = a[m]
    BY <1>3, <2>1
  <2>3. a[m + (d + 1)] = NaiveRound(in, a[m + d])
    BY <1>1, <2>1 DEF Rounds
  <2> QED
    BY <2>2, <2>3
<1> HIDE DEF U
<1>4. Nat \subseteq U
  BY <1>2, <1>3, NatSet
<1>5. n - m \in Nat /\ m + (n - m) = n
  BY <1>1
<1> QED
  BY <1>1, <1>4, <1>5 DEF U

\* What the loop keeps.  A gain computed in some round bounds today's.
Bounds ==
  \A i \in Candidates(input) :
     /\ cached[i] \in Int /\ seen[i] \in Int /\ seen[i] <= Len(chosen)
     /\ seen[i] # -1 => Gain(input, i, chosen) <= cached[i]
     /\ seen[i] = Len(chosen) => cached[i] = Gain(input, i, chosen)

\* No candidate is picked twice.
Distinct(s) == \A k, m \in DOMAIN s : k # m => s[k] # s[m]

\* The lazy choice keeps: what may be picked is what still fits, an old gain is no lower
\* than that of today, and the picks are those of as many naive rounds.
LazyInv ==
  /\ input \in SelectInputs
  /\ chosen \in Seq(Candidates(input)) /\ Distinct(chosen)
  /\ alive = StillOpen(input, chosen)
  /\ cached \in [Candidates(input) -> Int] /\ seen \in [Candidates(input) -> Int] /\ Bounds
  /\ \A a : Rounds(input, a) => a[Len(chosen)] = chosen

\* Distinct places are no more than there are.
LEMMA DistinctIsShort ==
  ASSUME NEW n \in Nat, NEW s \in Seq(1 .. n), Distinct(s)
  PROVE  Len(s) \in 0 .. n
<1> DEFINE m == Len(s)
<1>1. DOMAIN s = 1 .. m /\ m \in Nat /\ \A k \in DOMAIN s : s[k] \in 1 .. n
  BY SeqPlaces
<1>2. s \in Injection(1 .. m, 1 .. n)
  <2>1. s \in [1 .. m -> 1 .. n]
    OBVIOUS
  <2> QED
    BY <1>1, <2>1 DEF Injection, IsInjective, Distinct
<1> HIDE DEF m
<1>3. \A k \in Nat : IsFiniteSet(1 .. k) /\ Cardinality(1 .. k) = k
  BY FS_Interval
<1>4. Cardinality(1 .. m) <= Cardinality(1 .. n)
  BY <1>2, <1>3, FS_Injection
<1> QED
  BY <1>1, <1>3, <1>4 DEF m

\* The candidate whose bound leads and is this round's gain leads by its gain.
LEMMA FreshLeads ==
  ASSUME LazyInv, alive # {}, IsFresh(Best)
  PROVE  /\ Best \in alive /\ cached[Best] = Gain(input, Best, chosen)
         /\ NaiveRound(input, chosen) =
              IF TooLow(input, cached[Best]) THEN chosen ELSE Append(chosen, Best)
<1>1. PICK n : InputOf(input, n)
  BY InputFacts DEF LazyInv
<1>2. n \in Nat /\ Candidates(input) = 1 .. n
  BY <1>1 DEF InputOf
<1>3. chosen \in Seq(1 .. n) /\ Len(chosen) \in Nat
  BY <1>2 DEF LazyInv
<1>4. alive \in SUBSET (1 .. n) /\ alive \in SUBSET Nat /\ IsFiniteSet(alive)
  <2>1. alive \subseteq 1 .. n
    BY <1>2 DEF LazyInv, StillOpen, Fitting
  <2>2. IsFiniteSet(1 .. n)
    BY <1>2, FS_Interval
  <2>3. IsFiniteSet(alive)
    BY <2>1, <2>2, FS_Subset
  <2> QED
    BY <2>1, <2>3
<1>5. \A i \in alive : Gain(input, i, chosen) \in Int /\ cached[i] \in Int
  BY <1>1, <1>2, <1>3, <1>4, GainShrinks DEF LazyInv
<1>6. Unseen = {}
  <2> SUFFICES ASSUME Unseen # {} PROVE FALSE
    OBVIOUS
  <2>1. Unseen \in SUBSET Nat
    BY <1>4 DEF Unseen
  <2>2. Best = Min(Unseen)
    BY DEF Best
  <2>3. Best \in Unseen
    BY <2>1, <2>2, LeastIs
  <2>4. seen[Best] = -1
    BY <2>3 DEF Unseen
  <2> QED
    BY <1>3, <2>4 DEF IsFresh
<1> DEFINE b == Best
           gain == [i \in alive |-> Gain(input, i, chosen)]
<1>7. Leads(cached, alive, b)
  BY <1>4, <1>5, <1>6, FirstLeads DEF Best
<1> HIDE DEF b
<1>8. b \in alive /\ \A j \in alive : cached[j] <= cached[b] /\ (j < b => cached[j] < cached[b])
  BY <1>7 DEF Leads
<1>9. cached[b] = Gain(input, b, chosen)
  BY <1>2, <1>4, <1>8 DEF LazyInv, Bounds, IsFresh, b
<1>10. \A j \in alive : Gain(input, j, chosen) <= cached[j]
  BY <1>2, <1>4, <1>6 DEF LazyInv, Bounds, Unseen
<1>11. Leads(gain, alive, b)
  <2> SUFFICES ASSUME NEW j \in alive PROVE gain[j] <= gain[b] /\ (j < b => gain[j] < gain[b])
    BY <1>8 DEF Leads
  <2>1. gain[j] = Gain(input, j, chosen) /\ gain[b] = cached[b] /\ gain[j] <= cached[j]
    BY <1>8, <1>9, <1>10
  <2>2. gain[j] \in Int /\ cached[j] \in Int /\ cached[b] \in Int
    BY <1>5, <1>8
  <2>3. cached[j] <= cached[b] /\ (j < b => cached[j] < cached[b])
    BY <1>8
  <2> HIDE DEF gain
  <2> QED
    BY <2>1, <2>2, <2>3
<1>12. \A i \in alive : gain[i] \in Int
  BY <1>5
<1>13. gain[b] = cached[b]
  BY <1>8, <1>9
<1>14. NaiveRound(input, chosen) =
         IF alive = {} THEN chosen
         ELSE IF TooLow(input, gain[First(gain, alive)]) THEN chosen
         ELSE Append(chosen, First(gain, alive))
  <2>1. alive = IF input.budget <= 0 THEN {}
                ELSE Fitting(input, Candidates(input) \ Range(chosen), chosen)
    BY DEF LazyInv, StillOpen
  <2> QED
    BY <2>1 DEF NaiveRound
<1> HIDE DEF gain
<1>15. Leads(gain, alive, First(gain, alive))
  BY <1>4, <1>12, FirstLeads
<1>16. First(gain, alive) = b
  BY <1>4, <1>11, <1>12, <1>15, LeadsOnce
<1>17. NaiveRound(input, chosen) = IF TooLow(input, cached[b]) THEN chosen ELSE Append(chosen, b)
  BY <1>13, <1>14, <1>16
<1> QED
  BY <1>8, <1>9, <1>17 DEF b

\* At the end, the picks are the naive ones.
LEMMA LazyIsNaive == LazyInv => LazyMatchesNaive
<1> SUFFICES ASSUME LazyInv, Selected PROVE chosen = Naive(input)
  BY DEF LazyMatchesNaive
<1>1. PICK n : InputOf(input, n)
  BY InputFacts DEF LazyInv
<1>2. PICK a : Rounds(input, a) /\ Naive(input) = a[n]
  BY <1>1, NaiveRounds
<1>3. a[Len(chosen)] = chosen
  BY <1>2 DEF LazyInv
<1>4. n \in Nat /\ Candidates(input) = 1 .. n
  BY <1>1 DEF InputOf
<1>5. Len(chosen) \in 0 .. n
  BY <1>4, DistinctIsShort DEF LazyInv
<1>6. NaiveRound(input, chosen) = chosen
  <2>1. CASE alive = {}
    BY <2>1 DEF LazyInv, StillOpen, NaiveRound
  <2>2. CASE alive # {}
    BY <2>2, FreshLeads DEF Selected
  <2> QED
    BY <2>1, <2>2
<1> QED
  BY <1>1, <1>2, <1>3, <1>5, <1>6, RoundsEnd

-----------------------------------------------------------------------------
(* Each step keeps it *)

\* A selection starts with nothing picked and no gain known.
LEMMA StartKeeps ==
  ASSUME NEW in \in SelectInputs, Selects(in)
  PROVE  LazyInv'
<1>1. PICK n : InputOf(in, n)
  BY InputFacts
<1>2. n \in Nat /\ Candidates(in) = 1 .. n
  BY <1>1 DEF InputOf
<1>3. /\ input' = in /\ chosen' = <<>>
      /\ alive' = IF in.budget <= 0 THEN {} ELSE Fitting(in, Candidates(in), <<>>)
      /\ cached' = [i \in Candidates(in) |-> 0] /\ seen' = [i \in Candidates(in) |-> -1]
  BY DEF Selects
<1>4. Range(<<>>) = {} /\ Candidates(in) \ {} = Candidates(in)
  BY DEF Range
<1>5. alive' = StillOpen(in, <<>>)
  BY <1>3, <1>4 DEF StillOpen
<1>6. <<>> \in Seq(Candidates(in)) /\ Distinct(<<>>) /\ Len(<<>>) = 0
  BY DEF Distinct
<1>7. cached' \in [Candidates(in) -> Int] /\ seen' \in [Candidates(in) -> Int]
  BY <1>3
<1>8. \A i \in Candidates(in) : cached'[i] = 0 /\ seen'[i] = -1
  BY <1>3
<1>9. Bounds'
  BY <1>3, <1>6, <1>8 DEF Bounds
<1>10. \A a : Rounds(in, a) => a[0] = <<>>
  BY DEF Rounds
<1> QED
  BY <1>3, <1>5, <1>6, <1>7, <1>9, <1>10 DEF LazyInv

\* The best of what is left is one of it.
LEMMA BestIsAlive ==
  ASSUME LazyInv, alive # {}
  PROVE  Best \in alive
<1>1. PICK n : InputOf(input, n)
  BY InputFacts DEF LazyInv
<1>2. n \in Nat /\ Candidates(input) = 1 .. n
  BY <1>1 DEF InputOf
<1>4. alive \in SUBSET (1 .. n) /\ alive \in SUBSET Nat /\ IsFiniteSet(alive)
  <2>1. alive \subseteq 1 .. n
    BY <1>2 DEF LazyInv, StillOpen, Fitting
  <2>2. IsFiniteSet(1 .. n)
    BY <1>2, FS_Interval
  <2>3. IsFiniteSet(alive)
    BY <2>1, <2>2, FS_Subset
  <2> QED
    BY <2>1, <2>3
<1>5. \A i \in alive : cached[i] \in Int
  BY <1>2, <1>4 DEF LazyInv
<1>6. CASE Unseen # {}
  <2>1. Unseen \in SUBSET Nat
    BY <1>4 DEF Unseen
  <2>2. Min(Unseen) \in Unseen
    BY <1>6, <2>1, LeastIs
  <2> QED
    BY <1>6, <2>2 DEF Best, Unseen
<1>7. CASE Unseen = {}
  <2>1. Leads(cached, alive, First(cached, alive))
    BY <1>4, <1>5, FirstLeads
  <2> QED
    BY <1>7, <2>1 DEF Best, Leads
<1> QED
  BY <1>6, <1>7

\* A gain is computed anew: it is this round's.
LEMMA EvaluatesKeeps == LazyInv /\ Evaluates => LazyInv'
<1> SUFFICES ASSUME LazyInv, Evaluates PROVE LazyInv'
  OBVIOUS
<1>1. PICK n : InputOf(input, n)
  BY InputFacts DEF LazyInv
<1>2. n \in Nat /\ Candidates(input) = 1 .. n
  BY <1>1 DEF InputOf
<1>3. Best \in 1 .. n
  BY <1>2, BestIsAlive DEF Evaluates, LazyInv, StillOpen, Fitting
<1> DEFINE b == Best
           g == Gain(input, b, chosen)
           m == Len(chosen)
<1>4. chosen \in Seq(1 .. n) /\ m \in Nat
  BY <1>2 DEF LazyInv
<1>5. g \in Int
  BY <1>1, <1>3, <1>4, GainShrinks
<1>6. /\ cached' = [cached EXCEPT ![b] = g] /\ seen' = [seen EXCEPT ![b] = m]
      /\ UNCHANGED <<input, chosen, alive>>
  BY DEF Evaluates
<1>7. cached \in [1 .. n -> Int] /\ seen \in [1 .. n -> Int] /\ Bounds
  BY <1>2 DEF LazyInv
<1>8. cached' \in [1 .. n -> Int] /\ seen' \in [1 .. n -> Int]
  <2>1. \A f \in [1 .. n -> Int] : \A i, v : v \in Int => [f EXCEPT ![i] = v] \in [1 .. n -> Int]
    OBVIOUS
  <2>2. m \in Int
    BY <1>4
  <2> HIDE DEF b, g, m
  <2>3. [cached EXCEPT ![b] = g] \in [1 .. n -> Int] /\ [seen EXCEPT ![b] = m] \in [1 .. n -> Int]
    BY <1>5, <1>7, <2>1, <2>2
  <2> QED
    BY <1>6, <2>3
<1>9. ASSUME NEW i \in 1 .. n
      PROVE  /\ cached'[i] \in Int /\ seen'[i] \in Int /\ seen'[i] <= m
             /\ seen'[i] # -1 => Gain(input, i, chosen) <= cached'[i]
             /\ seen'[i] = m => cached'[i] = Gain(input, i, chosen)
  <2>1. CASE i = b
    <3>1. cached'[i] = g /\ seen'[i] = m
      BY <1>6, <1>7, <1>9, <2>1
    <3>2. g <= g /\ m <= m
      BY <1>4, <1>5
    <3> QED
      BY <1>4, <1>5, <2>1, <3>1, <3>2
  <2>2. CASE i # b
    <3> HIDE DEF b
    <3>1. cached'[i] = cached[i] /\ seen'[i] = seen[i]
      BY <1>6, <1>7, <1>9, <2>2
    <3> QED
      BY <1>2, <1>7, <3>1 DEF Bounds
  <2> QED
    BY <2>1, <2>2
<1>10. Bounds'
  BY <1>2, <1>6, <1>9 DEF Bounds
<1> QED
  BY <1>2, <1>6, <1>8, <1>10 DEF LazyInv

\* A pick is the naive one of its round, and older gains go on bounding.
LEMMA PicksKeeps == LazyInv /\ Picks => LazyInv'
<1> SUFFICES ASSUME LazyInv, Picks PROVE LazyInv'
  OBVIOUS
<1>1. PICK n : InputOf(input, n)
  BY InputFacts DEF LazyInv
<1>2. n \in Nat /\ Candidates(input) = 1 .. n /\ Count(input) = n
  BY <1>1 DEF InputOf
<1> DEFINE b == Best
           m == Len(chosen)
           more == Append(chosen, b)
<1>3. b \in alive /\ NaiveRound(input, chosen) = more
  BY FreshLeads DEF Picks
<1>4. alive \subseteq 1 .. n /\ input.budget > 0 /\ alive = Fitting(input, Candidates(input) \ Range(chosen), chosen)
  <2>1. input.budget \in Int
    BY <1>1 DEF InputOf
  <2> QED
    BY <1>2, <1>3, <2>1 DEF LazyInv, StillOpen, Fitting
<1>5. b \in 1 .. n /\ b \notin Range(chosen)
  BY <1>3, <1>4 DEF Fitting
<1>6. chosen \in Seq(1 .. n) /\ m \in Nat /\ Distinct(chosen)
  BY <1>2 DEF LazyInv
<1>7. /\ chosen' = more /\ alive' = Fitting(input, alive \ {b}, more)
      /\ UNCHANGED <<input, cached, seen>>
  BY DEF Picks
<1> HIDE DEF b
<1>8. /\ more \in Seq(1 .. n) /\ Len(more) = m + 1 /\ DOMAIN more = 1 .. m + 1
      /\ more[m + 1] = b /\ \A k \in 1 .. m : more[k] = chosen[k]
  BY <1>5, <1>6
<1>9. DOMAIN chosen = 1 .. m
  BY <1>6
<1> HIDE DEF m
<1>10. Range(more) = Range(chosen) \cup {b}
  <2>1. \A x : x \in Range(more) <=> \E k \in 1 .. m + 1 : x = more[k]
    BY <1>8 DEF Range
  <2>2. \A x : x \in Range(chosen) <=> \E k \in 1 .. m : x = chosen[k]
    BY <1>9 DEF Range
  <2>3. \A k \in 1 .. m + 1 : k \in 1 .. m \/ k = m + 1
    BY <1>6
  <2>4. \A k \in 1 .. m : k \in 1 .. m + 1
    BY <1>6
  <2>5. m + 1 \in 1 .. m + 1
    BY <1>6
  <2> HIDE DEF more
  <2>6. \A x : x \in Range(more) <=> x \in Range(chosen) \/ x = b
    BY <1>8, <2>1, <2>2, <2>3, <2>4, <2>5
  <2> QED
    BY <2>6
<1>11. Distinct(more)
  <2> SUFFICES ASSUME NEW k \in 1 .. m + 1, NEW j \in 1 .. m + 1, k # j PROVE more[k] # more[j]
    BY <1>8 DEF Distinct
  <2>1. \A i \in 1 .. m : chosen[i] # b
    BY <1>5, <1>9 DEF Range
  <2>2. \A i \in 1 .. m + 1 : i \in 1 .. m \/ i = m + 1
    BY <1>6
  <2> HIDE DEF more
  <2> QED
    BY <1>6, <1>8, <1>9, <2>1, <2>2 DEF Distinct
<1>12. m + 1 \in 0 .. n
  BY <1>2, <1>8, <1>11, DistinctIsShort
<1>13. \A a : Rounds(input, a) => a[Len(more)] = more
  <2> SUFFICES ASSUME NEW a, Rounds(input, a) PROVE a[m + 1] = more
    BY <1>8
  <2>1. a[m] = chosen
    BY DEF LazyInv, m
  <2>2. m + 1 \in 1 .. n /\ (m + 1) - 1 = m
    BY <1>2, <1>6, <1>12
  <2>3. a[m + 1] = NaiveRound(input, a[m])
    BY <1>2, <2>2 DEF Rounds
  <2> QED
    BY <1>3, <2>1, <2>3
<1>14. Spent(input, more) = Spent(input, chosen) + input.cost[b] /\ Spent(input, chosen) \in Int
  BY <1>1, <1>5, <1>6, SpentGrows
<1>15. alive' = StillOpen(input, more)
  <2> DEFINE sp == Spent(input, chosen)
             sq == Spent(input, more)
             bu == input.budget
  <2>1. input.cost[b] \in Nat /\ bu \in Int /\ \A i \in 1 .. n : input.cost[i] \in Nat
    BY <1>1, <1>5 DEF InputOf
  <2>2. sp \in Int /\ sq \in Int /\ sp <= sq
    BY <1>14, <2>1
  <2> HIDE DEF more
  <2>3. StillOpen(input, more) = {i \in Candidates(input) \ Range(more) : input.cost[i] <= bu - sq}
    BY <1>4, <2>1 DEF StillOpen, Fitting
  <2>4. alive = {i \in Candidates(input) \ Range(chosen) : input.cost[i] <= bu - sp}
    BY <1>4 DEF Fitting
  <2>5. alive' = {i \in alive \ {b} : input.cost[i] <= bu - sq}
    BY <1>7 DEF Fitting
  <2> HIDE DEF sp, sq, bu
  <2>6. ASSUME NEW i \in 1 .. n, input.cost[i] <= bu - sq PROVE input.cost[i] <= bu - sp
    <3>1. input.cost[i] \in Nat
      BY <2>1
    <3> QED
      BY <2>1, <2>2, <2>6, <3>1
  <2>7. \A i : i \in alive' <=> i \in StillOpen(input, more)
    BY <1>2, <1>10, <2>3, <2>4, <2>5, <2>6
  <2> QED
    BY <2>3, <2>5, <2>7
<1>16. \A i \in 1 .. n :
         /\ cached[i] \in Int /\ seen[i] \in Int /\ seen[i] <= m
         /\ seen[i] # -1 => Gain(input, i, chosen) <= cached[i]
  BY <1>2 DEF LazyInv, Bounds, m
<1>17. ASSUME NEW i \in 1 .. n
       PROVE  /\ cached[i] \in Int /\ seen[i] \in Int /\ seen[i] <= m + 1 /\ seen[i] # m + 1
              /\ seen[i] # -1 => Gain(input, i, more) <= cached[i]
  <2>1. /\ cached[i] \in Int /\ seen[i] \in Int /\ seen[i] <= m
        /\ seen[i] # -1 => Gain(input, i, chosen) <= cached[i]
    BY <1>16
  <2>2. Gain(input, i, chosen) \in Int /\ Gain(input, i, more) <= Gain(input, i, chosen)
    BY <1>1, <1>5, <1>6, GainShrinks
  <2>3. Gain(input, i, more) \in Int
    BY <1>1, <1>5, <1>8, GainShrinks
  <2> HIDE DEF more
  <2>4. seen[i] <= m + 1 /\ seen[i] # m + 1
    BY <1>6, <2>1
  <2> QED
    BY <2>1, <2>2, <2>3, <2>4
<1>18. Bounds'
  <2>1. input' = input /\ cached' = cached /\ seen' = seen /\ Len(chosen') = m + 1
    BY <1>7, <1>8
  <2> QED
    BY <1>2, <1>7, <1>17, <2>1 DEF Bounds
<1> HIDE DEF more
<1> QED
  BY <1>2, <1>7, <1>8, <1>11, <1>13, <1>15, <1>18 DEF LazyInv

\* Nothing is asked yet.
LEMMA LazyInvInit == SelectInit => LazyInv
<1> SUFFICES ASSUME SelectInit PROVE LazyInv
  OBVIOUS
<1>1. input = NoInput /\ chosen = <<>> /\ alive = {} /\ cached = <<>> /\ seen = <<>>
  BY DEF SelectInit
<1>2. NoInput \in SelectInputs
  <2>1. NoInput \in [cost : [1 .. 0 -> Nat], rel : [1 .. 0 -> Int], sim : Matrix(0),
                     weights : Weights, budget : Int, minGain : SUBSET Int]
    BY DEF NoInput, Matrix, Weights
  <2> QED
    BY <2>1 DEF SelectInputs
<1>3. Candidates(NoInput) = {} /\ NoInput.budget = 0
  BY DEF NoInput, Candidates
<1>4. alive = StillOpen(input, chosen)
  BY <1>1, <1>3 DEF StillOpen
<1>5. chosen \in Seq(Candidates(input)) /\ Distinct(chosen) /\ Len(chosen) = 0
  BY <1>1 DEF Distinct
<1>6. cached \in [Candidates(input) -> Int] /\ seen \in [Candidates(input) -> Int] /\ Bounds
  BY <1>1, <1>3 DEF Bounds
<1>7. \A a : Rounds(input, a) => a[Len(chosen)] = chosen
  BY <1>1, <1>5 DEF Rounds
<1> QED
  BY <1>1, <1>2, <1>4, <1>5, <1>6, <1>7 DEF LazyInv

\* Every step keeps it.
LEMMA LazyInvStep == LazyInv /\ [SelectNext]_selectVars => LazyInv'
<1> SUFFICES ASSUME LazyInv, [SelectNext]_selectVars PROVE LazyInv'
  OBVIOUS
<1>1. CASE \E in \in SelectInputs : Selects(in)
  BY <1>1, StartKeeps
<1>2. CASE Evaluates
  BY <1>2, EvaluatesKeeps
<1>3. CASE Picks
  BY <1>3, PicksKeeps
<1>4. CASE UNCHANGED selectVars
  BY <1>4 DEF selectVars, LazyInv, Bounds
<1> QED
  BY <1>1, <1>2, <1>3, <1>4 DEF SelectNext

\* The lazy greedy choice is the naive one, ties included.
THEOREM SelectionIsGreedy == SelectSpec => []LazyMatchesNaive
<1>1. SelectSpec => []LazyInv
  BY LazyInvInit, LazyInvStep, PTL DEF SelectSpec
<1> QED
  BY <1>1, LazyIsNaive, PTL

-----------------------------------------------------------------------------
(* What a filter takes of a sequence *)

\* A function on the first naturals is a sequence.
LEMMA FunctionsAreSeqs ==
  ASSUME NEW T, NEW m \in Nat, NEW s \in [1 .. m -> T]
  PROVE  s \in Seq(T)
OBVIOUS

\* A sequence is one of what it holds.
LEMMA Retyped ==
  ASSUME NEW S, NEW s \in Seq(S), NEW T, \A k \in DOMAIN s : s[k] \in T
  PROVE  s \in Seq(T)
<1> DEFINE n == Len(s)
<1>1. n \in Nat /\ DOMAIN s = 1 .. n
  BY SeqPlaces
<1>2. s \in [1 .. n -> S]
  OBVIOUS
<1> HIDE DEF n
<1>3. s \in [1 .. n -> T]
  BY <1>1, <1>2
<1> QED
  BY <1>1, <1>3, FunctionsAreSeqs

\* As many things as places.
LEMMA DistinctCounts ==
  ASSUME NEW S, NEW s \in Seq(S), Distinct(s)
  PROVE  IsFiniteSet(Range(s)) /\ Cardinality(Range(s)) = Len(s)
<1>1. /\ DOMAIN s = 1 .. Len(s) /\ Len(s) \in Nat /\ IsFiniteSet(DOMAIN s)
      /\ Cardinality(DOMAIN s) = Len(s)
  BY SeqPlaces
<1>2. s \in [DOMAIN s -> Range(s)]
  BY DEF Range
<1>3. s \in Bijection(DOMAIN s, Range(s))
  <2>1. s \in Injection(DOMAIN s, Range(s))
    BY <1>2 DEF Injection, IsInjective, Distinct
  <2>2. s \in Surjection(DOMAIN s, Range(s))
    BY <1>2 DEF Surjection, Range
  <2> QED
    BY <2>1, <2>2 DEF Bijection
<1>4. ExistsBijection(DOMAIN s, Range(s))
  BY <1>3 DEF ExistsBijection
<1> QED
  BY <1>1, <1>4, FS_Bijection

\* t and u hold what s holds, each of it once.
Splits(s, t, u) ==
  /\ t \in Seq(Range(s)) /\ u \in Seq(Range(s)) /\ Distinct(t) /\ Distinct(u)
  /\ Range(t) \cup Range(u) = Range(s) /\ Range(t) \cap Range(u) = {}
  /\ Len(t) + Len(u) = Len(s)

\* What is read along an order of places that hold different things has none of it twice.
LEMMA AlongDistinct ==
  ASSUME NEW S, NEW I, IsFiniteSet(I), NEW s, \A i \in I : s[i] \in S,
         NEW R, StrictOrder(I, R), \A i, j \in I : s[i] = s[j] => i = j
  PROVE  Distinct(Along(s, I, R))
<1> DEFINE place == InOrder(I, R)
           n == Cardinality(I)
<1>1. n \in Nat /\ place \in Bijection(1 .. n, I)
  BY InOrderSorts
<1>2. Along(s, I, R) = [k \in 1 .. n |-> s[place[k]]]
  BY DEF Along
<1> HIDE DEF place, n
<1>3. \A a, b \in 1 .. n : place[a] \in I /\ (place[a] = place[b] => a = b)
  BY <1>1 DEF Bijection, Injection, IsInjective
<1> QED
  BY <1>2, <1>3 DEF Distinct

\* The order of the places themselves.
LEMMA PlaceOrder ==
  ASSUME NEW S, NEW s \in Seq(S), NEW I \in SUBSET DOMAIN s
  PROVE  IsFiniteSet(I) /\ StrictOrder(I, {p \in I \X I : p[1] < p[2]}) /\ \A i \in I : s[i] \in S
<1>1. IsFiniteSet(DOMAIN s) /\ DOMAIN s \subseteq Nat /\ \A i \in DOMAIN s : s[i] \in S
  BY SeqPlaces
<1>2. IsFiniteSet(I)
  BY <1>1, FS_Subset
<1>3. \A i \in I : i \in Nat
  BY <1>1
<1> QED
  BY <1>1, <1>2, <1>3 DEF StrictOrder

\* A filter of a sequence that has nothing twice, by the places it keeps.
LEMMA AtDistinct ==
  ASSUME NEW S, NEW s \in Seq(S), NEW I \in SUBSET DOMAIN s, \A i, j \in I : s[i] = s[j] => i = j
  PROVE  Distinct(At(s, I))
<1> DEFINE R == {p \in I \X I : p[1] < p[2]}
<1>1. IsFiniteSet(I) /\ StrictOrder(I, R)
  BY PlaceOrder
<1>2. \A i \in I : s[i] \in S
  BY PlaceOrder
<1>3. \A i, j \in I : s[i] = s[j] => i = j
  OBVIOUS
<1>4. At(s, I) = Along(s, I, R)
  BY DEF At
<1> HIDE DEF R
<1>5. Distinct(Along(s, I, R))
  BY <1>1, <1>2, <1>3, AlongDistinct
<1> QED
  BY <1>4, <1>5

\* A filter and its complement.
LEMMA FilterSplits ==
  ASSUME NEW S, NEW s \in Seq(S), Distinct(s), NEW I \in SUBSET DOMAIN s
  PROVE  Splits(s, At(s, I), At(s, DOMAIN s \ I))
<1> DEFINE J == DOMAIN s \ I
           t == At(s, I)
           u == At(s, J)
<1>1. IsFiniteSet(DOMAIN s) /\ Cardinality(DOMAIN s) = Len(s) /\ Len(s) \in Nat
  BY SeqPlaces
<1>2. s \in Seq(Range(s))
  BY SeqPlaces DEF Range
<1>3. ReadsOff(t, s, I, Range(s)) /\ ReadsOff(u, s, J, Range(s))
  BY <1>2, AtPlaces
<1>4. Distinct(t) /\ Distinct(u)
  BY AtDistinct DEF Distinct
<1>5. IsFiniteSet(I) /\ I \cap DOMAIN s = I
  BY <1>1, FS_Subset
<1>6. Cardinality(J) = Cardinality(DOMAIN s) - Cardinality(DOMAIN s \cap I)
  BY <1>1, FS_Difference
<1>7. Cardinality(I) \in Nat /\ Cardinality(J) = Len(s) - Cardinality(I)
  BY <1>1, <1>5, <1>6, FS_CardinalityType
<1> HIDE DEF t, u
<1>8. Len(t) + Len(u) = Len(s)
  <2>1. Len(t) = Cardinality(I) /\ Len(u) = Cardinality(J)
    BY <1>3 DEF ReadsOff
  <2> HIDE DEF J
  <2> QED
    BY <1>1, <1>7, <2>1
<1>9. \A x : (x \in Range(t) <=> \E i \in I : x = s[i]) /\ (x \in Range(u) <=> \E i \in J : x = s[i])
  <2>1. \A x : x \in Range(t) <=> \E i \in I : x = s[i]
    BY FilterFacts DEF t
  <2>2. \A x : x \in Range(u) <=> \E i \in J : x = s[i]
    BY FilterFacts DEF u
  <2> QED
    BY <2>1, <2>2
<1>10. Range(t) \cup Range(u) = Range(s)
  BY <1>9 DEF Range
<1>11. Range(t) \cap Range(u) = {}
  BY <1>9 DEF Distinct
<1> QED
  BY <1>3, <1>4, <1>8, <1>10, <1>11 DEF Splits, ReadsOff, t, u

\* A sequence cut in two.
LEMMA CutSplits ==
  ASSUME NEW S, NEW s \in Seq(S), Distinct(s), NEW n \in Nat
  PROVE  Splits(s, UpTo(n, s)[1], UpTo(n, s)[2])
<1> DEFINE m == IF n < Len(s) THEN n ELSE Len(s)
           t == SubSeq(s, 1, m)
           u == SubSeq(s, m + 1, Len(s))
<1>1. Len(s) \in Nat /\ m \in Nat /\ m <= Len(s) /\ DOMAIN s = 1 .. Len(s)
  OBVIOUS
<1>2. UpTo(n, s) = <<t, u>>
  BY DEF UpTo
<1> HIDE DEF m
<1>3. /\ Len(t) = m /\ DOMAIN t = 1 .. m
      /\ \A k \in 1 .. m : t[k] = s[k] /\ k \in DOMAIN s
  BY <1>1
<1>4. /\ Len(u) = Len(s) - m /\ DOMAIN u = 1 .. Len(s) - m
      /\ \A k \in 1 .. Len(s) - m : u[k] = s[m + k] /\ m + k \in DOMAIN s
  <2>1. \A i \in m + 1 .. Len(s) : s[i] \in S
    BY <1>1
  <2>2. m + 1 \in Int /\ Len(s) \in Int /\ Len(s) - (m + 1) + 1 = Len(s) - m
    BY <1>1
  <2>3. Len(u) = Len(s) - m /\ DOMAIN u = 1 .. Len(s) - m
    <3>1. u \in Seq(S) /\ Len(u) = IF m + 1 <= Len(s) THEN Len(s) - (m + 1) + 1 ELSE 0
      BY <2>1, <2>2, SubSeqProperties
    <3> HIDE DEF u
    <3>2. DOMAIN u = 1 .. Len(u)
      BY <3>1, SeqPlaces
    <3>3. \A a, b \in Nat : b <= a => (IF b + 1 <= a THEN a - (b + 1) + 1 ELSE 0) = a - b
      OBVIOUS
    <3>4. Len(u) = Len(s) - m
      BY <1>1, <3>1, <3>3, Zenon
    <3> QED
      BY <3>2, <3>4
  <2>4. ASSUME NEW k \in 1 .. Len(s) - m PROVE u[k] = s[m + k] /\ m + k \in DOMAIN s
    BY <1>1
  <2> QED
    BY <2>3, <2>4
<1>5. t \in Seq(Range(s)) /\ u \in Seq(Range(s))
  <2>1. s \in Seq(Range(s))
    BY SeqPlaces DEF Range
  <2> QED
    BY <1>1, <2>1
<1> HIDE DEF t, u
<1>6. Distinct(t)
  BY <1>3 DEF Distinct
<1>7. Distinct(u)
  BY <1>1, <1>4 DEF Distinct
<1>8. Range(t) \cup Range(u) = Range(s)
  <2>1. ASSUME NEW k \in DOMAIN s, ~(k \in 1 .. m) PROVE k - m \in DOMAIN u /\ u[k - m] = s[k]
    BY <1>1, <1>4, <2>1
  <2>2. \A x \in Range(s) : x \in Range(t) \/ x \in Range(u)
    BY <1>3, <2>1 DEF Range
  <2>3. \A x : x \in Range(t) \/ x \in Range(u) => x \in Range(s)
    BY <1>3, <1>4 DEF Range
  <2> QED
    BY <2>2, <2>3
<1>9. Range(t) \cap Range(u) = {}
  <2>1. \A k \in 1 .. m, j \in 1 .. Len(s) - m : k # m + j
    BY <1>1
  <2> QED
    BY <1>3, <1>4, <2>1 DEF Range, Distinct
<1>10. Len(t) + Len(u) = Len(s)
  BY <1>1, <1>3, <1>4
<1>11. UpTo(n, s)[1] = t /\ UpTo(n, s)[2] = u
  BY <1>2
<1> QED
  BY <1>5, <1>6, <1>7, <1>8, <1>9, <1>10, <1>11 DEF Splits

-----------------------------------------------------------------------------
(* Sums over places, in any order *)

\* A sum of nothing but zeros.
LEMMA TotalZero ==
  ASSUME NEW s \in Seq(Int), \A k \in 1 .. Len(s) : s[k] = 0
  PROVE  Total(s) = 0
<1>1. PICK g : Sums(g, s) /\ Total(s) = g[Len(s)]
  BY TotalSums
<1> DEFINE U == {m \in Nat : m \in 0 .. Len(s) => g[m] = 0}
<1>2. 0 \in U
  BY <1>1 DEF Sums
<1>3. ASSUME NEW m \in Nat, m \in U PROVE m + 1 \in U
  <2> SUFFICES ASSUME m + 1 \in 0 .. Len(s) PROVE g[m + 1] = 0
    OBVIOUS
  <2>1. Len(s) \in Nat
    OBVIOUS
  <2>2. m \in 0 .. Len(s) /\ m + 1 \in 1 .. Len(s) /\ (m + 1) - 1 = m
    BY <2>1
  <2>3. g[m + 1] = g[m] + s[m + 1]
    BY <1>1, <2>2 DEF Sums
  <2>4. g[m] = 0 /\ s[m + 1] = 0
    BY <1>3, <2>2
  <2> QED
    BY <2>3, <2>4
<1> HIDE DEF U
<1>4. Nat \subseteq U
  BY <1>2, <1>3, NatSet
<1>5. Len(s) \in Nat /\ Len(s) \in 0 .. Len(s)
  OBVIOUS
<1>6. g[Len(s)] = 0
  BY <1>4, <1>5 DEF U
<1> QED
  BY <1>1, <1>6

\* One number is another.
LEMMA TotalChange ==
  ASSUME NEW s \in Seq(Int), NEW t \in Seq(Int), Len(s) = Len(t), NEW x \in 1 .. Len(s),
         \A k \in 1 .. Len(s) : k # x => t[k] = s[k]
  PROVE  Total(t) = Total(s) + (t[x] - s[x])
<1> DEFINE n == Len(s)
           d == t[x] - s[x]
<1>1. n \in Nat /\ x \in 1 .. n /\ \A k \in 1 .. n : s[k] \in Int /\ t[k] \in Int
  OBVIOUS
<1>2. PICK g : Sums(g, s) /\ Total(s) = g[n]
  BY TotalSums
<1>3. PICK h : Sums(h, t) /\ Total(t) = h[n]
  BY TotalSums
<1>4. /\ g \in [0 .. n -> Int] /\ g[0] = 0 /\ \A k \in 1 .. n : g[k] = g[k - 1] + s[k]
      /\ h \in [0 .. n -> Int] /\ h[0] = 0 /\ \A k \in 1 .. n : h[k] = h[k - 1] + t[k]
  BY <1>2, <1>3 DEF Sums
<1>5. d \in Int /\ d = t[x] - s[x]
  BY <1>1
<1> HIDE DEF n, d
<1> DEFINE U == {m \in Nat : m \in 0 .. n => h[m] = g[m] + (IF m < x THEN 0 ELSE d)}
<1>6. 0 \in U
  BY <1>1, <1>4
<1>7. ASSUME NEW m \in Nat, m \in U PROVE m + 1 \in U
  <2> SUFFICES ASSUME m + 1 \in 0 .. n
               PROVE  h[m + 1] = g[m + 1] + (IF m + 1 < x THEN 0 ELSE d)
    OBVIOUS
  <2>1. m \in 0 .. n /\ m + 1 \in 1 .. n /\ (m + 1) - 1 = m
    BY <1>1
  <2>2. /\ g[m + 1] = g[m] + s[m + 1] /\ h[m + 1] = h[m] + t[m + 1]
        /\ g[m] \in Int /\ h[m] \in Int /\ s[m + 1] \in Int /\ t[m + 1] \in Int
    BY <1>1, <1>4, <2>1
  <2>3. h[m] = g[m] + (IF m < x THEN 0 ELSE d)
    BY <1>7, <2>1
  <2>4. CASE m + 1 = x
    <3>1. d = t[m + 1] - s[m + 1] /\ m < x /\ ~(m + 1 < x)
      BY <1>1, <1>5, <2>4
    <3>2. h[m] = g[m]
      BY <2>2, <2>3, <3>1
    <3>3. \A a, b, c \in Int : a + b = a + c + (b - c)
      OBVIOUS
    <3>4. h[m + 1] = g[m + 1] + d
      BY <2>2, <3>1, <3>2, <3>3
    <3> QED
      BY <3>1, <3>4
  <2>5. CASE m + 1 # x
    <3>1. t[m + 1] = s[m + 1]
      BY <2>1, <2>5 DEF n
    <3>2. m < x <=> m + 1 < x
      BY <1>1, <2>5
    <3> QED
      BY <1>5, <2>2, <2>3, <3>1, <3>2
  <2> QED
    BY <2>4, <2>5
<1> HIDE DEF U
<1>8. Nat \subseteq U
  BY <1>6, <1>7, NatSet
<1>9. n \in 0 .. n /\ ~(n < x)
  BY <1>1
<1>10. h[n] = g[n] + d
  BY <1>1, <1>8, <1>9 DEF U
<1> QED
  BY <1>2, <1>3, <1>10 DEF d

\* The numbers of f at the members of X, and zeros.
Masked(f, n, X) == [j \in 1 .. n |-> IF j \in X THEN f[j] ELSE 0]

\* What is summed over places without repetition is what the mask adds up to.
LEMMA TotalMasked ==
  ASSUME NEW n \in Nat, NEW f \in [1 .. n -> Int], NEW s \in Seq(1 .. n), Distinct(s)
  PROVE  Total([k \in DOMAIN s |-> f[s[k]]]) = Total(Masked(f, n, Range(s)))
<1> DEFINE len == Len(s)
           v == [k \in DOMAIN s |-> f[s[k]]]
           Held(m) == {s[k] : k \in 1 .. m}
<1>1. len \in Nat /\ DOMAIN s = 1 .. len /\ \A k \in 1 .. len : s[k] \in 1 .. n
  BY SeqPlaces
<1>2. v \in Seq(Int) /\ Len(v) = len /\ \A k \in 1 .. len : v[k] = f[s[k]]
  BY <1>1
<1> HIDE DEF v, len
<1>3. \A X : /\ Masked(f, n, X) \in Seq(Int) /\ Len(Masked(f, n, X)) = n
             /\ \A j \in 1 .. n : Masked(f, n, X)[j] = IF j \in X THEN f[j] ELSE 0
  BY DEF Masked
<1>4. PICK g : Sums(g, v) /\ Total(v) = g[len]
  BY <1>2, TotalSums
<1> DEFINE U == {m \in Nat : m \in 0 .. len => g[m] = Total(Masked(f, n, Held(m)))}
<1>5. 0 \in U
  <2>1. g[0] = 0
    BY <1>4 DEF Sums
  <2>2. Held(0) = {}
    OBVIOUS
  <2> HIDE DEF Held
  <2>3. \A j \in 1 .. Len(Masked(f, n, Held(0))) : Masked(f, n, Held(0))[j] = 0
    BY <1>3, <2>2
  <2>4. Masked(f, n, Held(0)) \in Seq(Int)
    BY <1>3
  <2>5. Total(Masked(f, n, Held(0))) = 0
    BY <2>3, <2>4, TotalZero
  <2> QED
    BY <2>1, <2>5
<1>6. ASSUME NEW m \in Nat, m \in U PROVE m + 1 \in U
  <2> SUFFICES ASSUME m + 1 \in 0 .. len PROVE g[m + 1] = Total(Masked(f, n, Held(m + 1)))
    OBVIOUS
  <2> DEFINE x == s[m + 1]
             p == Masked(f, n, Held(m))
             q == Masked(f, n, Held(m + 1))
  <2>1. m \in 0 .. len /\ m + 1 \in 1 .. len /\ (m + 1) - 1 = m
    BY <1>1
  <2>2. g[m + 1] = g[m] + f[x]
    BY <1>2, <1>4, <2>1 DEF Sums
  <2>3. g[m] = Total(p)
    BY <1>6, <2>1
  <2>4. x \in 1 .. n /\ f[x] \in Int
    BY <1>1, <2>1
  <2>5. x \notin Held(m)
    <3>1. \A k \in 1 .. m : k \in DOMAIN s /\ k # m + 1 /\ m + 1 \in DOMAIN s
      BY <1>1, <2>1
    <3> QED
      BY <3>1 DEF Distinct
  <2>6. Held(m + 1) = Held(m) \cup {x}
    <3>1. \A k \in 1 .. m + 1 : k \in 1 .. m \/ k = m + 1
      OBVIOUS
    <3>2. \A k \in 1 .. m : k \in 1 .. m + 1
      OBVIOUS
    <3>3. m + 1 \in 1 .. m + 1
      OBVIOUS
    <3> QED
      BY <3>1, <3>2, <3>3
  <2> HIDE DEF Held, x
  <2>7. p \in Seq(Int) /\ q \in Seq(Int) /\ Len(p) = n /\ Len(q) = n
    BY <1>3
  <2>8. \A k \in 1 .. n : k # x => q[k] = p[k]
    BY <1>3, <2>6
  <2>9. q[x] = f[x] /\ p[x] = 0
    BY <1>3, <2>4, <2>5, <2>6
  <2> HIDE DEF p, q
  <2>10. Total(q) = Total(p) + (q[x] - p[x])
    BY <2>4, <2>7, <2>8, TotalChange
  <2>11. q[x] - p[x] = f[x]
    BY <2>4, <2>9
  <2> QED
    BY <2>2, <2>3, <2>10, <2>11 DEF q
<1> HIDE DEF U
<1>7. Nat \subseteq U
  BY <1>5, <1>6, NatSet
<1>8. Held(len) = Range(s)
  BY <1>1 DEF Range
<1>9. len \in 0 .. len
  BY <1>1
<1> HIDE DEF Held
<1>10. g[len] = Total(Masked(f, n, Held(len)))
  BY <1>1, <1>7, <1>9 DEF U
<1> QED
  BY <1>4, <1>8, <1>10 DEF v

\* So the order they are summed in does not matter.
LEMMA SameTotal ==
  ASSUME NEW n \in Nat, NEW f \in [1 .. n -> Int], NEW s \in Seq(1 .. n), NEW t \in Seq(1 .. n),
         Distinct(s), Distinct(t), Range(s) = Range(t)
  PROVE  Total([k \in DOMAIN s |-> f[s[k]]]) = Total([k \in DOMAIN t |-> f[t[k]]])
<1>1. Total([k \in DOMAIN s |-> f[s[k]]]) = Total(Masked(f, n, Range(s)))
  BY TotalMasked
<1>2. Total([k \in DOMAIN t |-> f[t[k]]]) = Total(Masked(f, n, Range(t)))
  BY TotalMasked
<1> QED
  BY <1>1, <1>2

\* Each place of s has its weight in f: v are the weights of what is kept of s at the
\* places of picks, w the weights of the picks.
Weighed(s, f, picks, v, w) ==
  /\ picks \in Seq(DOMAIN s) /\ Distinct(picks) /\ f \in [DOMAIN s -> Int]
  /\ v \in Seq(Int) /\ DOMAIN v = DOMAIN At(s, Range(picks))
  /\ \A k \in DOMAIN v, i \in DOMAIN s : At(s, Range(picks))[k] = s[i] => v[k] = f[i]
  /\ w \in Seq(Int) /\ DOMAIN w = DOMAIN picks /\ \A k \in DOMAIN picks : w[k] = f[picks[k]]

\* Both weigh the same.
LEMMA KeptWeighs ==
  ASSUME NEW S, NEW s \in Seq(S), NEW f, NEW picks, NEW v, NEW w, Weighed(s, f, picks, v, w)
  PROVE  Total(v) = Total(w)
<1> DEFINE t == At(s, Range(picks))
           I == Range(picks)
           R == {p \in I \X I : p[1] < p[2]}
           n == Cardinality(I)
           place == InOrder(I, R)
<1>1. /\ picks \in Seq(DOMAIN s) /\ Distinct(picks) /\ f \in [DOMAIN s -> Int]
      /\ v \in Seq(Int) /\ DOMAIN v = DOMAIN t /\ w \in Seq(Int) /\ DOMAIN w = DOMAIN picks
      /\ \A k \in DOMAIN v, i \in DOMAIN s : t[k] = s[i] => v[k] = f[i]
      /\ \A k \in DOMAIN picks : w[k] = f[picks[k]]
  BY DEF Weighed
<1>2. DOMAIN s = 1 .. Len(s) /\ Len(s) \in Nat
  BY SeqPlaces
<1>3. I \in SUBSET DOMAIN s
  <2>1. \A k \in DOMAIN picks : picks[k] \in DOMAIN s
    BY <1>1, SeqPlaces
  <2> QED
    BY <2>1 DEF Range
<1>4. IsFiniteSet(I) /\ StrictOrder(I, R)
  BY <1>3, PlaceOrder
<1>5. n \in Nat /\ place \in Bijection(1 .. n, I)
  BY <1>4, InOrderSorts
<1>6. t = [k \in 1 .. n |-> s[place[k]]]
  BY DEF At, Along
<1> HIDE DEF R, n, place, I, t
<1>7. place \in [1 .. n -> I] /\ \A a, b \in 1 .. n : place[a] = place[b] => a = b
  BY <1>5 DEF Bijection, Injection, IsInjective
<1>8. \A i \in I : \E a \in 1 .. n : place[a] = i
  BY <1>5 DEF Bijection, Surjection
<1>9. DOMAIN place = 1 .. n /\ place \in Seq(DOMAIN s)
  <2>1. place \in [1 .. n -> DOMAIN s]
    BY <1>3, <1>7
  <2>2. place \in Seq(DOMAIN s)
    BY <1>5, <2>1, FunctionsAreSeqs
  <2> QED
    BY <2>1, <2>2
<1>10. Distinct(place)
  BY <1>7, <1>9 DEF Distinct
<1>11. Range(place) = I
  BY <1>7, <1>8, <1>9 DEF Range
<1>12. Total([k \in DOMAIN place |-> f[place[k]]]) = Total([k \in DOMAIN picks |-> f[picks[k]]])
  <2>1. Range(place) = Range(picks)
    BY <1>11 DEF I
  <2>2. f \in [1 .. Len(s) -> Int] /\ place \in Seq(1 .. Len(s)) /\ picks \in Seq(1 .. Len(s))
    BY <1>1, <1>2, <1>9
  <2> QED
    BY <1>1, <1>2, <1>10, <2>1, <2>2, SameTotal
<1>13. v = [k \in DOMAIN place |-> f[place[k]]]
  <2>1. DOMAIN v = DOMAIN place /\ v = [k \in DOMAIN v |-> v[k]]
    BY <1>1, <1>6, <1>9
  <2>2. \A k \in DOMAIN place : k \in DOMAIN v /\ place[k] \in DOMAIN s /\ t[k] = s[place[k]]
    BY <1>1, <1>3, <1>6, <1>7, <1>9
  <2>3. \A k \in DOMAIN place : v[k] = f[place[k]]
    BY <1>1, <2>2
  <2> QED
    BY <2>1, <2>3
<1>14. w = [k \in DOMAIN picks |-> f[picks[k]]]
  <2>1. w = [k \in DOMAIN w |-> w[k]]
    BY <1>1
  <2> QED
    BY <1>1, <2>1
<1> QED
  BY <1>12, <1>13, <1>14

-----------------------------------------------------------------------------
(* Accounts *)

\* The classes a path is in that is not in the answer.
LeftOut == Classes \ {"truncated"}

\* n paths were considered: those of P are still to be dealt with, the others are in o,
\* each of them once.
Accounted(o, P, n) ==
  /\ o \in Seq(Range(o)) /\ IsFiniteSet(P)
  /\ \A k \in DOMAIN o : o[k][1] \in LeftOut /\ o[k][2] \notin P
  /\ \A j, k \in DOMAIN o : o[j][2] = o[k][2] => j = k
  /\ Len(o) + Cardinality(P) = n

\* Some of what is still to be dealt with is left out.
LEMMA Omits ==
  ASSUME NEW o, NEW P, NEW n, Accounted(o, P, n), NEW u \in Seq(P), Distinct(u),
         NEW z, DOMAIN z = DOMAIN u, z \in Seq(Range(z)),
         \A k \in DOMAIN u : z[k][1] \in LeftOut /\ z[k][2] = u[k]
  PROVE  Accounted(o \o z, P \ Range(u), n)
<1> DEFINE w == o \o z
           X == Range(o) \cup Range(z)
<1>1. /\ DOMAIN o = 1 .. Len(o) /\ Len(o) \in Nat /\ DOMAIN u = 1 .. Len(u) /\ Len(u) \in Nat
      /\ \A k \in DOMAIN u : u[k] \in P
  BY SeqPlaces DEF Accounted
<1>2. Len(z) = Len(u)
  BY <1>1, LenIs
<1>3. o \in Seq(X) /\ z \in Seq(X)
  BY DEF Accounted
<1>4. w \in Seq(X) /\ Len(w) = Len(o) + Len(u)
  BY <1>2, <1>3
<1>5. DOMAIN w = 1 .. Len(o) + Len(u)
  BY <1>4
<1>6. \A k \in 1 .. Len(o) : w[k] = o[k]
  BY <1>3
<1>7. \A k \in 1 .. Len(u) : w[Len(o) + k] = z[k]
  BY <1>2, <1>3
<1>8. \A k \in DOMAIN w : k \in 1 .. Len(o) \/ \E j \in 1 .. Len(u) : k = Len(o) + j
  <2>1. ASSUME NEW k \in DOMAIN w, k \notin 1 .. Len(o)
        PROVE  k - Len(o) \in 1 .. Len(u) /\ k = Len(o) + (k - Len(o))
    BY <1>1, <1>5, <2>1
  <2> QED
    BY <2>1
<1> HIDE DEF w
<1>9. \A k \in DOMAIN w :
         \/ k \in DOMAIN o /\ w[k] = o[k]
         \/ \E j \in DOMAIN u : k = Len(o) + j /\ w[k][1] \in LeftOut /\ w[k][2] = u[j]
  BY <1>1, <1>6, <1>7, <1>8
<1>10. IsFiniteSet(Range(u)) /\ Cardinality(Range(u)) = Len(u) /\ P \cap Range(u) = Range(u)
  BY <1>1, DistinctCounts DEF Range
<1>11. IsFiniteSet(P) /\ IsFiniteSet(P \ Range(u))
       /\ Cardinality(P \ Range(u)) = Cardinality(P) - Cardinality(P \cap Range(u))
  BY FS_Difference DEF Accounted
<1>12. Cardinality(P) \in Nat
  BY <1>11, FS_CardinalityType
<1>13. Len(w) + Cardinality(P \ Range(u)) = n
  <2>1. Len(o) + Cardinality(P) = n
    BY DEF Accounted
  <2>2. Cardinality(P \ Range(u)) = Cardinality(P) - Len(u)
    BY <1>10, <1>11
  <2>3. \A a, b, c \in Nat : (a + b) + (c - b) = a + c
    OBVIOUS
  <2>4. Len(w) = Len(o) + Len(u)
    BY <1>4
  <2>5. (Len(o) + Len(u)) + (Cardinality(P) - Len(u)) = Len(o) + Cardinality(P)
    BY <1>1, <1>12, <2>3
  <2> QED
    BY <2>1, <2>2, <2>4, <2>5
<1>14. w \in Seq(Range(w))
  <2>1. w \in [1 .. Len(o) + Len(u) -> X] /\ Len(o) + Len(u) \in Nat
    BY <1>1, <1>4
  <2>2. \A k \in 1 .. Len(o) + Len(u) : w[k] \in Range(w)
    BY <1>5 DEF Range
  <2>3. w \in [1 .. Len(o) + Len(u) -> Range(w)]
    BY <2>1, <2>2
  <2> QED
    BY <2>1, <2>3
<1>15. ASSUME NEW k \in DOMAIN w PROVE w[k][1] \in LeftOut /\ w[k][2] \notin P \ Range(u)
  BY <1>9 DEF Accounted, Range
<1>16. ASSUME NEW j \in DOMAIN w, NEW k \in DOMAIN w, w[j][2] = w[k][2] PROVE j = k
  <2>1. \A i \in DOMAIN o : o[i][2] \notin P
    BY DEF Accounted
  <2>2. \A a, b \in DOMAIN u : u[a] = u[b] => a = b
    BY DEF Distinct
  <2>3. \A a, b \in DOMAIN o : o[a][2] = o[b][2] => a = b
    BY DEF Accounted
  <2> QED
    BY <1>1, <1>9, <1>16, <2>1, <2>2, <2>3
<1> QED
  BY <1>11, <1>13, <1>14, <1>15, <1>16 DEF Accounted, w

\* What is left out of one class.
LEMMA NotedPairs ==
  ASSUME NEW S, NEW u \in Seq(S), NEW class \in LeftOut
  PROVE  /\ Noted(class, u) \in Seq(Range(Noted(class, u))) /\ DOMAIN Noted(class, u) = DOMAIN u
         /\ \A k \in DOMAIN u : Noted(class, u)[k][1] \in LeftOut /\ Noted(class, u)[k][2] = u[k]
<1>1. DOMAIN u = 1 .. Len(u) /\ Len(u) \in Nat
  BY SeqPlaces
<1>2. Noted(class, u) = [k \in DOMAIN u |-> <<class, u[k]>>]
  BY DEF Noted
<1>3. Noted(class, u) \in Seq(Range(Noted(class, u)))
  BY <1>1, <1>2 DEF Range
<1> QED
  BY <1>2, <1>3

-----------------------------------------------------------------------------
(* The tree and its files *)

\* A repository has no merge conflict: git lists each path once.
NoConflict == \A r \in Repos : r.git => \A k \in DOMAIN r.tree : r.tree[k].stages = 1

\* What the tree holds.
LEMMA TreeFacts ==
  ASSUME repo \in Repos
  PROVE  /\ DOMAIN repo.tree = 1 .. Len(repo.tree) /\ Len(repo.tree) \in Nat
         /\ DOMAIN Paths = DOMAIN repo.tree
         /\ \A k \in DOMAIN repo.tree :
              /\ Paths[k] = repo.tree[k].path /\ Paths[k] \in Seq(STRING)
              /\ repo.tree[k].kind \in FileKind /\ repo.tree[k].lines \in Seq(Nat)
              /\ repo.tree[k].lines # <<>> /\ repo.tree[k].score \in Nat
              /\ repo.tree[k].stages \in 1 .. 3
         /\ \A i, j \in DOMAIN repo.tree : Paths[i] = Paths[j] => i = j
<1>1. repo.tree \in Trees
  BY ReposAssumption DEF WellFormed
<1> DEFINE F == [path : Seq(STRING), kind : FileKind, lines : Seq(Nat) \ {<<>>}, score : Nat,
                 stages : 1 .. 3]
<1>2. /\ repo.tree \in Seq(F)
      /\ \A i, j \in DOMAIN repo.tree : repo.tree[i].path = repo.tree[j].path => i = j
  BY <1>1 DEF Trees
<1> HIDE DEF F
<1>3. /\ DOMAIN repo.tree = 1 .. Len(repo.tree) /\ Len(repo.tree) \in Nat
      /\ \A k \in DOMAIN repo.tree : repo.tree[k] \in F
  BY <1>2, SeqPlaces
<1>4. \A f \in F : /\ f.path \in Seq(STRING) /\ f.kind \in FileKind /\ f.lines \in Seq(Nat)
                   /\ f.lines # <<>> /\ f.score \in Nat /\ f.stages \in 1 .. 3
  BY DEF F
<1>5. Paths = [k \in DOMAIN repo.tree |-> repo.tree[k].path]
  BY DEF Paths
<1> QED
  BY <1>2, <1>3, <1>4, <1>5

\* A path of the tree has one file.
LEMMA FileFacts ==
  ASSUME repo \in Repos, NEW p \in Range(Paths)
  PROVE  /\ File(p).kind \in FileKind /\ File(p).lines \in Seq(Nat) /\ File(p).lines # <<>>
         /\ File(p).score \in Nat
         /\ File(p).path = p /\ File(p) \in Range(repo.tree)
<1>1. PICK k \in DOMAIN repo.tree : p = Paths[k]
  BY TreeFacts DEF Range
<1>2. repo.tree[k] \in Range(repo.tree) /\ repo.tree[k].path = p
  BY <1>1, TreeFacts DEF Range
<1>3. File(p) \in Range(repo.tree) /\ File(p).path = p
  BY <1>2 DEF File
<1>4. PICK j \in DOMAIN repo.tree : File(p) = repo.tree[j]
  BY <1>3 DEF Range
<1> QED
  BY <1>3, <1>4, TreeFacts

-----------------------------------------------------------------------------
(* Tokens *)

\* A sum of naturals is one.
LEMMA TotalNat ==
  ASSUME NEW s \in Seq(Nat)
  PROVE  Total(s) \in Nat
<1> DEFINE z == [k \in 1 .. Len(s) |-> 0]
<1>1. s \in Seq(Int) /\ Len(s) \in Nat /\ \A k \in 1 .. Len(s) : 0 <= s[k]
  OBVIOUS
<1>2. z \in Seq(Int) /\ Len(z) = Len(s) /\ \A k \in 1 .. Len(s) : z[k] = 0
  BY <1>1
<1> HIDE DEF z
<1>3. Total(z) = 0
  BY <1>2, TotalZero
<1>4. \A k \in 1 .. Len(z) : z[k] <= s[k]
  BY <1>1, <1>2
<1>5. Total(z) <= Total(s)
  BY <1>1, <1>2, <1>4, TotalGrows
<1>6. Total(s) \in Int
  BY <1>1, TotalType
<1> QED
  BY <1>3, <1>5, <1>6

\* The first lines of a text have a length.
LEMMA CharsType ==
  ASSUME NEW lines \in Seq(Nat), NEW n \in 0 .. Len(lines)
  PROVE  Chars(lines, n) \in Nat /\ Tokens(lines, n) \in Nat
<1>1. Len(lines) \in Nat /\ n \in Nat /\ n <= Len(lines)
  OBVIOUS
<1>2. SubSeq(lines, 1, n) \in Seq(Nat)
  BY <1>1
<1>3. Total(SubSeq(lines, 1, n)) \in Nat
  BY <1>2, TotalNat
<1>4. Chars(lines, n) \in Nat
  BY <1>1, <1>3 DEF Chars
<1>5. \A c \in Nat : (c + 3) \div 4 \in Nat
  OBVIOUS
<1> QED
  BY <1>4, <1>5 DEF Tokens

\* A file costs a number of tokens.
LEMMA SizeType ==
  ASSUME repo \in Repos, NEW p \in Range(Paths)
  PROVE  Size(p) \in Nat
<1>1. File(p).lines \in Seq(Nat)
  BY FileFacts
<1>2. Len(File(p).lines) \in 0 .. Len(File(p).lines)
  BY <1>1
<1> QED
  BY <1>1, <1>2, CharsType DEF Size

\* The head of a file fits into what is left.
LEMMA HeadFits ==
  ASSUME repo \in Repos, NEW p \in Range(Paths), NEW left \in Nat
  PROVE  \/ HeadOf(p, left) = 0
         \/ /\ HeadOf(p, left) \in DOMAIN File(p).lines
            /\ Tokens(File(p).lines, HeadOf(p, left)) <= left
<1> DEFINE lines == File(p).lines
           fits == {n \in DOMAIN lines : Chars(lines, n) <= 4 * left}
<1>1. lines \in Seq(Nat)
  BY FileFacts
<1>2. DOMAIN lines = 1 .. Len(lines) /\ Len(lines) \in Nat /\ IsFiniteSet(DOMAIN lines)
  BY <1>1, SeqPlaces
<1>3. HeadOf(p, left) = IF fits = {} THEN 0 ELSE Max(fits)
  BY DEF HeadOf
<1> HIDE DEF lines
<1>4. fits \in SUBSET Int /\ IsFiniteSet(fits)
  BY <1>2, FS_Subset
<1>5. CASE fits # {}
  <2> DEFINE n == Max(fits)
  <2>1. n \in fits
    BY <1>4, <1>5, GreatestIs
  <2> HIDE DEF n
  <2>2. n \in DOMAIN lines /\ Chars(lines, n) <= 4 * left
    BY <2>1
  <2>3. n \in 0 .. Len(lines)
    BY <1>2, <2>2
  <2>4. Chars(lines, n) \in Nat
    BY <1>1, <2>3, CharsType
  <2>5. \A c, m \in Nat : c <= 4 * m => (c + 3) \div 4 <= m
    OBVIOUS
  <2>6. Tokens(lines, n) <= left
    BY <2>2, <2>4, <2>5 DEF Tokens
  <2> QED
    BY <1>3, <1>5, <2>2, <2>6 DEF lines, n
<1> QED
  BY <1>3, <1>5

-----------------------------------------------------------------------------
(* What is asked of the selection *)

\* There is always something to spend.
LEMMA BudgetIsSomething ==
  ASSUME NEW r \in Repos
  PROVE  Budget(r) \in Nat /\ Budget(r) > 0
<1>1. r.request \in [explicit : Nat, window : Nat, windows : SUBSET Nat, reserved : Nat]
  BY ReposAssumption DEF WellFormed
<1>2. /\ r.request.explicit \in Nat /\ r.request.window \in Nat /\ r.request.windows \in SUBSET Nat
      /\ r.request.reserved \in Nat
  BY <1>1
<1>3. r.request.windows # {} => Min(r.request.windows) \in Nat
  BY <1>2, LeastIs
<1>4. Window(r) \in Nat
  BY <1>2, <1>3 DEF Window
<1> DEFINE derived == Window(r) \div 4 - r.request.reserved
           either == {MinDerived, derived}
<1>5. derived \in Int
  BY <1>2, <1>4
<1> HIDE DEF derived
<1>6. either \in SUBSET Int /\ IsFiniteSet(either) /\ either # {} /\ 512 \in either
  <2>1. either = {MinDerived} \cup {derived}
    OBVIOUS
  <2>2. IsFiniteSet({MinDerived})
    BY FS_Singleton
  <2>3. IsFiniteSet({MinDerived} \cup {derived})
    BY <2>2, FS_AddElement
  <2> QED
    BY <1>5, <2>1, <2>3 DEF MinDerived
<1>7. Max(either) \in Int /\ 512 <= Max(either)
  <2> HIDE DEF either
  <2> QED
    BY <1>6, GreatestIs
<1>8. Budget(r) = IF r.request.explicit > 0 THEN r.request.explicit
                  ELSE IF Window(r) = 0 THEN DefaultBudget ELSE Max(either)
  BY DEF Budget, derived
<1> HIDE DEF either
<1> QED
  BY <1>2, <1>7, <1>8 DEF DefaultBudget

\* The candidates are an input of the selection.
LEMMA RequestFits ==
  ASSUME repo \in Repos, NEW s \in Seq(Range(Paths))
  PROVE  /\ Request(s) \in SelectInputs /\ Candidates(Request(s)) = DOMAIN s
         /\ Request(s).budget = Budget(repo)
         /\ \A k \in DOMAIN s : Request(s).cost[k] = Size(s[k])
<1> DEFINE n == Len(s)
           cost == [k \in DOMAIN s |-> Size(s[k])]
           rel == [k \in DOMAIN s |-> File(s[k]).score]
           sim == [k \in DOMAIN s |-> [m \in DOMAIN s |-> Likeness(s[k], s[m])]]
           weights == [rel |-> 2, coverage |-> 1, diversity |-> 1]
<1>1. DOMAIN s = 1 .. n /\ n \in Nat /\ \A k \in DOMAIN s : s[k] \in Range(Paths)
  BY SeqPlaces
<1>2. cost \in [1 .. n -> Nat]
  BY <1>1, SizeType
<1>3. rel \in [1 .. n -> Int]
  BY <1>1, FileFacts
<1>4. \A p, q \in Range(Paths) : Likeness(p, q) \in Nat /\ Likeness(p, q) = Likeness(q, p)
  <2> SUFFICES ASSUME NEW p \in Range(Paths), NEW q \in Range(Paths)
               PROVE  Likeness(p, q) \in Nat /\ Likeness(p, q) = Likeness(q, p)
    OBVIOUS
  <2>1. File(p) \in Range(repo.tree) /\ File(q) \in Range(repo.tree) /\ File(p).path = p /\ File(q).path = q
    BY FileFacts
  <2>2. \A f, g \in Range(repo.tree) : repo.sim[{f.path, g.path}] \in Nat
    BY ReposAssumption DEF WellFormed
  <2>3. repo.sim[{p, q}] \in Nat
    BY <2>1, <2>2
  <2>4. {p, q} = {q, p}
    OBVIOUS
  <2> QED
    BY <2>3, <2>4 DEF Likeness
<1>5. sim \in Matrix(n)
  <2>1. \A k, m \in 1 .. n : sim[k][m] = Likeness(s[k], s[m])
    BY <1>1
  <2>2. \A k \in 1 .. n : sim[k] = [m \in 1 .. n |-> Likeness(s[k], s[m])]
    BY <1>1
  <2>3. \A k, m \in 1 .. n : Likeness(s[k], s[m]) \in Int /\ Likeness(s[k], s[m]) = Likeness(s[m], s[k])
    BY <1>1, <1>4
  <2>4. \A k \in 1 .. n : sim[k] \in [1 .. n -> Int]
    BY <2>2, <2>3
  <2>5. sim = [k \in 1 .. n |-> sim[k]]
    BY <1>1
  <2> HIDE DEF sim
  <2>6. sim \in [1 .. n -> [1 .. n -> Int]]
    BY <2>4, <2>5
  <2> QED
    BY <2>1, <2>3, <2>6 DEF Matrix
<1>6. weights \in Weights
  BY DEF Weights
<1>7. Budget(repo) \in Int
  BY BudgetIsSomething
<1>8. Request(s) = [cost |-> cost, rel |-> rel, sim |-> sim, weights |-> weights,
                    budget |-> Budget(repo), minGain |-> {}]
  BY DEF Request
<1>9. \A k \in DOMAIN s : cost[k] = Size(s[k])
  OBVIOUS
<1>10. DOMAIN cost = DOMAIN s
  OBVIOUS
<1> HIDE DEF cost, rel, sim, weights, n
<1>11. Request(s) \in [cost : [1 .. n -> Nat], rel : [1 .. n -> Int], sim : Matrix(n),
                       weights : Weights, budget : Int, minGain : SUBSET Int]
  BY <1>2, <1>3, <1>5, <1>6, <1>7, <1>8
<1>12. Request(s) \in SelectInputs
  BY <1>1, <1>11 DEF SelectInputs
<1> QED
  BY <1>8, <1>9, <1>10, <1>12 DEF Candidates

-----------------------------------------------------------------------------
(* Discovery *)

\* What discovery may consider: nothing twice, and what is not ignored is in the tree.
Considers(all) ==
  /\ all \in Seq(Range(all)) /\ Distinct(all)
  /\ \A p \in Range(all) : ~Ignored(p) => p \in Range(Paths)

\* Without a conflict git lists the paths of the tree.
LEMMA GitConsiders ==
  ASSUME repo \in Repos, \A k \in DOMAIN repo.tree : repo.tree[k].stages = 1
  PROVE  Considers(Along([e \in Staged |-> Paths[e[1]]], Staged, ByPlace))
<1> DEFINE n == Len(repo.tree)
           f == [e \in Staged |-> Paths[e[1]]]
           all == Along(f, Staged, ByPlace)
<1>1. n \in Nat /\ DOMAIN repo.tree = 1 .. n /\ DOMAIN Paths = 1 .. n
  BY TreeFacts
<1>2. \A e \in Staged : e[1] \in 1 .. n /\ e[2] = 1 /\ e = <<e[1], e[2]>>
  BY <1>1 DEF Staged
<1>3. IsFiniteSet(Staged)
  <2>1. \A k \in Nat : IsFiniteSet(1 .. k)
    BY FS_Interval
  <2>2. IsFiniteSet((1 .. n) \X (1 .. 3))
    BY <1>1, <2>1, FS_Product
  <2>3. Staged \subseteq (1 .. n) \X (1 .. 3)
    BY <1>1 DEF Staged
  <2> QED
    BY <2>2, <2>3, FS_Subset
<1>4. StrictOrder(Staged, ByPlace)
  <2>1. \A d, e \in Staged : <<d, e>> \in ByPlace <=> d[1] < e[1]
    BY <1>1, <1>2 DEF ByPlace
  <2>2. \A d, e \in Staged : d[1] = e[1] => d = e
    BY <1>2
  <2>3. \A e \in Staged : e[1] \in Int
    BY <1>1, <1>2
  <2> QED
    BY <2>1, <2>2, <2>3 DEF StrictOrder
<1>5. \A e \in Staged : f[e] = Paths[e[1]] /\ f[e] \in Range(Paths)
  BY <1>1, <1>2 DEF Range
<1>6. \A d, e \in Staged : f[d] = f[e] => d = e
  <2>1. \A i, j \in 1 .. n : Paths[i] = Paths[j] => i = j
    BY <1>1, TreeFacts
  <2> QED
    BY <1>2, <1>5, <2>1
<1> HIDE DEF f
<1>7. \A e \in Staged : f[e] \in Range(Paths)
  BY <1>5
<1>8. ReadsOff(all, f, Staged, Range(Paths))
  BY <1>3, <1>4, <1>7, AlongPlaces
<1>9. Distinct(all)
  BY <1>3, <1>4, <1>6, <1>7, AlongDistinct
<1> HIDE DEF all
<1>10. all \in Seq(Range(Paths))
  BY <1>8 DEF ReadsOff
<1>11. all \in Seq(Range(all)) /\ Range(all) \subseteq Range(Paths)
  <2>1. DOMAIN all = 1 .. Len(all) /\ Len(all) \in Nat /\ \A k \in DOMAIN all : all[k] \in Range(Paths)
    BY <1>10, SeqPlaces
  <2> QED
    BY <1>10, <2>1 DEF Range
<1> QED
  BY <1>9, <1>11 DEF Considers, all, f

\* A walk meets a path, or an ignored directory above it.
LEMMA WalkMeets ==
  ASSUME NEW p \in Seq(STRING)
  PROVE  Walked(p) = p \/ Ignored(Walked(p))
<1> DEFINE cut == {dir \in Ancestors(p) : Ignored(dir)}
<1>1. Walked(p) = IF cut = {} THEN p
                  ELSE CHOOSE dir \in cut : \A other \in cut : Len(dir) <= Len(other)
  BY DEF Walked
<1>2. CASE cut # {}
  <2> DEFINE lens == {Len(dir) : dir \in cut}
  <2>1. \A dir \in Ancestors(p) : Len(dir) \in Nat
    BY DEF Ancestors
  <2>2. lens \in SUBSET Nat /\ lens # {}
    BY <1>2, <2>1
  <2>3. Min(lens) \in lens /\ \A m \in lens : Min(lens) <= m
    BY <2>2, LeastIs
  <2>4. \E dir \in cut : \A other \in cut : Len(dir) <= Len(other)
    <3>1. PICK dir \in cut : Min(lens) = Len(dir)
      BY <2>3
    <3>2. \A other \in cut : Len(other) \in lens
      OBVIOUS
    <3> HIDE DEF lens, cut
    <3> QED
      BY <2>3, <3>1, <3>2
  <2> HIDE DEF cut
  <2>5. Walked(p) \in cut
    BY <1>1, <1>2, <2>4
  <2> QED
    BY <2>5 DEF cut
<1> QED
  BY <1>1, <1>2

\* What a walk considers.
LEMMA WalkConsiders ==
  ASSUME repo \in Repos
  PROVE  Considers(At(Entries, {k \in DOMAIN Entries : \A j \in 1 .. k - 1 : Entries[j] # Entries[k]}))
<1> DEFINE I == {k \in DOMAIN Entries : \A j \in 1 .. k - 1 : Entries[j] # Entries[k]}
           all == At(Entries, I)
           n == Len(repo.tree)
<1>1. n \in Nat /\ DOMAIN Paths = 1 .. n /\ \A k \in 1 .. n : Paths[k] \in Seq(STRING)
  BY TreeFacts
<1>2. Entries = [k \in 1 .. n |-> Walked(Paths[k])]
  BY <1>1 DEF Entries
<1>3. Entries \in Seq(Range(Entries)) /\ DOMAIN Entries = 1 .. n
  <2>1. DOMAIN Entries = 1 .. n
    BY <1>2
  <2>2. \A k \in 1 .. n : Entries[k] \in Range(Entries)
    BY <2>1 DEF Range
  <2>3. Entries \in [1 .. n -> Range(Entries)]
    BY <1>2, <2>2
  <2>4. n \in Nat
    BY <1>1
  <2> HIDE DEF n
  <2>5. \A m \in Nat : [1 .. m -> Range(Entries)] \subseteq Seq(Range(Entries))
    OBVIOUS
  <2> QED
    BY <2>1, <2>3, <2>4, <2>5
<1>4. \A i, j \in I : Entries[i] = Entries[j] => i = j
  <2>1. \A i, j \in 1 .. n : i < j => i \in 1 .. j - 1
    BY <1>1
  <2>2. \A i, j \in I : ~(i < j /\ Entries[i] = Entries[j])
    BY <1>3, <2>1
  <2>3. \A i, j \in I : i < j \/ j < i \/ i = j
    BY <1>1, <1>3
  <2> QED
    BY <2>2, <2>3
<1>5. I \in SUBSET DOMAIN Entries
  OBVIOUS
<1> HIDE DEF I
<1>6. ReadsOff(all, Entries, I, Range(Entries))
  BY <1>3, <1>5, AtPlaces
<1>7. Distinct(all)
  BY <1>3, <1>4, <1>5, AtDistinct
<1> HIDE DEF all
<1>8. \A k \in DOMAIN all : \E i \in 1 .. n : all[k] = Walked(Paths[i])
  BY <1>2, <1>3, <1>5, <1>6 DEF ReadsOff
<1>9. all \in Seq(Range(all))
  <2>1. all \in Seq(Range(Entries))
    BY <1>6 DEF ReadsOff
  <2>2. DOMAIN all = 1 .. Len(all) /\ Len(all) \in Nat
    BY <2>1, SeqPlaces
  <2> QED
    BY <2>1, <2>2 DEF Range
<1>10. ASSUME NEW p \in Range(all), ~Ignored(p) PROVE p \in Range(Paths)
  <2>1. PICK i \in 1 .. n : p = Walked(Paths[i])
    BY <1>8 DEF Range
  <2>2. p = Paths[i]
    BY <1>1, <1>10, <2>1, WalkMeets
  <2> QED
    BY <1>1, <2>2 DEF Range
<1> QED
  BY <1>7, <1>9, <1>10 DEF Considers, all, I

-----------------------------------------------------------------------------
(* What discovery and the filters leave to be dealt with *)

\* The paths of s are all that is not yet in o, and may be in the answer.
Pends(o, s, n) ==
  /\ s \in Seq(Range(Paths)) /\ Distinct(s) /\ \A p \in Range(s) : ~Ignored(p)
  /\ Accounted(o, Range(s), n)

\* What is considered and not ignored pends.
LEMMA DiscoveryPends ==
  ASSUME repo \in Repos, NEW all, Considers(all)
  PROVE  Pends(Noted("ignored", Only(all, LAMBDA p : Ignored(p))),
               Only(all, LAMBDA p : ~Ignored(p)), Len(all))
<1> DEFINE I == {k \in DOMAIN all : ~Ignored(all[k])}
           s == At(all, I)
           u == At(all, DOMAIN all \ I)
           z == Noted("ignored", u)
<1>1. Only(all, LAMBDA p : ~Ignored(p)) = s
  BY DEF Only
<1>2. Only(all, LAMBDA p : Ignored(p)) = u
  <2>1. {k \in DOMAIN all : Ignored(all[k])} = DOMAIN all \ I
    OBVIOUS
  <2> QED
    BY <2>1 DEF Only
<1>3. all \in Seq(Range(all)) /\ Distinct(all) /\ I \in SUBSET DOMAIN all
  BY DEF Considers
<1>4. Splits(all, s, u)
  BY <1>3, FilterSplits
<1>5. \A p \in Range(s) : ~Ignored(p) /\ p \in Range(Paths)
  <2>1. \A p \in Range(s) : \E i \in I : p = all[i]
    BY <1>3, FilterFacts
  <2>2. \A i \in I : ~Ignored(all[i]) /\ all[i] \in Range(all)
    BY DEF Range
  <2> HIDE DEF I, s
  <2> QED
    BY <2>1, <2>2 DEF Considers
<1> HIDE DEF I, s, u
<1>6. s \in Seq(Range(Paths))
  <2>1. s \in Seq(Range(all))
    BY <1>4 DEF Splits
  <2>2. DOMAIN s = 1 .. Len(s) /\ Len(s) \in Nat
    BY <2>1, SeqPlaces
  <2>3. \A k \in DOMAIN s : s[k] \in Range(Paths)
    BY <1>5 DEF Range
  <2> QED
    BY <2>1, <2>2, <2>3
<1>7. Accounted(<<>>, Range(all), Len(all))
  <2>1. IsFiniteSet(Range(all)) /\ Cardinality(Range(all)) = Len(all)
    BY <1>3, DistinctCounts
  <2>2. Len(all) \in Nat /\ Len(<<>>) = 0 /\ <<>> \in Seq(Range(<<>>)) /\ DOMAIN <<>> = {}
    BY <1>3
  <2> QED
    BY <2>1, <2>2 DEF Accounted
<1>8. /\ z \in Seq(Range(z)) /\ DOMAIN z = DOMAIN u
      /\ \A k \in DOMAIN u : z[k][1] \in LeftOut /\ z[k][2] = u[k]
  <2>1. "ignored" \in LeftOut
    BY DEF LeftOut, Classes
  <2>2. u \in Seq(Range(all))
    BY <1>4 DEF Splits
  <2> QED
    BY <2>1, <2>2, NotedPairs
<1>9. u \in Seq(Range(all)) /\ Distinct(u)
  BY <1>4 DEF Splits
<1>10. z \in Seq(Range(z)) /\ <<>> \o z = z
  BY <1>8
<1> HIDE DEF z
<1>11. Accounted(<<>> \o z, Range(all) \ Range(u), Len(all))
  BY <1>7, <1>8, <1>9, Omits
<1>12. Range(all) \ Range(u) = Range(s)
  BY <1>4 DEF Splits
<1>13. Pends(z, s, Len(all))
  BY <1>4, <1>5, <1>6, <1>10, <1>11, <1>12 DEF Pends, Splits
<1> QED
  BY <1>1, <1>2, <1>13 DEF z

-----------------------------------------------------------------------------
(* Reading, ranking, the cap *)

\* A sort of what has nothing twice.
LEMMA SortKeeps ==
  ASSUME NEW S, NEW s \in Seq(S), Distinct(s), NEW t, ReadsOff(t, s, DOMAIN s, S)
  PROVE  t \in Seq(Range(s)) /\ Distinct(t) /\ Range(t) = Range(s)
<1>1. /\ DOMAIN s = 1 .. Len(s) /\ Len(s) \in Nat /\ Cardinality(DOMAIN s) = Len(s)
      /\ IsFiniteSet(Range(s)) /\ Cardinality(Range(s)) = Len(s)
  BY SeqPlaces, DistinctCounts
<1>2. t \in Seq(S) /\ Len(t) = Len(s)
  BY <1>1 DEF ReadsOff
<1>3. DOMAIN t = 1 .. Len(s) /\ IsFiniteSet(DOMAIN t) /\ Cardinality(DOMAIN t) = Len(s)
  BY <1>2, SeqPlaces
<1>4. /\ \A k \in DOMAIN t : \E i \in DOMAIN s : t[k] = s[i]
      /\ \A i \in DOMAIN s : \E k \in DOMAIN t : t[k] = s[i]
  BY DEF ReadsOff
<1>5. \A k \in DOMAIN t : t[k] \in Range(s)
  BY <1>4 DEF Range
<1>6. t \in [1 .. Len(s) -> Range(s)]
  BY <1>2, <1>3, <1>5
<1>7. t \in Surjection(DOMAIN t, Range(s))
  BY <1>3, <1>4, <1>6 DEF Surjection, Range
<1>8. t \in Injection(DOMAIN t, Range(s))
  BY <1>1, <1>3, <1>7, FS_Surjection
<1>9. Distinct(t)
  BY <1>8 DEF Injection, IsInjective, Distinct
<1>10. Range(t) = Range(s)
  BY <1>4 DEF Range
<1> QED
  BY <1>1, <1>6, <1>9, <1>10

\* What comes of reading the paths of s: the texts, the rest with its omissions, and the
\* texts ranked and cut.
ReadAs(s, texts, other, z, cut) ==
  /\ texts = Only(s, LAMBDA p : File(p).kind = "text")
  /\ other = Only(s, LAMBDA p : File(p).kind # "text")
  /\ z = [k \in DOMAIN other |-> <<OmittedAs[File(other[k]).kind], other[k]>>]
  /\ cut = UpTo(repo.cap, Ranked(texts, LAMBDA p : File(p).score))

\* Reading, ranking and the cap leave the candidates.
LEMMA ReadingPends ==
  ASSUME repo \in Repos, NEW o, NEW n, NEW s, Pends(o, s, n),
         NEW texts, NEW other, NEW z, NEW cut, ReadAs(s, texts, other, z, cut)
  PROVE  /\ Pends(o \o z \o Noted("droppedForScale", cut[2]), cut[1], n)
         /\ \A p \in Range(cut[1]) : File(p).kind = "text"
<1> DEFINE P == Range(Paths)
           I == {k \in DOMAIN s : File(s[k]).kind = "text"}
           sorted == Ranked(texts, LAMBDA p : File(p).score)
<1>1. s \in Seq(P) /\ Distinct(s) /\ (\A p \in Range(s) : ~Ignored(p)) /\ Accounted(o, Range(s), n)
  BY DEF Pends
<1>2. texts = At(s, I)
  BY DEF ReadAs, Only
<1>3. other = At(s, DOMAIN s \ I)
  <2>1. {k \in DOMAIN s : File(s[k]).kind # "text"} = DOMAIN s \ I
    OBVIOUS
  <2> QED
    BY <2>1 DEF ReadAs, Only
<1>4. I \in SUBSET DOMAIN s
  OBVIOUS
<1>5. Splits(s, texts, other)
  BY <1>1, <1>2, <1>3, <1>4, FilterSplits
<1>6. Range(s) \subseteq P
  <2>1. \A k \in DOMAIN s : s[k] \in P
    BY <1>1, SeqPlaces
  <2> QED
    BY <2>1 DEF Range
<1>7. \A p \in Range(texts) : File(p).kind = "text"
  <2>1. \A p \in Range(texts) : \E i \in I : p = s[i]
    BY <1>1, <1>2, <1>4, FilterFacts
  <2> QED
    BY <2>1
<1>8. \A p \in Range(other) : File(p).kind \in FileKind \ {"text"}
  <2>1. \A p \in Range(other) : \E i \in DOMAIN s \ I : p = s[i]
    BY <1>1, <1>3, FilterFacts
  <2>2. \A i \in DOMAIN s \ I : File(s[i]).kind # "text" /\ s[i] \in P
    BY <1>1, SeqPlaces
  <2> QED
    BY <2>1, <2>2, FileFacts
<1> HIDE DEF I, P
<1>9. texts \in Seq(Range(s)) /\ Distinct(texts) /\ other \in Seq(Range(s)) /\ Distinct(other)
  BY <1>5 DEF Splits
<1>10. ReadsOff(sorted, texts, DOMAIN texts, Range(s))
  <2> DEFINE K == [i \in DOMAIN texts |-> File(texts[i]).score]
             R == ByKey(texts, LAMBDA p : File(p).score)
  <2>1. \A i \in DOMAIN texts : texts[i] \in Range(Paths)
    BY <1>6, <1>9, SeqPlaces DEF P
  <2>2. K \in [DOMAIN texts -> Int]
    <3>1. \A p \in Range(Paths) : File(p).score \in Int
      BY FileFacts
    <3> QED
      BY <2>1, <3>1
  <2>3. R = {p \in (DOMAIN texts) \X (DOMAIN texts) :
               K[p[1]] > K[p[2]] \/ (K[p[1]] = K[p[2]] /\ p[1] < p[2])}
    BY DEF ByKey
  <2>4. sorted = Along(texts, DOMAIN texts, R)
    BY DEF Ranked
  <2> HIDE DEF K, R, sorted
  <2> QED
    BY <1>9, <2>2, <2>3, <2>4, KeyOrder
<1>11. cut = UpTo(repo.cap, sorted)
  BY DEF ReadAs, Ranked
<1> HIDE DEF sorted
<1>12. sorted \in Seq(Range(texts)) /\ Distinct(sorted) /\ Range(sorted) = Range(texts)
  BY <1>9, <1>10, SortKeeps
<1>13. repo.cap \in Nat
  BY ReposAssumption DEF WellFormed
<1>14. Splits(sorted, cut[1], cut[2])
  BY <1>11, <1>12, <1>13, CutSplits
<1>15. Accounted(o \o z, Range(texts), n)
  <2>1. z = [k \in DOMAIN other |-> <<OmittedAs[File(other[k]).kind], other[k]>>]
    BY DEF ReadAs
  <2>2. DOMAIN other = 1 .. Len(other) /\ Len(other) \in Nat /\ DOMAIN z = DOMAIN other
    BY <1>9, <2>1, SeqPlaces
  <2>3. z \in Seq(Range(z))
    <3>1. z = [k \in 1 .. Len(other) |-> <<OmittedAs[File(other[k]).kind], other[k]>>]
      BY <2>2, <2>1
    <3>2. \A k \in 1 .. Len(other) : z[k] \in Range(z)
      BY <2>2 DEF Range
    <3>3. z \in [1 .. Len(other) -> Range(z)]
      BY <3>1, <3>2
    <3> QED
      BY <2>2, <3>3, FunctionsAreSeqs
  <2>4. \A k \in DOMAIN other : z[k][1] = OmittedAs[File(other[k]).kind] /\ z[k][2] = other[k]
    BY <2>1
  <2>5. \A k \in FileKind \ {"text"} : OmittedAs[k] \in LeftOut
    BY DEF FileKind, OmittedAs, LeftOut, Classes
  <2>6. \A k \in DOMAIN other : other[k] \in Range(other)
    BY DEF Range
  <2>7. \A k \in DOMAIN other : z[k][1] \in LeftOut /\ z[k][2] = other[k]
    BY <1>8, <2>4, <2>5, <2>6
  <2>8. Accounted(o \o z, Range(s) \ Range(other), n)
    BY <1>1, <1>9, <2>2, <2>3, <2>7, Omits
  <2>9. Range(s) \ Range(other) = Range(texts)
    BY <1>5 DEF Splits
  <2> QED
    BY <2>8, <2>9
<1>16. Accounted(o \o z \o Noted("droppedForScale", cut[2]), Range(cut[1]), n)
  <2> DEFINE y == Noted("droppedForScale", cut[2])
  <2>1. cut[2] \in Seq(Range(texts)) /\ Distinct(cut[2])
    BY <1>12, <1>14 DEF Splits
  <2>2. "droppedForScale" \in LeftOut
    BY DEF LeftOut, Classes
  <2>3. /\ y \in Seq(Range(y)) /\ DOMAIN y = DOMAIN cut[2]
        /\ \A k \in DOMAIN cut[2] : y[k][1] \in LeftOut /\ y[k][2] = cut[2][k]
    BY <2>1, <2>2, NotedPairs
  <2> HIDE DEF y
  <2>4. Accounted((o \o z) \o y, Range(texts) \ Range(cut[2]), n)
    BY <1>15, <2>1, <2>3, Omits
  <2>5. Range(texts) \ Range(cut[2]) = Range(cut[1])
    BY <1>12, <1>14 DEF Splits
  <2> QED
    BY <2>4, <2>5 DEF y
<1>17. Range(cut[1]) \subseteq Range(texts) /\ Range(texts) \subseteq Range(s)
  BY <1>5, <1>12, <1>14 DEF Splits
<1>18. cut[1] \in Seq(Range(Paths)) /\ Distinct(cut[1])
  <2>1. cut[1] \in Seq(Range(texts)) /\ Distinct(cut[1])
    BY <1>12, <1>14 DEF Splits
  <2>2. \A k \in DOMAIN cut[1] : cut[1][k] \in Range(texts)
    BY <2>1, SeqPlaces
  <2>3. Range(texts) \subseteq Range(Paths)
    BY <1>6, <1>17 DEF P
  <2> QED
    BY <2>1, <2>2, <2>3, Retyped
<1> QED
  BY <1>1, <1>7, <1>16, <1>17, <1>18 DEF Pends

-----------------------------------------------------------------------------
(* The candidates that were chosen *)

\* A selection of candidates that pend, within the budget.
Choosing ==
  /\ repo \in Repos /\ Pends(omitted, ranked, considered)
  /\ input = Request(ranked) /\ LazyInv /\ Spent(input, chosen) <= input.budget
  /\ \A p \in Range(ranked) : File(p).kind = "text"

\* The candidates that were chosen, and what they cost.
LEMMA ChosenFacts ==
  ASSUME Choosing
  PROVE  /\ Splits(ranked, Fit, Rest) /\ Fit \in Seq(Range(Paths)) /\ Rest \in Seq(Range(Paths))
         /\ Total([k \in DOMAIN Fit |-> Size(Fit[k])]) = Spent(input, chosen)
         /\ Left \in Nat /\ Spent(input, chosen) \in Int /\ Left = Budget(repo) - Spent(input, chosen)
<1> DEFINE P == Range(Paths)
           I == Range(chosen)
           cost == [i \in DOMAIN ranked |-> Size(ranked[i])]
<1>1. repo \in Repos /\ ranked \in Seq(P) /\ Distinct(ranked)
  BY DEF Choosing, Pends
<1>2. /\ Candidates(input) = DOMAIN ranked /\ input.budget = Budget(repo)
      /\ input \in SelectInputs
      /\ \A k \in DOMAIN ranked : input.cost[k] = Size(ranked[k])
  BY <1>1, RequestFits DEF Choosing
<1>3. chosen \in Seq(DOMAIN ranked) /\ Distinct(chosen)
  BY <1>2 DEF Choosing, LazyInv
<1>4. \A k \in DOMAIN chosen : chosen[k] \in DOMAIN ranked
  BY <1>3, SeqPlaces
<1>5. \A i \in DOMAIN ranked : ranked[i] \in Ids <=> i \in I
  BY <1>1, <1>4 DEF Ids, Distinct, Range
<1>6. Fit = At(ranked, I)
  <2>1. {i \in DOMAIN ranked : ranked[i] \in Ids} = I
    BY <1>4, <1>5 DEF Range
  <2> HIDE DEF I
  <2> QED
    BY <2>1 DEF Fit, Only
<1>7. Rest = At(ranked, DOMAIN ranked \ I)
  <2>1. {i \in DOMAIN ranked : ranked[i] \notin Ids} = DOMAIN ranked \ I
    BY <1>5
  <2> HIDE DEF I
  <2> QED
    BY <2>1 DEF Rest, Only
<1>8. I \in SUBSET DOMAIN ranked
  BY <1>4 DEF Range
<1>9. Splits(ranked, Fit, Rest)
  <2> HIDE DEF I
  <2> QED
    BY <1>1, <1>6, <1>7, <1>8, FilterSplits
<1>10. \A k \in DOMAIN ranked : ranked[k] \in P
  BY <1>1, SeqPlaces
<1>11. Range(ranked) \subseteq P
  BY <1>10 DEF Range
<1>12. Fit \in Seq(P) /\ Rest \in Seq(P)
  <2>1. Fit \in Seq(Range(ranked)) /\ Rest \in Seq(Range(ranked))
    BY <1>9 DEF Splits
  <2>2. \A k \in DOMAIN Fit : Fit[k] \in P
    BY <1>11, <2>1, SeqPlaces
  <2>3. \A k \in DOMAIN Rest : Rest[k] \in P
    BY <1>11, <2>1, SeqPlaces
  <2> HIDE DEF P
  <2> QED
    BY <2>1, <2>2, <2>3, Retyped
<1>13. cost \in [DOMAIN ranked -> Int]
  <2>1. \A p \in P : Size(p) \in Int
    BY <1>1, SizeType
  <2> QED
    BY <1>10, <2>1
<1>14. \A k \in DOMAIN chosen : cost[chosen[k]] \in Int /\ input.cost[chosen[k]] = cost[chosen[k]]
  BY <1>2, <1>4, <1>13
<1>15. DOMAIN chosen = 1 .. Len(chosen) /\ Len(chosen) \in Nat
  BY <1>3, SeqPlaces
<1> DEFINE w == [k \in DOMAIN chosen |-> input.cost[chosen[k]]]
           v == [k \in DOMAIN Fit |-> Size(Fit[k])]
<1>16. w \in Seq(Int) /\ DOMAIN w = DOMAIN chosen /\ \A k \in DOMAIN chosen : w[k] = cost[chosen[k]]
  <2>1. \A k \in DOMAIN chosen : w[k] = cost[chosen[k]]
    BY <1>14
  <2>2. w \in [1 .. Len(chosen) -> Int] /\ DOMAIN w = DOMAIN chosen
    BY <1>14, <1>15
  <2> HIDE DEF w, cost
  <2> QED
    BY <1>15, <2>1, <2>2, FunctionsAreSeqs
<1>17. Total(v) = Spent(input, chosen)
  <2>1. /\ DOMAIN Fit = 1 .. Len(Fit) /\ Len(Fit) \in Nat
        /\ \A k \in DOMAIN Fit : Fit[k] \in P
    BY <1>12, SeqPlaces
  <2>2. v \in [1 .. Len(Fit) -> Int] /\ DOMAIN v = DOMAIN Fit
    <3>1. \A k \in DOMAIN Fit : Size(Fit[k]) \in Int
      BY <1>1, <2>1, SizeType
    <3> QED
      BY <2>1, <3>1
  <2>3. \A k \in DOMAIN Fit, i \in DOMAIN ranked : Fit[k] = ranked[i] => v[k] = cost[i]
    OBVIOUS
  <2> HIDE DEF v, cost, P, w
  <2>4. v \in Seq(Int)
    BY <2>1, <2>2, FunctionsAreSeqs
  <2>5. Fit = At(ranked, Range(chosen))
    BY <1>6 DEF I
  <2>6. Total(v) = Total(w)
    <3>1. \A k \in DOMAIN chosen : w[k] = cost[chosen[k]]
      BY <1>16
    <3>2. Weighed(ranked, cost, chosen, v, w)
      BY <1>3, <1>13, <1>16, <2>2, <2>3, <2>4, <2>5, <3>1 DEF Weighed
    <3> QED
      BY <1>1, <3>2, KeptWeighs
  <2> QED
    BY <2>6 DEF w, Spent
<1>18. Spent(input, chosen) \in Int
  <2> HIDE DEF w, cost
  <2> QED
    BY <1>16, TotalType DEF w, Spent
<1>19. Left \in Nat /\ Left = Budget(repo) - Spent(input, chosen)
  <2>1. Budget(repo) \in Nat
    BY <1>1, BudgetIsSomething
  <2>2. Spent(input, chosen) <= Budget(repo)
    BY <1>2 DEF Choosing
  <2> QED
    BY <1>2, <1>18, <2>1, <2>2 DEF Left
<1> QED
  BY <1>9, <1>12, <1>17, <1>18, <1>19 DEF v

\* The head of the best file that did not fit.
LEMMA ShownFacts ==
  ASSUME Choosing
  PROVE  \/ Shown = 0
         \/ /\ Shown \in Nat /\ Shown > 0
            /\ 1 \in DOMAIN Rest /\ Rest[1] \in Range(Paths)
            /\ Shown \in DOMAIN File(Rest[1]).lines
            /\ Tokens(File(Rest[1]).lines, Shown) <= Left
            /\ Tokens(File(Rest[1]).lines, Shown) \in Nat
<1> SUFFICES ASSUME Shown # 0
             PROVE  /\ Shown \in Nat /\ Shown > 0
                    /\ 1 \in DOMAIN Rest /\ Rest[1] \in Range(Paths)
                    /\ Shown \in DOMAIN File(Rest[1]).lines
                    /\ Tokens(File(Rest[1]).lines, Shown) <= Left
                    /\ Tokens(File(Rest[1]).lines, Shown) \in Nat
  OBVIOUS
<1>1. repo \in Repos /\ Left \in Nat /\ Rest \in Seq(Range(Paths))
  BY ChosenFacts DEF Choosing
<1>2. Rest # <<>> /\ Shown = HeadOf(Rest[1], Left)
  BY DEF Shown
<1>3. 1 \in DOMAIN Rest /\ Rest[1] \in Range(Paths)
  <2>1. DOMAIN Rest = 1 .. Len(Rest) /\ Len(Rest) \in Nat /\ DOMAIN Rest # {}
    BY <1>1, <1>2, SeqPlaces
  <2>2. 1 \in DOMAIN Rest
    BY <2>1
  <2> QED
    BY <1>1, <2>2, SeqPlaces
<1> DEFINE lines == File(Rest[1]).lines
<1>4. Shown \in DOMAIN lines /\ Tokens(lines, Shown) <= Left
  BY <1>1, <1>2, <1>3, HeadFits
<1>5. lines \in Seq(Nat)
  BY <1>1, <1>3, FileFacts
<1> HIDE DEF lines
<1>6. Shown \in Nat /\ Shown > 0 /\ Shown \in 0 .. Len(lines)
  <2>1. DOMAIN lines = 1 .. Len(lines) /\ Len(lines) \in Nat
    BY <1>5, SeqPlaces
  <2> QED
    BY <1>4, <2>1
<1>7. Tokens(lines, Shown) \in Nat
  BY <1>5, <1>6, CharsType
<1> QED
  BY <1>3, <1>4, <1>6, <1>7 DEF lines

-----------------------------------------------------------------------------
(* The answer of the map *)

\* The files of the answer, with the head of the one that is cut.
Answered ==
  [k \in DOMAIN Fit |-> Whole(Fit[k])] \o (IF Shown > 0 THEN <<Entry(Rest[1], Shown)>> ELSE <<>>)

\* The entries of the answer one by one.
LEMMA AnsweredFacts ==
  ASSUME Choosing
  PROVE  LET n == Len(Fit) IN
         /\ n \in Nat /\ DOMAIN Fit = 1 .. n
         /\ Answered \in Seq(Range(Answered))
         /\ \A k \in 1 .. n : Answered[k] = Whole(Fit[k])
         /\ Shown = 0 => Len(Answered) = n
         /\ Shown # 0 => Len(Answered) = n + 1 /\ Answered[n + 1] = Entry(Rest[1], Shown)
<1> DEFINE n == Len(Fit)
           u == [k \in DOMAIN Fit |-> Whole(Fit[k])]
           X == {Whole(Fit[k]) : k \in DOMAIN Fit} \cup {Entry(Rest[1], Shown)}
<1>1. n \in Nat /\ DOMAIN Fit = 1 .. n
  BY ChosenFacts, SeqPlaces
<1>2. \/ Shown = 0 /\ ~(Shown > 0)
      \/ Shown # 0 /\ Shown > 0
  BY ShownFacts
<1>3. u \in Seq(X) /\ Len(u) = n /\ \A k \in 1 .. n : u[k] = Whole(Fit[k])
  <2>1. u \in [1 .. n -> X]
    BY <1>1
  <2>2. \A k \in 1 .. n : u[k] = Whole(Fit[k])
    BY <1>1
  <2> HIDE DEF u, X
  <2>3. u \in Seq(X) /\ DOMAIN u = 1 .. n
    BY <1>1, <2>1, FunctionsAreSeqs
  <2> QED
    BY <1>1, <2>2, <2>3, LenIs
<1>4. Entry(Rest[1], Shown) \in X
  OBVIOUS
<1> HIDE DEF u, X, n
<1>5. CASE Shown = 0
  <2>1. Answered = u \o <<>>
    BY <1>2, <1>5 DEF Answered, u
  <2>2. Answered = u
    BY <1>3, <2>1
  <2> QED
    BY <1>1, <1>3, <1>5, <2>2, Z3 DEF n, Range
<1>6. CASE Shown # 0
  <2> DEFINE e == Entry(Rest[1], Shown)
  <2>1. Answered = u \o <<e>>
    BY <1>2, <1>6 DEF Answered, u
  <2> HIDE DEF e
  <2>2. Answered = Append(u, e)
    BY <1>3, <2>1
  <2>3. e \in X
    BY <1>4 DEF e
  <2>4. Answered \in Seq(X) /\ Len(Answered) = n + 1 /\ Answered[n + 1] = e
    BY <1>3, <2>2, <2>3
  <2>5. \A k \in 1 .. n : Answered[k] = u[k]
    BY <1>1, <1>3, <2>2, <2>3
  <2>6. Answered \in Seq(Range(Answered))
    <3>1. \A k \in DOMAIN Answered : Answered[k] \in Range(Answered)
      BY DEF Range
    <3> QED
      BY <2>4, <3>1, Retyped
  <2>7. \A k \in 1 .. n : Answered[k] = Whole(Fit[k])
    BY <1>3, <2>5
  <2> QED
    BY <1>1, <1>6, <2>4, <2>6, <2>7 DEF n, e
<1> QED
  BY <1>5, <1>6

\* What is left of the budget is spent on no more than it.
LEMMA AnswerFits ==
  ASSUME Choosing
  PROVE  Total([k \in DOMAIN Answered |-> Tokens(File(Answered[k].path).lines, Answered[k].lines)])
           <= Budget(repo)
<1> DEFINE n == Len(Fit)
           v == [k \in DOMAIN Fit |-> Size(Fit[k])]
           g == [k \in DOMAIN Answered |-> Tokens(File(Answered[k].path).lines, Answered[k].lines)]
           x == Tokens(File(Rest[1]).lines, Shown)
           spent == Spent(input, chosen)
<1>1. /\ repo \in Repos /\ Fit \in Seq(Range(Paths))
      /\ Total(v) = spent /\ Left \in Nat /\ spent \in Int /\ Left = Budget(repo) - spent
  BY ChosenFacts DEF Choosing
<1>2. Budget(repo) \in Nat
  BY <1>1, BudgetIsSomething
<1>3. n \in Nat /\ DOMAIN Fit = 1 .. n /\ \A k \in 1 .. n : Fit[k] \in Range(Paths)
  BY <1>1, SeqPlaces
<1>4. \A k \in 1 .. n : Answered[k] = Whole(Fit[k])
  BY AnsweredFacts
<1>5. \A k \in 1 .. n : Tokens(File(Answered[k].path).lines, Answered[k].lines) = Size(Fit[k])
  <2>1. \A p : Whole(p).path = p /\ Whole(p).lines = Len(File(p).lines)
    BY DEF Whole, Entry
  <2> HIDE DEF n
  <2> QED
    BY <1>4, <2>1 DEF Size
<1>6. v \in [1 .. n -> Int]
  <2>1. \A k \in 1 .. n : Size(Fit[k]) \in Int
    BY <1>1, <1>3, SizeType
  <2> QED
    BY <1>3, <2>1
<1>7. CASE Shown = 0
  <2>1. Len(Answered) = n /\ Answered \in Seq(Range(Answered))
    BY <1>7, AnsweredFacts
  <2>2. DOMAIN Answered = 1 .. n
    BY <2>1, SeqPlaces
  <2>3. g = v
    BY <1>3, <1>5, <2>2
  <2> HIDE DEF g, v
  <2> QED
    BY <1>1, <1>2, <2>3 DEF g
<1>8. CASE Shown # 0
  <2>1. Len(Answered) = n + 1 /\ Answered \in Seq(Range(Answered))
        /\ Answered[n + 1] = Entry(Rest[1], Shown)
    BY <1>8, AnsweredFacts
  <2>2. DOMAIN Answered = 1 .. n + 1
    BY <2>1, SeqPlaces
  <2>3. x \in Nat /\ x <= Left
    BY <1>8, ShownFacts
  <2>4. \A k \in 1 .. n : g[k] = v[k]
    BY <1>3, <1>5, <2>2
  <2>5. g[n + 1] = x /\ DOMAIN g = 1 .. n + 1
    BY <1>3, <2>1, <2>2 DEF Entry
  <2>6. g = [k \in 1 .. n + 1 |-> g[k]]
    BY <2>2
  <2> HIDE DEF g, v, x, n, spent
  <2>7. v \in Seq(Int) /\ Len(v) = n
    <3>1. v \in Seq(Int)
      BY <1>3, <1>6, FunctionsAreSeqs
    <3>2. DOMAIN v = 1 .. n
      BY <1>6
    <3> QED
      BY <1>3, <3>1, <3>2, LenIs
  <2>8. g = Append(v, x)
    <3> DEFINE a == Append(v, x)
    <3>1. a \in Seq(Int) /\ Len(a) = n + 1 /\ a[n + 1] = x
      BY <2>3, <2>7
    <3>2. \A k \in 1 .. n : a[k] = v[k]
      BY <1>3, <2>3, <2>7
    <3> HIDE DEF a
    <3>3. DOMAIN a = 1 .. n + 1 /\ a = [k \in DOMAIN a |-> a[k]]
      BY <3>1, SeqPlaces
    <3>4. \A k \in 1 .. n + 1 : k = n + 1 \/ k \in 1 .. n
      BY <1>3
    <3>5. \A k \in 1 .. n + 1 : g[k] = a[k]
      BY <2>4, <2>5, <3>1, <3>2, <3>4
    <3>6. g = a
      BY <2>6, <3>3, <3>5
    <3> QED
      BY <3>6 DEF a
  <2>9. Total(g) = Total(v) + x
    BY <2>3, <2>7, <2>8, TotalAppend
  <2>10. Total(g) = spent + x
    BY <1>1, <2>9
  <2> QED
    BY <1>1, <1>2, <2>3, <2>10 DEF g
<1> QED
  BY <1>7, <1>8

\* The paths that are left out are as many as the entries that leave them out.
LEMMA AccountedNames ==
  ASSUME NEW o, NEW P, NEW n, Accounted(o, P, n)
  PROVE  LET names == {o[k][2] : k \in DOMAIN o} IN
         Cardinality(names) = Len(o) /\ names \cap P = {}
<1> DEFINE names == {o[k][2] : k \in DOMAIN o}
           s == [k \in DOMAIN o |-> o[k][2]]
<1>1. DOMAIN o = 1 .. Len(o) /\ Len(o) \in Nat
  BY SeqPlaces DEF Accounted
<1>2. s \in [1 .. Len(o) -> names]
  BY <1>1
<1>3. DOMAIN s = 1 .. Len(o) /\ Range(s) = names
  BY <1>1 DEF Range
<1>4. Distinct(s)
  BY DEF Distinct, Accounted
<1>5. names \cap P = {}
  BY DEF Accounted
<1> HIDE DEF s, names
<1>6. s \in Seq(names)
  BY <1>1, <1>2, FunctionsAreSeqs
<1>7. Len(s) = Len(o)
  BY <1>1, <1>3, <1>6, LenIs
<1>8. Cardinality(names) = Len(o)
  BY <1>3, <1>4, <1>6, <1>7, DistinctCounts
<1> QED
  BY <1>5, <1>8 DEF names

\* Entries put in between are added.
LEMMA Inserted ==
  ASSUME NEW S, NEW o \in Seq(S), NEW c \in Seq(S), NEW z \in Seq(S)
  PROVE  LET w == (o \o c) \o z IN
         /\ w \in Seq(S) /\ Len(w) = Len(o \o z) + Len(c)
         /\ \A x : x \in Range(w) <=> x \in Range(o \o z) \/ x \in Range(c)
<1>1. \A s, t \in Seq(S) : /\ s \o t \in Seq(S) /\ Len(s \o t) = Len(s) + Len(t)
                           /\ \A x : x \in Range(s \o t) <=> x \in Range(s) \/ x \in Range(t)
  <2> SUFFICES ASSUME NEW s \in Seq(S), NEW t \in Seq(S)
               PROVE  /\ s \o t \in Seq(S) /\ Len(s \o t) = Len(s) + Len(t)
                      /\ \A x : x \in Range(s \o t) <=> x \in Range(s) \/ x \in Range(t)
    OBVIOUS
  <2> DEFINE w == s \o t
  <2>1. /\ DOMAIN s = 1 .. Len(s) /\ Len(s) \in Nat /\ DOMAIN t = 1 .. Len(t) /\ Len(t) \in Nat
    BY SeqPlaces
  <2>2. w \in Seq(S) /\ Len(w) = Len(s) + Len(t)
    OBVIOUS
  <2>3. DOMAIN w = 1 .. Len(s) + Len(t)
    BY <2>2
  <2>4. /\ \A k \in 1 .. Len(s) : w[k] = s[k]
        /\ \A k \in 1 .. Len(t) : w[Len(s) + k] = t[k]
    OBVIOUS
  <2>5. ASSUME NEW k \in DOMAIN w
        PROVE  (k \in DOMAIN s /\ w[k] = s[k]) \/ \E j \in DOMAIN t : w[k] = t[j]
    <3>1. k \in 1 .. Len(s) \/ (k - Len(s) \in 1 .. Len(t) /\ k = Len(s) + (k - Len(s)))
      BY <2>1, <2>3
    <3> QED
      BY <2>1, <2>4, <3>1
  <2>6. \A k \in DOMAIN s : k \in DOMAIN w
    BY <2>1, <2>3
  <2>7. \A k \in DOMAIN t : Len(s) + k \in DOMAIN w
    BY <2>1, <2>3
  <2> HIDE DEF w
  <2>8. \A x : x \in Range(w) <=> x \in Range(s) \/ x \in Range(t)
    <3>1. \A x : x \in Range(w) => x \in Range(s) \/ x \in Range(t)
      BY <2>5 DEF Range
    <3>2. \A x : x \in Range(s) => x \in Range(w)
      BY <2>1, <2>4, <2>6 DEF Range
    <3>3. \A x : x \in Range(t) => x \in Range(w)
      BY <2>1, <2>4, <2>7 DEF Range
    <3> QED
      BY <3>1, <3>2, <3>3
  <2> QED
    BY <2>2, <2>8 DEF w
<1>2. o \o c \in Seq(S) /\ o \o z \in Seq(S)
  BY <1>1
<1>3. /\ Len(o \o c) = Len(o) + Len(c) /\ Len(o \o z) = Len(o) + Len(z)
      /\ Len((o \o c) \o z) = Len(o \o c) + Len(z)
  BY <1>1, <1>2
<1>4. Len(o) \in Nat /\ Len(c) \in Nat /\ Len(z) \in Nat
  OBVIOUS
<1>5. Len((o \o c) \o z) = Len(o \o z) + Len(c)
  BY <1>3, <1>4
<1>6. \A x : /\ x \in Range((o \o c) \o z) <=> x \in Range(o \o c) \/ x \in Range(z)
             /\ x \in Range(o \o c) <=> x \in Range(o) \/ x \in Range(c)
             /\ x \in Range(o \o z) <=> x \in Range(o) \/ x \in Range(z)
  BY <1>1, <1>2
<1>7. (o \o c) \o z \in Seq(S)
  BY <1>1, <1>2
<1>8. \A x : x \in Range((o \o c) \o z) <=> x \in Range(o \o z) \/ x \in Range(c)
  BY <1>6
<1> QED
  BY <1>5, <1>7, <1>8

\* What is dropped for the budget, and what is in the answer.
Dropped == Only(Rest, LAMBDA p : Shown = 0 \/ p # Rest[1])
Kept    == {Answered[k].path : k \in DOMAIN Answered}

\* All but the file the head is of.
LEMMA DroppedFacts ==
  ASSUME Choosing
  PROVE  /\ Dropped \in Seq(Range(ranked)) /\ Distinct(Dropped)
         /\ \A p : p \in Range(Dropped) <=> p \in Range(Rest) /\ (Shown = 0 \/ p # Rest[1])
<1> DEFINE K == {i \in DOMAIN Rest : Shown = 0 \/ Rest[i] # Rest[1]}
<1>1. Rest \in Seq(Range(ranked)) /\ Distinct(Rest)
  BY ChosenFacts DEF Splits
<1>2. Dropped = At(Rest, K) /\ K \in SUBSET DOMAIN Rest
  BY DEF Dropped, Only
<1>3. \A i \in DOMAIN Rest : i \in K <=> Shown = 0 \/ Rest[i] # Rest[1]
  OBVIOUS
<1> HIDE DEF K
<1>4. At(Rest, K) \in Seq(Range(ranked))
      /\ \A x : x \in Range(At(Rest, K)) <=> \E i \in K : x = Rest[i]
  BY <1>1, <1>2, FilterFacts
<1>5. Distinct(At(Rest, K))
  <2>1. \A i, j \in K : Rest[i] = Rest[j] => i = j
    BY <1>1, <1>2 DEF Distinct
  <2> QED
    BY <1>1, <1>2, <2>1, AtDistinct
<1>6. \A p : p \in Range(Dropped) <=> p \in Range(Rest) /\ (Shown = 0 \/ p # Rest[1])
  <2>1. \A p : p \in Range(Dropped) <=> \E i \in K : p = Rest[i]
    BY <1>2, <1>4
  <2> QED
    BY <1>2, <1>3, <2>1 DEF Range
<1> QED
  BY <1>2, <1>4, <1>5, <1>6

\* The answer has the rest of the candidates, each of them once.
LEMMA KeptFacts ==
  ASSUME Choosing
  PROVE  /\ Kept = Range(ranked) \ Range(Dropped)
         /\ Cardinality(Kept) = Len(Answered)
<1> DEFINE n == Len(Fit)
           s == [k \in DOMAIN Answered |-> Answered[k].path]
<1>1. /\ Fit \in Seq(Range(ranked)) /\ Rest \in Seq(Range(ranked)) /\ Distinct(Fit)
      /\ Range(Fit) \cup Range(Rest) = Range(ranked) /\ Range(Fit) \cap Range(Rest) = {}
  BY ChosenFacts DEF Splits
<1>2. n \in Nat /\ DOMAIN Fit = 1 .. n /\ Answered \in Seq(Range(Answered))
      /\ \A k \in 1 .. n : Answered[k] = Whole(Fit[k])
  BY AnsweredFacts
<1>3. \A k \in 1 .. n : Answered[k].path = Fit[k]
  <2>1. \A p : Whole(p).path = p
    BY DEF Whole, Entry
  <2> HIDE DEF n
  <2> QED
    BY <1>2, <2>1
<1>4. DOMAIN Answered = 1 .. Len(Answered) /\ Len(Answered) \in Nat
  BY <1>2, SeqPlaces
<1>5. Shown = 0 => DOMAIN Answered = 1 .. n
  <2>1. Shown = 0 => Len(Answered) = n
    BY AnsweredFacts
  <2> QED
    BY <1>4, <2>1
<1>6. Shown # 0 => DOMAIN Answered = 1 .. n + 1 /\ Answered[n + 1].path = Rest[1]
  <2>1. Shown # 0 => Len(Answered) = n + 1 /\ Answered[n + 1] = Entry(Rest[1], Shown)
    BY AnsweredFacts
  <2>2. Entry(Rest[1], Shown).path = Rest[1]
    BY DEF Entry
  <2> HIDE DEF n
  <2> QED
    BY <1>4, <2>1, <2>2
<1>7. \A p : p \in Range(Dropped) <=> p \in Range(Rest) /\ (Shown = 0 \/ p # Rest[1])
  BY DroppedFacts
<1>8. DOMAIN s = 1 .. Len(Answered) /\ Range(s) = Kept /\ s \in [1 .. Len(Answered) -> Kept]
  BY <1>4 DEF Range, Kept
<1>9. \A p : p \in Kept <=> p \in Range(Fit) \/ (Shown # 0 /\ p = Rest[1])
  <2>1. CASE Shown = 0
    <3>1. DOMAIN Answered = 1 .. n
      BY <1>5, <2>1
    <3> QED
      BY <1>2, <1>3, <2>1, <3>1 DEF Kept, Range
  <2>2. CASE Shown # 0
    <3>1. DOMAIN Answered = 1 .. n + 1 /\ Answered[n + 1].path = Rest[1]
      BY <1>6, <2>2
    <3>2. \A k \in 1 .. n + 1 : k = n + 1 \/ k \in 1 .. n
      BY <1>2
    <3>3. n + 1 \in 1 .. n + 1 /\ \A k \in 1 .. n : k \in 1 .. n + 1
      BY <1>2
    <3> HIDE DEF n
    <3> QED
      BY <1>2, <1>3, <2>2, <3>1, <3>2, <3>3 DEF Kept, Range
  <2> QED
    BY <2>1, <2>2
<1>10. Shown # 0 => Rest[1] \in Range(Rest)
  BY ShownFacts DEF Range
<1>11. Kept = Range(ranked) \ Range(Dropped)
  BY <1>1, <1>7, <1>9, <1>10
<1>12. Distinct(s)
  <2>1. \A j, k \in 1 .. n : s[j] = s[k] => j = k
    <3>1. \A k \in 1 .. n : k \in DOMAIN Answered
      <4> HIDE DEF n
      <4> QED
        BY <1>2, <1>5, <1>6
    <3>2. \A k \in 1 .. n : s[k] = Fit[k]
      BY <1>3, <3>1
    <3> HIDE DEF s
    <3> QED
      BY <1>1, <1>2, <3>2 DEF Distinct
  <2>2. CASE Shown = 0
    <3>1. DOMAIN s = 1 .. n
      BY <1>5, <2>2
    <3> QED
      BY <2>1, <3>1 DEF Distinct
  <2>3. CASE Shown # 0
    <3>1. DOMAIN s = 1 .. n + 1 /\ Answered[n + 1].path = Rest[1]
      BY <1>6, <2>3
    <3>2. \A k \in 1 .. n + 1 : k = n + 1 \/ k \in 1 .. n
      BY <1>2
    <3>3. s[n + 1] = Rest[1]
      BY <1>2, <1>8, <3>1
    <3>4. \A k \in 1 .. n : s[k] # Rest[1]
      <4>1. \A k \in 1 .. n : s[k] = Fit[k] /\ Fit[k] \in Range(Fit)
        BY <1>2, <1>3, <1>8, <3>1 DEF Range
      <4> QED
        BY <1>1, <1>10, <2>3, <4>1
    <3> HIDE DEF s, n
    <3> QED
      BY <2>1, <3>1, <3>2, <3>3, <3>4 DEF Distinct
  <2> QED
    BY <2>2, <2>3
<1> HIDE DEF s
<1>13. s \in Seq(Kept)
  BY <1>4, <1>8, FunctionsAreSeqs
<1>14. Len(s) = Len(Answered)
  BY <1>4, <1>8, <1>13, LenIs
<1>15. Cardinality(Kept) = Len(Answered)
  BY <1>8, <1>12, <1>13, <1>14, DistinctCounts
<1> QED
  BY <1>11, <1>15

\* The head of a file, when some of it is missing.
Clipped == IF IsCut THEN <<<<"truncated", Rest[1]>>>> ELSE <<>>

\* What is in a class of the omissions.
InClass(o, class) == {o[k][2] : k \in {k \in DOMAIN o : o[k][1] = class}}

\* The head is of a candidate that did not fit.
LEMMA CutFacts ==
  ASSUME Choosing
  PROVE  IsCut <=> Shown # 0 /\ Shown < Len(File(Rest[1]).lines)
<1>1. Shown = 0 \/ (Shown \in Nat /\ Shown > 0)
  BY ShownFacts
<1>2. Shown > 0 <=> Shown # 0
  BY <1>1
<1> QED
  BY <1>2 DEF IsCut

\* The files that are not whole.
LEMMA CutIsShown ==
  ASSUME Choosing
  PROVE  {f.path : f \in {f \in Range(Answered) : f.lines < Len(File(f.path).lines)}}
           = IF IsCut THEN {Rest[1]} ELSE {}
<1> DEFINE n == Len(Fit)
           Short == {f \in Range(Answered) : f.lines < Len(File(f.path).lines)}
<1>1. /\ n \in Nat /\ Answered \in Seq(Range(Answered)) /\ \A k \in 1 .. n : Answered[k] = Whole(Fit[k])
      /\ Shown = 0 => Len(Answered) = n
      /\ Shown # 0 => Len(Answered) = n + 1 /\ Answered[n + 1] = Entry(Rest[1], Shown)
  BY AnsweredFacts
<1>2. DOMAIN Answered = 1 .. Len(Answered) /\ Len(Answered) \in Nat
  BY <1>1, SeqPlaces
<1>3. /\ \A p : Whole(p).path = p /\ Whole(p).lines = Len(File(p).lines)
      /\ Entry(Rest[1], Shown).path = Rest[1] /\ Entry(Rest[1], Shown).lines = Shown
  BY DEF Whole, Entry
<1>4. \A k \in 1 .. n : Len(File(Fit[k]).lines) \in Nat
  <2>1. repo \in Repos /\ Fit \in Seq(Range(Paths)) /\ DOMAIN Fit = 1 .. n
    BY ChosenFacts, AnsweredFacts DEF Choosing
  <2>2. \A k \in 1 .. n : Fit[k] \in Range(Paths)
    BY <2>1, SeqPlaces
  <2>3. \A p \in Range(Paths) : File(p).lines \in Seq(Nat)
    BY <2>1, FileFacts
  <2>4. \A k \in 1 .. n : File(Fit[k]).lines \in Seq(Nat)
    BY <2>2, <2>3
  <2>5. \A l \in Seq(Nat) : Len(l) \in Nat
    OBVIOUS
  <2> QED
    BY <2>4, <2>5
<1> HIDE DEF n
<1>5. \A k \in 1 .. n : ~(Answered[k].lines < Len(File(Answered[k].path).lines))
  <2>1. \A k \in 1 .. n : /\ Answered[k].path = Fit[k]
                          /\ Answered[k].lines = Len(File(Fit[k]).lines)
    BY <1>1, <1>3
  <2>2. \A m \in Nat : ~(m < m)
    OBVIOUS
  <2> QED
    BY <1>4, <2>1, <2>2
<1>6. CASE Shown = 0
  <2>1. Short = {}
    BY <1>1, <1>2, <1>5, <1>6 DEF Range
  <2> HIDE DEF Short
  <2>2. ~IsCut
    BY <1>6, CutFacts
  <2>3. {f.path : f \in Short} = {}
    BY <2>1
  <2> QED
    BY <2>2, <2>3 DEF Short
<1>7. CASE Shown # 0
  <2> DEFINE e == Entry(Rest[1], Shown)
  <2>1. DOMAIN Answered = 1 .. n + 1 /\ Answered[n + 1] = e
    BY <1>1, <1>2, <1>7
  <2>2. \A k \in 1 .. n + 1 : k = n + 1 \/ k \in 1 .. n
    BY <1>1
  <2>3. n + 1 \in 1 .. n + 1
    BY <1>1
  <2>4. e.path = Rest[1] /\ e.lines = Shown
    BY <1>3
  <2> HIDE DEF e
  <2>5. IsCut <=> e.lines < Len(File(e.path).lines)
    BY <1>7, <2>4, CutFacts
  <2>6. \A f : f \in Short <=> f = e /\ IsCut
    BY <1>5, <2>1, <2>2, <2>3, <2>5 DEF Range
  <2> HIDE DEF Short
  <2>7. {f.path : f \in Short} = IF IsCut THEN {e.path} ELSE {}
    BY <2>6
  <2> QED
    BY <2>4, <2>7 DEF Short
<1> QED
  BY <1>6, <1>7

\* With o the omissions of the answer, every path is accounted for.
Balanced(o) ==
  LET left == UNION {InClass(o, class) : class \in LeftOut}
      cut  == InClass(o, "truncated")
  IN  /\ left \cap Kept = {}
      /\ Cardinality(left) + Cardinality(Kept) = considered
      /\ Len(o) + Len(Answered) = considered + Cardinality(cut)
      /\ cut = {f.path : f \in {f \in Range(Answered) : f.lines < Len(File(f.path).lines)}}
      /\ \A p \in Kept : ~Ignored(p) /\ File(p).kind = "text"

\* They are, with what is dropped for the budget and the head of the file that is cut.
LEMMA AnswerAccounts ==
  ASSUME Choosing, NEW o, o = (omitted \o Clipped) \o Noted("droppedForBudget", Dropped)
  PROVE  Balanced(o)
<1> DEFINE z == Noted("droppedForBudget", Dropped)
           w == omitted \o z
           P == Range(ranked)
           left == UNION {InClass(o, class) : class \in LeftOut}
           cut == InClass(o, "truncated")
           S == Range(omitted) \cup Range(z) \cup Range(Clipped)
           names == {w[k][2] : k \in DOMAIN w}
<1>1. Accounted(omitted, P, considered) /\ \A p \in P : ~Ignored(p) /\ File(p).kind = "text"
  BY DEF Choosing, Pends
<1>2. Dropped \in Seq(P) /\ Distinct(Dropped)
  BY DroppedFacts
<1>3. z \in Seq(Range(z)) /\ DOMAIN z = DOMAIN Dropped
      /\ \A k \in DOMAIN Dropped : z[k][1] \in LeftOut /\ z[k][2] = Dropped[k]
  <2>1. "droppedForBudget" \in LeftOut
    BY DEF LeftOut, Classes
  <2> QED
    BY <1>2, <2>1, NotedPairs
<1>4. Kept = P \ Range(Dropped) /\ Cardinality(Kept) = Len(Answered)
  BY KeptFacts
<1> HIDE DEF z, P
<1>5. Accounted(w, Kept, considered)
  <2>1. Accounted(omitted \o z, P \ Range(Dropped), considered)
    BY <1>1, <1>2, <1>3, Omits
  <2> QED
    BY <1>4, <2>1
<1>6. Cardinality(names) = Len(w) /\ names \cap Kept = {}
  <2> HIDE DEF w
  <2> QED
    BY <1>5, AccountedNames
<1>7. Clipped \in Seq(S) /\ Len(Clipped) = (IF IsCut THEN 1 ELSE 0)
      /\ \A x : x \in Range(Clipped) <=> IsCut /\ x = <<"truncated", Rest[1]>>
  <2> DEFINE c == <<"truncated", Rest[1]>>
  <2>1. CASE IsCut
    <3>1. Clipped = <<c>>
      BY <2>1 DEF Clipped
    <3> HIDE DEF c, w
    <3>2. Range(Clipped) = {c}
      BY <3>1 DEF Range
    <3>3. c \in S
      BY <3>2
    <3> HIDE DEF S
    <3>4. Clipped \in Seq(S) /\ Len(Clipped) = 1
      BY <3>1, <3>3
    <3> QED
      BY <2>1, <3>2, <3>4 DEF c
  <2>2. CASE ~IsCut
    <3>1. Clipped = <<>>
      BY <2>2 DEF Clipped
    <3>2. Range(Clipped) = {}
      BY <3>1 DEF Range
    <3> HIDE DEF S
    <3>3. Clipped \in Seq(S) /\ Len(Clipped) = 0
      BY <3>1
    <3> QED
      BY <2>2, <3>2, <3>3
  <2> QED
    BY <2>1, <2>2
<1>8. omitted \in Seq(S) /\ z \in Seq(S)
  <2>1. omitted \in Seq(Range(omitted))
    BY <1>1 DEF Accounted
  <2>2. \A k \in DOMAIN omitted : omitted[k] \in S
    BY DEF Range
  <2>3. \A k \in DOMAIN z : z[k] \in S
    BY DEF Range
  <2> HIDE DEF S
  <2> QED
    BY <1>3, <2>1, <2>2, <2>3, Retyped
<1> HIDE DEF S
<1>9. /\ o \in Seq(S) /\ Len(o) = Len(w) + Len(Clipped)
      /\ \A x : x \in Range(o) <=> x \in Range(w) \/ x \in Range(Clipped)
  <2>1. LET v == (omitted \o Clipped) \o z IN
        /\ v \in Seq(S) /\ Len(v) = Len(omitted \o z) + Len(Clipped)
        /\ \A x : x \in Range(v) <=> x \in Range(omitted \o z) \/ x \in Range(Clipped)
    BY <1>7, <1>8, Inserted
  <2> QED
    BY <2>1 DEF z
<1> HIDE DEF w
<1>10. \A x \in Range(w) : x[1] \in LeftOut
  BY <1>5 DEF Accounted, Range
<1>11. "truncated" \notin LeftOut
  BY DEF LeftOut
<1>12. \A x \in Range(Clipped) : x[1] = "truncated" /\ x[2] = Rest[1]
  BY <1>7
<1>13. /\ \A q : q \in left <=> \E x \in Range(o) : x[1] \in LeftOut /\ x[2] = q
       /\ \A q : q \in cut <=> \E x \in Range(o) : x[1] = "truncated" /\ x[2] = q
       /\ \A q : q \in names <=> \E x \in Range(w) : x[2] = q
  BY DEF InClass, Range
<1> HIDE DEF left, cut, names
<1>14. left = names
  BY <1>9, <1>10, <1>11, <1>12, <1>13
<1>15. cut = IF IsCut THEN {Rest[1]} ELSE {}
  <2>1. \A q : q \in cut <=> \E x \in Range(Clipped) : x[2] = q
    BY <1>9, <1>10, <1>11, <1>12, <1>13
  <2>2. <<"truncated", Rest[1]>>[2] = Rest[1]
    OBVIOUS
  <2>3. \A q : q \in cut <=> IsCut /\ q = Rest[1]
    BY <1>7, <2>1, <2>2
  <2> QED
    BY <2>3
<1>16. Cardinality(cut) = Len(Clipped)
  <2>1. Cardinality({Rest[1]}) = 1 /\ Cardinality({}) = 0
    BY FS_Singleton, FS_EmptySet
  <2> QED
    BY <1>7, <1>15, <2>1
<1>17. Len(w) + Cardinality(Kept) = considered /\ Len(w) \in Nat /\ Len(Answered) \in Nat
  <2>1. Answered \in Seq(Range(Answered)) /\ w \in Seq(Range(w))
    BY <1>5, AnsweredFacts DEF Accounted
  <2> QED
    BY <1>5, <2>1 DEF Accounted
<1>18. Len(o) + Len(Answered) = considered + Cardinality(cut)
  <2>1. Len(o) = Len(w) + Cardinality(cut) /\ considered = Len(w) + Len(Answered)
    BY <1>4, <1>9, <1>16, <1>17
  <2>2. Cardinality(cut) \in Nat
    BY <1>7, <1>16
  <2>3. \A a, b, c \in Nat : (a + b) + c = (a + c) + b
    OBVIOUS
  <2>4. (Len(w) + Cardinality(cut)) + Len(Answered) = (Len(w) + Len(Answered)) + Cardinality(cut)
    BY <1>17, <2>2, <2>3
  <2> QED
    BY <2>1, <2>4
<1>19. cut = {f.path : f \in {f \in Range(Answered) : f.lines < Len(File(f.path).lines)}}
  BY <1>15, CutIsShown
<1>20. \A p \in Kept : ~Ignored(p) /\ File(p).kind = "text"
  BY <1>1, <1>4
<1>21. left \cap Kept = {} /\ Cardinality(left) + Cardinality(Kept) = considered
  BY <1>6, <1>14, <1>17
<1> QED
  BY <1>18, <1>19, <1>20, <1>21 DEF left, cut, Balanced

-----------------------------------------------------------------------------
(* Each step of the map keeps its invariant *)

\* The same tree has the same files, the same rules and the same costs.
LEMMA SameTree ==
  ASSUME repo' = repo
  PROVE  /\ Paths' = Paths /\ Rules' = Rules
         /\ \A p : File(p)' = File(p)
         /\ \A p : Ignored(p)' <=> Ignored(p)
<1>1. Paths' = Paths /\ Rules' = Rules
  BY DEF Paths, Rules
<1>2. \A p : File(p)' = File(p)
  BY DEF File
<1>3. \A p : Ignored(p)' <=> Ignored(p)
  BY <1>1 DEF Ignored
<1> QED
  BY <1>1, <1>2, <1>3

\* So the same pends.
LEMMA ListedPends ==
  ASSUME repo' = repo, Pends(omitted', listed', considered')
  PROVE  Pends(omitted, listed, considered)'
<1>1. Paths' = Paths /\ \A p : Ignored(p)' <=> Ignored(p)
  BY SameTree
<1> QED
  BY <1>1 DEF Pends

\* And the same candidates.
LEMMA RankedPends ==
  ASSUME repo' = repo, Pends(omitted', ranked', considered')
  PROVE  Pends(omitted, ranked, considered)'
<1>1. Paths' = Paths /\ \A p : Ignored(p)' <=> Ignored(p)
  BY SameTree
<1> QED
  BY <1>1 DEF Pends

\* And the same is asked for the same paths.
LEMMA SameRequest ==
  ASSUME repo' = repo
  PROVE  Request(ranked)' = Request(ranked')
<1>1. \A p : File(p)' = File(p)
  BY SameTree
<1>2. \A p : Size(p)' = Size(p)
  BY <1>1 DEF Size, Tokens, Chars
<1>3. Budget(repo)' = Budget(repo)
  OBVIOUS
<1>4. \A p, q : Likeness(p, q)' = Likeness(p, q)
  BY DEF Likeness
<1> QED
  BY <1>1, <1>2, <1>3, <1>4 DEF Request

\* A pick stays within the budget.
LEMMA PicksFits ==
  ASSUME LazyInv, Picks
  PROVE  input' = input /\ Spent(input', chosen') <= input'.budget
<1>1. PICK n : InputOf(input, n)
  BY InputFacts DEF LazyInv
<1>2. n \in Nat /\ Candidates(input) = 1 .. n /\ input.budget \in Int
      /\ \A i \in 1 .. n : input.cost[i] \in Nat
  BY <1>1 DEF InputOf
<1> DEFINE b == Best
<1>3. b \in alive /\ chosen' = Append(chosen, b) /\ input' = input
  BY BestIsAlive DEF Picks
<1>4. alive = StillOpen(input, chosen) /\ chosen \in Seq(1 .. n)
  BY <1>2 DEF LazyInv
<1> HIDE DEF b
<1>5. b \in Fitting(input, Candidates(input) \ Range(chosen), chosen)
  BY <1>3, <1>4 DEF StillOpen
<1>6. b \in 1 .. n /\ input.cost[b] <= input.budget - Spent(input, chosen)
  BY <1>2, <1>5 DEF Fitting
<1>7. Spent(input, chosen) \in Int
      /\ Spent(input, Append(chosen, b)) = Spent(input, chosen) + input.cost[b]
  BY <1>1, <1>4, <1>6, SpentGrows
<1>8. Spent(input, Append(chosen, b)) <= input.budget
  BY <1>2, <1>6, <1>7
<1> QED
  BY <1>3, <1>8

\* Nothing is spent at the start.
LEMMA StartFits ==
  ASSUME NEW in, Selects(in)
  PROVE  input' = in /\ Spent(input', chosen') = 0
<1>1. input' = in /\ chosen' = <<>>
  BY DEF Selects
<1> DEFINE s == [k \in DOMAIN <<>> |-> in.cost[<<>>[k]]]
<1>2. Spent(in, <<>>) = Total(s)
  BY DEF Spent
<1>3. s \in Seq(Int) /\ Len(s) = 0
  OBVIOUS
<1> HIDE DEF s
<1>4. \A k \in 1 .. Len(s) : s[k] = 0
  BY <1>3
<1>5. Total(s) = 0
  BY <1>3, <1>4, TotalZero
<1> QED
  BY <1>1, <1>2, <1>5

\* At each phase of the map: the tree is one of Repos, what is not yet in the omissions
\* pends, a selection is of the candidates, and the answer is whole.
MapInv ==
  /\ phase # "start" => repo \in Repos
  /\ phase = "read" => Pends(omitted, listed, considered)
  /\ phase = "select" => Choosing
  /\ phase = "done" => MapFitsBudget /\ EveryPathIsAccounted

\* A tree is taken up.
LEMMA StartsInv ==
  ASSUME NEW r \in Repos, Starts(r)
  PROVE  MapInv'
<1>1. repo' = r /\ phase' = "discover"
  BY DEF Starts
<1> QED
  BY <1>1 DEF MapInv

\* The paths are listed.
LEMMA ListsInv ==
  ASSUME NoConflict, MapInv, ListsByGit \/ ListsByWalk
  PROVE  MapInv'
<1>1. repo \in Repos
  BY DEF MapInv, ListsByGit, ListsByWalk
<1>2. \E all : Considers(all) /\ Discovers(all)
  <2>1. CASE ListsByGit
    <3>1. \A k \in DOMAIN repo.tree : repo.tree[k].stages = 1
      BY <1>1, <2>1 DEF ListsByGit, NoConflict
    <3>2. Considers(Along([e \in Staged |-> Paths[e[1]]], Staged, ByPlace))
      BY <1>1, <3>1, GitConsiders
    <3>3. Discovers(Along([e \in Staged |-> Paths[e[1]]], Staged, ByPlace))
      BY <2>1 DEF ListsByGit
    <3> QED
      BY <3>2, <3>3
  <2>2. CASE ListsByWalk
    <3> DEFINE all == At(Entries, {k \in DOMAIN Entries : \A j \in 1 .. k - 1 : Entries[j] # Entries[k]})
    <3>1. Considers(all)
      BY <1>1, WalkConsiders
    <3>2. Discovers(all)
      BY <2>2 DEF ListsByWalk
    <3> QED
      BY <3>1, <3>2
  <2> QED
    BY <2>1, <2>2
<1>3. PICK all : Considers(all) /\ Discovers(all)
  BY <1>2
<1>4. Pends(omitted', listed', considered')
  BY <1>1, <1>3, DiscoveryPends DEF Discovers, Only
<1>5. phase' = "read" /\ repo' = repo
  BY <1>3 DEF Discovers
<1>6. Pends(omitted, listed, considered)'
  BY <1>4, <1>5, ListedPends
<1> QED
  BY <1>1, <1>5, <1>6 DEF MapInv

\* The files are read, and the selection starts.
LEMMA ReadsInv ==
  ASSUME MapInv, Reads
  PROVE  MapInv' /\ LazyInv'
<1>1. repo \in Repos /\ Pends(omitted, listed, considered)
  BY DEF MapInv, Reads
<1>2. repo' = repo /\ considered' = considered /\ phase' = "select"
  BY DEF Reads
<1>3. /\ Pends(omitted', ranked', considered)
      /\ \A p \in Range(ranked') : File(p).kind = "text"
  <2>1. \E texts, other, z, cut :
          /\ ReadAs(listed, texts, other, z, cut)
          /\ ranked' = cut[1] /\ omitted' = omitted \o z \o Noted("droppedForScale", cut[2])
    BY DEF Reads, ReadAs, Only, Ranked
  <2>2. PICK texts, other, z, cut :
          /\ ReadAs(listed, texts, other, z, cut)
          /\ ranked' = cut[1] /\ omitted' = omitted \o z \o Noted("droppedForScale", cut[2])
    BY <2>1
  <2>3. /\ Pends(omitted \o z \o Noted("droppedForScale", cut[2]), cut[1], considered)
        /\ \A p \in Range(cut[1]) : File(p).kind = "text"
    BY <1>1, <2>2, ReadingPends
  <2> QED
    BY <2>2, <2>3
<1>4. Selects(Request(ranked'))
  BY DEF Reads
<1>5. ranked' \in Seq(Range(Paths))
  BY <1>3 DEF Pends
<1>6. Request(ranked') \in SelectInputs /\ Request(ranked').budget = Budget(repo)
  BY <1>1, <1>5, RequestFits
<1>7. LazyInv'
  BY <1>4, <1>6, StartKeeps
<1>8. input' = Request(ranked') /\ Spent(input', chosen') = 0
  BY <1>4, StartFits
<1>9. Spent(input', chosen') <= input'.budget
  <2>1. Budget(repo) \in Nat
    BY <1>1, BudgetIsSomething
  <2> QED
    BY <1>6, <1>8, <2>1
<1>10. Pends(omitted, ranked, considered)'
  BY <1>2, <1>3, RankedPends
<1>11. input' = Request(ranked)'
  BY <1>2, <1>8, SameRequest
<1>12. (\A p \in Range(ranked) : File(p).kind = "text")'
  <2>1. \A p : File(p)' = File(p)
    BY <1>2, SameTree
  <2> QED
    BY <1>3, <2>1
<1>13. Choosing'
  BY <1>1, <1>2, <1>7, <1>9, <1>10, <1>11, <1>12 DEF Choosing
<1> QED
  BY <1>1, <1>2, <1>7, <1>13 DEF MapInv

\* A gain is computed, or a candidate picked.
LEMMA SelectingInv ==
  ASSUME MapInv, Selecting
  PROVE  MapInv' /\ LazyInv'
<1>1. Choosing /\ phase = "select" /\ UNCHANGED mapVars
  BY DEF MapInv, Selecting
<1>2. LazyInv /\ Spent(input, chosen) <= input.budget
  BY <1>1 DEF Choosing
<1>3. LazyInv' /\ input' = input /\ Spent(input', chosen') <= input'.budget
  <2>1. CASE Evaluates
    BY <1>2, <2>1, EvaluatesKeeps DEF Evaluates
  <2>2. CASE Picks
    BY <1>2, <2>2, PicksKeeps, PicksFits
  <2> QED
    BY <2>1, <2>2 DEF Selecting
<1>4. /\ repo' = repo /\ phase' = phase /\ ranked' = ranked /\ omitted' = omitted
      /\ considered' = considered
  BY <1>1 DEF mapVars
<1>5. Pends(omitted, ranked, considered)'
  BY <1>1, <1>4, RankedPends DEF Choosing
<1>6. input' = Request(ranked)'
  <2>1. input = Request(ranked)
    BY <1>1 DEF Choosing
  <2> QED
    BY <1>3, <1>4, <2>1, SameRequest
<1>7. (\A p \in Range(ranked) : File(p).kind = "text")'
  <2>1. \A p : File(p)' = File(p)
    BY <1>4, SameTree
  <2> QED
    BY <1>1, <1>4, <2>1 DEF Choosing
<1>8. Choosing'
  BY <1>1, <1>3, <1>4, <1>5, <1>6, <1>7 DEF Choosing
<1> QED
  BY <1>1, <1>3, <1>4, <1>8 DEF MapInv, Choosing

\* The answer is put together.
LEMMA AnswersInv ==
  ASSUME MapInv, Answers
  PROVE  MapInv'
<1>1. Choosing /\ repo' = repo /\ phase' = "done" /\ considered' = considered
  BY DEF MapInv, Answers
<1>2. files' = Answered
  BY DEF Answers, Answered
<1>3. omitted' = (omitted \o Clipped) \o Noted("droppedForBudget", Dropped)
  BY DEF Answers, Clipped, Dropped, Only
<1>4. /\ \A p : File(p)' = File(p)
      /\ \A p : Ignored(p)' <=> Ignored(p)
  BY <1>1, SameTree
<1>5. MapFitsBudget'
  <2>1. Total([k \in DOMAIN Answered |-> Tokens(File(Answered[k].path).lines, Answered[k].lines)])
          <= Budget(repo)
    BY <1>1, AnswerFits
  <2> QED
    BY <1>1, <1>2, <1>4, <2>1 DEF MapFitsBudget
<1>6. \A class : Omitted(class)' = InClass(omitted', class)
  BY DEF Omitted, InClass
<1>7. EveryPathIsAccounted'
  <2>1. Balanced(omitted')
    BY <1>1, <1>3, AnswerAccounts
  <2> QED
    BY <1>1, <1>2, <1>4, <1>6, <2>1 DEF EveryPathIsAccounted, Balanced, Kept, LeftOut
<1> QED
  BY <1>1, <1>5, <1>7 DEF MapInv, Choosing

-----------------------------------------------------------------------------
(* Sums and places again *)

\* A sum is at most four times another when each of its numbers is.
LEMMA TotalFourfold ==
  ASSUME NEW s \in Seq(Int), NEW t \in Seq(Int), Len(s) = Len(t),
         \A k \in 1 .. Len(s) : s[k] <= 4 * t[k]
  PROVE  Total(s) <= 4 * Total(t)
<1> DEFINE n == Len(s)
<1>1. n \in Nat /\ \A k \in 1 .. n : s[k] \in Int /\ t[k] \in Int /\ s[k] <= 4 * t[k]
  OBVIOUS
<1>2. PICK g : Sums(g, s) /\ Total(s) = g[n]
  BY TotalSums
<1>3. PICK h : Sums(h, t) /\ Total(t) = h[n]
  BY TotalSums
<1>4. /\ g \in [0 .. n -> Int] /\ g[0] = 0 /\ \A k \in 1 .. n : g[k] = g[k - 1] + s[k]
      /\ h \in [0 .. n -> Int] /\ h[0] = 0 /\ \A k \in 1 .. n : h[k] = h[k - 1] + t[k]
  BY <1>2, <1>3 DEF Sums
<1> HIDE DEF n
<1> DEFINE U == {m \in Nat : m \in 0 .. n => g[m] <= 4 * h[m]}
<1>5. 0 \in U
  BY <1>4
<1>6. ASSUME NEW m \in Nat, m \in U PROVE m + 1 \in U
  <2> SUFFICES ASSUME m + 1 \in 0 .. n PROVE g[m + 1] <= 4 * h[m + 1]
    OBVIOUS
  <2>1. m \in 0 .. n /\ m + 1 \in 1 .. n /\ (m + 1) - 1 = m
    BY <1>1
  <2>2. /\ g[m + 1] = g[m] + s[m + 1] /\ h[m + 1] = h[m] + t[m + 1]
        /\ g[m] \in Int /\ h[m] \in Int /\ s[m + 1] \in Int /\ t[m + 1] \in Int
        /\ s[m + 1] <= 4 * t[m + 1]
    BY <1>1, <1>4, <2>1
  <2>3. g[m] <= 4 * h[m]
    BY <1>6, <2>1
  <2>4. \A a, b, c, d \in Int : a <= 4 * b /\ c <= 4 * d => a + c <= 4 * (b + d)
    OBVIOUS
  <2> QED
    BY <2>2, <2>3, <2>4
<1> HIDE DEF U
<1>7. Nat \subseteq U
  BY <1>5, <1>6, NatSet
<1>8. n \in 0 .. n
  BY <1>1
<1>9. g[n] <= 4 * h[n]
  BY <1>1, <1>7, <1>8 DEF U
<1> QED
  BY <1>2, <1>3, <1>9

\* What is read at some places is read at each of them once.
LEMMA AtPlaced ==
  ASSUME NEW S, NEW s \in Seq(S), NEW I \in SUBSET DOMAIN s
  PROVE  \E place : /\ \A k \in DOMAIN At(s, I) : place[k] \in I /\ At(s, I)[k] = s[place[k]]
                    /\ \A j, k \in DOMAIN At(s, I) : place[j] = place[k] => j = k
<1> DEFINE R == {p \in I \X I : p[1] < p[2]}
           n == Cardinality(I)
           place == InOrder(I, R)
<1>1. IsFiniteSet(I) /\ StrictOrder(I, R)
  BY PlaceOrder
<1>2. n \in Nat /\ place \in Bijection(1 .. n, I)
  BY <1>1, InOrderSorts
<1>3. At(s, I) = [k \in 1 .. n |-> s[place[k]]]
  BY DEF At, Along
<1> HIDE DEF R, n, place
<1>4. place \in [1 .. n -> I] /\ \A a, b \in 1 .. n : place[a] = place[b] => a = b
  BY <1>2 DEF Bijection, Injection, IsInjective
<1>5. /\ \A k \in DOMAIN At(s, I) : place[k] \in I /\ At(s, I)[k] = s[place[k]]
      /\ \A j, k \in DOMAIN At(s, I) : place[j] = place[k] => j = k
  BY <1>3, <1>4
<1> QED
  BY <1>5

-----------------------------------------------------------------------------
(* The memory that is read back *)

\* An entry of a memory file.
MemoryEntry == [id : STRING, chars : Nat, superseded : BOOLEAN]

\* Entries with an id each.
OwnIds(s) == \A i, j \in DOMAIN s : s[i].id = s[j].id => i = j

\* The offered entries are entries of the file, none of them twice.
LEMMA OfferedFacts ==
  ASSUME NEW m \in Memories
  PROVE  LET u == Unique(Eligible(m)) IN
         u \in Seq(MemoryEntry) /\ OwnIds(u) /\ \A k \in DOMAIN u : u[k] \in Range(m.entries)
<1> DEFINE I == {i \in DOMAIN m.entries : m.includeSuperseded \/ ~m.entries[i].superseded}
           e == Eligible(m)
           K == {k \in DOMAIN e : \A j \in 1 .. k - 1 : e[j].id # e[k].id}
           u == Unique(e)
<1>1. m.entries \in Seq(MemoryEntry)
  BY MemoriesAssumption DEF Recallable, MemoryEntry
<1>2. e = At(m.entries, I) /\ I \in SUBSET DOMAIN m.entries
  BY DEF Eligible, Only
<1>3. u = At(e, K) /\ K \in SUBSET DOMAIN e
  BY DEF Unique
<1>4. \A k \in K : k \in DOMAIN e /\ \A j \in 1 .. k - 1 : e[j].id # e[k].id
  OBVIOUS
<1> HIDE DEF I, e, K, u
<1>5. e \in Seq(MemoryEntry) /\ \A x \in Range(e) : \E i \in I : x = m.entries[i]
  BY <1>1, <1>2, FilterFacts
<1>6. u \in Seq(MemoryEntry) /\ \A x \in Range(u) : \E i \in K : x = e[i]
  BY <1>3, <1>5, FilterFacts
<1>7. \A k \in DOMAIN u : u[k] \in Range(m.entries)
  <2>1. \A k \in DOMAIN u : u[k] \in Range(u)
    BY DEF Range
  <2>2. \A k \in DOMAIN e : e[k] \in Range(e)
    BY DEF Range
  <2>3. \A k \in DOMAIN m.entries : m.entries[k] \in Range(m.entries)
    BY DEF Range
  <2>4. \A k \in DOMAIN u : u[k] \in Range(e)
    BY <1>3, <1>6, <2>1, <2>2
  <2> QED
    BY <1>2, <1>5, <2>3, <2>4
<1>8. OwnIds(u)
  <2>1. PICK place : /\ \A k \in DOMAIN u : place[k] \in K /\ u[k] = e[place[k]]
                     /\ \A j, k \in DOMAIN u : place[j] = place[k] => j = k
    BY <1>3, <1>5, AtPlaced
  <2>2. DOMAIN e = 1 .. Len(e) /\ Len(e) \in Nat
    BY <1>5, SeqPlaces
  <2>3. \A a, b \in K : e[a].id = e[b].id => a = b
    <3> SUFFICES ASSUME NEW a \in K, NEW b \in K, e[a].id = e[b].id, a # b PROVE FALSE
      OBVIOUS
    <3>1. a \in 1 .. Len(e) /\ b \in 1 .. Len(e)
      BY <1>4, <2>2
    <3>2. a \in 1 .. b - 1 \/ b \in 1 .. a - 1
      BY <2>2, <3>1
    <3> QED
      BY <1>4, <3>2
  <2> QED
    BY <2>1, <2>3 DEF OwnIds
<1> QED
  BY <1>6, <1>7, <1>8 DEF u, e

\* What a line costs is at least a quarter of it, with the line break.
LEMMA CostCovers ==
  ASSUME NEW x \in MemoryEntry
  PROVE  Cost(x) \in Nat /\ x.chars \in Nat /\ x.chars + 1 <= 4 * Cost(x)
<1>1. x.chars \in Nat
  BY DEF MemoryEntry
<1>2. \A n \in Nat : (n + 3) \div 4 + 1 \in Nat /\ n + 1 <= 4 * ((n + 3) \div 4 + 1)
  OBVIOUS
<1> QED
  BY <1>1, <1>2 DEF Cost, TokensOf

\* The entries are an input of the selection.
LEMMA OfferFits ==
  ASSUME NEW m \in Memories, NEW s \in Seq(MemoryEntry), \A k \in DOMAIN s : s[k] \in Range(m.entries)
  PROVE  /\ Offer(m, s) \in SelectInputs /\ Candidates(Offer(m, s)) = DOMAIN s
         /\ Offer(m, s).budget = m.budget - TokensOf(m.preamble)
         /\ \A k \in DOMAIN s : Offer(m, s).cost[k] = Cost(s[k])
<1> DEFINE n == Len(s)
           cost == [k \in DOMAIN s |-> Cost(s[k])]
           rel == [k \in DOMAIN s |-> IF m.query THEN m.rel[s[k].id] ELSE 0]
           sim == [k \in DOMAIN s |-> [j \in DOMAIN s |-> m.sim[{s[k].id, s[j].id}]]]
           weights == [rel |-> 1, coverage |-> 1, diversity |-> 1]
<1>1. DOMAIN s = 1 .. n /\ n \in Nat /\ \A k \in DOMAIN s : s[k] \in MemoryEntry
  BY SeqPlaces
<1>2. cost \in [1 .. n -> Nat]
  BY <1>1, CostCovers
<1>3. /\ \A e, f \in Range(m.entries) : m.rel[e.id] \in Nat /\ m.sim[{e.id, f.id}] \in Nat
      /\ m.budget \in Nat /\ m.preamble \in Nat
  BY MemoriesAssumption DEF Recallable
<1>4. rel \in [1 .. n -> Int]
  <2>1. \A k \in 1 .. n : m.rel[s[k].id] \in Nat
    BY <1>1, <1>3
  <2> QED
    BY <1>1, <2>1
<1>5. sim \in Matrix(n)
  <2> DEFINE L(k, j) == m.sim[{s[k].id, s[j].id}]
  <2>1. \A k, j \in 1 .. n : L(k, j) \in Nat /\ L(k, j) = L(j, k)
    <3> SUFFICES ASSUME NEW k \in 1 .. n, NEW j \in 1 .. n PROVE L(k, j) \in Nat /\ L(k, j) = L(j, k)
      OBVIOUS
    <3>1. s[k] \in Range(m.entries) /\ s[j] \in Range(m.entries)
      BY <1>1
    <3>2. {s[k].id, s[j].id} = {s[j].id, s[k].id}
      OBVIOUS
    <3>3. m.sim[{s[k].id, s[j].id}] \in Nat
      BY <1>3, <3>1
    <3> QED
      BY <3>2, <3>3
  <2>2. sim = [k \in 1 .. n |-> [j \in 1 .. n |-> L(k, j)]]
    BY <1>1
  <2> HIDE DEF L, sim
  <2>3. \A k, j \in 1 .. n : L(k, j) \in Int
    BY <2>1
  <2>4. sim \in [1 .. n -> [1 .. n -> Int]]
    BY <2>2, <2>3
  <2>5. \A k, j \in 1 .. n : sim[k][j] = L(k, j)
    BY <2>2
  <2>6. \A k, j \in 1 .. n : sim[k][j] = sim[j][k]
    BY <2>1, <2>5
  <2> QED
    BY <2>4, <2>6 DEF Matrix
<1>6. weights \in Weights
  BY DEF Weights
<1> DEFINE budget == m.budget - TokensOf(m.preamble)
<1>7. budget \in Int
  <2>1. \A p \in Nat : TokensOf(p) \in Int
    BY DEF TokensOf
  <2> QED
    BY <1>3, <2>1
<1>8. Offer(m, s) = [cost |-> cost, rel |-> rel, sim |-> sim, weights |-> weights,
                     budget |-> budget, minGain |-> {0}]
  BY DEF Offer
<1>9. \A k \in DOMAIN s : cost[k] = Cost(s[k])
  OBVIOUS
<1>10. DOMAIN cost = DOMAIN s
  OBVIOUS
<1> HIDE DEF cost, rel, sim, weights, n, budget
<1>11. Offer(m, s) \in [cost : [1 .. n -> Nat], rel : [1 .. n -> Int], sim : Matrix(n),
                        weights : Weights, budget : Int, minGain : SUBSET Int]
  BY <1>2, <1>4, <1>5, <1>6, <1>7, <1>8
<1>12. Offer(m, s) \in SelectInputs
  BY <1>1, <1>11 DEF SelectInputs
<1> QED
  BY <1>8, <1>9, <1>10, <1>12 DEF Candidates, budget

\* A selection of entries of a file, within what the preamble leaves of the budget.
Recalling ==
  /\ memory \in Memories /\ offered = Unique(Eligible(memory))
  /\ input = Offer(memory, offered) /\ LazyInv /\ Spent(input, chosen) <= input.budget

\* The chosen entries in the order of the file, and the lengths of their lines.
Assembled == Only(offered, LAMBDA e : e.id \in {offered[chosen[k]].id : k \in DOMAIN chosen})
Lines     == [k \in DOMAIN Assembled |-> Assembled[k].chars + 1]

\* The chosen entries are those at the chosen places, none of them twice.
LEMMA AssembledFacts ==
  ASSUME Recalling
  PROVE  /\ offered \in Seq(MemoryEntry) /\ chosen \in Seq(DOMAIN offered) /\ Distinct(chosen)
         /\ Assembled = At(offered, Range(chosen)) /\ Assembled \in Seq(MemoryEntry)
         /\ OwnIds(Assembled)
<1> DEFINE I == Range(chosen)
           ids == {offered[chosen[k]].id : k \in DOMAIN chosen}
<1>1. /\ offered \in Seq(MemoryEntry) /\ OwnIds(offered)
      /\ \A k \in DOMAIN offered : offered[k] \in Range(memory.entries)
  BY OfferedFacts DEF Recalling
<1>2. Candidates(input) = DOMAIN offered
  BY <1>1, OfferFits DEF Recalling
<1>3. chosen \in Seq(DOMAIN offered) /\ Distinct(chosen)
  BY <1>2 DEF Recalling, LazyInv
<1>4. \A k \in DOMAIN chosen : chosen[k] \in DOMAIN offered
  BY <1>3, SeqPlaces
<1>5. \A i \in DOMAIN offered : offered[i].id \in ids <=> i \in I
  BY <1>1, <1>4 DEF OwnIds, Range
<1>6. I \in SUBSET DOMAIN offered
  BY <1>4 DEF Range
<1>7. Assembled = At(offered, I)
  <2>1. {i \in DOMAIN offered : offered[i].id \in ids} = I
    BY <1>5, <1>6
  <2> HIDE DEF I
  <2> QED
    BY <2>1 DEF Assembled, Only
<1> HIDE DEF I, ids
<1>8. Assembled \in Seq(MemoryEntry)
  BY <1>1, <1>6, <1>7, FilterFacts
<1>9. OwnIds(Assembled)
  <2>1. PICK place : /\ \A k \in DOMAIN At(offered, I) : place[k] \in I /\ At(offered, I)[k] = offered[place[k]]
                     /\ \A j, k \in DOMAIN At(offered, I) : place[j] = place[k] => j = k
    BY <1>1, <1>6, AtPlaced
  <2> QED
    BY <1>1, <1>6, <1>7, <2>1 DEF OwnIds
<1> QED
  BY <1>1, <1>3, <1>7, <1>8, <1>9 DEF I

\* The costs of what is assembled are what was spent.
LEMMA AssembledCosts ==
  ASSUME Recalling
  PROVE  /\ Spent(input, chosen) \in Int
         /\ Lines \in Seq(Int) /\ Total(Lines) \in Nat /\ Total(Lines) <= 4 * Spent(input, chosen)
<1> DEFINE cost == [i \in DOMAIN offered |-> Cost(offered[i])]
           v == [k \in DOMAIN Assembled |-> Cost(Assembled[k])]
           w == [k \in DOMAIN chosen |-> input.cost[chosen[k]]]
           n == Len(Assembled)
<1>1. /\ offered \in Seq(MemoryEntry) /\ chosen \in Seq(DOMAIN offered) /\ Distinct(chosen)
      /\ Assembled = At(offered, Range(chosen)) /\ Assembled \in Seq(MemoryEntry)
  BY AssembledFacts
<1>2. \A k \in DOMAIN offered : offered[k] \in Range(memory.entries)
  BY OfferedFacts DEF Recalling
<1>3. \A k \in DOMAIN offered : input.cost[k] = Cost(offered[k])
  BY <1>1, <1>2, OfferFits DEF Recalling
<1>4. /\ DOMAIN Assembled = 1 .. n /\ n \in Nat
      /\ \A k \in 1 .. n : Assembled[k] \in MemoryEntry
  BY <1>1, SeqPlaces
<1>5. /\ DOMAIN chosen = 1 .. Len(chosen) /\ Len(chosen) \in Nat
      /\ \A k \in DOMAIN chosen : chosen[k] \in DOMAIN offered
  BY <1>1, SeqPlaces
<1>6. cost \in [DOMAIN offered -> Int]
  <2>1. \A i \in DOMAIN offered : Cost(offered[i]) \in Int
    BY <1>1, SeqPlaces, CostCovers
  <2> QED
    BY <2>1
<1>7. /\ v \in [1 .. n -> Int] /\ DOMAIN v = DOMAIN Assembled
      /\ \A k \in 1 .. n : v[k] = Cost(Assembled[k])
  <2>1. \A k \in 1 .. n : Cost(Assembled[k]) \in Int
    BY <1>4, CostCovers
  <2> QED
    BY <1>4, <2>1
<1>8. /\ w \in [1 .. Len(chosen) -> Int] /\ DOMAIN w = DOMAIN chosen
      /\ \A k \in DOMAIN chosen : w[k] = cost[chosen[k]]
  <2>1. \A k \in DOMAIN chosen : input.cost[chosen[k]] = cost[chosen[k]] /\ cost[chosen[k]] \in Int
    BY <1>3, <1>5, <1>6
  <2> QED
    BY <1>5, <2>1
<1>9. /\ Lines \in [1 .. n -> Nat] /\ DOMAIN Lines = 1 .. n
      /\ \A k \in 1 .. n : Lines[k] = Assembled[k].chars + 1
  <2>1. \A k \in 1 .. n : Assembled[k].chars + 1 \in Nat
    BY <1>4, CostCovers
  <2> QED
    BY <1>4, <2>1 DEF Lines
<1>10. \A k \in DOMAIN Assembled, i \in DOMAIN offered : Assembled[k] = offered[i] => v[k] = cost[i]
  OBVIOUS
<1> HIDE DEF cost, v, w, n
<1>11. v \in Seq(Int) /\ w \in Seq(Int) /\ Lines \in Seq(Nat) /\ Len(v) = n /\ Len(Lines) = n
  <2>1. v \in Seq(Int) /\ w \in Seq(Int) /\ Lines \in Seq(Nat)
    BY <1>4, <1>5, <1>7, <1>8, <1>9, FunctionsAreSeqs
  <2>2. DOMAIN v = 1 .. n
    BY <1>4, <1>7
  <2> QED
    BY <1>4, <1>9, <2>1, <2>2, LenIs
<1>12. Total(v) = Total(w)
  <2>1. Weighed(offered, cost, chosen, v, w)
    BY <1>1, <1>6, <1>7, <1>8, <1>10, <1>11 DEF Weighed
  <2> QED
    BY <1>1, <2>1, KeptWeighs
<1>13. \A k \in 1 .. n : Lines[k] <= 4 * v[k]
  BY <1>4, <1>7, <1>9, CostCovers
<1>14. Lines \in Seq(Int)
  <2>1. \A k \in DOMAIN Lines : Lines[k] \in Int
    BY <1>9
  <2> QED
    BY <1>11, <2>1, Retyped
<1>15. Total(Lines) <= 4 * Total(v)
  BY <1>11, <1>13, <1>14, TotalFourfold
<1>16. Total(Lines) \in Nat /\ Total(w) \in Int
  BY <1>11, TotalNat, TotalType
<1>17. Spent(input, chosen) = Total(w)
  BY DEF Spent, w
<1> QED
  BY <1>12, <1>14, <1>15, <1>16, <1>17

\* So what is read back fits, whatever the roundings add up to.
LEMMA RecallFits ==
  ASSUME Recalling
  PROVE  TokensOf(memory.preamble + Total(Lines)) <= memory.budget
<1> DEFINE p == memory.preamble
           b == memory.budget
           spent == Spent(input, chosen)
           long == Total(Lines)
<1>1. p \in Nat /\ b \in Nat
  BY MemoriesAssumption DEF Recalling, Recallable
<1>2. input.budget = b - TokensOf(p) /\ spent <= input.budget
  <2>1. /\ offered \in Seq(MemoryEntry)
        /\ \A k \in DOMAIN offered : offered[k] \in Range(memory.entries)
    BY OfferedFacts DEF Recalling
  <2> QED
    BY <2>1, OfferFits DEF Recalling
<1>3. spent \in Int /\ long \in Nat /\ long <= 4 * spent
  BY AssembledCosts
<1>4. \A x, y \in Nat, s \in Int, n \in Nat :
         n <= 4 * s /\ s <= y - ((x + 3) \div 4) => ((x + n) + 3) \div 4 <= y
  OBVIOUS
<1> HIDE DEF p, b, spent, long
<1>5. spent <= b - ((p + 3) \div 4)
  BY <1>2 DEF TokensOf
<1>6. ((p + long) + 3) \div 4 <= b
  BY <1>1, <1>3, <1>4, <1>5
<1> QED
  BY <1>6 DEF TokensOf, p, b, long

\* At each step of the recall.
RecallInv ==
  /\ step = "select" => Recalling
  /\ step = "done" => RecallFitsBudget

\* A file is asked for.
LEMMA RecallsInv ==
  ASSUME LazyInv, NEW m \in Memories, Recalls(m)
  PROVE  RecallInv' /\ LazyInv'
<1>1. m.budget \in Nat /\ m.preamble \in Nat /\ memory' = m
  BY MemoriesAssumption DEF Recallable, Recalls
<1>2. CASE m.budget <= TokensOf(m.preamble)
  <2> DEFINE either == {m.preamble, 4 * m.budget}
  <2>1. step' = "done" /\ UNCHANGED selectVars
        /\ recall' = [NoRecall EXCEPT !.chars = Min(either), !.tokens = TokensOf(Min(either)),
                                      !.truncated = TRUE]
    BY <1>2 DEF Recalls
  <2>2. Min(either) \in Nat /\ Min(either) <= 4 * m.budget
    <3>1. either \in SUBSET Nat /\ either # {} /\ 4 * m.budget \in either
      BY <1>1
    <3> HIDE DEF either
    <3> QED
      BY <3>1, LeastIs
  <2> HIDE DEF either
  <2>3. recall'.tokens = TokensOf(Min(either)) /\ recall'.entries = <<>>
    BY <2>1 DEF NoRecall
  <2>4. \A x, y \in Nat : x <= 4 * y => (x + 3) \div 4 <= y
    OBVIOUS
  <2>5. TokensOf(Min(either)) <= m.budget
    BY <1>1, <2>2, <2>4 DEF TokensOf
  <2>6. RecallFitsBudget'
    BY <1>1, <2>3, <2>5 DEF RecallFitsBudget
  <2>7. LazyInv'
    BY <2>1 DEF selectVars, LazyInv, Bounds
  <2> QED
    BY <2>1, <2>6, <2>7 DEF RecallInv
<1>3. CASE ~(m.budget <= TokensOf(m.preamble))
  <2> DEFINE u == Unique(Eligible(m))
  <2>1. step' = "select" /\ offered' = u /\ Selects(Offer(m, u))
    BY <1>3 DEF Recalls
  <2>2. u \in Seq(MemoryEntry) /\ \A k \in DOMAIN u : u[k] \in Range(m.entries)
    BY OfferedFacts
  <2> HIDE DEF u
  <2>3. Offer(m, u) \in SelectInputs /\ Offer(m, u).budget = m.budget - TokensOf(m.preamble)
    BY <2>2, OfferFits
  <2>4. LazyInv'
    BY <2>1, <2>3, StartKeeps
  <2>5. input' = Offer(m, u) /\ Spent(input', chosen') = 0
    BY <2>1, StartFits
  <2>6. Spent(input', chosen') <= input'.budget
    <3>1. \A x \in Nat : TokensOf(x) \in Nat
      BY DEF TokensOf
    <3>2. TokensOf(m.preamble) \in Nat
      BY <1>1, <3>1
    <3> QED
      BY <1>1, <1>3, <2>3, <2>5, <3>2
  <2>7. Recalling'
    BY <1>1, <2>1, <2>4, <2>5, <2>6 DEF Recalling, u
  <2> QED
    BY <2>1, <2>4, <2>7 DEF RecallInv
<1> QED
  BY <1>2, <1>3

\* A gain is computed, or an entry picked.
LEMMA ChoosesInv ==
  ASSUME RecallInv, Chooses
  PROVE  RecallInv' /\ LazyInv'
<1>1. Recalling /\ step = "select" /\ UNCHANGED recallVars
  BY DEF RecallInv, Chooses
<1>2. LazyInv /\ Spent(input, chosen) <= input.budget
  BY <1>1 DEF Recalling
<1>3. LazyInv' /\ input' = input /\ Spent(input', chosen') <= input'.budget
  <2>1. CASE Evaluates
    BY <1>2, <2>1, EvaluatesKeeps DEF Evaluates
  <2>2. CASE Picks
    BY <1>2, <2>2, PicksKeeps, PicksFits
  <2> QED
    BY <2>1, <2>2 DEF Chooses
<1>4. memory' = memory /\ offered' = offered /\ step' = step
  BY <1>1 DEF recallVars
<1>5. Recalling'
  BY <1>1, <1>3, <1>4 DEF Recalling
<1> QED
  BY <1>1, <1>3, <1>4, <1>5 DEF RecallInv

\* The answer is put together.
LEMMA AssemblesInv ==
  ASSUME RecallInv, Assembles
  PROVE  RecallInv'
<1>1. Recalling /\ step' = "done" /\ memory' = memory
  BY DEF RecallInv, Assembles
<1>2. /\ recall'.entries = Assembled
      /\ recall'.tokens = TokensOf(memory.preamble + Total(Lines))
  BY DEF Assembles, Assembled, Lines, Only
<1>3. OwnIds(Assembled)
  BY <1>1, AssembledFacts
<1>4. recall'.tokens <= memory.budget
  BY <1>1, <1>2, RecallFits
<1>5. RecallFitsBudget'
  BY <1>1, <1>2, <1>3, <1>4 DEF RecallFitsBudget, OwnIds
<1> QED
  BY <1>1, <1>5 DEF RecallInv

-----------------------------------------------------------------------------
(* The queries together *)

\* A selection, the map and the recall, of which one goes on at a time.
QueryInv == LazyInv /\ MapInv /\ RecallInv

\* Nothing is asked yet.
LEMMA QueryInvInit == MCInit => QueryInv
<1> SUFFICES ASSUME MCInit PROVE QueryInv
  OBVIOUS
<1>1. LazyInv
  BY LazyInvInit DEF MCInit, MapInit
<1>2. MapInv
  BY DEF MCInit, MapInit, MapInv
<1>3. RecallInv
  BY DEF MCInit, RecallInit, RecallInv
<1> QED
  BY <1>1, <1>2, <1>3 DEF QueryInv

\* The map is as it was.
LEMMA MapStays ==
  ASSUME QueryInv, UNCHANGED mapVars, phase = "start" \/ UNCHANGED selectVars
  PROVE  MapInv'
<1>1. CASE phase = "start"
  BY <1>1 DEF MapInv, mapVars
<1>2. CASE UNCHANGED selectVars
  <2>1. LazyInv'
    BY <1>2 DEF QueryInv, LazyInv, Bounds, selectVars
  <2>2. /\ repo' = repo /\ phase' = phase /\ listed' = listed /\ ranked' = ranked
        /\ omitted' = omitted /\ considered' = considered /\ files' = files
        /\ input' = input /\ chosen' = chosen
    BY <1>2 DEF mapVars, selectVars
  <2>3. MapInv
    BY DEF QueryInv
  <2>4. /\ \A p : File(p)' = File(p)
        /\ \A p : Ignored(p)' <=> Ignored(p)
    BY <2>2, SameTree
  <2>5. phase = "read" => Pends(omitted, listed, considered)'
    BY <2>2, <2>3, ListedPends DEF MapInv
  <2>6. phase = "select" => Choosing'
    <3> SUFFICES ASSUME Choosing PROVE Choosing'
      BY <2>3 DEF MapInv
    <3>1. Pends(omitted, ranked, considered)'
      BY <2>2, RankedPends DEF Choosing
    <3>2. input' = Request(ranked)'
      <4>1. input = Request(ranked)
        BY DEF Choosing
      <4> QED
        BY <2>2, <4>1, SameRequest
    <3>3. (\A p \in Range(ranked) : File(p).kind = "text")'
      BY <2>2, <2>4 DEF Choosing
    <3> QED
      BY <2>1, <2>2, <3>1, <3>2, <3>3 DEF Choosing
  <2>7. phase = "done" => MapFitsBudget' /\ EveryPathIsAccounted'
    <3> SUFFICES ASSUME MapFitsBudget, EveryPathIsAccounted
                 PROVE  MapFitsBudget' /\ EveryPathIsAccounted'
      BY <2>3 DEF MapInv
    <3>1. MapFitsBudget'
      BY <2>2, <2>4 DEF MapFitsBudget
    <3>2. \A class : Omitted(class)' = Omitted(class)
      BY <2>2 DEF Omitted
    <3>3. EveryPathIsAccounted'
      BY <2>2, <2>4, <3>2 DEF EveryPathIsAccounted
    <3> QED
      BY <3>1, <3>3
  <2> QED
    BY <2>2, <2>3, <2>5, <2>6, <2>7 DEF MapInv
<1> QED
  BY <1>1, <1>2

\* The recall is as it was.
LEMMA RecallStays ==
  ASSUME QueryInv, UNCHANGED recallVars, step = "idle" \/ UNCHANGED selectVars
  PROVE  RecallInv'
<1>1. CASE step = "idle"
  BY <1>1 DEF RecallInv, recallVars
<1>2. CASE UNCHANGED selectVars
  <2>1. LazyInv'
    BY <1>2 DEF QueryInv, LazyInv, Bounds, selectVars
  <2>2. RecallInv
    BY DEF QueryInv
  <2> QED
    BY <1>2, <2>1, <2>2 DEF RecallInv, Recalling, RecallFitsBudget, recallVars, selectVars
<1> QED
  BY <1>1, <1>2

\* Every step keeps it.
LEMMA QueryInvStep == NoConflict /\ QueryInv /\ [MCNext]_queryVars => QueryInv'
<1> SUFFICES ASSUME NoConflict, QueryInv, [MCNext]_queryVars PROVE QueryInv'
  OBVIOUS
<1>1. LazyInv /\ MapInv /\ RecallInv
  BY DEF QueryInv
<1>2. ASSUME UNCHANGED selectVars PROVE LazyInv'
  BY <1>1, <1>2 DEF LazyInv, Bounds, selectVars
<1>3. CASE InMap
  <2>1. step = "idle" /\ UNCHANGED recallVars /\ MapNext
    BY <1>3 DEF InMap
  <2>2. RecallInv'
    BY <2>1, RecallStays
  <2>3. MapInv' /\ LazyInv'
    <3>1. ASSUME NEW r \in Repos, Starts(r) PROVE MapInv' /\ LazyInv'
      <4>1. UNCHANGED selectVars
        BY <3>1 DEF Starts
      <4> QED
        BY <1>2, <3>1, <4>1, StartsInv
    <3>2. CASE ListsByGit \/ ListsByWalk
      <4>1. UNCHANGED selectVars
        BY <3>2 DEF ListsByGit, ListsByWalk, Discovers
      <4> QED
        BY <1>1, <1>2, <3>2, <4>1, ListsInv
    <3>3. CASE Reads
      BY <1>1, <3>3, ReadsInv
    <3>4. CASE Selecting
      BY <1>1, <3>4, SelectingInv
    <3>5. CASE Answers
      <4>1. UNCHANGED selectVars
        BY <3>5 DEF Answers
      <4> QED
        BY <1>1, <1>2, <3>5, <4>1, AnswersInv
    <3> QED
      BY <2>1, <3>1, <3>2, <3>3, <3>4, <3>5 DEF MapNext
  <2> QED
    BY <2>2, <2>3 DEF QueryInv
<1>4. CASE InMemory
  <2>1. phase = "start" /\ UNCHANGED mapVars /\ RecallNext
    BY <1>4 DEF InMemory
  <2>2. MapInv'
    BY <2>1, MapStays
  <2>3. RecallInv' /\ LazyInv'
    <3>1. ASSUME NEW m \in Memories, Recalls(m) PROVE RecallInv' /\ LazyInv'
      BY <1>1, <3>1, RecallsInv
    <3>2. CASE Chooses
      BY <1>1, <3>2, ChoosesInv
    <3>3. CASE Assembles
      <4>1. UNCHANGED selectVars
        BY <3>3 DEF Assembles
      <4> QED
        BY <1>1, <1>2, <3>3, <4>1, AssemblesInv
    <3> QED
      BY <2>1, <3>1, <3>2, <3>3 DEF RecallNext
  <2> QED
    BY <2>2, <2>3 DEF QueryInv
<1>5. CASE InTasks \/ UNCHANGED queryVars
  <2>1. UNCHANGED mapVars /\ UNCHANGED selectVars /\ UNCHANGED recallVars
    BY <1>5 DEF InTasks, queryVars
  <2> QED
    BY <1>2, <2>1, MapStays, RecallStays DEF QueryInv
<1> QED
  BY <1>3, <1>4, <1>5 DEF MCNext

\* When no repository has a merge conflict, the answers read back of the repository and of
\* the memory are within their budgets and leave nothing out in silence.
THEOREM AnswersAreComplete == ASSUME NoConflict PROVE MCSpec => []AnswersAreWhole
<1>1. QueryInv => AnswersAreWhole
  <2>1. ASSUME MapInv PROVE MapFitsBudget /\ EveryPathIsAccounted
    BY <2>1 DEF MapInv, MapFitsBudget, EveryPathIsAccounted
  <2>2. ASSUME RecallInv PROVE RecallFitsBudget
    BY <2>2 DEF RecallInv, RecallFitsBudget
  <2> QED
    BY <2>1, <2>2 DEF QueryInv, AnswersAreWhole
<1>2. QueryInv /\ [MCNext]_queryVars => QueryInv'
  BY QueryInvStep
<1>3. MCSpec => []QueryInv
  BY <1>2, QueryInvInit, PTL DEF MCSpec
<1> QED
  BY <1>1, <1>3, PTL
=============================================================================
