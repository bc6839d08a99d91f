-------------------------- MODULE TaskStore_proofs --------------------------
(***************************************************************************)
(* Theorems about TaskStore, for every set of tasks, sessions and requests *)
(* and every bound: the type invariant, the two graph invariants, the      *)
(* lease fence, and the honesty of a quiet _Stop.                          *)
(***************************************************************************)
EXTENDS StopHook, Operators_proofs

-----------------------------------------------------------------------------
(* Type correctness *)

\* A lease stays well-formed when it is revoked.
LEMMA RevokedType ==
  ASSUME NEW l \in Lease \cup {NoLease}
  PROVE  Revoked(l) \in Lease \cup {NoLease}
BY DEF Revoked, Lease

LEMMA TypeStep ==
  ASSUME TypeOK, [Next]_vars
  PROVE  TypeOK'
<1> USE BoundsAssumption, InputsAssumption
<1>1. ASSUME NEW t \in TaskIds, NEW req \in CreateInputs, Create(t, req)
      PROVE  TypeOK'
  <2> DEFINE new == [status    |-> req.status,
                     resumable |-> req.resumable,
                     session   |-> req.session,
                     attempts  |-> IF req.status = "in_progress" THEN 1 ELSE 0,
                     resumes   |-> 0,
                     note      |-> NoNote,
                     lease     |-> req.lease,
                     blockedBy |-> req.blockedBy]
  <2>1. req \in CreateRequest
    OBVIOUS
  <2>2. new \in Task
    BY <2>1 DEF CreateRequest, Task, TaskNote
  <2>3. tasks' = [u \in DOMAIN tasks \cup {t} |-> IF u = t THEN new ELSE tasks[u]]
    BY <1>1 DEF Create
  <2> HIDE DEF new
  <2>4. QED
    BY <1>1, <2>2, <2>3 DEF TypeOK, Create
<1>2. ASSUME NEW t \in TaskIds, NEW req \in UpdateInputs, Update(t, req)
      PROVE  TypeOK'
  <2> DEFINE new == [tasks[t] EXCEPT !.status    = Given(req.status, @),
                                     !.note      = Given(req.note, @),
                                     !.resumable = Given(req.resumable, @),
                                     !.session   = Given(req.session, @),
                                     !.lease     = Given(req.lease, @),
                                     !.blockedBy = Given(req.blockedBy, @)]
  <2>1. req \in UpdateRequest /\ tasks[t] \in Task
    BY <1>2 DEF TypeOK, Update
  <2>a. /\ Given(req.status, tasks[t].status) \in Status
        /\ Given(req.note, tasks[t].note) \in TaskNote
        /\ Given(req.session, tasks[t].session) \in Sessions \cup {NoSession}
        /\ Given(req.lease, tasks[t].lease) \in Lease \cup {NoLease}
        /\ Given(req.blockedBy, tasks[t].blockedBy) \in SUBSET TaskIds
    BY <2>1 DEF UpdateRequest, Task, TaskNote, Given
  <2>b. Given(req.resumable, tasks[t].resumable) \in BOOLEAN
    BY <2>1, Zenon DEF UpdateRequest, Task, Given
  <2>2. new \in Task
    BY <2>1, <2>a, <2>b DEF Task
  <2>3. tasks' = [tasks EXCEPT ![t] = new] /\ UNCHANGED now
    BY <1>2 DEF Update
  <2> HIDE DEF new
  <2>4. QED
    BY <2>2, <2>3 DEF TypeOK
<1>3. ASSUME NEW t \in TaskIds, NEW note \in Notes \cup {NoNote}, Suspend(t, note)
      PROVE  TypeOK'
  <2> DEFINE new == [tasks[t] EXCEPT !.status = "suspended", !.note = OrElse(note, @)]
  <2>1. tasks[t] \in Task
    BY <1>3 DEF TypeOK, Suspend
  <2>2. new \in Task
    BY <2>1 DEF Task, TaskNote, OrElse, Status
  <2>3. tasks' = [tasks EXCEPT ![t] = new] /\ UNCHANGED now
    BY <1>3 DEF Suspend
  <2> HIDE DEF new
  <2>4. QED
    BY <2>2, <2>3 DEF TypeOK
<1>4. ASSUME NEW t \in TaskIds, NEW note \in Notes \cup {NoNote}, Resume(t, note)
      PROVE  TypeOK'
  <2> DEFINE new == [tasks[t] EXCEPT !.status = "in_progress", !.attempts = @ + 1,
                                     !.resumes = @ + 1, !.note = OrElse(note, @)]
  <2>1. tasks[t] \in Task
    BY <1>4 DEF TypeOK, Resume
  <2>a. OrElse(note, tasks[t].note) \in TaskNote
    BY <2>1 DEF Task, TaskNote, OrElse
  <2>b. tasks[t].attempts + 1 \in Nat /\ tasks[t].resumes + 1 \in Nat
    BY <2>1 DEF Task
  <2>2. new \in Task
    BY <2>1, <2>a, <2>b DEF Task, Status
  <2>3. tasks' = [tasks EXCEPT ![t] = new] /\ UNCHANGED now
    BY <1>4 DEF Resume
  <2> HIDE DEF new
  <2>4. QED
    BY <2>2, <2>3 DEF TypeOK
<1>5. ASSUME NEW s \in Sessions, RevokeSessionLeases(s)
      PROVE  TypeOK'
  BY <1>5, RevokedType DEF TypeOK, RevokeSessionLeases, Task
<1>6. ASSUME NEW s \in Sessions, ForceSynthesizeLinked(s)
      PROVE  TypeOK'
  <2>1. \A t \in DOMAIN tasks :
          [tasks[t] EXCEPT !.status = "force_synthesized", !.note = SynthesisNote] \in Task
    BY DEF TypeOK, Task, TaskNote, Status
  <2>2. QED
    BY <1>6, <2>1 DEF TypeOK, ForceSynthesizeLinked
<1>7. CASE Tick
  BY <1>7 DEF TypeOK, Tick, Time
<1>8. CASE UNCHANGED vars
  BY <1>8 DEF TypeOK, vars
<1>9. QED
  BY <1>1, <1>2, <1>3, <1>4, <1>5, <1>6, <1>7, <1>8 DEF Next

\* Whatever the tools are asked, the store document stays well-formed.
THEOREM TypeCorrect == Spec => []TypeOK
<1>1. Init => TypeOK
  BY BoundsAssumption DEF Init, TypeOK, Time
<1>2. TypeOK /\ [Next]_vars => TypeOK'
  BY TypeStep
<1>3. QED
  BY <1>1, <1>2, PTL DEF Spec

-----------------------------------------------------------------------------
(* The blocker graph *)

\* NoDependencyCycle is not inductive alone: a created task could close a cycle
\* through an edge that was dangling, so the two graph invariants go together.
GraphInv == NoDanglingBlocker /\ NoDependencyCycle /\ IsFiniteSet(DOMAIN tasks)

\* What every action but Create and Update does to the graph: nothing.
LEMMA EdgesKept ==
  ASSUME GraphInv,
         DOMAIN tasks' = DOMAIN tasks,
         \A u \in DOMAIN tasks : tasks'[u].blockedBy = tasks[u].blockedBy
  PROVE  GraphInv'
<1>1. /\ \A u \in DOMAIN tasks : OnCycle(tasks', u) <=> OnCycle(tasks, u)
      /\ \A u \in DOMAIN tasks : UnknownBlockers(tasks', u) = UnknownBlockers(tasks, u)
  BY SameEdges
<1>2. QED
  BY <1>1 DEF GraphInv, NoDanglingBlocker, NoDependencyCycle

LEMMA CreateKeepsGraph ==
  ASSUME GraphInv, NEW t \in TaskIds, NEW req \in CreateInputs, Create(t, req)
  PROVE  GraphInv'
<1>1. /\ t \notin DOMAIN tasks
      /\ DOMAIN tasks' = DOMAIN tasks \cup {t}
      /\ \A u \in DOMAIN tasks : tasks'[u] = tasks[u]
      /\ ValidEdges(tasks', t)
  BY DEF Create
<1>2. \A u \in DOMAIN tasks' : UnknownBlockers(tasks', u) = {}
  BY <1>1 DEF GraphInv, NoDanglingBlocker, ValidEdges, UnknownBlockers
<1>3. \A u \in DOMAIN tasks : ~OnCycle(tasks', u)
  <2>1. \A u \in DOMAIN tasks : /\ UnknownBlockers(tasks, u) = {}
                                /\ ~OnCycle(tasks, u)
                                /\ tasks'[u].blockedBy = tasks[u].blockedBy
    BY <1>1 DEF GraphInv, NoDanglingBlocker, NoDependencyCycle
  <2>2. QED
    BY <1>1, <2>1, FreshTask
<1>4. ~OnCycle(tasks', t)
  BY <1>1 DEF ValidEdges
<1>5. IsFiniteSet(DOMAIN tasks')
  BY <1>1, FS_AddElement DEF GraphInv
<1>6. QED
  BY <1>1, <1>2, <1>3, <1>4, <1>5 DEF GraphInv, NoDanglingBlocker, NoDependencyCycle

LEMMA UpdateKeepsGraph ==
  ASSUME TypeOK, GraphInv, NEW t \in TaskIds, NEW req \in UpdateInputs, Update(t, req)
  PROVE  GraphInv'
<1>1. /\ t \in DOMAIN tasks
      /\ DOMAIN tasks' = DOMAIN tasks
      /\ \A u \in DOMAIN tasks \ {t} : tasks'[u].blockedBy = tasks[u].blockedBy
      /\ req.blockedBy # Keep => ValidEdges(tasks', t)
  BY DEF Update
<1>2. CASE req.blockedBy = Keep
  <2>1. tasks[t] \in Task
    BY <1>1 DEF TypeOK
  <2>2. tasks'[t].blockedBy = tasks[t].blockedBy
    BY <1>1, <1>2, <2>1 DEF Update, Task, Given
  <2>3. QED
    BY <1>1, <2>2, EdgesKept
<1>3. CASE req.blockedBy # Keep
  <2>1. ~OnCycle(tasks', t) /\ UnknownBlockers(tasks', t) = {}
    BY <1>1, <1>3 DEF ValidEdges
  <2>2. \A u \in DOMAIN tasks : ~OnCycle(tasks', u)
    BY <1>1, <2>1, SubjectEdges DEF GraphInv, NoDependencyCycle
  <2>3. \A u \in DOMAIN tasks : UnknownBlockers(tasks', u) = {}
    BY <1>1, <2>1 DEF GraphInv, NoDanglingBlocker, UnknownBlockers
  <2>4. QED
    BY <1>1, <2>2, <2>3 DEF GraphInv, NoDanglingBlocker, NoDependencyCycle
<1>4. QED
  BY <1>2, <1>3

LEMMA GraphStep ==
  ASSUME TypeOK, GraphInv, [Next]_vars
  PROVE  GraphInv'
<1>0. \A t \in DOMAIN tasks : tasks[t] \in Task
  BY DEF TypeOK
<1>1. ASSUME NEW t \in TaskIds, NEW req \in CreateInputs, Create(t, req)
      PROVE  GraphInv'
  BY <1>1, CreateKeepsGraph
<1>2. ASSUME NEW t \in TaskIds, NEW req \in UpdateInputs, Update(t, req)
      PROVE  GraphInv'
  BY <1>2, UpdateKeepsGraph
<1>3. ASSUME NEW t \in TaskIds, NEW note \in Notes \cup {NoNote}, Suspend(t, note)
      PROVE  GraphInv'
  <2>1. /\ DOMAIN tasks' = DOMAIN tasks
        /\ \A u \in DOMAIN tasks : tasks'[u].blockedBy = tasks[u].blockedBy
    BY <1>0, <1>3 DEF Suspend, Task
  <2>2. QED
    BY <2>1, EdgesKept
<1>4. ASSUME NEW t \in TaskIds, NEW note \in Notes \cup {NoNote}, Resume(t, note)
      PROVE  GraphInv'
  <2>1. /\ DOMAIN tasks' = DOMAIN tasks
        /\ \A u \in DOMAIN tasks : tasks'[u].blockedBy = tasks[u].blockedBy
    BY <1>0, <1>4 DEF Resume, Task
  <2>2. QED
    BY <2>1, EdgesKept
<1>5. ASSUME NEW s \in Sessions, RevokeSessionLeases(s)
      PROVE  GraphInv'
  <2>1. /\ DOMAIN tasks' = DOMAIN tasks
        /\ \A u \in DOMAIN tasks : tasks'[u].blockedBy = tasks[u].blockedBy
    BY <1>0, <1>5 DEF RevokeSessionLeases, Task
  <2>2. QED
    BY <2>1, EdgesKept
<1>6. ASSUME NEW s \in Sessions, ForceSynthesizeLinked(s)
      PROVE  GraphInv'
  <2>1. /\ DOMAIN tasks' = DOMAIN tasks
        /\ \A u \in DOMAIN tasks : tasks'[u].blockedBy = tasks[u].blockedBy
    BY <1>0, <1>6 DEF ForceSynthesizeLinked, Task
  <2>2. QED
    BY <2>1, EdgesKept
<1>7. CASE Tick \/ UNCHANGED vars
  BY <1>7, EdgesKept DEF Tick, vars
<1>8. QED
  BY <1>1, <1>2, <1>3, <1>4, <1>5, <1>6, <1>7 DEF Next

LEMMA GraphCorrect == Spec => [](TypeOK /\ GraphInv)
<1>1. Init => TypeOK /\ GraphInv
  BY BoundsAssumption, FS_EmptySet
     DEF Init, TypeOK, Time, GraphInv, NoDanglingBlocker, NoDependencyCycle
<1>2. TypeOK /\ GraphInv /\ [Next]_vars => (TypeOK /\ GraphInv)'
  BY TypeStep, GraphStep
<1>3. QED
  BY <1>1, <1>2, PTL DEF Spec

\* No stored task ever waits on an id that names no task.
THEOREM DanglingBlockersRefused == Spec => []NoDanglingBlocker
<1>1. GraphInv => NoDanglingBlocker
  BY DEF GraphInv
<1>2. QED
  BY <1>1, GraphCorrect, PTL

\* Validating the subject of each write is enough to keep the whole stored
\* graph acyclic.
THEOREM StoredGraphAcyclic == Spec => []NoDependencyCycle
<1>1. GraphInv => NoDependencyCycle
  BY DEF GraphInv
<1>2. QED
  BY <1>1, GraphCorrect, PTL

\* Whatever the number of tasks, an open task means a startable one.
THEOREM DeadlockNeverPersisted == Spec => []NoSilentDeadlock
<1>1. GraphInv => NoSilentDeadlock
  BY SomethingIsReady DEF GraphInv, NoDanglingBlocker, NoDependencyCycle, NoSilentDeadlock
<1>2. QED
  BY <1>1, GraphCorrect, PTL

-----------------------------------------------------------------------------
(* The lease fence *)

\* What DeadClaimLandsNothing says of one task in one step.
ClaimHeld(t) ==
  ~LeaseAllows(tasks[t].lease) =>
     \/ /\ tasks'[t].status = tasks[t].status
        /\ tasks'[t].note = tasks[t].note
        /\ tasks'[t].attempts = tasks[t].attempts
     \/ tasks'[t].status = "force_synthesized" /\ tasks'[t].note = SynthesisNote

LEMMA FenceStep ==
  ASSUME TypeOK, Next, NEW u \in DOMAIN tasks
  PROVE  ClaimHeld(u)
<1>0. tasks[u] \in Task
  BY DEF TypeOK
<1>1. ASSUME NEW t \in TaskIds, NEW req \in CreateInputs, Create(t, req)
      PROVE  ClaimHeld(u)
  <2>1. tasks'[u] = tasks[u]
    BY <1>1 DEF Create
  <2>2. QED
    BY <2>1 DEF ClaimHeld
<1>2. ASSUME NEW t \in TaskIds, NEW req \in UpdateInputs, Update(t, req)
      PROVE  ClaimHeld(u)
  <2>1. CASE u # t
    BY <1>2, <2>1 DEF Update, ClaimHeld
  <2>2. CASE u = t /\ IsWriteBack(req)
    BY <1>2, <2>2 DEF Update, ClaimHeld
  <2>3. CASE u = t /\ ~IsWriteBack(req)
    BY <1>0, <1>2, <2>3 DEF Update, ClaimHeld, IsWriteBack, Given, Task
  <2>4. QED
    BY <2>1, <2>2, <2>3
<1>3. ASSUME NEW t \in TaskIds, NEW note \in Notes \cup {NoNote}, Suspend(t, note)
      PROVE  ClaimHeld(u)
  BY <1>3 DEF Suspend, ClaimHeld
<1>4. ASSUME NEW t \in TaskIds, NEW note \in Notes \cup {NoNote}, Resume(t, note)
      PROVE  ClaimHeld(u)
  BY <1>4 DEF Resume, ClaimHeld
<1>5. ASSUME NEW s \in Sessions, RevokeSessionLeases(s)
      PROVE  ClaimHeld(u)
  BY <1>0, <1>5 DEF RevokeSessionLeases, ClaimHeld, Task
<1>6. ASSUME NEW s \in Sessions, ForceSynthesizeLinked(s)
      PROVE  ClaimHeld(u)
  BY <1>0, <1>6 DEF ForceSynthesizeLinked, ClaimHeld, Task
<1>7. CASE Tick
  BY <1>7 DEF Tick, ClaimHeld
<1>8. QED
  BY <1>1, <1>2, <1>3, <1>4, <1>5, <1>6, <1>7 DEF Next

\* Under a revoked or expired claim no tool changes what the task records.
THEOREM FenceHolds == Spec => DeadClaimLandsNothing
<1>1. TypeOK /\ [Next]_vars => [\A t \in DOMAIN tasks : ClaimHeld(t)]_vars
  BY FenceStep
<1>2. QED
  BY <1>1, TypeCorrect, PTL DEF Spec, DeadClaimLandsNothing, ClaimHeld

-----------------------------------------------------------------------------
(* The stop hook: below every open task lies one that can be started,      *)
(* because the stored graph is finite, acyclic and without dangling        *)
(* blockers.                                                               *)

\* The tasks that t waits on.
Awaited(t) == {u \in DOMAIN tasks : WaitsOn(t, u)}

\* An open blocker of a task that t waits on is awaited too.
LEMMA AwaitedBlocker ==
  ASSUME NEW t \in DOMAIN tasks, NEW v \in Awaited(t),
         NEW b \in Blockers(tasks, v), IsOpen(tasks, b)
  PROVE  b \in Awaited(t)
BY DEF Awaited, WaitsOn, Blockers

\* An awaited open task below which as little as possible lies can be started.
LEMMA AwaitedIsReady ==
  ASSUME GraphInv, NEW t \in DOMAIN tasks, IsOpen(tasks, t)
  PROVE  \E u \in ReadySet(tasks) : WaitsOn(t, u)
<1> DEFINE D == DOMAIN tasks
           T == {Below(tasks, v) : v \in {w \in Awaited(t) : IsOpen(tasks, w)}}
<1>0. \A v : Below(tasks, v) \subseteq D
  BY DEF Below
<1>1. t \in Awaited(t)
  BY DEF Awaited, WaitsOn
<1>2. T \subseteq SUBSET D /\ T # {}
  BY <1>0, <1>1
<1>3. PICK B \in T : \A C \in T : ~(<<C, B>> \in StrictSubsetOrdering(D))
  <2>1. IsWellFoundedOn(StrictSubsetOrdering(D), SUBSET D)
    BY FS_StrictSubsetOrderingWellFounded, FS_FiniteSubsetsOfFinite DEF GraphInv
  <2> HIDE DEF T, D
  <2>2. \E B \in T : \A C \in T : ~(<<C, B>> \in StrictSubsetOrdering(D))
    BY <1>2, <2>1, WFMin, Zenon
  <2>3. QED
    BY <2>2
<1>4. PICK v \in Awaited(t) : IsOpen(tasks, v) /\ B = Below(tasks, v)
  OBVIOUS
<1>5. v \in D
  BY <1>4 DEF Awaited
<1>6. ASSUME NEW b \in tasks[v].blockedBy
      PROVE  b \in D /\ tasks[b].status \in TERMINAL
  <2>1. b \in D /\ b \in Blockers(tasks, v)
    BY <1>5 DEF UnknownBlockers, Blockers, GraphInv, NoDanglingBlocker
  <2>2. b \notin Below(tasks, b)
    BY <2>1 DEF Below, OnCycle, GraphInv, NoDependencyCycle
  <2>3. Below(tasks, b) \subseteq Below(tasks, v) /\ Below(tasks, b) # Below(tasks, v)
    BY <1>5, <2>1, <2>2, BlockerBelow
  <2>4. <<Below(tasks, b), B>> \in StrictSubsetOrdering(D)
    BY <1>0, <1>4, <2>3 DEF StrictSubsetOrdering
  <2>5. Below(tasks, b) \notin T
    BY <1>3, <2>4
  <2>6. ~IsOpen(tasks, b)
    BY <2>1, <2>5, AwaitedBlocker
  <2>7. QED
    BY <2>1, <2>6 DEF IsOpen
<1>7. v \in ReadySet(tasks) /\ WaitsOn(t, v)
  BY <1>4, <1>5, <1>6 DEF ReadySet, Awaited
<1>8. QED
  BY <1>7

\* For every sequence of task tools: an agent that _Stop lets go leaves, in its
\* scope, only tasks that wait on startable work outside of it.
THEOREM QuietStopHonest == Spec => []QuietStopIsHonest
<1>1. GraphInv => QuietStopIsHonest
  <2> SUFFICES ASSUME GraphInv, NEW scope \in Scopes, Objections(scope) = {},
                      NEW t \in InScope(scope)
               PROVE  \E u \in ReadySet(tasks) : u \notin InScope(scope) /\ WaitsOn(t, u)
    BY DEF QuietStopIsHonest
  <2>1. t \in DOMAIN tasks /\ IsOpen(tasks, t)
    BY DEF InScope
  <2>2. PICK u \in ReadySet(tasks) : WaitsOn(t, u)
    BY <2>1, AwaitedIsReady
  <2>3. u \notin InScope(scope)
    BY DEF Objections
  <2>4. QED
    BY <2>2, <2>3
<1>2. QED
  BY <1>1, GraphCorrect, PTL
=============================================================================
