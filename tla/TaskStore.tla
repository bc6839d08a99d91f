----------------------------- MODULE TaskStore -----------------------------
(***************************************************************************)
(* The persistent task store and its MCP tools (task_runtime.ts,           *)
(* task_tools.ts).  Each tool runs inside withTaskStoreLock as one         *)
(* read-whole-file / mutate / write-whole-file section, so it is one       *)
(* action here; a rejected or missing request writes nothing and is a      *)
(* stuttering step.                                                        *)
(*                                                                         *)
(* Data is abstracted to what the properties tell apart: lastCheckpoint    *)
(* and lastError are one note, worktree and title fields are left out, an  *)
(* instant is a natural number, and an expiresAt nobody can parse is the   *)
(* instant 0, which has passed whatever the clock says.                    *)
(***************************************************************************)
EXTENDS Naturals, TaskGraph

CONSTANTS
  Sessions,        \* supervisor session ids
  NoSession,       \* a task linked to no session
  NoLease,         \* a task registered without a lease
  Notes,           \* checkpoint or error texts a lane may write back
  NoNote,
  SynthesisNote,   \* the checkpoint a forced synthesis leaves
  Keep,            \* an optional request field that was not sent
  MaxTime,         \* bound: the last instant of the server clock
  MaxAttempts,     \* bound: resumes stop at this attempt count
  CreateInputs,    \* the task_create requests considered
  UpdateInputs     \* the task_update requests considered

Time == 0 .. MaxTime

Lease == [expiresAt : Time, revoked : BOOLEAN]

TaskNote == Notes \cup {NoNote, SynthesisNote}

Task == [status : Status, resumable : BOOLEAN, session : Sessions \cup {NoSession},
         attempts : Nat, resumes : Nat, note : TaskNote,
         lease : Lease \cup {NoLease}, blockedBy : SUBSET TaskIds]

CreateRequest == [status : Status, resumable : BOOLEAN,
                  session : Sessions \cup {NoSession},
                  lease : Lease \cup {NoLease}, blockedBy : SUBSET TaskIds]

UpdateRequest == [status : Status \cup {Keep}, note : Notes \cup {NoNote, Keep},
                  resumable : BOOLEAN \cup {Keep},
                  session : Sessions \cup {NoSession, Keep},
                  lease : Lease \cup {Keep}, blockedBy : (SUBSET TaskIds) \cup {Keep}]

ASSUME BoundsAssumption == MaxTime \in Nat /\ MaxAttempts \in Nat
ASSUME InputsAssumption ==
  CreateInputs \subseteq CreateRequest /\ UpdateInputs \subseteq UpdateRequest

VARIABLES
  tasks,   \* the store document: a function from existing ids to Task records
  now      \* Date.now() of the server

vars == <<tasks, now>>

-----------------------------------------------------------------------------
(* Leases *)

\* Mutant of LeaseAllows: the deadline is not compared.
LeaseAllows_Unrevoked(lease) == lease # NoLease => ~lease.revoked

\* The one server-side check: no lease, or one neither revoked nor past.
LeaseAllows(lease) ==
  lease # NoLease => ~lease.revoked /\ lease.expiresAt > now

Revoked(lease) ==
  IF lease = NoLease THEN lease ELSE [lease EXCEPT !.revoked = TRUE]

\* Mutant of IsWriteBack: a checkpoint is not a result.
IsWriteBack_StatusOnly(req) == req.status # Keep

OrElse(new, old) == IF new = NoNote THEN old ELSE new     \* trimOptional(new) ?? old
Given(new, old)  == IF new = Keep THEN old ELSE new       \* a field only if it was sent

IsWriteBack(req) == req.status # Keep \/ req.note # Keep

-----------------------------------------------------------------------------
(* The tools *)

\* task_create.  generateTaskId is fresh: an id not in use.
Create(t, req) ==
  LET new == [status    |-> req.status,
              resumable |-> req.resumable,
              session   |-> req.session,
              attempts  |-> IF req.status = "in_progress" THEN 1 ELSE 0,
              resumes   |-> 0,
              note      |-> NoNote,
              lease     |-> req.lease,
              blockedBy |-> req.blockedBy]
      written == [u \in DOMAIN tasks \cup {t} |-> IF u = t THEN new ELSE tasks[u]]
  IN  /\ t \notin DOMAIN tasks
      /\ ValidEdges(written, t)
      /\ tasks' = written
      /\ UNCHANGED now

\* Mutant of Update: the new edges are stored without being validated.
Update_Unvalidated(t, req) ==
  LET old == tasks[t]
  IN  /\ t \in DOMAIN tasks
      /\ IsWriteBack(req) => LeaseAllows(old.lease)
      /\ tasks' = [tasks EXCEPT ![t].blockedBy = Given(req.blockedBy, @)]
      /\ UNCHANGED now

\* task_update: the fence applies to result write-back only (a lease-only
\* request is re-assignment), the edges are validated only when they were sent.
Update(t, req) ==
  LET old == tasks[t]
      new == [old EXCEPT !.status    = Given(req.status, @),
                         !.note      = Given(req.note, @),
                         !.resumable = Given(req.resumable, @),
                         !.session   = Given(req.session, @),
                         !.lease     = Given(req.lease, @),
                         !.blockedBy = Given(req.blockedBy, @)]
      written == [tasks EXCEPT ![t] = new]
  IN  /\ t \in DOMAIN tasks
      /\ IsWriteBack(req) => LeaseAllows(old.lease)
      /\ req.blockedBy # Keep => ValidEdges(written, t)
      /\ tasks' = written
      /\ UNCHANGED now

\* task_suspend: the fence first, then "terminal is terminal".
Suspend(t, note) ==
  /\ t \in DOMAIN tasks
  /\ LeaseAllows(tasks[t].lease)
  /\ IsOpen(tasks, t)
  /\ tasks' = [tasks EXCEPT ![t].status = "suspended",
                            ![t].note = OrElse(note, @)]
  /\ UNCHANGED now

\* task_resume: the same guards, and the task must be resumable.
Resume(t, note) ==
  /\ t \in DOMAIN tasks
  /\ LeaseAllows(tasks[t].lease)
  /\ IsOpen(tasks, t)
  /\ tasks[t].resumable
  /\ tasks[t].attempts < MaxAttempts
  /\ tasks' = [tasks EXCEPT ![t].status = "in_progress",
                            ![t].attempts = @ + 1,
                            ![t].resumes = @ + 1,
                            ![t].note = OrElse(note, @)]
  /\ UNCHANGED now

-----------------------------------------------------------------------------
(* What the supervisor does to the tasks linked to a session *)

\* Mutant of OpenLinked: a suspended task is left out.
OpenLinked_InProgress(s) ==
  {t \in DOMAIN tasks : tasks[t].session = s /\ tasks[t].status = "in_progress"}

\* Mutant of OpenLinked: finished tasks are not left out.
OpenLinked_All(s) == {t \in DOMAIN tasks : tasks[t].session = s}

OpenLinked(s) == {t \in DOMAIN tasks : tasks[t].session = s /\ IsOpen(tasks, t)}

\* revokeSessionTaskLeases
RevokeSessionLeases(s) ==
  /\ tasks' = [t \in DOMAIN tasks |->
                 IF t \in OpenLinked(s)
                   THEN [tasks[t] EXCEPT !.lease = Revoked(@)]
                   ELSE tasks[t]]
  /\ UNCHANGED now

\* The second half of supervisor_force_synthesis.
ForceSynthesizeLinked(s) ==
  /\ tasks' = [t \in DOMAIN tasks |->
                 IF t \in OpenLinked(s)
                   THEN [tasks[t] EXCEPT !.status = "force_synthesized",
                                         !.note = SynthesisNote]
                   ELSE tasks[t]]
  /\ UNCHANGED now

Tick == now < MaxTime /\ now' = now + 1 /\ UNCHANGED tasks

-----------------------------------------------------------------------------
Init == tasks = [t \in {} |-> NoNote] /\ now = 0     \* ENOENT: an empty store

Next ==
  \/ \E t \in TaskIds, req \in CreateInputs : Create(t, req)
  \/ \E t \in TaskIds, req \in UpdateInputs : Update(t, req)
  \/ \E t \in TaskIds, note \in Notes \cup {NoNote} : Suspend(t, note)
  \/ \E t \in TaskIds, note \in Notes \cup {NoNote} : Resume(t, note)
  \/ \E s \in Sessions : RevokeSessionLeases(s)
  \/ \E s \in Sessions : ForceSynthesizeLinked(s)
  \/ Tick

Spec == Init /\ [][Next]_vars

-----------------------------------------------------------------------------
(* Properties *)

\* The document holds well-formed records and the clock is within its bound.
TypeOK ==
  /\ DOMAIN tasks \subseteq TaskIds
  /\ tasks \in [DOMAIN tasks -> Task]
  /\ now \in Time

\* No stored task waits on an id that names no task: validateBlockedByEdges
\* refuses the edge at write time, and no tool ever removes a task.
NoDanglingBlocker == \A t \in DOMAIN tasks : UnknownBlockers(tasks, t) = {}

\* The stored graph has no cycle, although each write validates only the cycles
\* through its own subject and only when it carries blockedBy.
NoDependencyCycle == \A t \in DOMAIN tasks : ~OnCycle(tasks, t)

\* What the write-time validation is for ("a deadlock is never persisted in the
\* first place"): while a task is open, some task can be started.
NoSilentDeadlock ==
  (\E t \in DOMAIN tasks : IsOpen(tasks, t)) => ReadySet(tasks) # {}

\* A claim that is revoked or past its deadline lands nothing: whatever tool a
\* lane calls, and whatever else the request carries, the status, note and
\* counters of the task stay (the supervisor's own forced synthesis apart).
DeadClaimLandsNothing ==
  [][\A t \in DOMAIN tasks :
       ~LeaseAllows(tasks[t].lease) =>
          \/ /\ tasks'[t].status = tasks[t].status
             /\ tasks'[t].note = tasks[t].note
             /\ tasks'[t].attempts = tasks[t].attempts
          \/ tasks'[t].status = "force_synthesized" /\ tasks'[t].note = SynthesisNote]_vars

=============================================================================
