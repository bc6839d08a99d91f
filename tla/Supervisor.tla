----------------------------- MODULE Supervisor -----------------------------
(***************************************************************************)
(* The supervisor and the task store together: what the session tools do   *)
(* to the tasks linked to a session, and lanes that work on those tasks.   *)
(*                                                                         *)
(* A tool that fails a session over or ends it writes the supervisor store *)
(* first and only then takes the task store's lock.  It still holds the    *)
(* supervisor's lock, so no other session tool runs in between, but task   *)
(* tools do, and the process may die there: owed is what it still has to   *)
(* do.  The control plane has no channel to kill a lane, so every lane a   *)
(* task was ever handed to may still call the task tools.                  *)
(***************************************************************************)
EXTENDS SupervisorSession

CONSTANTS
  TaskIds, NoSession, NoLease, Notes, NoNote, SynthesisNote, Keep,
  MaxTime, MaxResumes, CreateInputs, UpdateInputs,   \* as in TaskStore
  Nothing      \* no tool is between its two writes; no lane wrote in this step

VARIABLES
  tasks, now,  \* as in TaskStore
  owed,        \* the task-store half of the tool that holds the lock
  crew,        \* history: the lanes each task has been handed to
  landed,      \* history: the lane and task of the write this step landed
  strays       \* history: tasks whose claim no session tool has accounted for yet
               \* (their revocation died with the server, their session was
               \* started over or had ended before they were handed out, or a
               \* lane took them back by itself)


T == INSTANCE TaskStore WITH MaxAttempts <- MaxResumes

\* The requests are task requests; a lane's write and what a tool has still to do
\* are not nothing.
ASSUME TasksAssumption ==
  /\ MaxTime \in Nat /\ MaxResumes \in Nat
  /\ CreateInputs \subseteq T!CreateRequest /\ UpdateInputs \subseteq T!UpdateRequest
  /\ Nothing \notin [session : Sessions, todo : {"revoke", "synthesize"}]
  /\ Nothing \notin [lane : Lanes, task : TaskIds]

svars == <<session, breaker, proof, tasks, now, owed, crew, landed, strays>>

-----------------------------------------------------------------------------
(* The supervisor's tools *)

\* Those that only write the supervisor store.
SessionOnly(s) ==
  \/ \E e \in Events : RecordEvent(s, e)
  \/ \E in \in TickInputs : TickWaits(s, in) \/ TickInterrupted(s, in)
  \/ \E in \in TickInputs : TickExhausts(s, in) \/ TickBlocks(s, in) \/ TickPingFails(s, in)
  \/ \E c \in Checks : RecordCheck(s, c)
  \/ \E in \in CompleteInputs : CompleteRefused(s, in)

\* Those that go on to revokeSessionTaskLeases.
Revoking(s) ==
  \/ \E in \in TickInputs : TickFailsOver(s, in)
  \/ \E in \in CompleteInputs : CompleteAccepted(s, in)
  \/ "abort" \in Operators /\ Abort(s)

Synthesizing(s) == "synthesize" \in Operators /\ ForceSynthesize(s)

SupervisorWrites(s) ==
  /\ owed = Nothing
  /\ \/ SessionOnly(s) /\ owed' = Nothing
     \/ Revoking(s) /\ owed' = [session |-> s, todo |-> "revoke"]
     \/ Synthesizing(s) /\ owed' = [session |-> s, todo |-> "synthesize"]
  /\ landed' = Nothing
  /\ UNCHANGED <<tasks, now, crew, strays>>

\* supervisor_start_session does nothing to the tasks of an earlier record.
StartsOver(s) ==
  /\ owed = Nothing
  /\ \E restart \in Restarts : Start(s, restart)
  /\ strays' = strays \cup T!OpenLinked(s)
  /\ landed' = Nothing
  /\ UNCHANGED <<tasks, now, owed, crew>>

TasksFollow ==
  /\ owed # Nothing
  /\ IF owed.todo = "revoke" THEN T!RevokeSessionLeases(owed.session)
                             ELSE T!ForceSynthesizeLinked(owed.session)
  /\ strays' = strays \ T!OpenLinked(owed.session)
  /\ owed' = Nothing
  /\ landed' = Nothing
  /\ UNCHANGED <<session, breaker, proof, crew>>

\* The server dies between the two writes and is restarted.
Dies ==
  /\ Crashes
  /\ owed # Nothing
  /\ owed' = Nothing
  /\ landed' = Nothing
  /\ strays' = strays \cup T!OpenLinked(owed.session)
  /\ UNCHANGED <<session, breaker, proof, tasks, now, crew>>

-----------------------------------------------------------------------------
(* The task tools, as the orchestrator and the lanes call them *)

\* The orchestrator hands a task to the lane its session is on.  No tool looks at
\* the session, which may have come to its end.
Handed(t, s) ==
  /\ s \in Sessions /\ Live(s)
  /\ crew' = [crew EXCEPT ![t] = @ \cup {session[s].lane}]
  /\ strays' = IF session[s].status \in Terminal THEN strays \cup {t} ELSE strays
  /\ landed' = Nothing

\* A new task.
Register(t, req) ==
  /\ Handed(t, req.session)
  /\ T!Create(t, req)
  /\ UNCHANGED <<session, breaker, proof, owed>>

\* A lease-only request.
ReLease(t, req) ==
  /\ ~T!IsWriteBack(req)
  /\ T!Update(t, req)
  /\ Handed(t, tasks'[t].session)
  /\ UNCHANGED <<session, breaker, proof, owed>>

\* A lane reopens a task it had finished, or gives it a lease or a session.
TakenBack(t) ==
  \/ ~T!IsOpen(tasks, t) /\ T!IsOpen(tasks', t)
  \/ tasks'[t].lease # tasks[t].lease
  \/ tasks'[t].session # tasks[t].session

LaneWrites(l, t) ==
  /\ l \in crew[t]
  /\ \/ \E req \in UpdateInputs : T!IsWriteBack(req) /\ T!Update(t, req)
     \/ \E note \in Notes \cup {NoNote} : T!Suspend(t, note) \/ T!Resume(t, note)
  /\ landed' = [lane |-> l, task |-> t]
  /\ strays' = IF TakenBack(t) THEN strays \cup {t} ELSE strays
  /\ UNCHANGED <<session, breaker, proof, owed, crew>>

TimePasses == Elapse /\ T!Tick /\ landed' = Nothing /\ UNCHANGED <<owed, crew, strays>>

-----------------------------------------------------------------------------
SInit ==
  /\ Init /\ T!Init
  /\ owed = Nothing
  /\ crew = [t \in TaskIds |-> {}]
  /\ landed = Nothing
  /\ strays = {}

SNext ==
  \/ \E s \in Sessions : SupervisorWrites(s) \/ StartsOver(s)
  \/ TasksFollow
  \/ Dies
  \/ \E t \in TaskIds, req \in CreateInputs : Register(t, req)
  \/ \E t \in TaskIds, req \in UpdateInputs : ReLease(t, req)
  \/ \E l \in Lanes, t \in TaskIds : LaneWrites(l, t)
  \/ TimePasses

SSpec == SInit /\ [][SNext]_svars

-----------------------------------------------------------------------------
(* Properties *)

LiveClaim(t) ==
  tasks[t].lease # NoLease /\ T!IsOpen(tasks, t) /\ T!LeaseAllows(tasks[t].lease)

LinkedLive(t) == tasks[t].session \in Sessions /\ Live(tasks[t].session)

\* A lane lands a result under a claim although its session is on another lane.
Overtaken(l, t) ==
  /\ landed' = [lane |-> l, task |-> t]
  /\ tasks[t].lease # NoLease
  /\ LinkedLive(t)
  /\ l # session[tasks[t].session].lane

\* A lane that its session has been failed away from lands nothing on an open leased
\* task until the task is handed to the session's new lane: it cannot, unless it slips
\* in between the failover's two writes or the second one died with the server.
FailedOverLaneIsFenced ==
  [][\A l \in Lanes, t \in DOMAIN tasks :
       (Overtaken(l, t) /\ T!IsOpen(tasks, t) /\ owed = Nothing /\ t \notin strays) =>
          session[tasks[t].session].lane \in crew[t]]_svars

\* The session has ended so, the tool that ended it is done, and still a lane
\* holds a claim it could write under on an open task of the session.
ClaimOutlives(t, endings) ==
  /\ owed = Nothing
  /\ LinkedLive(t) /\ session[tasks[t].session].status \in endings
  /\ LiveClaim(t)

\* A session that was completed or aborted leaves no live claim, not even one handed
\* out between the two writes of its end.  Three things can leave one, until the next
\* revocation ends that too: a crash between the writes, a lane that takes a task back
\* by itself, and a task handed out when the session had already ended.
FinalizedSessionHoldsNoClaim ==
  \A t \in DOMAIN tasks \ strays : ~ClaimOutlives(t, {"completed", "interrupted"})

\* "Every terminal transition revokes the session's task claims, so an orphaned
\* lane cannot hold a live lease after the session ended", if it was handed the task
\* before that.
EndedSessionHoldsNoClaim ==
  \A t \in DOMAIN tasks \ strays : ~ClaimOutlives(t, Terminal)

\* If the failover's revocation is lost in a crash, the overtaken lane is still
\* stopped by its own deadline.
OvertakenLaneMeetsDeadline ==
  [][\A l \in Lanes, t \in DOMAIN tasks :
       Overtaken(l, t) => now < tasks[t].lease.expiresAt /\ ~tasks[t].lease.revoked]_svars

\* A result that lands between the two writes of a forced synthesis survives it: no
\* tool but a lane's own report turns a finished task into a synthesized one.
SynthesisOverwritesNoResult ==
  [][\A t \in DOMAIN tasks :
       tasks[t].status \in {"done", "canceled"} /\ landed' = Nothing =>
          tasks'[t].status # "force_synthesized"]_svars
=============================================================================
