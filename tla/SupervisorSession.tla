------------------------- MODULE SupervisorSession -------------------------
(***************************************************************************)
(* Supervised sessions: the supervisor store (supervisor_store_runtime.ts),*)
(* its transition rules (supervisor_session_runtime.ts) and the tools that *)
(* apply them.  Each tool prunes the store it has read, changes one        *)
(* session and writes the whole document under withSupervisorStoreLock, so *)
(* it is one action.  What a tool does next to the tasks linked to the     *)
(* session is composed in Supervisor.tla.                                  *)
(*                                                                         *)
(* A timestamp is kept as its age, up to the point where the code stops    *)
(* telling older ones apart; one that is undefined is as old as that.      *)
(* cooldown is what remains of cooldownUntil.  A lane is a host with its   *)
(* model; the fallback queue is a set, because its order is the ranking of *)
(* probes this module does not see.                                        *)
(***************************************************************************)
EXTENDS Naturals, FiniteSets

CONSTANTS
  Sessions, Gone,          \* session ids; no record under this id
  Lanes, NoLane,           \* host and model pairs; none selected
  NoKey,                   \* no recovery was ever started
  ProgressTimeout, HardTimeout, StaleTtl,
  MaxAttempts, MaxFailures,
  BackoffInitial, BackoffMax, FailureReset, BanAfter,
  DedupeWindow, AbortWindow, ValidationWindow,   \* the ReliabilityConfig
  Events,                  \* supervisor_record_event: kinds considered
  TickInputs,              \* supervisor_tick requests considered
  Checks,                  \* completion checks considered
  CompleteInputs,          \* supervisor_complete_session requests considered
  Restarts,                \* values of forceRestart considered
  Operators,               \* which of "abort", "synthesize" may be called
  Crashes,                 \* whether a recovery may die between its two writes
  MaxStalls                \* bound: recoveries stop at this failure count

Terminal == {"completed", "interrupted", "exhausted", "force_synthesized"}
Settled  == Terminal \cup {"blocked"}          \* where a tick does nothing
Status   == Settled \cup {"running", "cooldown"}

\* loadReliabilityConfig: what is not a positive number gives way to the default.
ReliabilityConfig ==
  {ProgressTimeout, HardTimeout, StaleTtl, MaxAttempts, MaxFailures,
   BackoffInitial, BackoffMax, FailureReset, BanAfter,
   DedupeWindow, AbortWindow, ValidationWindow}

ASSUME ReliabilityAssumption == ReliabilityConfig \subseteq Nat \ {0}

ASSUME RequestsAssumption ==
  /\ Events \subseteq {"busy", "output", "idle", "error"}
  /\ TickInputs \subseteq [progress : BOOLEAN, force : BOOLEAN]
  /\ Checks \subseteq {"evidence", "pass", "fail"}
  /\ CompleteInputs \subseteq [outcome : {"completed", "blocked", "interrupted", "exhausted"},
                               force : BOOLEAN]
  /\ Restarts \subseteq BOOLEAN
  /\ Operators \subseteq {"abort", "synthesize"}
  /\ Crashes \in BOOLEAN
  /\ MaxStalls \in Nat
  /\ NoLane \notin Lanes

Reach(bound) == 0 .. bound          \* ages up to and including bound

Session ==
  [status : Status,
   started : Reach(HardTimeout), progress : Reach(StaleTtl + 1),
   output : Reach(ValidationWindow + 1), evidence : Reach(ValidationWindow + 1),
   judge : Reach(ValidationWindow + 1), verdict : {"none", "pass", "fail"},
   abort : Reach(AbortWindow), cooldown : Nat,
   attempts : Nat, failures : Nat, lane : Lanes \cup {NoLane}, queue : SUBSET Lanes,
   inFlight : BOOLEAN, recovery : Reach(3 * DedupeWindow + 1),
   key : (Nat \X Nat \X (Lanes \cup {NoLane})) \cup {NoKey},
   failure : Reach(FailureReset), moved : BOOLEAN]

\* A breaker entry: its cooldownUntil is always lastFailureAt + FailureReset.
Breaker == [count : 0 .. BanAfter, age : Reach(2 * FailureReset + 1)]

VARIABLES
  session,    \* store.sessions
  breaker,    \* store.hostModelFailures; count 0 is no entry
  proof       \* history: the checks recorded since the lane's last output

vars == <<session, breaker, proof>>

-----------------------------------------------------------------------------
(* Time *)

Smaller(m, n) == IF m < n THEN m ELSE n
Older(age, bound) == IF age < bound THEN age + 1 ELSE bound

Aged(r) ==
  [r EXCEPT !.started = Older(@, HardTimeout), !.progress = Older(@, StaleTtl + 1),
            !.output = Older(@, ValidationWindow + 1),
            !.evidence = Older(@, ValidationWindow + 1),
            !.judge = Older(@, ValidationWindow + 1), !.abort = Older(@, AbortWindow),
            !.cooldown = IF @ > 0 THEN @ - 1 ELSE 0,
            !.recovery = Older(@, 3 * DedupeWindow + 1),
            !.failure = Older(@, FailureReset)]

Live(s)  == session[s] # Gone /\ session[s].progress <= StaleTtl
Stale(s) == ~Live(s)                   \* unknown, or forgotten by the next write

\* pruneSupervisorStore, and then the whole-document write.
Pruned(b) ==
  [l \in Lanes |->
     IF \/ b[l].count >= BanAfter /\ b[l].age > FailureReset
        \/ b[l].age > 2 * FailureReset
       THEN [count |-> 0, age |-> 0]
       ELSE b[l]]

Commit(s, r, b) ==
  /\ session' = [u \in Sessions |-> IF u = s THEN r
                                    ELSE IF Stale(u) THEN Gone ELSE session[u]]
  /\ breaker' = b

Banned(b) == {l \in Lanes : b[l].count >= BanAfter /\ b[l].age < FailureReset}

-----------------------------------------------------------------------------
(* Transitions of one record *)

\* Mutant of ClearedProof: new output leaves the old checks standing.
ClearedProof_Kept(r) == r

ClearedProof(r) ==
  [r EXCEPT !.evidence = ValidationWindow + 1, !.judge = ValidationWindow + 1,
            !.verdict = "none"]

\* moved is lastObservedProgressAt > lastFailureAt.
Progressed(r) ==
  [r EXCEPT !.progress = 0, !.moved = @ \/ r.failure > 0, !.cooldown = 0,
            !.status = "running", !.inFlight = FALSE]

WithOutput(r) ==
  Progressed([ClearedProof(r) EXCEPT !.output = 0, !.abort = AbortWindow])

\* applySupervisorEventTransition
AfterEvent(r, e) ==
  CASE e = "busy"   -> Progressed(r)
    [] e = "output" -> WithOutput(r)
    [] e = "error"  -> [r EXCEPT !.abort = 0, !.inFlight = FALSE, !.status = "cooldown"]
    [] OTHER        -> r

\* Mutant of ResetStreak: a quiet window is taken for recovery (MCP-11).
ResetStreak_OnQuiet(r) ==
  IF r.failures > 0 /\ r.failure >= FailureReset THEN [r EXCEPT !.failures = 0] ELSE r

ResetStreak(r) ==
  IF r.failures > 0 /\ r.moved /\ r.failure >= FailureReset
    THEN [r EXCEPT !.failures = 0] ELSE r

\* Mutant of ReleasedLock: a recovery that died keeps its mark.
ReleasedLock_Never(r) == r

ReleasedLock(r) ==
  IF r.inFlight /\ r.recovery > 3 * DedupeWindow THEN [r EXCEPT !.inFlight = FALSE] ELSE r

\* What a tick does before it decides: streak reset, stale lock, progress.
Observed(r, progress) ==
  LET q == ReleasedLock(ResetStreak(r))
  IN  IF progress THEN WithOutput(q) ELSE q

-----------------------------------------------------------------------------
(* supervisor_start_session *)

\* The candidates are whatever unbanned lanes answered the health probes.
Start(s, restart) ==
  /\ Stale(s) \/ restart
  /\ \E queue \in SUBSET (Lanes \ Banned(Pruned(breaker))), lane \in Lanes \cup {NoLane} :
       /\ IF lane = NoLane THEN queue = {}
                           ELSE lane \notin queue \cup Banned(Pruned(breaker))
       /\ Commit(s, [status |-> IF lane = NoLane THEN "blocked" ELSE "running",
                     started |-> 0, progress |-> 0, output |-> ValidationWindow + 1,
                     evidence |-> ValidationWindow + 1, judge |-> ValidationWindow + 1,
                     verdict |-> "none", abort |-> AbortWindow, cooldown |-> 0,
                     attempts |-> IF lane = NoLane THEN 0 ELSE 1, failures |-> 0,
                     lane |-> lane, queue |-> queue, inFlight |-> FALSE,
                     recovery |-> 3 * DedupeWindow + 1, key |-> NoKey,
                     failure |-> FailureReset, moved |-> FALSE], Pruned(breaker))
  /\ proof' = [proof EXCEPT ![s] = {}]

-----------------------------------------------------------------------------
(* supervisor_record_event *)

RecordEvent(s, e) ==
  /\ Live(s)
  /\ Commit(s, AfterEvent(session[s], e), Pruned(breaker))
  /\ proof' = IF e = "output" THEN [proof EXCEPT ![s] = {}] ELSE proof

-----------------------------------------------------------------------------
(* supervisor_tick *)

Cooling(r, force) == r.cooldown > 0 \/ (r.abort < AbortWindow /\ ~force)

Stalled(r, force) ==
  force \/ r.progress >= ProgressTimeout \/ r.started >= HardTimeout

RecoveryKey(r) == <<r.attempts, r.failures, r.lane>>

Deduped(r) == r.key = RecoveryKey(r) /\ r.recovery < DedupeWindow

Recoverable(r, force) ==
  /\ r.status \notin Settled
  /\ ~Cooling(r, force)
  /\ Stalled(r, force)
  /\ ~r.inFlight
  /\ ~Deduped(r)

\* The status a tick that starts no recovery writes back.
Waiting(r, force) ==
  IF r.status \in Settled THEN r.status
  ELSE IF Cooling(r, force) THEN "cooldown"
  ELSE IF ~Stalled(r, force) THEN "running"
  ELSE r.status

TickProof(s, in) == proof' = IF in.progress THEN [proof EXCEPT ![s] = {}] ELSE proof

TickWaits(s, in) ==
  /\ Live(s)
  /\ LET r == Observed(session[s], in.progress)
     IN  /\ ~Recoverable(r, in.force)
         /\ Commit(s, [r EXCEPT !.status = Waiting(r, in.force)], Pruned(breaker))
  /\ TickProof(s, in)

\* The first write of a recovery: the key and the in-flight mark.
Claimed(r) == [r EXCEPT !.key = RecoveryKey(r), !.recovery = 0, !.inFlight = TRUE]

\* The process dies while it looks for a lane: only the first write is there.
TickInterrupted(s, in) ==
  /\ Crashes
  /\ Live(s)
  /\ LET r == Observed(session[s], in.progress)
     IN  /\ Recoverable(r, in.force)
         /\ Commit(s, Claimed(r), Pruned(breaker))
  /\ TickProof(s, in)

\* The stall is counted against the session and against its lane.
Failed(r) == [Claimed(r) EXCEPT !.failures = @ + 1, !.failure = 0, !.moved = FALSE,
                                !.inFlight = FALSE]

\* A count is kept only up to BanAfter, beyond which it makes no difference.
Charged(b, lane) ==
  [l \in Lanes |-> IF l = lane THEN [count |-> Smaller(b[l].count + 1, BanAfter), age |-> 0]
                               ELSE b[l]]

BudgetSpent(r) == r.failures >= MaxFailures \/ r.attempts >= MaxAttempts

Backoff(n) == Smaller(BackoffMax, BackoffInitial * 2 ^ (IF n > 0 THEN n - 1 ELSE 0))

\* The fallback queue first; once it is empty the unbanned lanes that answer.
NextLanes(r, b) ==
  IF r.queue # {} THEN {[lane |-> l, queue |-> r.queue \ {l}] : l \in r.queue}
  ELSE UNION {{[lane |-> l, queue |-> q] : q \in SUBSET (Lanes \ (Banned(b) \cup {r.lane, l}))}
                : l \in Lanes \ (Banned(b) \cup {r.lane})}

\* A recovery that ran to its second write: the session after its failure was
\* counted, the breaker after its lane was charged, and what the tool leaves.
AfterFailure(s, in) == Failed(Observed(session[s], in.progress))
BreakerAfter(s)     == Charged(Pruned(breaker), session[s].lane)

Recovery(s, in, outcomes) ==
  /\ Live(s)
  /\ Recoverable(Observed(session[s], in.progress), in.force)
  /\ session[s].failures < MaxStalls
  /\ \E g \in outcomes : Commit(s, g, BreakerAfter(s))
  /\ TickProof(s, in)

Exhausted(f) == IF BudgetSpent(f) THEN {[f EXCEPT !.status = "exhausted"]} ELSE {}

\* No queue, and no unbanned lane answers.
Blocked(f) ==
  IF ~BudgetSpent(f) /\ f.queue = {} THEN {[f EXCEPT !.status = "blocked"]} ELSE {}

PingFailed(f, b) ==
  IF BudgetSpent(f) THEN {}
  ELSE {[f EXCEPT !.queue = n.queue, !.status = "cooldown", !.cooldown = DedupeWindow]
          : n \in NextLanes(f, b)}

\* Mutant of Fallback: no backoff.
Fallback_AtOnce(f, b) ==
  IF BudgetSpent(f) THEN {}
  ELSE {[f EXCEPT !.lane = n.lane, !.queue = n.queue, !.attempts = @ + 1,
                  !.status = "cooldown", !.progress = 0] : n \in NextLanes(f, b)}

Fallback(f, b) ==
  IF BudgetSpent(f) THEN {}
  ELSE {[f EXCEPT !.lane = n.lane, !.queue = n.queue, !.attempts = @ + 1,
                  !.status = "cooldown", !.cooldown = Backoff(f.failures), !.progress = 0]
          : n \in NextLanes(f, b)}

TickExhausts(s, in)  == Recovery(s, in, Exhausted(AfterFailure(s, in)))
TickBlocks(s, in)    == Recovery(s, in, Blocked(AfterFailure(s, in)))
TickPingFails(s, in) == Recovery(s, in, PingFailed(AfterFailure(s, in), BreakerAfter(s)))
TickFailsOver(s, in) == Recovery(s, in, Fallback(AfterFailure(s, in), BreakerAfter(s)))

-----------------------------------------------------------------------------
(* supervisor_record_completion_check and supervisor_complete_session *)

RecordCheck(s, c) ==
  /\ Live(s)
  /\ Commit(s, IF c = "evidence" THEN [session[s] EXCEPT !.evidence = 0]
                                 ELSE [session[s] EXCEPT !.judge = 0, !.verdict = c],
            Pruned(breaker))
  /\ proof' = [proof EXCEPT ![s] = IF c = "fail" THEN @ \ {"pass"} ELSE @ \cup {c}]

\* evaluateCompletionReadiness
Ready(r) ==
  /\ r.output <= ValidationWindow
  /\ r.evidence <= ValidationWindow
  /\ r.evidence <= r.output               \* not before the last output
  /\ r.verdict = "pass" /\ r.judge <= ValidationWindow
  /\ r.judge <= r.evidence                \* not before the evidence

Gated(in) == in.outcome = "completed" /\ ~in.force

CompleteAccepted(s, in) ==
  /\ Live(s)
  /\ session[s].status \notin Terminal
  /\ Gated(in) => Ready(session[s])
  /\ Commit(s, [session[s] EXCEPT !.status = in.outcome, !.progress = 0,
                                  !.abort = AbortWindow, !.inFlight = FALSE],
            Pruned(breaker))
  /\ UNCHANGED proof

\* Ready or not, the memory-drift and goal-contract gates may refuse: they are
\* the environment's.  A refusal writes the pruned store and an event.
CompleteRefused(s, in) ==
  /\ Live(s)
  /\ session[s].status \notin Terminal
  /\ Gated(in)
  /\ Commit(s, session[s], Pruned(breaker))
  /\ UNCHANGED proof

-----------------------------------------------------------------------------
(* supervisor_abort_session and supervisor_force_synthesis *)

Abort(s) ==
  /\ Live(s)
  /\ session[s].status \notin Terminal
  /\ Commit(s, [session[s] EXCEPT !.status = "interrupted", !.progress = 0, !.cooldown = 0,
                                  !.inFlight = FALSE], Pruned(breaker))
  /\ UNCHANGED proof

SynthesisTriggered(r) ==
  \/ r.status \in {"exhausted", "blocked"}
  \/ BudgetSpent(r)
  \/ r.started >= HardTimeout
  \/ r.progress >= ProgressTimeout

ForceSynthesize(s) ==
  /\ Live(s)
  /\ session[s].status \notin Terminal \ {"exhausted"}
  /\ SynthesisTriggered(session[s])
  /\ Commit(s, [session[s] EXCEPT !.status = "force_synthesized", !.inFlight = FALSE],
            Pruned(breaker))
  /\ UNCHANGED proof

Elapse ==
  /\ session' = [s \in Sessions |-> IF session[s] = Gone THEN Gone ELSE Aged(session[s])]
  /\ breaker' = [l \in Lanes |->
                   IF breaker[l].count = 0 THEN breaker[l]
                   ELSE [breaker[l] EXCEPT !.age = Older(@, 2 * FailureReset + 1)]]
  /\ UNCHANGED proof

-----------------------------------------------------------------------------
Init ==
  /\ session = [s \in Sessions |-> Gone]
  /\ breaker = [l \in Lanes |-> [count |-> 0, age |-> 0]]
  /\ proof = [s \in Sessions |-> {}]

TickRecovers(s) ==
  \E in \in TickInputs :
     \/ TickExhausts(s, in) \/ TickBlocks(s, in)
     \/ TickPingFails(s, in) \/ TickFailsOver(s, in)

Next ==
  \/ \E s \in Sessions, restart \in Restarts : Start(s, restart)
  \/ \E s \in Sessions, e \in Events : RecordEvent(s, e)
  \/ \E s \in Sessions, in \in TickInputs : TickWaits(s, in) \/ TickInterrupted(s, in)
  \/ \E s \in Sessions : TickRecovers(s)
  \/ \E s \in Sessions, c \in Checks : RecordCheck(s, c)
  \/ \E s \in Sessions, in \in CompleteInputs : CompleteAccepted(s, in) \/ CompleteRefused(s, in)
  \/ \E s \in Sessions : "abort" \in Operators /\ Abort(s)
  \/ \E s \in Sessions : "synthesize" \in Operators /\ ForceSynthesize(s)
  \/ Elapse

Spec == Init /\ [][Next]_vars

-----------------------------------------------------------------------------
(* Properties *)

\* The documents hold well-formed records.
TypeOK ==
  /\ session \in [Sessions -> Session \cup {Gone}]
  /\ breaker \in [Lanes -> Breaker]
  /\ proof \in [Sessions -> SUBSET {"evidence", "pass"}]

\* What the lane's silence means: no request brings news, and nobody starts the
\* session over.
Silent ==
  /\ Events = {}
  /\ \A in \in TickInputs : ~in.progress
  /\ TRUE \notin Restarts

\* The same record before and after: neither opened nor replaced in this step.
Steps(s) == Live(s) /\ session'[s] # Gone

\* A session never spends more lanes than maxAttemptsPerSlice, and while it can
\* still move it has failures left: whatever the order of stalls, failed pings,
\* crashes and forced recoveries of a silent lane.
BudgetHolds ==
  \A s \in Sessions : session[s] # Gone =>
     /\ session[s].attempts <= MaxAttempts
     /\ session[s].status \notin Settled => session[s].failures < MaxFailures

\* MCP-11: a lane that stays silent is never forgiven a failure, however slowly
\* the session is polled; a fallback is recovery, not progress.
SilenceIsNotForgiven ==
  [][\A s \in Sessions : Steps(s) => session'[s].failures >= session[s].failures]_vars

\* A silent session is not failed over twice in a burst: after a failed recovery
\* at least the shorter of backoff and dedupe window passes, even when the
\* caller forces recovery and a crash lost the in-flight mark.
FailoversPaced ==
  [][\A s \in Sessions :
       (Steps(s) /\ session'[s].attempts > session[s].attempts /\ session[s].failures > 0) =>
          session[s].failure >= Smaller(Backoff(session[s].failures), DedupeWindow)]_vars

\* A completion that is not forced is accepted only when both an evidence check and
\* a passing judge were recorded since the last output, in any interleaving of
\* outputs, ticks that observe progress, failovers, checks and refusals.
CompletionIsProven ==
  [][\A s \in Sessions, in \in CompleteInputs :
       Gated(in) /\ CompleteAccepted(s, in) => proof[s] = {"evidence", "pass"}]_vars

=============================================================================
