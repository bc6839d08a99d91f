-------------------------- MODULE Supervisor_proofs --------------------------
(***************************************************************************)
(* Theorems about the supervisor, for every set of sessions and lanes,     *)
(* every ReliabilityConfig and every set of requests:                      *)
(*   - SupervisorSession: types, proven completions, budgets and pacing;   *)
(*   - Completion: the gates implement SupervisorSession and validate;     *)
(*   - Supervisor: the composition implements the supervisor store and the *)
(*     task store, and the claims the two keep about each other.           *)
(***************************************************************************)
EXTENDS Supervisor, Completion, Integers, FiniteSetTheorems, TLAPS

-----------------------------------------------------------------------------
(* Constants and arithmetic *)

LEMMA ConfigType ==
  /\ ProgressTimeout \in Nat /\ HardTimeout \in Nat /\ StaleTtl \in Nat
  /\ MaxAttempts \in Nat \ {0} /\ MaxFailures \in Nat \ {0}
  /\ BackoffInitial \in Nat /\ BackoffMax \in Nat /\ FailureReset \in Nat
  /\ BanAfter \in Nat \ {0} /\ DedupeWindow \in Nat /\ AbortWindow \in Nat
  /\ ValidationWindow \in Nat
BY ReliabilityAssumption DEF ReliabilityConfig

\* The number of subsets of a set of n elements is a natural number.
LEMMA PowerType == ASSUME NEW n \in Nat PROVE 2 ^ n \in Nat
<1>1. IsFiniteSet(1 .. n) /\ Cardinality(1 .. n) = n
  BY FS_Interval
<1>2. IsFiniteSet(SUBSET (1 .. n)) /\ Cardinality(SUBSET (1 .. n)) = 2 ^ n
  BY <1>1, FS_SUBSET
<1>3. QED
  BY <1>2, FS_CardinalityType

LEMMA BackoffType == ASSUME NEW n \in Nat PROVE Backoff(n) \in Nat
<1> DEFINE k == IF n > 0 THEN n - 1 ELSE 0
<1>1. k \in Nat
  OBVIOUS
<1>2. 2 ^ k \in Nat
  BY <1>1, PowerType
<1> HIDE DEF k
<1>3. BackoffInitial * 2 ^ k \in Nat
  BY <1>2, ConfigType
<1>4. Smaller(BackoffMax, BackoffInitial * 2 ^ k) \in Nat
  BY <1>3, ConfigType DEF Smaller
<1>5. QED
  BY <1>4 DEF Backoff, k

LEMMA OlderType ==
  ASSUME NEW bound \in Nat, NEW age \in Reach(bound)
  PROVE  Older(age, bound) \in Reach(bound) /\ Older(age, bound) >= age
BY DEF Older, Reach

\* The ages a transition writes.
LEMMA AgeType ==
  /\ 0 \in Reach(HardTimeout) /\ 0 \in Reach(StaleTtl + 1) /\ 0 \in Reach(AbortWindow)
  /\ 0 \in Reach(ValidationWindow + 1) /\ 0 \in Reach(3 * DedupeWindow + 1)
  /\ 0 \in Reach(FailureReset) /\ AbortWindow \in Reach(AbortWindow)
  /\ ValidationWindow + 1 \in Reach(ValidationWindow + 1)
  /\ 3 * DedupeWindow + 1 \in Reach(3 * DedupeWindow + 1)
  /\ FailureReset \in Reach(FailureReset)
BY ConfigType DEF Reach

-----------------------------------------------------------------------------
(* The transitions of a record are well typed *)

LEMMA AgedType == ASSUME NEW r \in Session PROVE Aged(r) \in Session
<1>1. /\ Older(r.started, HardTimeout) \in Reach(HardTimeout)
      /\ Older(r.progress, StaleTtl + 1) \in Reach(StaleTtl + 1)
      /\ Older(r.output, ValidationWindow + 1) \in Reach(ValidationWindow + 1)
      /\ Older(r.evidence, ValidationWindow + 1) \in Reach(ValidationWindow + 1)
      /\ Older(r.judge, ValidationWindow + 1) \in Reach(ValidationWindow + 1)
      /\ Older(r.abort, AbortWindow) \in Reach(AbortWindow)
      /\ Older(r.recovery, 3 * DedupeWindow + 1) \in Reach(3 * DedupeWindow + 1)
      /\ Older(r.failure, FailureReset) \in Reach(FailureReset)
  BY ConfigType, OlderType DEF Session
<1>2. (IF r.cooldown > 0 THEN r.cooldown - 1 ELSE 0) \in Nat
  BY DEF Session
<1>3. QED
  BY <1>1, <1>2 DEF Aged, Session

\* The two flags, one at a time.
LEMMA FlagType ==
  ASSUME NEW r \in Session, NEW b \in BOOLEAN
  PROVE  /\ [r EXCEPT !.inFlight = b] \in Session
         /\ [r EXCEPT !.moved = b] \in Session
BY Zenon DEF Session

LEMMA ProgressedType == ASSUME NEW r \in Session PROVE Progressed(r) \in Session
<1> DEFINE q == [r EXCEPT !.progress = 0, !.cooldown = 0, !.status = "running"]
           m == r.moved \/ r.failure > 0
<1>1. q \in Session
  BY AgeType DEF Session, Status
<1>2. [[q EXCEPT !.inFlight = FALSE] EXCEPT !.moved = m] \in Session
  <2>1. m \in BOOLEAN
    OBVIOUS
  <2>2. QED
    BY <1>1, <2>1, FlagType
<1>3. Progressed(r) = [[q EXCEPT !.inFlight = FALSE] EXCEPT !.moved = m]
  BY DEF Progressed, Session
<1>4. QED
  BY <1>2, <1>3

LEMMA WithOutputType == ASSUME NEW r \in Session PROVE WithOutput(r) \in Session
<1>1. [ClearedProof(r) EXCEPT !.output = 0, !.abort = AbortWindow] \in Session
  BY AgeType DEF ClearedProof, Session
<1>2. QED
  BY <1>1, ProgressedType DEF WithOutput

LEMMA EventType ==
  ASSUME NEW r \in Session, NEW e \in Events
  PROVE  AfterEvent(r, e) \in Session
<1> DEFINE q == [r EXCEPT !.abort = 0, !.status = "cooldown"]
<1>1. q \in Session
  BY AgeType DEF Session, Status
<1>2. [r EXCEPT !.abort = 0, !.inFlight = FALSE, !.status = "cooldown"]
        = [q EXCEPT !.inFlight = FALSE]
  BY DEF Session
<1>3. [r EXCEPT !.abort = 0, !.inFlight = FALSE, !.status = "cooldown"] \in Session
  BY <1>1, <1>2, FlagType
<1>4. QED
  BY <1>3, ProgressedType, WithOutputType DEF AfterEvent

LEMMA ObservedType ==
  ASSUME NEW r \in Session, NEW p \in BOOLEAN
  PROVE  Observed(r, p) \in Session
<1>1. \A q \in Session : ResetStreak(q) \in Session
  BY DEF ResetStreak, Session
<1>2. \A q \in Session : ReleasedLock(q) \in Session
  BY FlagType DEF ReleasedLock
<1>3. QED
  BY <1>1, <1>2, WithOutputType DEF Observed

LEMMA FailedType ==
  ASSUME NEW r \in Session
  PROVE  Claimed(r) \in Session /\ Failed(r) \in Session
<1> DEFINE c == [r EXCEPT !.key = RecoveryKey(r), !.recovery = 0]
           f == [Claimed(r) EXCEPT !.failures = @ + 1, !.failure = 0]
<1>1. RecoveryKey(r) \in Nat \X Nat \X (Lanes \cup {NoLane})
  BY DEF RecoveryKey, Session
<1>2. c \in Session
  BY <1>1, AgeType DEF Session
<1>3. Claimed(r) = [c EXCEPT !.inFlight = TRUE]
  BY DEF Claimed, Session
<1>4. Claimed(r) \in Session
  BY <1>2, <1>3, FlagType
<1>5. f \in Session
  <2>1. \A q \in Session, n \in Nat : [q EXCEPT !.failures = n, !.failure = 0] \in Session
    BY AgeType DEF Session
  <2>2. Claimed(r).failures + 1 \in Nat
    BY <1>4 DEF Session
  <2>3. QED
    BY <1>4, <2>1, <2>2
<1>6. Failed(r) = [[f EXCEPT !.moved = FALSE] EXCEPT !.inFlight = FALSE]
  BY <1>4 DEF Failed, Session
<1>7. QED
  BY <1>4, <1>5, <1>6, FlagType

\* What a recovery may leave.
LEMMA OutcomeType ==
  ASSUME NEW f \in Session, NEW b, NEW g,
         g \in Exhausted(f) \cup Blocked(f) \cup PingFailed(f, b) \cup Fallback(f, b)
  PROVE  g \in Session
<1>1. \A n \in NextLanes(f, b) : n.lane \in Lanes /\ n.queue \in SUBSET Lanes
  BY DEF NextLanes, Session
<1>2. CASE g \in Exhausted(f) \cup Blocked(f)
  BY <1>2 DEF Exhausted, Blocked, Session, Status, Settled, Terminal
<1>3. CASE g \in PingFailed(f, b)
  <2>1. PICK n \in NextLanes(f, b) :
          g = [f EXCEPT !.queue = n.queue, !.status = "cooldown", !.cooldown = DedupeWindow]
    BY <1>3, Zenon DEF PingFailed
  <2>2. QED
    BY <1>1, <2>1, ConfigType DEF Session, Status
<1>4. CASE g \in Fallback(f, b)
  <2>1. PICK n \in NextLanes(f, b) :
          g = [f EXCEPT !.lane = n.lane, !.queue = n.queue, !.attempts = @ + 1,
                        !.status = "cooldown", !.cooldown = Backoff(f.failures), !.progress = 0]
    BY <1>4, Zenon DEF Fallback
  <2>2. Backoff(f.failures) \in Nat
    BY BackoffType DEF Session
  <2>3. f.attempts + 1 \in Nat
    BY DEF Session
  <2>4. n.lane \in Lanes /\ n.queue \in SUBSET Lanes
    BY <1>1
  <2>5. \A l \in Lanes, q \in SUBSET Lanes, k \in Nat, c \in Nat :
           [f EXCEPT !.lane = l, !.queue = q, !.attempts = k, !.status = "cooldown",
                     !.cooldown = c, !.progress = 0] \in Session
    BY AgeType DEF Session, Status
  <2>6. QED
    BY <2>1, <2>2, <2>3, <2>4, <2>5
<1>5. QED
  BY <1>2, <1>3, <1>4

-----------------------------------------------------------------------------
(* The two documents *)

LEMMA PrunedType ==
  ASSUME NEW b \in [Lanes -> Breaker]
  PROVE  Pruned(b) \in [Lanes -> Breaker]
<1>1. [count |-> 0, age |-> 0] \in Breaker
  BY ConfigType DEF Breaker, Reach
<1>2. QED
  BY <1>1 DEF Pruned

LEMMA ChargedType ==
  ASSUME NEW b \in [Lanes -> Breaker], NEW lane
  PROVE  Charged(b, lane) \in [Lanes -> Breaker]
<1>1. \A l \in Lanes : [count |-> Smaller(b[l].count + 1, BanAfter), age |-> 0] \in Breaker
  BY ConfigType DEF Breaker, Reach, Smaller
<1>2. QED
  BY <1>1 DEF Charged

LEMMA LiveType == ASSUME TypeOK, NEW s \in Sessions, Live(s) PROVE session[s] \in Session
BY DEF TypeOK, Live

\* What a whole-document write leaves of the other sessions, and its types.
LEMMA CommitType ==
  ASSUME TypeOK, NEW s \in Sessions, NEW r \in Session, NEW b \in [Lanes -> Breaker],
         Commit(s, r, b)
  PROVE  /\ session' \in [Sessions -> Session \cup {Gone}]
         /\ breaker' \in [Lanes -> Breaker]
         /\ session'[s] = r
         /\ \A u \in Sessions \ {s} : session'[u] \in {session[u], Gone}
BY DEF TypeOK, Commit

LEMMA StartType ==
  ASSUME NEW queue \in SUBSET Lanes, NEW lane \in Lanes \cup {NoLane},
         NEW st \in Status, NEW n \in Nat
  PROVE  [status |-> st,
          started |-> 0, progress |-> 0, output |-> ValidationWindow + 1,
          evidence |-> ValidationWindow + 1, judge |-> ValidationWindow + 1,
          verdict |-> "none", abort |-> AbortWindow, cooldown |-> 0,
          attempts |-> n, failures |-> 0,
          lane |-> lane, queue |-> queue, inFlight |-> FALSE,
          recovery |-> 3 * DedupeWindow + 1, key |-> NoKey,
          failure |-> FailureReset, moved |-> FALSE] \in Session
BY AgeType DEF Session

\* A recovery, whichever way it ends.
LEMMA RecoveryStep ==
  ASSUME NEW s \in Sessions, TickRecovers(s)
  PROVE  \E in, g :
            /\ in \in TickInputs
            /\ Live(s)
            /\ Recoverable(Observed(session[s], in.progress), in.force)
            /\ g \in Exhausted(AfterFailure(s, in)) \cup Blocked(AfterFailure(s, in))
                       \cup PingFailed(AfterFailure(s, in), BreakerAfter(s))
                       \cup Fallback(AfterFailure(s, in), BreakerAfter(s))
            /\ Commit(s, g, BreakerAfter(s))
            /\ TickProof(s, in)
BY Zenon DEF TickRecovers, TickExhausts, TickBlocks, TickPingFails, TickFailsOver, Recovery

\* The record each of the closing tools writes.
LEMMA ClosingType ==
  ASSUME NEW r \in Session
  PROVE  /\ \A st \in Status :
              [r EXCEPT !.status = st, !.progress = 0, !.abort = AbortWindow,
                        !.inFlight = FALSE] \in Session
         /\ [r EXCEPT !.status = "interrupted", !.progress = 0, !.cooldown = 0,
                      !.inFlight = FALSE] \in Session
         /\ [r EXCEPT !.status = "force_synthesized", !.inFlight = FALSE] \in Session
<1>1. \A st \in Status :
        [r EXCEPT !.status = st, !.progress = 0, !.abort = AbortWindow] \in Session
  BY AgeType DEF Session
<1>2. \A st \in Status :
        [r EXCEPT !.status = st, !.progress = 0, !.abort = AbortWindow, !.inFlight = FALSE]
          = [[r EXCEPT !.status = st, !.progress = 0, !.abort = AbortWindow]
               EXCEPT !.inFlight = FALSE]
  BY DEF Session
<1>3. /\ [r EXCEPT !.status = "interrupted", !.progress = 0, !.cooldown = 0] \in Session
      /\ [r EXCEPT !.status = "force_synthesized"] \in Session
  BY AgeType DEF Session, Status, Settled, Terminal
<1>4. /\ [r EXCEPT !.status = "interrupted", !.progress = 0, !.cooldown = 0, !.inFlight = FALSE]
           = [[r EXCEPT !.status = "interrupted", !.progress = 0, !.cooldown = 0]
                EXCEPT !.inFlight = FALSE]
      /\ [r EXCEPT !.status = "force_synthesized", !.inFlight = FALSE]
           = [[r EXCEPT !.status = "force_synthesized"] EXCEPT !.inFlight = FALSE]
  BY DEF Session
<1>5. QED
  BY <1>1, <1>2, <1>3, <1>4, FlagType

LEMMA WaitingType ==
  ASSUME NEW r \in Session, NEW force
  PROVE  /\ Waiting(r, force) \in Status
         /\ [r EXCEPT !.status = Waiting(r, force)] \in Session
<1>1. Waiting(r, force) \in Status
  BY DEF Waiting, Session, Status
<1>2. QED
  BY <1>1 DEF Session

-----------------------------------------------------------------------------
(* Type correctness *)

\* Every tool keeps both documents and the history well typed.
LEMMA TypeStep ==
  ASSUME TypeOK, [Next]_vars
  PROVE  TypeOK'
<1> DEFINE Breakers == [Lanes -> Breaker]
           Proofs == [Sessions -> SUBSET {"evidence", "pass"}]
<1>0. Pruned(breaker) \in Breakers /\ proof \in Proofs
  BY PrunedType DEF TypeOK
<1>a. ASSUME NEW s \in Sessions, NEW r \in Session, NEW b \in Breakers, Commit(s, r, b),
             proof' \in Proofs
      PROVE  TypeOK'
  BY <1>a, CommitType DEF TypeOK
<1>b. ASSUME NEW s \in Sessions, NEW in \in TickInputs, TickProof(s, in)
      PROVE  proof' \in Proofs
  BY <1>0, <1>b DEF TickProof
<1>c. \A in \in TickInputs : in.progress \in BOOLEAN
  BY RequestsAssumption
<1>1. ASSUME NEW s \in Sessions, NEW restart \in Restarts, Start(s, restart)
      PROVE  TypeOK'
  <2>1. PICK queue \in SUBSET (Lanes \ Banned(Pruned(breaker))), lane \in Lanes \cup {NoLane} :
          Commit(s, [status |-> IF lane = NoLane THEN "blocked" ELSE "running",
                     started |-> 0, progress |-> 0, output |-> ValidationWindow + 1,
                     evidence |-> ValidationWindow + 1, judge |-> ValidationWindow + 1,
                     verdict |-> "none", abort |-> AbortWindow, cooldown |-> 0,
                     attempts |-> IF lane = NoLane THEN 0 ELSE 1, failures |-> 0,
                     lane |-> lane, queue |-> queue, inFlight |-> FALSE,
                     recovery |-> 3 * DedupeWindow + 1, key |-> NoKey,
                     failure |-> FailureReset, moved |-> FALSE], Pruned(breaker))
    BY <1>1 DEF Start
  <2>2. proof' \in Proofs
    BY <1>0, <1>1 DEF Start
  <2>3. /\ (IF lane = NoLane THEN "blocked" ELSE "running") \in Status
        /\ (IF lane = NoLane THEN 0 ELSE 1) \in Nat
        /\ queue \in SUBSET Lanes
    BY DEF Status, Settled
  <2>4. QED
    BY <1>0, <1>a, <2>1, <2>2, <2>3, StartType
<1>2. ASSUME NEW s \in Sessions, NEW e \in Events, RecordEvent(s, e)
      PROVE  TypeOK'
  <2>1. AfterEvent(session[s], e) \in Session
    BY <1>2, LiveType, EventType DEF RecordEvent
  <2>2. proof' \in Proofs
    BY <1>0, <1>2 DEF RecordEvent
  <2>3. QED
    BY <1>0, <1>2, <1>a, <2>1, <2>2 DEF RecordEvent
<1>3. ASSUME NEW s \in Sessions, NEW in \in TickInputs, TickWaits(s, in)
      PROVE  TypeOK'
  <2>1. Observed(session[s], in.progress) \in Session
    BY <1>3, <1>c, LiveType, ObservedType DEF TickWaits
  <2>2. QED
    BY <1>0, <1>3, <1>a, <1>b, <2>1, WaitingType DEF TickWaits
<1>4. ASSUME NEW s \in Sessions, NEW in \in TickInputs, TickInterrupted(s, in)
      PROVE  TypeOK'
  <2>1. Claimed(Observed(session[s], in.progress)) \in Session
    BY <1>4, <1>c, LiveType, ObservedType, FailedType DEF TickInterrupted
  <2>2. QED
    BY <1>0, <1>4, <1>a, <1>b, <2>1 DEF TickInterrupted
<1>5. ASSUME NEW s \in Sessions, TickRecovers(s)
      PROVE  TypeOK'
  <2>1. PICK in, g :
            /\ in \in TickInputs
            /\ Live(s)
            /\ g \in Exhausted(AfterFailure(s, in)) \cup Blocked(AfterFailure(s, in))
                       \cup PingFailed(AfterFailure(s, in), BreakerAfter(s))
                       \cup Fallback(AfterFailure(s, in), BreakerAfter(s))
            /\ Commit(s, g, BreakerAfter(s))
            /\ TickProof(s, in)
    BY <1>5, RecoveryStep
  <2>2. AfterFailure(s, in) \in Session
    BY <1>c, <2>1, LiveType, ObservedType, FailedType DEF AfterFailure
  <2>3. g \in Session
    BY <2>1, <2>2, OutcomeType
  <2>4. BreakerAfter(s) \in Breakers
    BY <1>0, ChargedType DEF BreakerAfter
  <2>5. QED
    BY <1>a, <1>b, <2>1, <2>3, <2>4
<1>6. ASSUME NEW s \in Sessions, NEW c \in Checks, RecordCheck(s, c)
      PROVE  TypeOK'
  <2>1. c \in {"evidence", "pass", "fail"}
    BY RequestsAssumption
  <2>a. session[s] \in Session
    BY <1>6, LiveType DEF RecordCheck
  <2>b. \A r \in Session : /\ [r EXCEPT !.evidence = 0] \in Session
                           /\ \A v \in {"pass", "fail"} :
                                [r EXCEPT !.judge = 0, !.verdict = v] \in Session
    BY AgeType DEF Session
  <2>2. (IF c = "evidence" THEN [session[s] EXCEPT !.evidence = 0]
                           ELSE [session[s] EXCEPT !.judge = 0, !.verdict = c]) \in Session
    BY <2>1, <2>a, <2>b
  <2>3. proof' \in Proofs
    BY <1>0, <1>6, <2>1 DEF RecordCheck
  <2>4. QED
    BY <1>0, <1>6, <1>a, <2>2, <2>3 DEF RecordCheck
<1>7. ASSUME NEW s \in Sessions, NEW in \in CompleteInputs,
             CompleteAccepted(s, in) \/ CompleteRefused(s, in)
      PROVE  TypeOK'
  <2>1. in.outcome \in Status
    BY RequestsAssumption DEF Status, Settled, Terminal
  <2>2. QED
    BY <1>0, <1>7, <1>a, <2>1, LiveType, ClosingType DEF CompleteAccepted, CompleteRefused
<1>8. ASSUME NEW s \in Sessions, Abort(s) \/ ForceSynthesize(s)
      PROVE  TypeOK'
  BY <1>0, <1>8, <1>a, LiveType, ClosingType DEF Abort, ForceSynthesize
<1>9. CASE Elapse
  <2>1. \A b \in Breaker : [b EXCEPT !.age = Older(@, 2 * FailureReset + 1)] \in Breaker
    <3>1. \A a \in Reach(2 * FailureReset + 1) :
            Older(a, 2 * FailureReset + 1) \in Reach(2 * FailureReset + 1)
      BY ConfigType, OlderType
    <3>2. QED
      BY <3>1 DEF Breaker
  <2>2. QED
    BY <1>0, <1>9, <2>1, AgedType DEF Elapse, TypeOK
<1>10. CASE UNCHANGED vars
  BY <1>10 DEF vars, TypeOK
<1>11. QED
  BY <1>1, <1>2, <1>3, <1>4, <1>5, <1>6, <1>7, <1>8, <1>9, <1>10 DEF Next

THEOREM TypeCorrect == Spec => []TypeOK
<1>1. Init => TypeOK
  BY ConfigType DEF Init, TypeOK, Breaker, Reach
<1>2. QED
  BY <1>1, TypeStep, PTL DEF Spec

-----------------------------------------------------------------------------
(* Completion is proven *)

\* The inductive invariant: proof fields that still count were earned since the
\* last output.  Only output empties proof, and then ClearedProof resets both fields.
Earned(s) ==
  session[s] # Gone =>
     /\ session[s].evidence <= ValidationWindow => "evidence" \in proof[s]
     /\ session[s].verdict = "pass" => "pass" \in proof[s]

ProofInv == TypeOK /\ \A s \in Sessions : Earned(s)

\* A record that keeps its proof fields, or has them reset.
SameProof(q, r) == r.evidence = q.evidence /\ r.verdict = q.verdict
NoProof(r) == r.evidence = ValidationWindow + 1 /\ r.verdict = "none"

LEMMA OutputHasNoProof == ASSUME NEW r \in Session PROVE NoProof(WithOutput(r))
BY DEF NoProof, WithOutput, Progressed, ClearedProof, Session

LEMMA EventProof ==
  ASSUME NEW r \in Session, NEW e
  PROVE  IF e = "output" THEN NoProof(AfterEvent(r, e)) ELSE SameProof(r, AfterEvent(r, e))
BY OutputHasNoProof DEF AfterEvent, SameProof, Progressed, Session

LEMMA ObservedProof ==
  ASSUME NEW r \in Session, NEW p \in BOOLEAN
  PROVE  IF p THEN NoProof(Observed(r, p)) ELSE SameProof(r, Observed(r, p))
<1> DEFINE q == ReleasedLock(ResetStreak(r))
<1>1. q \in Session
  BY ObservedType DEF Observed
<1>2. SameProof(r, q)
  BY DEF ReleasedLock, ResetStreak, SameProof, Session
<1>3. QED
  BY <1>1, <1>2, OutputHasNoProof DEF Observed

LEMMA FailedProof ==
  ASSUME NEW r \in Session
  PROVE  SameProof(r, Claimed(r)) /\ SameProof(r, Failed(r))
BY FailedType DEF Claimed, Failed, SameProof, Session

LEMMA OutcomeProof ==
  ASSUME NEW f \in Session, NEW b, NEW g,
         g \in Exhausted(f) \cup Blocked(f) \cup PingFailed(f, b) \cup Fallback(f, b)
  PROVE  SameProof(f, g)
<1>1. CASE g \in Exhausted(f) \cup Blocked(f)
  BY <1>1 DEF Exhausted, Blocked, SameProof, Session
<1>2. CASE g \in PingFailed(f, b)
  <2>1. PICK n \in NextLanes(f, b) :
          g = [f EXCEPT !.queue = n.queue, !.status = "cooldown", !.cooldown = DedupeWindow]
    BY <1>2, Zenon DEF PingFailed
  <2>2. QED
    BY <2>1 DEF SameProof, Session
<1>3. CASE g \in Fallback(f, b)
  <2>1. PICK n \in NextLanes(f, b) :
          g = [f EXCEPT !.lane = n.lane, !.queue = n.queue, !.attempts = @ + 1,
                        !.status = "cooldown", !.cooldown = Backoff(f.failures), !.progress = 0]
    BY <1>3, Zenon DEF Fallback
  <2>2. QED
    BY <2>1 DEF SameProof, Session
<1>4. QED
  BY <1>1, <1>2, <1>3

\* A write of one session keeps the invariant if the new record has no proof, or has
\* the old one's while proof is left alone; the other sessions' parts are not touched.
LEMMA CommitEarned ==
  ASSUME ProofInv, NEW s \in Sessions, NEW r \in Session, NEW b \in [Lanes -> Breaker],
         Commit(s, r, b), Live(s),
         \/ SameProof(session[s], r) /\ proof' = proof
         \/ NoProof(r) /\ proof' = [proof EXCEPT ![s] = {}]
  PROVE  \A u \in Sessions : Earned(u)'
<1> SUFFICES ASSUME NEW u \in Sessions
             PROVE  Earned(u)'
  OBVIOUS
<1>1. CASE u = s
  <2>1. session'[u] = r /\ session[s] # Gone
    BY <1>1, CommitType DEF ProofInv, Live
  <2>2. CASE SameProof(session[s], r) /\ proof' = proof
    BY <1>1, <2>1, <2>2 DEF ProofInv, Earned, SameProof
  <2>3. CASE NoProof(r)
    BY <2>1, <2>3, ConfigType DEF Earned, NoProof
  <2>4. QED
    BY <2>2, <2>3
<1>2. CASE u # s
  <2>1. session'[u] \in {session[u], Gone}
    BY <1>2, CommitType DEF ProofInv
  <2>2. proof'[u] = proof[u]
    BY <1>2 DEF ProofInv, TypeOK
  <2>3. QED
    BY <2>1, <2>2 DEF ProofInv, Earned
<1>3. QED
  BY <1>1, <1>2

LEMMA ProofStep ==
  ASSUME ProofInv, [Next]_vars
  PROVE  ProofInv'
<1>0. TypeOK /\ TypeOK' /\ Pruned(breaker) \in [Lanes -> Breaker]
  BY TypeStep, PrunedType DEF ProofInv, TypeOK
<1> SUFFICES \A u \in Sessions : Earned(u)'
  BY <1>0 DEF ProofInv
<1>c. \A in \in TickInputs : in.progress \in BOOLEAN
  BY RequestsAssumption
<1>1. ASSUME NEW s \in Sessions, NEW restart \in Restarts, Start(s, restart),
             NEW u \in Sessions
      PROVE  Earned(u)'
  <2>1. CASE u = s
    <3>1. session'[s].evidence = ValidationWindow + 1 /\ session'[s].verdict = "none"
      BY <1>1 DEF Start, Commit
    <3>2. QED
      BY <2>1, <3>1, ConfigType DEF Earned
  <2>2. CASE u # s
    BY <1>0, <1>1, <2>2 DEF Start, Commit, Earned, ProofInv, TypeOK
  <2>3. QED
    BY <2>1, <2>2
<1>2. ASSUME NEW s \in Sessions, NEW e \in Events, RecordEvent(s, e)
      PROVE  \A u \in Sessions : Earned(u)'
  <2>1. session[s] \in Session /\ AfterEvent(session[s], e) \in Session
    BY <1>0, <1>2, LiveType, EventType DEF RecordEvent
  <2>2. QED
    BY <1>0, <1>2, <2>1, EventProof, CommitEarned DEF RecordEvent
<1>3. ASSUME NEW s \in Sessions, NEW in \in TickInputs, TickWaits(s, in)
      PROVE  \A u \in Sessions : Earned(u)'
  <2> DEFINE r == Observed(session[s], in.progress)
             w == [r EXCEPT !.status = Waiting(r, in.force)]
  <2>1. session[s] \in Session /\ r \in Session
    BY <1>0, <1>3, <1>c, LiveType, ObservedType DEF TickWaits
  <2>2. w \in Session /\ SameProof(r, w)
    BY <2>1, WaitingType DEF SameProof, Session
  <2>3. IF in.progress THEN NoProof(r) ELSE SameProof(session[s], r)
    BY <1>c, <2>1, ObservedProof
  <2>4. IF in.progress THEN NoProof(w) ELSE SameProof(session[s], w)
    BY <2>2, <2>3 DEF NoProof, SameProof
  <2>5. Commit(s, w, Pruned(breaker)) /\ Live(s) /\ TickProof(s, in)
    BY <1>3 DEF TickWaits
  <2>6. QED
    BY <1>0, <2>2, <2>4, <2>5, CommitEarned DEF TickProof
<1>4. ASSUME NEW s \in Sessions, NEW in \in TickInputs, TickInterrupted(s, in)
      PROVE  \A u \in Sessions : Earned(u)'
  <2> DEFINE r == Observed(session[s], in.progress)
  <2>1. session[s] \in Session /\ r \in Session
    BY <1>0, <1>4, <1>c, LiveType, ObservedType DEF TickInterrupted
  <2>2. Claimed(r) \in Session /\ SameProof(r, Claimed(r))
    BY <2>1, FailedType, FailedProof
  <2>3. IF in.progress THEN NoProof(r) ELSE SameProof(session[s], r)
    BY <1>c, <2>1, ObservedProof
  <2>4. IF in.progress THEN NoProof(Claimed(r)) ELSE SameProof(session[s], Claimed(r))
    BY <2>2, <2>3 DEF NoProof, SameProof
  <2>5. Commit(s, Claimed(r), Pruned(breaker)) /\ Live(s) /\ TickProof(s, in)
    BY <1>4 DEF TickInterrupted
  <2>6. QED
    BY <1>0, <2>2, <2>4, <2>5, CommitEarned DEF TickProof
<1>5. ASSUME NEW s \in Sessions, TickRecovers(s)
      PROVE  \A u \in Sessions : Earned(u)'
  <2>1. PICK in, g :
            /\ in \in TickInputs
            /\ Live(s)
            /\ g \in Exhausted(AfterFailure(s, in)) \cup Blocked(AfterFailure(s, in))
                       \cup PingFailed(AfterFailure(s, in), BreakerAfter(s))
                       \cup Fallback(AfterFailure(s, in), BreakerAfter(s))
            /\ Commit(s, g, BreakerAfter(s))
            /\ TickProof(s, in)
    BY <1>5, RecoveryStep
  <2> DEFINE r == Observed(session[s], in.progress)
  <2>2. session[s] \in Session /\ r \in Session /\ AfterFailure(s, in) \in Session
    BY <1>0, <1>c, <2>1, LiveType, ObservedType, FailedType DEF AfterFailure
  <2>3. g \in Session /\ BreakerAfter(s) \in [Lanes -> Breaker]
    BY <1>0, <2>1, <2>2, OutcomeType, ChargedType DEF BreakerAfter
  <2>4. SameProof(r, AfterFailure(s, in)) /\ SameProof(AfterFailure(s, in), g)
    <3>1. SameProof(r, AfterFailure(s, in))
      BY <2>2, FailedProof DEF AfterFailure
    <3>2. SameProof(AfterFailure(s, in), g)
      BY <2>1, <2>2, OutcomeProof
    <3>3. QED
      BY <3>1, <3>2
  <2>5. IF in.progress THEN NoProof(r) ELSE SameProof(session[s], r)
    BY <1>c, <2>1, <2>2, ObservedProof
  <2>6. IF in.progress THEN NoProof(g) ELSE SameProof(session[s], g)
    BY <2>4, <2>5 DEF NoProof, SameProof
  <2>7. QED
    BY <2>1, <2>3, <2>6, CommitEarned DEF TickProof
<1>6. ASSUME NEW s \in Sessions, NEW c \in Checks, RecordCheck(s, c), NEW u \in Sessions
      PROVE  Earned(u)'
  <2>1. c \in {"evidence", "pass", "fail"}
    BY RequestsAssumption
  <2>2. session[s] \in Session
    BY <1>0, <1>6, LiveType DEF RecordCheck
  <2>3. CASE u = s
    <3>1. session'[s] = IF c = "evidence" THEN [session[s] EXCEPT !.evidence = 0]
                        ELSE [session[s] EXCEPT !.judge = 0, !.verdict = c]
      BY <1>6 DEF RecordCheck, Commit
    <3>2. proof'[s] = IF c = "fail" THEN proof[s] \ {"pass"} ELSE proof[s] \cup {c}
      BY <1>0, <1>6 DEF RecordCheck, TypeOK
    <3>3. session[s] # Gone
      BY <1>6 DEF RecordCheck, Live
    <3>4. Earned(s)
      BY DEF ProofInv
    <3>5. QED
      BY <2>1, <2>2, <2>3, <3>1, <3>2, <3>3, <3>4 DEF Earned, Session
  <2>4. CASE u # s
    BY <1>0, <1>6, <2>4 DEF RecordCheck, Commit, Earned, ProofInv, TypeOK
  <2>5. QED
    BY <2>3, <2>4
<1>7. ASSUME NEW s \in Sessions, NEW in \in CompleteInputs,
             CompleteAccepted(s, in) \/ CompleteRefused(s, in)
      PROVE  \A u \in Sessions : Earned(u)'
  <2> DEFINE q == [session[s] EXCEPT !.status = in.outcome, !.progress = 0,
                                     !.abort = AbortWindow, !.inFlight = FALSE]
  <2>1. in.outcome \in Status
    BY RequestsAssumption DEF Status, Settled, Terminal
  <2>2. session[s] \in Session /\ Live(s)
    BY <1>0, <1>7, LiveType DEF CompleteAccepted, CompleteRefused
  <2>3. q \in Session /\ SameProof(session[s], q) /\ SameProof(session[s], session[s])
    BY <2>1, <2>2, ClosingType DEF SameProof, Session
  <2>4. /\ Commit(s, q, Pruned(breaker)) \/ Commit(s, session[s], Pruned(breaker))
        /\ proof' = proof
    BY <1>7 DEF CompleteAccepted, CompleteRefused
  <2>5. QED
    BY <1>0, <2>2, <2>3, <2>4, CommitEarned
<1>8. ASSUME NEW s \in Sessions, Abort(s) \/ ForceSynthesize(s)
      PROVE  \A u \in Sessions : Earned(u)'
  <2> DEFINE q == [session[s] EXCEPT !.status = "interrupted", !.progress = 0, !.cooldown = 0,
                                     !.inFlight = FALSE]
             f == [session[s] EXCEPT !.status = "force_synthesized", !.inFlight = FALSE]
  <2>1. session[s] \in Session /\ Live(s)
    BY <1>0, <1>8, LiveType DEF Abort, ForceSynthesize
  <2>2. /\ q \in Session /\ SameProof(session[s], q)
        /\ f \in Session /\ SameProof(session[s], f)
    BY <2>1, ClosingType DEF SameProof, Session
  <2>3. /\ Commit(s, q, Pruned(breaker)) \/ Commit(s, f, Pruned(breaker))
        /\ proof' = proof
    BY <1>8 DEF Abort, ForceSynthesize
  <2>4. QED
    BY <1>0, <2>1, <2>2, <2>3, CommitEarned
<1>9. ASSUME Elapse, NEW u \in Sessions
      PROVE  Earned(u)'
  <2>1. CASE session[u] # Gone
    <3>1. session[u] \in Session /\ session'[u] = Aged(session[u]) /\ proof' = proof
      BY <1>0, <1>9, <2>1 DEF Elapse, TypeOK
    <3>2. /\ session'[u].evidence = Older(session[u].evidence, ValidationWindow + 1)
          /\ session'[u].verdict = session[u].verdict
      BY <3>1 DEF Aged, Session
    <3>3. session'[u].evidence >= session[u].evidence /\ session[u].evidence \in Nat
      BY <3>1, <3>2, ConfigType, OlderType DEF Session, Reach
    <3>4. session'[u].evidence \in Nat
      BY <3>1, <3>2, ConfigType, OlderType DEF Session, Reach
    <3>5. Earned(u)
      BY DEF ProofInv
    <3>6. QED
      BY <2>1, <3>1, <3>2, <3>3, <3>4, <3>5, ConfigType DEF Earned
  <2>2. CASE session[u] = Gone
    BY <1>9, <2>2 DEF Elapse, Earned
  <2>3. QED
    BY <2>1, <2>2
<1>10. CASE UNCHANGED vars
  BY <1>10 DEF vars, ProofInv, Earned
<1>11. QED
  BY <1>1, <1>2, <1>3, <1>4, <1>5, <1>6, <1>7, <1>8, <1>9, <1>10 DEF Next

\* supervisor_complete_session: an unforced completion rests on evidence and on a
\* passing judge that were both recorded since the lane's last output.
THEOREM CompletionProven == Spec => CompletionIsProven
<1>1. Init => ProofInv
  BY ConfigType DEF Init, ProofInv, TypeOK, Earned, Breaker, Reach
<1>2. ASSUME ProofInv,
             NEW s \in Sessions, NEW in \in CompleteInputs, Gated(in), CompleteAccepted(s, in)
      PROVE  proof[s] = {"evidence", "pass"}
  <2>1. Ready(session[s]) /\ session[s] # Gone
    BY <1>2 DEF CompleteAccepted, Live
  <2>2. "evidence" \in proof[s] /\ "pass" \in proof[s]
    BY <1>2, <2>1 DEF ProofInv, Earned, Ready
  <2>3. proof[s] \subseteq {"evidence", "pass"}
    BY <1>2 DEF ProofInv, TypeOK
  <2>4. QED
    BY <2>2, <2>3
<1>3. ProofInv /\ [Next]_vars =>
        [\A s \in Sessions, in \in CompleteInputs :
           Gated(in) /\ CompleteAccepted(s, in) => proof[s] = {"evidence", "pass"}]_vars
  BY <1>2
<1>4. QED
  BY <1>1, <1>3, ProofStep, PTL DEF Spec, CompletionIsProven

-----------------------------------------------------------------------------
(* A silent lane *)

\* What a step can do to the record q of a session whose lane is silent, r being the
\* record it leaves: a fresh start, no more than waiting, an end, another failed
\* ping, a failover.
Fresh(r) == r.attempts <= 1 /\ r.failures = 0 /\ r.moved = FALSE

Kept(q, r) ==
  /\ r.attempts = q.attempts /\ r.failures = q.failures /\ r.moved = q.moved
  /\ r.cooldown = q.cooldown /\ r.failure = q.failure
  /\ r.status \in Settled <=> q.status \in Settled

Closed(q, r) ==
  /\ r.status \in Settled
  /\ r.attempts = q.attempts /\ r.failures \in {q.failures, q.failures + 1}
  /\ r.moved \in {q.moved, FALSE}

Pinged(q, r) ==
  /\ q.status \notin Settled
  /\ r.attempts = q.attempts
  /\ r.failures = q.failures + 1 /\ r.failures < MaxFailures /\ r.moved = FALSE
  /\ r.cooldown = DedupeWindow /\ r.failure = 0

FailedOver(q, r) ==
  /\ q.status \notin Settled /\ q.cooldown = 0
  /\ r.attempts = q.attempts + 1 /\ r.attempts <= MaxAttempts
  /\ r.failures = q.failures + 1 /\ r.failures < MaxFailures /\ r.moved = FALSE
  /\ r.cooldown = Backoff(r.failures) /\ r.failure = 0

\* A failure streak is reset only by progress: silence leaves it to a tick to see
\* nothing but a stale in-flight mark.
LEMMA ObservedSilence ==
  ASSUME NEW r \in Session, r.moved = FALSE
  PROVE  Observed(r, FALSE) \in Session /\ Kept(r, Observed(r, FALSE))
<1>1. ResetStreak(r) = r
  BY DEF ResetStreak
<1>2. Observed(r, FALSE) = ReleasedLock(r)
  BY <1>1 DEF Observed
<1>3. Kept(r, ReleasedLock(r))
  BY DEF ReleasedLock, Kept, Session
<1>4. QED
  BY <1>2, <1>3, ObservedType

LEMMA OutcomeSilence ==
  ASSUME NEW q \in Session, NEW r \in Session, Kept(q, r), NEW force,
         Recoverable(r, force), NEW b, NEW g,
         g \in Exhausted(Failed(r)) \cup Blocked(Failed(r))
               \cup PingFailed(Failed(r), b) \cup Fallback(Failed(r), b)
  PROVE  Closed(q, g) \/ Pinged(q, g) \/ FailedOver(q, g)
<1> DEFINE f == Failed(r)
<1>1. /\ f \in Session
      /\ f.attempts = q.attempts /\ f.failures = q.failures + 1 /\ f.moved = FALSE /\ f.failure = 0
  BY FailedType DEF Failed, Claimed, Kept, Session
<1>2. q.status \notin Settled /\ q.cooldown = 0
  <2>1. r.status \notin Settled /\ ~(r.cooldown > 0)
    BY DEF Recoverable, Cooling
  <2>2. r.cooldown \in Nat
    BY DEF Session
  <2>3. QED
    BY <2>1, <2>2 DEF Kept
<1> HIDE DEF f
<1>3. CASE g \in Exhausted(f) \cup Blocked(f)
  BY <1>1, <1>3 DEF Exhausted, Blocked, Closed, Settled, Terminal, Session
<1>4. ~BudgetSpent(f) => f.failures < MaxFailures /\ f.attempts + 1 <= MaxAttempts
  BY <1>1, ConfigType DEF BudgetSpent, Session
<1>5. CASE g \in PingFailed(f, b)
  <2>1. PICK n \in NextLanes(f, b) :
          g = [f EXCEPT !.queue = n.queue, !.status = "cooldown", !.cooldown = DedupeWindow]
    BY <1>5, Zenon DEF PingFailed
  <2>2. ~BudgetSpent(f)
    BY <1>5 DEF PingFailed
  <2>3. /\ g.attempts = f.attempts /\ g.failures = f.failures /\ g.failure = f.failure
        /\ g.cooldown = DedupeWindow /\ g.moved = f.moved
    BY <1>1, <2>1 DEF Session
  <2>4. QED
    BY <1>1, <1>2, <1>4, <2>2, <2>3 DEF Pinged
<1>6. CASE g \in Fallback(f, b)
  <2>1. PICK n \in NextLanes(f, b) :
          g = [f EXCEPT !.lane = n.lane, !.queue = n.queue, !.attempts = @ + 1,
                        !.status = "cooldown", !.cooldown = Backoff(f.failures), !.progress = 0]
    BY <1>6, Zenon DEF Fallback
  <2>2. ~BudgetSpent(f)
    BY <1>6 DEF Fallback
  <2>3. /\ g.attempts = f.attempts + 1 /\ g.failures = f.failures /\ g.failure = f.failure
        /\ g.cooldown = Backoff(f.failures) /\ g.moved = f.moved
    BY <1>1, <2>1 DEF Session
  <2>4. QED
    BY <1>1, <1>2, <1>4, <2>2, <2>3 DEF FailedOver
<1>7. QED
  BY <1>3, <1>5, <1>6 DEF f

Moves(q, r) == Kept(q, r) \/ Closed(q, r) \/ Pinged(q, r) \/ FailedOver(q, r)

\* Every step, seen from one session.
LEMMA SilentStep ==
  ASSUME Silent, TypeOK, Next, NEW u \in Sessions, session'[u] # Gone,
         session[u] # Gone => session[u].moved = FALSE
  PROVE  \/ session'[u] = session[u]
         \/ Stale(u) /\ Fresh(session'[u])
         \/ session[u] \in Session \ {Gone} /\ session'[u] = Aged(session[u])
         \/ Live(u) /\ session[u] \in Session /\ Moves(session[u], session'[u])
<1> DEFINE Goal == \/ session'[u] = session[u]
                   \/ Stale(u) /\ Fresh(session'[u])
                   \/ session[u] \in Session \ {Gone} /\ session'[u] = Aged(session[u])
                   \/ Live(u) /\ session[u] \in Session /\ Moves(session[u], session'[u])
<1>0. TypeOK /\ Pruned(breaker) \in [Lanes -> Breaker]
  BY PrunedType DEF TypeOK
<1>a. ASSUME NEW s \in Sessions, NEW r \in Session, NEW b \in [Lanes -> Breaker],
             Live(s), Commit(s, r, b), Moves(session[s], r)
      PROVE  Goal
  <2>1. session'[s] = r /\ \A v \in Sessions \ {s} : session'[v] \in {session[v], Gone}
    BY <1>0, <1>a, CommitType
  <2>2. session[s] \in Session
    BY <1>a, LiveType
  <2>3. QED
    BY <1>a, <2>1, <2>2
<1>b. \A in \in TickInputs : in.progress = FALSE
  BY RequestsAssumption DEF Silent
<1>c. \A r \in Session : Kept(r, r)
  BY DEF Kept
<1>1. ASSUME NEW s \in Sessions, NEW restart \in Restarts, Start(s, restart)
      PROVE  Goal
  <2>1. Stale(s)
    BY <1>1, RequestsAssumption DEF Start, Silent
  <2>2. CASE s = u
    <3>1. Fresh(session'[s])
      BY <1>1 DEF Start, Commit, Fresh
    <3>2. QED
      BY <2>1, <2>2, <3>1
  <2>3. CASE s # u
    BY <1>1, <2>3 DEF Start, Commit
  <2>4. QED
    BY <2>2, <2>3
<1>2. ASSUME NEW s \in Sessions, NEW in \in TickInputs, TickWaits(s, in)
      PROVE  Goal
  <2> DEFINE r == Observed(session[s], FALSE)
             w == [r EXCEPT !.status = Waiting(r, in.force)]
  <2>1. Live(s) /\ Commit(s, w, Pruned(breaker)) /\ session[s] \in Session
    BY <1>2, <1>b, LiveType DEF TickWaits
  <2>2. CASE s = u
    <3>1. session[s] # Gone /\ session[s].moved = FALSE
      BY <2>1, <2>2 DEF Live
    <3>2. r \in Session /\ Kept(session[s], r)
      BY <2>1, <3>1, ObservedSilence
    <3>3. w \in Session
      BY <3>2, WaitingType
    <3>4. Waiting(r, in.force) \in Settled <=> r.status \in Settled
      BY DEF Waiting, Settled, Terminal
    <3>5. Kept(session[s], w)
      BY <3>2, <3>4 DEF Kept, Session
    <3>6. QED
      BY <1>0, <1>a, <2>1, <3>3, <3>5 DEF Moves
  <2>3. CASE s # u
    BY <2>1, <2>3 DEF Commit
  <2>4. QED
    BY <2>2, <2>3
<1>3. ASSUME NEW s \in Sessions, NEW in \in TickInputs, TickInterrupted(s, in)
      PROVE  Goal
  <2> DEFINE r == Observed(session[s], FALSE)
  <2>1. Live(s) /\ Commit(s, Claimed(r), Pruned(breaker)) /\ session[s] \in Session
    BY <1>3, <1>b, LiveType DEF TickInterrupted
  <2>2. CASE s = u
    <3>1. session[s] # Gone /\ session[s].moved = FALSE
      BY <2>1, <2>2 DEF Live
    <3>2. r \in Session /\ Kept(session[s], r)
      BY <2>1, <3>1, ObservedSilence
    <3>3. Claimed(r) \in Session /\ Kept(session[s], Claimed(r))
      BY <3>2, FailedType DEF Claimed, Kept, Session
    <3>4. QED
      BY <1>0, <1>a, <2>1, <3>3 DEF Moves
  <2>3. CASE s # u
    BY <2>1, <2>3 DEF Commit
  <2>4. QED
    BY <2>2, <2>3
<1>4. ASSUME NEW s \in Sessions, TickRecovers(s)
      PROVE  Goal
  <2>1. PICK in, g :
            /\ in \in TickInputs
            /\ Live(s)
            /\ Recoverable(Observed(session[s], in.progress), in.force)
            /\ g \in Exhausted(AfterFailure(s, in)) \cup Blocked(AfterFailure(s, in))
                       \cup PingFailed(AfterFailure(s, in), BreakerAfter(s))
                       \cup Fallback(AfterFailure(s, in), BreakerAfter(s))
            /\ Commit(s, g, BreakerAfter(s))
    BY <1>4, RecoveryStep
  <2> DEFINE r == Observed(session[s], FALSE)
  <2>2. /\ session[s] \in Session /\ Recoverable(r, in.force)
        /\ AfterFailure(s, in) = Failed(r)
    BY <1>b, <2>1, LiveType DEF AfterFailure
  <2>3. CASE s = u
    <3>1. session[s] # Gone /\ session[s].moved = FALSE
      BY <2>1, <2>3 DEF Live
    <3>2. r \in Session /\ Kept(session[s], r)
      BY <2>2, <3>1, ObservedSilence
    <3>3. Moves(session[s], g)
      BY <2>1, <2>2, <3>2, OutcomeSilence DEF Moves
    <3>4. g \in Session
      BY <2>1, <2>2, <3>2, FailedType, OutcomeType
    <3>5. BreakerAfter(s) \in [Lanes -> Breaker]
      BY <1>0, ChargedType DEF BreakerAfter
    <3>6. QED
      BY <1>a, <2>1, <3>3, <3>4, <3>5
  <2>4. CASE s # u
    BY <2>1, <2>4 DEF Commit
  <2>5. QED
    BY <2>3, <2>4
<1>5. ASSUME NEW s \in Sessions, NEW c \in Checks, RecordCheck(s, c)
      PROVE  Goal
  <2> DEFINE w == IF c = "evidence" THEN [session[s] EXCEPT !.evidence = 0]
                                    ELSE [session[s] EXCEPT !.judge = 0, !.verdict = c]
  <2>1. Live(s) /\ Commit(s, w, Pruned(breaker)) /\ session[s] \in Session
    BY <1>5, LiveType DEF RecordCheck
  <2>2. Kept(session[s], w)
    BY <2>1 DEF Kept, Session
  <2>3. CASE s = u
    BY <2>1, <2>2, <2>3 DEF Commit, Moves
  <2>4. CASE s # u
    BY <2>1, <2>4 DEF Commit
  <2>5. QED
    BY <2>3, <2>4
<1>6. ASSUME NEW s \in Sessions, NEW in \in CompleteInputs,
             CompleteAccepted(s, in) \/ CompleteRefused(s, in)
      PROVE  Goal
  <2> DEFINE q == [session[s] EXCEPT !.status = in.outcome, !.progress = 0,
                                     !.abort = AbortWindow, !.inFlight = FALSE]
  <2>1. in.outcome \in Status /\ in.outcome \in Settled
    BY RequestsAssumption DEF Status, Settled, Terminal
  <2>2. session[s] \in Session /\ Live(s)
    BY <1>0, <1>6, LiveType DEF CompleteAccepted, CompleteRefused
  <2>3. q \in Session /\ Closed(session[s], q)
    BY <2>1, <2>2, ClosingType DEF Closed, Session
  <2>4. Commit(s, q, Pruned(breaker)) \/ Commit(s, session[s], Pruned(breaker))
    BY <1>6 DEF CompleteAccepted, CompleteRefused
  <2>5. QED
    BY <1>0, <1>a, <1>c, <2>2, <2>3, <2>4 DEF Moves
<1>7. ASSUME NEW s \in Sessions, Abort(s) \/ ForceSynthesize(s)
      PROVE  Goal
  <2> DEFINE q == [session[s] EXCEPT !.status = "interrupted", !.progress = 0, !.cooldown = 0,
                                     !.inFlight = FALSE]
             f == [session[s] EXCEPT !.status = "force_synthesized", !.inFlight = FALSE]
  <2>1. session[s] \in Session /\ Live(s)
    BY <1>0, <1>7, LiveType DEF Abort, ForceSynthesize
  <2>2. /\ q \in Session /\ Closed(session[s], q)
        /\ f \in Session /\ Closed(session[s], f)
    BY <2>1, ClosingType DEF Closed, Settled, Terminal, Session
  <2>3. Commit(s, q, Pruned(breaker)) \/ Commit(s, f, Pruned(breaker))
    BY <1>7 DEF Abort, ForceSynthesize
  <2>4. QED
    BY <1>0, <1>a, <2>1, <2>2, <2>3 DEF Moves
<1>8. CASE Elapse
  BY <1>0, <1>8 DEF Elapse, TypeOK
<1>9. QED
  BY <1>1, <1>2, <1>3, <1>4, <1>5, <1>6, <1>7, <1>8 DEF Next, Silent

\* The inductive invariant of a silent lane.  The budget needs nothing else; pacing
\* needs that what is left of the cooldown and the age of the last failure add up.
Pause(n) == Smaller(Backoff(n), DedupeWindow)

Frugal(r) ==
  /\ r.attempts <= MaxAttempts
  /\ r.status \notin Settled => r.failures < MaxFailures
  /\ r.moved = FALSE

Paced(r) == (r.status \notin Settled /\ r.failures > 0) => r.cooldown + r.failure >= Pause(r.failures)

SilentInv == TypeOK /\ \A s \in Sessions : session[s] # Gone => Frugal(session[s])

PacedInv == SilentInv /\ \A s \in Sessions : session[s] # Gone => Paced(session[s])

LEMMA FrugalStep ==
  ASSUME Silent, SilentInv, [Next]_vars
  PROVE  SilentInv'
<1>1. TypeOK /\ TypeOK'
  BY TypeStep DEF SilentInv
<1>2. ASSUME NEW u \in Sessions, session'[u] # Gone
      PROVE  Frugal(session'[u])
  <2>1. CASE session'[u] = session[u]
    BY <1>2, <2>1 DEF SilentInv
  <2>2. CASE Stale(u) /\ Fresh(session'[u])
    <3>1. session'[u].attempts \in Nat
      BY <1>1, <1>2 DEF TypeOK, Session
    <3>2. QED
      BY <2>2, <3>1, ConfigType DEF Fresh, Frugal
  <2>3. CASE session[u] \in Session \ {Gone} /\ session'[u] = Aged(session[u])
    BY <2>3 DEF SilentInv, Frugal, Aged, Session
  <2>4. CASE Live(u) /\ session[u] \in Session /\ Moves(session[u], session'[u])
    <3>1. Frugal(session[u])
      BY <2>4 DEF SilentInv, Live
    <3>2. QED
      BY <2>4, <3>1 DEF Frugal, Moves, Kept, Closed, Pinged, FailedOver
  <2>5. CASE UNCHANGED vars
    BY <1>2, <2>5 DEF vars, SilentInv
  <2>6. QED
    BY <1>1, <1>2, <2>1, <2>2, <2>3, <2>4, <2>5, SilentStep DEF SilentInv, Frugal
<1>3. QED
  BY <1>1, <1>2 DEF SilentInv

LEMMA SilentInit == Init => PacedInv
BY ConfigType DEF Init, PacedInv, SilentInv, TypeOK, Breaker, Reach

\* The order of stalls, failed pings, crashes and forced recoveries cannot overrun
\* maxAttemptsPerSlice, nor leave a session moving whose failures are spent.
THEOREM BudgetKept == ASSUME Silent PROVE Spec => []BudgetHolds
<1>1. SilentInv => BudgetHolds
  BY DEF SilentInv, Frugal, BudgetHolds
<1>2. Init => SilentInv
  BY SilentInit DEF PacedInv
<1>3. SilentInv /\ [Next]_vars => SilentInv'
  BY FrugalStep
<1>4. QED
  BY <1>1, <1>2, <1>3, PTL DEF Spec

\* MCP-11: no order of polls makes the supervisor forgive a silent lane a failure.
THEOREM SilenceNeverForgiven == ASSUME Silent PROVE Spec => SilenceIsNotForgiven
<1>1. ASSUME SilentInv, Next, NEW s \in Sessions, Steps(s)
      PROVE  session'[s].failures >= session[s].failures
  <2>1. /\ session[s] \in Session /\ session[s].failures \in Nat
        /\ session[s] # Gone /\ session'[s] # Gone /\ Live(s) /\ Frugal(session[s])
    BY <1>1, LiveType DEF SilentInv, Steps, Live, Session
  <2>2. CASE session'[s] = Aged(session[s])
    BY <2>1, <2>2 DEF Aged, Session
  <2>3. CASE Moves(session[s], session'[s])
    <3>1. session'[s].failures \in {session[s].failures, session[s].failures + 1}
      BY <2>3, Zenon DEF Moves, Kept, Closed, Pinged, FailedOver
    <3>2. QED
      BY <2>1, <3>1
  <2>4. \/ session'[s] = session[s]
        \/ session'[s] = Aged(session[s])
        \/ Moves(session[s], session'[s])
    BY <1>1, <2>1, SilentStep DEF SilentInv, Frugal, Stale
  <2>5. QED
    BY <2>1, <2>2, <2>3, <2>4
<1>2. SilentInv /\ [Next]_vars =>
        [\A s \in Sessions : Steps(s) => session'[s].failures >= session[s].failures]_vars
  BY <1>1
<1>3. Init => SilentInv
  BY SilentInit DEF PacedInv
<1>4. SilentInv /\ [Next]_vars => SilentInv'
  BY FrugalStep
<1>5. QED
  BY <1>2, <1>3, <1>4, PTL DEF Spec, SilenceIsNotForgiven

LEMMA PauseType ==
  ASSUME NEW n \in Nat
  PROVE  Pause(n) \in Nat /\ Pause(n) <= DedupeWindow /\ Pause(n) <= Backoff(n)
BY BackoffType, ConfigType DEF Pause, Smaller

\* A second passes from the cooldown to the age of the failure.
LEMMA AgedPaced ==
  ASSUME DedupeWindow <= FailureReset, NEW r \in Session, Paced(r)
  PROVE  Paced(Aged(r))
<1>1. /\ Aged(r).status = r.status /\ Aged(r).failures = r.failures
      /\ Aged(r).cooldown = IF r.cooldown > 0 THEN r.cooldown - 1 ELSE 0
      /\ Aged(r).failure = Older(r.failure, FailureReset)
  BY DEF Aged, Session
<1>2. /\ r.cooldown \in Nat /\ r.failures \in Nat
      /\ r.failure \in Nat /\ r.failure <= FailureReset
  BY ConfigType DEF Session, Reach
<1>3. SUFFICES ASSUME r.status \notin Settled, r.failures > 0
               PROVE  Aged(r).cooldown + Aged(r).failure >= Pause(r.failures)
  BY <1>1 DEF Paced
<1>4. r.cooldown + r.failure >= Pause(r.failures)
  BY <1>3 DEF Paced
<1>5. QED
  BY <1>1, <1>2, <1>4, ConfigType, PauseType DEF Older

LEMMA PacedStep ==
  ASSUME Silent, DedupeWindow <= FailureReset, PacedInv, [Next]_vars
  PROVE  PacedInv'
<1>1. SilentInv /\ SilentInv' /\ TypeOK /\ TypeOK'
  BY FrugalStep DEF PacedInv, SilentInv
<1>2. ASSUME NEW u \in Sessions, session'[u] # Gone
      PROVE  Paced(session'[u])
  <2>1. CASE session'[u] = session[u]
    BY <1>2, <2>1 DEF PacedInv
  <2>2. CASE Stale(u) /\ Fresh(session'[u])
    BY <2>2 DEF Fresh, Paced
  <2>3. CASE session[u] \in Session \ {Gone} /\ session'[u] = Aged(session[u])
    BY <2>3, AgedPaced DEF PacedInv
  <2>4. CASE Live(u) /\ session[u] \in Session /\ Moves(session[u], session'[u])
    <3>1. Paced(session[u]) /\ session'[u] \in Session
      BY <1>1, <1>2, <2>4 DEF PacedInv, Live, TypeOK
    <3>2. session'[u].failures \in Nat
      BY <3>1 DEF Session
    <3>3. /\ Pause(session'[u].failures) \in Nat
          /\ Pause(session'[u].failures) <= DedupeWindow
          /\ Pause(session'[u].failures) <= Backoff(session'[u].failures)
      BY <3>2, PauseType
    <3>4. CASE Kept(session[u], session'[u])
      BY <3>1, <3>4 DEF Kept, Paced
    <3>5. CASE Closed(session[u], session'[u])
      BY <3>5 DEF Closed, Paced
    <3>6. CASE Pinged(session[u], session'[u])
      BY <3>3, <3>6, ConfigType DEF Pinged, Paced
    <3>7. CASE FailedOver(session[u], session'[u])
      BY <3>2, <3>3, <3>7, BackoffType DEF FailedOver, Paced
    <3>8. QED
      BY <2>4, <3>4, <3>5, <3>6, <3>7 DEF Moves
  <2>5. CASE UNCHANGED vars
    BY <1>2, <2>5 DEF vars, PacedInv
  <2>6. QED
    BY <1>1, <1>2, <2>1, <2>2, <2>3, <2>4, <2>5, SilentStep DEF SilentInv, Frugal
<1>3. QED
  BY <1>1, <1>2 DEF PacedInv

\* No burst of failovers: the shorter of backoff and dedupe window lies between a
\* failure and the next failover.  (Ages are only told apart up to FailureReset, so
\* the windows must not be longer than that.)
THEOREM FailoversKeepPace ==
  ASSUME Silent, DedupeWindow <= FailureReset PROVE Spec => FailoversPaced
<1>1. ASSUME PacedInv, Next, NEW s \in Sessions, Steps(s),
             session'[s].attempts > session[s].attempts, session[s].failures > 0
      PROVE  session[s].failure >= Smaller(Backoff(session[s].failures), DedupeWindow)
  <2>1. /\ session[s] \in Session /\ session[s].attempts \in Nat /\ session[s].failure \in Nat
        /\ session[s] # Gone /\ session'[s] # Gone /\ Live(s)
        /\ Frugal(session[s]) /\ Paced(session[s])
    BY <1>1, LiveType DEF PacedInv, SilentInv, Steps, Live, Session, Reach
  <2>2. session'[s] # session[s]
    BY <1>1, <2>1
  <2>3. session'[s] # Aged(session[s])
    <3>1. Aged(session[s]).attempts = session[s].attempts
      BY <2>1 DEF Aged, Session
    <3>2. QED
      BY <1>1, <2>1, <3>1
  <2>4. Moves(session[s], session'[s])
    BY <1>1, <2>1, <2>2, <2>3, SilentStep DEF PacedInv, SilentInv, Frugal, Stale
  <2>5. session'[s].attempts # session[s].attempts
    BY <1>1, <2>1
  <2>6. FailedOver(session[s], session'[s])
    BY <2>4, <2>5, Zenon DEF Moves, Kept, Closed, Pinged
  <2>7. QED
    BY <1>1, <2>1, <2>6 DEF FailedOver, Paced, Pause
<1>2. PacedInv /\ [Next]_vars =>
        [\A s \in Sessions :
           (Steps(s) /\ session'[s].attempts > session[s].attempts /\ session[s].failures > 0) =>
              session[s].failure >= Smaller(Backoff(session[s].failures), DedupeWindow)]_vars
  BY <1>1
<1>3. PacedInv /\ [Next]_vars => PacedInv'
  BY PacedStep
<1>4. QED
  BY <1>2, <1>3, SilentInit, PTL DEF Spec, FailoversPaced

-----------------------------------------------------------------------------
(* The gates of a completion *)

Contract == [session : Sessions, cmd : Commands, open : BOOLEAN]

GateState ==
  [session : Sessions, owner : Agents \cup {Nobody}, tried : Reports,
   stage : {"memory", "contracts", "finalize"}]

\* The commands the record names were all shown since the last output.  With the types
\* of gate and contract this is inductive: only output and a new record shrink shown, and
\* they forget the summary too.
GateInv ==
  /\ summary \in [Sessions -> SUBSET Commands]
  /\ shown \in [Sessions -> SUBSET Commands]
  /\ guard \in [Sessions -> Agents \cup {Nobody}]
  /\ contract \in [Tasks -> Contract \cup {NoContract}]
  /\ gate \in GateState \cup {Idle}
  /\ \A s \in Sessions : summary[s] \subseteq shown[s]

LEMMA GateInvStep == ASSUME GateInv, [GateNext]_<<vars, gateVars>> PROVE GateInv'
<1>1. ASSUME NEW s \in Sessions, NEW restart \in Restarts, NEW owner \in Agents \cup {Nobody},
             StartGuarded(s, restart, owner), UNCHANGED <<contract, gate>>
      PROVE  GateInv'
  BY <1>1 DEF GateInv, StartGuarded, Forgets
<1>2. ASSUME NEW s \in Sessions, NEW named \in SUBSET Commands, Evidence(s, named),
             UNCHANGED <<contract, gate>>
      PROVE  GateInv'
  BY <1>2 DEF GateInv, Evidence
<1>3. ASSUME NEW s \in Sessions, Output(s) \/ Untouched(s), UNCHANGED <<contract, gate>>
      PROVE  GateInv'
  BY <1>3 DEF GateInv, Output, Untouched, Forgets
<1>4. CASE SessionStep
  <2>1. UNCHANGED <<contract, gate>>
    BY <1>4 DEF SessionStep
  <2>2. CASE UNCHANGED <<summary, guard, shown>>
    BY <2>1, <2>2 DEF GateInv
  <2>3. QED
    BY <1>1, <1>2, <1>3, <1>4, <2>1, <2>2 DEF SessionStep
<1>5. CASE TaskStep
  <2>1. UNCHANGED <<summary, guard, gate, shown>>
    BY <1>5 DEF TaskStep
  <2>2. contract' \in [Tasks -> Contract \cup {NoContract}]
    <3>1. PICK t \in Tasks :
            \/ \E s \in Sessions, c \in Commands :
                  contract' = [contract EXCEPT ![t] = [session |-> s, cmd |-> c, open |-> TRUE]]
            \/ /\ contract[t] # NoContract
               /\ contract' = [contract EXCEPT ![t].open = FALSE]
      BY <1>5 DEF TaskStep
    <3>2. CASE contract[t] # NoContract /\ contract' = [contract EXCEPT ![t].open = FALSE]
      <4>1. contract[t] \in Contract
        BY <3>2 DEF GateInv
      <4>2. [contract[t] EXCEPT !.open = FALSE] \in Contract
        BY <4>1 DEF Contract
      <4>3. QED
        BY <3>2, <4>2 DEF GateInv
    <3>3. ASSUME NEW s \in Sessions, NEW c \in Commands,
                 contract' = [contract EXCEPT ![t] = [session |-> s, cmd |-> c, open |-> TRUE]]
          PROVE  contract' \in [Tasks -> Contract \cup {NoContract}]
      <4>1. [session |-> s, cmd |-> c, open |-> TRUE] \in Contract
        BY DEF Contract
      <4>2. QED
        BY <3>3, <4>1 DEF GateInv
    <3>4. QED
      BY <3>1, <3>2, <3>3
  <2>3. QED
    BY <2>1, <2>2 DEF GateInv
<1>6. CASE MemoryStep
  BY <1>6 DEF MemoryStep, GateInv
<1>7. CASE GateStep
  <2>1. UNCHANGED <<summary, guard, contract, shown>>
    BY <1>7 DEF GateStep, Asks, ChecksMemory, ChecksContracts, Finalizes
  <2>2. gate' \in GateState \cup {Idle}
    BY <1>7 DEF GateStep, Asks, ChecksMemory, ChecksContracts, Finalizes, Refuses, Passes,
                GateInv, GateState
  <2>3. QED
    BY <2>1, <2>2 DEF GateInv
<1>8. CASE UNCHANGED <<vars, gateVars>>
  BY <1>8 DEF gateVars, GateInv
<1>9. QED
  BY <1>4, <1>5, <1>6, <1>7, <1>8 DEF GateNext

LEMMA GateCorrect == GateSpec => []GateInv
<1>1. GateInit => GateInv
  BY DEF GateInit, GateInv
<1>2. QED
  BY <1>1, GateInvStep, PTL DEF GateSpec

\* The tools with their evidence and memory, and the gates, do to the supervisor store
\* only what SupervisorSession allows.
LEMMA GatePart == ASSUME GateInv, [GateNext]_<<vars, gateVars>> PROVE [Next]_vars
<1>1. ASSUME NEW s \in Sessions, NEW restart \in Restarts, NEW owner,
             StartGuarded(s, restart, owner)
      PROVE  Next
  BY <1>1, Zenon DEF StartGuarded, Next
<1>2. ASSUME NEW s \in Sessions, NEW named, "evidence" \in Checks, Evidence(s, named)
      PROVE  Next
  BY <1>2, Zenon DEF Evidence, Next
<1>3. ASSUME NEW s \in Sessions, Output(s) \/ Untouched(s)
      PROVE  Next
  <2>1. \/ \E e \in Events : RecordEvent(s, e)
        \/ \E in \in TickInputs : Ticks(s, in)
        \/ \E c \in Checks : RecordCheck(s, c)
        \/ "abort" \in Operators /\ Abort(s)
        \/ "synthesize" \in Operators /\ ForceSynthesize(s)
        \/ \E in \in CompleteInputs : CompleteAccepted(s, in)
    BY <1>3, Zenon DEF Output, Untouched
  <2>2. QED
    BY <2>1, Zenon DEF Next, Ticks, TickRecovers
<1>4. CASE SessionStep
  BY <1>1, <1>2, <1>3, <1>4, Zenon DEF SessionStep, Next
<1>5. CASE TaskStep \/ MemoryStep
  BY <1>5, Zenon DEF TaskStep, MemoryStep
<1>6. CASE GateStep
  <2>1. CASE gate # Idle /\ (CompleteRefused(gate.session, Unforced)
                               \/ CompleteAccepted(gate.session, Unforced))
    <3>1. PICK s \in Sessions : s = gate.session
      BY <2>1 DEF GateInv, GateState
    <3>2. CompleteRefused(s, Unforced) \/ CompleteAccepted(s, Unforced)
      BY <2>1, <3>1
    <3>3. QED
      BY <3>2, CommandsAssumption, Zenon DEF Next
  <2>2. QED
    BY <1>6, <2>1, Zenon DEF GateStep, Asks, ChecksMemory, ChecksContracts, Finalizes,
                             Refuses, Passes
<1>7. CASE UNCHANGED <<vars, gateVars>>
  BY <1>7
<1>8. QED
  BY <1>4, <1>5, <1>6, <1>7 DEF GateNext

\* With its gates, its evidence and its memory guard the completion of a session is
\* still one of the completions SupervisorSession describes.
THEOREM GatesImplementSession == GateSpec => Spec
<1>1. GateInit => Init
  BY DEF GateInit
<1>2. GateInv /\ [GateNext]_<<vars, gateVars>> => [Next]_vars
  BY GatePart
<1>3. QED
  BY <1>1, <1>2, GateCorrect, PTL DEF GateSpec, Spec

\* A session passes the contract gate only with evidence, shown since its last output,
\* for each of its open contracts, and with none of them reported as not runnable.
THEOREM ContractsValidated == GateSpec => ContractsAreValidated
<1> DEFINE P == gate # Idle /\ gate' # Idle /\ gate.stage = "contracts"
                  /\ gate'.stage = "finalize" =>
                  \A t \in Linked(gate.session) :
                     /\ Names(shown[gate.session], contract[t].cmd)
                     /\ contract[t].cmd \notin gate.tried
<1>1. GateInv /\ GateNext => P
  <2> SUFFICES ASSUME GateInv, GateNext, gate # Idle, gate' # Idle,
                      gate.stage = "contracts", gate'.stage = "finalize",
                      NEW t \in Linked(gate.session)
               PROVE  /\ Names(shown[gate.session], contract[t].cmd)
                      /\ contract[t].cmd \notin gate.tried
    OBVIOUS
  <2>1. Validated(gate.session, gate.tried)
    BY DEF GateNext, SessionStep, TaskStep, MemoryStep, GateStep, Asks, ChecksMemory,
           ChecksContracts, Finalizes, Refuses, Passes
  <2>2. contract[t].cmd \in Commands /\ gate.session \in Sessions
    BY DEF Linked, GateInv, Contract, GateState
  <2>3. /\ ~CouldNotRun(contract[t].cmd, gate.tried)
        /\ Names(summary[gate.session], contract[t].cmd)
    BY <2>1 DEF Validated
  <2>4. Names(shown[gate.session], contract[t].cmd)
    BY <2>2, <2>3 DEF Names, GateInv
  <2>5. contract[t].cmd \notin gate.tried
    BY <2>2, <2>3, CommandsAssumption DEF CouldNotRun
  <2>6. QED
    BY <2>4, <2>5
<1>2. GateInv /\ [GateNext]_<<vars, gateVars>> => [P]_<<vars, gateVars>>
  BY <1>1
<1>3. QED
  BY <1>2, GateCorrect, PTL DEF GateSpec, ContractsAreValidated

\* Through all the gates, an unforced completion still rests on proof.
THEOREM GatedCompletionProven == GateSpec => CompletionIsProven
BY GatesImplementSession, CompletionProven, PTL

-----------------------------------------------------------------------------
(* The composition implements its parts *)

\* TaskStore with its theorems; the scope of the stop hook is not used here.
TP == INSTANCE TaskStore_proofs WITH MaxAttempts <- MaxResumes, Fleet <- NoSession

\* T, which the actions are written with, and TP, which has the theorems, are the
\* same module.
LEMMA SameStore ==
  /\ T!Next <=> TP!Next
  /\ T!TypeOK <=> TP!TypeOK
<1>1. T!Next <=> TP!Next
  BY DEF T!Next, T!Create, T!Update, T!Suspend, T!Resume, T!RevokeSessionLeases,
         T!ForceSynthesizeLinked, T!Tick, T!OpenLinked, T!IsOpen, T!TERMINAL, T!LeaseAllows,
         T!IsWriteBack, T!Given, T!OrElse, T!Revoked, T!ValidEdges, T!UnknownBlockers,
         T!OnCycle, T!ClosedUnderBlockers, T!Blockers,
         TP!Next, TP!Create, TP!Update, TP!Suspend, TP!Resume, TP!RevokeSessionLeases,
         TP!ForceSynthesizeLinked, TP!Tick, TP!OpenLinked, TP!IsOpen, TP!TERMINAL,
         TP!LeaseAllows, TP!IsWriteBack, TP!Given, TP!OrElse, TP!Revoked, TP!ValidEdges,
         TP!UnknownBlockers, TP!OnCycle, TP!ClosedUnderBlockers, TP!Blockers
<1>2. T!TypeOK <=> TP!TypeOK
  BY DEF T!TypeOK, T!Task, T!Status, T!TaskNote, T!Time, T!Lease,
         TP!TypeOK, TP!Task, TP!Status, TP!TaskNote, TP!Time, TP!Lease
<1>3. QED
  BY <1>1, <1>2

\* The requests of Supervisor are the requests TaskStore assumes.
LEMMA StoreAssumptions ==
  /\ MaxTime \in Nat /\ MaxResumes \in Nat
  /\ CreateInputs \subseteq TP!CreateRequest /\ UpdateInputs \subseteq TP!UpdateRequest
BY TasksAssumption
   DEF T!CreateRequest, T!UpdateRequest, T!Status, T!Lease, T!Time,
       TP!CreateRequest, TP!UpdateRequest, TP!Status, TP!Lease, TP!Time

OwedOK == owed \in [session : Sessions, todo : {"revoke", "synthesize"}] \cup {Nothing}

LEMMA OwedStep == ASSUME OwedOK, [SNext]_svars PROVE OwedOK'
BY DEF OwedOK, SNext, svars, SupervisorWrites, StartsOver, TasksFollow, Dies, Register,
       ReLease, LaneWrites, TimePasses

\* Every step is a step of the supervisor store, or leaves it alone.
LEMMA SessionPart == ASSUME [SNext]_svars PROVE [Next]_vars
<1>1. ASSUME NEW s \in Sessions, SupervisorWrites(s)
      PROVE  Next
  BY <1>1, Zenon DEF SupervisorWrites, SessionOnly, Revoking, Synthesizing, Next, TickRecovers
<1>2. ASSUME NEW s \in Sessions, StartsOver(s)
      PROVE  Next
  BY <1>2, Zenon DEF StartsOver, Next
<1>3. CASE TasksFollow \/ Dies
  BY <1>3 DEF TasksFollow, Dies, vars
<1>4. ASSUME NEW t \in TaskIds, NEW req \in CreateInputs, Register(t, req)
      PROVE  UNCHANGED vars
  BY <1>4 DEF Register, vars
<1>5. ASSUME NEW t \in TaskIds, NEW req \in UpdateInputs, ReLease(t, req)
      PROVE  UNCHANGED vars
  BY <1>5 DEF ReLease, vars
<1>6. ASSUME NEW l \in Lanes, NEW t \in TaskIds, LaneWrites(l, t)
      PROVE  UNCHANGED vars
  BY <1>6 DEF LaneWrites, vars
<1>7. CASE TimePasses
  BY <1>7 DEF TimePasses, Next
<1>8. CASE UNCHANGED svars
  BY <1>8 DEF svars, vars
<1>9. QED
  BY <1>1, <1>2, <1>3, <1>4, <1>5, <1>6, <1>7, <1>8 DEF SNext

\* Every step is a step of the task store, or leaves it alone.
LEMMA TaskPart == ASSUME OwedOK, [SNext]_svars PROVE [TP!Next]_(TP!vars)
<1>1. ASSUME NEW s \in Sessions, SupervisorWrites(s) \/ StartsOver(s)
      PROVE  UNCHANGED TP!vars
  BY <1>1 DEF SupervisorWrites, StartsOver, TP!vars
<1>2. CASE TasksFollow
  <2>1. PICK s \in Sessions : s = owed.session
    BY <1>2 DEF TasksFollow, OwedOK
  <2>2. T!RevokeSessionLeases(s) \/ T!ForceSynthesizeLinked(s)
    BY <1>2, <2>1 DEF TasksFollow
  <2>3. QED
    BY <2>2, SameStore, Zenon DEF T!Next
<1>3. CASE Dies
  BY <1>3 DEF Dies, TP!vars
<1>4. ASSUME NEW t \in TaskIds, NEW req \in CreateInputs, Register(t, req)
      PROVE  TP!Next
  BY <1>4, SameStore, Zenon DEF Register, T!Next
<1>5. ASSUME NEW t \in TaskIds, NEW req \in UpdateInputs, ReLease(t, req)
      PROVE  TP!Next
  BY <1>5, SameStore, Zenon DEF ReLease, T!Next
<1>6. ASSUME NEW l \in Lanes, NEW t \in TaskIds, LaneWrites(l, t)
      PROVE  TP!Next
  BY <1>6, SameStore, Zenon DEF LaneWrites, T!Next
<1>7. CASE TimePasses
  BY <1>7, SameStore, Zenon DEF TimePasses, T!Next
<1>8. CASE UNCHANGED svars
  BY <1>8 DEF svars, TP!vars
<1>9. QED
  BY <1>1, <1>2, <1>3, <1>4, <1>5, <1>6, <1>7, <1>8 DEF SNext

LEMMA OwedCorrect == SSpec => []OwedOK
<1>1. SInit => OwedOK
  BY DEF SInit, OwedOK
<1>2. QED
  BY <1>1, OwedStep, PTL DEF SSpec

\* Composed with the task store and with lanes, the supervisor store still does what
\* SupervisorSession allows, and nothing else.
THEOREM ImplementsSession == SSpec => Spec
<1>1. SInit => Init
  BY DEF SInit
<1>2. [SNext]_svars => [Next]_vars
  BY SessionPart
<1>3. QED
  BY <1>1, <1>2, PTL DEF SSpec, Spec

\* The session tools' second halves and the lanes together do to the tasks only what
\* TaskStore allows, so its theorems hold of the composition.
THEOREM ImplementsTaskStore == SSpec => TP!Spec
<1>1. SInit => TP!Init
  BY DEF SInit, T!Init, TP!Init
<1>2. OwedOK /\ [SNext]_svars => [TP!Next]_(TP!vars)
  BY TaskPart
<1>3. QED
  BY <1>1, <1>2, OwedCorrect, PTL DEF SSpec, TP!Spec

\* What the parts promise by themselves they promise together: completions are proven,
\* no dependency cycle is stored and a dead claim lands nothing, whatever lanes, session
\* tools and crashes do in between.
THEOREM PartsKeepTheirPromises ==
  SSpec => CompletionIsProven /\ []TP!NoDependencyCycle /\ TP!DeadClaimLandsNothing
<1>1. SSpec => CompletionIsProven
  BY ImplementsSession, CompletionProven, PTL
<1>2. TP!Spec => []TP!NoDependencyCycle
  BY TP!StoredGraphAcyclic, StoreAssumptions
<1>3. TP!Spec => TP!DeadClaimLandsNothing
  BY TP!FenceHolds, StoreAssumptions
<1>4. QED
  BY <1>1, <1>2, <1>3, ImplementsTaskStore, PTL

CrewOK == crew \in [TaskIds -> SUBSET (Lanes \cup {NoLane})]

STypeOK == TypeOK /\ T!TypeOK /\ OwedOK /\ CrewOK

\* The documents are well-formed, and the lanes of a crew are lanes.
LEMMA STypeCorrect == SSpec => []STypeOK
<1>1. TypeOK /\ T!TypeOK /\ CrewOK /\ [SNext]_svars => CrewOK'
  <2> SUFFICES ASSUME TypeOK, T!TypeOK, CrewOK, [SNext]_svars
               PROVE  CrewOK'
    OBVIOUS
  <2>1. ASSUME NEW t \in TaskIds, NEW s, Handed(t, s)
        PROVE  CrewOK'
    <3>1. session[s] \in Session
      BY <2>1, LiveType DEF Handed
    <3>2. session[s].lane \in Lanes \cup {NoLane}
      BY <3>1 DEF Session
    <3>3. QED
      BY <2>1, <3>2 DEF Handed, CrewOK
  <2>2. QED
    BY <2>1 DEF CrewOK, SNext, svars, SupervisorWrites, StartsOver, TasksFollow, Dies,
                Register, ReLease, LaneWrites, TimePasses
<1>2. SInit => CrewOK
  BY DEF SInit, CrewOK
<1>3. TP!Spec => []TP!TypeOK
  BY TP!TypeCorrect, StoreAssumptions
<1>4. TP!TypeOK => T!TypeOK
  BY SameStore
<1>5. SSpec => []TypeOK
  BY ImplementsSession, TypeCorrect, PTL
<1>6. SSpec => []T!TypeOK
  BY <1>3, <1>4, ImplementsTaskStore, PTL
<1>7. SSpec => []CrewOK
  BY <1>1, <1>2, <1>5, <1>6, PTL DEF SSpec
<1>8. QED
  BY <1>5, <1>6, <1>7, OwedCorrect, PTL DEF STypeOK

-----------------------------------------------------------------------------
(* Claims: what each tool does to the part of a record the claims rest on *)

Finalized == {"completed", "interrupted"}

\* The record stays on its lane and is not brought to its end.
Carries(r, q) == q.lane = r.lane /\ (q.status \in Finalized => r.status \in Finalized)

LEMMA EventCarries ==
  ASSUME NEW r \in Session, NEW e
  PROVE  Carries(r, AfterEvent(r, e))
BY DEF Carries, Finalized, AfterEvent, WithOutput, Progressed, ClearedProof, Session

LEMMA ObservedCarries ==
  ASSUME NEW r \in Session, NEW p \in BOOLEAN
  PROVE  Carries(r, Observed(r, p))
<1> DEFINE q == ReleasedLock(ResetStreak(r))
<1>1. q \in Session
  BY ObservedType DEF Observed
<1>2. Carries(r, q)
  BY DEF ReleasedLock, ResetStreak, Carries, Session
<1>3. Carries(q, WithOutput(q))
  BY <1>1 DEF Carries, Finalized, WithOutput, Progressed, ClearedProof, Session
<1>4. QED
  BY <1>2, <1>3 DEF Observed, Carries

LEMMA OutcomeCarries ==
  ASSUME NEW r \in Session, NEW b,
         NEW g \in Exhausted(Failed(r)) \cup Blocked(Failed(r)) \cup PingFailed(Failed(r), b)
  PROVE  Carries(r, g)
<1>1. Failed(r) \in Session /\ Failed(r).lane = r.lane
  BY FailedType DEF Failed, Claimed, Session
<1>2. CASE g \in Exhausted(Failed(r)) \cup Blocked(Failed(r))
  BY <1>1, <1>2 DEF Exhausted, Blocked, Carries, Finalized, Session
<1>3. CASE g \in PingFailed(Failed(r), b)
  <2>1. PICK n \in NextLanes(Failed(r), b) :
          g = [Failed(r) EXCEPT !.queue = n.queue, !.status = "cooldown",
                                !.cooldown = DedupeWindow]
    BY <1>3, Zenon DEF PingFailed
  <2>2. QED
    BY <1>1, <2>1 DEF Carries, Finalized, Session
<1>4. QED
  BY <1>2, <1>3

\* The whole-document write does not touch the other sessions that live on.
LEMMA OthersCarry ==
  ASSUME NEW s \in Sessions, NEW u \in Sessions, NEW r, NEW b, Commit(s, r, b),
         u # s, Live(u)'
  PROVE  Live(u) /\ session'[u] = session[u]
BY DEF Commit, Live, Stale

\* The tools that owe nothing to the tasks carry their own session too.
LEMMA OwnCarries ==
  ASSUME TypeOK, NEW s \in Sessions, SessionOnly(s) \/ ForceSynthesize(s)
  PROVE  /\ Live(s) /\ Carries(session[s], session'[s])
         /\ \E r, b : Commit(s, r, b)
<1>c. \A in \in TickInputs : in.progress \in BOOLEAN
  BY RequestsAssumption
<1>1. ASSUME NEW e \in Events, RecordEvent(s, e)
      PROVE  Live(s) /\ Carries(session[s], session'[s]) /\ \E r, b : Commit(s, r, b)
  BY <1>1, LiveType, EventCarries DEF RecordEvent, Commit
<1>2. ASSUME NEW in \in TickInputs, TickWaits(s, in) \/ TickInterrupted(s, in)
      PROVE  Live(s) /\ Carries(session[s], session'[s]) /\ \E r, b : Commit(s, r, b)
  <2> DEFINE r == Observed(session[s], in.progress)
             w == [r EXCEPT !.status = Waiting(r, in.force)]
  <2>1. session[s] \in Session /\ Live(s)
    BY <1>2, LiveType DEF TickWaits, TickInterrupted
  <2>2. r \in Session /\ Carries(session[s], r)
    BY <1>c, <2>1, ObservedType, ObservedCarries
  <2>3. Commit(s, w, Pruned(breaker)) \/ Commit(s, Claimed(r), Pruned(breaker))
    BY <1>2 DEF TickWaits, TickInterrupted
  <2> HIDE DEF r
  <2>4. Carries(r, w) /\ Carries(r, Claimed(r))
    BY <2>2 DEF Carries, Claimed, Waiting, Finalized, Session
  <2>5. session'[s] = w \/ session'[s] = Claimed(r)
    BY <2>3 DEF Commit
  <2>6. QED
    BY <2>1, <2>2, <2>3, <2>4, <2>5 DEF Carries
<1>3. ASSUME NEW in \in TickInputs,
             TickExhausts(s, in) \/ TickBlocks(s, in) \/ TickPingFails(s, in)
      PROVE  Live(s) /\ Carries(session[s], session'[s]) /\ \E r, b : Commit(s, r, b)
  <2> DEFINE r == Observed(session[s], in.progress)
  <2>1. session[s] \in Session /\ Live(s)
    BY <1>3, LiveType DEF TickExhausts, TickBlocks, TickPingFails, Recovery
  <2>2. r \in Session /\ Carries(session[s], r)
    BY <1>c, <2>1, ObservedType, ObservedCarries
  <2>3. PICK g : /\ g \in Exhausted(Failed(r)) \cup Blocked(Failed(r))
                           \cup PingFailed(Failed(r), BreakerAfter(s))
                 /\ Commit(s, g, BreakerAfter(s))
    BY <1>3, Zenon DEF TickExhausts, TickBlocks, TickPingFails, Recovery, AfterFailure
  <2> HIDE DEF r
  <2>4. Carries(r, g)
    BY <2>2, <2>3, OutcomeCarries
  <2>5. session'[s] = g
    BY <2>3 DEF Commit
  <2>6. QED
    BY <2>1, <2>2, <2>3, <2>4, <2>5 DEF Carries
<1>4. ASSUME NEW c \in Checks, RecordCheck(s, c)
      PROVE  Live(s) /\ Carries(session[s], session'[s]) /\ \E r, b : Commit(s, r, b)
  <2>1. session[s] \in Session /\ Live(s)
    BY <1>4, LiveType DEF RecordCheck
  <2>2. QED
    BY <1>4, <2>1 DEF RecordCheck, Commit, Carries, Session
<1>5. ASSUME NEW in \in CompleteInputs, CompleteRefused(s, in)
      PROVE  Live(s) /\ Carries(session[s], session'[s]) /\ \E r, b : Commit(s, r, b)
  BY <1>5 DEF CompleteRefused, Commit, Carries
<1>6. CASE ForceSynthesize(s)
  <2>1. session[s] \in Session /\ Live(s)
    BY <1>6, LiveType DEF ForceSynthesize
  <2>2. QED
    BY <1>6, <2>1 DEF ForceSynthesize, Commit, Carries, Finalized, Session
<1>7. QED
  BY <1>1, <1>2, <1>3, <1>4, <1>5, <1>6 DEF SessionOnly

\* Those that owe a revocation, and a start, still carry every other session.
LEMMA RevokingCommits ==
  ASSUME NEW s \in Sessions,
         Revoking(s) \/ (\E restart \in Restarts : Start(s, restart))
  PROVE  \E r, b : Commit(s, r, b)
<1>1. ASSUME NEW in \in TickInputs, TickFailsOver(s, in)
      PROVE  \E r, b : Commit(s, r, b)
  BY <1>1, Zenon DEF TickFailsOver, Recovery
<1>2. ASSUME NEW in \in CompleteInputs, CompleteAccepted(s, in)
      PROVE  \E r, b : Commit(s, r, b)
  BY <1>2, Zenon DEF CompleteAccepted
<1>3. CASE Abort(s)
  BY <1>3, Zenon DEF Abort
<1>4. ASSUME NEW restart \in Restarts, Start(s, restart)
      PROVE  \E r, b : Commit(s, r, b)
  BY <1>4, Zenon DEF Start
<1>5. QED
  BY <1>1, <1>2, <1>3, <1>4 DEF Revoking

\* Time only makes a session stale.
LEMMA ElapseCarries ==
  ASSUME TypeOK, Elapse, NEW u \in Sessions, Live(u)'
  PROVE  Live(u) /\ Carries(session[u], session'[u])
<1>1. session[u] # Gone
  BY DEF Elapse, Live
<1>2. session[u] \in Session /\ session'[u] = Aged(session[u])
  BY <1>1 DEF Elapse, TypeOK
<1>3. /\ session'[u].progress = Older(session[u].progress, StaleTtl + 1)
      /\ session'[u].status = session[u].status /\ session'[u].lane = session[u].lane
  BY <1>2 DEF Aged, Session
<1>4. session[u].progress \in Reach(StaleTtl + 1) /\ StaleTtl + 1 \in Nat
  BY <1>2, ConfigType DEF Session
<1>5. session'[u].progress >= session[u].progress
  BY <1>3, <1>4, OlderType
<1>6. session[u].progress \in Nat /\ session'[u].progress \in Nat
  BY <1>3, <1>4, OlderType DEF Reach
<1>7. session[u].progress <= StaleTtl
  BY <1>5, <1>6, ConfigType DEF Live
<1>8. QED
  BY <1>1, <1>3, <1>7 DEF Live, Carries

-----------------------------------------------------------------------------
(* Claims: the inductive invariant *)

Revokes(s) == owed # Nothing /\ owed.todo = "revoke" /\ owed.session = s

\* A live claim of a session that lives on is about to be revoked, or its session has
\* not been finalized and has handed the task to the lane it is on now.
Accounted(t) ==
  t \in DOMAIN tasks \ strays /\ LinkedLive(t) /\ LiveClaim(t) =>
     \/ Revokes(tasks[t].session)
     \/ /\ session[tasks[t].session].status \notin Finalized
        /\ session[tasks[t].session].lane \in crew[t]

ClaimInv == STypeOK /\ \A t \in TaskIds : Accounted(t)

\* What a session tool may do to an accounted claim of another session, and a tool that
\* owes nothing also to one of its own.
LEMMA CarriedClaim ==
  ASSUME NEW t \in TaskIds, Accounted(t), owed = Nothing,
         UNCHANGED <<tasks, now, crew>>, strays \subseteq strays',
         LinkedLive(t)' => /\ LinkedLive(t)
                           /\ Carries(session[tasks[t].session], session'[tasks[t].session])
  PROVE  Accounted(t)'
<1>1. LiveClaim(t)' = LiveClaim(t)
  BY DEF LiveClaim, T!IsOpen, T!TERMINAL, T!LeaseAllows
<1>2. QED
  BY <1>1 DEF Accounted, Revokes, Carries, LinkedLive

LEMMA WritesAccounted ==
  ASSUME ClaimInv, NEW s \in Sessions, SupervisorWrites(s) \/ StartsOver(s),
         NEW t \in TaskIds
  PROVE  Accounted(t)'
<1> DEFINE u == tasks[t].session
<1>0. /\ owed = Nothing /\ UNCHANGED <<tasks, now, crew>> /\ strays \subseteq strays'
      /\ Accounted(t) /\ TypeOK
  BY DEF SupervisorWrites, StartsOver, ClaimInv, STypeOK
<1>1. SessionOnly(s) \/ ForceSynthesize(s) \/ Revoking(s) \/ StartsOver(s)
  BY DEF SupervisorWrites, Synthesizing
<1>2. CASE ~LinkedLive(t)'
  BY <1>2 DEF Accounted
<1>3. CASE LinkedLive(t)' /\ u # s
  <2>1. PICK w \in Sessions : w = u /\ Live(w)'
    BY <1>0, <1>3 DEF LinkedLive, Live
  <2>2. \E r, b : Commit(s, r, b)
    <3>1. CASE SessionOnly(s) \/ ForceSynthesize(s)
      BY <1>0, <3>1, OwnCarries
    <3>2. CASE Revoking(s) \/ StartsOver(s)
      <4>1. Revoking(s) \/ (\E restart \in Restarts : Start(s, restart))
        BY <3>2 DEF StartsOver
      <4>2. QED
        BY <4>1, RevokingCommits
    <3>3. QED
      BY <1>1, <3>1, <3>2
  <2>3. Live(w) /\ session'[w] = session[w]
    <3>1. PICK r, b : Commit(s, r, b)
      BY <2>2
    <3>2. QED
      BY <1>3, <2>1, <3>1, OthersCarry
  <2>4. LinkedLive(t) /\ Carries(session[u], session'[u])
    BY <2>1, <2>3 DEF LinkedLive, Carries
  <2>5. QED
    BY <1>0, <2>4, CarriedClaim
<1>4. CASE LinkedLive(t)' /\ u = s /\ (SessionOnly(s) \/ ForceSynthesize(s))
  <2>1. LinkedLive(t) /\ Carries(session[u], session'[u])
    BY <1>0, <1>4, OwnCarries DEF LinkedLive
  <2>2. QED
    BY <1>0, <2>1, CarriedClaim
<1>5. CASE LinkedLive(t)' /\ u = s /\ Revoking(s) /\ ~(SessionOnly(s) \/ ForceSynthesize(s))
  <2>1. CASE SupervisorWrites(s)
    <3>1. owed' = [session |-> s, todo |-> "revoke"]
      BY <1>5, <2>1 DEF SupervisorWrites, Synthesizing
    <3>2. owed' # Nothing /\ owed'.todo = "revoke" /\ owed'.session = tasks'[t].session
      BY <1>0, <1>5, <3>1, TasksAssumption
    <3>3. QED
      BY <3>2 DEF Accounted, Revokes
  <2>2. CASE StartsOver(s)
    <3>1. t \in DOMAIN tasks /\ LiveClaim(t) => t \in strays'
      BY <1>5, <2>2 DEF StartsOver, T!OpenLinked, LiveClaim
    <3>2. LiveClaim(t)' = LiveClaim(t)
      BY <1>0 DEF LiveClaim, T!IsOpen, T!TERMINAL, T!LeaseAllows
    <3>3. QED
      BY <1>0, <3>1, <3>2 DEF Accounted
  <2>3. QED
    BY <2>1, <2>2
<1>6. CASE u = s /\ StartsOver(s)
  <2>1. t \in DOMAIN tasks /\ LiveClaim(t) => t \in strays'
    BY <1>6 DEF StartsOver, T!OpenLinked, LiveClaim
  <2>2. LiveClaim(t)' = LiveClaim(t)
    BY <1>0 DEF LiveClaim, T!IsOpen, T!TERMINAL, T!LeaseAllows
  <2>3. QED
    BY <1>0, <2>1, <2>2 DEF Accounted
<1>7. QED
  BY <1>1, <1>2, <1>3, <1>4, <1>5, <1>6

\* The second half of a tool leaves no live claim on its session's tasks, and a crash
\* in its place makes them strays.
LEMMA FollowAccounted ==
  ASSUME ClaimInv, TasksFollow \/ Dies, NEW t \in TaskIds
  PROVE  Accounted(t)'
<1> DEFINE s == owed.session
<1>0. /\ owed # Nothing /\ owed' = Nothing
      /\ Accounted(t) /\ T!TypeOK
      /\ UNCHANGED <<session, crew>>
  BY DEF TasksFollow, Dies, ClaimInv, STypeOK
<1>1. DOMAIN tasks' = DOMAIN tasks /\ now' = now
  BY DEF TasksFollow, Dies, T!RevokeSessionLeases, T!ForceSynthesizeLinked
<1>2. SUFFICES ASSUME t \in DOMAIN tasks' \ strays', LinkedLive(t)', LiveClaim(t)'
               PROVE  /\ session'[tasks'[t].session].status \notin Finalized
                      /\ session'[tasks'[t].session].lane \in crew'[t]
  BY DEF Accounted
<1>3. tasks[t] \in T!Task
  BY <1>0, <1>1, <1>2 DEF T!TypeOK
<1>4. CASE t \in T!OpenLinked(s)
  <2>1. CASE Dies
    BY <1>2, <1>4, <2>1 DEF Dies
  <2>2. CASE T!RevokeSessionLeases(s)
    <3>1. tasks'[t] = [tasks[t] EXCEPT !.lease = T!Revoked(@)]
      BY <1>1, <1>2, <1>4, <2>2 DEF T!RevokeSessionLeases
    <3>2. tasks'[t].lease = T!Revoked(tasks[t].lease)
      BY <1>3, <3>1 DEF T!Task
    <3>3. tasks[t].lease = NoLease \/ tasks[t].lease \in T!Lease
      BY <1>3 DEF T!Task
    <3>4. tasks'[t].lease = NoLease \/ tasks'[t].lease.revoked
      BY <3>2, <3>3 DEF T!Revoked, T!Lease
    <3>5. QED
      BY <1>2, <3>4 DEF LiveClaim, T!LeaseAllows
  <2>3. CASE T!ForceSynthesizeLinked(s)
    <3>1. tasks'[t].status = "force_synthesized"
      BY <1>1, <1>2, <1>3, <1>4, <2>3 DEF T!ForceSynthesizeLinked, T!Task
    <3>2. QED
      BY <1>2, <3>1 DEF LiveClaim, T!IsOpen, T!TERMINAL
  <2>4. QED
    BY <2>1, <2>2, <2>3 DEF TasksFollow
<1>5. CASE t \notin T!OpenLinked(s)
  <2>1. tasks'[t] = tasks[t] /\ t \notin strays
    BY <1>1, <1>2, <1>5 DEF TasksFollow, Dies, T!RevokeSessionLeases, T!ForceSynthesizeLinked
  <2>2. LiveClaim(t) /\ LinkedLive(t)
    BY <1>0, <1>1, <1>2, <2>1
       DEF LiveClaim, LinkedLive, Live, T!LeaseAllows, T!IsOpen, T!TERMINAL
  <2>3. tasks[t].session # s
    BY <1>1, <1>2, <1>5, <2>2 DEF T!OpenLinked, LiveClaim
  <2>4. ~Revokes(tasks[t].session)
    BY <2>3 DEF Revokes
  <2>5. QED
    BY <1>0, <1>1, <1>2, <2>1, <2>2, <2>4 DEF Accounted
<1>6. QED
  BY <1>4, <1>5

\* A task that is registered or leased anew is handed to the lane its session is on,
\* or becomes a stray.
LEMMA HandedAccounted ==
  ASSUME ClaimInv, NEW t \in TaskIds, NEW v \in TaskIds, Handed(v, tasks'[v].session),
         UNCHANGED <<session, owed, now>>,
         DOMAIN tasks' = DOMAIN tasks \cup {v},
         \A w \in DOMAIN tasks \ {v} : tasks'[w] = tasks[w]
  PROVE  Accounted(t)'
<1>0. Accounted(t) /\ CrewOK /\ strays \subseteq strays'
  BY DEF ClaimInv, STypeOK, Handed
<1>1. CASE t = v
  <2>1. session'[tasks'[t].session].lane \in crew'[t]
    BY <1>0, <1>1 DEF Handed, CrewOK
  <2>2. t \notin strays' => session'[tasks'[t].session].status \notin Finalized
    BY <1>1 DEF Handed, Terminal, Finalized
  <2>3. QED
    BY <2>1, <2>2 DEF Accounted
<1>2. CASE t # v
  <2>1. crew'[t] = crew[t]
    BY <1>0, <1>2 DEF Handed, CrewOK
  <2>2. t \in DOMAIN tasks' => t \in DOMAIN tasks /\ tasks'[t] = tasks[t]
    BY <1>2
  <2>3. t \in DOMAIN tasks' => LiveClaim(t)' = LiveClaim(t) /\ LinkedLive(t)' = LinkedLive(t)
    BY <2>2 DEF LiveClaim, LinkedLive, Live, T!LeaseAllows, T!IsOpen, T!TERMINAL
  <2>4. QED
    BY <1>0, <2>1, <2>2, <2>3 DEF Accounted, Revokes
<1>3. QED
  BY <1>1, <1>2

\* A lane's write makes no live claim, unless the task becomes a stray.
LEMMA LaneAccounted ==
  ASSUME ClaimInv, NEW l \in Lanes, NEW v \in TaskIds, LaneWrites(l, v), NEW t \in TaskIds
  PROVE  Accounted(t)'
<1>0. Accounted(t) /\ T!TypeOK
  BY DEF ClaimInv, STypeOK
<1>1. /\ v \in DOMAIN tasks /\ DOMAIN tasks' = DOMAIN tasks /\ now' = now
      /\ \A w \in DOMAIN tasks \ {v} : tasks'[w] = tasks[w]
  BY DEF LaneWrites, T!Update, T!Suspend, T!Resume
<1>2. UNCHANGED <<session, owed, crew>> /\ strays \subseteq strays'
  BY DEF LaneWrites
<1>3. CASE t # v
  <2>1. t \in DOMAIN tasks => LiveClaim(t)' = LiveClaim(t) /\ LinkedLive(t)' = LinkedLive(t)
    BY <1>1, <1>2, <1>3 DEF LiveClaim, LinkedLive, Live, T!LeaseAllows, T!IsOpen, T!TERMINAL
  <2>2. QED
    BY <1>0, <1>1, <1>2, <1>3, <2>1 DEF Accounted, Revokes
<1>4. CASE t = v /\ ~TakenBack(v)
  <2>1. /\ tasks'[t].lease = tasks[t].lease /\ tasks'[t].session = tasks[t].session
        /\ T!IsOpen(tasks', t) => T!IsOpen(tasks, t)
    BY <1>4 DEF TakenBack
  <2>2. (LiveClaim(t)' => LiveClaim(t)) /\ LinkedLive(t)' = LinkedLive(t)
    BY <1>1, <1>2, <2>1 DEF LiveClaim, LinkedLive, Live, T!LeaseAllows, T!IsOpen, T!TERMINAL
  <2>3. QED
    BY <1>0, <1>1, <1>2, <2>1, <2>2 DEF Accounted, Revokes
<1>5. CASE t = v /\ TakenBack(v)
  BY <1>5 DEF LaneWrites, Accounted
<1>6. QED
  BY <1>3, <1>4, <1>5

LEMMA ClaimStep ==
  ASSUME ClaimInv, [SNext]_svars, STypeOK'
  PROVE  ClaimInv'
<1> SUFFICES ASSUME NEW t \in TaskIds
             PROVE  Accounted(t)'
  BY DEF ClaimInv
<1>0. Accounted(t) /\ TypeOK /\ T!TypeOK
  BY DEF ClaimInv, STypeOK
<1>1. ASSUME NEW s \in Sessions, SupervisorWrites(s) \/ StartsOver(s)
      PROVE  Accounted(t)'
  BY <1>1, WritesAccounted
<1>2. CASE TasksFollow \/ Dies
  BY <1>2, FollowAccounted
<1>3. ASSUME NEW v \in TaskIds, NEW req \in CreateInputs, Register(v, req)
      PROVE  Accounted(t)'
  <2>1. /\ UNCHANGED <<session, owed, now>>
        /\ DOMAIN tasks' = DOMAIN tasks \cup {v}
        /\ \A w \in DOMAIN tasks \ {v} : tasks'[w] = tasks[w]
        /\ tasks'[v].session = req.session
    BY <1>3 DEF Register, T!Create
  <2>2. Handed(v, tasks'[v].session)
    BY <1>3, <2>1 DEF Register
  <2>3. QED
    BY <2>1, <2>2, HandedAccounted
<1>4. ASSUME NEW v \in TaskIds, NEW req \in UpdateInputs, ReLease(v, req)
      PROVE  Accounted(t)'
  <2>1. /\ UNCHANGED <<session, owed, now>>
        /\ DOMAIN tasks' = DOMAIN tasks \cup {v}
        /\ \A w \in DOMAIN tasks \ {v} : tasks'[w] = tasks[w]
        /\ Handed(v, tasks'[v].session)
    BY <1>4 DEF ReLease, T!Update
  <2>2. QED
    BY <2>1, HandedAccounted
<1>5. ASSUME NEW l \in Lanes, NEW v \in TaskIds, LaneWrites(l, v)
      PROVE  Accounted(t)'
  BY <1>5, LaneAccounted
<1>6. CASE TimePasses
  <2>1. UNCHANGED <<tasks, owed, crew, strays>> /\ now' = now + 1 /\ Elapse
    BY <1>6 DEF TimePasses, T!Tick
  <2>2. t \in DOMAIN tasks => tasks[t] \in T!Task
    BY <1>0 DEF T!TypeOK
  <2>3. t \in DOMAIN tasks => (LiveClaim(t)' => LiveClaim(t))
    <3>1. now \in Nat
      BY <1>0, TasksAssumption DEF T!TypeOK, T!Time
    <3>2. t \in DOMAIN tasks /\ tasks[t].lease # NoLease => tasks[t].lease.expiresAt \in Nat
      BY <2>2, TasksAssumption DEF T!Task, T!Lease, T!Time
    <3>3. QED
      BY <2>1, <3>1, <3>2 DEF LiveClaim, T!LeaseAllows, T!IsOpen, T!TERMINAL
  <2>4. LinkedLive(t)' => /\ LinkedLive(t)
                          /\ Carries(session[tasks[t].session], session'[tasks[t].session])
    BY <1>0, <2>1, ElapseCarries DEF LinkedLive
  <2>5. QED
    BY <1>0, <2>1, <2>3, <2>4 DEF Accounted, Revokes, Carries
<1>7. CASE UNCHANGED svars
  <2>1. LiveClaim(t)' = LiveClaim(t) /\ LinkedLive(t)' = LinkedLive(t)
    BY <1>7 DEF svars, LiveClaim, LinkedLive, Live, T!LeaseAllows, T!IsOpen, T!TERMINAL
  <2>2. QED
    BY <1>0, <1>7, <2>1 DEF svars, Accounted, Revokes
<1>8. QED
  BY <1>1, <1>2, <1>3, <1>4, <1>5, <1>6, <1>7 DEF SNext

LEMMA ClaimCorrect == SSpec => []ClaimInv
<1>1. SInit => \A t \in TaskIds : Accounted(t)
  BY DEF SInit, T!Init, Accounted
<1>2. SSpec => SInit /\ [][SNext]_svars /\ []STypeOK
  BY STypeCorrect DEF SSpec
<1>3. SInit /\ STypeOK => ClaimInv
  BY <1>1 DEF ClaimInv
<1>4. QED
  BY <1>2, <1>3, ClaimStep, PTL

\* The second half of every tool revokes: a completed or aborted session holds no live
\* claim but those of strays, among them every task handed out after its end.
THEOREM FinalizedHoldsNoClaim == SSpec => []FinalizedSessionHoldsNoClaim
<1>1. ClaimInv => FinalizedSessionHoldsNoClaim
  <2> SUFFICES ASSUME ClaimInv, NEW t \in DOMAIN tasks \ strays,
                      ClaimOutlives(t, {"completed", "interrupted"})
               PROVE  FALSE
    BY DEF FinalizedSessionHoldsNoClaim
  <2>1. t \in TaskIds
    BY DEF ClaimInv, STypeOK, T!TypeOK
  <2>2. Accounted(t)
    BY <2>1 DEF ClaimInv
  <2>3. QED
    BY <2>2 DEF ClaimOutlives, Accounted, Revokes, Finalized
<1>2. QED
  BY <1>1, ClaimCorrect, PTL

-----------------------------------------------------------------------------
(* Overtaken lanes *)

\* Only a lane's write lands something, and it lands under the claim it found.
LEMMA LandedStep ==
  ASSUME SNext, NEW l \in Lanes, NEW t \in TaskIds,
         landed' = [lane |-> l, task |-> t]
  PROVE  LaneWrites(l, t) /\ T!LeaseAllows(tasks[t].lease)
<1>1. landed' # Nothing
  BY TasksAssumption
<1>2. PICK k \in Lanes, v \in TaskIds : LaneWrites(k, v)
  BY <1>1 DEF SNext, SupervisorWrites, StartsOver, TasksFollow, Dies, Register,
              ReLease, Handed, TimePasses
<1>3. k = l /\ v = t
  BY <1>2 DEF LaneWrites
<1>4. QED
  BY <1>2, <1>3 DEF LaneWrites, T!Update, T!Suspend, T!Resume

\* While no tool stands between its two writes, a lane that writes on an open leased
\* task is one of the crew its session's lane belongs to.
THEOREM FailedOverFenced == SSpec => FailedOverLaneIsFenced
<1> DEFINE P == \A l \in Lanes, t \in DOMAIN tasks :
                  (Overtaken(l, t) /\ T!IsOpen(tasks, t) /\ owed = Nothing /\ t \notin strays) =>
                     session[tasks[t].session].lane \in crew[t]
<1>1. ClaimInv /\ SNext => P
  <2> SUFFICES ASSUME ClaimInv, SNext, NEW l \in Lanes, NEW t \in DOMAIN tasks,
                      Overtaken(l, t), T!IsOpen(tasks, t), owed = Nothing, t \notin strays
               PROVE  session[tasks[t].session].lane \in crew[t]
    OBVIOUS
  <2>1. t \in TaskIds
    BY DEF ClaimInv, STypeOK, T!TypeOK
  <2>2. T!LeaseAllows(tasks[t].lease)
    BY <2>1, LandedStep DEF Overtaken
  <2>3. LiveClaim(t) /\ LinkedLive(t) /\ Accounted(t)
    BY <2>1, <2>2 DEF LiveClaim, Overtaken, ClaimInv
  <2>4. QED
    BY <2>3 DEF Accounted, Revokes
<1>2. ClaimInv /\ [SNext]_svars => [P]_svars
  BY <1>1
<1>3. QED
  BY <1>2, ClaimCorrect, PTL DEF SSpec, FailedOverLaneIsFenced

\* The lease check of the task tools stands behind the failover's revocation: when
\* that is lost, the deadline of the overtaken lane is still compared.
THEOREM OvertakenMeetsDeadline == SSpec => OvertakenLaneMeetsDeadline
<1> DEFINE P == \A l \in Lanes, t \in DOMAIN tasks :
                  Overtaken(l, t) => now < tasks[t].lease.expiresAt /\ ~tasks[t].lease.revoked
<1>1. STypeOK /\ SNext => P
  <2> SUFFICES ASSUME STypeOK, SNext, NEW l \in Lanes, NEW t \in DOMAIN tasks, Overtaken(l, t)
               PROVE  now < tasks[t].lease.expiresAt /\ ~tasks[t].lease.revoked
    OBVIOUS
  <2>1. t \in TaskIds /\ tasks[t] \in T!Task /\ now \in Nat
    BY TasksAssumption DEF STypeOK, T!TypeOK, T!Time
  <2>2. T!LeaseAllows(tasks[t].lease)
    BY <2>1, LandedStep DEF Overtaken
  <2>3. tasks[t].lease \in T!Lease
    BY <2>1 DEF Overtaken, T!Task
  <2>4. tasks[t].lease.expiresAt \in Nat
    BY <2>3, TasksAssumption DEF T!Lease, T!Time
  <2>5. QED
    BY <2>1, <2>2, <2>4 DEF Overtaken, T!LeaseAllows
<1>2. STypeOK /\ [SNext]_svars => [P]_svars
  BY <1>1
<1>3. QED
  BY <1>2, STypeCorrect, PTL DEF SSpec, OvertakenLaneMeetsDeadline

\* The second half of a forced synthesis looks at the tasks as they are when it runs,
\* so a result that landed since its first half is left alone.
THEOREM SynthesisSparesResults == SSpec => SynthesisOverwritesNoResult
<1> DEFINE P == \A t \in DOMAIN tasks :
                  tasks[t].status \in {"done", "canceled"} /\ landed' = Nothing =>
                     tasks'[t].status # "force_synthesized"
<1>1. STypeOK /\ SNext => P
  <2> SUFFICES ASSUME STypeOK, SNext, NEW t \in DOMAIN tasks, landed' = Nothing,
                      tasks[t].status \in {"done", "canceled"}
               PROVE  tasks'[t].status = tasks[t].status
    OBVIOUS
  <2>0. tasks[t] \in T!Task
    BY DEF STypeOK, T!TypeOK
  <2>1. ASSUME NEW s \in Sessions, SupervisorWrites(s) \/ StartsOver(s)
        PROVE  tasks'[t].status = tasks[t].status
    BY <2>1 DEF SupervisorWrites, StartsOver
  <2>2. CASE TasksFollow
    <3>1. t \notin T!OpenLinked(owed.session)
      BY DEF T!OpenLinked, T!IsOpen, T!TERMINAL
    <3>2. QED
      BY <2>2, <3>1 DEF TasksFollow, T!RevokeSessionLeases, T!ForceSynthesizeLinked
  <2>3. CASE Dies \/ TimePasses
    BY <2>3 DEF Dies, TimePasses, T!Tick
  <2>4. ASSUME NEW v \in TaskIds, NEW req \in CreateInputs, Register(v, req)
        PROVE  tasks'[t].status = tasks[t].status
    BY <2>4 DEF Register, T!Create
  <2>5. ASSUME NEW v \in TaskIds, NEW req \in UpdateInputs, ReLease(v, req)
        PROVE  tasks'[t].status = tasks[t].status
    BY <2>0, <2>5 DEF ReLease, T!Update, T!IsWriteBack, T!Given, T!Task
  <2>6. ASSUME NEW l \in Lanes, NEW v \in TaskIds, LaneWrites(l, v)
        PROVE  FALSE
    BY <2>6, TasksAssumption DEF LaneWrites
  <2>7. QED
    BY <2>1, <2>2, <2>3, <2>4, <2>5, <2>6 DEF SNext
<1>2. STypeOK /\ [SNext]_svars => [P]_svars
  BY <1>1
<1>3. QED
  BY <1>2, STypeCorrect, PTL DEF SSpec, SynthesisOverwritesNoResult
=============================================================================
