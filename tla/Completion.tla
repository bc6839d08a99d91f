----------------------------- MODULE Completion -----------------------------
(***************************************************************************)
(* The gates of supervisor_complete_session (supervisor_completion_tools)  *)
(* in the order of the code: memory drift, readiness, goal contracts that  *)
(* could not be validated, goal contracts without evidence.  The call      *)
(* holds the supervisor lock while it reads the memory files and the task  *)
(* store, so the sessions stand still and the tasks do not.  The session's *)
(* own record, readiness and every other tool are in SupervisorSession; a  *)
(* call is shorter than a unit of its clock.                               *)
(***************************************************************************)
EXTENDS SupervisorSession

CONSTANTS
  Commands,      \* validation commands
  Reports,       \* sets of commands a request may report as could_not_run
  PartOf,        \* pairs of commands: the text of the first is a part of the second
  Tasks,         \* tasks that may carry a goal contract
  Agents, Nobody,    \* memory owners; no memory guard
  NoContract, Idle   \* a task without a contract; no completion call is running

\* The request the gates are about.
Unforced == [outcome |-> "completed", force |-> FALSE]

ASSUME CommandsAssumption ==
  /\ Unforced \in CompleteInputs
  /\ Reports \subseteq SUBSET Commands
  /\ PartOf \subseteq Commands \X Commands /\ \A c \in Commands : <<c, c>> \in PartOf

VARIABLES
  summary,       \* completionEvidenceSummary: the commands it names
  guard,         \* completionMemorySync: whose memory is guarded
  drift,         \* agents whose memory differs from its snapshot
  contract,      \* of each task: its session, validationCmd, and whether it is open
  gate,          \* the running supervisor_complete_session
  shown          \* history: commands named by evidence since the last output

gateVars == <<summary, guard, drift, contract, gate, shown>>

GateInit ==
  /\ Init
  /\ summary = [s \in Sessions |-> {}] /\ guard = [s \in Sessions |-> Nobody]
  /\ drift = {} /\ contract = [t \in Tasks |-> NoContract]
  /\ gate = Idle /\ shown = [s \in Sessions |-> {}]

-----------------------------------------------------------------------------
(* The other tools, with what they do to the summary and the guard *)

\* clearCompletionProof and a new record forget the evidence.
Forgets(s) == summary' = [summary EXCEPT ![s] = {}] /\ shown' = [shown EXCEPT ![s] = {}]

StartGuarded(s, restart, owner) ==
  /\ Start(s, restart)
  /\ Forgets(s) /\ guard' = [guard EXCEPT ![s] = owner]

Evidence(s, named) ==
  /\ RecordCheck(s, "evidence")
  /\ summary' = [summary EXCEPT ![s] = named]
  /\ shown' = [shown EXCEPT ![s] = @ \cup named]
  /\ UNCHANGED guard

Ticks(s, in) ==
  \/ TickWaits(s, in) \/ TickInterrupted(s, in) \/ TickExhausts(s, in) \/ TickBlocks(s, in)
  \/ TickPingFails(s, in) \/ TickFailsOver(s, in)

Output(s) ==
  /\ \/ "output" \in Events /\ RecordEvent(s, "output")
     \/ \E in \in TickInputs : in.progress /\ Ticks(s, in)
  /\ Forgets(s) /\ UNCHANGED guard

Untouched(s) ==
  /\ \/ \E e \in Events \ {"output"} : RecordEvent(s, e)
     \/ \E in \in TickInputs : ~in.progress /\ Ticks(s, in)
     \/ \E c \in Checks \ {"evidence"} : RecordCheck(s, c)
     \/ "abort" \in Operators /\ Abort(s)
     \/ "synthesize" \in Operators /\ ForceSynthesize(s)
     \/ \E in \in CompleteInputs : ~Gated(in) /\ CompleteAccepted(s, in)
  /\ UNCHANGED <<summary, guard, shown>>

SessionStep ==
  /\ gate = Idle
  /\ \/ \E s \in Sessions :
          \/ \E restart \in Restarts, owner \in Agents \cup {Nobody} : StartGuarded(s, restart, owner)
          \/ \E named \in SUBSET Commands : "evidence" \in Checks /\ Evidence(s, named)
          \/ Output(s) \/ Untouched(s)
     \/ Elapse /\ UNCHANGED <<summary, guard, shown>>
  /\ UNCHANGED <<drift, contract, gate>>

\* sanitizeGoalContract: of a contract only the validation command counts here; one
\* without a command is as good as none.
GoalContract(s) == [session : {s}, cmd : Commands, open : {TRUE}]

\* task_create, task_update: a contract is attached or replaced, its task ends.
TaskStep ==
  /\ \E t \in Tasks :
       \/ \E s \in Sessions, c \in Commands :
             /\ contract[t] \in {NoContract} \cup GoalContract(s)
             /\ contract' = [contract EXCEPT ![t] = [session |-> s, cmd |-> c, open |-> TRUE]]
       \/ /\ contract[t] # NoContract /\ contract[t].open
          /\ contract' = [contract EXCEPT ![t].open = FALSE]
  /\ UNCHANGED <<vars, summary, guard, drift, gate, shown>>

\* The agent writes its memory, or syncs the snapshot.
MemoryStep ==
  /\ \E a \in Agents : drift' = IF a \in drift THEN drift \ {a} ELSE drift \cup {a}
  /\ UNCHANGED <<vars, summary, guard, contract, gate, shown>>

-----------------------------------------------------------------------------
(* supervisor_complete_session, outcome "completed", not forced *)

\* owner: the memorySync of the request, which stands in for the session's guard.
\* tried: the commands that the request reports as could_not_run.
Asks(s, owner, tried) ==
  /\ gate = Idle
  /\ Live(s) /\ session[s].status \notin Terminal
  /\ gate' = [session |-> s, owner |-> IF owner = Nobody THEN guard[s] ELSE owner,
              tried |-> tried, stage |-> "memory"]
  /\ UNCHANGED <<vars, summary, guard, drift, contract, shown>>

Refuses ==
  /\ CompleteRefused(gate.session, Unforced)
  /\ gate' = Idle

Passes(stage) == gate' = [gate EXCEPT !.stage = stage] /\ UNCHANGED vars

\* The drift of the guarded memory, then the session's own proof.
ChecksMemory ==
  /\ gate # Idle /\ gate.stage = "memory"
  /\ IF gate.owner \in drift \/ ~Ready(session[gate.session]) THEN Refuses ELSE Passes("contracts")
  /\ UNCHANGED <<summary, guard, drift, contract, shown>>

Linked(s) == {t \in Tasks : contract[t] # NoContract /\ contract[t].session = s /\ contract[t].open}

Names(commands, c) == \E d \in commands : <<c, d>> \in PartOf

\* attemptMatchesValidationCmd: either text is a part of the other.
CouldNotRun(c, tried) == \E d \in tried : <<c, d>> \in PartOf \/ <<d, c>> \in PartOf

\* Mutant of Validated: evidence for one contract stands for all.
Validated_One(s, tried) ==
  LET commands == {contract[t].cmd : t \in Linked(s)}
  IN  \/ commands = {}
      \/ \E c \in commands : ~CouldNotRun(c, tried) /\ Names(summary[s], c)

\* evaluateGoalContractCompletion, for every open contract of the session.
Validated(s, tried) ==
  \A t \in Linked(s) :
     ~CouldNotRun(contract[t].cmd, tried) /\ Names(summary[s], contract[t].cmd)

ChecksContracts ==
  /\ gate # Idle /\ gate.stage = "contracts"
  /\ IF Validated(gate.session, gate.tried) THEN Passes("finalize") ELSE Refuses
  /\ UNCHANGED <<summary, guard, drift, contract, shown>>

Finalizes ==
  /\ gate # Idle /\ gate.stage = "finalize"
  /\ CompleteAccepted(gate.session, Unforced)
  /\ gate' = Idle
  /\ UNCHANGED <<summary, guard, drift, contract, shown>>

GateStep ==
  \/ \E s \in Sessions, owner \in Agents \cup {Nobody}, tried \in Reports :
        Asks(s, owner, tried)
  \/ ChecksMemory \/ ChecksContracts \/ Finalizes

GateNext == SessionStep \/ TaskStep \/ MemoryStep \/ GateStep

GateSpec == GateInit /\ [][GateNext]_<<vars, gateVars>>

-----------------------------------------------------------------------------
(* Properties *)

\* "An unrun check never satisfies a stop condition": when the gates let a session
\* through, each of its open goal contracts has evidence, recorded since the lane's
\* last output, that names its command, and the request reports none of them as not
\* runnable, whatever tasks were linked, replaced or finished and whatever evidence
\* was recorded over other evidence in the meantime.
ContractsAreValidated ==
  [][gate # Idle /\ gate' # Idle /\ gate.stage = "contracts" /\ gate'.stage = "finalize" =>
       \A t \in Linked(gate.session) :
          /\ Names(shown[gate.session], contract[t].cmd)
          /\ contract[t].cmd \notin gate.tried]_<<vars, gateVars>>
=============================================================================
