------------------------------ MODULE MCRecords -----------------------------
(***************************************************************************)
(* The records the server keeps beside tasks and sessions: findings, the   *)
(* memory files of an agent, the telemetry log.  They share nothing; a     *)
(* behaviour is one of the three.                                          *)
(***************************************************************************)
EXTENDS FindingStore, AgentMemory, LogWorker, TLC

allVars == <<vars, memoryVars, logVars>>

MCInit == Init /\ MemoryInit /\ LogInit

NoFindings == findings = <<>> /\ generations = [g \in {} |-> None]
NoMemory   == memory = Absent /\ acked = {} /\ \A c \in Calls : call[c].step = "idle"
NoLog      == dir = FALSE /\ ensured = FALSE /\ \A r \in Records : at[r] = "idle"

InFindings == NoMemory /\ NoLog /\ Next /\ UNCHANGED <<memoryVars, logVars>>
InMemory   == NoFindings /\ NoLog /\ MemoryNext /\ UNCHANGED <<vars, logVars>>
InLog      == NoFindings /\ NoMemory /\ LogNext /\ UNCHANGED <<vars, memoryVars>>

MCSpec == MCInit /\ [][InFindings \/ InMemory \/ InLog]_allVars

Plain ==
  [kind |-> "result", requested |-> "confirmed", source |-> "finished", measure |-> "known",
   parent |-> None, task |-> None, generation |-> None, outcome |-> None, surface |-> "allowed"]

Results ==
  {[Plain EXCEPT !.requested = r, !.parent = p, !.generation = g] :
      r \in Lanes \cup {None}, p \in BOOLEAN, g \in Generations}
    \cup {[Plain EXCEPT !.parent = TRUE]}
    \cup {[Plain EXCEPT !.source = s, !.parent = TRUE, !.generation = g] :
             s \in {"force_synthesized", "failed"}, g \in Generations}
    \cup {[Plain EXCEPT !.measure = "unknown", !.parent = TRUE, !.generation = g] : g \in Generations}

Canaries == {[Plain EXCEPT !.kind = "canary", !.task = t, !.outcome = o] :
               t \in Tasks, o \in {"fail", "could_not_run", None}}

Contracts == {[Plain EXCEPT !.kind = "mechanism_contract", !.surface = s] :
                s \in {"allowed", "forbidden"}}

MCDrafts == Results \cup Canaries \cup Contracts

MCRequests ==
  {[op |-> o, guarded |-> FALSE] : o \in {"append", "gate"}}
    \cup {[op |-> o, guarded |-> g] : o \in {"capture", "apply"}, g \in BOOLEAN}
    \cup {[op |-> "mark", entry |-> c, guarded |-> g] : c \in Calls, g \in BOOLEAN}

MCSymmetry == Permutations(Generations) \cup Permutations(Calls)
=============================================================================
