------------------------------ MODULE StoreLock ------------------------------
(***************************************************************************)
(* How the server keeps the promise of AtomicStore: one promise-chain lock *)
(* per document (withTaskStoreLock, withSupervisorStoreLock,               *)
(* withFindingStoreLock), and under it a read of the whole document and    *)
(* atomicWriteTextFile: temp file, flush, rename, flush of the directory.  *)
(* Tools run interleaved at every await; some take a second lock while     *)
(* they hold the first, some run a hook that calls tools of this server.   *)
(* One server process owns the files, as in the modules that take a locked *)
(* section for one step.                                                   *)
(***************************************************************************)
EXTENDS Naturals, Sequences

CONSTANTS
  Calls,            \* tool calls
  Mixes,            \* which tools the calls are: a subset of [Calls -> Plans]
  NoCall,
  MaxDeaths         \* bound: times the server dies

Stores == {"supervisor", "task", "finding"}

Step(op, s) == [op |-> op, store |-> s]
Locked(s, inner) == <<Step("lock", s), Step("save", s)>> \o inner \o <<Step("unlock", s)>>
Alone(s) == Locked(s, <<>>)

\* What the tools do with the locks.  supervisor: start, tick, checks, prompts.  finding:
\* finding_record, generation_open, generation_close.  failover: also abort and complete,
\* whose revokeSessionTaskLeases runs inside the supervisor's section.  synthesis: marks
\* the linked tasks, then files the findings, inside it.  hooked: a tool that emits a
\* lifecycle hook, whose program calls the same tool again, after its section (MCP-12).
Plans ==
  {Alone("supervisor"), Alone("task"), Alone("finding"),
   Locked("supervisor", Alone("task")),
   Locked("supervisor", Alone("task") \o Alone("finding")),
   Alone("task") \o Alone("task")}

ASSUME MixesAssumption == Mixes \subseteq [Calls -> Plans] /\ MaxDeaths \in Nat

VARIABLES
  plan,       \* one of Mixes
  at,         \* [Calls -> Nat]: the step of the plan; past its end when the call is over
  stage,      \* [Calls]: how far a save is: "queued" "read" "temp" "rename" "flush"
  copy,       \* [Calls]: the document in memory
  queue,      \* [Stores]: calls that hold (head) or wait for the lock
  visible,    \* [Stores]: what a reader finds under the document's name
  surviving,  \* [Stores]: the documents a power loss may leave there
  told,       \* [Stores]: updates whose write returned without an error
  syncing,    \* whether directories can be flushed (DIRECTORY_FSYNC_TOLERATED_CODES)
  deaths

vars == <<plan, at, stage, copy, queue, visible, surviving, told, syncing, deaths>>
files == <<visible, surviving, told, syncing, deaths>>

\* An update is named by the call and its step.
Updates == Calls \X (1..9)

\* A document whose content did not reach the disk: it cannot be parsed.
Torn == {<<NoCall, 0>>}

Init ==
  /\ plan \in Mixes
  /\ at = [c \in Calls |-> 1]
  /\ stage = [c \in Calls |-> "queued"]
  /\ copy = [c \in Calls |-> {}]
  /\ queue = [s \in Stores |-> <<>>]
  /\ visible = [s \in Stores |-> {}]
  /\ surviving = [s \in Stores |-> {{}}]
  /\ told = [s \in Stores |-> {}]
  /\ syncing \in BOOLEAN
  /\ deaths = 0

Begun(c) == at[c] > 1 \/ stage[c] # "queued"
Over(c) == at[c] > Len(plan[c])
Does(c, op, s) == at[c] \in DOMAIN plan[c] /\ plan[c][at[c]] = Step(op, s)

-----------------------------------------------------------------------------
(* The lock *)

\* The tail of the chain is swapped without an await between.
Enqueue(c, s) ==
  /\ Does(c, "lock", s)
  /\ stage[c] = "queued"
  /\ queue' = [queue EXCEPT ![s] = Append(@, c)]
  /\ stage' = [stage EXCEPT ![c] = "read"]
  /\ UNCHANGED <<plan, at, copy>> /\ UNCHANGED files

\* Mutant of MayEnter: the call does not await the previous one.
MayEnter_AtOnce(c, s) == TRUE

MayEnter(c, s) == Head(queue[s]) = c

\* await previous, then work().
Acquire(c, s) ==
  /\ Does(c, "lock", s)
  /\ stage[c] = "read"
  /\ MayEnter(c, s)
  /\ at' = [at EXCEPT ![c] = @ + 1]
  /\ UNCHANGED <<plan, stage, copy, queue>> /\ UNCHANGED files

\* The holder's promise is resolved: the next in the chain may enter.
Without(q, c) == IF q # <<>> /\ Head(q) = c THEN Tail(q) ELSE q

\* finally release().
Release(c, s) ==
  /\ Does(c, "unlock", s)
  /\ at' = [at EXCEPT ![c] = @ + 1]
  /\ stage' = [stage EXCEPT ![c] = "queued"]
  /\ queue' = [queue EXCEPT ![s] = Without(@, c)]
  /\ UNCHANGED <<plan, copy>> /\ UNCHANGED files

-----------------------------------------------------------------------------
(* The section: read, change, write the whole document *)

\* A missing file is the empty document; one that cannot be parsed, and any other error,
\* is an exception (StoreAccessError), never an empty document.
Read(c, s) ==
  /\ Does(c, "save", s)
  /\ stage[c] = "read"
  /\ visible[s] # Torn
  /\ copy' = [copy EXCEPT ![c] = visible[s] \cup {<<c, at[c]>>}]
  /\ stage' = [stage EXCEPT ![c] = "temp"]
  /\ UNCHANGED <<plan, at, queue>> /\ UNCHANGED files

\* The tool refuses, or finds nothing to change (no linked task): it writes nothing.
WriteNothing(c, s) ==
  /\ Does(c, "save", s)
  /\ stage[c] = "temp"
  /\ at' = [at EXCEPT ![c] = @ + 1]
  /\ stage' = [stage EXCEPT ![c] = "queued"]
  /\ copy' = [copy EXCEPT ![c] = {}]
  /\ UNCHANGED <<plan, queue>> /\ UNCHANGED files

\* The temp file is written, flushed and closed.
WriteTemp(c, s) ==
  /\ Does(c, "save", s)
  /\ stage[c] = "temp"
  /\ stage' = [stage EXCEPT ![c] = "rename"]
  /\ UNCHANGED <<plan, at, copy, queue>> /\ UNCHANGED files

\* Mutant of OnDisk: the temp file is not flushed before it gets the name.
OnDisk_Unflushed(d) == {d, Torn}

\* What a power loss may leave under a name that was just given to the temp file with d.
OnDisk(d) == {d}

Rename(c, s) ==
  /\ Does(c, "save", s)
  /\ stage[c] = "rename"
  /\ visible' = [visible EXCEPT ![s] = copy[c]]
  /\ surviving' = [surviving EXCEPT ![s] = @ \cup OnDisk(copy[c])]
  /\ stage' = [stage EXCEPT ![c] = "flush"]
  /\ UNCHANGED <<plan, at, copy, queue, told, syncing, deaths>>

AfterFlush(s) == IF syncing THEN OnDisk(visible[s]) ELSE surviving[s]

\* The write returns: the directory is flushed, or cannot be and that is tolerated.
FlushDirectory(c, s) ==
  /\ Does(c, "save", s)
  /\ stage[c] = "flush"
  /\ surviving' = [surviving EXCEPT ![s] = AfterFlush(s)]
  /\ told' = [told EXCEPT ![s] = @ \cup {<<c, at[c]>>}]
  /\ at' = [at EXCEPT ![c] = @ + 1]
  /\ stage' = [stage EXCEPT ![c] = "queued"]
  /\ copy' = [copy EXCEPT ![c] = {}]
  /\ UNCHANGED <<plan, queue, visible, syncing, deaths>>

\* Mutant of Unwound: the inner lock is not released.
Unwound_Outermost(c) ==
  [s \in Stores |-> IF s = plan[c][1].store THEN Without(queue[s], c) ELSE queue[s]]

\* The queues after the finally blocks of all sections the call is in.
Unwound(c) == [s \in Stores |-> Without(queue[s], c)]

\* An error of any of these calls (also after the rename, from the directory) ends the
\* section, and the tool with it; persistForceSynthesisFindings catches it, and all that
\* is left then is to release the outer lock.  The temp file is unlinked.
Fail(c) ==
  /\ \E s \in Stores : Does(c, "save", s)
  /\ stage[c] \in {"read", "temp", "rename", "flush"}
  /\ at' = [at EXCEPT ![c] = Len(plan[c]) + 1]
  /\ queue' = Unwound(c)
  /\ stage' = [stage EXCEPT ![c] = "queued"]
  /\ copy' = [copy EXCEPT ![c] = {}]
  /\ UNCHANGED plan /\ UNCHANGED files

-----------------------------------------------------------------------------
(* Faults *)

\* The server dies; what was renamed stays visible in the page cache.
Dies ==
  /\ deaths < MaxDeaths
  /\ deaths' = deaths + 1
  /\ at' = [c \in Calls |-> IF Begun(c) THEN Len(plan[c]) + 1 ELSE 1]
  /\ stage' = [c \in Calls |-> "queued"]
  /\ copy' = [c \in Calls |-> {}]
  /\ queue' = [s \in Stores |-> <<>>]

Killed == Dies /\ UNCHANGED <<plan, visible, surviving, told, syncing>>

\* The machine loses power as well.
PowerLoss ==
  /\ Dies
  /\ visible' \in {v \in [Stores -> UNION {surviving[s] : s \in Stores}] :
                     \A s \in Stores : v[s] \in surviving[s]}
  /\ surviving' = [s \in Stores |-> {visible'[s]}]
  /\ UNCHANGED <<plan, told, syncing>>

Works(c) ==
  \/ \E s \in Stores :
       \/ Enqueue(c, s) \/ Acquire(c, s) \/ Release(c, s)
       \/ Read(c, s) \/ WriteNothing(c, s) \/ WriteTemp(c, s) \/ Rename(c, s) \/ FlushDirectory(c, s)
  \/ Fail(c)

Next == (\E c \in Calls : Works(c)) \/ Killed \/ PowerLoss

\* Fairness: the event loop resumes every call whose await is over, and every file
\* operation answers or fails.  Nothing makes a client call, or a server die.
Fairness == \A c \in Calls : WF_vars(Begun(c) /\ Works(c))

Spec == Init /\ [][Next]_vars /\ Fairness

-----------------------------------------------------------------------------
(* Properties *)

\* The locked sections of all tools implement the atomic store: no update is lost under
\* another one's, none is half there, and power losses take only what may be taken.
Abstract ==
  INSTANCE AtomicStore WITH
    doc <- visible,
    safe <- [s \in Stores |-> {u \in visible[s] : \A d \in surviving[s] : u \in d}]

SectionsAreAtomic == Abstract!Spec

\* "The honest trade": where directories can be flushed, no death and no power loss takes
\* back an update whose writer was told it is stored.
AcknowledgedSurvives == syncing => \A s \in Stores : told[s] \subseteq visible[s]

\* The locks are not reentrant, and nested: still every call comes to its end, since all
\* tools take them in one order and run hooks outside.
EveryCallEnds == \A c \in Calls : Begun(c) ~> Over(c)
==============================================================================
