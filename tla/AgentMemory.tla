----------------------------- MODULE AgentMemory -----------------------------
(***************************************************************************)
(* One agent's memory (memory_runtime.ts, agent_memory_tools.ts): MEMORY.md *)
(* and SNAPSHOT.md, shared by concurrent calls without a lock.  Appends use *)
(* O_APPEND; syncs and supersede marks read, compare a hash and replace the *)
(* file.  A content is its entry lines and whether the last line lacks its  *)
(* newline; a hash is the content.  A note is named by the call that        *)
(* appends it.                                                              *)
(***************************************************************************)
EXTENDS Naturals, Sequences

CONSTANTS
  Calls,
  Requests,                 \* what a call may ask: a subset of Request
  NoHash, Absent, Fragment,   \* no precondition; no file; what a torn write leaves
  MaxTears                  \* bound: hand edits and deaths in the middle of an append

Request ==
  [op : {"append", "capture", "apply", "gate"}, guarded : BOOLEAN]
    \cup [op : {"mark"}, guarded : BOOLEAN, entry : Calls]

Line == [note : Calls \cup {Fragment}, superseded : BOOLEAN]
Content == [lines : Seq(Line), torn : BOOLEAN]

ASSUME MemoryAssumption ==
  Requests \subseteq Request /\ MaxTears \in Nat /\ Absent \notin Content

\* DEFAULT_MEMORY_TEMPLATE.
Template == [lines |-> <<>>, torn |-> FALSE]

VARIABLES
  memory, snapshot,   \* Content \cup {Absent}
  meta,               \* lastSyncedMemoryHash, or NoHash
  call,               \* [Calls -> ...]: request, step, contents read, precondition
  acked,              \* the notes whose append returned
  lapsed,             \* history: [Calls -> notes acked before a gate was asked that were gone
                      \* from MEMORY.md when it read that, or later left SNAPSHOT.md behind it]
  tears

memoryVars == <<memory, snapshot, meta, call, acked, lapsed, tears>>

Idle == [req |-> NoHash, step |-> "idle", mem |-> NoHash, snap |-> NoHash, expected |-> NoHash,
         heal |-> FALSE, disturbed |-> FALSE, before |-> {}]

MemoryInit ==
  /\ memory = Absent /\ snapshot = Absent /\ meta = NoHash
  /\ call = [c \in Calls |-> Idle]
  /\ acked = {} /\ lapsed = [c \in Calls |-> {}] /\ tears = 0

Has(content, n) ==
  /\ content # Absent
  /\ \E i \in DOMAIN content.lines : content.lines[i].note = n

At(c, ops, step) == call[c].step = step /\ call[c].req.op \in ops
Goes(c, step) == [call EXCEPT ![c].step = step]

\* MEMORY.md changes under the calls that have checked its last byte.
Disturbs(f) == [c \in Calls |-> IF f[c].step = "append" THEN [f[c] EXCEPT !.disturbed = TRUE] ELSE f[c]]

\* What the write at the end of a sync or mark replaces.
Target(req) == IF req.op = "capture" THEN snapshot ELSE memory

-----------------------------------------------------------------------------
(* The start of every call *)

\* A client that wants a compare-and-swap takes the hash from an earlier status call.
Begin(c, req) ==
  /\ call[c].step = "idle"
  /\ call' = [call EXCEPT ![c] = [Idle EXCEPT !.req = req, !.step = "ensure", !.before = acked,
                                    !.expected = IF req.guarded THEN Target(req) ELSE NoHash]]
  /\ UNCHANGED <<memory, snapshot, meta, acked, lapsed, tears>>

\* ensureMemoryEntrypoint: create exclusively, never truncate.
Ensured(file) == IF file = Absent THEN Template ELSE file

\* The gate ensures SNAPSHOT.md as well.
Ensure(c) ==
  /\ call[c].step = "ensure"
  /\ memory' = Ensured(memory)
  /\ snapshot' = IF call[c].req.op = "gate" THEN Ensured(snapshot) ELSE snapshot
  /\ call' = Goes(c, IF call[c].req.op = "append" THEN "check" ELSE "read")
  /\ UNCHANGED <<meta, acked, lapsed, tears>>

-----------------------------------------------------------------------------
(* agent_memory_append *)

\* needsLeadingNewline.
NeedsNewline(file) == file # Absent /\ file.torn

CheckTail(c) ==
  /\ At(c, {"append"}, "check")
  /\ call' = [call EXCEPT ![c].step = "append", ![c].heal = NeedsNewline(memory)]
  /\ UNCHANGED <<memory, snapshot, meta, acked, lapsed, tears>>

Entry(n) == [note |-> n, superseded |-> FALSE]

\* An entry behind a line without newline is part of that line, and lost as an entry.
Appended(file, entry, heal) ==
  [lines |-> IF file.torn /\ ~heal THEN file.lines ELSE Append(file.lines, entry), torn |-> FALSE]

AppendNote(c) ==
  /\ At(c, {"append"}, "append")
  /\ memory' = Appended(memory, Entry(c), call[c].heal)
  /\ acked' = acked \cup {c}
  /\ call' = Goes(c, "done")
  /\ UNCHANGED <<snapshot, meta, lapsed, tears>>

-----------------------------------------------------------------------------
(* agent_memory_snapshot_sync and agent_memory_mark_superseded *)

\* The notes that a gate answers for and a file lacks.
MissingFrom(file, c) == IF call[c].req.op = "gate" THEN {n \in call[c].before : ~Has(file, n)} ELSE {}

ReadMemory(c) ==
  /\ call[c].step = "read"
  /\ call' = [call EXCEPT ![c].mem = memory,
                          ![c].step = IF call[c].req.op = "mark" THEN "write" ELSE "readSnapshot"]
  /\ lapsed' = [lapsed EXCEPT ![c] = MissingFrom(memory, c)]
  /\ UNCHANGED <<memory, snapshot, meta, acked, tears>>

ReadSnapshot(c) ==
  /\ At(c, {"capture", "apply", "gate"}, "readSnapshot")
  /\ call' = [call EXCEPT ![c].snap = snapshot,
                          ![c].step = IF call[c].req.op = "gate" THEN "verdict" ELSE "write"]
  /\ UNCHANGED <<memory, snapshot, meta, acked, lapsed, tears>>

\* detectMemoryWriteConflict, on the contents that were read.
Conflict(c) ==
  /\ call[c].expected # NoHash
  /\ call[c].expected # IF call[c].req.op = "capture" THEN call[c].snap ELSE call[c].mem

\* write_conflict: nothing is written.
Refuse(c) ==
  /\ At(c, {"capture", "apply", "mark"}, "write")
  /\ Conflict(c)
  /\ call' = Goes(c, "done")
  /\ UNCHANGED <<memory, snapshot, meta, acked, lapsed, tears>>

\* An empty source becomes the template.
Source(content) == IF content = Absent THEN Template ELSE content

Capture(c) ==
  /\ At(c, {"capture"}, "write")
  /\ ~Conflict(c)
  /\ snapshot' = Source(call[c].mem)
  /\ call' = Goes(c, "meta")
  /\ lapsed' = [g \in Calls |-> IF call[g].step = "verdict" THEN lapsed[g] \cup MissingFrom(snapshot', g)
                                                          ELSE lapsed[g]]
  /\ UNCHANGED <<memory, meta, acked, tears>>

Apply(c) ==
  /\ At(c, {"apply"}, "write")
  /\ ~Conflict(c)
  /\ memory' = Source(call[c].snap)
  /\ call' = Disturbs(Goes(c, "meta"))
  /\ UNCHANGED <<snapshot, meta, acked, lapsed, tears>>

\* The files are read again for the metadata.  (History copies are not modelled.)
WriteMeta(c) ==
  /\ At(c, {"capture", "apply"}, "meta")
  /\ meta' = memory
  /\ call' = Goes(c, "done")
  /\ UNCHANGED <<memory, snapshot, acked, lapsed, tears>>

\* Mutant of MarkedIn: superseded entries are dropped.
MarkedIn_Drops(content, n) == [content EXCEPT !.lines = SelectSeq(@, LAMBDA l : l.note # n)]

\* markMemoryEntriesSuperseded: only the matched lines change.
MarkedIn(content, n) ==
  [content EXCEPT !.lines = [i \in DOMAIN @ |-> IF @[i].note = n THEN [@[i] EXCEPT !.superseded = TRUE] ELSE @[i]]]

\* The file is replaced only if a line changes.
Mark(c) ==
  /\ At(c, {"mark"}, "write")
  /\ ~Conflict(c)
  /\ LET marked == MarkedIn(call[c].mem, call[c].req.entry)
     IN  IF marked = call[c].mem
           THEN memory' = memory /\ call' = Goes(c, "done")
           ELSE memory' = marked /\ call' = Disturbs(Goes(c, "done"))
  /\ UNCHANGED <<snapshot, meta, acked, lapsed, tears>>

-----------------------------------------------------------------------------
(* getCompletionMemorySyncStatus, the completion gate *)

\* Mutant of Drift: a memory that was never synced has nothing to drift from.
Drift_Synced(c) == meta # NoHash /\ Source(call[c].mem) # Source(call[c].snap)

\* An absent file counts as the template.
Drift(c) == Source(call[c].mem) # Source(call[c].snap)

Verdict(c) ==
  /\ At(c, {"gate"}, "verdict")
  /\ call' = Goes(c, "done")
  /\ UNCHANGED <<memory, snapshot, meta, acked, lapsed, tears>>

\* The gate lets the session complete.
Passes(c) == Verdict(c) /\ ~Drift(c)

-----------------------------------------------------------------------------
(* The environment *)

\* A person saves MEMORY.md without a newline at its end.
Edit ==
  /\ tears < MaxTears
  /\ memory # Absent
  /\ ~memory.torn
  /\ tears' = tears + 1
  /\ memory' = [lines |-> Append(memory.lines, Entry(Fragment)), torn |-> TRUE]
  /\ call' = Disturbs(call)
  /\ UNCHANGED <<snapshot, meta, acked, lapsed>>

\* The server dies, in the middle of call c's append: part of the line is written, and
\* every call in flight is gone.
TornAppend(c) ==
  /\ tears < MaxTears
  /\ At(c, {"append"}, "append")
  /\ tears' = tears + 1
  /\ memory' = [Appended(memory, Entry(Fragment), call[c].heal) EXCEPT !.torn = TRUE]
  /\ call' = [d \in Calls |-> IF call[d].step = "idle" THEN Idle ELSE [call[d] EXCEPT !.step = "done"]]
  /\ UNCHANGED <<snapshot, meta, acked, lapsed>>

Rewrites(c) == Apply(c) \/ Mark(c)

MemoryNext ==
  \/ \E c \in Calls :
       \/ \E req \in Requests : Begin(c, req)
       \/ Ensure(c) \/ CheckTail(c) \/ AppendNote(c) \/ TornAppend(c)
       \/ ReadMemory(c) \/ ReadSnapshot(c) \/ Refuse(c) \/ Capture(c) \/ WriteMeta(c) \/ Verdict(c)
       \/ Rewrites(c)
  \/ Edit

MemorySpec == MemoryInit /\ [][MemoryNext]_memoryVars

-----------------------------------------------------------------------------
(* Properties *)

\* "Concurrent agent_memory_append calls never lose an entry", not to each other, not to
\* a file being created, and not to a call that has the memory marked: the only way out
\* of MEMORY.md is a snapshot applied over it or a mark whose reader was overtaken.
AppendsSurvive ==
  [][\A n \in acked : Has(memory, n) /\ ~Has(memory', n) =>
        \E c \in Calls : \/ Apply(c) /\ ~Has(call[c].snap, n)
                         \/ Mark(c) /\ ~Has(call[c].mem, n)]_memoryVars

\* The completion gate reads two files one after the other while others write both.  If
\* it lets a session complete, every note acknowledged before it was asked is in
\* SNAPSHOT.md then, whatever was appended, synced or marked between ask, reads and
\* verdict, but for two kinds: notes MEMORY.md had lost by the time the gate read it
\* (AppendsSurvive says how), and notes missing from a snapshot written after the gate
\* had read the one before, by a capture that read MEMORY.md without them.
GateIsSound ==
  [][\A c \in Calls : Passes(c) =>
        \A n \in call[c].before \ lapsed[c] : Has(snapshot, n)]_memoryVars

==============================================================================
