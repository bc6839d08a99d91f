----------------------------- MODULE AgentLoop ------------------------------
(***************************************************************************)
(* run-agent-loop.mjs: the outer loop that runs an agent once per          *)
(* iteration, and its manifest on disk.  Every write is a truncation and   *)
(* then the text, and the program may die at any await: a crash leaves a   *)
(* torn file.  A restart reads the manifest, with options of its own.      *)
(* Prompts, logs, the printed outer state and the names of files are left  *)
(* out: nothing that is modelled reads them.                               *)
(***************************************************************************)
EXTENDS Naturals, Sequences, FiniteSets

CONSTANTS
  Options,       \* command lines: [max, stalled, size : Nat, preflight : BOOLEAN]
  HistoryLimit,  \* 20: entries of history that are kept
  MaxStarts,     \* bound: starts of the program
  Absent, Torn   \* a file that is not there, a file whose write was interrupted

\* What loop-manifest.json holds; index and start are Absent before the first generation.
Statuses ==
  {"running", "completed", "blocked", "stalled", "exhausted", "runner-unhealthy"}
Manifest ==
  [status : Statuses, iteration : Nat, stalled : Nat, history : Seq(Nat),
   index : Nat \cup {Absent}, start : Nat \cup {Absent}]

\* generation_boundary.json, of which the rest is the index and the times.
Boundary == [iterations : SUBSET Nat]

ASSUME LoopAssumption ==
  /\ HistoryLimit \in Nat \ {0} /\ MaxStarts \in Nat
  /\ Options \subseteq [max : Nat, stalled : Nat, size : Nat, preflight : BOOLEAN]
  /\ Absent # Torn /\ {Absent, Torn} \cap (Manifest \cup Boundary) = {} /\ Absent \notin Nat

VARIABLES
  child,       \* "none", "alive", "gone": the command itself
  orphan,      \* a grandchild is alive
  holds,       \* the grandchild was started by this command: it holds the pipes
  race,        \* "idle", "waiting", "terminated" (SIGTERM sent), "settled"
  timedOut

processVars == <<child, orphan, holds, race, timedOut>>

ProcessInit ==
  child = "none" /\ orphan = FALSE /\ holds = FALSE /\ race = "idle" /\ timedOut = FALSE

VARIABLES
  opts,          \* maxIterations, maxStalled, generationSize, preflight
  manifest,      \* the object in memory
  disk,          \* loop-manifest.json
  boundaries,    \* generation_boundary.json of each generation: iterations
  pc,            \* where the program is; "down": not running
  then,          \* where it goes on after the write
  exit,          \* its last exit code
  work,          \* what todo, contract and workspace hash to
  before,        \* preSnapshot
  starts,        \* starts so far
  recorded,      \* history: the last iteration a manifest written in full has named
  opened,        \* history: first iteration of generation 0, 0 before it is opened
  unread         \* history: the last start could not read the manifest that is there;
                 \* when it writes its own over that, recorded and opened start again

loopVars == <<opts, manifest, disk, boundaries, pc, then, exit, work, before, starts, recorded, opened, unread>>
vars == <<loopVars, processVars>>

NoGeneration == Absent

NewManifest ==
  [status |-> "running", iteration |-> 0, stalled |-> 0, history |-> <<>>,
   index |-> NoGeneration, start |-> NoGeneration]

Init ==
  /\ ProcessInit
  /\ opts = Absent
  /\ manifest = NewManifest /\ disk = Absent
  /\ boundaries = <<>>
  /\ pc = "down" /\ then = "down" /\ exit = 0
  /\ work = 0 /\ before = 0 /\ starts = 0 /\ recorded = 0 /\ opened = 0
  /\ unread = FALSE

-----------------------------------------------------------------------------
(* runProcess: one command, the agent or its preflight, raced by a timeout. *)
(* The first of its end, its failure to start and the deadline after        *)
(* SIGTERM settles it.  A grandchild that outlives the command holds its    *)
(* pipes, so "close" may never come, and it may go on editing the workspace. *)

StartsCommand ==
  /\ child' = "alive" /\ holds' = FALSE
  /\ race' = "waiting" /\ timedOut' = FALSE
  /\ UNCHANGED orphan

\* The command ends by itself, or by the SIGTERM; what it started may stay.
Exits(leaves) ==
  /\ child = "alive"
  /\ child' = "gone"
  /\ holds' = leaves /\ orphan' = (orphan \/ leaves)
  /\ UNCHANGED <<race, timedOut>>

OrphanEnds ==
  /\ orphan
  /\ orphan' = FALSE /\ holds' = FALSE
  /\ UNCHANGED <<child, race, timedOut>>

Open == race \in {"waiting", "terminated"}

\* "close": the command is gone and nobody holds its pipes.
PipesClose ==
  /\ Open /\ child = "gone" /\ ~holds
  /\ race' = "settled"
  /\ UNCHANGED <<child, orphan, holds, timedOut>>

\* "error": there was nothing to run.
FailsToStart ==
  /\ race = "waiting" /\ child = "alive" /\ ~timedOut
  /\ child' = "gone"
  /\ race' = "settled"
  /\ UNCHANGED <<orphan, holds, timedOut>>

Expires ==
  /\ race = "waiting"
  /\ race' = "terminated" /\ timedOut' = TRUE
  /\ UNCHANGED <<child, orphan, holds>>

\* Mutant of ForceKills: after SIGKILL the end is left to "close".
ForceKills_Waits(leaves) ==
  /\ race = "terminated"
  /\ child = "alive"
  /\ child' = "gone"
  /\ holds' = leaves /\ orphan' = (orphan \/ leaves)
  /\ UNCHANGED <<race, timedOut>>

\* The deadline: SIGKILL to the group (a grandchild that left it stays), and the
\* race is over whatever the pipes do.
ForceKills(leaves) ==
  /\ race = "terminated"
  /\ race' = "settled"
  /\ IF child = "alive"
       THEN child' = "gone" /\ holds' = leaves /\ orphan' = (orphan \/ leaves)
       ELSE leaves = FALSE /\ UNCHANGED <<child, orphan, holds>>
  /\ UNCHANGED timedOut

\* What may still edit the workspace.
Editing == child = "alive" \/ orphan

-----------------------------------------------------------------------------
(* The loop *)

\* Mutant of ReadManifest: a manifest that does not parse counts as none.
ReadManifest_Fresh(seen) == IF seen \in {Absent, Torn} THEN NewManifest ELSE seen

\* The manifest to go on with; Torn: the program refuses to start.  A read that fails, for
\* whatever reason, sees no manifest.
ReadManifest(seen) == IF seen = Absent THEN NewManifest ELSE seen

WithOptions(m, o) ==
  IF o.size > 0 /\ m.index = NoGeneration
  THEN [m EXCEPT !.status = "running", !.index = 0, !.start = m.iteration + 1]
  ELSE [m EXCEPT !.status = "running"]

\* writeJson: the file is truncated, then filled; control goes on at p.
Writes(p) == pc' = "truncate" /\ then' = p

Starts(o, seen) ==
  /\ pc = "down" /\ starts < MaxStarts
  /\ starts' = starts + 1
  /\ opts' = o
  /\ unread' = (seen # disk)
  /\ IF ReadManifest(seen) = Torn
       THEN exit' = 1 /\ UNCHANGED <<manifest, pc, then>>
       ELSE /\ manifest' = WithOptions(ReadManifest(seen), o)
            /\ Writes(IF o.preflight THEN "preflight" ELSE "head")
            /\ exit' = 0
  /\ UNCHANGED <<disk, boundaries, work, before, recorded, opened, processVars>>

Truncates ==
  /\ pc = "truncate"
  /\ disk' = Torn /\ pc' = "fill"
  /\ recorded' = IF unread THEN 0 ELSE recorded
  /\ opened' = IF unread THEN 0 ELSE opened
  /\ unread' = FALSE
  /\ UNCHANGED <<opts, manifest, boundaries, then, exit, work, before, starts, processVars>>

\* The write ends and, where the program has nothing left to do, so does it.
ExitCode(status) ==
  CASE status = "completed" -> 0 [] status = "blocked" -> 2 [] status = "stalled" -> 3
    [] status = "runner-unhealthy" -> 5 [] OTHER -> 0

Fills ==
  /\ pc = "fill"
  /\ disk' = manifest
  /\ recorded' = IF manifest.iteration > recorded THEN manifest.iteration ELSE recorded
  /\ opened' = IF opened > 0 \/ manifest.index = NoGeneration THEN opened
               ELSE IF manifest.index = 0 THEN manifest.start ELSE 1
  /\ pc' = then
  /\ exit' = IF then = "down" THEN ExitCode(manifest.status) ELSE exit
  /\ UNCHANGED <<opts, manifest, boundaries, then, work, before, starts, unread, processVars>>

\* The runner preflight, run as any command.
Probes ==
  /\ pc = "preflight"
  /\ StartsCommand
  /\ pc' = "probing"
  /\ UNCHANGED <<opts, manifest, disk, boundaries, then, exit, work, before, starts, recorded, opened, unread>>

\* Its output names the success marker and it ended with code 0, or not.
Probed(marker) ==
  /\ pc = "probing" /\ race = "settled"
  /\ race' = "idle"
  /\ IF marker /\ ~timedOut
       THEN UNCHANGED manifest /\ Writes("head")
       ELSE manifest' = [manifest EXCEPT !.status = "runner-unhealthy"] /\ Writes("down")
  /\ UNCHANGED <<opts, disk, boundaries, exit, work, before, starts, recorded, opened, unread,
                 child, orphan, holds, timedOut>>

Iteration == manifest.iteration + 1

\* The head of the loop: out of iterations, or preSnapshot and the agent.
GivesUp ==
  /\ pc = "head" /\ Iteration > opts.max
  /\ pc' = "down" /\ exit' = 4
  /\ UNCHANGED <<opts, manifest, disk, boundaries, then, work, before, starts, recorded, opened, unread, processVars>>

RunsAgent ==
  /\ pc = "head" /\ Iteration <= opts.max
  /\ before' = work
  /\ StartsCommand
  /\ pc' = "agent"
  /\ UNCHANGED <<opts, manifest, disk, boundaries, then, exit, work, starts, recorded, opened, unread>>

\* What the agent printed: its loop state, and whether the completion promise is in it.
States == {"CONTINUE", "BLOCKED", "GENERATION_CLOSE"}

Kept(history) ==
  SubSeq(history, IF Len(history) > HistoryLimit THEN Len(history) - HistoryLimit + 1 ELSE 1,
         Len(history))

Verdict(done, state, stalled) ==
  CASE done -> "completed"
    [] ~done /\ state = "BLOCKED" -> "blocked"
    [] ~done /\ state # "BLOCKED" /\ stalled >= opts.stalled -> "stalled"
    [] ~done /\ state # "BLOCKED" /\ stalled < opts.stalled /\ Iteration >= opts.max -> "exhausted"
    [] OTHER -> "running"

Recorded(done, state) ==
  LET progress == before # work \/ state = "GENERATION_CLOSE"
      stalled  == IF progress THEN 0 ELSE manifest.stalled + 1
  IN  [manifest EXCEPT !.iteration = Iteration, !.stalled = stalled,
                       !.history = Kept(Append(@, Iteration)),
                       !.status = Verdict(done, state, stalled)]

SizeHit ==
  LET first == IF manifest.start = NoGeneration THEN 1 ELSE manifest.start
      n == Iteration + 1 - first
  IN  opts.size > 0 /\ n > 0 /\ n % opts.size = 0

ClosesGeneration(done, state) ==
  ~done /\ state # "BLOCKED" /\ (state = "GENERATION_CLOSE" \/ SizeHit)

\* After the agent: the manifest is brought up to date in memory, and a generation
\* that ends here is opened with index 0 if there was none.
Concludes(done, state) ==
  /\ pc = "agent" /\ race = "settled"
  /\ race' = "idle"
  /\ LET m == Recorded(done, state)
         next == IF m.status \in {"completed", "blocked", "stalled"} THEN "down" ELSE "head"
     IN  IF ClosesGeneration(done, state)
         THEN /\ manifest' = IF m.index = NoGeneration THEN [m EXCEPT !.index = 0, !.start = 1] ELSE m
              /\ pc' = "boundary" /\ then' = next
         ELSE manifest' = m /\ Writes(next)
  /\ UNCHANGED <<opts, disk, boundaries, exit, work, before, starts, recorded, opened, unread,
                 child, orphan, holds, timedOut>>

InGeneration ==
  {n \in {manifest.history[i] : i \in DOMAIN manifest.history} : n >= manifest.start}

\* The boundary file of the current generation is this, the others stay.
Bounds(file) ==
  boundaries' = [i \in DOMAIN boundaries \cup {manifest.index} |->
                   IF i = manifest.index THEN file ELSE boundaries[i]]

\* writeGenerationBoundary, truncated and filled like the manifest.
TruncatesBoundary ==
  /\ pc = "boundary"
  /\ Bounds(Torn)
  /\ pc' = "bound"
  /\ UNCHANGED <<opts, manifest, disk, then, exit, work, before, starts, recorded, opened, unread, processVars>>

\* Mutant of FillsBoundary: the next generation is not told where it starts.
FillsBoundary_SameStart ==
  /\ pc = "bound"
  /\ Bounds([iterations |-> InGeneration])
  /\ manifest' = [manifest EXCEPT !.index = @ + 1]
  /\ pc' = "truncate"
  /\ UNCHANGED <<opts, disk, then, exit, work, before, starts, recorded, opened, unread, processVars>>

FillsBoundary ==
  /\ pc = "bound"
  /\ Bounds([iterations |-> InGeneration])
  /\ manifest' = [manifest EXCEPT !.index = @ + 1, !.start = manifest.iteration + 1]
  /\ pc' = "truncate"
  /\ UNCHANGED <<opts, disk, then, exit, work, before, starts, recorded, opened, unread, processVars>>

\* The agent, or what an earlier command left behind, edits; a hash may return.
Edits ==
  /\ Editing
  /\ work' = 1 - work
  /\ UNCHANGED <<opts, manifest, disk, boundaries, pc, then, exit, before, starts, recorded, opened, unread, processVars>>

ProcessMoves ==
  /\ \/ \E leaves \in BOOLEAN : Exits(leaves)
     \/ FailsToStart
     \/ OrphanEnds
  /\ UNCHANGED loopVars

Settles ==
  /\ PipesClose \/ Expires \/ \E leaves \in BOOLEAN : ForceKills(leaves)
  /\ UNCHANGED loopVars

\* The program dies; the detached agent lives on.
Dies ==
  /\ pc # "down" /\ starts < MaxStarts
  /\ pc' = "down" /\ exit' = 1
  /\ orphan' = (orphan \/ child = "alive")
  /\ child' = "none" /\ holds' = FALSE /\ race' = "idle" /\ timedOut' = FALSE
  /\ UNCHANGED <<opts, manifest, disk, boundaries, then, work, before, starts, recorded, opened, unread>>

LoopStep ==
  \/ Truncates \/ Fills \/ Probes \/ GivesUp \/ RunsAgent
  \/ TruncatesBoundary \/ FillsBoundary
  \/ \E marker \in BOOLEAN : Probed(marker)
  \/ \E done \in BOOLEAN, state \in States : Concludes(done, state)

Next ==
  \/ \E o \in Options, seen \in {disk, Absent} : Starts(o, seen)
  \/ LoopStep \/ ProcessMoves \/ Settles \/ Edits \/ Dies

\* The program goes on where it can, and its timers fire; an agent need not end.
Spec == Init /\ [][Next]_vars /\ WF_vars(LoopStep) /\ WF_vars(Settles)

-----------------------------------------------------------------------------
(* Properties *)

\* "Refusing to start a fresh session, because that would ... re-run finished work":
\* an agent is never run for an iteration that a completely written manifest has
\* named, whatever crashed before and with whatever options the loop is restarted,
\* unless a start that could not read the manifest wrote a fresh one over it since.
RecordedWorkIsNotRerun == pc = "agent" => Iteration > recorded

\* The iterations a resumed loop has left behind are shared out among its closed
\* generations: each boundary is complete and lists only its own iterations, in
\* order, and every iteration since generation 0 was opened is in one of them, as
\* far back as history is kept.  (A manifest written over one that could not be read
\* opens its generation 0 anew.)
GenerationsPartition ==
  disk \notin {Absent, Torn} /\ disk.index # NoGeneration =>
     LET closed == 0 .. disk.index - 1
     IN  /\ closed \subseteq DOMAIN boundaries /\ \A i \in closed : boundaries[i] # Torn
         /\ \A i, j \in closed : \A m \in boundaries[i].iterations, n \in boundaries[j].iterations : i < j => m < n
         /\ \A i \in closed : \A n \in boundaries[i].iterations : opened <= n /\ n < disk.start
         /\ \A n \in opened .. disk.start - 1 :
               \/ \E i \in closed : n \in boundaries[i].iterations
               \/ \E i \in closed :
                     /\ Cardinality(boundaries[i].iterations) = HistoryLimit
                     /\ \A k \in boundaries[i].iterations : n < k

\* However the agent hangs, and whatever it leaves behind, every start of the loop
\* comes to an end.
LoopEnds == (pc # "down") ~> (pc = "down")
=============================================================================
