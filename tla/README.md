# A TLA+ model of the xx-stack control plane

xx-stack is an MCP server (TypeScript, `src/mcp-server/src`), a local inference
proxy and lane picker (Python, `src/hermes-orchestration`), maintenance scripts
(`src/scripts`) and a large body of prompts and configuration (`src/packs`,
`src/runtime`, `src/opencode-orchestration`). What has state of its own, and behaviour
that is hard to test, is the *control plane*: supervised sessions that watch a lane (a
host with a model) and fail over when it goes silent, a task store with a dependency
graph and leases, evidence and memory files, the routing of work to machines, and the
programs that run agents and commands. This directory models that control plane.

## 1. Inventory

### Components, state, operations

| component | source (under `src/`) | state it keeps | operations that change it |
|---|---|---|---|
| task store | `mcp-server/src/task_runtime.ts`, `task_tools.ts` | one JSON document: tasks with status, lease, attempts, blockers | `task_create`, `task_update`, `task_suspend`, `task_resume` |
| dependency graph | `task_graph_runtime.ts` | none (computed from the document) | edge validation, ready set, cycle search, wave planning |
| supervisor sessions | `supervisor_store_runtime.ts`, `supervisor_session_runtime.ts`, `supervisor_session_tools.ts` | one JSON document: sessions, and a breaker entry per lane | `supervisor_start_session`, `_record_event`, `_tick`, `_abort_session` |
| completion gates | `supervisor_completion_tools.ts` | proof fields of a session | `_record_completion_check`, `_complete_session`, `_force_synthesis`, prompts |
| store locks, durable writes | `io_runtime.ts`, `withTaskStoreLock`, `withSupervisorStoreLock`, `withFindingStoreLock` | a promise chain per store and process; temp files | acquire, release; temp file, fsync, rename |
| finding store | `finding_runtime.ts`, `finding_tools.ts` | findings by lane, generations | record, open, close, salvage |
| agent memory | `memory_runtime.ts`, `agent_memory_tools.ts` | `MEMORY.md`, `SNAPSHOT.md`, a metadata file | append, capture, apply, supersede, read |
| routing | `routing_*.ts`, `context_selection_runtime.ts` | a registry, read only | route, plan in parallel, probe, select context |
| repository map | `repo_map_runtime.ts` | none | one query over a working tree |
| Hermes proxy and lanes | `hermes-orchestration/scripts` | a health memo with a TTL; a capability cache file | proxy request, `run`, `subagents`, inventory |
| log worker | `log_worker.ts` | log files and one archive | append, heal, rotate |
| policy, hooks, verification | `execution_policy.ts`, `hook_tools.ts`, `verify_edit_tools.ts` | process groups of running commands | `verify_edit`, lifecycle hooks, `_Stop` |
| loop runner | `scripts/run-agent-loop.mjs` | a manifest, boundary files | run an agent until it is done or stalls; restart |
| configuration script | `scripts/sync-runtime-config.js` | the user's OpenCode configuration | rewrite it after a scan |
| CLI, monitors, packs | see `PROJECT.json` | none, or files they rewrite | |

### How the components interact

* Every tool is a handler in one Node process. A handler that changes a store waits
  for its place in the store's promise chain, reads the whole document, mutates it and
  writes it back atomically. An absent file is the empty store; any other read error
  fails the call and nothing is written.
* `supervisor_tick` holds the supervisor's lock across health probes and pings. Inside
  a recovery it writes **twice**: first the in-flight mark, then the outcome.
* `supervisor_tick` (failover), `_complete_session`, `_abort_session` and
  `_force_synthesis` write the supervisor store, **then** take the task store's lock to
  revoke leases or mark tasks (and the finding store's, for a synthesis). Task tools run in
  between. Hooks run after the locks are released.
* The completion gates read the task store and the memory files *without* their locks.
* Lanes are remote. The control plane cannot kill one: a lane that was overtaken may
  still call `task_update`. Its lease, compared with the server's clock at write-back, is
  the only server-side check.
* The orchestrator polls: one recurring tick for all sessions (the runbook's heartbeat
  pattern). Between polls nothing happens by itself; timeouts are noticed by a tick.
* Memory files, log files, the Hermes cache and the OpenCode configuration are plain files
  shared by concurrent calls, threads or programs; no lock spans a read and a write.
* Commands run in process groups of their own. Their exit, a failed start, the timeout
  and the death of the parent race.

### Hard behaviours, and the properties that make each component correct

* *Task store.* Each write validates only its own task's edges, yet the document must
  stay acyclic and free of dangling ids, so that open tasks never all wait on each
  other. A dead claim must land nothing through any tool. When `_Stop` lets a model end its
  turn, nothing in its scope may have been left that it could go on with.
* *Dependency graph.* One depth-first search shares its set of exhausted tasks between
  all branches; it must still decide exactly. The wave plan must drop nothing, put no task
  beside its blocker and blame only what is stuck, on documents edited by hand too.
* *Sessions.* Attempts and failures are counted on different paths, but the budget must
  hold; silence must not be taken for progress; forced ticks and crashes must not make
  failovers come in bursts; a recovery that died must not wedge its session; a silent
  session must come to an end.
* *Completion.* Outputs, evidence and judgements come in any order; only checks newer than
  the last output may prove a completion, and every open goal contract must have been
  validated although tasks change between the gates.
* *Composition.* A failed-over lane is fenced, an ended session leaves no live claim, a
  crash between two writes is covered by the lease's deadline, and forcing a synthesis
  overwrites no result.
* *Locks and durable writes.* The promise chain must serialise read-modify-write
  whatever a call throws, a crash must leave the old or the new document and take back
  nothing that was acknowledged, and no call may wait for ever.
* *Findings.* A late finding must not enter a closed generation or become a parent; a
  fan-out must start from a measured canary.
* *Memory.* Concurrent appends must not be lost, and a drift gate that passes must mean the notes are saved
  although it reads two files one after the other.
* *Routing.* Several selectors over one registry must agree; the cloud stays behind its
  opt-in on every path; reviews and cohorts must be diverse; a batch must come back whole.
* *Hermes.* Cloud lanes come last and need consent whatever reorders lanes; no verdict
  outlives its TTL; a lane that failed a slice is not tried again.
* *Processes.* An outcome of a verification must be what was observed; nothing may be left
  in a command's process group; a loop that dies must not repeat what it recorded, and must
  end however its agent hangs.

`PROJECT.json` lists the hazards at the lines where they bite.

## 2. Modules

| module | models | state ↔ code |
|---|---|---|
| `TaskGraph` | `validateBlockedByEdges`, `findUnknownBlockers`, `findCycleThrough` (what it decides), `computeReadySet` | operators over a document `g` |
| `TaskStore` | the task tools and what the supervisor does to linked tasks | `tasks` is the document, `now` is `Date.now()` |
| `StopHook` | what `_Stop` objects to about tasks | operators over `tasks` |
| `Places` | filters and stable sorts by the places that are kept, in terms of sets | no state; used by the modules below |
| `CycleSearch` | the recursion inside `findCycleThrough`, one loop iteration a step | `path`, `exhausted` are its arrays and sets; `rest[i]` is what the i-th frame has still to visit |
| `WavePlan` | `assignWaves`, one wave a step | `placed`, `waves`, `remaining` are its locals, `report` its `unscheduled` list |
| `SupervisorSession` | the supervisor store, its transition rules and all tools that write it | `session` and `breaker` are the two maps of the document |
| `Heartbeat` | the recurring poller around `SupervisorSession` (external) | `due`: sessions to be ticked before the next instant |
| `Completion` | the gates of `supervisor_complete_session`, with task tools in between | `gate`: where a call is and what it has read; the session is `SupervisorSession`'s |
| `Supervisor` | supervisor store and task store together, lanes and crashes between two writes | `owed`: the second half of the tool that holds the lock |
| `AtomicStore` | what a store promises its callers | `doc`, `safe`, `told`: the updates a document holds, a power loss leaves, a writer was told of |
| `StoreLock` | promise chains, nested sections, hooks, `atomicWriteTextFile`, deaths and power loss | `queue` is the promise chain, `copy` the document in memory, `visible` and `surviving` the files |
| `FindingStore` | the evidence store's tools | `findings`, `generations` are the document |
| `AgentMemory` | concurrent calls on one agent's memory files | `memory`, `snapshot`, `meta` are the files, `call` the locals of each call |
| `LogWorker` | `logEvent` on the server log | `log`, `archive` are files, `ensured` the latch |
| `ContextSelection` | `selectContext`, `naiveGreedySelect` | the locals of the lazy loop; the naive one is an operator |
| `MemoryRecall` | `selectMemoryForBudget` | query and answer |
| `RepoMap` | `buildRepoMap` | the repository, the stages of the query, the answer |
| `RouteSelection` | tier, host and model of a description; the default, architect-editor, competitive and review modes | `reg` is the registry, `reply` the last answer |
| `RouteSchedule` | `routeParallelTasks`, `allocateHypothesisCohort` | `placed`: assignments so far |
| `RouteWatchdog` | `buildWatchdogRouteCandidates` and its probes | `primary`, `probes`, `offered` are its locals |
| `RoutePool` | `mapWithConcurrency` | `nextIndex`, `results`, one item per worker |
| `ConfigSync` | `sync-runtime-config.js` run after run | `config`: the user's file; `registry`: the scan |
| `HermesLanes` | lane configuration, ordering, probes, the machines | `cfg`, `clock`, the machines' condition |
| `HermesPrimary` | the proxy's threads and the `run` command | `memo`: `LaneHealthCache` |
| `HermesSubagents` | the `subagents` command | `cache`: the capability file |
| `GuardedExec` | `guardedExecFile`, `runGuardedProcess` | `run`: a command, its group and its timers |
| `VerifyEdit` | `verify_edit`, lifecycle hooks | `tool`, `outcome`, `reply` |
| `AgentLoop` | the loop, its manifest, its agent's processes | `pc` and locals; `manifest`, `boundaries` are files |
| `*_proofs` | theorems and lemmas about the modules they extend (section 4) | |

The `MC*` modules hold request sets and symmetries of the runs. `MCQueries`,
`MCRecords`, `MCProcesses`, `MCRouting` and `MCHermes` put programs that share nothing into
one run: a behaviour is one of either program (the others stand still in their initial
state), so the state space is the sum of theirs and not the product.

### How they are composed

* `TaskStore`, `CycleSearch` and `WavePlan` share `TaskGraph`; `StopHook` reads `TaskStore`'s
  document. `CycleSearch` is the detailed form of the decision `TaskGraph` takes in one
  operator: `SearchDecides` relates the verdict of the search to `OnCycle`, and `TaskStore`
  uses `OnCycle`.
* `Heartbeat` and `Completion` extend `SupervisorSession`; `Supervisor` extends it and takes
  `TaskStore` as an instance, so every step of the composition is a step of the
  components' own actions.
* `StoreLock` implements `AtomicStore` (`SectionsAreAtomic` is the refinement: the abstract
  document is what a reader would see, the acknowledged updates those whose call got its
  write through). It is why the other modules may take a locked section for one step.
* `RouteWatchdog` extends `RouteSchedule`, and that `RouteSelection`; `MCRouting` puts them
  beside `RoutePool` and `ConfigSync`, with which they share nothing that changes. `RepoMap`
  and `MemoryRecall` extend `ContextSelection`, whose steps are theirs while they choose.
* `VerifyEdit` extends `GuardedExec`; `HermesPrimary` and `HermesSubagents` extend
  `HermesLanes`.

### Conventions

* A locked section (read, mutate, write) is one action, which `StoreLock` justifies. Where a
  file is not under a lock, every await is a point where others run. A call that is refused
  and writes nothing is a stuttering step and has no action; a refusal that *does* write is
  an action.
* In `TaskStore` an instant is a number. In `SupervisorSession` a timestamp is kept as its
  *age*, counted up to the largest age the code still compares with something; that makes
  the state space finite without stopping the clock. `cooldown` is what is left of
  `cooldownUntil`. A breaker entry's `cooldownUntil` is always its `lastFailureAt` plus the
  reset window, so it needs no field.
* A lane is a host together with its model. Probes, pings, endpoints and machines answer as
  they like, and differently each time. In `SupervisorSession` the fallback queue is a set:
  its order is the ranking `RouteWatchdog` models, and any of its lanes may be next.
* A description of a task is the set of the words in it that some rule looks for; host
  scores are counted in twentieths of a point so that they are whole. Scores and
  similarities of files and memory entries are given with them, and a gain is multiplied by
  the number of candidates. What a glob of an ignore rule matches within one segment of a path
  is given as a set of names; `**`, anchors, directories, negation and the order of the rules
  are modelled.
* In `AgentMemory` a content is its lines and whether the last lacks its newline, and a hash
  is the content. In `LogWorker` a size is a number of lines.
* `note` stands for `lastCheckpoint` and `lastError`. Titles, tags, priorities, worktrees,
  prompts, event logs and formatting are left out.
* History variables: `proof` (checks recorded since the lane's last output), `crew` (lanes
  a task was handed to), `landed` (lane and task of this step's write), `strays` (tasks whose
  revocation died with the server, whose session was started over or had ended before they
  were handed out, and tasks a lane took back after finishing them), `told`
  (updates whose writer was told), `acked` (notes acknowledged), `before` and `lapsed`
  (notes acknowledged before a gate was asked, and those of them that a file had lost when it
  counted), `shown` (commands that
  evidence named since the last output), `proven` (tool probes that passed), `home` (the
  agents' models once settled), `recorded`, `opened` (iterations a manifest has named, and
  where the first generation began), `unread` (the last start could not read the manifest
  that is there). No guard of a tool reads them, but `crew` says which lanes know of a task.
* An operator `X_Something` with a comment "Mutant of X" is a plausible bug in `X`; with it
  in place of `X` some property of a run is violated. They show that the properties have
  teeth and are used by no specification.

## 3. Runs

### Passing

| run | question | instance |
|---|---|---|
| `task_store` | can legal tool calls persist a cycle, can a dead claim land a result, can `_Stop` be quiet while a task in scope could go on? | 3 tasks, every edge set, leases that expire within the clock 0..1 |
| `queries` | does the cycle search decide exactly in every visiting order; does the lazy selection pick what the naive one would; do map and recall account for everything? | every graph of 3 ids, dangling ones included; the wave plan of every graph; repositories with every kind of file, ignore rule and guard; memory files with duplicates and superseded entries |
| `session_heartbeat` | do streak and pacing hold for a silent lane, and does its session end? | 1 session, 3 lanes, 3 attempts, 3 failures, 2 crashes, forced ticks out of turn |
| `completion` | is an unforced completion proven, and was every goal contract validated? | 1 session, 2 tasks with contracts, 2 commands one of which is part of the other, task tools between the gates |
| `failover` | is an overtaken lane fenced, does a finalised session leave no claim, does the deadline cover a crash, does synthesis overwrite nothing? | 1 session, 2 lanes, 1 task, crashes between the two writes |
| `records` | is an eligible parent earned, is a closed generation frozen, is a fan-out measured; is an append ever lost, does a passed drift gate mean the notes are in the snapshot; can every written log record be read? | 3 findings, 2 generations; 3 calls on one agent's memory, a torn append; 3 log records, rotation at 2 |
| `store` | do the locked sections implement atomic updates, with nothing acknowledged lost and no call stuck? | 3 calls over 3 stores: a failover beside a hooked task tool, a synthesis beside tools of the inner stores; a death or power loss |
| `hermes` | is the cloud last and consented to, is a failed lane left alone, is tool support proven, does a verdict expire? | 3 lanes, 2 models, 2 requests, 2 commands, machines that change once |
| `routing` | does any planner leave the opt-in, do the selectors agree, are reviews and cohorts diverse, is a batch whole; do the agents return to their models when the machines do? | 5 registries, 6 descriptions, up to 4 slices, 5 items on 2 workers; 16 scans, 3 configurations, 2 further scans |
| `processes` | is a recorded iteration repeated, do generations partition, does the loop end; is an outcome what was observed, is every group swept? | 3 starts, 3 iterations, generations of 2; 2 commands with helpers |

Type invariants, and several invariants the proofs establish for every instance
(`NoDanglingBlocker`, `NoSilentDeadlock`, `PathIsCycle`, `BudgetHolds`, the wave plan's),
are not repeated by a run.

### Violations, and what they say

* `exhausted_keeps_claim`: a session that ends exhausted keeps its lane's lease alive,
  although "every terminal transition revokes" (`supervisor_completion_tools.ts:1360`).
* `repo_map_conflict`: `chosen` is a set of paths, but git lists a conflicted path once per
  stage. The selection pays for one copy and the answer holds all of them.
  `tokensEstimated` counts the one copy and stays within `tokenBudget`, but the returned file
  list exceeds it, which is documented as the "maximum estimated tokens for the returned file
  list" (`repo_map_tools.ts:45`).

### Observations

Met while modelling; each follows from the code, and the models behave so.

*Tasks and sessions.*
`supervisor_record_event` does not look at the status, so an event on a finished session
sets it running again (`supervisor_session_tools.ts:252`; the runbook, line 54, says nothing
rewrites a finished record). A failover takes the next lane of the queue computed at start
without asking the breaker (`:546`; runbook 221). A lease names no holder: once the task
is leased again for the new lane, the old lane's write passes (`task_tools.ts:489`; runbook
108-110); the fence that does hold is `FailedOverLaneIsFenced`, *until* the task is handed on.
`task_update` turns a force-synthesized task into a done one (`task_tools.ts:500`).
The cycle search follows edges through finished tasks, so an edge may be rejected with
"none of them could ever start" although the task could (`task_graph_runtime.ts:339`).
Revocation passes over tasks that are finished at that moment, and `task_update` may reopen
such a task with its lease alive. `task_create` (`task_tools.ts:295`) and a lease-only
`task_update` (`:476`) do not look at the session, so a task may be linked or leased to a lane
whose session has already ended, and nothing revokes that lease. With a crash between a tool's
two writes these are the three exceptions of `FinalizedSessionHoldsNoClaim` (`strays`).
The runbook (line 129) says a `task_update` with a replacement lease is not
fenced; the code (`task_tools.ts:487`) exempts only requests with a lease and *no* result.
Canceled blockers release tasks, yet `findUnreachable` reports them, by design.
`_Stop` is quiet on a corrupt store or a hand-written graph in which all tasks wait on each
other, and fleet-wide it checks drift for at most 3 sessions.

*Completion.* A later evidence check overwrites the summary of an earlier one. A terminal
contract task is not gated; a blocked one is, but `_Stop` never objects to it. The request's
`memorySync` replaces the session's own guard. A handoff refreshes `lastContinuationAt` and
prolongs the dedupe window. `emitContinuationPrompt` and `emitHandoffPrompt` are called by
tests only. The contract gate judges the tasks as it read them: a contract that is added or
changed between that read and the write of the completion is not seen by the code, and not by
`ContractsAreValidated`, which speaks of the read.

*Stores.* Several server processes on the same files are not serialised. Locks nest
supervisor, task, finding; hooks run after the release (that is why `EveryCallEnds` holds).

*Findings.* `generation_open` stores `canaryFindingId` without asking whether such a finding
exists or is a canary. A canary recorded before an earlier generation still counts.

*Memory.* The compare-and-swap of a guarded write (`memory_runtime.ts:576`, `:760`) compares
and writes without a lock, so an append in between is lost; that is the exception
`AppendsSurvive` makes. The drift gate compares two reads, so it may pass although the files
were never equal: a note appended after it read `MEMORY.md` is in neither read, and a capture
that began before may write the snapshot it then finds equal. Nor does it see a capture that
replaces the snapshot after its second read by an older memory. `GateIsSound` says what is left:
a note acknowledged before the gate was asked is in the snapshot when it passes, unless
`MEMORY.md` had lost it when it was read, or such a capture wrote the snapshot since. Two captures in the same millisecond overwrite each other's history;
a concurrent capture and apply can swap the two files; a `supersededBy` that contains `]`
changes an entry's id. Recall says `truncated` when only duplicates were left out.

*Logs.* Two overlapping calls may both find the log too large; the second renames the fresh
log over the archive (`log_worker.ts:134`).

*Repository map.* `considered` counts a pruned directory once, but a rule with a trailing
slash never prunes the directory itself. `dist` then `!dist/keep.txt` keeps the file through
git's listing and not through the walk. The least derived budget (512) can exceed a quarter
of a tiny window.

*Routing.* In the watchdog path a named host is not filtered by routable tiers, and a named
host without a named model is paired with the routed host's model. The denial of multimodal
tasks is not applied to watchdog and review candidates. `routeReview` answers "same-model"
when only the author's host is given and there are no candidates (`routing_runtime.ts:338`
says unknown-author). `checkHostModelHealth` compares names as they are, `isModelResident`
normalises them. Duplicate ids in `route_parallel_tasks` may give a dependant an earlier
wave. The first tier that has a host is used whatever its load. In a cohort the family cap is
a rounded share of all hypotheses, so a cohort of 3 may have 2 of one family, and a cohort
stacked again without the flagged slices may collide again.

*Hermes.* In strict mode a score may put a cloud lane before a healthy self-hosted one
(`routing.py:185`, where `cloud-escalation-policy.md:39` says self-hosted first; the gate
still asks for consent). Lanes an attempt disabled are saved to the shared cache as unhealthy
(`routing.py:146`). A failed tool probe is reused until `--force-probe`. A slow probe may
overwrite a newer verdict. A plan that is not JSON raises before the escalation is logged, and
the proxy writes no escalation events (policy, line 54). Disabled lanes are skipped without a
reason (`proxy.py:298` says otherwise). A failing slice discards and repeats the others.

*Processes.* Any unsuccessful close after the timer is a timeout (`execution_policy.ts:569`;
the comment at 565 says only a signal). A successful command that leaves a daemon of another
group with its pipes is reported as a timeout. Spawn errors other than `ENOENT` and `EACCES`
are reported as `fail` though nothing ran (`verify_edit_tools.ts:57`): `OutcomeIsEvidence`
names the exception. A strict hook that fails makes a task tool answer an error after the
write has landed. A loop that dies between boundary and manifest repeats the iteration and
rewrites the boundary (`run-agent-loop.mjs:145` says so); one that dies between the agent's
end and the manifest repeats it too. A start that cannot read an existing manifest (`EIO`, `EMFILE`,
`EACCES`) takes it for absent (`readManifest`, lines 336-339), begins a fresh session and writes
its manifest over the old one (lines 504, 549), so finished work is run again, which the same
function's "Refusing to start a fresh session" excludes for a manifest it can read but not
parse: the exception of `RecordedWorkIsNotRerun` (`unread`). A restart of a finished loop runs
one more iteration; at the maximum it exits 4 and leaves "running". A generation of more than 20 iterations loses its
oldest from the boundary (`GenerationsPartition` names that). A runner that timed out after
printing DONE counts as done. Nothing locks a state directory against a second loop.

*Configuration.* What agents name stays in the lists, and is as good a candidate as what a
scan lists, as long as some agent names it or names it again. So a machine that comes back
need not bring the model back: after an agent ran on a model it likes better, which is then
removed, the next run picks the removed one again because the configuration remembers it
(`reliability.test.ts:1020`, "restores the preferred remote model on return", has a source that
names the model). `ReturnRestores` says what is left: the shipped model, if listed, always
returns; otherwise the provider does, and the model if both it and the one before are listed.
It needs every reached machine to list a model of its own: without any, `sync-runtime-config.js:170`
takes the llama.cpp models agents name for Ollama's, and after llama.cpp has gone
agents stay on a model nobody has. With two cloud hosts of one provider, or a cloud host under
one of the stack's provider ids, the last entry replaces the others (`OneEach`).

### Bounds, and why they are enough

* `TaskIds`: a write closes a cycle through its own task, and three tasks give cycles of
  length one to three beside bystanders; the search's shared set needs a task that is
  exhausted because a branch met the path, and another branch that meets it. The theorems
  remove the bound.
* Requests of `task_store` vary either the edges or the status and the lease, not both at
  once; the code treats the fields independently.
* `MaxTime` ends the clock after every lease has expired; the deadlines straddle it.
* `MaxAttempts` / `MaxResumes` only stops `task_resume` from counting for ever. In
  `SupervisorSession`, `MaxAttempts` and `MaxFailures` are the code's own budgets.
* `MaxStalls` cuts recoveries at a failure count the budget already ends; where it equals
  `MaxFailures` it removes nothing. In `completion` it is 0: its questions are about checks.
* The windows of `ReliabilityConfig` are configurable numbers of milliseconds; the runs take
  small ones such that each can expire before and after the others it races with, with the
  dedupe and abort windows shortest, as by default. `StaleTtl` is the longest, as by default;
  in `session_heartbeat` it is longer than the session can live, because a session that is
  pruned settles nothing.
* `BanAfter` is 2, so that one failure does not ban and the second does.
* `MaxCrashes` is 2; each crash costs the session at most three dedupe windows.
* `store`: a lost update takes two calls on one document, a deadlock two that nest; the mixes
  hold every pair of nested and plain sections, and one death may come anywhere, with either
  kind of file system. `MaxDeaths` 1: what a death leaves is an initial state like any other.
* `records`: `MaxFindings` 3 is a canary, one that contradicts it and a third finding, or one
  before, in and after a generation. Three calls on a file are a reader that writes, a writer
  that overtakes it and one more. `MaxTears` 1; `MaxSize` 2, so that two records rotate.
* `hermes`: `MaxClock` 3 exceeds TTL plus the longest probe (`ProbeMax`); `MaxChanges` 1 turns
  a right verdict wrong. The slices' limit of lanes' models, 10, is never reached.
* `routing`: `MaxSlices` 4 overfills a host, a cell and a family; `MaxItems` 5 on `Limit` 2
  workers makes each worker take several. `MaxScans` 2 is away and back, `MaxRuns` 2
  a run on what the run before left.
* `queries`: `MaxTasks` 3 as above; the repositories and memory files are listed in
  `MCQueries`, one for each kind of omission, and two rich in numbers.
* `processes`: `MaxStarts` 3: a crash, a restart that crashes and one that ends.
  `HistoryLimit` 2 stands for 20, so that a history is cut within three iterations.
* Deadlock is switched off where the run ends by itself: finite requests, calls or queries,
  each of which returns.
* Symmetry: task ids in `task_store`, generations and calls in `records`, tasks in
  `completion`, requests and commands in `hermes`. None of these runs checks liveness.

### Fairness

* `Heartbeat`: weak fairness of each session's beat and of the next instant: the recurring
  tick of the runbook, which is outside the repository, and the clock. Ticks out of turn may
  come at any time, and none is relied on. A crash replaces a beat at most `MaxCrashes`
  times. Without the poller nothing is promised: the server has no timer of its own. Probes
  and pings may fail for ever.
* `StoreLock`: weak fairness of every call that has begun: the event loop resumes a call whose
  await is over, and file operations return or fail. A call that waits for a lock is not
  enabled; that it gets its turn is what `EveryCallEnds` shows.
* `AgentLoop`: weak fairness of the loop's own step and of the settling of a command whose
  deadline has passed: Node runs its callbacks and timers, and git answers (its commands have
  no timeout). The agent's processes are not assumed to do anything. Starts are finitely many.
* `VerifyEdit`: weak fairness of the server's steps and of its timers; the commands may
  hang, ignore SIGTERM and leave helpers.
* `CycleSearch`: weak fairness of its step, a synchronous loop (no run uses it now).

Nothing else is assumed fair.

## 4. Proofs

Checked by the TLA+ proof system (tlapm), for every value of the constants under the assumptions
the modules name: bounds are numbers, requests and records are well formed (which the tools' zod
schemas enforce), timeouts and windows are positive (`ReliabilityAssumption`: a configured value
that is not gives way to the default), and each call of `StoreLock` is one of the tools `Plans`
lists (`MixesAssumption`). `RegistryAssumption` says what a loaded registry is made of; it may name
tiers it does not list and list tiers no order names. Each module below extends the modules it
proves about.

**`Operators_proofs`** (`TaskGraph`, `Places`)

Lemmas only: what the graph operators decide, and what the filters and sorts of `Places` return.
`InOrderSorts` is the one that carries routing: the members of a finite set, put in a strict total order by
counting what comes before each, are all there, once, in that order. It is proved by
well-founded induction on a *set* of naturals without a least element (`WFMin`), the form of
induction the provers do accept; `Only` and `Ranked` are therefore stated through it and not by
`SelectSeq` and `SortSeq`, which recurse.

**`TaskStore_proofs`** (`TaskStore`, `StopHook`)

* `TypeCorrect`: `Spec => []TypeOK`.
* `DanglingBlockersRefused`, `StoredGraphAcyclic`, `DeadlockNeverPersisted`:
  `NoDanglingBlocker`, `NoDependencyCycle` and `NoSilentDeadlock` are invariant. The
  inductive invariant `GraphInv` is the conjunction of type correctness, no dangling
  blocker and no cycle: a write validates the cycles through its own subject only, so that it
  creates no *other* cycle needs the old document to have been acyclic, and that a new
  task closes none needs that nobody waited on its id before. `OnCycle` is defined through sets closed under
  `Blockers`, not through paths, so none of this needs induction over paths: a set that
  witnesses acyclicity before the write is turned into one after it. That
  an acyclic finite document always has a ready task is a minimality argument over the
  subsets of the document.
* `FenceHolds`: `Spec => DeadClaimLandsNothing`, by one case per tool.
* `QuietStopHonest`: `Spec => []QuietStopIsHonest`. `_Stop` objects when a task in its scope
  is ready. If none is, the open tasks of the scope that wait on each other alone would,
  the graph being acyclic, contain a ready one; so each waits, at the end, on startable work
  outside. The fleet has no outside.

**`Queries_proofs`** (`CycleSearch`, `WavePlan`, `ContextSelection`, `RepoMap`, `MemoryRecall`)

* `SearchCorrect`: on every graph, with every visiting order, the search reports a cycle
  exactly when the start task is on one (`SearchDecides`), and `PathCorrect`: what it reports is
  one (`PathIsCycle`). The inductive invariant has five parts: types; the stack is a path of blocking edges without repetition
  (`StackInv`); every edge out of an exhausted task leads to an exhausted task or to one on
  the path, and every edge of a task on the path is exhausted, on the path or still to be visited
  (`EdgeInv`); everything touched is reachable from the start (`ReachInv`); the verdict fits (`VerdictInv`). `EdgeInv` is why the shared set is sound:
  when the stack is empty the exhausted set is closed under blocking edges and does not
  contain the start task as anyone's blocker.
* `NothingDropped`, `OrderRespected`, `StuckIsStuck`, `AcceptedScheduled`, `BlameCorrect`: all
  safety properties of `WavePlan`, for snapshots of any size. The inductive invariant adds to
  `WavesRespectBlockers` that the waves partition what is placed (`Partition`) and that a
  report is written exactly when no wave is left, about all that remains (`Reported`).
  `SearchTypeCorrect` and `PlanTypeCorrect` are the type invariants.
  `AcceptedScheduled` uses the same lemma as the store's `DeadlockNeverPersisted`
  (`SomethingIsReady`), applied to the document with every placed task done.
* `SelectionIsGreedy`: `SelectSpec => []LazyMatchesNaive`, for every list of candidates with any
  costs, relevances, symmetric similarities, weights that are not negative, budget and least gain.
  The inductive invariant `LazyInv` says that what is alive is what still fits
  (`StillOpen`), that a gain computed in an earlier round is no lower than what the candidate
  would add today (`Bounds`), and that the picks are those of as many naive rounds
  (`Rounds`). `Bounds` is why the stale values may be trusted: a pick only brings the
  candidates nearer to what is chosen, so coverage left to gain shrinks and the
  penalty grows (`GainShrinks`), which is where the weights must not be negative. When the
  highest cached gain is fresh, every other candidate's gain of today lies below it, and
  equal ones come later in the list (`FreshLeads`): it is what the naive round picks.
* `AnswersAreComplete`: `MCSpec => []AnswersAreWhole` (`MapFitsBudget`, `EveryPathIsAccounted`,
  `RecallFitsBudget`), for any trees, rules, caps, scores and budgets, and any memory
  files. The inductive invariant is `QueryInv`: `LazyInv`, `MapInv`, `RecallInv`.
  `MapInv` keeps books. Before each step, what has been considered is what the
  omissions name plus what still pends (the listed paths, then the candidates); no path is on both sides or twice
  (`Accounted`, `Pends`). Each step moves paths from pending into a class that fits them
  (`Omits`), and the answer takes the rest. `LazyInv` says of the picks that they
  fit; that the answer does too needs that a sum does not depend on the order of its
  terms (`KeptWeighs`: `chosen` is in picking order, the answer in ranking order) and,
  for a recall, that lines rounded up one by one never cost less than their sum
  rounded up once. `NoConflict`, the hypothesis, says that git lists each path once:
  without it the statement is false, which is the finding of `RepoMapConflict`.

**`Supervisor_proofs`** (`SupervisorSession`, `Completion`, `Supervisor`)

* *Sessions.* `TypeCorrect`, and `CompletionProven`: `Spec => CompletionIsProven`, with nothing assumed
  of the requests. The inductive invariant `ProofInv` says that what the proof fields claim
  was earned since the last output: evidence within its window, or a stored passing
  verdict, implies that the check is in `proof`. Every way to observe output (event, tick, restart,
  new session) has to reset both fields for it to hold.
* `BudgetKept`, `SilenceNeverForgiven` and `FailoversKeepPace` are about a lane that says
  nothing, so they assume `Silent`: no request carries an event or observed progress, and nobody
  asks for a restart. (`session_heartbeat` is an instance.) `SilentInv` adds to the budgets that the mark of progress since
  the last recovery (`moved`) is never set: a fallback, a refusal or a crash must not set it.
  `PacedInv` adds that for a session with failures the
  rest of the cooldown and the age of the last failure together make up at least the shorter of backoff and
  dedupe window, so that a forced tick, which ignores the cooldown, still finds the failure old
  enough. `FailoversKeepPace` also assumes `DedupeWindow <= FailureReset`,
  because ages of failures are told apart only up to `FailureReset`; by default it is 4
  seconds against 5 minutes.
* *Gates.* `GatesImplementSession`: a behaviour of `Completion` is, on the session's side, one of
  `SupervisorSession`, so `CompletionIsProven` carries over. `ContractsValidated`:
  `GateSpec => ContractsAreValidated`. `GateInv` says, besides types, that every
  command the stored summary names was shown since the last output (`summary[s] \subseteq shown[s]`):
  output and a new record shrink what was shown, and they must forget the summary too.
* *Two stores.* `ImplementsSession` and `ImplementsTaskStore`: every step of `Supervisor` maps to a
  step or a stutter of each store's own specification, so everything proved of the parts
  holds of the whole (`PartsKeepTheirPromises`).
* `FinalizedHoldsNoClaim`: `SSpec => []FinalizedSessionHoldsNoClaim`. It is not inductive by
  itself: between the tool's two writes the session is final and the claim lives. `ClaimInv`
  says of every live claim of a task that is no stray that its revocation is owed, or its
  session is not final *and* has handed the task to the lane it is on now (`Accounted`). The second half is what a failover must
  establish for the next one.
* `FailedOverFenced`, `OvertakenMeetsDeadline`, `SynthesisSparesResults`: the action properties,
  each from `ClaimInv` and one case per tool. Bounded histories play no part in the proofs.

**`Records_proofs`** (`FindingStore`, `AgentMemory`, `LogWorker`)

* *Findings.* `TypeCorrect`; `ParentageEarned`: `Spec => []ParentageIsEarned`; `CommittedFrozen` and
  `FanOutMeasured`, the action properties, each from the same inductive invariant `IInv`: type
  correctness, every finding names a generation that exists (`Dated`), late findings are
  recorded ones (`LateKnown`), a recorded canary has an outcome (`CanariesRan`), and
  parentage itself. `LanePolicy` says of every draft what lane, role and parentage it
  gets: the requested lane is a hint the policy never trusts upwards. The last canary of a task
  is found with a well-founded order on sets of positions, not by induction over the store.
* *Memory.* `GatePassesNoLoss`: `MemorySpec => []GateIsSound`, and `AppendedNotesSurvive`:
  `MemorySpec => AppendsSurvive`, for any number of overlapping calls, notes, torn appends and
  hand edits. `MemoryTypeOK` is the invariant they need: a call about to write has read what it
  compares, and once a call has ensured `MEMORY.md` it is never absent again. `AppendedType`
  says that an append, healed or not, keeps every note that was there. `GateInv` says what a gate
  carries from one read to the next and on to its verdict, whatever the others write meanwhile:
  the notes it answers for were in `MEMORY.md` when it read that, and those it saw in
  `SNAPSHOT.md` are there still, but for the lapsed ones. Equal reads then do the rest.
* *Log.* `WrittenRecordsParse`: `LogSpec => []WrittenRecordParses`. `LogInv` adds who may have a record
  in a file (a call that returned), and what a call knows that appends without a line
  break: unless another append was torn since its look, the log does not end in the middle of a line.

**`StoreLock_proofs`**

* `SectionsExclude`, `AcknowledgedKept` (`Spec => []AcknowledgedSurvives`) and
  `SectionsImplement` (`Spec => SectionsAreAtomic`, the refinement of `AtomicStore`), for any
  number of calls, deaths and power losses. The code keeps no record of who holds a lock, so
  the proof reads it off the plan: a plan is `Lawful` if a history of held locks fits it (no
  lock taken twice, all given back, a save only under its lock). `PlansLawful` composes the
  histories of all tools from those of their sections. `LockInv` says that who
  holds a lock heads its chain (`Exclusion`), hence one at a time. `DataInv` adds that the copy a
  call is about to rename is the visible document with its update (`CopyFresh`: nobody
  else may write while it holds the lock), that no document holds an update its call has not
  come to (`Fresh`), and that every document a power loss may leave is part of the visible one
  and, where directories are flushed, holds what was acknowledged (`Survival`). The
  rename is the abstract commit and the end of the write the acknowledgement; all else
  stutters. That the locks are taken in one order is not needed here, only for the liveness.

**`Processes_proofs`** (`RoutePool`, `AgentLoop`, `VerifyEdit`, `ConfigSync`)

* `BatchComplete`: `PoolSpec => []BatchIsWhole`, for any number of items and workers. The inductive
  invariant says that each item taken is stored or awaited unless a call failed (`Taken`),
  and that no worker rests while there is something to take (`Busy`): then, when all rest,
  nothing is missing.
* `RecordedWorkNotRerun`: `Spec => []RecordedWorkIsNotRerun`, for any options, any number of
  crashes, a torn manifest or boundary after each, and reads that fail. The invariant is
  `NeverBehind`: the manifest in memory, and the one on disk where it is whole, is at least at
  the last iteration any complete manifest named. A torn manifest makes the program refuse to
  start, which is what keeps it true; a manifest that cannot be read does not, and from the
  moment a fresh one is written over it `recorded` counts anew (`unread`).
* `GenerationsArePartition`: `Spec => []GenerationsPartition`. `PartitionInv` says it of the manifest in
  memory and of the one on disk, which differ across a crash: the boundaries below
  the manifest's index share out, in order, the iterations from the first generation's
  opening to before the current start (`Shared`), a boundary is short only where the history
  was full (`Covered`), and the history is a gapless run of the last iterations (`Recent`). That the
  disk's index never exceeds the memory's is what a repeated iteration, which rewrites its
  boundary, depends on. A fresh manifest that is about to replace one the start could not read
  is measured against no generation at all (`OpenedSoFar`).
* `EvidenceIsSound`: `VerifySpec => []OutcomeIsEvidence`. `Raced` says what the race of exit,
  failed start, timeout and SIGKILL leaves of a command; `Keeps` that nothing changes a result, nor
  the end of a command that is gone; so the verdict, taken later, is about that end.
* `ReturnsRestore`: `SyncSpec => []ReturnRestores`, for any registries, configurations, preference
  lists, scans and runs. The invariant `SyncInv` only says that the agents' models, now and
  in the history, were assigned on *some* configuration of which the present one is an heir (`Heir`: a
  run changes nothing that decides who is left alone, nor any list outside the stack). The
  work is a comparison of two runs on one registry (`Twins`). Their lists differ in what the
  configurations remember, but both hold what is listed, in the host's order
  (`Follows`), and a pick does not depend on what else there is: two picks of listed models agree
  (`PicksAgree`). So candidates are `Alike`, one by one, the wish may run for both
  or for neither (`WishAlike`), and the first that may run has the same place in both rankings.
  `SyncInv` speaks of configurations that once were, so TLC checks only its consequence.

**`Lanes_proofs`** (`RouteSelection`, `RouteSchedule`, `RouteWatchdog`; `HermesPrimary`,
`HermesSubagents`, `MCHermes`)

*Routing.* For every registry, description and request, `RouteInv` is inductive: the answer of a mode, the
assignments of a schedule (`ScheduleInv`) and the probes of a watchdog call (`WatchdogInv`) are each
what the lists they were drawn from allow. The lists are computed by filters, stable sorts and
concatenations, so most of the proof is about operators (`RoutableTiersFacts` to `ReviewFacts`).

* `RoutesStayHome`: `RoutingSpec => []CloudIsOptIn`. Every selection returns a host some open tier
  lists (`AtHome`), and no model that is forwarded; each mode, slice and probe carries that on.
  The watchdog's candidates need it of the *primary* too, unless the caller named host or model.
* `ReviewsAreDiverse`: `RoutingSpec => []ReviewIsDiverse`. A lane that beats another on the review's merit
  has the better model or host, so that what is called same-model had no alternative.
* `SelectorsAlwaysAgree`: `RoutingSpec => []SelectorsAgree`. The planner's order, by load and then by
  score, is the order by score while nothing is placed (`IdleOrder`), and both take the first tier that
  has an available host (`OpenIsAvailable`).
* `CohortsAreDiverse`: `RoutingSpec => []CohortIsDiverse`, for any number of hypotheses. The cohort is a
  recursive function; that a sequence which obeys its step exists, and that the caps hold along
  it, is an induction on the set of lengths at which they fail (`CohortBuilt`).

*Hermes.*

* `CloudComesLast`: `PrimarySpec => []CloudIsLastResort`. `FairInv` says of each request that the lanes
  still ahead have the cloud ones last and, with those tried, cover every able self-hosted
  lane (`LastResort`). It starts from the order (`PolicyOrderFacts`: the policy reorders and drops
  nothing) and each failed or skipped lane moves from what is ahead to what was tried.
* `VerdictsAreRecent`: `PrimarySpec => VerdictIsRecent`. `PrimaryInv`: a probe under way saw a
  machine not longer than `ProbeMax` ago, and every entry of the memo was stored within
  that of what it saw. Slow probes overwrite newer entries; none gets older by it.
* `CloudIsConsented`, `FailedLaneAvoided`, `ToolProbesHold`: `CloudNeedsConsent`,
  `FailedLaneIsLeftAlone` and `ToolsAreProven`, from `SubagentInv`: each command alone holds a
  lane it has consent for, has not failed on and (strictly) whose tools were tried, *whatever* the
  shared report recommends; the report itself claims no tool probe that was not made.
* `OrchestratorIsBoth`: both kinds of work over the same machines behave as each alone.

**What stays with TLC.** Liveness (`SilentSessionSettles`, `EveryCallEnds`, `LoopEnds`,
`EveryCommandIsSwept`): fairness and ENABLED are out of the prover's reach. Every safety property
that a passing run checks is also a theorem.

## 5. Not modelled, and why

* `findUnreachable`: a report. Continuation and handoff prompts: they count a continuation
  and render text, and only tests call the emitters.
* `_Stop`'s report on sessions, and its scoping by owner.
* Host memory, agent profiles, inventories, inspection and most of observability: they read
  files and format them. Symbol extraction of the repository map.
* The argument scanner of the execution policy is a set of flaws a request may have; which
  text has which flaw is a matter of patterns. Output compaction.
* Loading the registry file, platform checks, `scoreCandidates` (no tool uses it).
* HTTP, authentication, `doctor` and `bench` of the orchestrator. Connections of the proxy.
* `run-opencode-loop.mjs`, `toggle-lane.mjs`; harness, monitors, linters and installers.
* Several server processes on one state directory: the code has no lock between them.
* Data abstractions that leave something out: equal lane scores are any of the best;
  the environment variable and the policy's opt-in are one flag; one kind of routing call, or
  of Hermes work, per behaviour.

## 6. Plan

1. `TaskGraph`, `TaskStore`, `StopHook`, `CycleSearch`, `WavePlan`. *Checked and proved.*
2. `SupervisorSession`, `Heartbeat`, `Completion`, `Supervisor`. *Checked; safety proved.*
3. `StoreLock` with `AtomicStore`. *Checked; exclusion and the refinement proved.*
4. `FindingStore`, `AgentMemory`, `LogWorker`, `RoutePool`. *Checked and proved.*
5. Hermes, processes. *Checked; safety proved.*
6. Routing. *Checked and proved.*
7. `ContextSelection`, `RepoMap`, `MemoryRecall`, `ConfigSync`. *Checked and proved.*
8. `findUnreachable`, sessions in `_Stop`, `run-opencode-loop.mjs`.
