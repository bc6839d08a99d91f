---------------------------- MODULE GuardedExec -----------------------------
(***************************************************************************)
(* guardedExecFile (execution_policy.ts): the policy gate, and the runner  *)
(* of one command in a process group of its own.  The end of the command,  *)
(* a failed start and the timeout race to settle the call; whichever wins, *)
(* the group is swept, by SIGTERM and two seconds later by SIGKILL.        *)
(* Nothing need obey SIGTERM, so sending it only arms the SIGKILL.  No     *)
(* caller passes an AbortSignal; the captured output is left out.          *)
(***************************************************************************)
EXTENDS Naturals, FiniteSetsExt

CONSTANTS
  Calls,        \* the guarded commands one tool call runs, one after the other
  Patterns      \* lines of dangerous-patterns.txt

\* What the policy looks at in a command line.
Request == [flaws : SUBSET {"empty", "many_args", "long_arg", "unlisted", "unsafe_arg"},
            matches : SUBSET Patterns]

\* What the leader may start: a process that keeps its pipes, one that does not,
\* and one that left the group with its pipes.
Kin == {"helper", "quiet", "daemon"}

VARIABLES
  denylist,     \* cachedDenylist.patterns: the lines that could be read and parsed
  run           \* one record per guarded command

execVars == <<denylist, run>>

NotRun ==
  [leader |-> "none", end |-> "none", own |-> FALSE, kin |-> {}, timer |-> "off",
   kill |-> "off", force |-> FALSE, result |-> "none"]

ExecInit ==
  /\ denylist = {}
  /\ run = [c \in Calls |-> NotRun]

\* The first call reads the file: a line that does not parse, or a file that cannot be
\* read, is as good as absent.
LoadsDenylist == denylist' \in SUBSET Patterns /\ UNCHANGED run

-----------------------------------------------------------------------------
(* validateExecRequest, context "hook" *)

\* The checks in their order: the deny layer comes ahead of the allowlist.
Checks ==
  << <<"empty", "empty_command">>, <<"dangerous", "dangerous_command_blocked">>,
     <<"many_args", "too_many_args">>, <<"long_arg", "arg_too_long">>,
     <<"unlisted", "hook_command_not_allowlisted">>, <<"unsafe_arg", "hook_arg_pattern_blocked">> >>

\* findDangerousPattern
Dangerous(r) == r.matches \cap denylist # {}

Denial(r) ==
  LET flaws == r.flaws \cup (IF Dangerous(r) THEN {"dangerous"} ELSE {})
      hits  == {i \in DOMAIN Checks : Checks[i][1] \in flaws}
  IN  IF hits = {} THEN "ok" ELSE Checks[Min(hits)][2]

-----------------------------------------------------------------------------
(* runGuardedProcess *)

InGroup(r)   == r.leader = "alive" \/ r.kin \ {"daemon"} # {}
PipesHeld(r) == r.kin \ {"quiet"} # {}

\* terminateGroup: an empty group arms nothing, and SIGKILL is armed once.
Terminated(r) == IF InGroup(r) /\ r.kill = "off" THEN [r EXCEPT !.kill = "armed"] ELSE r

\* Mutant of Settled: only a timeout tears the group down.
Settled_Unswept(r, result) == [r EXCEPT !.result = result, !.force = FALSE]

Settled(r, result) ==
  Terminated([r EXCEPT !.result = result, !.force = FALSE])

Changes(c, r) == run' = [run EXCEPT ![c] = r] /\ UNCHANGED denylist

Deny(c, reason) == Changes(c, [NotRun EXCEPT !.result = reason])

SpawnErrors == {"ENOENT", "EACCES", "spawn_error"}
SpawnFails(c, error) == Changes(c, [NotRun EXCEPT !.result = error])

Spawns(c) == Changes(c, [NotRun EXCEPT !.leader = "alive", !.timer = "armed"])

Unsettled(c) == run[c].leader # "none" /\ run[c].result = "none"

\* The command starts a process, and ends as it likes.
Forks(c, k) ==
  /\ run[c].leader = "alive" /\ k \notin run[c].kin
  /\ Changes(c, [run[c] EXCEPT !.kin = @ \cup {k}])

LeaderEnds(c, end) ==
  /\ run[c].leader = "alive"
  /\ Changes(c, [run[c] EXCEPT !.leader = "gone", !.end = end,
                               !.own = run[c].kill = "off"])

KinEnds(c, k) ==
  /\ k \in run[c].kin
  /\ Changes(c, [run[c] EXCEPT !.kin = @ \ {k}])

\* "close": the leader is gone and nobody holds its pipes.
Closing(r) ==
  CASE r.end = "zero"                      -> "resolved"
    [] r.end # "zero" /\ r.timer = "fired"        -> "timed_out"
    [] r.end = "nonzero" /\ r.timer # "fired"    -> "failed"
    [] r.end = "signal" /\ r.timer # "fired"     -> "signalled"

Closes(c) ==
  /\ Unsettled(c) /\ run[c].leader = "gone" /\ ~PipesHeld(run[c])
  /\ Changes(c, Settled(run[c], Closing(run[c])))

\* The budget is over; the timer's callback runs a moment later.
Elapses(c) ==
  /\ Unsettled(c) /\ run[c].timer = "armed"
  /\ Changes(c, [run[c] EXCEPT !.timer = "due"])

TimesOut(c) ==
  /\ Unsettled(c) /\ run[c].timer = "due"
  /\ Changes(c, Terminated([run[c] EXCEPT !.timer = "fired", !.force = TRUE]))

\* SIGKILL reaches everything that stayed in the group.
Kills(c) ==
  /\ run[c].kill = "armed"
  /\ Changes(c, [run[c] EXCEPT !.kill = "sent", !.kin = @ \cap {"daemon"},
                               !.leader = "gone",
                               !.end = IF run[c].leader = "alive" THEN "signal" ELSE @])

\* Twice the grace: SIGKILL, if it was armed, is past.  The pipes are given up.
GivesUpPipes(c) ==
  /\ run[c].force /\ run[c].kill # "armed"
  /\ Changes(c, Settled(run[c], "timed_out"))

ProcessStep ==
  \E c \in Calls :
     \/ \E k \in Kin : Forks(c, k) \/ KinEnds(c, k)
     \/ \E end \in {"zero", "nonzero", "signal"} : LeaderEnds(c, end)

RunnerStep == \E c \in Calls : Closes(c) \/ Elapses(c) \/ TimesOut(c) \/ Kills(c) \/ GivesUpPipes(c)
=============================================================================
