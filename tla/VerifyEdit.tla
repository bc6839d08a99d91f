----------------------------- MODULE VerifyEdit -----------------------------
(***************************************************************************)
(* The two tools that run guarded commands: verify_edit, which classifies  *)
(* what its lint and its test command did (verify_edit_tools.ts), and the  *)
(* lifecycle hooks of an event (emitLifecycleHooks in execution_policy.ts) *)
(* with the merged configuration of repository and user.  Views, artifacts *)
(* and remedies are left out.                                              *)
(***************************************************************************)
EXTENDS GuardedExec, Sequences

CONSTANTS
  Requests,     \* command lines considered
  Configs       \* lifecycleHooks sections: [enabled : {"on","off","unset"}, strict : Seq(BOOLEAN)]

VARIABLES
  tool,         \* "verify", "hooks", or "none" before the call
  asked,        \* the command of each call, where there is one
  strict,       \* hooks: allowFailure is false
  site,         \* the machine: [cwd, deps : BOOLEAN]
  outcome,      \* CmdResult.outcome and reasonCode of each call
  reply         \* "none", "results", or "thrown"

verifyVars == <<execVars, tool, asked, strict, site, outcome, reply>>

NoCommand == [flaws |-> {"none"}, matches |-> {}]
Pending   == <<"pending", "">>

VerifyInit ==
  /\ ExecInit
  /\ tool = "none"
  /\ asked = [c \in Calls |-> NoCommand] /\ strict = [c \in Calls |-> FALSE]
  /\ site = [cwd |-> TRUE, deps |-> TRUE]
  /\ outcome = [c \in Calls |-> Pending] /\ reply = "none"

\* The machine the call finds; it stays as it is until the reply.
Finds == LoadsDenylist /\ site' \in [cwd : BOOLEAN, deps : BOOLEAN]

\* verify_edit: either command may be left out.
CallVerify(commands) ==
  /\ tool = "none"
  /\ tool' = "verify"
  /\ asked' = commands
  /\ Finds
  /\ UNCHANGED <<strict, outcome, reply>>

\* loadLifecycleHooksConfig: the user's switch over the repository's, the hooks of
\* the repository and then those of the user.
Enabled(repo, user) ==
  (IF user.enabled # "unset" THEN user.enabled ELSE repo.enabled) = "on"

HooksOf(repo, user) ==
  LET all == repo.strict \o user.strict
  IN  [c \in Calls |-> IF Enabled(repo, user) /\ c <= Len(all) THEN <<all[c]>> ELSE <<>>]

CallHooks(repo, user, commands) ==
  /\ tool = "none"
  /\ LET hooks == HooksOf(repo, user)
     IN  /\ \E c \in Calls : hooks[c] # <<>>
         /\ asked' = [c \in Calls |-> IF hooks[c] = <<>> THEN NoCommand ELSE commands[c]]
         /\ strict' = [c \in Calls |-> hooks[c] = <<TRUE>>]
  /\ tool' = "hooks"
  /\ Finds
  /\ UNCHANGED <<outcome, reply>>

\* The call whose turn it is: the earlier ones have their outcome.
Turn(c) ==
  /\ tool # "none" /\ reply = "none"
  /\ outcome[c] = Pending
  /\ \A d \in Calls : d < c => outcome[d] # Pending

Passes(c) ==
  /\ Turn(c) /\ asked[c] = NoCommand
  /\ outcome' = [outcome EXCEPT ![c] = <<"absent", "">>]
  /\ UNCHANGED <<execVars, tool, asked, strict, site, reply>>

Begins(c) ==
  /\ Turn(c) /\ asked[c] # NoCommand /\ run[c] = NotRun
  /\ IF Denial(asked[c]) # "ok" THEN Deny(c, Denial(asked[c]))
     ELSE \/ ~site.cwd /\ SpawnFails(c, "ENOENT")
          \/ site.cwd /\ \E error \in SpawnErrors : SpawnFails(c, error)
          \/ site.cwd /\ Spawns(c)
  /\ UNCHANGED <<tool, asked, strict, site, outcome, reply>>

\* Mutant of Classify: a command that was ended for its time counts as failed.
Classify_TimeoutFails(r) ==
  CASE r.result = "resolved" -> <<"pass", "">>
    [] r.result = "ENOENT" /\ ~site.cwd -> <<"could_not_run", "bad_cwd">>
    [] r.result \in {"ENOENT", "EACCES"} /\ site.cwd -> <<"could_not_run", "command_not_found">>
    [] r.result \in {"timed_out", "failed", "signalled", "spawn_error"} ->
         IF ~site.deps THEN <<"could_not_run", "deps_not_installed">> ELSE <<"fail", "">>
    [] OTHER -> <<"denied", r.result>>

\* runCommand.  A command ended by a signal of its own counts as timed out when the
\* budget is over by then; any other failed start counts as a failure.
Classify(r) ==
  LET late == r.result = "timed_out" \/ (r.result = "signalled" /\ r.timer = "due")
  IN  CASE r.result = "resolved" -> <<"pass", "">>
        [] r.result = "ENOENT" /\ ~site.cwd -> <<"could_not_run", "bad_cwd">>
        [] r.result \in {"ENOENT", "EACCES"} /\ site.cwd -> <<"could_not_run", "command_not_found">>
        [] late -> <<"could_not_run", "timeout">>
        [] r.result \in {"failed", "signalled", "spawn_error"} /\ ~late ->
             IF ~site.deps THEN <<"could_not_run", "deps_not_installed">> ELSE <<"fail", "">>
        [] OTHER -> <<"denied", r.result>>

\* What a hook's result says of it.
HookStatus(r) ==
  CASE r.result = "resolved" -> "ok"
    [] r.result \in SpawnErrors \cup {"failed", "signalled", "timed_out"} -> "failed"
    [] OTHER -> "blocked"

Judges(c) ==
  /\ Turn(c) /\ run[c].result # "none"
  /\ outcome' = [outcome EXCEPT ![c] = IF tool = "verify" THEN Classify(run[c])
                                       ELSE <<HookStatus(run[c]), run[c].result>>]
  /\ reply' = IF strict[c] /\ HookStatus(run[c]) # "ok" THEN "thrown" ELSE reply
  /\ UNCHANGED <<execVars, tool, asked, strict, site>>

Replies ==
  /\ tool # "none" /\ reply = "none"
  /\ \A c \in Calls : outcome[c] # Pending
  /\ reply' = "results"
  /\ UNCHANGED <<execVars, tool, asked, strict, site, outcome>>

VerifyCalls ==
  \E commands \in [Calls -> Requests \cup {NoCommand}] :
     \/ CallVerify(commands)
     \/ /\ NoCommand \notin {commands[c] : c \in Calls}
        /\ \E repo, user \in Configs : CallHooks(repo, user, commands)

VerifyRuns == (\E c \in Calls : Passes(c) \/ Begins(c) \/ Judges(c)) \/ Replies

\* What happens outside of the tool: processes live, timers fire.
VerifyTimers == RunnerStep /\ UNCHANGED <<tool, asked, strict, site, outcome, reply>>
VerifyWorld  == ProcessStep /\ UNCHANGED <<tool, asked, strict, site, outcome, reply>>

VerifyNext == VerifyCalls \/ VerifyRuns \/ VerifyTimers \/ VerifyWorld

VerifySpec == VerifyInit /\ [][VerifyNext]_verifyVars

-----------------------------------------------------------------------------
(* Properties *)

\* "Could not run is not a failure": fail is only said of a command that the server
\* let run to its own unsuccessful end on a machine that has its dependencies (or of
\* a start that failed for a reason the tool does not know), pass only of one that
\* ended with code 0, and nothing was started that the deny layer knows.
OutcomeIsEvidence ==
  \A c \in Calls :
     /\ outcome[c][1] = "pass" => run[c].end = "zero"
     /\ outcome[c][1] = "fail" =>
           /\ site.deps
           /\ (run[c].own /\ run[c].end # "zero") \/ run[c].result = "spawn_error"
     /\ run[c].leader # "none" => asked[c].matches \cap denylist = {}

\* Whatever a command starts and ignores, its call is settled and nobody is left in
\* its process group, though the process that settled it may have left the group.
EveryCommandIsSwept ==
  \A c \in Calls :
     (run[c].leader # "none") ~> (run[c].result # "none" /\ ~InGroup(run[c]))
=============================================================================
