------------------------------ MODULE MCHermes ------------------------------
(***************************************************************************)
(* The orchestrator's two ways to work on the same machines, primary work  *)
(* (proxy, run) and delegated work (subagents), with an instance for TLC.  *)
(***************************************************************************)
EXTENDS HermesPrimary, HermesSubagents

CONSTANTS gpu, box, cloud, m1, m2

vars == <<world, primaryVars, subagentVars>>

Init == LanesInit /\ PrimaryInit /\ SubagentsInit

\* Proxy and commands are different processes that share the machines and nothing else:
\* a history has one kind or the other.
Primary ==
  /\ \A c \in Commands : command[c].step = "idle"
  /\ PrimaryStep
  /\ UNCHANGED <<world, subagentVars>>

Delegated ==
  /\ \A r \in Requests : request[r].step = "idle"
  /\ SubagentStep
  /\ UNCHANGED <<world, primaryVars>>

World ==
  /\ LaneChanges \/ (Tick /\ ProbesAreBounded)
  /\ UNCHANGED <<primaryVars, subagentVars>>

Next == Primary \/ Delegated \/ World

Spec == Init /\ [][Next]_vars

-----------------------------------------------------------------------------
(* The instance *)

MCLane(priority, endpoint, isCloud, models) ==
  [cloud |-> isCloud, priority |-> priority, enabled |-> TRUE, configured |-> TRUE, endpoint |-> endpoint,
   models |-> models, catalog |-> {}, chatProbe |-> FALSE]

\* The shipped layout: two self-hosted lanes and a cloud lane behind the CLI, which has a
\* higher priority than one of them.
MCConfig ==
  [document |-> <<cloud, box, gpu>>,
   lane |-> (gpu :> MCLane(30, "http", FALSE, <<m1, m2>>)) @@ (box :> MCLane(10, "http", FALSE, <<m1>>))
              @@ (cloud :> MCLane(20, "hermes_cli", TRUE, <<m2>>)),
   primaryOrder |-> <<cloud, box, gpu>>, selfHostedFirst |-> TRUE, requireManual |-> TRUE, cloudByDefault |-> FALSE,
   subagentsCloudDefault |-> FALSE, delegation |-> TRUE, cloudProfiles |-> {"special"},
   strict |-> FALSE, useCache |-> TRUE, reuseProbe |-> TRUE, autoRefresh |-> TRUE,
   maxAge |-> 1, proxyCloud |-> TRUE, ttl |-> 1,
   orders |-> [p \in Profiles |-> IF p = "default" THEN <<gpu, box, cloud>> ELSE NoOrder]]

MCConfigs ==
  {MCConfig,
   [MCConfig EXCEPT !.strict = TRUE, !.proxyCloud = FALSE, !.ttl = 0],
   [MCConfig EXCEPT !.strict = TRUE, !.useCache = FALSE, !.selfHostedFirst = FALSE, !.lane[box].enabled = FALSE]}

Up(model, tools) ==
  [list |-> "ok", serves |-> {model}, chat |-> [m \in Models |-> IF m = model THEN "ok" ELSE "failed"], tools |-> tools]
Down == [list |-> "down", serves |-> {}, chat |-> [m \in Models |-> "failed"], tools |-> {}]
Locked == [list |-> "auth", serves |-> {}, chat |-> [m \in Models |-> "auth"], tools |-> {}]

MCConditions ==
  (gpu :> {Up(m1, {m1}), Up(m2, {}), Down}) @@ (box :> {Up(m1, {m1}), Locked}) @@ (cloud :> {Up(m2, {}), Down})

MCDelegations ==
  {[profile |-> "default", wanted |-> {}, consent |-> FALSE],
   [profile |-> "special", wanted |-> {m2}, consent |-> TRUE]}

MCSymmetry == Permutations(Requests) \cup Permutations(Commands)
==============================================================================
