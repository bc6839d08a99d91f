----------------------------- MODULE MCRouting -----------------------------
(***************************************************************************)
(* The programs that decide where work runs, with an instance for TLC: the *)
(* routing tools of the server, and the script that assigns models to the  *)
(* agents after a scan.  They share nothing; a behaviour is one of either. *)
(* The tools' calls share nothing but the registry, which none of them     *)
(* changes: a history has calls of one kind, and one with a batch          *)
(* (items > 0) has nothing else.                                           *)
(***************************************************************************)
EXTENDS RouteWatchdog, RoutePool, ConfigSync

Init == RoutingInit /\ PoolInit

Planned ==
  /\ slices = <<>> /\ step = "idle" /\ items = 0
  /\ ModesStep
  /\ UNCHANGED <<scheduleVars, watchdogVars, poolVars>>

Scheduled ==
  /\ reply = NoReply /\ step = "idle" /\ items = 0
  /\ ScheduleStep
  /\ UNCHANGED <<watchdogVars, poolVars>>

Watched ==
  /\ reply = NoReply /\ slices = <<>> /\ items = 0
  /\ WatchdogStep
  /\ UNCHANGED poolVars

Batched ==
  /\ PoolNext
  /\ UNCHANGED <<reg, reply, scheduleVars, watchdogVars>>

Next == Planned \/ Scheduled \/ Watched \/ Batched

Untouched ==
  /\ registry = CHOOSE r \in Scans : TRUE
  /\ config = CHOOSE c \in UserConfigs : TRUE
  /\ scans = 0 /\ runs = 0

Unasked ==
  /\ reg = CHOOSE r \in Registries : TRUE
  /\ reply = NoReply /\ slices = <<>> /\ step = "idle" /\ items = 0

MCInit == Init /\ SyncInit /\ (Untouched \/ Unasked)

InRouting == Untouched /\ Next /\ UNCHANGED syncVars
InSync    == Unasked /\ SyncNext /\ UNCHANGED <<routingVars, poolVars>>

MCSpec == MCInit /\ [][InRouting \/ InSync]_<<routingVars, poolVars, syncVars>>

-----------------------------------------------------------------------------
(* Registries, tasks and endpoints *)

Model(name, role) ==
  [name |-> name, embeds |-> role = "embed", codes |-> role = "code",
   reasons |-> role = "plan", tools |-> IF role = "code" THEN "validated" ELSE "no",
   turbo |-> role = "plan"]

Machine(id, width, vram, models) ==
  [id |-> id, usable |-> TRUE, inScope |-> TRUE, selfHosted |-> FALSE, inspects |-> TRUE,
   primary |-> FALSE, slices |-> width, vram |-> vram, reserve |-> 25, models |-> models]

Coder == Model("coder", "code")
Planner == Model("planner", "plan")
Embedder == Model("embedder", "embed")
Forwarded == Model("hosted:cloud", "chat")

Desk == [Machine("desk", 1, 10, <<Forwarded, Coder, Planner>>) EXCEPT !.primary = TRUE]
Desk2 == [Machine("desk2", 1, 10, <<Planner, Embedder>>) EXCEPT !.selfHosted = TRUE, !.inspects = FALSE]
Rack == Machine("rack", 3, 24, <<Coder>>)
Shelf == Machine("shelf", 1, 8, <<Model(NoModel, "chat"), Planner>>)
Server == [Machine("sglang", 1, 24, <<Planner>>) EXCEPT !.selfHosted = TRUE, !.inspects = FALSE]
Hosting == [Machine("remote", 4, 0, <<Coder, Planner>>) EXCEPT !.inspects = FALSE]

Registry(desk, rack, sglang, optIn) ==
  [order |-> <<"local", "tailscale-ollama", "tailscale-openai-compatible", "cloud">>,
   optIn |-> optIn,
   tiers |-> << [id |-> "local", hosts |-> <<desk, Desk2>>],
                [id |-> "tailscale-ollama", hosts |-> <<Shelf, rack>>],
                [id |-> "tailscale-openai-compatible", hosts |-> <<sglang>>],
                [id |-> "cloud", hosts |-> <<Hosting>>] >>,
   rules |-> << [words |-> {"speech"}, prefer |-> "cloud"], [words |-> {"tool"}, prefer |-> "next-available"] >>]

Down(h) == [h EXCEPT !.usable = FALSE]

MCRegistries ==
  { Registry(Desk, Rack, Server, FALSE), Registry(Desk, Down(Rack), Down(Server), TRUE),
    Registry(Down(Desk), Rack, Down(Server), FALSE),
    Registry([Desk EXCEPT !.inScope = FALSE, !.models = <<Forwarded>>], Rack, Down(Server), FALSE),
    [Registry(Desk, Down(Rack), Server, FALSE) EXCEPT !.order = <<"tailscale-ollama", "local", "cloud">>] }

MCDescriptions ==
  {{}, {"code"}, {"image", "code"}, {"image", "vision", "delegate"}, {"embed"}, {"speech", "tool"}}

\* Cells of two families, and slices that name none of them.
Cell(family, key) == [family |-> family, key |-> key]
MCSlices ==
  [task : {{"code"}, {"image", "vision", "delegate"}, {"speech", "tool"}}, cell : {NoCell}]
    \cup [task : {{"code"}}, cell : {Cell("cache", "read"), Cell("cache", "write"), Cell("index", "read")}]

MCNamedHosts == {NoHost, "remote"}
MCAuthors == {NoModel, "coder", "planner"}

MCEndpoints ==
  { [up |-> FALSE, lists |-> {}, ps |-> NoAnswer], [up |-> TRUE, lists |-> {}, ps |-> NoAnswer],
    [up |-> TRUE, lists |-> {"coder"}, ps |-> [names |-> {"Coder:latest"}, gb |-> 6]],
    [up |-> TRUE, lists |-> {"planner"}, ps |-> [names |-> {"planner"}, gb |-> 20]] }

MCNormalName == [n \in {"coder", "Coder:latest", "planner", "embedder", "hosted:cloud"} |->
                   IF n = "Coder:latest" THEN "coder" ELSE n]

MCBanned == {{}, {<<"rack", "coder">>, <<"desk", "planner">>}}
-----------------------------------------------------------------------------
(* Scans and configurations *)

Qwen30    == "qwen3-coder:30b"
Qwen14    == "qwen2.5-coder:14b"
Qwen27    == "qwen3.5:27b"
Qwen27Tq2 == "qwen3.5:27b-tq2"
Gpt       == "gpt-5"
GptProxy  == "gpt-oss:20b:cloud"

\* The fine-tuned lists: each name by itself.  The patterns: all that one matches.
MCLikes ==
  [localPrimary |-> <<{Qwen27}>>, localSmall |-> <<{Qwen27}>>, localReasoning |-> <<{Qwen30}>>,
   remotePlanning |-> <<{Qwen30}, {Qwen14}>>, remoteReasoning |-> <<{Qwen30}, {Qwen14}>>,
   remoteFast |-> <<{Qwen14}, {Qwen30}>>, remoteCoding |-> <<{Qwen30}, {Qwen14}>>,
   remote5090Reasoning |-> <<{Qwen27}>>, remote5090Coding |-> <<{Qwen30}, {Qwen14}>>,
   cloudPlanning |-> <<{Gpt}>>, cloudReasoning |-> <<{Gpt}>>, cloudFast |-> <<>>, cloudCoding |-> <<{Gpt}>>,
   turboLocalPrimary |-> <<{Qwen30}, {Qwen14, Qwen30}>>, turboLocalSmall |-> <<{Qwen27Tq2}, {Qwen14}>>,
   turboLocalReasoning |-> <<{Qwen27Tq2}, {Qwen27}>>,
   turboRemotePlanning |-> <<{Qwen27Tq2}, {Qwen27}, {Qwen30}>>,
   turboRemoteReasoning |-> <<{Qwen27Tq2}, {Qwen27}>>, turboRemoteCoding |-> <<{Qwen30}, {Qwen14, Qwen30}>>]

MCAgentOrder == <<"build", "plan", "performance-engineer", "ping">>
NoModels == [p \in Managed \cup {"openai"} |-> <<>>]
NoAgents == [a \in {"build", "plan", "performance-engineer", "ping"} |-> NoRef]
MCSource == [models |-> NoModels, agent |-> [NoAgents EXCEPT !["build"] = <<Remote, Qwen27>>]]

Scanned(provider, models, up) ==
  [provider |-> provider, models |-> models, reachable |-> up, primary |-> FALSE, enabled |-> TRUE]

Cloud1 == <<Scanned("openai", <<Gpt>>, TRUE)>>
Remote30 == Scanned(Remote, <<Qwen30>>, TRUE)
Remote14 == Scanned(Remote, <<Qwen14>>, TRUE)
Remote27 == Scanned(Remote, <<Qwen27>>, TRUE)
Legacy == Scanned(Big, <<Qwen30>>, TRUE)

\* Machines come and go, and remote models, too; one host of the cloud knows less of
\* its provider than the other.
ScanOf(local, ollama, openai, cloud) ==
  [local |-> Scanned(Local, local, TRUE), ollama |-> ollama, openai |-> openai, cloud |-> cloud]

Stock == <<Qwen14, GptProxy>>
Llama27(up) == Scanned(Llama, <<Qwen27Tq2>>, up)
Sglang27 == Scanned(Sglang, <<Qwen27Tq2>>, TRUE)

MCScans ==
  {ScanOf(<<>>, <<>>, <<>>, Cloud1), ScanOf(Stock, <<>>, <<>>, <<>>),
   ScanOf(Stock, <<Remote14>>, <<>>, <<>>), ScanOf(Stock, <<Remote30>>, <<>>, Cloud1),
   ScanOf(<<Qwen14, Qwen27>>, <<Remote27, Legacy>>, <<Llama27(FALSE)>>, Cloud1),
   ScanOf(Stock, <<Remote27, Remote30>>, <<Llama27(TRUE), Scanned(Sglang, <<Qwen30>>, FALSE)>>, <<>>),
   ScanOf(Stock, <<>>, <<Llama27(FALSE), Sglang27>>, Cloud1 \o <<Scanned("openai", <<>>, TRUE)>>),
   ScanOf(<<>>, <<Remote14>>, <<Llama27(TRUE), Sglang27>>, <<>>)}

ConfigOf(agents, model) ==
  [models |-> NoModels, agent |-> agents, model |-> model, small |-> NoRef, disabled |-> {Local}]

MCUserConfigs ==
  {ConfigOf(NoAgents, NoRef),
   ConfigOf([NoAgents EXCEPT !["plan"] = <<Copilot, Gpt>>], <<Copilot, Gpt>>),
   ConfigOf([NoAgents EXCEPT !["plan"] = <<Llama, Qwen27Tq2>>, !["build"] = <<Remote, Qwen30>>], NoRef)}
=============================================================================
