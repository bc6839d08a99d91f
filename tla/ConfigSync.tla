------------------------------ MODULE ConfigSync ------------------------------
(***************************************************************************)
(* sync-runtime-config.js: setup scans the machines, and this script       *)
(* rewrites the user's configuration after the scan.  A model that an      *)
(* agent still names is kept in the list of its provider although no scan  *)
(* found it, so what one run writes is input of the next.  A run reads     *)
(* three files and renames a complete new one into place: it is one step,  *)
(* and a run that dies has done nothing.  Labels, base URLs and per-model  *)
(* options are left out.                                                   *)
(***************************************************************************)
EXTENDS Places, Functions, FiniteSetsExt

CONSTANTS
  Unset,        \* null
  Likes,        \* PREFERRED_MODELS, MATCH_PATTERNS: from a list's name to the models each entry fits
  AgentOrder,   \* the agents of the configuration, in the order of its keys
  Source,       \* the configuration the stack ships
  Hosted,       \* names ending in ":cloud": Ollama forwards them to its cloud
  Coders,       \* isCodingModel
  Reasoners,    \* isReasoningKeep
  TurboQuant,   \* isTurboQuantModel
  Excluded,     \* isExcludedModel
  Scans,        \* registries a scan can leave behind
  UserConfigs,      \* configurations the user may start with
  MaxScans,     \* bound: scans after the first
  MaxRuns       \* bound: runs after one scan

VARIABLES
  registry,  \* the platform registry
  config,    \* the user's configuration
  scans,     \* scans so far, after the first
  runs,      \* runs since the last scan
  home       \* history: a registry, and the agents' models after a run on it

syncVars == <<registry, config, scans, runs, home>>

List(s) == s \in Seq(Range(s))

ListNames ==
  {"localPrimary", "localSmall", "localReasoning", "remotePlanning", "remoteReasoning", "remoteFast",
   "remoteCoding", "remote5090Reasoning", "remote5090Coding", "cloudPlanning", "cloudReasoning",
   "cloudFast", "cloudCoding", "turboLocalPrimary", "turboLocalSmall", "turboLocalReasoning",
   "turboRemotePlanning", "turboRemoteReasoning", "turboRemoteCoding"}

ASSUME SyncAssumption ==
  /\ List(AgentOrder) /\ Unset \notin Scans
  /\ ListNames \subseteq DOMAIN Likes /\ \A list \in ListNames : List(Likes[list])
  /\ \A c \in UserConfigs \cup {Source} : \A p \in DOMAIN c.models : List(c.models[p])
  /\ \A r \in Scans :
        /\ List(r.ollama) /\ List(r.openai) /\ List(r.cloud)
        /\ \A h \in Range(r.ollama) \cup Range(r.openai) \cup Range(r.cloud) \cup {r.local} : List(h.models)

\* What the configuration writes provider/model; this one is none.
NoRef == <<Unset, Unset>>

Local  == "ollama-local"
Remote == "ollama"
Big    == "ollama-5090"       \* a legacy provider id
Llama  == "llama-cpp-local"
Sglang == "sglang-remote"
Copilot == "github-copilot"

Managed == {Local, Remote, Big, Llama, Sglang}
Agents == Range(AgentOrder)

Nowhere == [provider |-> Unset, models |-> <<>>, reachable |-> FALSE, primary |-> FALSE, enabled |-> FALSE]

Homeless == [at |-> Unset, agent |-> Unset]

SyncInit ==
  /\ registry \in Scans /\ config \in UserConfigs
  /\ scans = 0 /\ runs = 0 /\ home = Homeless

-----------------------------------------------------------------------------
(* What a run takes from a registry r and from configurations *)

Unique(names) ==
  At(names, {k \in DOMAIN names : names[k] \notin Hosted \cup {Unset}
                                   /\ \A j \in 1 .. k - 1 : names[j] # names[k]})

ProviderNames(c, p) == IF p \in DOMAIN c.models THEN Unique(c.models[p]) ELSE <<>>

AgentNames(c, p) ==
  LET on == At(AgentOrder, {k \in DOMAIN AgentOrder : c.agent[AgentOrder[k]][1] = p})
  IN  Unique([k \in DOMAIN on |-> c.agent[on[k]][2]])

Up(hosts) == Only(hosts, LAMBDA h : h.reachable)
FirstHost(hosts) == FirstOr(Up(hosts), FirstOr(hosts, Nowhere))

ProviderTierHost(hosts, p) == FirstHost(Only(hosts, LAMBDA h : h.enabled /\ h.provider = p))

PrimaryTierHost(hosts) ==
  LET on == Only(hosts, LAMBDA h : h.enabled)
      among == IF Up(on) = <<>> THEN on ELSE Up(on)
  IN  FirstOr(Only(among, LAMBDA h : h.primary), FirstOr(among, Nowhere))

\* The host that stands for a provider.  Without a reachable one of its own
\* sglang takes the primary of the tier, whatever provider that host has.
HostFor(r, p) ==
  CASE p = Local  -> r.local
    [] p = Remote -> PrimaryTierHost(r.ollama)
    [] p = Big    -> ProviderTierHost(r.ollama, Big)
    [] p = Llama  -> ProviderTierHost(r.openai, Llama)
    [] p = Sglang -> LET own == ProviderTierHost(r.openai, Sglang)
                     IN  IF own.reachable THEN own ELSE PrimaryTierHost(r.openai)

Found(r, p) == Unique(HostFor(r, p).models)

\* Ollama on this machine is used without asking whether it was reached.
Reached(r, p) == p = Local \/ HostFor(r, p).reachable

Worth(p) ==
  Coders \cup Reasoners \cup IF p \in {Llama, Sglang} THEN TurboQuant ELSE {}

Known(c, p) == ProviderNames(c, p) \o ProviderNames(Source, p)
Named(c, p) == AgentNames(c, p) \o AgentNames(Source, p)

\* The models that agents name.  The llama.cpp ones count for Ollama, too.
Required(r, c, p) ==
  IF p = Local THEN Named(c, Local) \o Named(c, Llama)
  ELSE IF HostFor(r, p).reachable /\ Found(r, p) \o Known(c, p) # <<>>
    THEN Only(Named(c, p), LAMBDA m : m \in Worth(p))
  ELSE <<>>

\* keepModel, for a model that no agent names.
Fitting == (Coders \cup Reasoners) \ Excluded

\* What agents name is kept, whatever it is.
Merged(names, required) == Only(Unique(names \o required), LAMBDA m : m \in Range(required) \cup Fitting)

NamesOf(r, c, p) ==
  Merged(IF Found(r, p) # <<>> THEN Found(r, p) ELSE Known(c, p), Required(r, c, p))

\* What a host of the cloud offers, whatever the agents name.
Offering(c, h) == h.models \o Known(c, h.provider)

CloudNames(c, h) == Unique(Offering(c, h) \o Named(c, h.provider))

CloudHosts(r, c) == Only(r.cloud, LAMBDA h : h.enabled /\ CloudNames(c, h) # <<>>)

\* A Map: the last entry of a provider is the one that counts.
Assignable(r, c) ==
  LET hosts == CloudHosts(r, c)
      at(p) == {k \in DOMAIN hosts : hosts[k].provider = p}
      cloud == {hosts[k].provider : k \in DOMAIN hosts}
  IN  [p \in Managed \cup cloud |->
         IF p \in cloud THEN CloudNames(c, hosts[Max(at(p))])
         ELSE IF Reached(r, p) THEN NamesOf(r, c, p) ELSE <<>>]

MayRun(offered, ref) ==
  ref[1] \in DOMAIN offered /\ ref[2] \in Range(offered[ref[1]])

-----------------------------------------------------------------------------
(* buildSyncPolicy: which model of which provider each agent is to run on *)

\* pickPreferred and pickMatchingPattern: the first entry of a list that fits a name,
\* and the first name that it fits; otherwise the first name.
Pick(names, list, fallback) ==
  LET fits == {i \in DOMAIN Likes[list] : Range(names) \cap Likes[list][i] # {}}
  IN  IF names = <<>> THEN fallback
      ELSE IF fits = {} THEN names[1]
      ELSE FirstOr(Only(names, LAMBDA m : m \in Likes[list][Min(fits)]), fallback)

\* A provider is offered only when it has models, so its first model is always
\* found: the first provider answers, and the patterns are never asked.
SelectCloud(c, hosts, list) ==
  IF hosts = <<>> THEN NoRef
  ELSE <<hosts[1].provider, Pick(CloudNames(c, hosts[1]), list, Unset)>>

OrModel(m, other) == IF m # Unset THEN m ELSE other

Usable(r, c, p) == IF Reached(r, p) THEN NamesOf(r, c, p) ELSE <<>>

\* The candidates.  Where the code writes a || b for two picks of one provider, both are
\* null or neither is.
PicksAmong(u, hosts, c) ==
  LET llamaPrimary  == Pick(u[Llama], "turboLocalPrimary", Unset)
      sglangPlan    == Pick(u[Sglang], "turboRemotePlanning", Unset)
      localPrimary  == Pick(u[Local], "localPrimary", IF c.model[1] = Local THEN c.model[2] ELSE Unset)
      remotePlan    == Pick(u[Remote], "remotePlanning", Unset)
      remoteReason  == Pick(u[Remote], "remoteReasoning", remotePlan)
      remoteCode    == Pick(u[Remote], "remoteCoding", remotePlan)
  IN  [llamaPrimary |-> <<Llama, llamaPrimary>>,
       llamaSmall   |-> <<Llama, Pick(u[Llama], "turboLocalSmall", llamaPrimary)>>,
       llamaReason  |-> <<Llama, Pick(u[Llama], "turboLocalReasoning", llamaPrimary)>>,
       sglangPlan   |-> <<Sglang, sglangPlan>>,
       sglangReason |-> <<Sglang, Pick(u[Sglang], "turboRemoteReasoning", sglangPlan)>>,
       sglangCode   |-> <<Sglang, Pick(u[Sglang], "turboRemoteCoding", sglangPlan)>>,
       localPrimary |-> <<Local, localPrimary>>,
       localSmall   |-> <<Local, Pick(u[Local], "localSmall", localPrimary)>>,
       localReason  |-> <<Local, Pick(u[Local], "localReasoning", localPrimary)>>,
       remotePlan   |-> <<Remote, remotePlan>>,
       remoteReason |-> <<Remote, remoteReason>>,
       remoteFast   |-> <<Remote, Pick(u[Remote], "remoteFast", remotePlan)>>,
       remoteCode   |-> <<Remote, remoteCode>>,
       reasoning    |-> <<Remote, OrModel(remoteReason, Pick(u[Big], "remote5090Reasoning", remoteReason))>>,
       coding       |-> <<Remote, OrModel(remoteCode, Pick(u[Big], "remote5090Coding", remoteCode))>>,
       cloudPlan    |-> SelectCloud(c, hosts, "cloudPlanning"),
       cloudReason  |-> SelectCloud(c, hosts, "cloudReasoning"),
       cloudFast    |-> SelectCloud(c, hosts, "cloudFast"),
       cloudCode    |-> SelectCloud(c, hosts, "cloudCoding")]

Picks(r, c) == PicksAmong([p \in Managed |-> Usable(r, c, p)], CloudHosts(r, c), c)

\* Agents that keep to the machines of the stack, and are left alone under Copilot.
Homebound ==
  {"build", "fast-build", "reviewer", "qa-lead", "release-manager", "rust-rewrite", "model-trainer"}

\* Agents whose own Copilot model is kept.
Controllers == {"plan", "execution-orchestrator", "parallel-execution-orchestrator"}

Deepest == {"incident-commander", "research", "deep-thinker"}

Positions == Homebound \cup Controllers \cup Deepest
              \cup {"architect", "reasoning-fast", "performance-engineer"}

\* Where an agent may run, best first, after its wish in the source configuration.
Ranking(a) ==
  CASE a = "build" -> <<"sglangCode", "llamaPrimary", "remoteCode", "localPrimary">>
    [] a = "fast-build" -> <<"llamaPrimary", "sglangCode", "coding", "localPrimary">>
    [] a \in {"reviewer", "qa-lead", "release-manager"} ->
         <<"sglangReason", "llamaReason", "reasoning", "localReason">>
    [] a \in {"rust-rewrite", "model-trainer"} ->
         <<"sglangCode", "llamaPrimary", "coding", "localPrimary">>
    [] a = "plan" -> <<"llamaReason", "sglangPlan", "remotePlan", "localReason", "cloudPlan">>
    [] a = "architect" -> <<"sglangPlan", "llamaReason", "remotePlan", "localReason", "cloudPlan">>
    [] a \in Controllers \ {"plan"} ->
         << IF a = "execution-orchestrator" THEN "llamaReason" ELSE "llamaPrimary", "sglangPlan",
            "remotePlan", "remoteReason", "localReason", "localPrimary", "localSmall", "cloudPlan">>
    [] a \in Deepest -> <<"sglangReason", "llamaReason", "remoteReason", "localReason", "cloudReason">>
    [] a = "reasoning-fast" -> <<"llamaSmall", "sglangReason", "remoteFast", "localSmall", "cloudFast">>
    [] a = "performance-engineer" ->
         <<"sglangCode", "llamaPrimary", "remoteCode", "localPrimary", "cloudCode">>

OnCopilot(c) == Copilot \in {c.model[1], c.small[1]}

\* An agent that the assignments leave alone.
LeftAlone(c, a) ==
  \/ a \notin Positions
  \/ a \in Homebound /\ OnCopilot(c)
  \/ a \in Controllers /\ Copilot \in {c.agent[a][1], Source.agent[a][1]}

\* Mutant of NewModel: an agent whose model may still run keeps it.
NewModel_Sticky(offered, picks, a, ref) ==
  IF MayRun(offered, ref) THEN ref
  ELSE IF MayRun(offered, Source.agent[a]) THEN Source.agent[a]
  ELSE FirstOr(Only([k \in DOMAIN Ranking(a) |-> picks[Ranking(a)[k]]],
                    LAMBDA x : MayRun(offered, x)), ref)

\* The first candidate that may run; without one the agent keeps the one it has.
NewModel(offered, picks, a, ref) ==
  IF MayRun(offered, Source.agent[a]) THEN Source.agent[a]
  ELSE FirstOr(Only([k \in DOMAIN Ranking(a) |-> picks[Ranking(a)[k]]],
                    LAMBDA x : MayRun(offered, x)), ref)

-----------------------------------------------------------------------------
(* What it writes *)

OrRef(ref, other) == IF ref[2] # Unset THEN ref ELSE other

DefaultModel(picks) == OrRef(picks.llamaPrimary, picks.localPrimary)

\* The small one.
SmallModel(picks) == OrRef(picks.llamaSmall, picks.localSmall)

AgentModels(r, c) ==
  LET offered == Assignable(r, c)
      picks   == Picks(r, c)
  IN  [a \in Agents |-> IF LeftAlone(c, a) THEN c.agent[a] ELSE NewModel(offered, picks, a, c.agent[a])]

\* All of it, given the candidates.
Written(r, c, picks) ==
  LET default == OrRef(DefaultModel(picks), c.model)
  IN  [models   |-> [p \in DOMAIN c.models |-> IF p \in Managed THEN NamesOf(r, c, p) ELSE c.models[p]],
       agent    |-> AgentModels(r, c),
       model    |-> IF OnCopilot(c) THEN c.model ELSE default,
       small    |-> IF OnCopilot(c) THEN c.small
                    ELSE OrRef(SmallModel(picks), OrRef(c.small, default)),
       disabled |-> c.disabled \ Managed]

Synced(r, c) == Written(r, c, Picks(r, c))

\* The models after any run may be the ones remembered.
Sync ==
  /\ runs < MaxRuns
  /\ config' = Synced(registry, config) /\ runs' = runs + 1
  /\ home' \in {home, [at |-> registry, agent |-> config'.agent]}
  /\ UNCHANGED <<registry, scans>>

\* The machines change, and setup scans them again.
Scan ==
  /\ runs > 0 /\ scans < MaxScans
  /\ registry' \in Scans /\ scans' = scans + 1 /\ runs' = 0
  /\ UNCHANGED <<config, home>>

SyncNext == Sync \/ Scan

SyncSpec == SyncInit /\ [][SyncNext]_syncVars

-----------------------------------------------------------------------------
(* Properties *)

\* The models that a provider offers for itself, which nobody has to remember.
Listed(r, c, p) ==
  IF p \in Managed THEN IF Reached(r, p) THEN Range(Found(r, p)) \cap Fitting ELSE {}
  ELSE UNION {Range(Unique(Offering(c, h))) : h \in {h \in Range(r.cloud) : h.enabled /\ h.provider = p}}

\* No two hosts of the cloud have the same provider, and none has one of the stack's.
OneEach(r) ==
  \A i, j \in DOMAIN r.cloud : r.cloud[i].enabled /\ r.cloud[j].enabled =>
     /\ r.cloud[i].provider \notin Managed
     /\ r.cloud[i].provider = r.cloud[j].provider => i = j

\* Every machine that is up lists a model of its own, and so do Ollama on this one and
\* the hosts of the cloud.
Stocked(r, c) ==
  /\ \A p \in Managed : Reached(r, p) => Listed(r, c, p) # {}
  /\ \A h \in Range(r.cloud) : h.enabled => Listed(r, c, h.provider) # {}

\* An agent whose shipped model a machine lists runs on it, whatever it fell back to
\* before ("restores the preferred remote model on return").  And when the machines are
\* again as they were, each agent is back with the provider it had: on another model
\* than before only if one of the two is listed by nobody and just remembered by the
\* configuration.
ReturnRestores ==
  runs > 0 /\ OneEach(registry) =>
    \A a \in Agents : LeftAlone(config, a) \/
       LET wish == Source.agent[a]
           now  == config.agent[a]
           was  == home.agent[a]
       IN  /\ wish[1] \in Managed /\ wish[2] \in Listed(registry, config, wish[1]) => now = wish
           /\ registry = home.at /\ Stocked(registry, config) =>
                /\ now[1] = was[1]
                /\ {now[2], was[2]} \subseteq Listed(registry, config, now[1]) => now = was
==============================================================================
