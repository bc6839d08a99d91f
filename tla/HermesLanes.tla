----------------------------- MODULE HermesLanes -----------------------------
(***************************************************************************)
(* The lanes of the Hermes orchestrator (hermes_lib/lanes.py): what the     *)
(* configuration says of them, in which order they are tried, and what a    *)
(* probe or a call finds out about the machine behind one.  Names, urls,    *)
(* keys and prompts are left out; a model is a model value.                 *)
(***************************************************************************)
EXTENDS Places, TLC

CONSTANTS
  Lanes,         \* lane keys
  Models,
  Profiles,      \* task profiles of delegated work
  NoOrder,       \* of a profile for which no order is configured
  Configs,       \* the configurations considered: a subset of Config
  Conditions,    \* [Lanes -> SUBSET Condition]: what may become of each machine
  MaxClock, MaxChanges   \* bounds: length of a history, changes of a machine in it

\* The dataclass Lane.  configured: no REPLACE_WITH left in the url.
Lane == [cloud : BOOLEAN, priority : Nat, enabled : BOOLEAN, configured : BOOLEAN,
         endpoint : {"http", "hermes_cli"}, models : Seq(Models),
         catalog : SUBSET Models, chatProbe : BOOLEAN]

\* What the code reads of the configuration.  document: the lanes in their order.
Config ==
  [document : Seq(Lanes), lane : [Lanes -> Lane], primaryOrder : Seq(Lanes),
   selfHostedFirst : BOOLEAN, requireManual : BOOLEAN, cloudByDefault : BOOLEAN,
   subagentsCloudDefault : BOOLEAN, delegation : BOOLEAN, cloudProfiles : SUBSET Profiles,
   strict : BOOLEAN, useCache : BOOLEAN, reuseProbe : BOOLEAN, autoRefresh : BOOLEAN,
   maxAge : Nat, proxyCloud : BOOLEAN, ttl : Nat,
   orders : [Profiles -> Seq(Lanes) \cup {NoOrder}]]

\* Answers of a machine: GET /models (auth: 401 or 403; quirk: 400 no_model_name; bad: 400;
\* down: any other error), the models it lists, the chat completion of each model (auth:
\* 401, 403 or 404), and the models that call a tool when asked to.
Condition == [list : {"ok", "auth", "quirk", "bad", "down"}, serves : SUBSET Models,
              chat : [Models -> {"ok", "limited", "auth", "failed"}], tools : SUBSET Models]

ASSUME LanesAssumption ==
  Configs \subseteq Config /\ "default" \in Profiles /\ MaxClock \in Nat /\ MaxChanges \in Nat

VARIABLES
  cfg,         \* Config, never changed
  condition,   \* [Lanes -> Condition]
  clock,
  changes

world == <<cfg, condition, clock, changes>>

-----------------------------------------------------------------------------
(* Order *)

\* _priority_sorted: by priority, the given order between equals.
PrioritySorted(c, keys) == Ranked(keys, LAMBDA k : c.lane[k].priority)

SelfHosted(c, keys) == PrioritySorted(c, Only(keys, LAMBDA k : ~c.lane[k].cloud))
Cloud(c, keys) == PrioritySorted(c, Only(keys, LAMBDA k : c.lane[k].cloud))

\* Mutant of PolicyOrder: the priority alone decides.
PolicyOrder_Flat(c, keys) == PrioritySorted(c, keys)

\* _apply_lane_policy_order.
PolicyOrder(c, keys) ==
  IF c.selfHostedFirst THEN SelfHosted(c, keys) \o Cloud(c, keys) ELSE PrioritySorted(c, keys)

\* ordered_lane_keys, lane_map: the lanes there are.
Documented(c) == {c.document[i] : i \in DOMAIN c.document}

\* The lanes primary work may use: the configured list selects, it does not order.
Participating(c) ==
  LET known == Only(c.primaryOrder, LAMBDA k : k \in Documented(c))
  IN  IF known = <<>> THEN c.document ELSE known

PrimaryLaneOrder(c) == PolicyOrder(c, Participating(c))

\* cloud_default_enabled: three keys, closed when one is missing.
CloudDefaultEnabled(c) == ~c.requireManual /\ c.cloudByDefault /\ c.subagentsCloudDefault

\* model_matches_requirement; a requirement stands for the models it is a substring of.
MatchesRequirement(required, models) == required = {} \/ required \cap models # {}

-----------------------------------------------------------------------------
(* Probes and calls *)

ModelsOf(lane) == {lane.models[i] : i \in DOMAIN lane.models}

\* lane_health.  A 401 or 403 counts as alive.
Healthy(lane, cond) ==
  /\ lane.enabled /\ lane.configured
  /\ IF lane.endpoint = "hermes_cli"
       THEN \E m \in ModelsOf(lane) : cond.chat[m] = "ok"
       ELSE \/ cond.list \in {"ok", "auth"}
            \/ cond.list = "quirk" /\ lane.catalog # {}
            \/ /\ cond.list \in {"quirk", "bad"} /\ lane.chatProbe
               /\ \E m \in ModelsOf(lane) : cond.chat[m] \in {"ok", "limited"}

\* list_lane_models.
ListedModels(lane, cond) ==
  IF lane.endpoint = "hermes_cli" THEN IF lane.catalog # {} THEN lane.catalog ELSE ModelsOf(lane)
  ELSE IF cond.list = "ok" /\ cond.serves # {} THEN cond.serves
  ELSE lane.catalog

\* select_probe_model: the lane's first model that is listed, else one that is.
ProbeModel(lane, listed) ==
  LET offered == Only(lane.models, LAMBDA m : m \in listed)
  IN  IF offered # <<>> THEN Head(offered)
      ELSE IF listed # {} THEN CHOOSE m \in listed : TRUE
      ELSE Head(lane.models)

\* probe_tool_call_support.
CallsTools(lane, cond, m) == lane.endpoint # "hermes_cli" /\ cond.chat[m] = "ok" /\ m \in cond.tools

\* call_chat: the lane's models in their order, the first that answers.
ChatAnswers(lane, cond) == \E m \in ModelsOf(lane) : cond.chat[m] = "ok"

-----------------------------------------------------------------------------
(* The machines and the time *)

LanesInit ==
  /\ cfg \in Configs
  /\ condition \in {f \in [Lanes -> UNION {Conditions[k] : k \in Lanes}] : \A k \in Lanes : f[k] \in Conditions[k]}
  /\ clock = 0 /\ changes = 0

\* A machine goes down, comes back, swaps its model, runs out of quota.
LaneChanges ==
  /\ changes < MaxChanges
  /\ changes' = changes + 1
  /\ \E k \in Lanes : \E cond \in Conditions[k] : condition' = [condition EXCEPT ![k] = cond]
  /\ UNCHANGED <<cfg, clock>>

Tick ==
  /\ clock < MaxClock
  /\ clock' = clock + 1
  /\ UNCHANGED <<cfg, condition, changes>>
==============================================================================
