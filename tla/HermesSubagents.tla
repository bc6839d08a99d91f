--------------------------- MODULE HermesSubagents ---------------------------
(***************************************************************************)
(* Delegated work on the Hermes lanes (command_subagents, routing.py,       *)
(* inventory.py): a command reports on the lanes, saves the report in the   *)
(* cache file all commands share, chooses a lane, runs its slices there and *)
(* starts over without that lane if a slice failed.                         *)
(***************************************************************************)
EXTENDS HermesLanes, Integers

CONSTANTS
  Commands,
  Delegations,   \* what a command may be asked: a subset of Delegation
  MaxSlices,     \* bound: slices of one task
  Nothing        \* no lane

Delegation == [profile : Profiles, wanted : SUBSET Models, consent : BOOLEAN]

\* Facts about one lane, and the report (capability-cache.json) made of them.
Meta == [healthy : BOOLEAN, models : SUBSET Models, probeModel : Models,
         tools : {"yes", "no", "untested"}, score : Int]

ASSUME SubagentsAssumption ==
  Delegations \subseteq Delegation /\ MaxSlices \in Nat \ {0} /\ Nothing \notin Lanes

VARIABLES
  cache,     \* the shared report file
  command,
  proven     \* history: <<lane, model>> whose tool probe passed

subagentVars == <<cache, command, proven>>

NoReport == [exists |-> FALSE, lanes |-> <<>>, recommended |-> Nothing, at |-> 0]

Unstarted ==
  [step |-> "idle", ask |-> Nothing, report |-> NoReport, lane |-> Nothing, failed |-> {},
   running |-> 0, broken |-> FALSE]

SubagentsInit ==
  /\ cache = NoReport
  /\ command = [c \in Commands |-> Unstarted]
  /\ proven = {}

\* attempt_cfg: the lanes that failed this command are disabled, for it alone.
Attempt(c) ==
  [cfg EXCEPT !.lane = [k \in Lanes |-> [@[k] EXCEPT !.enabled = @ /\ k \notin command[c].failed]]]

-----------------------------------------------------------------------------
(* Reports *)

\* Mutant of Reusable: whatever model was probed.
Reusable_AnyModel(conf, previous, k, model) ==
  conf.reuseProbe /\ k \in DOMAIN previous.lanes /\ previous.lanes[k].tools # "untested"

\* A tool probe is not repeated for the model it was made with.
Reusable(conf, previous, k, model) ==
  /\ conf.reuseProbe /\ k \in DOMAIN previous.lanes
  /\ previous.lanes[k].probeModel = model /\ previous.lanes[k].tools # "untested"

LaneMeta(conf, k, probeTools, previous) ==
  LET lane == conf.lane[k]
      healthy == Healthy(lane, condition[k])
      listed == IF healthy THEN ListedModels(lane, condition[k]) ELSE {}
      model == ProbeModel(lane, listed)
      tools == IF ~probeTools \/ ~healthy THEN "untested"
               ELSE IF Reusable(conf, previous, k, model) THEN previous.lanes[k].tools
               ELSE IF CallsTools(lane, condition[k], model) THEN "yes" ELSE "no"
      rating == CASE tools = "yes" -> 40 [] tools = "no" -> -30 [] OTHER -> 0
  IN  [healthy |-> healthy, models |-> listed, probeModel |-> model, tools |-> tools,
       score |-> (IF healthy THEN 50 ELSE 0) + Cardinality(listed) + lane.priority + rating]

\* The best score, the earlier lane between equals.
Best(keys, lanes) ==
  IF keys = <<>> THEN Nothing
  ELSE keys[CHOOSE i \in DOMAIN keys :
              \A j \in DOMAIN keys : \/ lanes[keys[j]].score < lanes[keys[i]].score
                                     \/ (lanes[keys[j]].score = lanes[keys[i]].score /\ i <= j)]

\* build_inventory_report.
Report(conf, includeCloud, probeTools, previous) ==
  LET keys == SelfHosted(conf, conf.document) \o (IF includeCloud THEN Cloud(conf, conf.document) ELSE <<>>)
      lanes == [k \in {keys[i] : i \in DOMAIN keys} |-> LaneMeta(conf, k, probeTools, previous)]
      eligible == Only(keys, LAMBDA k :
                    /\ lanes[k].healthy
                    /\ conf.strict /\ probeTools => conf.lane[k].cloud \/ lanes[k].tools = "yes")
  IN  [exists |-> TRUE, lanes |-> lanes, recommended |-> Best(eligible, lanes), at |-> clock]

\* What the probes of a report showed.
Shown(report) ==
  {<<k, report.lanes[k].probeModel>> : k \in {l \in DOMAIN report.lanes :
     /\ report.lanes[l].tools = "yes"
     /\ CallsTools(cfg.lane[l], condition[l], report.lanes[l].probeModel)}}

HasToolData(conf, report) ==
  \A k \in DOMAIN report.lanes :
    ~conf.lane[k].cloud /\ report.lanes[k].healthy => report.lanes[k].tools # "untested"

-----------------------------------------------------------------------------
(* resolve_subagent_lane *)

AnyCloud(conf) == \E k \in Lanes : conf.lane[k].cloud /\ conf.lane[k].enabled

Consents(ask) == ask.consent \/ CloudDefaultEnabled(cfg)

\* cloud_allowed_for_subagents.
CloudForProfile(c) ==
  /\ Consents(command[c].ask)
  /\ AnyCloud(Attempt(c))
  /\ cfg.delegation
  /\ command[c].ask.profile \in cfg.cloudProfiles

NeedsLiveReport(c) == command[c].ask.wanted # {} \/ command[c].ask.profile # "default"
CacheIsFresh == cache.exists /\ (cfg.maxAge = 0 \/ clock <= cache.at + cfg.maxAge)

Start(c, ask) ==
  /\ command[c].step = "idle"
  /\ command' = [command EXCEPT ![c].step = "resolve", ![c].ask = ask]
  /\ UNCHANGED <<cache, proven>>

Probes(c, includeCloud, probeTools, next) ==
  LET report == Report(Attempt(c), includeCloud, probeTools, cache)
  IN  /\ command' = [command EXCEPT ![c].report = report, ![c].step = next]
      /\ proven' = proven \cup Shown(report)
      /\ UNCHANGED cache

\* A named model or profile: a report of its own, which becomes everyone's cache.
ProbeLive(c) ==
  /\ command[c].step = "resolve" /\ NeedsLiveReport(c)
  /\ Probes(c, CloudForProfile(c), cfg.strict, IF cfg.useCache THEN "save" ELSE "choose")

\* maybe_refresh_capability_cache.
ReadCache(c) ==
  /\ command[c].step = "resolve" /\ ~NeedsLiveReport(c) /\ cfg.useCache
  /\ CacheIsFresh \/ ~cfg.autoRefresh
  /\ command' = [command EXCEPT ![c].report = cache, ![c].step = "check"]
  /\ UNCHANGED <<cache, proven>>

Refresh(c) ==
  /\ command[c].step = "resolve" /\ ~NeedsLiveReport(c) /\ cfg.useCache
  /\ ~CacheIsFresh /\ cfg.autoRefresh
  /\ Probes(c, AnyCloud(Attempt(c)), TRUE, "save")

\* Without a cache only strict mode needs a report here.
ProbeUncached(c) ==
  /\ command[c].step = "resolve" /\ ~NeedsLiveReport(c) /\ ~cfg.useCache
  /\ IF cfg.strict THEN Probes(c, CloudForProfile(c), TRUE, "choose")
     ELSE /\ command' = [command EXCEPT ![c].report = NoReport, ![c].step = "choose"]
          /\ UNCHANGED <<cache, proven>>

\* save_json: temp file and rename.
Save(c) ==
  /\ command[c].step = "save"
  /\ cache' = [command[c].report EXCEPT !.at = clock]
  /\ command' = [command EXCEPT ![c].step = "check"]
  /\ UNCHANGED proven

\* Strict mode needs a tool probe of every healthy self-hosted lane.
Check(c) ==
  /\ command[c].step = "check"
  /\ IF cfg.strict /\ ~HasToolData(cfg, command[c].report)
       THEN Probes(c, AnyCloud(Attempt(c)), TRUE, "save")
       ELSE /\ command' = [command EXCEPT ![c].step = "choose"]
            /\ UNCHANGED <<cache, proven>>

\* subagent_candidate_order: the profile's order, the default one, else the policy's ...
CandidateOrder(c) ==
  LET profile == command[c].ask.profile
  IN  IF cfg.orders[profile] # NoOrder THEN cfg.orders[profile]
      ELSE IF cfg.orders["default"] # NoOrder THEN cfg.orders["default"]
      ELSE PolicyOrder(cfg, cfg.document)

\* ... without the cloud lanes, if they are not allowed, and without those there are not.
Admitted(c, k) ==
  /\ k \in Documented(cfg)
  /\ cfg.lane[k].cloud => CloudForProfile(c)

Suits(c, k) ==
  MatchesRequirement(command[c].ask.wanted, command[c].report.lanes[k].models \cup {Head(cfg.lane[k].models)})

\* Mutant of Alive: the report is believed about a lane that failed meanwhile.
Alive_Reported(c, k) ==
  \/ k \in DOMAIN command[c].report.lanes /\ command[c].report.lanes[k].healthy
  \/ Healthy(Attempt(c).lane[k], condition[k])

\* What the report says of an enabled lane is believed; otherwise it is probed now.
Alive(c, k) ==
  \/ /\ Attempt(c).lane[k].enabled
     /\ k \in DOMAIN command[c].report.lanes /\ command[c].report.lanes[k].healthy
  \/ Healthy(Attempt(c).lane[k], condition[k])

StrictCandidates(c) ==
  LET lanes == command[c].report.lanes  order == CandidateOrder(c)
  IN  {k \in {order[i] : i \in DOMAIN order} \cap DOMAIN lanes :
         Admitted(c, k) /\ lanes[k].healthy /\ (cfg.lane[k].cloud \/ lanes[k].tools = "yes") /\ Suits(c, k)}

\* The best scores first.
StrictChoices(c) ==
  LET alive == {k \in StrictCandidates(c) : Alive(c, k)}  score(k) == command[c].report.lanes[k].score
  IN  {k \in alive : \A l \in alive : score(l) <= score(k)}

\* Mutant of MayUseRecommended: the shared report's advice is taken as it is.
MayUseRecommended_Any(c, k) == k \in Documented(cfg) /\ Suits(c, k) /\ Alive(c, k)

\* The recommendation may come from a command with other rights.
MayUseRecommended(c, k) == Admitted(c, k) /\ Suits(c, k) /\ Alive(c, k)

\* The recommendation, else the first candidate that will do.
RelaxedChoices(c) ==
  LET report == command[c].report
      order == CandidateOrder(c)
      fit == {i \in DOMAIN order :
                /\ Admitted(c, order[i])
                /\ order[i] \in DOMAIN report.lanes => Suits(c, order[i])
                /\ Alive(c, order[i])}
  IN  IF cfg.useCache /\ MayUseRecommended(c, report.recommended) THEN {report.recommended}
      ELSE {order[i] : i \in {j \in fit : \A l \in fit : j <= l}}

LaneChoices(c) == IF cfg.strict THEN StrictChoices(c) ELSE RelaxedChoices(c)

-----------------------------------------------------------------------------
(* command_subagents *)

\* The task is split by hand or by the chosen lane: any number of slices.
Choose(c) ==
  /\ command[c].step = "choose"
  /\ IF LaneChoices(c) = {}
       THEN command' = [command EXCEPT ![c].step = "failed"]
       ELSE \E k \in LaneChoices(c), n \in 1..MaxSlices :
              command' = [command EXCEPT ![c].step = "slices", ![c].lane = k, ![c].running = n]
  /\ UNCHANGED <<cache, proven>>

SliceEnds(c) ==
  /\ command[c].step = "slices" /\ command[c].running > 0
  /\ LET k == command[c].lane
     IN  command' = [command EXCEPT ![c].running = @ - 1,
                                    ![c].broken = @ \/ ~ChatAnswers(cfg.lane[k], condition[k])]
  /\ UNCHANGED <<cache, proven>>

\* The pool ends when all slices have; one failure costs the lane, and every result.
RoundEnds(c) ==
  LET failed == command[c].failed \cup {command[c].lane}
  IN  /\ command[c].step = "slices" /\ command[c].running = 0
      /\ command' = IF ~command[c].broken
                      THEN [command EXCEPT ![c].step = "done"]
                      ELSE [command EXCEPT ![c].failed = failed, ![c].lane = Nothing, ![c].broken = FALSE,
                              ![c].step = IF Cardinality(failed) = Len(cfg.document) THEN "failed" ELSE "resolve"]
      /\ UNCHANGED <<cache, proven>>

SubagentStep ==
  \E c \in Commands :
    \/ \E ask \in Delegations : Start(c, ask)
    \/ ProbeLive(c) \/ ReadCache(c) \/ Refresh(c) \/ ProbeUncached(c) \/ Save(c) \/ Check(c)
    \/ Choose(c) \/ SliceEnds(c) \/ RoundEnds(c)

\* Delegated work alone, on machines that change.
SubagentsNext ==
  \/ SubagentStep /\ UNCHANGED world
  \/ (LaneChanges \/ Tick) /\ UNCHANGED subagentVars

SubagentsSpec == LanesInit /\ SubagentsInit /\ [][SubagentsNext]_<<world, subagentVars>>

-----------------------------------------------------------------------------
(* Properties *)

\* The cache file is shared: a report made by a command that may use the cloud is read by
\* one that may not.  Slices run on a cloud lane only if this command, or the policy, opted
\* in, delegation is on and the task's profile is listed.
CloudNeedsConsent ==
  \A c \in Commands :
    command[c].lane # Nothing /\ cfg.lane[command[c].lane].cloud =>
      Consents(command[c].ask) /\ cfg.delegation /\ command[c].ask.profile \in cfg.cloudProfiles

\* A lane on which a slice failed is not chosen again by the same command, whatever the
\* shared report says of it: the command tries each lane at most once and comes to an end.
FailedLaneIsLeftAlone ==
  \A c \in Commands : command[c].lane \notin command[c].failed

\* In strict mode a self-hosted lane gets slices only if the model it is reported with
\* passed a tool probe, although probes are reused from reports of other commands, older
\* models and machines that changed.
ToolsAreProven ==
  \A c \in Commands :
    cfg.strict /\ command[c].lane # Nothing /\ ~cfg.lane[command[c].lane].cloud =>
      <<command[c].lane, command[c].report.lanes[command[c].lane].probeModel>> \in proven
==============================================================================
