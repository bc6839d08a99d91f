--------------------------- MODULE RouteSelection ---------------------------
(***************************************************************************)
(* How the server picks a tier, a host and a model for a described task    *)
(* (routing_selection_runtime.ts), and the modes of route_task that only   *)
(* consult the registry: default, architect-editor, competitive and review *)
(* (routing_tools.ts, routing_runtime.ts).  A description is the set of    *)
(* the words it contains that some rule looks for.                         *)
(***************************************************************************)
EXTENDS Places, Integers, SequencesExt

CONSTANTS
  NoHost, NoModel, NoTier,
  Proxied,       \* names of models a local runtime forwards to a hosted service: they end in ":cloud"
  Registries,    \* the registries a server may have loaded
  Descriptions,  \* the tasks it is asked to route
  NamedHosts,    \* host ids a caller may name; NoHost for none
  Authors        \* models a caller may name as the author's; NoModel for none

ModelEntry ==
  [name : STRING \cup {NoModel}, embeds : BOOLEAN, codes : BOOLEAN, reasons : BOOLEAN,
   tools : STRING, turbo : BOOLEAN]

HostEntry ==
  [id : STRING, usable : BOOLEAN, inScope : BOOLEAN, selfHosted : BOOLEAN, inspects : BOOLEAN,
   primary : BOOLEAN, slices : Int, vram : Nat, reserve : Nat, models : Seq(ModelEntry)]

TierEntry == [id : STRING, hosts : Seq(HostEntry)]
RuleEntry == [words : SUBSET STRING, prefer : STRING]

\* A registry may name a tier that it does not list, and list one that no order names.
ASSUME RegistryAssumption ==
  /\ \A r \in Registries :
       /\ r.optIn \in BOOLEAN
       /\ r.order \in Seq(STRING) /\ r.tiers \in Seq(TierEntry) /\ r.rules \in Seq(RuleEntry)
  /\ \A d \in Descriptions : d \subseteq STRING /\ IsFiniteSet(d)
  /\ NoModel \notin Proxied /\ NoTier # "cloud"

VARIABLES
  reg,    \* the loaded registry
  reply   \* the answer to the last such call: its mode, what was asked and the lanes named

CloudTier == "cloud"

KnownTiers == <<"local", "tailscale-ollama", "tailscale-openai-compatible", CloudTier>>

Keywords(t) ==
  CASE t = "local" ->
         {"implement", "code", "edit", "fix", "build", "test", "review", "deploy", "release", "fast",
          "quick", "small", "obvious", "plan", "planner", "planning", "orchestrate", "orchestrator",
          "architecture"}
    [] t = "tailscale-ollama" ->
         {"subagent", "delegate", "delegated", "parallel", "overflow", "offload", "research",
          "analyze", "investigate", "deep-reasoning"}
    [] t = "tailscale-openai-compatible" ->
         {"sglang", "openai-compatible", "llama-server", "turboquant", "long-context",
          "low-latency", "high-throughput"}
    [] t = CloudTier ->
         {"multimodal", "image", "vision", "provider-specific", "burst", "capability-gap",
          "unavailable-locally"}
    [] OTHER -> {}

Means ==
  [code |-> {"implement", "code", "fix", "edit", "build", "review", "test", "verify", "validation"},
   reason |-> {"plan", "architect", "reason", "research", "analy", "investigate", "synthes"},
   embed |-> {"embed", "vector", "retrieval"},
   strictTool |-> {"tool", "function call", "structured json", "strict json", "json schema"},
   longContext |-> {"long-context", "long context", "large-context", "synthesis"},
   multimodal |-> {"multimodal", "image", "vision", "audio", "video", "speech", "transcribe", "ocr"}]

Asks(d, intent) == d \cap Means[intent] # {}

-----------------------------------------------------------------------------
(* The registry *)

RoutableTiers(r) == Only(r.order, LAMBDA t : r.optIn \/ t # CloudTier)

TierOf(r, t) == FirstOr(Only(r.tiers, LAMBDA x : x.id = t), [id |-> t, hosts |-> <<>>])

\* The hosts of some tiers, in their order.
LanesOf(tiers) ==
  FlattenSeq([i \in DOMAIN tiers |->
    [j \in DOMAIN tiers[i].hosts |-> [tier |-> tiers[i].id, host |-> tiers[i].hosts[j]]]])

RoutableLanes(r) ==
  LanesOf([i \in DOMAIN RoutableTiers(r) |-> TierOf(r, RoutableTiers(r)[i])])

FindHost(r, id) == FirstOr(Only(LanesOf(r.tiers), LAMBDA l : l.host.id = id), NoHost)

Capacity(h) == IF h.slices > 0 THEN h.slices ELSE 1

\* modelEntries: an entry without a name is skipped; a bare name says nothing else of its model.
Entries(h) == Only(h.models, LAMBDA m : m.name # NoModel)

\* hostCapacityScore in twentieths of a point: 10 a slice, 0.2 a GB, 0.5 a model, 0.25 for primary.
Point == 20
Score(h) ==
  10 * Point * Capacity(h) + 4 * h.vram + 10 * Len(Entries(h)) + (IF h.primary THEN 5 ELSE 0)

BestFirst(lanes) == Ranked(lanes, LAMBDA l : Score(l.host))

-----------------------------------------------------------------------------
(* The model of a host *)

\* Models a local runtime only forwards are never picked.
Own(h) == Only(Entries(h), LAMBDA m : m.name \notin Proxied)

\* How far a model comes through the filters and searches of chooseModelForTask, which give way
\* when nothing passes them: an embedder wins an embedding task and loses any other; then count
\* validated tools and turboquant, if asked for, then a role asked for, then safe tools.
Merit(m, d) ==
  LET Worth(n, test) == IF test THEN n ELSE 0
  IN  IF Asks(d, "embed") /\ m.embeds THEN 32
      ELSE Worth(16, ~m.embeds)
             + Worth(8, Asks(d, "strictTool") /\ m.tools = "validated")
             + Worth(4, Asks(d, "longContext") /\ m.turbo)
             + (IF Asks(d, "code") /\ m.codes THEN 3
                ELSE IF Asks(d, "reason") /\ m.reasons THEN 2
                ELSE Worth(1, Asks(d, "strictTool") => m.tools \in {"validated", "safe"}))

ChooseModel(h, d) ==
  IF Own(h) = <<>> THEN NoModel ELSE Ranked(Own(h), LAMBDA m : Merit(m, d))[1].name

ModelOf(h, d) == IF h = NoHost THEN NoModel ELSE ChooseModel(h, d)

-----------------------------------------------------------------------------
(* The tier of a task *)

TierScore(r, d, t) ==
  Cardinality(Keywords(t) \cap d)
    + 2 * Cardinality({p \in (DOMAIN r.rules) \X d :
                         r.rules[p[1]].prefer = t /\ p[2] \in r.rules[p[1]].words})

\* Tiers that may have a score, in the order in which equal scores are ranked.
ScoredTiers(r) ==
  KnownTiers \o Only([i \in DOMAIN r.rules |-> r.rules[i].prefer], LAMBDA t : t # "next-available")

\* The tier with the most matching words; a blocked cloud tier has no say.
TopTier(r, d) ==
  LET open == Only(ScoredTiers(r), LAMBDA t : r.optIn \/ t # CloudTier)
      best == Ranked(open, LAMBDA t : TierScore(r, d, t))[1]
  IN  IF TierScore(r, d, best) > 0 THEN best ELSE FirstOr(RoutableTiers(r), NoTier)

AllowedFor(h, d) == ~(Asks(d, "multimodal") /\ h.selfHosted)

\* isAvailableHost, in the tier's order.
Available(r, d, t) == Only(TierOf(r, t).hosts, LAMBDA h : h.usable /\ AllowedFor(h, d))

Recommend(r, d) ==
  LET asked == TopTier(r, d)
      tiers == <<asked>> \o Only(RoutableTiers(r), LAMBDA t : t # asked)
      tier == FirstOr(Only(tiers, LAMBDA t : Available(r, d, t) # <<>>), asked)
      host == FirstOr(Ranked(Available(r, d, tier), Score), NoHost)
  IN  [tier |-> tier, host |-> host, model |-> ModelOf(host, d),
       fallback |-> FirstOr(Only(RoutableTiers(r), LAMBDA t : t # tier /\ Available(r, d, t) # <<>>), NoTier)]

-----------------------------------------------------------------------------
(* route_task *)

NoReply == [mode |-> "none", lanes |-> <<>>]

ModesInit == reg \in Registries /\ reply = NoReply

-----------------------------------------------------------------------------

Routed(r) == [host |-> r.host, model |-> r.model]

\* Mutant of Preferred: the preferred host's tier is not looked at.
Preferred_AnyTier(r, id, d) ==
  LET found == IF id = NoHost THEN NoHost ELSE FindHost(reg, id)
  IN  IF found # NoHost /\ found.host.usable
        THEN [host |-> found.host, model |-> ChooseModel(found.host, d)]
        ELSE Routed(r)

\* applyHostPreference: a preference that cannot be used gives way to the routed lane.
Preferred(r, id, d) ==
  LET found == IF id = NoHost THEN NoHost ELSE FindHost(reg, id)
  IN  IF found # NoHost /\ found.tier \in Range(RoutableTiers(reg)) /\ found.host.usable
        THEN [host |-> found.host, model |-> ChooseModel(found.host, d)]
        ELSE Routed(r)

\* The words the prefixes of the planners add to a description.
ArchitectSeed == {"architecture", "architect", "plan", "planning", "reason", "synthes", "analy"}
EditorSeed == {"implement", "code", "edit", "fix", "quick", "fast"}
ReviewSeed == {"review", "verify", "code"}
CompetitiveSeeds ==
  <<{"fast", "quick"}, {"reason", "analy"}, {"code", "implement", "build"}, {"review", "fix"}, {}>>

ArchitectEditor(d, architect, editor) ==
  << Preferred(Recommend(reg, d \cup ArchitectSeed), architect, d \cup ArchitectSeed),
     Preferred(Recommend(reg, d \cup EditorSeed), editor, d \cup EditorSeed) >>

\* Up to n lanes that differ in host or model.
Competitive(d, n) ==
  LET lane(i) == Routed(Recommend(reg, d \cup CompetitiveSeeds[i]))
      kept == Only([i \in 1 .. n |-> i], LAMBDA i : \A j \in 1 .. i - 1 : lane(j) # lane(i))
  IN  [i \in DOMAIN kept |-> lane(kept[i])]

-----------------------------------------------------------------------------

\* Mutant of Eligible: the author's model is as good as any.
Eligible_Any(h, author) == Own(h)

\* Models of the host that the review may run on.
Eligible(h, author) == Only(Own(h), LAMBDA m : m.name # author)

\* Lanes with another model, off the author's host if there are any.
Reviewers(author, host) ==
  LET lanes == Only(RoutableLanes(reg),
                    LAMBDA l : l.host.usable /\ Eligible(l.host, author) # <<>>)
  IN  Preferring(lanes, LAMBDA l : l.host.id # host)

ReviewModel(h, d, author) ==
  LET names == {m.name : m \in Range(Eligible(h, author))}
      usual == ChooseModel(h, d)
  IN  IF usual \in names THEN usual ELSE Eligible(h, author)[1].name

\* routeReview: one lane, and what the reply says of it.
Review(d, author, host) ==
  LET task == d \cup ReviewSeed
      plain == Routed(Recommend(reg, task))
      lanes == Reviewers(author, host)
  IN  IF author = NoModel /\ host = NoHost THEN [lane |-> plain, diversity |-> "unknown-author"]
      ELSE IF lanes = <<>> THEN [lane |-> plain, diversity |-> "same-model"]
      ELSE LET host1 == BestFirst(lanes)[1].host IN
           [lane |-> [host |-> host1, model |-> ReviewModel(host1, task, author)],
            diversity |-> IF author = NoModel THEN "unknown-author" ELSE "distinct"]

-----------------------------------------------------------------------------

RouteTask ==
  \E d \in Descriptions :
    reply' = [mode |-> "default", lanes |-> <<Routed(Recommend(reg, d))>>]

RouteArchitectEditor ==
  \E d \in Descriptions, architect, editor \in NamedHosts :
    reply' = [mode |-> "architect-editor", lanes |-> ArchitectEditor(d, architect, editor)]

RouteCompetitive ==
  \E d \in Descriptions, n \in 2 .. Len(CompetitiveSeeds) :
    reply' = [mode |-> "competitive", lanes |-> Competitive(d, n)]

RouteReview ==
  \E d \in Descriptions, author \in Authors, host \in NamedHosts :
    LET review == Review(d, author, host)
    IN  reply' = [mode |-> "review", lanes |-> <<review.lane>>, diversity |-> review.diversity,
                  author |-> author, authorHost |-> host]

ModesStep ==
  /\ RouteTask \/ RouteArchitectEditor \/ RouteCompetitive \/ RouteReview
  /\ UNCHANGED reg

-----------------------------------------------------------------------------
(* Properties *)

\* The host is one that a tier open to the server lists, the cloud tier only with the opt-in, and
\* the model is not one that a local runtime forwards to a hosted service.
StaysHome(lane) ==
  lane.host # NoHost =>
    /\ \E x \in Range(reg.tiers) :
         (x.id = CloudTier => reg.optIn) /\ \E h \in Range(x.hosts) : h.id = lane.host.id
    /\ lane.model \notin Proxied

\* The lanes off the author's host, or all of them, that could review with another model.
Others(author) ==
  {l \in Range(RoutableLanes(reg)) :
     /\ l.host.usable
     /\ \E m \in Range(l.host.models) : m.name \notin Proxied \cup {NoModel, author}}

\* A review reported as diverse runs on a usable lane with another model, and off the author's
\* host when some lane allows that; one reported as running on the author's model has no
\* alternative: the reply never hides a reviewer with other blind spots.
ReviewIsDiverse ==
  (reply.mode = "review" /\ reply.author # NoModel) =>
    LET lane == reply.lanes[1] IN
      \/ /\ reply.diversity = "distinct"
         /\ lane.model # reply.author /\ lane.host \in {l.host : l \in Others(reply.author)}
         /\ lane.host.id = reply.authorHost =>
              \A l \in Others(reply.author) : l.host.id = reply.authorHost
      \/ reply.diversity = "same-model" /\ Others(reply.author) = {}
==============================================================================
