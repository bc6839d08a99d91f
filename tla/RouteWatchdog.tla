--------------------------- MODULE RouteWatchdog ---------------------------
(***************************************************************************)
(* A route with liveness and failover lanes: the watchdog mode of          *)
(* route_task and the routes a supervisor session starts or fails over     *)
(* with (buildWatchdogRouteCandidates).  Endpoints are asked one by one,   *)
(* in no fixed order, and may change between two questions.                *)
(***************************************************************************)
EXTENDS RouteSchedule

CONSTANTS
  Endpoints,     \* what a dialled endpoint may answer: up, lists (its models), ps (what is loaded)
  NoAnswer,      \* of /api/ps
  NormalName,    \* a model's name without case and ":latest"
  MaxFallbacks,  \* the fallbacks a caller may ask for
  Banned         \* sets of <<host id, model>> whose breaker may be active

ASSUME FallbacksAssumption == MaxFallbacks \subseteq Nat

VARIABLES
  step,     \* "idle", "primary", "lanes", "done"
  ask,      \* the request
  primary,  \* its lane, and whether it answered
  probes,   \* the lanes probed in parallel, each waiting or answered
  offered   \* candidates of the answer

watchdogVars == <<step, ask, primary, probes, offered>>

NoPrimary == [lane |-> NoHost, model |-> NoModel, banned |-> FALSE, healthy |-> FALSE]

WatchdogInit ==
  /\ step = "idle" /\ ask = <<>> /\ primary = NoPrimary /\ probes = <<>> /\ offered = <<>>

-----------------------------------------------------------------------------
(* What the endpoints tell (routing_endpoint_runtime.ts) *)

\* Neither marked unusable nor outside its declared network scope.
Dialled(h) == h.usable /\ h.inScope

\* Every failure of a ping or of a list request (status, timeout, malformed answer) is the same.
Pings(h, e) == Dialled(h) /\ e.up
Catalog(h, e) == IF e.lists # {} THEN e.lists ELSE {m.name : m \in Range(Entries(h))}

\* checkHostModelHealth: names are compared as they are.
Health(h, model, e) ==
  [healthy |-> Pings(h, e),
   available |-> Pings(h, e) /\ (IF model = NoModel THEN Catalog(h, e) # {} ELSE model \in Catalog(h, e))]

\* fetchResidentModels: no answer when the host cannot be asked.
Resident(h, e) == IF h.inspects /\ h.inScope THEN e.ps ELSE NoAnswer

Residency(resident, model) ==
  IF resident = NoAnswer THEN "unknown"
  ELSE IF model # NoModel /\ NormalName[model] \in {NormalName[n] : n \in resident.names} THEN "warm"
  ELSE "cold"

\* computeHostMemoryPressure, times 100: the resident weights and 3 GB for each, plus 2 GB,
\* against what the reserve leaves.  Without reported VRAM nothing is known.
Overload(h, resident) ==
  /\ resident # NoAnswer /\ h.vram > 0
  /\ 100 * (resident.gb + 3 * Cardinality(resident.names) + 2) > h.vram * (100 - h.reserve)

-----------------------------------------------------------------------------
(* The ranking *)

Bonus == 2 * Point
Penalty == 2 * Point

Adjustment(p) ==
  (IF p.residency = "warm" THEN Bonus ELSE 0) - (IF p.overload THEN Penalty ELSE 0)

RankedProbes == Ranked(probes, LAMBDA p : Score(p.lane.host) + Adjustment(p))

Serves(p) == p.health.healthy /\ p.health.available

-----------------------------------------------------------------------------
(* The request *)

\* The lanes to ask besides the primary: usable hosts of routable tiers, the best twice as many as
\* fallbacks are wanted.  A banned lane takes a place but is not dialled; a banned primary competes.
Fallbacks(request, first) ==
  LET open == Only(RoutableLanes(reg),
                LAMBDA l : l.host.usable /\ (first.banned \/ l.host.id # first.lane.host.id))
      best == BestFirst(open)
      asked == SubSeq(best, 1, Min({Len(best), 2 * request.max}))
      Probe(l) ==
        LET model == ChooseModel(l.host, request.task)
            banned == <<l.host.id, model>> \in request.banned
        IN  [lane |-> l, model |-> model, state |-> IF banned THEN "answered" ELSE "health",
             health |-> [healthy |-> FALSE, available |-> FALSE],
             residency |-> "unknown", overload |-> FALSE]
  IN  [i \in DOMAIN asked |-> Probe(asked[i])]

\* The lane the caller names, or the routed one.
LaneFor(request, base) ==
  IF request.named # NoHost THEN FindHost(reg, request.named)
  ELSE IF base.host # NoHost THEN FindHost(reg, base.host.id) ELSE NoHost

\* Its model is the caller's, or else the routed one's even when the caller named the host.
First(request, base, lane) ==
  LET model == IF request.model # NoModel THEN request.model
               ELSE IF base.model # NoModel THEN base.model ELSE ChooseModel(lane.host, request.task)
  IN  IF lane = NoHost THEN NoPrimary
      ELSE [lane |-> lane, model |-> model, healthy |-> FALSE,
            banned |-> <<lane.host.id, model>> \in request.banned]

\* No lane, no answer; a banned one is not asked.
Begins(request, first) ==
  /\ ask' = request /\ primary' = first
  /\ \/ first.lane = NoHost /\ step' = "done" /\ probes' = <<>>
     \/ first.lane # NoHost /\ first.banned /\ step' = "lanes" /\ probes' = Fallbacks(request, first)
     \/ first.lane # NoHost /\ ~first.banned /\ step' = "primary" /\ probes' = <<>>

Routes(request, base) == Begins(request, First(request, base, LaneFor(request, base)))

AskWatchdog ==
  /\ step = "idle"
  /\ \E d \in Descriptions, id \in NamedHosts, model \in Authors, n \in MaxFallbacks, banned \in Banned :
       Routes([task |-> d, named |-> id, model |-> model, max |-> n, banned |-> banned], Recommend(reg, d))
  /\ UNCHANGED offered

PrimaryAnswers ==
  /\ step = "primary"
  /\ \E e \in Endpoints :
       LET health == Health(primary.lane.host, primary.model, e)
       IN  primary' = [primary EXCEPT !.healthy = health.healthy /\ health.available]
  /\ probes' = Fallbacks(ask, primary)
  /\ step' = "lanes"
  /\ UNCHANGED <<ask, offered>>

\* Only a healthy lane is asked what it has loaded.
HealthAnswers(i) ==
  /\ step = "lanes" /\ probes[i].state = "health"
  /\ \E e \in Endpoints :
       LET health == Health(probes[i].lane.host, probes[i].model, e)
       IN  probes' = [probes EXCEPT ![i].health = health,
                                    ![i].state = IF health.healthy THEN "resident" ELSE "answered"]
  /\ UNCHANGED <<step, ask, primary, offered>>

ResidentAnswers(i) ==
  /\ step = "lanes" /\ probes[i].state = "resident"
  /\ \E e \in Endpoints :
       LET resident == Resident(probes[i].lane.host, e)
       IN  probes' = [probes EXCEPT ![i].state = "answered",
                                    ![i].residency = Residency(resident, probes[i].model),
                                    ![i].overload = Overload(probes[i].lane.host, resident)]
  /\ UNCHANGED <<step, ask, primary, offered>>

\* All have answered: the best that serve, as many as were asked for.
Answer ==
  /\ step = "lanes"
  /\ \A i \in DOMAIN probes : probes[i].state = "answered"
  /\ LET serving == Only(RankedProbes, Serves)
     IN  offered' = SubSeq(serving, 1, Min({Len(serving), ask.max}))
  /\ step' = "done"
  /\ UNCHANGED <<ask, primary, probes>>

WatchdogStep ==
  /\ \/ AskWatchdog \/ PrimaryAnswers \/ Answer
     \/ \E i \in DOMAIN probes : HealthAnswers(i) \/ ResidentAnswers(i)
  /\ UNCHANGED <<reg, reply, scheduleVars>>

-----------------------------------------------------------------------------
(* The tools of the server: their calls share the registry only, which none of them changes. *)

RoutingInit == ModesInit /\ ScheduleInit /\ WatchdogInit

RoutingNext ==
  \/ ModesStep /\ UNCHANGED <<scheduleVars, watchdogVars>>
  \/ ScheduleStep /\ UNCHANGED watchdogVars
  \/ WatchdogStep

routingVars == <<reg, reply, scheduleVars, watchdogVars>>

RoutingSpec == RoutingInit /\ [][RoutingNext]_routingVars

-----------------------------------------------------------------------------
(* Properties *)

\* Without the opt-in no planner leaves the machines of the stack: none names a host that only
\* the cloud tier lists, and none picks a model that a local runtime only forwards to a hosted
\* service.  The primary host and model a watchdog caller names itself are the caller's choice.
CloudIsOptIn ==
  /\ \A i \in DOMAIN reply.lanes : StaysHome(reply.lanes[i])
  /\ \A i \in DOMAIN placed : StaysHome(placed[i])
  /\ \A i \in DOMAIN offered : StaysHome([host |-> offered[i].lane.host, model |-> offered[i].model])
  /\ (primary.lane # NoHost /\ ask.named = NoHost /\ ask.model = NoModel) =>
        StaysHome([host |-> primary.lane.host, model |-> primary.model])
==============================================================================
