--------------------------- MODULE RouteSchedule ---------------------------
(***************************************************************************)
(* route_parallel_tasks: the slices of a decomposed task are given hosts   *)
(* one after the other, each to the host of its tier with the least load   *)
(* for its capacity (routeParallelTasks, routing_selection_runtime.ts).    *)
(* Of the edged form, the dependency waves are WavePlan's; a slice with a  *)
(* cell is a hypothesis, one of several that are to differ, and its id is  *)
(* its position.                                                           *)
(***************************************************************************)
EXTENDS RouteSelection

CONSTANTS
  Slices,     \* [task, cell]: what a call may ask for; a cell has a family and a key
  NoCell,     \* of an ordinary slice
  MaxRequested  \* bound: slices in one call

ASSUME SlicesAssumption == \A s \in Slices : s.task \subseteq STRING /\ IsFiniteSet(s.task)

VARIABLES
  slices,  \* the slices of the call; <<>> before it
  placed   \* assignments, the slice at each position

scheduleVars == <<slices, placed>>

ScheduleInit == slices = <<>> /\ placed = <<>>

\* Hosts of a tier that may be used for a task; those of a blocked cloud tier are not listed.
Open(d, t) ==
  Only(TierOf(reg, t).hosts, LAMBDA h : h.usable /\ (t = CloudTier => reg.optIn) /\ AllowedFor(h, d))

\* hostLoad: the slices a host has been given.
Load(h) == Cardinality({i \in DOMAIN placed : placed[i].host = h})

\* Mutant of PreferredTier: the cloud tier competes although it is blocked.
PreferredTier_CloudToo(d) ==
  LET best == Ranked(ScoredTiers(reg), LAMBDA t : TierScore(reg, d, t))[1]
  IN  IF TierScore(reg, d, best) > 0 THEN best ELSE FirstOr(RoutableTiers(reg), NoTier)

\* The filter and the sort of route_task, written a second time.
PreferredTier(d) ==
  LET open == Only(ScoredTiers(reg), LAMBDA t : reg.optIn \/ t # CloudTier)
      best == Ranked(open, LAMBDA t : TierScore(reg, d, t))[1]
  IN  IF TierScore(reg, d, best) > 0 THEN best ELSE FirstOr(RoutableTiers(reg), NoTier)

\* The hosts the slice may go to: those of the first tier that has any.
Candidates(d) ==
  LET first == PreferredTier(d)
      tiers == <<first>> \o Only(RoutableTiers(reg), LAMBDA t : t # first)
  IN  Open(d, FirstOr(Only(tiers, LAMBDA t : Open(d, t) # <<>>), first))

\* g comes before h: less load for its capacity, or as much and the better host.
Leads(g, h) ==
  \/ Load(g) * Capacity(h) < Load(h) * Capacity(g)
  \/ Load(g) * Capacity(h) = Load(h) * Capacity(g) /\ Score(g) > Score(h)

\* The first in a stable sort: of two hosts neither of which leads, the one listed first.
Chosen(hosts) ==
  FirstOr(Along(hosts, DOMAIN hosts,
                {p \in (DOMAIN hosts) \X (DOMAIN hosts) :
                   LET g == hosts[p[1]]
                       h == hosts[p[2]]
                   IN  Leads(g, h) \/ (~Leads(h, g) /\ p[1] < p[2])}),
          NoHost)

-----------------------------------------------------------------------------

NextSlice == slices[Len(placed) + 1].task

Submit ==
  /\ slices = <<>>
  /\ \E n \in 1 .. MaxRequested : slices' \in [1 .. n -> Slices]
  /\ UNCHANGED placed

\* The next slice, with its capacity wave and slot on the host.
Assign ==
  /\ Len(placed) < Len(slices)
  /\ LET host == Chosen(Candidates(NextSlice))
     IN  placed' = Append(placed,
           IF host = NoHost THEN [host |-> NoHost, model |-> NoModel, wave |-> 0, slot |-> 0]
           ELSE [host |-> host, model |-> ChooseModel(host, NextSlice),
                 wave |-> (Load(host) \div Capacity(host)) + 1,
                 slot |-> (Load(host) % Capacity(host)) + 1])
  /\ UNCHANGED slices

ScheduleStep == (Submit \/ Assign) /\ UNCHANGED <<reg, reply>>

-----------------------------------------------------------------------------
(* The cohort of hypotheses: allocateHypothesisCohort, asked after the      *)
(* assignments.  It looks at the cells only and reassigns nothing.          *)

\* Those slices, as they stand in the call.
Hypotheses == Only([i \in DOMAIN slices |-> i], LAMBDA i : slices[i].cell # NoCell)

SharingCell(S, i) == {j \in S : slices[j].cell = slices[i].cell}
SharingFamily(S, i) == {j \in S : slices[j].cell.family = slices[i].cell.family}

\* DEFAULT_QD_CAPS: one slice to a cell, and 0.34 of the hypotheses, rounded up, to a family;
\* that is one at least.
MaxSameCell == 1
MaxSameFamily == (34 * Len(Hypotheses) + 99) \div 100

\* Mutant of Admits: only the family is looked at.
Admits_AnyCell(admitted, i) == Cardinality(SharingFamily(admitted, i)) < MaxSameFamily

Admits(admitted, i) ==
  /\ Cardinality(SharingCell(admitted, i)) < MaxSameCell
  /\ Cardinality(SharingFamily(admitted, i)) < MaxSameFamily

\* The first to ask for a cell or a family gets it; the others are flagged.
Assigned ==
  LET admitted[k \in 0 .. Len(Hypotheses)] ==
        IF k = 0 THEN {}
        ELSE IF Admits(admitted[k - 1], Hypotheses[k]) THEN admitted[k - 1] \cup {Hypotheses[k]}
        ELSE admitted[k - 1]
  IN  admitted[Len(Hypotheses)]

Collisions == Range(Hypotheses) \ Assigned

-----------------------------------------------------------------------------
(* Properties *)

\* A caller that runs the unflagged hypotheses only runs plans that differ: no two share a cell,
\* and no family has more than its share of them all; and none is flagged without need, for
\* each flagged one repeats a cell of the cohort or a family that is full.
CohortIsDiverse ==
  /\ \A i \in Assigned : SharingCell(Assigned, i) = {i}
  /\ \A i \in Assigned : 100 * (Cardinality(SharingFamily(Assigned, i)) - 1) < 34 * Len(Hypotheses)
  /\ \A i \in Collisions :
       \/ SharingCell(Assigned, i) # {}
       \/ 100 * Cardinality(SharingFamily(Assigned, i)) >= 34 * Len(Hypotheses)

\* route_task and route_parallel_tasks are two selectors over one registry: a slice that finds
\* every host idle gets the host and model that route_task names for it.
SelectorsAgree ==
  placed # <<>> => [host |-> placed[1].host, model |-> placed[1].model] = Routed(Recommend(reg, slices[1].task))
==============================================================================
