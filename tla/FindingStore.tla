---------------------------- MODULE FindingStore ----------------------------
(***************************************************************************)
(* The evidence store (finding_runtime.ts, finding_tools.ts): findings are *)
(* sorted into lanes by a policy that treats the requested lane as a hint, *)
(* and gathered in generations that are closed at a boundary.  A finding's *)
(* id is its place in the order of recording; the server draws ids at      *)
(* random, and the order is the one Object.values gives.  Every tool runs  *)
(* under the store's lock and writes the whole document: one action each.  *)
(***************************************************************************)
EXTENDS Naturals, Sequences, FiniteSets

CONSTANTS
  Tasks, Generations,       \* ids
  None,                     \* an optional field that is absent
  Unrecorded,               \* a finding id nobody recorded
  Drafts,                   \* requests of finding_record: a subset of Draft
  MaxFindings               \* bound: findings recorded

Lanes == {"confirmed", "incubator", "diagnostic"}
Outcomes == {"pass", "fail", "could_not_run", "denied"}

\* source: how the attempt ended (FAILED_SOURCE_STATUSES stands as "failed").
\* measure: "unknown" is a metric without direction, a value or baseline nobody measured.
\* surface: whether a mechanism contract targets the verifier itself.
Draft ==
  [kind : {"result", "canary", "mechanism_contract"}, requested : Lanes \cup {None},
   source : {"finished", "force_synthesized", "failed"}, measure : {"known", "unknown"},
   parent : BOOLEAN \cup {None}, task : Tasks \cup {None},
   generation : Generations \cup {None}, outcome : Outcomes \cup {None},
   surface : {"allowed", "forbidden"}]

ASSUME DraftsAssumption ==
  /\ Drafts \subseteq Draft /\ MaxFindings \in Nat
  /\ None \notin BOOLEAN /\ None \notin Generations /\ None \notin Lanes /\ None \notin Outcomes

Finding ==
  [kind : {"result", "canary", "mechanism_contract"}, source : {"finished", "force_synthesized", "failed"},
   lane : Lanes, role : {"canonical_state", "validation_signal", "audit_snapshot", "partial_output"},
   parent : BOOLEAN, task : Tasks \cup {None}, generation : Generations \cup {None},
   outcome : Outcomes \cup {None}]

Generation ==
  [status : {"open", "closed"}, cohort : SUBSET Tasks, members : SUBSET (Nat \cup {Unrecorded}),
   late : SUBSET Nat, canary : Nat \cup {None, Unrecorded}, gated : SUBSET Tasks]

VARIABLES
  findings,       \* the store's findings, in order
  generations     \* a function from the ids opened so far; gated is history

vars == <<findings, generations>>

Init == findings = <<>> /\ generations = [g \in {} |-> None]

-----------------------------------------------------------------------------
(* Lane policy *)

Lane(lane, role, parent) == [lane |-> lane, role |-> role, parent |-> parent]

\* The requested lane; the default is the incubator.
Requested(d) ==
  CASE d.requested = "confirmed" -> Lane("confirmed", "canonical_state", d.parent # FALSE)
    [] d.requested = "diagnostic" -> Lane("diagnostic", "validation_signal", FALSE)
    [] d.requested \in {"incubator", None} -> Lane("incubator", "canonical_state", d.parent = TRUE)

\* assignLane: the requested lane is looked at only when nothing above it decides.
AssignLane(d, late) ==
  CASE d.kind = "canary" -> Lane("diagnostic", "validation_signal", FALSE)
    [] d.kind = "mechanism_contract" -> Lane("diagnostic", "audit_snapshot", FALSE)
    [] d.kind = "result" /\ d.source = "force_synthesized" -> Lane("incubator", "partial_output", FALSE)
    [] d.kind = "result" /\ d.source = "failed" -> Lane("diagnostic", "validation_signal", FALSE)
    [] d.kind = "result" /\ d.source = "finished" ->
         IF late
           THEN Lane(IF d.requested = "diagnostic" THEN "diagnostic" ELSE "incubator",
                     "validation_signal", FALSE)
         ELSE IF d.measure = "unknown" THEN Lane("incubator", "canonical_state", FALSE)
         ELSE Requested(d)

IsLate(d) == d.generation \in DOMAIN generations /\ generations[d.generation].status = "closed"

\* Mutant of Materialized: the lane given before the boundary was looked at is kept.
Materialized_OnTime(d) ==
  LET a == AssignLane(d, FALSE)
  IN  [kind |-> d.kind, source |-> d.source, lane |-> a.lane, role |-> a.role, parent |-> a.parent,
       task |-> d.task, generation |-> d.generation, outcome |-> d.outcome]

\* materializeFinding, and the second assignment of ingestFinding for a late one.
Materialized(d) ==
  LET a == AssignLane(d, IsLate(d))
  IN  [kind |-> d.kind, source |-> d.source, lane |-> a.lane, role |-> a.role, parent |-> a.parent,
       task |-> d.task, generation |-> d.generation, outcome |-> d.outcome]

\* Mutant of Filed: a late finding enters the closed generation.
Filed_Always(g, id, late) == [g EXCEPT !.members = @ \cup {id}]

Filed(g, id, late) ==
  IF late THEN [g EXCEPT !.late = @ \cup {id}] ELSE [g EXCEPT !.members = @ \cup {id}]

\* ingestFinding.
Ingest(d) ==
  LET id == Len(findings) + 1
  IN  /\ findings' = Append(findings, Materialized(d))
      /\ generations' =
           IF d.generation \in DOMAIN generations
             THEN [generations EXCEPT ![d.generation] = Filed(@, id, IsLate(d))]
             ELSE generations

-----------------------------------------------------------------------------
(* Tools *)

\* finding_record; it refuses a canary without outcome and a forbidden mechanism surface.
\* A generation's id is drawn at random when it is opened, so nobody can name it before;
\* a name that is nobody's has the effect of None.
Record(d) ==
  /\ Len(findings) < MaxFindings
  /\ d.generation \in DOMAIN generations \cup {None}
  /\ ~(d.kind = "mechanism_contract" /\ d.surface = "forbidden")
  /\ ~(d.kind = "canary" /\ d.outcome = None)
  /\ Ingest(d)

Salvage(t) ==
  [kind |-> "result", requested |-> "confirmed", source |-> "force_synthesized", measure |-> "known",
   parent |-> None, task |-> t, generation |-> None, outcome |-> None, surface |-> "allowed"]

\* persistForceSynthesisFindings for one linked task, or for none.  (More tasks add more
\* findings of this form in the same write; a write that fails leaves the store as it was.)
ForceSynthesis(t) ==
  /\ Len(findings) < MaxFindings
  /\ Ingest(Salvage(t))

CanariesOf(t) == {i \in DOMAIN findings : findings[i].kind = "canary" /\ findings[i].task = t}

\* Mutant of CanaryOf: the first canary of a task decides.
CanaryOf_First(t) == CHOOSE i \in CanariesOf(t) : \A j \in CanariesOf(t) : i <= j

\* byTask of evaluateGenerationCanary: the last canary recorded for a task decides.
CanaryOf(t) == CHOOSE i \in CanariesOf(t) : \A j \in CanariesOf(t) : j <= i

\* evaluateGenerationCanary: a failing canary is a measured baseline, one that could
\* not run is not.
CanaryReady(gated) ==
  \A t \in gated :
     CanariesOf(t) # {} /\ findings[CanaryOf(t)].outcome \notin {"could_not_run", "denied"}

\* openGeneration: the canary is a member from the start.
Opened(cohort, gated, canary) ==
  [status |-> "open", cohort |-> cohort, late |-> {}, canary |-> canary,
   members |-> IF canary = None THEN {} ELSE {canary}, gated |-> gated]

\* generation_open.  gated: the cohort's tasks whose goal contract has a command, as the
\* task store holds them at this moment.  The canary id of the request is not looked up.
Open(g, cohort, gated, canary) ==
  /\ g \notin DOMAIN generations
  /\ CanaryReady(gated)
  /\ generations' = [h \in DOMAIN generations \cup {g} |->
                        IF h = g THEN Opened(cohort, gated, canary) ELSE generations[h]]
  /\ UNCHANGED findings

\* closeGeneration: a generation that is missing or closed already is refused.
MayClose(g) == g \in DOMAIN generations /\ generations[g].status = "open"

\* generation_close.
Close(g) ==
  /\ MayClose(g)
  /\ generations' = [generations EXCEPT ![g].status = "closed"]
  /\ UNCHANGED findings

Next ==
  \/ \E d \in Drafts : Record(d)
  \/ \E t \in Tasks \cup {None} : ForceSynthesis(t)
  \/ \E g \in Generations, cohort \in SUBSET Tasks : \E gated \in SUBSET cohort :
       \E canary \in DOMAIN findings \cup {None, Unrecorded} : Open(g, cohort, gated, canary)
  \/ \E g \in Generations : Close(g)

Spec == Init /\ [][Next]_vars

-----------------------------------------------------------------------------
(* Properties *)

\* Every finding and generation is well formed.
TypeOK ==
  /\ findings \in Seq(Finding)
  /\ DOMAIN generations \subseteq Generations
  /\ \A g \in DOMAIN generations : generations[g] \in Generation

\* "A high number in diagnostic is still a diagnostic, and a force-synthesized salvage
\* never becomes confirmed": what may be a parent finished normally, and was filed with
\* its generation before the boundary, in whatever order records and boundaries came.
ParentageIsEarned ==
  \A i \in DOMAIN findings :
     LET f == findings[i] IN
       /\ f.parent => f.source = "finished" /\ f.lane # "diagnostic"
       /\ f.lane = "confirmed" => f.kind = "result" /\ f.source = "finished"
       /\ (f.parent \/ f.lane = "confirmed") /\ f.generation \in DOMAIN generations =>
            i \in generations[f.generation].members \ generations[f.generation].late

\* "Commit a generation": records that come later stay visible beside it, but no call
\* rewrites its membership, and none reopens it.
CommittedIsFrozen ==
  [][\A g \in DOMAIN generations : generations[g].status = "closed" =>
        /\ generations'[g] = [generations[g] EXCEPT !.late = generations'[g].late]
        /\ generations[g].late \subseteq generations'[g].late]_vars

\* Fan-out starts only from a measured tree: for each task with a command, no canary that
\* could not run is newer than the last one that ran.
FanOutIsMeasured ==
  [][\A g \in DOMAIN generations' \ DOMAIN generations : \A t \in generations'[g].gated :
        \E i \in CanariesOf(t) :
           /\ findings[i].outcome \in {"pass", "fail"}
           /\ \A j \in CanariesOf(t) : j > i => findings[j].outcome \in {"pass", "fail"}]_vars
=============================================================================
