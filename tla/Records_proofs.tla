--------------------------- MODULE Records_proofs ---------------------------
(***************************************************************************)
(* What the records promise, for any number of findings, notes and log     *)
(* records and any order of the calls that write them: the lane policy and *)
(* the boundary of generations, the notes of an agent's memory and the     *)
(* gate that compares them, the lines of the telemetry log.                *)
(***************************************************************************)
EXTENDS FindingStore, AgentMemory, LogWorker,
        FiniteSetTheorems, SequenceTheorems, WellFoundedInduction, TLAPS

-----------------------------------------------------------------------------
(* Lane policy *)

Roles == {"canonical_state", "validation_signal", "audit_snapshot", "partial_output"}

\* What a request may be given: only a result that finished in time may be a parent or
\* be confirmed.
Sound(a, d, late) ==
  /\ a.lane \in Lanes /\ a.role \in Roles /\ a.parent \in BOOLEAN
  /\ a.parent => d.source = "finished" /\ d.kind = "result" /\ a.lane # "diagnostic" /\ ~late
  /\ a.lane = "confirmed" => d.source = "finished" /\ d.kind = "result" /\ ~late

LEMMA LaneFields ==
  ASSUME NEW lane, NEW role, NEW parent
  PROVE  /\ Lane(lane, role, parent).lane = lane
         /\ Lane(lane, role, parent).role = role
         /\ Lane(lane, role, parent).parent = parent
BY DEF Lane

LEMMA LaneSound ==
  ASSUME NEW d, NEW late, NEW lane \in Lanes, NEW role \in Roles, NEW parent \in BOOLEAN,
         parent \/ lane = "confirmed" => d.source = "finished" /\ d.kind = "result" /\ ~late,
         parent => lane # "diagnostic"
  PROVE  Sound(Lane(lane, role, parent), d, late)
<1> DEFINE a == Lane(lane, role, parent)
<1>1. a.lane = lane /\ a.role = role /\ a.parent = parent
  BY LaneFields
<1> HIDE DEF a
<1>2. Sound(a, d, late)
  BY <1>1, Zenon DEF Sound
<1> QED
  BY <1>2 DEF a

\* assignLane decides soundly, whatever is asked for.
LEMMA LanePolicy ==
  ASSUME NEW d \in Draft, NEW late \in BOOLEAN
  PROVE  Sound(AssignLane(d, late), d, late)
<1>1. d.kind \in {"result", "canary", "mechanism_contract"} /\ d.source \in {"finished", "force_synthesized", "failed"}
  BY DEF Draft
<1>2. CASE d.kind # "result" \/ d.source # "finished" \/ late \/ d.measure = "unknown"
  <2>1. \E lane \in Lanes \ {"confirmed"}, role \in Roles, parent \in BOOLEAN :
          ~parent /\ AssignLane(d, late) = Lane(lane, role, parent)
    BY <1>1, <1>2 DEF AssignLane, Lanes, Roles
  <2> QED
    BY <2>1, LaneSound
<1>3. CASE d.kind = "result" /\ d.source = "finished" /\ ~late /\ d.measure # "unknown"
  <2>1. AssignLane(d, late) = Requested(d)
    BY <1>3 DEF AssignLane
  <2>2. d.requested \in {"confirmed", "incubator", "diagnostic", None}
    BY DEF Draft, Lanes
  <2>3. \E lane \in Lanes, role \in Roles, parent \in BOOLEAN :
          (parent => lane # "diagnostic") /\ Requested(d) = Lane(lane, role, parent)
    BY <2>2, DraftsAssumption DEF Requested, Lanes, Roles
  <2> QED
    BY <1>3, <2>1, <2>3, LaneSound
<1> QED
  BY <1>2, <1>3

LEMMA MaterializedSound ==
  ASSUME NEW d \in Draft
  PROVE  /\ Materialized(d) \in Finding
         /\ Materialized(d).kind = d.kind /\ Materialized(d).source = d.source
         /\ Materialized(d).task = d.task /\ Materialized(d).generation = d.generation
         /\ Materialized(d).outcome = d.outcome
         /\ Sound(Materialized(d), d, IsLate(d))
<1> DEFINE a == AssignLane(d, IsLate(d))
<1>1. IsLate(d) \in BOOLEAN
  BY DEF IsLate
<1>2. Sound(a, d, IsLate(d))
  BY <1>1, LanePolicy
<1>3. Materialized(d) =
        [kind |-> d.kind, source |-> d.source, lane |-> a.lane, role |-> a.role, parent |-> a.parent,
         task |-> d.task, generation |-> d.generation, outcome |-> d.outcome]
  BY DEF Materialized
<1> HIDE DEF a
<1>4. /\ d.kind \in {"result", "canary", "mechanism_contract"}
      /\ d.source \in {"finished", "force_synthesized", "failed"}
      /\ d.task \in Tasks \cup {None} /\ d.generation \in Generations \cup {None}
      /\ d.outcome \in Outcomes \cup {None}
  BY DEF Draft
<1>5. a.lane \in Lanes /\ a.role \in Roles /\ a.parent \in BOOLEAN
  BY <1>2, Zenon DEF Sound
<1>6. Materialized(d) \in Finding
  BY <1>3, <1>4, <1>5 DEF Finding, Roles
<1>7. /\ Materialized(d).lane = a.lane /\ Materialized(d).role = a.role
      /\ Materialized(d).parent = a.parent
  BY <1>3
<1>8. Sound(Materialized(d), d, IsLate(d))
  BY <1>2, <1>7, Zenon DEF Sound
<1> QED
  BY <1>3, <1>6, <1>8

-----------------------------------------------------------------------------
(* The store *)

\* A finding names a generation that exists, or none.
Dated == \A i \in DOMAIN findings : findings[i].generation \in DOMAIN generations \cup {None}

\* Late findings are recorded ones.
LateKnown == \A g \in DOMAIN generations : generations[g].late \subseteq DOMAIN findings

\* A recorded canary has an outcome.
CanariesRan == \A i \in DOMAIN findings : findings[i].kind = "canary" => findings[i].outcome # None

IInv == TypeOK /\ Dated /\ LateKnown /\ CanariesRan /\ ParentageIsEarned

LEMMA InitHolds == Init => IInv
<1> SUFFICES ASSUME Init PROVE IInv
  OBVIOUS
<1>1. findings = <<>> /\ DOMAIN generations = {}
  BY DEF Init
<1>2. DOMAIN findings = {} /\ findings \in Seq(Finding)
  BY <1>1
<1> QED
  BY <1>1, <1>2, Zenon DEF IInv, TypeOK, Dated, LateKnown, CanariesRan, ParentageIsEarned

\* What one more finding does to the document.
LEMMA IngestStep ==
  ASSUME TypeOK, NEW d \in Draft, Ingest(d)
  PROVE  /\ findings' \in Seq(Finding)
         /\ DOMAIN findings = 1 .. Len(findings) /\ DOMAIN findings' = DOMAIN findings \cup {Len(findings) + 1}
         /\ \A i \in DOMAIN findings : findings'[i] = findings[i]
         /\ findings'[Len(findings) + 1] = Materialized(d)
         /\ DOMAIN generations' = DOMAIN generations
         /\ \A g \in DOMAIN generations : g # d.generation => generations'[g] = generations[g]
         /\ \A g \in DOMAIN generations : g = d.generation =>
              generations'[g] = Filed(generations[g], Len(findings) + 1, IsLate(d))
<1>1. findings \in Seq(Finding) /\ Materialized(d) \in Finding
  BY MaterializedSound DEF TypeOK
<1>2. findings' = Append(findings, Materialized(d))
  BY DEF Ingest
<1>3. /\ findings' \in Seq(Finding) /\ Len(findings') = Len(findings) + 1
      /\ \A i \in 1 .. Len(findings) : findings'[i] = findings[i]
      /\ findings'[Len(findings) + 1] = Materialized(d)
  BY <1>1, <1>2, AppendProperties
<1>4. DOMAIN findings = 1 .. Len(findings) /\ DOMAIN findings' = 1 .. Len(findings) + 1 /\ Len(findings) \in Nat
  BY <1>1, <1>3
<1>5. DOMAIN findings' = DOMAIN findings \cup {Len(findings) + 1}
  BY <1>4
<1>6. /\ DOMAIN generations' = DOMAIN generations
      /\ \A g \in DOMAIN generations : g # d.generation => generations'[g] = generations[g]
      /\ \A g \in DOMAIN generations : g = d.generation =>
           generations'[g] = Filed(generations[g], Len(findings) + 1, IsLate(d))
  <2> DEFINE filed == Filed(generations[d.generation], Len(findings) + 1, IsLate(d))
  <2>1. generations' = IF d.generation \in DOMAIN generations
                         THEN [generations EXCEPT ![d.generation] = filed] ELSE generations
    BY Zenon DEF Ingest
  <2> HIDE DEF filed
  <2>2. CASE d.generation \in DOMAIN generations
    <3>1. generations' = [generations EXCEPT ![d.generation] = filed]
      BY <2>1, <2>2
    <3>2. DOMAIN generations' = DOMAIN generations /\ generations'[d.generation] = filed
      BY <2>2, <3>1
    <3> QED
      BY <3>1, <3>2 DEF filed
  <2>3. CASE d.generation \notin DOMAIN generations
    BY <2>1, <2>3
  <2> QED
    BY <2>2, <2>3
<1> QED
  BY <1>3, <1>4, <1>5, <1>6

LEMMA FiledFields ==
  ASSUME NEW g \in Generation, NEW id \in Nat, NEW late \in BOOLEAN
  PROVE  /\ Filed(g, id, late) \in Generation /\ Filed(g, id, late).status = g.status
         /\ late => Filed(g, id, late) = [g EXCEPT !.late = @ \cup {id}]
                    /\ Filed(g, id, late).members = g.members /\ Filed(g, id, late).late = g.late \cup {id}
         /\ ~late => Filed(g, id, late).members = g.members \cup {id} /\ Filed(g, id, late).late = g.late
BY DEF Filed, Generation

LEMMA IngestKeeps ==
  ASSUME IInv, NEW d \in Draft, Ingest(d),
         d.generation \in DOMAIN generations \cup {None}, d.kind = "canary" => d.outcome # None
  PROVE  IInv'
<1> DEFINE id == Len(findings) + 1
           f == Materialized(d)
<1>1. TypeOK /\ IsLate(d) \in BOOLEAN
  BY DEF IInv, IsLate
<1>2. /\ findings' \in Seq(Finding)
      /\ DOMAIN findings = 1 .. Len(findings) /\ DOMAIN findings' = DOMAIN findings \cup {id}
      /\ \A i \in DOMAIN findings : findings'[i] = findings[i]
      /\ findings'[id] = f
      /\ DOMAIN generations' = DOMAIN generations
      /\ \A g \in DOMAIN generations : g # d.generation => generations'[g] = generations[g]
      /\ \A g \in DOMAIN generations : g = d.generation => generations'[g] = Filed(generations[g], id, IsLate(d))
  BY <1>1, IngestStep
<1>3. /\ f \in Finding /\ f.kind = d.kind /\ f.source = d.source /\ f.generation = d.generation
      /\ f.outcome = d.outcome /\ Sound(f, d, IsLate(d))
  BY MaterializedSound
<1>4. Len(findings) \in Nat /\ id \in Nat /\ id \notin DOMAIN findings
  BY <1>1, <1>2 DEF TypeOK
<1>5. \A g \in DOMAIN generations : generations[g] \in Generation
  BY <1>1 DEF TypeOK
<1> HIDE DEF id, f
<1>6. TypeOK'
  <2>1. \A g \in DOMAIN generations : generations'[g] \in Generation
    BY <1>1, <1>2, <1>4, <1>5, FiledFields
  <2> QED
    BY <1>1, <1>2, <2>1 DEF TypeOK
<1>7. Dated' /\ CanariesRan'
  BY <1>2, <1>3 DEF IInv, Dated, CanariesRan
<1>8. \A g \in DOMAIN generations :
        /\ generations'[g].late \subseteq generations[g].late \cup {id}
        /\ generations[g].members \subseteq generations'[g].members
  BY <1>1, <1>2, <1>4, <1>5, FiledFields
<1>9. LateKnown'
  BY <1>2, <1>8 DEF IInv, LateKnown
<1>10. ParentageIsEarned'
  <2> SUFFICES ASSUME NEW i \in DOMAIN findings'
               PROVE  LET e == findings'[i] IN
                        /\ e.parent => e.source = "finished" /\ e.lane # "diagnostic"
                        /\ e.lane = "confirmed" => e.kind = "result" /\ e.source = "finished"
                        /\ (e.parent \/ e.lane = "confirmed") /\ e.generation \in DOMAIN generations' =>
                             i \in generations'[e.generation].members \ generations'[e.generation].late
    BY DEF ParentageIsEarned
  <2>1. CASE i \in DOMAIN findings
    <3>1. i # id
      BY <1>4, <2>1
    <3> QED
      BY <1>2, <1>8, <2>1, <3>1 DEF IInv, ParentageIsEarned
  <2>2. CASE i = id
    <3>1. ASSUME f.parent \/ f.lane = "confirmed", f.generation \in DOMAIN generations
          PROVE  id \in generations'[f.generation].members \ generations'[f.generation].late
      <4>1. ~IsLate(d)
        BY <1>3, <3>1, Zenon DEF Sound
      <4>2. generations'[f.generation] = Filed(generations[f.generation], id, IsLate(d))
        BY <1>2, <1>3, <3>1
      <4>3. id \notin generations[f.generation].late
        BY <1>4, <3>1 DEF IInv, LateKnown
      <4> QED
        BY <1>1, <1>4, <1>5, <3>1, <4>1, <4>2, <4>3, FiledFields
    <3>2. /\ f.parent => f.source = "finished" /\ f.lane # "diagnostic"
          /\ f.lane = "confirmed" => f.kind = "result" /\ f.source = "finished"
      BY <1>3, Zenon DEF Sound
    <3> QED
      BY <1>2, <2>2, <3>1, <3>2, Zenon
  <2> QED
    BY <1>2, <2>1, <2>2
<1> QED
  BY <1>6, <1>7, <1>9, <1>10 DEF IInv

LEMMA OpenKeeps ==
  ASSUME IInv, NEW g \in Generations, NEW cohort \in SUBSET Tasks, NEW gated \in SUBSET cohort,
         NEW canary \in DOMAIN findings \cup {None, Unrecorded}, Open(g, cohort, gated, canary)
  PROVE  IInv'
<1>1. /\ g \notin DOMAIN generations /\ findings' = findings
      /\ DOMAIN generations' = DOMAIN generations \cup {g}
      /\ generations'[g] = Opened(cohort, gated, canary)
      /\ \A h \in DOMAIN generations : generations'[h] = generations[h]
  BY DEF Open
<1>2. DOMAIN findings \subseteq Nat
  BY DEF IInv, TypeOK
<1>3. Opened(cohort, gated, canary) \in Generation /\ Opened(cohort, gated, canary).late = {}
  BY <1>2 DEF Opened, Generation
<1>4. TypeOK'
  BY <1>1, <1>3 DEF IInv, TypeOK
<1>5. Dated' /\ CanariesRan'
  BY <1>1 DEF IInv, Dated, CanariesRan
<1>6. LateKnown'
  BY <1>1, <1>3 DEF IInv, LateKnown
<1>7. \A i \in DOMAIN findings : findings[i].generation # g
  BY <1>1, DraftsAssumption DEF IInv, Dated
<1>8. ParentageIsEarned'
  BY <1>1, <1>7 DEF IInv, ParentageIsEarned
<1> QED
  BY <1>4, <1>5, <1>6, <1>8 DEF IInv

LEMMA CloseKeeps == ASSUME IInv, NEW g \in Generations, Close(g) PROVE IInv'
<1>1. /\ g \in DOMAIN generations /\ findings' = findings
      /\ DOMAIN generations' = DOMAIN generations
      /\ generations'[g] = [generations[g] EXCEPT !.status = "closed"]
      /\ \A h \in DOMAIN generations : h # g => generations'[h] = generations[h]
  BY DEF Close, MayClose
<1>2. \A h \in DOMAIN generations : generations[h] \in Generation
  BY DEF IInv, TypeOK
<1>3. \A h \in DOMAIN generations :
        /\ generations'[h] \in Generation
        /\ generations'[h].members = generations[h].members /\ generations'[h].late = generations[h].late
  BY <1>1, <1>2 DEF Generation
<1>4. TypeOK'
  BY <1>1, <1>3 DEF IInv, TypeOK
<1>5. Dated' /\ CanariesRan' /\ LateKnown'
  BY <1>1, <1>3 DEF IInv, Dated, CanariesRan, LateKnown
<1>6. ParentageIsEarned'
  BY <1>1, <1>3 DEF IInv, ParentageIsEarned
<1> QED
  BY <1>4, <1>5, <1>6 DEF IInv

LEMMA SalvageIsDraft ==
  ASSUME NEW t \in Tasks \cup {None}
  PROVE  Salvage(t) \in Draft /\ Salvage(t).generation = None /\ Salvage(t).kind = "result"
BY DEF Salvage, Draft, Lanes

LEMMA NextKeeps == ASSUME IInv, [Next]_vars PROVE IInv'
<1>1. ASSUME NEW d \in Drafts, Record(d) PROVE IInv'
  <2>1. d \in Draft
    BY DraftsAssumption
  <2> QED
    BY <1>1, <2>1, IngestKeeps DEF Record
<1>2. ASSUME NEW t \in Tasks \cup {None}, ForceSynthesis(t) PROVE IInv'
  BY <1>2, SalvageIsDraft, IngestKeeps DEF ForceSynthesis
<1>3. CASE UNCHANGED vars
  BY <1>3 DEF vars, IInv, TypeOK, Dated, LateKnown, CanariesRan, ParentageIsEarned
<1> QED
  BY <1>1, <1>2, <1>3, OpenKeeps, CloseKeeps DEF Next

LEMMA IInvInvariant == Spec => []IInv
BY InitHolds, NextKeeps, PTL DEF Spec

-----------------------------------------------------------------------------
(* Canaries *)

\* The newest canary of a task, where it has one.
LEMMA NewestCanary ==
  ASSUME TypeOK, NEW t, CanariesOf(t) # {}
  PROVE  CanaryOf(t) \in CanariesOf(t) /\ \A j \in CanariesOf(t) : j <= CanaryOf(t)
<1> DEFINE D == CanariesOf(t)
           After(i) == {j \in D : j > i}
           T == {After(i) : i \in D}
<1>1. D \subseteq 1 .. Len(findings) /\ Len(findings) \in Nat
  BY DEF CanariesOf, TypeOK
<1>2. IsFiniteSet(D)
  <2>1. IsFiniteSet(1 .. Len(findings))
    BY <1>1, FS_Interval
  <2> HIDE DEF D
  <2> QED
    BY <1>1, <2>1, FS_Subset
<1>3. T \subseteq SUBSET D /\ T # {}
  OBVIOUS
<1>4. PICK B \in T : \A C \in T : ~(<<C, B>> \in StrictSubsetOrdering(D))
  <2>1. IsWellFoundedOn(StrictSubsetOrdering(D), SUBSET D)
    BY <1>2, FS_StrictSubsetOrderingWellFounded, FS_FiniteSubsetsOfFinite
  <2> HIDE DEF T, D
  <2>2. \E B \in T : \A C \in T : ~(<<C, B>> \in StrictSubsetOrdering(D))
    BY <1>3, <2>1, WFMin, Zenon
  <2> QED
    BY <2>2
<1>5. PICK i \in D : B = After(i)
  OBVIOUS
<1>6. ASSUME NEW j \in D PROVE j <= i
  <2>1. SUFFICES ASSUME j > i PROVE FALSE
    BY <1>1
  <2>2. After(j) \subseteq After(i) /\ j \in After(i) /\ j \notin After(j)
    BY <1>1, <2>1
  <2>3. <<After(j), B>> \in StrictSubsetOrdering(D)
    BY <1>5, <2>2 DEF StrictSubsetOrdering
  <2> QED
    BY <1>4, <2>3
<1> QED
  BY <1>6 DEF CanaryOf

-----------------------------------------------------------------------------
(* Theorems *)

\* The document stays well formed, for any requests: types of finding_runtime.ts.
THEOREM TypeCorrect == Spec => []TypeOK
<1>1. IInv => TypeOK
  BY DEF IInv
<1> QED
  BY <1>1, IInvInvariant, PTL

\* What may be a parent, or is confirmed, finished normally and was filed in time (assignLane,
\* ingestFinding), for any number of findings and generations.
THEOREM ParentageEarned == Spec => []ParentageIsEarned
<1>1. IInv => ParentageIsEarned
  BY DEF IInv
<1> QED
  BY <1>1, IInvInvariant, PTL

\* No call changes the membership of a closed generation, or opens it again (ingestFinding,
\* openGeneration, closeGeneration).
THEOREM CommittedFrozen == Spec => CommittedIsFrozen
<1> DEFINE Frozen(g) ==
      generations[g].status = "closed" =>
        /\ generations'[g] = [generations[g] EXCEPT !.late = generations'[g].late]
        /\ generations[g].late \subseteq generations'[g].late
<1>1. ASSUME IInv, [Next]_vars, NEW g \in DOMAIN generations, generations[g].status = "closed"
      PROVE  Frozen(g)
  <2>1. generations[g] \in Generation
    BY <1>1 DEF IInv, TypeOK
  <2>2. CASE generations'[g] = generations[g]
    BY <2>1, <2>2 DEF Generation
  <2>3. ASSUME NEW d \in Draft, Ingest(d) PROVE Frozen(g)
    <3>1. CASE g = d.generation
      <4>1. IsLate(d)
        BY <1>1, <3>1 DEF IsLate
      <4>2. generations'[g] = Filed(generations[g], Len(findings) + 1, IsLate(d))
        BY <1>1, <2>3, <3>1, IngestStep DEF IInv
      <4>3. generations'[g] = [generations[g] EXCEPT !.late = @ \cup {Len(findings) + 1}]
        BY <4>1, <4>2 DEF Filed
      <4> QED
        BY <2>1, <4>3 DEF Generation
    <3>2. CASE g # d.generation
      BY <1>1, <2>2, <2>3, <3>2, IngestStep DEF IInv
    <3> QED
      BY <3>1, <3>2
  <2>4. ASSUME NEW d \in Drafts, Record(d) PROVE Frozen(g)
    BY <2>3, <2>4, DraftsAssumption DEF Record
  <2>5. ASSUME NEW t \in Tasks \cup {None}, ForceSynthesis(t) PROVE Frozen(g)
    BY <2>3, <2>5, SalvageIsDraft DEF ForceSynthesis
  <2>6. ASSUME NEW h \in Generations, NEW cohort, NEW gated, NEW canary, Open(h, cohort, gated, canary)
        PROVE  Frozen(g)
    BY <1>1, <2>2, <2>6 DEF Open
  <2>7. ASSUME NEW h \in Generations, Close(h) PROVE Frozen(g)
    BY <1>1, <2>2, <2>7 DEF Close, MayClose
  <2>8. CASE UNCHANGED vars
    BY <2>2, <2>8 DEF vars
  <2> HIDE DEF Frozen
  <2> QED
    BY <1>1, <2>4, <2>5, <2>6, <2>7, <2>8 DEF Next
<1>2. IInv /\ [Next]_vars => [\A g \in DOMAIN generations : Frozen(g)]_vars
  BY <1>1
<1> QED
  BY <1>2, IInvInvariant, PTL DEF Spec, CommittedIsFrozen

\* A generation is opened only if the newest canary of each of its tasks with a command ran
\* (evaluateGenerationCanary).
THEOREM FanOutMeasured == Spec => FanOutIsMeasured
<1> DEFINE Measured(g) ==
      \A t \in generations'[g].gated :
        \E i \in CanariesOf(t) :
           /\ findings[i].outcome \in {"pass", "fail"}
           /\ \A j \in CanariesOf(t) : j > i => findings[j].outcome \in {"pass", "fail"}
<1>1. ASSUME IInv, [Next]_vars, NEW g \in DOMAIN generations' \ DOMAIN generations
      PROVE  Measured(g)
  <2>1. PICK cohort \in SUBSET Tasks : \E gated \in SUBSET cohort, canary \in DOMAIN findings \cup {None, Unrecorded} :
          Open(g, cohort, gated, canary)
    <3>1. ASSUME NEW d \in Draft, Ingest(d) PROVE FALSE
      BY <1>1, <3>1, IngestStep DEF IInv
    <3>2. ~\E d \in Drafts : Record(d)
      BY <3>1, DraftsAssumption DEF Record
    <3>3. ~\E t \in Tasks \cup {None} : ForceSynthesis(t)
      BY <3>1, SalvageIsDraft DEF ForceSynthesis
    <3>4. ~\E h \in Generations : Close(h)
      BY <1>1 DEF Close
    <3>5. PICK h \in Generations, cohort \in SUBSET Tasks : \E gated \in SUBSET cohort :
            \E canary \in DOMAIN findings \cup {None, Unrecorded} : Open(h, cohort, gated, canary)
      BY <1>1, <3>2, <3>3, <3>4 DEF Next, vars
    <3>6. h = g
      BY <1>1, <3>5 DEF Open
    <3> QED
      BY <3>5, <3>6
  <2>2. PICK gated \in SUBSET cohort, canary \in DOMAIN findings \cup {None, Unrecorded} :
          Open(g, cohort, gated, canary)
    BY <2>1
  <2>3. generations'[g].gated = gated /\ CanaryReady(gated)
    BY <2>2 DEF Open, Opened
  <2>4. ASSUME NEW t \in gated
        PROVE  \E i \in CanariesOf(t) :
                  /\ findings[i].outcome \in {"pass", "fail"}
                  /\ \A j \in CanariesOf(t) : j > i => findings[j].outcome \in {"pass", "fail"}
    <3>1. PICK i \in CanariesOf(t) : i = CanaryOf(t) /\ \A j \in CanariesOf(t) : j <= i
      BY <1>1, <2>3, NewestCanary DEF IInv, CanaryReady
    <3>2. findings[i].outcome \in Outcomes /\ findings[i].outcome \notin {"could_not_run", "denied"}
      <4>1. findings[i].outcome \notin {"could_not_run", "denied"}
        BY <2>3, <3>1 DEF CanaryReady
      <4>2. i \in DOMAIN findings /\ findings[i].kind = "canary"
        BY <3>1 DEF CanariesOf
      <4>3. findings[i] \in Finding /\ findings[i].outcome # None
        BY <1>1, <4>2 DEF IInv, TypeOK, CanariesRan
      <4>4. findings[i].outcome \in Outcomes
        BY <4>3 DEF Finding
      <4> QED
        BY <4>1, <4>4
    <3>3. \A j \in CanariesOf(t) : ~(j > i)
      BY <1>1, <3>1 DEF CanariesOf, IInv, TypeOK
    <3> QED
      BY <3>2, <3>3 DEF Outcomes
  <2> QED
    BY <2>3, <2>4
<1> HIDE DEF Measured
<1>2. IInv /\ [Next]_vars => [\A g \in DOMAIN generations' \ DOMAIN generations : Measured(g)]_vars
  BY <1>1
<1> QED
  BY <1>2, IInvInvariant, PTL DEF Spec, FanOutIsMeasured, Measured
----------------------------------------------------------------

-----------------------------------------------------------------------------
(* AgentMemory *)

\* What two files that count as equal hold: a file that is absent holds nothing, and
\* neither does the template it is taken for.
LEMMA EqualSourcesAgree ==
  ASSUME NEW m, NEW s, Source(m) = Source(s), NEW n, Has(m, n)
  PROVE  Has(s, n)
<1>1. ~Has(Template, n)
  BY DEF Has, Template
<1>2. Source(m) = m
  BY DEF Has, Source
<1>3. s # Absent
  BY <1>1, <1>2 DEF Source
<1>4. QED
  BY <1>2, <1>3 DEF Source

File == Content \cup {Absent}

Steps ==
  {"idle", "ensure", "check", "append", "read", "readSnapshot", "verdict", "write", "meta", "done"}

Call ==
  [req : Request \cup {NoHash}, step : Steps, mem : File \cup {NoHash},
   snap : File \cup {NoHash}, expected : File \cup {NoHash},
   heal : BOOLEAN, disturbed : BOOLEAN, before : SUBSET Calls]

\* A call that has ensured MEMORY.md finds it there; one about to write has read what it
\* compares and writes.
Ready(r) ==
  /\ r.step # "idle" => r.req \in Requests
  /\ r.step \in {"readSnapshot", "write"} => r.mem \in Content
  /\ r.step = "write" /\ r.req.op # "mark" => r.snap \in File

MemoryTypeOK ==
  /\ memory \in File /\ snapshot \in File
  /\ acked \subseteq Calls
  /\ call \in [Calls -> Call]
  /\ \A c \in Calls : Ready(call[c]) /\ (call[c].step \notin {"idle", "ensure"} => memory # Absent)

LEMMA ContentType ==
  /\ Template \in Content
  /\ \A n \in Calls \cup {Fragment} : Entry(n) \in Line
BY DEF Template, Content, Entry, Line

LEMMA AppendedType ==
  ASSUME NEW f \in Content, NEW n \in Calls \cup {Fragment}, NEW h \in BOOLEAN
  PROVE  /\ Appended(f, Entry(n), h) \in Content
         /\ \A m : Has(f, m) => Has(Appended(f, Entry(n), h), m)
<1> DEFINE added == Append(f.lines, Entry(n))
           ls == IF f.torn /\ ~h THEN f.lines ELSE added
<1>1. f.lines \in Seq(Line) /\ Entry(n) \in Line
  BY ContentType DEF Content
<1>2. /\ added \in Seq(Line)
      /\ DOMAIN f.lines \subseteq DOMAIN added
      /\ \A i \in DOMAIN f.lines : added[i] = f.lines[i]
  <2>1. Len(f.lines) \in Nat /\ DOMAIN f.lines = 1..Len(f.lines)
    BY <1>1
  <2>2. Len(added) = Len(f.lines) + 1 /\ DOMAIN added = 1..Len(added) /\ added \in Seq(Line)
    BY <1>1, AppendProperties
  <2>3. QED
    BY <1>1, <2>1, <2>2, AppendProperties
<1>3. /\ ls \in Seq(Line)
      /\ DOMAIN f.lines \subseteq DOMAIN ls
      /\ \A i \in DOMAIN f.lines : ls[i] = f.lines[i]
  BY <1>1, <1>2
<1>4. Appended(f, Entry(n), h) = [lines |-> ls, torn |-> FALSE]
  BY DEF Appended
<1> HIDE DEF ls, added
<1>5. Appended(f, Entry(n), h) \in Content
  BY <1>3, <1>4 DEF Content
<1>6. Appended(f, Entry(n), h) # Absent
  BY <1>5, MemoryAssumption
<1>7. QED
  BY <1>3, <1>4, <1>5, <1>6 DEF Has

LEMMA MarkedType ==
  ASSUME NEW f \in Content, NEW e
  PROVE  /\ MarkedIn(f, e) \in Content
         /\ \A m : Has(f, m) => Has(MarkedIn(f, e), m)
<1> DEFINE line(i) == IF f.lines[i].note = e THEN [f.lines[i] EXCEPT !.superseded = TRUE] ELSE f.lines[i]
           ls == [i \in DOMAIN f.lines |-> line(i)]
<1>1. f.lines \in Seq(Line) /\ f.torn \in BOOLEAN
  BY DEF Content
<1>2. \A i \in DOMAIN f.lines : line(i) \in Line /\ line(i).note = f.lines[i].note
  <2>1. ASSUME NEW l \in Line
        PROVE  [l EXCEPT !.superseded = TRUE] \in Line /\ [l EXCEPT !.superseded = TRUE].note = l.note
    BY DEF Line
  <2>2. \A i \in DOMAIN f.lines : f.lines[i] \in Line
    BY <1>1
  <2>3. QED
    BY <2>1, <2>2
<1>3. MarkedIn(f, e) = [f EXCEPT !.lines = ls]
  BY DEF MarkedIn
<1>4. /\ ls \in Seq(Line) /\ DOMAIN ls = DOMAIN f.lines
      /\ \A i \in DOMAIN f.lines : ls[i].note = f.lines[i].note
  <2> HIDE DEF line
  <2>1. Len(f.lines) \in Nat /\ DOMAIN f.lines = 1..Len(f.lines)
    BY <1>1
  <2>2. ls \in [1..Len(f.lines) -> Line]
    BY <1>2, <2>1
  <2>3. QED
    BY <1>2, <2>1, <2>2
<1> HIDE DEF ls, line
<1>5. MarkedIn(f, e) \in Content /\ MarkedIn(f, e).lines = ls
  BY <1>1, <1>3, <1>4 DEF Content
<1>6. MarkedIn(f, e) # Absent
  BY <1>5, MemoryAssumption
<1>7. QED
  BY <1>4, <1>5, <1>6 DEF Has

\* Moving a call on changes its step only.
LEMMA StepsOn ==
  ASSUME NEW r \in Call, NEW s \in Steps
  PROVE  LET q == [r EXCEPT !.step = s]
         IN  q \in Call /\ q.step = s /\ q.req = r.req /\ q.mem = r.mem /\ q.snap = r.snap
BY DEF Call

LEMMA DisturbedCalls ==
  ASSUME NEW f \in [Calls -> Call]
  PROVE  /\ Disturbs(f) \in [Calls -> Call]
         /\ \A c \in Calls : /\ Disturbs(f)[c].step = f[c].step
                             /\ Disturbs(f)[c].req = f[c].req
                             /\ Disturbs(f)[c].mem = f[c].mem
                             /\ Disturbs(f)[c].snap = f[c].snap
                             /\ Disturbs(f)[c].before = f[c].before
<1>1. ASSUME NEW r \in Call
      PROVE  LET q == [r EXCEPT !.disturbed = TRUE]
             IN  q \in Call /\ q.step = r.step /\ q.req = r.req /\ q.mem = r.mem /\ q.snap = r.snap
                /\ q.before = r.before
  BY DEF Call
<1>2. QED
  BY <1>1 DEF Disturbs

\* One call goes on as r says, and MEMORY.md does not go away.
LEMMA Advances ==
  ASSUME MemoryTypeOK, NEW c \in Calls, NEW r \in Call, Ready(r),
         \/ call' = [call EXCEPT ![c] = r]
         \/ call' = Disturbs([call EXCEPT ![c] = r]),
         memory' \in File, snapshot' \in File, acked' \subseteq Calls,
         memory # Absent => memory' # Absent,
         r.step \notin {"idle", "ensure"} => memory' # Absent
  PROVE  MemoryTypeOK'
<1> DEFINE f == [call EXCEPT ![c] = r]
<1>1. f \in [Calls -> Call]
  BY DEF MemoryTypeOK
<1>2. \A d \in Calls : Ready(f[d]) /\ (f[d].step \notin {"idle", "ensure"} => memory' # Absent)
  BY DEF MemoryTypeOK
<1>3. CASE call' = f
  BY <1>1, <1>2, <1>3 DEF MemoryTypeOK
<1>4. CASE call' = Disturbs(f)
  <2> HIDE DEF f
  <2>1. \A d \in Calls : Ready(call'[d]) /\ (call'[d].step \notin {"idle", "ensure"} => memory' # Absent)
    BY <1>1, <1>2, <1>4, DisturbedCalls DEF Ready
  <2>2. QED
    BY <1>1, <1>4, <2>1, DisturbedCalls DEF MemoryTypeOK
<1>5. QED
  BY <1>3, <1>4

LEMMA MemoryTypeStep == MemoryTypeOK /\ [MemoryNext]_memoryVars => MemoryTypeOK'
<1> SUFFICES ASSUME MemoryTypeOK, [MemoryNext]_memoryVars
             PROVE  MemoryTypeOK'
  OBVIOUS
<1> USE MemoryAssumption
<1>1. ASSUME NEW c \in Calls, NEW req \in Requests, Begin(c, req)
      PROVE  MemoryTypeOK'
  <2>1. PICK r : r = [Idle EXCEPT !.req = req, !.step = "ensure", !.before = acked,
                        !.expected = IF req.guarded THEN Target(req) ELSE NoHash]
    OBVIOUS
  <2>2. call' = [call EXCEPT ![c] = r] /\ UNCHANGED <<memory, snapshot, acked>>
    BY <1>1, <2>1 DEF Begin
  <2>3. r \in Call /\ Ready(r) /\ r.step = "ensure"
    <3>1. req \in Request /\ Target(req) \in File /\ acked \in SUBSET Calls
      BY DEF MemoryTypeOK, Target
    <3>2. r.req = req /\ r.step = "ensure"
      BY <2>1 DEF Idle
    <3>3. r \in Call
      BY <2>1, <3>1 DEF Idle, Call, Steps
    <3>4. QED
      BY <3>2, <3>3 DEF Ready
  <2>4. QED
    BY <2>2, <2>3, Advances DEF MemoryTypeOK
<1>2. ASSUME NEW c \in Calls, NEW s \in Steps \ {"idle", "readSnapshot", "write"},
             \/ call' = Goes(c, s)
             \/ call' = Disturbs(Goes(c, s)),
             call[c].step # "idle",
             memory' \in File, snapshot' \in File, acked' \subseteq Calls,
             memory # Absent => memory' # Absent,
             s # "ensure" => memory' # Absent
      PROVE  MemoryTypeOK'
  <2>1. PICK r : r = [call[c] EXCEPT !.step = s]
    OBVIOUS
  <2>2. call[c] \in Call /\ Ready(call[c])
    BY DEF MemoryTypeOK
  <2>3. r \in Call /\ r.step = s /\ r.req = call[c].req
    BY <2>1, <2>2 DEF Call
  <2>4. Ready(r)
    BY <1>2, <2>2, <2>3 DEF Ready
  <2>5. Goes(c, s) = [call EXCEPT ![c] = r]
    BY <2>1 DEF Goes
  <2>6. QED
    BY <1>2, <2>3, <2>4, <2>5, Advances
<1>3. ASSUME NEW c \in Calls, Ensure(c)
      PROVE  MemoryTypeOK'
  <2>1. memory' \in Content /\ snapshot' \in File /\ acked' = acked
    BY <1>3, ContentType DEF Ensure, Ensured, File, MemoryTypeOK
  <2>2. PICK s : s = IF call[c].req.op = "append" THEN "check" ELSE "read"
    OBVIOUS
  <2>3. call' = Goes(c, s) /\ s \in Steps \ {"idle", "readSnapshot", "write", "ensure"}
    BY <1>3, <2>2 DEF Ensure, Steps
  <2>4. QED
    BY <1>2, <1>3, <2>1, <2>3 DEF Ensure, File, MemoryTypeOK
<1>4. ASSUME NEW c \in Calls, CheckTail(c)
      PROVE  MemoryTypeOK'
  <2>1. PICK r : r = [call[c] EXCEPT !.step = "append", !.heal = NeedsNewline(memory)]
    OBVIOUS
  <2>2. call' = [call EXCEPT ![c] = r] /\ UNCHANGED <<memory, snapshot, acked>>
    BY <1>4, <2>1 DEF CheckTail
  <2>3. call[c] \in Call /\ Ready(call[c]) /\ call[c].step = "check"
    BY <1>4 DEF MemoryTypeOK, CheckTail, At
  <2>4. NeedsNewline(memory) \in BOOLEAN
    BY DEF NeedsNewline, MemoryTypeOK, File, Content
  <2>5. r \in Call /\ r.step = "append" /\ r.req = call[c].req
    BY <2>1, <2>3, <2>4 DEF Call, Steps
  <2>6. Ready(r)
    BY <2>3, <2>5 DEF Ready
  <2>7. QED
    BY <2>2, <2>3, <2>5, <2>6, Advances DEF MemoryTypeOK
<1>5. ASSUME NEW c \in Calls, AppendNote(c)
      PROVE  MemoryTypeOK'
  <2>1. call[c].step = "append" /\ memory \in Content
    BY <1>5 DEF AppendNote, At, MemoryTypeOK, File
  <2>2. memory' \in Content
    <3>1. PICK f, h : f = memory /\ h = call[c].heal
      OBVIOUS
    <3>2. h \in BOOLEAN
      BY <3>1 DEF MemoryTypeOK, Call
    <3>3. QED
      BY <1>5, <2>1, <3>1, <3>2, AppendedType DEF AppendNote
  <2>3. call' = Goes(c, "done") /\ snapshot' = snapshot /\ acked' \subseteq Calls
    BY <1>5 DEF AppendNote, MemoryTypeOK
  <2>4. QED
    BY <1>2, <2>1, <2>2, <2>3 DEF File, MemoryTypeOK, Steps
<1>6. ASSUME NEW c \in Calls, TornAppend(c)
      PROVE  MemoryTypeOK'
  <2>1. call[c].step = "append" /\ memory \in Content
    BY <1>6 DEF TornAppend, At, MemoryTypeOK, File
  <2>2. memory' \in Content
    <3>1. PICK f, h : f = memory /\ h = call[c].heal
      OBVIOUS
    <3>2. h \in BOOLEAN
      BY <3>1 DEF MemoryTypeOK, Call
    <3>3. Appended(f, Entry(Fragment), h) \in Content
      BY <2>1, <3>1, <3>2, AppendedType
    <3>4. [Appended(f, Entry(Fragment), h) EXCEPT !.torn = TRUE] \in Content
      BY <3>3 DEF Content
    <3>5. QED
      BY <1>6, <3>1, <3>4 DEF TornAppend
  <2>3. /\ call' \in [Calls -> Call]
        /\ \A d \in Calls : Ready(call'[d])
    <3>1. Idle \in Call /\ Idle.step = "idle"
      BY DEF Idle, Call, Steps
    <3>2. \A d \in Calls : [call[d] EXCEPT !.step = "done"] \in Call
                        /\ [call[d] EXCEPT !.step = "done"].step = "done"
                        /\ [call[d] EXCEPT !.step = "done"].req = call[d].req
      BY DEF MemoryTypeOK, Call, Steps
    <3>3. call' = [d \in Calls |-> IF call[d].step = "idle" THEN Idle ELSE [call[d] EXCEPT !.step = "done"]]
      BY <1>6 DEF TornAppend
    <3>4. call' \in [Calls -> Call]
      BY <3>1, <3>2, <3>3
    <3>5. ASSUME NEW d \in Calls
          PROVE  Ready(call'[d])
      <4>1. Ready(call[d])
        BY DEF MemoryTypeOK
      <4>2. call'[d].step \in {"idle", "done"}
        BY <3>1, <3>2, <3>3
      <4>3. call'[d].step # "idle" => call[d].step # "idle" /\ call'[d].req = call[d].req
        BY <3>1, <3>2, <3>3
      <4>4. QED
        BY <4>1, <4>2, <4>3 DEF Ready
    <3>6. QED
      BY <3>4, <3>5
  <2>4. snapshot' = snapshot /\ acked' = acked
    BY <1>6 DEF TornAppend
  <2>5. QED
    BY <2>2, <2>3, <2>4 DEF File, MemoryTypeOK
<1>7. ASSUME NEW c \in Calls, ReadMemory(c)
      PROVE  MemoryTypeOK'
  <2>1. PICK s : s = IF call[c].req.op = "mark" THEN "write" ELSE "readSnapshot"
    OBVIOUS
  <2>2. PICK r : r = [call[c] EXCEPT !.mem = memory, !.step = s]
    OBVIOUS
  <2>3. call' = [call EXCEPT ![c] = r] /\ UNCHANGED <<memory, snapshot, acked>>
    BY <1>7, <2>1, <2>2 DEF ReadMemory
  <2>4. call[c] \in Call /\ Ready(call[c]) /\ call[c].step = "read" /\ memory \in Content
    BY <1>7 DEF MemoryTypeOK, ReadMemory, File
  <2>5. r \in Call /\ r.step = s /\ r.req = call[c].req /\ r.mem = memory
    BY <2>1, <2>2, <2>4 DEF Call, Steps, File
  <2>6. Ready(r)
    BY <2>1, <2>4, <2>5 DEF Ready
  <2>7. QED
    BY <2>3, <2>4, <2>5, <2>6, Advances DEF MemoryTypeOK
<1>8. ASSUME NEW c \in Calls, ReadSnapshot(c)
      PROVE  MemoryTypeOK'
  <2>1. PICK s : s = IF call[c].req.op = "gate" THEN "verdict" ELSE "write"
    OBVIOUS
  <2>2. PICK r : r = [call[c] EXCEPT !.snap = snapshot, !.step = s]
    OBVIOUS
  <2>3. call' = [call EXCEPT ![c] = r] /\ UNCHANGED <<memory, snapshot, acked>>
    BY <1>8, <2>1, <2>2 DEF ReadSnapshot
  <2>4. call[c] \in Call /\ Ready(call[c]) /\ call[c].step = "readSnapshot" /\ memory # Absent /\ snapshot \in File
    BY <1>8 DEF MemoryTypeOK, ReadSnapshot, At
  <2>5. r \in Call /\ r.step = s /\ r.req = call[c].req /\ r.mem = call[c].mem /\ r.snap = snapshot
    BY <2>1, <2>2, <2>4 DEF Call, Steps
  <2>6. Ready(r)
    BY <2>1, <2>4, <2>5 DEF Ready
  <2>7. QED
    BY <2>3, <2>4, <2>5, <2>6, Advances DEF MemoryTypeOK
<1>9. ASSUME NEW c \in Calls, Refuse(c) \/ Verdict(c)
      PROVE  MemoryTypeOK'
  <2>1. /\ call[c].step \in {"write", "verdict"} /\ call' = Goes(c, "done")
        /\ UNCHANGED <<memory, snapshot, acked>>
    BY <1>9 DEF Refuse, Verdict, At
  <2>2. memory # Absent
    BY <2>1 DEF MemoryTypeOK
  <2>3. QED
    BY <1>2, <2>1, <2>2 DEF MemoryTypeOK, Steps
<1>10. ASSUME NEW c \in Calls, Capture(c)
       PROVE  MemoryTypeOK'
  <2>1. call[c].step = "write" /\ call' = Goes(c, "meta") /\ UNCHANGED <<memory, acked>>
    BY <1>10 DEF Capture, At
  <2>2. memory # Absent /\ call[c].mem \in Content
    BY <2>1 DEF MemoryTypeOK, Ready
  <2>3. snapshot' \in File
    BY <1>10, <2>2, ContentType DEF Capture, Source, File
  <2>4. QED
    BY <1>2, <2>1, <2>2, <2>3 DEF MemoryTypeOK, Steps
<1>11. ASSUME NEW c \in Calls, WriteMeta(c)
       PROVE  MemoryTypeOK'
  <2>1. call[c].step = "meta" /\ call' = Goes(c, "done") /\ UNCHANGED <<memory, snapshot, acked>>
    BY <1>11 DEF WriteMeta, At
  <2>2. memory # Absent
    BY <2>1 DEF MemoryTypeOK
  <2>3. QED
    BY <1>2, <2>1, <2>2 DEF MemoryTypeOK, Steps
<1>12. ASSUME NEW c \in Calls, Apply(c)
       PROVE  MemoryTypeOK'
  <2>1. call[c].step = "write" /\ call' = Disturbs(Goes(c, "meta")) /\ UNCHANGED <<snapshot, acked>>
    BY <1>12 DEF Apply, At
  <2>2. call[c].snap \in File
    BY <1>12, <2>1 DEF MemoryTypeOK, Ready, Apply, At
  <2>3. memory' \in Content
    BY <1>12, <2>2, ContentType DEF Apply, Source, File
  <2>4. QED
    BY <1>2, <2>1, <2>3 DEF MemoryTypeOK, Steps, File
<1>13. ASSUME NEW c \in Calls, Mark(c)
       PROVE  MemoryTypeOK'
  <2>1. /\ call[c].step = "write" /\ UNCHANGED <<snapshot, acked>>
        /\ call' = Goes(c, "done") \/ call' = Disturbs(Goes(c, "done"))
    BY <1>13 DEF Mark, At
  <2>2. memory \in Content /\ call[c].mem \in Content
    BY <2>1 DEF MemoryTypeOK, Ready, File
  <2>3. memory' \in Content
    <3>1. PICK f, e : f = call[c].mem /\ e = call[c].req.entry
      OBVIOUS
    <3>2. memory' \in {memory, MarkedIn(f, e)}
      BY <1>13, <3>1 DEF Mark
    <3>3. QED
      BY <2>2, <3>1, <3>2, MarkedType
  <2>4. QED
    BY <1>2, <2>1, <2>2, <2>3 DEF MemoryTypeOK, Steps, File
<1>14. ASSUME Edit
       PROVE  MemoryTypeOK'
  <2>1. memory \in Content
    BY <1>14 DEF Edit, MemoryTypeOK, File
  <2>2. memory' \in Content
    <3>1. Append(memory.lines, Entry(Fragment)) \in Seq(Line)
      BY <2>1, ContentType, AppendProperties DEF Content
    <3>2. QED
      BY <1>14, <3>1 DEF Edit, Content
  <2>3. call' = Disturbs(call) /\ UNCHANGED <<snapshot, acked>>
    BY <1>14 DEF Edit
  <2>4. \A d \in Calls : Ready(call'[d])
    BY <2>3, DisturbedCalls DEF MemoryTypeOK, Ready
  <2>5. QED
    BY <2>2, <2>3, <2>4, DisturbedCalls DEF MemoryTypeOK, File
<1>15. CASE UNCHANGED memoryVars
  BY <1>15 DEF memoryVars, MemoryTypeOK
<1>16. QED
  BY <1>1, <1>3, <1>4, <1>5, <1>6, <1>7, <1>8, <1>9, <1>10, <1>11, <1>12, <1>13, <1>14, <1>15
     DEF MemoryNext, Rewrites

LEMMA MemoryTyped == MemorySpec => []MemoryTypeOK
<1>1. MemoryInit => MemoryTypeOK
  BY DEF MemoryInit, MemoryTypeOK, Idle, Call, Steps, File, Ready
<1>2. QED
  BY <1>1, MemoryTypeStep, PTL DEF MemorySpec

\* A step that takes an acknowledged note out of MEMORY.md is an applied snapshot without
\* it, or a mark whose reader had not seen it.
LEMMA AppendSurvives ==
  ASSUME MemoryTypeOK, MemoryNext, NEW n \in acked, Has(memory, n), ~Has(memory', n)
  PROVE  \E c \in Calls : \/ Apply(c) /\ ~Has(call[c].snap, n)
                          \/ Mark(c) /\ ~Has(call[c].mem, n)
<1> USE MemoryAssumption
<1>1. memory \in Content /\ memory # Absent
  BY DEF Has, MemoryTypeOK, File
<1>2. memory' # memory
  BY DEF Has
<1>3. ASSUME NEW f, NEW g, f \in Content, NEW l, g = [lines |-> f.lines, torn |-> l] \/ g = [f EXCEPT !.torn = l],
             Has(f, n)
      PROVE  Has(g, n) \/ g = Absent
  BY <1>3 DEF Has, Content
<1>4. ASSUME NEW c \in Calls, Ensure(c)
      PROVE  FALSE
  BY <1>1, <1>2, <1>4 DEF Ensure, Ensured
<1>5. ASSUME NEW c \in Calls, AppendNote(c)
      PROVE  FALSE
  <2>1. PICK f, h : f = memory /\ h = call[c].heal
    OBVIOUS
  <2>2. h \in BOOLEAN
    BY <2>1 DEF MemoryTypeOK, Call
  <2>3. Has(Appended(f, Entry(c), h), n)
    BY <1>1, <2>1, <2>2, AppendedType
  <2>4. QED
    BY <1>5, <2>1, <2>3 DEF AppendNote
<1>6. ASSUME NEW c \in Calls, TornAppend(c)
      PROVE  FALSE
  <2>1. PICK f, h : f = memory /\ h = call[c].heal
    OBVIOUS
  <2>2. h \in BOOLEAN
    BY <2>1 DEF MemoryTypeOK, Call
  <2>3. Has(Appended(f, Entry(Fragment), h), n) /\ Appended(f, Entry(Fragment), h) \in Content
    BY <1>1, <2>1, <2>2, AppendedType
  <2>4. [Appended(f, Entry(Fragment), h) EXCEPT !.torn = TRUE] \in Content
    BY <2>3 DEF Content
  <2>5. QED
    BY <1>3, <1>6, <2>1, <2>3, <2>4 DEF TornAppend
<1>7. ASSUME NEW c \in Calls, Apply(c)
      PROVE  ~Has(call[c].snap, n)
  BY <1>7 DEF Apply, Source, Has
<1>8. ASSUME NEW c \in Calls, Mark(c)
      PROVE  ~Has(call[c].mem, n)
  <2>1. PICK f, e : f = call[c].mem /\ e = call[c].req.entry
    OBVIOUS
  <2>2. f \in Content
    BY <1>8, <2>1 DEF MemoryTypeOK, Ready, Mark, At
  <2>3. memory' = MarkedIn(f, e)
    BY <1>2, <1>8, <2>1 DEF Mark
  <2>4. QED
    BY <2>1, <2>2, <2>3, MarkedType
<1>9. ASSUME Edit
      PROVE  FALSE
  <2>1. memory.lines \in Seq(Line)
    BY <1>1 DEF Content
  <2>2. PICK ls : ls = Append(memory.lines, Entry(Fragment))
    OBVIOUS
  <2>3. /\ ls \in Seq(Line) /\ DOMAIN memory.lines \subseteq DOMAIN ls
        /\ \A i \in DOMAIN memory.lines : ls[i] = memory.lines[i]
    <3>1. Len(memory.lines) \in Nat /\ DOMAIN memory.lines = 1..Len(memory.lines)
      BY <2>1
    <3>2. Len(ls) = Len(memory.lines) + 1 /\ DOMAIN ls = 1..Len(ls) /\ ls \in Seq(Line)
      BY <2>1, <2>2, ContentType, AppendProperties
    <3>3. QED
      BY <2>1, <2>2, <3>1, <3>2, ContentType, AppendProperties
  <2>4. memory' = [lines |-> ls, torn |-> TRUE]
    BY <1>9, <2>2 DEF Edit
  <2>5. memory' \in Content
    BY <2>3, <2>4 DEF Content
  <2>6. QED
    BY <2>3, <2>4, <2>5 DEF Has
<1>10. QED
  BY <1>2, <1>4, <1>5, <1>6, <1>7, <1>8, <1>9
     DEF MemoryNext, Rewrites, Begin, CheckTail, ReadMemory, ReadSnapshot, Refuse, Capture, WriteMeta, Verdict

\* A note whose append was acknowledged leaves MEMORY.md only as AppendsSurvive says: an
\* append, a file being created, a hand edit or a death in an append never loses it.
THEOREM AppendedNotesSurvive == MemorySpec => AppendsSurvive
<1> DEFINE P == \A n \in acked : Has(memory, n) /\ ~Has(memory', n) =>
                  \E c \in Calls : \/ Apply(c) /\ ~Has(call[c].snap, n)
                                   \/ Mark(c) /\ ~Has(call[c].mem, n)
<1>1. MemoryTypeOK /\ MemoryNext => P
  BY AppendSurvives
<1>2. MemoryTypeOK /\ [MemoryNext]_memoryVars => [P]_memoryVars
  BY <1>1
<1>3. QED
  BY <1>2, MemoryTyped, PTL DEF MemorySpec, AppendsSurvive

\* What a gate carries from read to read: it saw in MEMORY.md the notes it answers for
\* but the lapsed ones, and SNAPSHOT.md still has those it saw there.
GateOK(c) ==
  /\ call[c].step = "verdict" => call[c].req.op = "gate"
  /\ call[c].step \in {"readSnapshot", "verdict"} /\ call[c].req.op = "gate" =>
        \A n \in call[c].before \ lapsed[c] : Has(call[c].mem, n)
  /\ call[c].step = "verdict" =>
        \A n \in call[c].before \ lapsed[c] : Has(call[c].snap, n) => Has(snapshot, n)

GateInv == MemoryTypeOK /\ lapsed \in [Calls -> SUBSET Calls] /\ \A c \in Calls : GateOK(c)

\* A gate that does not act keeps what it carries, if a note that leaves SNAPSHOT.md
\* lapses.
LEMMA GateKept ==
  ASSUME NEW c \in Calls, GateOK(c),
         call'[c].step = call[c].step, call'[c].req = call[c].req,
         call'[c].mem = call[c].mem, call'[c].snap = call[c].snap,
         call'[c].before = call[c].before,
         lapsed[c] \subseteq lapsed'[c],
         call[c].step = "verdict" =>
           \A n \in call[c].before \ lapsed'[c] : Has(snapshot, n) => Has(snapshot', n)
  PROVE  GateOK(c)'
BY DEF GateOK

\* Neither does one that is not between its reads and its verdict.
LEMMA GateAway ==
  ASSUME NEW c \in Calls, call'[c].step \notin {"readSnapshot", "verdict"}
  PROVE  GateOK(c)'
BY DEF GateOK

\* A step of one call leaves the others as they were, or only disturbs them.
LEMMA OthersStay ==
  ASSUME MemoryTypeOK, NEW c \in Calls, NEW r \in Call,
         \/ call' = [call EXCEPT ![c] = r]
         \/ call' = Disturbs([call EXCEPT ![c] = r]),
         NEW d \in Calls \ {c}
  PROVE  /\ call'[d].step = call[d].step /\ call'[d].req = call[d].req
         /\ call'[d].mem = call[d].mem /\ call'[d].snap = call[d].snap
         /\ call'[d].before = call[d].before
<1> DEFINE f == [call EXCEPT ![c] = r]
<1>1. f \in [Calls -> Call] /\ f[d] = call[d]
  BY DEF MemoryTypeOK
<1> HIDE DEF f
<1>2. call' = f \/ call' = Disturbs(f)
  BY DEF f
<1>3. QED
  BY <1>1, <1>2, DisturbedCalls

LEMMA GateStep == GateInv /\ [MemoryNext]_memoryVars => GateInv'
<1> SUFFICES ASSUME GateInv, [MemoryNext]_memoryVars
             PROVE  GateInv'
  OBVIOUS
<1>0. /\ MemoryTypeOK /\ MemoryTypeOK'
      /\ lapsed \in [Calls -> SUBSET Calls]
      /\ \A c \in Calls : GateOK(c)
  BY MemoryTypeStep DEF GateInv
<1>1. ASSUME NEW c \in Calls, NEW r \in Call, r.step \notin {"readSnapshot", "verdict"},
             \/ call' = [call EXCEPT ![c] = r]
             \/ call' = Disturbs([call EXCEPT ![c] = r]),
             \A n : Has(snapshot, n) => Has(snapshot', n),
             lapsed' = lapsed
      PROVE  GateInv'
  <2>1. ASSUME NEW d \in Calls \ {c}
        PROVE  GateOK(d)'
    BY <1>0, <1>1, <2>1, OthersStay, GateKept
  <2>2. call'[c].step = r.step
    <3> DEFINE f == [call EXCEPT ![c] = r]
    <3>1. f \in [Calls -> Call] /\ f[c] = r
      BY <1>0 DEF MemoryTypeOK
    <3> HIDE DEF f
    <3>2. call' = f \/ call' = Disturbs(f)
      BY <1>1 DEF f
    <3>3. QED
      BY <3>1, <3>2, DisturbedCalls
  <2>3. GateOK(c)'
    BY <1>1, <2>2, GateAway
  <2>4. QED
    BY <1>0, <1>1, <2>1, <2>3 DEF GateInv
<1>2. ASSUME NEW c \in Calls, NEW s \in Steps \ {"readSnapshot", "verdict"},
             call' = Goes(c, s) \/ call' = Disturbs(Goes(c, s)),
             \A n : Has(snapshot, n) => Has(snapshot', n),
             lapsed' = lapsed
      PROVE  GateInv'
  <2>1. PICK r : r = [call[c] EXCEPT !.step = s]
    OBVIOUS
  <2>2. r \in Call /\ r.step = s
    BY <1>0, <2>1 DEF MemoryTypeOK, Call
  <2>3. Goes(c, s) = [call EXCEPT ![c] = r]
    BY <2>1 DEF Goes
  <2>4. QED
    BY <1>1, <1>2, <2>2, <2>3
<1>3. ASSUME NEW c \in Calls, NEW req \in Requests, Begin(c, req)
      PROVE  GateInv'
  <2>1. PICK r : r = [Idle EXCEPT !.req = req, !.step = "ensure", !.before = acked,
                        !.expected = IF req.guarded THEN Target(req) ELSE NoHash]
    OBVIOUS
  <2>2. call' = [call EXCEPT ![c] = r] /\ UNCHANGED <<snapshot, lapsed>> /\ r.step = "ensure"
    BY <1>3, <2>1 DEF Begin, Idle
  <2>3. r \in Call
    BY <1>0, <2>2 DEF MemoryTypeOK
  <2>4. QED
    BY <1>1, <2>2, <2>3
<1>4. ASSUME NEW c \in Calls, Ensure(c)
      PROVE  GateInv'
  <2>1. PICK s : s = IF call[c].req.op = "append" THEN "check" ELSE "read"
    OBVIOUS
  <2>2. call' = Goes(c, s) /\ s \in Steps \ {"readSnapshot", "verdict"} /\ lapsed' = lapsed
    BY <1>4, <2>1 DEF Ensure, Steps
  <2>3. \A n : Has(snapshot, n) => Has(snapshot', n)
    BY <1>4 DEF Ensure, Ensured, Has
  <2>4. QED
    BY <1>2, <2>2, <2>3
<1>5. ASSUME NEW c \in Calls, CheckTail(c)
      PROVE  GateInv'
  <2>1. PICK r : r = [call[c] EXCEPT !.step = "append", !.heal = NeedsNewline(memory)]
    OBVIOUS
  <2>2. call' = [call EXCEPT ![c] = r] /\ UNCHANGED <<snapshot, lapsed>>
    BY <1>5, <2>1 DEF CheckTail
  <2>3. r \in Call /\ call[c] \in Call
    BY <1>0, <2>2 DEF MemoryTypeOK
  <2>4. r.step = "append"
    BY <2>1, <2>3 DEF Call
  <2>5. QED
    BY <1>1, <2>2, <2>3, <2>4
<1>6. ASSUME NEW c \in Calls,
             AppendNote(c) \/ Refuse(c) \/ WriteMeta(c) \/ Apply(c) \/ Mark(c) \/ Verdict(c)
      PROVE  GateInv'
  <2>1. PICK s \in {"done", "meta"} : call' = Goes(c, s) \/ call' = Disturbs(Goes(c, s))
    BY <1>6 DEF AppendNote, Refuse, WriteMeta, Apply, Mark, Verdict
  <2>2. UNCHANGED <<snapshot, lapsed>>
    BY <1>6 DEF AppendNote, Refuse, WriteMeta, Apply, Mark, Verdict
  <2>3. QED
    BY <1>2, <2>1, <2>2 DEF Steps
<1>7. ASSUME NEW c \in Calls, TornAppend(c)
      PROVE  GateInv'
  <2>1. \A d \in Calls : call'[d].step \in {"idle", "done"}
    BY <1>0, <1>7 DEF TornAppend, MemoryTypeOK, Call, Idle
  <2>2. QED
    BY <1>0, <1>7, <2>1, GateAway DEF TornAppend, GateInv
<1>8. ASSUME NEW c \in Calls, ReadMemory(c)
      PROVE  GateInv'
  <2>1. /\ call[c] \in Call /\ call[c].before \subseteq Calls
        /\ call'[c].step # "verdict" /\ call'[c].mem = memory
        /\ call'[c].req = call[c].req /\ call'[c].before = call[c].before
    BY <1>0, <1>8 DEF ReadMemory, MemoryTypeOK, Call
  <2>2. MissingFrom(memory, c) \in SUBSET Calls
    BY <2>1 DEF MissingFrom
  <2>3. /\ lapsed' \in [Calls -> SUBSET Calls] /\ lapsed'[c] = MissingFrom(memory, c)
        /\ \A d \in Calls \ {c} : lapsed'[d] = lapsed[d]
    BY <1>0, <1>8, <2>2 DEF ReadMemory
  <2>4. GateOK(c)'
    BY <2>1, <2>3 DEF GateOK, MissingFrom
  <2>5. ASSUME NEW d \in Calls \ {c}
        PROVE  GateOK(d)'
    <3>1. call'[d] = call[d] /\ snapshot' = snapshot
      BY <1>0, <1>8 DEF ReadMemory, MemoryTypeOK
    <3>2. QED
      BY <1>0, <2>3, <3>1, GateKept
  <2>6. QED
    BY <1>0, <2>3, <2>4, <2>5 DEF GateInv
<1>9. ASSUME NEW c \in Calls, ReadSnapshot(c)
      PROVE  GateInv'
  <2>1. /\ call[c] \in Call /\ call[c].step = "readSnapshot"
        /\ call'[c].snap = snapshot /\ call'[c].mem = call[c].mem
        /\ call'[c].step = IF call[c].req.op = "gate" THEN "verdict" ELSE "write"
        /\ call'[c].req = call[c].req /\ call'[c].before = call[c].before
        /\ UNCHANGED <<snapshot, lapsed>>
    BY <1>0, <1>9 DEF ReadSnapshot, At, MemoryTypeOK, Call
  <2>2. GateOK(c)'
    BY <1>0, <2>1 DEF GateOK
  <2>3. ASSUME NEW d \in Calls \ {c}
        PROVE  GateOK(d)'
    <3>1. call'[d] = call[d]
      BY <1>0, <1>9 DEF ReadSnapshot, MemoryTypeOK
    <3>2. QED
      BY <1>0, <2>1, <3>1, GateKept
  <2>4. QED
    BY <1>0, <2>1, <2>2, <2>3 DEF GateInv
<1>10. ASSUME NEW c \in Calls, Capture(c)
       PROVE  GateInv'
  <2>1. /\ call'[c].step = "meta"
        /\ \A d \in Calls \ {c} : call'[d] = call[d]
    BY <1>0, <1>10 DEF Capture, Goes, MemoryTypeOK, Call
  <2>2. \A d \in Calls : call[d].before \subseteq Calls
    BY <1>0 DEF MemoryTypeOK, Call
  <2>3. \A d \in Calls : MissingFrom(snapshot', d) \in SUBSET Calls
    BY <2>2 DEF MissingFrom
  <2>4. /\ lapsed' \in [Calls -> SUBSET Calls]
        /\ \A d \in Calls : /\ lapsed[d] \subseteq lapsed'[d]
                            /\ call[d].step = "verdict" => MissingFrom(snapshot', d) \subseteq lapsed'[d]
    BY <1>0, <1>10, <2>3 DEF Capture
  <2>5. ASSUME NEW d \in Calls \ {c}
        PROVE  GateOK(d)'
    <3>1. call[d].step = "verdict" => \A n \in call[d].before \ lapsed'[d] : Has(snapshot', n)
      BY <1>0, <2>4 DEF GateOK, MissingFrom
    <3>2. QED
      BY <1>0, <2>1, <2>4, <3>1, GateKept
  <2>6. QED
    BY <1>0, <2>1, <2>4, <2>5, GateAway DEF GateInv
<1>11. ASSUME Edit
       PROVE  GateInv'
  <2>1. call' = Disturbs(call) /\ UNCHANGED <<snapshot, lapsed>>
    BY <1>11 DEF Edit
  <2>2. ASSUME NEW d \in Calls
        PROVE  GateOK(d)'
    BY <1>0, <2>1, DisturbedCalls, GateKept DEF MemoryTypeOK
  <2>3. QED
    BY <1>0, <2>1, <2>2 DEF GateInv
<1>12. CASE UNCHANGED memoryVars
  BY <1>0, <1>12, GateKept DEF memoryVars, GateInv
<1>13. QED
  BY <1>3, <1>4, <1>5, <1>6, <1>7, <1>8, <1>9, <1>10, <1>11, <1>12 DEF MemoryNext, Rewrites

\* A gate that passes found the two files equal, and an acknowledged note in the one it
\* read first; so the note was in the other, and still is unless that was replaced.
THEOREM GatePassesNoLoss == MemorySpec => GateIsSound
<1> DEFINE P == \A c \in Calls : Passes(c) =>
                  \A n \in call[c].before \ lapsed[c] : Has(snapshot, n)
<1>1. GateInv => P
  <2> SUFFICES ASSUME GateInv, NEW c \in Calls, Passes(c),
                      NEW n \in call[c].before \ lapsed[c]
               PROVE  Has(snapshot, n)
    OBVIOUS
  <2>1. call[c].step = "verdict" /\ GateOK(c)
    BY DEF Passes, Verdict, At, GateInv
  <2>2. Has(call[c].mem, n)
    BY <2>1 DEF GateOK
  <2>3. PICK m, s : m = call[c].mem /\ s = call[c].snap
    OBVIOUS
  <2>4. Source(m) = Source(s)
    BY <2>3 DEF Passes, Drift
  <2>5. Has(s, n)
    BY <2>2, <2>3, <2>4, EqualSourcesAgree
  <2>6. QED
    BY <2>1, <2>3, <2>5 DEF GateOK
<1>2. GateInv /\ [MemoryNext]_memoryVars => [P]_memoryVars
  BY <1>1
<1>3. MemoryInit /\ MemoryTypeOK => GateInv
  BY DEF MemoryInit, Idle, GateInv, GateOK
<1>4. MemorySpec => []GateInv
  BY <1>3, GateStep, MemoryTyped, PTL DEF MemorySpec
<1>5. QED
  BY <1>2, <1>4, PTL DEF MemorySpec, GateIsSound

-----------------------------------------------------------------------------
(* LogWorker *)

Pieces == [of : Records \cup {Missing}, part : {"whole", "torn", "break"}]
LogFile == {Missing} \cup Seq(Pieces)
Places == {"idle", "mkdir", "latch", "stat", "rename", "look", "append", "written", "failed"}

\* What an overlap of calls may not break: only a call that returned has its record in a
\* file, and a call about to append without a line break finds none missing.
LogInv ==
  /\ log \in LogFile /\ archive \in LogFile
  /\ at \in [Records -> Places]
  /\ heal \in [Records -> BOOLEAN] /\ spoilt \in [Records -> BOOLEAN]
  /\ \A r \in Records : Holds(log, r) \/ Holds(archive, r) => at[r] = "written"
  /\ \A r \in Records : at[r] = "append" /\ ~heal[r] /\ ~spoilt[r] => ~Torn(log)
  /\ WrittenRecordParses

\* What an append leaves of the lines that were there, and adds to them.
LEMMA AppendedLines ==
  ASSUME NEW f \in Seq(Pieces), NEW t \in Seq(Pieces), NEW r
  PROVE  /\ f \o t \in Seq(Pieces)
         /\ OnItsOwnLine(f, r) => OnItsOwnLine(f \o t, r)
         /\ Holds(f \o t, r) => (\E k \in DOMAIN f : f[k] = Piece(r, "whole"))
                             \/ (\E k \in DOMAIN t : t[k] = Piece(r, "whole"))
<1>1. /\ f \o t \in Seq(Pieces) /\ Len(f) \in Nat /\ Len(t) \in Nat
      /\ Len(f \o t) = Len(f) + Len(t)
      /\ DOMAIN f = 1..Len(f) /\ DOMAIN t = 1..Len(t) /\ DOMAIN (f \o t) = 1..(Len(f) + Len(t))
  BY ConcatProperties
<1>2. \A i \in 1..(Len(f) + Len(t)) : (f \o t)[i] = IF i <= Len(f) THEN f[i] ELSE t[i - Len(f)]
  BY ConcatProperties
<1>3. ASSUME OnItsOwnLine(f, r)
      PROVE  OnItsOwnLine(f \o t, r)
  <2>1. PICK k \in 1..Len(f) : /\ f[k] = Piece(r, "whole")
                               /\ k = 1 \/ f[k - 1] = Break
                               /\ k < Len(f) /\ f[k + 1] = Break
    BY <1>1, <1>3 DEF OnItsOwnLine
  <2>2. (f \o t)[k] = f[k] /\ (f \o t)[k + 1] = f[k + 1] /\ (k # 1 => (f \o t)[k - 1] = f[k - 1])
    BY <1>1, <1>2, <2>1
  <2>3. k \in DOMAIN (f \o t) /\ k < Len(f \o t)
    BY <1>1, <2>1
  <2>4. QED
    BY <2>1, <2>2, <2>3 DEF OnItsOwnLine
<1>4. ASSUME Holds(f \o t, r)
      PROVE  (\E k \in DOMAIN f : f[k] = Piece(r, "whole")) \/ (\E k \in DOMAIN t : t[k] = Piece(r, "whole"))
  <2>1. PICK k \in 1..(Len(f) + Len(t)) : (f \o t)[k] = Piece(r, "whole")
    BY <1>1, <1>4 DEF Holds
  <2>2. k <= Len(f) => k \in DOMAIN f /\ f[k] = Piece(r, "whole")
    BY <1>1, <1>2, <2>1
  <2>3. ~(k <= Len(f)) => k - Len(f) \in DOMAIN t /\ t[k - Len(f)] = Piece(r, "whole")
    BY <1>1, <1>2, <2>1
  <2>4. QED
    BY <2>2, <2>3
<1>5. QED
  BY <1>1, <1>3, <1>4

\* What a call appends, and that its record gets a line of its own if there was no torn
\* tail or the call starts with a line break.
LEMMA WrittenText ==
  ASSUME NEW f \in Seq(Pieces), NEW r \in Records, heal \in [Records -> BOOLEAN]
  PROVE  /\ Text(r, TRUE) \in Seq(Pieces) /\ Text(r, FALSE) \in Seq(Pieces)
         /\ \A q, k : k \in DOMAIN Text(r, FALSE) => Text(r, FALSE)[k] # Piece(q, "whole")
         /\ \A q, k : k \in DOMAIN Text(r, TRUE) /\ Text(r, TRUE)[k] = Piece(q, "whole") => q = r
         /\ heal[r] \/ f = <<>> \/ f[Len(f)] = Break => OnItsOwnLine(f \o Text(r, TRUE), r)
         /\ f \o Text(r, TRUE) # <<>>
         /\ (f \o Text(r, TRUE))[Len(f \o Text(r, TRUE))] = Break
<1> DEFINE w == Piece(r, "whole")
           p == Piece(r, "torn")
<1>1. w \in Pieces /\ p \in Pieces /\ Break \in Pieces
  BY DEF Piece, Pieces, Break
<1>2. /\ \A q : w = Piece(q, "whole") => q = r
      /\ \A q : p # Piece(q, "whole") /\ Break # Piece(q, "whole")
  BY DEF Piece, Break
<1> HIDE DEF w, p
<1> DEFINE pre == IF heal[r] THEN <<Break>> ELSE <<>>
<1>3. /\ pre \in Seq(Pieces) /\ Len(pre) = (IF heal[r] THEN 1 ELSE 0)
      /\ heal[r] => pre[1] = Break
  <2>1. CASE heal[r]
    BY <1>1, <2>1
  <2>2. CASE ~heal[r]
    BY <2>2, EmptySeq
  <2>3. QED
    BY <2>1, <2>2
<1>4. /\ <<w, Break>> \in Seq(Pieces) /\ Len(<<w, Break>>) = 2 /\ <<w, Break>>[1] = w /\ <<w, Break>>[2] = Break
      /\ <<p>> \in Seq(Pieces) /\ Len(<<p>>) = 1 /\ <<p>>[1] = p
  BY <1>1
<1> HIDE DEF pre
<1> DEFINE full == <<w, Break>>
           bit == <<p>>
<1>4a. PICK t, u : t = Text(r, TRUE) /\ u = Text(r, FALSE)
  OBVIOUS
<1>5. t = pre \o full /\ u = pre \o bit
  BY <1>4a DEF Text, pre, w, p
<1>6. /\ full \in Seq(Pieces) /\ Len(full) = 2 /\ full[1] = w /\ full[2] = Break
      /\ bit \in Seq(Pieces) /\ Len(bit) = 1 /\ bit[1] = p
  BY <1>4
<1> HIDE DEF full, bit
<1>7. /\ t \in Seq(Pieces) /\ Len(t) = (IF heal[r] THEN 3 ELSE 2)
      /\ u \in Seq(Pieces) /\ Len(u) = (IF heal[r] THEN 2 ELSE 1)
      /\ DOMAIN t = 1..Len(t) /\ DOMAIN u = 1..Len(u)
  <2>1. pre \in Seq(Pieces) /\ full \in Seq(Pieces) /\ bit \in Seq(Pieces)
    BY <1>3, <1>6
  <2>2. /\ pre \o full \in Seq(Pieces) /\ Len(pre \o full) = Len(pre) + Len(full)
        /\ pre \o bit \in Seq(Pieces) /\ Len(pre \o bit) = Len(pre) + Len(bit)
    BY <2>1, ConcatProperties
  <2>3. /\ t \in Seq(Pieces) /\ Len(t) = Len(pre) + 2
        /\ u \in Seq(Pieces) /\ Len(u) = Len(pre) + 1
    BY <1>5, <1>6, <2>2
  <2>4. Len(t) = (IF heal[r] THEN 3 ELSE 2) /\ Len(u) = (IF heal[r] THEN 2 ELSE 1)
    BY <1>3, <2>3
  <2>5. DOMAIN t = 1..Len(t) /\ DOMAIN u = 1..Len(u)
    BY <2>3
  <2>6. QED
    BY <2>3, <2>4, <2>5
<1>8. /\ heal[r] => /\ t[1] = Break /\ t[2] = w /\ t[3] = Break
                    /\ u[1] = Break /\ u[2] = p
      /\ ~heal[r] => t[1] = w /\ t[2] = Break /\ u[1] = p
  <2>1. \A i \in 1..(Len(pre) + 2) : t[i] = IF i <= Len(pre) THEN pre[i] ELSE full[i - Len(pre)]
    <3>1. pre \in Seq(Pieces) /\ full \in Seq(Pieces)
      BY <1>3, <1>6
    <3>2. \A i \in 1..(Len(pre) + Len(full)) : (pre \o full)[i] = IF i <= Len(pre) THEN pre[i] ELSE full[i - Len(pre)]
      BY <3>1, ConcatProperties
    <3>3. QED
      BY <1>5, <1>6, <3>2
  <2>2. \A i \in 1..(Len(pre) + 1) : u[i] = IF i <= Len(pre) THEN pre[i] ELSE bit[i - Len(pre)]
    BY <1>3, <1>5, <1>6, ConcatProperties
  <2>3. CASE heal[r]
    BY <1>3, <1>6, <2>1, <2>2, <2>3
  <2>4. CASE ~heal[r]
    BY <1>3, <1>6, <2>1, <2>2, <2>4
  <2>5. QED
    BY <2>3, <2>4
<1>10. \A q, k : k \in DOMAIN u => u[k] # Piece(q, "whole")
  BY <1>2, <1>7, <1>8
<1>11. \A q, k : k \in DOMAIN t /\ t[k] = Piece(q, "whole") => q = r
  BY <1>2, <1>7, <1>8
<1> DEFINE n == Len(t)
           g == f \o t
<1>12. /\ t \in Seq(Pieces) /\ n \in {2, 3} /\ t[n] = Break /\ t[n - 1] = w
       /\ n = (IF heal[r] THEN 3 ELSE 2)
       /\ heal[r] => t[1] = Break
  BY <1>7, <1>8
<1>13. g \in Seq(Pieces) /\ Len(f) \in Nat /\ Len(g) = Len(f) + n
  <2>1. t \in Seq(Pieces)
    BY <1>12
  <2>2. f \o t \in Seq(Pieces) /\ Len(f \o t) = Len(f) + Len(t)
    BY <2>1, ConcatProperties
  <2>3. QED
    BY <2>2
<1>14. \A i \in 1..(Len(f) + n) : g[i] = IF i <= Len(f) THEN f[i] ELSE t[i - Len(f)]
  BY <1>12, ConcatProperties
<1> HIDE DEF g, n
<1>15. DOMAIN g = 1..(Len(f) + n) /\ g[Len(f) + n] = Break
  <2>1. Len(f) + n \in 1..(Len(f) + n) /\ ~(Len(f) + n <= Len(f)) /\ Len(f) + n - Len(f) = n
    BY <1>12, <1>13
  <2>2. QED
    BY <1>12, <1>13, <1>14, <2>1
<1>16. g[Len(g)] = Break /\ g # <<>>
  BY <1>12, <1>13, <1>15
<1>17. ASSUME heal[r] \/ f = <<>> \/ f[Len(f)] = Break
       PROVE  OnItsOwnLine(g, r)
  <2> DEFINE k == Len(f) + n - 1
  <2>1. /\ k \in 1..(Len(f) + n) /\ k < Len(f) + n /\ ~(k <= Len(f)) /\ k - Len(f) = n - 1
        /\ k + 1 = Len(f) + n
    BY <1>12, <1>13
  <2>2. g[k] = w /\ g[k + 1] = Break
    BY <1>12, <1>14, <1>15, <2>1
  <2>3. k = 1 \/ g[k - 1] = Break
    <3>1. CASE heal[r]
      <4>1. k - 1 = Len(f) + 1 /\ k - 1 \in 1..(Len(f) + n) /\ ~(k - 1 <= Len(f)) /\ k - 1 - Len(f) = 1
        BY <1>12, <1>13, <3>1
      <4>2. QED
        BY <1>12, <1>14, <3>1, <4>1
    <3>2. CASE ~heal[r] /\ f = <<>>
      <4>1. Len(f) = 0 /\ n = 2
        BY <1>12, <3>2
      <4>2. QED
        BY <4>1
    <3>3. CASE ~heal[r] /\ f # <<>> /\ f[Len(f)] = Break
      <4>1. Len(f) # 0
        BY <1>13, <3>3, EmptySeq
      <4>2. k - 1 = Len(f) /\ k - 1 \in 1..(Len(f) + n)
        BY <1>12, <1>13, <3>3, <4>1
      <4>3. QED
        BY <1>14, <3>3, <4>2
    <3>4. QED
      BY <1>17, <3>1, <3>2, <3>3
  <2> HIDE DEF k
  <2>4. k \in DOMAIN g /\ k < Len(g)
    BY <1>13, <1>15, <2>1
  <2>5. QED
    BY <2>2, <2>3, <2>4 DEF OnItsOwnLine, w
<1>18. QED
  BY <1>4a, <1>7, <1>10, <1>11, <1>16, <1>17 DEF g

\* A step of call r that leaves the files alone.
LEMMA LeavesFiles ==
  ASSUME LogInv, NEW r \in Records, NEW x \in Places, at[r] # "written",
         at' = [at EXCEPT ![r] = x], log' = log, archive' = archive,
         heal' \in [Records -> BOOLEAN], spoilt' \in [Records -> BOOLEAN],
         \A q \in Records \ {r} : heal'[q] = heal[q] /\ spoilt'[q] = spoilt[q],
         x = "append" /\ ~heal'[r] /\ ~spoilt'[r] => ~Torn(log)
  PROVE  LogInv'
<1>1. at' \in [Records -> Places] /\ at'[r] = x /\ \A q \in Records \ {r} : at'[q] = at[q]
  BY DEF LogInv
<1>2. ~Holds(log, r) /\ ~Holds(archive, r)
  BY DEF LogInv
<1>3. \A q \in Records : Holds(log, q) \/ Holds(archive, q) => at'[q] = "written"
  BY <1>1, <1>2 DEF LogInv
<1>4. \A q \in Records : at'[q] = "append" /\ ~heal'[q] /\ ~spoilt'[q] => ~Torn(log)
  BY <1>1 DEF LogInv
<1>5. \A q \in Records : \A file \in {log, archive} : Holds(file, q) /\ ~spoilt'[q] => OnItsOwnLine(file, q)
  BY <1>2 DEF LogInv, WrittenRecordParses
<1> HIDE DEF Holds, OnItsOwnLine, Torn
<1>6. QED
  BY <1>1, <1>3, <1>4, <1>5 DEF LogInv, WrittenRecordParses, LogFile

\* A step of call r that appends text to the log.
LEMMA AppendsText ==
  ASSUME LogInv, NEW r \in Records, NEW x \in Places, at[r] # "written",
         at' = [at EXCEPT ![r] = x], archive' = archive, heal' = heal,
         NEW f, f = IF log = Missing THEN <<>> ELSE log,
         NEW t \in Seq(Pieces), log' = f \o t,
         spoilt' \in [Records -> BOOLEAN],
         \A q \in Records : spoilt[q] => spoilt'[q],
         \A q \in Records, k \in DOMAIN t : t[k] = Piece(q, "whole") => q = r /\ x = "written",
         x = "written" /\ ~spoilt[r] => OnItsOwnLine(f \o t, r),
         x # "append",
         \A q \in Records : at[q] = "append" /\ ~spoilt'[q] /\ q # r => ~Torn(f \o t)
  PROVE  LogInv'
<1>1. at' \in [Records -> Places] /\ at'[r] = x /\ \A q \in Records \ {r} : at'[q] = at[q]
  BY DEF LogInv
<1>2. ~Holds(log, r) /\ ~Holds(archive, r)
  BY DEF LogInv
<1>3. f \in Seq(Pieces)
  BY EmptySeq DEF LogInv, LogFile
<1>4. \A q : (\E k \in DOMAIN f : f[k] = Piece(q, "whole")) => Holds(log, q)
  BY DEF Holds
<1>5. \A q : OnItsOwnLine(f, q) => OnItsOwnLine(f \o t, q)
  BY <1>3, AppendedLines
<1>6. \A q \in Records : Holds(f \o t, q) => Holds(log, q) \/ (q = r /\ x = "written")
  BY <1>3, <1>4, AppendedLines
<1>7. f \o t \in LogFile
  BY <1>3, AppendedLines DEF LogFile
<1>8. \A q \in Records : Holds(log, q) /\ ~spoilt[q] => OnItsOwnLine(f, q)
  <2>1. \A q : Holds(log, q) => f = log
    BY DEF Holds
  <2>2. QED
    BY <2>1 DEF LogInv, WrittenRecordParses
<1>9. \A q \in Records : Holds(log', q) \/ Holds(archive', q) => at'[q] = "written"
  BY <1>1, <1>2, <1>6 DEF LogInv
<1>10. \A q \in Records : at'[q] = "append" /\ ~heal'[q] /\ ~spoilt'[q] => ~Torn(log')
  BY <1>1
<1>11. \A q \in Records : Holds(log', q) /\ ~spoilt'[q] => OnItsOwnLine(log', q)
  BY <1>5, <1>6, <1>8
<1>12. \A q \in Records : Holds(archive', q) /\ ~spoilt'[q] => OnItsOwnLine(archive', q)
  BY DEF LogInv, WrittenRecordParses
<1>13. QED
  BY <1>1, <1>7, <1>9, <1>10, <1>11, <1>12 DEF LogInv, WrittenRecordParses

LEMMA LogStep == LogInv /\ [LogNext]_logVars => LogInv'
<1> SUFFICES ASSUME LogInv, [LogNext]_logVars
             PROVE  LogInv'
  OBVIOUS
<1>1. ASSUME NEW r \in Records, Logs(r) \/ Ensures(r) \/ Latches(r) \/ Measures(r)
      PROVE  LogInv'
  <2>1. PICK x \in Places \ {"append"} : at' = [at EXCEPT ![r] = x]
    <3>1. Logs(r) => at' = [at EXCEPT ![r] = "stat"] \/ at' = [at EXCEPT ![r] = "mkdir"]
      BY DEF Logs
    <3>2. Ensures(r) => at' = [at EXCEPT ![r] = "latch"] \/ at' = [at EXCEPT ![r] = "failed"]
      BY DEF Ensures, Moves, Fails
    <3>3. Latches(r) => at' = [at EXCEPT ![r] = "stat"]
      BY DEF Latches, Moves
    <3>4. Measures(r) => at' = [at EXCEPT ![r] = "rename"] \/ at' = [at EXCEPT ![r] = "look"]
      BY DEF Measures
    <3>5. QED
      BY <1>1, <3>1, <3>2, <3>3, <3>4 DEF Places
  <2>2. at[r] # "written" /\ UNCHANGED <<log, archive, heal, spoilt>>
    BY <1>1 DEF Logs, Ensures, Latches, Measures, Moves
  <2>3. QED
    BY <2>1, <2>2, LeavesFiles DEF LogInv, Places
<1>2. ASSUME NEW r \in Records, Looks(r)
      PROVE  LogInv'
  <2>1. CASE Fails(r) /\ UNCHANGED <<heal, spoilt>>
    BY <1>2, <2>1, LeavesFiles DEF LogInv, Places, Looks, Fails
  <2>2. CASE /\ Moves(r, "look", "append")
             /\ heal' = [heal EXCEPT ![r] = Torn(log)]
             /\ spoilt' = [spoilt EXCEPT ![r] = FALSE]
    <3>1. Torn(log) \in BOOLEAN
      BY DEF Torn
    <3>2. PICK b \in BOOLEAN : b = Torn(log)
      BY <3>1
    <3>3. heal' = [heal EXCEPT ![r] = b] /\ spoilt' = [spoilt EXCEPT ![r] = FALSE]
      BY <2>2, <3>2
    <3>4. /\ heal' \in [Records -> BOOLEAN] /\ spoilt' \in [Records -> BOOLEAN]
          /\ \A q \in Records \ {r} : heal'[q] = heal[q] /\ spoilt'[q] = spoilt[q]
      BY <3>3 DEF LogInv
    <3>5. heal'[r] <=> Torn(log)
      BY <3>2, <3>3 DEF LogInv
    <3>6. /\ at[r] # "written" /\ at' = [at EXCEPT ![r] = "append"]
          /\ log' = log /\ archive' = archive
      BY <1>2, <2>2 DEF Looks, Moves
    <3>7. QED
      BY <3>4, <3>5, <3>6, LeavesFiles DEF Places
  <2>3. QED
    BY <1>2, <2>1, <2>2 DEF Looks
<1>3. ASSUME NEW r \in Records, Rotates(r)
      PROVE  LogInv'
  <2>1. at[r] # "written" /\ at' = [at EXCEPT ![r] = "look"] /\ heal' = heal /\ spoilt' = spoilt
    BY <1>3 DEF Rotates, Moves
  <2>2. CASE UNCHANGED <<log, archive>>
    BY <2>1, <2>2, LeavesFiles DEF LogInv, Places
  <2>3. CASE archive' = log /\ log' = Missing
    <3>1. at' \in [Records -> Places] /\ at'[r] = "look" /\ \A q \in Records \ {r} : at'[q] = at[q]
      BY <2>1 DEF LogInv, Places
    <3>2. ~Torn(log') /\ \A q : ~Holds(log', q)
      BY <2>3 DEF Torn, Holds
    <3>3. \A q \in Records : Holds(archive', q) => at'[q] = "written"
      BY <2>1, <2>3, <3>1 DEF LogInv
    <3>4. \A q \in Records : Holds(archive', q) /\ ~spoilt'[q] => OnItsOwnLine(archive', q)
      BY <2>1, <2>3 DEF LogInv, WrittenRecordParses
    <3>5. QED
      BY <2>1, <2>3, <3>1, <3>2, <3>3, <3>4 DEF LogInv, WrittenRecordParses, LogFile
  <2>4. QED
    BY <1>3, <2>2, <2>3 DEF Rotates
<1>4. ASSUME NEW r \in Records, Writes(r)
      PROVE  LogInv'
  <2>1. PICK f, t : f = (IF log = Missing THEN <<>> ELSE log) /\ t = Text(r, TRUE)
    OBVIOUS
  <2>2. /\ at[r] = "append" /\ at' = [at EXCEPT ![r] = "written"]
        /\ log' = f \o t /\ UNCHANGED <<archive, heal, spoilt>>
    BY <1>4, <2>1 DEF Writes, Moves, Adds
  <2>3. f \in Seq(Pieces)
    BY <2>1, EmptySeq DEF LogInv, LogFile
  <2>4. /\ t \in Seq(Pieces)
        /\ \A q, k : k \in DOMAIN t /\ t[k] = Piece(q, "whole") => q = r
        /\ heal[r] \/ f = <<>> \/ f[Len(f)] = Break => OnItsOwnLine(f \o t, r)
        /\ f \o t # <<>> /\ (f \o t)[Len(f \o t)] = Break
    BY <2>1, <2>3, WrittenText DEF LogInv
  <2>5. ~Torn(f \o t)
    BY <2>4 DEF Torn
  <2>6. ~spoilt[r] => OnItsOwnLine(f \o t, r)
    <3>1. ~Torn(log) => f = <<>> \/ f[Len(f)] = Break
      BY <2>1 DEF Torn
    <3>2. ~spoilt[r] => heal[r] \/ ~Torn(log)
      BY <2>2 DEF LogInv
    <3>3. QED
      BY <2>4, <3>1, <3>2
  <2>7. spoilt' \in [Records -> BOOLEAN] /\ \A q \in Records : spoilt[q] => spoilt'[q]
    BY <2>2 DEF LogInv
  <2>8. \A q \in Records, k \in DOMAIN t : t[k] = Piece(q, "whole") => q = r
    BY <2>4
  <2>9. LogInv /\ at[r] # "written" /\ t \in Seq(Pieces) /\ archive' = archive /\ heal' = heal
    BY <2>2, <2>4
  <2>10. f = (IF log = Missing THEN <<>> ELSE log) /\ "written" \in Places /\ "written" # "append"
    BY <2>1 DEF Places
  <2>11. QED
    BY <2>2, <2>5, <2>6, <2>7, <2>8, <2>9, <2>10, AppendsText
<1>5. ASSUME NEW r \in Records, Breaks(r)
      PROVE  LogInv'
  <2>1. at[r] = "append" /\ at' = [at EXCEPT ![r] = "failed"] /\ UNCHANGED <<archive, heal>>
    BY <1>5 DEF Breaks, Fails
  <2>2. CASE UNCHANGED <<log, spoilt>>
    BY <2>1, <2>2, LeavesFiles DEF LogInv, Places
  <2>3. CASE Adds(Text(r, FALSE)) /\ spoilt' = [q \in Records |-> spoilt[q] \/ at[q] = "append"]
    <3>1. PICK f, t : f = (IF log = Missing THEN <<>> ELSE log) /\ t = Text(r, FALSE)
      OBVIOUS
    <3>2. log' = f \o t
      BY <2>3, <3>1 DEF Adds
    <3>3. f \in Seq(Pieces)
      BY <3>1, EmptySeq DEF LogInv, LogFile
    <3>4. t \in Seq(Pieces) /\ \A q, k : k \in DOMAIN t => t[k] # Piece(q, "whole")
      <4>1. heal \in [Records -> BOOLEAN]
        BY DEF LogInv
      <4>2. /\ Text(r, FALSE) \in Seq(Pieces)
            /\ \A q, k : k \in DOMAIN Text(r, FALSE) => Text(r, FALSE)[k] # Piece(q, "whole")
        BY <3>3, <4>1, WrittenText
      <4>3. QED
        BY <3>1, <4>2
    <3>5. /\ spoilt' \in [Records -> BOOLEAN]
          /\ \A q \in Records : spoilt[q] => spoilt'[q]
          /\ \A q \in Records : at[q] = "append" => spoilt'[q]
      BY <2>3 DEF LogInv
    <3>6. \A q \in Records, k \in DOMAIN t : t[k] # Piece(q, "whole")
      BY <3>4
    <3>7. LogInv /\ at[r] # "written" /\ t \in Seq(Pieces) /\ archive' = archive /\ heal' = heal
      BY <2>1, <3>4
    <3>8. f = (IF log = Missing THEN <<>> ELSE log) /\ "failed" \in Places /\ "failed" # "append"
      BY <3>1 DEF Places
    <3>9. PICK x \in Places : x = "failed"
      BY <3>8
    <3>10. x # "append" /\ x # "written" /\ at' = [at EXCEPT ![r] = x]
      BY <2>1, <3>9
    <3>11. \A q \in Records, k \in DOMAIN t : t[k] = Piece(q, "whole") => q = r /\ x = "written"
      BY <3>6
    <3>12. \A q \in Records : at[q] = "append" /\ ~spoilt'[q] /\ q # r => ~Torn(f \o t)
      BY <3>5
    <3>13. QED
      BY <3>2, <3>5, <3>7, <3>8, <3>10, <3>11, <3>12, AppendsText
  <2>4. QED
    BY <1>5, <2>2, <2>3 DEF Breaks
<1>6. ASSUME Removed
      PROVE  LogInv'
  <2>1. ~Torn(log') /\ \A q : ~Holds(log', q) /\ ~Holds(archive', q)
    BY <1>6 DEF Removed, Torn, Holds
  <2>2. QED
    BY <1>6, <2>1 DEF Removed, LogInv, WrittenRecordParses, LogFile
<1>7. CASE UNCHANGED logVars
  BY <1>7 DEF logVars, LogInv, WrittenRecordParses, Holds, Torn, OnItsOwnLine
<1>8. QED
  BY <1>1, <1>2, <1>3, <1>4, <1>5, <1>6, <1>7 DEF LogNext

\* The log stays parseable for any number of overlapping calls, whatever the size at
\* which it is rotated.
THEOREM WrittenRecordsParse == LogSpec => []WrittenRecordParses
<1>1. LogInit => LogInv
  <2> SUFFICES ASSUME LogInit
               PROVE  LogInv
    OBVIOUS
  <2>1. ~Torn(log) /\ \A q : ~Holds(log, q) /\ ~Holds(archive, q)
    BY DEF LogInit, Torn, Holds
  <2>2. QED
    BY <2>1 DEF LogInit, LogInv, WrittenRecordParses, LogFile, Places
<1>2. LogInv => WrittenRecordParses
  BY DEF LogInv
<1>3. QED
  BY <1>1, <1>2, LogStep, PTL DEF LogSpec
=============================================================================
