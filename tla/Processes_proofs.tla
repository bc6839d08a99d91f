--------------------------- MODULE Processes_proofs ---------------------------
(***************************************************************************)
(* The programs that start others and wait for them.                       *)
(*                                                                         *)
(* RoutePool: a batch of any length, on any number of workers, returns     *)
(* every result in its place.  AgentLoop: with any options, any limit of   *)
(* history and any number of crashes, work that was once recorded is not   *)
(* run again, and the closed generations share out what was done.          *)
(* VerifyEdit: for any number of overlapping calls, what a verification    *)
(* reports is what the commands it started did.                            *)
(*                                                                         *)
(* ConfigSync: whatever machines go and come back, every agent returns to  *)
(* where it ran.                                                           *)
(***************************************************************************)
EXTENDS RoutePool, AgentLoop, VerifyEdit, ConfigSync, Operators_proofs

(* RoutePool *)

PoolTyped ==
  /\ items \in Nat
  /\ nextIndex \in Nat \ {0} /\ nextIndex <= items + 1
  /\ working \in [Workers -> 0 .. items]
  /\ results \in [1 .. items -> 0 .. items]
  /\ stopped \in BOOLEAN

\* Every item that was taken is stored or awaited, unless a call failed ...
Taken == stopped \/ \A i \in 1 .. items : i < nextIndex => (results[i] = i \/ \E w \in Workers : working[w] = i)

\* ... and no worker rests while there are items to take.
Busy == (~stopped /\ nextIndex <= items) => \A w \in Workers : working[w] # 0

PoolInv == PoolTyped /\ Taken /\ Busy

LEMMA PoolInvInit == PoolInit => PoolInv
<1> SUFFICES ASSUME PoolInit PROVE PoolInv
  OBVIOUS
<1> USE PoolAssumption DEF PoolInit, Workers
<1>1. items \in Nat /\ stopped = FALSE
  OBVIOUS
<1>2. PoolTyped
  <2>1. nextIndex \in Nat \ {0} /\ nextIndex <= items + 1
    BY <1>1
  <2>2. \A w \in 1 .. Limit : (IF w <= items THEN w ELSE 0) \in 0 .. items
    BY <1>1
  <2>3. working \in [1 .. Limit -> 0 .. items]
    BY <2>2
  <2>4. results \in [1 .. items -> 0 .. items]
    BY <1>1
  <2> QED
    BY <1>1, <2>1, <2>3, <2>4 DEF PoolTyped
<1>3. Taken
  <2> SUFFICES ASSUME NEW i \in 1 .. items, i < nextIndex PROVE \E w \in Workers : working[w] = i
    BY DEF Taken
  <2>1. i \in Workers
    BY <1>1
  <2>2. working[i] = i
    BY <2>1, <1>1
  <2> QED
    BY <2>1, <2>2
<1>4. Busy
  BY <1>1 DEF Busy
<1> QED
  BY <1>2, <1>3, <1>4 DEF PoolInv

\* Storing a result and taking the next item.
LEMMA StoresKeeps == ASSUME NEW w \in Workers, PoolInv, Stores(w) PROVE PoolInv'
<1> USE DEF PoolInv, PoolTyped, Stores, Takes
<1>1. PoolTyped'
  <2>1. CASE stopped \/ nextIndex > items
    BY <2>1
  <2>2. CASE ~stopped /\ nextIndex <= items
    <3>1. nextIndex \in 0 .. items /\ nextIndex + 1 \in Nat \ {0}
      BY <2>2
    <3> QED
      BY <2>2, <3>1
  <2> QED
    BY <2>1, <2>2
<1>2. Taken'
  <2> SUFFICES ASSUME ~stopped, NEW i \in 1 .. items, i < nextIndex'
               PROVE  results'[i] = i \/ \E v \in Workers : working'[v] = i
    BY DEF Taken
  <2>1. CASE i = working[w]
    BY <2>1
  <2>2. CASE i # working[w] /\ i < nextIndex
    <3>1. results[i] = i \/ \E v \in Workers : working[v] = i
      BY <2>2 DEF Taken
    <3>2. CASE results[i] = i
      BY <2>2, <3>2
    <3>3. ASSUME NEW v \in Workers, working[v] = i PROVE working'[v] = i
      BY <2>2, <3>3
    <3> QED
      BY <3>1, <3>2, <3>3
  <2>3. CASE i # working[w] /\ ~(i < nextIndex)
    <3>1. nextIndex <= items /\ i = nextIndex
      BY <2>3
    <3>2. working'[w] = i
      BY <3>1
    <3> QED
      BY <3>2
  <2> QED
    BY <2>1, <2>2, <2>3
<1>3. Busy'
  BY DEF Busy
<1> QED
  BY <1>1, <1>2, <1>3

LEMMA FailsKeeps == ASSUME NEW w \in Workers, PoolInv, Fails(w) PROVE PoolInv'
  BY DEF PoolInv, PoolTyped, Taken, Busy, Fails

LEMMA PoolInvariant == PoolSpec => []PoolInv
<1>1. PoolInv /\ [PoolNext]_poolVars => PoolInv'
  <2> SUFFICES ASSUME PoolInv, [PoolNext]_poolVars PROVE PoolInv'
    OBVIOUS
  <2>1. CASE PoolNext
    BY <2>1, StoresKeeps, FailsKeeps DEF PoolNext
  <2>2. CASE UNCHANGED poolVars
    BY <2>2 DEF poolVars, PoolInv, PoolTyped, Taken, Busy
  <2> QED
    BY <2>1, <2>2
<1> QED
  BY <1>1, PoolInvInit, PTL DEF PoolSpec

\* A batch that did not fail returns the result of every item at the item's index, for any number
\* of items and workers and any order in which the calls end (mapWithConcurrency).
THEOREM BatchComplete == PoolSpec => []BatchIsWhole
<1>1. PoolInv => BatchIsWhole
  <2> SUFFICES ASSUME PoolInv, ~stopped, \A w \in Workers : working[w] = 0, NEW i \in 1 .. items
               PROVE  results[i] = i
    BY DEF BatchIsWhole
  <2>1. 1 \in Workers
    BY PoolAssumption DEF Workers
  <2>2. nextIndex > items
    BY <2>1 DEF PoolInv, Busy, PoolTyped
  <2>3. i < nextIndex /\ i # 0
    BY <2>2 DEF PoolInv, PoolTyped
  <2> QED
    BY <2>3 DEF PoolInv, Taken
<1> QED
  BY <1>1, PoolInvariant, PTL

-----------------------------------------------------------------------------
(* AgentLoop *)

LoopTyped ==
  /\ recorded \in Nat
  /\ manifest \in Manifest
  /\ disk \in Manifest \cup {Absent, Torn}
  /\ pc # "down" => opts \in Options
  /\ then \in {"down", "head", "preflight"}
  /\ pc \in {"boundary", "bound"} => manifest.index \in Nat
  /\ unread => pc \in {"truncate", "down"}

\* What is in memory, and what is whole on disk, is never behind a manifest that was once
\* written in full; no file at all means there never was one.  A start that could not
\* read the file is behind it, until it has written its own over it.
NeverBehind ==
  /\ pc # "down" /\ ~unread => manifest.iteration >= recorded
  /\ disk \notin {Absent, Torn} => disk.iteration >= recorded
  /\ disk = Absent => recorded = 0

LoopInv == LoopTyped /\ NeverBehind

LEMMA KeptIsSequence ==
  ASSUME NEW h \in Seq(Nat), NEW n \in Nat
  PROVE  Kept(Append(h, n)) \in Seq(Nat)
<1>1. PICK s : s = Append(h, n)
  OBVIOUS
<1>2. s \in Seq(Nat) /\ Len(s) \in Nat
  BY <1>1, AppendProperties
<1>3. PICK k : k = IF Len(s) > HistoryLimit THEN Len(s) - HistoryLimit + 1 ELSE 1
  OBVIOUS
<1>4. k \in 1 .. Len(s) + 1
  BY <1>2, <1>3, LoopAssumption
<1>5. SubSeq(s, k, Len(s)) \in Seq(Nat)
  BY <1>2, <1>4, SubSeqProperties
<1>6. QED
  BY <1>1, <1>3, <1>5 DEF Kept

\* The manifest after an iteration is a manifest, one iteration on.
LEMMA RecordedMovesOn ==
  ASSUME manifest \in Manifest, opts \in Options, NEW done \in BOOLEAN, NEW state \in States
  PROVE  Recorded(done, state) \in Manifest /\ Recorded(done, state).iteration = manifest.iteration + 1
<1>1. Iteration \in Nat /\ Iteration = manifest.iteration + 1
  BY DEF Iteration, Manifest
<1>2. PICK h : h = Kept(Append(manifest.history, Iteration))
  OBVIOUS
<1>3. h \in Seq(Nat)
  <2>1. manifest.history \in Seq(Nat)
    BY DEF Manifest
  <2>2. QED
    BY <1>1, <1>2, <2>1, KeptIsSequence
<1>4. PICK stalled : stalled = IF before # work \/ state = "GENERATION_CLOSE" THEN 0 ELSE manifest.stalled + 1
  OBVIOUS
<1>5. stalled \in Nat
  BY <1>4 DEF Manifest
<1>6. PICK v : v = Verdict(done, state, stalled)
  OBVIOUS
<1>7. v \in Statuses
  BY <1>6 DEF Verdict, Statuses
<1>8. [manifest EXCEPT !.iteration = Iteration, !.stalled = stalled, !.history = h, !.status = v] \in Manifest
  BY <1>1, <1>3, <1>5, <1>7 DEF Manifest
<1>9. Recorded(done, state)
        = [manifest EXCEPT !.iteration = Iteration, !.stalled = stalled, !.history = h, !.status = v]
  BY <1>2, <1>4, <1>6 DEF Recorded
<1>10. QED
  BY <1>1, <1>8, <1>9 DEF Manifest

LEMMA LoopInvInit == Init => LoopInv
<1>1. NewManifest \in Manifest
  BY DEF NewManifest, Manifest, Statuses, NoGeneration
<1>2. QED
  BY <1>1, LoopAssumption DEF Init, LoopInv, LoopTyped, NeverBehind

LEMMA StartsKeepsUp ==
  ASSUME LoopInv, NEW o \in Options, NEW seen \in {disk, Absent}, Starts(o, seen)
  PROVE  LoopInv'
<1> USE DEF LoopInv, LoopTyped, NeverBehind
<1>1. CASE ReadManifest(seen) = Torn
  BY <1>1, LoopAssumption DEF Starts, ReadManifest, NewManifest, Manifest
<1>2. CASE ReadManifest(seen) # Torn
  <2>1. PICK m : m = ReadManifest(seen)
    OBVIOUS
  <2>2. NewManifest \in Manifest /\ NewManifest.iteration = 0
    BY DEF NewManifest, Manifest, Statuses, NoGeneration
  <2>3. m \in Manifest /\ (seen = disk => m.iteration >= recorded)
    <3>1. CASE seen = Absent
      BY <2>1, <2>2, <3>1 DEF ReadManifest
    <3>2. CASE seen # Absent
      <4>1. disk \notin {Absent, Torn} /\ m = disk
        BY <1>2, <2>1, <3>2 DEF ReadManifest
      <4>2. QED
        BY <4>1
    <3>3. QED
      BY <3>1, <3>2
  <2>4. WithOptions(m, o) \in Manifest /\ WithOptions(m, o).iteration = m.iteration
    <3>1. m.iteration + 1 \in Nat
      BY <2>3 DEF Manifest
    <3>2. [m EXCEPT !.status = "running", !.index = 0, !.start = m.iteration + 1] \in Manifest
      BY <2>3, <3>1 DEF Manifest, Statuses
    <3>3. [m EXCEPT !.status = "running"] \in Manifest
      BY <2>3 DEF Manifest, Statuses
    <3>4. QED
      BY <2>3, <3>2, <3>3 DEF WithOptions, Manifest
  <2>5. manifest' = WithOptions(m, o)
    BY <1>2, <2>1 DEF Starts
  <2>6. /\ pc' = "truncate" /\ then' \in {"head", "preflight"} /\ opts' = o
        /\ unread' = (seen # disk) /\ UNCHANGED <<disk, recorded>>
    BY <1>2 DEF Starts, Writes
  <2>7. QED
    BY <2>3, <2>4, <2>5, <2>6
<1>3. QED
  BY <1>1, <1>2

LEMMA ConcludesKeepsUp ==
  ASSUME LoopInv, NEW done \in BOOLEAN, NEW state \in States, Concludes(done, state)
  PROVE  LoopInv'
<1> USE DEF LoopInv, LoopTyped, NeverBehind
<1>1. PICK m : m = Recorded(done, state)
  OBVIOUS
<1>2. pc = "agent" /\ opts \in Options /\ ~unread
  BY DEF Concludes
<1>3. m \in Manifest /\ m.iteration = manifest.iteration + 1
  BY <1>1, <1>2, RecordedMovesOn
<1>4. manifest.iteration \in Nat /\ manifest.iteration >= recorded
  BY <1>2 DEF Manifest
<1>5. UNCHANGED <<opts, disk, recorded, unread>>
  BY DEF Concludes
<1>6. CASE ClosesGeneration(done, state)
  <2>1. PICK g : g = IF m.index = NoGeneration THEN [m EXCEPT !.index = 0, !.start = 1] ELSE m
    OBVIOUS
  <2>2. [m EXCEPT !.index = 0, !.start = 1] \in Manifest
    BY <1>3 DEF Manifest
  <2>3. g \in Manifest /\ g.iteration = m.iteration /\ g.index \in Nat
    BY <1>3, <2>1, <2>2 DEF Manifest, NoGeneration
  <2>4. manifest' = g /\ pc' = "boundary" /\ then' \in {"down", "head"}
    BY <1>1, <1>6, <2>1 DEF Concludes
  <2>5. QED
    BY <1>2, <1>3, <1>4, <1>5, <2>3, <2>4
<1>7. CASE ~ClosesGeneration(done, state)
  <2>1. manifest' = m /\ pc' = "truncate" /\ then' \in {"down", "head"}
    BY <1>1, <1>7 DEF Concludes, Writes
  <2>2. QED
    BY <1>2, <1>3, <1>4, <1>5, <2>1
<1>8. QED
  BY <1>6, <1>7

LEMMA LoopInvStep == LoopInv /\ [Next]_vars => LoopInv'
<1> SUFFICES ASSUME LoopInv, [Next]_vars PROVE LoopInv'
  OBVIOUS
<1> USE DEF LoopInv, LoopTyped, NeverBehind
<1>1. CASE Truncates
  <2>1. /\ pc = "truncate" /\ pc' = "fill" /\ disk' = Torn /\ ~unread'
        /\ UNCHANGED <<opts, manifest, then>>
    BY <1>1 DEF Truncates
  <2>2. recorded' \in Nat /\ manifest.iteration \in Nat /\ manifest.iteration >= recorded'
    <3>1. manifest.iteration \in Nat
      BY DEF Manifest
    <3>2. CASE unread
      BY <1>1, <3>1, <3>2 DEF Truncates
    <3>3. CASE ~unread
      BY <1>1, <2>1, <3>1, <3>3 DEF Truncates
    <3>4. QED
      BY <3>2, <3>3, <3>1
  <2>3. QED
    BY <2>1, <2>2, LoopAssumption
<1>2. CASE Fills
  <2>1. manifest.iteration \in Nat /\ manifest \notin {Absent, Torn}
    BY LoopAssumption DEF Manifest
  <2>2. QED
    BY <1>2, <2>1 DEF Fills
<1>3. CASE Probes
  BY <1>3 DEF Probes
<1>4. CASE GivesUp
  BY <1>4 DEF GivesUp
<1>5. CASE RunsAgent
  BY <1>5 DEF RunsAgent
<1>6. CASE TruncatesBoundary
  BY <1>6 DEF TruncatesBoundary
<1>7. CASE FillsBoundary
  <2>1. manifest.iteration + 1 \in Nat /\ manifest.index \in Nat /\ manifest.index + 1 \in Nat
    BY <1>7 DEF FillsBoundary, Manifest
  <2>2. [manifest EXCEPT !.index = @ + 1, !.start = manifest.iteration + 1] \in Manifest
    BY <2>1 DEF Manifest
  <2>3. [manifest EXCEPT !.index = @ + 1, !.start = manifest.iteration + 1].iteration = manifest.iteration
    BY DEF Manifest
  <2>4. QED
    BY <1>7, <2>2, <2>3 DEF FillsBoundary
<1>8. ASSUME NEW marker \in BOOLEAN, Probed(marker) PROVE LoopInv'
  <2>1. [manifest EXCEPT !.status = "runner-unhealthy"] \in Manifest
    BY DEF Manifest, Statuses
  <2>2. [manifest EXCEPT !.status = "runner-unhealthy"].iteration = manifest.iteration
    BY DEF Manifest
  <2>3. QED
    BY <1>8, <2>1, <2>2 DEF Probed, Writes
<1>9. CASE ProcessMoves \/ Settles \/ Edits \/ Dies \/ UNCHANGED vars
  BY <1>9 DEF ProcessMoves, Settles, Edits, Dies, vars, loopVars
<1>10. QED
  BY <1>1, <1>2, <1>3, <1>4, <1>5, <1>6, <1>7, <1>8, <1>9, StartsKeepsUp, ConcludesKeepsUp
     DEF Next, LoopStep

LEMMA LoopInvariant == Spec => []LoopInv
  BY LoopInvInit, LoopInvStep, PTL DEF Spec

\* RecordedWorkIsNotRerun: an iteration that a completely written manifest has named
\* is never given to an agent again, however often and wherever the program died, until
\* a start that cannot read that manifest has written a fresh one over it.
THEOREM RecordedWorkNotRerun == Spec => []RecordedWorkIsNotRerun
<1>1. LoopInv => RecordedWorkIsNotRerun
  BY DEF LoopInv, LoopTyped, NeverBehind, RecordedWorkIsNotRerun, Iteration, Manifest
<1>2. QED
  BY <1>1, LoopInvariant, PTL

-----------------------------------------------------------------------------
(* AgentLoop: generations *)

\* The history is the last of the iterations, one after the other.
Recent(m) ==
  LET n == Len(m.history)
  IN  /\ n <= HistoryLimit /\ n <= m.iteration /\ (n = HistoryLimit \/ n = m.iteration)
      /\ \A k \in 1 .. n : m.history[k] = m.iteration - n + k

\* The first iteration of generation 0, once a manifest that has one is written.
Opening(m, o) == IF o > 0 THEN o ELSE IF m.index = 0 THEN m.start ELSE 1

\* An iteration is in the boundary of a closed generation, or older than a history that
\* was full when its generation was closed.
Covered(b, closed, n) ==
  \E i \in closed : \/ n \in b[i].iterations
                   \/ (Cardinality(b[i].iterations) = HistoryLimit /\ \A k \in b[i].iterations : n < k)

\* The generations before index share out the iterations from first to before start.
Shared(b, index, start, first) ==
  LET closed == 0 .. index - 1
  IN  /\ closed \subseteq DOMAIN b /\ \A i \in closed : b[i] \in Boundary
      /\ \A i, j \in closed : \A m \in b[i].iterations, n \in b[j].iterations : i < j => m < n
      /\ \A i \in closed : \A n \in b[i].iterations : first <= n /\ n < start
      /\ \A n \in first .. start - 1 : Covered(b, closed, n)

Partitions(m, b, o) ==
  m.index # NoGeneration =>
     /\ m.index \in Nat /\ m.start \in Nat
     /\ 0 < Opening(m, o) /\ Opening(m, o) <= m.start /\ m.start <= m.iteration + 1
     /\ Shared(b, m.index, m.start, Opening(m, o))

Readable == disk \notin {Absent, Torn}
Running == pc # "down"

\* What the manifest in memory is measured against: a fresh one that is about to replace
\* one the start could not read, against none.
OpenedSoFar == IF unread THEN 0 ELSE opened

PartitionInv ==
  /\ opened \in Nat
  /\ Running => Recent(manifest) /\ Partitions(manifest, boundaries, OpenedSoFar)
  /\ Readable => Recent(disk) /\ Partitions(disk, boundaries, opened)
  /\ Readable => (disk.index # NoGeneration <=> opened > 0)
  /\ disk = Absent => opened = 0
  /\ Running /\ OpenedSoFar > 0 => manifest.index # NoGeneration
  /\ Running /\ Readable /\ OpenedSoFar > 0 => disk.index <= manifest.index
  /\ pc \in {"preflight", "probing", "head", "agent"} /\ manifest.index # NoGeneration => opened > 0
  /\ pc \in {"boundary", "bound"} =>
       /\ manifest.index # NoGeneration /\ manifest.start <= manifest.iteration
       /\ opened = 0 => manifest.index = 0 /\ manifest.start = 1

LEMMA KeptIsRecent ==
  ASSUME NEW h \in Seq(Nat), NEW it \in Nat, NEW n \in Nat, n = Len(h),
         n <= HistoryLimit, n <= it, n = HistoryLimit \/ n = it,
         \A k \in 1 .. n : h[k] = it - n + k,
         NEW g, g = Kept(Append(h, it + 1))
  PROVE  \E l \in Nat : /\ l = Len(g) /\ l <= HistoryLimit /\ l <= it + 1 /\ (l = HistoryLimit \/ l = it + 1)
                        /\ \A k \in 1 .. l : g[k] = (it + 1) - l + k
<1> DEFINE s == Append(h, it + 1)
<1>1. s \in Seq(Nat) /\ Len(s) = n + 1 /\ s[n + 1] = it + 1 /\ \A k \in 1 .. n : s[k] = h[k]
  BY AppendProperties
<1> HIDE DEF s
<1>2. \A k \in 1 .. n + 1 : s[k] = (it - n) + k
  <2> SUFFICES ASSUME NEW k \in 1 .. n + 1 PROVE s[k] = (it - n) + k
    OBVIOUS
  <2>1. CASE k = n + 1
    BY <1>1, <2>1
  <2>2. CASE k # n + 1
    BY <1>1, <2>2
  <2> QED
    BY <2>1, <2>2
<1>3. HistoryLimit \in Nat \ {0}
  BY LoopAssumption
<1>4. g = IF n + 1 > HistoryLimit THEN SubSeq(s, (n + 1) - HistoryLimit + 1, n + 1) ELSE SubSeq(s, 1, n + 1)
  BY <1>1 DEF Kept, s
<1>5. CASE n = HistoryLimit
  <2>1. g = SubSeq(s, 2, n + 1)
    BY <1>3, <1>4, <1>5
  <2>2. 2 \in 1 .. Len(s) + 1 /\ n + 1 \in 2 - 1 .. Len(s) /\ (n + 1) - 2 + 1 = n
    BY <1>1, <1>3, <1>5
  <2>3. Len(g) = n /\ \A k \in 1 .. n : g[k] = s[2 + k - 1]
    BY <1>1, <2>1, <2>2, SubSeqProperties
  <2>4. \A k \in 1 .. n : 2 + k - 1 \in 1 .. n + 1 /\ (it - n) + (2 + k - 1) = (it + 1) - n + k
    OBVIOUS
  <2>5. \A k \in 1 .. n : g[k] = (it + 1) - n + k
    BY <1>2, <2>3, <2>4
  <2> QED
    BY <1>5, <2>3, <2>5
<1>6. CASE n # HistoryLimit
  <2>1. n + 1 <= HistoryLimit /\ n = it
    BY <1>3, <1>6
  <2>2. g = SubSeq(s, 1, n + 1)
    BY <1>3, <1>4, <2>1
  <2>3. 1 \in 1 .. Len(s) + 1 /\ n + 1 \in 1 - 1 .. Len(s) /\ (n + 1) - 1 + 1 = n + 1
    BY <1>1
  <2>4. Len(g) = n + 1 /\ \A k \in 1 .. n + 1 : g[k] = s[1 + k - 1]
    BY <1>1, <2>2, <2>3, SubSeqProperties
  <2>5. \A k \in 1 .. n + 1 : 1 + k - 1 = k /\ (it - n) + k = (it + 1) - (n + 1) + k
    OBVIOUS
  <2>6. \A k \in 1 .. n + 1 : g[k] = (it + 1) - (n + 1) + k
    BY <1>2, <2>4, <2>5
  <2> QED
    BY <2>1, <2>4, <2>6
<1> QED
  BY <1>5, <1>6

\* Other boundary files may change.
LEMMA SharedStays ==
  ASSUME NEW b, NEW c, NEW index \in Nat, NEW start, NEW first, Shared(b, index, start, first),
         DOMAIN b \subseteq DOMAIN c, \A i \in 0 .. index - 1 : c[i] = b[i]
  PROVE  Shared(c, index, start, first)
  BY DEF Shared, Covered

\* A generation that is closed gets what the history holds of it.
LEMMA SharedCloses ==
  ASSUME NEW b, NEW c, NEW index \in Nat, NEW start \in Nat, NEW first \in Nat,
         Shared(b, index, start, first), NEW m \in Manifest, Recent(m),
         0 < first, first <= start, start <= m.iteration,
         DOMAIN b \cup {index} \subseteq DOMAIN c, \A i \in 0 .. index - 1 : c[i] = b[i],
         c[index] = [iterations |-> {n \in {m.history[i] : i \in DOMAIN m.history} : n >= start}]
  PROVE  Shared(c, index + 1, m.iteration + 1, first)
<1> DEFINE S == {n \in {m.history[i] : i \in DOMAIN m.history} : n >= start}
           h == m.history
           it == m.iteration
           closed == 0 .. index - 1
<1>0. PICK l : l = Len(m.history)
  OBVIOUS
<1>1. it \in Nat /\ h \in Seq(Nat) /\ DOMAIN h = 1 .. l /\ l \in Nat
  BY <1>0 DEF Manifest
<1>2. c[index].iterations = S /\ c[index] \in Boundary
  <2>1. S \subseteq Nat
    BY <1>1
  <2> HIDE DEF S
  <2> QED
    BY <2>1 DEF Boundary, S
<1>3. /\ l <= it /\ (l = HistoryLimit \/ l = it)
      /\ \A k \in 1 .. l : h[k] = it - l + k
  BY <1>0 DEF Recent
<1>4. \A n \in Nat : n \in S <=> (start <= n /\ it - l < n /\ n <= it)
  <2> SUFFICES ASSUME NEW n \in Nat PROVE n \in S <=> (start <= n /\ it - l < n /\ n <= it)
    OBVIOUS
  <2>1. ASSUME n \in S PROVE start <= n /\ it - l < n /\ n <= it
    <3>1. n >= start /\ \E k \in 1 .. l : n = h[k]
      BY <1>1, <2>1
    <3> HIDE DEF S, h, it
    <3>2. PICK k \in 1 .. l : n = it - l + k
      BY <1>3, <3>1
    <3> QED
      BY <1>1, <3>1, <3>2
  <2>2. ASSUME start <= n, it - l < n, n <= it PROVE n \in S
    <3>1. n - (it - l) \in 1 .. l /\ it - l + (n - (it - l)) = n
      BY <1>1, <1>3, <2>2
    <3>2. h[n - (it - l)] = n
      BY <1>3, <3>1
    <3> QED
      BY <1>1, <2>2, <3>1, <3>2
  <2> QED
    BY <2>1, <2>2
<1>5. S \subseteq Nat
  BY <1>1
<1> HIDE DEF S, h, it, closed
<1>6. /\ closed \subseteq DOMAIN b /\ \A i \in closed : b[i] \in Boundary
      /\ \A i, j \in closed : \A x \in b[i].iterations, n \in b[j].iterations : i < j => x < n
      /\ \A i \in closed : \A n \in b[i].iterations : first <= n /\ n < start
      /\ \A n \in first .. start - 1 : Covered(b, closed, n)
  BY DEF Shared, closed
<1>7. 0 .. index = closed \cup {index} /\ \A i \in closed : i # index /\ i < index /\ i \in Nat
  BY DEF closed
<1>8. \A i \in closed : c[i] = b[i]
  BY DEF closed
<1>9. 0 .. index \subseteq DOMAIN c /\ \A i \in 0 .. index : c[i] \in Boundary
  BY <1>2, <1>6, <1>7, <1>8
<1>10. \A i, j \in 0 .. index : \A x \in c[i].iterations, n \in c[j].iterations : i < j => x < n
  <2> SUFFICES ASSUME NEW i \in 0 .. index, NEW j \in 0 .. index, NEW x \in c[i].iterations,
                      NEW n \in c[j].iterations, i < j
               PROVE  x < n
    OBVIOUS
  <2>1. i \in closed
    BY <1>7
  <2>2. CASE j \in closed
    BY <1>6, <1>8, <2>1, <2>2
  <2>3. CASE j = index
    <3>1. n \in S /\ start <= n /\ n \in Nat
      BY <1>2, <1>4, <1>5, <2>3
    <3>2. x < start /\ x \in Nat
      BY <1>6, <1>8, <2>1 DEF Boundary
    <3> QED
      BY <3>1, <3>2
  <2> QED
    BY <1>7, <2>2, <2>3
<1>11. \A i \in 0 .. index : \A n \in c[i].iterations : first <= n /\ n < it + 1
  <2> SUFFICES ASSUME NEW i \in 0 .. index, NEW n \in c[i].iterations PROVE first <= n /\ n < it + 1
    OBVIOUS
  <2>1. CASE i \in closed
    <3>1. first <= n /\ n < start /\ n \in Nat
      BY <1>6, <1>8, <2>1 DEF Boundary
    <3> QED
      BY <1>1, <3>1 DEF it
  <2>2. CASE i = index
    <3>1. n \in S /\ start <= n /\ n <= it /\ n \in Nat
      BY <1>2, <1>4, <1>5, <2>2
    <3> QED
      BY <1>1, <3>1
  <2> QED
    BY <1>7, <2>1, <2>2
<1>12. \A n \in first .. it : Covered(c, 0 .. index, n)
  <2> SUFFICES ASSUME NEW n \in first .. it PROVE Covered(c, 0 .. index, n)
    OBVIOUS
  <2>1. CASE n < start
    <3>1. n \in first .. start - 1
      BY <1>1, <2>1
    <3>2. Covered(b, closed, n)
      BY <1>6, <3>1
    <3> QED
      BY <1>7, <1>8, <3>2 DEF Covered
  <2>2. CASE ~(n < start) /\ it - l < n
    <3>1. n \in S
      BY <1>1, <1>4, <2>2
    <3> QED
      BY <1>2, <1>7, <3>1 DEF Covered
  <2>3. CASE ~(n < start) /\ ~(it - l < n)
    <3>1. l = HistoryLimit
      BY <1>1, <1>3, <2>3
    <3>2. S = it - l + 1 .. it
      <4>1. \A k \in Nat : k \in S <=> (it - l < k /\ k <= it)
        BY <1>1, <1>3, <1>4, <2>3
      <4>2. \A k : k \in it - l + 1 .. it <=> (k \in Nat /\ it - l < k /\ k <= it)
        BY <1>1, <1>3
      <4> QED
        BY <1>5, <4>1, <4>2
    <3>3. Cardinality(S) = l
      <4>1. it - l + 1 \in Int /\ it \in Int /\ (it - l + 1 > it => l = 0) /\ it - (it - l + 1) + 1 = l
        BY <1>1
      <4>2. Cardinality(it - l + 1 .. it) = IF it - l + 1 > it THEN 0 ELSE it - (it - l + 1) + 1
        BY <4>1, FS_Interval
      <4> QED
        BY <3>2, <4>1, <4>2
    <3>4. \A k \in S : n < k
      BY <1>1, <2>3, <3>2
    <3> QED
      BY <1>2, <1>7, <3>1, <3>3, <3>4 DEF Covered
  <2> QED
    BY <1>1, <2>1, <2>2, <2>3
<1>13. (index + 1) - 1 = index /\ (it + 1) - 1 = it
  BY <1>1
<1> QED
  BY <1>9, <1>10, <1>11, <1>12, <1>13 DEF Shared, it

\* What a manifest says of generations does not depend on its other fields.
LEMMA SamePlace ==
  ASSUME NEW m, NEW w, NEW b, NEW o, w.iteration = m.iteration, w.history = m.history, w.index = m.index, w.start = m.start
  PROVE  /\ Recent(m) => Recent(w)
         /\ Partitions(m, b, o) => Partitions(w, b, o)
  BY DEF Recent, Partitions, Opening

\* A manifest whose generation 0 has just begun.
LEMMA OpensFirst ==
  ASSUME NEW m, NEW b, NEW o, o = 0, m.index = 0, m.start \in Nat, 0 < m.start, m.iteration \in Nat,
         m.start <= m.iteration + 1
  PROVE  Partitions(m, b, o)
<1>1. Opening(m, o) = m.start
  BY DEF Opening
<1>2. 0 .. m.index - 1 = {}
  OBVIOUS
<1>3. Shared(b, m.index, m.start, m.start)
  BY <1>2 DEF Shared
<1> QED
  BY <1>1, <1>3 DEF Partitions

LEMMA StartsPartitions ==
  ASSUME LoopInv, PartitionInv, NEW o \in Options, NEW seen \in {disk, Absent}, Starts(o, seen)
  PROVE  PartitionInv'
<1>1. pc = "down" /\ unread' = (seen # disk) /\ UNCHANGED <<disk, boundaries, opened>>
  BY DEF Starts
<1>2. CASE ReadManifest(seen) = Torn
  <2>1. UNCHANGED pc
    BY <1>2 DEF Starts
  <2> QED
    BY <1>1, <2>1 DEF PartitionInv, Running, Readable
<1>3. CASE ReadManifest(seen) # Torn
  <2>1. PICK m : m = ReadManifest(seen)
    OBVIOUS
  <2>2. manifest' = WithOptions(m, o) /\ pc' = "truncate"
    BY <1>3, <2>1 DEF Starts, Writes
  <2>3. seen = Absent \/ (Readable /\ seen = disk /\ m = disk)
    BY <1>3, <2>1 DEF ReadManifest, Readable
  <2>4. NewManifest \in Manifest /\ NewManifest.iteration = 0 /\ NewManifest.history = <<>> /\ NewManifest.index = NoGeneration
    BY DEF NewManifest, Manifest, Statuses, NoGeneration
  <2>5. seen = Absent => m = NewManifest
    BY <2>1 DEF ReadManifest
  <2>6. m \in Manifest
    BY <2>3, <2>4, <2>5 DEF LoopInv, LoopTyped, Readable
  <2>7. Recent(m)
    <3>1. Len(NewManifest.history) = 0
      BY <2>4
    <3>2. Recent(NewManifest)
      BY <2>4, <3>1, LoopAssumption DEF Recent
    <3> QED
      BY <2>3, <2>5, <3>2 DEF PartitionInv
  <2> DEFINE first == OpenedSoFar'
  <2>8. Partitions(m, boundaries, first) /\ (m.index # NoGeneration <=> first > 0) /\ first \in Nat
    <3>1. CASE seen = disk
      <4>1. first = opened
        BY <1>1, <3>1 DEF OpenedSoFar
      <4> HIDE DEF first
      <4> QED
        BY <2>3, <2>4, <2>5, <3>1, <4>1 DEF PartitionInv, Partitions
    <3>2. CASE seen # disk
      <4>1. first = 0
        BY <1>1, <3>2 DEF OpenedSoFar
      <4> HIDE DEF first
      <4> QED
        BY <2>3, <2>4, <2>5, <3>2, <4>1 DEF Partitions
    <3> QED
      BY <3>1, <3>2
  <2>9. PICK w : w = WithOptions(m, o)
    OBVIOUS
  <2>10. /\ w.iteration = m.iteration /\ w.history = m.history
         /\ \/ w.index = m.index /\ w.start = m.start
            \/ m.index = NoGeneration /\ w.index = 0 /\ w.start = m.iteration + 1
    BY <2>6, <2>9 DEF WithOptions, Manifest
  <2>11. m.iteration \in Nat /\ NoGeneration # 0 /\ (m.index # NoGeneration => m.index \in Nat)
    BY <2>6, LoopAssumption DEF Manifest, NoGeneration
  <2> HIDE DEF first
  <2>12. Recent(w) /\ Partitions(w, boundaries, first)
    <3>1. CASE w.index = m.index /\ w.start = m.start
      BY <2>7, <2>8, <2>10, <3>1, SamePlace
    <3>2. CASE m.index = NoGeneration /\ w.index = 0 /\ w.start = m.iteration + 1
      <4>1. first = 0
        BY <2>8, <3>2
      <4>2. Recent(w)
        BY <2>7, <2>10 DEF Recent
      <4> QED
        BY <2>10, <2>11, <3>2, <4>1, <4>2, OpensFirst
    <3> QED
      BY <2>10, <3>1, <3>2
  <2>13. first > 0 => w.index = m.index /\ w.index # NoGeneration /\ w.index \in Nat
    BY <2>8, <2>10, <2>11
  <2>14. Readable /\ first > 0 => disk.index <= w.index
    <3>1. first > 0 => seen = disk
      <4>1. CASE seen # disk
        <5>1. first = 0
          BY <1>1, <4>1 DEF first, OpenedSoFar
        <5> QED
          BY <5>1
      <4> QED
        BY <4>1
    <3>2. Readable /\ first > 0 => m = disk
      BY <2>3, <3>1 DEF Readable
    <3> QED
      BY <2>13, <3>2
  <2> QED
    BY <1>1, <2>2, <2>9, <2>12, <2>13, <2>14 DEF PartitionInv, Running, Readable, first
<1> QED
  BY <1>2, <1>3

\* After the truncation the manifest follows what was opened.
LEMMA OpenedSoFarIsAll == LoopInv /\ pc \notin {"truncate", "down"} => ~unread /\ OpenedSoFar = opened
  BY DEF LoopInv, LoopTyped, OpenedSoFar

LEMMA FillsPartitions ==
  ASSUME LoopInv, PartitionInv, Fills
  PROVE  PartitionInv'
<1>0. ~unread /\ OpenedSoFar = opened /\ OpenedSoFar' = opened'
  BY OpenedSoFarIsAll DEF Fills, OpenedSoFar
<1>1. /\ pc = "fill" /\ pc' = then /\ disk' = manifest /\ UNCHANGED <<manifest, boundaries>>
      /\ opened' = IF opened > 0 \/ manifest.index = NoGeneration THEN opened ELSE Opening(manifest, opened)
  BY <1>0 DEF Fills, Opening, PartitionInv
<1>2. /\ Recent(manifest) /\ Partitions(manifest, boundaries, opened) /\ opened \in Nat
      /\ opened > 0 => manifest.index # NoGeneration
  BY <1>0, <1>1 DEF PartitionInv, Running
<1>3. manifest \in Manifest /\ manifest \notin {Absent, Torn}
  BY LoopAssumption DEF LoopInv, LoopTyped
<1>4. pc' \in {"down", "head", "preflight"}
  BY <1>1 DEF LoopInv, LoopTyped
<1>5. CASE manifest.index = NoGeneration
  <2>1. opened = 0 /\ opened' = 0
    BY <1>1, <1>2, <1>5
  <2> QED
    BY <1>0, <1>1, <1>2, <1>3, <1>4, <1>5, <2>1 DEF PartitionInv, Running, Readable, Partitions
<1>6. CASE manifest.index # NoGeneration
  <2>1. opened' = Opening(manifest, opened) /\ 0 < opened' /\ opened' \in Nat
    <3>1. 0 < Opening(manifest, opened)
      BY <1>2, <1>6 DEF Partitions
    <3>2. opened > 0 => Opening(manifest, opened) = opened
      BY DEF Opening
    <3>3. Opening(manifest, opened) \in Nat
      BY <1>2, <1>6 DEF Opening, Partitions
    <3> QED
      BY <1>1, <1>6, <3>1, <3>2, <3>3
  <2>2. Opening(manifest, opened') = Opening(manifest, opened)
    BY <2>1 DEF Opening
  <2>3. Partitions(manifest, boundaries, opened')
    BY <1>2, <2>2 DEF Partitions
  <2>4. manifest.index \in Nat
    BY <1>2, <1>6 DEF Partitions
  <2> QED
    BY <1>0, <1>1, <1>2, <1>3, <1>4, <1>6, <2>1, <2>3, <2>4 DEF PartitionInv, Running, Readable
<1> QED
  BY <1>5, <1>6

LEMMA ConcludesPartitions ==
  ASSUME LoopInv, PartitionInv, NEW done \in BOOLEAN, NEW state \in States, Concludes(done, state)
  PROVE  PartitionInv'
<1>0. OpenedSoFar = opened /\ OpenedSoFar' = opened'
  BY OpenedSoFarIsAll DEF Concludes, OpenedSoFar
<1>1. pc = "agent" /\ UNCHANGED <<disk, boundaries, opened>>
  BY DEF Concludes
<1>2. PICK m : m = Recorded(done, state)
  OBVIOUS
<1>3. manifest \in Manifest /\ opts \in Options
  BY <1>1 DEF LoopInv, LoopTyped
<1>4. m \in Manifest /\ m.iteration = manifest.iteration + 1
  BY <1>2, <1>3, RecordedMovesOn
<1>5. m.index = manifest.index /\ m.start = manifest.start /\ m.history = Kept(Append(manifest.history, manifest.iteration + 1))
  BY <1>2, <1>3 DEF Recorded, Manifest, Iteration
<1>6. Recent(manifest) /\ Partitions(manifest, boundaries, opened) /\ opened \in Nat
  BY <1>0, <1>1 DEF PartitionInv, Running
<1>7. Recent(m)
  <2>1. manifest.history \in Seq(Nat) /\ manifest.iteration \in Nat
    BY <1>3 DEF Manifest
  <2>2. PICK n \in Nat : n = Len(manifest.history)
    BY <2>1
  <2>3. n <= HistoryLimit /\ n <= manifest.iteration /\ (n = HistoryLimit \/ n = manifest.iteration)
    BY <1>6, <2>2 DEF Recent
  <2>4. \A k \in 1 .. n : manifest.history[k] = manifest.iteration - n + k
    BY <1>6, <2>2 DEF Recent
  <2>5. PICK it, h : it = manifest.iteration /\ h = manifest.history
    OBVIOUS
  <2>61. h \in Seq(Nat) /\ it \in Nat /\ n = Len(h)
    BY <2>1, <2>2, <2>5
  <2>62. n <= HistoryLimit
    BY <2>3
  <2>63. n <= it /\ (n = HistoryLimit \/ n = it)
    BY <2>3, <2>5
  <2>64. \A k \in 1 .. n : h[k] = it - n + k
    BY <2>4, <2>5
  <2>7. PICK g : g = Kept(Append(h, it + 1))
    OBVIOUS
  <2>8. \E l \in Nat : /\ l = Len(g) /\ l <= HistoryLimit /\ l <= it + 1 /\ (l = HistoryLimit \/ l = it + 1)
                       /\ \A k \in 1 .. l : g[k] = (it + 1) - l + k
    BY <2>61, <2>62, <2>63, <2>64, <2>7, KeptIsRecent
  <2>9. m.history = g /\ m.iteration = it + 1
    BY <1>4, <1>5, <2>5, <2>7
  <2> QED
    BY <2>8, <2>9 DEF Recent
<1>8. Partitions(m, boundaries, opened) /\ (m.index # NoGeneration => m.start <= m.iteration)
  <2>1. m.iteration \in Nat /\ manifest.iteration \in Nat
    BY <1>3, <1>4 DEF Manifest
  <2>2. Opening(m, opened) = Opening(manifest, opened)
    BY <1>5 DEF Opening
  <2> QED
    BY <1>4, <1>5, <1>6, <2>1, <2>2 DEF Partitions
<1>9. m.index # NoGeneration <=> opened > 0
  BY <1>0, <1>1, <1>5 DEF PartitionInv, Running
<1>10. Readable /\ opened > 0 => disk.index <= m.index
  BY <1>0, <1>1, <1>5 DEF PartitionInv, Running
<1>11. CASE ClosesGeneration(done, state)
  <2>1. PICK g : g = IF m.index = NoGeneration THEN [m EXCEPT !.index = 0, !.start = 1] ELSE m
    OBVIOUS
  <2>2. manifest' = g /\ pc' = "boundary"
    BY <1>2, <1>11, <2>1 DEF Concludes
  <2>3. CASE m.index = NoGeneration
    <3>1. g.index = 0 /\ g.start = 1 /\ g.iteration = m.iteration /\ g.history = m.history
      BY <1>4, <2>1, <2>3 DEF Manifest
    <3>2. opened = 0
      BY <1>6, <1>9, <2>3
    <3>3. m.iteration \in Nat /\ 1 <= m.iteration /\ 0 # NoGeneration
      BY <1>3, <1>4, LoopAssumption DEF Manifest, NoGeneration
    <3>4. Recent(g)
      BY <1>7, <3>1 DEF Recent
    <3>5. Partitions(g, boundaries, opened)
      BY <3>1, <3>2, <3>3, OpensFirst
    <3> QED
      BY <1>0, <1>1, <1>6, <2>2, <3>1, <3>2, <3>3, <3>4, <3>5 DEF PartitionInv, Running, Readable
  <2>4. CASE m.index # NoGeneration
    BY <1>0, <1>1, <1>6, <1>7, <1>8, <1>9, <1>10, <2>1, <2>2, <2>4 DEF PartitionInv, Running, Readable
  <2> QED
    BY <2>3, <2>4
<1>12. CASE ~ClosesGeneration(done, state)
  <2>1. manifest' = m /\ pc' = "truncate"
    BY <1>2, <1>12 DEF Concludes, Writes
  <2> QED
    BY <1>0, <1>1, <1>6, <1>7, <1>8, <1>9, <1>10, <2>1 DEF PartitionInv, Running, Readable
<1> QED
  BY <1>11, <1>12

\* Writing the boundary of the current generation leaves the others alone.
LEMMA BoundsKeeps ==
  ASSUME LoopInv, PartitionInv, pc \in {"boundary", "bound"}, NEW file, Bounds(file)
  PROVE  /\ Partitions(manifest, boundaries', opened)
         /\ Readable => Partitions(disk, boundaries', opened)
         /\ boundaries'[manifest.index] = file /\ DOMAIN boundaries \cup {manifest.index} \subseteq DOMAIN boundaries'
         /\ \A i \in 0 .. manifest.index - 1 : boundaries'[i] = boundaries[i]
<1>0. OpenedSoFar = opened
  BY OpenedSoFarIsAll
<1>1. Running /\ manifest.index # NoGeneration /\ Partitions(manifest, boundaries, opened)
  BY <1>0 DEF PartitionInv, Running
<1>2. manifest.index \in Nat
  BY <1>1 DEF Partitions
<1>3. DOMAIN boundaries' = DOMAIN boundaries \cup {manifest.index} /\ boundaries'[manifest.index] = file
  BY DEF Bounds
<1>4. \A i \in DOMAIN boundaries : i # manifest.index => boundaries'[i] = boundaries[i]
  BY DEF Bounds
<1>5. ASSUME NEW d \in Nat, d <= manifest.index, NEW start, NEW first, Shared(boundaries, d, start, first)
      PROVE  Shared(boundaries', d, start, first) /\ \A i \in 0 .. d - 1 : boundaries'[i] = boundaries[i]
  <2>1. \A i \in 0 .. d - 1 : i \in DOMAIN boundaries /\ i # manifest.index
    BY <1>2, <1>5 DEF Shared
  <2>2. \A i \in 0 .. d - 1 : boundaries'[i] = boundaries[i]
    BY <1>4, <2>1
  <2> QED
    BY <1>3, <1>5, <2>2, SharedStays
<1>6. Shared(boundaries, manifest.index, manifest.start, Opening(manifest, opened))
  BY <1>1 DEF Partitions
<1>7. Partitions(manifest, boundaries', opened) /\ \A i \in 0 .. manifest.index - 1 : boundaries'[i] = boundaries[i]
  BY <1>1, <1>2, <1>5, <1>6 DEF Partitions
<1>8. ASSUME Readable PROVE Partitions(disk, boundaries', opened)
  <2>1. Partitions(disk, boundaries, opened) /\ (disk.index # NoGeneration => disk.index <= manifest.index)
    BY <1>0, <1>1, <1>8 DEF PartitionInv
  <2> SUFFICES ASSUME disk.index # NoGeneration PROVE Shared(boundaries', disk.index, disk.start, Opening(disk, opened))
    BY <2>1 DEF Partitions
  <2>2. disk.index \in Nat /\ disk.index <= manifest.index /\ Shared(boundaries, disk.index, disk.start, Opening(disk, opened))
    BY <2>1 DEF Partitions
  <2> QED
    BY <1>5, <2>2
<1> QED
  BY <1>3, <1>7, <1>8

LEMMA TruncatesPartitions ==
  ASSUME LoopInv, PartitionInv, TruncatesBoundary
  PROVE  PartitionInv'
<1>0. OpenedSoFar = opened /\ OpenedSoFar' = opened'
  BY OpenedSoFarIsAll DEF TruncatesBoundary, OpenedSoFar
<1>1. pc = "boundary" /\ pc' = "bound" /\ Bounds(Torn) /\ UNCHANGED <<manifest, disk, opened>>
  BY DEF TruncatesBoundary
<1>2. Partitions(manifest, boundaries', opened) /\ (Readable => Partitions(disk, boundaries', opened))
  BY <1>1, BoundsKeeps
<1> QED
  BY <1>0, <1>1, <1>2 DEF PartitionInv, Running, Readable

LEMMA ClosesPartitions ==
  ASSUME LoopInv, PartitionInv, FillsBoundary
  PROVE  PartitionInv'
<1>0. OpenedSoFar = opened /\ OpenedSoFar' = opened'
  BY OpenedSoFarIsAll DEF FillsBoundary, OpenedSoFar
<1>1. /\ pc = "bound" /\ pc' = "truncate" /\ Bounds([iterations |-> InGeneration]) /\ UNCHANGED <<disk, opened>>
      /\ manifest' = [manifest EXCEPT !.index = @ + 1, !.start = manifest.iteration + 1]
  BY DEF FillsBoundary
<1> DEFINE b == boundaries'
           m == manifest
           w == manifest'
<1>2. /\ Partitions(m, b, opened)
      /\ Readable => Partitions(disk, b, opened)
      /\ b[m.index] = [iterations |-> InGeneration] /\ DOMAIN boundaries \cup {m.index} \subseteq DOMAIN b
      /\ \A i \in 0 .. m.index - 1 : b[i] = boundaries[i]
  BY <1>1, BoundsKeeps
<1>3. m \in Manifest
  BY DEF LoopInv, LoopTyped
<1>4. w.index = m.index + 1 /\ w.start = m.iteration + 1 /\ w.iteration = m.iteration /\ w.history = m.history
  BY <1>1, <1>3 DEF Manifest
<1>5. /\ Recent(m) /\ Partitions(m, boundaries, opened) /\ m.index # NoGeneration /\ m.start <= m.iteration
      /\ opened = 0 => m.index = 0 /\ m.start = 1
      /\ opened \in Nat
      /\ Readable /\ opened > 0 => disk.index <= m.index
      /\ Readable => (disk.index # NoGeneration <=> opened > 0)
      /\ Readable => Recent(disk)
      /\ disk = Absent => opened = 0
  BY <1>0, <1>1 DEF PartitionInv, Running
<1>6. m.index \in Nat /\ m.start \in Nat /\ m.iteration \in Nat
  BY <1>3, <1>5 DEF Partitions, Manifest
<1>7. PICK first : first = Opening(m, opened)
  OBVIOUS
<1>8. first \in Nat /\ 0 < first /\ first <= m.start /\ Shared(boundaries, m.index, m.start, first)
  BY <1>5, <1>6, <1>7 DEF Partitions, Opening
<1>9. Shared(b, m.index + 1, m.iteration + 1, first)
  <2>1. b[m.index] = [iterations |-> {n \in {m.history[i] : i \in DOMAIN m.history} : n >= m.start}]
    BY <1>2 DEF InGeneration
  <2> HIDE DEF b, m
  <2> QED
    BY <1>2, <1>3, <1>5, <1>6, <1>8, <2>1, SharedCloses
<1>10. Opening(w, opened) = first
  <2>1. m.index + 1 # 0
    BY <1>6
  <2> QED
    BY <1>4, <1>5, <1>7, <2>1 DEF Opening
<1>11. Recent(w) /\ Partitions(w, b, opened)
  <2>1. Recent(w)
    BY <1>4, <1>5 DEF Recent
  <2> HIDE DEF w, m, b
  <2>2. w.index \in Nat /\ w.start \in Nat /\ first <= w.start /\ w.start <= w.iteration + 1
    BY <1>4, <1>5, <1>6, <1>8
  <2>3. Shared(b, w.index, w.start, first)
    BY <1>4, <1>9
  <2> QED
    BY <1>8, <1>10, <2>1, <2>2, <2>3 DEF Partitions
<1>12. w.index # NoGeneration /\ (Readable /\ opened > 0 => disk.index <= w.index)
  <2>1. Readable /\ opened > 0 => disk.index \in Nat
    BY <1>2, <1>5 DEF Partitions
  <2> QED
    BY <1>4, <1>5, <1>6, <2>1, LoopAssumption DEF NoGeneration
<1> HIDE DEF b, m, w
<1>13. UNCHANGED Readable
  BY <1>1 DEF Readable
<1> QED
  BY <1>0, <1>1, <1>2, <1>5, <1>11, <1>12, <1>13 DEF PartitionInv, Running, b, w

LEMMA PartitionInit == Init => PartitionInv
  BY DEF Init, PartitionInv, Running, Readable, OpenedSoFar

LEMMA PartitionStep == LoopInv /\ PartitionInv /\ [Next]_vars => PartitionInv'
<1> SUFFICES ASSUME LoopInv, PartitionInv, [Next]_vars PROVE PartitionInv'
  OBVIOUS
<1>1. CASE Truncates
  <2>1. /\ pc = "truncate" /\ pc' = "fill" /\ disk' = Torn /\ UNCHANGED <<manifest, boundaries>>
        /\ opened' = OpenedSoFar /\ OpenedSoFar' = OpenedSoFar
    BY <1>1 DEF Truncates, OpenedSoFar
  <2>2. OpenedSoFar \in Nat /\ (OpenedSoFar > 0 => opened = OpenedSoFar)
    BY DEF PartitionInv, OpenedSoFar
  <2> HIDE DEF OpenedSoFar
  <2> QED
    BY <2>1, <2>2, LoopAssumption DEF PartitionInv, Running, Readable
<1>2. CASE Probes \/ GivesUp \/ RunsAgent
  <2>1. /\ pc \in {"preflight", "head"} /\ pc' \in {"probing", "down", "agent"}
        /\ UNCHANGED <<manifest, disk, boundaries, opened, OpenedSoFar>>
    BY <1>2 DEF Probes, GivesUp, RunsAgent, OpenedSoFar
  <2> QED
    BY <2>1 DEF PartitionInv, Running, Readable
<1>3. ASSUME NEW marker \in BOOLEAN, Probed(marker) PROVE PartitionInv'
  <2>1. pc = "probing" /\ pc' = "truncate" /\ UNCHANGED <<disk, boundaries, opened, OpenedSoFar>>
    BY <1>3 DEF Probed, Writes, OpenedSoFar
  <2>2. manifest' = manifest \/ manifest' = [manifest EXCEPT !.status = "runner-unhealthy"]
    BY <1>3 DEF Probed
  <2>3. manifest \in Manifest
    BY DEF LoopInv, LoopTyped
  <2>4. PICK w : w = manifest'
    OBVIOUS
  <2>5. w.iteration = manifest.iteration /\ w.history = manifest.history /\ w.index = manifest.index /\ w.start = manifest.start
    BY <2>2, <2>3, <2>4 DEF Manifest
  <2>6. Recent(w) /\ Partitions(w, boundaries, OpenedSoFar)
    BY <2>1, <2>5, SamePlace DEF PartitionInv, Running
  <2> QED
    BY <2>1, <2>4, <2>5, <2>6 DEF PartitionInv, Running, Readable
<1>4. CASE ProcessMoves \/ Settles \/ Edits \/ UNCHANGED vars
  <2>1. UNCHANGED <<pc, manifest, disk, boundaries, opened, OpenedSoFar>>
    BY <1>4 DEF ProcessMoves, Settles, Edits, vars, loopVars, OpenedSoFar
  <2> QED
    BY <2>1 DEF PartitionInv, Running, Readable
<1>5. CASE Dies
  <2>1. pc' = "down" /\ UNCHANGED <<manifest, disk, boundaries, opened>>
    BY <1>5 DEF Dies
  <2> QED
    BY <2>1 DEF PartitionInv, Running, Readable
<1> QED
  BY <1>1, <1>2, <1>3, <1>4, <1>5, StartsPartitions, FillsPartitions, ConcludesPartitions, TruncatesPartitions,
     ClosesPartitions DEF Next, LoopStep

\* GenerationsPartition: however often the loop dies and is resumed, with any options and any
\* limit of history, the generations a readable manifest calls closed have whole boundary
\* files, which share out the iterations since generation 0 was opened.
THEOREM GenerationsArePartition == Spec => []GenerationsPartition
<1>1. PartitionInv => GenerationsPartition
  <2> SUFFICES ASSUME PartitionInv, disk \notin {Absent, Torn}, disk.index # NoGeneration
               PROVE  GenerationsPartition
    BY DEF GenerationsPartition
  <2>1. opened > 0 /\ Partitions(disk, boundaries, opened)
    BY DEF PartitionInv, Readable
  <2>2. Shared(boundaries, disk.index, disk.start, opened)
    BY <2>1 DEF Partitions, Opening
  <2>3. \A i \in 0 .. disk.index - 1 : boundaries[i] # Torn
    BY <2>2, LoopAssumption DEF Shared
  <2> QED
    BY <2>2, <2>3 DEF GenerationsPartition, Shared, Covered
<1> QED
  BY <1>1, PartitionInit, PartitionStep, LoopInvInit, LoopInvStep, PTL DEF Spec

-----------------------------------------------------------------------------
(* VerifyEdit *)

-----------------------------------------------------------------------------
(* Guarded commands *)

Reasons == {"empty_command", "dangerous_command_blocked", "too_many_args", "arg_too_long",
            "hook_command_not_allowlisted", "hook_arg_pattern_blocked"}
Ends == {"zero", "nonzero", "signal"}
Results == {"none", "resolved", "timed_out", "failed", "signalled"} \cup SpawnErrors \cup Reasons

Run == [leader : {"none", "alive", "gone"}, end : Ends \cup {"none"}, own : BOOLEAN, kin : SUBSET Kin,
        timer : {"off", "armed", "due", "fired"}, kill : {"off", "armed", "sent"},
        force : BOOLEAN, result : Results]

\* What the race leaves: a result is given once; before it nothing is killed but for the
\* time, and only a command that was left alone ends as its own.
Raced(r) ==
  /\ r.leader = "none" => r.kill = "off" /\ ~r.force
  /\ r.leader = "gone" => r.end # "none"
  /\ r.leader = "gone" /\ r.kill = "off" => r.own
  /\ r.force => r.result = "none"
  /\ r.result = "none" /\ r.timer # "fired" => r.kill = "off"
  /\ r.result = "resolved" => r.leader = "gone" /\ r.end = "zero"
  /\ r.result \in {"failed", "signalled"} => r.leader = "gone" /\ r.own /\ r.end # "zero"

\* A call keeps its evidence: whatever happens after its result, its end does not change.
Keeps(r, s) ==
  /\ r.result # "none" => s.result = r.result
  /\ r.leader = "gone" => s.leader = "gone" /\ s.end = r.end /\ s.own = r.own
  /\ r.leader = "none" => s.leader = "none"

Evidence(said, r, deps) ==
  /\ said = "pass" => r.result = "resolved"
  /\ said = "fail" => deps /\ r.result \in {"failed", "signalled", "spawn_error"}

EvidenceInv ==
  /\ run \in [Calls -> Run]
  /\ DOMAIN outcome = Calls
  /\ \A c \in Calls : Raced(run[c])
  /\ \A c \in Calls : Evidence(outcome[c][1], run[c], site.deps)
  /\ \A c \in Calls : run[c].leader # "none" => asked[c].matches \cap denylist = {}
  /\ tool = "none" => \A c \in Calls : run[c] = NotRun /\ outcome[c] = Pending

LEMMA NotRunType == NotRun \in Run /\ Raced(NotRun)
BY DEF NotRun, Run, Raced, Results

LEMMA TerminatedRaces ==
  ASSUME NEW r \in Run, Raced(r), r.result # "none" \/ r.timer = "fired", r.leader # "none"
  PROVE  Terminated(r) \in Run /\ Raced(Terminated(r)) /\ Keeps(r, Terminated(r))
<1>1. CASE InGroup(r) /\ r.kill = "off"
  <2>1. Terminated(r) = [r EXCEPT !.kill = "armed"]
    BY <1>1 DEF Terminated
  <2>2. [r EXCEPT !.kill = "armed"] \in Run
    BY DEF Run
  <2>3. Raced([r EXCEPT !.kill = "armed"]) /\ Keeps(r, [r EXCEPT !.kill = "armed"])
    BY <1>1 DEF Run, Raced, Keeps
  <2>4. QED
    BY <2>1, <2>2, <2>3
<1>2. CASE ~(InGroup(r) /\ r.kill = "off")
  BY <1>2 DEF Terminated, Keeps
<1>3. QED
  BY <1>1, <1>2

LEMMA SettledRaces ==
  ASSUME NEW r \in Run, Raced(r), r.leader # "none", r.result = "none", NEW x \in Results \ {"none"},
         x = "resolved" => r.leader = "gone" /\ r.end = "zero",
         x \in {"failed", "signalled"} => r.leader = "gone" /\ r.own /\ r.end # "zero"
  PROVE  Settled(r, x) \in Run /\ Raced(Settled(r, x)) /\ Keeps(r, Settled(r, x))
<1> DEFINE s == [r EXCEPT !.result = x, !.force = FALSE]
<1>1. s \in Run
  BY DEF Run
<1>2. s.result = x /\ s.leader = r.leader /\ s.end = r.end /\ s.own = r.own
  BY DEF Run
<1>3. Raced(s)
  BY DEF Run, Raced
<1> HIDE DEF s
<1>4. Terminated(s) \in Run /\ Raced(Terminated(s)) /\ Keeps(s, Terminated(s))
  BY <1>1, <1>2, <1>3, TerminatedRaces
<1>5. QED
  BY <1>2, <1>4 DEF Settled, Keeps, s

\* One command goes on, as the race allows.
LEMMA RunChanges ==
  ASSUME EvidenceInv, NEW c \in Calls, NEW s \in Run, Raced(s), Keeps(run[c], s), run[c] # NotRun,
         Changes(c, s), UNCHANGED <<tool, asked, strict, site, outcome, reply>>
  PROVE  EvidenceInv'
<1>1. run' = [run EXCEPT ![c] = s] /\ UNCHANGED <<denylist, asked, site, outcome, tool>>
  BY DEF Changes
<1>2. run' \in [Calls -> Run] /\ run'[c] = s /\ \A d \in Calls \ {c} : run'[d] = run[d]
  BY <1>1 DEF EvidenceInv
<1>3. \A d \in Calls : Raced(run'[d])
  BY <1>2 DEF EvidenceInv
<1>4. Evidence(outcome[c][1], s, site.deps)
  BY DEF EvidenceInv, Evidence, Keeps, SpawnErrors
<1>5. \A d \in Calls : Evidence(outcome'[d][1], run'[d], site'.deps)
  BY <1>1, <1>2, <1>4 DEF EvidenceInv
<1>6. \A d \in Calls : run'[d].leader # "none" => asked'[d].matches \cap denylist' = {}
  BY <1>1, <1>2 DEF EvidenceInv, Keeps
<1>7. tool # "none"
  BY DEF EvidenceInv
<1>8. QED
  BY <1>1, <1>2, <1>3, <1>5, <1>6, <1>7 DEF EvidenceInv

\* A command that may start is one the deny layer does not know; another is told why not.
LEMMA DenialReason ==
  ASSUME NEW r
  PROVE  IF Denial(r) = "ok" THEN r.matches \cap denylist = {} ELSE Denial(r) \in Reasons
<1> DEFINE flaws == r.flaws \cup (IF r.matches \cap denylist = {} THEN {} ELSE {"dangerous"})
           hits == {i \in DOMAIN Checks : Checks[i][1] \in flaws}
<1>1. DOMAIN Checks = 1..6 /\ Checks[2][1] = "dangerous"
  BY DEF Checks
<1>2. \A i \in 1..6 : Checks[i][2] \in Reasons
  BY DEF Checks, Reasons
<1>3. Denial(r) = IF hits = {} THEN "ok" ELSE Checks[Min(hits)][2]
  BY DEF Denial, Dangerous
<1>4. r.matches \cap denylist # {} => 2 \in hits
  BY <1>1
<1>5. hits \subseteq 1..6
  BY <1>1
<1> HIDE DEF hits
<1>6. hits # {} => Min(hits) \in hits
  <2>1. ASSUME NEW i \in 1..6, i \in hits, \A j \in 1..(i - 1) : j \notin hits
        PROVE  \E m \in hits : \A j \in hits : m <= j
    <3>1. \A j \in hits : i <= j
      BY <1>5, <2>1
    <3>2. QED
      BY <2>1, <3>1
  <2>2. hits # {} => \E i \in 1..6 : i \in hits /\ \A j \in 1..(i - 1) : j \notin hits
    <3>1. ASSUME NEW k \in hits
          PROVE  k = 1 \/ k = 2 \/ k = 3 \/ k = 4 \/ k = 5 \/ k = 6
      BY <1>5
    <3>2. 1 \in hits => \E i \in 1..6 : i \in hits /\ \A j \in 1..(i - 1) : j \notin hits
      OBVIOUS
    <3>3. 2 \in hits /\ 1 \notin hits => \E i \in 1..6 : i \in hits /\ \A j \in 1..(i - 1) : j \notin hits
      OBVIOUS
    <3>4. 3 \in hits /\ 1 \notin hits /\ 2 \notin hits
            => \E i \in 1..6 : i \in hits /\ \A j \in 1..(i - 1) : j \notin hits
      OBVIOUS
    <3>5. 4 \in hits /\ 1 \notin hits /\ 2 \notin hits /\ 3 \notin hits
            => \E i \in 1..6 : i \in hits /\ \A j \in 1..(i - 1) : j \notin hits
      OBVIOUS
    <3>6. 5 \in hits /\ 1 \notin hits /\ 2 \notin hits /\ 3 \notin hits /\ 4 \notin hits
            => \E i \in 1..6 : i \in hits /\ \A j \in 1..(i - 1) : j \notin hits
      OBVIOUS
    <3>7. 6 \in hits /\ 1 \notin hits /\ 2 \notin hits /\ 3 \notin hits /\ 4 \notin hits /\ 5 \notin hits
            => \E i \in 1..6 : i \in hits /\ \A j \in 1..(i - 1) : j \notin hits
      OBVIOUS
    <3>8. hits # {} => \/ 1 \in hits \/ 2 \in hits \/ 3 \in hits \/ 4 \in hits \/ 5 \in hits \/ 6 \in hits
      BY <3>1
    <3>9. QED
      BY <3>2, <3>3, <3>4, <3>5, <3>6, <3>7, <3>8
  <2>3. hits # {} => \E i \in hits : \A j \in hits : i <= j
    BY <2>1, <2>2
  <2>4. QED
    BY <2>3 DEF Min
<1>7. QED
  BY <1>2, <1>3, <1>4, <1>5, <1>6 DEF Reasons

LEMMA Classified ==
  ASSUME NEW r
  PROVE  Evidence(Classify(r)[1], r, site.deps) /\ Evidence(HookStatus(r), r, site.deps)
<1>1. HookStatus(r) \in {"ok", "failed", "blocked"}
  BY DEF HookStatus
<1>2. CASE r.result = "resolved"
  <2>1. Classify(r)[1] = "pass"
    BY <1>2 DEF Classify
  <2>2. Evidence(Classify(r)[1], r, site.deps)
    BY <1>2, <2>1 DEF Evidence
  <2>3. QED
    BY <1>1, <1>2, <2>2 DEF Evidence
<1>3. CASE r.result # "resolved"
  <2>1. Classify(r)[1] \in {"could_not_run", "fail", "denied"}
    BY <1>3 DEF Classify
  <2>2. Classify(r)[1] = "fail" => site.deps /\ r.result \in {"failed", "signalled", "spawn_error"}
    BY <1>3 DEF Classify
  <2>3. QED
    BY <1>1, <2>1, <2>2 DEF Evidence
<1>4. QED
  BY <1>2, <1>3

LEMMA RunnerKeeps ==
  ASSUME EvidenceInv, RunnerStep, UNCHANGED <<tool, asked, strict, site, outcome, reply>>
  PROVE  EvidenceInv'
<1>1. PICK c \in Calls : Closes(c) \/ Elapses(c) \/ TimesOut(c) \/ Kills(c) \/ GivesUpPipes(c)
  BY DEF RunnerStep
<1>2. PICK r : r = run[c]
  OBVIOUS
<1>3. r \in Run /\ Raced(r)
  BY <1>2 DEF EvidenceInv
<1>4. NotRun.leader = "none" /\ NotRun.kill = "off" /\ ~NotRun.force
  BY DEF NotRun
<1>5. CASE Closes(c)
  <2>1. r.leader = "gone" /\ r.result = "none" /\ r # NotRun
    BY <1>2, <1>4, <1>5 DEF Closes, Unsettled
  <2>2. r.end \in Ends
    BY <1>3, <2>1 DEF Raced, Run, Ends
  <2>3. r.timer # "fired" => r.kill = "off" /\ r.own
    BY <1>3, <2>1 DEF Raced
  <2>4. PICK x : x = Closing(r)
    OBVIOUS
  <2>5. /\ r.end = "zero" => x = "resolved"
        /\ r.end # "zero" /\ r.timer = "fired" => x = "timed_out"
        /\ r.end = "nonzero" /\ r.timer # "fired" => x = "failed"
        /\ r.end = "signal" /\ r.timer # "fired" => x = "signalled"
    BY <2>4 DEF Closing
  <2>6. x \in {"resolved", "timed_out", "failed", "signalled"}
    BY <2>2, <2>5 DEF Ends
  <2>7. /\ x = "resolved" => r.end = "zero"
        /\ x \in {"failed", "signalled"} => r.timer # "fired" /\ r.end # "zero"
    BY <2>2, <2>5 DEF Ends
  <2>8. x \in Results \ {"none"}
    BY <2>6 DEF Results
  <2>9. PICK s : s = Settled(r, x)
    OBVIOUS
  <2>10. s \in Run /\ Raced(s) /\ Keeps(r, s)
    BY <1>3, <2>1, <2>3, <2>7, <2>8, <2>9, SettledRaces
  <2>11. Changes(c, s)
    BY <1>2, <1>5, <2>4, <2>9 DEF Closes
  <2>12. QED
    BY <1>2, <2>1, <2>10, <2>11, RunChanges
<1>6. CASE Elapses(c)
  <2>1. PICK s : s = [r EXCEPT !.timer = "due"]
    OBVIOUS
  <2>2. r # NotRun /\ Changes(c, s)
    BY <1>2, <1>4, <1>6, <2>1 DEF Elapses, Unsettled
  <2>3. s \in Run
    BY <1>3, <2>1 DEF Run
  <2>4. Raced(s) /\ Keeps(r, s)
    BY <1>2, <1>3, <1>6, <2>1 DEF Run, Raced, Keeps, Elapses
  <2>5. QED
    BY <1>2, <2>2, <2>3, <2>4, RunChanges
<1>7. CASE TimesOut(c)
  <2>1. PICK f : f = [r EXCEPT !.timer = "fired", !.force = TRUE]
    OBVIOUS
  <2>2. f \in Run /\ f.leader = r.leader /\ f.end = r.end /\ f.own = r.own /\ f.result = r.result /\ f.timer = "fired"
    BY <1>3, <2>1 DEF Run
  <2>3. r.leader # "none" /\ r.result = "none" /\ r # NotRun
    BY <1>2, <1>4, <1>7 DEF TimesOut, Unsettled
  <2>4. Raced(f)
    BY <1>3, <2>1, <2>3 DEF Run, Raced
  <2>5. PICK s : s = Terminated(f)
    OBVIOUS
  <2>6. s \in Run /\ Raced(s) /\ Keeps(f, s)
    BY <2>2, <2>3, <2>4, <2>5, TerminatedRaces
  <2>7. Keeps(r, s)
    BY <2>2, <2>6 DEF Keeps
  <2>8. Changes(c, s)
    BY <1>2, <1>7, <2>1, <2>5 DEF TimesOut
  <2>9. QED
    BY <1>2, <2>3, <2>6, <2>7, <2>8, RunChanges
<1>8. CASE Kills(c)
  <2>1. PICK s : s = [r EXCEPT !.kill = "sent", !.kin = @ \cap {"daemon"}, !.leader = "gone",
                               !.end = IF r.leader = "alive" THEN "signal" ELSE @]
    OBVIOUS
  <2>2. r.kill = "armed" /\ r # NotRun /\ Changes(c, s)
    BY <1>2, <1>4, <1>8, <2>1 DEF Kills
  <2>3. s \in Run
    BY <1>3, <2>1 DEF Run, Ends, Kin
  <2>4. /\ s.kill = "sent" /\ s.leader = "gone" /\ s.own = r.own /\ s.force = r.force /\ s.timer = r.timer
        /\ s.result = r.result /\ s.end = IF r.leader = "alive" THEN "signal" ELSE r.end
    BY <1>3, <2>1 DEF Run
  <2>5. r.leader # "none"
    BY <1>3, <2>2 DEF Raced
  <2>6. Raced(s) /\ Keeps(r, s)
    BY <1>3, <2>2, <2>4, <2>5 DEF Run, Raced, Keeps
  <2>7. QED
    BY <1>2, <2>2, <2>3, <2>6, RunChanges
<1>9. CASE GivesUpPipes(c)
  <2>1. PICK s : s = Settled(r, "timed_out")
    OBVIOUS
  <2>2. r.force /\ r # NotRun /\ Changes(c, s)
    BY <1>2, <1>4, <1>9, <2>1 DEF GivesUpPipes
  <2>3. r.leader # "none" /\ r.result = "none"
    BY <1>3, <2>2 DEF Raced
  <2>4. s \in Run /\ Raced(s) /\ Keeps(r, s)
    BY <1>3, <2>1, <2>3, SettledRaces DEF Results
  <2>5. QED
    BY <1>2, <2>2, <2>4, RunChanges
<1>10. QED
  BY <1>1, <1>5, <1>6, <1>7, <1>8, <1>9

LEMMA ProcessKeeps ==
  ASSUME EvidenceInv, ProcessStep, UNCHANGED <<tool, asked, strict, site, outcome, reply>>
  PROVE  EvidenceInv'
<1>1. NotRun.leader = "none" /\ NotRun.kin = {}
  BY DEF NotRun
<1>2. ASSUME NEW c \in Calls, NEW k \in Kin, Forks(c, k)
      PROVE  EvidenceInv'
  <2>1. PICK r, s : r = run[c] /\ s = [r EXCEPT !.kin = @ \cup {k}]
    OBVIOUS
  <2>2. r \in Run /\ Raced(r) /\ r # NotRun /\ Changes(c, s)
    BY <1>1, <1>2, <2>1 DEF EvidenceInv, Forks
  <2>3. s \in Run /\ Raced(s) /\ Keeps(r, s)
    BY <2>1, <2>2 DEF Run, Raced, Keeps
  <2>4. QED
    BY <2>1, <2>2, <2>3, RunChanges
<1>3. ASSUME NEW c \in Calls, NEW k \in Kin, KinEnds(c, k)
      PROVE  EvidenceInv'
  <2>1. PICK r, s : r = run[c] /\ s = [r EXCEPT !.kin = @ \ {k}]
    OBVIOUS
  <2>2. r \in Run /\ Raced(r) /\ r # NotRun /\ Changes(c, s)
    BY <1>1, <1>3, <2>1 DEF EvidenceInv, KinEnds
  <2>3. s \in Run /\ Raced(s) /\ Keeps(r, s)
    BY <2>1, <2>2 DEF Run, Raced, Keeps
  <2>4. QED
    BY <2>1, <2>2, <2>3, RunChanges
<1>4. ASSUME NEW c \in Calls, NEW end \in Ends, LeaderEnds(c, end)
      PROVE  EvidenceInv'
  <2>1. PICK r : r = run[c]
    OBVIOUS
  <2>2. PICK own \in BOOLEAN : own = (r.kill = "off")
    OBVIOUS
  <2>3. PICK s : s = [r EXCEPT !.leader = "gone", !.end = end, !.own = own]
    OBVIOUS
  <2>4. r \in Run /\ Raced(r) /\ r.leader = "alive" /\ r # NotRun
    BY <1>1, <1>4, <2>1 DEF EvidenceInv, LeaderEnds
  <2>5. Changes(c, s)
    BY <1>4, <2>1, <2>2, <2>3 DEF LeaderEnds
  <2>6. s \in Run
    BY <2>3, <2>4 DEF Run
  <2>7. /\ s.leader = "gone" /\ s.end = end /\ s.own = own /\ s.kill = r.kill /\ s.force = r.force
        /\ s.timer = r.timer /\ s.result = r.result
    BY <2>3, <2>4 DEF Run
  <2>8. Raced(s) /\ Keeps(r, s)
    BY <2>2, <2>4, <2>7 DEF Raced, Keeps, Ends
  <2>9. QED
    BY <2>1, <2>4, <2>5, <2>6, <2>8, RunChanges
<1>5. QED
  BY <1>2, <1>3, <1>4 DEF ProcessStep, Ends

LEMMA CallsKeep == ASSUME EvidenceInv, VerifyCalls PROVE EvidenceInv'
<1>1. tool = "none" /\ UNCHANGED <<run, outcome>>
  BY DEF VerifyCalls, CallVerify, CallHooks, Finds, LoadsDenylist
<1>2. tool' # "none"
  BY DEF VerifyCalls, CallVerify, CallHooks
<1>3. \A c \in Calls : run[c] = NotRun /\ outcome[c] = Pending
  BY <1>1 DEF EvidenceInv
<1>4. NotRun.leader = "none" /\ Pending[1] = "pending"
  BY DEF NotRun, Pending
<1>5. \A c \in Calls : Evidence(outcome'[c][1], run'[c], site'.deps)
  BY <1>1, <1>3, <1>4 DEF Evidence
<1>6. \A c \in Calls : run'[c].leader = "none"
  BY <1>1, <1>3, <1>4
<1>7. QED
  BY <1>1, <1>2, <1>5, <1>6 DEF EvidenceInv

LEMMA RunsKeep == ASSUME EvidenceInv, VerifyRuns PROVE EvidenceInv'
<1>1. ASSUME NEW c \in Calls, Passes(c)
      PROVE  EvidenceInv'
  <2>1. /\ outcome' = [outcome EXCEPT ![c] = <<"absent", "">>] /\ tool # "none"
        /\ UNCHANGED <<run, denylist, tool, asked, site>>
    BY <1>1 DEF Passes, Turn, execVars
  <2>2. DOMAIN outcome' = Calls /\ outcome'[c][1] = "absent" /\ \A d \in Calls \ {c} : outcome'[d] = outcome[d]
    BY <2>1 DEF EvidenceInv
  <2>3. \A d \in Calls : Evidence(outcome'[d][1], run'[d], site'.deps)
    BY <2>1, <2>2 DEF EvidenceInv, Evidence
  <2>4. QED
    BY <2>1, <2>2, <2>3 DEF EvidenceInv
<1>2. ASSUME NEW c \in Calls, Begins(c)
      PROVE  EvidenceInv'
  <2>1. run[c] = NotRun /\ tool # "none" /\ UNCHANGED <<tool, asked, site, outcome>>
    BY <1>2 DEF Begins, Turn
  <2>2. PICK s : /\ Changes(c, s)
                 /\ \/ \E x \in Reasons \cup SpawnErrors : s = [NotRun EXCEPT !.result = x]
                    \/ Denial(asked[c]) = "ok" /\ s = [NotRun EXCEPT !.leader = "alive", !.timer = "armed"]
    <3>1. CASE Denial(asked[c]) # "ok"
      <4>1. Denial(asked[c]) \in Reasons
        BY <3>1, DenialReason
      <4>2. PICK x \in Reasons : x = Denial(asked[c])
        BY <4>1
      <4>3. PICK s : s = [NotRun EXCEPT !.result = x]
        OBVIOUS
      <4>4. Changes(c, s)
        BY <1>2, <3>1, <4>2, <4>3 DEF Begins, Deny
      <4>5. QED
        BY <4>3, <4>4
    <3>2. CASE Denial(asked[c]) = "ok" /\ \E x \in SpawnErrors : SpawnFails(c, x)
      <4>1. PICK x \in SpawnErrors : SpawnFails(c, x)
        BY <3>2
      <4>2. PICK s : s = [NotRun EXCEPT !.result = x]
        OBVIOUS
      <4>3. Changes(c, s)
        BY <4>1, <4>2 DEF SpawnFails
      <4>4. QED
        BY <4>2, <4>3
    <3>3. CASE Denial(asked[c]) = "ok" /\ Spawns(c)
      BY <3>3 DEF Spawns
    <3>4. QED
      BY <1>2, <3>1, <3>2, <3>3 DEF Begins, SpawnErrors
  <2>3. s \in Run /\ Raced(s)
    BY <2>2, NotRunType DEF NotRun, Run, Raced, Results, SpawnErrors, Reasons
  <2>4. run' = [run EXCEPT ![c] = s] /\ denylist' = denylist
    BY <2>2 DEF Changes
  <2>5. run' \in [Calls -> Run] /\ run'[c] = s /\ \A d \in Calls \ {c} : run'[d] = run[d]
    BY <2>3, <2>4 DEF EvidenceInv
  <2>6. NotRun.result = "none"
    BY DEF NotRun
  <2>7. outcome[c][1] \notin {"pass", "fail"}
    BY <2>1, <2>6 DEF EvidenceInv, Evidence
  <2>8. Evidence(outcome[c][1], s, site.deps)
    BY <2>7 DEF Evidence
  <2>9. s.leader # "none" => asked[c].matches \cap denylist = {}
    <3>1. (s.leader # "none") => Denial(asked[c]) = "ok"
      BY <2>2 DEF NotRun
    <3>2. QED
      BY <3>1, DenialReason
  <2>10. \A d \in Calls : Raced(run'[d]) /\ Evidence(outcome'[d][1], run'[d], site'.deps)
    BY <2>1, <2>3, <2>5, <2>8 DEF EvidenceInv
  <2>11. \A d \in Calls : run'[d].leader # "none" => asked'[d].matches \cap denylist' = {}
    BY <2>1, <2>4, <2>5, <2>9 DEF EvidenceInv
  <2>12. QED
    BY <2>1, <2>5, <2>10, <2>11 DEF EvidenceInv
<1>3. ASSUME NEW c \in Calls, Judges(c)
      PROVE  EvidenceInv'
  <2>1. PICK o : o = IF tool = "verify" THEN Classify(run[c]) ELSE <<HookStatus(run[c]), run[c].result>>
    OBVIOUS
  <2>2. /\ outcome' = [outcome EXCEPT ![c] = o] /\ tool # "none"
        /\ UNCHANGED <<run, denylist, tool, asked, site>>
    BY <1>3, <2>1 DEF Judges, Turn, execVars
  <2>3. Evidence(o[1], run[c], site.deps)
    BY <2>1, Classified
  <2>4. DOMAIN outcome' = Calls /\ outcome'[c] = o /\ \A d \in Calls \ {c} : outcome'[d] = outcome[d]
    BY <2>2 DEF EvidenceInv
  <2>5. \A d \in Calls : Evidence(outcome'[d][1], run'[d], site'.deps)
    BY <2>2, <2>3, <2>4 DEF EvidenceInv
  <2>6. QED
    BY <2>2, <2>4, <2>5 DEF EvidenceInv
<1>4. ASSUME Replies
      PROVE  EvidenceInv'
  BY <1>4 DEF Replies, execVars, EvidenceInv
<1>5. QED
  BY <1>1, <1>2, <1>3, <1>4 DEF VerifyRuns

LEMMA EvidenceImplies == EvidenceInv => OutcomeIsEvidence
<1> SUFFICES ASSUME EvidenceInv, NEW c \in Calls
             PROVE  /\ outcome[c][1] = "pass" => run[c].end = "zero"
                    /\ outcome[c][1] = "fail" =>
                          /\ site.deps
                          /\ (run[c].own /\ run[c].end # "zero") \/ run[c].result = "spawn_error"
                    /\ run[c].leader # "none" => asked[c].matches \cap denylist = {}
  BY DEF OutcomeIsEvidence
<1>1. PICK o, r, deps : o = outcome[c][1] /\ r = run[c] /\ deps = site.deps
  OBVIOUS
<1>2. Raced(r) /\ Evidence(o, r, deps)
  BY <1>1 DEF EvidenceInv
<1>3. run[c].leader # "none" => asked[c].matches \cap denylist = {}
  BY DEF EvidenceInv
<1>4. QED
  BY <1>1, <1>2, <1>3 DEF Raced, Evidence

\* What verify_edit and the hooks report of any commands is what the commands did, however
\* their ends, their timers and the kills of their groups are interleaved.
THEOREM EvidenceIsSound == VerifySpec => []OutcomeIsEvidence
<1>1. VerifyInit => EvidenceInv
  <2> SUFFICES ASSUME VerifyInit
               PROVE  EvidenceInv
    OBVIOUS
  <2>1. NotRun.leader = "none" /\ Pending[1] = "pending"
    BY DEF NotRun, Pending
  <2>2. \A c \in Calls : run[c] = NotRun /\ outcome[c] = Pending
    BY DEF VerifyInit, ExecInit
  <2>3. run \in [Calls -> Run] /\ DOMAIN outcome = Calls
    BY NotRunType DEF VerifyInit, ExecInit
  <2>4. QED
    BY <2>1, <2>2, <2>3, NotRunType DEF EvidenceInv, Evidence
<1>2. EvidenceInv /\ [VerifyNext]_verifyVars => EvidenceInv'
  <2>1. CASE VerifyNext
    BY <2>1, CallsKeep, RunsKeep, RunnerKeeps, ProcessKeeps DEF VerifyNext, VerifyTimers, VerifyWorld
  <2>2. CASE UNCHANGED verifyVars
    BY <2>2 DEF verifyVars, execVars, EvidenceInv
  <2>3. QED
    BY <2>1, <2>2
<1>3. QED
  BY <1>1, <1>2, EvidenceImplies, PTL DEF VerifySpec

-----------------------------------------------------------------------------
(* ConfigSync *)

\* m comes in s before any n does.
Before(s, m, n) == \E i \in DOMAIN s : s[i] = m /\ \A j \in 1 .. i : s[j] # n

\* A sequence is one of what is in it.
LEMMA ListFacts ==
  ASSUME NEW s, List(s)
  PROVE  /\ DOMAIN s = 1 .. Len(s) /\ Len(s) \in Nat /\ s \in Seq(Range(s))
         /\ s = <<>> <=> Range(s) = {}
         /\ \A i \in DOMAIN s : s[i] \in Range(s)
         /\ s # <<>> => 1 \in DOMAIN s
<1>1. s \in Seq(Range(s))
  BY DEF List
<1>2. DOMAIN s = 1 .. Len(s) /\ Len(s) \in Nat /\ (s = <<>> <=> DOMAIN s = {})
  BY <1>1, SeqPlaces
<1>3. \A i \in DOMAIN s : s[i] \in Range(s)
  BY DEF Range
<1>4. Range(s) = {} <=> DOMAIN s = {}
  BY DEF Range
<1> QED
  BY <1>1, <1>2, <1>3, <1>4

\* Any sequence is.
LEMMA AnyList ==
  ASSUME NEW S, NEW s \in Seq(S)
  PROVE  List(s)
<1>1. s \in [1 .. Len(s) -> S] /\ DOMAIN s = 1 .. Len(s) /\ Len(s) \in Nat
  OBVIOUS
<1>2. s \in [1 .. Len(s) -> Range(s)]
  BY <1>1 DEF Range
<1>3. s \in Seq(Range(s))
  BY <1>1, <1>2, SeqDef
<1> QED
  BY <1>3 DEF List

\* The empty sequence is, and nothing is in it.
LEMMA NoneListed == List(<<>>) /\ Range(<<>>) = {}
<1>1. <<>> \in Seq({})
  OBVIOUS
<1> QED
  BY <1>1, AnyList, ListFacts

\* A filter: what it keeps, and which place it starts with.
LEMMA AtFacts ==
  ASSUME NEW s, List(s), NEW I \in SUBSET DOMAIN s
  PROVE  /\ List(At(s, I))
         /\ \A x : x \in Range(At(s, I)) <=> \E i \in I : x = s[i]
         /\ At(s, I) = <<>> <=> I = {}
         /\ I # {} => \E i \in I : At(s, I)[1] = s[i] /\ \A j \in I : i <= j
<1> DEFINE R == {p \in I \X I : p[1] < p[2]}
           n == Cardinality(I)
           place == InOrder(I, R)
           t == At(s, I)
<1>1. s \in Seq(Range(s))
  BY DEF List
<1>2. t \in Seq(Range(s)) /\ (\A x : x \in Range(t) <=> \E i \in I : x = s[i]) /\ (t = <<>> <=> Range(t) = {})
  BY <1>1, FilterFacts
<1>3. IsFiniteSet(I) /\ I \subseteq Nat
  BY <1>1, SeqPlaces, FS_Subset
<1>4. StrictOrder(I, R)
  BY <1>3 DEF StrictOrder
<1>5. n \in Nat /\ place \in Bijection(1 .. n, I) /\ \A x, y \in 1 .. n : x < y => <<place[x], place[y]>> \in R
  BY <1>3, <1>4, InOrderSorts
<1>6. t = [k \in 1 .. n |-> s[place[k]]]
  BY DEF At, Along
<1>7. ASSUME I # {} PROVE \E i \in I : t[1] = s[i] /\ \A j \in I : i <= j
  <2>1. n # 0
    BY <1>3, <1>7, FS_EmptySet
  <2>2. 1 \in 1 .. n /\ place[1] \in I /\ t[1] = s[place[1]]
    BY <1>5, <1>6, <2>1 DEF Bijection, Injection
  <2>3. ASSUME NEW j \in I PROVE place[1] <= j
    <3>1. PICK y \in 1 .. n : place[y] = j
      BY <1>5 DEF Bijection, Surjection
    <3>2. CASE y = 1
      BY <1>3, <2>2, <3>1, <3>2
    <3>3. CASE y # 1
      <4>1. 1 < y
        BY <1>5, <3>3
      <4>2. <<place[1], place[y]>> \in R
        BY <1>5, <2>2, <4>1
      <4> QED
        BY <1>3, <2>2, <3>1, <4>2
    <3> QED
      BY <3>2, <3>3
  <2> HIDE DEF t, place
  <2> QED
    BY <2>2, <2>3
<1>8. List(t)
  BY <1>2, AnyList
<1> HIDE DEF t
<1> QED
  BY <1>2, <1>7, <1>8 DEF t

\* A filter that does not miss the first n of s keeps the order of m and n.
LEMMA AtBefore ==
  ASSUME NEW s, List(s), NEW I \in SUBSET DOMAIN s, NEW m, NEW n,
         \A j \in DOMAIN s : s[j] = n => \E i \in I : i <= j /\ s[i] = n,
         Before(At(s, I), m, n)
  PROVE  Before(s, m, n)
<1> DEFINE R == {p \in I \X I : p[1] < p[2]}
           c == Cardinality(I)
           place == InOrder(I, R)
           t == At(s, I)
<1>1. s \in Seq(Range(s))
  BY DEF List
<1>2. IsFiniteSet(I) /\ I \subseteq Nat /\ DOMAIN s = 1 .. Len(s) /\ Len(s) \in Nat
  BY <1>1, SeqPlaces, FS_Subset
<1>3. StrictOrder(I, R)
  BY <1>2 DEF StrictOrder
<1>4. c \in Nat /\ place \in Bijection(1 .. c, I) /\ \A x, y \in 1 .. c : x < y => <<place[x], place[y]>> \in R
  BY <1>2, <1>3, InOrderSorts
<1>5. t = [k \in 1 .. c |-> s[place[k]]]
  BY DEF At, Along
<1>6. PICK i \in DOMAIN t : t[i] = m /\ \A j \in 1 .. i : t[j] # n
  BY DEF Before
<1>7. i \in 1 .. c /\ place[i] \in I /\ s[place[i]] = m
  BY <1>4, <1>5, <1>6 DEF Bijection, Injection
<1>8. ASSUME NEW j \in 1 .. place[i], s[j] = n PROVE FALSE
  <2>1. j \in DOMAIN s
    BY <1>2, <1>7
  <2>2. PICK k \in I : k <= j /\ s[k] = n
    BY <1>8, <2>1
  <2>3. PICK y \in 1 .. c : place[y] = k
    BY <1>4 DEF Bijection, Surjection
  <2>4. ASSUME i < y PROVE FALSE
    <3>1. <<place[i], place[y]>> \in R
      BY <1>4, <1>7, <2>4
    <3>2. \A p \in R : p[1] < p[2]
      OBVIOUS
    <3>3. place[i] < k
      BY <2>3, <3>1, <3>2
    <3>4. place[i] \in Nat /\ k \in Nat /\ j \in Nat /\ j <= place[i] /\ k <= j
      BY <1>2, <1>7, <2>2
    <3> HIDE DEF place
    <3> QED
      BY <3>3, <3>4
  <2>5. y \in 1 .. i
    BY <1>4, <1>7, <2>4
  <2>6. t[y] = n
    BY <1>5, <2>2, <2>3
  <2> QED
    BY <1>6, <2>5, <2>6
<1>9. place[i] \in DOMAIN s
  BY <1>7
<1> QED
  BY <1>7, <1>8, <1>9 DEF Before

\* Of two members, each cannot come before the other.
LEMMA OneIsFirst ==
  ASSUME NEW s, List(s), NEW m, NEW n, m # n, Before(s, m, n), Before(s, n, m)
  PROVE  FALSE
<1>1. DOMAIN s = 1 .. Len(s) /\ Len(s) \in Nat
  BY ListFacts
<1>2. PICK i \in DOMAIN s : s[i] = m /\ \A j \in 1 .. i : s[j] # n
  BY DEF Before
<1>3. PICK k \in DOMAIN s : s[k] = n /\ \A j \in 1 .. k : s[j] # m
  BY DEF Before
<1> QED
  BY <1>1, <1>2, <1>3

\* What s has of X.
Within(s, X) == At(s, {i \in DOMAIN s : s[i] \in X})

\* It is in the order of s, and starts with the first of X in s.
LEMMA WithinFacts ==
  ASSUME NEW s, List(s), NEW X
  PROVE  /\ List(Within(s, X))
         /\ \A x : x \in Range(Within(s, X)) <=> x \in Range(s) /\ x \in X
         /\ \A m : \A n \in X : Before(Within(s, X), m, n) => Before(s, m, n)
         /\ Within(s, X) # <<>> =>
              \E i \in DOMAIN s : /\ Within(s, X)[1] = s[i] /\ s[i] \in X
                                 /\ \A j \in DOMAIN s : s[j] \in X => i <= j
<1> DEFINE I == {i \in DOMAIN s : s[i] \in X}
<1>1. /\ List(At(s, I)) /\ \A x : x \in Range(At(s, I)) <=> \E i \in I : x = s[i]
      /\ At(s, I) = <<>> <=> I = {}
      /\ I # {} => \E i \in I : At(s, I)[1] = s[i] /\ \A j \in I : i <= j
  <2>1. I \in SUBSET DOMAIN s
    OBVIOUS
  <2> HIDE DEF I
  <2> QED
    BY <2>1, AtFacts
<1>2. \A x : (\E i \in I : x = s[i]) <=> x \in Range(s) /\ x \in X
  BY DEF Range
<1>3. ASSUME NEW m, NEW n \in X, Before(At(s, I), m, n) PROVE Before(s, m, n)
  <2>0. DOMAIN s \subseteq Nat
    BY ListFacts
  <2>1. \A j \in DOMAIN s : s[j] = n => j \in I /\ j <= j
    BY <2>0
  <2>2. I \in SUBSET DOMAIN s
    OBVIOUS
  <2> HIDE DEF I
  <2> QED
    BY <1>3, <2>1, <2>2, AtBefore
<1>4. \A i \in DOMAIN s : i \in I <=> s[i] \in X
  OBVIOUS
<1>5. Within(s, X) = At(s, I)
  BY DEF Within
<1>6. I \subseteq DOMAIN s
  OBVIOUS
<1> HIDE DEF I
<1>7. ASSUME I # {} PROVE \E i \in DOMAIN s : /\ At(s, I)[1] = s[i] /\ s[i] \in X
                                 /\ \A j \in DOMAIN s : s[j] \in X => i <= j
  BY <1>1, <1>4, <1>6, <1>7
<1> QED
  BY <1>1, <1>2, <1>3, <1>5, <1>7

\* Names without repetition: none that is hosted is among them, every other is, in the order they came.
LEMMA UniqueFacts ==
  ASSUME NEW s, List(s)
  PROVE  /\ List(Unique(s))
         /\ \A x : x \in Range(Unique(s)) <=> x \in Range(s) /\ x \notin Hosted \cup {Unset}
         /\ \A m : \A n : n \notin Hosted \cup {Unset} /\ Before(Unique(s), m, n) => Before(s, m, n)
<1> DEFINE I == {k \in DOMAIN s : s[k] \notin Hosted \cup {Unset} /\ \A j \in 1 .. k - 1 : s[j] # s[k]}
<1>0. DOMAIN s = 1 .. Len(s) /\ Len(s) \in Nat
  BY ListFacts
<1>1. I \in SUBSET DOMAIN s /\ \A i \in I : s[i] \notin Hosted \cup {Unset}
  OBVIOUS
<1>2. ASSUME NEW j \in DOMAIN s, s[j] \notin Hosted \cup {Unset}
      PROVE  \E i \in I : i <= j /\ s[i] = s[j]
  <2> DEFINE S == {k \in DOMAIN s : s[k] = s[j]}
  <2>1. S \in SUBSET Nat /\ S # {}
    BY <1>0
  <2>2. PICK i \in S : \A k \in S : i <= k
    <3> HIDE DEF S
    <3> QED
      BY <2>1, HasLeast
  <2>3. i \in DOMAIN s /\ s[i] = s[j] /\ i <= j /\ i \in Nat
    BY <1>0, <2>2
  <2>4. \A k \in 1 .. i - 1 : k \in DOMAIN s /\ k < i /\ k \in Nat
    BY <1>0, <2>3
  <2>5. \A k \in 1 .. i - 1 : s[k] # s[i]
    BY <2>2, <2>3, <2>4
  <2> QED
    BY <1>2, <2>3, <2>5
<1>3. Unique(s) = At(s, I)
  BY DEF Unique
<1> HIDE DEF I
<1>4. List(Unique(s)) /\ \A x : x \in Range(Unique(s)) <=> \E i \in I : x = s[i]
  BY <1>1, <1>3, AtFacts
<1>5. \A x : (\E i \in I : x = s[i]) <=> x \in Range(s) /\ x \notin Hosted \cup {Unset}
  <2>1. \A x : x \in Range(s) <=> \E j \in DOMAIN s : x = s[j]
    BY DEF Range
  <2> QED
    BY <1>1, <1>2, <2>1
<1>6. ASSUME NEW m, NEW n, n \notin Hosted \cup {Unset}, Before(Unique(s), m, n) PROVE Before(s, m, n)
  <2>1. \A j \in DOMAIN s : s[j] = n => \E i \in I : i <= j /\ s[i] = n
    BY <1>2, <1>6
  <2> QED
    BY <1>1, <1>3, <1>6, <2>1, AtBefore
<1> QED
  BY <1>4, <1>5, <1>6

\* What two sequences put together hold; of what the first holds the order does not change.
LEMMA CatFacts ==
  ASSUME NEW s, List(s), NEW t, List(t)
  PROVE  /\ List(s \o t) /\ Range(s \o t) = Range(s) \cup Range(t)
         /\ s \o t = <<>> <=> s = <<>> /\ t = <<>>
         /\ \A m : \A n \in Range(s) : Before(s \o t, m, n) => Before(s, m, n)
<1>1. /\ s \in Seq(Range(s) \cup Range(t)) /\ t \in Seq(Range(s) \cup Range(t))
      /\ DOMAIN s = 1 .. Len(s) /\ DOMAIN t = 1 .. Len(t) /\ Len(s) \in Nat /\ Len(t) \in Nat
  <2>1. s \in Seq(Range(s)) /\ t \in Seq(Range(t))
    BY DEF List
  <2> DEFINE S == Range(s)
             T == Range(t)
  <2>2. s \in Seq(S) /\ t \in Seq(T)
    BY <2>1
  <2> HIDE DEF S, T
  <2>3. s \in Seq(S \cup T) /\ t \in Seq(S \cup T) /\ DOMAIN s = 1 .. Len(s) /\ DOMAIN t = 1 .. Len(t)
         /\ Len(s) \in Nat /\ Len(t) \in Nat
    BY <2>2
  <2> QED
    BY <2>3 DEF S, T
<1>2. /\ s \o t \in Seq(Range(s) \cup Range(t)) /\ DOMAIN (s \o t) = 1 .. Len(s) + Len(t)
      /\ \A i \in 1 .. Len(s) : (s \o t)[i] = s[i]
      /\ \A i \in 1 .. Len(t) : (s \o t)[Len(s) + i] = t[i]
  <2> DEFINE S == Range(s) \cup Range(t)
  <2> HIDE DEF S
  <2>1. s \in Seq(S) /\ t \in Seq(S)
    BY <1>1 DEF S
  <2>2. /\ s \o t \in Seq(S) /\ DOMAIN (s \o t) = 1 .. Len(s) + Len(t)
        /\ \A i \in 1 .. Len(s) : (s \o t)[i] = s[i]
        /\ \A i \in 1 .. Len(t) : (s \o t)[Len(s) + i] = t[i]
    BY <1>1, <2>1
  <2> QED
    BY <2>2 DEF S
<1>3. List(s \o t)
  BY <1>2, AnyList
<1>4. \A i \in 1 .. Len(s) + Len(t) : i \in 1 .. Len(s) \/ \E j \in 1 .. Len(t) : i = Len(s) + j
  <2>1. \A a, b \in Nat : \A i \in 1 .. a + b : i \in 1 .. a \/ (i - a \in 1 .. b /\ i = a + (i - a))
    OBVIOUS
  <2> QED
    BY <1>1, <2>1
<1>5. \A a, b \in Nat : (\A i \in 1 .. a : i \in 1 .. a + b) /\ (\A i \in 1 .. b : a + i \in 1 .. a + b)
  OBVIOUS
<1>6. Range(s \o t) = Range(s) \cup Range(t)
  <2>1. \A x : x \in Range(s \o t) => x \in Range(s) \cup Range(t)
    BY <1>1, <1>2, <1>4 DEF Range
  <2>2. \A x : x \in Range(s) \cup Range(t) => x \in Range(s \o t)
    BY <1>1, <1>2, <1>5 DEF Range
  <2> QED
    BY <2>1, <2>2
<1>7. s \o t = <<>> <=> s = <<>> /\ t = <<>>
  BY <1>3, <1>6, ListFacts
<1>8. ASSUME NEW m, NEW n \in Range(s), Before(s \o t, m, n) PROVE Before(s, m, n)
  <2>1. PICK i \in DOMAIN (s \o t) : (s \o t)[i] = m /\ \A j \in 1 .. i : (s \o t)[j] # n
    BY <1>8 DEF Before
  <2>2. PICK k \in 1 .. Len(s) : s[k] = n
    BY <1>1 DEF Range
  <2>3. k \notin 1 .. i
    BY <1>2, <2>1, <2>2
  <2>4. i \in 1 .. Len(s) /\ \A j \in 1 .. i : j \in 1 .. Len(s)
    BY <1>1, <1>2, <2>1, <2>2, <2>3
  <2>5. s[i] = m /\ \A j \in 1 .. i : s[j] # n
    BY <1>2, <2>1, <2>4
  <2> QED
    BY <1>1, <2>4, <2>5 DEF Before
<1> QED
  BY <1>3, <1>6, <1>7, <1>8

\* The entries of a list that fit a name.
Fits(x, list) == {i \in DOMAIN Likes[list] : x \in Likes[list][i]}

\* x is liked better than y.
Nicer(x, y, list) == \E i \in Fits(x, list) : \A k \in Fits(y, list) : i < k

\* The pick is a name, liked no less than any other, and found before those as good.
LEMMA PickFacts ==
  ASSUME NEW list \in ListNames, NEW names, List(names), names # <<>>, NEW none
  PROVE  /\ Pick(names, list, none) \in Range(names)
         /\ \A n \in Range(names) \ {Pick(names, list, none)} :
               /\ ~Nicer(n, Pick(names, list, none), list)
               /\ \/ Nicer(Pick(names, list, none), n, list)
                  \/ Before(names, Pick(names, list, none), n)
<1> DEFINE fits == {i \in DOMAIN Likes[list] : Range(names) \cap Likes[list][i] # {}}
           m == Pick(names, list, none)
<1>1. fits \in SUBSET Nat
  BY SyncAssumption, ListFacts
<1>2. \A n \in Range(names) : \A i \in Fits(n, list) : i \in fits
  BY DEF Fits
<1>3. DOMAIN names = 1 .. Len(names) /\ Len(names) \in Nat /\ 1 \in DOMAIN names
      /\ \A i \in DOMAIN names : names[i] \in Range(names)
  BY ListFacts
<1>4. CASE fits = {}
  <2>1. m = names[1]
    BY <1>4 DEF Pick
  <2>2. \A n \in Range(names) : Fits(n, list) = {}
    BY <1>2, <1>4
  <2>3. \A n \in Range(names) : ~Nicer(n, m, list)
    BY <2>2 DEF Nicer
  <2>4. \A j \in 1 .. 1 : j = 1
    OBVIOUS
  <2> HIDE DEF m, fits
  <2>5. \A n \in Range(names) \ {m} : Before(names, m, n)
    BY <1>3, <2>1, <2>4 DEF Before
  <2> QED
    BY <1>3, <2>1, <2>3, <2>5 DEF m
<1>5. CASE fits # {}
  <2> DEFINE i0 == Min(fits)
             X == Likes[list][i0]
  <2>1. i0 \in fits /\ \A y \in fits : i0 <= y
    <3> HIDE DEF fits
    <3>1. \E x \in fits : \A y \in fits : x <= y
      BY <1>1, <1>5, HasLeast
    <3> QED
      BY <3>1 DEF Min
  <2>2. m = FirstOr(Within(names, X), none)
    BY <1>5 DEF Pick, Only, Within
  <2>3. i0 \in DOMAIN Likes[list] /\ Range(names) \cap X # {}
    BY <2>1
  <2>4. i0 \in Nat /\ \A y \in fits : y \in Nat
    BY <1>1, <2>1
  <2> HIDE DEF i0, X, fits, m
  <2>5. Within(names, X) # <<>>
    <3>1. Range(Within(names, X)) # {}
      BY <2>3, WithinFacts
    <3>2. List(Within(names, X))
      BY WithinFacts
    <3> QED
      BY <3>1, <3>2, ListFacts
  <2>6. PICK i \in DOMAIN names : m = names[i] /\ names[i] \in X
                                  /\ \A j \in DOMAIN names : names[j] \in X => i <= j
    BY <2>2, <2>5, WithinFacts DEF FirstOr
  <2>7. i0 \in Fits(m, list)
    BY <2>3, <2>6 DEF Fits, X
  <2>8. ASSUME NEW n \in Range(names) \ {m}
        PROVE  ~Nicer(n, m, list) /\ (Nicer(m, n, list) \/ Before(names, m, n))
    <3>1. \A k \in Fits(n, list) : i0 <= k /\ k \in Nat
      BY <1>2, <2>1, <2>4
    <3>2. ~Nicer(n, m, list)
      BY <2>4, <2>7, <3>1 DEF Nicer
    <3>3. CASE i0 \in Fits(n, list)
      <4>1. n \in X
        BY <3>3 DEF Fits, X
      <4>2. \A j \in 1 .. i : j \in DOMAIN names /\ (names[j] = n => j = i)
        <5>1. \A j \in 1 .. i : j \in DOMAIN names /\ j <= i /\ j \in Nat /\ i \in Nat
          BY <1>3
        <5>2. \A j \in 1 .. i : names[j] = n => i <= j
          BY <2>6, <4>1, <5>1
        <5>3. \A a, b \in Nat : a <= b /\ b <= a => a = b
          OBVIOUS
        <5> QED
          BY <5>1, <5>2, <5>3
      <4>3. \A j \in 1 .. i : names[j] # n
        BY <2>6, <4>2
      <4> QED
        BY <2>6, <3>2, <4>3 DEF Before
    <3>4. CASE i0 \notin Fits(n, list)
      <4>1. \A k \in Fits(n, list) : i0 < k
        BY <2>4, <3>1, <3>4
      <4> QED
        BY <2>7, <3>2, <4>1 DEF Nicer
    <3> QED
      BY <3>3, <3>4
  <2> QED
    BY <1>3, <2>6, <2>8 DEF m
<1> QED
  BY <1>4, <1>5

\* What a list of names says about S is what F says.
Follows(names, F, S) ==
  /\ List(names) /\ S \subseteq Range(names)
  /\ \A m \in S : \A n \in S : Before(names, m, n) => Before(F, m, n)

\* Two lists of names that say the same about S do not disagree which of S to pick:
\* what else they hold does not matter.
LEMMA PicksAgree ==
  ASSUME NEW list \in ListNames, NEW F, List(F), NEW S,
         NEW s, Follows(s, F, S), NEW none, Pick(s, list, none) \in S,
         NEW t, Follows(t, F, S), NEW other, Pick(t, list, other) \in S
  PROVE  Pick(s, list, none) = Pick(t, list, other)
<1> DEFINE m == Pick(s, list, none)
           n == Pick(t, list, other)
<1>1. List(s) /\ List(t) /\ m \in Range(s) /\ n \in Range(s) /\ m \in Range(t) /\ n \in Range(t)
  BY DEF Follows
<1>2. s # <<>> /\ t # <<>>
  BY <1>1, ListFacts
<1>3. ASSUME m # n PROVE FALSE
  <2>1. ~Nicer(n, m, list) /\ (Nicer(m, n, list) \/ Before(s, m, n))
    BY <1>1, <1>2, <1>3, PickFacts
  <2>2. ~Nicer(m, n, list) /\ (Nicer(n, m, list) \/ Before(t, n, m))
    BY <1>1, <1>2, <1>3, PickFacts
  <2>3. m \in S /\ n \in S
    OBVIOUS
  <2> HIDE DEF m, n
  <2>4. Before(F, m, n) /\ Before(F, n, m)
    BY <2>1, <2>2, <2>3 DEF Follows
  <2> QED
    BY <1>3, <2>4, OneIsFirst
<1> QED
  BY <1>3

\* The models of the host that stands for a provider are a list.
LEMMA HostsAreTyped ==
  ASSUME NEW r \in Scans, NEW p \in Managed
  PROVE  List(HostFor(r, p).models)
<1> DEFINE Fine(hosts) == List(hosts) /\ \A h \in Range(hosts) : List(h.models)
           up(h) == h.reachable
<1>1. List(<<>>)
  BY NoneListed
<1>2. Nowhere.models = <<>>
  BY DEF Nowhere
<1>3. Fine(r.ollama) /\ Fine(r.openai) /\ List(r.local.models)
  BY SyncAssumption
<1>4. ASSUME NEW hosts, Fine(hosts), NEW I \in SUBSET DOMAIN hosts PROVE Fine(At(hosts, I))
  BY <1>4, AtFacts, ListFacts
<1>5. ASSUME NEW hosts, Fine(hosts) PROVE Fine(Up(hosts))
  <2>1. Up(hosts) = At(hosts, {i \in DOMAIN hosts : hosts[i].reachable})
    BY DEF Up, Only
  <2>2. {i \in DOMAIN hosts : hosts[i].reachable} \in SUBSET DOMAIN hosts
    OBVIOUS
  <2> QED
    BY <1>4, <1>5, <2>1, <2>2
<1>6. ASSUME NEW hosts, Fine(hosts), NEW none, List(none.models) PROVE List(FirstOr(hosts, none).models)
  <2>1. hosts # <<>> => hosts[1] \in Range(hosts)
    BY <1>6, ListFacts
  <2> QED
    BY <1>6, <2>1 DEF FirstOr
<1>7. ASSUME NEW hosts, Fine(hosts) PROVE List(FirstHost(hosts).models)
  <2>1. List(FirstOr(hosts, Nowhere).models)
    BY <1>1, <1>2, <1>6, <1>7
  <2>2. Fine(Up(hosts))
    BY <1>5, <1>7
  <2> HIDE DEF Fine
  <2>3. List(FirstOr(Up(hosts), FirstOr(hosts, Nowhere)).models)
    BY <1>6, <2>1, <2>2
  <2> QED
    BY <2>3 DEF FirstHost
<1>8. ASSUME NEW hosts, Fine(hosts), NEW q PROVE List(ProviderTierHost(hosts, q).models)
  <2>1. Only(hosts, LAMBDA h : h.enabled /\ h.provider = q)
          = At(hosts, {i \in DOMAIN hosts : hosts[i].enabled /\ hosts[i].provider = q})
    BY DEF Only
  <2>2. {i \in DOMAIN hosts : hosts[i].enabled /\ hosts[i].provider = q} \in SUBSET DOMAIN hosts
    OBVIOUS
  <2> HIDE DEF Fine
  <2>3. Fine(At(hosts, {i \in DOMAIN hosts : hosts[i].enabled /\ hosts[i].provider = q}))
    BY <1>4, <1>8, <2>2
  <2>4. List(FirstHost(At(hosts, {i \in DOMAIN hosts : hosts[i].enabled /\ hosts[i].provider = q})).models)
    BY <1>7, <2>3
  <2> QED
    BY <2>1, <2>4 DEF ProviderTierHost
<1>9. ASSUME NEW hosts, Fine(hosts) PROVE List(PrimaryTierHost(hosts).models)
  <2> DEFINE on == At(hosts, {i \in DOMAIN hosts : hosts[i].enabled})
             among == IF Up(on) = <<>> THEN on ELSE Up(on)
             main == At(among, {i \in DOMAIN among : among[i].primary})
  <2>1. {i \in DOMAIN hosts : hosts[i].enabled} \in SUBSET DOMAIN hosts
        /\ {i \in DOMAIN among : among[i].primary} \in SUBSET DOMAIN among
    OBVIOUS
  <2>2. PrimaryTierHost(hosts) = FirstOr(main, FirstOr(among, Nowhere))
    BY DEF PrimaryTierHost, Only
  <2> HIDE DEF Fine
  <2>3. Fine(on)
    BY <1>4, <1>9, <2>1
  <2>4. Fine(Up(on))
    <3> HIDE DEF on
    <3> QED
      BY <1>5, <2>3
  <2>5. Fine(among)
    BY <2>3, <2>4
  <2>6. Fine(main)
    <3> HIDE DEF among
    <3> QED
      BY <1>4, <2>1, <2>5
  <2> HIDE DEF main, among
  <2>7. List(FirstOr(among, Nowhere).models)
    BY <1>1, <1>2, <1>6, <2>5
  <2> QED
    BY <1>6, <2>2, <2>6, <2>7
<1> HIDE DEF Fine
<1>10. CASE p = Local
  BY <1>3, <1>10 DEF HostFor, Local, Remote, Big, Llama, Sglang
<1>11. CASE p = Remote
  BY <1>3, <1>9, <1>11 DEF HostFor, Local, Remote, Big, Llama, Sglang
<1>12. CASE p = Big
  BY <1>3, <1>8, <1>12 DEF HostFor, Local, Remote, Big, Llama, Sglang
<1>13. CASE p = Llama
  BY <1>3, <1>8, <1>13 DEF HostFor, Local, Remote, Big, Llama, Sglang
<1>14. CASE p = Sglang
  BY <1>3, <1>8, <1>9, <1>14 DEF HostFor, Local, Remote, Big, Llama, Sglang
<1> QED
  BY <1>10, <1>11, <1>12, <1>13, <1>14 DEF Managed

\* The lists of a configuration are lists.
Proper(c) == \A p \in DOMAIN c.models : List(c.models[p])

\* The names of the agents: those that are not hosted, and no others.
LEMMA AgentNamesFacts ==
  ASSUME NEW c, NEW p
  PROVE  /\ List(AgentNames(c, p))
         /\ \A a \in Agents : c.agent[a][1] = p /\ c.agent[a][2] \notin Hosted \cup {Unset} =>
              c.agent[a][2] \in Range(AgentNames(c, p))
         /\ \A m \in Range(AgentNames(c, p)) : m \notin Hosted \cup {Unset}
<1> DEFINE I == {k \in DOMAIN AgentOrder : c.agent[AgentOrder[k]][1] = p}
           on == At(AgentOrder, I)
           f == [k \in DOMAIN on |-> c.agent[on[k]][2]]
<1>1. I \in SUBSET DOMAIN AgentOrder /\ List(AgentOrder)
  BY SyncAssumption
<1>2. List(on) /\ \A x : x \in Range(on) <=> \E i \in I : x = AgentOrder[i]
  <2> HIDE DEF I
  <2> QED
    BY <1>1, AtFacts
<1>3. AgentNames(c, p) = Unique(f)
  BY DEF AgentNames
<1>4. \A a \in Agents : c.agent[a][1] = p => a \in Range(on)
  <2>1. \A a \in Agents : \E k \in DOMAIN AgentOrder : a = AgentOrder[k]
    BY DEF Agents, Range
  <2> HIDE DEF on
  <2> QED
    BY <1>2, <2>1
<1> HIDE DEF I, on
<1>5. List(f)
  <2>1. DOMAIN on = 1 .. Len(on) /\ Len(on) \in Nat
    BY <1>2, ListFacts
  <2> DEFINE S == {c.agent[on[k]][2] : k \in DOMAIN on}
  <2>2. f \in [1 .. Len(on) -> S]
    BY <2>1
  <2>3. f \in Seq(S)
    <3> HIDE DEF f, S
    <3> QED
      BY <2>1, <2>2, SeqDef
  <2> HIDE DEF f, S
  <2> QED
    BY <2>3, AnyList
<1>6. \A a \in Range(on) : c.agent[a][2] \in Range(f)
  BY DEF Range
<1> HIDE DEF f
<1>7. /\ List(Unique(f))
      /\ \A x : x \in Range(Unique(f)) <=> x \in Range(f) /\ x \notin Hosted \cup {Unset}
  BY <1>5, UniqueFacts
<1> QED
  BY <1>3, <1>4, <1>6, <1>7

\* The names that the configuration has for a provider are a list, and none of them is hosted.
LEMMA ProviderNamesFacts ==
  ASSUME NEW c, Proper(c), NEW p
  PROVE  /\ List(ProviderNames(c, p))
         /\ \A m \in Range(ProviderNames(c, p)) : m \notin Hosted \cup {Unset}
<1>1. CASE p \in DOMAIN c.models
  <2>1. List(c.models[p]) /\ ProviderNames(c, p) = Unique(c.models[p])
    BY <1>1 DEF ProviderNames, Proper
  <2> QED
    BY <2>1, UniqueFacts
<1>2. CASE p \notin DOMAIN c.models
  BY <1>2, NoneListed DEF ProviderNames
<1> QED
  BY <1>1, <1>2

\* What is known of a provider and what is named of it.
LEMMA KnownAndNamed ==
  ASSUME NEW c, Proper(c), NEW p
  PROVE  /\ List(Known(c, p)) /\ List(Named(c, p))
         /\ \A m \in Range(Known(c, p)) \cup Range(Named(c, p)) : m \notin Hosted \cup {Unset}
         /\ \A a \in Agents : Source.agent[a][1] = p /\ Source.agent[a][2] \notin Hosted \cup {Unset} =>
              Source.agent[a][2] \in Range(Named(c, p))
<1>1. Proper(Source)
  BY SyncAssumption DEF Proper
<1>2. /\ List(ProviderNames(c, p)) /\ List(ProviderNames(Source, p))
      /\ \A m \in Range(ProviderNames(c, p)) \cup Range(ProviderNames(Source, p)) : m \notin Hosted \cup {Unset}
  BY <1>1, ProviderNamesFacts
<1>3. /\ List(AgentNames(c, p)) /\ List(AgentNames(Source, p))
      /\ \A m \in Range(AgentNames(c, p)) \cup Range(AgentNames(Source, p)) : m \notin Hosted \cup {Unset}
  BY AgentNamesFacts
<1>4. \A a \in Agents : Source.agent[a][1] = p /\ Source.agent[a][2] \notin Hosted \cup {Unset} =>
              Source.agent[a][2] \in Range(AgentNames(Source, p))
  BY AgentNamesFacts
<1>5. List(Known(c, p)) /\ Range(Known(c, p)) = Range(ProviderNames(c, p)) \cup Range(ProviderNames(Source, p))
  BY <1>2, CatFacts DEF Known
<1>6. List(Named(c, p)) /\ Range(Named(c, p)) = Range(AgentNames(c, p)) \cup Range(AgentNames(Source, p))
  BY <1>3, CatFacts DEF Named
<1> QED
  BY <1>2, <1>3, <1>4, <1>5, <1>6

\* What a provider of the stack offers: all its host lists that fits, in that order, and
\* the shipped models of the agents, if they are worth keeping.
LEMMA NamesFacts ==
  ASSUME NEW r \in Scans, NEW c, Proper(c), NEW p \in Managed
  PROVE  /\ List(NamesOf(r, c, p))
         /\ \A m \in Range(NamesOf(r, c, p)) : m \notin Hosted \cup {Unset}
         /\ Listed(r, c, p) \subseteq Range(NamesOf(r, c, p))
         /\ List(Found(r, p)) /\ Follows(NamesOf(r, c, p), Found(r, p), Listed(r, c, p))
         /\ Listed(r, c, p) # {} =>
              \A a \in Agents : Source.agent[a][1] = p =>
                 (Source.agent[a][2] \in Range(NamesOf(r, c, p)) <=>
                    /\ Source.agent[a][2] \notin Hosted \cup {Unset}
                    /\ p = Local \/ Source.agent[a][2] \in Worth(p))
<1> DEFINE found == Found(r, p)
           known == IF found # <<>> THEN found ELSE Known(c, p)
           required == Required(r, c, p)
           all == known \o required
           names == NamesOf(r, c, p)
           listed == Listed(r, c, p)
<1>1. List(found) /\ \A m \in Range(found) : m \notin Hosted \cup {Unset}
  BY HostsAreTyped, UniqueFacts DEF Found
<1>2. /\ List(Known(c, p)) /\ List(Named(c, p)) /\ List(Named(c, Llama))
      /\ \A m \in Range(Known(c, p)) \cup Range(Named(c, p)) \cup Range(Named(c, Llama)) : m \notin Hosted \cup {Unset}
  BY KnownAndNamed
<1>3. List(known)
  BY <1>1, <1>2
<1>4. listed = IF Reached(r, p) THEN Range(found) \cap Fitting ELSE {}
  BY DEF Listed
<1>5. /\ List(required) /\ \A m \in Range(required) : m \notin Hosted \cup {Unset}
      /\ p = Local \/ Range(required) \subseteq Worth(p)
      /\ found # <<>> /\ Reached(r, p) => \A m \in Range(Named(c, p)) : p = Local \/ m \in Worth(p) => m \in Range(required)
  <2>1. CASE p = Local
    <3>1. required = Named(c, p) \o Named(c, Llama)
      BY <2>1 DEF Required
    <3>2. List(required) /\ Range(required) = Range(Named(c, p)) \cup Range(Named(c, Llama))
      BY <1>2, <3>1, CatFacts
    <3> QED
      BY <1>2, <2>1, <3>2
  <2>2. CASE p # Local
    <3>1. required = IF Reached(r, p) /\ found \o Known(c, p) # <<>>
                     THEN Within(Named(c, p), Worth(p)) ELSE <<>>
      BY <2>2 DEF Required, Only, Within, Reached
    <3>2. found # <<>> => found \o Known(c, p) # <<>>
      BY <1>1, <1>2, CatFacts
    <3>3. /\ List(Within(Named(c, p), Worth(p)))
          /\ \A x : x \in Range(Within(Named(c, p), Worth(p))) <=> x \in Range(Named(c, p)) /\ x \in Worth(p)
      BY <1>2, WithinFacts
    <3>4. List(<<>>) /\ Range(<<>>) = {}
      BY NoneListed
    <3> HIDE DEF required, found
    <3>5. CASE Reached(r, p) /\ found \o Known(c, p) # <<>>
      BY <1>2, <2>2, <3>1, <3>3, <3>5
    <3>6. CASE ~(Reached(r, p) /\ found \o Known(c, p) # <<>>)
      BY <2>2, <3>1, <3>2, <3>4, <3>6
    <3> QED
      BY <3>5, <3>6
  <2> QED
    BY <2>1, <2>2
<1>6. names = Within(Unique(all), Range(required) \cup Fitting)
  BY DEF NamesOf, Merged, Only, Within
<1>7. Fitting \subseteq Worth(p)
  BY DEF Fitting, Worth
<1>8. found # <<>> => known = found
  OBVIOUS
<1> HIDE DEF found, known, required
<1>9. List(all) /\ Range(all) = Range(known) \cup Range(required)
      /\ \A m : \A n \in Range(known) : Before(all, m, n) => Before(known, m, n)
  BY <1>3, <1>5, CatFacts
<1> HIDE DEF all
<1>10. /\ List(Unique(all))
       /\ \A x : x \in Range(Unique(all)) <=> x \in Range(all) /\ x \notin Hosted \cup {Unset}
       /\ \A m : \A n : n \notin Hosted \cup {Unset} /\ Before(Unique(all), m, n) => Before(all, m, n)
  BY <1>9, UniqueFacts
<1> HIDE DEF names, listed
<1>11. /\ List(names)
       /\ \A x : x \in Range(names) <=> x \in Range(Unique(all)) /\ x \in Range(required) \cup Fitting
       /\ \A m : \A n \in Range(required) \cup Fitting : Before(names, m, n) => Before(Unique(all), m, n)
  <2> DEFINE X == Range(required) \cup Fitting
  <2> HIDE DEF X
  <2>1. names = Within(Unique(all), X)
    BY <1>6 DEF X
  <2>2. /\ List(names)
        /\ \A x : x \in Range(names) <=> x \in Range(Unique(all)) /\ x \in X
        /\ \A m : \A n \in X : Before(names, m, n) => Before(Unique(all), m, n)
    BY <1>10, <2>1, WithinFacts
  <2> QED
    BY <2>2 DEF X
<1>12. listed # {} => found # <<>> /\ Reached(r, p)
  BY <1>1, <1>4, ListFacts
<1>13. listed \subseteq Range(names)
  BY <1>1, <1>4, <1>8, <1>9, <1>10, <1>11, <1>12
<1>14. Follows(names, found, listed)
  <2>1. \A m \in listed : \A n \in listed : Before(names, m, n) => Before(found, m, n)
    BY <1>1, <1>4, <1>8, <1>9, <1>10, <1>11, <1>12
  <2> QED
    BY <1>11, <1>13, <2>1 DEF Follows
<1>15. ASSUME listed # {}, NEW a \in Agents, Source.agent[a][1] = p
       PROVE  Source.agent[a][2] \in Range(names) <=>
                    /\ Source.agent[a][2] \notin Hosted \cup {Unset}
                    /\ p = Local \/ Source.agent[a][2] \in Worth(p)
  <2>1. Source.agent[a][2] \notin Hosted \cup {Unset} => Source.agent[a][2] \in Range(Named(c, p))
    BY <1>15, KnownAndNamed
  <2>2. found # <<>> /\ Reached(r, p)
    BY <1>12, <1>15
  <2> QED
    BY <1>5, <1>7, <1>9, <1>10, <1>11, <2>1, <2>2
<1>16. \A m \in Range(names) : m \notin Hosted \cup {Unset}
  BY <1>10, <1>11
<1> QED
  BY <1>1, <1>11, <1>13, <1>14, <1>15, <1>16 DEF found, names, listed

\* What a host of the cloud offers: all its provider lists, in that order, and the
\* shipped models of the agents.
LEMMA CloudNamesFacts ==
  ASSUME NEW r \in Scans, OneEach(r), NEW c, Proper(c), NEW h \in Range(r.cloud), h.enabled
  PROVE  /\ h.provider \notin Managed
         /\ \A g \in Range(r.cloud) : g.enabled /\ g.provider = h.provider => g = h
         /\ List(CloudNames(c, h)) /\ List(Offering(c, h))
         /\ \A m \in Range(CloudNames(c, h)) : m \notin Hosted \cup {Unset}
         /\ Follows(CloudNames(c, h), Offering(c, h), Listed(r, c, h.provider))
         /\ \A a \in Agents : Source.agent[a][1] = h.provider =>
              (Source.agent[a][2] \in Range(CloudNames(c, h)) <=> Source.agent[a][2] \notin Hosted \cup {Unset})
<1> DEFINE p == h.provider
           known == Known(c, p)
           named == Named(c, p)
           offering == Offering(c, h)
           all == offering \o named
           names == CloudNames(c, h)
           listed == Listed(r, c, p)
<1>1. p \notin Managed /\ \A g \in Range(r.cloud) : g.enabled /\ g.provider = p => g = h
  <2>1. \A g \in Range(r.cloud) : \E i \in DOMAIN r.cloud : g = r.cloud[i]
    BY DEF Range
  <2>2. PICK i \in DOMAIN r.cloud : h = r.cloud[i]
    BY <2>1
  <2> QED
    BY <2>1, <2>2 DEF OneEach
<1>2. List(h.models)
  BY SyncAssumption
<1>3. List(known) /\ List(named)
      /\ \A a \in Agents : Source.agent[a][1] = p /\ Source.agent[a][2] \notin Hosted \cup {Unset} =>
              Source.agent[a][2] \in Range(named)
  BY KnownAndNamed
<1>4. offering = h.models \o known
  BY DEF Offering
<1>5. names = Unique(all)
  BY DEF CloudNames
<1>6. listed = Range(Unique(offering))
  <2>1. listed = UNION {Range(Unique(Offering(c, g))) : g \in {g \in Range(r.cloud) : g.enabled /\ g.provider = p}}
    BY <1>1 DEF Listed
  <2>2. {g \in Range(r.cloud) : g.enabled /\ g.provider = p} = {h}
    BY <1>1
  <2> QED
    BY <2>1, <2>2
<1> HIDE DEF p, known, named
<1>7. List(offering)
  BY <1>2, <1>3, <1>4, CatFacts
<1> HIDE DEF offering
<1>8. List(all) /\ Range(all) = Range(offering) \cup Range(named)
      /\ \A m : \A n \in Range(offering) : Before(all, m, n) => Before(offering, m, n)
  BY <1>3, <1>7, CatFacts
<1> HIDE DEF all, names, listed
<1>9. /\ List(names)
      /\ \A x : x \in Range(names) <=> x \in Range(all) /\ x \notin Hosted \cup {Unset}
      /\ \A m : \A n : n \notin Hosted \cup {Unset} /\ Before(names, m, n) => Before(all, m, n)
  BY <1>5, <1>8, UniqueFacts
<1>10. \A x : x \in listed <=> x \in Range(offering) /\ x \notin Hosted \cup {Unset}
  BY <1>6, <1>7, UniqueFacts
<1>11. Follows(names, offering, listed)
  <2>1. \A m \in listed : \A n \in listed : Before(names, m, n) => Before(offering, m, n)
    BY <1>8, <1>9, <1>10
  <2>2. listed \subseteq Range(names)
    BY <1>8, <1>9, <1>10
  <2> QED
    BY <1>9, <2>1, <2>2 DEF Follows
<1>12. \A a \in Agents : Source.agent[a][1] = p =>
              (Source.agent[a][2] \in Range(names) <=> Source.agent[a][2] \notin Hosted \cup {Unset})
  BY <1>3, <1>8, <1>9
<1>13. \A m \in Range(names) : m \notin Hosted \cup {Unset}
  BY <1>9
<1> QED
  BY <1>1, <1>7, <1>9, <1>11, <1>12, <1>13 DEF p, names, offering, listed

\* The hosts of the cloud that count.
LEMMA CloudHostsFacts ==
  ASSUME NEW r \in Scans, NEW c
  PROVE  /\ List(CloudHosts(r, c))
         /\ \A h : h \in Range(CloudHosts(r, c)) <=> h \in Range(r.cloud) /\ h.enabled /\ CloudNames(c, h) # <<>>
<1> DEFINE I == {i \in DOMAIN r.cloud : r.cloud[i].enabled /\ CloudNames(c, r.cloud[i]) # <<>>}
<1>1. CloudHosts(r, c) = At(r.cloud, I)
  BY DEF CloudHosts, Only
<1>2. I \in SUBSET DOMAIN r.cloud /\ List(r.cloud)
  BY SyncAssumption
<1>3. \A h : (\E i \in I : h = r.cloud[i]) <=> h \in Range(r.cloud) /\ h.enabled /\ CloudNames(c, h) # <<>>
  BY DEF Range
<1> HIDE DEF I
<1>4. List(At(r.cloud, I)) /\ \A h : h \in Range(At(r.cloud, I)) <=> \E i \in I : h = r.cloud[i]
  BY <1>2, AtFacts
<1> QED
  BY <1>1, <1>3, <1>4

\* What is offered, provider by provider.
LEMMA AssignableFacts ==
  ASSUME NEW r \in Scans, OneEach(r), NEW c, Proper(c)
  PROVE  /\ DOMAIN Assignable(r, c) = Managed \cup {h.provider : h \in Range(CloudHosts(r, c))}
         /\ \A p \in Managed : Assignable(r, c)[p] = Usable(r, c, p)
         /\ \A h \in Range(CloudHosts(r, c)) : Assignable(r, c)[h.provider] = CloudNames(c, h)
<1> DEFINE hosts == CloudHosts(r, c)
           at(p) == {k \in DOMAIN hosts : hosts[k].provider = p}
           cloud == {hosts[k].provider : k \in DOMAIN hosts}
           offered == Assignable(r, c)
<1>1. offered = [p \in Managed \cup cloud |->
                   IF p \in cloud THEN CloudNames(c, hosts[Max(at(p))])
                   ELSE IF Reached(r, p) THEN NamesOf(r, c, p) ELSE <<>>]
  BY DEF Assignable
<1>2. /\ DOMAIN hosts = 1 .. Len(hosts) /\ Len(hosts) \in Nat
      /\ \A h \in Range(hosts) : h \in Range(r.cloud) /\ h.enabled
      /\ \A i \in DOMAIN hosts : hosts[i] \in Range(hosts)
  BY CloudHostsFacts, ListFacts
<1>3. cloud = {h.provider : h \in Range(hosts)}
  BY DEF Range
<1>4. ASSUME NEW h \in Range(hosts)
      PROVE  /\ h.provider \notin Managed /\ h.provider \in cloud
             /\ CloudNames(c, hosts[Max(at(h.provider))]) = CloudNames(c, h)
  <2>1. h.provider \notin Managed
        /\ \A g \in Range(r.cloud) : g.enabled /\ g.provider = h.provider => g = h
    BY <1>2, CloudNamesFacts
  <2>2. at(h.provider) \in SUBSET (1 .. Len(hosts)) /\ at(h.provider) # {}
    BY <1>2 DEF Range
  <2>3. Max(at(h.provider)) \in at(h.provider)
    <3> DEFINE S == at(h.provider)
    <3>0. S \in SUBSET (1 .. Len(hosts)) /\ S # {}
      BY <2>2
    <3> HIDE DEF S
    <3>1. \E x \in S : \A y \in S : x >= y
      BY <1>2, <3>0, HasGreatest
    <3>2. Max(S) \in S
      BY <3>1 DEF Max
    <3> QED
      BY <3>2 DEF S
  <2>4. hosts[Max(at(h.provider))] = h
    BY <1>2, <2>1, <2>3
  <2> QED
    BY <1>3, <2>1, <2>4
<1>5. \A p \in Managed : p \notin cloud
  BY <1>3, <1>4
<1> HIDE DEF cloud, at, hosts, offered
<1> QED
  BY <1>1, <1>3, <1>4, <1>5 DEF Usable, hosts, offered

\* d is a configuration that runs have made of c.
Heir(c, d) ==
  /\ OnCopilot(c) <=> OnCopilot(d)
  /\ \A a \in Agents : LeftAlone(c, a) => LeftAlone(d, a)
  /\ \A p : p \notin Managed => ProviderNames(c, p) = ProviderNames(d, p)

\* A run makes such a configuration.
LEMMA SyncMakesHeirs ==
  ASSUME NEW r \in Scans, NEW c, Proper(c)
  PROVE  Heir(c, Synced(r, c)) /\ Proper(Synced(r, c))
<1> DEFINE d == Synced(r, c)
<1>1. /\ DOMAIN d.models = DOMAIN c.models
      /\ \A p \in DOMAIN c.models : d.models[p] = IF p \in Managed THEN NamesOf(r, c, p) ELSE c.models[p]
      /\ d.agent = AgentModels(r, c)
      /\ OnCopilot(c) => d.model = c.model /\ d.small = c.small
      /\ ~OnCopilot(c) => /\ d.model = OrRef(DefaultModel(Picks(r, c)), c.model)
                          /\ d.small = OrRef(SmallModel(Picks(r, c)), OrRef(c.small, OrRef(DefaultModel(Picks(r, c)), c.model)))
  BY DEF Synced, Written
<1> HIDE DEF d
<1>2. Proper(d)
  BY <1>1, NamesFacts DEF Proper
<1>3. \A p : p \notin Managed => ProviderNames(c, p) = ProviderNames(d, p)
  BY <1>1 DEF ProviderNames
<1>4. OnCopilot(c) <=> OnCopilot(d)
  <2>1. CASE OnCopilot(c)
    BY <1>1, <2>1 DEF OnCopilot
  <2>2. CASE ~OnCopilot(c)
    <3>1. /\ Picks(r, c).llamaPrimary[1] = Llama /\ Picks(r, c).localPrimary[1] = Local
          /\ Picks(r, c).llamaSmall[1] = Llama /\ Picks(r, c).localSmall[1] = Local
      BY DEF Picks, PicksAmong
    <3>2. DefaultModel(Picks(r, c))[1] # Copilot /\ SmallModel(Picks(r, c))[1] # Copilot
      BY <3>1 DEF DefaultModel, SmallModel, OrRef, Copilot, Llama, Local
    <3>3. c.model[1] # Copilot /\ c.small[1] # Copilot
      BY <2>2 DEF OnCopilot
    <3>4. d.model[1] # Copilot /\ d.small[1] # Copilot
      BY <1>1, <2>2, <3>2, <3>3 DEF OrRef
    <3> QED
      BY <2>2, <3>4 DEF OnCopilot
  <2> QED
    BY <2>1, <2>2
<1>5. ASSUME NEW a \in Agents, LeftAlone(c, a) PROVE LeftAlone(d, a)
  <2>1. d.agent[a] = c.agent[a]
    BY <1>1, <1>5 DEF AgentModels
  <2> QED
    BY <1>4, <1>5, <2>1 DEF LeftAlone
<1> QED
  BY <1>2, <1>3, <1>4, <1>5 DEF Heir, d

\* What is listed does not change.
LEMMA HeirLists ==
  ASSUME NEW r, NEW c, NEW d, Heir(c, d)
  PROVE  /\ \A h : h.provider \notin Managed => Offering(c, h) = Offering(d, h)
         /\ \A p : Listed(r, c, p) = Listed(r, d, p)
         /\ Stocked(r, c) <=> Stocked(r, d)
<1>1. \A h : h.provider \notin Managed => Offering(c, h) = Offering(d, h)
  BY DEF Heir, Offering, Known
<1>2. ASSUME NEW p PROVE Listed(r, c, p) = Listed(r, d, p)
  <2>1. CASE p \in Managed
    BY <2>1 DEF Listed
  <2>2. CASE p \notin Managed
    <3> DEFINE H == {h \in Range(r.cloud) : h.enabled /\ h.provider = p}
    <3>1. \A h \in H : Range(Unique(Offering(c, h))) = Range(Unique(Offering(d, h)))
      BY <1>1, <2>2
    <3>2. {Range(Unique(Offering(c, h))) : h \in H} = {Range(Unique(Offering(d, h))) : h \in H}
      BY <3>1
    <3>3. Listed(r, c, p) = UNION {Range(Unique(Offering(c, h))) : h \in H}
          /\ Listed(r, d, p) = UNION {Range(Unique(Offering(d, h))) : h \in H}
      BY <2>2 DEF Listed
    <3> QED
      BY <3>2, <3>3
  <2> QED
    BY <2>1, <2>2
<1> QED
  BY <1>1, <1>2 DEF Stocked

\* What two configurations of one kind come to on one registry.
Twins(r, c, d) ==
  /\ r \in Scans /\ OneEach(r) /\ Proper(c) /\ Proper(d)
  /\ Stocked(r, c) /\ Stocked(r, d)
  /\ \A h : h.provider \notin Managed => Offering(c, h) = Offering(d, h)
  /\ \A p : Listed(r, c, p) = Listed(r, d, p)

\* Two places to run that one cannot tell apart but for models that are listed nowhere.
Alike(r, c, d, x, y) ==
  /\ x[1] = y[1]
  /\ MayRun(Assignable(r, c), x) <=> MayRun(Assignable(r, d), y)
  /\ MayRun(Assignable(r, c), x) /\ {x[2], y[2]} \subseteq Listed(r, c, x[1]) => x = y

\* Nothing runs on a machine that is not reached.
LEMMA NothingThere ==
  ASSUME NEW r, NEW c, NEW d, Twins(r, c, d), NEW p \in Managed, ~Reached(r, p), NEW m, NEW n
  PROVE  Alike(r, c, d, <<p, m>>, <<p, n>>)
<1>1. Range(<<>>) = {}
  BY NoneListed
<1>2. Assignable(r, c)[p] = <<>> /\ Assignable(r, d)[p] = <<>>
  BY AssignableFacts DEF Twins, Usable
<1> QED
  BY <1>1, <1>2 DEF Alike, MayRun

\* On a machine that is reached, the same list picks models that are alike, and they may run.
LEMMA PicksAlike ==
  ASSUME NEW r, NEW c, NEW d, Twins(r, c, d), NEW p \in Managed, Reached(r, p),
         NEW list \in ListNames, NEW none, NEW other
  PROVE  /\ Alike(r, c, d, <<p, Pick(Usable(r, c, p), list, none)>>, <<p, Pick(Usable(r, d, p), list, other)>>)
         /\ MayRun(Assignable(r, c), <<p, Pick(Usable(r, c, p), list, none)>>)
         /\ Pick(Usable(r, c, p), list, none) # Unset
         /\ Pick(Usable(r, d, p), list, other) # Unset
<1> DEFINE F == Found(r, p)
           S == Listed(r, c, p)
           s == NamesOf(r, c, p)
           t == NamesOf(r, d, p)
<1>1. Usable(r, c, p) = s /\ Usable(r, d, p) = t
  BY DEF Usable
<1>2. List(F) /\ Follows(s, F, S) /\ S # {} /\ \A m \in Range(s) : m \notin Hosted \cup {Unset}
  BY NamesFacts DEF Twins, Stocked
<1>3. Follows(t, F, S) /\ \A m \in Range(t) : m \notin Hosted \cup {Unset}
  <2>1. Follows(t, F, Listed(r, d, p)) /\ \A m \in Range(t) : m \notin Hosted \cup {Unset}
    BY NamesFacts DEF Twins
  <2> QED
    BY <2>1 DEF Twins
<1>4. /\ p \in DOMAIN Assignable(r, c) /\ Assignable(r, c)[p] = s
      /\ p \in DOMAIN Assignable(r, d) /\ Assignable(r, d)[p] = t
  BY <1>1, AssignableFacts DEF Twins
<1> HIDE DEF F, S, s, t
<1>5. List(s) /\ s # <<>> /\ List(t) /\ t # <<>>
  <2>1. List(s) /\ S \subseteq Range(s) /\ List(t) /\ S \subseteq Range(t)
    BY <1>2, <1>3 DEF Follows
  <2> QED
    BY <1>2, <2>1, ListFacts
<1> DEFINE m == Pick(s, list, none)
           n == Pick(t, list, other)
<1>6. m \in Range(s) /\ n \in Range(t)
  BY <1>5, PickFacts
<1>7. m \in S /\ n \in S => m = n
  BY <1>2, <1>3, PicksAgree
<1> HIDE DEF m, n
<1>8. MayRun(Assignable(r, c), <<p, m>>) /\ MayRun(Assignable(r, d), <<p, n>>)
  BY <1>4, <1>6 DEF MayRun
<1>9. Alike(r, c, d, <<p, m>>, <<p, n>>)
  BY <1>7, <1>8 DEF Alike, S
<1>10. m # Unset /\ n # Unset
  BY <1>2, <1>3, <1>6
<1> QED
  BY <1>1, <1>8, <1>9, <1>10 DEF m, n

\* The same hosts of the cloud count.
LEMMA SameHosts ==
  ASSUME NEW r, NEW c, NEW d, Twins(r, c, d)
  PROVE  CloudHosts(r, c) = CloudHosts(r, d)
<1>1. ASSUME NEW e, e \in {c, d}, NEW i \in DOMAIN r.cloud, r.cloud[i].enabled
      PROVE  CloudNames(e, r.cloud[i]) # <<>>
  <2> DEFINE h == r.cloud[i]
  <2>1. h \in Range(r.cloud)
    BY DEF Range
  <2>2. Proper(e) /\ Stocked(r, e) /\ r \in Scans /\ OneEach(r)
    BY <1>1 DEF Twins
  <2> HIDE DEF h
  <2>3. Follows(CloudNames(e, h), Offering(e, h), Listed(r, e, h.provider)) /\ List(CloudNames(e, h))
    BY <1>1, <2>1, <2>2, CloudNamesFacts DEF h
  <2>4. Listed(r, e, h.provider) # {}
    BY <1>1, <2>1, <2>2 DEF Stocked, h
  <2>5. Range(CloudNames(e, h)) # {}
    BY <2>3, <2>4 DEF Follows
  <2>6. CloudNames(e, h) # <<>>
    BY <2>3, <2>5, ListFacts
  <2> QED
    BY <2>6 DEF h
<1>2. {i \in DOMAIN r.cloud : r.cloud[i].enabled /\ CloudNames(c, r.cloud[i]) # <<>>}
        = {i \in DOMAIN r.cloud : r.cloud[i].enabled /\ CloudNames(d, r.cloud[i]) # <<>>}
  BY <1>1
<1> QED
  BY <1>2 DEF CloudHosts, Only

\* They are alike in the cloud, too.
LEMMA CloudAlike ==
  ASSUME NEW r, NEW c, NEW d, Twins(r, c, d), NEW list \in ListNames
  PROVE  Alike(r, c, d, SelectCloud(c, CloudHosts(r, c), list), SelectCloud(d, CloudHosts(r, d), list))
<1> DEFINE hosts == CloudHosts(r, c)
<1>1. CloudHosts(r, d) = hosts
  BY SameHosts
<1>2. /\ List(hosts)
      /\ \A h : h \in Range(hosts) => /\ h \in Range(r.cloud) /\ h.enabled
                                      /\ CloudNames(c, h) # <<>> /\ CloudNames(d, h) # <<>>
  <2>1. r \in Scans
    BY DEF Twins
  <2>2. List(hosts) /\ \A h : h \in Range(hosts) => h \in Range(r.cloud) /\ h.enabled /\ CloudNames(c, h) # <<>>
    BY <2>1, CloudHostsFacts
  <2>3. \A h : h \in Range(hosts) => CloudNames(d, h) # <<>>
    BY <1>1, <2>1, CloudHostsFacts
  <2> QED
    BY <2>2, <2>3
<1>3. /\ DOMAIN Assignable(r, c) = Managed \cup {h.provider : h \in Range(hosts)}
      /\ \A p \in Managed : Assignable(r, c)[p] = Usable(r, c, p)
      /\ \A h \in Range(hosts) : Assignable(r, c)[h.provider] = CloudNames(c, h)
  BY AssignableFacts DEF Twins
<1>4. /\ DOMAIN Assignable(r, d) = Managed \cup {h.provider : h \in Range(hosts)}
      /\ \A p \in Managed : Assignable(r, d)[p] = Usable(r, d, p)
      /\ \A h \in Range(hosts) : Assignable(r, d)[h.provider] = CloudNames(d, h)
  <2>1. r \in Scans /\ OneEach(r) /\ Proper(d)
    BY DEF Twins
  <2> QED
    BY <1>1, <2>1, AssignableFacts
<1> HIDE DEF hosts
<1>5. CASE hosts = <<>>
  <2>1. SelectCloud(c, hosts, list) = NoRef /\ SelectCloud(d, hosts, list) = NoRef
    BY <1>5 DEF SelectCloud
  <2>2. Range(hosts) = {}
    BY <1>2, <1>5, ListFacts
  <2>3. ASSUME NEW e, e \in {c, d}, NEW p \in Managed PROVE Unset \notin Range(Usable(r, e, p))
    <3>1. \A m \in Range(NamesOf(r, e, p)) : m \notin Hosted \cup {Unset}
      BY <2>3, NamesFacts DEF Twins
    <3> QED
      BY <3>1, NoneListed DEF Usable
  <2>4. ~MayRun(Assignable(r, c), NoRef) /\ ~MayRun(Assignable(r, d), NoRef)
    BY <1>3, <1>4, <2>2, <2>3 DEF MayRun, NoRef
  <2> QED
    BY <1>1, <2>1, <2>4 DEF Alike, hosts
<1>6. CASE hosts # <<>>
  <2> DEFINE h == hosts[1]
             s == CloudNames(c, h)
             t == CloudNames(d, h)
             m == Pick(s, list, Unset)
             n == Pick(t, list, Unset)
             F == Offering(c, h)
             S == Listed(r, c, h.provider)
  <2>1. SelectCloud(c, hosts, list) = <<h.provider, m>> /\ SelectCloud(d, hosts, list) = <<h.provider, n>>
    BY <1>6 DEF SelectCloud
  <2>2. h \in Range(hosts)
    BY <1>2, <1>6, ListFacts
  <2> HIDE DEF h
  <2>3. h.provider \notin Managed /\ List(s) /\ List(F) /\ Follows(s, F, S)
    BY <1>2, <2>2, CloudNamesFacts DEF Twins
  <2>4. List(t) /\ Follows(t, Offering(d, h), Listed(r, d, h.provider))
    BY <1>2, <2>2, CloudNamesFacts DEF Twins
  <2>5. Follows(t, F, S)
    BY <2>3, <2>4 DEF Twins
  <2>6. s # <<>> /\ t # <<>>
    BY <1>2, <2>2
  <2>7. Assignable(r, c)[h.provider] = s /\ Assignable(r, d)[h.provider] = t
        /\ h.provider \in DOMAIN Assignable(r, c) /\ h.provider \in DOMAIN Assignable(r, d)
    BY <1>3, <1>4, <2>2
  <2> HIDE DEF s, t, F, S
  <2>8. m \in Range(s) /\ n \in Range(t)
    BY <2>3, <2>4, <2>6, PickFacts
  <2>9. m \in S /\ n \in S => m = n
    BY <2>3, <2>5, PicksAgree
  <2> HIDE DEF m, n
  <2>10. MayRun(Assignable(r, c), <<h.provider, m>>) /\ MayRun(Assignable(r, d), <<h.provider, n>>)
    BY <2>7, <2>8 DEF MayRun
  <2>11. Alike(r, c, d, <<h.provider, m>>, <<h.provider, n>>)
    BY <2>9, <2>10 DEF Alike, S
  <2> QED
    BY <1>1, <2>1, <2>11 DEF hosts
<1> QED
  BY <1>5, <1>6

\* The candidates on the machines of the stack.
StackPicks ==
  {"llamaPrimary", "llamaSmall", "llamaReason", "sglangPlan", "sglangReason", "sglangCode", "localPrimary",
   "localSmall", "localReason", "remotePlan", "remoteReason", "remoteFast", "remoteCode", "reasoning", "coding"}
\* Those in the cloud.
CloudPicks == {"cloudPlan", "cloudReason", "cloudFast", "cloudCode"}
\* Those of Ollama on this machine.
LocalPicks == {"localPrimary", "localSmall", "localReason"}

\* A candidate is what a list makes of a provider.
PickOf(r, c, p, list, x) == \E none : x = <<p, Pick(Usable(r, c, p), list, none)>>

\* Which list of which provider.
OfStack ==
  [llamaPrimary |-> <<Llama, "turboLocalPrimary">>, llamaSmall |-> <<Llama, "turboLocalSmall">>,
   llamaReason |-> <<Llama, "turboLocalReasoning">>, sglangPlan |-> <<Sglang, "turboRemotePlanning">>,
   sglangReason |-> <<Sglang, "turboRemoteReasoning">>, sglangCode |-> <<Sglang, "turboRemoteCoding">>,
   localPrimary |-> <<Local, "localPrimary">>, localSmall |-> <<Local, "localSmall">>,
   localReason |-> <<Local, "localReasoning">>, remotePlan |-> <<Remote, "remotePlanning">>,
   remoteReason |-> <<Remote, "remoteReasoning">>, remoteFast |-> <<Remote, "remoteFast">>,
   remoteCode |-> <<Remote, "remoteCoding">>]
\* Which list of the cloud.
OfCloud ==
  [cloudPlan |-> "cloudPlanning", cloudReason |-> "cloudReasoning", cloudFast |-> "cloudFast",
   cloudCode |-> "cloudCoding"]

\* The candidates, name by name.
LEMMA PicksAre ==
  ASSUME NEW r, NEW c
  PROVE  /\ \A k \in DOMAIN OfStack : PickOf(r, c, OfStack[k][1], OfStack[k][2], Picks(r, c)[k])
         /\ \A k \in DOMAIN OfCloud : Picks(r, c)[k] = SelectCloud(c, CloudHosts(r, c), OfCloud[k])
         /\ Picks(r, c).reasoning = <<Remote, OrModel(Picks(r, c).remoteReason[2],
              Pick(Usable(r, c, Big), "remote5090Reasoning", Picks(r, c).remoteReason[2]))>>
         /\ Picks(r, c).coding = <<Remote, OrModel(Picks(r, c).remoteCode[2],
              Pick(Usable(r, c, Big), "remote5090Coding", Picks(r, c).remoteCode[2]))>>
<1> DEFINE P == Picks(r, c)
           Is(x, p, list, none) == x = <<p, Pick(Usable(r, c, p), list, none)>>
<1>0. Managed = {Local, Remote, Big, Llama, Sglang}
  BY DEF Managed
<1>1. /\ Is(P.llamaPrimary, Llama, "turboLocalPrimary", Unset)
      /\ Is(P.llamaSmall, Llama, "turboLocalSmall", P.llamaPrimary[2])
      /\ Is(P.llamaReason, Llama, "turboLocalReasoning", P.llamaPrimary[2])
  BY <1>0 DEF Picks, PicksAmong
<1>2. /\ Is(P.sglangPlan, Sglang, "turboRemotePlanning", Unset)
      /\ Is(P.sglangReason, Sglang, "turboRemoteReasoning", P.sglangPlan[2])
      /\ Is(P.sglangCode, Sglang, "turboRemoteCoding", P.sglangPlan[2])
  BY <1>0 DEF Picks, PicksAmong
<1>3. /\ Is(P.localPrimary, Local, "localPrimary", IF c.model[1] = Local THEN c.model[2] ELSE Unset)
      /\ Is(P.localSmall, Local, "localSmall", P.localPrimary[2])
      /\ Is(P.localReason, Local, "localReasoning", P.localPrimary[2])
  BY <1>0 DEF Picks, PicksAmong
<1>4. /\ Is(P.remotePlan, Remote, "remotePlanning", Unset)
      /\ Is(P.remoteReason, Remote, "remoteReasoning", P.remotePlan[2])
      /\ Is(P.remoteFast, Remote, "remoteFast", P.remotePlan[2])
      /\ Is(P.remoteCode, Remote, "remoteCoding", P.remotePlan[2])
  BY <1>0 DEF Picks, PicksAmong
<1>5. /\ P.reasoning = <<Remote, OrModel(P.remoteReason[2],
              Pick(Usable(r, c, Big), "remote5090Reasoning", P.remoteReason[2]))>>
      /\ P.coding = <<Remote, OrModel(P.remoteCode[2],
              Pick(Usable(r, c, Big), "remote5090Coding", P.remoteCode[2]))>>
  BY <1>0 DEF Picks, PicksAmong
<1>6. /\ P.cloudPlan = SelectCloud(c, CloudHosts(r, c), "cloudPlanning")
      /\ P.cloudReason = SelectCloud(c, CloudHosts(r, c), "cloudReasoning")
      /\ P.cloudFast = SelectCloud(c, CloudHosts(r, c), "cloudFast")
      /\ P.cloudCode = SelectCloud(c, CloudHosts(r, c), "cloudCoding")
  BY DEF Picks, PicksAmong
<1> HIDE DEF P
<1>7. \A x, p, list, none : Is(x, p, list, none) => PickOf(r, c, p, list, x)
  BY DEF PickOf
<1> HIDE DEF Is
<1>8. \A k \in DOMAIN OfStack : PickOf(r, c, OfStack[k][1], OfStack[k][2], P[k])
  BY <1>1, <1>2, <1>3, <1>4, <1>7 DEF OfStack
<1>9. \A k \in DOMAIN OfCloud : P[k] = SelectCloud(c, CloudHosts(r, c), OfCloud[k])
  BY <1>6 DEF OfCloud
<1> QED
  BY <1>5, <1>8, <1>9 DEF P

\* All candidates are alike, and those on this machine may run.
LEMMA AllAlike ==
  ASSUME NEW r, NEW c, NEW d, Twins(r, c, d)
  PROVE  /\ \A k \in StackPicks \cup CloudPicks : Alike(r, c, d, Picks(r, c)[k], Picks(r, d)[k])
         /\ \A k \in LocalPicks : MayRun(Assignable(r, c), Picks(r, c)[k])
<1>1. ASSUME NEW k \in DOMAIN OfStack
      PROVE  /\ Alike(r, c, d, Picks(r, c)[k], Picks(r, d)[k])
             /\ Picks(r, c)[k][1] = OfStack[k][1] /\ Picks(r, d)[k][1] = OfStack[k][1]
             /\ Reached(r, OfStack[k][1]) => /\ MayRun(Assignable(r, c), Picks(r, c)[k])
                                             /\ Picks(r, c)[k][2] # Unset /\ Picks(r, d)[k][2] # Unset
  <2> DEFINE p == OfStack[k][1]
             list == OfStack[k][2]
  <2>1. p \in Managed /\ list \in ListNames
    BY DEF OfStack, Managed, ListNames
  <2>2. PickOf(r, c, p, list, Picks(r, c)[k]) /\ PickOf(r, d, p, list, Picks(r, d)[k])
    BY PicksAre
  <2> HIDE DEF p, list
  <2>3. PICK none : Picks(r, c)[k] = <<p, Pick(Usable(r, c, p), list, none)>>
    BY <2>2 DEF PickOf
  <2>4. PICK other : Picks(r, d)[k] = <<p, Pick(Usable(r, d, p), list, other)>>
    BY <2>2 DEF PickOf
  <2>5. CASE Reached(r, p)
    <3> DEFINE m == Pick(Usable(r, c, p), list, none)
               n == Pick(Usable(r, d, p), list, other)
    <3>1. Alike(r, c, d, <<p, m>>, <<p, n>>) /\ MayRun(Assignable(r, c), <<p, m>>) /\ m # Unset /\ n # Unset
      BY <2>1, <2>5, PicksAlike
    <3> HIDE DEF m, n
    <3>2. Picks(r, c)[k] = <<p, m>> /\ Picks(r, d)[k] = <<p, n>>
      BY <2>3, <2>4 DEF m, n
    <3> QED
      BY <3>1, <3>2 DEF p
  <2>6. CASE ~Reached(r, p)
    <3> QED
      BY <2>1, <2>3, <2>4, <2>6, NothingThere DEF p
  <2> QED
    BY <2>5, <2>6
<1>2. ASSUME NEW k \in DOMAIN OfCloud
      PROVE  Alike(r, c, d, Picks(r, c)[k], Picks(r, d)[k])
  <2>1. OfCloud[k] \in ListNames
    BY DEF OfCloud, ListNames
  <2>2. Picks(r, c)[k] = SelectCloud(c, CloudHosts(r, c), OfCloud[k])
        /\ Picks(r, d)[k] = SelectCloud(d, CloudHosts(r, d), OfCloud[k])
    BY PicksAre
  <2> QED
    BY <2>1, <2>2, CloudAlike
<1>3. ASSUME NEW k \in {"remoteReason", "remoteCode"}, NEW m, NEW n
      PROVE  Alike(r, c, d, <<Remote, OrModel(Picks(r, c)[k][2], m)>>, <<Remote, OrModel(Picks(r, d)[k][2], n)>>)
  <2>1. k \in DOMAIN OfStack /\ OfStack[k][1] = Remote /\ Remote \in Managed
    BY DEF OfStack, Managed
  <2>2. CASE Reached(r, Remote)
    <3>1. OrModel(Picks(r, c)[k][2], m) = Picks(r, c)[k][2] /\ OrModel(Picks(r, d)[k][2], n) = Picks(r, d)[k][2]
      BY <1>1, <2>1, <2>2 DEF OrModel
    <3>2. Picks(r, c)[k] = <<Remote, Picks(r, c)[k][2]>> /\ Picks(r, d)[k] = <<Remote, Picks(r, d)[k][2]>>
      BY <2>1, PicksAre DEF PickOf
    <3> QED
      BY <1>1, <2>1, <3>1, <3>2
  <2>3. CASE ~Reached(r, Remote)
    BY <2>1, <2>3, NothingThere
  <2> QED
    BY <2>2, <2>3
<1>4. Alike(r, c, d, Picks(r, c).reasoning, Picks(r, d).reasoning)
  <2> DEFINE m == Pick(Usable(r, c, Big), "remote5090Reasoning", Picks(r, c).remoteReason[2])
             n == Pick(Usable(r, d, Big), "remote5090Reasoning", Picks(r, d).remoteReason[2])
  <2>1. Picks(r, c).reasoning = <<Remote, OrModel(Picks(r, c)["remoteReason"][2], m)>>
        /\ Picks(r, d).reasoning = <<Remote, OrModel(Picks(r, d)["remoteReason"][2], n)>>
    BY PicksAre
  <2> HIDE DEF m, n
  <2> QED
    BY <1>3, <2>1
<1>5. Alike(r, c, d, Picks(r, c).coding, Picks(r, d).coding)
  <2> DEFINE m == Pick(Usable(r, c, Big), "remote5090Coding", Picks(r, c).remoteCode[2])
             n == Pick(Usable(r, d, Big), "remote5090Coding", Picks(r, d).remoteCode[2])
  <2>1. Picks(r, c).coding = <<Remote, OrModel(Picks(r, c)["remoteCode"][2], m)>>
        /\ Picks(r, d).coding = <<Remote, OrModel(Picks(r, d)["remoteCode"][2], n)>>
    BY PicksAre
  <2> HIDE DEF m, n
  <2> QED
    BY <1>3, <2>1
<1>6. StackPicks = DOMAIN OfStack \cup {"reasoning", "coding"} /\ CloudPicks = DOMAIN OfCloud
  BY DEF StackPicks, CloudPicks, OfStack, OfCloud
<1>7. \A k \in LocalPicks : k \in DOMAIN OfStack /\ Reached(r, OfStack[k][1])
  BY DEF LocalPicks, OfStack, Reached
<1> QED
  BY <1>1, <1>2, <1>4, <1>5, <1>6, <1>7

\* The candidates of an agent are some of these, and one of them is on this machine.
LEMMA RankingFacts ==
  ASSUME NEW a \in Positions
  PROVE  /\ List(Ranking(a)) /\ Range(Ranking(a)) \subseteq StackPicks \cup CloudPicks
         /\ Range(Ranking(a)) \cap LocalPicks # {}
<1> DEFINE P == StackPicks \cup CloudPicks
           Good(s) == s \in Seq(P) /\ \E i \in DOMAIN s : s[i] \in LocalPicks
<1>1. P = {"llamaPrimary", "llamaSmall", "llamaReason", "sglangPlan", "sglangReason", "sglangCode",
           "localPrimary", "localSmall", "localReason", "remotePlan", "remoteReason", "remoteFast",
           "remoteCode", "reasoning", "coding", "cloudPlan", "cloudReason", "cloudFast", "cloudCode"}
  BY DEF StackPicks, CloudPicks
<1> HIDE DEF P
<1>2. "localPrimary" \in LocalPicks /\ "localSmall" \in LocalPicks /\ "localReason" \in LocalPicks
  BY DEF LocalPicks
<1> HIDE DEF Good
<1>3. \/ a \in {"build", "fast-build", "plan", "architect", "execution-orchestrator"}
      \/ a \in {"reviewer", "qa-lead", "release-manager"} \/ a \in {"rust-rewrite", "model-trainer"}
      \/ a \in Deepest \/ a \in {"parallel-execution-orchestrator", "reasoning-fast", "performance-engineer"}
  BY DEF Positions, Homebound, Controllers
<1>4. Good(Ranking(a))
  <2>4. CASE a = "build"
    <3>1. Ranking(a) = <<"sglangCode", "llamaPrimary", "remoteCode", "localPrimary">>
      BY <2>4 DEF Ranking, Controllers, Deepest
    <3> DEFINE t == <<"sglangCode", "llamaPrimary", "remoteCode", "localPrimary">>
    <3>2. t \in Seq(P)
      BY <1>1
    <3>3. 4 \in DOMAIN t /\ t[4] = "localPrimary"
      OBVIOUS
    <3> HIDE DEF t
    <3>4. Good(t)
      BY <1>2, <3>2, <3>3 DEF Good
    <3> QED
      BY <3>1, <3>4 DEF t
  <2>5. CASE a = "fast-build"
    <3>1. Ranking(a) = <<"llamaPrimary", "sglangCode", "coding", "localPrimary">>
      BY <2>5 DEF Ranking, Controllers, Deepest
    <3> DEFINE t == <<"llamaPrimary", "sglangCode", "coding", "localPrimary">>
    <3>2. t \in Seq(P)
      BY <1>1
    <3>3. 4 \in DOMAIN t /\ t[4] = "localPrimary"
      OBVIOUS
    <3> HIDE DEF t
    <3>4. Good(t)
      BY <1>2, <3>2, <3>3 DEF Good
    <3> QED
      BY <3>1, <3>4 DEF t
  <2>6. CASE a \in {"reviewer", "qa-lead", "release-manager"}
    <3>1. Ranking(a) = <<"sglangReason", "llamaReason", "reasoning", "localReason">>
      BY <2>6 DEF Ranking, Controllers, Deepest
    <3> DEFINE t == <<"sglangReason", "llamaReason", "reasoning", "localReason">>
    <3>2. t \in Seq(P)
      BY <1>1
    <3>3. 4 \in DOMAIN t /\ t[4] = "localReason"
      OBVIOUS
    <3> HIDE DEF t
    <3>4. Good(t)
      BY <1>2, <3>2, <3>3 DEF Good
    <3> QED
      BY <3>1, <3>4 DEF t
  <2>7. CASE a \in {"rust-rewrite", "model-trainer"}
    <3>1. Ranking(a) = <<"sglangCode", "llamaPrimary", "coding", "localPrimary">>
      BY <2>7 DEF Ranking, Controllers, Deepest
    <3> DEFINE t == <<"sglangCode", "llamaPrimary", "coding", "localPrimary">>
    <3>2. t \in Seq(P)
      BY <1>1
    <3>3. 4 \in DOMAIN t /\ t[4] = "localPrimary"
      OBVIOUS
    <3> HIDE DEF t
    <3>4. Good(t)
      BY <1>2, <3>2, <3>3 DEF Good
    <3> QED
      BY <3>1, <3>4 DEF t
  <2>8. CASE a = "plan"
    <3>1. Ranking(a) = <<"llamaReason", "sglangPlan", "remotePlan", "localReason", "cloudPlan">>
      BY <2>8 DEF Ranking, Controllers, Deepest
    <3> DEFINE t == <<"llamaReason", "sglangPlan", "remotePlan", "localReason", "cloudPlan">>
    <3>2. t \in Seq(P)
      BY <1>1
    <3>3. 4 \in DOMAIN t /\ t[4] = "localReason"
      OBVIOUS
    <3> HIDE DEF t
    <3>4. Good(t)
      BY <1>2, <3>2, <3>3 DEF Good
    <3> QED
      BY <3>1, <3>4 DEF t
  <2>9. CASE a = "architect"
    <3>1. Ranking(a) = <<"sglangPlan", "llamaReason", "remotePlan", "localReason", "cloudPlan">>
      BY <2>9 DEF Ranking, Controllers, Deepest
    <3> DEFINE t == <<"sglangPlan", "llamaReason", "remotePlan", "localReason", "cloudPlan">>
    <3>2. t \in Seq(P)
      BY <1>1
    <3>3. 4 \in DOMAIN t /\ t[4] = "localReason"
      OBVIOUS
    <3> HIDE DEF t
    <3>4. Good(t)
      BY <1>2, <3>2, <3>3 DEF Good
    <3> QED
      BY <3>1, <3>4 DEF t
  <2>10. CASE a = "execution-orchestrator"
    <3>1. Ranking(a) = <<"llamaReason", "sglangPlan", "remotePlan", "remoteReason", "localReason", "localPrimary",
                       "localSmall", "cloudPlan">>
      BY <2>10 DEF Ranking, Controllers, Deepest
    <3> DEFINE t == <<"llamaReason", "sglangPlan", "remotePlan", "remoteReason", "localReason", "localPrimary",
                       "localSmall", "cloudPlan">>
    <3>2. t \in Seq(P)
      BY <1>1
    <3>3. 5 \in DOMAIN t /\ t[5] = "localReason"
      OBVIOUS
    <3> HIDE DEF t
    <3>4. Good(t)
      BY <1>2, <3>2, <3>3 DEF Good
    <3> QED
      BY <3>1, <3>4 DEF t
  <2>11. CASE a = "parallel-execution-orchestrator"
    <3>1. Ranking(a) = <<"llamaPrimary", "sglangPlan", "remotePlan", "remoteReason", "localReason", "localPrimary",
                       "localSmall", "cloudPlan">>
      BY <2>11 DEF Ranking, Controllers, Deepest
    <3> DEFINE t == <<"llamaPrimary", "sglangPlan", "remotePlan", "remoteReason", "localReason", "localPrimary",
                       "localSmall", "cloudPlan">>
    <3>2. t \in Seq(P)
      BY <1>1
    <3>3. 5 \in DOMAIN t /\ t[5] = "localReason"
      OBVIOUS
    <3> HIDE DEF t
    <3>4. Good(t)
      BY <1>2, <3>2, <3>3 DEF Good
    <3> QED
      BY <3>1, <3>4 DEF t
  <2>12. CASE a \in Deepest
    <3>1. Ranking(a) = <<"sglangReason", "llamaReason", "remoteReason", "localReason", "cloudReason">>
      BY <2>12 DEF Ranking, Controllers, Deepest
    <3> DEFINE t == <<"sglangReason", "llamaReason", "remoteReason", "localReason", "cloudReason">>
    <3>2. t \in Seq(P)
      BY <1>1
    <3>3. 4 \in DOMAIN t /\ t[4] = "localReason"
      OBVIOUS
    <3> HIDE DEF t
    <3>4. Good(t)
      BY <1>2, <3>2, <3>3 DEF Good
    <3> QED
      BY <3>1, <3>4 DEF t
  <2>13. CASE a = "reasoning-fast"
    <3>1. Ranking(a) = <<"llamaSmall", "sglangReason", "remoteFast", "localSmall", "cloudFast">>
      BY <2>13 DEF Ranking, Controllers, Deepest
    <3> DEFINE t == <<"llamaSmall", "sglangReason", "remoteFast", "localSmall", "cloudFast">>
    <3>2. t \in Seq(P)
      BY <1>1
    <3>3. 4 \in DOMAIN t /\ t[4] = "localSmall"
      OBVIOUS
    <3> HIDE DEF t
    <3>4. Good(t)
      BY <1>2, <3>2, <3>3 DEF Good
    <3> QED
      BY <3>1, <3>4 DEF t
  <2>14. CASE a = "performance-engineer"
    <3>1. Ranking(a) = <<"sglangCode", "llamaPrimary", "remoteCode", "localPrimary", "cloudCode">>
      BY <2>14 DEF Ranking, Controllers, Deepest
    <3> DEFINE t == <<"sglangCode", "llamaPrimary", "remoteCode", "localPrimary", "cloudCode">>
    <3>2. t \in Seq(P)
      BY <1>1
    <3>3. 4 \in DOMAIN t /\ t[4] = "localPrimary"
      OBVIOUS
    <3> HIDE DEF t
    <3>4. Good(t)
      BY <1>2, <3>2, <3>3 DEF Good
    <3> QED
      BY <3>1, <3>4 DEF t
  <2> QED
    BY <1>3, <2>4, <2>5, <2>6, <2>7, <2>8, <2>9, <2>10, <2>11, <2>12, <2>13, <2>14
<1> DEFINE s == Ranking(a)
<1> HIDE DEF s
<1>5. s \in Seq(P) /\ \E i \in DOMAIN s : s[i] \in LocalPicks
  BY <1>4 DEF Good, s
<1>6. List(s) /\ Range(s) \subseteq P
  <2>1. \A i \in DOMAIN s : s[i] \in P
    BY <1>5
  <2> QED
    BY <1>5, <2>1, AnyList DEF Range
<1>7. Range(s) \cap LocalPicks # {}
  BY <1>5 DEF Range
<1> QED
  BY <1>6, <1>7 DEF s, P

\* The candidates of an agent, in its order.
Wanted(picks, a) == [k \in DOMAIN Ranking(a) |-> picks[Ranking(a)[k]]]

\* One for every place of the ranking.
LEMMA WantedFacts ==
  ASSUME NEW picks, NEW a \in Positions
  PROVE  /\ List(Wanted(picks, a)) /\ DOMAIN Wanted(picks, a) = DOMAIN Ranking(a)
         /\ \A k \in DOMAIN Ranking(a) : Wanted(picks, a)[k] = picks[Ranking(a)[k]]
<1> DEFINE s == Ranking(a)
           f == [k \in DOMAIN s |-> picks[s[k]]]
           S == {picks[s[k]] : k \in DOMAIN s}
<1>1. DOMAIN s = 1 .. Len(s) /\ Len(s) \in Nat
  BY RankingFacts, ListFacts
<1> HIDE DEF s
<1>2. f \in [1 .. Len(s) -> S]
  BY <1>1
<1>3. f \in Seq(S)
  <2> HIDE DEF f, S
  <2> QED
    BY <1>1, <1>2, SeqDef
<1>4. List(f)
  <2> HIDE DEF f, S
  <2> QED
    BY <1>3, AnyList
<1> QED
  BY <1>4 DEF Wanted, s

\* Without its wish, an agent comes to runs with the first candidate that may run.
FirstThatMay(offered, wanted, i) ==
  /\ i \in DOMAIN wanted /\ MayRun(offered, wanted[i])
  /\ \A j \in DOMAIN wanted : MayRun(offered, wanted[j]) => i <= j

\* Its shipped model if that may run, or else the first candidate that may.
LEMMA NewModelFacts ==
  ASSUME NEW offered, NEW picks, NEW a \in Positions, NEW ref
  PROVE  /\ MayRun(offered, Source.agent[a]) => NewModel(offered, picks, a, ref) = Source.agent[a]
         /\ /\ ~MayRun(offered, Source.agent[a])
            /\ \E k \in DOMAIN Wanted(picks, a) : MayRun(offered, Wanted(picks, a)[k])
            => \E i \in DOMAIN Wanted(picks, a) :
                  /\ FirstThatMay(offered, Wanted(picks, a), i)
                  /\ NewModel(offered, picks, a, ref) = Wanted(picks, a)[i]
<1> DEFINE f == Wanted(picks, a)
           I == {i \in DOMAIN f : MayRun(offered, f[i])}
<1>1. MayRun(offered, Source.agent[a]) => NewModel(offered, picks, a, ref) = Source.agent[a]
  BY DEF NewModel
<1>2. ASSUME ~MayRun(offered, Source.agent[a]), \E k \in DOMAIN f : MayRun(offered, f[k])
      PROVE  \E i \in DOMAIN f : FirstThatMay(offered, f, i) /\ NewModel(offered, picks, a, ref) = f[i]
  <2>1. NewModel(offered, picks, a, ref) = FirstOr(At(f, I), ref)
    BY <1>2 DEF NewModel, Only, Wanted
  <2>2. List(f)
    BY WantedFacts
  <2>3. I \in SUBSET DOMAIN f /\ I # {}
    BY <1>2
  <2>4. \A j : j \in I <=> j \in DOMAIN f /\ MayRun(offered, f[j])
    OBVIOUS
  <2> HIDE DEF f, I
  <2>5. At(f, I) # <<>> /\ \E i \in I : At(f, I)[1] = f[i] /\ \A j \in I : i <= j
    BY <2>2, <2>3, AtFacts
  <2> QED
    BY <2>1, <2>4, <2>5 DEF FirstThatMay, FirstOr
<1> QED
  BY <1>1, <1>2

\* What a wish comes to is the same for both.
LEMMA WishAlike ==
  ASSUME NEW r, NEW c, NEW d, Twins(r, c, d), NEW a \in Agents
  PROVE  MayRun(Assignable(r, c), Source.agent[a]) <=> MayRun(Assignable(r, d), Source.agent[a])
<1> DEFINE p == Source.agent[a][1]
           m == Source.agent[a][2]
           hosts == CloudHosts(r, c)
<1>1. CloudHosts(r, d) = hosts
  BY SameHosts
<1>2. /\ DOMAIN Assignable(r, c) = Managed \cup {h.provider : h \in Range(hosts)}
      /\ \A q \in Managed : Assignable(r, c)[q] = Usable(r, c, q)
      /\ \A h \in Range(hosts) : Assignable(r, c)[h.provider] = CloudNames(c, h)
  BY AssignableFacts DEF Twins
<1>3. /\ DOMAIN Assignable(r, d) = Managed \cup {h.provider : h \in Range(hosts)}
      /\ \A q \in Managed : Assignable(r, d)[q] = Usable(r, d, q)
      /\ \A h \in Range(hosts) : Assignable(r, d)[h.provider] = CloudNames(d, h)
  <2>1. r \in Scans /\ OneEach(r) /\ Proper(d)
    BY DEF Twins
  <2> QED
    BY <1>1, <2>1, AssignableFacts
<1>4. \A h \in Range(hosts) : h \in Range(r.cloud) /\ h.enabled
  BY CloudHostsFacts DEF Twins
<1>5. CASE p \in Managed
  <2>1. CASE Reached(r, p)
    <3>1. /\ Listed(r, c, p) # {} /\ Listed(r, d, p) # {}
          /\ r \in Scans /\ Proper(c) /\ Proper(d)
      BY <1>5, <2>1 DEF Twins, Stocked
    <3>2. m \in Range(NamesOf(r, c, p)) <=> m \notin Hosted \cup {Unset} /\ (p = Local \/ m \in Worth(p))
      BY <1>5, <3>1, NamesFacts
    <3>3. m \in Range(NamesOf(r, d, p)) <=> m \notin Hosted \cup {Unset} /\ (p = Local \/ m \in Worth(p))
      BY <1>5, <3>1, NamesFacts
    <3> QED
      BY <1>2, <1>3, <1>5, <2>1, <3>2, <3>3 DEF MayRun, Usable
  <2>2. CASE ~Reached(r, p)
    BY <1>2, <1>3, <1>5, <2>2 DEF MayRun, Usable
  <2> QED
    BY <2>1, <2>2
<1>6. CASE p \in {h.provider : h \in Range(hosts)}
  <2>1. PICK h \in Range(hosts) : p = h.provider
    BY <1>6
  <2>2. r \in Scans /\ OneEach(r) /\ Proper(c) /\ Proper(d) /\ h \in Range(r.cloud) /\ h.enabled
    BY <1>4, <2>1 DEF Twins
  <2>3. m \in Range(CloudNames(c, h)) <=> m \notin Hosted \cup {Unset}
    BY <2>1, <2>2, CloudNamesFacts
  <2>4. m \in Range(CloudNames(d, h)) <=> m \notin Hosted \cup {Unset}
    BY <2>1, <2>2, CloudNamesFacts
  <2> HIDE DEF hosts
  <2> QED
    BY <1>2, <1>3, <2>1, <2>3, <2>4 DEF MayRun
<1> HIDE DEF hosts
<1> QED
  BY <1>2, <1>3, <1>5, <1>6 DEF MayRun

\* On one registry, two configurations of one kind assign an agent alike.
LEMMA ModelsAlike ==
  ASSUME NEW r, NEW c, NEW d, Twins(r, c, d), NEW a \in Agents, ~LeftAlone(c, a), ~LeftAlone(d, a)
  PROVE  /\ AgentModels(r, c)[a][1] = AgentModels(r, d)[a][1]
         /\ {AgentModels(r, c)[a][2], AgentModels(r, d)[a][2]} \subseteq Listed(r, c, AgentModels(r, c)[a][1])
              => AgentModels(r, c)[a] = AgentModels(r, d)[a]
<1> DEFINE wish == Source.agent[a]
           x == AgentModels(r, c)[a]
           y == AgentModels(r, d)[a]
           f == Wanted(Picks(r, c), a)
           g == Wanted(Picks(r, d), a)
           C == Assignable(r, c)
           D == Assignable(r, d)
<1>1. a \in Positions
  BY DEF LeftAlone
<1>2. x = NewModel(C, Picks(r, c), a, c.agent[a]) /\ y = NewModel(D, Picks(r, d), a, d.agent[a])
  BY DEF AgentModels
<1>3. MayRun(C, wish) <=> MayRun(D, wish)
  BY WishAlike
<1>4. CASE MayRun(C, wish)
  <2>1. x = wish /\ y = wish
    BY <1>1, <1>2, <1>3, <1>4, NewModelFacts
  <2> HIDE DEF x, y
  <2>2. x = y
    BY <2>1
  <2> QED
    BY <2>2 DEF x, y
<1>5. CASE ~MayRun(C, wish)
  <2>1. /\ DOMAIN f = DOMAIN Ranking(a) /\ DOMAIN g = DOMAIN Ranking(a)
        /\ \A k \in DOMAIN Ranking(a) : f[k] = Picks(r, c)[Ranking(a)[k]] /\ g[k] = Picks(r, d)[Ranking(a)[k]]
        /\ DOMAIN f \subseteq Nat
    <3>1. DOMAIN Ranking(a) \subseteq Nat
      BY <1>1, RankingFacts, ListFacts
    <3> QED
      BY <1>1, <3>1, WantedFacts
  <2>2. \A k \in DOMAIN Ranking(a) : Alike(r, c, d, f[k], g[k])
    <3>1. \A k \in DOMAIN Ranking(a) : Ranking(a)[k] \in StackPicks \cup CloudPicks
      BY <1>1, RankingFacts DEF Range
    <3> HIDE DEF f, g
    <3> QED
      BY <2>1, <3>1, AllAlike
  <2>3. \E k \in DOMAIN f : MayRun(C, f[k])
    <3>1. PICK k \in DOMAIN Ranking(a) : Ranking(a)[k] \in LocalPicks
      BY <1>1, RankingFacts DEF Range
    <3>2. MayRun(C, Picks(r, c)[Ranking(a)[k]])
      BY <3>1, AllAlike
    <3> HIDE DEF f, g, C
    <3> QED
      BY <2>1, <3>1, <3>2
  <2>4. \A k \in DOMAIN f : MayRun(C, f[k]) <=> MayRun(D, g[k])
    <3> HIDE DEF f, g
    <3> QED
      BY <2>1, <2>2 DEF Alike
  <2>5. PICK i \in DOMAIN f : FirstThatMay(C, f, i) /\ x = f[i]
    BY <1>1, <1>2, <1>5, <2>3, NewModelFacts
  <2>6. PICK j \in DOMAIN g : FirstThatMay(D, g, j) /\ y = g[j]
    <3>1. \E k \in DOMAIN g : MayRun(D, g[k])
      BY <2>1, <2>3, <2>4
    <3> QED
      BY <1>1, <1>2, <1>3, <1>5, <3>1, NewModelFacts
  <2> HIDE DEF f, g, C, D, x, y
  <2>7. i = j
    <3>1. i <= j /\ j <= i /\ i \in Nat /\ j \in Nat
      BY <2>1, <2>4, <2>5, <2>6 DEF FirstThatMay
    <3> QED
      BY <3>1
  <2>8. Alike(r, c, d, x, y) /\ MayRun(C, x)
    BY <2>1, <2>2, <2>5, <2>6, <2>7 DEF FirstThatMay
  <2> QED
    BY <2>8 DEF Alike, x, y, C
<1> QED
  BY <1>4, <1>5

\* What a reached machine of the stack lists, an agent that wishes for it has.
LEMMA WishesCount ==
  ASSUME NEW r \in Scans, OneEach(r), NEW c, Proper(c), NEW a \in Agents, ~LeftAlone(c, a),
         Source.agent[a][1] \in Managed, Source.agent[a][2] \in Listed(r, c, Source.agent[a][1])
  PROVE  AgentModels(r, c)[a] = Source.agent[a]
<1> DEFINE p == Source.agent[a][1]
<1>1. Reached(r, p)
  BY DEF Listed
<1>2. Source.agent[a][2] \in Range(NamesOf(r, c, p))
  BY NamesFacts
<1>3. p \in DOMAIN Assignable(r, c) /\ Assignable(r, c)[p] = NamesOf(r, c, p)
  BY <1>1, AssignableFacts DEF Usable
<1>4. MayRun(Assignable(r, c), Source.agent[a])
  BY <1>2, <1>3 DEF MayRun
<1>5. AgentModels(r, c)[a] = NewModel(Assignable(r, c), Picks(r, c), a, c.agent[a]) /\ a \in Positions
  BY DEF AgentModels, LeftAlone
<1> QED
  BY <1>4, <1>5, NewModelFacts

\* What the configuration and the one remembered were made of.
SyncInv ==
  /\ registry \in Scans /\ runs \in Nat /\ Proper(config)
  /\ runs > 0 => \E c : Proper(c) /\ Heir(c, config) /\ config.agent = AgentModels(registry, c)
  /\ home = Homeless \/
     /\ home.at \in Scans
     /\ \E c : Proper(c) /\ Heir(c, config) /\ home.agent = AgentModels(home.at, c)

\* The invariant says what is to be proved: the configuration and the remembered one are made of two that are twins.
LEMMA SyncInvRestores ==
  ASSUME SyncInv
  PROVE  ReturnRestores
<1> SUFFICES ASSUME runs > 0, OneEach(registry), NEW a \in Agents, ~LeftAlone(config, a)
    PROVE  LET wish == Source.agent[a]
               now  == config.agent[a]
               was  == home.agent[a]
           IN  /\ wish[1] \in Managed /\ wish[2] \in Listed(registry, config, wish[1]) => now = wish
               /\ registry = home.at /\ Stocked(registry, config) =>
                    /\ now[1] = was[1]
                    /\ {now[2], was[2]} \subseteq Listed(registry, config, now[1]) => now = was
  BY DEF ReturnRestores
<1> DEFINE wish == Source.agent[a]
           now  == config.agent[a]
           was  == home.agent[a]
<1>1. registry \in Scans
  BY DEF SyncInv
<1>2. PICK c : Proper(c) /\ Heir(c, config) /\ config.agent = AgentModels(registry, c)
  BY DEF SyncInv
<1>3. ~LeftAlone(c, a)
  BY <1>2 DEF Heir
<1>4. /\ \A p : Listed(registry, c, p) = Listed(registry, config, p)
      /\ \A h : h.provider \notin Managed => Offering(c, h) = Offering(config, h)
      /\ Stocked(registry, c) <=> Stocked(registry, config)
  BY <1>2, HeirLists
<1>5. ASSUME wish[1] \in Managed, wish[2] \in Listed(registry, config, wish[1]) PROVE now = wish
  BY <1>1, <1>2, <1>3, <1>4, <1>5, WishesCount
<1>6. ASSUME registry = home.at, Stocked(registry, config)
      PROVE  /\ now[1] = was[1]
             /\ {now[2], was[2]} \subseteq Listed(registry, config, now[1]) => now = was
  <2>1. home # Homeless
    BY <1>1, <1>6, SyncAssumption DEF Homeless
  <2>2. PICK d : Proper(d) /\ Heir(d, config) /\ home.agent = AgentModels(home.at, d)
    BY <2>1 DEF SyncInv
  <2>3. ~LeftAlone(d, a)
    BY <2>2 DEF Heir
  <2>4. /\ \A p : Listed(registry, d, p) = Listed(registry, config, p)
        /\ \A h : h.provider \notin Managed => Offering(d, h) = Offering(config, h)
        /\ Stocked(registry, d) <=> Stocked(registry, config)
    BY <2>2, HeirLists
  <2>5. Twins(registry, c, d)
    BY <1>1, <1>2, <1>4, <1>6, <2>2, <2>4 DEF Twins
  <2>6. now = AgentModels(registry, c)[a] /\ was = AgentModels(registry, d)[a]
    BY <1>2, <1>6, <2>2
  <2> QED
    BY <1>3, <1>4, <2>3, <2>5, <2>6, ModelsAlike
<1> QED
  BY <1>5, <1>6

\* Being made of another is transitive.
LEMMA HeirsOfHeirs ==
  ASSUME NEW c, NEW d, Heir(c, d), NEW e, Heir(d, e)
  PROVE  Heir(c, e)
BY DEF Heir

\* However often the machines change, the script finds the way back: whatever the agents
\* fell back to, those whose shipped model a machine lists run on it, and the others
\* return to the provider they had, and to its model but for what nobody lists any more.
THEOREM ReturnsRestore == SyncSpec => []ReturnRestores
<1>1. SyncInit => SyncInv
  <2> SUFFICES ASSUME SyncInit PROVE SyncInv
    OBVIOUS
  <2>1. Proper(config)
    BY SyncAssumption DEF SyncInit, Proper
  <2> QED
    BY <2>1 DEF SyncInit, SyncInv
<1>2. SyncInv /\ [SyncNext]_syncVars => SyncInv'
  <2> SUFFICES ASSUME SyncInv, [SyncNext]_syncVars PROVE SyncInv'
    OBVIOUS
  <2>1. CASE Sync
    <3> DEFINE d == Synced(registry, config)
    <3>1. config' = d /\ registry' = registry /\ runs' = runs + 1 /\ runs \in Nat /\ registry \in Scans
      BY <2>1 DEF Sync, SyncInv
    <3>2. Heir(config, d) /\ Proper(d) /\ d.agent = AgentModels(registry, config) /\ Proper(config)
      BY SyncMakesHeirs DEF SyncInv, Synced, Written
    <3> HIDE DEF d
    <3>3. \E c : Proper(c) /\ Heir(c, config') /\ config'.agent = AgentModels(registry', c)
      BY <3>1, <3>2
    <3>4. CASE home' = home
      <4>1. CASE home = Homeless
        BY <3>1, <3>2, <3>3, <3>4, <4>1 DEF SyncInv
      <4>2. CASE home # Homeless
        <5>1. PICK c : Proper(c) /\ Heir(c, config) /\ home.agent = AgentModels(home.at, c)
          BY <4>2 DEF SyncInv
        <5>2. Heir(c, config')
          BY <3>1, <3>2, <5>1, HeirsOfHeirs
        <5> QED
          BY <3>1, <3>2, <3>3, <3>4, <4>2, <5>1, <5>2 DEF SyncInv
      <4> QED
        BY <4>1, <4>2
    <3>5. CASE home' = [at |-> registry, agent |-> config'.agent]
      <4>1. home'.at = registry /\ home'.agent = config'.agent
        BY <3>5
      <4> QED
        BY <3>1, <3>2, <3>3, <4>1 DEF SyncInv
    <3> QED
      BY <2>1, <3>4, <3>5 DEF Sync
  <2>2. CASE Scan
    BY <2>2 DEF Scan, SyncInv
  <2>3. CASE UNCHANGED syncVars
    BY <2>3 DEF syncVars, SyncInv
  <2> QED
    BY <2>1, <2>2, <2>3 DEF SyncNext
<1>3. SyncInv => ReturnRestores
  BY SyncInvRestores
<1> QED
  BY <1>1, <1>2, <1>3, PTL DEF SyncSpec
=============================================================================
