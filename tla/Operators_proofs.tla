-------------------------- MODULE Operators_proofs --------------------------
(***************************************************************************)
(* Lemmas about the operators the models share.                            *)
(*                                                                         *)
(* TaskGraph, for every graph: what changing the edges of one task does to *)
(* cycles, and why an acyclic graph always has a task to start.            *)
(*                                                                         *)
(* Places, for every sequence and every order: a set of places put in a    *)
(* strict order is a bijection from 1 .. n, so what is read along it loses *)
(* nothing and invents nothing, and keeps the order.  The number of the    *)
(* places before a place is its rank; induction over the naturals is the   *)
(* well-foundedness of < on Nat applied to the set of counterexamples.     *)
(***************************************************************************)
EXTENDS TaskGraph, Places, Integers, Functions, FiniteSetTheorems, SequenceTheorems,
        WellFoundedInduction, TLAPS

-----------------------------------------------------------------------------
(* TaskGraph *)

\* Tasks off every cycle are separated from themselves by a closed set.
LEMMA OffCycle ==
  ASSUME NEW g, NEW t
  PROVE  ~OnCycle(g, t) <=>
           \E X \in SUBSET DOMAIN g :
              /\ ClosedUnderBlockers(g, X)
              /\ Blockers(g, t) \subseteq X
              /\ t \notin X
BY DEF OnCycle

\* A write that leaves every edge of an acyclic graph alone leaves it acyclic.
LEMMA SameEdges ==
  ASSUME NEW g, NEW h,
         DOMAIN h = DOMAIN g,
         \A u \in DOMAIN g : h[u].blockedBy = g[u].blockedBy
  PROVE  /\ \A u \in DOMAIN g : OnCycle(h, u) <=> OnCycle(g, u)
         /\ \A u \in DOMAIN g : UnknownBlockers(h, u) = UnknownBlockers(g, u)
<1>1. \A u \in DOMAIN g : Blockers(h, u) = Blockers(g, u)
  BY DEF Blockers
<1>2. \A X \in SUBSET DOMAIN g : ClosedUnderBlockers(h, X) <=> ClosedUnderBlockers(g, X)
  BY <1>1 DEF ClosedUnderBlockers
<1>3. QED
  BY <1>1, <1>2 DEF OnCycle, UnknownBlockers

\* The validation looks only at cycles through the subject t, and that is
\* enough: if only the edges out of t changed and t is on no cycle afterwards,
\* no other task is on a new one.
LEMMA SubjectEdges ==
  ASSUME NEW g, NEW h, NEW t \in DOMAIN g,
         DOMAIN h = DOMAIN g,
         \A u \in DOMAIN g \ {t} : h[u].blockedBy = g[u].blockedBy,
         ~OnCycle(h, t),
         NEW u \in DOMAIN g, ~OnCycle(g, u)
  PROVE  ~OnCycle(h, u)
<1>1. CASE u = t
  BY <1>1
<1>2. CASE u # t
  <2>0. \A v \in DOMAIN g \ {t} : Blockers(h, v) = Blockers(g, v)
    BY DEF Blockers
  <2>1. PICK X \in SUBSET DOMAIN g : /\ ClosedUnderBlockers(g, X)
                                     /\ Blockers(g, u) \subseteq X
                                     /\ u \notin X
    BY OffCycle
  <2>2. PICK Y \in SUBSET DOMAIN g : /\ ClosedUnderBlockers(h, Y)
                                     /\ Blockers(h, t) \subseteq Y
                                     /\ t \notin Y
    BY OffCycle
  <2>3. Blockers(h, u) \subseteq X
    BY <1>2, <2>0, <2>1
  <2>4. CASE u \in Y
    <3>1. ClosedUnderBlockers(h, X \cap Y)
      BY <2>0, <2>1, <2>2 DEF ClosedUnderBlockers
    <3>2. Blockers(h, u) \subseteq X \cap Y
      BY <2>2, <2>3, <2>4 DEF ClosedUnderBlockers
    <3>3. QED
      BY <2>1, <3>1, <3>2, OffCycle
  <2>5. CASE u \notin Y
    <3>1. ClosedUnderBlockers(h, X \cup Y)
      BY <2>0, <2>1, <2>2 DEF ClosedUnderBlockers
    <3>2. Blockers(h, u) \subseteq X \cup Y
      BY <2>3
    <3>3. X \cup Y \in SUBSET DOMAIN h /\ u \notin X \cup Y
      BY <2>1, <2>2, <2>5
    <3>4. QED
      BY <3>1, <3>2, <3>3, OffCycle
  <2>6. QED
    BY <2>4, <2>5
<1>3. QED
  BY <1>1, <1>2

\* Adding a task t to a graph none of whose edges names it, with edges that put
\* t on no cycle, keeps every other task off every cycle.
LEMMA FreshTask ==
  ASSUME NEW g, NEW h, NEW t,
         t \notin DOMAIN g,
         DOMAIN h = DOMAIN g \cup {t},
         \A u \in DOMAIN g : h[u].blockedBy = g[u].blockedBy,
         \A u \in DOMAIN g : UnknownBlockers(g, u) = {},
         NEW u \in DOMAIN g, ~OnCycle(g, u)
  PROVE  ~OnCycle(h, u)
<1>1. \A v \in DOMAIN g : Blockers(h, v) = Blockers(g, v)
  BY DEF Blockers, UnknownBlockers
<1>2. PICK X \in SUBSET DOMAIN g : /\ ClosedUnderBlockers(g, X)
                                   /\ Blockers(g, u) \subseteq X
                                   /\ u \notin X
  BY OffCycle
<1>3. ClosedUnderBlockers(h, X)
  BY <1>1, <1>2 DEF ClosedUnderBlockers
<1>4. X \in SUBSET DOMAIN h /\ Blockers(h, u) \subseteq X
  BY <1>1, <1>2
<1>5. QED
  BY <1>2, <1>3, <1>4, OffCycle

\* The tasks a path of blocker edges leads to from t.
Below(g, t) ==
  {v \in DOMAIN g : \A X \in SUBSET DOMAIN g :
                       (ClosedUnderBlockers(g, X) /\ Blockers(g, t) \subseteq X) => v \in X}

\* A blocker lies below the task it blocks, and so does all that is below it.
LEMMA BlockerBelow ==
  ASSUME NEW g, NEW t \in DOMAIN g, NEW b \in Blockers(g, t)
  PROVE  b \in Below(g, t) /\ Below(g, b) \subseteq Below(g, t)
<1>1. b \in DOMAIN g
  BY DEF Blockers
<1>2. b \in Below(g, t)
  BY <1>1 DEF Below
<1>3. \A X \in SUBSET DOMAIN g :
         (ClosedUnderBlockers(g, X) /\ Blockers(g, t) \subseteq X) => Blockers(g, b) \subseteq X
  BY DEF ClosedUnderBlockers
<1>4. Below(g, b) \subseteq Below(g, t)
  BY <1>3 DEF Below
<1>5. QED
  BY <1>2, <1>4

\* In a finite acyclic graph with no dangling blocker, an open task below which
\* as little as possible lies has only finished blockers: it can be started.
LEMMA SomethingIsReady ==
  ASSUME NEW g, IsFiniteSet(DOMAIN g),
         \A t \in DOMAIN g : UnknownBlockers(g, t) = {},
         \A t \in DOMAIN g : ~OnCycle(g, t),
         \E t \in DOMAIN g : IsOpen(g, t)
  PROVE  ReadySet(g) # {}
<1> DEFINE D == DOMAIN g
           T == {Below(g, t) : t \in {u \in D : IsOpen(g, u)}}
<1>0. \A t : Below(g, t) \subseteq D
  BY DEF Below
<1>1. T \subseteq SUBSET D /\ T # {}
  BY <1>0
<1>2. PICK B \in T : \A C \in T : ~(<<C, B>> \in StrictSubsetOrdering(D))
  <2>1. IsWellFoundedOn(StrictSubsetOrdering(D), SUBSET D)
    BY FS_StrictSubsetOrderingWellFounded, FS_FiniteSubsetsOfFinite
  <2> HIDE DEF T, D
  <2>2. \E B \in T : \A C \in T : ~(<<C, B>> \in StrictSubsetOrdering(D))
    BY <1>1, <2>1, WFMin, Zenon
  <2>3. QED
    BY <2>2
<1>3. PICK t \in D : IsOpen(g, t) /\ B = Below(g, t)
  OBVIOUS
<1>4. ASSUME NEW b \in g[t].blockedBy
      PROVE  b \in D /\ g[b].status \in TERMINAL
  <2>1. b \in D /\ b \in Blockers(g, t)
    BY <1>3 DEF UnknownBlockers, Blockers
  <2>2. b \notin Below(g, b)
    BY <2>1 DEF Below, OnCycle
  <2>3. Below(g, b) \subseteq Below(g, t) /\ Below(g, b) # Below(g, t)
    BY <1>3, <2>1, <2>2, BlockerBelow
  <2>4. Below(g, b) \subseteq D /\ Below(g, t) \subseteq D
    BY DEF Below
  <2>5. <<Below(g, b), B>> \in StrictSubsetOrdering(D)
    BY <1>3, <2>3, <2>4 DEF StrictSubsetOrdering
  <2>6. Below(g, b) \notin T
    BY <1>2, <2>5
  <2>7. QED
    BY <2>1, <2>6 DEF IsOpen
<1>5. QED
  BY <1>3, <1>4 DEF ReadySet

-----------------------------------------------------------------------------
(* Places *)

\* A strict total order on I.
StrictOrder(I, R) ==
  /\ \A i \in I : <<i, i>> \notin R
  /\ \A i, j \in I : i # j => <<i, j>> \in R \/ <<j, i>> \in R
  /\ \A i, j, k \in I : <<i, j>> \in R /\ <<j, k>> \in R => <<i, k>> \in R

\* A finite set of places in a strict order is a bijection from 1 .. n that respects it.
LEMMA InOrderSorts ==
  ASSUME NEW I, IsFiniteSet(I), NEW R, StrictOrder(I, R)
  PROVE  /\ Cardinality(I) \in Nat
         /\ InOrder(I, R) \in Bijection(1 .. Cardinality(I), I)
         /\ \A a, b \in 1 .. Cardinality(I) : a < b => <<InOrder(I, R)[a], InOrder(I, R)[b]>> \in R
<1> DEFINE n == Cardinality(I)
           Before(i) == {j \in I : <<j, i>> \in R}
           rank == [i \in I |-> Cardinality(Before(i))]
<1>1. n \in Nat
  BY FS_CardinalityType
<1>2. ASSUME NEW i \in I
      PROVE  IsFiniteSet(Before(i)) /\ rank[i] \in 0 .. n - 1
  <2>1. IsFiniteSet(Before(i)) /\ Cardinality(Before(i)) \in Nat
    BY FS_Subset, FS_CardinalityType
  <2>2. Before(i) \in SUBSET (I \ {i})
    BY DEF StrictOrder
  <2>3. IsFiniteSet(I \ {i}) /\ Cardinality(I \ {i}) = n - 1
    BY FS_RemoveElement
  <2> HIDE DEF Before
  <2>4. Cardinality(Before(i)) <= n - 1
    BY <2>2, <2>3, FS_Subset
  <2> QED
    BY <1>1, <2>1, <2>4
<1>3. ASSUME NEW i \in I, NEW j \in I, <<i, j>> \in R
      PROVE  rank[i] < rank[j]
  <2>1. Before(i) \cup {i} \in SUBSET Before(j) /\ i \notin Before(i)
    BY <1>3 DEF StrictOrder
  <2>2. IsFiniteSet(Before(i)) /\ IsFiniteSet(Before(j)) /\ rank[i] \in Int /\ rank[j] \in Int
    BY <1>1, <1>2
  <2> HIDE DEF Before
  <2>3. Cardinality(Before(i) \cup {i}) = Cardinality(Before(i)) + 1
    BY <2>1, <2>2, FS_AddElement
  <2>4. Cardinality(Before(i) \cup {i}) <= Cardinality(Before(j))
    BY <2>1, <2>2, FS_Subset
  <2> QED
    BY <2>2, <2>3, <2>4
<1>4. rank \in Injection(I, 0 .. n - 1)
  <2>1. rank \in [I -> 0 .. n - 1]
    BY <1>2
  <2>2. ASSUME NEW i \in I, NEW j \in I, rank[i] = rank[j] PROVE i = j
    <3> HIDE DEF rank, Before
    <3>1. rank[i] \in Int /\ rank[j] \in Int
      BY <1>1, <1>2
    <3>2. ~ <<i, j>> \in R /\ ~ <<j, i>> \in R
      BY <1>3, <2>2, <3>1
    <3> QED
      BY <3>2 DEF StrictOrder
  <2> HIDE DEF rank
  <2> QED
    BY <2>1, <2>2 DEF Injection, IsInjective
<1>5. IsFiniteSet(0 .. n - 1) /\ Cardinality(0 .. n - 1) = n
  BY <1>1, FS_Interval
<1>6. rank \in Surjection(I, 0 .. n - 1)
  <2> HIDE DEF rank
  <2> QED
    BY <1>4, <1>5, FS_Injection
<1>7. ASSUME NEW k \in 1 .. n
      PROVE  InOrder(I, R)[k] \in I /\ rank[InOrder(I, R)[k]] = k - 1
  <2>1. k - 1 \in 0 .. n - 1
    BY <1>1
  <2>2. PICK i \in I : rank[i] = k - 1
    <3> HIDE DEF rank
    <3> QED
      BY <1>6, <2>1 DEF Surjection
  <2>3. InOrder(I, R)[k] = CHOOSE x \in I : Cardinality({j \in I : <<j, x>> \in R}) = k - 1
    BY DEF InOrder
  <2>4. \E x \in I : Cardinality({j \in I : <<j, x>> \in R}) = k - 1
    BY <2>2
  <2>5. InOrder(I, R)[k] \in I /\ Cardinality({j \in I : <<j, InOrder(I, R)[k]>> \in R}) = k - 1
    BY <2>3, <2>4
  <2> QED
    BY <2>5
<1>8. InOrder(I, R) \in [1 .. n -> I]
  <2> DEFINE pick(k) == CHOOSE i \in I : Cardinality({j \in I : <<j, i>> \in R}) = k - 1
  <2>1. InOrder(I, R) = [k \in 1 .. n |-> pick(k)]
    BY DEF InOrder
  <2> HIDE DEF pick
  <2> QED
    BY <1>7, <2>1
<1>9. InOrder(I, R) \in Injection(1 .. n, I)
  <2> HIDE DEF rank
  <2>1. ASSUME NEW a \in 1 .. n, NEW b \in 1 .. n, InOrder(I, R)[a] = InOrder(I, R)[b] PROVE a = b
    BY <1>1, <1>7, <2>1
  <2> QED
    BY <1>8, <2>1 DEF Injection, IsInjective
<1>10. InOrder(I, R) \in Surjection(1 .. n, I)
  <2>1. IsFiniteSet(1 .. n) /\ Cardinality(1 .. n) = n
    BY <1>1, FS_Interval
  <2> QED
    BY <1>9, <2>1, FS_Injection
<1>11. ASSUME NEW a \in 1 .. n, NEW b \in 1 .. n, a < b
       PROVE  <<InOrder(I, R)[a], InOrder(I, R)[b]>> \in R
  <2> DEFINE i == InOrder(I, R)[a]
             j == InOrder(I, R)[b]
  <2>1. i \in I /\ j \in I /\ rank[i] = a - 1 /\ rank[j] = b - 1
    BY <1>7
  <2> HIDE DEF i, j, rank
  <2>2. i # j /\ ~ <<j, i>> \in R
    BY <1>1, <1>3, <1>11, <2>1
  <2> QED
    BY <2>1, <2>2 DEF StrictOrder, i, j
<1> QED
  BY <1>1, <1>9, <1>10, <1>11 DEF Bijection

\* Induction on the natural numbers, for the members of a set.
LEMMA NatSet ==
  ASSUME NEW S, 0 \in S, \A n \in Nat : n \in S => n + 1 \in S
  PROVE  Nat \subseteq S
<1> DEFINE T == Nat \ S
<1>1. ASSUME T # {} PROVE FALSE
  <2>1. PICK x \in T : \A y \in T : ~ <<y, x>> \in OpToRel(<, Nat)
    <3>1. T \subseteq Nat
      OBVIOUS
    <3> HIDE DEF T
    <3> QED
      BY <1>1, <3>1, NatLessThanWellFounded, WFMin, Zenon
  <2>2. x # 0 /\ x \in Nat /\ x - 1 \in Nat
    OBVIOUS
  <2>3. OpToRel(<, Nat) = {p \in Nat \X Nat : p[1] < p[2]}
    BY Zenon DEF OpToRel
  <2>4. <<x - 1, x>> \in {p \in Nat \X Nat : p[1] < p[2]}
    BY <2>2
  <2>5. <<x - 1, x>> \in OpToRel(<, Nat)
    BY <2>3, <2>4, Zenon
  <2>6. x - 1 \notin T
    BY <2>1, <2>5, Zenon
  <2> QED
    BY <2>2, <2>6
<1> QED
  BY <1>1

\* Some member of a set of numbers is the least.
LEMMA HasLeast ==
  ASSUME NEW S \in SUBSET Nat, S # {}
  PROVE  \E x \in S : \A y \in S : x <= y
<1>1. PICK x \in S : \A y \in S : ~ <<y, x>> \in OpToRel(<, Nat)
  BY NatLessThanWellFounded, WFMin, Zenon
<1>2. OpToRel(<, Nat) = {p \in Nat \X Nat : p[1] < p[2]}
  BY Zenon DEF OpToRel
<1>3. \A y \in S : x <= y
  <2> SUFFICES ASSUME NEW y \in S PROVE x <= y
    OBVIOUS
  <2>1. <<y, x>> \notin {p \in Nat \X Nat : p[1] < p[2]}
    BY <1>1, <1>2, Zenon
  <2>2. x \in Nat /\ y \in Nat
    OBVIOUS
  <2> QED
    BY <2>1, <2>2
<1> QED
  BY <1>3

\* Some member of a set of numbers with a bound is the greatest.
LEMMA HasGreatest ==
  ASSUME NEW n \in Nat, NEW S \in SUBSET (1 .. n), S # {}
  PROVE  \E x \in S : \A y \in S : x >= y
<1> DEFINE T == {n - x : x \in S}
<1>1. T \in SUBSET Nat /\ T # {}
  <2>1. \A x \in S : n - x \in Nat
    OBVIOUS
  <2>2. T # {}
    OBVIOUS
  <2> QED
    BY <2>1, <2>2
<1>2. PICK t \in T : \A u \in T : t <= u
  <2> HIDE DEF T
  <2> QED
    BY <1>1, HasLeast
<1>3. PICK x \in S : t = n - x
  OBVIOUS
<1>4. \A y \in S : n - x <= n - y /\ y \in Int /\ x \in Int
  <2>1. \A y \in S : n - y \in T
    OBVIOUS
  <2>2. \A y \in S : y \in Int
    OBVIOUS
  <2> HIDE DEF T
  <2> QED
    BY <1>2, <1>3, <2>1, <2>2
<1>5. \A a, b \in Int : n - a <= n - b => a >= b
  OBVIOUS
<1> QED
  BY <1>4, <1>5

\* A sequence has finitely many places.
LEMMA SeqPlaces ==
  ASSUME NEW S, NEW s \in Seq(S)
  PROVE  /\ DOMAIN s = 1 .. Len(s) /\ Len(s) \in Nat /\ IsFiniteSet(DOMAIN s)
         /\ Cardinality(DOMAIN s) = Len(s)
         /\ DOMAIN s \subseteq Nat
         /\ \A i \in DOMAIN s : s[i] \in S
         /\ s = <<>> <=> DOMAIN s = {}
<1>1. DOMAIN s = 1 .. Len(s) /\ Len(s) \in Nat /\ \A i \in DOMAIN s : s[i] \in S
  OBVIOUS
<1>2. IsFiniteSet(1 .. Len(s)) /\ Cardinality(1 .. Len(s)) = Len(s)
  BY <1>1, FS_Interval
<1>3. s = <<>> <=> DOMAIN s = {}
  BY <1>1
<1> QED
  BY <1>1, <1>2, <1>3

\* The length of a sequence is read off its domain.
LEMMA LenIs ==
  ASSUME NEW S, NEW t \in Seq(S), NEW n \in Nat, DOMAIN t = 1 .. n
  PROVE  Len(t) = n
<1>1. DOMAIN t = 1 .. Len(t) /\ Len(t) \in Nat
  OBVIOUS
<1> QED
  BY <1>1

\* t has what s has at the places in I, in some order.
ReadsOff(t, s, I, S) ==
  /\ t \in Seq(S) /\ Len(t) = Cardinality(I)
  /\ \A k \in DOMAIN t : \E i \in I : t[k] = s[i]
  /\ \A i \in I : \E k \in DOMAIN t : t[k] = s[i]
  /\ t = <<>> <=> I = {}

\* Reading s along an enumeration of the places in I gives exactly what s has there.
LEMMA AlongPlaces ==
  ASSUME NEW S, NEW I, IsFiniteSet(I), NEW s, \A i \in I : s[i] \in S,
         NEW R, StrictOrder(I, R)
  PROVE  ReadsOff(Along(s, I, R), s, I, S)
<1> DEFINE n == Cardinality(I)
           place == InOrder(I, R)
           t == Along(s, I, R)
<1>1. n \in Nat /\ place \in Bijection(1 .. n, I)
  BY InOrderSorts
<1>2. n = 0 <=> I = {}
  BY FS_EmptySet
<1>3. t = [k \in 1 .. n |-> s[place[k]]]
  BY DEF Along
<1> HIDE DEF n, place, t
<1>4. \A k \in 1 .. n : place[k] \in I
  BY <1>1 DEF Bijection, Injection
<1>5. \A i \in I : \E k \in 1 .. n : place[k] = i
  BY <1>1 DEF Bijection, Surjection
<1>6. t \in [1 .. n -> S] /\ DOMAIN t = 1 .. n
  BY <1>3, <1>4
<1>7. t \in Seq(S) /\ Len(t) = n
  <2>1. t \in Seq(S)
    BY <1>1, <1>6, SeqDef
  <2> QED
    BY <1>1, <1>6, <2>1, LenIs
<1>8. /\ \A k \in DOMAIN t : \E i \in I : t[k] = s[i]
      /\ \A i \in I : \E k \in DOMAIN t : t[k] = s[i]
  BY <1>3, <1>4, <1>5, <1>6
<1>9. t = <<>> <=> I = {}
  BY <1>1, <1>2, <1>7
<1> QED
  BY <1>7, <1>8, <1>9, Zenon DEF n, t, ReadsOff

\* A filter keeps exactly the members at the places in I.
LEMMA AtPlaces ==
  ASSUME NEW S, NEW s \in Seq(S), NEW I \in SUBSET DOMAIN s
  PROVE  ReadsOff(At(s, I), s, I, S)
<1> DEFINE R == {p \in I \X I : p[1] < p[2]}
<1>1. IsFiniteSet(I) /\ I \subseteq Nat /\ \A i \in I : s[i] \in S
  BY SeqPlaces, FS_Subset
<1>2. StrictOrder(I, R)
  BY <1>1 DEF StrictOrder
<1>3. At(s, I) = Along(s, I, R)
  BY DEF At
<1> HIDE DEF R
<1> QED
  BY <1>1, <1>2, <1>3, AlongPlaces, Zenon

\* A sort keeps everything.
LEMMA SortedPlaces ==
  ASSUME NEW S, NEW s \in Seq(S), NEW R, StrictOrder(DOMAIN s, R)
  PROVE  ReadsOff(Along(s, DOMAIN s, R), s, DOMAIN s, S)
<1>1. IsFiniteSet(DOMAIN s) /\ \A i \in DOMAIN s : s[i] \in S
  BY SeqPlaces
<1> QED
  BY <1>1, AlongPlaces, Zenon

\* A filter by itself: what it keeps and the places it keeps.
LEMMA FilterFacts ==
  ASSUME NEW S, NEW s \in Seq(S), NEW I \in SUBSET DOMAIN s
  PROVE  /\ At(s, I) \in Seq(S)
         /\ \A x : x \in Range(At(s, I)) <=> \E i \in I : x = s[i]
         /\ At(s, I) = <<>> <=> Range(At(s, I)) = {}
<1> DEFINE t == At(s, I)
<1>1. ReadsOff(t, s, I, S)
  BY AtPlaces
<1> HIDE DEF t
<1>2. /\ t \in Seq(S) /\ (t = <<>> <=> I = {})
      /\ \A k \in DOMAIN t : \E i \in I : t[k] = s[i]
      /\ \A i \in I : \E k \in DOMAIN t : t[k] = s[i]
  BY <1>1 DEF ReadsOff
<1>3. \A x : x \in Range(t) <=> \E i \in I : x = s[i]
  BY <1>2 DEF Range
<1> QED
  BY <1>2, <1>3 DEF t

\* A filter keeps the order.
LEMMA AtInOrder ==
  ASSUME NEW S, NEW s \in Seq(S), NEW I \in SUBSET DOMAIN s,
         NEW a \in DOMAIN At(s, I), NEW b \in DOMAIN At(s, I), a < b
  PROVE  \E i, j \in I : i < j /\ At(s, I)[a] = s[i] /\ At(s, I)[b] = s[j]
<1> DEFINE R == {p \in I \X I : p[1] < p[2]}
           n == Cardinality(I)
           place == InOrder(I, R)
           t == At(s, I)
<1>1. IsFiniteSet(I) /\ I \subseteq Nat
  BY SeqPlaces, FS_Subset
<1>2. StrictOrder(I, R)
  BY <1>1 DEF StrictOrder
<1>3. n \in Nat /\ place \in Bijection(1 .. n, I) /\ \A x, y \in 1 .. n : x < y => <<place[x], place[y]>> \in R
  BY <1>1, <1>2, InOrderSorts
<1>4. t = [k \in 1 .. n |-> s[place[k]]]
  BY DEF At, Along
<1>5. a \in 1 .. n /\ b \in 1 .. n
  BY <1>4
<1>6. <<place[a], place[b]>> \in R /\ t[a] = s[place[a]] /\ t[b] = s[place[b]]
  BY <1>3, <1>4, <1>5
<1> QED
  BY <1>6

\* A rank by integer keys reads everything there is, in a strict order.
LEMMA KeyOrder ==
  ASSUME NEW S, NEW s \in Seq(S), NEW K \in [DOMAIN s -> Int], NEW R,
         R = {p \in (DOMAIN s) \X (DOMAIN s) : K[p[1]] > K[p[2]] \/ (K[p[1]] = K[p[2]] /\ p[1] < p[2])}
  PROVE  ReadsOff(Along(s, DOMAIN s, R), s, DOMAIN s, S)
<1>1. DOMAIN s \subseteq Nat
  BY SeqPlaces
<1>2. StrictOrder(DOMAIN s, R)
  BY <1>1 DEF StrictOrder
<1> QED
  BY <1>2, SortedPlaces
=============================================================================
