--------------------------- MODULE StoreLock_proofs ---------------------------
(***************************************************************************)
(* The locked sections implement the atomic store: for any number of       *)
(* calls, any mix of the tools and any number of deaths and power losses.  *)
(***************************************************************************)
EXTENDS StoreLock, SequenceTheorems, TLAPS

-----------------------------------------------------------------------------
(* What the plans have in common *)

Steps == [op : {"lock", "save", "unlock"}, store : Stores]

LEMMA StepFacts ==
  ASSUME NEW s \in Stores, NEW o \in {"lock", "save", "unlock"}
  PROVE  /\ Step(o, s) \in Steps
         /\ \A q, t : Step(o, s) = Step(q, t) => o = q /\ s = t
  BY DEF Step, Steps

\* H tells, for each step of plan p, which locks are held before it: locks are not taken
\* twice, are all given back, and a document is saved right after its lock was taken.
Lawful(p, H) ==
  /\ p \in Seq(Steps)
  /\ H \in [1 .. Len(p) + 1 -> SUBSET Stores]
  /\ H[1] = {} /\ H[Len(p) + 1] = {}
  /\ \A i \in 1 .. Len(p), s \in Stores :
       /\ p[i] = Step("lock", s) =>
            /\ s \notin H[i] /\ H[i + 1] = H[i] \cup {s}
            /\ i + 1 \in 1 .. Len(p) /\ p[i + 1] = Step("save", s)
       /\ p[i] = Step("save", s) => s \in H[i] /\ H[i + 1] = H[i]
       /\ p[i] = Step("unlock", s) => s \in H[i] /\ H[i + 1] = H[i] \ {s}

LEMMA NothingLawful == Lawful(<<>>, [i \in {1} |-> {}])
  BY DEF Lawful

\* The steps of a section.
LEMMA SectionSteps ==
  ASSUME NEW s \in Stores, NEW q \in Seq(Steps)
  PROVE  /\ Locked(s, q) \in Seq(Steps)
         /\ Len(Locked(s, q)) = Len(q) + 3
         /\ Locked(s, q)[1] = Step("lock", s) /\ Locked(s, q)[2] = Step("save", s)
         /\ \A i \in 1 .. Len(q) : Locked(s, q)[i + 2] = q[i]
         /\ Locked(s, q)[Len(q) + 3] = Step("unlock", s)
<1> DEFINE a == <<Step("lock", s), Step("save", s)>>
           b == <<Step("unlock", s)>>
<1>1. a \in Seq(Steps) /\ Len(a) = 2 /\ a[1] = Step("lock", s) /\ a[2] = Step("save", s)
  BY StepFacts
<1>2. b \in Seq(Steps) /\ Len(b) = 1 /\ b[1] = Step("unlock", s)
  BY StepFacts
<1>3. Locked(s, q) = a \o q \o b
  BY DEF Locked
<1> HIDE DEF a, b
<1>4. /\ a \o q \in Seq(Steps) /\ Len(a \o q) = Len(q) + 2
      /\ (a \o q)[1] = a[1] /\ (a \o q)[2] = a[2]
      /\ \A i \in 1 .. Len(q) : (a \o q)[i + 2] = q[i]
  <2>1. /\ a \o q \in Seq(Steps) /\ Len(a \o q) = Len(a) + Len(q)
        /\ \A i \in 1 .. Len(a) + Len(q) : (a \o q)[i] = IF i <= Len(a) THEN a[i] ELSE q[i - Len(a)]
    BY <1>1, ConcatProperties
  <2>2. Len(q) \in Nat
    OBVIOUS
  <2>3. ASSUME NEW i \in 1 .. Len(q) PROVE (a \o q)[i + 2] = q[i]
    <3>1. i + 2 \in 1 .. 2 + Len(q) /\ ~(i + 2 <= 2) /\ (i + 2) - 2 = i
      BY <2>2
    <3> QED
      BY <3>1, <2>1, <1>1
  <2> QED
    BY <2>1, <2>2, <2>3, <1>1
<1>5. DEFINE c == a \o q
<1> HIDE DEF c
<1>6. /\ c \o b \in Seq(Steps) /\ Len(c \o b) = Len(q) + 3
      /\ \A i \in 1 .. Len(q) + 2 : (c \o b)[i] = c[i]
      /\ (c \o b)[Len(q) + 3] = b[1]
  <2>1. c \in Seq(Steps) /\ Len(c) = Len(q) + 2 /\ Len(q) \in Nat
    BY <1>4 DEF c
  <2>2. /\ c \o b \in Seq(Steps) /\ Len(c \o b) = Len(c) + Len(b)
        /\ \A i \in 1 .. Len(c) + Len(b) : (c \o b)[i] = IF i <= Len(c) THEN c[i] ELSE b[i - Len(c)]
    BY <2>1, <1>2, ConcatProperties
  <2>3. (Len(q) + 3) - Len(c) = 1 /\ Len(q) + 3 \in 1 .. Len(c) + Len(b) /\ ~(Len(q) + 3 <= Len(c))
    BY <2>1, <1>2
  <2>4. (c \o b)[Len(q) + 3] = b[1]
    BY <2>2, <2>3
  <2> QED
    BY <2>1, <2>2, <2>4, <1>2
<1>7. Len(q) \in Nat
  OBVIOUS
<1> QED
  BY <1>1, <1>2, <1>3, <1>4, <1>6, <1>7 DEF c

\* Around what neither takes nor gives back its lock, a section is lawful ...
LEMMA SectionLawful ==
  ASSUME NEW s \in Stores, NEW q, NEW G, Lawful(q, G),
         \A i \in 1 .. Len(q) + 1 : s \notin G[i]
  PROVE  \E H : Lawful(Locked(s, q), H)
<1> DEFINE n == Len(q)
           p == Locked(s, q)
           H == [i \in 1 .. n + 4 |-> IF i = 1 \/ i = n + 4 THEN {}
                                      ELSE IF i = 2 THEN {s} ELSE {s} \cup G[i - 2]]
<1>1. q \in Seq(Steps) /\ n \in Nat /\ G \in [1 .. n + 1 -> SUBSET Stores] /\ G[1] = {} /\ G[n + 1] = {}
  BY DEF Lawful
<1>2. /\ p \in Seq(Steps) /\ Len(p) = n + 3
      /\ p[1] = Step("lock", s) /\ p[2] = Step("save", s)
      /\ \A i \in 1 .. n : p[i + 2] = q[i]
      /\ p[n + 3] = Step("unlock", s)
  BY <1>1, SectionSteps
<1> HIDE DEF p
<1>3. \A i \in 1 .. n + 4 : H[i] = IF i = 1 \/ i = n + 4 THEN {} ELSE IF i = 2 THEN {s} ELSE {s} \cup G[i - 2]
  BY <1>1
<1>4. H \in [1 .. n + 4 -> SUBSET Stores]
  BY <1>1
<1> HIDE DEF H, n
<1>5. H[1] = {} /\ H[2] = {s} /\ H[3] = {s} /\ H[n + 3] = {s} /\ H[n + 4] = {}
  <2>1. 1 \in 1 .. n + 4 /\ 2 \in 1 .. n + 4 /\ 3 \in 1 .. n + 4 /\ n + 3 \in 1 .. n + 4 /\ n + 4 \in 1 .. n + 4
    BY <1>1
  <2>2. 2 # n + 4 /\ 3 # n + 4 /\ n + 3 # 1 /\ n + 3 # 2 /\ n + 3 # n + 4 /\ (n + 3) - 2 = n + 1 /\ 3 - 2 = 1
    BY <1>1
  <2>3. H[1] = {} /\ H[n + 4] = {} /\ H[2] = {s}
    BY <1>3, <2>1, <2>2
  <2>4. H[3] = {s} \cup G[3 - 2]
    <3>1. H[3] = IF 3 = 1 \/ 3 = n + 4 THEN {} ELSE IF 3 = 2 THEN {s} ELSE {s} \cup G[3 - 2]
      BY <1>3, <2>1, Zenon
    <3> QED
      BY <3>1, <2>2
  <2>5. H[n + 3] = {s} \cup G[(n + 3) - 2]
    BY <1>3, <2>1, <2>2
  <2> QED
    BY <1>1, <2>2, <2>3, <2>4, <2>5
<1>6. ASSUME NEW i \in 1 .. n + 3, NEW t \in Stores
      PROVE  /\ p[i] = Step("lock", t) =>
                  /\ t \notin H[i] /\ H[i + 1] = H[i] \cup {t}
                  /\ i + 1 \in 1 .. n + 3 /\ p[i + 1] = Step("save", t)
             /\ p[i] = Step("save", t) => t \in H[i] /\ H[i + 1] = H[i]
             /\ p[i] = Step("unlock", t) => t \in H[i] /\ H[i + 1] = H[i] \ {t}
  <2>1. CASE i = 1
    BY <2>1, <1>1, <1>2, <1>5, StepFacts
  <2>2. CASE i = 2
    BY <2>2, <1>1, <1>2, <1>5, StepFacts
  <2>3. CASE i = n + 3
    BY <2>3, <1>1, <1>2, <1>5, StepFacts
  <2>4. CASE i \in 3 .. n + 2
    <3> DEFINE j == i - 2
    <3>1. j \in 1 .. n /\ p[i] = q[j] /\ H[i] = {s} \cup G[j] /\ H[i + 1] = {s} \cup G[j + 1]
      <4>1. j \in 1 .. n /\ j + 2 = i /\ (i + 1) - 2 = j + 1
        BY <2>4, <1>1
      <4>2. p[i] = q[j]
        BY <4>1, <1>2
      <4>3. i # 1 /\ i # 2 /\ i # n + 4 /\ i + 1 # 1 /\ i + 1 # 2 /\ i + 1 # n + 4 /\ i + 1 \in 1 .. n + 4 /\ i \in 1 .. n + 4
        BY <2>4, <1>1
      <4>4. H[i] = {s} \cup G[j]
        BY <4>3, <1>3
      <4>5. H[i + 1] = {s} \cup G[(i + 1) - 2]
        BY <4>3, <1>3
      <4> QED
        BY <4>1, <4>2, <4>4, <4>5
    <3>2. s \notin G[j] /\ s \notin G[j + 1]
      BY <3>1, <1>1 DEF n
    <3>3. /\ q[j] = Step("lock", t) =>
               /\ t \notin G[j] /\ G[j + 1] = G[j] \cup {t}
               /\ j + 1 \in 1 .. n /\ q[j + 1] = Step("save", t)
          /\ q[j] = Step("save", t) => t \in G[j] /\ G[j + 1] = G[j]
          /\ q[j] = Step("unlock", t) => t \in G[j] /\ G[j + 1] = G[j] \ {t}
      BY <3>1 DEF Lawful, n
    <3>4. ASSUME q[j] = Step("lock", t)
          PROVE  /\ t # s /\ i + 1 \in 1 .. n + 3 /\ p[i + 1] = Step("save", t)
      BY <3>1, <3>2, <3>3, <3>4, <2>4, <1>1, <1>2
    <3> QED
      BY <3>1, <3>2, <3>3, <3>4
  <2> QED
    BY <2>1, <2>2, <2>3, <2>4, <1>1
<1>7. Len(p) + 1 = n + 4
  BY <1>1, <1>2
<1>8. Lawful(p, H)
  BY <1>1, <1>2, <1>4, <1>5, <1>6, <1>7 DEF Lawful
<1> QED
  BY <1>8 DEF p

\* ... and so is one plan after another.
LEMMA SequenceLawful ==
  ASSUME NEW p, NEW q, NEW G, NEW K, Lawful(p, G), Lawful(q, K)
  PROVE  \E H : /\ Lawful(p \o q, H)
                /\ \A s : (\A i \in 1 .. Len(p) + 1 : s \notin G[i]) /\ (\A i \in 1 .. Len(q) + 1 : s \notin K[i])
                           => \A i \in 1 .. Len(p \o q) + 1 : s \notin H[i]
<1> DEFINE m == Len(p)
           n == Len(q)
           r == p \o q
           H == [i \in 1 .. m + n + 1 |-> IF i <= m THEN G[i] ELSE K[i - m]]
<1>1. /\ p \in Seq(Steps) /\ m \in Nat /\ G \in [1 .. m + 1 -> SUBSET Stores] /\ G[1] = {} /\ G[m + 1] = {}
      /\ q \in Seq(Steps) /\ n \in Nat /\ K \in [1 .. n + 1 -> SUBSET Stores] /\ K[1] = {} /\ K[n + 1] = {}
  BY DEF Lawful
<1>2. /\ r \in Seq(Steps) /\ Len(r) = m + n
      /\ \A i \in 1 .. m : r[i] = p[i]
      /\ \A i \in 1 .. n : r[i + m] = q[i]
  BY <1>1, ConcatProperties
<1> HIDE DEF r
<1>3. /\ \A i \in 1 .. m + 1 : H[i] = G[i]
      /\ \A i \in 1 .. n + 1 : H[i + m] = K[i]
  <2>1. \A i \in 1 .. m + n + 1 : H[i] = IF i <= m THEN G[i] ELSE K[i - m]
    OBVIOUS
  <2> HIDE DEF H
  <2>2. ASSUME NEW i \in 1 .. m + 1 PROVE H[i] = G[i]
    <3>1. CASE i <= m
      BY <2>1, <3>1, <1>1
    <3>2. CASE i = m + 1
      <4>1. H[i] = K[i - m] /\ i - m = 1
        BY <2>1, <3>2, <1>1
      <4> QED
        BY <4>1, <3>2, <1>1
    <3> QED
      BY <3>1, <3>2, <1>1
  <2>3. ASSUME NEW i \in 1 .. n + 1 PROVE H[i + m] = K[i]
    <3>1. i + m \in 1 .. m + n + 1 /\ ~(i + m <= m) /\ (i + m) - m = i
      BY <1>1
    <3> QED
      BY <2>1, <3>1
  <2> QED
    BY <2>2, <2>3
<1>4. H \in [1 .. m + n + 1 -> SUBSET Stores]
  BY <1>1
<1> HIDE DEF H
<1>5. ASSUME NEW i \in 1 .. m + n, NEW t \in Stores
      PROVE  /\ r[i] = Step("lock", t) =>
                  /\ t \notin H[i] /\ H[i + 1] = H[i] \cup {t}
                  /\ i + 1 \in 1 .. m + n /\ r[i + 1] = Step("save", t)
             /\ r[i] = Step("save", t) => t \in H[i] /\ H[i + 1] = H[i]
             /\ r[i] = Step("unlock", t) => t \in H[i] /\ H[i + 1] = H[i] \ {t}
  <2>1. CASE i \in 1 .. m
    <3>1. r[i] = p[i] /\ H[i] = G[i] /\ H[i + 1] = G[i + 1] /\ (i + 1 \in 1 .. m => r[i + 1] = p[i + 1])
      BY <2>1, <1>1, <1>2, <1>3
    <3> QED
      BY <2>1, <3>1, <1>1 DEF Lawful
  <2>2. CASE i \in m + 1 .. m + n
    <3> DEFINE j == i - m
    <3>1. /\ j \in 1 .. n /\ r[i] = q[j] /\ H[i] = K[j] /\ H[i + 1] = K[j + 1]
          /\ (j + 1 \in 1 .. n => i + 1 \in 1 .. m + n /\ r[i + 1] = q[j + 1])
      BY <2>2, <1>1, <1>2, <1>3
    <3> QED
      BY <3>1, <1>1 DEF Lawful
  <2> QED
    BY <2>1, <2>2, <1>1
<1>6. Lawful(r, H)
  <2>1. H[1] = {} /\ H[m + n + 1] = {}
    <3>1. 1 \in 1 .. m + 1 /\ n + 1 \in 1 .. n + 1 /\ (n + 1) + m = m + n + 1
      BY <1>1
    <3> QED
      BY <3>1, <1>1, <1>3
  <2> QED
    BY <1>1, <1>2, <1>4, <1>5, <2>1 DEF Lawful
<1>7. ASSUME NEW s, \A i \in 1 .. m + 1 : s \notin G[i], \A i \in 1 .. n + 1 : s \notin K[i],
             NEW i \in 1 .. m + n + 1
      PROVE  s \notin H[i]
  BY <1>7, <1>1 DEF H
<1> QED
  BY <1>2, <1>6, <1>7 DEF r

LEMMA PlansLawful == \A p \in Plans : Len(p) <= 9 /\ \E H : Lawful(p, H)
<1>1. ASSUME NEW s \in Stores
      PROVE  /\ Alone(s) \in Seq(Steps) /\ Len(Alone(s)) = 3
             /\ \E H : /\ Lawful(Alone(s), H)
                      /\ \A t \in Stores \ {s}, i \in 1 .. Len(Alone(s)) + 1 : t \notin H[i]
  <2> DEFINE H == [i \in 1 .. 4 |-> IF i \in {2, 3} THEN {s} ELSE {}]
  <2>1. PICK e : e = <<>> /\ e \in Seq(Steps) /\ Len(e) = 0
    BY EmptySeq
  <2>2. /\ Alone(s) \in Seq(Steps) /\ Len(Alone(s)) = 3
        /\ Alone(s)[1] = Step("lock", s) /\ Alone(s)[2] = Step("save", s) /\ Alone(s)[3] = Step("unlock", s)
    <3>1. Alone(s) = Locked(s, e)
      BY <2>1 DEF Alone
    <3>2. /\ Locked(s, e) \in Seq(Steps) /\ Len(Locked(s, e)) = Len(e) + 3
          /\ Locked(s, e)[1] = Step("lock", s) /\ Locked(s, e)[2] = Step("save", s)
          /\ Locked(s, e)[Len(e) + 3] = Step("unlock", s)
      BY <2>1, SectionSteps
    <3> QED
      BY <2>1, <3>1, <3>2
  <2>3. Lawful(Alone(s), H)
    BY <2>2, StepFacts DEF Lawful
  <2> QED
    BY <2>2, <2>3
<1>2. "supervisor" \in Stores /\ "task" \in Stores /\ "finding" \in Stores
  BY DEF Stores
<1> DEFINE T == Alone("task")
           F == Alone("finding")
<1>3. PICK G : Lawful(T, G) /\ \A i \in 1 .. Len(T) + 1 : "supervisor" \notin G[i]
  BY <1>1, <1>2
<1>4. PICK K : Lawful(F, K) /\ \A i \in 1 .. Len(F) + 1 : "supervisor" \notin K[i]
  BY <1>1, <1>2
<1>5. T \in Seq(Steps) /\ Len(T) = 3 /\ F \in Seq(Steps) /\ Len(F) = 3
  BY <1>1, <1>2
<1> HIDE DEF T, F
<1>6. /\ T \o F \in Seq(Steps) /\ Len(T \o F) = Len(T) + Len(F)
      /\ T \o T \in Seq(Steps) /\ Len(T \o T) = Len(T) + Len(T)
  BY <1>5, ConcatProperties
<1>7. \E H : Lawful(Locked("supervisor", T), H)
  BY <1>2, <1>3, SectionLawful
<1>8. \E H : Lawful(Locked("supervisor", T \o F), H)
  <2>1. PICK H : /\ Lawful(T \o F, H)
                 /\ \A s : (\A i \in 1 .. Len(T) + 1 : s \notin G[i]) /\ (\A i \in 1 .. Len(F) + 1 : s \notin K[i])
                           => \A i \in 1 .. Len(T \o F) + 1 : s \notin H[i]
    BY <1>3, <1>4, SequenceLawful
  <2>2. \A i \in 1 .. Len(T \o F) + 1 : "supervisor" \notin H[i]
    BY <2>1, <1>3, <1>4
  <2> QED
    BY <2>1, <2>2, <1>2, SectionLawful
<1>9. \E H : Lawful(T \o T, H)
  BY <1>3, SequenceLawful
<1>10. Len(Locked("supervisor", T)) = 6 /\ Len(Locked("supervisor", T \o F)) = 9 /\ Len(T \o T) = 6
  <2>1. Len(Locked("supervisor", T)) = Len(T) + 3
    BY <1>2, <1>5, SectionSteps
  <2>2. Len(Locked("supervisor", T \o F)) = Len(T \o F) + 3
    BY <1>2, <1>6, SectionSteps
  <2> QED
    BY <2>1, <2>2, <1>5, <1>6
<1>11. ASSUME NEW s \in Stores PROVE Len(Alone(s)) <= 9 /\ \E H : Lawful(Alone(s), H)
  <2>1. Len(Alone(s)) = 3
    BY <1>1
  <2>2. \E H : Lawful(Alone(s), H)
    BY <1>1, Zenon
  <2> QED
    BY <2>1, <2>2
<1>12. ASSUME NEW p \in Plans
       PROVE  \/ \E s \in Stores : p = Alone(s)
              \/ p = Locked("supervisor", T) \/ p = Locked("supervisor", T \o F) \/ p = T \o T
  BY <1>2 DEF Plans, T, F
<1>13. ASSUME NEW p \in Plans PROVE Len(p) <= 9
  <2>1. CASE \E s \in Stores : p = Alone(s)
    BY <2>1, <1>11
  <2>2. Len(p) = 6 => Len(p) <= 9
    OBVIOUS
  <2>3. Len(p) = 9 => Len(p) <= 9
    OBVIOUS
  <2> QED
    BY <2>1, <2>2, <2>3, <1>10, <1>12, Zenon
<1> QED
  BY <1>7, <1>8, <1>9, <1>11, <1>12, <1>13, Zenon

-----------------------------------------------------------------------------
(* Mutual exclusion *)

Stages == {"queued", "read", "temp", "rename", "flush"}

TypeOK ==
  /\ plan \in [Calls -> Plans]
  /\ at \in [Calls -> 1 .. 10] /\ \A c \in Calls : at[c] <= Len(plan[c]) + 1
  /\ stage \in [Calls -> Stages]
  /\ queue \in [Stores -> Seq(Calls)]

\* The locks each call holds.
Held(p) == CHOOSE H : Lawful(p, H)
Holds(c) == Held(plan[c])[at[c]]

\* A call is at a stage of a save only where its plan saves.
InStep ==
  \A c \in Calls :
    /\ stage[c] \in {"temp", "rename", "flush"} => \E s \in Stores : Does(c, "save", s)
    /\ stage[c] = "read" => \E s \in Stores : Does(c, "save", s) \/ Does(c, "lock", s)

\* Who holds a lock is the head of its chain, so no two do; who waits is in the chain.
Exclusion ==
  /\ \A c \in Calls : \A s \in Holds(c) : queue[s] # <<>> /\ Head(queue[s]) = c
  /\ \A c \in Calls, s \in Stores :
       Does(c, "lock", s) /\ stage[c] = "read" => \E i \in 1 .. Len(queue[s]) : queue[s][i] = c

LockInv == TypeOK /\ InStep /\ Exclusion

\* The plan of a call, and the locks it holds.
LEMMA PlanFacts ==
  ASSUME plan \in [Calls -> Plans], NEW c \in Calls
  PROVE  /\ Lawful(plan[c], Held(plan[c]))
         /\ Len(plan[c]) \in 0 .. 9 /\ 1 <= Len(plan[c]) + 1 /\ Len(plan[c]) + 1 <= 10
<1>1. plan[c] \in Plans
  OBVIOUS
<1>2. Len(plan[c]) <= 9 /\ \E H : Lawful(plan[c], H)
  BY <1>1, PlansLawful
<1>3. Lawful(plan[c], Held(plan[c]))
  BY <1>2, Zenon DEF Held
<1>4. Len(plan[c]) \in Nat
  BY <1>3, LenProperties DEF Lawful
<1>5. ASSUME NEW n \in Nat, n <= 9 PROVE n \in 0 .. 9 /\ 1 <= n + 1 /\ n + 1 <= 10
  BY <1>5
<1> QED
  BY <1>2, <1>3, <1>4, <1>5

\* How the locks of a call follow from the step it is at.
LEMMA StepLocks ==
  ASSUME TypeOK, NEW c \in Calls, NEW s \in Stores
  PROVE  LET H == Held(plan[c])
         IN  /\ Holds(c) \subseteq Stores
             /\ H[1] = {} /\ H[Len(plan[c]) + 1] = {} /\ Len(plan[c]) \in 0 .. 9
             /\ \A o : Does(c, o, s) => at[c] \in 1 .. Len(plan[c]) /\ plan[c][at[c]] = Step(o, s)
             /\ Does(c, "lock", s) => /\ s \notin Holds(c) /\ H[at[c] + 1] = Holds(c) \cup {s}
                                      /\ at[c] + 1 \in 1 .. Len(plan[c]) /\ plan[c][at[c] + 1] = Step("save", s)
             /\ Does(c, "save", s) => s \in Holds(c) /\ H[at[c] + 1] = Holds(c)
             /\ Does(c, "unlock", s) => s \in Holds(c) /\ H[at[c] + 1] = Holds(c) \ {s}
<1> DEFINE p == plan[c]
           H == Held(p)
<1>1. Lawful(p, H) /\ Len(p) \in 0 .. 9
  BY PlanFacts DEF TypeOK
<1>2. DOMAIN p = 1 .. Len(p)
  BY <1>1, LenProperties DEF Lawful
<1>3. at[c] \in 1 .. Len(p) + 1
  <2>1. at[c] \in 1 .. 10 /\ at[c] <= Len(p) + 1
    BY DEF TypeOK
  <2>2. ASSUME NEW n \in 0 .. 9, NEW a \in 1 .. 10, a <= n + 1 PROVE a \in 1 .. n + 1
    BY <2>2
  <2> QED
    BY <1>1, <2>1, <2>2
<1>4. \A o : Does(c, o, s) => at[c] \in 1 .. Len(p) /\ p[at[c]] = Step(o, s)
  BY <1>2 DEF Does
<1> HIDE DEF p, H
<1>5. H[1] = {} /\ H[Len(p) + 1] = {} /\ H[at[c]] \subseteq Stores
  BY <1>1, <1>3 DEF Lawful
<1>6. /\ Does(c, "lock", s) => /\ s \notin H[at[c]] /\ H[at[c] + 1] = H[at[c]] \cup {s}
                               /\ at[c] + 1 \in 1 .. Len(p) /\ p[at[c] + 1] = Step("save", s)
      /\ Does(c, "save", s) => s \in H[at[c]] /\ H[at[c] + 1] = H[at[c]]
      /\ Does(c, "unlock", s) => s \in H[at[c]] /\ H[at[c] + 1] = H[at[c]] \ {s}
  BY <1>1, <1>4 DEF Lawful
<1> QED
  BY <1>1, <1>4, <1>5, <1>6 DEF Holds, p, H

\* Two calls never hold the same lock.
LEMMA OneHolder ==
  ASSUME Exclusion, NEW c \in Calls, NEW d \in Calls, NEW s \in Holds(c), s \in Holds(d)
  PROVE  c = d
  BY DEF Exclusion

LEMMA LockInit == Init => LockInv
<1> SUFFICES ASSUME Init PROVE LockInv
  OBVIOUS
<1>1. TypeOK
  <2>1. plan \in [Calls -> Plans]
    BY MixesAssumption DEF Init
  <2>2. \A c \in Calls : 1 <= Len(plan[c]) + 1
    BY <2>1, PlanFacts
  <2> QED
    BY <2>1, <2>2 DEF Init, TypeOK, Stages
<1>2. InStep
  BY DEF Init, InStep
<1>3. \A c \in Calls : Holds(c) = {}
  BY <1>1, PlanFacts DEF Init, Holds, TypeOK, Lawful
<1>4. Exclusion
  BY <1>3 DEF Init, Exclusion
<1> QED
  BY <1>1, <1>2, <1>4 DEF LockInv

\* When a call leaves a chain, the others stay in it, and another holder stays its head.
LEMMA WithoutFacts ==
  ASSUME NEW q \in Seq(Calls), NEW c \in Calls
  PROVE  /\ Without(q, c) \in Seq(Calls)
         /\ \A d \in Calls \ {c} :
              /\ q # <<>> /\ Head(q) = d => Without(q, c) = q
              /\ (\E i \in 1 .. Len(q) : q[i] = d) => \E j \in 1 .. Len(Without(q, c)) : Without(q, c)[j] = d
<1>1. CASE q # <<>> /\ Head(q) = c
  <2>1. /\ Tail(q) \in Seq(Calls) /\ Len(Tail(q)) = Len(q) - 1 /\ Len(q) \in Nat
        /\ \A i \in 1 .. Len(q) - 1 : Tail(q)[i] = q[i + 1]
        /\ Head(q) = q[1]
    BY <1>1
  <2>2. ASSUME NEW d \in Calls \ {c}, NEW i \in 1 .. Len(q), q[i] = d
        PROVE  \E j \in 1 .. Len(Tail(q)) : Tail(q)[j] = d
    <3>1. i # 1
      BY <1>1, <2>1, <2>2
    <3>2. i - 1 \in 1 .. Len(q) - 1 /\ (i - 1) + 1 = i
      BY <2>1, <3>1
    <3>3. Tail(q)[i - 1] = d
      BY <2>1, <2>2, <3>2
    <3> QED
      BY <2>1, <3>2, <3>3
  <2> QED
    BY <1>1, <2>1, <2>2 DEF Without
<1>2. CASE ~(q # <<>> /\ Head(q) = c)
  BY <1>2 DEF Without
<1> QED
  BY <1>1, <1>2

\* An enqueued call waits behind the others.
LEMMA EnqueueKeeps ==
  ASSUME LockInv, NEW c \in Calls, NEW s \in Stores, Enqueue(c, s)
  PROVE  LockInv'
<1> USE DEF LockInv
<1>1. /\ plan' = plan /\ at' = at
      /\ stage' = [stage EXCEPT ![c] = "read"]
      /\ queue' = [queue EXCEPT ![s] = Append(@, c)]
  BY DEF Enqueue
<1>2. queue[s] \in Seq(Calls)
  BY DEF TypeOK
<1>3. /\ Append(queue[s], c) \in Seq(Calls) /\ Len(Append(queue[s], c)) = Len(queue[s]) + 1
      /\ Len(queue[s]) \in Nat
      /\ \A i \in 1 .. Len(queue[s]) : Append(queue[s], c)[i] = queue[s][i]
      /\ Append(queue[s], c)[Len(queue[s]) + 1] = c
      /\ Append(queue[s], c) # <<>>
      /\ queue[s] # <<>> => Head(Append(queue[s], c)) = Head(queue[s])
  BY <1>2
<1>4. TypeOK'
  BY <1>1, <1>3 DEF TypeOK, Stages
<1>5. InStep'
  BY <1>1 DEF InStep, Does, Enqueue, TypeOK
<1>6. ASSUME NEW d \in Calls, NEW t \in Stores, t \in Holds(d)' PROVE queue'[t] # <<>> /\ Head(queue'[t]) = d
  <2>1. t \in Holds(d) /\ queue[t] # <<>> /\ Head(queue[t]) = d
    BY <1>1, <1>6 DEF Holds, Exclusion
  <2> QED
    BY <2>1, <1>1, <1>3 DEF TypeOK
<1>7. ASSUME NEW d \in Calls, NEW t \in Stores, Does(d, "lock", t)', stage'[d] = "read"
      PROVE  \E i \in 1 .. Len(queue'[t]) : queue'[t][i] = d
  <2>1. Does(d, "lock", t)
    BY <1>1, <1>7 DEF Does
  <2>2. CASE d = c
    <3>1. t = s
      BY <2>1, <2>2 DEF Does, Enqueue, Step
    <3>2. queue'[t] = Append(queue[s], c) /\ Len(queue[s]) + 1 \in 1 .. Len(queue'[t])
      BY <3>1, <1>1, <1>3 DEF TypeOK
    <3> QED
      BY <3>2, <1>3, <2>2
  <2>3. CASE d # c
    <3>1. stage[d] = "read"
      BY <1>1, <1>7, <2>3 DEF TypeOK
    <3>2. PICK i \in 1 .. Len(queue[t]) : queue[t][i] = d
      BY <2>1, <3>1 DEF Exclusion
    <3>3. i \in 1 .. Len(queue'[t]) /\ queue'[t][i] = d
      BY <3>2, <1>1, <1>3 DEF TypeOK
    <3> QED
      BY <3>3
  <2> QED
    BY <2>2, <2>3
<1>8. \A d \in Calls : Holds(d)' \subseteq Stores
  BY <1>4, StepLocks, <1>1 DEF Holds, Stores
<1> QED
  BY <1>4, <1>5, <1>6, <1>7, <1>8 DEF Exclusion

\* A call enters the section when it heads the chain: nobody else is in it.
LEMMA AcquireKeeps ==
  ASSUME LockInv, NEW c \in Calls, NEW s \in Stores, Acquire(c, s), MayEnter(c, s)
  PROVE  LockInv'
<1> USE DEF LockInv
<1>1. /\ plan' = plan /\ at' = [at EXCEPT ![c] = @ + 1]
      /\ stage' = stage /\ queue' = queue
      /\ Does(c, "lock", s) /\ stage[c] = "read"
  BY DEF Acquire
<1>2. /\ s \notin Holds(c) /\ Held(plan[c])[at[c] + 1] = Holds(c) \cup {s}
      /\ Len(plan[c]) \in 0 .. 9
      /\ at[c] \in 1 .. Len(plan[c])
      /\ at[c] + 1 \in 1 .. Len(plan[c]) /\ plan[c][at[c] + 1] = Step("save", s)
  BY <1>1, StepLocks
<1>3. /\ at'[c] = at[c] + 1 /\ \A d \in Calls \ {c} : at'[d] = at[d]
      /\ at' \in [Calls -> 1 .. 10] /\ \A d \in Calls : at'[d] <= Len(plan[d]) + 1
  <2>1. at[c] + 1 \in 1 .. 10 /\ at[c] + 1 <= Len(plan[c]) + 1
    BY <1>2
  <2> QED
    BY <1>1, <2>1 DEF TypeOK
<1>4. TypeOK'
  BY <1>1, <1>3 DEF TypeOK
<1>5. Does(c, "save", s)'
  <2>1. DOMAIN plan[c] = 1 .. Len(plan[c])
    BY PlanFacts, LenProperties DEF TypeOK, Lawful
  <2> QED
    BY <1>1, <1>2, <1>3, <2>1 DEF Does
<1>6. InStep'
  BY <1>1, <1>3, <1>5 DEF InStep, Does
<1>7. ASSUME NEW d \in Calls, NEW t \in Holds(d)' PROVE queue'[t] # <<>> /\ Head(queue'[t]) = d
  <2>1. CASE d = c /\ t = s
    <3>1. \E i \in 1 .. Len(queue[s]) : queue[s][i] = c
      BY <1>1 DEF Exclusion
    <3>2. queue[s] # <<>>
      BY <3>1 DEF TypeOK
    <3> QED
      BY <2>1, <3>2, <1>1 DEF MayEnter
  <2>2. CASE ~(d = c /\ t = s)
    <3>1. t \in Holds(d)
      BY <2>2, <1>1, <1>2, <1>3, <1>7 DEF Holds
    <3> QED
      BY <3>1, <1>1 DEF Exclusion
  <2> QED
    BY <2>1, <2>2
<1>8. ASSUME NEW d \in Calls, NEW t \in Stores, Does(d, "lock", t)', stage'[d] = "read"
      PROVE  \E i \in 1 .. Len(queue'[t]) : queue'[t][i] = d
  <2>1. d # c
    BY <1>5, <1>8, StepFacts DEF Does, Step
  <2> QED
    BY <2>1, <1>1, <1>3, <1>8 DEF Exclusion, Does
<1> QED
  BY <1>4, <1>6, <1>7, <1>8 DEF Exclusion

\* The steps of a save before its end take no lock and give none back.
LEMMA SaveStageKeeps ==
  ASSUME LockInv, NEW c \in Calls, NEW s \in Stores, Does(c, "save", s), NEW x \in Stages,
         stage' = [stage EXCEPT ![c] = x], UNCHANGED <<plan, at, queue>>
  PROVE  LockInv'
<1> USE DEF LockInv
<1>1. TypeOK'
  BY DEF TypeOK
<1>2. InStep'
  BY DEF InStep, TypeOK, Does
<1>3. \A d \in Calls : Holds(d)' = Holds(d)
  BY DEF Holds
<1>4. ASSUME NEW d \in Calls, NEW t \in Stores, Does(d, "lock", t)', stage'[d] = "read"
      PROVE  \E i \in 1 .. Len(queue'[t]) : queue'[t][i] = d
  <2>1. Does(d, "lock", t)
    BY <1>4 DEF Does
  <2>2. d # c
    BY <2>1 DEF Does, Step
  <2> QED
    BY <2>1, <2>2, <1>4 DEF Exclusion, TypeOK
<1> QED
  BY <1>1, <1>2, <1>3, <1>4 DEF Exclusion

\* After a step that is not to take a lock the call is at the next one, not begun.
LEMMA StepsOn ==
  ASSUME LockInv, NEW c \in Calls, NEW s \in Stores, Does(c, "save", s) \/ Does(c, "unlock", s),
         at' = [at EXCEPT ![c] = @ + 1], stage' = [stage EXCEPT ![c] = "queued"],
         plan' = plan, queue' \in [Stores -> Seq(Calls)]
  PROVE  TypeOK' /\ InStep'
<1> USE DEF LockInv
<1>1. at[c] \in 1 .. Len(plan[c]) /\ Len(plan[c]) \in 0 .. 9
  BY StepLocks
<1>2. ASSUME NEW n \in 0 .. 9, NEW a \in 1 .. n PROVE a + 1 \in 1 .. 10 /\ a + 1 <= n + 1
  OBVIOUS
<1>3. at[c] + 1 \in 1 .. 10 /\ at[c] + 1 <= Len(plan[c]) + 1
  BY <1>1, <1>2
<1>4. TypeOK'
  BY <1>3 DEF TypeOK, Stages
<1>5. InStep'
  BY DEF InStep, TypeOK, Does
<1> QED
  BY <1>4, <1>5

\* The end of a save.
LEMMA SaveEndKeeps ==
  ASSUME LockInv, NEW c \in Calls, NEW s \in Stores, Does(c, "save", s),
         at' = [at EXCEPT ![c] = @ + 1], stage' = [stage EXCEPT ![c] = "queued"],
         UNCHANGED <<plan, queue>>
  PROVE  LockInv'
<1> USE DEF LockInv
<1>1. TypeOK' /\ InStep'
  BY StepsOn DEF TypeOK
<1>2. Held(plan[c])[at[c] + 1] = Holds(c)
  BY StepLocks
<1>3. \A d \in Calls : Holds(d)' = Holds(d)
  BY <1>2 DEF Holds, TypeOK
<1>4. ASSUME NEW d \in Calls, NEW t \in Stores, Does(d, "lock", t)', stage'[d] = "read"
      PROVE  Does(d, "lock", t) /\ stage[d] = "read"
  BY <1>4 DEF Does, TypeOK
<1> QED
  BY <1>1, <1>3, <1>4 DEF Exclusion

\* The next in the chain takes over only the lock that is given back.
LEMMA ReleaseKeeps ==
  ASSUME LockInv, NEW c \in Calls, NEW s \in Stores, Release(c, s)
  PROVE  LockInv'
<1> USE DEF LockInv
<1>1. /\ Does(c, "unlock", s) /\ plan' = plan
      /\ at' = [at EXCEPT ![c] = @ + 1] /\ stage' = [stage EXCEPT ![c] = "queued"]
      /\ queue' = [queue EXCEPT ![s] = Without(@, c)]
  BY DEF Release
<1>2. queue[s] \in Seq(Calls) /\ Without(queue[s], c) \in Seq(Calls)
  BY WithoutFacts DEF TypeOK
<1>3. queue' \in [Stores -> Seq(Calls)]
  BY <1>1, <1>2 DEF TypeOK
<1>4. TypeOK' /\ InStep'
  BY <1>1, <1>3, StepsOn
<1>5. s \in Holds(c) /\ Held(plan[c])[at[c] + 1] = Holds(c) \ {s}
  BY <1>1, StepLocks
<1>6. Holds(c)' = Holds(c) \ {s} /\ \A d \in Calls \ {c} : Holds(d)' = Holds(d)
  BY <1>1, <1>5 DEF Holds, TypeOK
<1>7. \A d \in Calls : Holds(d) \subseteq Stores
  BY StepLocks, <1>1
<1>8. ASSUME NEW d \in Calls, NEW t \in Holds(d)' PROVE queue'[t] # <<>> /\ Head(queue'[t]) = d
  <2>1. t \in Holds(d) /\ t \in Stores
    BY <1>6, <1>7
  <2>2. t # s
    BY <2>1, <1>5, <1>6, OneHolder
  <2> QED
    BY <2>1, <2>2, <1>1 DEF Exclusion, TypeOK
<1>9. ASSUME NEW d \in Calls, NEW t \in Stores, Does(d, "lock", t)', stage'[d] = "read"
      PROVE  \E i \in 1 .. Len(queue'[t]) : queue'[t][i] = d
  <2>1. d # c
    BY <1>1, <1>9 DEF TypeOK
  <2>2. Does(d, "lock", t) /\ stage[d] = "read"
    BY <2>1, <1>1, <1>9 DEF Does, TypeOK
  <2>3. \E i \in 1 .. Len(queue[t]) : queue[t][i] = d
    BY <2>2 DEF Exclusion
  <2>4. CASE t = s
    <3>1. queue'[t] = Without(queue[s], c)
      BY <2>4, <1>1 DEF TypeOK
    <3>2. (\E i \in 1 .. Len(queue[s]) : queue[s][i] = d)
          => \E j \in 1 .. Len(Without(queue[s], c)) : Without(queue[s], c)[j] = d
      BY <2>1, <1>2, WithoutFacts, Zenon
    <3> QED
      BY <3>1, <3>2, <2>3, <2>4, Zenon
  <2>5. CASE t # s
    BY <2>3, <2>5, <1>1 DEF TypeOK
  <2> QED
    BY <2>4, <2>5
<1> QED
  BY <1>4, <1>8, <1>9 DEF Exclusion

\* A call that fails gives back every lock it holds.
LEMMA FailKeeps ==
  ASSUME LockInv, NEW c \in Calls, Fail(c)
  PROVE  LockInv'
<1> USE DEF LockInv
<1>1. /\ plan' = plan /\ at' = [at EXCEPT ![c] = Len(plan[c]) + 1]
      /\ stage' = [stage EXCEPT ![c] = "queued"]
      /\ queue' = [t \in Stores |-> Without(queue[t], c)]
  BY DEF Fail, Unwound
<1>2. Lawful(plan[c], Held(plan[c])) /\ Len(plan[c]) \in 0 .. 9
  BY PlanFacts DEF TypeOK
<1>3. \A t \in Stores : queue[t] \in Seq(Calls) /\ Without(queue[t], c) \in Seq(Calls)
  BY WithoutFacts DEF TypeOK
<1>4. TypeOK'
  <2>1. ASSUME NEW n \in 0 .. 9 PROVE n + 1 \in 1 .. 10 /\ n + 1 <= n + 1
    OBVIOUS
  <2>2. Len(plan[c]) + 1 \in 1 .. 10 /\ Len(plan[c]) + 1 <= Len(plan[c]) + 1
    BY <2>1, <1>2
  <2> QED
    BY <2>2, <1>1, <1>3 DEF TypeOK, Stages
<1>5. InStep'
  BY <1>1 DEF InStep, TypeOK, Does
<1>6. Holds(c)' = {} /\ \A d \in Calls \ {c} : Holds(d)' = Holds(d)
  BY <1>1, <1>2 DEF Holds, TypeOK, Lawful
<1>7. ASSUME NEW d \in Calls, NEW t \in Holds(d)' PROVE queue'[t] # <<>> /\ Head(queue'[t]) = d
  <2>1. d # c /\ t \in Holds(d)
    BY <1>6
  <2>2. t \in Stores
    <3>1. "task" \in Stores
      BY DEF Stores
    <3> QED
      BY <3>1, <2>1, StepLocks
  <2>3. queue[t] # <<>> /\ Head(queue[t]) = d
    BY <2>1 DEF Exclusion
  <2>4. Without(queue[t], c) = queue[t]
    BY <2>1, <2>2, <2>3, <1>3, WithoutFacts
  <2> QED
    BY <2>2, <2>3, <2>4, <1>1
<1>8. ASSUME NEW d \in Calls, NEW t \in Stores, Does(d, "lock", t)', stage'[d] = "read"
      PROVE  \E i \in 1 .. Len(queue'[t]) : queue'[t][i] = d
  <2>1. d # c
    BY <1>1, <1>8 DEF TypeOK
  <2>2. Does(d, "lock", t) /\ stage[d] = "read"
    BY <2>1, <1>1, <1>8 DEF Does, TypeOK
  <2>3. \E i \in 1 .. Len(queue[t]) : queue[t][i] = d
    BY <2>2 DEF Exclusion
  <2>4. queue[t] \in Seq(Calls) /\ queue'[t] = Without(queue[t], c)
    BY <1>1, <1>3
  <2>5. (\E i \in 1 .. Len(queue[t]) : queue[t][i] = d)
        => \E j \in 1 .. Len(Without(queue[t], c)) : Without(queue[t], c)[j] = d
    BY <2>1, <2>4, WithoutFacts, Zenon
  <2> QED
    BY <2>3, <2>4, <2>5, Zenon
<1> QED
  BY <1>4, <1>5, <1>7, <1>8 DEF Exclusion

\* After a death nobody holds a lock or waits for one.
LEMMA DiesKeeps ==
  ASSUME LockInv, Dies, plan' = plan
  PROVE  LockInv'
<1> USE DEF LockInv
<1>1. /\ at' = [c \in Calls |-> IF Begun(c) THEN Len(plan[c]) + 1 ELSE 1]
      /\ stage' = [c \in Calls |-> "queued"]
      /\ queue' = [t \in Stores |-> <<>>]
  BY DEF Dies
<1>2. ASSUME NEW c \in Calls
      PROVE  at'[c] \in 1 .. 10 /\ at'[c] <= Len(plan[c]) + 1 /\ Holds(c)' = {}
  <2>1. Lawful(plan[c], Held(plan[c])) /\ Len(plan[c]) \in 0 .. 9
    BY PlanFacts DEF TypeOK
  <2>2. ASSUME NEW n \in 0 .. 9 PROVE n + 1 \in 1 .. 10 /\ n + 1 <= n + 1 /\ 1 <= n + 1
    OBVIOUS
  <2>3. at'[c] = Len(plan[c]) + 1 \/ at'[c] = 1
    BY <1>1
  <2>4. Held(plan[c])[1] = {} /\ Held(plan[c])[Len(plan[c]) + 1] = {}
    BY <2>1 DEF Lawful
  <2>5. Holds(c)' = {}
    BY <2>3, <2>4 DEF Holds
  <2>6. Len(plan[c]) + 1 \in 1 .. 10 /\ Len(plan[c]) + 1 <= Len(plan[c]) + 1 /\ 1 <= Len(plan[c]) + 1
    BY <2>1, <2>2
  <2> QED
    BY <2>3, <2>5, <2>6
<1>3. TypeOK'
  <2>1. at' \in [Calls -> 1 .. 10] /\ \A c \in Calls : at'[c] <= Len(plan[c]) + 1
    BY <1>1, <1>2
  <2> QED
    BY <2>1, <1>1 DEF TypeOK, Stages
<1>4. InStep'
  BY <1>1 DEF InStep
<1>5. Exclusion'
  BY <1>1, <1>2 DEF Exclusion
<1> QED
  BY <1>3, <1>4, <1>5

LEMMA LockStep == LockInv /\ [Next]_vars => LockInv'
<1> SUFFICES ASSUME LockInv, [Next]_vars PROVE LockInv'
  OBVIOUS
<1>1. ASSUME NEW c \in Calls, NEW s \in Stores, Enqueue(c, s) PROVE LockInv'
  BY <1>1, EnqueueKeeps
<1>2. ASSUME NEW c \in Calls, NEW s \in Stores, Acquire(c, s) PROVE LockInv'
  BY <1>2, AcquireKeeps DEF Acquire
<1>3. ASSUME NEW c \in Calls, NEW s \in Stores, Release(c, s) PROVE LockInv'
  BY <1>3, ReleaseKeeps
<1>4. ASSUME NEW c \in Calls, NEW s \in Stores, Read(c, s) \/ WriteTemp(c, s) \/ Rename(c, s) PROVE LockInv'
  BY <1>4, SaveStageKeeps DEF Read, WriteTemp, Rename, Stages
<1>5. ASSUME NEW c \in Calls, NEW s \in Stores, WriteNothing(c, s) \/ FlushDirectory(c, s) PROVE LockInv'
  BY <1>5, SaveEndKeeps DEF WriteNothing, FlushDirectory
<1>6. ASSUME NEW c \in Calls, Fail(c) PROVE LockInv'
  BY <1>6, FailKeeps
<1>7. CASE Killed \/ PowerLoss
  BY <1>7, DiesKeeps DEF Killed, PowerLoss
<1>8. CASE UNCHANGED vars
  BY <1>8 DEF vars, LockInv, TypeOK, InStep, Exclusion, Holds, Does
<1> QED
  BY <1>1, <1>2, <1>3, <1>4, <1>5, <1>6, <1>7, <1>8 DEF Next, Works

-----------------------------------------------------------------------------
(* The documents *)

DataType ==
  /\ visible \in [Stores -> SUBSET Updates]
  /\ surviving \in [Stores -> SUBSET SUBSET Updates]
  /\ told \in [Stores -> SUBSET Updates]
  /\ copy \in [Calls -> SUBSET Updates]
  /\ syncing \in BOOLEAN

\* A document holds no update of a step its call has not come to.
Fresh ==
  \A s \in Stores, c \in Calls, i \in 1 .. 9 :
    <<c, i>> \in visible[s] => i < at[c] \/ (i = at[c] /\ stage[c] = "flush")

\* What is about to be written is the document as it is, with the update.
CopyFresh ==
  \A c \in Calls, s \in Stores :
    Does(c, "save", s) =>
      /\ stage[c] \in {"temp", "rename"} => copy[c] = visible[s] \cup {<<c, at[c]>>}
      /\ stage[c] = "flush" => <<c, at[c]>> \in visible[s]

\* A power loss leaves an earlier document, and with flushed directories one that holds
\* all updates whose writers were told.
Survival ==
  \A s \in Stores :
    /\ visible[s] \in surviving[s]
    /\ \A d \in surviving[s] : d \subseteq visible[s] /\ (syncing => told[s] \subseteq d)

DataInv == DataType /\ Fresh /\ CopyFresh /\ Survival

Inv == LockInv /\ DataInv

\* Where a call saves, it alone may: the store is one, and the lock is its own.
LEMMA OneSaver ==
  ASSUME LockInv, NEW c \in Calls, NEW s \in Stores, Does(c, "save", s)
  PROVE  /\ \A t \in Stores : Does(c, "save", t) => t = s
         /\ \A d \in Calls : Does(d, "save", s) => d = c
         /\ at[c] \in 1 .. 9 /\ <<c, at[c]>> \in Updates
         /\ at[c] < Len(plan[c]) + 1
<1>1. \A t \in Stores : Does(c, "save", t) => t = s
  BY DEF Does, Step
<1>2. ASSUME NEW d \in Calls, Does(d, "save", s) PROVE d = c
  <2>1. s \in Holds(c) /\ s \in Holds(d)
    BY <1>2, StepLocks DEF LockInv
  <2> QED
    BY <2>1, OneHolder DEF LockInv
<1>3. at[c] \in 1 .. Len(plan[c]) /\ Len(plan[c]) \in 0 .. 9
  BY StepLocks DEF LockInv
<1>4. ASSUME NEW n \in 0 .. 9, NEW a \in 1 .. n PROVE a \in 1 .. 9 /\ a < n + 1
  OBVIOUS
<1>5. at[c] \in 1 .. 9 /\ at[c] < Len(plan[c]) + 1
  BY <1>3, <1>4
<1> QED
  BY <1>1, <1>2, <1>5 DEF Updates

LEMMA DataInit == Init => DataInv
<1> SUFFICES ASSUME Init PROVE DataInv
  OBVIOUS
<1>1. DataType
  BY DEF Init, DataType
<1> QED
  BY <1>1 DEF Init, DataInv, Fresh, CopyFresh, Survival

LEMMA AtNat ==
  ASSUME Inv, NEW c \in Calls
  PROVE  at[c] \in Nat
<1>1. at[c] \in 1 .. 10
  BY DEF Inv, LockInv, TypeOK
<1> QED
  BY <1>1

\* Steps that leave the files alone: the call waits, reads, or moves on.
LEMMA IdleKeeps ==
  ASSUME Inv, NEW c \in Calls, UNCHANGED files, plan' = plan,
         copy' \in [Calls -> SUBSET Updates],
         \A d \in Calls \ {c} : at'[d] = at[d] /\ stage'[d] = stage[d] /\ copy'[d] = copy[d],
         at[c] < at'[c] \/ (at'[c] = at[c] /\ stage[c] # "flush"), at'[c] \in Nat,
         stage'[c] \in {"queued", "read"}
  PROVE  DataInv'
<1> USE DEF Inv, DataInv
<1>1. UNCHANGED <<visible, surviving, told, syncing>>
  BY DEF files
<1>2. DataType' /\ Survival'
  BY <1>1 DEF DataType, Survival
<1>3. Fresh'
  <2> SUFFICES ASSUME NEW s \in Stores, NEW d \in Calls, NEW i \in 1 .. 9, <<d, i>> \in visible[s]
               PROVE  i < at'[d] \/ (i = at'[d] /\ stage'[d] = "flush")
    BY <1>1 DEF Fresh
  <2>1. i < at[d] \/ (i = at[d] /\ stage[d] = "flush")
    BY DEF Fresh
  <2>2. CASE d = c
    <3>1. at[c] \in Nat
      BY AtNat
    <3> QED
      BY <2>1, <2>2, <3>1
  <2>3. CASE d # c
    BY <2>1, <2>3
  <2> QED
    BY <2>2, <2>3
<1>4. CopyFresh'
  <2> SUFFICES ASSUME NEW d \in Calls, NEW s \in Stores, Does(d, "save", s)'
               PROVE  /\ stage'[d] \in {"temp", "rename"} => copy'[d] = visible'[s] \cup {<<d, at'[d]>>}
                      /\ stage'[d] = "flush" => <<d, at'[d]>> \in visible'[s]
    BY DEF CopyFresh
  <2>1. CASE d = c
    BY <2>1
  <2>2. CASE d # c
    <3>1. Does(d, "save", s)
      BY <2>2 DEF Does
    <3> QED
      BY <2>2, <3>1, <1>1 DEF CopyFresh
  <2> QED
    BY <2>1, <2>2
<1> QED
  BY <1>2, <1>3, <1>4

LEMMA ReadKeeps ==
  ASSUME Inv, NEW c \in Calls, NEW s \in Stores, Read(c, s) \/ WriteTemp(c, s)
  PROVE  DataInv'
<1> USE DEF Inv, DataInv
<1>1. /\ Does(c, "save", s) /\ UNCHANGED <<plan, at, visible, surviving, told, syncing>>
      /\ \A d \in Calls \ {c} : stage'[d] = stage[d] /\ copy'[d] = copy[d]
      /\ stage'[c] \in {"temp", "rename"} /\ stage[c] # "flush"
      /\ copy'[c] = visible[s] \cup {<<c, at[c]>>}
      /\ copy' \in [Calls -> SUBSET Updates]
  <2>1. CASE Read(c, s)
    <3>1. <<c, at[c]>> \in Updates
      BY <2>1, OneSaver DEF Read
    <3>2. visible[s] \cup {<<c, at[c]>>} \in SUBSET Updates
      BY <3>1 DEF DataType
    <3> QED
      BY <2>1, <3>2 DEF Read, files, DataType, LockInv, TypeOK
  <2>2. CASE WriteTemp(c, s)
    BY <2>2 DEF WriteTemp, files, DataType, LockInv, TypeOK, CopyFresh
  <2> QED
    BY <2>1, <2>2
<1>2. DataType' /\ Survival'
  BY <1>1 DEF DataType, Survival
<1>3. Fresh'
  BY <1>1 DEF Fresh
<1>4. CopyFresh'
  <2> SUFFICES ASSUME NEW d \in Calls, NEW t \in Stores, Does(d, "save", t)'
               PROVE  /\ stage'[d] \in {"temp", "rename"} => copy'[d] = visible[t] \cup {<<d, at[d]>>}
                      /\ stage'[d] = "flush" => <<d, at[d]>> \in visible[t]
    BY <1>1 DEF CopyFresh
  <2>1. Does(d, "save", t)
    BY <1>1 DEF Does
  <2>2. CASE d = c
    BY <2>1, <2>2, <1>1, OneSaver
  <2>3. CASE d # c
    BY <2>1, <2>3, <1>1 DEF CopyFresh
  <2> QED
    BY <2>2, <2>3
<1> QED
  BY <1>2, <1>3, <1>4

\* The rename adds one update to the document, and takes none away.
LEMMA RenameFacts ==
  ASSUME Inv, NEW c \in Calls, NEW s \in Stores, Rename(c, s)
  PROVE  /\ Does(c, "save", s) /\ <<c, at[c]>> \in Updates /\ <<c, at[c]>> \notin visible[s]
         /\ visible' = [visible EXCEPT ![s] = @ \cup {<<c, at[c]>>}]
         /\ surviving' = [surviving EXCEPT ![s] = @ \cup {visible[s] \cup {<<c, at[c]>>}}]
         /\ stage' = [stage EXCEPT ![c] = "flush"]
         /\ UNCHANGED <<plan, at, copy, told, syncing>>
<1> USE DEF Inv, DataInv
<1>1. Does(c, "save", s) /\ stage[c] = "rename"
  BY DEF Rename
<1>2. at[c] \in 1 .. 9 /\ <<c, at[c]>> \in Updates
  BY <1>1, OneSaver
<1>3. copy[c] = visible[s] \cup {<<c, at[c]>>}
  BY <1>1 DEF CopyFresh
<1>4. <<c, at[c]>> \notin visible[s]
  <2>1. <<c, at[c]>> \in visible[s] => at[c] < at[c] \/ stage[c] = "flush"
    BY <1>2 DEF Fresh
  <2>2. ~(at[c] < at[c])
    BY <1>2
  <2> QED
    BY <2>1, <2>2, <1>1
<1> QED
  BY <1>1, <1>2, <1>3, <1>4 DEF Rename, OnDisk

LEMMA RenameKeeps ==
  ASSUME Inv, NEW c \in Calls, NEW s \in Stores, Rename(c, s)
  PROVE  DataInv'
<1> USE DEF Inv, DataInv
<1> DEFINE u == <<c, at[c]>>
<1>1. /\ Does(c, "save", s) /\ u \in Updates /\ u \notin visible[s]
      /\ visible' = [visible EXCEPT ![s] = @ \cup {u}]
      /\ surviving' = [surviving EXCEPT ![s] = @ \cup {visible[s] \cup {u}}]
      /\ stage' = [stage EXCEPT ![c] = "flush"]
      /\ UNCHANGED <<plan, at, copy, told, syncing>>
  BY RenameFacts
<1>2. DataType'
  BY <1>1 DEF DataType
<1>3. /\ visible'[s] = visible[s] \cup {u} /\ surviving'[s] = surviving[s] \cup {visible[s] \cup {u}}
      /\ \A t \in Stores \ {s} : visible'[t] = visible[t] /\ surviving'[t] = surviving[t]
      /\ stage'[c] = "flush" /\ \A d \in Calls \ {c} : stage'[d] = stage[d]
  BY <1>1 DEF DataType, LockInv, TypeOK
<1>4. Fresh'
  <2> SUFFICES ASSUME NEW t \in Stores, NEW d \in Calls, NEW i \in 1 .. 9, <<d, i>> \in visible'[t]
               PROVE  i < at[d] \/ (i = at[d] /\ stage'[d] = "flush")
    BY <1>1 DEF Fresh
  <2>1. CASE <<d, i>> = u
    BY <2>1, <1>3
  <2>2. CASE <<d, i>> # u
    <3>1. <<d, i>> \in visible[t]
      BY <2>2, <1>3
    <3>2. i < at[d] \/ (i = at[d] /\ stage[d] = "flush")
      BY <3>1 DEF Fresh
    <3> QED
      BY <3>2, <1>3
  <2> QED
    BY <2>1, <2>2
<1>5. CopyFresh'
  <2> SUFFICES ASSUME NEW d \in Calls, NEW t \in Stores, Does(d, "save", t)'
               PROVE  /\ stage'[d] \in {"temp", "rename"} => copy[d] = visible'[t] \cup {<<d, at[d]>>}
                      /\ stage'[d] = "flush" => <<d, at[d]>> \in visible'[t]
    BY <1>1 DEF CopyFresh
  <2>1. Does(d, "save", t)
    BY <1>1 DEF Does
  <2>2. CASE d = c
    <3>1. t = s
      BY <2>1, <2>2, <1>1, OneSaver
    <3> QED
      BY <2>2, <3>1, <1>3
  <2>3. CASE d # c
    <3>1. t # s
      BY <2>1, <2>3, <1>1, OneSaver
    <3> QED
      BY <2>1, <2>3, <3>1, <1>3 DEF CopyFresh
  <2> QED
    BY <2>2, <2>3
<1>6. Survival'
  <2> SUFFICES ASSUME NEW t \in Stores
               PROVE  /\ visible'[t] \in surviving'[t]
                      /\ \A d \in surviving'[t] : d \subseteq visible'[t] /\ (syncing => told[t] \subseteq d)
    BY <1>1 DEF Survival
  <2>1. CASE t = s
    BY <2>1, <1>3 DEF Survival
  <2>2. CASE t # s
    BY <2>2, <1>3 DEF Survival
  <2> QED
    BY <2>1, <2>2
<1> QED
  BY <1>2, <1>4, <1>5, <1>6

\* The flush makes the document, the new update included, the one that survives.
LEMMA FlushFacts ==
  ASSUME Inv, NEW c \in Calls, NEW s \in Stores, FlushDirectory(c, s)
  PROVE  /\ Does(c, "save", s) /\ stage[c] = "flush" /\ <<c, at[c]>> \in Updates /\ <<c, at[c]>> \in visible[s]
         /\ surviving' = [surviving EXCEPT ![s] = IF syncing THEN {visible[s]} ELSE @]
         /\ told' = [told EXCEPT ![s] = @ \cup {<<c, at[c]>>}]
         /\ at' = [at EXCEPT ![c] = @ + 1] /\ stage' = [stage EXCEPT ![c] = "queued"]
         /\ copy' = [copy EXCEPT ![c] = {}]
         /\ UNCHANGED <<plan, visible, syncing>>
<1> USE DEF Inv, DataInv
<1>1. Does(c, "save", s) /\ stage[c] = "flush"
  BY DEF FlushDirectory
<1>2. <<c, at[c]>> \in Updates /\ <<c, at[c]>> \in visible[s]
  BY <1>1, OneSaver DEF CopyFresh
<1>3. AfterFlush(s) = IF syncing THEN {visible[s]} ELSE surviving[s]
  BY DEF AfterFlush, OnDisk
<1>4. surviving' = [surviving EXCEPT ![s] = IF syncing THEN {visible[s]} ELSE @]
  BY <1>3 DEF FlushDirectory
<1> QED
  BY <1>1, <1>2, <1>4 DEF FlushDirectory

LEMMA FlushKeeps ==
  ASSUME Inv, NEW c \in Calls, NEW s \in Stores, FlushDirectory(c, s)
  PROVE  DataInv'
<1> USE DEF Inv, DataInv
<1> DEFINE u == <<c, at[c]>>
<1>1. /\ Does(c, "save", s) /\ stage[c] = "flush" /\ u \in Updates /\ u \in visible[s]
      /\ surviving' = [surviving EXCEPT ![s] = IF syncing THEN {visible[s]} ELSE @]
      /\ told' = [told EXCEPT ![s] = @ \cup {u}]
      /\ at' = [at EXCEPT ![c] = @ + 1] /\ stage' = [stage EXCEPT ![c] = "queued"]
      /\ copy' = [copy EXCEPT ![c] = {}]
      /\ UNCHANGED <<plan, visible, syncing>>
  BY FlushFacts
<1>2. /\ surviving'[s] = IF syncing THEN {visible[s]} ELSE surviving[s]
      /\ told'[s] = told[s] \cup {u}
      /\ \A t \in Stores \ {s} : told'[t] = told[t] /\ surviving'[t] = surviving[t]
      /\ at'[c] = at[c] + 1 /\ stage'[c] = "queued" /\ at[c] \in Nat
      /\ \A d \in Calls \ {c} : at'[d] = at[d] /\ stage'[d] = stage[d] /\ copy'[d] = copy[d]
  <2>1. at[c] \in Nat
    BY AtNat
  <2> QED
    BY <1>1, <2>1 DEF DataType, LockInv, TypeOK
<1>3. DataType'
  BY <1>1, <1>2 DEF DataType
<1>4. Fresh'
  <2> SUFFICES ASSUME NEW t \in Stores, NEW d \in Calls, NEW i \in 1 .. 9, <<d, i>> \in visible[t]
               PROVE  i < at'[d] \/ (i = at'[d] /\ stage'[d] = "flush")
    BY <1>1 DEF Fresh
  <2>1. i < at[d] \/ (i = at[d] /\ stage[d] = "flush")
    BY DEF Fresh
  <2> QED
    BY <2>1, <1>2
<1>5. CopyFresh'
  <2> SUFFICES ASSUME NEW d \in Calls, NEW t \in Stores, Does(d, "save", t)'
               PROVE  /\ stage'[d] \in {"temp", "rename"} => copy'[d] = visible[t] \cup {<<d, at'[d]>>}
                      /\ stage'[d] = "flush" => <<d, at'[d]>> \in visible[t]
    BY <1>1 DEF CopyFresh
  <2>1. CASE d = c
    BY <2>1, <1>2
  <2>2. CASE d # c
    <3>1. Does(d, "save", t)
      BY <2>2, <1>1, <1>2 DEF Does
    <3> QED
      BY <2>2, <3>1, <1>2 DEF CopyFresh
  <2> QED
    BY <2>1, <2>2
<1>6. Survival'
  <2> SUFFICES ASSUME NEW t \in Stores
               PROVE  /\ visible[t] \in surviving'[t]
                      /\ \A d \in surviving'[t] : d \subseteq visible[t] /\ (syncing => told'[t] \subseteq d)
    BY <1>1 DEF Survival
  <2>1. CASE t = s
    BY <2>1, <1>1, <1>2 DEF Survival
  <2>2. CASE t # s
    BY <2>2, <1>2 DEF Survival
  <2> QED
    BY <2>1, <2>2
<1> QED
  BY <1>3, <1>4, <1>5, <1>6

\* After a death no call is in a save, and each that had begun is over.
LEMMA DeathKeeps ==
  ASSUME Inv, Killed \/ PowerLoss
  PROVE  DataInv' /\ \A s \in Stores : visible'[s] \subseteq visible[s] /\ visible'[s] \in surviving[s]
<1> USE DEF Inv, DataInv
<1>1. /\ UNCHANGED <<plan, told, syncing>>
      /\ at' = [c \in Calls |-> IF Begun(c) THEN Len(plan[c]) + 1 ELSE 1]
      /\ stage' = [c \in Calls |-> "queued"]
      /\ copy' = [c \in Calls |-> {}]
  BY DEF Killed, PowerLoss, Dies
<1>2. /\ visible' \in [Stores -> SUBSET Updates] /\ surviving' \in [Stores -> SUBSET SUBSET Updates]
      /\ \A s \in Stores : /\ visible'[s] \in surviving[s] /\ visible'[s] \in surviving'[s]
                           /\ \/ surviving'[s] = surviving[s] /\ visible'[s] = visible[s]
                              \/ surviving'[s] = {visible'[s]}
  <2>1. CASE Killed
    BY <2>1 DEF Killed, DataType, Survival
  <2>2. CASE PowerLoss
    <3>1. /\ \A s \in Stores : visible'[s] \in surviving[s]
          /\ visible' \in [Stores -> UNION {surviving[s] : s \in Stores}]
          /\ surviving' = [s \in Stores |-> {visible'[s]}]
      BY <2>2 DEF PowerLoss
    <3>2. UNION {surviving[s] : s \in Stores} \subseteq SUBSET Updates
      BY DEF DataType
    <3>3. visible' \in [Stores -> SUBSET Updates]
      BY <3>1, <3>2
    <3> QED
      BY <3>1, <3>3
  <2> QED
    BY <2>1, <2>2
<1>3. \A s \in Stores : visible'[s] \subseteq visible[s]
  BY <1>2 DEF Survival
<1>4. DataType'
  BY <1>1, <1>2 DEF DataType
<1>5. CopyFresh'
  BY <1>1 DEF CopyFresh
<1>6. Survival'
  <2> SUFFICES ASSUME NEW s \in Stores, NEW d \in surviving'[s]
               PROVE  d \subseteq visible'[s] /\ (syncing => told[s] \subseteq d)
    BY <1>1, <1>2 DEF Survival
  <2> QED
    BY <1>2 DEF Survival
<1>7. Fresh'
  <2> SUFFICES ASSUME NEW s \in Stores, NEW c \in Calls, NEW i \in 1 .. 9, <<c, i>> \in visible'[s]
               PROVE  i < at'[c]
    BY DEF Fresh
  <2>1. i < at[c] \/ (i = at[c] /\ stage[c] = "flush")
    BY <1>3 DEF Fresh
  <2>2. at[c] \in 1 .. 10 /\ at[c] <= Len(plan[c]) + 1
    BY DEF LockInv, TypeOK
  <2>3. Len(plan[c]) \in 0 .. 9
    BY PlanFacts DEF LockInv, TypeOK
  <2>4. stage[c] = "flush" => at[c] < Len(plan[c]) + 1
    <3>1. stage[c] = "flush" => \E t \in Stores : Does(c, "save", t)
      BY DEF LockInv, InStep
    <3> QED
      BY <3>1, OneSaver
  <2>5. ASSUME NEW n \in 0 .. 9, NEW a \in 1 .. 10, a <= n + 1, i < a \/ (i = a /\ a < n + 1)
        PROVE  i < n + 1
    BY <2>5
  <2>6. i < Len(plan[c]) + 1
    BY <2>1, <2>2, <2>3, <2>4, <2>5
  <2>7. Begun(c)
    BY <2>1, <2>2 DEF Begun
  <2>8. at'[c] = Len(plan[c]) + 1
    BY <2>7, <1>1
  <2> QED
    BY <2>6, <2>8
<1> QED
  BY <1>2, <1>3, <1>4, <1>5, <1>6, <1>7

\* Queueing, entering, leaving, refusing and failing leave the documents as they are.
LEMMA IdleSteps ==
  ASSUME Inv, NEW c \in Calls, NEW s \in Stores,
         Enqueue(c, s) \/ Acquire(c, s) \/ Release(c, s) \/ WriteNothing(c, s) \/ Fail(c)
  PROVE  DataInv' /\ UNCHANGED files
<1>1. /\ at[c] \in Nat /\ at[c] < at[c] + 1 /\ at[c] + 1 \in Nat
      /\ at \in [Calls -> 1 .. 10] /\ stage \in [Calls -> Stages] /\ copy \in [Calls -> SUBSET Updates]
  <2>1. at[c] \in Nat
    BY AtNat
  <2> QED
    BY <2>1 DEF Inv, LockInv, TypeOK, DataInv, DataType
<1>2. CASE Enqueue(c, s)
  BY <1>1, <1>2, IdleKeeps DEF Enqueue, files
<1>3. CASE Acquire(c, s)
  BY <1>1, <1>3, IdleKeeps DEF Acquire, files
<1>4. CASE Release(c, s)
  BY <1>1, <1>4, IdleKeeps DEF Release, files
<1>5. CASE WriteNothing(c, s)
  BY <1>1, <1>5, IdleKeeps DEF WriteNothing, files
<1>6. CASE Fail(c)
  <2>1. PICK t \in Stores : Does(c, "save", t)
    BY <1>6 DEF Fail
  <2>2. at[c] < Len(plan[c]) + 1
    BY <2>1, OneSaver DEF Inv
  <2>3. Len(plan[c]) \in 0 .. 9
    BY PlanFacts DEF Inv, LockInv, TypeOK
  <2>4. ASSUME NEW n \in 0 .. 9 PROVE n + 1 \in Nat
    OBVIOUS
  <2>5. Len(plan[c]) + 1 \in Nat
    BY <2>3, <2>4
  <2> QED
    BY <1>1, <1>6, <2>2, <2>5, IdleKeeps DEF Fail, files
<1> QED
  BY <1>2, <1>3, <1>4, <1>5, <1>6

LEMMA InvStep == Inv /\ [Next]_vars => Inv'
<1> SUFFICES ASSUME Inv, [Next]_vars PROVE Inv'
  OBVIOUS
<1>1. LockInv'
  BY LockStep DEF Inv
<1>2. ASSUME NEW c \in Calls, Works(c) PROVE DataInv'
  <2>1. CASE Fail(c)
    <3>1. "task" \in Stores
      BY DEF Stores
    <3> QED
      BY <2>1, <3>1, IdleSteps
  <2>2. CASE ~Fail(c)
    BY <1>2, <2>2, IdleSteps, ReadKeeps, RenameKeeps, FlushKeeps DEF Works
  <2> QED
    BY <2>1, <2>2
<1>3. CASE Killed \/ PowerLoss
  BY <1>1, <1>3, DeathKeeps DEF Inv
<1>4. CASE UNCHANGED vars
  BY <1>1, <1>4 DEF vars, Inv, DataInv, DataType, Fresh, CopyFresh, Survival, Does
<1> QED
  BY <1>1, <1>2, <1>3, <1>4 DEF Inv, Next

-----------------------------------------------------------------------------
(* The results *)

\* The locks exclude, every copy about to be written is up to date, and what survives a
\* power loss is a document that was visible: for every instance.
THEOREM SectionsExclude == Spec => []Inv
<1>1. Init => Inv
  BY LockInit, DataInit DEF Inv
<1> QED
  BY <1>1, InvStep, PTL DEF Spec

\* Where directories are flushed, no acknowledged update is taken back, whatever dies
\* (atomicWriteTextFile and the promise-chain locks of the three stores).
THEOREM AcknowledgedKept == Spec => []AcknowledgedSurvives
<1>1. Inv => AcknowledgedSurvives
  BY DEF Inv, DataInv, Survival, AcknowledgedSurvives
<1> QED
  BY <1>1, SectionsExclude, PTL

\* The updates of a document that every power loss leaves.
Safe(s) == {u \in visible[s] : \A d \in surviving[s] : u \in d}

LEMMA StartsAbstract == Init => Abstract!Init
<1> SUFFICES ASSUME Init PROVE Abstract!Init
  OBVIOUS
<1>1. /\ visible = [s \in Stores |-> {}] /\ told = [s \in Stores |-> {}]
      /\ [s \in Stores |-> {u \in visible[s] : \A d \in surviving[s] : u \in d}] = [s \in Stores |-> {}]
  BY DEF Init
<1> QED
  BY <1>1 DEF Init, Abstract!Init, Abstract!Nothing

\* The rename is the moment at which the update is made ...
LEMMA RenameCommits ==
  ASSUME Inv, NEW c \in Calls, NEW s \in Stores, Rename(c, s)
  PROVE  Abstract!Commit(s, <<c, at[c]>>)
<1> DEFINE u == <<c, at[c]>>
<1>1. /\ u \in Updates /\ u \notin visible[s]
      /\ visible' = [visible EXCEPT ![s] = @ \cup {u}]
      /\ surviving' = [surviving EXCEPT ![s] = @ \cup {visible[s] \cup {u}}]
      /\ UNCHANGED <<told, syncing>>
  BY RenameFacts
<1>2. visible[s] \in surviving[s]
  BY DEF Inv, DataInv, Survival
<1>3. /\ visible'[s] = visible[s] \cup {u} /\ surviving'[s] = surviving[s] \cup {visible[s] \cup {u}}
      /\ \A t \in Stores \ {s} : visible'[t] = visible[t] /\ surviving'[t] = surviving[t]
  BY <1>1 DEF Inv, DataInv, DataType
<1>4. ASSUME NEW t \in Stores PROVE Safe(t)' = Safe(t)
  <2>1. CASE t = s
    BY <2>1, <1>1, <1>2, <1>3 DEF Safe
  <2>2. CASE t # s
    BY <2>2, <1>3 DEF Safe
  <2> QED
    BY <2>1, <2>2
<1>5. [t \in Stores |-> Safe(t)]' = [t \in Stores |-> Safe(t)]
  BY <1>4
<1> QED
  BY <1>1, <1>5 DEF Abstract!Commit, Safe

\* ... and the end of the write the one at which it is safe.
LEMMA FlushAcknowledges ==
  ASSUME Inv, NEW c \in Calls, NEW s \in Stores, FlushDirectory(c, s)
  PROVE  Abstract!Acknowledge(s, <<c, at[c]>>)
<1> DEFINE u == <<c, at[c]>>
<1>1. /\ u \in visible[s]
      /\ surviving' = [surviving EXCEPT ![s] = IF syncing THEN {visible[s]} ELSE @]
      /\ told' = [told EXCEPT ![s] = @ \cup {u}]
      /\ UNCHANGED <<visible, syncing>>
  BY FlushFacts
<1>2. /\ surviving'[s] = IF syncing THEN {visible[s]} ELSE surviving[s]
      /\ \A t \in Stores \ {s} : surviving'[t] = surviving[t]
  BY <1>1 DEF Inv, DataInv, DataType
<1>3. /\ Safe(s)' = IF syncing THEN visible[s] ELSE Safe(s)
      /\ \A t \in Stores \ {s} : Safe(t)' = Safe(t)
  BY <1>1, <1>2 DEF Safe
<1>4. [t \in Stores |-> Safe(t)]' =
        IF syncing THEN [[t \in Stores |-> Safe(t)] EXCEPT ![s] = visible[s]] ELSE [t \in Stores |-> Safe(t)]
  BY <1>3
<1> QED
  BY <1>1, <1>4 DEF Abstract!Acknowledge, Safe

\* A power loss takes no more than AtomicStore lets it take.
LEMMA PowerLossRefines ==
  ASSUME Inv, PowerLoss
  PROVE  Abstract!PowerLoss
<1>1. \A s \in Stores : visible'[s] \subseteq visible[s] /\ visible'[s] \in surviving[s]
  BY DeathKeeps
<1>2. DataType'
  BY DeathKeeps DEF DataInv
<1>3. \A s \in Stores : Safe(s) \subseteq visible'[s]
  BY <1>1 DEF Safe
<1>4. surviving' = [s \in Stores |-> {visible'[s]}] /\ UNCHANGED <<told, syncing>>
  BY DEF PowerLoss
<1>5. \A s \in Stores : Safe(s)' = visible'[s]
  BY <1>4 DEF Safe
<1>6. [s \in Stores |-> Safe(s)]' = visible'
  BY <1>2, <1>5 DEF DataType
<1> QED
  BY <1>1, <1>2, <1>3, <1>4, <1>6 DEF Abstract!PowerLoss, Safe, DataType

\* Every other step is none of AtomicStore's.
LEMMA Stutters ==
  ASSUME UNCHANGED <<visible, surviving, told, syncing>>
  PROVE  UNCHANGED Abstract!vars
  BY DEF Abstract!vars

LEMMA StepRefines == Inv /\ [Next]_vars => [Abstract!Next]_(Abstract!vars)
<1> SUFFICES ASSUME Inv, [Next]_vars PROVE [Abstract!Next]_(Abstract!vars)
  OBVIOUS
<1>1. ASSUME NEW c \in Calls, NEW s \in Stores, Rename(c, s) PROVE Abstract!Next
  <2>1. <<c, at[c]>> \in Updates /\ Abstract!Commit(s, <<c, at[c]>>)
    BY <1>1, RenameCommits, RenameFacts
  <2> QED
    BY <2>1 DEF Abstract!Next
<1>2. ASSUME NEW c \in Calls, NEW s \in Stores, FlushDirectory(c, s) PROVE Abstract!Next
  <2>1. <<c, at[c]>> \in Updates
    BY <1>2, FlushFacts
  <2>2. PICK u \in Updates : u = <<c, at[c]>>
    BY <2>1
  <2>3. Abstract!Acknowledge(s, u)
    BY <1>2, <2>2, FlushAcknowledges DEF Abstract!Acknowledge
  <2> QED
    BY <2>3, Zenon DEF Abstract!Next
<1>3. CASE PowerLoss
  BY <1>3, PowerLossRefines DEF Abstract!Next
<1>4. ASSUME NEW c \in Calls, NEW s \in Stores,
             Enqueue(c, s) \/ Acquire(c, s) \/ Release(c, s) \/ Read(c, s) \/ WriteNothing(c, s)
             \/ WriteTemp(c, s) \/ Fail(c)
      PROVE  UNCHANGED Abstract!vars
  <2>1. UNCHANGED files
    BY <1>4 DEF Enqueue, Acquire, Release, Read, WriteNothing, WriteTemp, Fail
  <2> QED
    BY <2>1, Stutters DEF files
<1>5. CASE Killed
  BY <1>5, Stutters DEF Killed
<1>6. CASE UNCHANGED vars
  BY <1>6, Stutters DEF vars
<1>7. ASSUME NEW c \in Calls, Works(c) PROVE [Abstract!Next]_(Abstract!vars)
  <2>1. "task" \in Stores
    BY DEF Stores
  <2> QED
    BY <1>1, <1>2, <1>4, <1>7, <2>1 DEF Works
<1> QED
  BY <1>3, <1>5, <1>6, <1>7 DEF Next

\* The locked read-change-write sections of all tools implement the atomic store, with
\* any number of calls, deaths and power losses between any two of their steps.
THEOREM SectionsImplement == Spec => SectionsAreAtomic
<1> QED
  BY StartsAbstract, SectionsExclude, StepRefines, PTL DEF Spec, SectionsAreAtomic, Abstract!Spec
==============================================================================
