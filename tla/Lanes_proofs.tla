----------------------------- MODULE Lanes_proofs -----------------------------
(***************************************************************************)
(* Which machine serves: theorems about routing in the server and about    *)
(* the lanes of the orchestrator.                                          *)
(*                                                                         *)
(* Routing, for every registry, task and request.  One invariant carries   *)
(* the four properties: whatever a mode, a wave or the watchdog holds is   *)
(* AtHome, a host of a tier the server may use with a model that is not    *)
(* forwarded to a hosted service.  It is inductive because every operator  *)
(* that selects a lane, a host or a model returns one of the registry's,   *)
(* which the lemmas say one operator at a time, and because the watchdog   *)
(* keeps a lane beside the probe that stands for it.                       *)
(*                                                                         *)
(* The orchestrator, for any lanes, models, configurations, threads and    *)
(* commands, and machines that change at any time.  Primary work: what the *)
(* memo holds was true at most one probe before it was stored, and the     *)
(* lanes still ahead of a request, with those it tried, cover the ones     *)
(* that are able to serve it, the cloud's last.  Delegated work: whatever  *)
(* the shared report recommends, a command uses a lane it may use, has not *)
(* failed on, and whose tools were tried.                                  *)
(***************************************************************************)
EXTENDS RouteWatchdog, MCHermes, Operators_proofs

\* What a sequence that reads another one starts with.
LEMMA ReadsFirst ==
  ASSUME NEW S, NEW s, NEW I, NEW t, ReadsOff(t, s, I, S), NEW none
  PROVE  /\ t # <<>> => 1 \in DOMAIN t /\ t[1] \in S /\ FirstOr(t, none) = t[1] /\ \E i \in I : t[1] = s[i]
         /\ t = <<>> => FirstOr(t, none) = none
         /\ t = <<>> <=> I = {}
<1>1. t \in Seq(S) /\ (t = <<>> <=> I = {}) /\ \A k \in DOMAIN t : \E i \in I : t[k] = s[i]
  BY DEF ReadsOff
<1>2. ASSUME t # <<>> PROVE 1 \in DOMAIN t /\ t[1] \in S
  BY <1>1, <1>2
<1> QED
  BY <1>1, <1>2 DEF FirstOr

(***************************************************************************)
(* The registry                                                            *)
(***************************************************************************)

\* The parts of a registry.
LEMMA RegistryFacts ==
  ASSUME NEW r \in Registries
  PROVE  /\ r.optIn \in BOOLEAN
         /\ r.order \in Seq(STRING) /\ r.tiers \in Seq(TierEntry) /\ r.rules \in Seq(RuleEntry)
  BY RegistryAssumption

\* A tier the server may use.
OpenTier(r, t) == r.optIn \/ t # CloudTier

\* The tiers in order that the server may use.
LEMMA RoutableTiersFacts ==
  ASSUME NEW r \in Registries
  PROVE  /\ RoutableTiers(r) \in Seq(STRING)
         /\ \A k \in DOMAIN RoutableTiers(r) : RoutableTiers(r)[k] \in STRING /\ OpenTier(r, RoutableTiers(r)[k])
<1> DEFINE I == {i \in DOMAIN r.order : r.optIn \/ r.order[i] # CloudTier}
<1>1. RoutableTiers(r) = At(r.order, I)
  BY DEF RoutableTiers, Only
<1>2. r.order \in Seq(STRING) /\ I \in SUBSET DOMAIN r.order
  BY RegistryFacts
<1>3. \A i \in I : OpenTier(r, r.order[i])
  BY DEF OpenTier
<1> HIDE DEF I
<1>4. ReadsOff(RoutableTiers(r), r.order, I, STRING)
  BY <1>1, <1>2, AtPlaces
<1>5. /\ RoutableTiers(r) \in Seq(STRING)
      /\ \A k \in DOMAIN RoutableTiers(r) : \E i \in I : RoutableTiers(r)[k] = r.order[i]
  BY <1>4 DEF ReadsOff
<1> QED
  BY <1>3, <1>5

\* The tier looked up by name, or an empty one, holds hosts the registry lists under that name.
LEMMA TierOfFacts ==
  ASSUME NEW r \in Registries, NEW t
  PROVE  /\ TierOf(r, t).id = t /\ TierOf(r, t).hosts \in Seq(HostEntry)
         /\ \A j \in DOMAIN TierOf(r, t).hosts :
              \E x \in Range(r.tiers) : x.id = t /\ TierOf(r, t).hosts[j] \in Range(x.hosts)
<1> DEFINE I == {i \in DOMAIN r.tiers : r.tiers[i].id = t}
           found == At(r.tiers, I)
           none == [id |-> t, hosts |-> <<>>]
<1>1. TierOf(r, t) = FirstOr(found, none)
  BY DEF TierOf, Only
<1>2. r.tiers \in Seq(TierEntry) /\ I \in SUBSET DOMAIN r.tiers
  BY RegistryFacts
<1>3. none.id = t /\ none.hosts \in Seq(HostEntry) /\ DOMAIN none.hosts = {}
  OBVIOUS
<1>4. ReadsOff(found, r.tiers, I, TierEntry)
  BY <1>2, AtPlaces
<1> HIDE DEF found, none
<1>5. CASE found = <<>>
  BY <1>1, <1>3, <1>4, <1>5, ReadsFirst
<1>6. CASE found # <<>>
  <2>1. TierOf(r, t) \in TierEntry /\ \E i \in I : TierOf(r, t) = r.tiers[i]
    BY <1>1, <1>4, <1>6, ReadsFirst
  <2>2. TierOf(r, t).id = t /\ TierOf(r, t) \in Range(r.tiers)
    BY <2>1 DEF Range
  <2>3. TierOf(r, t).hosts \in Seq(HostEntry)
    BY <2>1 DEF TierEntry
  <2> QED
    BY <2>2, <2>3 DEF Range
<1> QED
  BY <1>5, <1>6

-----------------------------------------------------------------------------
(* Sequences of sequences *)

\* Where the elements of a sequence of sequences come from.
Among(x, ss) == \E i \in DOMAIN ss : \E j \in DOMAIN ss[i] : x = ss[i][j]

\* All that u holds is in s or in t.
Joins(u, s, t, S) ==
  u \in Seq(S) /\ \A k \in DOMAIN u : (\E i \in DOMAIN s : u[k] = s[i]) \/ (\E i \in DOMAIN t : u[k] = t[i])

\* Concatenation joins.
LEMMA ConcatFacts ==
  ASSUME NEW S, NEW s \in Seq(S), NEW t \in Seq(S)
  PROVE  Joins(s \o t, s, t, S)
<1>1. s \o t \in Seq(S) /\ Len(s \o t) = Len(s) + Len(t)
  OBVIOUS
<1>2. \A k \in 1 .. Len(s) + Len(t) : (s \o t)[k] = IF k <= Len(s) THEN s[k] ELSE t[k - Len(s)]
  OBVIOUS
<1>3. ASSUME NEW k \in DOMAIN (s \o t)
      PROVE  (\E i \in DOMAIN s : (s \o t)[k] = s[i]) \/ (\E i \in DOMAIN t : (s \o t)[k] = t[i])
  <2>1. k \in 1 .. Len(s) + Len(t) /\ Len(s) \in Nat /\ Len(t) \in Nat
    BY <1>1
  <2>2. CASE k <= Len(s)
    BY <1>2, <2>1, <2>2
  <2>3. CASE ~ (k <= Len(s))
    <3>1. k - Len(s) \in 1 .. Len(t)
      BY <2>1, <2>3
    <3> QED
      BY <1>2, <2>1, <2>3, <3>1
  <2> QED
    BY <2>2, <2>3
<1> QED
  BY <1>1, <1>3 DEF Joins

\* Flattening invents nothing: a fold with concatenation, by induction on its length.
LEMMA FlattenFacts ==
  ASSUME NEW S, NEW ss \in Seq(Seq(S))
  PROVE  /\ FlattenSeq(ss) \in Seq(S)
         /\ \A k \in DOMAIN FlattenSeq(ss) : Among(FlattenSeq(ss)[k], ss)
<1> DEFINE n == Len(ss)
           F[i \in 1 .. n] == IF i = 1 THEN ss[i] ELSE F[i - 1] \o ss[i]
           Built(f, m) == f = [i \in 1 .. m |-> IF i = 1 THEN ss[i] ELSE f[i - 1] \o ss[i]]
           T == {m \in Nat : \E f : Built(f, m)}
           Good(s) == s \in Seq(S) /\ \A k \in DOMAIN s : Among(s[k], ss)
           U == {m \in Nat : m \in 1 .. n => Good(F[m])}
<1>1. n \in Nat /\ DOMAIN ss = 1 .. n /\ \A i \in 1 .. n : ss[i] \in Seq(S)
  OBVIOUS
<1>2. Nat \subseteq T
  <2>1. 0 \in T
    <3>1. Built(<<>>, 0)
      OBVIOUS
    <3> QED
      BY <3>1
  <2>2. ASSUME NEW m \in Nat, m \in T PROVE m + 1 \in T
    <3>1. PICK f : Built(f, m)
      BY <2>2
    <3> DEFINE g == [i \in 1 .. m + 1 |-> IF i = m + 1 THEN (IF i = 1 THEN ss[i] ELSE f[i - 1] \o ss[i]) ELSE f[i]]
    <3>2. \A i \in 1 .. m + 1 : i # 1 => i - 1 \in 1 .. m /\ g[i - 1] = f[i - 1]
      OBVIOUS
    <3>3. \A i \in 1 .. m : i \in 1 .. m + 1 /\ i # m + 1
      OBVIOUS
    <3>4. \A i \in 1 .. m + 1 : i # m + 1 => i \in 1 .. m
      OBVIOUS
    <3>5. \A i \in 1 .. m + 1 : g[i] = IF i = 1 THEN ss[i] ELSE g[i - 1] \o ss[i]
      BY <3>1, <3>2, <3>3, <3>4
    <3>6. Built(g, m + 1)
      BY <3>5
    <3> HIDE DEF g, Built
    <3> QED
      BY <3>6
  <2> HIDE DEF T
  <2> QED
    BY <2>1, <2>2, NatSet
<1>3. F = [i \in 1 .. n |-> IF i = 1 THEN ss[i] ELSE F[i - 1] \o ss[i]]
  BY <1>1, <1>2
<1>4. n = 0 \/ FlattenSeq(ss) = F[n]
  BY DEF FlattenSeq
<1>5. n = 0 => FlattenSeq(ss) = ss /\ ss = <<>>
  BY DEF FlattenSeq
<1> HIDE DEF F
<1>6. \A i \in 1 .. n : Good(ss[i])
  BY <1>1 DEF Among
<1>7. Nat \subseteq U
  <2>1. 0 \in U
    OBVIOUS
  <2>2. ASSUME NEW m \in Nat, m \in U, m + 1 \in 1 .. n PROVE Good(F[m + 1])
    <3>0. m + 1 \in 1 .. n
      BY <2>2
    <3>1. CASE m = 0
      BY <1>3, <1>6, <3>0, <3>1
    <3>2. CASE m # 0
      <4> DEFINE a == F[m]
                 b == ss[m + 1]
      <4>0. m \in 1 .. n /\ (m + 1) - 1 = m /\ m + 1 # 1
        BY <1>1, <3>0, <3>2
      <4>1. F[m + 1] = a \o b
        BY <1>3, <3>0, <4>0
      <4>2. Good(a) /\ Good(b)
        BY <1>6, <2>2, <3>0, <4>0
      <4> HIDE DEF n, a, b
      <4>25. a \in Seq(S) /\ b \in Seq(S)
        BY <4>2
      <4> DEFINE c == a \o b
      <4>3. Joins(c, a, b, S)
        BY <4>25, ConcatFacts
      <4>4. F[m + 1] = c
        BY <4>1
      <4> HIDE DEF c
      <4>5. Good(c)
        BY <4>2, <4>3 DEF Joins
      <4> QED
        BY <4>4, <4>5
    <3> QED
      BY <3>1, <3>2
  <2>3. \A m \in Nat : m \in U => m + 1 \in U
    <3>1. \A m \in Nat : m + 1 \in Nat
      OBVIOUS
    <3> HIDE DEF Good
    <3> QED
      BY <2>2, <3>1, Zenon
  <2> HIDE DEF U
  <2> QED
    BY <2>1, <2>3, NatSet
<1>8. CASE n = 0
  BY <1>5, <1>8
<1>9. CASE n # 0
  <2>1. Good(F[n])
    BY <1>1, <1>7, <1>9
  <2> QED
    BY <1>4, <1>9, <2>1
<1> QED
  BY <1>8, <1>9

-----------------------------------------------------------------------------
(* The lanes of a registry *)

\* A lane as the code pairs them.
RouteLane == [tier : STRING, host : HostEntry]

\* The host stands in a tier of that name.
Listed(r, t, h) == \E x \in Range(r.tiers) : x.id = t /\ h \in Range(x.hosts)

\* The lanes of some tiers are the hosts of those tiers.
LEMMA LanesOfFacts ==
  ASSUME NEW ts \in Seq(TierEntry)
  PROVE  /\ LanesOf(ts) \in Seq(RouteLane)
         /\ \A k \in DOMAIN LanesOf(ts) : \E i \in DOMAIN ts : \E j \in DOMAIN ts[i].hosts :
              LanesOf(ts)[k] = [tier |-> ts[i].id, host |-> ts[i].hosts[j]]
<1> DEFINE row(i) == [j \in DOMAIN ts[i].hosts |-> [tier |-> ts[i].id, host |-> ts[i].hosts[j]]]
           rows == [i \in DOMAIN ts |-> row(i)]
<1>1. LanesOf(ts) = FlattenSeq(rows)
  BY DEF LanesOf
<1>2. ASSUME NEW i \in DOMAIN ts PROVE row(i) \in Seq(RouteLane)
  <2>1. ts[i] \in TierEntry
    OBVIOUS
  <2>2. ts[i].id \in STRING /\ ts[i].hosts \in Seq(HostEntry)
    BY <2>1 DEF TierEntry
  <2>3. DOMAIN ts[i].hosts = 1 .. Len(ts[i].hosts) /\ Len(ts[i].hosts) \in Nat
        /\ \A j \in DOMAIN ts[i].hosts : ts[i].hosts[j] \in HostEntry
    BY <2>2
  <2>4. row(i) \in [1 .. Len(ts[i].hosts) -> RouteLane]
    BY <2>2, <2>3 DEF RouteLane
  <2> QED
    BY <2>3, <2>4, SeqDef
<1>3. rows \in Seq(Seq(RouteLane))
  <2>1. DOMAIN ts = 1 .. Len(ts) /\ Len(ts) \in Nat
    OBVIOUS
  <2> HIDE DEF row
  <2>2. rows \in [1 .. Len(ts) -> Seq(RouteLane)]
    BY <1>2, <2>1
  <2> QED
    BY <2>1, <2>2, SeqDef
<1>4. \A i \in DOMAIN rows : i \in DOMAIN ts /\ DOMAIN rows[i] = DOMAIN ts[i].hosts
        /\ \A j \in DOMAIN rows[i] : rows[i][j] = [tier |-> ts[i].id, host |-> ts[i].hosts[j]]
  OBVIOUS
<1> HIDE DEF rows
<1>5. /\ FlattenSeq(rows) \in Seq(RouteLane)
      /\ \A k \in DOMAIN FlattenSeq(rows) : Among(FlattenSeq(rows)[k], rows)
  BY <1>3, FlattenFacts
<1>6. ASSUME NEW k \in DOMAIN LanesOf(ts)
      PROVE  \E i \in DOMAIN ts : \E j \in DOMAIN ts[i].hosts :
               LanesOf(ts)[k] = [tier |-> ts[i].id, host |-> ts[i].hosts[j]]
  <2>1. PICK i \in DOMAIN rows : \E j \in DOMAIN rows[i] : LanesOf(ts)[k] = rows[i][j]
    BY <1>1, <1>5 DEF Among
  <2>2. PICK j \in DOMAIN rows[i] : LanesOf(ts)[k] = rows[i][j]
    BY <2>1
  <2> QED
    BY <1>4, <2>2
<1> QED
  BY <1>1, <1>5, <1>6

\* Every routable lane is of an open tier and listed there.
LEMMA RoutableLanesFacts ==
  ASSUME NEW r \in Registries
  PROVE  /\ RoutableLanes(r) \in Seq(RouteLane)
         /\ \A k \in DOMAIN RoutableLanes(r) :
              /\ RoutableLanes(r)[k] \in RouteLane /\ OpenTier(r, RoutableLanes(r)[k].tier)
              /\ Listed(r, RoutableLanes(r)[k].tier, RoutableLanes(r)[k].host)
<1> DEFINE names == RoutableTiers(r)
           ts == [i \in DOMAIN names |-> TierOf(r, names[i])]
<1>1. RoutableLanes(r) = LanesOf(ts)
  BY DEF RoutableLanes
<1>2. names \in Seq(STRING) /\ \A k \in DOMAIN names : names[k] \in STRING /\ OpenTier(r, names[k])
  BY RoutableTiersFacts
<1>25. \A t \in STRING : TierOf(r, t) \in TierEntry
  <2> TAKE t \in STRING
  <2>1. TierOf(r, t).id = t /\ TierOf(r, t).hosts \in Seq(HostEntry)
    BY TierOfFacts
  <2>2. r.tiers \in Seq(TierEntry)
    BY RegistryFacts
  <2> DEFINE I == {i \in DOMAIN r.tiers : r.tiers[i].id = t}
             found == At(r.tiers, I)
             none == [id |-> t, hosts |-> <<>>]
  <2>3. TierOf(r, t) = FirstOr(found, none)
    BY DEF TierOf, Only
  <2>4. none \in TierEntry
    BY DEF TierEntry
  <2>5. I \in SUBSET DOMAIN r.tiers
    OBVIOUS
  <2> HIDE DEF I, none
  <2>6. ReadsOff(found, r.tiers, I, TierEntry)
    BY <2>2, <2>5, AtPlaces
  <2> HIDE DEF found
  <2> QED
    BY <2>3, <2>4, <2>6, ReadsFirst
<1>3. /\ DOMAIN ts = DOMAIN names /\ \A i \in DOMAIN ts : ts[i] = TierOf(r, names[i])
      /\ \A i \in DOMAIN ts : ts[i] \in TierEntry
  BY <1>2, <1>25
<1>4. ts \in Seq(TierEntry)
  <2>1. DOMAIN names = 1 .. Len(names) /\ Len(names) \in Nat
    BY <1>2
  <2>2. ts \in [1 .. Len(names) -> TierEntry]
    BY <1>2, <1>25, <2>1
  <2> QED
    BY <2>1, <2>2, SeqDef
<1> HIDE DEF ts
<1>5. /\ LanesOf(ts) \in Seq(RouteLane)
      /\ \A k \in DOMAIN LanesOf(ts) : \E i \in DOMAIN ts : \E j \in DOMAIN ts[i].hosts :
              LanesOf(ts)[k] = [tier |-> ts[i].id, host |-> ts[i].hosts[j]]
  BY <1>4, LanesOfFacts
<1>6. ASSUME NEW k \in DOMAIN RoutableLanes(r)
      PROVE  /\ RoutableLanes(r)[k] \in RouteLane /\ OpenTier(r, RoutableLanes(r)[k].tier)
             /\ Listed(r, RoutableLanes(r)[k].tier, RoutableLanes(r)[k].host)
  <2> DEFINE l == RoutableLanes(r)[k]
  <2>1. PICK i \in DOMAIN ts : \E j \in DOMAIN ts[i].hosts : l = [tier |-> ts[i].id, host |-> ts[i].hosts[j]]
    BY <1>1, <1>5
  <2>2. PICK j \in DOMAIN ts[i].hosts : l = [tier |-> ts[i].id, host |-> ts[i].hosts[j]]
    BY <2>1
  <2>3. ts[i] = TierOf(r, names[i]) /\ i \in DOMAIN names
    BY <1>3
  <2>4. ts[i].id = names[i] /\ \E x \in Range(r.tiers) : x.id = names[i] /\ ts[i].hosts[j] \in Range(x.hosts)
    BY <2>2, <2>3, TierOfFacts
  <2>5. l \in RouteLane
    BY <1>1, <1>5
  <2> QED
    BY <1>2, <2>2, <2>3, <2>4, <2>5 DEF Listed
<1> HIDE DEF names
<1> QED
  BY <1>1, <1>5, <1>6

\* What FindHost finds is a listed lane of that id.
LEMMA FindHostFacts ==
  ASSUME NEW r \in Registries, NEW id
  PROVE  \/ FindHost(r, id) = NoHost
         \/ /\ FindHost(r, id) \in RouteLane /\ FindHost(r, id).host.id = id
            /\ Listed(r, FindHost(r, id).tier, FindHost(r, id).host)
<1> DEFINE ls == LanesOf(r.tiers)
           I == {i \in DOMAIN ls : ls[i].host.id = id}
           found == At(ls, I)
<1>1. FindHost(r, id) = FirstOr(found, NoHost)
  BY DEF FindHost, Only
<1>2. r.tiers \in Seq(TierEntry)
  BY RegistryFacts
<1>3. ls \in Seq(RouteLane) /\ \A k \in DOMAIN ls : \E i \in DOMAIN r.tiers : \E j \in DOMAIN r.tiers[i].hosts :
              ls[k] = [tier |-> r.tiers[i].id, host |-> r.tiers[i].hosts[j]]
  BY <1>2, LanesOfFacts
<1> HIDE DEF ls
<1>4. I \in SUBSET DOMAIN ls /\ \A i \in I : i \in DOMAIN ls /\ ls[i].host.id = id
  OBVIOUS
<1> HIDE DEF I
<1>5. ReadsOff(found, ls, I, RouteLane)
  BY <1>3, <1>4, AtPlaces
<1> HIDE DEF found
<1>6. CASE found = <<>>
  BY <1>1, <1>5, <1>6, ReadsFirst
<1>7. CASE found # <<>>
  <2>1. FindHost(r, id) \in RouteLane /\ \E i \in I : FindHost(r, id) = ls[i]
    BY <1>1, <1>5, <1>7, ReadsFirst
  <2>2. PICK i \in I : FindHost(r, id) = ls[i]
    BY <2>1
  <2>3. PICK a \in DOMAIN r.tiers : \E j \in DOMAIN r.tiers[a].hosts :
              ls[i] = [tier |-> r.tiers[a].id, host |-> r.tiers[a].hosts[j]]
    BY <1>3, <1>4
  <2>4. Listed(r, FindHost(r, id).tier, FindHost(r, id).host)
    BY <2>2, <2>3 DEF Listed, Range
  <2> QED
    BY <1>4, <2>1, <2>2, <2>4
<1> QED
  BY <1>6, <1>7

-----------------------------------------------------------------------------
(* The model of a host *)

\* The models of a host that may be picked.
OwnModels(h) == {m \in Range(h.models) : m.name # NoModel /\ m.name \notin Proxied}

\* The entries of a host that name a model.
LEMMA EntriesFacts ==
  ASSUME NEW h \in HostEntry
  PROVE  /\ Entries(h) \in Seq(ModelEntry)
         /\ Range(Entries(h)) = {m \in Range(h.models) : m.name # NoModel}
<1> DEFINE I == {i \in DOMAIN h.models : h.models[i].name # NoModel}
<1>1. Entries(h) = At(h.models, I)
  BY DEF Entries, Only
<1>2. h.models \in Seq(ModelEntry)
  BY DEF HostEntry
<1>3. I \in SUBSET DOMAIN h.models /\ \A i \in DOMAIN h.models : i \in I <=> h.models[i].name # NoModel
  OBVIOUS
<1> HIDE DEF I
<1>4. ReadsOff(Entries(h), h.models, I, ModelEntry)
  BY <1>1, <1>2, <1>3, AtPlaces
<1>5. /\ Entries(h) \in Seq(ModelEntry)
      /\ \A k \in DOMAIN Entries(h) : \E i \in I : Entries(h)[k] = h.models[i]
      /\ \A i \in I : \E k \in DOMAIN Entries(h) : Entries(h)[k] = h.models[i]
  BY <1>4 DEF ReadsOff
<1>6. ASSUME NEW m PROVE m \in Range(Entries(h)) <=> m \in {x \in Range(h.models) : x.name # NoModel}
  BY <1>3, <1>5 DEF Range
<1> QED
  BY <1>5, <1>6

\* Without the proxies, what is left are the models of its own.
LEMMA OwnFacts ==
  ASSUME NEW h \in HostEntry
  PROVE  Own(h) \in Seq(ModelEntry) /\ Range(Own(h)) = OwnModels(h)
<1> DEFINE s == Entries(h)
           I == {i \in DOMAIN s : s[i].name \notin Proxied}
<1>1. Own(h) = At(s, I)
  BY DEF Own, Only
<1>2. s \in Seq(ModelEntry) /\ Range(s) = {m \in Range(h.models) : m.name # NoModel}
  BY EntriesFacts
<1> HIDE DEF s
<1>3. I \in SUBSET DOMAIN s /\ \A i \in DOMAIN s : i \in I <=> s[i].name \notin Proxied
  OBVIOUS
<1> HIDE DEF I
<1>4. ReadsOff(Own(h), s, I, ModelEntry)
  BY <1>1, <1>2, <1>3, AtPlaces
<1>5. /\ Own(h) \in Seq(ModelEntry)
      /\ \A k \in DOMAIN Own(h) : \E i \in I : Own(h)[k] = s[i]
      /\ \A i \in I : \E k \in DOMAIN Own(h) : Own(h)[k] = s[i]
  BY <1>4 DEF ReadsOff
<1>6. ASSUME NEW m PROVE m \in Range(Own(h)) <=> m \in Range(s) /\ m.name \notin Proxied
  BY <1>3, <1>5 DEF Range
<1> QED
  BY <1>2, <1>5, <1>6 DEF OwnModels

\* Merits compare.
LEMMA MeritFacts ==
  ASSUME NEW m, NEW d
  PROVE  Merit(m, d) \in Int
  BY DEF Merit

\* No model, if the host has none of its own, and otherwise one of those.
LEMMA ChooseModelFacts ==
  ASSUME NEW h \in HostEntry, NEW d
  PROVE  /\ OwnModels(h) = {} => ChooseModel(h, d) = NoModel
         /\ OwnModels(h) # {} => \E m \in OwnModels(h) : ChooseModel(h, d) = m.name
         /\ ChooseModel(h, d) \notin Proxied
<1> DEFINE s == Own(h)
           K == [i \in DOMAIN s |-> Merit(s[i], d)]
           R == {p \in (DOMAIN s) \X (DOMAIN s) : K[p[1]] > K[p[2]] \/ (K[p[1]] = K[p[2]] /\ p[1] < p[2])}
           t == Along(s, DOMAIN s, R)
<1>1. ChooseModel(h, d) = IF s = <<>> THEN NoModel ELSE t[1].name
  <2>1. ByKey(s, LAMBDA m : Merit(m, d)) = R
    BY DEF ByKey
  <2>2. Ranked(s, LAMBDA m : Merit(m, d)) = t
    BY <2>1 DEF Ranked
  <2> QED
    BY <2>2 DEF ChooseModel
<1>2. s \in Seq(ModelEntry) /\ Range(s) = OwnModels(h)
  BY OwnFacts
<1>3. K \in [DOMAIN s -> Int]
  BY MeritFacts
<1> HIDE DEF s, K
<1>4. ReadsOff(t, s, DOMAIN s, ModelEntry)
  BY <1>2, <1>3, KeyOrder
<1> HIDE DEF t
<1>5. CASE s = <<>>
  <2>1. OwnModels(h) = {}
    BY <1>2, <1>5 DEF Range
  <2> QED
    BY <1>1, <1>5, <2>1, RegistryAssumption
<1>6. CASE s # <<>>
  <2>1. t # <<>>
    BY <1>2, <1>4, <1>6, SeqPlaces DEF ReadsOff
  <2>2. \E i \in DOMAIN s : t[1] = s[i]
    BY <1>4, <2>1, ReadsFirst
  <2>3. t[1] \in OwnModels(h)
    BY <1>2, <2>2 DEF Range
  <2> QED
    BY <1>1, <1>6, <2>3 DEF OwnModels
<1> QED
  BY <1>5, <1>6

\* Scores compare, and a capacity divides.
LEMMA ScoreFacts ==
  ASSUME NEW h \in HostEntry
  PROVE  Score(h) \in Int /\ Capacity(h) \in Nat /\ Capacity(h) > 0
<1>1. h.slices \in Int /\ h.vram \in Int
  BY DEF HostEntry
<1>2. Len(Entries(h)) \in Nat
  BY EntriesFacts
<1>3. Capacity(h) \in Nat /\ Capacity(h) > 0
  BY <1>1 DEF Capacity
<1> QED
  BY <1>1, <1>2, <1>3 DEF Score, Point

-----------------------------------------------------------------------------
(* The host of a task class *)

\* Scores of tiers compare.
LEMMA TierScoreFacts ==
  ASSUME NEW r \in Registries, NEW d, IsFiniteSet(d), NEW t
  PROVE  TierScore(r, d, t) \in Int
<1> DEFINE P == (DOMAIN r.rules) \X d
           Q == {p \in P : r.rules[p[1]].prefer = t /\ p[2] \in r.rules[p[1]].words}
           K == Keywords(t) \cap d
<1>1. TierScore(r, d, t) = Cardinality(K) + 2 * Cardinality(Q)
  BY DEF TierScore
<1>2. IsFiniteSet(DOMAIN r.rules)
  BY RegistryFacts, SeqPlaces
<1>3. IsFiniteSet(P)
  BY <1>2, FS_Product
<1>4. Q \in SUBSET P /\ K \in SUBSET d
  OBVIOUS
<1> HIDE DEF P, Q, K
<1>5. Cardinality(Q) \in Nat /\ Cardinality(K) \in Nat
  BY <1>3, <1>4, FS_Subset, FS_CardinalityType
<1> QED
  BY <1>1, <1>5

\* Every name a tier can have: the listed ones, the four of the scores and none.
TierNames ==
  STRING \cup {"local", "tailscale-ollama", "tailscale-openai-compatible", "cloud", NoTier}

\* The tiers that are scored begin with the local one.
LEMMA ScoredTiersFacts ==
  ASSUME NEW r \in Registries
  PROVE  /\ ScoredTiers(r) \in Seq(TierNames)
         /\ 1 \in DOMAIN ScoredTiers(r) /\ ScoredTiers(r)[1] = "local"
<1> DEFINE prefs == [i \in DOMAIN r.rules |-> r.rules[i].prefer]
           I == {i \in DOMAIN prefs : prefs[i] # "next-available"}
           more == At(prefs, I)
<1>1. ScoredTiers(r) = KnownTiers \o more
  BY DEF ScoredTiers, Only
<1>2. prefs \in Seq(TierNames)
  <2>1. r.rules \in Seq(RuleEntry)
    BY RegistryFacts
  <2>2. DOMAIN r.rules = 1 .. Len(r.rules) /\ Len(r.rules) \in Nat /\ \A i \in DOMAIN r.rules : r.rules[i] \in RuleEntry
    BY <2>1
  <2>3. prefs \in [1 .. Len(r.rules) -> TierNames]
    BY <2>2 DEF RuleEntry, TierNames
  <2> QED
    BY <2>2, <2>3, SeqDef
<1>3. I \in SUBSET DOMAIN prefs
  OBVIOUS
<1> HIDE DEF prefs, I
<1>4. more \in Seq(TierNames)
  BY <1>2, <1>3, AtPlaces DEF ReadsOff
<1> HIDE DEF more
<1>5. KnownTiers \in Seq(TierNames) /\ Len(KnownTiers) = 4 /\ KnownTiers[1] = "local"
  <2>1. KnownTiers = [i \in 1 .. 4 |-> KnownTiers[i]]
    BY DEF KnownTiers
  <2>2. KnownTiers[1] = "local" /\ KnownTiers[2] \in TierNames /\ KnownTiers[3] \in TierNames /\ KnownTiers[4] \in TierNames
    BY DEF KnownTiers, CloudTier, TierNames
  <2>3. \A i \in 1 .. 4 : i = 1 \/ i = 2 \/ i = 3 \/ i = 4
    OBVIOUS
  <2>4. KnownTiers \in [1 .. 4 -> TierNames]
    <3>1. "local" \in TierNames
      BY DEF TierNames
    <3> QED
      BY <2>1, <2>2, <2>3, <3>1
  <2>5. KnownTiers \in Seq(TierNames)
    BY <2>4, SeqDef
  <2>6. Len(KnownTiers) = 4
    BY <2>4, <2>5, LenIs
  <2> QED
    BY <2>2, <2>5, <2>6
<1>6. 1 \in DOMAIN (KnownTiers \o more) /\ (KnownTiers \o more)[1] = KnownTiers[1] /\ KnownTiers \o more \in Seq(TierNames)
  <2> DEFINE a == KnownTiers
             all == a \o more
  <2>1. a \in Seq(TierNames) /\ Len(a) = 4
    BY <1>5
  <2> HIDE DEF a
  <2>2. /\ all \in Seq(TierNames) /\ Len(all) = Len(a) + Len(more)
        /\ \A i \in 1 .. Len(a) + Len(more) : all[i] = IF i <= Len(a) THEN a[i] ELSE more[i - Len(a)]
    BY <1>4, <2>1, ConcatProperties
  <2> HIDE DEF all
  <2>3. 1 \in DOMAIN all /\ all[1] = a[1]
    BY <1>4, <2>1, <2>2
  <2> QED
    BY <2>2, <2>3 DEF a, all
<1> QED
  BY <1>1, <1>5, <1>6

\* The tier asked for first is one the server may use.
LEMMA TopTierFacts ==
  ASSUME NEW r \in Registries, NEW d, IsFiniteSet(d)
  PROVE  TopTier(r, d) \in TierNames /\ OpenTier(r, TopTier(r, d))
<1> DEFINE s == ScoredTiers(r)
           I == {i \in DOMAIN s : r.optIn \/ s[i] # CloudTier}
           open == At(s, I)
           K == [i \in DOMAIN open |-> TierScore(r, d, open[i])]
           R == {p \in (DOMAIN open) \X (DOMAIN open) : K[p[1]] > K[p[2]] \/ (K[p[1]] = K[p[2]] /\ p[1] < p[2])}
           t == Along(open, DOMAIN open, R)
           first == FirstOr(RoutableTiers(r), NoTier)
<1>1. TopTier(r, d) = IF TierScore(r, d, t[1]) > 0 THEN t[1] ELSE first
  <2>0. Only(s, LAMBDA x : r.optIn \/ x # CloudTier) = open
    BY DEF Only
  <2>1. ByKey(open, LAMBDA x : TierScore(r, d, x)) = R
    BY DEF ByKey
  <2>2. Ranked(open, LAMBDA x : TierScore(r, d, x)) = t
    BY <2>1 DEF Ranked
  <2> QED
    BY <2>0, <2>2 DEF TopTier
<1>2. s \in Seq(TierNames) /\ 1 \in DOMAIN s /\ s[1] = "local"
  BY ScoredTiersFacts
<1> HIDE DEF s
<1>3. I \in SUBSET DOMAIN s /\ 1 \in I /\ \A i \in I : OpenTier(r, s[i])
  BY <1>2 DEF OpenTier, CloudTier
<1> HIDE DEF I
<1>4. ReadsOff(open, s, I, TierNames)
  BY <1>2, <1>3, AtPlaces
<1> HIDE DEF open
<1>5. open \in Seq(TierNames) /\ open # <<>> /\ \A k \in DOMAIN open : OpenTier(r, open[k])
  <2>1. open \in Seq(TierNames) /\ (open = <<>> <=> I = {}) /\ \A k \in DOMAIN open : \E i \in I : open[k] = s[i]
    BY <1>4 DEF ReadsOff
  <2> QED
    BY <1>3, <2>1
<1>6. K \in [DOMAIN open -> Int]
  BY TierScoreFacts
<1> HIDE DEF K
<1>7. ReadsOff(t, open, DOMAIN open, TierNames)
  BY <1>5, <1>6, KeyOrder
<1> HIDE DEF t, R
<1>8. DOMAIN open # {}
  BY <1>5, SeqPlaces
<1>9. t # <<>> /\ t[1] \in TierNames /\ \E i \in DOMAIN open : t[1] = open[i]
  BY <1>7, <1>8, ReadsFirst
<1>10. OpenTier(r, t[1])
  BY <1>5, <1>9
<1>11. first \in TierNames /\ OpenTier(r, first)
  <2>1. RoutableTiers(r) \in Seq(STRING)
        /\ \A k \in DOMAIN RoutableTiers(r) : RoutableTiers(r)[k] \in STRING /\ OpenTier(r, RoutableTiers(r)[k])
    BY RoutableTiersFacts
  <2>2. CASE RoutableTiers(r) = <<>>
    BY <2>2, RegistryAssumption DEF FirstOr, OpenTier, CloudTier, TierNames
  <2>3. CASE RoutableTiers(r) # <<>>
    <3>1. 1 \in DOMAIN RoutableTiers(r)
      BY <2>1, <2>3
    <3> QED
      BY <2>1, <2>3, <3>1 DEF FirstOr, TierNames
  <2> QED
    BY <2>2, <2>3
<1> HIDE DEF first
<1> QED
  BY <1>1, <1>9, <1>10, <1>11

\* The available hosts of a tier are listed there.
LEMMA AvailableFacts ==
  ASSUME NEW r \in Registries, NEW d, NEW t
  PROVE  /\ Available(r, d, t) \in Seq(HostEntry)
         /\ \A k \in DOMAIN Available(r, d, t) : Listed(r, t, Available(r, d, t)[k])
<1> DEFINE s == TierOf(r, t).hosts
           I == {i \in DOMAIN s : s[i].usable /\ AllowedFor(s[i], d)}
<1>1. Available(r, d, t) = At(s, I)
  BY DEF Available, Only
<1>2. s \in Seq(HostEntry) /\ \A j \in DOMAIN s : Listed(r, t, s[j])
  BY TierOfFacts DEF Listed
<1> HIDE DEF s
<1>3. I \in SUBSET DOMAIN s
  OBVIOUS
<1> HIDE DEF I
<1>4. ReadsOff(Available(r, d, t), s, I, HostEntry)
  BY <1>1, <1>2, <1>3, AtPlaces
<1>5. /\ Available(r, d, t) \in Seq(HostEntry)
      /\ \A k \in DOMAIN Available(r, d, t) : \E i \in I : Available(r, d, t)[k] = s[i]
  BY <1>4 DEF ReadsOff
<1> QED
  BY <1>2, <1>3, <1>5

\* The best of some hosts is one of them.
LEMMA BestHostFacts ==
  ASSUME NEW s \in Seq(HostEntry)
  PROVE  /\ s = <<>> => FirstOr(Ranked(s, Score), NoHost) = NoHost
         /\ s # <<>> => \E i \in DOMAIN s : FirstOr(Ranked(s, Score), NoHost) = s[i]
<1> DEFINE K == [i \in DOMAIN s |-> Score(s[i])]
           R == {p \in (DOMAIN s) \X (DOMAIN s) : K[p[1]] > K[p[2]] \/ (K[p[1]] = K[p[2]] /\ p[1] < p[2])}
           t == Along(s, DOMAIN s, R)
<1>1. Ranked(s, Score) = t
  <2>1. ByKey(s, Score) = R
    BY DEF ByKey
  <2> QED
    BY <2>1 DEF Ranked
<1>2. K \in [DOMAIN s -> Int]
  BY ScoreFacts
<1> HIDE DEF K
<1>3. ReadsOff(t, s, DOMAIN s, HostEntry)
  BY <1>2, KeyOrder
<1> HIDE DEF t
<1>4. s = <<>> <=> DOMAIN s = {}
  BY SeqPlaces
<1> QED
  BY <1>1, <1>3, <1>4, ReadsFirst

\* A host, if there is one, of a tier that is open, with a model of its own.
AtHome(r, h, m) ==
  h # NoHost =>
    /\ h \in HostEntry /\ m \notin Proxied
    /\ \E t : OpenTier(r, t) /\ Listed(r, t, h)

\* The tiers of a task, the one it asks for first, and the first of them with a host for it.
TierList(r, d) ==
  <<TopTier(r, d)>> \o At(RoutableTiers(r), {i \in DOMAIN RoutableTiers(r) : RoutableTiers(r)[i] # TopTier(r, d)})
\* The first tier of the list with an available host, else the one that scores best.
BestTier(r, d) ==
  FirstOr(At(TierList(r, d), {i \in DOMAIN TierList(r, d) : Available(r, d, TierList(r, d)[i]) # <<>>}), TopTier(r, d))

\* Only open tiers are tried.
LEMMA TierListFacts ==
  ASSUME NEW r \in Registries, NEW d, IsFiniteSet(d)
  PROVE  TierList(r, d) \in Seq(TierNames) /\ \A k \in DOMAIN TierList(r, d) : OpenTier(r, TierList(r, d)[k])
<1> DEFINE asked == TopTier(r, d)
           rts == RoutableTiers(r)
           I == {i \in DOMAIN rts : rts[i] # asked}
           rest == At(rts, I)
           tiers == <<asked>> \o rest
<1>1. TierList(r, d) = tiers
  BY DEF TierList
<1>2. asked \in TierNames /\ OpenTier(r, asked)
  BY TopTierFacts
<1> HIDE DEF asked
<1>3. rts \in Seq(STRING) /\ \A k \in DOMAIN rts : OpenTier(r, rts[k])
  BY RoutableTiersFacts
<1> HIDE DEF rts
<1>4. I \in SUBSET DOMAIN rts
  OBVIOUS
<1> HIDE DEF I
<1>5. ReadsOff(rest, rts, I, STRING)
  BY <1>3, <1>4, AtPlaces
<1>6. rest \in Seq(TierNames) /\ \A k \in DOMAIN rest : OpenTier(r, rest[k])
  <2>1. rest \in Seq(STRING) /\ \A k \in DOMAIN rest : \E i \in I : rest[k] = rts[i]
    BY <1>5 DEF ReadsOff
  <2> HIDE DEF rest
  <2>2. rest \in Seq(TierNames)
    BY <2>1, SeqMonotonic, STRING \subseteq TierNames DEF TierNames
  <2> QED
    BY <1>3, <1>4, <2>1, <2>2
<1> HIDE DEF rest
<1>7. tiers \in Seq(TierNames) /\ \A k \in DOMAIN tiers : OpenTier(r, tiers[k])
  <2> DEFINE one == <<asked>>
  <2>1. one \in Seq(TierNames) /\ \A k \in DOMAIN one : one[k] = asked
    <3>1. one = [k \in 1 .. 1 |-> asked]
      OBVIOUS
    <3> HIDE DEF one
    <3>2. one \in [1 .. 1 -> TierNames]
      BY <1>2, <3>1
    <3>3. one \in Seq(TierNames)
      BY <3>2, SeqDef
    <3> QED
      BY <3>1, <3>3
  <2>15. tiers = one \o rest
    OBVIOUS
  <2> HIDE DEF one, tiers
  <2>2. Joins(one \o rest, one, rest, TierNames)
    BY <1>6, <2>1, ConcatFacts
  <2>3. Joins(tiers, one, rest, TierNames)
    BY <2>15, <2>2
  <2> QED
    BY <1>2, <1>6, <2>1, <2>3 DEF Joins
<1> HIDE DEF tiers
<1> QED
  BY <1>1, <1>7

\* So the one that is picked is open.
LEMMA BestTierFacts ==
  ASSUME NEW r \in Registries, NEW d, IsFiniteSet(d)
  PROVE  OpenTier(r, BestTier(r, d))
<1> DEFINE tiers == TierList(r, d)
           J == {i \in DOMAIN tiers : Available(r, d, tiers[i]) # <<>>}
           able == At(tiers, J)
<1>1. BestTier(r, d) = FirstOr(able, TopTier(r, d))
  BY DEF BestTier
<1>2. tiers \in Seq(TierNames) /\ \A k \in DOMAIN tiers : OpenTier(r, tiers[k])
  BY TierListFacts
<1>3. OpenTier(r, TopTier(r, d))
  BY TopTierFacts
<1> HIDE DEF tiers
<1>4. J \in SUBSET DOMAIN tiers
  OBVIOUS
<1> HIDE DEF J
<1>5. ReadsOff(able, tiers, J, TierNames)
  BY <1>2, <1>4, AtPlaces
<1> HIDE DEF able
<1>6. CASE able = <<>>
  BY <1>1, <1>3, <1>5, <1>6, ReadsFirst
<1>7. CASE able # <<>>
  <2>1. BestTier(r, d) = able[1] /\ \E j \in J : able[1] = tiers[j]
    BY <1>1, <1>5, <1>7, ReadsFirst
  <2> QED
    BY <1>2, <1>4, <2>1
<1> QED
  BY <1>6, <1>7

\* The recommendation, without its fallback.
LEMMA RecommendIs ==
  ASSUME NEW r, NEW d
  PROVE  /\ Recommend(r, d).host = FirstOr(Ranked(Available(r, d, BestTier(r, d)), Score), NoHost)
         /\ Recommend(r, d).model = ModelOf(Recommend(r, d).host, d)
<1> DEFINE asked == TopTier(r, d)
           rts == RoutableTiers(r)
           rest == At(rts, {i \in DOMAIN rts : rts[i] # asked})
           tiers == <<asked>> \o rest
           able == At(tiers, {i \in DOMAIN tiers : Available(r, d, tiers[i]) # <<>>})
           tier == FirstOr(able, asked)
           host == FirstOr(Ranked(Available(r, d, tier), Score), NoHost)
<1>1. Only(rts, LAMBDA t : t # asked) = rest
  BY DEF Only
<1>2. Only(tiers, LAMBDA t : Available(r, d, t) # <<>>) = able
  BY DEF Only
<1>3. tier = BestTier(r, d)
  BY DEF BestTier, TierList
<1> HIDE DEF able, rest
<1>4. Recommend(r, d).host = host /\ Recommend(r, d).model = ModelOf(host, d)
  BY <1>1, <1>2 DEF Recommend
<1> QED
  BY <1>3, <1>4

\* A recommendation stays home.
LEMMA RecommendFacts ==
  ASSUME NEW r \in Registries, NEW d, IsFiniteSet(d)
  PROVE  AtHome(r, Recommend(r, d).host, Recommend(r, d).model)
<1> DEFINE tier == BestTier(r, d)
           s == Available(r, d, tier)
           host == FirstOr(Ranked(s, Score), NoHost)
<1>1. Recommend(r, d).host = host /\ Recommend(r, d).model = ModelOf(host, d)
  BY RecommendIs
<1>2. OpenTier(r, tier)
  BY BestTierFacts
<1> HIDE DEF tier
<1>3. s \in Seq(HostEntry) /\ \A k \in DOMAIN s : Listed(r, tier, s[k])
  BY AvailableFacts
<1> HIDE DEF s
<1>4. host = NoHost \/ (host \in HostEntry /\ Listed(r, tier, host))
  BY <1>3, BestHostFacts
<1> HIDE DEF host
<1>5. host # NoHost => ModelOf(host, d) \notin Proxied
  BY <1>4, ChooseModelFacts DEF ModelOf
<1> QED
  BY <1>1, <1>2, <1>4, <1>5 DEF AtHome

-----------------------------------------------------------------------------
(* The modes: dispatch, architect and editor, competition *)

\* The words a mode adds keep a task class finite.
LEMMA SeedsFinite ==
  ASSUME NEW d, IsFiniteSet(d)
  PROVE  /\ IsFiniteSet(d \cup ArchitectSeed) /\ IsFiniteSet(d \cup EditorSeed) /\ IsFiniteSet(d \cup ReviewSeed)
         /\ \A i \in 1 .. 5 : IsFiniteSet(d \cup CompetitiveSeeds[i])
<1>1. ASSUME NEW a, NEW b, NEW c, NEW e, NEW f, NEW g, NEW h
      PROVE  IsFiniteSet({a, b, c, e, f, g, h})
  <2>1. IsFiniteSet({a})
    BY FS_Singleton
  <2>2. IsFiniteSet({a} \cup {b})
    BY <2>1, FS_AddElement
  <2>3. IsFiniteSet(({a} \cup {b}) \cup {c})
    BY <2>2, FS_AddElement
  <2>4. IsFiniteSet((({a} \cup {b}) \cup {c}) \cup {e})
    BY <2>3, FS_AddElement
  <2>5. IsFiniteSet(((({a} \cup {b}) \cup {c}) \cup {e}) \cup {f})
    BY <2>4, FS_AddElement
  <2>6. IsFiniteSet((((({a} \cup {b}) \cup {c}) \cup {e}) \cup {f}) \cup {g})
    BY <2>5, FS_AddElement
  <2>7. IsFiniteSet(((((({a} \cup {b}) \cup {c}) \cup {e}) \cup {f}) \cup {g}) \cup {h})
    BY <2>6, FS_AddElement
  <2>8. ((((({a} \cup {b}) \cup {c}) \cup {e}) \cup {f}) \cup {g}) \cup {h} = {a, b, c, e, f, g, h}
    OBVIOUS
  <2> QED
    BY <2>7, <2>8
<1>2. \A T : IsFiniteSet(T) => IsFiniteSet(d \cup T)
  BY FS_Union
<1>3. IsFiniteSet(ArchitectSeed)
  BY <1>1 DEF ArchitectSeed
<1>4. IsFiniteSet(EditorSeed)
  <2>1. EditorSeed = {"implement", "code", "edit", "fix", "quick", "fast", "fast"}
    BY DEF EditorSeed
  <2> QED
    BY <1>1, <2>1
<1>5. IsFiniteSet(ReviewSeed)
  <2>1. ReviewSeed = {"review", "verify", "code", "code", "code", "code", "code"}
    BY DEF ReviewSeed
  <2> QED
    BY <1>1, <2>1
<1>6. /\ CompetitiveSeeds[1] = {"fast", "quick", "quick", "quick", "quick", "quick", "quick"}
      /\ CompetitiveSeeds[2] = {"reason", "analy", "analy", "analy", "analy", "analy", "analy"}
      /\ CompetitiveSeeds[3] = {"code", "implement", "build", "build", "build", "build", "build"}
      /\ CompetitiveSeeds[4] = {"review", "fix", "fix", "fix", "fix", "fix", "fix"}
      /\ CompetitiveSeeds[5] = {}
  BY DEF CompetitiveSeeds
<1>7. /\ IsFiniteSet(CompetitiveSeeds[1]) /\ IsFiniteSet(CompetitiveSeeds[2]) /\ IsFiniteSet(CompetitiveSeeds[3])
      /\ IsFiniteSet(CompetitiveSeeds[4]) /\ IsFiniteSet(CompetitiveSeeds[5])
  <2>1. IsFiniteSet(CompetitiveSeeds[1])
    <3>1. IsFiniteSet({"fast", "quick", "quick", "quick", "quick", "quick", "quick"})
      BY <1>1
    <3> QED
      BY <1>6, <3>1, Zenon
  <2>2. IsFiniteSet(CompetitiveSeeds[2])
    <3>1. IsFiniteSet({"reason", "analy", "analy", "analy", "analy", "analy", "analy"})
      BY <1>1
    <3> QED
      BY <1>6, <3>1, Zenon
  <2>3. IsFiniteSet(CompetitiveSeeds[3])
    <3>1. IsFiniteSet({"code", "implement", "build", "build", "build", "build", "build"})
      BY <1>1
    <3> QED
      BY <1>6, <3>1, Zenon
  <2>4. IsFiniteSet(CompetitiveSeeds[4])
    <3>1. IsFiniteSet({"review", "fix", "fix", "fix", "fix", "fix", "fix"})
      BY <1>1
    <3> QED
      BY <1>6, <3>1, Zenon
  <2> QED
    BY <1>6, <2>1, <2>2, <2>3, <2>4, FS_EmptySet
<1>8. \A i \in 1 .. 5 : IsFiniteSet(CompetitiveSeeds[i])
  <2>1. \A i \in 1 .. 5 : i = 1 \/ i = 2 \/ i = 3 \/ i = 4 \/ i = 5
    OBVIOUS
  <2> QED
    BY <1>7, <2>1
<1> QED
  BY <1>2, <1>3, <1>4, <1>5, <1>8

\* A host preferred by name stays home too.
LEMMA PreferredFacts ==
  ASSUME reg \in Registries, NEW d, IsFiniteSet(d), NEW id
  PROVE  LET lane == Preferred(Recommend(reg, d), id, d) IN AtHome(reg, lane.host, lane.model)
<1> DEFINE found == IF id = NoHost THEN NoHost ELSE FindHost(reg, id)
           routed == Recommend(reg, d)
           lane == Preferred(routed, id, d)
<1> SUFFICES AtHome(reg, lane.host, lane.model)
  OBVIOUS
<1>1. lane = IF found # NoHost /\ found.tier \in Range(RoutableTiers(reg)) /\ found.host.usable
               THEN [host |-> found.host, model |-> ChooseModel(found.host, d)] ELSE Routed(routed)
  BY DEF Preferred
<1>2. AtHome(reg, routed.host, routed.model)
  BY RecommendFacts
<1>3. found # NoHost => found \in RouteLane /\ Listed(reg, found.tier, found.host)
  BY FindHostFacts
<1>4. \A t \in Range(RoutableTiers(reg)) : OpenTier(reg, t)
  BY RoutableTiersFacts DEF Range
<1> HIDE DEF found, routed
<1>5. CASE found # NoHost /\ found.tier \in Range(RoutableTiers(reg)) /\ found.host.usable
  <2>1. lane.host = found.host /\ lane.model = ChooseModel(found.host, d)
    BY <1>1, <1>5
  <2>2. found.host \in HostEntry
    BY <1>3, <1>5 DEF RouteLane
  <2>3. ChooseModel(found.host, d) \notin Proxied
    BY <2>2, ChooseModelFacts
  <2> HIDE DEF lane
  <2> QED
    BY <1>3, <1>4, <1>5, <2>1, <2>2, <2>3 DEF AtHome
<1>6. CASE ~ (found # NoHost /\ found.tier \in Range(RoutableTiers(reg)) /\ found.host.usable)
  <2>1. lane.host = routed.host /\ lane.model = routed.model
    BY <1>1, <1>6 DEF Routed
  <2> HIDE DEF lane
  <2> QED
    BY <1>2, <2>1
<1> QED
  BY <1>5, <1>6

\* All the lanes of an answer are at home.
AllHome(r, lanes) == \A i \in DOMAIN lanes : AtHome(r, lanes[i].host, lanes[i].model)

\* One lane at home.
LEMMA OneLane ==
  ASSUME NEW r, NEW lane, AtHome(r, lane.host, lane.model)
  PROVE  AllHome(r, <<lane>>)
<1>1. DOMAIN <<lane>> = 1 .. 1 /\ <<lane>>[1] = lane
  OBVIOUS
<1> QED
  BY <1>1 DEF AllHome

\* Two lanes at home.
LEMMA TwoLanes ==
  ASSUME NEW r, NEW a, NEW b, AtHome(r, a.host, a.model), AtHome(r, b.host, b.model)
  PROVE  AllHome(r, <<a, b>>)
<1> DEFINE s == <<a, b>>
<1>1. DOMAIN s = 1 .. 2 /\ s[1] = a /\ s[2] = b
  OBVIOUS
<1>2. \A i \in 1 .. 2 : i = 1 \/ i = 2
  OBVIOUS
<1> HIDE DEF s
<1>3. AllHome(r, s)
  BY <1>1, <1>2 DEF AllHome
<1> QED
  BY <1>3 DEF s

\* The competitors stay home.
LEMMA CompetitiveFacts ==
  ASSUME reg \in Registries, NEW d, IsFiniteSet(d), NEW n \in 2 .. Len(CompetitiveSeeds)
  PROVE  AllHome(reg, Competitive(d, n))
<1> DEFINE lane(i) == Routed(Recommend(reg, d \cup CompetitiveSeeds[i]))
           s == [i \in 1 .. n |-> i]
           I == {i \in DOMAIN s : \A j \in 1 .. s[i] - 1 : lane(j) # lane(s[i])}
           kept == At(s, I)
           u == [i \in DOMAIN kept |-> lane(kept[i])]
<1>1. Competitive(d, n) = u
  <2>1. Only(s, LAMBDA i : \A j \in 1 .. i - 1 : lane(j) # lane(i)) = kept
    BY DEF Only
  <2> HIDE DEF kept
  <2> QED
    BY <2>1 DEF Competitive
<1>2. Len(CompetitiveSeeds) = 5
  BY DEF CompetitiveSeeds
<1>3. n \in Nat /\ n <= 5
  BY <1>2
<1>4. s \in Seq(1 .. 5)
  <2>1. s \in [1 .. n -> 1 .. 5]
    BY <1>3
  <2> HIDE DEF s
  <2> QED
    BY <1>3, <2>1, SeqDef
<1>5. \A i \in 1 .. 5 : AtHome(reg, lane(i).host, lane(i).model)
  <2> TAKE i \in 1 .. 5
  <2>1. IsFiniteSet(d \cup CompetitiveSeeds[i])
    BY SeedsFinite
  <2>2. AtHome(reg, Recommend(reg, d \cup CompetitiveSeeds[i]).host, Recommend(reg, d \cup CompetitiveSeeds[i]).model)
    BY <2>1, RecommendFacts
  <2> QED
    BY <2>2 DEF Routed
<1> HIDE DEF lane
<1>6. I \in SUBSET DOMAIN s
  OBVIOUS
<1> HIDE DEF I, s
<1>7. kept \in Seq(1 .. 5)
  BY <1>4, <1>6, AtPlaces DEF ReadsOff
<1> HIDE DEF kept
<1>8. \A i \in DOMAIN u : u[i] = lane(kept[i]) /\ kept[i] \in 1 .. 5
  BY <1>7
<1> HIDE DEF u
<1> QED
  BY <1>1, <1>5, <1>8 DEF AllHome

-----------------------------------------------------------------------------
(* The review of another author's work *)

\* The models of a host another author may review with.
LEMMA EligibleFacts ==
  ASSUME NEW h \in HostEntry, NEW author
  PROVE  /\ Eligible(h, author) \in Seq(ModelEntry)
         /\ Range(Eligible(h, author)) = {m \in OwnModels(h) : m.name # author}
         /\ Eligible(h, author) = <<>> <=> {m \in OwnModels(h) : m.name # author} = {}
<1> DEFINE s == Own(h)
           I == {i \in DOMAIN s : s[i].name # author}
<1>1. Eligible(h, author) = At(s, I)
  BY DEF Eligible, Only
<1>2. s \in Seq(ModelEntry) /\ Range(s) = OwnModels(h)
  BY OwnFacts
<1> HIDE DEF s
<1>3. I \in SUBSET DOMAIN s /\ \A i \in DOMAIN s : i \in I <=> s[i].name # author
  OBVIOUS
<1> HIDE DEF I
<1>4. /\ At(s, I) \in Seq(ModelEntry)
      /\ \A x : x \in Range(At(s, I)) <=> \E i \in I : x = s[i]
      /\ At(s, I) = <<>> <=> Range(At(s, I)) = {}
  BY <1>2, <1>3, FilterFacts
<1>5. ASSUME NEW x PROVE x \in Range(At(s, I)) <=> x \in {m \in OwnModels(h) : m.name # author}
  <2>1. x \in OwnModels(h) <=> \E i \in DOMAIN s : x = s[i]
    BY <1>2 DEF Range
  <2>2. x \in Range(At(s, I)) <=> \E i \in I : x = s[i]
    BY <1>4
  <2> QED
    BY <1>3, <2>1, <2>2
<1>6. Range(At(s, I)) = {m \in OwnModels(h) : m.name # author}
  BY <1>5
<1> QED
  BY <1>1, <1>4, <1>6

\* The reviewers are other lanes, if there are any, and another host when one is left.
LEMMA ReviewersFacts ==
  ASSUME reg \in Registries, NEW author, NEW host
  PROVE  /\ Reviewers(author, host) \in Seq(RouteLane)
         /\ Range(Reviewers(author, host)) \subseteq Others(author)
         /\ Reviewers(author, host) = <<>> <=> Others(author) = {}
         /\ (\E l \in Range(Reviewers(author, host)) : l.host.id = host) =>
               \A l \in Others(author) : l.host.id = host
<1> DEFINE s == RoutableLanes(reg)
           Able(l) == l.host.usable /\ Eligible(l.host, author) # <<>>
           I == {i \in DOMAIN s : Able(s[i])}
           lanes == At(s, I)
           J == {i \in DOMAIN lanes : lanes[i].host.id # host}
           off == At(lanes, J)
           result == IF off = <<>> THEN lanes ELSE off
<1>1. Reviewers(author, host) = result
  <2>1. Only(s, LAMBDA l : l.host.usable /\ Eligible(l.host, author) # <<>>) = lanes
    BY DEF Only
  <2>2. Only(lanes, LAMBDA l : l.host.id # host) = off
    BY DEF Only
  <2> HIDE DEF lanes, off
  <2>3. Preferring(lanes, LAMBDA l : l.host.id # host) = IF off = <<>> THEN lanes ELSE off
    BY <2>2 DEF Preferring
  <2> QED
    BY <2>1, <2>3 DEF Reviewers
<1>2. s \in Seq(RouteLane)
  BY RoutableLanesFacts
<1>3. \A l \in RouteLane : Able(l) <=> l.host.usable /\ \E m \in Range(l.host.models) : m.name \notin Proxied \cup {NoModel, author}
  <2> TAKE l \in RouteLane
  <2>1. l.host \in HostEntry
    BY DEF RouteLane
  <2>2. Eligible(l.host, author) = <<>> <=> {m \in OwnModels(l.host) : m.name # author} = {}
    BY <2>1, EligibleFacts
  <2>3. {m \in OwnModels(l.host) : m.name # author} = {} <=>
           ~ \E m \in Range(l.host.models) : m.name \notin Proxied \cup {NoModel, author}
    BY DEF OwnModels
  <2> QED
    BY <2>2, <2>3
<1>4. \A l : l \in Others(author) <=> \E i \in I : l = s[i]
  <2>1. \A i \in DOMAIN s : s[i] \in RouteLane
    BY <1>2
  <2> HIDE DEF Able, s
  <2>2. \A l : l \in Range(s) <=> \E i \in DOMAIN s : l = s[i]
    BY DEF Range
  <2>3. \A l : l \in Others(author) <=> l \in Range(s) /\ l.host.usable /\ \E m \in Range(l.host.models) : m.name \notin Proxied \cup {NoModel, author}
    BY DEF Others, s
  <2> QED
    BY <1>3, <2>1, <2>2, <2>3
<1>5. I \in SUBSET DOMAIN s
  OBVIOUS
<1> HIDE DEF s, I, Able
<1>6. /\ lanes \in Seq(RouteLane)
      /\ \A x : x \in Range(lanes) <=> \E i \in I : x = s[i]
      /\ lanes = <<>> <=> Range(lanes) = {}
  BY <1>2, <1>5, FilterFacts
<1>7. J \in SUBSET DOMAIN lanes /\ \A i \in DOMAIN lanes : i \in J <=> lanes[i].host.id # host
  OBVIOUS
<1> HIDE DEF lanes, J
<1>8. /\ off \in Seq(RouteLane)
      /\ \A x : x \in Range(off) <=> \E i \in J : x = lanes[i]
      /\ off = <<>> <=> Range(off) = {}
  BY <1>6, <1>7, FilterFacts
<1> HIDE DEF off
<1>9. Range(lanes) = Others(author)
  BY <1>4, <1>6
<1>10. \A x : x \in Range(off) <=> x \in Range(lanes) /\ x.host.id # host
  BY <1>7, <1>8 DEF Range
<1>11. CASE off = <<>>
  <2>1. result = lanes
    BY <1>11
  <2>2. \A l \in Others(author) : l.host.id = host
    BY <1>8, <1>9, <1>10, <1>11
  <2> HIDE DEF result
  <2> QED
    BY <1>1, <1>6, <1>9, <2>1, <2>2
<1>12. CASE off # <<>>
  <2>1. result = off
    BY <1>12
  <2> HIDE DEF result
  <2>2. Range(off) \subseteq Others(author) /\ Others(author) # {}
    BY <1>8, <1>9, <1>10, <1>12
  <2> QED
    BY <1>1, <1>8, <1>10, <1>12, <2>1, <2>2
<1> QED
  BY <1>11, <1>12

\* The best lane is one of the lanes.
LEMMA BestLaneFacts ==
  ASSUME NEW S \in SUBSET RouteLane, NEW s \in Seq(S)
  PROVE  /\ BestFirst(s) \in Seq(S)
         /\ Len(BestFirst(s)) = Len(s)
         /\ \A k \in DOMAIN BestFirst(s) :
              \E i \in DOMAIN s : BestFirst(s)[k] = s[i]
<1> DEFINE K == [i \in DOMAIN s |-> Score(s[i].host)]
           R == {p \in (DOMAIN s) \X (DOMAIN s) : K[p[1]] > K[p[2]] \/ (K[p[1]] = K[p[2]] /\ p[1] < p[2])}
           t == Along(s, DOMAIN s, R)
<1>1. BestFirst(s) = t
  <2>1. ByKey(s, LAMBDA l : Score(l.host)) = R
    BY DEF ByKey
  <2> QED
    BY <2>1 DEF BestFirst, Ranked
<1>2. K \in [DOMAIN s -> Int]
  <2>1. \A i \in DOMAIN s : s[i] \in RouteLane
    OBVIOUS
  <2>2. \A i \in DOMAIN s : s[i].host \in HostEntry
    BY <2>1 DEF RouteLane
  <2> QED
    BY <2>2, ScoreFacts
<1> HIDE DEF K
<1>3. ReadsOff(t, s, DOMAIN s, S)
  BY <1>2, KeyOrder
<1> HIDE DEF t
<1>4. t \in Seq(S) /\ Len(t) = Len(s) /\ \A k \in DOMAIN t : \E i \in DOMAIN s : t[k] = s[i]
  BY <1>3, SeqPlaces DEF ReadsOff
<1> QED
  BY <1>1, <1>4

\* The reviewing model is not the author and no proxy.
LEMMA ReviewModelFacts ==
  ASSUME NEW h \in HostEntry, NEW d, NEW author, {m \in OwnModels(h) : m.name # author} # {}
  PROVE  ReviewModel(h, d, author) # author /\ ReviewModel(h, d, author) \notin Proxied
<1> DEFINE s == Eligible(h, author)
           names == {m.name : m \in Range(s)}
           usual == ChooseModel(h, d)
<1>1. ReviewModel(h, d, author) = IF usual \in names THEN usual ELSE s[1].name
  BY DEF ReviewModel
<1>2. s \in Seq(ModelEntry) /\ s # <<>> /\ Range(s) = {m \in OwnModels(h) : m.name # author}
  BY EligibleFacts
<1> HIDE DEF s, usual
<1>3. 1 \in DOMAIN s
  BY <1>2
<1>4. s[1] \in Range(s)
  BY <1>3 DEF Range
<1> QED
  BY <1>1, <1>2, <1>4 DEF OwnModels

\* A review that is home and diverse, or says that it is not.
ReviewOk(v, author, host) ==
  /\ AtHome(reg, v.lane.host, v.lane.model)
  /\ author # NoModel =>
       \/ /\ v.diversity = "distinct"
          /\ v.lane.model # author /\ v.lane.host \in {l.host : l \in Others(author)}
          /\ v.lane.host.id = host => \A l \in Others(author) : l.host.id = host
       \/ v.diversity = "same-model" /\ Others(author) = {}

\* Every review is.
LEMMA ReviewFacts ==
  ASSUME reg \in Registries, NEW d, IsFiniteSet(d), NEW author, NEW host
  PROVE  ReviewOk(Review(d, author, host), author, host)
<1> DEFINE task == d \cup ReviewSeed
           routed == Recommend(reg, task)
           plain == Routed(routed)
           lanes == Reviewers(author, host)
           host1 == BestFirst(lanes)[1].host
           v == Review(d, author, host)
<1> SUFFICES ReviewOk(v, author, host)
  OBVIOUS
<1>1. v = IF author = NoModel /\ host = NoHost THEN [lane |-> plain, diversity |-> "unknown-author"]
          ELSE IF lanes = <<>> THEN [lane |-> plain, diversity |-> "same-model"]
          ELSE [lane |-> [host |-> host1, model |-> ReviewModel(host1, task, author)],
                diversity |-> IF author = NoModel THEN "unknown-author" ELSE "distinct"]
  BY DEF Review
<1>2. AtHome(reg, plain.host, plain.model)
  <2>1. IsFiniteSet(task)
    BY SeedsFinite
  <2> HIDE DEF task
  <2>2. AtHome(reg, routed.host, routed.model)
    BY <2>1, RecommendFacts
  <2> HIDE DEF routed
  <2> QED
    BY <2>2 DEF Routed
<1>3. /\ lanes \in Seq(RouteLane) /\ Range(lanes) \subseteq Others(author)
      /\ lanes = <<>> <=> Others(author) = {}
      /\ (\E l \in Range(lanes) : l.host.id = host) => \A l \in Others(author) : l.host.id = host
  BY ReviewersFacts
<1> HIDE DEF task, routed, plain, lanes
<1>4. CASE lanes # <<>>
  <2>1. /\ BestFirst(lanes) \in Seq(RouteLane) /\ Len(BestFirst(lanes)) = Len(lanes)
        /\ \A k \in DOMAIN BestFirst(lanes) : \E i \in DOMAIN lanes : BestFirst(lanes)[k] = lanes[i]
    BY <1>3, BestLaneFacts
  <2>2. 1 \in DOMAIN BestFirst(lanes)
    BY <1>3, <1>4, <2>1
  <2>3. PICK l \in Range(lanes) : BestFirst(lanes)[1] = l
    BY <2>1, <2>2 DEF Range
  <2>4. host1 = l.host /\ l \in Others(author) /\ l \in Range(RoutableLanes(reg))
        /\ \E m \in Range(l.host.models) : m.name \notin Proxied \cup {NoModel, author}
    BY <1>3, <2>3 DEF Others
  <2>5. PICK k \in DOMAIN RoutableLanes(reg) : l = RoutableLanes(reg)[k]
    BY <2>4 DEF Range
  <2>6. l \in RouteLane /\ OpenTier(reg, l.tier) /\ Listed(reg, l.tier, l.host)
    BY <2>5, RoutableLanesFacts
  <2>7. host1 \in HostEntry
    BY <2>4, <2>6 DEF RouteLane
  <2>8. {m \in OwnModels(host1) : m.name # author} # {}
    BY <2>4 DEF OwnModels
  <2> HIDE DEF host1
  <2>9. ReviewModel(host1, task, author) # author /\ ReviewModel(host1, task, author) \notin Proxied
    BY <2>7, <2>8, ReviewModelFacts
  <2>10. AtHome(reg, host1, ReviewModel(host1, task, author))
    BY <2>4, <2>6, <2>7, <2>9 DEF AtHome
  <2>11. host1.id = host => \A x \in Others(author) : x.host.id = host
    BY <1>3, <2>3, <2>4
  <2>12. host1 \in {x.host : x \in Others(author)}
    BY <2>4
  <2>13. CASE author = NoModel /\ host = NoHost
    <3>1. v.lane = plain
      BY <1>1, <2>13
    <3> HIDE DEF v
    <3> QED
      BY <1>2, <2>13, <3>1 DEF ReviewOk
  <2>14. CASE ~ (author = NoModel /\ host = NoHost)
    <3>1. /\ v.lane.host = host1 /\ v.lane.model = ReviewModel(host1, task, author)
          /\ author # NoModel => v.diversity = "distinct"
      BY <1>1, <1>4, <2>14
    <3> HIDE DEF v
    <3> QED
      BY <2>9, <2>10, <2>11, <2>12, <3>1 DEF ReviewOk
  <2> QED
    BY <2>13, <2>14
<1>5. CASE lanes = <<>>
  <2>1. Others(author) = {}
    BY <1>3, <1>5
  <2>2. v.lane = plain /\ (author # NoModel => v.diversity = "same-model")
    BY <1>1, <1>5
  <2> HIDE DEF v
  <2> QED
    BY <1>2, <2>1, <2>2 DEF ReviewOk
<1> QED
  BY <1>4, <1>5

\* What is home does not leave for the cloud unasked.
LEMMA HomeStays ==
  ASSUME NEW lane, AtHome(reg, lane.host, lane.model)
  PROVE  StaysHome(lane)
<1>1. CASE lane.host # NoHost
  <2>1. PICK t : OpenTier(reg, t) /\ Listed(reg, t, lane.host)
    BY <1>1 DEF AtHome
  <2>2. PICK x \in Range(reg.tiers) : x.id = t /\ lane.host \in Range(x.hosts)
    BY <2>1 DEF Listed
  <2>3. x.id = CloudTier => reg.optIn
    BY <2>1, <2>2 DEF OpenTier
  <2> QED
    BY <1>1, <2>2, <2>3 DEF AtHome, StaysHome
<1> QED
  BY <1>1 DEF StaysHome

\* The calls of route_task keep to the machines of the stack.
ModesHome == AllHome(reg, reply.lanes)

\* Every mode keeps its part of the invariant.
LEMMA ModesKeep ==
  ASSUME reg \in Registries, ModesStep
  PROVE  ModesHome' /\ ReviewIsDiverse'
<1>1. reg' = reg
  BY DEF ModesStep
<1>0. \A d \in Descriptions : IsFiniteSet(d)
  BY RegistryAssumption
<1>2. CASE RouteTask
  <2>1. PICK d \in Descriptions : reply' = [mode |-> "default", lanes |-> <<Routed(Recommend(reg, d))>>]
    BY <1>2 DEF RouteTask
  <2> DEFINE routed == Recommend(reg, d)
             lane == Routed(routed)
  <2>2. AtHome(reg, routed.host, routed.model)
    BY <1>0, RecommendFacts
  <2>3. reply'.lanes = <<lane>> /\ reply'.mode = "default"
    BY <2>1
  <2> HIDE DEF routed
  <2>4. AtHome(reg, lane.host, lane.model)
    BY <2>2 DEF Routed
  <2> HIDE DEF lane
  <2>5. AllHome(reg, <<lane>>)
    BY <2>4, OneLane
  <2> QED
    BY <1>1, <2>3, <2>5 DEF ModesHome, ReviewIsDiverse
<1>3. CASE RouteArchitectEditor
  <2>1. PICK d \in Descriptions, a \in NamedHosts, e \in NamedHosts :
          reply' = [mode |-> "architect-editor", lanes |-> ArchitectEditor(d, a, e)]
    BY <1>3 DEF RouteArchitectEditor
  <2> DEFINE d1 == d \cup ArchitectSeed
             d2 == d \cup EditorSeed
             l1 == Preferred(Recommend(reg, d1), a, d1)
             l2 == Preferred(Recommend(reg, d2), e, d2)
  <2>2. reply'.lanes = <<l1, l2>> /\ reply'.mode = "architect-editor"
    BY <2>1 DEF ArchitectEditor
  <2>3. IsFiniteSet(d1) /\ IsFiniteSet(d2)
    BY <1>0, SeedsFinite
  <2> HIDE DEF d1, d2
  <2>4. AtHome(reg, l1.host, l1.model) /\ AtHome(reg, l2.host, l2.model)
    BY <2>3, PreferredFacts
  <2> HIDE DEF l1, l2
  <2>5. AllHome(reg, <<l1, l2>>)
    BY <2>4, TwoLanes
  <2> QED
    BY <1>1, <2>2, <2>5 DEF ModesHome, ReviewIsDiverse
<1>4. CASE RouteCompetitive
  <2>1. PICK d \in Descriptions, n \in 2 .. Len(CompetitiveSeeds) :
          reply' = [mode |-> "competitive", lanes |-> Competitive(d, n)]
    BY <1>4 DEF RouteCompetitive
  <2>2. reply'.lanes = Competitive(d, n) /\ reply'.mode = "competitive"
    BY <2>1
  <2>3. AllHome(reg, Competitive(d, n))
    BY <1>0, CompetitiveFacts
  <2> QED
    BY <1>1, <2>2, <2>3 DEF ModesHome, ReviewIsDiverse
<1>5. CASE RouteReview
  <2>1. PICK d \in Descriptions, author \in Authors, host \in NamedHosts :
          LET review == Review(d, author, host)
          IN  reply' = [mode |-> "review", lanes |-> <<review.lane>>, diversity |-> review.diversity,
                        author |-> author, authorHost |-> host]
    BY <1>5 DEF RouteReview
  <2> DEFINE v == Review(d, author, host)
             lane == v.lane
             s == <<lane>>
  <2>2. /\ reply'.lanes = s /\ reply'.diversity = v.diversity
        /\ reply'.author = author /\ reply'.authorHost = host
    BY <2>1
  <2>3. ReviewOk(v, author, host)
    BY <1>0, ReviewFacts
  <2>4. s[1] = lane
    OBVIOUS
  <2> HIDE DEF v
  <2>5. AtHome(reg, lane.host, lane.model)
    BY <2>3 DEF ReviewOk
  <2>6. AllHome(reg, s)
    <3> HIDE DEF lane
    <3> QED
      BY <2>5, OneLane
  <2>7. author # NoModel =>
          \/ /\ v.diversity = "distinct"
             /\ lane.model # author /\ lane.host \in {l.host : l \in Others(author)}
             /\ lane.host.id = host => \A l \in Others(author) : l.host.id = host
          \/ v.diversity = "same-model" /\ Others(author) = {}
    BY <2>3 DEF ReviewOk
  <2>8. Others(author)' = Others(author)
    BY <1>1 DEF Others
  <2> HIDE DEF lane, s
  <2>9. ReviewIsDiverse'
    BY <2>2, <2>4, <2>7, <2>8 DEF ReviewIsDiverse
  <2> QED
    BY <1>1, <2>2, <2>6, <2>9 DEF ModesHome
<1> QED
  BY <1>2, <1>3, <1>4, <1>5 DEF ModesStep

-----------------------------------------------------------------------------
(* The schedule *)

\* Of two fractions of natural numbers, and a third.
LEMMA Fractions ==
  ASSUME NEW a \in Nat, NEW b \in Nat, NEW x \in Nat, NEW y \in Nat, NEW u \in Nat, NEW v \in Nat,
         b > 0, y > 0, v > 0
  PROVE  /\ a * y < x * b /\ x * v <= u * y => a * v < u * b
         /\ a * y <= x * b /\ x * v < u * y => a * v < u * b
         /\ a * y <= x * b /\ x * v <= u * y => a * v <= u * b
<1> DEFINE p == a * v
           q == u * b
<1>1. p \in Nat /\ q \in Nat /\ a * y \in Nat /\ x * b \in Nat /\ x * v \in Nat /\ u * y \in Nat
  OBVIOUS
<1>2. (a * y) * v = y * p /\ (u * y) * b = y * q /\ (x * b) * v = (x * v) * b
  OBVIOUS
<1>3. \A k, l, m \in Nat : m > 0 /\ k < l => k * m < l * m
  OBVIOUS
<1>4. \A k, l, m \in Nat : k <= l => k * m <= l * m
  OBVIOUS
<1>5. \A k, l, m \in Nat : m > 0 /\ m * k < m * l => k < l
  OBVIOUS
<1>6. \A k, l, m \in Nat : m > 0 /\ m * k <= m * l => k <= l
  OBVIOUS
<1>7. (a * y) * v \in Nat /\ (x * b) * v \in Nat /\ (x * v) * b \in Nat /\ (u * y) * b \in Nat
  OBVIOUS
<1>8. ASSUME a * y < x * b, x * v <= u * y PROVE p < q
  <2>1. (a * y) * v < (x * b) * v /\ (x * v) * b <= (u * y) * b
    BY <1>1, <1>3, <1>4, <1>8
  <2>2. y * p < y * q
    BY <1>2, <1>7, <2>1
  <2> HIDE DEF p, q
  <2> QED
    BY <1>1, <1>5, <2>2
<1>9. ASSUME a * y <= x * b, x * v < u * y PROVE p < q
  <2>1. (a * y) * v <= (x * b) * v /\ (x * v) * b < (u * y) * b
    BY <1>1, <1>3, <1>4, <1>9
  <2>2. y * p < y * q
    BY <1>2, <1>7, <2>1
  <2> HIDE DEF p, q
  <2> QED
    BY <1>1, <1>5, <2>2
<1>10. ASSUME a * y <= x * b, x * v <= u * y PROVE p <= q
  <2>1. (a * y) * v <= (x * b) * v /\ (x * v) * b <= (u * y) * b
    BY <1>1, <1>4, <1>10
  <2>2. y * p <= y * q
    BY <1>2, <1>7, <2>1
  <2> HIDE DEF p, q
  <2> QED
    BY <1>1, <1>6, <2>2
<1> QED
  BY <1>8, <1>9, <1>10

\* A slice on a host.
Placement == [host : HostEntry \cup {NoHost}, model : STRING \cup {NoModel}, wave : Int, slot : Int]

\* Slices are placed in order, one at a time.
PlacedType == placed \in Seq(Placement) /\ slices \in Seq(Slices) /\ Len(placed) <= Len(slices)

\* The load of a host is a count.
LEMMA LoadFacts ==
  ASSUME placed \in Seq(Placement), NEW h
  PROVE  Load(h) \in Nat /\ (placed = <<>> => Load(h) = 0)
<1> DEFINE I == {i \in DOMAIN placed : placed[i].host = h}
<1>1. I \in SUBSET DOMAIN placed /\ IsFiniteSet(DOMAIN placed)
  BY SeqPlaces
<1>2. placed = <<>> => I = {}
  BY SeqPlaces
<1>3. Load(h) = Cardinality(I)
  BY DEF Load
<1> HIDE DEF I
<1> QED
  BY <1>1, <1>2, <1>3, FS_Subset, FS_CardinalityType, FS_EmptySet

\* The order in which the hosts of a slice are looked at.
LoadOrder(hosts) ==
  {p \in (DOMAIN hosts) \X (DOMAIN hosts) :
     Leads(hosts[p[1]], hosts[p[2]]) \/ (~Leads(hosts[p[2]], hosts[p[1]]) /\ p[1] < p[2])}

\* The hosts are led by the least loaded in proportion, ties by place: a strict order.
LEMMA LeadsOrder ==
  ASSUME placed \in Seq(Placement), NEW hosts \in Seq(HostEntry)
  PROVE  StrictOrder(DOMAIN hosts, LoadOrder(hosts))
<1> DEFINE I == DOMAIN hosts
           n == [i \in I |-> Load(hosts[i])]
           c == [i \in I |-> Capacity(hosts[i])]
           s == [i \in I |-> Score(hosts[i])]
           Under(i, j) == n[i] * c[j] < n[j] * c[i] \/ (n[i] * c[j] = n[j] * c[i] /\ s[i] > s[j])
           R == {p \in I \X I : Under(p[1], p[2]) \/ (~Under(p[2], p[1]) /\ p[1] < p[2])}
<1>1. \A i \in I : n[i] \in Nat /\ c[i] \in Nat /\ c[i] > 0 /\ s[i] \in Int /\ i \in Nat
  <2> TAKE i \in I
  <2>1. hosts[i] \in HostEntry /\ i \in Nat
    OBVIOUS
  <2> QED
    BY <2>1, LoadFacts, ScoreFacts
<1>2. LoadOrder(hosts) = R
  BY DEF LoadOrder, Leads
<1> HIDE DEF I, n, c, s
<1>3. \A i, j \in I : n[i] * c[j] \in Nat
  BY <1>1
<1>4. \A i, j \in I : ~ (Under(i, j) /\ Under(j, i))
  <2> TAKE i \in I, j \in I
  <2> DEFINE ij == n[i] * c[j]
             ji == n[j] * c[i]
  <2>1. ij \in Nat /\ ji \in Nat /\ s[i] \in Int /\ s[j] \in Int
    BY <1>1, <1>3
  <2>2. /\ Under(i, j) <=> (ij < ji \/ (ij = ji /\ s[i] > s[j]))
        /\ Under(j, i) <=> (ji < ij \/ (ji = ij /\ s[j] > s[i]))
    OBVIOUS
  <2> HIDE DEF Under, ij, ji
  <2> QED
    BY <2>1, <2>2
<1>5. \A i \in I : ~ Under(i, i)
  BY <1>1, <1>3
<1>6. ASSUME NEW i \in I, NEW j \in I, NEW k \in I
      PROVE  /\ ~Under(j, i) /\ ~Under(k, j) => ~Under(k, i)
             /\ Under(i, j) /\ ~Under(k, j) => Under(i, k)
             /\ ~Under(j, i) /\ Under(j, k) => Under(i, k)
  <2>1. /\ n[i] * c[j] < n[j] * c[i] /\ n[j] * c[k] <= n[k] * c[j] => n[i] * c[k] < n[k] * c[i]
        /\ n[i] * c[j] <= n[j] * c[i] /\ n[j] * c[k] < n[k] * c[j] => n[i] * c[k] < n[k] * c[i]
        /\ n[i] * c[j] <= n[j] * c[i] /\ n[j] * c[k] <= n[k] * c[j] => n[i] * c[k] <= n[k] * c[i]
    BY <1>1, Fractions
  <2>2. n[k] * c[j] <= n[j] * c[k] /\ n[j] * c[i] <= n[i] * c[j] => n[k] * c[i] <= n[i] * c[k]
    BY <1>1, Fractions
  <2> DEFINE ij == n[i] * c[j]
             ji == n[j] * c[i]
             jk == n[j] * c[k]
             kj == n[k] * c[j]
             ik == n[i] * c[k]
             ki == n[k] * c[i]
  <2>3. ij \in Nat /\ ji \in Nat /\ jk \in Nat /\ kj \in Nat /\ ik \in Nat /\ ki \in Nat
    BY <1>3
  <2>4. s[i] \in Int /\ s[j] \in Int /\ s[k] \in Int
    BY <1>1
  <2>5. /\ Under(i, j) <=> (ij < ji \/ (ij = ji /\ s[i] > s[j]))
        /\ Under(j, i) <=> (ji < ij \/ (ji = ij /\ s[j] > s[i]))
        /\ Under(j, k) <=> (jk < kj \/ (jk = kj /\ s[j] > s[k]))
        /\ Under(k, j) <=> (kj < jk \/ (kj = jk /\ s[k] > s[j]))
        /\ Under(i, k) <=> (ik < ki \/ (ik = ki /\ s[i] > s[k]))
        /\ Under(k, i) <=> (ki < ik \/ (ki = ik /\ s[k] > s[i]))
    OBVIOUS
  <2>6. /\ ij < ji /\ jk <= kj => ik < ki
        /\ ij <= ji /\ jk < kj => ik < ki
        /\ ij <= ji /\ jk <= kj => ik <= ki
        /\ kj <= jk /\ ji <= ij => ki <= ik
    BY <2>1, <2>2
  <2> HIDE DEF Under, ij, ji, jk, kj, ik, ki
  <2>7. ~Under(j, i) <=> (ij < ji \/ (ij = ji /\ s[i] >= s[j]))
    BY <2>3, <2>4, <2>5
  <2>8. ~Under(k, j) <=> (jk < kj \/ (jk = kj /\ s[j] >= s[k]))
    BY <2>3, <2>4, <2>5
  <2>9. ~Under(k, i) <=> (ik < ki \/ (ik = ki /\ s[i] >= s[k]))
    BY <2>3, <2>4, <2>5
  <2>10. ~Under(j, i) /\ ~Under(k, j) => ~Under(k, i)
    BY <2>3, <2>4, <2>6, <2>7, <2>8, <2>9
  <2>11. Under(i, j) /\ ~Under(k, j) => Under(i, k)
    BY <2>3, <2>4, <2>5, <2>6, <2>8
  <2>12. ~Under(j, i) /\ Under(j, k) => Under(i, k)
    BY <2>3, <2>4, <2>5, <2>6, <2>7
  <2> QED
    BY <2>10, <2>11, <2>12
<1>7. \A i, j \in I : <<i, j>> \in R <=> (Under(i, j) \/ (~Under(j, i) /\ i < j))
  OBVIOUS
<1> HIDE DEF Under, R
<1>8. \A i \in I : <<i, i>> \notin R
  BY <1>1, <1>5, <1>7
<1>9. \A i, j \in I : i # j => <<i, j>> \in R \/ <<j, i>> \in R
  BY <1>1, <1>7
<1>10. \A i, j, k \in I : <<i, j>> \in R /\ <<j, k>> \in R => <<i, k>> \in R
  BY <1>1, <1>4, <1>6, <1>7
<1> QED
  BY <1>2, <1>8, <1>9, <1>10 DEF StrictOrder, I

\* The host chosen is one of those looked at.
LEMMA ChosenFacts ==
  ASSUME placed \in Seq(Placement), NEW hosts \in Seq(HostEntry)
  PROVE  /\ Chosen(hosts) = FirstOr(Along(hosts, DOMAIN hosts, LoadOrder(hosts)), NoHost)
         /\ Chosen(hosts) = NoHost \/ \E i \in DOMAIN hosts : Chosen(hosts) = hosts[i]
<1> DEFINE t == Along(hosts, DOMAIN hosts, LoadOrder(hosts))
<1>1. Chosen(hosts) = FirstOr(t, NoHost)
  BY DEF Chosen, LoadOrder
<1>2. StrictOrder(DOMAIN hosts, LoadOrder(hosts))
  BY LeadsOrder
<1>3. ReadsOff(t, hosts, DOMAIN hosts, HostEntry)
  BY <1>2, SortedPlaces
<1> HIDE DEF t
<1>4. Chosen(hosts) = NoHost \/ \E i \in DOMAIN hosts : Chosen(hosts) = hosts[i]
  BY <1>1, <1>3, ReadsFirst
<1> QED
  BY <1>1, <1>4 DEF t

\* While nothing is placed the order is that of the scores.
LEMMA IdleOrder ==
  ASSUME placed = <<>>, NEW hosts \in Seq(HostEntry)
  PROVE  LoadOrder(hosts) = ByKey(hosts, Score)
<1>0. placed \in Seq(Placement)
  OBVIOUS
<1>1. ASSUME NEW i \in DOMAIN hosts, NEW j \in DOMAIN hosts
      PROVE  /\ Leads(hosts[i], hosts[j]) <=> Score(hosts[i]) > Score(hosts[j])
             /\ Score(hosts[i]) \in Int
  <2>1. hosts[i] \in HostEntry /\ hosts[j] \in HostEntry
    OBVIOUS
  <2>2. Load(hosts[i]) = 0 /\ Load(hosts[j]) = 0
    BY <1>0, LoadFacts
  <2>3. Capacity(hosts[i]) \in Nat /\ Capacity(hosts[j]) \in Nat /\ Score(hosts[i]) \in Int
    BY <2>1, ScoreFacts
  <2> QED
    BY <2>2, <2>3 DEF Leads
<1>2. DOMAIN hosts \subseteq Nat
  BY SeqPlaces
<1>3. ASSUME NEW i \in DOMAIN hosts, NEW j \in DOMAIN hosts
      PROVE  (Leads(hosts[i], hosts[j]) \/ (~Leads(hosts[j], hosts[i]) /\ i < j)) <=>
             (Score(hosts[i]) > Score(hosts[j]) \/ (Score(hosts[i]) = Score(hosts[j]) /\ i < j))
  BY <1>1
<1>4. ASSUME NEW p \in (DOMAIN hosts) \X (DOMAIN hosts)
      PROVE  p \in LoadOrder(hosts) <=> p \in ByKey(hosts, Score)
  BY <1>3 DEF LoadOrder, ByKey
<1>5. LoadOrder(hosts) \subseteq (DOMAIN hosts) \X (DOMAIN hosts) /\ ByKey(hosts, Score) \subseteq (DOMAIN hosts) \X (DOMAIN hosts)
  BY DEF LoadOrder, ByKey
<1> QED
  BY <1>4, <1>5

\* What the second selector calls open is what the first calls available.
LEMMA OpenIsAvailable ==
  ASSUME NEW d, NEW t, OpenTier(reg, t)
  PROVE  Open(d, t) = Available(reg, d, t)
<1> DEFINE s == TierOf(reg, t).hosts
           I == {i \in DOMAIN s : s[i].usable /\ (t = CloudTier => reg.optIn) /\ AllowedFor(s[i], d)}
           J == {i \in DOMAIN s : s[i].usable /\ AllowedFor(s[i], d)}
<1>1. Open(d, t) = At(s, I)
  BY DEF Open, Only
<1>2. Available(reg, d, t) = At(s, J)
  BY DEF Available, Only
<1>3. I = J
  BY DEF OpenTier
<1> QED
  BY <1>1, <1>2, <1>3

\* Both selectors prefer the same tier.
LEMMA PreferredIsTop ==
  ASSUME NEW d
  PROVE  PreferredTier(d) = TopTier(reg, d)
  BY DEF PreferredTier, TopTier

\* The second selector looks at the hosts the first one would take.
LEMMA CandidatesAre ==
  ASSUME reg \in Registries, NEW d, IsFiniteSet(d)
  PROVE  Candidates(d) = Available(reg, d, BestTier(reg, d))
<1> DEFINE first == TopTier(reg, d)
           rts == RoutableTiers(reg)
           rest == At(rts, {i \in DOMAIN rts : rts[i] # first})
           tiers == <<first>> \o rest
           I == {i \in DOMAIN tiers : Open(d, tiers[i]) # <<>>}
           J == {i \in DOMAIN tiers : Available(reg, d, tiers[i]) # <<>>}
<1>1. tiers = TierList(reg, d)
  BY DEF TierList
<1>2. \A k \in DOMAIN tiers : OpenTier(reg, tiers[k])
  BY <1>1, TierListFacts
<1>25. PreferredTier(d) = first
  BY PreferredIsTop
<1>3. Only(rts, LAMBDA t : t # PreferredTier(d)) = rest
  BY <1>25 DEF Only
<1>4. Only(tiers, LAMBDA t : Open(d, t) # <<>>) = At(tiers, I)
  BY DEF Only
<1> HIDE DEF first, rest
<1>5. Candidates(d) = Open(d, FirstOr(At(tiers, I), first))
  BY <1>25, <1>3, <1>4 DEF Candidates
<1> HIDE DEF tiers
<1>6. I = J
  BY <1>2, OpenIsAvailable
<1>7. BestTier(reg, d) = FirstOr(At(tiers, J), first)
  BY <1>1 DEF BestTier, first
<1>8. OpenTier(reg, BestTier(reg, d))
  BY BestTierFacts
<1> HIDE DEF I, J
<1> QED
  BY <1>5, <1>6, <1>7, <1>8, OpenIsAvailable

\* Assignments keep to the machines of the stack.
PlacedHome == \A i \in DOMAIN placed : AtHome(reg, placed[i].host, placed[i].model)

\* The part of the invariant that the schedule keeps.
ScheduleInv == PlacedType /\ PlacedHome /\ SelectorsAgree

\* A host has a model or none.
LEMMA ChooseModelType ==
  ASSUME NEW h \in HostEntry, NEW d
  PROVE  ChooseModel(h, d) \in STRING \cup {NoModel}
<1>1. \A m \in Range(h.models) : m.name \in STRING \cup {NoModel}
  <2>1. h.models \in Seq(ModelEntry)
    BY DEF HostEntry
  <2>2. \A i \in DOMAIN h.models : h.models[i] \in ModelEntry
    BY <2>1
  <2> QED
    BY <2>2 DEF Range, ModelEntry
<1> QED
  BY <1>1, ChooseModelFacts DEF OwnModels

\* A slice is placed on a host at home, on the very one a recommendation names while nothing is loaded.
LEMMA AssignKeeps ==
  ASSUME reg \in Registries, ScheduleInv, Assign, UNCHANGED <<reg, reply>>
  PROVE  ScheduleInv'
<1> DEFINE d == NextSlice
           hosts == Candidates(d)
           host == Chosen(hosts)
           n == Len(placed)
           x == IF host = NoHost THEN [host |-> NoHost, model |-> NoModel, wave |-> 0, slot |-> 0]
                ELSE [host |-> host, model |-> ChooseModel(host, d),
                      wave |-> (Load(host) \div Capacity(host)) + 1,
                      slot |-> (Load(host) % Capacity(host)) + 1]
<1>1. placed \in Seq(Placement) /\ slices \in Seq(Slices) /\ n < Len(slices) /\ PlacedHome /\ SelectorsAgree
  BY DEF ScheduleInv, PlacedType, Assign
<1>2. placed' = Append(placed, x) /\ slices' = slices /\ reg' = reg
  BY DEF Assign
<1>3. d = slices[n + 1].task /\ slices[n + 1] \in Slices
  BY <1>1 DEF NextSlice
<1>4. IsFiniteSet(d)
  BY <1>3, SlicesAssumption
<1> HIDE DEF d
<1>5. hosts = Available(reg, d, BestTier(reg, d))
  BY <1>4, CandidatesAre
<1>6. hosts \in Seq(HostEntry) /\ (\A k \in DOMAIN hosts : Listed(reg, BestTier(reg, d), hosts[k]))
  BY <1>5, AvailableFacts
<1>7. OpenTier(reg, BestTier(reg, d))
  BY <1>4, BestTierFacts
<1> HIDE DEF hosts
<1>8. /\ host = FirstOr(Along(hosts, DOMAIN hosts, LoadOrder(hosts)), NoHost)
      /\ host = NoHost \/ \E i \in DOMAIN hosts : host = hosts[i]
  BY <1>1, <1>6, ChosenFacts
<1> HIDE DEF host
<1>9. host # NoHost => host \in HostEntry /\ Listed(reg, BestTier(reg, d), host)
  BY <1>6, <1>8
<1>10. x.host = host /\ x.model = ModelOf(host, d)
  BY DEF ModelOf
<1>11. AtHome(reg, x.host, x.model)
  <2> HIDE DEF x
  <2> QED
    BY <1>7, <1>9, <1>10, ChooseModelFacts DEF ModelOf, AtHome
<1>12. x \in Placement
  <2>1. CASE host = NoHost
    BY <2>1 DEF Placement
  <2>2. CASE host # NoHost
    <3>1. Load(host) \in Nat /\ Capacity(host) \in Nat /\ Capacity(host) > 0
      BY <1>1, <1>9, <2>2, LoadFacts, ScoreFacts
    <3>2. (Load(host) \div Capacity(host)) + 1 \in Int /\ (Load(host) % Capacity(host)) + 1 \in Int
      BY <3>1
    <3>3. ChooseModel(host, d) \in STRING \cup {NoModel}
      BY <1>9, <2>2, ChooseModelType
    <3> QED
      BY <1>9, <2>2, <3>2, <3>3 DEF Placement
  <2> QED
    BY <2>1, <2>2
<1> HIDE DEF x
<1>13. /\ placed' \in Seq(Placement) /\ Len(placed') = n + 1 /\ DOMAIN placed' = 1 .. n + 1
       /\ placed'[n + 1] = x /\ \A i \in 1 .. n : placed'[i] = placed[i]
  BY <1>1, <1>2, <1>12
<1>14. n \in Nat /\ DOMAIN placed = 1 .. n
  BY <1>1
<1>15. PlacedType'
  BY <1>1, <1>2, <1>13, <1>14 DEF PlacedType
<1>16. PlacedHome'
  BY <1>1, <1>2, <1>11, <1>13, <1>14 DEF PlacedHome
<1>17. SelectorsAgree'
  <2>1. CASE n = 0
    <3>1. placed = <<>>
      BY <1>1, <2>1
    <3>2. LoadOrder(hosts) = ByKey(hosts, Score)
      BY <1>6, <3>1, IdleOrder
    <3>3. host = FirstOr(Ranked(hosts, Score), NoHost)
      BY <1>8, <3>2 DEF Ranked
    <3>4. Recommend(reg, d).host = host /\ Recommend(reg, d).model = ModelOf(host, d)
      BY <1>5, <3>3, RecommendIs
    <3>5. placed'[1] = x /\ d = slices'[1].task
      BY <1>2, <1>3, <1>13, <2>1
    <3> QED
      BY <1>2, <1>10, <3>4, <3>5 DEF SelectorsAgree, Routed
  <2>2. CASE n # 0
    <3>1. placed'[1] = placed[1] /\ placed # <<>>
      BY <1>13, <1>14, <2>2
    <3> QED
      BY <1>1, <1>2, <3>1 DEF SelectorsAgree
  <2> QED
    BY <2>1, <2>2
<1> QED
  BY <1>15, <1>16, <1>17 DEF ScheduleInv

\* Every step of the schedule keeps its part.
LEMMA ScheduleKeeps ==
  ASSUME reg \in Registries, ScheduleInv, ScheduleStep
  PROVE  ScheduleInv'
<1>1. CASE Submit
  <2>1. slices = <<>> /\ placed' = placed /\ reg' = reg /\ \E n \in 1 .. MaxRequested : slices' \in [1 .. n -> Slices]
    BY <1>1 DEF Submit, ScheduleStep
  <2>2. placed \in Seq(Placement) /\ Len(placed) <= 0 /\ placed = <<>>
    BY <2>1 DEF ScheduleInv, PlacedType
  <2>3. PICK n \in 1 .. MaxRequested : slices' \in [1 .. n -> Slices]
    BY <2>1
  <2>4. n \in Nat
    BY <2>3
  <2>5. slices' \in Seq(Slices) /\ Len(slices') = n
    <3>1. slices' \in Seq(Slices)
      BY <2>3, <2>4, SeqDef
    <3> QED
      BY <2>3, <2>4, <3>1, LenIs
  <2> QED
    BY <2>1, <2>2, <2>4, <2>5 DEF ScheduleInv, PlacedType, PlacedHome, SelectorsAgree
<1>2. CASE Assign
  BY <1>2, AssignKeeps DEF ScheduleStep
<1> QED
  BY <1>1, <1>2 DEF ScheduleStep

-----------------------------------------------------------------------------
(* The watchdog *)

\* The smaller of two.
LEMMA SmallerOf ==
  ASSUME NEW a \in Nat, NEW b \in Nat
  PROVE  Min({a, b}) \in Nat /\ Min({a, b}) <= a /\ Min({a, b}) <= b
<1>1. \E x \in {a, b} : \A y \in {a, b} : x <= y
  OBVIOUS
<1>2. Min({a, b}) \in {a, b} /\ \A y \in {a, b} : Min({a, b}) <= y
  BY <1>1 DEF Min
<1> QED
  BY <1>2

\* A prefix of a sequence.
LEMMA PrefixFacts ==
  ASSUME NEW S, NEW s \in Seq(S), NEW n \in Nat
  PROVE  SubSeq(s, 1, Min({Len(s), n})) \in Seq(S)
<1> DEFINE m == Min({Len(s), n})
<1>1. Len(s) \in Nat
  OBVIOUS
<1>2. m \in Nat /\ m <= Len(s)
  BY <1>1, SmallerOf
<1> HIDE DEF m
<1>3. \A i \in 1 .. m : s[i] \in S
  BY <1>2
<1>4. SubSeq(s, 1, m) \in Seq(S)
  BY <1>2, <1>3, SubSeqProperties
<1> QED
  BY <1>4 DEF m

\* Lanes and probes on the machines of the stack.
HomeLanes(r) == {l \in RouteLane : \E t : OpenTier(r, t) /\ Listed(r, t, l.host)}

\* The names a probe may ask for.
OwnNames == (STRING \cup {NoModel}) \ Proxied

\* Probes of lanes at home.
HomeProbes(r) ==
  [lane : HomeLanes(r), model : OwnNames, state : {"health", "resident", "answered"},
   health : [healthy : BOOLEAN, available : BOOLEAN],
   residency : {"unknown", "warm", "cold"}, overload : BOOLEAN]

\* The watchdog only probes lanes at home.
LEMMA FallbacksFacts ==
  ASSUME reg \in Registries, NEW wish, wish.max \in Nat, NEW first
  PROVE  Fallbacks(wish, first) \in Seq(HomeProbes(reg))
<1> DEFINE S == HomeLanes(reg)
           s == RoutableLanes(reg)
           I == {i \in DOMAIN s : s[i].host.usable /\ (first.banned \/ s[i].host.id # first.lane.host.id)}
           open == At(s, I)
           best == BestFirst(open)
           asked == SubSeq(best, 1, Min({Len(best), 2 * wish.max}))
           Asked(l) ==
             [lane |-> l, model |-> ChooseModel(l.host, wish.task),
              state |-> IF <<l.host.id, ChooseModel(l.host, wish.task)>> \in wish.banned
                          THEN "answered" ELSE "health",
              health |-> [healthy |-> FALSE, available |-> FALSE],
              residency |-> "unknown", overload |-> FALSE]
           u == [i \in DOMAIN asked |-> Asked(asked[i])]
<1>1. Fallbacks(wish, first) = u
  <2>1. Only(s, LAMBDA l : l.host.usable /\ (first.banned \/ l.host.id # first.lane.host.id)) = open
    BY DEF Only
  <2> HIDE DEF open
  <2> QED
    BY <2>1 DEF Fallbacks
<1>2. s \in Seq(S)
  <2>0. /\ s \in Seq(RouteLane)
        /\ \A k \in DOMAIN s : s[k] \in RouteLane /\ OpenTier(reg, s[k].tier) /\ Listed(reg, s[k].tier, s[k].host)
    BY RoutableLanesFacts
  <2> HIDE DEF s
  <2>1. s \in Seq(RouteLane) /\ \A k \in DOMAIN s : s[k] \in S
    BY <2>0 DEF HomeLanes
  <2> HIDE DEF s, S
  <2> QED
    BY <2>1
<1>3. I \in SUBSET DOMAIN s /\ S \in SUBSET RouteLane
  BY DEF HomeLanes
<1> HIDE DEF s, I
<1>4. open \in Seq(S)
  <2> HIDE DEF S
  <2> QED
    BY <1>2, <1>3, FilterFacts
<1> HIDE DEF open
<1>5. best \in Seq(S)
  <2> HIDE DEF S
  <2> QED
    BY <1>3, <1>4, BestLaneFacts
<1> HIDE DEF best
<1>6. asked \in Seq(S)
  <2>1. 2 * wish.max \in Nat
    OBVIOUS
  <2> HIDE DEF S
  <2> QED
    BY <1>5, <2>1, PrefixFacts
<1> HIDE DEF asked
<1>7. ASSUME NEW l \in S PROVE Asked(l) \in HomeProbes(reg)
  <2>1. l.host \in HostEntry
    BY DEF HomeLanes, RouteLane
  <2>2. ChooseModel(l.host, wish.task) \in OwnNames
    BY <2>1, ChooseModelFacts, ChooseModelType DEF OwnNames
  <2> QED
    BY <2>2 DEF HomeProbes
<1>8. u \in Seq(HomeProbes(reg))
  <2> HIDE DEF S, Asked
  <2>1. DOMAIN asked = 1 .. Len(asked) /\ Len(asked) \in Nat /\ \A i \in DOMAIN asked : asked[i] \in S
    BY <1>6
  <2>2. u \in [1 .. Len(asked) -> HomeProbes(reg)]
    BY <1>7, <2>1
  <2> HIDE DEF u
  <2> QED
    BY <2>1, <2>2, SeqDef
<1> QED
  BY <1>1, <1>8

\* Ranking them does not change that.
LEMMA RankedProbesHome ==
  ASSUME probes \in Seq(HomeProbes(reg))
  PROVE  RankedProbes \in Seq(HomeProbes(reg))
<1> DEFINE S == HomeProbes(reg)
           K == [i \in DOMAIN probes |-> Score(probes[i].lane.host) + Adjustment(probes[i])]
           R == {p \in (DOMAIN probes) \X (DOMAIN probes) : K[p[1]] > K[p[2]] \/ (K[p[1]] = K[p[2]] /\ p[1] < p[2])}
           t == Along(probes, DOMAIN probes, R)
<1>1. RankedProbes = t
  <2>1. ByKey(probes, LAMBDA p : Score(p.lane.host) + Adjustment(p)) = R
    BY DEF ByKey
  <2> QED
    BY <2>1 DEF RankedProbes, Ranked
<1>2. K \in [DOMAIN probes -> Int]
  <2>1. \A i \in DOMAIN probes : probes[i] \in HomeProbes(reg)
    OBVIOUS
  <2>2. \A i \in DOMAIN probes : probes[i].lane.host \in HostEntry
    BY <2>1 DEF HomeProbes, HomeLanes, RouteLane
  <2>3. \A i \in DOMAIN probes : Score(probes[i].lane.host) \in Int
    BY <2>2, ScoreFacts
  <2>4. \A i \in DOMAIN probes : Adjustment(probes[i]) \in Int
    BY DEF Adjustment, Bonus, Penalty, Point
  <2> QED
    BY <2>3, <2>4
<1> HIDE DEF K
<1>3. ReadsOff(t, probes, DOMAIN probes, S)
  <2> HIDE DEF S
  <2>1. probes \in Seq(S)
    BY DEF S
  <2> QED
    BY <1>2, <2>1, KeyOrder
<1> HIDE DEF t
<1> QED
  BY <1>1, <1>3 DEF ReadsOff

\* The lane asked first, unless the caller named it, and the lanes that stand behind it.
WatchdogInv ==
  /\ probes \in Seq(HomeProbes(reg)) /\ offered \in Seq(HomeProbes(reg))
  /\ step \in {"primary", "lanes"} => ask.max \in Nat
  /\ primary = [lane |-> primary.lane, model |-> primary.model, banned |-> primary.banned, healthy |-> primary.healthy]
  /\ (primary.lane # NoHost /\ ask.named = NoHost /\ ask.model = NoModel) =>
        StaysHome([host |-> primary.lane.host, model |-> primary.model])

\* Nor does offering one.
LEMMA ProbesStay ==
  ASSUME NEW p \in HomeProbes(reg)
  PROVE  StaysHome([host |-> p.lane.host, model |-> p.model])
<1> DEFINE lane == [host |-> p.lane.host, model |-> p.model]
<1>1. p.lane \in HomeLanes(reg) /\ p.model \notin Proxied
  BY DEF HomeProbes, OwnNames
<1>2. AtHome(reg, p.lane.host, p.model)
  BY <1>1 DEF HomeLanes, RouteLane, AtHome
<1>3. lane.host = p.lane.host /\ lane.model = p.model
  OBVIOUS
<1> HIDE DEF lane
<1>4. StaysHome(lane)
  BY <1>2, <1>3, HomeStays
<1> QED
  BY <1>4 DEF lane

\* A primary lane that the routing picked is at home.
LEMMA RoutedPrimary ==
  ASSUME reg \in Registries, NEW d, IsFiniteSet(d), NEW wish, wish.task = d,
         wish.named = NoHost, wish.model = NoModel
  PROVE  LET base == Recommend(reg, d)
             first == First(wish, base, LaneFor(wish, base))
         IN  first.lane # NoHost => StaysHome([host |-> first.lane.host, model |-> first.model])
<1> DEFINE base == Recommend(reg, d)
           lane == LaneFor(wish, base)
           model == IF base.model # NoModel THEN base.model ELSE ChooseModel(lane.host, d)
           first == First(wish, base, lane)
           x == [host |-> lane.host, model |-> model]
<1> SUFFICES ASSUME first.lane # NoHost PROVE StaysHome([host |-> first.lane.host, model |-> first.model])
  OBVIOUS
<1>1. lane = IF base.host # NoHost THEN FindHost(reg, base.host.id) ELSE NoHost
  BY DEF LaneFor
<1>2. AtHome(reg, base.host, base.model)
  BY RecommendFacts
<1> HIDE DEF base
<1>3. CASE lane = NoHost
  <2>1. first = NoPrimary
    BY <1>3 DEF First
  <2> QED
    BY <2>1 DEF NoPrimary
<1>4. CASE lane # NoHost
  <2>1. first.lane = lane /\ first.model = model
    BY <1>4 DEF First
  <2>2. base.host # NoHost /\ lane = FindHost(reg, base.host.id)
    BY <1>1, <1>4
  <2>3. lane \in RouteLane /\ lane.host.id = base.host.id
    BY <1>4, <2>2, FindHostFacts
  <2> HIDE DEF lane, first
  <2>4. model \notin Proxied
    BY <1>2, <2>2, <2>3, ChooseModelFacts DEF AtHome, RouteLane
  <2> HIDE DEF model
  <2>5. PICK t : OpenTier(reg, t) /\ Listed(reg, t, base.host)
    BY <1>2, <2>2 DEF AtHome
  <2>6. PICK y \in Range(reg.tiers) : y.id = t /\ base.host \in Range(y.hosts)
    BY <2>5 DEF Listed
  <2>7. (y.id = CloudTier => reg.optIn) /\ \E h \in Range(y.hosts) : h.id = x.host.id
    BY <2>3, <2>5, <2>6 DEF OpenTier
  <2>8. x.model = model
    OBVIOUS
  <2> HIDE DEF x
  <2>9. StaysHome(x)
    BY <2>4, <2>6, <2>7, <2>8 DEF StaysHome
  <2> QED
    BY <2>1, <2>9 DEF x
<1> QED
  BY <1>3, <1>4

\* The first lane is a record of four parts.
LEMMA FirstIsRecord ==
  ASSUME NEW wish, NEW base, NEW lane
  PROVE  LET p == First(wish, base, lane)
         IN  p = [lane |-> p.lane, model |-> p.model, banned |-> p.banned, healthy |-> p.healthy]
<1>1. CASE lane = NoHost
  BY <1>1 DEF First, NoPrimary
<1>2. CASE lane # NoHost
  BY <1>2 DEF First
<1> QED
  BY <1>1, <1>2

\* A request to the watchdog keeps its invariant.
LEMMA AskKeeps ==
  ASSUME reg \in Registries, WatchdogInv, AskWatchdog, reg' = reg
  PROVE  WatchdogInv'
<1>1. PICK d \in Descriptions, id \in NamedHosts, model \in Authors, n \in MaxFallbacks, banned \in Banned :
        Routes([task |-> d, named |-> id, model |-> model, max |-> n, banned |-> banned], Recommend(reg, d))
  BY DEF AskWatchdog
<1> DEFINE wish == [task |-> d, named |-> id, model |-> model, max |-> n, banned |-> banned]
           base == Recommend(reg, d)
           first == First(wish, base, LaneFor(wish, base))
<1>2. Begins(wish, first)
  BY <1>1 DEF Routes
<1>3. wish.task = d /\ wish.named = id /\ wish.model = model /\ wish.max = n
  OBVIOUS
<1>4. n \in Nat /\ IsFiniteSet(d)
  BY FallbacksAssumption, RegistryAssumption
<1> HIDE DEF wish
<1>5. (first.lane # NoHost /\ wish.named = NoHost /\ wish.model = NoModel) =>
        StaysHome([host |-> first.lane.host, model |-> first.model])
  BY <1>3, <1>4, RoutedPrimary
<1>6. first = [lane |-> first.lane, model |-> first.model, banned |-> first.banned, healthy |-> first.healthy]
  BY FirstIsRecord
<1> HIDE DEF first
<1>7. ask' = wish /\ primary' = first /\ (probes' = <<>> \/ probes' = Fallbacks(wish, first))
  BY <1>2 DEF Begins
<1>8. Fallbacks(wish, first) \in Seq(HomeProbes(reg))
  BY <1>3, <1>4, FallbacksFacts
<1>9. probes' \in Seq(HomeProbes(reg))
  BY <1>7, <1>8, EmptySeq
<1>10. offered' = offered /\ offered \in Seq(HomeProbes(reg)) /\ HomeProbes(reg)' = HomeProbes(reg)
  BY DEF AskWatchdog, WatchdogInv
<1>11. (probes \in Seq(HomeProbes(reg)) /\ offered \in Seq(HomeProbes(reg)))'
  BY <1>9, <1>10
<1>12. primary' = [lane |-> primary'.lane, model |-> primary'.model, banned |-> primary'.banned, healthy |-> primary'.healthy]
  BY <1>6, <1>7
<1>13. ask'.max \in Nat
  BY <1>3, <1>4, <1>7
<1>14. ((primary.lane # NoHost /\ ask.named = NoHost /\ ask.model = NoModel) =>
        StaysHome([host |-> primary.lane.host, model |-> primary.model]))'
  BY <1>5, <1>7 DEF StaysHome
<1> QED
  BY <1>11, <1>12, <1>13, <1>14 DEF WatchdogInv

\* The answer about the first lane keeps it.
LEMMA PrimaryKeeps ==
  ASSUME reg \in Registries, WatchdogInv, PrimaryAnswers, reg' = reg
  PROVE  WatchdogInv'
<1>1. /\ step = "primary" /\ probes' = Fallbacks(ask, primary) /\ ask' = ask /\ offered' = offered
      /\ \E b : primary' = [primary EXCEPT !.healthy = b]
  BY DEF PrimaryAnswers
<1>2. PICK b : primary' = [primary EXCEPT !.healthy = b]
  BY <1>1
<1>3. primary = [lane |-> primary.lane, model |-> primary.model, banned |-> primary.banned, healthy |-> primary.healthy]
  BY DEF WatchdogInv
<1>4. primary' = [lane |-> primary.lane, model |-> primary.model, banned |-> primary.banned, healthy |-> b]
  BY <1>2, <1>3
<1>5. primary'.lane = primary.lane /\ primary'.model = primary.model
  BY <1>4
<1>6. ask.max \in Nat
  BY <1>1 DEF WatchdogInv
<1>7. Fallbacks(ask, primary) \in Seq(HomeProbes(reg))
  BY <1>6, FallbacksFacts
<1>8. (probes \in Seq(HomeProbes(reg)) /\ offered \in Seq(HomeProbes(reg)))'
  BY <1>1, <1>7 DEF WatchdogInv
<1>9. primary' = [lane |-> primary'.lane, model |-> primary'.model, banned |-> primary'.banned, healthy |-> primary'.healthy]
  BY <1>4
<1>10. ((primary.lane # NoHost /\ ask.named = NoHost /\ ask.model = NoModel) =>
        StaysHome([host |-> primary.lane.host, model |-> primary.model]))'
  BY <1>1, <1>5 DEF StaysHome, WatchdogInv
<1> QED
  BY <1>1, <1>6, <1>8, <1>9, <1>10 DEF WatchdogInv

\* An answer to a probe keeps it.
LEMMA AnswersKeep ==
  ASSUME reg \in Registries, WatchdogInv, NEW i \in DOMAIN probes, HealthAnswers(i) \/ ResidentAnswers(i), reg' = reg
  PROVE  WatchdogInv'
<1> DEFINE S == HomeProbes(reg)
<1>0. probes \in Seq(S) /\ probes[i] \in S
  BY DEF WatchdogInv
<1>1. UNCHANGED <<step, ask, primary, offered>>
  BY DEF HealthAnswers, ResidentAnswers
<1>2. \E p \in S : probes' = [probes EXCEPT ![i] = p]
  <2>1. CASE HealthAnswers(i)
    <3>1. PICK e \in Endpoints :
            LET health == Health(probes[i].lane.host, probes[i].model, e)
            IN  probes' = [probes EXCEPT ![i].health = health,
                                         ![i].state = IF health.healthy THEN "resident" ELSE "answered"]
      BY <2>1 DEF HealthAnswers
    <3> DEFINE health == Health(probes[i].lane.host, probes[i].model, e)
               p == [probes[i] EXCEPT !.health = health, !.state = IF health.healthy THEN "resident" ELSE "answered"]
    <3>2. health \in [healthy : BOOLEAN, available : BOOLEAN]
      BY DEF Health, Pings
    <3> HIDE DEF health
    <3>3. p \in S
      BY <1>0, <3>2 DEF HomeProbes
    <3>4. probes' = [probes EXCEPT ![i] = p]
      BY <3>1 DEF health
    <3> QED
      BY <3>3, <3>4
  <2>2. CASE ResidentAnswers(i)
    <3>1. PICK e \in Endpoints :
            LET resident == Resident(probes[i].lane.host, e)
            IN  probes' = [probes EXCEPT ![i].state = "answered",
                                         ![i].residency = Residency(resident, probes[i].model),
                                         ![i].overload = Overload(probes[i].lane.host, resident)]
      BY <2>2 DEF ResidentAnswers
    <3> DEFINE resident == Resident(probes[i].lane.host, e)
               r == Residency(resident, probes[i].model)
               o == Overload(probes[i].lane.host, resident)
               p == [probes[i] EXCEPT !.state = "answered", !.residency = r, !.overload = o]
    <3>2. r \in {"unknown", "warm", "cold"}
      BY DEF Residency
    <3>3. o \in BOOLEAN
      BY DEF Overload
    <3>4. probes' = [probes EXCEPT ![i] = p]
      BY <3>1
    <3> HIDE DEF r, o
    <3>5. p \in S
      BY <1>0, <3>2, <3>3 DEF HomeProbes
    <3> QED
      BY <3>4, <3>5
  <2> QED
    BY <2>1, <2>2
<1> HIDE DEF S
<1>3. probes' \in Seq(S)
  BY <1>0, <1>2, ExceptSeq
<1>4. S' = S
  BY DEF S
<1>5. (probes \in Seq(HomeProbes(reg)) /\ offered \in Seq(HomeProbes(reg)))'
  BY <1>1, <1>3, <1>4 DEF WatchdogInv, S
<1>6. ((primary.lane # NoHost /\ ask.named = NoHost /\ ask.model = NoModel) =>
        StaysHome([host |-> primary.lane.host, model |-> primary.model]))'
  BY <1>1 DEF StaysHome, WatchdogInv
<1> QED
  BY <1>1, <1>5, <1>6 DEF WatchdogInv

\* The answer of the watchdog keeps it.
LEMMA AnswerKeeps ==
  ASSUME reg \in Registries, WatchdogInv, Answer, reg' = reg
  PROVE  WatchdogInv'
<1> DEFINE S == HomeProbes(reg)
           s == RankedProbes
           I == {i \in DOMAIN s : Serves(s[i])}
           serving == At(s, I)
<1>1. /\ step = "lanes" /\ step' = "done" /\ UNCHANGED <<ask, primary, probes>>
      /\ offered' = SubSeq(Only(RankedProbes, Serves), 1, Min({Len(Only(RankedProbes, Serves)), ask.max}))
  BY DEF Answer
<1>2. Only(RankedProbes, Serves) = serving
  BY DEF Only
<1>3. probes \in Seq(S) /\ ask.max \in Nat
  BY <1>1 DEF WatchdogInv
<1>4. s \in Seq(S)
  BY <1>3, RankedProbesHome
<1> HIDE DEF s, S
<1>5. I \in SUBSET DOMAIN s
  OBVIOUS
<1> HIDE DEF I
<1>6. serving \in Seq(S)
  BY <1>4, <1>5, FilterFacts
<1> HIDE DEF serving
<1>7. offered' = SubSeq(serving, 1, Min({Len(serving), ask.max}))
  BY <1>1, <1>2
<1>8. offered' \in Seq(S)
  BY <1>3, <1>6, <1>7, PrefixFacts
<1>9. (probes \in Seq(HomeProbes(reg)) /\ offered \in Seq(HomeProbes(reg)))'
  BY <1>1, <1>3, <1>8 DEF S
<1>10. ((primary.lane # NoHost /\ ask.named = NoHost /\ ask.model = NoModel) =>
        StaysHome([host |-> primary.lane.host, model |-> primary.model]))'
  BY <1>1 DEF StaysHome, WatchdogInv
<1> QED
  BY <1>1, <1>9, <1>10 DEF WatchdogInv

-----------------------------------------------------------------------------
(* The cohort *)

\* What is true of the cohort after a part of the hypotheses.
CohortSoFar(A, k) ==
  /\ IsFiniteSet(A)
  /\ \A i \in A : SharingCell(A, i) = {i}
  /\ \A i \in A : Cardinality(SharingFamily(A, i)) <= MaxSameFamily
  /\ \A j \in 1 .. k :
       \/ Hypotheses[j] \in A \/ SharingCell(A, Hypotheses[j]) # {}
       \/ Cardinality(SharingFamily(A, Hypotheses[j])) >= MaxSameFamily

\* The hypotheses are slices.
LEMMA HypothesesType ==
  ASSUME slices \in Seq(Slices)
  PROVE  Hypotheses \in Seq(DOMAIN slices)
<1> DEFINE s == [i \in DOMAIN slices |-> i]
           I == {i \in DOMAIN s : slices[s[i]].cell # NoCell}
<1>1. Hypotheses = At(s, I)
  BY DEF Hypotheses, Only
<1>2. s \in Seq(DOMAIN slices)
  <2>1. DOMAIN slices = 1 .. Len(slices) /\ Len(slices) \in Nat
    OBVIOUS
  <2>2. s \in [1 .. Len(slices) -> DOMAIN slices]
    BY <2>1
  <2> HIDE DEF s
  <2> QED
    BY <2>1, <2>2, SeqDef
<1>3. I \in SUBSET DOMAIN s
  OBVIOUS
<1> HIDE DEF s, I
<1> QED
  BY <1>1, <1>2, <1>3, FilterFacts

\* A hypothesis that is asked for after the others.
LEMMA CohortStep ==
  ASSUME NEW A, NEW k \in Nat, CohortSoFar(A, k), NEW B, MaxSameFamily \in Nat, MaxSameFamily >= 1,
         B = IF Admits(A, Hypotheses[k + 1]) THEN A \cup {Hypotheses[k + 1]} ELSE A
  PROVE  CohortSoFar(B, k + 1)
<1> DEFINE h == Hypotheses[k + 1]
<1>1. \A S : IsFiniteSet(S) => /\ \A i : IsFiniteSet(SharingCell(S, i)) /\ Cardinality(SharingCell(S, i)) \in Nat
                               /\ \A i : IsFiniteSet(SharingFamily(S, i)) /\ Cardinality(SharingFamily(S, i)) \in Nat
  <2> TAKE S
  <2> HAVE IsFiniteSet(S)
  <2>1. \A i : SharingCell(S, i) \in SUBSET S /\ SharingFamily(S, i) \in SUBSET S
    BY DEF SharingCell, SharingFamily
  <2> QED
    BY <2>1, FS_Subset, FS_CardinalityType
<1>2. \A j \in 1 .. k + 1 : j \in 1 .. k \/ j = k + 1
  OBVIOUS
<1>3. CASE ~Admits(A, h)
  <2>1. B = A /\ IsFiniteSet(A)
    BY <1>3 DEF CohortSoFar
  <2>2. ~ (Cardinality(SharingCell(A, h)) < MaxSameCell) \/ ~ (Cardinality(SharingFamily(A, h)) < MaxSameFamily)
    BY <1>3 DEF Admits
  <2>3. SharingCell(A, h) # {} \/ Cardinality(SharingFamily(A, h)) >= MaxSameFamily
    BY <1>1, <2>1, <2>2, FS_EmptySet DEF MaxSameCell
  <2> QED
    BY <1>2, <2>1, <2>3 DEF CohortSoFar
<1>4. CASE Admits(A, h)
  <2>1. B = A \cup {h} /\ IsFiniteSet(A) /\ IsFiniteSet(B)
    BY <1>4, FS_AddElement DEF CohortSoFar
  <2>2. Cardinality(SharingCell(A, h)) < 1 /\ Cardinality(SharingFamily(A, h)) < MaxSameFamily
    BY <1>4 DEF Admits, MaxSameCell
  <2>3. SharingCell(A, h) = {}
    <3>1. IsFiniteSet(SharingCell(A, h)) /\ Cardinality(SharingCell(A, h)) \in Nat
      BY <1>1, <2>1
    <3> QED
      BY <2>2, <3>1, FS_EmptySet
  <2>4. \A i \in B : SharingCell(B, i) = {i}
    BY <2>1, <2>3 DEF SharingCell, CohortSoFar
  <2>5. ASSUME NEW i \in B PROVE Cardinality(SharingFamily(B, i)) <= MaxSameFamily
    <3>1. CASE slices[i].cell.family = slices[h].cell.family
      <4>1. SharingFamily(B, i) = SharingFamily(A, h) \cup {h}
        BY <2>1, <3>1 DEF SharingFamily
      <4>2. IsFiniteSet(SharingFamily(A, h)) /\ Cardinality(SharingFamily(A, h)) \in Nat
        BY <1>1, <2>1
      <4>3. Cardinality(SharingFamily(A, h) \cup {h}) <= Cardinality(SharingFamily(A, h)) + 1
        BY <4>2, FS_AddElement
      <4>4. Cardinality(SharingFamily(B, i)) \in Nat
        BY <1>1, <2>1
      <4>5. PICK a \in Nat, b \in Nat : a = Cardinality(SharingFamily(A, h)) /\ b = Cardinality(SharingFamily(B, i))
        BY <4>2, <4>4
      <4>6. a < MaxSameFamily /\ b <= a + 1
        BY <2>2, <4>1, <4>3, <4>5
      <4>7. b <= MaxSameFamily
        BY <4>6
      <4> QED
        BY <4>5, <4>7
    <3>2. CASE slices[i].cell.family # slices[h].cell.family
      <4>1. SharingFamily(B, i) = SharingFamily(A, i) /\ i \in A
        BY <2>1, <3>2 DEF SharingFamily
      <4> QED
        BY <4>1 DEF CohortSoFar
    <3> QED
      BY <3>1, <3>2
  <2>6. ASSUME NEW j \in 1 .. k
        PROVE  \/ Hypotheses[j] \in B \/ SharingCell(B, Hypotheses[j]) # {}
               \/ Cardinality(SharingFamily(B, Hypotheses[j])) >= MaxSameFamily
    <3> DEFINE g == Hypotheses[j]
    <3>1. g \in A \/ SharingCell(A, g) # {} \/ Cardinality(SharingFamily(A, g)) >= MaxSameFamily
      BY DEF CohortSoFar
    <3>2. SharingCell(A, g) \subseteq SharingCell(B, g) /\ SharingFamily(A, g) \in SUBSET SharingFamily(B, g)
      BY <2>1 DEF SharingCell, SharingFamily
    <3>3. IsFiniteSet(SharingFamily(B, g)) /\ Cardinality(SharingFamily(B, g)) \in Nat
          /\ Cardinality(SharingFamily(A, g)) \in Nat
      BY <1>1, <2>1
    <3> HIDE DEF g
    <3>4. Cardinality(SharingFamily(A, g)) <= Cardinality(SharingFamily(B, g))
      BY <3>2, <3>3, FS_Subset
    <3>5. g \in A => g \in B
      BY <2>1
    <3>6. g \in B \/ SharingCell(B, g) # {} \/ Cardinality(SharingFamily(B, g)) >= MaxSameFamily
      BY <3>1, <3>2, <3>3, <3>4, <3>5
    <3> QED
      BY <3>6 DEF g
  <2>7. h \in B
    BY <2>1
  <2> QED
    BY <1>2, <2>1, <2>4, <2>5, <2>6, <2>7 DEF CohortSoFar
<1> QED
  BY <1>3, <1>4

\* The cohort, after every one of them.
LEMMA CohortBuilt ==
  ASSUME slices \in Seq(Slices)
  PROVE  CohortSoFar(Assigned, Len(Hypotheses)) \/ (Len(Hypotheses) = 0 /\ Assigned = {})
<1> DEFINE N == Len(Hypotheses)
           F[k \in 0 .. N] ==
             IF k = 0 THEN {}
             ELSE IF Admits(F[k - 1], Hypotheses[k]) THEN F[k - 1] \cup {Hypotheses[k]} ELSE F[k - 1]
           Next1(f, k) == IF Admits(f[k - 1], Hypotheses[k]) THEN f[k - 1] \cup {Hypotheses[k]} ELSE f[k - 1]
           Built(f, m) == f = [k \in 0 .. m |-> IF k = 0 THEN {} ELSE Next1(f, k)]
           T == {m \in Nat : \E f : Built(f, m)}
           U == {m \in Nat : m \in 0 .. N => CohortSoFar(F[m], m)}
<1>1. N \in Nat
  BY HypothesesType
<1>2. Nat \subseteq T
  <2>1. 0 \in T
    <3>1. Built([k \in 0 .. 0 |-> {}], 0)
      OBVIOUS
    <3> QED
      BY <3>1
  <2>2. ASSUME NEW m \in Nat, m \in T PROVE m + 1 \in T
    <3>1. PICK f : Built(f, m)
      BY <2>2
    <3> DEFINE g == [k \in 0 .. m + 1 |-> IF k = m + 1 THEN Next1(f, k) ELSE f[k]]
    <3>2. \A k \in 0 .. m + 1 : k # 0 => k - 1 \in 0 .. m /\ g[k - 1] = f[k - 1]
      OBVIOUS
    <3>3. \A k \in 0 .. m + 1 : k # m + 1 => k \in 0 .. m
      OBVIOUS
    <3>4. \A k \in 0 .. m : f[k] = IF k = 0 THEN {} ELSE Next1(f, k)
      BY <3>1
    <3> HIDE DEF g
    <3>5. \A k \in 0 .. m + 1 : k # 0 => Next1(g, k) = Next1(f, k)
      BY <3>2
    <3>55. g = [k \in 0 .. m + 1 |-> IF k = m + 1 THEN Next1(f, k) ELSE f[k]]
      BY DEF g
    <3> HIDE DEF Next1
    <3>6. \A k \in 0 .. m + 1 : g[k] = IF k = 0 THEN {} ELSE Next1(g, k)
      BY <3>3, <3>4, <3>5, <3>55
    <3>7. Built(g, m + 1)
      BY <3>6, <3>55
    <3> HIDE DEF g, Built
    <3> QED
      BY <3>7
  <2> HIDE DEF T
  <2> QED
    BY <2>1, <2>2, NatSet
<1>3. F = [k \in 0 .. N |-> IF k = 0 THEN {} ELSE
             IF Admits(F[k - 1], Hypotheses[k]) THEN F[k - 1] \cup {Hypotheses[k]} ELSE F[k - 1]]
  BY <1>1, <1>2
<1>4. Assigned = F[N]
  BY DEF Assigned
<1> HIDE DEF F
<1>5. CASE N = 0
  <2>1. F[0] = {}
    BY <1>1, <1>3
  <2> QED
    BY <1>4, <1>5, <2>1
<1>6. CASE N # 0
  <2>1. MaxSameFamily \in Nat /\ MaxSameFamily >= 1
    BY <1>1, <1>6 DEF MaxSameFamily
  <2>2. 0 \in U
    <3>1. F[0] = {}
      BY <1>1, <1>3
    <3>2. CohortSoFar({}, 0)
      <4>1. IsFiniteSet({}) /\ 1 .. 0 = {}
        BY FS_EmptySet
      <4> QED
        BY <4>1 DEF CohortSoFar
    <3> QED
      BY <3>1, <3>2
  <2>3. ASSUME NEW m \in Nat, m \in U, m + 1 \in 0 .. N PROVE CohortSoFar(F[m + 1], m + 1)
    <3>1. m \in 0 .. N /\ m + 1 # 0 /\ (m + 1) - 1 = m
      BY <1>1, <2>3
    <3>2. CohortSoFar(F[m], m)
      BY <2>3, <3>1
    <3>3. F[m + 1] = IF Admits(F[m], Hypotheses[m + 1]) THEN F[m] \cup {Hypotheses[m + 1]} ELSE F[m]
      BY <1>3, <2>3, <3>1
    <3> QED
      BY <2>1, <3>2, <3>3, CohortStep
  <2>4. \A m \in Nat : m \in U => m + 1 \in U
    <3>1. \A m \in Nat : m + 1 \in Nat
      OBVIOUS
    <3> QED
      BY <2>3, <3>1
  <2> HIDE DEF U
  <2>5. Nat \subseteq U
    BY <2>2, <2>4, NatSet
  <2>6. CohortSoFar(F[N], N)
    BY <1>1, <2>5 DEF U
  <2>7. CohortSoFar(Assigned, N)
    BY <1>4, <2>6, Zenon
  <2> QED
    BY <2>7, Zenon
<1> QED
  BY <1>5, <1>6

\* What the cohort is asked for.
LEMMA CohortHolds ==
  ASSUME slices \in Seq(Slices)
  PROVE  CohortIsDiverse
<1> DEFINE N == Len(Hypotheses)
           M == MaxSameFamily
<1>1. Hypotheses \in Seq(DOMAIN slices) /\ N \in Nat /\ DOMAIN Hypotheses = 1 .. N
  BY HypothesesType
<1>2. M \in Nat /\ 100 * (M - 1) < 34 * N /\ 100 * M >= 34 * N
  BY <1>1 DEF MaxSameFamily
<1>3. CASE N = 0 /\ Assigned = {}
  <2>1. Collisions = {}
    BY <1>1, <1>3 DEF Collisions, Range
  <2> QED
    BY <1>3, <2>1 DEF CohortIsDiverse
<1>4. CASE CohortSoFar(Assigned, N)
  <2>1. IsFiniteSet(Assigned) /\ \A i : Cardinality(SharingFamily(Assigned, i)) \in Nat
    <3>1. IsFiniteSet(Assigned)
      BY <1>4 DEF CohortSoFar
    <3>2. \A i : SharingFamily(Assigned, i) \in SUBSET Assigned
      BY DEF SharingFamily
    <3> QED
      BY <3>1, <3>2, FS_Subset, FS_CardinalityType
  <2> HIDE DEF M, N
  <2>2. \A i \in Assigned : 100 * (Cardinality(SharingFamily(Assigned, i)) - 1) < 34 * N
    <3> TAKE i \in Assigned
    <3>1. Cardinality(SharingFamily(Assigned, i)) <= M
      BY <1>4 DEF CohortSoFar, M
    <3> QED
      BY <1>1, <1>2, <2>1, <3>1
  <2>3. ASSUME NEW i \in Collisions
        PROVE  SharingCell(Assigned, i) # {} \/ 100 * Cardinality(SharingFamily(Assigned, i)) >= 34 * N
    <3>1. PICK j \in 1 .. N : i = Hypotheses[j]
      BY <1>1 DEF Collisions, Range
    <3>2. i \notin Assigned
      BY DEF Collisions
    <3>3. SharingCell(Assigned, i) # {} \/ Cardinality(SharingFamily(Assigned, i)) >= M
      BY <1>4, <3>1, <3>2 DEF CohortSoFar, M
    <3> QED
      BY <1>1, <1>2, <2>1, <3>3
  <2> QED
    BY <1>4, <2>2, <2>3 DEF CohortIsDiverse, CohortSoFar, N
<1> QED
  BY <1>3, <1>4, CohortBuilt

-----------------------------------------------------------------------------
(* The invariant of routing, and what it implies *)

\* The inductive invariant.
RouteInv ==
  /\ reg \in Registries /\ ModesHome /\ ReviewIsDiverse /\ ScheduleInv /\ WatchdogInv

\* It holds before anything is asked.
LEMMA RouteInvInit == RoutingInit => RouteInv
<1> SUFFICES ASSUME RoutingInit PROVE RouteInv
  OBVIOUS
<1>1. reg \in Registries /\ reply.lanes = <<>> /\ reply.mode = "none"
  BY DEF RoutingInit, ModesInit, NoReply
<1>2. slices = <<>> /\ placed = <<>> /\ step = "idle" /\ primary = NoPrimary /\ probes = <<>> /\ offered = <<>>
  BY DEF RoutingInit, ScheduleInit, WatchdogInit
<1>3. ModesHome /\ ReviewIsDiverse
  BY <1>1 DEF ModesHome, AllHome, ReviewIsDiverse
<1>4. ScheduleInv
  BY <1>2 DEF ScheduleInv, PlacedType, PlacedHome, SelectorsAgree
<1>5. WatchdogInv
  BY <1>2, EmptySeq DEF WatchdogInv, NoPrimary
<1> QED
  BY <1>1, <1>3, <1>4, <1>5 DEF RouteInv

\* Every step keeps it.
LEMMA RouteInvStep == RouteInv /\ [RoutingNext]_routingVars => RouteInv'
<1> SUFFICES ASSUME RouteInv, [RoutingNext]_routingVars PROVE RouteInv'
  OBVIOUS
<1>0. reg \in Registries /\ ModesHome /\ ReviewIsDiverse /\ ScheduleInv /\ WatchdogInv
  BY DEF RouteInv
<1>1. ASSUME UNCHANGED <<reg, reply>> PROVE (reg \in Registries /\ ModesHome /\ ReviewIsDiverse)'
  BY <1>0, <1>1 DEF ModesHome, ReviewIsDiverse, Others
<1>2. ASSUME UNCHANGED <<reg, scheduleVars>> PROVE ScheduleInv'
  BY <1>0, <1>2 DEF scheduleVars, ScheduleInv, PlacedType, PlacedHome, SelectorsAgree
<1>3. ASSUME UNCHANGED <<reg, watchdogVars>> PROVE WatchdogInv'
  BY <1>0, <1>3 DEF watchdogVars, WatchdogInv, StaysHome
<1>4. CASE ModesStep /\ UNCHANGED <<scheduleVars, watchdogVars>>
  <2>1. reg' = reg
    BY <1>4 DEF ModesStep
  <2>2. ModesHome' /\ ReviewIsDiverse'
    BY <1>0, <1>4, ModesKeep
  <2> QED
    BY <1>0, <1>2, <1>3, <1>4, <2>1, <2>2 DEF RouteInv
<1>5. CASE ScheduleStep /\ UNCHANGED watchdogVars
  <2>1. UNCHANGED <<reg, reply>>
    BY <1>5 DEF ScheduleStep
  <2>2. ScheduleInv'
    BY <1>0, <1>5, ScheduleKeeps
  <2> QED
    BY <1>1, <1>3, <1>5, <2>1, <2>2 DEF RouteInv
<1>6. CASE WatchdogStep
  <2>1. UNCHANGED <<reg, reply, scheduleVars>>
    BY <1>6 DEF WatchdogStep
  <2>2. WatchdogInv'
    <3>1. CASE AskWatchdog
      BY <1>0, <2>1, <3>1, AskKeeps
    <3>2. CASE PrimaryAnswers
      BY <1>0, <2>1, <3>2, PrimaryKeeps
    <3>3. CASE Answer
      BY <1>0, <2>1, <3>3, AnswerKeeps
    <3>4. CASE \E i \in DOMAIN probes : HealthAnswers(i) \/ ResidentAnswers(i)
      BY <1>0, <2>1, <3>4, AnswersKeep
    <3> QED
      BY <1>6, <3>1, <3>2, <3>3, <3>4 DEF WatchdogStep
  <2> QED
    BY <1>1, <1>2, <2>1, <2>2 DEF RouteInv
<1>7. CASE UNCHANGED routingVars
  BY <1>1, <1>2, <1>3, <1>7 DEF routingVars, RouteInv
<1> QED
  BY <1>4, <1>5, <1>6, <1>7 DEF RoutingNext

\* Whatever a mode, a schedule or the watchdog answers, no host of the cloud tier is in it unless the
\* registry opts in, and no model that only stands for one in the cloud (CloudIsOptIn).
THEOREM RoutesStayHome == RoutingSpec => []CloudIsOptIn
<1>1. RouteInv => CloudIsOptIn
  <2> SUFFICES ASSUME RouteInv PROVE CloudIsOptIn
    OBVIOUS
  <2>0. reg \in Registries /\ ModesHome /\ ScheduleInv /\ WatchdogInv
    BY DEF RouteInv
  <2>1. \A i \in DOMAIN reply.lanes : StaysHome(reply.lanes[i])
    BY <2>0, HomeStays DEF ModesHome, AllHome
  <2>2. \A i \in DOMAIN placed : StaysHome(placed[i])
    BY <2>0, HomeStays DEF ScheduleInv, PlacedHome
  <2>3. \A i \in DOMAIN offered : StaysHome([host |-> offered[i].lane.host, model |-> offered[i].model])
    BY <2>0, ProbesStay DEF WatchdogInv
  <2> QED
    BY <2>0, <2>1, <2>2, <2>3 DEF CloudIsOptIn, WatchdogInv
<1> QED
  BY <1>1, RouteInvInit, RouteInvStep, PTL DEF RoutingSpec

\* A review is given to another model when one is available, and to another host when one is left;
\* when none is, the answer says so (ReviewIsDiverse).
THEOREM ReviewsAreDiverse == RoutingSpec => []ReviewIsDiverse
<1>1. RouteInv => ReviewIsDiverse
  BY DEF RouteInv
<1> QED
  BY <1>1, RouteInvInit, RouteInvStep, PTL DEF RoutingSpec

\* While no host carries a slice yet, the schedule places one where the recommendation would send it:
\* two selectors, written apart, with one answer (SelectorsAgree).
THEOREM SelectorsAlwaysAgree == RoutingSpec => []SelectorsAgree
<1>1. RouteInv => SelectorsAgree
  BY DEF RouteInv, ScheduleInv
<1> QED
  BY <1>1, RouteInvInit, RouteInvStep, PTL DEF RoutingSpec

\* No two hypotheses of a cohort share a cell, no family has more than its share,
\* and none is flagged without need (CohortIsDiverse).
THEOREM CohortsAreDiverse == RoutingSpec => []CohortIsDiverse
<1>1. RouteInv => CohortIsDiverse
  BY CohortHolds DEF RouteInv, ScheduleInv, PlacedType
<1> QED
  BY <1>1, RouteInvInit, RouteInvStep, PTL DEF RoutingSpec

-----------------------------------------------------------------------------
(* The orchestrator: primary work *)

\* A probe that is under way has seen a machine that is not too old, and so has every
\* entry of the memo when it was stored.
Looked(r) ==
  request[r].step = "probed" =>
     request[r].verdict.seen \in Nat /\ clock <= request[r].verdict.seen + ProbeMax
Entered(k) == memo[k].at \in Nat /\ memo[k].seen \in Nat /\ memo[k].at <= memo[k].seen + ProbeMax

PrimaryInv ==
  /\ cfg \in Config /\ clock \in Nat
  /\ DOMAIN request = Requests
  /\ \A r \in Requests : {"step", "verdict", "order", "left", "attempts", "by", "kind", "wanted", "allowCloud"} \subseteq DOMAIN request[r]
  /\ \A r \in Requests : Looked(r)
  /\ \A k \in DOMAIN memo : Entered(k)

LEMMA PrimaryInvInit == LanesInit /\ PrimaryInit => PrimaryInv
  BY LanesAssumption DEF LanesInit, PrimaryInit, PrimaryInv, Unasked, Looked, Entered

\* A request that is not being probed asks nothing of its verdict.
LEMMA OneRequestMoves ==
  ASSUME PrimaryInv, NEW r \in Requests, UNCHANGED <<memo, world>>,
         DOMAIN request' = Requests,
         \A q \in Requests \ {r} : request'[q] = request[q],
         DOMAIN request[r] \subseteq DOMAIN request'[r],
         request'[r].step # "probed"
  PROVE  PrimaryInv'
  BY DEF PrimaryInv, Looked, Entered, world

LEMMA ForwardsMoves ==
  ASSUME PrimaryInv, NEW r \in Requests
  PROVE  /\ DOMAIN Forwards(r) = Requests
         /\ \A q \in Requests \ {r} : Forwards(r)[q] = request[q]
         /\ DOMAIN Forwards(r)[r] = DOMAIN request[r]
         /\ Forwards(r)[r].step = "call"
  BY DEF PrimaryInv, Forwards

LEMMA PassedMoves ==
  ASSUME PrimaryInv, NEW r \in Requests, NEW noted \in BOOLEAN
  PROVE  /\ DOMAIN Passed(r, noted) = Requests
         /\ \A q \in Requests \ {r} : Passed(r, noted)[q] = request[q]
         /\ DOMAIN Passed(r, noted)[r] = DOMAIN request[r]
         /\ Passed(r, noted)[r].step = "lane"
  BY DEF PrimaryInv, Passed

LEMMA PrimaryInvStep == PrimaryInv /\ [PrimaryNext]_<<world, primaryVars>> => PrimaryInv'
<1> SUFFICES ASSUME PrimaryInv, [PrimaryNext]_<<world, primaryVars>> PROVE PrimaryInv'
  OBVIOUS
<1>1. ASSUME NEW r \in Requests, NEW kind, NEW wanted, NEW allow, Arrive(r, kind, wanted, allow), UNCHANGED world
      PROVE  PrimaryInv'
  <2>1. PICK keys : keys = Serving(cfg, PrimaryLaneOrder(cfg), wanted)
    OBVIOUS
  <2>2. request' = [request EXCEPT ![r] = [Unasked EXCEPT
                   !.kind = kind, !.wanted = wanted, !.allowCloud = allow, !.step = "lane", !.order = keys]]
    BY <1>1, <2>1 DEF Arrive
  <2>3. request'[r].step = "lane" /\ DOMAIN request'[r] = DOMAIN Unasked
    BY <2>2 DEF Unasked, PrimaryInv
  <2>4. UNCHANGED memo /\ DOMAIN request' = Requests /\ \A q \in Requests \ {r} : request'[q] = request[q]
    BY <1>1, <2>2 DEF Arrive, PrimaryInv
  <2>5. {"step", "verdict", "order", "left", "attempts", "by", "kind", "wanted", "allowCloud"} \subseteq DOMAIN request'[r]
    BY <2>3 DEF Unasked
  <2>6. QED
    BY <1>1, <2>3, <2>4, <2>5 DEF PrimaryInv, Looked, Entered, world
<1>2. ASSUME NEW r \in Requests, Skip(r), UNCHANGED world PROVE PrimaryInv'
  <2>1. PICK noted \in BOOLEAN : request' = Passed(r, noted)
    BY <1>2 DEF Skip
  <2>2. QED
    BY <1>2, <2>1, PassedMoves, OneRequestMoves DEF Skip
<1>3. ASSUME NEW r \in Requests, TryCloud(r), UNCHANGED world PROVE PrimaryInv'
  BY <1>3, ForwardsMoves, OneRequestMoves DEF TryCloud
<1>4. ASSUME NEW r \in Requests, UseMemo(r), UNCHANGED world PROVE PrimaryInv'
  <2>1. request' = Forwards(r) \/ request' = Passed(r, TRUE)
    BY <1>4 DEF UseMemo
  <2>2. QED
    BY <1>4, <2>1, ForwardsMoves, PassedMoves, OneRequestMoves DEF UseMemo
<1>5. ASSUME NEW r \in Requests, Probe(r), UNCHANGED world PROVE PrimaryInv'
  <2>1. PICK ok : ok = Healthy(LaneOf(r), condition[Current(r)])
    OBVIOUS
  <2>2. request' = [request EXCEPT ![r].step = "probed", ![r].verdict = [ok |-> ok, seen |-> clock]]
    BY <1>5, <2>1 DEF Probe
  <2>3. UNCHANGED <<memo, clock, cfg>>
    BY <1>5 DEF Probe, world
  <2>4. request'[r].step = "probed" /\ request'[r].verdict.seen = clock
    BY <2>2 DEF PrimaryInv
  <2>5. Looked(r)'
    BY <2>3, <2>4, PrimaryAssumption DEF Looked, PrimaryInv
  <2>6. /\ DOMAIN request' = Requests /\ \A q \in Requests \ {r} : request'[q] = request[q]
        /\ DOMAIN request'[r] = DOMAIN request[r]
    BY <2>2 DEF PrimaryInv
  <2>7. QED
    BY <2>3, <2>5, <2>6 DEF PrimaryInv, Looked, Entered
<1>6. ASSUME NEW r \in Requests, Remember(r), UNCHANGED world PROVE PrimaryInv'
  <2>1. request' = Forwards(r) \/ \E noted \in BOOLEAN : request' = Passed(r, noted)
    BY <1>6 DEF Remember
  <2>2. /\ DOMAIN request' = Requests /\ \A q \in Requests \ {r} : request'[q] = request[q]
        /\ DOMAIN request'[r] = DOMAIN request[r] /\ request'[r].step # "probed"
    BY <2>1, ForwardsMoves, PassedMoves
  <2>3. UNCHANGED <<cfg, clock>>
    BY <1>6 DEF world
  <2>4. \A k \in DOMAIN memo' : Entered(k)'
    <3>1. CASE Memoizes(r)
      <4>1. PICK k, e : k = Current(r) /\ e = [at |-> clock, ok |-> request[r].verdict.ok, seen |-> request[r].verdict.seen]
        OBVIOUS
      <4>2. memo' = [l \in DOMAIN memo \cup {k} |-> IF l = k THEN e ELSE memo[l]]
        BY <1>6, <3>1, <4>1 DEF Remember
      <4>3. DOMAIN memo' = DOMAIN memo \cup {k} /\ memo'[k] = e
        BY <4>2
      <4>4. \A l \in DOMAIN memo \ {k} : memo'[l] = memo[l]
        BY <4>2
      <4>5. e.at = clock /\ e.seen = request[r].verdict.seen
        BY <4>1
      <4>6. request[r].step = "probed"
        BY <1>6 DEF Remember
      <4>7. e.at \in Nat /\ e.seen \in Nat /\ e.at <= e.seen + ProbeMax
        BY <4>5, <4>6 DEF PrimaryInv, Looked
      <4>8. QED
        BY <4>3, <4>4, <4>7 DEF PrimaryInv, Entered
    <3>2. CASE ~Memoizes(r)
      BY <1>6, <3>2 DEF Remember, PrimaryInv, Entered
    <3>3. QED
      BY <3>1, <3>2
  <2>5. QED
    BY <2>2, <2>3, <2>4 DEF PrimaryInv, Looked
<1>7. ASSUME NEW r \in Requests, Call(r), UNCHANGED world PROVE PrimaryInv'
  <2>1. \/ \E noted \in BOOLEAN : request' = Passed(r, noted)
        \/ request' = [request EXCEPT ![r].step = "answered", ![r].by = Current(r)]
        \/ request' = [request EXCEPT ![r].left = Tail(@)]
    BY <1>7 DEF Call
  <2>2. request[r].step = "call" /\ UNCHANGED memo
    BY <1>7 DEF Call
  <2>3. CASE \E noted \in BOOLEAN : request' = Passed(r, noted)
    BY <1>7, <2>2, <2>3, PassedMoves, OneRequestMoves
  <2>4. CASE \/ request' = [request EXCEPT ![r].step = "answered", ![r].by = Current(r)]
             \/ request' = [request EXCEPT ![r].left = Tail(@)]
    BY <1>7, <2>2, <2>4, OneRequestMoves DEF PrimaryInv
  <2>5. QED
    BY <2>1, <2>3, <2>4
<1>8. ASSUME NEW r \in Requests, Exhausted(r), UNCHANGED world PROVE PrimaryInv'
  BY <1>8, OneRequestMoves DEF Exhausted, PrimaryInv
<1>9. CASE LaneChanges /\ UNCHANGED primaryVars
  BY <1>9 DEF LaneChanges, primaryVars, PrimaryInv, Looked, Entered
<1>10. CASE Tick /\ ProbesAreBounded /\ UNCHANGED primaryVars
  <2>1. \A r \in Requests : Looked(r)'
    BY <1>10, PrimaryAssumption DEF Tick, ProbesAreBounded, primaryVars, PrimaryInv, Looked
  <2>2. QED
    BY <1>10, <2>1 DEF Tick, primaryVars, PrimaryInv, Entered
<1>11. CASE UNCHANGED <<world, primaryVars>>
  BY <1>11 DEF world, primaryVars, PrimaryInv, Looked, Entered
<1>12. QED
  BY <1>1, <1>2, <1>3, <1>4, <1>5, <1>6, <1>7, <1>8, <1>9, <1>10, <1>11 DEF PrimaryNext, PrimaryStep

\* VerdictIsRecent: the proxy decides on what a machine was like at most one TTL and one
\* probe ago, for any number of threads, lanes and lengths of probes.
THEOREM VerdictsAreRecent == PrimarySpec => VerdictIsRecent
<1> DEFINE Recent(r) == UseMemo(r) => clock <= memo[Current(r)].seen + cfg.ttl + ProbeMax
<1>1. PrimaryInv => \A r \in Requests : Recent(r)
  <2> SUFFICES ASSUME PrimaryInv, NEW r \in Requests, UseMemo(r)
               PROVE  clock <= memo[Current(r)].seen + cfg.ttl + ProbeMax
    OBVIOUS
  <2>1. Current(r) \in DOMAIN memo /\ clock <= memo[Current(r)].at + cfg.ttl
    BY DEF UseMemo, Fresh
  <2>2. cfg.ttl \in Nat
    BY DEF PrimaryInv, Config
  <2>3. Entered(Current(r)) /\ clock \in Nat
    BY <2>1 DEF PrimaryInv
  <2>4. QED
    BY <2>1, <2>2, <2>3, PrimaryAssumption DEF Entered
<1>2. PrimaryInv => [\A r \in Requests : Recent(r)]_<<world, primaryVars>>
  BY <1>1
<1>3. QED
  BY <1>2, PrimaryInvInit, PrimaryInvStep, PTL DEF PrimarySpec, VerdictIsRecent

-----------------------------------------------------------------------------
(* Delegated work *)

\* A tool probe that a report claims was made, with the model the report names.
ReportIsProven(report) ==
  \A k \in DOMAIN report.lanes \cap Lanes :
     report.lanes[k].tools = "yes" => <<k, report.lanes[k].probeModel>> \in proven

Fields == {"step", "ask", "report", "lane", "failed", "running", "broken"}

SubagentShape ==
  /\ cfg \in Config
  /\ DOMAIN command = Commands
  /\ \A c \in Commands : Fields \subseteq DOMAIN command[c]
  /\ "lanes" \in DOMAIN cache
  /\ \A c \in Commands : "lanes" \in DOMAIN command[c].report

\* A command holds a lane while its slices run and after it has succeeded, no longer.
HoldsLane(c) ==
  /\ command[c].step \notin {"slices", "done"} => command[c].lane = Nothing
  /\ command[c].step \in {"slices", "done"} => command[c].lane \in Lanes
  /\ command[c].failed \subseteq Lanes

ProofOf(c) ==
  cfg.strict /\ command[c].lane # Nothing /\ ~cfg.lane[command[c].lane].cloud =>
     <<command[c].lane, command[c].report.lanes[command[c].lane].probeModel>> \in proven

ConsentOf(c) ==
  command[c].lane # Nothing /\ cfg.lane[command[c].lane].cloud =>
      Consents(command[c].ask) /\ cfg.delegation /\ command[c].ask.profile \in cfg.cloudProfiles

OneCommand(c) ==
  /\ HoldsLane(c) /\ ReportIsProven(command[c].report)
  /\ ConsentOf(c) /\ command[c].lane \notin command[c].failed /\ ProofOf(c)

SubagentInv ==
  SubagentShape /\ ReportIsProven(cache) /\ \A c \in Commands : OneCommand(c)

LEMMA SubagentInvInit == LanesInit /\ SubagentsInit => SubagentInv
  BY LanesAssumption, SubagentsAssumption
  DEF LanesInit, SubagentsInit, SubagentInv, SubagentShape, Fields, OneCommand, HoldsLane, ReportIsProven,
      ConsentOf, ProofOf, Unstarted, NoReport

\* A step of one command that leaves it without a lane, or with the one it had.
LEMMA OneCommandMoves ==
  ASSUME SubagentInv, NEW c \in Commands, UNCHANGED world,
         DOMAIN command' = Commands,
         \A d \in Commands \ {c} : command'[d] = command[d],
         DOMAIN command[c] \subseteq DOMAIN command'[c],
         "lanes" \in DOMAIN cache' /\ "lanes" \in DOMAIN command'[c].report,
         proven \subseteq proven',
         ReportIsProven(cache)', OneCommand(c)'
  PROVE  SubagentInv'
<1>1. SubagentShape'
  BY DEF SubagentInv, SubagentShape, world
<1>2. ASSUME NEW d \in Commands \ {c} PROVE OneCommand(d)'
  BY <1>2 DEF SubagentInv, OneCommand, HoldsLane, ReportIsProven, ConsentOf, Consents, CloudDefaultEnabled,
              ProofOf, world
<1>3. QED
  BY <1>1, <1>2 DEF SubagentInv

\* What a lane's configuration says of a tool call does not depend on earlier failures.
LEMMA AttemptLane ==
  ASSUME cfg \in Config, NEW c, NEW k \in Lanes
  PROVE  /\ Attempt(c).lane[k].endpoint = cfg.lane[k].endpoint
         /\ Attempt(c).lane[k].enabled => k \notin command[c].failed
  BY DEF Attempt, Config, Lane

\* Every probe that a new report claims was made now, or is taken over from the cache
\* for the same model.
LEMMA ReportsAreProven ==
  ASSUME SubagentInv, NEW c \in Commands, NEW includeCloud, NEW probeTools, NEW report,
         report = Report(Attempt(c), includeCloud, probeTools, cache),
         proven' = proven \cup Shown(report)
  PROVE  /\ "lanes" \in DOMAIN report
         /\ \A k \in DOMAIN report.lanes \cap Lanes :
              report.lanes[k].tools = "yes" => <<k, report.lanes[k].probeModel>> \in proven'
<1>1. PICK D : /\ DOMAIN report.lanes = D /\ "lanes" \in DOMAIN report
               /\ \A k \in D : report.lanes[k] = LaneMeta(Attempt(c), k, probeTools, cache)
  BY DEF Report
<1>2. ASSUME NEW k \in D \cap Lanes, report.lanes[k].tools = "yes"
      PROVE  <<k, report.lanes[k].probeModel>> \in proven'
  <2>1. PICK model : model = report.lanes[k].probeModel
    OBVIOUS
  <2>2. \/ Reusable(Attempt(c), cache, k, model) /\ cache.lanes[k].tools = "yes"
        \/ CallsTools(Attempt(c).lane[k], condition[k], model)
    <3> DEFINE healthy == Healthy(Attempt(c).lane[k], condition[k])
               listed  == IF healthy THEN ListedModels(Attempt(c).lane[k], condition[k]) ELSE {}
               probed  == ProbeModel(Attempt(c).lane[k], listed)
               tools   == IF ~probeTools \/ ~healthy THEN "untested"
                          ELSE IF Reusable(Attempt(c), cache, k, probed) THEN cache.lanes[k].tools
                          ELSE IF CallsTools(Attempt(c).lane[k], condition[k], probed) THEN "yes" ELSE "no"
    <3>1. report.lanes[k] = LaneMeta(Attempt(c), k, probeTools, cache)
      BY <1>1
    <3>2. LaneMeta(Attempt(c), k, probeTools, cache).tools = tools
      BY DEF LaneMeta
    <3>3. LaneMeta(Attempt(c), k, probeTools, cache).probeModel = probed
      BY DEF LaneMeta
    <3>4. probed = model /\ tools = "yes"
      BY <1>2, <2>1, <3>1, <3>2, <3>3
    <3> HIDE DEF probed, healthy
    <3>5. QED
      BY <3>4
  <2>3. CASE Reusable(Attempt(c), cache, k, model) /\ cache.lanes[k].tools = "yes"
    BY <2>1, <2>3 DEF SubagentInv, ReportIsProven, Reusable
  <2>4. CASE CallsTools(Attempt(c).lane[k], condition[k], model)
    <3>1. CallsTools(cfg.lane[k], condition[k], model)
      BY <2>4, AttemptLane DEF CallsTools, SubagentInv, SubagentShape
    <3>2. <<k, model>> \in Shown(report)
      BY <1>1, <1>2, <2>1, <3>1 DEF Shown
    <3>3. QED
      BY <2>1, <3>2
  <2>5. QED
    BY <2>2, <2>3, <2>4
<1>3. QED
  BY <1>1, <1>2

LEMMA ProbesKeep ==
  ASSUME SubagentInv, UNCHANGED world, NEW c \in Commands, NEW includeCloud, NEW probeTools, NEW next,
         command[c].step \notin {"slices", "done"}, next \notin {"slices", "done"},
         Probes(c, includeCloud, probeTools, next)
  PROVE  SubagentInv'
<1>1. PICK report : report = Report(Attempt(c), includeCloud, probeTools, cache)
  OBVIOUS
<1>2. /\ command' = [command EXCEPT ![c].report = report, ![c].step = next]
      /\ proven' = proven \cup Shown(report) /\ UNCHANGED cache
  BY <1>1 DEF Probes
<1>3. /\ command'[c].report = report /\ command'[c].step = next
      /\ command'[c].lane = command[c].lane /\ command'[c].failed = command[c].failed
      /\ DOMAIN command'[c] = DOMAIN command[c] /\ DOMAIN command' = Commands
      /\ \A d \in Commands \ {c} : command'[d] = command[d]
  BY <1>2 DEF SubagentInv, SubagentShape, Fields
<1>4. "lanes" \in DOMAIN report /\ ReportIsProven(command[c].report)'
  BY <1>1, <1>2, <1>3, ReportsAreProven DEF ReportIsProven
<1>5. command[c].lane = Nothing
  BY DEF SubagentInv, OneCommand, HoldsLane
<1>6. OneCommand(c)'
  BY <1>3, <1>4, <1>5, SubagentsAssumption DEF SubagentInv, OneCommand, HoldsLane, ConsentOf, ProofOf
<1>7. ReportIsProven(cache)'
  BY <1>2 DEF SubagentInv, ReportIsProven
<1>8. QED
  BY <1>2, <1>3, <1>4, <1>6, <1>7, OneCommandMoves DEF SubagentInv, SubagentShape

\* Whatever the report recommends, a lane that is chosen is one that this command may use,
\* and not one that failed it.
LEMMA ChoicesAreFit ==
  ASSUME SubagentInv, NEW c \in Commands, NEW k \in LaneChoices(c)
  PROVE  /\ k \in Lanes /\ k # Nothing /\ k \notin command[c].failed
         /\ cfg.lane[k].cloud => CloudForProfile(c)
         /\ cfg.strict /\ ~cfg.lane[k].cloud => <<k, command[c].report.lanes[k].probeModel>> \in proven
<1>1. Admitted(c, k) /\ (Alive(c, k) \/ k \in StrictChoices(c))
  BY DEF LaneChoices, StrictChoices, StrictCandidates, RelaxedChoices, MayUseRecommended
<1>2. k \in Lanes
  BY <1>1 DEF Admitted, Documented, SubagentInv, SubagentShape, Config
<1>3. Alive(c, k)
  BY <1>1 DEF StrictChoices
<1>4. Attempt(c).lane[k].enabled
  BY <1>3 DEF Alive, Healthy
<1>5. k \notin command[c].failed
  BY <1>2, <1>4, AttemptLane DEF SubagentInv, SubagentShape
<1>6. ASSUME cfg.strict, ~cfg.lane[k].cloud PROVE <<k, command[c].report.lanes[k].probeModel>> \in proven
  <2>1. k \in StrictCandidates(c)
    BY <1>6 DEF LaneChoices, StrictChoices
  <2>2. k \in DOMAIN command[c].report.lanes /\ command[c].report.lanes[k].tools = "yes"
    BY <1>6, <2>1 DEF StrictCandidates
  <2>3. QED
    BY <1>2, <2>2 DEF SubagentInv, OneCommand, ReportIsProven
<1>7. QED
  BY <1>1, <1>2, <1>5, <1>6, SubagentsAssumption DEF Admitted

LEMMA ChooseKeeps ==
  ASSUME SubagentInv, UNCHANGED world, NEW c \in Commands, Choose(c)
  PROVE  SubagentInv'
<1>1. /\ command[c].step = "choose" /\ command[c].lane = Nothing
      /\ UNCHANGED <<cache, proven>> /\ ReportIsProven(cache)'
  BY DEF Choose, SubagentInv, OneCommand, HoldsLane, ReportIsProven
<1>2. CASE LaneChoices(c) = {}
  <2>1. command' = [command EXCEPT ![c].step = "failed"]
    BY <1>2 DEF Choose
  <2>2. /\ command'[c].step = "failed" /\ command'[c].report = command[c].report
        /\ command'[c].lane = command[c].lane /\ command'[c].failed = command[c].failed
        /\ DOMAIN command'[c] = DOMAIN command[c] /\ DOMAIN command' = Commands
        /\ \A d \in Commands \ {c} : command'[d] = command[d]
    BY <2>1 DEF SubagentInv, SubagentShape, Fields
  <2>3. OneCommand(c)'
    BY <1>1, <2>2 DEF SubagentInv, OneCommand, HoldsLane, ReportIsProven, ConsentOf, ProofOf
  <2>4. QED
    BY <1>1, <2>2, <2>3, OneCommandMoves DEF SubagentInv, SubagentShape
<1>3. CASE LaneChoices(c) # {}
  <2>1. PICK k \in LaneChoices(c), n \in 1..MaxSlices :
          command' = [command EXCEPT ![c].step = "slices", ![c].lane = k, ![c].running = n]
    BY <1>3 DEF Choose
  <2>2. /\ command'[c].step = "slices" /\ command'[c].lane = k /\ command'[c].ask = command[c].ask
        /\ command'[c].report = command[c].report /\ command'[c].failed = command[c].failed
        /\ DOMAIN command'[c] = DOMAIN command[c] /\ DOMAIN command' = Commands
        /\ \A d \in Commands \ {c} : command'[d] = command[d]
    BY <2>1 DEF SubagentInv, SubagentShape, Fields
  <2>3. /\ k \in Lanes /\ k # Nothing /\ k \notin command[c].failed
        /\ cfg.lane[k].cloud => CloudForProfile(c)
        /\ cfg.strict /\ ~cfg.lane[k].cloud => <<k, command[c].report.lanes[k].probeModel>> \in proven
    BY <2>1, ChoicesAreFit
  <2>4. HoldsLane(c)' /\ ReportIsProven(command[c].report)' /\ (command[c].lane \notin command[c].failed)'
    BY <1>1, <2>2, <2>3 DEF SubagentInv, OneCommand, HoldsLane, ReportIsProven
  <2>5. ConsentOf(c)'
    BY <2>2, <2>3 DEF ConsentOf, CloudForProfile, Consents, CloudDefaultEnabled, world
  <2>6. ProofOf(c)'
    BY <1>1, <2>2, <2>3 DEF ProofOf, world
  <2>7. OneCommand(c)'
    BY <2>4, <2>5, <2>6 DEF OneCommand
  <2>8. QED
    BY <1>1, <2>2, <2>7, OneCommandMoves DEF SubagentInv, SubagentShape
<1>4. QED
  BY <1>2, <1>3

LEMMA RoundEndsKeeps ==
  ASSUME SubagentInv, UNCHANGED world, NEW c \in Commands, RoundEnds(c)
  PROVE  SubagentInv'
<1>1. /\ command[c].step = "slices" /\ command[c].lane \in Lanes
      /\ UNCHANGED <<cache, proven>> /\ ReportIsProven(cache)'
  BY DEF RoundEnds, SubagentInv, OneCommand, HoldsLane, ReportIsProven
<1>2. CASE ~command[c].broken
  <2>1. command' = [command EXCEPT ![c].step = "done"]
    BY <1>2 DEF RoundEnds
  <2>2. /\ command'[c].step = "done" /\ command'[c].report = command[c].report
        /\ command'[c].lane = command[c].lane /\ command'[c].failed = command[c].failed
        /\ command'[c].ask = command[c].ask
        /\ DOMAIN command'[c] = DOMAIN command[c] /\ DOMAIN command' = Commands
        /\ \A d \in Commands \ {c} : command'[d] = command[d]
    BY <2>1 DEF SubagentInv, SubagentShape, Fields
  <2>3. OneCommand(c)'
    BY <1>1, <2>2 DEF SubagentInv, OneCommand, HoldsLane, ReportIsProven, ConsentOf, Consents,
                      CloudDefaultEnabled, ProofOf, world
  <2>4. QED
    BY <1>1, <2>2, <2>3, OneCommandMoves DEF SubagentInv, SubagentShape
<1>3. CASE command[c].broken
  <2>1. PICK failed, next : /\ failed = command[c].failed \cup {command[c].lane}
                            /\ next = IF Cardinality(failed) = Len(cfg.document) THEN "failed" ELSE "resolve"
    OBVIOUS
  <2>2. command' = [command EXCEPT ![c].failed = failed, ![c].lane = Nothing, ![c].broken = FALSE,
                                   ![c].step = next]
    BY <1>3, <2>1 DEF RoundEnds
  <2>3. /\ command'[c].step = next /\ command'[c].report = command[c].report
        /\ command'[c].lane = Nothing /\ command'[c].failed = failed
        /\ DOMAIN command'[c] = DOMAIN command[c] /\ DOMAIN command' = Commands
        /\ \A d \in Commands \ {c} : command'[d] = command[d]
    BY <2>2 DEF SubagentInv, SubagentShape, Fields
  <2>4. failed \subseteq Lanes /\ next \notin {"slices", "done"}
    BY <1>1, <2>1 DEF SubagentInv, OneCommand, HoldsLane
  <2>5. OneCommand(c)'
    BY <1>1, <2>3, <2>4, SubagentsAssumption
    DEF SubagentInv, OneCommand, HoldsLane, ReportIsProven, ConsentOf, ProofOf
  <2>6. QED
    BY <1>1, <2>3, <2>5, OneCommandMoves DEF SubagentInv, SubagentShape
<1>4. QED
  BY <1>2, <1>3

LEMMA SubagentInvStep == SubagentInv /\ [SubagentsNext]_<<world, subagentVars>> => SubagentInv'
<1> SUFFICES ASSUME SubagentInv, [SubagentsNext]_<<world, subagentVars>> PROVE SubagentInv'
  OBVIOUS
<1>1. ASSUME NEW c \in Commands, NEW what, Start(c, what), UNCHANGED world PROVE SubagentInv'
  <2>1. /\ command[c].step = "idle" /\ command' = [command EXCEPT ![c].step = "resolve", ![c].ask = what]
        /\ UNCHANGED <<cache, proven>>
    BY <1>1 DEF Start
  <2>2. /\ command'[c].step = "resolve" /\ command'[c].report = command[c].report
        /\ command'[c].lane = command[c].lane /\ command'[c].failed = command[c].failed
        /\ DOMAIN command'[c] = DOMAIN command[c] /\ DOMAIN command' = Commands
        /\ \A d \in Commands \ {c} : command'[d] = command[d]
    BY <2>1 DEF SubagentInv, SubagentShape, Fields
  <2>3. OneCommand(c)' /\ ReportIsProven(cache)'
    BY <2>1, <2>2 DEF SubagentInv, OneCommand, HoldsLane, ReportIsProven, ConsentOf, ProofOf
  <2>4. QED
    BY <1>1, <2>1, <2>2, <2>3, OneCommandMoves DEF SubagentInv, SubagentShape
<1>2. ASSUME NEW c \in Commands, ProbeLive(c), UNCHANGED world PROVE SubagentInv'
  <2>1. command[c].step = "resolve" /\ \E next \in {"save", "choose"} :
          Probes(c, CloudForProfile(c), cfg.strict, next)
    BY <1>2 DEF ProbeLive
  <2>2. QED
    BY <1>2, <2>1, ProbesKeep
<1>3. ASSUME NEW c \in Commands, Refresh(c), UNCHANGED world PROVE SubagentInv'
  <2>1. command[c].step = "resolve" /\ \E cloudToo, tools : Probes(c, cloudToo, tools, "save")
    BY <1>3 DEF Refresh
  <2>2. QED
    BY <1>3, <2>1, ProbesKeep
<1>4. ASSUME NEW c \in Commands, ReadCache(c), UNCHANGED world PROVE SubagentInv'
  <2>1. /\ command[c].step = "resolve" /\ command' = [command EXCEPT ![c].report = cache, ![c].step = "check"]
        /\ UNCHANGED <<cache, proven>>
    BY <1>4 DEF ReadCache
  <2>2. /\ command'[c].step = "check" /\ command'[c].report = cache
        /\ command'[c].lane = command[c].lane /\ command'[c].failed = command[c].failed
        /\ DOMAIN command'[c] = DOMAIN command[c] /\ DOMAIN command' = Commands
        /\ \A d \in Commands \ {c} : command'[d] = command[d]
    BY <2>1 DEF SubagentInv, SubagentShape, Fields
  <2>3. OneCommand(c)' /\ ReportIsProven(cache)'
    <3>1. ReportIsProven(cache)'
      BY <2>1 DEF SubagentInv, ReportIsProven
    <3>2. ReportIsProven(command[c].report)'
      BY <2>1, <2>2, <3>1 DEF ReportIsProven
    <3>3. command'[c].lane = Nothing /\ Nothing \notin command'[c].failed
      BY <2>1, <2>2 DEF SubagentInv, OneCommand, HoldsLane
    <3>4. HoldsLane(c)'
      BY <2>2, <3>3 DEF SubagentInv, OneCommand, HoldsLane
    <3>5. QED
      BY <3>1, <3>2, <3>3, <3>4 DEF OneCommand, ConsentOf, ProofOf
  <2>4. QED
    BY <1>4, <2>1, <2>2, <2>3, OneCommandMoves DEF SubagentInv, SubagentShape
<1>5. ASSUME NEW c \in Commands, ProbeUncached(c), UNCHANGED world PROVE SubagentInv'
  <2>1. CASE cfg.strict
    <3>1. command[c].step = "resolve" /\ Probes(c, CloudForProfile(c), TRUE, "choose")
      BY <1>5, <2>1 DEF ProbeUncached
    <3>2. QED
      BY <1>5, <3>1, ProbesKeep
  <2>2. CASE ~cfg.strict
    <3>1. /\ command[c].step = "resolve"
          /\ command' = [command EXCEPT ![c].report = NoReport, ![c].step = "choose"]
          /\ UNCHANGED <<cache, proven>>
      BY <1>5, <2>2 DEF ProbeUncached
    <3>2. /\ command'[c].step = "choose" /\ command'[c].report = NoReport
          /\ command'[c].lane = command[c].lane /\ command'[c].failed = command[c].failed
          /\ DOMAIN command'[c] = DOMAIN command[c] /\ DOMAIN command' = Commands
          /\ \A d \in Commands \ {c} : command'[d] = command[d]
      BY <3>1 DEF SubagentInv, SubagentShape, Fields
    <3>3. OneCommand(c)' /\ ReportIsProven(cache)'
      <4>1. ReportIsProven(cache)'
        BY <3>1 DEF SubagentInv, ReportIsProven
      <4>2. NoReport.lanes = <<>> /\ DOMAIN NoReport.lanes = {}
        BY DEF NoReport
      <4>3. ReportIsProven(command[c].report)'
        BY <3>2, <4>2 DEF ReportIsProven
      <4>4. command'[c].lane = Nothing /\ Nothing \notin command'[c].failed
        BY <3>1, <3>2 DEF SubagentInv, OneCommand, HoldsLane
      <4>5. HoldsLane(c)'
        BY <3>2, <4>4 DEF SubagentInv, OneCommand, HoldsLane
      <4>6. QED
        BY <4>1, <4>3, <4>4, <4>5 DEF OneCommand, ConsentOf, ProofOf
    <3>4. "lanes" \in DOMAIN NoReport
      BY DEF NoReport
    <3>5. QED
      BY <1>5, <3>1, <3>2, <3>3, <3>4, OneCommandMoves DEF SubagentInv, SubagentShape
  <2>3. QED
    BY <2>1, <2>2
<1>6. ASSUME NEW c \in Commands, Save(c), UNCHANGED world PROVE SubagentInv'
  <2>1. /\ command[c].step = "save" /\ command' = [command EXCEPT ![c].step = "check"]
        /\ cache' = [command[c].report EXCEPT !.at = clock] /\ UNCHANGED proven
    BY <1>6 DEF Save
  <2>2. /\ command'[c].step = "check" /\ command'[c].report = command[c].report
        /\ command'[c].lane = command[c].lane /\ command'[c].failed = command[c].failed
        /\ DOMAIN command'[c] = DOMAIN command[c] /\ DOMAIN command' = Commands
        /\ \A d \in Commands \ {c} : command'[d] = command[d]
    BY <2>1 DEF SubagentInv, SubagentShape, Fields
  <2>3. "lanes" \in DOMAIN cache' /\ cache'.lanes = command[c].report.lanes
    BY <2>1 DEF SubagentInv, SubagentShape
  <2>4. OneCommand(c)' /\ ReportIsProven(cache)'
    BY <2>1, <2>2, <2>3 DEF SubagentInv, OneCommand, HoldsLane, ReportIsProven, ConsentOf, ProofOf
  <2>5. QED
    BY <1>6, <2>1, <2>2, <2>3, <2>4, OneCommandMoves DEF SubagentInv, SubagentShape
<1>7. ASSUME NEW c \in Commands, Check(c), UNCHANGED world PROVE SubagentInv'
  <2>1. CASE cfg.strict /\ ~HasToolData(cfg, command[c].report)
    <3>1. command[c].step = "check" /\ \E cloudToo, tools : Probes(c, cloudToo, tools, "save")
      BY <1>7, <2>1 DEF Check
    <3>2. QED
      BY <1>7, <3>1, ProbesKeep
  <2>2. CASE ~(cfg.strict /\ ~HasToolData(cfg, command[c].report))
    <3>1. /\ command[c].step = "check" /\ command' = [command EXCEPT ![c].step = "choose"]
          /\ UNCHANGED <<cache, proven>>
      BY <1>7, <2>2 DEF Check
    <3>2. /\ command'[c].step = "choose" /\ command'[c].report = command[c].report
          /\ command'[c].lane = command[c].lane /\ command'[c].failed = command[c].failed
          /\ DOMAIN command'[c] = DOMAIN command[c] /\ DOMAIN command' = Commands
          /\ \A d \in Commands \ {c} : command'[d] = command[d]
      BY <3>1 DEF SubagentInv, SubagentShape, Fields
    <3>3. OneCommand(c)' /\ ReportIsProven(cache)'
      BY <3>1, <3>2 DEF SubagentInv, OneCommand, HoldsLane, ReportIsProven, ConsentOf, ProofOf
    <3>4. QED
      BY <1>7, <3>1, <3>2, <3>3, OneCommandMoves DEF SubagentInv, SubagentShape
  <2>3. QED
    BY <2>1, <2>2
<1>8. ASSUME NEW c \in Commands, SliceEnds(c), UNCHANGED world PROVE SubagentInv'
  <2>1. PICK broken : /\ command' = [command EXCEPT ![c].running = @ - 1, ![c].broken = broken]
                      /\ UNCHANGED <<cache, proven>>
    BY <1>8 DEF SliceEnds
  <2>2. /\ command'[c].step = command[c].step /\ command'[c].report = command[c].report
        /\ command'[c].lane = command[c].lane /\ command'[c].failed = command[c].failed
        /\ command'[c].ask = command[c].ask
        /\ DOMAIN command'[c] = DOMAIN command[c] /\ DOMAIN command' = Commands
        /\ \A d \in Commands \ {c} : command'[d] = command[d]
    BY <2>1 DEF SubagentInv, SubagentShape, Fields
  <2>3. OneCommand(c)' /\ ReportIsProven(cache)'
    BY <1>8, <2>1, <2>2 DEF SubagentInv, OneCommand, HoldsLane, ReportIsProven, ConsentOf, Consents,
                            CloudDefaultEnabled, ProofOf, world
  <2>4. QED
    BY <1>8, <2>1, <2>2, <2>3, OneCommandMoves DEF SubagentInv, SubagentShape
<1>9. CASE (LaneChanges \/ Tick) /\ UNCHANGED subagentVars
  <2>1. UNCHANGED <<cfg, cache, command, proven>>
    BY <1>9 DEF LaneChanges, Tick, subagentVars
  <2>2. QED
    BY <2>1 DEF SubagentInv, SubagentShape, OneCommand, HoldsLane, ReportIsProven, ConsentOf, Consents,
                CloudDefaultEnabled, ProofOf
<1>10. CASE UNCHANGED <<world, subagentVars>>
  <2>1. UNCHANGED <<cfg, cache, command, proven>>
    BY <1>10 DEF world, subagentVars
  <2>2. QED
    BY <2>1 DEF SubagentInv, SubagentShape, OneCommand, HoldsLane, ReportIsProven, ConsentOf, Consents,
                CloudDefaultEnabled, ProofOf
<1>11. QED
  BY <1>1, <1>2, <1>3, <1>4, <1>5, <1>6, <1>7, <1>8, <1>9, <1>10, ChooseKeeps, RoundEndsKeeps
  DEF SubagentsNext, SubagentStep

LEMMA SubagentInvariant == SubagentsSpec => []SubagentInv
  BY SubagentInvInit, SubagentInvStep, PTL DEF SubagentsSpec

\* CloudNeedsConsent: slices run on a cloud lane only with this command's consent (or the
\* policy's), delegation switched on and a listed profile, whoever wrote the report.
THEOREM CloudIsConsented == SubagentsSpec => []CloudNeedsConsent
<1>1. SubagentInv => CloudNeedsConsent
  BY DEF SubagentInv, OneCommand, ConsentOf, CloudNeedsConsent
<1>2. QED
  BY <1>1, SubagentInvariant, PTL

\* FailedLaneIsLeftAlone: a command never returns to a lane on which a slice failed.
THEOREM FailedLaneAvoided == SubagentsSpec => []FailedLaneIsLeftAlone
<1>1. SubagentInv => FailedLaneIsLeftAlone
  BY DEF SubagentInv, OneCommand, FailedLaneIsLeftAlone
<1>2. QED
  BY <1>1, SubagentInvariant, PTL

\* ToolsAreProven: in strict mode the model that a self-hosted lane was chosen for has
\* passed a tool probe, through any chain of reports reused by other commands.
THEOREM ToolProbesHold == SubagentsSpec => []ToolsAreProven
<1>1. SubagentInv => ToolsAreProven
  BY DEF SubagentInv, OneCommand, ProofOf, ToolsAreProven
<1>2. QED
  BY <1>1, SubagentInvariant, PTL

-----------------------------------------------------------------------------
(* The orchestrator *)

\* Both kinds of work on the same machines: each half behaves as it does alone, so the
\* theorems above hold of the whole.
THEOREM OrchestratorIsBoth == Spec => PrimarySpec /\ SubagentsSpec
<1>1. Init => LanesInit /\ PrimaryInit /\ SubagentsInit
  BY DEF Init
<1>2. [Next]_vars => [PrimaryNext]_<<world, primaryVars>>
  BY DEF Next, vars, Primary, Delegated, World, PrimaryNext
<1>3. [Next]_vars => [SubagentsNext]_<<world, subagentVars>>
  BY DEF Next, vars, Primary, Delegated, World, SubagentsNext
<1>4. QED
  BY <1>1, <1>2, <1>3, PTL DEF Spec, PrimarySpec, SubagentsSpec

-----------------------------------------------------------------------------
(* Primary work: cloud lanes come last *)

-----------------------------------------------------------------------------
(* The order of the lanes *)

\* A stable sort by priority keeps the lanes it is given.
LEMMA PriorityFacts ==
  ASSUME NEW c \in Config, NEW keys \in Seq(Lanes)
  PROVE  PrioritySorted(c, keys) \in Seq(Lanes) /\ Range(PrioritySorted(c, keys)) = Range(keys)
<1> DEFINE K == [i \in DOMAIN keys |-> c.lane[keys[i]].priority]
           R == {p \in (DOMAIN keys) \X (DOMAIN keys) : K[p[1]] > K[p[2]] \/ (K[p[1]] = K[p[2]] /\ p[1] < p[2])}
           t == Along(keys, DOMAIN keys, R)
<1>1. PrioritySorted(c, keys) = t
  <2>1. ByKey(keys, LAMBDA k : c.lane[k].priority) = R
    BY DEF ByKey
  <2> QED
    BY <2>1 DEF PrioritySorted, Ranked
<1>2. K \in [DOMAIN keys -> Int]
  <2>1. \A i \in DOMAIN keys : keys[i] \in Lanes
    OBVIOUS
  <2>2. \A k \in Lanes : c.lane[k].priority \in Int
    BY DEF Config, Lane
  <2> QED
    BY <2>1, <2>2
<1> HIDE DEF K
<1>3. ReadsOff(t, keys, DOMAIN keys, Lanes)
  BY <1>2, KeyOrder
<1> HIDE DEF t
<1>4. \A x : x \in Range(t) <=> x \in Range(keys)
  BY <1>3 DEF ReadsOff, Range
<1> QED
  BY <1>1, <1>3, <1>4 DEF ReadsOff

\* The self-hosted lanes, all of them, and no other.
LEMMA SelfHostedFacts ==
  ASSUME NEW c \in Config, NEW keys \in Seq(Lanes)
  PROVE  SelfHosted(c, keys) \in Seq(Lanes) /\ Range(SelfHosted(c, keys)) = {k \in Range(keys) : ~c.lane[k].cloud}
<1> DEFINE I == {i \in DOMAIN keys : ~c.lane[keys[i]].cloud}
           t == At(keys, I)
<1>1. SelfHosted(c, keys) = PrioritySorted(c, t)
  BY DEF SelfHosted, Only
<1>2. t \in Seq(Lanes) /\ \A x : x \in Range(t) <=> \E i \in I : x = keys[i]
  BY FilterFacts
<1>25. \A i \in DOMAIN keys : i \in I <=> ~c.lane[keys[i]].cloud
  OBVIOUS
<1>26. I \subseteq DOMAIN keys
  OBVIOUS
<1> HIDE DEF t, I
<1>27. \A x : x \in Range(keys) <=> \E i \in DOMAIN keys : x = keys[i]
  BY DEF Range
<1>3. \A x : x \in Range(t) <=> x \in {k \in Range(keys) : ~c.lane[k].cloud}
  BY <1>2, <1>25, <1>26, <1>27
<1>4. Range(t) = {k \in Range(keys) : ~c.lane[k].cloud}
  BY <1>3
<1> QED
  BY <1>1, <1>2, <1>4, PriorityFacts

\* The cloud lanes, all of them, and no other.
LEMMA CloudFacts ==
  ASSUME NEW c \in Config, NEW keys \in Seq(Lanes)
  PROVE  Cloud(c, keys) \in Seq(Lanes) /\ Range(Cloud(c, keys)) = {k \in Range(keys) : c.lane[k].cloud}
<1> DEFINE I == {i \in DOMAIN keys : c.lane[keys[i]].cloud}
           t == At(keys, I)
<1>1. Cloud(c, keys) = PrioritySorted(c, t)
  BY DEF Cloud, Only
<1>2. t \in Seq(Lanes) /\ \A x : x \in Range(t) <=> \E i \in I : x = keys[i]
  BY FilterFacts
<1>3. \A x : x \in Range(t) <=> x \in {k \in Range(keys) : c.lane[k].cloud}
  BY <1>2 DEF Range
<1> HIDE DEF t
<1>4. Range(t) = {k \in Range(keys) : c.lane[k].cloud}
  BY <1>3
<1> QED
  BY <1>1, <1>2, <1>4, PriorityFacts

\* Nothing self-hosted comes after a cloud lane.
CloudLast(c, s) == \A i, j \in DOMAIN s : i < j /\ c.lane[s[i]].cloud => c.lane[s[j]].cloud

\* The policy reorders the lanes; self-hosted first, it puts no cloud lane before another.
LEMMA PolicyOrderFacts ==
  ASSUME NEW c \in Config, NEW keys \in Seq(Lanes)
  PROVE  /\ PolicyOrder(c, keys) \in Seq(Lanes) /\ Range(PolicyOrder(c, keys)) = Range(keys)
         /\ c.selfHostedFirst => CloudLast(c, PolicyOrder(c, keys))
<1> DEFINE a == SelfHosted(c, keys)
           b == Cloud(c, keys)
           s == a \o b
<1>1. a \in Seq(Lanes) /\ Range(a) = {k \in Range(keys) : ~c.lane[k].cloud}
  BY SelfHostedFacts
<1>2. b \in Seq(Lanes) /\ Range(b) = {k \in Range(keys) : c.lane[k].cloud}
  BY CloudFacts
<1>3. PolicyOrder(c, keys) = IF c.selfHostedFirst THEN s ELSE PrioritySorted(c, keys)
  BY DEF PolicyOrder
<1> HIDE DEF a, b
<1>4. /\ s \in Seq(Lanes) /\ Len(s) = Len(a) + Len(b) /\ DOMAIN s = 1 .. Len(a) + Len(b)
      /\ \A i \in 1 .. Len(a) + Len(b) : s[i] = IF i <= Len(a) THEN a[i] ELSE b[i - Len(a)]
  <2>1. /\ s \in Seq(Lanes) /\ Len(s) = Len(a) + Len(b)
        /\ \A i \in 1 .. Len(a) + Len(b) : s[i] = IF i <= Len(a) THEN a[i] ELSE b[i - Len(a)]
    BY <1>1, <1>2, ConcatProperties
  <2> HIDE DEF s
  <2> QED
    BY <2>1
<1>5. DOMAIN a = 1 .. Len(a) /\ DOMAIN b = 1 .. Len(b) /\ Len(a) \in Nat /\ Len(b) \in Nat
  BY <1>1, <1>2
<1> HIDE DEF s
<1>6. \A i \in DOMAIN a : a[i] \in Range(keys) /\ ~c.lane[a[i]].cloud
  BY <1>1 DEF Range
<1>7. \A i \in DOMAIN b : b[i] \in Range(keys) /\ c.lane[b[i]].cloud
  BY <1>2 DEF Range
<1>8. \A i \in DOMAIN s : (i \in DOMAIN a /\ s[i] = a[i]) \/ (i > Len(a) /\ i - Len(a) \in DOMAIN b /\ s[i] = b[i - Len(a)])
  BY <1>4, <1>5
<1>9. CloudLast(c, s)
  <2> SUFFICES ASSUME NEW i \in DOMAIN s, NEW j \in DOMAIN s, i < j, c.lane[s[i]].cloud
               PROVE  c.lane[s[j]].cloud
    BY DEF CloudLast
  <2>1. i > Len(a)
    BY <1>6, <1>8
  <2>2. j > Len(a) /\ j \in Int
    BY <1>4, <1>5, <2>1
  <2>3. j \notin DOMAIN a
    BY <1>5, <2>2
  <2> QED
    BY <1>7, <1>8, <2>3
<1>10. Range(s) = Range(keys)
  <2>1. \A x \in Range(s) : x \in Range(keys)
    BY <1>6, <1>7, <1>8 DEF Range
  <2>2. ASSUME NEW x \in Range(keys) PROVE x \in Range(s)
    <3>1. x \in Range(a) \/ x \in Range(b)
      BY <1>1, <1>2
    <3>2. CASE x \in Range(a)
      <4>1. PICK i \in 1 .. Len(a) : x = a[i]
        BY <1>5, <3>2 DEF Range
      <4>2. i \in DOMAIN s /\ s[i] = x
        BY <1>4, <1>5, <4>1
      <4> QED
        BY <4>2 DEF Range
    <3>3. CASE x \in Range(b)
      <4>1. PICK i \in 1 .. Len(b) : x = b[i]
        BY <1>5, <3>3 DEF Range
      <4>2. i + Len(a) \in 1 .. Len(a) + Len(b) /\ ~ (i + Len(a) <= Len(a)) /\ (i + Len(a)) - Len(a) = i
        BY <1>5
      <4>3. i + Len(a) \in DOMAIN s /\ s[i + Len(a)] = x
        BY <1>4, <4>1, <4>2
      <4> QED
        BY <4>3 DEF Range
    <3> QED
      BY <3>1, <3>2, <3>3
  <2> QED
    BY <2>1, <2>2
<1> QED
  BY <1>3, <1>4, <1>9, <1>10, PriorityFacts

\* The lanes that take part are lanes.
LEMMA ParticipatingFacts ==
  ASSUME NEW c \in Config
  PROVE  Participating(c) \in Seq(Lanes)
<1> DEFINE s == c.primaryOrder
           I == {i \in DOMAIN s : s[i] \in Documented(c)}
<1>1. Participating(c) = IF At(s, I) = <<>> THEN c.document ELSE At(s, I)
  BY DEF Participating, Only
<1>2. s \in Seq(Lanes) /\ c.document \in Seq(Lanes)
  BY DEF Config
<1> HIDE DEF s
<1>3. At(s, I) \in Seq(Lanes)
  BY <1>2, FilterFacts
<1> QED
  BY <1>1, <1>2, <1>3

\* The lanes of a model, in the order of the others.
LEMMA ServingFacts ==
  ASSUME NEW c, NEW keys \in Seq(Lanes), NEW wanted
  PROVE  LET match == {k \in Range(keys) : MatchesRequirement(wanted, ModelsOf(c.lane[k]))}
         IN  /\ Serving(c, keys, wanted) \in Seq(Lanes)
             /\ Range(Serving(c, keys, wanted)) = IF match = {} THEN Range(keys) ELSE match
             /\ CloudLast(c, keys) => CloudLast(c, Serving(c, keys, wanted))
<1> DEFINE match == {k \in Range(keys) : MatchesRequirement(wanted, ModelsOf(c.lane[k]))}
           I == {i \in DOMAIN keys : MatchesRequirement(wanted, ModelsOf(c.lane[keys[i]]))}
           t == At(keys, I)
           u == Serving(c, keys, wanted)
<1> SUFFICES /\ u \in Seq(Lanes)
             /\ Range(u) = IF match = {} THEN Range(keys) ELSE match
             /\ CloudLast(c, keys) => CloudLast(c, u)
  OBVIOUS
<1>1. u = IF t = <<>> THEN keys ELSE t
  BY DEF Serving, Preferring, Only
<1>2. /\ t \in Seq(Lanes) /\ \A x : x \in Range(t) <=> \E i \in I : x = keys[i]
      /\ t = <<>> <=> Range(t) = {}
  BY FilterFacts
<1>3. \A x : x \in Range(t) <=> x \in match
  BY <1>2 DEF Range
<1>4. Range(t) = match
  <2> HIDE DEF t, match
  <2> QED
    BY <1>3
<1>5. ASSUME CloudLast(c, keys) PROVE CloudLast(c, t)
  <2> SUFFICES ASSUME NEW a \in DOMAIN t, NEW b \in DOMAIN t, a < b, c.lane[t[a]].cloud
               PROVE  c.lane[t[b]].cloud
    BY DEF CloudLast
  <2>0. I \in SUBSET DOMAIN keys
    OBVIOUS
  <2> HIDE DEF I
  <2>1. \E i, j \in I : i < j /\ t[a] = keys[i] /\ t[b] = keys[j]
    BY <2>0, AtInOrder
  <2> HIDE DEF t
  <2> QED
    BY <1>5, <2>0, <2>1 DEF CloudLast
<1> HIDE DEF t, match, u
<1> QED
  BY <1>1, <1>2, <1>4, <1>5

\* The self-hosted lanes that could serve a request have been tried, or will be before a cloud lane.
Able(c, q) ==
  {k \in Range(Serving(c, Participating(c), q.wanted)) : c.lane[k].enabled /\ ~c.lane[k].cloud}

\* What the walk of a request keeps: the lanes still ahead, the cloud ones last, and none that is able
\* forgotten.  A lane under probe is self-hosted; one that is called in the cloud was allowed.
LastResort(c, q) ==
  /\ q.order \in Seq(Lanes)
  /\ q.step \in {"probed", "call"} => q.order # <<>>
  /\ q.step = "probed" => ~c.lane[Head(q.order)].cloud
  /\ q.step = "call" /\ c.lane[Head(q.order)].cloud => q.allowCloud
  /\ q.step \in {"lane", "probed", "call"} /\ c.selfHostedFirst =>
       CloudLast(c, q.order) /\ Able(c, q) \subseteq q.attempts \cup Range(q.order)
  /\ q.step = "answered" /\ c.lane[q.by].cloud =>
       q.allowCloud /\ (c.selfHostedFirst => Able(c, q) \subseteq q.attempts)

\* A request starts with every lane that serves it still ahead.
LEMMA ArrivalIsFair ==
  ASSUME NEW c \in Config, NEW q, q.step = "lane", q.order = Serving(c, PrimaryLaneOrder(c), q.wanted)
  PROVE  LastResort(c, q)
<1> DEFINE part == Participating(c)
           all == PrimaryLaneOrder(c)
<1>1. part \in Seq(Lanes)
  BY ParticipatingFacts
<1>2. all \in Seq(Lanes) /\ Range(all) = Range(part) /\ (c.selfHostedFirst => CloudLast(c, all))
  BY <1>1, PolicyOrderFacts DEF PrimaryLaneOrder
<1> HIDE DEF part, all
<1>25. all \in Seq(Lanes)
  BY <1>2
<1>3. Serving(c, all, q.wanted) \in Seq(Lanes)
  BY <1>25, ServingFacts
<1>31. CloudLast(c, all) => CloudLast(c, Serving(c, all, q.wanted))
  BY <1>25, ServingFacts
<1>35. Range(Serving(c, all, q.wanted)) =
           IF {k \in Range(all) : MatchesRequirement(q.wanted, ModelsOf(c.lane[k]))} = {} THEN Range(all)
           ELSE {k \in Range(all) : MatchesRequirement(q.wanted, ModelsOf(c.lane[k]))}
  BY <1>25, ServingFacts
<1>4. Range(Serving(c, part, q.wanted)) =
           IF {k \in Range(part) : MatchesRequirement(q.wanted, ModelsOf(c.lane[k]))} = {} THEN Range(part)
           ELSE {k \in Range(part) : MatchesRequirement(q.wanted, ModelsOf(c.lane[k]))}
  BY <1>1, ServingFacts
<1>5. Range(Serving(c, part, q.wanted)) = Range(q.order)
  BY <1>2, <1>35, <1>4 DEF all
<1>6. Able(c, q) \subseteq Range(q.order)
  BY <1>5 DEF Able, part
<1> QED
  BY <1>2, <1>3, <1>31, <1>6 DEF LastResort, all

\* The current lane has been passed: it was tried, or it may not be used.
LEMMA PassingIsFair ==
  ASSUME NEW c \in Config, NEW q, NEW p, LastResort(c, q), q.order # <<>>, q.step \in {"lane", "probed", "call"},
         p.order = Tail(q.order), p.step = "lane", p.wanted = q.wanted,
         \/ p.attempts = q.attempts \cup {Head(q.order)}
         \/ p.attempts = q.attempts /\ (c.lane[Head(q.order)].cloud \/ ~c.lane[Head(q.order)].enabled)
  PROVE  LastResort(c, p)
<1>1. q.order \in Seq(Lanes)
  BY DEF LastResort
<1>2. /\ p.order \in Seq(Lanes) /\ DOMAIN p.order = 1 .. Len(q.order) - 1
      /\ \A i \in DOMAIN p.order : i + 1 \in DOMAIN q.order /\ p.order[i] = q.order[i + 1]
  BY <1>1
<1>3. \A k \in Range(q.order) : k = Head(q.order) \/ k \in Range(p.order)
  <2> SUFFICES ASSUME NEW i \in DOMAIN q.order, i # 1 PROVE q.order[i] \in Range(p.order)
    BY <1>1 DEF Range
  <2>1. i - 1 \in DOMAIN p.order /\ (i - 1) + 1 = i
    BY <1>1, <1>2
  <2>2. p.order[i - 1] = q.order[i]
    BY <1>2, <2>1
  <2> QED
    BY <2>1, <2>2 DEF Range
<1>4. ASSUME c.selfHostedFirst PROVE CloudLast(c, p.order) /\ Able(c, p) \subseteq p.attempts \cup Range(p.order)
  <2>1. CloudLast(c, q.order) /\ Able(c, q) \subseteq q.attempts \cup Range(q.order)
    BY <1>4 DEF LastResort
  <2>2. CloudLast(c, p.order)
    <3> SUFFICES ASSUME NEW i \in DOMAIN p.order, NEW j \in DOMAIN p.order, i < j, c.lane[p.order[i]].cloud
                 PROVE  c.lane[p.order[j]].cloud
      BY DEF CloudLast
    <3>1. i + 1 \in DOMAIN q.order /\ j + 1 \in DOMAIN q.order /\ i + 1 < j + 1
      BY <1>2
    <3> QED
      BY <1>2, <2>1, <3>1 DEF CloudLast
  <2>3. Able(c, p) = Able(c, q)
    BY DEF Able
  <2>4. \A k \in Able(c, q) : c.lane[k].enabled /\ ~c.lane[k].cloud
    BY DEF Able
  <2> QED
    BY <1>3, <2>1, <2>2, <2>3, <2>4
<1> QED
  BY <1>2, <1>4 DEF LastResort

\* The cloud lane that answers has only cloud lanes behind it.
LEMMA AnswerIsFair ==
  ASSUME NEW c \in Config, NEW q, NEW p, LastResort(c, q), q.step = "call",
         p.order = q.order, p.step = "answered", p.by = Head(q.order), p.wanted = q.wanted,
         p.attempts = q.attempts, p.allowCloud = q.allowCloud
  PROVE  LastResort(c, p)
<1>1. q.order \in Seq(Lanes) /\ q.order # <<>>
  BY DEF LastResort
<1>2. ASSUME c.lane[p.by].cloud PROVE p.allowCloud /\ (c.selfHostedFirst => Able(c, p) \subseteq p.attempts)
  <2>1. p.allowCloud
    BY <1>2 DEF LastResort
  <2>2. ASSUME c.selfHostedFirst PROVE Able(c, p) \subseteq p.attempts
    <3>1. CloudLast(c, q.order) /\ Able(c, q) \subseteq q.attempts \cup Range(q.order)
      BY <2>2 DEF LastResort
    <3>2. \A i \in DOMAIN q.order : c.lane[q.order[i]].cloud
      <4>1. 1 \in DOMAIN q.order /\ Head(q.order) = q.order[1] /\ \A i \in DOMAIN q.order : i = 1 \/ 1 < i
        BY <1>1
      <4> QED
        BY <1>2, <3>1, <4>1 DEF CloudLast
    <3>3. Able(c, p) = Able(c, q) /\ \A k \in Able(c, q) : ~c.lane[k].cloud
      BY DEF Able
    <3> QED
      BY <3>1, <3>2, <3>3 DEF Range
  <2> QED
    BY <2>1, <2>2
<1> QED
  BY <1>1, <1>2 DEF LastResort

\* A lane is passed over when it is noted as tried, in the cloud or disabled: no able one is lost.
LEMMA PassedIsFair ==
  ASSUME PrimaryInv, NEW r \in Requests, NEW noted \in BOOLEAN, LastResort(cfg, request[r]),
         request[r].order # <<>>, request[r].step \in {"lane", "probed", "call"},
         noted \/ LaneOf(r).cloud \/ ~LaneOf(r).enabled
  PROVE  LastResort(cfg, Passed(r, noted)[r])
<1> DEFINE q == request[r]
           p == Passed(r, noted)[r]
<1>1. r \in DOMAIN request /\ {"step", "order", "attempts", "wanted"} \subseteq DOMAIN q
  BY DEF PrimaryInv
<1>2. /\ p.order = Tail(q.order) /\ p.step = "lane" /\ p.wanted = q.wanted
      /\ p.attempts = IF noted THEN q.attempts \cup {Head(q.order)} ELSE q.attempts
  BY <1>1 DEF Passed, Current
<1>3. cfg \in Config
  BY DEF PrimaryInv
<1>4. noted \/ cfg.lane[Head(q.order)].cloud \/ ~cfg.lane[Head(q.order)].enabled
  BY DEF LaneOf, Current
<1> HIDE DEF p, q
<1>5. LastResort(cfg, q) /\ q.order # <<>> /\ q.step \in {"lane", "probed", "call"}
  BY DEF q
<1>6. LastResort(cfg, p)
  BY <1>2, <1>3, <1>4, <1>5, PassingIsFair
<1> QED
  BY <1>6 DEF p

\* A lane that is called: with permission if it is a cloud lane.
LEMMA ForwardsIsFair ==
  ASSUME PrimaryInv, NEW r \in Requests, LastResort(cfg, request[r]), request[r].order # <<>>,
         request[r].step \in {"lane", "probed"}, LaneOf(r).cloud => request[r].allowCloud
  PROVE  LastResort(cfg, Forwards(r)[r])
<1> DEFINE q == request[r]
           p == Forwards(r)[r]
<1>1. r \in DOMAIN request /\ {"step", "order", "attempts", "wanted", "left", "allowCloud", "by"} \subseteq DOMAIN q
  BY DEF PrimaryInv
<1>2. /\ p.order = q.order /\ p.step = "call" /\ p.wanted = q.wanted /\ p.attempts = q.attempts
      /\ p.allowCloud = q.allowCloud
  BY <1>1 DEF Forwards
<1>3. cfg.lane[Head(q.order)].cloud => q.allowCloud
  BY DEF LaneOf, Current
<1> HIDE DEF p, q
<1>4. LastResort(cfg, q) /\ q.order # <<>> /\ q.step \in {"lane", "probed"}
  BY DEF q
<1>5. Able(cfg, p) = Able(cfg, q)
  BY <1>2 DEF Able
<1>6. LastResort(cfg, p)
  BY <1>2, <1>3, <1>4, <1>5 DEF LastResort
<1> QED
  BY <1>6 DEF p

\* The invariant of all requests.
FairInv == \A r \in Requests : LastResort(cfg, request[r])

\* One request moves.
LEMMA OneIsFair ==
  ASSUME FairInv, NEW r \in Requests, UNCHANGED cfg,
         \A q \in Requests \ {r} : request'[q] = request[q], LastResort(cfg, request'[r])
  PROVE  FairInv'
  BY DEF FairInv, LastResort, Able

\* Every step of the primary proxy keeps it, the changes of the machines included.
LEMMA FairInvStep == PrimaryInv /\ FairInv /\ [PrimaryNext]_<<world, primaryVars>> => FairInv'
<1> SUFFICES ASSUME PrimaryInv, FairInv, [PrimaryNext]_<<world, primaryVars>> PROVE FairInv'
  OBVIOUS
<1>0. cfg \in Config /\ DOMAIN request = Requests /\ \A r \in Requests : LastResort(cfg, request[r])
  BY DEF PrimaryInv, FairInv
<1>1. ASSUME NEW r \in Requests, NEW kind, NEW wanted, NEW allow, Arrive(r, kind, wanted, allow), UNCHANGED world
      PROVE  FairInv'
  <2>1. PICK keys : keys = Serving(cfg, PrimaryLaneOrder(cfg), wanted)
    OBVIOUS
  <2>2. request' = [request EXCEPT ![r] = [Unasked EXCEPT
                   !.kind = kind, !.wanted = wanted, !.allowCloud = allow, !.step = "lane", !.order = keys]]
    BY <1>1, <2>1 DEF Arrive
  <2>3. request'[r].step = "lane" /\ request'[r].order = keys /\ request'[r].wanted = wanted
    BY <1>0, <2>2 DEF Unasked
  <2>4. LastResort(cfg, request'[r])
    BY <1>0, <2>1, <2>3, ArrivalIsFair
  <2> QED
    BY <1>0, <1>1, <2>2, <2>4, OneIsFair DEF world
<1>2. ASSUME NEW r \in Requests, Skip(r), UNCHANGED world PROVE FairInv'
  <2>1. PICK noted \in BOOLEAN : request' = Passed(r, noted) /\ (noted \/ LaneOf(r).cloud \/ ~LaneOf(r).enabled)
    BY <1>2 DEF Skip
  <2>2. request[r].order # <<>> /\ request[r].step = "lane"
    BY <1>2 DEF Skip, AtLane
  <2>3. LastResort(cfg, request'[r])
    BY <1>0, <2>1, <2>2, PassedIsFair
  <2> QED
    BY <1>2, <2>1, <2>3, PassedMoves, OneIsFair DEF world
<1>3. ASSUME NEW r \in Requests, TryCloud(r), UNCHANGED world PROVE FairInv'
  <2>1. /\ request' = Forwards(r) /\ request[r].order # <<>> /\ request[r].step = "lane"
        /\ LaneOf(r).cloud => request[r].allowCloud
    BY <1>3 DEF TryCloud, AtLane
  <2>2. LastResort(cfg, request'[r])
    BY <1>0, <2>1, ForwardsIsFair
  <2> QED
    BY <1>3, <2>1, <2>2, ForwardsMoves, OneIsFair DEF world
<1>4. ASSUME NEW r \in Requests, UseMemo(r), UNCHANGED world PROVE FairInv'
  <2>1. request' = Forwards(r) \/ \E noted \in BOOLEAN : noted /\ request' = Passed(r, noted)
    BY <1>4 DEF UseMemo
  <2>2. request[r].order # <<>> /\ request[r].step = "lane" /\ ~LaneOf(r).cloud
    BY <1>4 DEF UseMemo, NeedsVerdict, AtLane
  <2>3. CASE request' = Forwards(r)
    BY <1>0, <1>4, <2>2, <2>3, ForwardsIsFair, ForwardsMoves, OneIsFair DEF world
  <2>4. CASE \E noted \in BOOLEAN : noted /\ request' = Passed(r, noted)
    <3>1. PICK noted \in BOOLEAN : request' = Passed(r, noted) /\ (noted \/ LaneOf(r).cloud \/ ~LaneOf(r).enabled)
      BY <2>4
    <3>2. LastResort(cfg, request'[r])
      BY <1>0, <2>2, <3>1, PassedIsFair
    <3> QED
      BY <1>0, <1>4, <3>1, <3>2, PassedMoves, OneIsFair DEF world
  <2> QED
    BY <2>1, <2>3, <2>4
<1>5. ASSUME NEW r \in Requests, Probe(r), UNCHANGED world PROVE FairInv'
  <2>1. PICK v : request' = [request EXCEPT ![r].step = "probed", ![r].verdict = v]
    BY <1>5 DEF Probe
  <2>2. request[r].order # <<>> /\ request[r].step = "lane" /\ ~cfg.lane[Head(request[r].order)].cloud
    BY <1>5 DEF Probe, NeedsVerdict, AtLane, LaneOf, Current
  <2> DEFINE q == request[r]
             p == request'[r]
  <2>3. {"step", "verdict", "order", "attempts", "wanted"} \subseteq DOMAIN q
    BY DEF PrimaryInv
  <2>4. p.step = "probed" /\ p.order = q.order /\ p.attempts = q.attempts /\ p.wanted = q.wanted
    BY <1>0, <2>1, <2>3
  <2>5. LastResort(cfg, q) /\ q.step = "lane" /\ q.order # <<>> /\ ~cfg.lane[Head(q.order)].cloud
    BY <1>0, <2>2
  <2> HIDE DEF p, q
  <2>6. Able(cfg, p) = Able(cfg, q)
    BY <2>4 DEF Able
  <2>7. LastResort(cfg, p)
    BY <2>4, <2>5, <2>6 DEF LastResort
  <2> QED
    BY <1>0, <1>5, <2>1, <2>7, OneIsFair DEF world, p
<1>6. ASSUME NEW r \in Requests, Remember(r), UNCHANGED world PROVE FairInv'
  <2>1. request' = Forwards(r) \/ \E noted \in BOOLEAN : noted /\ request' = Passed(r, noted)
    BY <1>6 DEF Remember
  <2>2. request[r].step = "probed" /\ request[r].order # <<>> /\ ~LaneOf(r).cloud
    BY <1>0, <1>6 DEF Remember, LastResort, LaneOf, Current
  <2>3. CASE request' = Forwards(r)
    BY <1>0, <1>6, <2>2, <2>3, ForwardsIsFair, ForwardsMoves, OneIsFair DEF world
  <2>4. CASE \E noted \in BOOLEAN : noted /\ request' = Passed(r, noted)
    <3>1. PICK noted \in BOOLEAN : request' = Passed(r, noted) /\ (noted \/ LaneOf(r).cloud \/ ~LaneOf(r).enabled)
      BY <2>4
    <3>2. LastResort(cfg, request'[r])
      BY <1>0, <2>2, <3>1, PassedIsFair
    <3> QED
      BY <1>0, <1>6, <3>1, <3>2, PassedMoves, OneIsFair DEF world
  <2> QED
    BY <2>1, <2>3, <2>4
<1>7. ASSUME NEW r \in Requests, Call(r), UNCHANGED world PROVE FairInv'
  <2>1. \/ request' = Passed(r, TRUE)
        \/ request' = [request EXCEPT ![r].step = "answered", ![r].by = Current(r)]
        \/ request' = [request EXCEPT ![r].left = Tail(@)]
    BY <1>7 DEF Call
  <2>2. request[r].step = "call" /\ request[r].order # <<>>
    BY <1>0, <1>7 DEF Call, LastResort
  <2>3. CASE request' = Passed(r, TRUE)
    BY <1>0, <1>7, <2>2, <2>3, PassedIsFair, PassedMoves, OneIsFair DEF world
  <2> DEFINE q == request[r]
             p == request'[r]
  <2>4. {"step", "by", "left", "order", "attempts", "wanted", "allowCloud"} \subseteq DOMAIN q
    BY DEF PrimaryInv
  <2>5. CASE request' = [request EXCEPT ![r].step = "answered", ![r].by = Current(r)]
    <3>1. /\ p.step = "answered" /\ p.by = Head(q.order) /\ p.order = q.order /\ p.attempts = q.attempts
          /\ p.wanted = q.wanted /\ p.allowCloud = q.allowCloud
      BY <1>0, <2>4, <2>5 DEF Current
    <3>2. LastResort(cfg, q) /\ q.step = "call"
      BY <1>0, <2>2
    <3> HIDE DEF p, q
    <3>3. LastResort(cfg, p)
      BY <1>0, <3>1, <3>2, AnswerIsFair
    <3> QED
      BY <1>0, <1>7, <2>5, <3>3, OneIsFair DEF world, p
  <2>6. CASE request' = [request EXCEPT ![r].left = Tail(@)]
    <3>1. /\ p.step = q.step /\ p.by = q.by /\ p.order = q.order /\ p.attempts = q.attempts
          /\ p.wanted = q.wanted /\ p.allowCloud = q.allowCloud
      BY <1>0, <2>4, <2>6
    <3>2. LastResort(cfg, q)
      BY <1>0
    <3> HIDE DEF p, q
    <3>3. Able(cfg, p) = Able(cfg, q)
      BY <3>1 DEF Able
    <3>4. LastResort(cfg, p)
      BY <3>1, <3>2, <3>3 DEF LastResort
    <3> QED
      BY <1>0, <1>7, <2>6, <3>4, OneIsFair DEF world, p
  <2> QED
    BY <2>1, <2>3, <2>5, <2>6
<1>8. ASSUME NEW r \in Requests, Exhausted(r), UNCHANGED world PROVE FairInv'
  <2> DEFINE q == request[r]
             p == request'[r]
  <2>1. "step" \in DOMAIN q /\ "order" \in DOMAIN q
    BY DEF PrimaryInv
  <2>2. p.step = "failed" /\ p.order = q.order /\ LastResort(cfg, q)
    BY <1>0, <1>8, <2>1 DEF Exhausted
  <2> HIDE DEF p, q
  <2>3. LastResort(cfg, p)
    BY <2>2 DEF LastResort
  <2> QED
    BY <1>0, <1>8, <2>3, OneIsFair DEF world, p, Exhausted
<1>9. CASE (LaneChanges \/ Tick) /\ UNCHANGED primaryVars
  <2>1. cfg' = cfg /\ request' = request
    BY <1>9 DEF LaneChanges, Tick, primaryVars
  <2> QED
    BY <2>1 DEF FairInv, LastResort, Able
<1>10. CASE UNCHANGED <<world, primaryVars>>
  BY <1>10 DEF world, primaryVars, FairInv, LastResort, Able
<1> QED
  BY <1>1, <1>2, <1>3, <1>4, <1>5, <1>6, <1>7, <1>8, <1>9, <1>10 DEF PrimaryNext, PrimaryStep

\* No request has been asked.
LEMMA FairInvInit == LanesInit /\ PrimaryInit => FairInv
<1>1. Unasked.order = <<>> /\ Unasked.step = "idle"
  BY DEF Unasked
<1>2. \A c : LastResort(c, Unasked)
  BY <1>1 DEF LastResort
<1> QED
  BY <1>2 DEF PrimaryInit, FairInv

\* The primary proxy answers from a cloud lane only when the request allows it and, self-hosted first,
\* only after every enabled self-hosted lane that serves the model was tried.
THEOREM CloudComesLast == PrimarySpec => []CloudIsLastResort
<1>1. FairInv => CloudIsLastResort
  <2> SUFFICES ASSUME FairInv, NEW r \in Requests, request[r].step = "answered", cfg.lane[request[r].by].cloud
               PROVE  /\ request[r].allowCloud
                      /\ cfg.selfHostedFirst =>
                           \A i \in DOMAIN Serving(cfg, Participating(cfg), request[r].wanted) :
                             LET k == Serving(cfg, Participating(cfg), request[r].wanted)[i]
                             IN  cfg.lane[k].enabled /\ ~cfg.lane[k].cloud => k \in request[r].attempts
    BY DEF CloudIsLastResort
  <2>1. request[r].allowCloud /\ (cfg.selfHostedFirst => Able(cfg, request[r]) \subseteq request[r].attempts)
    BY DEF FairInv, LastResort
  <2> QED
    BY <2>1 DEF Able, Range
<1> QED
  BY <1>1, PrimaryInvInit, PrimaryInvStep, FairInvInit, FairInvStep, PTL DEF PrimarySpec
==============================================================================
