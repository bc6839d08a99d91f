------------------------------- MODULE Places -------------------------------
(***************************************************************************)
(* Filters and sorts of sequences, by the places that are kept and the     *)
(* order they are read in.  They return what SelectSeq and a stable sort   *)
(* return, and are made of sets, so that proofs can say what they hold.    *)
(***************************************************************************)
EXTENDS Naturals, Sequences, FiniteSets

\* The members of I in the order R, a set of pairs: before the k-th come k - 1 others.
InOrder(I, R) ==
  [k \in 1 .. Cardinality(I) |->
     CHOOSE i \in I : Cardinality({j \in I : <<j, i>> \in R}) = k - 1]

\* What s has at the places of I, read in the order R.
Along(s, I, R) ==
  LET place == InOrder(I, R) IN [k \in 1 .. Cardinality(I) |-> s[place[k]]]

\* The same, from left to right.
At(s, I) == Along(s, I, {p \in I \X I : p[1] < p[2]})

\* A filter.
Only(s, Test(_)) == At(s, {i \in DOMAIN s : Test(s[i])})

\* The places of s by their keys, the larger key first, and from left to right between equals.
ByKey(s, Key(_)) ==
  {p \in (DOMAIN s) \X (DOMAIN s) :
     Key(s[p[1]]) > Key(s[p[2]]) \/ (Key(s[p[1]]) = Key(s[p[2]]) /\ p[1] < p[2])}

\* A stable sort.
Ranked(s, Key(_)) == Along(s, DOMAIN s, ByKey(s, Key))

FirstOr(s, none) == IF s = <<>> THEN none ELSE s[1]

\* A filter that gives way when nothing passes it.
Preferring(s, Test(_)) == LET kept == Only(s, Test) IN IF kept = <<>> THEN s ELSE kept
=============================================================================
