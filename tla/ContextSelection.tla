-------------------------- MODULE ContextSelection --------------------------
(***************************************************************************)
(* selectContext (context_selection_runtime.ts): the lazy greedy choice of *)
(* candidates under a token budget, which re-evaluates a gain only when    *)
(* its stale value is the highest, and naiveGreedySelect, which evaluates  *)
(* all of them every round.  Similarities and relevances are in the same   *)
(* integer unit and a gain is multiplied by the number of candidates, so   *)
(* that all is whole; how texts are compared is left to the input.         *)
(***************************************************************************)
EXTENDS Integers, Sequences, FiniteSetsExt, Functions

VARIABLES
  input,     \* [cost, rel : index -> number, sim : index -> index -> number, weights, budget, minGain]
  chosen,    \* selectedIdx
  alive,     \* candidates that still fit
  cached,    \* the last gain computed of each candidate
  seen       \* lastEvalRound

selectVars == <<input, chosen, alive, cached, seen>>

Candidates(in) == DOMAIN in.cost
Count(in) == Cardinality(Candidates(in))

\* The sum of a sequence of numbers.
Total(s) ==
  LET upTo[k \in 0 .. Len(s)] == IF k = 0 THEN 0 ELSE upTo[k - 1] + s[k] IN upTo[Len(s)]

Spent(in, picks) == Total([k \in DOMAIN picks |-> in.cost[picks[k]]])

\* How near the picks come to candidate j.
Closest(in, picks, j) == Max({0} \cup {in.sim[picks[k]][j] : k \in DOMAIN picks})

\* What i adds to how near candidate j is.
Nearer(in, i, picks, j) ==
  LET more == in.sim[i][j] - Closest(in, picks, j) IN IF more > 0 THEN more ELSE 0

Gain(in, i, picks) ==
  in.weights.rel * in.rel[i] * Count(in)
    + in.weights.coverage * Total([j \in Candidates(in) |-> Nearer(in, i, picks, j)])
    - in.weights.diversity * Count(in) * Closest(in, picks, i)

\* minGain: the bounds a gain must exceed; none of them is Number.NEGATIVE_INFINITY.
TooLow(in, gain) == \E least \in in.minGain : gain <= least

Fitting(in, candidates, picks) ==
  {i \in candidates : in.cost[i] <= in.budget - Spent(in, picks)}

\* The lowest index among the highest values.
First(f, S) == Min({i \in S : \A j \in S : f[j] <= f[i]})

-----------------------------------------------------------------------------
(* selectContext *)

Selects(in) ==
  /\ input' = in
  /\ chosen' = <<>>
  /\ alive' = IF in.budget <= 0 THEN {} ELSE Fitting(in, Candidates(in), <<>>)
  /\ cached' = [i \in Candidates(in) |-> 0]
  /\ seen' = [i \in Candidates(in) |-> -1]

\* Candidates of no round yet: their gain counts as Number.POSITIVE_INFINITY.
Unseen == {i \in alive : seen[i] = -1}

Best == IF Unseen # {} THEN Min(Unseen) ELSE First(cached, alive)

\* Mutant of IsFresh: any gain that was ever computed is good enough.
IsFresh_Ever(i) == seen[i] >= 0

\* Computed in this round.
IsFresh(i) == seen[i] = Len(chosen)

Evaluates ==
  /\ alive # {} /\ ~IsFresh(Best)
  /\ cached' = [cached EXCEPT ![Best] = Gain(input, Best, chosen)]
  /\ seen' = [seen EXCEPT ![Best] = Len(chosen)]
  /\ UNCHANGED <<input, chosen, alive>>

Picks ==
  /\ alive # {} /\ IsFresh(Best) /\ ~TooLow(input, cached[Best])
  /\ chosen' = Append(chosen, Best)
  /\ alive' = Fitting(input, alive \ {Best}, chosen')
  /\ UNCHANGED <<input, cached, seen>>

Selected == alive # {} => IsFresh(Best) /\ TooLow(input, cached[Best])

-----------------------------------------------------------------------------
(* naiveGreedySelect *)

\* One round: every gain is computed.
NaiveRound(in, picks) ==
  LET open == IF in.budget <= 0 THEN {}
              ELSE Fitting(in, Candidates(in) \ Range(picks), picks)
      gain == [i \in open |-> Gain(in, i, picks)]
  IN  IF open = {} THEN picks
      ELSE IF TooLow(in, gain[First(gain, open)]) THEN picks
      ELSE Append(picks, First(gain, open))

\* The picks when no round adds one any more.
Naive(in) ==
  LET after[k \in 0 .. Count(in)] == IF k = 0 THEN <<>> ELSE NaiveRound(in, after[k - 1])
  IN  after[Count(in)]

-----------------------------------------------------------------------------
NoInput ==
  [cost |-> <<>>, rel |-> <<>>, sim |-> <<>>,
   weights |-> [rel |-> 0, coverage |-> 0, diversity |-> 0], budget |-> 0, minGain |-> {}]

SelectInit == input = NoInput /\ chosen = <<>> /\ alive = {} /\ cached = <<>> /\ seen = <<>>

\* What the callers may ask: a number for every candidate and every two of them.
Matrix(n) == {m \in [1 .. n -> [1 .. n -> Int]] : \A i, j \in 1 .. n : m[i][j] = m[j][i]}
Weights == [rel : Int, coverage : Nat, diversity : Nat]
SelectInputs ==
  UNION {[cost : [1 .. n -> Nat], rel : [1 .. n -> Int], sim : Matrix(n), weights : Weights,
          budget : Int, minGain : SUBSET Int] : n \in Nat}

SelectNext == (\E in \in SelectInputs : Selects(in)) \/ Evaluates \/ Picks

\* Any number of selections, one after the other.
SelectSpec == SelectInit /\ [][SelectNext]_selectVars

(* Property *)

\* "Produces exactly the same selection": stale gains are upper bounds, so the lazy
\* greedy choice is the naive one, ties included.
LazyMatchesNaive == Selected => chosen = Naive(input)
=============================================================================
