----------------------------- MODULE RoutePool -----------------------------
(***************************************************************************)
(* mapWithConcurrency (routing_runtime.ts): workers share a counter and    *)
(* route the descriptions of a batch, at most a limit of them at a time.   *)
(* A worker runs alone between two awaits, so storing a result and taking  *)
(* the next item is one step.                                              *)
(***************************************************************************)
EXTENDS Integers

CONSTANTS
  MaxItems,  \* bound: items of one batch
  Limit      \* BATCH_ROUTE_CONCURRENCY

ASSUME PoolAssumption == MaxItems \in Nat /\ Limit \in Nat \ {0}

VARIABLES
  items,      \* how many there are
  nextIndex,  \* the first item nobody has taken
  working,    \* the item each worker awaits; 0 for none
  results,    \* what is stored at each index: the item it is the result of, 0 for nothing
  stopped     \* some call failed

poolVars == <<items, nextIndex, working, results, stopped>>

Workers == 1 .. Limit

\* Every worker takes its first item before any of them waits.
PoolInit ==
  /\ items \in 0 .. MaxItems
  /\ nextIndex = (IF items < Limit THEN items ELSE Limit) + 1
  /\ working = [w \in Workers |-> IF w <= items THEN w ELSE 0]
  /\ results = [i \in 1 .. items |-> 0]
  /\ stopped = FALSE

\* Mutant of Takes: the counter is advanced whether or not the worker goes on.
Takes_Skips(w) ==
  /\ nextIndex' = nextIndex + 1
  /\ working' = [working EXCEPT ![w] = IF stopped \/ nextIndex >= items THEN 0 ELSE nextIndex]

\* The worker goes on to the next item, unless a call has failed or there is none.
Takes(w) ==
  IF stopped \/ nextIndex > items
    THEN working' = [working EXCEPT ![w] = 0] /\ UNCHANGED nextIndex
    ELSE working' = [working EXCEPT ![w] = nextIndex] /\ nextIndex' = nextIndex + 1

Stores(w) ==
  /\ working[w] # 0
  /\ results' = [results EXCEPT ![working[w]] = working[w]]
  /\ Takes(w)
  /\ UNCHANGED <<items, stopped>>

Fails(w) ==
  /\ working[w] # 0
  /\ stopped' = TRUE
  /\ working' = [working EXCEPT ![w] = 0]
  /\ UNCHANGED <<items, nextIndex, results>>

PoolNext == \E w \in Workers : Stores(w) \/ Fails(w)

PoolSpec == PoolInit /\ [][PoolNext]_poolVars

-----------------------------------------------------------------------------
(* Properties *)

\* What a batch that did not fail returns is complete and in place: when no worker is busy any
\* more, the result at every index is that of the item at that index, whatever order the calls
\* ended in.
BatchIsWhole ==
  (~stopped /\ \A w \in Workers : working[w] = 0) => \A i \in 1 .. items : results[i] = i
==============================================================================
