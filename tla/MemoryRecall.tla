---------------------------- MODULE MemoryRecall ----------------------------
(***************************************************************************)
(* selectMemoryForBudget (memory_runtime.ts): what agent_memory_get gives  *)
(* back of a memory file when it is asked for a number of tokens.  An      *)
(* entry is its id (the hash of its text without the superseded marker),   *)
(* the length of its line, and whether it is superseded; its relevance to  *)
(* the query and its likeness to others belong to the id.                  *)
(***************************************************************************)
EXTENDS ContextSelection, Places

CONSTANT Memories      \* files and requests considered

VARIABLES
  memory,    \* the file and the request
  step,      \* "idle", "select", "done"
  offered,   \* uniqueEligible
  recall     \* the answer: [entries, chars, tokens, truncated]

recallVars == <<memory, step, offered, recall>>

\* A file and what is asked of it.
Recallable(m) ==
  /\ m.entries \in Seq([id : STRING, chars : Nat, superseded : BOOLEAN])
  /\ m.budget \in Nat /\ m.preamble \in Nat
  /\ m.query \in BOOLEAN /\ m.includeSuperseded \in BOOLEAN
  /\ \A e, f \in Range(m.entries) : m.rel[e.id] \in Nat /\ m.sim[{e.id, f.id}] \in Nat

ASSUME MemoriesAssumption == \A m \in Memories : Recallable(m)

NoRecall == [entries |-> <<>>, chars |-> 0, tokens |-> 0, truncated |-> FALSE]

RecallInit ==
  /\ memory = [budget |-> 0] /\ step = "idle" /\ offered = <<>> /\ recall = NoRecall
  /\ SelectInit

TokensOf(chars) == (chars + 3) \div 4

Eligible(m) == Only(m.entries, LAMBDA e : m.includeSuperseded \/ ~e.superseded)

\* The first of the entries that share an id.
Unique(entries) ==
  At(entries, {k \in DOMAIN entries : \A j \in 1 .. k - 1 : entries[j].id # entries[k].id})

\* A line costs its tokens and one for its line break.
Cost(e) == TokensOf(e.chars) + 1

Offer(m, entries) ==
  [cost |-> [k \in DOMAIN entries |-> Cost(entries[k])],
   rel |-> [k \in DOMAIN entries |-> IF m.query THEN m.rel[entries[k].id] ELSE 0],
   sim |-> [k \in DOMAIN entries |->
              [n \in DOMAIN entries |-> m.sim[{entries[k].id, entries[n].id}]]],
   weights |-> [rel |-> 1, coverage |-> 1, diversity |-> 1],
   budget |-> m.budget - TokensOf(m.preamble), minGain |-> {0}]

Recalls(m) ==
  /\ memory' = m
  /\ IF m.budget <= TokensOf(m.preamble)
       THEN /\ step' = "done"
            /\ LET clipped == Min({m.preamble, 4 * m.budget})
               IN  recall' = [NoRecall EXCEPT !.chars = clipped, !.tokens = TokensOf(clipped),
                                              !.truncated = TRUE]
            /\ UNCHANGED <<offered, selectVars>>
       ELSE /\ step' = "select"
            /\ offered' = Unique(Eligible(m))
            /\ Selects(Offer(m, Unique(Eligible(m))))
            /\ UNCHANGED recall

Chooses ==
  /\ step = "select"
  /\ Evaluates \/ Picks
  /\ UNCHANGED recallVars

\* The chosen ids in the order of the file, one line each.
Assembles ==
  /\ step = "select" /\ Selected
  /\ LET ids   == {offered[chosen[k]].id : k \in DOMAIN chosen}
         kept  == Only(offered, LAMBDA e : e.id \in ids)
         chars == memory.preamble + Total([k \in DOMAIN kept |-> kept[k].chars + 1])
     IN  recall' = [entries |-> kept, chars |-> chars, tokens |-> TokensOf(chars),
                    truncated |-> Len(kept) < Len(Eligible(memory))]
  /\ step' = "done"
  /\ UNCHANGED <<memory, offered, selectVars>>

RecallNext ==
  \/ step = "idle" /\ \E m \in Memories : Recalls(m)
  \/ Chooses \/ Assembles

-----------------------------------------------------------------------------
(* Properties *)

\* "A single selection cannot pull multiple copies past the budget": what is read
\* back fits the budget it was asked for, whatever the roundings add up to, and no
\* entry is in it twice, however often the file repeats it.
RecallFitsBudget ==
  step = "done" =>
     /\ recall.tokens <= memory.budget
     /\ \A i, j \in DOMAIN recall.entries : recall.entries[i].id = recall.entries[j].id => i = j
=============================================================================
