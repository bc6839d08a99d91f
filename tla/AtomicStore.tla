----------------------------- MODULE AtomicStore -----------------------------
(***************************************************************************)
(* What the stores promise the tools: an update reaches its document whole *)
(* and on top of every update before it, and once its writer was told so,  *)
(* no restart and no power loss takes it back (unless the directory cannot *)
(* be flushed).                                                            *)
(***************************************************************************)
CONSTANTS Stores, Updates

VARIABLES
  doc,        \* [Stores -> SUBSET Updates]: the updates the document holds
  safe,       \* [Stores -> SUBSET Updates]: those a power loss leaves
  told,       \* [Stores -> SUBSET Updates]: those whose writer was told they are stored
  syncing     \* whether the file system flushes directories

vars == <<doc, safe, told, syncing>>

Nothing == [s \in Stores |-> {}]

Init == doc = Nothing /\ safe = Nothing /\ told = Nothing /\ syncing \in BOOLEAN

Commit(s, u) ==
  /\ u \notin doc[s]
  /\ doc' = [doc EXCEPT ![s] = @ \cup {u}]
  /\ UNCHANGED <<safe, told, syncing>>

Acknowledge(s, u) ==
  /\ u \in doc[s]
  /\ safe' = IF syncing THEN [safe EXCEPT ![s] = doc[s]] ELSE safe
  /\ told' = [told EXCEPT ![s] = @ \cup {u}]
  /\ UNCHANGED <<doc, syncing>>

\* Each document falls back to some state between what is safe and what was visible.
PowerLoss ==
  /\ doc' \in [Stores -> SUBSET Updates]
  /\ \A s \in Stores : safe[s] \subseteq doc'[s] /\ doc'[s] \subseteq doc[s]
  /\ safe' = doc'
  /\ UNCHANGED <<told, syncing>>

Next ==
  \/ \E s \in Stores, u \in Updates : Commit(s, u) \/ Acknowledge(s, u)
  \/ PowerLoss

Spec == Init /\ [][Next]_vars
==============================================================================
