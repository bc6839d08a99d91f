------------------------------ MODULE LogWorker -----------------------------
(***************************************************************************)
(* log_worker.ts: logEvent on the server log, called without waiting for   *)
(* it, so that calls overlap at every await.  The directory is ensured     *)
(* behind a latch, a large log is renamed over its archive, a torn tail is *)
(* healed with a line break in the same append, and a failure goes to the  *)
(* caller and resets the latch.  A session log is the same without the     *)
(* rotation.  A call is its record; counts and texts are left out.         *)
(***************************************************************************)
EXTENDS Naturals, Sequences, FiniteSets

CONSTANTS
  Records,      \* calls of logEvent
  MaxSize,      \* MAX_SERVER_LOG_BYTES, in pieces
  Missing       \* a file that is not there

VARIABLES
  log, archive, \* mcp-server.jsonl and .1: sequences of pieces
  dir,          \* the directory exists
  ensured,      \* dirEnsured
  at,           \* where each call is
  large,        \* what its stat said
  heal,         \* what its look at the last byte said
  spoilt        \* history: an append was torn since that look

logVars == <<log, archive, dir, ensured, at, large, heal, spoilt>>

\* A piece of a file: a record whole or in part, or a line break.
Piece(r, part) == [of |-> r, part |-> part]
Break == Piece(Missing, "break")

LogInit ==
  /\ log = Missing /\ archive = Missing /\ dir = FALSE /\ ensured = FALSE
  /\ at = [r \in Records |-> "idle"]
  /\ large = [r \in Records |-> FALSE] /\ heal = [r \in Records |-> FALSE]
  /\ spoilt = [r \in Records |-> FALSE]

Moves(r, from, to) == at[r] = from /\ at' = [at EXCEPT ![r] = to]

\* noteFailure
Fails(r) == at' = [at EXCEPT ![r] = "failed"] /\ ensured' = FALSE

\* ensureLogDir: mkdir is awaited, and only then is the latch set.
Logs(r) ==
  /\ at[r] = "idle"
  /\ at' = [at EXCEPT ![r] = IF ensured THEN "stat" ELSE "mkdir"]
  /\ UNCHANGED <<log, archive, dir, ensured, large, heal, spoilt>>

Ensures(r) ==
  /\ at[r] = "mkdir"
  /\ \/ Moves(r, "mkdir", "latch") /\ dir' = TRUE /\ UNCHANGED ensured
     \/ Fails(r) /\ UNCHANGED dir
  /\ UNCHANGED <<log, archive, large, heal, spoilt>>

Latches(r) ==
  /\ Moves(r, "latch", "stat") /\ ensured' = TRUE
  /\ UNCHANGED <<log, archive, dir, large, heal, spoilt>>

\* rotateLargeLog: what fails here is ignored.
Measures(r) ==
  /\ at[r] = "stat"
  /\ large' = [large EXCEPT ![r] = log # Missing /\ Len(log) > MaxSize]
  /\ at' = [at EXCEPT ![r] = IF large'[r] THEN "rename" ELSE "look"]
  /\ UNCHANGED <<log, archive, dir, ensured, heal, spoilt>>

Rotates(r) ==
  /\ Moves(r, "rename", "look")
  /\ IF log = Missing THEN UNCHANGED <<log, archive>> ELSE archive' = log /\ log' = Missing
  /\ UNCHANGED <<dir, ensured, large, heal, spoilt>>

\* Mutant of Torn: the last byte is never looked at.
Torn_Never(file) == FALSE

\* needsLeadingNewline
Torn(file) == file # Missing /\ file # <<>> /\ file[Len(file)] # Break

\* The file may be renamed or removed between its stat and its open.
Looks(r) ==
  /\ at[r] = "look"
  /\ \/ /\ Moves(r, "look", "append")
        /\ heal' = [heal EXCEPT ![r] = Torn(log)]
        /\ spoilt' = [spoilt EXCEPT ![r] = FALSE]
        /\ UNCHANGED ensured
     \/ Fails(r) /\ UNCHANGED <<heal, spoilt>>
  /\ UNCHANGED <<log, archive, dir, large>>

Text(r, whole) ==
  (IF heal[r] THEN <<Break>> ELSE <<>>) \o
  (IF whole THEN <<Piece(r, "whole"), Break>> ELSE <<Piece(r, "torn")>>)

Adds(text) == log' = (IF log = Missing THEN <<>> ELSE log) \o text

Writes(r) ==
  /\ dir /\ Moves(r, "append", "written")
  /\ Adds(Text(r, TRUE))
  /\ UNCHANGED <<archive, dir, ensured, large, heal, spoilt>>

\* The append fails, having written nothing or a part of the line.
Breaks(r) ==
  /\ at[r] = "append" /\ Fails(r)
  /\ \/ UNCHANGED <<log, spoilt>>
     \/ /\ dir /\ Adds(Text(r, FALSE))
        /\ spoilt' = [q \in Records |-> spoilt[q] \/ at[q] = "append"]
  /\ UNCHANGED <<archive, dir, large, heal>>

\* Somebody removes the log directory.
Removed ==
  /\ dir /\ dir' = FALSE /\ log' = Missing /\ archive' = Missing
  /\ UNCHANGED <<ensured, at, large, heal, spoilt>>

LogNext ==
  \/ \E r \in Records :
       Logs(r) \/ Ensures(r) \/ Latches(r) \/ Measures(r) \/ Rotates(r) \/ Looks(r)
         \/ Writes(r) \/ Breaks(r)
  \/ Removed

LogSpec == LogInit /\ [][LogNext]_logVars

-----------------------------------------------------------------------------
(* Properties *)

\* The record stands between two line breaks, or at the start of the file.
OnItsOwnLine(file, r) ==
  \E k \in DOMAIN file :
     /\ file[k] = Piece(r, "whole")
     /\ k = 1 \/ file[k - 1] = Break
     /\ k < Len(file) /\ file[k + 1] = Break

Holds(file, r) == file # Missing /\ Piece(r, "whole") \in {file[k] : k \in DOMAIN file}

\* JSONL stays parseable: a record that was reported written has a line of its own in
\* the log or its archive, after torn appends, rotations and a removed directory; only
\* a tear between its look at the tail and its append can spoil it.
WrittenRecordParses ==
  \A r \in Records : \A file \in {log, archive} :
     Holds(file, r) /\ ~spoilt[r] => OnItsOwnLine(file, r)
=============================================================================
