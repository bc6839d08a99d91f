---------------------------- MODULE MCSupervisor ----------------------------
(* Requests for the instances of Supervisor. *)
EXTENDS Supervisor

MCQuiet  == {[progress |-> FALSE, force |-> FALSE]}
MCFinish == {[outcome |-> "completed", force |-> TRUE]}

MCRegister ==
  [status : {"in_progress"}, resumable : {TRUE}, session : Sessions,
   lease : {[expiresAt |-> MaxTime, revoked |-> FALSE]}, blockedBy : {{}}]

MCWrite(status, lease) ==
  [status |-> status, note |-> Keep, resumable |-> Keep, session |-> Keep,
   lease |-> lease, blockedBy |-> Keep]

MCProgress == {MCWrite("in_progress", Keep)}
MCResults  == {MCWrite("done", Keep), MCWrite("in_progress", Keep)}
MCReLease  == MCResults \cup {MCWrite(Keep, [expiresAt |-> MaxTime, revoked |-> FALSE])}
=============================================================================
