----------------------------- MODULE Heartbeat -----------------------------
(***************************************************************************)
(* The poller of the runbook's heartbeat pattern, external to the server:  *)
(* one recurring tick that reaches every supervised session between two    *)
(* instants, and a server that is killed in the middle of a recovery at    *)
(* most MaxCrashes times.  Under it a session whose lanes stay silent must *)
(* come to an end.                                                         *)
(***************************************************************************)
EXTENDS SupervisorSession

CONSTANT MaxCrashes      \* bound: recoveries that die between their two writes

ASSUME CrashesAssumption == MaxCrashes \in Nat

\* Ticks that bring no news of the lane, forced or not.
SilentTicks == [progress : {FALSE}, force : BOOLEAN]

VARIABLES
  due,       \* the sessions not yet ticked at this instant
  crashes    \* recoveries that died so far

hvars == <<vars, due, crashes>>

HInit == Init /\ due = {} /\ crashes = 0

Beat(s) ==
  /\ s \in due
  /\ due' = due \ {s}
  /\ \/ /\ TickRecovers(s) \/ \E in \in TickInputs : TickWaits(s, in)
        /\ UNCHANGED crashes
     \/ /\ crashes < MaxCrashes
        /\ \E in \in TickInputs : TickInterrupted(s, in)
        /\ crashes' = crashes + 1

NextInstant ==
  /\ due = {}
  /\ Elapse
  /\ due' = {s \in Sessions : Live(s)'}
  /\ UNCHANGED crashes

\* A tick that somebody calls out of turn, any number of times.
OutOfTurn(s) ==
  /\ TickRecovers(s) \/ \E in \in TickInputs : TickWaits(s, in)
  /\ UNCHANGED <<due, crashes>>

Opens(s) == Start(s, FALSE) /\ UNCHANGED <<due, crashes>>

HNext == NextInstant \/ \E s \in Sessions : Beat(s) \/ OutOfTurn(s) \/ Opens(s)

HSpec ==
  /\ HInit /\ [][HNext]_hvars
  /\ WF_hvars(NextInstant)
  /\ \A s \in Sessions : WF_hvars(Beat(s))

\* Presence is status: a session that hears nothing more ends in a settled
\* status, through every sequence of failed pings, exhausted queues and crashed
\* recoveries.  It is not merely forgotten when its record goes stale.
SilentSessionSettles ==
  \A s \in Sessions :
     session[s] # Gone ~> (session[s] # Gone /\ session[s].status \in Settled)

=============================================================================
