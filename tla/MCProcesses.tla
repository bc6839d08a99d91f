---------------------------- MODULE MCProcesses -----------------------------
(***************************************************************************)
(* The programs that run commands: the agent loop, and the tools of the    *)
(* server that run guarded commands.  They share nothing; a behaviour is   *)
(* one of either.                                                          *)
(***************************************************************************)
EXTENDS AgentLoop, VerifyEdit

allVars == <<vars, verifyVars>>

MCInit == Init /\ VerifyInit

InLoop  == tool = "none" /\ UNCHANGED verifyVars
InTools == starts = 0 /\ UNCHANGED vars

MCNext ==
  \/ InLoop /\ Next
  \/ InTools /\ VerifyNext

MCSpec ==
  /\ MCInit /\ [][MCNext]_allVars
  /\ WF_allVars(InLoop /\ LoopStep) /\ WF_allVars(InLoop /\ Settles)
  /\ WF_allVars(InTools /\ VerifyRuns)
  /\ WF_allVars(InTools /\ VerifyTimers)

\* Command lines a user may mix.
Line(max, stalled, size, preflight) ==
  [max |-> max, stalled |-> stalled, size |-> size, preflight |-> preflight]

MCOptions == {Line(3, 2, 2, FALSE), Line(3, 3, 0, TRUE)}

MCRequests ==
  {[flaws |-> {}, matches |-> {}], [flaws |-> {"unlisted", "unsafe_arg"}, matches |-> Patterns]}

MCConfigs ==
  {[enabled |-> "on", strict |-> <<TRUE>>], [enabled |-> "unset", strict |-> <<FALSE>>],
   [enabled |-> "off", strict |-> <<>>]}
=============================================================================
