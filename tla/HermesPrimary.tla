---------------------------- MODULE HermesPrimary ----------------------------
(***************************************************************************)
(* Primary work on the Hermes lanes: the proxy's chat completions, whose    *)
(* threads share a memo of lane health (proxy.py, LaneHealthCache), and the *)
(* run command, which probes every time (commands.py).  Both walk the lanes *)
(* in primary order until one answers.                                      *)
(***************************************************************************)
EXTENDS HermesLanes

CONSTANTS
  Requests,
  Wanted,      \* what a client may name: sets of models, {} for "auto"
  ProbeMax,    \* the longest a health probe may take (its timeouts)
  NoLane

ASSUME PrimaryAssumption == ProbeMax \in Nat

VARIABLES
  memo,      \* LaneHealthCache._entries; "seen" is when the probe looked at the machine
  request

primaryVars == <<memo, request>>

NoVerdict == [ok |-> FALSE, seen |-> 0]

Unasked ==
  [kind |-> "none", wanted |-> {}, allowCloud |-> FALSE, step |-> "idle", order |-> <<>>,
   attempts |-> {}, left |-> <<>>, verdict |-> NoVerdict, by |-> NoLane]

PrimaryInit ==
  /\ memo = <<>>
  /\ request = [r \in Requests |-> Unasked]

Current(r) == Head(request[r].order)
LaneOf(r) == cfg.lane[Current(r)]

AtLane(r) == request[r].step = "lane" /\ request[r].order # <<>>

\* The lane did not serve the request; "attempts" names it unless it is skipped silently.
Passed(r, noted) ==
  [request EXCEPT ![r].order = Tail(@), ![r].step = "lane",
                  ![r].attempts = IF noted THEN @ \cup {Current(r)} ELSE @]

Forwards(r) == [request EXCEPT ![r].step = "call", ![r].left = LaneOf(r).models]

-----------------------------------------------------------------------------

\* The lanes of the requested model, if there are any.
Serving(c, keys, wanted) == Preferring(keys, LAMBDA k : MatchesRequirement(wanted, ModelsOf(c.lane[k])))

\* do_POST up to the loop (a request that is refused before touches no lane), command_run.
Arrive(r, kind, wanted, allowCloud) ==
  /\ request[r].step = "idle"
  /\ kind = "proxy" => allowCloud = cfg.proxyCloud
  /\ kind = "run" => wanted = {}
  /\ request' = [request EXCEPT ![r] = [Unasked EXCEPT
                   !.kind = kind, !.wanted = wanted, !.allowCloud = allowCloud, !.step = "lane",
                   !.order = Serving(cfg, PrimaryLaneOrder(cfg), wanted)]]
  /\ UNCHANGED memo

\* Disabled, or a cloud lane without permission.  The proxy names only the latter.
Skip(r) ==
  /\ AtLane(r)
  /\ ~LaneOf(r).enabled \/ (LaneOf(r).cloud /\ ~request[r].allowCloud)
  /\ request' = Passed(r, LaneOf(r).enabled \/ request[r].kind = "run")
  /\ UNCHANGED memo

\* A cloud lane is not probed.
TryCloud(r) ==
  /\ AtLane(r)
  /\ LaneOf(r).enabled /\ LaneOf(r).cloud /\ request[r].allowCloud
  /\ request' = Forwards(r)
  /\ UNCHANGED memo

\* Mutant of Fresh: a failure is never forgotten.
Fresh_Failures(k) == k \in DOMAIN memo /\ (~memo[k].ok \/ clock <= memo[k].at + cfg.ttl)

\* LaneHealthCache.get, under its lock.
Fresh(k) == k \in DOMAIN memo /\ clock <= memo[k].at + cfg.ttl

Memoizes(r) == request[r].kind = "proxy" /\ cfg.ttl > 0
NeedsVerdict(r) == AtLane(r) /\ LaneOf(r).enabled /\ ~LaneOf(r).cloud

UseMemo(r) ==
  /\ NeedsVerdict(r)
  /\ Memoizes(r) /\ Fresh(Current(r))
  /\ request' = IF memo[Current(r)].ok THEN Forwards(r) ELSE Passed(r, TRUE)
  /\ UNCHANGED memo

\* check_lane_health, outside the lock: other threads may probe the same lane meanwhile.
Probe(r) ==
  /\ NeedsVerdict(r)
  /\ ~(Memoizes(r) /\ Fresh(Current(r)))
  /\ request' = [request EXCEPT ![r].step = "probed",
                   ![r].verdict = [ok |-> Healthy(LaneOf(r), condition[Current(r)]), seen |-> clock]]
  /\ UNCHANGED memo

\* The probe returns, which may be later: the memo is stamped then.
Remember(r) ==
  /\ request[r].step = "probed"
  /\ LET v == request[r].verdict
     IN  /\ memo' = IF Memoizes(r)
                      THEN [k \in DOMAIN memo \cup {Current(r)} |->
                              IF k = Current(r) THEN [at |-> clock, ok |-> v.ok, seen |-> v.seen] ELSE memo[k]]
                      ELSE memo
         /\ request' = IF v.ok THEN Forwards(r) ELSE Passed(r, TRUE)

\* The proxy: 401, 403 and 404 are the lane's fault, its other models are not tried.
GivesUpLane(r, answer) ==
  \/ Len(request[r].left) = 1
  \/ answer = "auth" /\ request[r].kind = "proxy" /\ LaneOf(r).endpoint = "http"

\* One upstream call: the lane's models in their order.
Call(r) ==
  /\ request[r].step = "call"
  /\ LET answer == condition[Current(r)].chat[Head(request[r].left)]
     IN  request' = IF answer = "ok"
                      THEN [request EXCEPT ![r].step = "answered", ![r].by = Current(r)]
                      ELSE IF GivesUpLane(r, answer) THEN Passed(r, TRUE)
                      ELSE [request EXCEPT ![r].left = Tail(@)]
  /\ UNCHANGED memo

\* 502, or the command's error.
Exhausted(r) ==
  /\ request[r].step = "lane" /\ request[r].order = <<>>
  /\ request' = [request EXCEPT ![r].step = "failed"]
  /\ UNCHANGED memo

PrimaryStep ==
  \E r \in Requests :
    \/ \E kind \in {"proxy", "run"}, wanted \in Wanted, allow \in BOOLEAN : Arrive(r, kind, wanted, allow)
    \/ Skip(r) \/ TryCloud(r) \/ UseMemo(r) \/ Probe(r) \/ Remember(r) \/ Call(r) \/ Exhausted(r)

\* No probe outlasts its timeouts.
ProbesAreBounded == \A r \in Requests : request[r].step = "probed" => clock < request[r].verdict.seen + ProbeMax

\* Primary work alone, on machines that change.
PrimaryNext ==
  \/ PrimaryStep /\ UNCHANGED world
  \/ (LaneChanges \/ (Tick /\ ProbesAreBounded)) /\ UNCHANGED primaryVars

PrimarySpec == LanesInit /\ PrimaryInit /\ [][PrimaryNext]_<<world, primaryVars>>

-----------------------------------------------------------------------------
(* Properties *)

\* The proxy decides on what a machine was like at most one TTL and one probe ago,
\* although threads probe outside the lock, store late and overwrite each other; a
\* remembered failure expires like a success.
VerdictIsRecent ==
  [][\A r \in Requests : UseMemo(r) => clock <= memo[Current(r)].seen + cfg.ttl + ProbeMax]_<<world, primaryVars>>

\* "Self-hosted first": a cloud lane answers primary work only with permission, and then
\* every enabled self-hosted lane that serves the requested model was found wanting for
\* this very request, whatever the priorities and the generated lane list say.
CloudIsLastResort ==
  \A r \in Requests :
    request[r].step = "answered" /\ cfg.lane[request[r].by].cloud =>
      /\ request[r].allowCloud
      /\ cfg.selfHostedFirst =>
           LET serving == Serving(cfg, Participating(cfg), request[r].wanted)
           IN  \A i \in DOMAIN serving :
                 cfg.lane[serving[i]].enabled /\ ~cfg.lane[serving[i]].cloud => serving[i] \in request[r].attempts
==============================================================================
