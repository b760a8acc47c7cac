---------------------------- MODULE RunContract ----------------------------
(***************************************************************************)
(* What the rows of agent_runs and web_sessions promise to whoever reads   *)
(* them, with none of the machinery that keeps the promise: a session      *)
(* serves one run at a time, a run ends once, and the phase of the session *)
(* and its versions follow from the run that was accepted or ended last.   *)
(***************************************************************************)
EXTENDS Sequences

CONSTANTS Messages, Confirms
VARIABLES status, phase, recovery, builds

vars == <<status, phase, recovery, builds>>

Keys    == Messages \cup Confirms
Running == {k \in Keys : status[k] = "running"}

Init ==
  /\ status = [k \in Keys |-> "none"]
  /\ phase = "collecting" /\ recovery = "none"
  /\ builds = <<>>

\* An idle session takes a request it has not seen.
Accept(k) ==
  /\ Running = {} /\ status[k] = "none"
  /\ status' = [status EXCEPT ![k] = "running"]
  /\ phase' = IF k \in Confirms THEN "building" ELSE "collecting"
  /\ recovery' = "none"
  /\ UNCHANGED builds

\* The run succeeds; a build saves one version or leaves a proposal.
Succeed(k) ==
  /\ status[k] = "running"
  /\ status' = [status EXCEPT ![k] = "succeeded"]
  /\ recovery' = "none"
  /\ \/ /\ k \in Confirms
        /\ phase' = "ready"
        /\ builds' = Append(builds, k)
     \/ /\ phase' \in IF k \in Confirms
                      THEN {"collecting", "requirement_ready"}
                      ELSE {"collecting", "requirement_ready", "ready"}
        /\ UNCHANGED builds

\* The run does not succeed; the session names the phase to resume from.
Abandon(k) ==
  /\ status[k] = "running"
  /\ \E s \in {"failed", "interrupted"} : status' = [status EXCEPT ![k] = s]
  /\ phase' = "error"
  /\ recovery' = IF k \in Confirms THEN "requirement_ready" ELSE "collecting"
  /\ UNCHANGED builds

Next == \E k \in Keys : Accept(k) \/ Succeed(k) \/ Abandon(k)

Spec == Init /\ [][Next]_vars
=============================================================================
