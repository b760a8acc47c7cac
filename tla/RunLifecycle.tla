---------------------------- MODULE RunLifecycle ----------------------------
(***************************************************************************)
(* The life of the agent runs of one product session: the API process, the *)
(* HTTP calls that admit runs, the goroutines that execute them, the rows  *)
(* of agent_runs and web_sessions they share through PostgreSQL, and the   *)
(* event stream a browser follows.                                         *)
(*                                                                         *)
(* A transaction of internal/store is one step: every one of them locks    *)
(* the rows it decides on.  Everything between two transactions is a step  *)
(* of its own, so calls, goroutines, cancellations, expiries, shutdown and *)
(* crashes interleave at every point where the code lets them.             *)
(*                                                                         *)
(* A run is named by the client request key that created it; the unique    *)
(* constraint (session_id, client_request_id) makes that naming faithful.  *)
(* What the requirement draft contains is the subject of RequirementDraft; *)
(* here its checks are outcomes the store may return.                      *)
(***************************************************************************)
EXTENDS Naturals, Sequences

CONSTANTS
  Messages,   \* request keys of POST .../messages: screening runs
  Confirms,   \* request keys of POST .../requirement/confirm: build runs
  Calls,      \* HTTP calls in flight; a retry of a key is another call
  Canceled,   \* bound: the runs whose cancellation is requested
  Slow,       \* bound: the runs that may outlive agent_runs.expires_at
  DBFaults    \* whether a transaction on a run's row may fail

ASSUME RunAssumption ==
  /\ Messages \cap Confirms = {}
  /\ Canceled \cup Slow \subseteq Messages \cup Confirms
  /\ DBFaults \in BOOLEAN

VARIABLES
  \* PostgreSQL
  status,           \* agent_runs.status of each key's run
  cancelRequested,  \* runs with agent_runs.cancel_requested_at set
  expired,          \* runs with agent_runs.expires_at in the past
  phase, recovery,  \* web_sessions.phase and recovery_phase
  builds,           \* the runs that saved build versions 1, 2, ...
  \* the event store
  stream,           \* the events published for each run
  \* the memory of the API process
  proc,             \* what main() is doing
  call,             \* where each HTTP call stands
  worker,           \* where the goroutine of each run stands
  ctx,              \* the run's context: live, canceled or past its deadline
  cancelling,       \* cancel calls between the row update and the CancelFunc
  owed              \* terminal events of a run its finisher has yet to publish

db   == <<status, cancelRequested, expired, phase, recovery, builds>>
mem  == <<call, worker, ctx, cancelling, owed>>
vars == <<db, stream, proc, mem>>

-----------------------------------------------------------------------------
(* Names *)

Keys     == Messages \cup Confirms
Ended    == {"succeeded", "failed", "interrupted"}
Statuses == {"none", "running"} \cup Ended
Phases   == {"collecting", "requirement_ready", "building", "ready", "error"}

\* The events that carry messages and requirements (assistant.completed,
\* requirement.* and presentation.*) are left out.
EventTypes == {"started", "progress", "saved", "failed", "cancelled", "completed"}
Events     == [type : EventTypes, status : Statuses]

Event(t) == [type |-> t, status |-> "none"]

\* Mutant: every run is announced as a success.
AlwaysSucceeded(s) == [type |-> "completed", status |-> "succeeded"]
Completed(s) == [type |-> "completed", status |-> s]

ProcStates == {"up", "draining", "stopping", "closing", "down", "booting"}
NoCall     == [pc |-> "idle"]
CallStates == {NoCall} \cup
  [pc : {"reclaim", "admit", "announce", "launch"}, key : Keys, took : SUBSET Keys]

Executing    == {"spawned", "calling", "committing", "committingProposal",
                 "recordFailed", "recordInterrupted"}
WorkerStates == {"none", "publishing", "done"} \cup Executing

Alive == proc # "down"

\* Mutant: the phase the run was in.
RecoverToBuilding(k) == IF k \in Confirms THEN "building" ELSE "collecting"

\* recoveryFor, recoveryPhaseForKind
RecoveryFor(k) == IF k \in Confirms THEN "requirement_ready" ELSE "collecting"

Running == {k \in Keys : status[k] = "running"}

\* Mutant: the query forgets status = 'running'.
StaleOfAnyStatus == (cancelRequested \cup expired) \cap Keys

\* The rows ReclaimStaleRuns takes: flagged for cancellation, or too old.
Stale == {k \in Running : k \in cancelRequested \cup expired}

TypeOK ==
  /\ status \in [Keys -> Statuses]
  /\ cancelRequested \in SUBSET Keys
  /\ expired \in SUBSET Keys
  /\ phase \in Phases
  /\ recovery \in Phases \cup {"none"}
  /\ builds \in Seq(Keys)
  /\ stream \in [Keys -> Seq(Events)]
  /\ proc \in ProcStates
  /\ call \in [Calls -> CallStates]
  /\ worker \in [Keys -> WorkerStates]
  /\ ctx \in [Keys -> {"live", "canceled", "deadline"}]
  /\ cancelling \in SUBSET Keys
  /\ owed \in [Keys -> Seq(Events)]

Init ==
  /\ status = [k \in Keys |-> "none"]
  /\ cancelRequested = {}
  /\ expired = {}
  /\ phase = "collecting" /\ recovery = "none"
  /\ builds = <<>>
  /\ stream = [k \in Keys |-> <<>>]
  /\ proc = "up"
  /\ call = [c \in Calls |-> NoCall]
  /\ worker = [k \in Keys |-> "none"]
  /\ ctx = [k \in Keys |-> "live"]
  /\ cancelling = {}
  /\ owed = [k \in Keys |-> <<>>]

-----------------------------------------------------------------------------
(* Taking over rows that will not end by themselves *)

\* Mutant: the session row is not updated.
MarkRunOnly(S) ==
  /\ status' = [k \in Keys |-> IF k \in S THEN "interrupted" ELSE status[k]]
  /\ UNCHANGED <<phase, recovery, cancelRequested, expired, builds>>

\* The update ReclaimStaleRuns and InterruptRunning share: every run of S
\* becomes interrupted and the session goes to error with its recovery phase.
MarkInterrupted(S) ==
  /\ status' = [k \in Keys |-> IF k \in S THEN "interrupted" ELSE status[k]]
  /\ \/ S = {} /\ UNCHANGED <<phase, recovery>>
     \/ \E k \in S : phase' = "error" /\ recovery' = RecoveryFor(k)
  /\ UNCHANGED <<cancelRequested, expired, builds>>

\* Mutant: the recovery is skipped.
RecoverNothing == UNCHANGED <<db, owed>>

\* RecoverInterrupted: every running row is interrupted, and the runs the
\* event store knows are announced as failed.
RecoverInterrupted ==
  /\ MarkInterrupted(Running)
  /\ owed' = [k \in Keys |->
                IF k \in Running /\ stream[k] # <<>>
                THEN <<Event("failed"), Completed("interrupted")>> ELSE owed[k]]

\* Mutant: the reclaim publishes nothing.
ReclaimSilently == MarkInterrupted(Stale) /\ UNCHANGED owed

\* ReclaimStaleRuns: stale rows are announced as cancelled, whatever took them.
ReclaimStale ==
  /\ MarkInterrupted(Stale)
  /\ owed' = [k \in Keys |->
                IF k \in Stale THEN <<Event("cancelled"), Completed("interrupted")>>
                ELSE owed[k]]

-----------------------------------------------------------------------------
(* StartMessage and StartConfirm *)

\* A client posts, or posts again, the request with key k.
Submit(c, k) ==
  /\ proc = "up"
  /\ call[c] = NoCall
  /\ call' = [call EXCEPT ![c] = [pc |-> "reclaim", key |-> k, took |-> {}]]
  /\ UNCHANGED <<db, stream, proc, worker, ctx, cancelling, owed>>

\* reclaimStale: stale rows of the session are interrupted and announced as
\* cancelled.  A reclaim that fails is only logged.
Reclaim(c) ==
  /\ Alive
  /\ call[c].pc = "reclaim"
  /\ \/ ReclaimStale /\ call' = [call EXCEPT ![c].pc = "admit", ![c].took = Stale]
     \/ /\ DBFaults
        /\ call' = [call EXCEPT ![c].pc = "admit"]
        /\ UNCHANGED <<db, owed>>
  /\ UNCHANGED <<stream, proc, worker, ctx, cancelling>>

\* messageTransition: an error session is judged by its recovery phase.
MessageAllowed ==
  (IF phase = "error" THEN recovery ELSE phase)
    \in {"collecting", "requirement_ready", "ready"}

\* Mutant: the replay of an ended run is taken for a new request.
AdmissibleAgain(k) == Running = {} /\ (k \in Messages => MessageAllowed)

\* The checks of StartMessageRun, StartConfirmRun and of the unique index.
Admissible(k) ==
  /\ status[k] = "none"
  /\ k \in Messages => MessageAllowed
  /\ Running = {}

\* The call reaches the store once it has published what it reclaimed.
AtAdmission(c) ==
  /\ Alive
  /\ call[c].pc = "admit"
  /\ \A k \in call[c].took : owed[k] = <<>>

\* The transaction that inserts the run and moves the session.
Admit(c) ==
  /\ AtAdmission(c)
  /\ LET k == call[c].key IN
       /\ Admissible(k)
       /\ status' = [status EXCEPT ![k] = "running"]
       /\ phase' = IF k \in Confirms THEN "building" ELSE "collecting"
       /\ recovery' = "none"
  /\ call' = [call EXCEPT ![c].pc = "announce", ![c].took = {}]
  /\ UNCHANGED <<cancelRequested, expired, builds, stream, proc, worker, ctx,
                 cancelling, owed>>

\* A replay returns the stored run; a refusal rolls back.  Admissible requests
\* are refused too: for a stale revision or review hash, for a requirement that
\* is not ready, or because the client is gone and the transaction with it.
Refuse(c) ==
  /\ AtAdmission(c)
  /\ call' = [call EXCEPT ![c] = NoCall]
  /\ UNCHANGED <<db, stream, proc, worker, ctx, cancelling, owed>>

\* run.started is appended after the commit and before the launch.
Announce(c) ==
  /\ Alive
  /\ call[c].pc = "announce"
  /\ stream' = [stream EXCEPT ![call[c].key] = Append(@, Event("started"))]
  /\ call' = [call EXCEPT ![c].pc = "launch"]
  /\ UNCHANGED <<db, proc, worker, ctx, cancelling, owed>>

\* launch: the context is registered and the goroutine created.
Launch(c) ==
  /\ Alive
  /\ call[c].pc = "launch"
  /\ worker' = [worker EXCEPT ![call[c].key] = "spawned"]
  /\ call' = [call EXCEPT ![c] = NoCall]
  /\ UNCHANGED <<db, stream, proc, ctx, cancelling, owed>>

-----------------------------------------------------------------------------
(* RequestCancel and the two clocks *)

\* RequestRunCancel sets the flag of a running row, once or again.
FlagCancel(k) ==
  /\ Alive /\ proc # "booting"
  /\ k \in Canceled
  /\ status[k] = "running"
  /\ cancelRequested' = cancelRequested \cup {k}
  /\ cancelling' = cancelling \cup {k}
  /\ UNCHANGED <<status, expired, phase, recovery, builds, stream, proc, call,
                 worker, ctx, owed>>

\* The goroutine is registered in Service.cancels from launch to its return.
Registered(k) == worker[k] \in Executing \cup {"publishing"}

\* The call then cancels the local context, if the run is registered.
CancelLocal(k) ==
  /\ k \in cancelling
  /\ cancelling' = cancelling \ {k}
  /\ ctx' = IF Registered(k) /\ ctx[k] = "live"
            THEN [ctx EXCEPT ![k] = "canceled"] ELSE ctx
  /\ UNCHANGED <<db, stream, proc, call, worker, owed>>

\* expires_at passes.
Expire(k) ==
  /\ k \in Slow
  /\ status[k] = "running"
  /\ expired' = expired \cup {k}
  /\ UNCHANGED <<status, cancelRequested, phase, recovery, builds, stream, proc, mem>>

\* The context's timeout started after the row's, so it passes later.
Deadline(k) ==
  /\ k \in expired
  /\ Registered(k) /\ ctx[k] = "live"
  /\ ctx' = [ctx EXCEPT ![k] = "deadline"]
  /\ UNCHANGED <<db, stream, proc, call, worker, cancelling, owed>>

-----------------------------------------------------------------------------
(* execute: the goroutine of a run *)

Goto(k, pc) == worker' = [worker EXCEPT ![k] = pc] /\ UNCHANGED ctx

\* The goroutine returns; its deferred calls deregister and release the context.
Leave(k) ==
  /\ worker' = [worker EXCEPT ![k] = "done"]
  /\ ctx' = [ctx EXCEPT ![k] = "live"]

\* fail chooses the status to record: interrupted only when the context was
\* canceled while the service context is alive, which SIGTERM cancels.
Fail(k) ==
  Goto(k, IF proc = "up" /\ ctx[k] = "canceled" THEN "recordInterrupted"
                                                ELSE "recordFailed")

\* failFromError: once the service context is canceled only a timeout is
\* recorded; anything else is left to RecoverInterrupted.
FailFromError(k) ==
  IF proc # "up" /\ ctx[k] # "deadline" THEN Leave(k) ELSE Fail(k)

\* The first progress event and the reads under the run's context, which fail
\* once it is done; a build may be refused by the daily token budget before.
Begin(k) ==
  /\ worker[k] = "spawned"
  /\ \/ /\ (ctx[k] = "live" /\ Goto(k, "calling")) \/ Fail(k)
        /\ stream' = [stream EXCEPT ![k] = Append(@, Event("progress"))]
     \/ /\ k \in Confirms
        /\ Fail(k)
        /\ UNCHANGED stream
  /\ UNCHANGED <<db, proc, call, cancelling, owed>>

\* agent.Screen or agent.Remote returns an error, or a result that is prepared
\* for its transaction with reads under the context.  On a dead context a
\* screening fails there; a build's replay verification takes the error for a
\* changed catalog and downgrades the result to a proposal.
AgentReturns(k) ==
  /\ worker[k] = "calling"
  /\ \/ FailFromError(k)
     \/ ctx[k] = "live" /\ Goto(k, "committing")
     \/ k \in Confirms /\ Goto(k, "committingProposal")
     \/ Fail(k)
  /\ UNCHANGED <<db, stream, proc, call, cancelling, owed>>

EndRun(k, s) == status' = [status EXCEPT ![k] = s]

\* Mutant: UPDATE agent_runs ... WHERE id = $1, whatever the status.
AnyStatus(k) == status[k] # "none"

\* The fence of every transaction that ends a run.
StillRunning(k) == status[k] = "running"

\* CompleteRun of a screening turn: the phase follows from the new draft.
CommitScreening(k) ==
  /\ k \in Messages
  /\ worker[k] = "committing"
  /\ StillRunning(k)
  /\ EndRun(k, "succeeded")
  /\ phase' \in {"collecting", "requirement_ready", "ready"}
  /\ recovery' = "none"
  /\ owed' = [owed EXCEPT ![k] = <<Completed("succeeded")>>]
  /\ Goto(k, "publishing")
  /\ UNCHANGED <<cancelRequested, expired, builds, stream, proc, call, cancelling>>

\* CompletePlanningRun saving a version.
CommitBuild(k) ==
  /\ k \in Confirms
  /\ worker[k] = "committing"
  /\ StillRunning(k)
  /\ EndRun(k, "succeeded")
  /\ phase' = "ready"
  /\ recovery' = "none"
  /\ builds' = Append(builds, k)
  /\ owed' = [owed EXCEPT ![k] = <<Event("saved"), Completed("succeeded")>>]
  /\ Goto(k, "publishing")
  /\ UNCHANGED <<cancelRequested, expired, stream, proc, call, cancelling>>

\* Mutant: a stale result leaves the phase as it is.
PhaseKept == {"requirement_ready", "collecting", phase}

\* The phase of the outcome; a stale result keeps the phase, but not building.
ProposalPhases == {"requirement_ready", "collecting"} \cup ({phase} \ {"building"})

\* CompletePlanningRun saving a proposal: not ready, stale or asking back.
CommitProposal(k) ==
  /\ k \in Confirms
  /\ worker[k] \in {"committing", "committingProposal"}
  /\ StillRunning(k)
  /\ EndRun(k, "succeeded")
  /\ phase' \in ProposalPhases
  /\ recovery' = "none"
  /\ owed' = [owed EXCEPT ![k] = <<Completed("succeeded")>>]
  /\ Goto(k, "publishing")
  /\ UNCHANGED <<cancelRequested, expired, builds, stream, proc, call, cancelling>>

Recording(k) == worker[k] \in {"recordFailed", "recordInterrupted"}

\* CompleteRun from fail: the failure, the reply that explains it and the
\* recovery phase.
RecordFailure(k) ==
  /\ Recording(k)
  /\ StillRunning(k)
  /\ \E end \in {[pc |-> "recordFailed", status |-> "failed", event |-> "failed"],
              [pc |-> "recordInterrupted", status |-> "interrupted", event |-> "cancelled"]} :
       /\ worker[k] = end.pc
       /\ EndRun(k, end.status)
       /\ owed' = [owed EXCEPT ![k] =
                     <<Event(end.event), Completed(end.status)>>]
  /\ phase' = "error"
  /\ recovery' = RecoveryFor(k)
  /\ Goto(k, "publishing")
  /\ UNCHANGED <<cancelRequested, expired, builds, stream, proc, call, cancelling>>

\* The update finds the row no longer running: whatever the goroutine tries
\* next finds the same, and it returns without a word.
Fenced(k) ==
  /\ worker[k] \in {"committing", "committingProposal"} \/ Recording(k)
  /\ ~StillRunning(k)
  /\ Leave(k)
  /\ UNCHANGED <<db, stream, proc, call, cancelling, owed>>

\* Mutant: the error of the commit is ignored.
AbortIgnored(k) ==
  /\ DBFaults
  /\ worker[k] = "committing" /\ Goto(k, "publishing")
  /\ owed' = [owed EXCEPT ![k] = <<Event("saved"), Completed("succeeded")>>]
  /\ UNCHANGED <<db, stream, proc, call, cancelling>>

\* The transaction is aborted.  A result is then recorded as a failure; a
\* failure that cannot be recorded leaves the row running.
CommitAborted(k) ==
  /\ DBFaults
  /\ \/ worker[k] \in {"committing", "committingProposal"} /\ Fail(k)
     \/ Recording(k) /\ Leave(k)
  /\ UNCHANGED <<db, stream, proc, call, cancelling, owed>>

Return(k) ==
  /\ worker[k] = "publishing" /\ owed[k] = <<>>
  /\ Leave(k)
  /\ UNCHANGED <<db, stream, proc, call, cancelling, owed>>

\* publish: whoever ended the run appends its remaining events one by one.
Publish(k) ==
  /\ Alive
  /\ owed[k] # <<>>
  /\ stream' = [stream EXCEPT ![k] = Append(@, Head(owed[k]))]
  /\ owed' = [owed EXCEPT ![k] = Tail(@)]
  /\ UNCHANGED <<db, proc, call, worker, ctx, cancelling>>

-----------------------------------------------------------------------------
(* The process *)

\* SIGTERM cancels the root context, and the service's with it.
Terminate ==
  /\ proc = "up"
  /\ proc' = "draining"
  /\ UNCHANGED <<db, stream, mem>>

\* server.Shutdown returned, in time or not; Service.Shutdown cancels the
\* contexts of the registered runs.
StopRuns ==
  /\ proc = "draining"
  /\ proc' = "stopping"
  /\ ctx' = [k \in Keys |-> IF Registered(k) /\ ctx[k] = "live" THEN "canceled" ELSE ctx[k]]
  /\ UNCHANGED <<db, stream, call, worker, cancelling, owed>>

\* Every goroutine returned before the timeout.
FinishStop ==
  /\ proc = "stopping"
  /\ \A k \in Keys : worker[k] \in {"none", "done"}
  /\ RecoverInterrupted
  /\ proc' = "closing"
  /\ UNCHANGED <<stream, call, worker, ctx, cancelling>>

\* The memory of the process is gone.
Vanish ==
  /\ proc' = "down"
  /\ call' = [c \in Calls |-> NoCall]
  /\ worker' = [k \in Keys |-> IF worker[k] = "none" THEN "none" ELSE "done"]
  /\ cancelling' = {}
  /\ ctx' = [k \in Keys |-> "live"]
  /\ owed' = [k \in Keys |-> <<>>]
  /\ UNCHANGED <<db, stream>>

\* main returns: after the recovery's events, or when the timeout ran out.
Exit ==
  /\ \/ proc = "stopping"
     \/ proc = "closing" /\ \A k \in Keys : owed[k] = <<>>
  /\ Vanish

Crash == Alive /\ Vanish

\* Startup interrupts what the last process left, before listening ...
Boot ==
  /\ proc = "down"
  /\ RecoverInterrupted
  /\ proc' = "booting"
  /\ UNCHANGED <<stream, call, worker, ctx, cancelling>>

\* ... publishes it, and only then runs ReclaimStaleRuns.
Listen ==
  /\ proc = "booting"
  /\ \A k \in Keys : owed[k] = <<>>
  /\ ReclaimStale
  /\ proc' = "up"
  /\ UNCHANGED <<stream, call, worker, ctx, cancelling>>

-----------------------------------------------------------------------------
CallStep(c) == Reclaim(c) \/ Admit(c) \/ Refuse(c) \/ Announce(c) \/ Launch(c)

Commit(k) == CommitScreening(k) \/ CommitBuild(k) \/ CommitProposal(k)

WorkerStep(k) ==
  \/ Begin(k) \/ AgentReturns(k)
  \/ Commit(k) \/ RecordFailure(k) \/ Fenced(k) \/ CommitAborted(k)
  \/ Return(k)

CancelStep(k) == FlagCancel(k) \/ CancelLocal(k)

Clock(k) == Expire(k) \/ Deadline(k)

ProcessStep == Terminate \/ StopRuns \/ FinishStop \/ Exit \/ Crash \/ Boot \/ Listen

Next ==
  \/ \E c \in Calls : CallStep(c) \/ \E k \in Keys : Submit(c, k)
  \/ \E k \in Keys : WorkerStep(k) \/ CancelStep(k) \/ Clock(k) \/ Publish(k)
  \/ ProcessStep

Spec == Init /\ [][Next]_vars

(***************************************************************************)
(* Fairness: the Go scheduler runs every goroutine, agent calls return     *)
(* because their context ends them, shutdown is bounded by its timeout and *)
(* the supervisor restarts the process.  Nothing is assumed of users.      *)
(***************************************************************************)
Fairness ==
  /\ \A c \in Calls : WF_vars(CallStep(c))
  /\ \A k \in Keys : WF_vars(WorkerStep(k)) /\ WF_vars(Publish(k))
  /\ WF_vars(StopRuns) /\ WF_vars(Exit) /\ WF_vars(Boot) /\ WF_vars(Listen)

FairSpec == Spec /\ Fairness

-----------------------------------------------------------------------------
(* Properties *)

\* The session row tells what its runs are doing: building exactly while a
\* build runs, collecting while a screening runs, error exactly while there is
\* a phase to recover to, and never two runs at once.  The phase is written by
\* six transactions of internal/store, each of which has to get this right.
PhaseAgreesWithRuns ==
  /\ \A j, k \in Running : j = k
  /\ phase = "building" <=> \E k \in Confirms : status[k] = "running"
  /\ (\E k \in Messages : status[k] = "running") => phase = "collecting"
  /\ phase = "error" <=> recovery # "none"

\* A session with no running run takes the next message: neither a failure nor
\* a restart leaves it in a phase messageTransition refuses.
SessionNeverLocked == Running = {} => MessageAllowed

\* Everything published for a run or about to be.
Log(k) == stream[k] \o owed[k]

\* Whoever ends a run (its goroutine, a reclaim by a later request, a shutdown
\* or a restart), run.completed is published at most once ...
CompletedOnce ==
  \A k \in Keys : \A i, j \in DOMAIN Log(k) :
    Log(k)[i].type = "completed" /\ Log(k)[j].type = "completed" => i = j

\* ... and with the status the row has for good.
CompletedTellsTheRow ==
  \A k \in Keys : \A i \in DOMAIN Log(k) :
    Log(k)[i].type = "completed" =>
      status[k] \in Ended /\ Log(k)[i].status = status[k]

\* "build.saved before the commit" is forbidden: who reads build.saved can
\* read the version.
SavedIsCommitted ==
  \A k \in Keys : \A i \in DOMAIN stream[k] :
    stream[k][i].type = "saved" => \E v \in DOMAIN builds : builds[v] = k

\* A run saves at most one version, and only a run recorded as succeeded has
\* one, whatever reclaimed or cancelled it while its goroutine was at work.
OneVersionPerRun ==
  \A i, j \in DOMAIN builds :
    status[builds[i]] = "succeeded" /\ (builds[i] = builds[j] => i = j)

\* No step changes the status of a run that has ended.
TerminalIsFinal ==
  [][\A k \in Keys : status[k] \in Ended => status'[k] = status[k]]_vars

\* A request key gets one goroutine however often and concurrently it is
\* posted, also across restarts.
LaunchedOnce ==
  [][\A k \in Keys : worker'[k] = "spawned" => worker[k] \in {"none", "spawned"}]_vars

\* The rows implement RunContract.
Contract == INSTANCE RunContract
ImplementsContract == Contract!Spec

\* Every run ends, through crashes and restarts, if transactions do not fail.
RunsEnd == \A k \in Keys : status[k] = "running" ~> status[k] \in Ended

Announced(k) == \E i \in DOMAIN stream[k] : stream[k][i].type = "completed"

\* A follower of a running run sees run.completed unless the process dies
\* first: every way of ending a run, the reclaims and the recovery included,
\* has someone who publishes it.
EndsAreAnnounced ==
  \A k \in Keys :
    status[k] = "running" /\ stream[k] # <<>> ~> Announced(k) \/ proc = "down"
=============================================================================
