------------------------- MODULE RunLifecycleProofs -------------------------
(***************************************************************************)
(* Theorems about RunLifecycle for all sets of requests and calls: about   *)
(* the rows, then about the streams, in which the end of a run is          *)
(* announced once and is what the rows say.                                *)
(***************************************************************************)
EXTENDS RunLifecycle, Integers, TLAPS

-----------------------------------------------------------------------------
(* Type correctness *)

\* The events a step publishes are events ...
LEMMA EventsTyped ==
  /\ \A t \in EventTypes : Event(t) \in Events
  /\ \A s \in Statuses : Completed(s) \in Events
BY DEF Event, Completed, Events, EventTypes, Statuses

\* ... and what a finisher comes to owe is a sequence of them.
LEMMA EndingsTyped ==
  /\ <<Completed("succeeded")>> \in Seq(Events)
  /\ <<Event("saved"), Completed("succeeded")>> \in Seq(Events)
  /\ <<Event("failed"), Completed("failed")>> \in Seq(Events)
  /\ <<Event("failed"), Completed("interrupted")>> \in Seq(Events)
  /\ <<Event("cancelled"), Completed("interrupted")>> \in Seq(Events)
<1>1. /\ Event("saved") \in Events /\ Event("failed") \in Events
      /\ Event("cancelled") \in Events
  BY EventsTyped DEF EventTypes
<1>2. /\ Completed("succeeded") \in Events /\ Completed("failed") \in Events
      /\ Completed("interrupted") \in Events
  BY EventsTyped DEF Statuses, Ended
<1> QED BY <1>1, <1>2

\* Publishing for one run keeps every stream a sequence of events.
LEMMA AppendTyped ==
  ASSUME TypeOK, NEW k \in Keys, NEW t \in EventTypes
  PROVE  [stream EXCEPT ![k] = Append(@, Event(t))] \in [Keys -> Seq(Events)]
<1>1. Event(t) \in Events
  BY EventsTyped
<1>2. stream[k] \in Seq(Events)
  BY DEF TypeOK
<1>3. Append(stream[k], Event(t)) \in Seq(Events)
  BY <1>1, <1>2
<1> QED BY <1>3 DEF TypeOK

\* The initial state is typed.
LEMMA TypeInit == Init => TypeOK
BY DEF Init, TypeOK, Statuses, Phases, ProcStates, CallStates, NoCall, WorkerStates

\* What every action on the rows of interrupted runs does to their types.
LEMMA MarkTypes ==
  ASSUME NEW S \in SUBSET Keys, TypeOK, MarkInterrupted(S)
  PROVE  /\ status' \in [Keys -> Statuses]
         /\ phase' \in Phases
         /\ recovery' \in Phases \cup {"none"}
         /\ UNCHANGED <<cancelRequested, expired, builds>>
BY DEF TypeOK, MarkInterrupted, RecoveryFor, Statuses, Ended, Phases

\* A call that has started serves a request ...
LEMMA CallKey ==
  ASSUME TypeOK, NEW c \in Calls, call[c].pc # "idle"
  PROVE  call[c] \in [pc : {"reclaim", "admit", "announce", "launch"},
                      key : Keys, took : SUBSET Keys]
BY DEF TypeOK, CallStates, NoCall

\* ... and stays a call when it moves on.
LEMMA CallMoves ==
  ASSUME TypeOK, NEW c \in Calls, call[c].pc # "idle",
         NEW pc \in {"reclaim", "admit", "announce", "launch"},
         NEW took \in SUBSET Keys
  PROVE  /\ [call EXCEPT ![c].pc = pc] \in [Calls -> CallStates]
         /\ [call EXCEPT ![c].pc = pc, ![c].took = took] \in [Calls -> CallStates]
<1>1. call[c] \in [pc : {"reclaim", "admit", "announce", "launch"},
                   key : Keys, took : SUBSET Keys]
  BY CallKey
<1>2. [call[c] EXCEPT !.pc = pc] \in CallStates
  BY <1>1 DEF CallStates
<1>3. [call[c] EXCEPT !.pc = pc, !.took = took] \in CallStates
  BY <1>1 DEF CallStates
<1> QED BY <1>2, <1>3 DEF TypeOK

\* A step of an HTTP call keeps the types.
LEMMA CallTypes ==
  ASSUME TypeOK, \E c \in Calls : CallStep(c) \/ \E k \in Keys : Submit(c, k)
  PROVE  TypeOK'
<1>1. ASSUME NEW c \in Calls, NEW k \in Keys, Submit(c, k) PROVE TypeOK'
  BY <1>1 DEF TypeOK, Submit, CallStates, db
<1>2. ASSUME NEW c \in Calls, Reclaim(c) PROVE TypeOK'
  <2>1. Stale \in SUBSET Keys
    BY DEF Stale, Running
  <2>2. call' \in [Calls -> CallStates]
    <3>1. /\ [call EXCEPT ![c].pc = "admit"] \in [Calls -> CallStates]
          /\ [call EXCEPT ![c].pc = "admit", ![c].took = Stale] \in [Calls -> CallStates]
      BY <1>2, <2>1, CallMoves DEF Reclaim
    <3> QED BY <1>2, <3>1 DEF Reclaim
  <2>3. CASE ReclaimStale
    <3>1. owed' \in [Keys -> Seq(Events)]
      BY <2>3, EndingsTyped DEF TypeOK, ReclaimStale
    <3> QED BY <1>2, <2>1, <2>2, <2>3, <3>1, MarkTypes DEF TypeOK, Reclaim, ReclaimStale
  <2>4. CASE UNCHANGED <<db, owed>>
    BY <1>2, <2>2, <2>4 DEF TypeOK, Reclaim, db
  <2> QED BY <1>2, <2>3, <2>4 DEF Reclaim
<1>3. ASSUME NEW c \in Calls, Admit(c) PROVE TypeOK'
  <2>1. call' \in [Calls -> CallStates]
    BY <1>3, CallMoves DEF Admit, AtAdmission
  <2> QED BY <1>3, <2>1 DEF TypeOK, Admit, Statuses, Phases
<1>4. ASSUME NEW c \in Calls, Refuse(c) PROVE TypeOK'
  BY <1>4 DEF TypeOK, Refuse, CallStates, db
<1>5. ASSUME NEW c \in Calls, Announce(c) PROVE TypeOK'
  <2>1. call' \in [Calls -> CallStates]
    BY <1>5, CallMoves DEF Announce
  <2>2. stream' \in [Keys -> Seq(Events)]
    BY <1>5, AppendTyped, CallKey DEF Announce, EventTypes
  <2> QED BY <1>5, <2>1, <2>2 DEF TypeOK, Announce, db
<1>6. ASSUME NEW c \in Calls, Launch(c) PROVE TypeOK'
  BY <1>6 DEF TypeOK, Launch, CallStates, NoCall, db, WorkerStates, Executing
<1> QED BY <1>1, <1>2, <1>3, <1>4, <1>5, <1>6 DEF CallStep

\* A cancellation, or a clock, keeps the types.
LEMMA CancelTypes ==
  ASSUME TypeOK, NEW k \in Keys, CancelStep(k) \/ Clock(k)
  PROVE  TypeOK'
BY DEF TypeOK, CancelStep, Clock, FlagCancel, CancelLocal, Expire, Deadline, db, mem

\* A step of a run's goroutine, and a publication, keep the types.
LEMMA WorkerTypes ==
  ASSUME TypeOK, NEW k \in Keys, WorkerStep(k) \/ Publish(k)
  PROVE  TypeOK'
<1> USE DEF Goto, Leave
<1>1. ASSUME Begin(k) PROVE TypeOK'
  <2>1. stream' \in [Keys -> Seq(Events)]
    <3>1. [stream EXCEPT ![k] = Append(@, Event("progress"))] \in [Keys -> Seq(Events)]
      BY AppendTyped DEF EventTypes
    <3> QED BY <1>1, <3>1 DEF TypeOK, Begin
  <2> QED BY <1>1, <2>1 DEF TypeOK, Begin, Fail, db, WorkerStates, Executing
<1>2. ASSUME AgentReturns(k) PROVE TypeOK'
  BY <1>2 DEF TypeOK, AgentReturns, Fail, FailFromError, db, WorkerStates, Executing
<1>3. ASSUME Commit(k) PROVE TypeOK'
  <2>1. owed' \in [Keys -> Seq(Events)]
    BY <1>3, EndingsTyped DEF TypeOK, Commit, CommitScreening, CommitBuild, CommitProposal
  <2>2. /\ status' \in [Keys -> Statuses]
        /\ worker' \in [Keys -> WorkerStates]
    BY <1>3 DEF TypeOK, Commit, CommitScreening, CommitBuild, CommitProposal,
       EndRun, WorkerStates, Statuses, Ended
  <2>3. /\ phase' \in Phases
        /\ recovery' \in Phases \cup {"none"}
    BY <1>3 DEF TypeOK, Commit, CommitScreening, CommitBuild, CommitProposal,
       ProposalPhases, Phases
  <2>4. builds' \in Seq(Keys)
    <3>1. Append(builds, k) \in Seq(Keys)
      BY DEF TypeOK
    <3> QED BY <1>3, <3>1 DEF TypeOK, Commit, CommitScreening, CommitBuild, CommitProposal
  <2> QED BY <1>3, <2>1, <2>2, <2>3, <2>4
      DEF TypeOK, Commit, CommitScreening, CommitBuild, CommitProposal
<1>4. ASSUME RecordFailure(k) PROVE TypeOK'
  <2>1. owed' \in [Keys -> Seq(Events)]
    BY <1>4, EndingsTyped DEF TypeOK, RecordFailure
  <2> QED BY <1>4, <2>1 DEF TypeOK, RecordFailure, RecoveryFor, EndRun,
       WorkerStates, Statuses, Ended, Phases
<1>5. ASSUME Fenced(k) \/ CommitAborted(k) \/ Return(k) PROVE TypeOK'
  BY <1>5 DEF TypeOK, Fenced, CommitAborted, Return, Fail, db, WorkerStates, Executing
<1>6. ASSUME Publish(k) PROVE TypeOK'
  <2>1. Head(owed[k]) \in Events /\ Tail(owed[k]) \in Seq(Events)
    BY <1>6 DEF TypeOK, Publish
  <2> QED BY <1>6, <2>1 DEF TypeOK, Publish, db
<1> QED BY <1>1, <1>2, <1>3, <1>4, <1>5, <1>6 DEF WorkerStep

\* Shutdown, crash and restart keep the types.
LEMMA ProcessTypes == ASSUME TypeOK, ProcessStep PROVE TypeOK'
<1>1. ASSUME Terminate \/ StopRuns PROVE TypeOK'
  BY <1>1 DEF TypeOK, Terminate, StopRuns, db, mem, ProcStates
<1>2. ASSUME RecoverInterrupted
      PROVE  /\ owed' \in [Keys -> Seq(Events)]
             /\ status' \in [Keys -> Statuses]
             /\ phase' \in Phases
             /\ recovery' \in Phases \cup {"none"}
             /\ UNCHANGED <<cancelRequested, expired, builds>>
  BY <1>2, MarkTypes, EndingsTyped DEF TypeOK, RecoverInterrupted, Running
<1>3. ASSUME FinishStop \/ Boot PROVE TypeOK'
  BY <1>2, <1>3 DEF TypeOK, FinishStop, Boot, ProcStates
<1>4. ASSUME Vanish PROVE TypeOK'
  BY <1>4 DEF TypeOK, Vanish, db, ProcStates, CallStates, WorkerStates
<1>5. ASSUME Listen PROVE TypeOK'
  <2>1. owed' \in [Keys -> Seq(Events)]
    BY <1>5, EndingsTyped DEF TypeOK, Listen, ReclaimStale
  <2>2. Stale \in SUBSET Keys
    BY DEF Stale, Running
  <2> QED BY <1>5, <2>1, <2>2, MarkTypes DEF TypeOK, Listen, ReclaimStale, ProcStates
<1> QED BY <1>1, <1>3, <1>4, <1>5 DEF ProcessStep, Exit, Crash

\* TypeOK is inductive.
LEMMA TypeStep == TypeOK /\ [Next]_vars => TypeOK'
<1>1. TypeOK /\ UNCHANGED vars => TypeOK'
  BY DEF TypeOK, vars, db, mem
<1> QED BY <1>1, CallTypes, CancelTypes, WorkerTypes, ProcessTypes DEF Next

\* Every variable keeps its type, whatever the sets of requests and calls.
THEOREM TypeCorrect == Spec => []TypeOK
BY TypeInit, TypeStep, PTL DEF Spec

-----------------------------------------------------------------------------
(* The rows implement RunContract *)

\* Interrupting some of the running runs abandons the one there is, if any.
LEMMA MarkRefines ==
  ASSUME TypeOK, PhaseAgreesWithRuns, NEW S \in SUBSET Running, MarkInterrupted(S)
  PROVE  [Contract!Next]_(Contract!vars)
<1>1. CASE S = {}
  <2>1. status' = status
    BY <1>1 DEF MarkInterrupted, TypeOK
  <2> QED BY <1>1, <2>1 DEF MarkInterrupted, Contract!vars
<1>2. CASE S # {}
  <2>1. PICK k \in S : phase' = "error" /\ recovery' = RecoveryFor(k)
    BY <1>2 DEF MarkInterrupted
  <2>2. S = {k} /\ k \in Keys /\ status[k] = "running"
    BY <2>1 DEF PhaseAgreesWithRuns, Running
  <2>3. status' = [status EXCEPT ![k] = "interrupted"]
    BY <2>2 DEF MarkInterrupted, TypeOK
  <2>4. Contract!Abandon(k)
    BY <2>1, <2>2, <2>3 DEF Contract!Abandon, MarkInterrupted, RecoveryFor
  <2> QED BY <2>2, <2>4 DEF Contract!Next, Contract!Keys, Keys
<1> QED BY <1>1, <1>2

\* A call accepts a run, abandons the stale one or leaves the rows alone.
LEMMA CallRefines ==
  ASSUME TypeOK, PhaseAgreesWithRuns, NEW c \in Calls,
         CallStep(c) \/ \E k \in Keys : Submit(c, k)
  PROVE  [Contract!Next]_(Contract!vars)
<1>1. CASE Reclaim(c)
  <2>1. Stale \in SUBSET Running
    BY DEF Stale
  <2> QED BY <1>1, <2>1, MarkRefines DEF Reclaim, ReclaimStale, db, Contract!vars
<1>2. CASE Admit(c)
  <2>1. call[c].key \in Keys
    BY <1>2, CallKey DEF Admit, AtAdmission
  <2>2. Contract!Accept(call[c].key)
    BY <1>2 DEF Admit, Admissible, Contract!Accept, Contract!Running, Contract!Keys,
       Running, Keys
  <2> QED BY <2>1, <2>2 DEF Contract!Next, Contract!Keys, Keys
<1>3. CASE Refuse(c) \/ Announce(c) \/ Launch(c) \/ \E k \in Keys : Submit(c, k)
  BY <1>3 DEF Refuse, Announce, Launch, Submit, db, Contract!vars
<1> QED BY <1>1, <1>2, <1>3 DEF CallStep

\* A goroutine ends its run or leaves the rows alone.
LEMMA RunRefines ==
  ASSUME TypeOK, PhaseAgreesWithRuns, RunAssumption, NEW k \in Keys,
         WorkerStep(k) \/ CancelStep(k) \/ Clock(k) \/ Publish(k)
  PROVE  [Contract!Next]_(Contract!vars)
<1>1. CASE CommitScreening(k)
  <2>1. Contract!Succeed(k)
    BY <1>1 DEF CommitScreening, EndRun, StillRunning, Contract!Succeed, RunAssumption
  <2> QED BY <2>1 DEF Contract!Next, Contract!Keys, Keys
<1>2. CASE CommitBuild(k)
  <2>1. Contract!Succeed(k)
    BY <1>2 DEF CommitBuild, EndRun, StillRunning, Contract!Succeed
  <2> QED BY <2>1 DEF Contract!Next, Contract!Keys, Keys
<1>3. CASE CommitProposal(k)
  <2>1. phase = "building"
    BY <1>3 DEF CommitProposal, StillRunning, PhaseAgreesWithRuns
  <2>2. Contract!Succeed(k)
    BY <1>3, <2>1 DEF CommitProposal, ProposalPhases, EndRun, StillRunning, Contract!Succeed
  <2> QED BY <2>2 DEF Contract!Next, Contract!Keys, Keys
<1>4. CASE RecordFailure(k)
  <2>1. \E s \in {"failed", "interrupted"} : status' = [status EXCEPT ![k] = s]
    <3>1. PICK end \in {
            [pc |-> "recordFailed", status |-> "failed", event |-> "failed"],
            [pc |-> "recordInterrupted", status |-> "interrupted", event |-> "cancelled"]} :
            EndRun(k, end.status)
      BY <1>4 DEF RecordFailure
    <3>2. end.status \in {"failed", "interrupted"}
      OBVIOUS
    <3> QED BY <3>1, <3>2 DEF EndRun
  <2>2. Contract!Abandon(k)
    BY <1>4, <2>1 DEF RecordFailure, StillRunning, RecoveryFor, Contract!Abandon
  <2> QED BY <2>2 DEF Contract!Next, Contract!Keys, Keys
<1>5. CASE \/ Begin(k) \/ AgentReturns(k) \/ Fenced(k) \/ CommitAborted(k)
           \/ Return(k) \/ Publish(k)
  BY <1>5 DEF Begin, AgentReturns, Fenced, CommitAborted, Return, Publish, db, Contract!vars
<1>6. CASE CancelStep(k) \/ Clock(k)
  BY <1>6 DEF CancelStep, Clock, FlagCancel, CancelLocal, Expire, Deadline, db, Contract!vars
<1> QED BY <1>1, <1>2, <1>3, <1>4, <1>5, <1>6 DEF WorkerStep, Commit

\* Shutdown and restart abandon what runs, everything else is a stutter.
LEMMA ProcessRefines ==
  ASSUME TypeOK, PhaseAgreesWithRuns, ProcessStep
  PROVE  [Contract!Next]_(Contract!vars)
<1>1. CASE FinishStop \/ Boot
  BY <1>1, MarkRefines DEF FinishStop, Boot, RecoverInterrupted
<1>2. CASE Listen
  <2>1. Stale \in SUBSET Running
    BY DEF Stale
  <2> QED BY <1>2, <2>1, MarkRefines DEF Listen, ReclaimStale
<1>3. CASE Terminate \/ StopRuns \/ Exit \/ Crash
  BY <1>3 DEF Terminate, StopRuns, Exit, Crash, Vanish, db, Contract!vars
<1> QED BY <1>1, <1>2, <1>3 DEF ProcessStep

\* Every step of the program is a step of the contract or a stutter.
LEMMA StepRefines ==
  ASSUME TypeOK, PhaseAgreesWithRuns, [Next]_vars
  PROVE  [Contract!Next]_(Contract!vars)
<1>1. CASE UNCHANGED vars
  BY <1>1 DEF vars, db, Contract!vars
<1>2. CASE Next
  BY <1>2, RunAssumption, CallRefines, RunRefines, ProcessRefines DEF Next
<1> QED BY <1>1, <1>2

-----------------------------------------------------------------------------
(* What a step of the contract preserves *)

\* A step of the contract keeps the phase in agreement with the runs.
LEMMA PhaseStep ==
  ASSUME TypeOK, PhaseAgreesWithRuns, RunAssumption, [Contract!Next]_(Contract!vars)
  PROVE  PhaseAgreesWithRuns'
<1> USE DEF PhaseAgreesWithRuns, Running, Keys, TypeOK, Contract!Keys, Contract!Running
<1>1. ASSUME NEW k \in Keys, Contract!Accept(k) PROVE PhaseAgreesWithRuns'
  BY <1>1 DEF Contract!Accept, RunAssumption
<1>2. ASSUME NEW k \in Keys, Contract!Succeed(k) PROVE PhaseAgreesWithRuns'
  BY <1>2 DEF Contract!Succeed, RunAssumption
<1>3. ASSUME NEW k \in Keys, Contract!Abandon(k) PROVE PhaseAgreesWithRuns'
  BY <1>3 DEF Contract!Abandon, RunAssumption
<1>4. CASE UNCHANGED Contract!vars
  BY <1>4 DEF Contract!vars
<1> QED BY <1>1, <1>2, <1>3, <1>4 DEF Contract!Next

\* They agree before the first request.
LEMMA PhaseInit == Init => PhaseAgreesWithRuns
BY DEF Init, PhaseAgreesWithRuns, Running, Keys

\* A version is new when it is saved: its run was running until then, and the
\* runs of the versions before it had succeeded.
LEMMA VersionStep ==
  ASSUME TypeOK, OneVersionPerRun, [Contract!Next]_(Contract!vars)
  PROVE  OneVersionPerRun'
<1> USE DEF OneVersionPerRun, TypeOK
<1>1. ASSUME NEW k \in Keys, Contract!Accept(k) PROVE OneVersionPerRun'
  BY <1>1 DEF Contract!Accept
<1>2. ASSUME NEW k \in Keys, Contract!Succeed(k) PROVE OneVersionPerRun'
  <2>1. /\ status[k] = "running"
        /\ status' = [status EXCEPT ![k] = "succeeded"]
    BY <1>2 DEF Contract!Succeed
  <2>2. CASE builds' = builds
    BY <2>1, <2>2
  <2>3. CASE builds' = Append(builds, k)
    <3>1. /\ DOMAIN builds' = 1..Len(builds) + 1
          /\ DOMAIN builds = 1..Len(builds)
          /\ \A i \in 1..Len(builds) : builds'[i] = builds[i]
          /\ builds'[Len(builds) + 1] = k
          /\ \A i \in 1..Len(builds) : builds[i] \in Keys
      BY <2>3
    <3>2. \A i \in 1..Len(builds) : builds[i] # k
      BY <2>1, <3>1
    <3>3. \A i \in DOMAIN builds' : status'[builds'[i]] = "succeeded"
      <4> SUFFICES ASSUME NEW i \in DOMAIN builds' PROVE status'[builds'[i]] = "succeeded"
        OBVIOUS
      <4>1. CASE i \in 1..Len(builds)
        BY <2>1, <3>1, <3>2, <4>1
      <4>2. CASE i = Len(builds) + 1
        BY <2>1, <3>1, <4>2
      <4> QED BY <3>1, <4>1, <4>2
    <3>4. \A i, j \in DOMAIN builds' : builds'[i] = builds'[j] => i = j
      <4> SUFFICES ASSUME NEW i \in DOMAIN builds', NEW j \in DOMAIN builds',
                          builds'[i] = builds'[j]
                   PROVE  i = j
        OBVIOUS
      <4>1. /\ i \in 1..Len(builds) \/ i = Len(builds) + 1
            /\ j \in 1..Len(builds) \/ j = Len(builds) + 1
        <5>1. Len(builds) \in Nat
          OBVIOUS
        <5>2. i \in 1..Len(builds) + 1 /\ j \in 1..Len(builds) + 1
          BY ONLY <3>1, i \in DOMAIN builds', j \in DOMAIN builds', Zenon
        <5> QED BY ONLY <5>1, <5>2, SMT
      <4>2. CASE i \in 1..Len(builds) /\ j \in 1..Len(builds)
        BY <3>1, <4>2
      <4>3. CASE i = Len(builds) + 1 /\ j \in 1..Len(builds)
        BY <3>1, <3>2, <4>3
      <4>4. CASE j = Len(builds) + 1 /\ i \in 1..Len(builds)
        BY <3>1, <3>2, <4>4
      <4>5. CASE i = j
        BY <4>5
      <4> QED BY <4>1, <4>2, <4>3, <4>4, <4>5
    <3> QED BY <3>3, <3>4
  <2> QED BY <1>2, <2>2, <2>3 DEF Contract!Succeed
<1>3. ASSUME NEW k \in Keys, Contract!Abandon(k) PROVE OneVersionPerRun'
  BY <1>3 DEF Contract!Abandon
<1>4. CASE UNCHANGED Contract!vars
  BY <1>4 DEF Contract!vars
<1> QED BY <1>1, <1>2, <1>3, <1>4 DEF Contract!Next, Contract!Keys, Keys

\* There is no version before the first request.
LEMMA VersionInit == Init => OneVersionPerRun
BY DEF Init, OneVersionPerRun

\* A step of the contract changes no status that is final.
LEMMA FinalStep ==
  ASSUME TypeOK, [Contract!Next]_(Contract!vars)
  PROVE  \A k \in Keys : status[k] \in Ended => status'[k] = status[k]
BY DEF TypeOK, Ended, Contract!Next, Contract!Accept, Contract!Succeed,
       Contract!Abandon, Contract!vars, Contract!Keys, Keys

\* A failed run leaves one of two phases to recover to.
RecoveryKnown == recovery \in {"none", "collecting", "requirement_ready"}

\* A step of the contract keeps the recovery phase among those.
LEMMA RecoveryStep ==
  ASSUME RecoveryKnown, [Contract!Next]_(Contract!vars)
  PROVE  RecoveryKnown'
BY DEF RecoveryKnown, Contract!Next, Contract!Accept, Contract!Succeed,
       Contract!Abandon, Contract!vars

-----------------------------------------------------------------------------
(* The theorems *)

\* What the steps preserve together.
RowsInv == TypeOK /\ PhaseAgreesWithRuns /\ OneVersionPerRun /\ RecoveryKnown

\* The three invariants of the rows, and the types, hold together.
LEMMA RowsInductive == Spec => []RowsInv
<1>1. Init => RowsInv
  BY TypeInit, PhaseInit, VersionInit DEF RowsInv, RecoveryKnown, Init
<1>2. RowsInv /\ [Next]_vars => RowsInv'
  BY TypeStep, StepRefines, PhaseStep, VersionStep, RecoveryStep, RunAssumption DEF RowsInv
<1> QED BY <1>1, <1>2, PTL DEF Spec

\* The session row always tells what its runs are doing, with any number of
\* requests, calls, cancellations, expiries, crashes and restarts.
THEOREM PhaseCorrect == Spec => []PhaseAgreesWithRuns
BY RowsInductive, PTL DEF RowsInv

\* Whatever happened before, a session without a running run takes a message.
THEOREM NeverLocked == Spec => []SessionNeverLocked
<1>1. RowsInv => SessionNeverLocked
  BY DEF RowsInv, TypeOK, PhaseAgreesWithRuns, RecoveryKnown, SessionNeverLocked,
         MessageAllowed, Phases, Running, Keys
<1> QED BY <1>1, RowsInductive, PTL

\* A build run saves at most one version and only as it succeeds.
THEOREM VersionsCorrect == Spec => []OneVersionPerRun
BY RowsInductive, PTL DEF RowsInv

\* The status a run ended with is never changed.
THEOREM FinalityCorrect == Spec => TerminalIsFinal
<1>1. RowsInv /\ [Next]_vars =>
        [\A k \in Keys : status[k] \in Ended => status'[k] = status[k]]_vars
  BY StepRefines, FinalStep DEF RowsInv
<1> QED BY <1>1, RowsInductive, PTL DEF Spec, TerminalIsFinal

\* The rows implement the contract: one run at a time, each ending once.
THEOREM ContractImplemented == Spec => ImplementsContract
<1>1. Init => Contract!Init
  BY DEF Init, Contract!Init, Contract!Keys, Keys
<1>2. RowsInv /\ [Next]_vars => [Contract!Next]_(Contract!vars)
  BY StepRefines DEF RowsInv
<1> QED BY <1>1, <1>2, RowsInductive, PTL DEF Spec, ImplementsContract, Contract!Spec

-----------------------------------------------------------------------------
(* One goroutine for every key *)

\* Call c has admitted run k and not launched it yet.
Launching(c, k) == call[c].pc \in {"announce", "launch"} /\ call[c].key = k

\* A run has at most one of: no row, a call that launches it, a goroutine.
LaunchInv ==
  \A k \in Keys :
    /\ status[k] = "none" => worker[k] = "none" /\ \A c \in Calls : ~Launching(c, k)
    /\ \A c \in Calls : Launching(c, k) => worker[k] = "none"
    /\ \A c, d \in Calls : Launching(c, k) /\ Launching(d, k) => c = d

\* A call launches a run because it did so before, or because it admits it.
LEMMA LaunchingChanges ==
  ASSUME TypeOK, [Next]_vars, NEW k \in Keys, NEW c \in Calls, Launching(c, k)'
  PROVE  Launching(c, k) \/ (Admit(c) /\ call[c].key = k /\ status[k] = "none")
<1> USE DEF Launching
<1>1. ASSUME NEW d \in Calls, CallStep(d) \/ \E j \in Keys : Submit(d, j)
      PROVE  Launching(c, k) \/ (Admit(c) /\ call[c].key = k /\ status[k] = "none")
  <2>1. CASE Reclaim(d) \/ Refuse(d) \/ \E j \in Keys : Submit(d, j)
    <3>1. call'[d].pc \notin {"announce", "launch"}
      <4>1. CASE Reclaim(d)
        <5>1. call[d].pc # "idle"
          BY <4>1 DEF Reclaim
        <5> QED BY <4>1, <5>1, CallKey DEF Reclaim, TypeOK
      <4>2. CASE Refuse(d)
        BY <4>2 DEF Refuse, TypeOK, NoCall
      <4>3. CASE \E j \in Keys : Submit(d, j)
        BY <4>3 DEF Submit, TypeOK, NoCall
      <4> QED BY <2>1, <4>1, <4>2, <4>3
    <3>2. c # d
      BY <3>1
    <3>3. call'[c] = call[c]
      BY <2>1, <3>2 DEF Reclaim, Refuse, Submit, TypeOK
    <3> QED BY <3>3
  <2>2. CASE Admit(d)
    <3>1. call[d].pc # "idle"
      BY <2>2 DEF Admit, AtAdmission
    <3>2. CASE c = d
      BY <2>2, <3>1, <3>2, CallKey DEF Admit, Admissible, TypeOK
    <3>3. CASE c # d
      BY <2>2, <3>3 DEF Admit, TypeOK
    <3> QED BY <3>2, <3>3
  <2>3. CASE Announce(d)
    <3>1. call[d].pc # "idle"
      BY <2>3 DEF Announce
    <3> QED BY <2>3, <3>1, CallKey DEF Announce, TypeOK
  <2>4. CASE Launch(d)
    BY <2>4 DEF Launch, TypeOK, NoCall
  <2> QED BY <1>1, <2>1, <2>2, <2>3, <2>4 DEF CallStep
<1>2. ASSUME NEW j \in Keys, WorkerStep(j) \/ CancelStep(j) \/ Clock(j) \/ Publish(j)
      PROVE  call' = call
  BY <1>2 DEF WorkerStep, Begin, AgentReturns, Commit, CommitScreening, CommitBuild,
     CommitProposal, RecordFailure, Fenced, CommitAborted, Return, CancelStep, FlagCancel,
     CancelLocal, Clock, Expire, Deadline, Publish, mem
<1>3. ASSUME ProcessStep PROVE call' = call \/ call'[c] = NoCall
  BY <1>3 DEF ProcessStep, Terminate, StopRuns, FinishStop, Exit, Crash, Vanish, Boot,
     Listen, mem
<1>4. CASE UNCHANGED vars
  BY <1>4 DEF vars, mem
<1> QED BY <1>1, <1>2, <1>3, <1>4 DEF Next, NoCall

\* A goroutine is created by the call that launches its run, which is then
\* done; once it exists it moves on and is never spawned again.
LEMMA WorkerChanges ==
  ASSUME TypeOK, [Next]_vars, NEW k \in Keys
  PROVE  \/ worker'[k] = worker[k]
         \/ worker[k] # "none" /\ worker'[k] # "spawned"
         \/ \E c \in Calls : /\ Launching(c, k) /\ ~Launching(c, k)'
                             /\ worker'[k] = "spawned" /\ status'[k] = status[k]
<1>1. ASSUME NEW c \in Calls, CallStep(c) \/ \E j \in Keys : Submit(c, j)
      PROVE  \/ worker'[k] = worker[k]
             \/ /\ Launching(c, k) /\ ~Launching(c, k)'
                /\ worker'[k] = "spawned" /\ status'[k] = status[k]
  <2>1. CASE Launch(c)
    BY <1>1, <2>1 DEF Launch, Launching, TypeOK, NoCall, db
  <2>2. CASE ~Launch(c)
    BY <1>1, <2>2 DEF CallStep, Reclaim, Admit, Refuse, Announce, Submit
  <2> QED BY <2>1, <2>2
<1>2. ASSUME NEW j \in Keys, WorkerStep(j)
      PROVE  worker'[k] = worker[k] \/ (worker[k] # "none" /\ worker'[k] # "spawned")
  BY <1>2 DEF WorkerStep, Begin, AgentReturns, Commit, CommitScreening, CommitBuild,
     CommitProposal, RecordFailure, Fenced, CommitAborted, Return, Goto, Leave, Fail,
     FailFromError, Recording, TypeOK
<1>3. ASSUME NEW j \in Keys, CancelStep(j) \/ Clock(j) \/ Publish(j)
      PROVE  worker' = worker
  BY <1>3 DEF CancelStep, FlagCancel, CancelLocal, Clock, Expire, Deadline, Publish, mem
<1>4. ASSUME ProcessStep
      PROVE  worker'[k] = worker[k] \/ (worker[k] # "none" /\ worker'[k] # "spawned")
  BY <1>4 DEF ProcessStep, Terminate, StopRuns, FinishStop, Exit, Crash, Vanish, Boot,
     Listen, mem
<1>5. CASE UNCHANGED vars
  BY <1>5 DEF vars, mem
<1> QED BY <1>1, <1>2, <1>3, <1>4, <1>5 DEF Next

\* A row never disappears.
LEMMA RowsStay ==
  ASSUME RowsInv, [Next]_vars, NEW k \in Keys, status'[k] = "none"
  PROVE  status[k] = "none"
<1>1. [Contract!Next]_(Contract!vars)
  BY StepRefines DEF RowsInv
<1> QED BY <1>1 DEF RowsInv, TypeOK, Contract!Next, Contract!Accept, Contract!Succeed,
        Contract!Abandon, Contract!vars, Contract!Keys, Keys

\* The invariant is inductive.
LEMMA LaunchStep ==
  ASSUME RowsInv, LaunchInv, [Next]_vars
  PROVE  LaunchInv'
<1> SUFFICES ASSUME NEW k \in Keys
             PROVE  /\ status'[k] = "none" =>
                         worker'[k] = "none" /\ \A c \in Calls : ~Launching(c, k)'
                    /\ \A c \in Calls : Launching(c, k)' => worker'[k] = "none"
                    /\ \A c, d \in Calls : Launching(c, k)' /\ Launching(d, k)' => c = d
  BY DEF LaunchInv
<1>1. TypeOK /\ \A c \in Calls :
        Launching(c, k)' =>
          Launching(c, k) \/ (Admit(c) /\ call[c].key = k /\ status[k] = "none")
  BY LaunchingChanges DEF RowsInv
<1>2. ASSUME NEW c \in Calls, Admit(c), call[c].key = k
      PROVE  /\ status'[k] = "running" /\ worker' = worker
             /\ \A d \in Calls : d # c => call'[d] = call[d]
  BY <1>1, <1>2 DEF Admit, TypeOK
<1>3. status'[k] = "none" => status[k] = "none"
  BY RowsStay
<1>4. status'[k] = "none" => worker'[k] = "none" /\ \A c \in Calls : ~Launching(c, k)'
  BY <1>1, <1>2, <1>3, WorkerChanges DEF LaunchInv
<1>5. ASSUME NEW c \in Calls, Launching(c, k)' PROVE worker'[k] = "none"
  <2>1. CASE Launching(c, k)
    BY <1>1, <1>5, <2>1, WorkerChanges DEF LaunchInv
  <2>2. CASE Admit(c) /\ call[c].key = k /\ status[k] = "none"
    BY <1>2, <2>2 DEF LaunchInv
  <2> QED BY <1>1, <1>5, <2>1, <2>2
<1>6. ASSUME NEW c \in Calls, NEW d \in Calls, Launching(c, k)', Launching(d, k)'
      PROVE  c = d
  <2>1. CASE Launching(c, k) /\ Launching(d, k)
    BY <2>1 DEF LaunchInv
  <2>2. ASSUME NEW e \in Calls, NEW f \in Calls, Admit(e), call[e].key = k,
               status[k] = "none", Launching(f, k)'
        PROVE  f = e
    BY <1>2, <2>2 DEF LaunchInv, Launching
  <2> QED BY <1>1, <1>6, <2>1, <2>2
<1> QED BY <1>4, <1>5, <1>6

\* A key is launched once, however often it is posted, and never again after a
\* restart.
THEOREM LaunchCorrect == Spec => LaunchedOnce
<1>1. Init => LaunchInv
  BY DEF Init, LaunchInv, Launching, NoCall
<1>2. RowsInv /\ LaunchInv /\ [Next]_vars =>
        [\A k \in Keys : worker'[k] = "spawned" => worker[k] \in {"none", "spawned"}]_vars
  BY WorkerChanges DEF LaunchInv, RowsInv
<1> QED BY <1>1, <1>2, LaunchStep, RowsInductive, PTL DEF Spec, LaunchedOnce
-----------------------------------------------------------------------------
(* What is announced: the inductive invariant *)

NoneCompleted(s) == \A i \in DOMAIN s : s[i].type # "completed"

\* What is owed to the stream of a run that ended with status s.
Endings(s) ==
  {<<Completed(s)>>} \cup
  {<<Event(t), Completed(s)>> : t \in {"saved", "failed", "cancelled"}}

\* A run that has not ended is not announced; while its ending is owed, it is
\* not announced yet; once it is announced, the announcement is the row's.
Announcement(k) ==
  /\ status[k] \notin Ended => owed[k] = <<>>
  /\ status[k] \notin Ended \/ owed[k] # <<>> => NoneCompleted(stream[k])
  /\ owed[k] # <<>> => owed[k] \in Endings(status[k])
  /\ \A i \in DOMAIN stream[k] :
       stream[k][i].type = "completed" => stream[k][i].status = status[k]
  /\ \A i, j \in DOMAIN stream[k] :
       stream[k][i].type = "completed" /\ stream[k][j].type = "completed" => i = j

Built == {builds[v] : v \in DOMAIN builds}

\* build.saved, published or owed, has a version behind it.
SavedBacked(k) ==
  (\E i \in DOMAIN stream[k] : stream[k][i].type = "saved")
    \/ (owed[k] # <<>> /\ owed[k][1].type = "saved") => k \in Built

Announcements == \A k \in Keys : Announcement(k) /\ SavedBacked(k)

-----------------------------------------------------------------------------
(* What a step can do to the stream of a run *)

\* Nothing is published; at most, what was owed dies with the process.
Quiet(k) ==
  /\ stream'[k] = stream[k]
  /\ owed'[k] \in {owed[k], <<>>}
  /\ status[k] \in Ended => status'[k] = status[k]

\* An event is published that says nothing of the end.
Told(k) ==
  /\ \E t \in {"started", "progress"} : stream'[k] = Append(stream[k], Event(t))
  /\ owed'[k] = owed[k] /\ status'[k] = status[k]

\* The run ends, and its ending is owed.
Finished(k) ==
  /\ status[k] = "running" /\ status'[k] \in Ended
  /\ stream'[k] = stream[k]
  /\ owed'[k] \in Endings(status'[k])
  /\ owed'[k][1].type = "saved" => k \in Built'

\* The next event owed is published.
Published(k) ==
  /\ owed[k] # <<>>
  /\ stream'[k] = Append(stream[k], Head(owed[k]))
  /\ owed'[k] = Tail(owed[k])
  /\ status'[k] = status[k]

Move(k) == Quiet(k) \/ Told(k) \/ Finished(k) \/ Published(k)

\* The endings and their first events.
LEMMA EndingFacts ==
  ASSUME NEW s
  PROVE  /\ <<Completed(s)>> \in Endings(s)
         /\ <<Completed(s)>>[1].type # "saved"
         /\ \A t \in {"saved", "failed", "cancelled"} :
              /\ <<Event(t), Completed(s)>> \in Endings(s)
              /\ <<Event(t), Completed(s)>>[1].type = t
BY DEF Endings, Event, Completed

\* Rows that are taken over end, and owe an ending without build.saved.
LEMMA TakeoverMoves ==
  ASSUME TypeOK, NEW k \in Keys, UNCHANGED stream,
         RecoverInterrupted \/ ReclaimStale
  PROVE  Move(k)
<1>1. ASSUME NEW S \in SUBSET Running, MarkInterrupted(S)
      PROVE  status'[k] = IF k \in S THEN "interrupted" ELSE status[k]
  BY <1>1 DEF MarkInterrupted
<1>2. /\ <<Event("failed"), Completed("interrupted")>> \in Endings("interrupted")
      /\ <<Event("failed"), Completed("interrupted")>>[1].type # "saved"
      /\ <<Event("cancelled"), Completed("interrupted")>> \in Endings("interrupted")
      /\ <<Event("cancelled"), Completed("interrupted")>>[1].type # "saved"
  BY EndingFacts
<1>3. CASE RecoverInterrupted
  <2>1. status'[k] = IF k \in Running THEN "interrupted" ELSE status[k]
    BY <1>1, <1>3 DEF RecoverInterrupted
  <2>2. owed'[k] = IF k \in Running /\ stream[k] # <<>>
                   THEN <<Event("failed"), Completed("interrupted")>> ELSE owed[k]
    BY <1>3 DEF RecoverInterrupted
  <2>3. CASE k \in Running /\ stream[k] # <<>>
    BY <1>2, <2>1, <2>2, <2>3 DEF Move, Finished, Running, Ended
  <2>4. CASE ~(k \in Running /\ stream[k] # <<>>)
    BY <2>1, <2>2, <2>4 DEF Move, Quiet, Running, Ended
  <2> QED BY <2>3, <2>4
<1>4. CASE ReclaimStale
  <2>1. status'[k] = IF k \in Stale THEN "interrupted" ELSE status[k]
    BY <1>1, <1>4 DEF ReclaimStale, Stale
  <2>2. owed'[k] = IF k \in Stale
                   THEN <<Event("cancelled"), Completed("interrupted")>> ELSE owed[k]
    BY <1>4 DEF ReclaimStale
  <2>3. CASE k \in Stale
    BY <1>2, <2>1, <2>2, <2>3 DEF Move, Finished, Stale, Running, Ended
  <2>4. CASE k \notin Stale
    BY <2>1, <2>2, <2>4 DEF Move, Quiet
  <2> QED BY <2>3, <2>4
<1> QED BY <1>3, <1>4

\* A step of a call publishes run.started at most.
LEMMA CallMove ==
  ASSUME TypeOK, NEW k \in Keys, NEW c \in Calls,
         CallStep(c) \/ \E j \in Keys : Submit(c, j)
  PROVE  Move(k)
<1>1. CASE Reclaim(c)
  BY <1>1, TakeoverMoves DEF Reclaim, Move, Quiet, db
<1>2. CASE Admit(c)
  <2>1. status'[k] = status[k] \/ status[k] = "none"
    BY <1>2 DEF Admit, Admissible, TypeOK
  <2> QED BY <1>2, <2>1 DEF Admit, Move, Quiet, Ended
<1>3. CASE Announce(c)
  BY <1>3 DEF Announce, Move, Quiet, Told, TypeOK, db
<1>4. CASE Refuse(c) \/ Launch(c) \/ \E j \in Keys : Submit(c, j)
  BY <1>4 DEF Refuse, Launch, Submit, Move, Quiet, db
<1> QED BY <1>1, <1>2, <1>3, <1>4 DEF CallStep

\* A step of a goroutine publishes progress, or ends its run.
LEMMA WorkerMove ==
  ASSUME TypeOK, NEW k \in Keys, NEW j \in Keys,
         WorkerStep(j) \/ CancelStep(j) \/ Clock(j) \/ Publish(j)
  PROVE  Move(k)
<1>1. CASE Begin(j)
  BY <1>1 DEF Begin, Move, Quiet, Told, TypeOK, db
<1>2. ASSUME NEW s \in Ended, NEW e \in Endings(s), status[j] = "running",
             status' = [status EXCEPT ![j] = s], owed' = [owed EXCEPT ![j] = e],
             UNCHANGED stream, e[1].type = "saved" => j \in Built'
      PROVE  Move(k)
  <2>1. CASE k = j
    BY <1>2, <2>1 DEF Move, Finished, TypeOK
  <2>2. CASE k # j
    BY <1>2, <2>2 DEF Move, Quiet, TypeOK
  <2> QED BY <2>1, <2>2
<1>3. CASE CommitScreening(j)
  BY <1>2, <1>3, EndingFacts DEF CommitScreening, StillRunning, EndRun, Ended
<1>4. CASE CommitBuild(j)
  <2>1. j \in Built'
    <3>1. builds \in Seq(Keys) /\ builds' = Append(builds, j)
      BY <1>4 DEF CommitBuild, TypeOK
    <3>2. Len(builds) + 1 \in DOMAIN builds' /\ builds'[Len(builds) + 1] = j
      BY <3>1
    <3> QED BY <3>2 DEF Built
  <2> QED BY <1>2, <1>4, <2>1, EndingFacts DEF CommitBuild, StillRunning, EndRun, Ended
<1>5. CASE CommitProposal(j)
  BY <1>2, <1>5, EndingFacts DEF CommitProposal, StillRunning, EndRun, Ended
<1>6. CASE RecordFailure(j)
  <2>1. PICK t \in {"failed", "cancelled"}, s \in {"failed", "interrupted"} :
          /\ status' = [status EXCEPT ![j] = s]
          /\ owed' = [owed EXCEPT ![j] = <<Event(t), Completed(s)>>]
    <3>1. PICK end \in {[pc |-> "recordFailed", status |-> "failed", event |-> "failed"],
                        [pc |-> "recordInterrupted", status |-> "interrupted",
                         event |-> "cancelled"]} :
            /\ EndRun(j, end.status)
            /\ owed' = [owed EXCEPT ![j] = <<Event(end.event), Completed(end.status)>>]
      BY <1>6 DEF RecordFailure
    <3>2. end.event \in {"failed", "cancelled"} /\ end.status \in {"failed", "interrupted"}
      OBVIOUS
    <3> QED BY <3>1, <3>2 DEF EndRun
  <2>2. s \in Ended /\ status[j] = "running" /\ UNCHANGED stream
    BY <1>6 DEF RecordFailure, StillRunning, Ended
  <2> QED BY <1>2, <2>1, <2>2, EndingFacts
<1>7. CASE Publish(j)
  BY <1>7 DEF Publish, Move, Quiet, Published, TypeOK, db
<1>8. CASE AgentReturns(j) \/ Fenced(j) \/ CommitAborted(j) \/ Return(j)
            \/ CancelStep(j) \/ Clock(j)
  BY <1>8 DEF AgentReturns, Fenced, CommitAborted, Return, CancelStep, FlagCancel,
     CancelLocal, Clock, Expire, Deadline, Move, Quiet, db, mem
<1> QED BY <1>1, <1>3, <1>4, <1>5, <1>6, <1>7, <1>8 DEF WorkerStep, Commit

\* A step of the process takes over rows, or forgets what is owed.
LEMMA ProcessMove ==
  ASSUME TypeOK, NEW k \in Keys, ProcessStep
  PROVE  Move(k)
<1>1. CASE FinishStop \/ Boot \/ Listen
  BY <1>1, TakeoverMoves DEF FinishStop, Boot, Listen
<1>2. CASE Terminate \/ StopRuns
  BY <1>2 DEF Terminate, StopRuns, Move, Quiet, db, mem
<1>3. CASE Exit \/ Crash
  BY <1>3 DEF Exit, Crash, Vanish, Move, Quiet, db
<1> QED BY <1>1, <1>2, <1>3 DEF ProcessStep

\* Every step is one of the moves, for every run.
LEMMA StepMoves ==
  ASSUME TypeOK, [Next]_vars, NEW k \in Keys
  PROVE  Move(k)
<1>1. CASE UNCHANGED vars
  BY <1>1 DEF vars, db, mem, Move, Quiet
<1> QED BY <1>1, CallMove, WorkerMove, ProcessMove DEF Next

-----------------------------------------------------------------------------
(* The moves preserve the invariant *)

\* Appending an event: where the events of the longer stream come from.
LEMMA AppendEvents ==
  ASSUME NEW s \in Seq(Events), NEW e \in Events
  PROVE  /\ Append(s, e) \in Seq(Events)
         /\ DOMAIN Append(s, e) = DOMAIN s \cup {Len(s) + 1}
         /\ Len(s) + 1 \notin DOMAIN s
         /\ \A i \in DOMAIN s : Append(s, e)[i] = s[i]
         /\ Append(s, e)[Len(s) + 1] = e
OBVIOUS

\* An ending ends with run.completed, which carries its status.
LEMMA EndingShape ==
  ASSUME NEW s \in Statuses, NEW e \in Endings(s)
  PROVE  /\ Head(e) = e[1] /\ e # <<>>
         /\ e[1].type = "completed" => e[1].status = s /\ Tail(e) = <<>>
         /\ e[1].type # "completed" => Tail(e) = <<Completed(s)>>
<1>1. CASE e = <<Completed(s)>>
  BY <1>1 DEF Completed
<1>2. ASSUME NEW t \in {"saved", "failed", "cancelled"}, e = <<Event(t), Completed(s)>>
      PROVE  e[1].type # "completed" /\ Tail(e) = <<Completed(s)>> /\ Head(e) = e[1]
             /\ e # <<>>
  BY <1>2 DEF Event
<1> QED BY <1>1, <1>2 DEF Endings

\* The announcement stays right.
LEMMA AnnouncementStep ==
  ASSUME TypeOK, TypeOK', NEW k \in Keys, Announcement(k), Move(k)
  PROVE  Announcement(k)'
<1> USE DEF Announcement, NoneCompleted
<1>1. CASE Quiet(k)
  BY <1>1 DEF Quiet
<1>2. CASE Told(k)
  <2>1. PICK t \in {"started", "progress"} : stream'[k] = Append(stream[k], Event(t))
    BY <1>2 DEF Told
  <2>2. Event(t) \in Events /\ Event(t).type # "completed"
    BY EventsTyped DEF EventTypes, Event
  <2>3. stream[k] \in Seq(Events)
    BY DEF TypeOK
  <2>4. /\ DOMAIN stream'[k] = DOMAIN stream[k] \cup {Len(stream[k]) + 1}
        /\ \A i \in DOMAIN stream[k] : stream'[k][i] = stream[k][i]
        /\ stream'[k][Len(stream[k]) + 1].type # "completed"
    BY <2>1, <2>2, <2>3, AppendEvents
  <2> QED BY <1>2, <2>4 DEF Told
<1>3. CASE Finished(k)
  <2>1. NoneCompleted(stream[k])
    BY <1>3 DEF Finished, Ended
  <2>2. owed'[k] # <<>>
    BY <1>3, EndingShape DEF Finished, Statuses
  <2> QED BY <1>3, <2>1, <2>2 DEF Finished
<1>4. CASE Published(k)
  <2>1. /\ NoneCompleted(stream[k]) /\ owed[k] \in Endings(status[k])
        /\ status[k] \in Ended /\ status[k] \in Statuses
    BY <1>4 DEF Published, TypeOK
  <2> DEFINE e == owed[k][1]
  <2>2. /\ Head(owed[k]) = e
        /\ e.type = "completed" => e.status = status[k] /\ Tail(owed[k]) = <<>>
        /\ e.type # "completed" => Tail(owed[k]) = <<Completed(status[k])>>
    BY <2>1, EndingShape
  <2>3. stream[k] \in Seq(Events) /\ e \in Events
    BY <1>4 DEF TypeOK, Published
  <2>4. /\ DOMAIN stream'[k] = DOMAIN stream[k] \cup {Len(stream[k]) + 1}
        /\ Len(stream[k]) + 1 \notin DOMAIN stream[k]
        /\ \A i \in DOMAIN stream[k] : stream'[k][i] = stream[k][i]
        /\ stream'[k][Len(stream[k]) + 1] = e
    BY <1>4, <2>2, <2>3, AppendEvents DEF Published
  <2>5. CASE e.type = "completed"
    BY <1>4, <2>1, <2>2, <2>4, <2>5 DEF Published
  <2>6. CASE e.type # "completed"
    <3>1. owed'[k] \in Endings(status[k])
      BY <1>4, <2>2, <2>6 DEF Published, Endings
    <3> QED BY <1>4, <2>1, <2>4, <2>6, <3>1 DEF Published
  <2> QED BY <2>5, <2>6
<1> QED BY <1>1, <1>2, <1>3, <1>4 DEF Move

\* What is saved stays saved.
LEMMA BuiltGrows == ASSUME TypeOK, [Next]_vars PROVE Built \subseteq Built'
<1>1. ASSUME NEW j \in Keys, builds' = Append(builds, j) PROVE Built \subseteq Built'
  <2>1. \A v \in DOMAIN builds : v \in DOMAIN builds' /\ builds'[v] = builds[v]
    BY <1>1 DEF TypeOK
  <2> QED BY <2>1 DEF Built
<1>2. (\E j \in Keys : builds' = Append(builds, j)) \/ UNCHANGED builds
  BY DEF Next, vars, db, CallStep, Reclaim, ReclaimStale, MarkInterrupted, Admit, Refuse,
     Announce, Launch, Submit, WorkerStep, Begin, AgentReturns, Commit, CommitScreening,
     CommitBuild, CommitProposal, RecordFailure, Fenced, CommitAborted, Return, CancelStep,
     FlagCancel, CancelLocal, Clock, Expire, Deadline, Publish, ProcessStep, Terminate,
     StopRuns, FinishStop, RecoverInterrupted, Exit, Crash, Vanish, Boot, Listen
<1> QED BY <1>1, <1>2 DEF Built

\* build.saved keeps having a version behind it.
LEMMA SavedStep ==
  ASSUME TypeOK, NEW k \in Keys, Announcement(k), SavedBacked(k), Move(k),
         Built \subseteq Built'
  PROVE  SavedBacked(k)'
<1> USE DEF SavedBacked
<1>1. CASE Quiet(k)
  BY <1>1 DEF Quiet
<1>2. CASE Told(k)
  <2>1. PICK t \in {"started", "progress"} : stream'[k] = Append(stream[k], Event(t))
    BY <1>2 DEF Told
  <2>2. Event(t) \in Events /\ Event(t).type # "saved"
    BY EventsTyped DEF EventTypes, Event
  <2>3. stream[k] \in Seq(Events)
    BY DEF TypeOK
  <2>4. /\ DOMAIN stream'[k] = DOMAIN stream[k] \cup {Len(stream[k]) + 1}
        /\ \A i \in DOMAIN stream[k] : stream'[k][i] = stream[k][i]
        /\ stream'[k][Len(stream[k]) + 1].type # "saved"
    BY <2>1, <2>2, <2>3, AppendEvents
  <2> QED BY <1>2, <2>4 DEF Told
<1>3. CASE Finished(k)
  BY <1>3 DEF Finished
<1>4. CASE Published(k)
  <2>1. owed[k] \in Endings(status[k]) /\ status[k] \in Statuses
    BY <1>4 DEF Published, TypeOK, Announcement
  <2>2. /\ Head(owed[k]) = owed[k][1]
        /\ Tail(owed[k]) \in {<<>>, <<Completed(status[k])>>}
    BY <2>1, EndingShape
  <2>3. stream[k] \in Seq(Events) /\ owed[k][1] \in Events
    BY <1>4 DEF TypeOK, Published
  <2>4. /\ DOMAIN stream'[k] = DOMAIN stream[k] \cup {Len(stream[k]) + 1}
        /\ \A i \in DOMAIN stream[k] : stream'[k][i] = stream[k][i]
        /\ stream'[k][Len(stream[k]) + 1] = owed[k][1]
    BY <1>4, <2>2, <2>3, AppendEvents DEF Published
  <2>5. owed'[k] # <<>> => owed'[k][1].type # "saved"
    BY <1>4, <2>2, EndingFacts DEF Published
  <2> QED BY <1>4, <2>4, <2>5 DEF Published
<1> QED BY <1>1, <1>2, <1>3, <1>4 DEF Move

\* The invariant is inductive.
LEMMA AnnouncementsHold == Spec => [](TypeOK /\ Announcements)
<1>1. Init => Announcements
  BY DEF Init, Announcements, Announcement, NoneCompleted, SavedBacked, Ended
<1>2. TypeOK /\ Announcements /\ [Next]_vars => Announcements'
  <2> SUFFICES ASSUME TypeOK, Announcements, [Next]_vars, NEW k \in Keys
               PROVE  Announcement(k)' /\ SavedBacked(k)'
    BY DEF Announcements
  <2>1. TypeOK' /\ Move(k) /\ Announcement(k) /\ SavedBacked(k)
    BY TypeStep, StepMoves DEF Announcements
  <2> QED BY <2>1, AnnouncementStep, SavedStep, BuiltGrows
<1> QED BY <1>1, <1>2, TypeInit, TypeStep, PTL DEF Spec

-----------------------------------------------------------------------------
(* The theorems about the streams *)

\* Where an event of the log of a run is: published, or owed.
LEMMA LogEvents ==
  ASSUME NEW s \in Seq(Events), NEW o \in Seq(Events), NEW i \in DOMAIN (s \o o)
  PROVE  \/ i \in DOMAIN s /\ (s \o o)[i] = s[i]
         \/ i - Len(s) \in DOMAIN o /\ (s \o o)[i] = o[i - Len(s)]
OBVIOUS

\* The completions in an ending: one, at its end.
LEMMA EndingCompleted ==
  ASSUME NEW s \in Statuses, NEW e \in Endings(s)
  PROVE  \A i \in DOMAIN e : e[i].type = "completed" => e[i].status = s /\ i = Len(e)
<1>1. CASE e = <<Completed(s)>>
  <2>1. DOMAIN e = {1} /\ Len(e) = 1 /\ e[1] = Completed(s)
    BY <1>1
  <2> QED BY <2>1 DEF Completed
<1>2. ASSUME NEW t \in {"saved", "failed", "cancelled"}, e = <<Event(t), Completed(s)>>
      PROVE  \A i \in DOMAIN e : e[i].type = "completed" => e[i].status = s /\ i = Len(e)
  <2>1. DOMAIN e = {1, 2} /\ Len(e) = 2 /\ e[1] = Event(t) /\ e[2] = Completed(s)
    BY <1>2
  <2> QED BY <2>1 DEF Completed, Event
<1> QED BY <1>1, <1>2 DEF Endings

\* Whoever ends a run and however often others try, its completion is
\* announced at most once, with the status the row keeps.
LEMMA CompletionsCorrect ==
  TypeOK /\ Announcements => CompletedOnce /\ CompletedTellsTheRow
<1> SUFFICES ASSUME TypeOK, Announcements, NEW k \in Keys
             PROVE  /\ \A i, j \in DOMAIN Log(k) :
                         Log(k)[i].type = "completed" /\ Log(k)[j].type = "completed" => i = j
                    /\ \A i \in DOMAIN Log(k) : Log(k)[i].type = "completed" =>
                         status[k] \in Ended /\ Log(k)[i].status = status[k]
  BY DEF CompletedOnce, CompletedTellsTheRow
<1>1. /\ Announcement(k) /\ status[k] \in Statuses
      /\ stream[k] \in Seq(Events) /\ owed[k] \in Seq(Events)
  BY DEF Announcements, TypeOK
<1>2. CASE owed[k] = <<>>
  <2>1. Log(k) = stream[k]
    BY <1>1, <1>2 DEF Log
  <2> QED BY <1>1, <2>1 DEF Announcement, NoneCompleted
<1>3. CASE owed[k] # <<>>
  <2>1. NoneCompleted(stream[k]) /\ owed[k] \in Endings(status[k]) /\ status[k] \in Ended
    BY <1>1, <1>3 DEF Announcement
  <2>2. ASSUME NEW i \in DOMAIN Log(k), Log(k)[i].type = "completed"
        PROVE  i = Len(stream[k]) + Len(owed[k]) /\ Log(k)[i].status = status[k]
    <3>1. i - Len(stream[k]) \in DOMAIN owed[k] /\ Log(k)[i] = owed[k][i - Len(stream[k])]
      BY <1>1, <2>1, <2>2, LogEvents DEF Log, NoneCompleted
    <3>2. /\ i - Len(stream[k]) = Len(owed[k])
          /\ owed[k][i - Len(stream[k])].status = status[k]
      BY <1>1, <2>1, <2>2, <3>1, EndingCompleted
    <3>3. i \in Int /\ Len(stream[k]) \in Nat /\ Len(owed[k]) \in Nat
      BY <1>1 DEF Log
    <3>4. i = Len(stream[k]) + Len(owed[k])
      <4>1. \A a \in Int, b, c \in Nat : a - b = c => a = b + c
        OBVIOUS
      <4> QED BY <3>2, <3>3, <4>1, Zenon
    <3> QED BY <3>1, <3>2, <3>4, Zenon
  <2> QED BY <2>1, <2>2
<1> QED BY <1>2, <1>3

\* At most one run.completed for every run, in every interleaving of its
\* goroutine, cancellations, reclaims, shutdowns, crashes and restarts.
THEOREM CompletionIsUnique == Spec => []CompletedOnce
BY AnnouncementsHold, CompletionsCorrect, PTL

\* run.completed carries the status the row has for good.
THEOREM CompletionIsTrue == Spec => []CompletedTellsTheRow
BY AnnouncementsHold, CompletionsCorrect, PTL

\* Whoever reads build.saved can read the version.
THEOREM SavesAreCommitted == Spec => []SavedIsCommitted
<1>1. Announcements => SavedIsCommitted
  BY DEF Announcements, SavedBacked, Built, SavedIsCommitted
<1> QED BY <1>1, AnnouncementsHold, PTL
=============================================================================
