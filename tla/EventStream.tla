----------------------------- MODULE EventStream -----------------------------
(***************************************************************************)
(* The events of one run (internal/runevents): the goroutine that publishes *)
(* them, the memory or Redis store that keeps some of them, the handler    *)
(* that streams them (producthttp/sse.go), and the browsers that follow    *)
(* the stream, lose their connection and come back with Last-Event-ID.     *)
(*                                                                         *)
(* An event is its position in the history of the run: the counter behind  *)
(* "mem-%d", or the order of the identifiers Redis assigns.                *)
(***************************************************************************)
EXTENDS Naturals, Sequences, FiniteSets, SequencesExt

CONSTANTS
  Clients,   \* the browsers that follow the run
  Limit,     \* memoryEventLimit
  Batch,     \* the most events one XREAD returns
  MaxLog,    \* bound: progress events are published up to this length
  MaxDrops,  \* bound: lost connections, reloads
  MaxFaults  \* bound: failed appends, restarts, expiries

VARIABLES
  backend,   \* the store main() chose: "memory" or "redis"
  log,       \* the events that were appended: "progress", "failed", "completed"
  kept,      \* the positions the store still holds
  present,   \* the store has an entry (a key) for the run
  row,       \* agent_runs.status: running or ended
  writer,    \* the goroutine of the run: running, closing, done, booting or gone
  client,    \* where each browser stands, and the status its handler read
  heard,     \* the positions each browser received, in order
  drops, faults

store   == <<backend, log, kept, present>>
vars    == <<store, row, writer, client, heard, drops, faults>>

None == 0
Idle == [pc |-> "idle", saw |-> "running"]

Init ==
  /\ backend \in {"memory", "redis"}
  /\ log = <<>> /\ kept = {} /\ present = FALSE
  /\ row = "running" /\ writer = "running"
  /\ client = [c \in Clients |-> Idle]
  /\ heard = [c \in Clients |-> <<>>]
  /\ drops = 0 /\ faults = 0

-----------------------------------------------------------------------------
(* The stores *)

\* MemoryStore.Append trims the slice to its newest Limit events.
KeepNewest(S) == {p \in S : Cardinality({q \in S : q > p}) < Limit}

Put(types) ==
  /\ log' = log \o types
  /\ LET all == kept \cup (Len(log) + 1)..(Len(log) + Len(types))
     IN kept' = IF backend = "memory" THEN KeepNewest(all) ELSE all
  /\ present' = TRUE
  /\ UNCHANGED backend

\* Mutants: the event of the cursor is sent again; an unknown cursor gets nothing.
InclusiveAfter(S, cursor) == {p \in S : p >= cursor}
KnownAfter(S, cursor) ==
  IF cursor \in S \/ cursor = None THEN {p \in S : p > cursor} ELSE {}

\* eventsAfter, and XRANGE with an exclusive start.  A cursor the memory store
\* has dropped is not found, and everything the store holds is returned.
EventsAfter(S, cursor) ==
  IF backend = "memory" /\ cursor \notin S THEN S ELSE {p \in S : p > cursor}

\* The positions of S in their order.
InOrder(S) == [i \in 1..Cardinality(S) |-> CHOOSE p \in S : Cardinality({q \in S : q < p}) = i - 1]

\* Mutant: a full batch takes the newest events.
LastOf(s) == SubSeq(s, Len(s) - Batch + 1, Len(s))

\* The most one XREAD returns.
FirstOf(s) == SubSeq(s, 1, Batch)

Cursor(c) == IF heard[c] = <<>> THEN None ELSE Last(heard[c])

\* Store.History and Store.Wait
History(c) == InOrder(EventsAfter(kept, Cursor(c)))
Waited(c)  == IF backend = "redis" /\ Len(History(c)) > Batch THEN FirstOf(History(c)) ELSE History(c)

-----------------------------------------------------------------------------
(* The run *)

Progress ==
  /\ writer = "running" /\ Len(log) < MaxLog
  /\ Put(<<"progress">>)
  /\ UNCHANGED <<row, writer, client, heard, drops, faults>>

\* The transaction that ends the run commits before anything is announced.
EndRow ==
  /\ writer = "running"
  /\ row' = "ended" /\ writer' = "closing"
  /\ UNCHANGED <<store, client, heard, drops, faults>>

Announce ==
  /\ writer = "closing" /\ writer' = "done"
  /\ Put(<<"completed">>)
  /\ UNCHANGED <<row, client, heard, drops, faults>>

\* publish only logs the error of an append.
AnnounceFails ==
  /\ writer = "closing" /\ writer' = "done"
  /\ backend = "redis" /\ faults < MaxFaults /\ faults' = faults + 1
  /\ UNCHANGED <<store, row, client, heard, drops>>

\* The goroutine of a run that was ended under it publishes once more.
Late ==
  /\ writer = "done" /\ log # <<>> /\ Last(log) = "completed"
  /\ Put(<<"progress">>)
  /\ UNCHANGED <<row, writer, client, heard, drops, faults>>

Cut(c) == IF client[c].pc = "over" THEN client[c] ELSE Idle

\* The process dies: every connection is cut and the memory store is gone.
Restart ==
  /\ writer # "booting" /\ faults < MaxFaults /\ faults' = faults + 1
  /\ writer' = "booting"
  /\ client' = [c \in Clients |-> Cut(c)]
  /\ IF backend = "memory" THEN kept' = {} /\ present' = FALSE ELSE UNCHANGED <<kept, present>>
  /\ UNCHANGED <<backend, log, row, heard, drops>>

\* RecoverInterrupted, before the server listens.
Boot ==
  /\ writer = "booting" /\ writer' = "gone" /\ row' = "ended"
  /\ IF row = "running" /\ present THEN Put(<<"failed", "completed">>) ELSE UNCHANGED store
  /\ UNCHANGED <<client, heard, drops, faults>>

\* The key of a run that is over reaches its TTL.  Connected browsers have
\* long read what it held: the TTL is 24 hours.
Expire ==
  /\ backend = "redis" /\ writer \in {"done", "gone"} /\ present /\ writer' = "gone"
  /\ faults < MaxFaults /\ faults' = faults + 1
  /\ \A c \in Clients : client[c].pc # "waiting" \/ History(c) = <<>>
  /\ kept' = {} /\ present' = FALSE
  /\ UNCHANGED <<backend, log, row, client, heard, drops>>

-----------------------------------------------------------------------------
(* A browser and the handler that serves it *)

\* ownerForRun: the row the handler decides on is read before the events.
Connect(c) ==
  /\ client[c].pc = "idle" /\ writer # "booting"
  /\ client' = [client EXCEPT ![c] = [pc |-> "admitted", saw |-> row]]
  /\ UNCHANGED <<store, row, writer, heard, drops, faults>>

\* writeEvents: all of the events reach the browser, or the connection breaks
\* after some of them.  A browser that has heard the run complete stops.
Deliver(c, events) ==
  \E n \in 0..Len(events) :
    LET got == SubSeq(events, 1, n)
        end == \E i \in DOMAIN got : log[got[i]] = "completed"
    IN /\ heard' = [heard EXCEPT ![c] = @ \o got]
       /\ n < Len(events) => drops < MaxDrops
       /\ drops' = IF n < Len(events) THEN drops + 1 ELSE drops
       /\ client' = [client EXCEPT ![c] =
            IF end THEN [@ EXCEPT !.pc = "over"]
            ELSE IF n < Len(events) \/ (events = <<>> /\ @.saw # "running") THEN Idle
            ELSE [@ EXCEPT !.pc = "waiting"]]

Replay(c) ==
  /\ client[c].pc = "admitted" /\ present
  /\ Deliver(c, History(c))
  /\ UNCHANGED <<store, row, writer, faults>>

\* 410 events_expired: the browser turns to polling the run.
Expired(c) ==
  /\ client[c].pc = "admitted" /\ ~present
  /\ client' = [client EXCEPT ![c].pc = "over"]
  /\ UNCHANGED <<store, row, writer, heard, drops, faults>>

\* Wait returns events; while there are none it returns for a heartbeat.
Stream(c) ==
  /\ client[c].pc = "waiting" /\ History(c) # <<>>
  /\ Deliver(c, Waited(c))
  /\ UNCHANGED <<store, row, writer, faults>>

Drop(c) ==
  /\ client[c].pc \in {"admitted", "waiting"} /\ drops < MaxDrops /\ drops' = drops + 1
  /\ client' = [client EXCEPT ![c] = Idle]
  /\ UNCHANGED <<store, row, writer, heard, faults>>

\* The page is loaded again: a cursor lives in the memory of the page.
Reload(c) ==
  /\ drops < MaxDrops /\ drops' = drops + 1 /\ row = "running"
  /\ client' = [client EXCEPT ![c] = Idle]
  /\ heard' = [heard EXCEPT ![c] = <<>>]
  /\ UNCHANGED <<store, row, writer, faults>>

-----------------------------------------------------------------------------

Publishing == Progress \/ EndRow \/ Announce \/ AnnounceFails \/ Late \/ Boot
Faulting   == Restart \/ Expire
Serve(c)   == Connect(c) \/ Replay(c) \/ Expired(c) \/ Stream(c)

Next ==
  \/ Publishing \/ Faulting
  \/ \E c \in Clients : Serve(c) \/ Drop(c) \/ Reload(c)

Spec == Init /\ [][Next]_vars

\* The API runs, and a browser reconnects for as long as its page is open
\* (useRunStream); connections may break and the process may die.
Fairness ==
  /\ WF_vars(EndRow) /\ WF_vars(Announce \/ AnnounceFails) /\ WF_vars(Boot)
  /\ \A c \in Clients : WF_vars(Serve(c))

FairSpec == Spec /\ Fairness

-----------------------------------------------------------------------------
(* Properties *)

\* Following is what EventFeed says: whatever connections break, processes
\* restart or events the memory store drops, a browser hears events in the
\* order they were published and never the same one twice (sse.go, eventsAfter).
Feed == INSTANCE EventFeed
  WITH over <- {c \in Clients : client[c].pc = "over"}
ImplementsFeed == Feed!Spec

\* A browser that was given an event has been given every earlier one, but for
\* those the store no longer holds (memory.go:38, XREAD in batches).
SkipsOnlyTheLost ==
  \A c \in Clients : \A p \in 1..Cursor(c) :
    (\E i \in DOMAIN heard[c] : heard[c][i] = p) \/ p \notin kept

Announced == \E i \in DOMAIN log : log[i] = "completed"

\* Once the run is announced complete, every page that follows it is let go.
FollowersAreLetGo ==
  \A c \in Clients : Announced ~> client[c].pc = "over"
=============================================================================
