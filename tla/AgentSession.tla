---------------------------- MODULE AgentSession ----------------------------
(***************************************************************************)
(* The ADK session of an agent, kept in Redis (internal/redisstore).  A    *)
(* session is one key that holds its state and events; the states of the   *)
(* application and of the user are keys of their own.  Every call reads    *)
(* and writes whole keys, one Redis command after the other, without a     *)
(* transaction: each command is a step that may fail, a write may take     *)
(* effect although its caller is told it failed, and a key may expire      *)
(* between any two of them.                                                *)
(*                                                                         *)
(* An event is its number; the entries it adds to a state are that number, *)
(* so a state is a set of numbers.  Creation is event 0 of a session.      *)
(***************************************************************************)
EXTENDS Naturals, FiniteSets, Sequences, SequencesExt

CONSTANTS
  Agents,     \* concurrent callers of the service, all on one session
  Layers,     \* the sets of layers an event may write
  MaxEvents,  \* bound: events issued
  MaxBreaks   \* bound: failed commands, expired keys and deletions

VARIABLES
  store,      \* the Redis keys: session, app, user
  agent,      \* where each caller stands, and the session object it holds
  issued,     \* the layers each event issued so far writes
  acked,      \* events whose AppendEvent returned without an error
  overlapped, \* two calls that write were under way at the same time
  breaks

sessionVars == <<store, agent, issued, acked, overlapped, breaks>>

None    == [none |-> TRUE]
Scopes  == {"app", "user"}
Event   == 1..MaxEvents
Created == 0

Blank == [pc |-> "idle", event |-> Created, loaded |-> None, read |-> {}, held |-> None]

Init ==
  /\ store = [session |-> None, app |-> {}, user |-> {}]
  /\ agent = [a \in Agents |-> Blank]
  /\ issued = <<>> /\ acked = {} /\ overlapped = FALSE /\ breaks = 0

\* Where a call stands that reads, or writes, the state of a scope.
Getting == [app |-> "get app", user |-> "get user"]
Setting == [app |-> "set app", user |-> "set user"]

Writes(a, layer) == agent[a].event # Created /\ layer \in issued[agent[a].event]

\* The commands after a step: the layers an event writes, then the session.
AfterLoad(a) ==
  CASE Writes(a, "app") -> "get app" [] ~Writes(a, "app") /\ Writes(a, "user") -> "get user"
    [] OTHER -> "set session"
AfterApp(a) == IF Writes(a, "user") THEN "get user" ELSE "set session"

Writing(a) == agent[a].pc \notin {"idle", "get"}
Enter(a)   == overlapped' = (overlapped \/ \E b \in Agents \ {a} : Writing(b))

-----------------------------------------------------------------------------
(* Creating *)

\* Create refuses a session that exists.
Create(a) ==
  /\ agent[a].pc = "idle" /\ store.session = None
  /\ agent' = [agent EXCEPT ![a].pc = "create", ![a].event = Created]
  /\ Enter(a) /\ UNCHANGED <<store, issued, acked, breaks>>

\* It then reads the two states, which are not changed here, and stores the session.
StoreNew(a) ==
  /\ agent[a].pc = "create"
  /\ store' = [store EXCEPT !.session = [state |-> {Created}, events |-> <<>>]]
  /\ agent' = [agent EXCEPT ![a] = [Blank EXCEPT !.held = [state |-> {Created}, events |-> <<>>]]]
  /\ acked' = {}
  /\ UNCHANGED <<issued, overlapped, breaks>>

-----------------------------------------------------------------------------
(* Reading *)

\* filterEvents: the events from a time on, and of those the latest.
Filtered(events, from, latest) ==
  LET kept == SelectSeq(events, LAMBDA e : e >= from)
  IN  IF latest > 0 /\ Len(kept) > latest THEN SubSeq(kept, Len(kept) - latest + 1, Len(kept)) ELSE kept

\* Get reads the session, then the states of the application and the user.
Get(a) ==
  /\ agent[a].pc = "idle" /\ store.session # None
  /\ \E from \in {0, 2}, latest \in {0, 1} :
       agent' = [agent EXCEPT ![a].held =
         [state |-> store.session.state, events |-> Filtered(store.session.events, from, latest)]]
  /\ UNCHANGED <<store, issued, acked, overlapped, breaks>>

-----------------------------------------------------------------------------
(* Appending *)

\* A partial event is not stored at all.  Entries of one turn ("temp") are cut off.
AppendPartial(a) == agent[a].pc = "idle" /\ agent[a].held # None /\ UNCHANGED sessionVars

AppendEvent(a) ==
  /\ agent[a].pc = "idle" /\ agent[a].held # None /\ Len(issued) < MaxEvents
  /\ \E ls \in Layers :
       /\ issued' = Append(issued, ls \ {"temp"})
       /\ agent' = [agent EXCEPT ![a].pc = "load", ![a].event = Len(issued) + 1]
  /\ Enter(a) /\ UNCHANGED <<store, acked, breaks>>

\* Mutant: the session object the caller holds is taken for the stored one.
HeldOf(a) == agent[a].held

LoadedOf(a) == store.session

Load(a) ==
  /\ agent[a].pc = "load"
  /\ agent' = IF store.session = None
              THEN [agent EXCEPT ![a] = [Blank EXCEPT !.held = agent[a].held]]
              ELSE [agent EXCEPT ![a].pc = AfterLoad(a), ![a].loaded = LoadedOf(a)]
  /\ UNCHANGED <<store, issued, acked, overlapped, breaks>>

GetScope(a, scope) ==
  /\ agent[a].pc = Getting[scope]
  /\ agent' = [agent EXCEPT ![a].pc = Setting[scope], ![a].read = store[scope]]
  /\ UNCHANGED <<store, issued, acked, overlapped, breaks>>

SetScope(a, scope) ==
  /\ agent[a].pc = Setting[scope]
  /\ store' = [store EXCEPT ![scope] = agent[a].read \cup {agent[a].event}]
  /\ agent' = [agent EXCEPT ![a].pc = IF scope = "app" THEN AfterApp(a) ELSE "set session"]
  /\ UNCHANGED <<issued, acked, overlapped, breaks>>

\* The session with the event and its entries, as it is stored.
WithEvent(session, a) ==
  [state  |-> session.state \cup {agent[a].event : l \in issued[agent[a].event] \cap {"session"}},
   events |-> Append(session.events, agent[a].event)]

\* The caller's object takes the event and the entries of the session, and
\* none of the application's or the user's.
StoreSession(a) ==
  /\ agent[a].pc = "set session"
  /\ store' = [store EXCEPT !.session = WithEvent(agent[a].loaded, a)]
  /\ acked' = acked \cup {agent[a].event}
  /\ agent' = [agent EXCEPT ![a] = [Blank EXCEPT !.held = WithEvent(agent[a].held, a)]]
  /\ UNCHANGED <<issued, overlapped, breaks>>

-----------------------------------------------------------------------------
(* What can break *)

Break == breaks < MaxBreaks /\ breaks' = breaks + 1

\* The effect a write of a caller would have.
Written(a) ==
  CASE agent[a].pc = "create" -> [store EXCEPT !.session = [state |-> {Created}, events |-> <<>>]]
    [] agent[a].pc = "set app" -> [store EXCEPT !.app = agent[a].read \cup {agent[a].event}]
    [] agent[a].pc = "set user" -> [store EXCEPT !.user = agent[a].read \cup {agent[a].event}]
    [] agent[a].pc = "set session" -> [store EXCEPT !.session = WithEvent(agent[a].loaded, a)]
    [] OTHER -> store

\* A command fails, or its answer is lost: the call returns an error.
CommandFails(a) ==
  /\ agent[a].pc # "idle" /\ Break
  /\ store' \in {store, Written(a)}
  /\ acked' = IF agent[a].pc = "create" /\ store' # store THEN {} ELSE acked
  /\ agent' = [agent EXCEPT ![a] = [Blank EXCEPT !.held = agent[a].held]]
  /\ UNCHANGED <<issued, overlapped>>

\* Keys have their own times to live; Delete removes the session alone.
Expire(key) ==
  /\ Break /\ store' = [store EXCEPT ![key] = IF key = "session" THEN None ELSE {}]
  /\ UNCHANGED <<agent, issued, acked, overlapped>>

Next ==
  \/ \E a \in Agents : \/ Create(a) \/ StoreNew(a) \/ Get(a)
                       \/ AppendPartial(a) \/ AppendEvent(a) \/ Load(a) \/ StoreSession(a)
                       \/ \E scope \in Scopes : GetScope(a, scope) \/ SetScope(a, scope)
                       \/ CommandFails(a)
  \/ \E key \in DOMAIN store : Expire(key)

Spec == Init /\ [][Next]_sessionVars

-----------------------------------------------------------------------------
(* Properties *)

\* As long as calls that write do not overlap, an event whose append was
\* acknowledged is in the stored session, in the order of the calls, whoever
\* appended before (service.go:311), whichever part of the history the caller
\* had asked for, and although commands fail half way.  Overlapping calls
\* overwrite each other; the product runs one turn of a session at a time.
AcknowledgedSurvive ==
  ~overlapped /\ store.session # None =>
    /\ acked \subseteq ToSet(store.session.events)
    /\ \A i, j \in DOMAIN store.session.events :
         i < j => store.session.events[i] < store.session.events[j]
=============================================================================
