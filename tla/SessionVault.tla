---------------------------- MODULE SessionVault ----------------------------
(***************************************************************************)
(* The token record of one signed-in browser (internal/account): requests  *)
(* that resolve the session and refresh its tokens under a Redis lock,     *)
(* password changes that replace the record, and signing out.              *)
(*                                                                         *)
(* A record is known by its version and by the write that produced it; the *)
(* write stands for the tokens the record holds.  A refresh, which calls   *)
(* the authentication service, and each Redis command are steps.           *)
(***************************************************************************)
EXTENDS Naturals, FiniteSets

CONSTANTS
  Requests,    \* HTTP requests that carry the session cookie
  MaxWrites,   \* bound: records written
  MaxAging,    \* bound: times the stored access token nears its expiry
  MaxExpiries  \* bound: times the refresh lock runs out while it is held

VARIABLES
  record,    \* the record under the session key
  lock,      \* the request whose value the refresh lock holds
  lost,      \* requests whose lock expired while they held it
  req,       \* where each request stands, the record it read and was served
  writes, aging, expiries

vaultVars == <<record, lock, lost, req, writes, aging, expiries>>

NoRecord == [version |-> 0, write |-> 0, fresh |-> FALSE]
Free     == "free"
Records  == [version : 0..MaxWrites, write : 0..MaxWrites, fresh : BOOLEAN]
Outcomes == {"served", "expired", "unavailable", "dead"}
Steps    == {"idle", "stale", "waiting", "refreshing", "storing", "reading", "releasing"}

TypeOK ==
  /\ record \in Records
  /\ lock \in Requests \cup {Free} /\ lost \subseteq Requests
  /\ req \in [Requests -> [pc : Steps \cup Outcomes, read : Records, got : Records]]
  /\ writes \in 0..MaxWrites /\ aging \in 0..MaxAging /\ expiries \in 0..MaxExpiries

\* finishLogin has stored the first record of the session.
Init ==
  /\ record = [version |-> 1, write |-> 1, fresh |-> TRUE]
  /\ lock = Free /\ lost = {}
  /\ req = [r \in Requests |-> [pc |-> "idle", read |-> NoRecord, got |-> NoRecord]]
  /\ writes = 1 /\ aging = 0 /\ expiries = 0

At(r, pc)  == req[r].pc = pc
Goto(r, pc) == req' = [req EXCEPT ![r].pc = pc]

-----------------------------------------------------------------------------

\* SessionVault.Put increments the version of the record it is given.
Put(version) ==
  /\ writes < MaxWrites /\ writes' = writes + 1
  /\ record' = [version |-> version + 1, write |-> writes + 1, fresh |-> TRUE]

\* Service.Resolve: a record that is not about to expire is served as it is.
Resolve(r) ==
  /\ At(r, "idle")
  /\ req' = [req EXCEPT ![r] =
       [pc   |-> IF record = NoRecord THEN "expired" ELSE IF record.fresh THEN "served" ELSE "stale",
        read |-> record, got |-> record]]
  /\ UNCHANGED <<record, lock, lost, writes, aging, expiries>>

\* SetNX on the refresh lock.
Lock(r) ==
  /\ At(r, "stale")
  /\ lock' = IF lock = Free THEN r ELSE lock
  /\ Goto(r, IF lock = Free THEN "refreshing" ELSE "waiting")
  /\ UNCHANGED <<record, lost, writes, aging, expiries>>

\* A waiter polls for a version above the one it read.
NewVersion(r) == record # NoRecord /\ record.version > req[r].read.version

Poll(r) ==
  /\ At(r, "waiting") /\ NewVersion(r)
  /\ req' = [req EXCEPT ![r].pc = "served", ![r].got = record]
  /\ UNCHANGED <<record, lock, lost, writes, aging, expiries>>

GiveUp(r) ==
  /\ At(r, "waiting") /\ Goto(r, "unavailable")
  /\ UNCHANGED <<record, lock, lost, writes, aging, expiries>>

\* The authentication service answers the refresh, or fails it.
Refresh(r) ==
  /\ At(r, "refreshing")
  /\ \/ Goto(r, "storing")
     \/ req' = [req EXCEPT ![r].pc = "releasing", ![r].got = NoRecord]
  /\ UNCHANGED <<record, lock, lost, writes, aging, expiries>>

Store(r) ==
  /\ At(r, "storing") /\ Put(req[r].read.version) /\ Goto(r, "reading")
  /\ UNCHANGED <<lock, lost, aging, expiries>>

\* RefreshLocked answers with what the key holds after its own Put.
Reread(r) ==
  /\ At(r, "reading")
  /\ req' = [req EXCEPT ![r].pc = "releasing", ![r].got = record]
  /\ UNCHANGED <<record, lock, lost, writes, aging, expiries>>

\* Mutant: the lock is deleted whoever holds it.
DeleteLock(r) == Free

\* The script deletes the lock only if it still holds the caller's value.
ReleaseLock(r) == IF lock = r THEN Free ELSE lock

Release(r) ==
  /\ At(r, "releasing")
  /\ lock' = ReleaseLock(r)
  /\ Goto(r, IF req[r].got = NoRecord THEN "unavailable" ELSE "served")
  /\ UNCHANGED <<record, lost, writes, aging, expiries>>

\* The process dies with a lock in hand; the lock stays until it expires.
Die(r) ==
  /\ req[r].pc \in {"refreshing", "storing"} /\ Goto(r, "dead")
  /\ UNCHANGED <<record, lock, lost, writes, aging, expiries>>

ExpireLock ==
  /\ lock # Free /\ expiries < MaxExpiries /\ expiries' = expiries + 1
  /\ lost' = lost \cup {lock} /\ lock' = Free
  /\ UNCHANGED <<record, req, writes, aging>>

Age ==
  /\ record.fresh /\ aging < MaxAging /\ aging' = aging + 1
  /\ record' = [record EXCEPT !.fresh = FALSE]
  /\ UNCHANGED <<lock, lost, req, writes, expiries>>

\* ChangePassword stores the tokens of a new grant, as a first version.
ChangePassword == Put(0) /\ UNCHANGED <<lock, lost, req, aging, expiries>>

Logout ==
  /\ record # NoRecord /\ record' = NoRecord
  /\ UNCHANGED <<lock, lost, req, writes, aging, expiries>>

Serve(r) ==
  Resolve(r) \/ Lock(r) \/ Poll(r) \/ GiveUp(r) \/ Refresh(r) \/ Store(r) \/ Reread(r) \/ Release(r)

Next ==
  \/ \E r \in Requests : Serve(r) \/ Die(r)
  \/ ExpireLock \/ Age \/ ChangePassword \/ Logout

Spec == Init /\ [][Next]_vaultVars

-----------------------------------------------------------------------------
(* Properties *)

\* While its lock lasts, a request refreshes alone: two requests refresh at
\* the same time only if one of them outlived its lock (session.go:123).
OneRefreshAtATime ==
  \A q, r \in Requests :
    {req[q].pc, req[r].pc} \subseteq {"refreshing", "storing", "reading"} =>
      q = r \/ q \in lost \/ r \in lost

\* A request that found its tokens about to expire is served with tokens that
\* were stored after it looked, by itself or by another (session.go:145, :170).
ServedAfterRefresh ==
  \A r \in Requests :
    At(r, "served") /\ ~req[r].read.fresh => req[r].got.write > req[r].read.write

\* Requests do not reuse refresh tokens (session.go:124): a request refreshes
\* the newest record there is, unless its lock ran out.
RefreshesTheNewest ==
  \A r \in Requests :
    At(r, "refreshing") /\ record # NoRecord /\ r \notin lost =>
      record.version <= req[r].read.version
=============================================================================
