----------------------------- MODULE SearchQuota -----------------------------
(***************************************************************************)
(* The searches of one month that are paid from one budget: those of the   *)
(* planning agent (internal/planning/web.go) and those of the price        *)
(* collector (scripts/data, serpapi_baidu.py).  Both read the provider's   *)
(* account first and keep a ledger in the database                         *)
(* (store/proposals.go), the agent after its search, the collector before  *)
(* each of its searches.                                                   *)
(*                                                                         *)
(* The provider counts a request at once and shows the count later.  The   *)
(* account request is itself billed (web.go:144); the ledger has no entry  *)
(* for it.  Keys, plans that are not free and what a search finds are left *)
(* out.                                                                    *)
(***************************************************************************)
EXTENDS Naturals, FiniteSets

CONSTANTS
  Searches,    \* searches of the agent
  Collectors,  \* batches of the collector
  BatchOf,     \* how many parts a batch searches for
  Budget,      \* SERPAPI_MONTHLY_REQUEST_BUDGET
  Plan         \* what the provider's plan allows

VARIABLES
  used,      \* what the provider has counted
  shown,     \* ... and what its account says
  reserved,  \* the row of search_quota, 0 if there is none
  search, batch,
  looked,    \* history: account requests counted by the provider
  missed     \* history: searches counted by the provider and never settled

quotaVars == <<used, shown, reserved, search, batch, looked, missed>>

Init ==
  /\ used \in 0 .. 1 /\ shown = used
  /\ reserved = 0 /\ looked = 0 /\ missed = 0
  /\ search = [s \in Searches |-> [pc |-> "idle", usage |-> 0]]
  /\ batch = [c \in Collectors |-> [pc |-> "idle", usage |-> 0, left |-> BatchOf]]

-----------------------------------------------------------------------------
(* The ledger *)

Larger(a, b) == IF a > b THEN a ELSE b

\* Mutant of Reserved: what the caller has read counts alone.
ReservedAsRead(usage) == usage + 1
\* One upsert, whoever calls it and however old the usage it was told is.
Reserved(usage) == Larger(reserved, usage) + 1
Reservable(usage) == Larger(reserved, usage) < Budget

Reserve(usage) == Reservable(usage) /\ reserved' = Reserved(usage)

CatchUp ==
  /\ shown # used /\ shown' = used
  /\ UNCHANGED <<used, reserved, search, batch, looked, missed>>

\* A request for the account.  A plan that is spent bills no more of them; the
\* usage told may be old or include the request itself.
Account(told) ==
  /\ used' = IF used < Plan THEN used + 1 ELSE used
  /\ looked' = looked + (used' - used)
  /\ told \in {shown, used'} /\ shown' = told
  /\ UNCHANGED <<reserved, missed>>

\* It fails or cannot be read; the provider may have counted it.
AccountFails ==
  /\ used' \in {used, used + 1} \cap 0 .. Plan
  /\ looked' = looked + (used' - used)
  /\ UNCHANGED <<shown, reserved, missed>>

-----------------------------------------------------------------------------
(* A search of the agent *)

Moved(s, pc) == search' = [search EXCEPT ![s].pc = pc]

\* Of the budget one request is set aside and of the plan two (web.go:144-145).
Ask(s) ==
  /\ search[s].pc = "idle"
  /\ \E told \in 0 .. Plan :
       /\ Account(told)
       /\ search' = [search EXCEPT ![s] = [pc |-> IF told + 1 < Budget /\ told + 2 <= Plan
                                                  THEN "allowed" ELSE "refused",
                                           usage |-> told]]
  /\ UNCHANGED batch

AskFails(s) ==
  /\ search[s].pc = "idle"
  /\ AccountFails /\ Moved(s, "refused")
  /\ UNCHANGED batch

Query(s) ==
  /\ search[s].pc = "allowed"
  /\ used < Plan
  /\ used' = used + 1 /\ Moved(s, "answered")
  /\ UNCHANGED <<shown, reserved, batch, looked, missed>>

\* The answer is an error or does not come; the provider may have counted it.
QueryFails(s) ==
  /\ search[s].pc = "allowed"
  /\ used' \in {used, used + 1} \cap 0 .. Plan
  /\ missed' = missed + (used' - used)
  /\ Moved(s, "failed")
  /\ UNCHANGED <<shown, reserved, batch, looked>>

Settle(s) ==
  /\ search[s].pc = "answered"
  /\ Reserve(search[s].usage) /\ Moved(s, "settled")
  /\ UNCHANGED <<used, shown, batch, looked, missed>>

\* The budget is spent or the database does not answer, which is logged, or
\* the process ends.
SettleFails(s) ==
  /\ search[s].pc = "answered"
  /\ missed' = missed + 1 /\ Moved(s, "unsettled")
  /\ UNCHANGED <<used, shown, reserved, batch, looked>>

-----------------------------------------------------------------------------
(* A batch of the collector *)

\* The account is read once for the batch, and its request is not set aside.
Open(c) ==
  /\ batch[c].pc = "idle"
  /\ \E told \in 0 .. Plan :
       /\ Account(told)
       /\ batch' = [batch EXCEPT ![c].pc = IF told + BatchOf <= Budget /\ told + BatchOf <= Plan
                                           THEN "open" ELSE "stopped",
                                 ![c].usage = told]
  /\ UNCHANGED search

OpenFails(c) ==
  /\ batch[c].pc = "idle"
  /\ AccountFails /\ batch' = [batch EXCEPT ![c].pc = "stopped"]
  /\ UNCHANGED search

ReserveNext(c) ==
  /\ batch[c].pc = "open"
  /\ Reserve(batch[c].usage)
  /\ batch' = [batch EXCEPT ![c].pc = "reserved"]
  /\ UNCHANGED <<used, shown, search, looked, missed>>

\* searchquota fails, or ran and did not say so in time.
ReserveFails(c) ==
  /\ batch[c].pc = "open"
  /\ reserved' = reserved \/ Reserve(batch[c].usage)
  /\ batch' = [batch EXCEPT ![c].pc = "stopped"]
  /\ UNCHANGED <<used, shown, search, looked, missed>>

Fetch(c) ==
  /\ batch[c].pc = "reserved" /\ used < Plan
  /\ used' = used + 1
  /\ batch' = [batch EXCEPT ![c].left = @ - 1, ![c].pc = IF batch[c].left > 1 THEN "open" ELSE "done"]
  /\ UNCHANGED <<shown, reserved, search, looked, missed>>

FetchFails(c) ==
  /\ batch[c].pc = "reserved"
  /\ used' \in {used, used + 1} \cap 0 .. Plan
  /\ batch' = [batch EXCEPT ![c].pc = "stopped"]
  /\ UNCHANGED <<shown, reserved, search, looked, missed>>

-----------------------------------------------------------------------------
Next ==
  \/ CatchUp
  \/ \E s \in Searches :
       \/ Ask(s) \/ AskFails(s) \/ Query(s) \/ QueryFails(s)
       \/ Settle(s) \/ SettleFails(s)
  \/ \E c \in Collectors :
       \/ Open(c) \/ OpenFails(c)
       \/ ReserveNext(c) \/ ReserveFails(c) \/ Fetch(c) \/ FetchFails(c)

Spec == Init /\ [][Next]_quotaVars

-----------------------------------------------------------------------------
\* The ledger never passes the budget, and from its first entry it stands for
\* every search the provider counted except those never settled, however old
\* the usage is that it is told and in whatever order searches are settled
\* (store/proposals.go:24-30).  Account requests are billed as well
\* (web.go:144) and have no entry: of what is used they come on top.
LedgerCoversUse ==
  /\ reserved <= Budget
  /\ reserved > 0 =>
       used <= looked + reserved + missed
                 + Cardinality({s \in Searches : search[s].pc = "answered"})

\* The provider never counts more searches than the budget of the month, its
\* account requests aside (docs/tech on planning, line 89; store/proposals.go:24-25).
SearchesWithinBudget == used <= Budget + looked
=============================================================================
