---------------------------- MODULE AccountClaims ----------------------------
(***************************************************************************)
(* Signing in (account.Service: Register, Login and finishLogin;           *)
(* store/accounts.go): the authentication service grants tokens, the       *)
(* account row is written, the anonymous owner of the browser is claimed   *)
(* for it, and a session token is stored.  The claim is one READ COMMITTED *)
(* transaction of several statements; what other transactions have not     *)
(* committed is invisible to it, and it waits for the rows they hold.      *)
(***************************************************************************)
EXTENDS Naturals, FiniteSets

CONSTANTS
  Users,    \* accounts of the authentication service
  Owners,   \* anonymous owners: the browsers' cookies
  Logins    \* sign-ins in flight

VARIABLES
  owns,     \* product_user_owners: the account of each owner, if any
  primary,  \* the owners with is_primary
  locked,   \* product_users rows: the sign-in whose transaction holds each
  login,    \* where each sign-in stands, its account and its cookie's owner
  tokens    \* the sign-ins whose session record is stored

claimVars == <<owns, primary, locked, login, tokens>>

Nobody == "nobody"

TypeOK ==
  /\ owns \in [Owners -> Users \cup {Nobody}]
  /\ primary \subseteq Owners
  /\ locked \in [Users -> Logins \cup {Nobody}]
  /\ login \in [Logins -> [pc : {"asked", "granted", "locked", "unowned", "decided", "inserted",
                                 "committed", "stored", "done", "failed", "refused"},
                           user : Users, owner : Owners, first : BOOLEAN]]
  /\ tokens \subseteq Logins

Init ==
  /\ owns = [o \in Owners |-> Nobody] /\ primary = {}
  /\ locked = [u \in Users |-> Nobody]
  /\ login \in [Logins -> [pc : {"asked"}, user : Users, owner : Owners, first : {FALSE}]]
  /\ tokens = {}

In(l, pc) == login[l].pc = pc
User(l)   == login[l].user
Owner(l)  == login[l].owner
Step(l, pc) == login' = [login EXCEPT ![l].pc = pc]

\* Uncommitted rows of product_user_owners.
Inserting(o) == {l \in Logins : In(l, "inserted") /\ Owner(l) = o}

\* The end of a transaction gives its account row back.
Unlock(l) == locked' = [locked EXCEPT ![User(l)] = IF @ = l THEN Nobody ELSE @]
Rollback(l, pc) == Unlock(l) /\ Step(l, pc) /\ UNCHANGED <<owns, primary, tokens>>

-----------------------------------------------------------------------------

\* Register and Login: the authentication service knows the account and grants
\* its tokens, or refuses them, does not answer or answers incompletely.
Grant(l) ==
  /\ In(l, "asked") /\ (Step(l, "granted") \/ Step(l, "failed"))
  /\ UNCHANGED <<owns, primary, locked, tokens>>

\* Mutant: ON CONFLICT DO NOTHING, which locks no row.
UpsertNothing(l) ==
  /\ In(l, "granted") /\ Step(l, "locked") /\ UNCHANGED <<owns, primary, locked, tokens>>

\* INSERT ... ON CONFLICT DO UPDATE: the account row is ours until we end.
Upsert(l) ==
  /\ In(l, "granted") /\ locked[User(l)] = Nobody
  /\ locked' = [locked EXCEPT ![User(l)] = l]
  /\ Step(l, "locked")
  /\ UNCHANGED <<owns, primary, tokens>>

\* The committed claim of the owner, if there is one.
CheckOwner(l) ==
  /\ In(l, "locked")
  /\ \/ owns[Owner(l)] = Nobody /\ Step(l, "unowned") /\ UNCHANGED <<owns, primary, locked, tokens>>
     \/ owns[Owner(l)] = User(l) /\ Unlock(l) /\ Step(l, "committed") /\ UNCHANGED <<owns, primary, tokens>>
     \/ owns[Owner(l)] \notin {Nobody, User(l)} /\ Rollback(l, "refused")

CheckPrimary(l) ==
  /\ In(l, "unowned")
  /\ login' = [login EXCEPT ![l].pc = "decided",
                            ![l].first = \A o \in primary : owns[o] # User(l)]
  /\ UNCHANGED <<owns, primary, locked, tokens>>

\* The unique indexes on owner_id and on the primary owner of an account: an
\* insert waits for a conflicting transaction and fails on a conflicting row.
Insert(l) ==
  /\ In(l, "decided")
  /\ Inserting(Owner(l)) = {}
  /\ login[l].first => \A m \in Logins : ~(In(m, "inserted") /\ User(m) = User(l) /\ login[m].first)
  /\ IF owns[Owner(l)] # Nobody \/ (login[l].first /\ \E o \in primary : owns[o] = User(l))
     THEN Rollback(l, "refused")
     ELSE Step(l, "inserted") /\ UNCHANGED <<owns, primary, locked, tokens>>

Commit(l) ==
  /\ In(l, "inserted")
  /\ owns' = [owns EXCEPT ![Owner(l)] = User(l)]
  /\ primary' = IF login[l].first THEN primary \cup {Owner(l)} ELSE primary
  /\ Unlock(l) /\ Step(l, "committed")
  /\ UNCHANGED tokens

\* The connection is lost, or the process dies, before the commit.
Abort(l) == login[l].pc \in {"locked", "unowned", "decided", "inserted"} /\ Rollback(l, "failed")

StoreToken(l) ==
  /\ In(l, "committed") /\ Step(l, "stored") /\ tokens' = tokens \cup {l}
  /\ UNCHANGED <<owns, primary, locked>>

\* The owners are read back; if that fails the record is deleted again.
ReadOwners(l) ==
  /\ In(l, "stored")
  /\ \/ Step(l, "done") /\ UNCHANGED tokens
     \/ Step(l, "failed") /\ tokens' = tokens \ {l}
  /\ UNCHANGED <<owns, primary, locked>>

Next ==
  \E l \in Logins :
    \/ Grant(l) \/ Upsert(l) \/ CheckOwner(l) \/ CheckPrimary(l) \/ Insert(l) \/ Commit(l)
    \/ Abort(l) \/ StoreToken(l) \/ ReadOwners(l)

Spec == Init /\ [][Next]_claimVars

-----------------------------------------------------------------------------
(* Properties *)

PrimaryOwners(u) == {o \in primary : owns[o] = u}

\* Whoever holds a session token has exactly one primary owner, without which
\* Resolve would drop the session (service.go:112), and owns the browser's
\* sessions.
SignedInHasPrimary ==
  \A l \in tokens : Cardinality(PrimaryOwners(User(l))) = 1 /\ owns[Owner(l)] = User(l)

\* A sign-in is refused only when another account has taken the owner: the
\* sign-ins of one account never trip over each other, since the upsert holds
\* the account row (accounts.go:37, :71).
RefusedOnlyIfTaken ==
  \A l \in Logins : In(l, "refused") => owns[Owner(l)] \notin {Nobody, User(l)}
=============================================================================
