------------------------------- MODULE Sharing -------------------------------
(***************************************************************************)
(* Shares of immutable build versions (internal/sharing, store/shares.go): *)
(* creating one under an idempotency key, revoking it by identifier or by  *)
(* token, and the public page, which looks the share up and then reads the *)
(* build.  A token is derived from the owner, the version and the key.     *)
(***************************************************************************)
EXTENDS Naturals, FiniteSets

CONSTANTS
  Versions,   \* build versions of one session
  Keys,       \* idempotency keys of create calls
  Creates,    \* create calls in flight
  Readers     \* public readers in flight

VARIABLES
  shares,   \* build_shares: live or revoked, by version and key
  create,   \* where each create call stands
  reader    \* where each public reader stands

shareVars == <<shares, create, reader>>

None  == "none"
Token == Versions \X Keys

TypeOK ==
  /\ shares \in [Token -> {None, "live", "revoked"}]
  /\ create \in [Creates -> [pc : {"idle", "locked", "created", "existing", "rejected"},
                             token : Token, owner : BOOLEAN, saw : {None, "live", "revoked"}]]
  /\ reader \in [Readers -> [pc : {"idle", "found", "served", "missing"}, token : Token]]

Init ==
  /\ shares = [t \in Token |-> None]
  /\ create \in [Creates -> [pc : {"idle"}, token : Token, owner : BOOLEAN, saw : {None}]]
  /\ reader \in [Readers -> [pc : {"idle"}, token : Token]]

\* The build row is locked FOR UPDATE by one create at a time; a caller who
\* does not own the session finds no row.
LockBuild(c) ==
  /\ create[c].pc = "idle"
  /\ \A d \in Creates : create[d].pc = "locked" => create[d].token[1] # create[c].token[1]
  /\ create' = [create EXCEPT ![c].pc = IF create[c].owner THEN "locked" ELSE "rejected",
                              ![c].saw = shares[create[c].token]]
  /\ UNCHANGED <<shares, reader>>

\* Mutant: the existing row is made live again.
Reopened(state) == "live"

\* An existing row of the key is returned as it is, revoked or not.
Returned(state) == IF state = None THEN "live" ELSE state

Finish(c) ==
  /\ create[c].pc = "locked"
  /\ shares' = [shares EXCEPT ![create[c].token] = Returned(@)]
  /\ create' = [create EXCEPT ![c].pc = IF shares[create[c].token] = None THEN "created" ELSE "existing"]
  /\ UNCHANGED reader

\* RevokeBuildShareByID, RevokeBuildShareByToken: a second time changes nothing.
Revoke(t) ==
  /\ shares[t] = "live"
  /\ shares' = [shares EXCEPT ![t] = "revoked"]
  /\ UNCHANGED <<create, reader>>

\* Public: only a share that is not revoked is found.
Lookup(r) ==
  /\ reader[r].pc = "idle"
  /\ reader' = [reader EXCEPT ![r].pc = IF shares[reader[r].token] = "live" THEN "found" ELSE "missing"]
  /\ UNCHANGED <<shares, create>>

Present(r) ==
  /\ reader[r].pc = "found"
  /\ reader' = [reader EXCEPT ![r].pc = "served"]
  /\ UNCHANGED <<shares, create>>

Next ==
  \/ \E c \in Creates : LockBuild(c) \/ Finish(c)
  \/ \E t \in Token : Revoke(t)
  \/ \E r \in Readers : Lookup(r) \/ Present(r)

Spec == Init /\ [][Next]_shareVars

-----------------------------------------------------------------------------
(* Properties *)

\* Of the create calls of one key one creates the share and the others are
\* given it; posting the key again does not undo a revocation
\* (store/shares.go:47, :67).
CreatedOnceRevokedForGood ==
  /\ \A c, d \in Creates :
       create[c].pc = "created" /\ create[d].pc = "created" /\ create[c].token = create[d].token => c = d
  /\ \A c \in Creates : create[c].saw = "revoked" => shares[create[c].token] = "revoked"
=============================================================================
