---------------------------- MODULE AccountProofs ----------------------------
(***************************************************************************)
(* Proofs about the services of an account, which MCServices follows one   *)
(* at a time: keyed calls, the tokens of a session, sign-ins, shares and   *)
(* remembered preferences; and that the stream of a run's events, with its *)
(* stores, handler and browsers (EventStream), is the feed EventFeed       *)
(* promises.                                                               *)
(***************************************************************************)
EXTENDS MCServices, FiniteSetTheorems, SequenceTheorems, TLAPS

-----------------------------------------------------------------------------
(* Keyed calls (IdempotentCall) *)

\* The calls of a key behave as IdempotentCall says, whatever is followed.
LEMMA KeyFollowed == Spec => Key!Spec
<1>1. Init => Key!Init
  BY DEF Init
<1>2. [Next]_vars => [Key!Next]_(Key!keyVars)
  BY DEF Next, vars, key, Key!keyVars
<1> QED
  BY <1>1, <1>2, PTL DEF Spec, Key!Spec

\* A call that runs its operation holds the lock or has lost it.
HoldsOrLost ==
  \A c \in Calls : call[c].pc \in {"running", "storing"} => holder = c \/ c \in late

\* A record stands for an operation that took effect for its body.
RecordStands ==
  kept # Key!NoRecord => kept.result \in ran /\ kept.body = call[kept.result].body

\* An answer is that of such an operation.
AnswerStands(c) ==
  /\ call[c].pc = "storing" => c \in ran
  /\ call[c].pc = "answered" => call[c].answer # Key!Nobody
  /\ call[c].answer # Key!Nobody =>
       call[c].answer \in ran /\ call[call[c].answer].body = call[c].body

KeyInv ==
  /\ Key!TypeOK /\ HoldsOrLost /\ RecordStands
  /\ \A c \in Calls : AnswerStands(c)

LEMMA KeyInitially == Key!Init => KeyInv
  BY KeyAssumption
  DEF KeyAssumption, Key!Init, KeyInv, Key!TypeOK, HoldsOrLost, RecordStands, AnswerStands,
      Key!NoRecord, Key!Nobody, Key!Finished

LEMMA KeyTyped == ASSUME Key!TypeOK, Key!Next PROVE Key!TypeOK'
<1> USE KeyAssumption DEF KeyAssumption, Key!TypeOK, Key!Finished, Key!Nobody, Key!NoRecord
<1>1. ASSUME NEW c \in Calls, Key!Read(c) \/ Key!Poll(c) PROVE Key!TypeOK'
  BY <1>1 DEF Key!Read, Key!Poll, Key!Found, Key!Move, Key!Standing, Key!SameBody
<1>2. ASSUME NEW c \in Calls, Key!Lock(c) \/ Key!GiveUp(c) PROVE Key!TypeOK'
  BY <1>2 DEF Key!Lock, Key!GiveUp, Key!Move
<1>3. ASSUME NEW c \in Calls, Key!Run(c) PROVE Key!TypeOK'
  BY <1>3 DEF Key!Run, Key!Move
<1>4. ASSUME NEW c \in Calls, Key!Store(c) PROVE Key!TypeOK'
  BY <1>4 DEF Key!Store, Key!Move, Key!Mishap
<1>5. ASSUME NEW c \in Calls, Key!Release(c) PROVE Key!TypeOK'
  BY <1>5 DEF Key!Release, Key!Move, Key!Unlocked
<1>6. ASSUME Key!ExpireHold \/ Key!ExpireRecord PROVE Key!TypeOK'
  BY <1>6 DEF Key!ExpireHold, Key!ExpireRecord, Key!Mishap
<1> QED
  BY <1>1, <1>2, <1>3, <1>4, <1>5, <1>6 DEF Key!Next

LEMMA KeyInductive == ASSUME KeyInv, [Key!Next]_(Key!keyVars) PROVE KeyInv'
<1> USE KeyAssumption DEF KeyAssumption, Key!TypeOK, Key!Finished, Key!Nobody, Key!NoRecord, KeyInv
<1>0. CASE UNCHANGED Key!keyVars
  BY <1>0 DEF Key!keyVars, HoldsOrLost, RecordStands, AnswerStands
<1> SUFFICES ASSUME Key!Next PROVE KeyInv'
  BY <1>0
<1>1. Key!TypeOK'
  BY KeyTyped
<1> USE <1>1 DEF HoldsOrLost, RecordStands, AnswerStands
<1>2. ASSUME NEW c \in Calls, Key!Read(c) \/ Key!Poll(c) PROVE KeyInv'
  BY <1>2 DEF Key!Read, Key!Poll, Key!Found, Key!Move, Key!Standing, Key!SameBody
<1>3. ASSUME NEW c \in Calls, Key!Lock(c) PROVE KeyInv'
  BY <1>3 DEF Key!Lock, Key!Move, Key!Standing
<1>4. ASSUME NEW c \in Calls, Key!GiveUp(c) PROVE KeyInv'
  BY <1>4 DEF Key!GiveUp, Key!Move, Key!Standing
<1>5. ASSUME NEW c \in Calls, Key!Run(c) PROVE KeyInv'
  BY <1>5 DEF Key!Run, Key!Move, Key!Standing
<1>6. ASSUME NEW c \in Calls, Key!Store(c) PROVE KeyInv'
  BY <1>6 DEF Key!Store, Key!Move, Key!Standing
<1>7. ASSUME NEW c \in Calls, Key!Release(c) PROVE KeyInv'
  BY <1>7 DEF Key!Release, Key!Move, Key!Standing, Key!Unlocked
<1>8. CASE Key!ExpireHold
  BY <1>8 DEF Key!ExpireHold
<1>9. CASE Key!ExpireRecord
  BY <1>9 DEF Key!ExpireRecord
<1> QED
  BY <1>2, <1>3, <1>4, <1>5, <1>6, <1>7, <1>8, <1>9 DEF Key!Next

LEMMA KeyInvariant == Spec => []KeyInv
<1> QED
  BY KeyFollowed, KeyInitially, KeyInductive, PTL DEF Key!Spec

\* The operation of a key runs for one call at a time unless a lock runs out
\* (session.go:218-241).
THEOREM KeyedCallsTakeTurns == Spec => []RunsOneAtATime
<1>1. KeyInv => RunsOneAtATime
  BY KeyAssumption DEF KeyAssumption, KeyInv, HoldsOrLost, RunsOneAtATime, Key!RunsOneAtATime
<1> QED
  BY <1>1, KeyInvariant, PTL

\* A call is answered with the result of an operation that took effect for the
\* very body it carries, its own or that of an earlier call
\* (session.go:207-217).
THEOREM KeyedCallsAnswerTheirBody == Spec => []Key!AnswersOwnBody
<1>1. KeyInv => Key!AnswersOwnBody
  BY DEF KeyInv, AnswerStands, Key!AnswersOwnBody, Key!Standing
<1> QED
  BY <1>1, KeyInvariant, PTL

-----------------------------------------------------------------------------
(* The tokens of a session (SessionVault) *)

LEMMA VaultFollowed == Spec => Vault!Spec
<1>1. Init => Vault!Init
  BY DEF Init
<1>2. [Next]_vars => [Vault!Next]_(Vault!vaultVars)
  BY DEF Next, vars, vault, Vault!vaultVars
<1> QED
  BY <1>1, <1>2, PTL DEF Spec, Vault!Spec

Entry == [version : Nat, write : Nat, fresh : BOOLEAN]

\* Types without the bound on versions, which follows from Counted.
VaultShape ==
  /\ record \in Entry
  /\ lock \in Requests \cup {Vault!Free} /\ lost \subseteq Requests
  /\ req \in [Requests -> [pc : Vault!Steps \cup Vault!Outcomes, read : Entry, got : Entry]]
  /\ writes \in 0..MaxWrites /\ aging \in 0..MaxAging /\ expiries \in 0..MaxExpiries

\* A record has been written, and its version counts writes.
Counted(entry) == entry.version <= entry.write /\ entry.write <= writes

\* A request that refreshes holds the lock or has lost it.
RefreshesLocked ==
  \A r \in Requests :
    req[r].pc \in {"refreshing", "storing", "reading"} => lock = r \/ r \in lost

\* The record under the key is the last one written, and one that was read and
\* is the same write is the same version.
RecordIsNewest == Counted(record) /\ (record # Vault!NoRecord => record.write = writes)

ReadBefore(r) ==
  /\ Counted(req[r].read) /\ Counted(req[r].got)
  /\ record # Vault!NoRecord /\ record.write = req[r].read.write =>
       record.version = req[r].read.version

\* What a request is about to be served with was written after it looked.
ServesNewer(r) ==
  /\ req[r].pc = "reading" => req[r].read.write < writes
  /\ req[r].pc = "releasing" /\ req[r].got # Vault!NoRecord => req[r].read.write < req[r].got.write
  /\ req[r].pc = "served" /\ ~req[r].read.fresh => req[r].read.write < req[r].got.write

VaultInv ==
  /\ VaultShape /\ RefreshesLocked /\ RecordIsNewest
  /\ \A r \in Requests : ReadBefore(r) /\ ServesNewer(r)

LEMMA VaultInitially == Vault!Init => VaultInv
  BY VaultAssumption
  DEF VaultAssumption, Vault!Init, VaultInv, VaultShape, Entry, Counted, RefreshesLocked, RecordIsNewest,
      ReadBefore, ServesNewer, Vault!NoRecord, Vault!Free, Vault!Outcomes, Vault!Steps

LEMMA NoRecordIsEntry == Vault!NoRecord \in Entry
  BY DEF Vault!NoRecord, Entry

LEMMA VaultShaped == ASSUME VaultShape, Vault!Next PROVE VaultShape'
<1> USE VaultAssumption, NoRecordIsEntry
    DEF VaultAssumption, VaultShape, Vault!Outcomes, Vault!Steps, Vault!Goto
<1>1. ASSUME NEW r \in Requests, Vault!Serve(r) \/ Vault!Die(r) PROVE VaultShape'
  <2>1. CASE Vault!Resolve(r)
    BY <2>1 DEF Vault!Resolve
  <2>2. CASE Vault!Lock(r) \/ Vault!Release(r)
    BY <2>2 DEF Vault!Lock, Vault!Release, Vault!ReleaseLock
  <2>3. CASE Vault!Poll(r) \/ Vault!Reread(r)
    BY <2>3 DEF Vault!Poll, Vault!Reread
  <2>4. CASE Vault!GiveUp(r) \/ Vault!Die(r)
    BY <2>4 DEF Vault!GiveUp, Vault!Die
  <2>5. CASE Vault!Refresh(r)
    BY <2>5 DEF Vault!Refresh
  <2>6. CASE Vault!Store(r)
    <3>1. record' \in Entry
      BY <2>6 DEF Vault!Store, Vault!Put, Entry
    <3> QED
      BY <2>6, <3>1 DEF Vault!Store, Vault!Put
  <2> QED
    BY <1>1, <2>1, <2>2, <2>3, <2>4, <2>5, <2>6 DEF Vault!Serve
<1>2. CASE Vault!ExpireLock
  BY <1>2 DEF Vault!ExpireLock
<1>3. CASE Vault!Age
  <2>1. record' \in Entry
    BY <1>3 DEF Vault!Age, Entry
  <2> QED
    BY <1>3, <2>1 DEF Vault!Age
<1>4. CASE Vault!ChangePassword
  <2>1. record' \in Entry
    BY <1>4 DEF Vault!ChangePassword, Vault!Put, Entry
  <2> QED
    BY <1>4, <2>1 DEF Vault!ChangePassword, Vault!Put
<1>5. CASE Vault!Logout
  BY <1>5 DEF Vault!Logout
<1> QED
  BY <1>1, <1>2, <1>3, <1>4, <1>5 DEF Vault!Next

LEMMA VaultInductive == ASSUME VaultInv, [Vault!Next]_(Vault!vaultVars) PROVE VaultInv'
<1>0. CASE UNCHANGED Vault!vaultVars
  BY <1>0 DEF Vault!vaultVars, VaultInv, VaultShape, Counted, RefreshesLocked, RecordIsNewest, ReadBefore,
              ServesNewer
<1> SUFFICES ASSUME Vault!Next PROVE VaultInv'
  BY <1>0
<1>t. VaultShape'
  BY VaultShaped DEF VaultInv
<1> USE <1>t, VaultAssumption
    DEF VaultAssumption, VaultInv, VaultShape, Entry, Counted, RefreshesLocked,
        RecordIsNewest, ReadBefore, ServesNewer, Vault!At, Vault!Goto
<1>1. ASSUME NEW r \in Requests, Vault!Resolve(r) PROVE VaultInv'
  BY <1>1 DEF Vault!Resolve
<1>2. ASSUME NEW r \in Requests, Vault!Lock(r) PROVE VaultInv'
  BY <1>2 DEF Vault!Lock, Vault!Free
<1>3. ASSUME NEW r \in Requests, Vault!Poll(r) PROVE VaultInv'
  BY <1>3 DEF Vault!Poll, Vault!NewVersion
<1>4. ASSUME NEW r \in Requests, Vault!GiveUp(r) \/ Vault!Die(r) PROVE VaultInv'
  <2>1. \A q \in Requests :
          /\ req'[q].read = req[q].read /\ req'[q].got = req[q].got
          /\ req'[q].pc \in {req[q].pc, "unavailable", "dead"}
    BY <1>4 DEF Vault!GiveUp, Vault!Die
  <2>2. UNCHANGED <<record, lock, lost, writes>>
    BY <1>4 DEF Vault!GiveUp, Vault!Die
  <2> QED
    BY <2>1, <2>2
<1>5. ASSUME NEW r \in Requests, Vault!Refresh(r) PROVE VaultInv'
  <2>1. \A q \in Requests :
          /\ req'[q].read = req[q].read
          /\ \/ req'[q].got = req[q].got /\ req'[q].pc = req[q].pc
             \/ q = r /\ req'[q].got = req[q].got /\ req'[q].pc = "storing"
             \/ q = r /\ req'[q].got = Vault!NoRecord /\ req'[q].pc = "releasing"
    BY <1>5, NoRecordIsEntry DEF Vault!Refresh
  <2>2. UNCHANGED <<record, lock, lost, writes>> /\ req[r].pc = "refreshing"
    BY <1>5 DEF Vault!Refresh
  <2>3. Counted(Vault!NoRecord)
    BY DEF Vault!NoRecord
  <2>4. RefreshesLocked' /\ RecordIsNewest'
    BY <2>1, <2>2
  <2>5. ASSUME NEW q \in Requests PROVE ReadBefore(q)' /\ ServesNewer(q)'
    BY <2>1, <2>2, <2>3
  <2> QED
    BY <2>4, <2>5
<1>6. ASSUME NEW r \in Requests, Vault!Store(r) PROVE VaultInv'
  BY <1>6 DEF Vault!Store, Vault!Put, Vault!NoRecord
<1>7. ASSUME NEW r \in Requests, Vault!Reread(r) PROVE VaultInv'
  BY <1>7 DEF Vault!Reread
<1>8. ASSUME NEW r \in Requests, Vault!Release(r) PROVE VaultInv'
  BY <1>8 DEF Vault!Release, Vault!ReleaseLock, Vault!Free
<1>9. CASE Vault!ExpireLock
  BY <1>9 DEF Vault!ExpireLock, Vault!Free
<1>10. CASE Vault!Age
  <2>1. record'.write = record.write /\ record'.version = record.version /\ record # Vault!NoRecord
    BY <1>10 DEF Vault!Age, Vault!NoRecord
  <2>2. UNCHANGED <<lock, lost, req, writes>>
    BY <1>10 DEF Vault!Age
  <2> QED
    BY <2>1, <2>2
<1>11. CASE Vault!ChangePassword
  BY <1>11 DEF Vault!ChangePassword, Vault!Put, Vault!NoRecord
<1>12. CASE Vault!Logout
  BY <1>12 DEF Vault!Logout, Vault!NoRecord
<1> QED
  BY <1>1, <1>2, <1>3, <1>4, <1>5, <1>6, <1>7, <1>8, <1>9, <1>10, <1>11, <1>12
  DEF Vault!Next, Vault!Serve

LEMMA VaultInvariant == Spec => []VaultInv
<1> QED
  BY VaultFollowed, VaultInitially, VaultInductive, PTL DEF Vault!Spec

\* Every variable keeps its type: in particular no version passes the number of
\* records written (session.go, SessionVault.Put).
THEOREM VaultTypeCorrect == Spec => []Vault!TypeOK
<1>1. ASSUME VaultInv PROVE Vault!TypeOK
  <2>1. ASSUME NEW e \in Entry, Counted(e) PROVE e \in Vault!Records
    BY <1>1, <2>1, VaultAssumption DEF VaultAssumption, VaultInv, VaultShape, Entry, Counted, Vault!Records
  <2> QED
    BY <1>1, <2>1 DEF VaultInv, VaultShape, RecordIsNewest, ReadBefore, Vault!TypeOK
<1> QED
  BY <1>1, VaultInvariant, PTL

\* While its lock lasts, a request refreshes a session's token alone
\* (session.go:123).
THEOREM RefreshesTakeTurns == Spec => []OneRefreshAtATime
<1>1. VaultInv => OneRefreshAtATime
  BY VaultAssumption
  DEF VaultAssumption, VaultInv, VaultShape, RefreshesLocked, OneRefreshAtATime, Vault!OneRefreshAtATime
<1> QED
  BY <1>1, VaultInvariant, PTL

\* A request that found its tokens about to expire is served with tokens that
\* were stored after it looked, whatever is changed, forgotten or refreshed by
\* others meanwhile (session.go:145, :170).
THEOREM StaleTokensAreReplaced == Spec => []Vault!ServedAfterRefresh
<1>1. VaultInv => Vault!ServedAfterRefresh
  BY VaultAssumption
  DEF VaultAssumption, VaultInv, VaultShape, Entry, ServesNewer, Vault!ServedAfterRefresh, Vault!At
<1> QED
  BY <1>1, VaultInvariant, PTL

-----------------------------------------------------------------------------
(* Signing in (AccountClaims) *)

LEMMA ClaimsFollowed == Spec => Claims!Spec
<1>1. Init => Claims!Init
  BY DEF Init
<1>2. [Next]_vars => [Claims!Next]_(Claims!claimVars)
  BY DEF Next, vars, claims, Claims!claimVars
<1> QED
  BY <1>1, <1>2, PTL DEF Spec, Claims!Spec

\* A transaction under way holds the row of its account.
HoldsAccount ==
  \A l \in Logins :
    login[l].pc \in {"locked", "unowned", "decided", "inserted"} => locked[login[l].user] = l

\* What a transaction has found out about the owner and the account still holds.
OwnerFree(l) ==
  /\ login[l].pc \in {"unowned", "decided"} => owns[login[l].owner] # login[l].user
  /\ login[l].pc = "inserted" => owns[login[l].owner] = Claims!Nobody

FirstIsRight(l) ==
  login[l].pc \in {"decided", "inserted"} =>
    (login[l].first <=> \A o \in primary : owns[o] # login[l].user)

\* Two inserts of one owner do not both wait for their commit.
OneInserts ==
  \A l, m \in Logins :
    login[l].pc = "inserted" /\ login[m].pc = "inserted" /\ login[l].owner = login[m].owner => l = m

\* An account with owners has one of them as its primary owner.
OnePrimary ==
  /\ \A o \in primary : owns[o] # Claims!Nobody
  /\ \A o, p \in primary : owns[o] = owns[p] => o = p
  /\ \A o \in Owners : owns[o] # Claims!Nobody => \E p \in primary : owns[p] = owns[o]

\* A sign-in that is through owns its cookie's owner, and one that was refused
\* found it taken.
Settled(l) ==
  /\ login[l].pc \in {"committed", "stored", "done"} => owns[login[l].owner] = login[l].user
  /\ l \in tokens => login[l].pc \in {"stored", "done"}
  /\ login[l].pc = "refused" => owns[login[l].owner] \notin {Claims!Nobody, login[l].user}

ClaimsInv ==
  /\ Claims!TypeOK /\ HoldsAccount /\ OneInserts /\ OnePrimary
  /\ \A l \in Logins : OwnerFree(l) /\ FirstIsRight(l) /\ Settled(l)

LEMMA ClaimsInitially == Claims!Init => ClaimsInv
  BY ClaimAssumption
  DEF ClaimAssumption, Claims!Init, ClaimsInv, Claims!TypeOK, Claims!Nobody, HoldsAccount, OneInserts,
      OnePrimary, OwnerFree, FirstIsRight, Settled

\* What a step does to one sign-in, whatever the step is.
LEMMA ClaimsMoved ==
  ASSUME Claims!TypeOK, NEW l \in Logins, NEW pc, Claims!Step(l, pc)
  PROVE  \A m \in Logins :
           /\ login'[m].user = login[m].user /\ login'[m].owner = login[m].owner
           /\ login'[m].first = login[m].first
           /\ login'[m].pc = IF m = l THEN pc ELSE login[m].pc
  BY DEF Claims!TypeOK, Claims!Step

LEMMA ClaimsTyped == ASSUME Claims!TypeOK, Claims!Next PROVE Claims!TypeOK'
<1> PICK l \in Logins :
      \/ Claims!Grant(l) \/ Claims!Upsert(l) \/ Claims!CheckOwner(l) \/ Claims!CheckPrimary(l)
      \/ Claims!Insert(l) \/ Claims!Commit(l) \/ Claims!Abort(l) \/ Claims!StoreToken(l)
      \/ Claims!ReadOwners(l)
  BY DEF Claims!Next
<1> USE DEF Claims!TypeOK, Claims!Step, Claims!Rollback, Claims!Unlock, Claims!User, Claims!Owner
<1>1. CASE Claims!Grant(l) \/ Claims!Upsert(l)
  BY <1>1 DEF Claims!Grant, Claims!Upsert
<1>2. CASE Claims!CheckOwner(l)
  BY <1>2 DEF Claims!CheckOwner
<1>3. CASE Claims!CheckPrimary(l)
  <2> DEFINE first == \A o \in primary : owns[o] # login[l].user
  <2>1. first \in BOOLEAN
    OBVIOUS
  <2>2. login' = [login EXCEPT ![l].pc = "decided", ![l].first = first]
    BY <1>3 DEF Claims!CheckPrimary
  <2>3. UNCHANGED <<owns, primary, locked, tokens>>
    BY <1>3 DEF Claims!CheckPrimary
  <2> HIDE DEF first
  <2> QED
    BY <2>1, <2>2, <2>3
<1>4. CASE Claims!Insert(l)
  BY <1>4 DEF Claims!Insert
<1>5. CASE Claims!Commit(l)
  BY <1>5 DEF Claims!Commit
<1>6. CASE Claims!Abort(l)
  BY <1>6 DEF Claims!Abort
<1>7. CASE Claims!StoreToken(l) \/ Claims!ReadOwners(l)
  BY <1>7 DEF Claims!StoreToken, Claims!ReadOwners
<1> QED
  BY <1>1, <1>2, <1>3, <1>4, <1>5, <1>6, <1>7

\* The end of a transaction that changed nothing.
LEMMA ClaimsRolledBack ==
  ASSUME ClaimsInv, Claims!TypeOK', NEW l \in Logins, NEW pc \in {"failed", "refused"},
         login[l].pc \in {"locked", "unowned", "decided", "inserted"},
         pc = "refused" => owns[login[l].owner] \notin {Claims!Nobody, login[l].user},
         Claims!Rollback(l, pc)
  PROVE  ClaimsInv'
<1> USE DEF ClaimsInv, HoldsAccount, OwnerFree, FirstIsRight, OneInserts, OnePrimary, Settled
<1>1. \A m \in Logins :
        /\ login'[m].user = login[m].user /\ login'[m].owner = login[m].owner
        /\ login'[m].first = login[m].first
        /\ login'[m].pc = IF m = l THEN pc ELSE login[m].pc
  BY ClaimsMoved DEF Claims!Rollback
<1>2. UNCHANGED <<owns, primary, tokens>>
  BY DEF Claims!Rollback
<1>3. \A m \in Logins : m # l /\ locked[login[m].user] = m => locked'[login[m].user] = m
  BY DEF Claims!Rollback, Claims!Unlock, Claims!User, Claims!TypeOK
<1>4. HoldsAccount'
  BY <1>1, <1>3
<1>5. OneInserts' /\ OnePrimary'
  BY <1>1, <1>2
<1>6. ASSUME NEW m \in Logins PROVE OwnerFree(m)' /\ FirstIsRight(m)' /\ Settled(m)'
  BY <1>1, <1>2, <1>6
<1> QED
  BY <1>4, <1>5, <1>6

LEMMA ClaimsInductive == ASSUME ClaimsInv, [Claims!Next]_(Claims!claimVars) PROVE ClaimsInv'
<1> USE ClaimAssumption
    DEF ClaimAssumption, ClaimsInv, Claims!Nobody, HoldsAccount, OwnerFree, FirstIsRight, OneInserts,
        OnePrimary, Settled
<1>0. CASE UNCHANGED Claims!claimVars
  BY <1>0 DEF Claims!claimVars, Claims!TypeOK
<1> SUFFICES ASSUME Claims!Next PROVE ClaimsInv'
  BY <1>0
<1>t. Claims!TypeOK'
  BY ClaimsTyped
<1> USE <1>t DEF Claims!In, Claims!User, Claims!Owner
<1>1. ASSUME NEW l \in Logins, Claims!Grant(l) PROVE ClaimsInv'
  <2>1. PICK pc \in {"granted", "failed"} : Claims!Step(l, pc)
    BY <1>1 DEF Claims!Grant
  <2>2. UNCHANGED <<owns, primary, locked, tokens>> /\ login[l].pc = "asked"
    BY <1>1 DEF Claims!Grant
  <2> QED
    BY <2>1, <2>2, ClaimsMoved
<1>2. ASSUME NEW l \in Logins, Claims!Upsert(l) PROVE ClaimsInv'
  <2>1. Claims!Step(l, "locked") /\ UNCHANGED <<owns, primary, tokens>> /\ login[l].pc = "granted"
    BY <1>2 DEF Claims!Upsert
  <2>2. \A m \in Logins : m # l /\ locked[login[m].user] = m => locked'[login[m].user] = m
    BY <1>2 DEF Claims!Upsert, Claims!TypeOK
  <2>3. locked'[login[l].user] = l
    BY <1>2 DEF Claims!Upsert, Claims!TypeOK
  <2> QED
    BY <2>1, <2>2, <2>3, ClaimsMoved
<1>3. ASSUME NEW l \in Logins, Claims!CheckOwner(l) PROVE ClaimsInv'
  <2>1. CASE owns[login[l].owner] = "nobody"
    <3>1. /\ Claims!Step(l, "unowned") /\ UNCHANGED <<owns, primary, locked, tokens>>
          /\ login[l].pc = "locked"
      BY <1>3, <2>1 DEF Claims!CheckOwner, Claims!TypeOK
    <3>2. login[l].user # "nobody"
      BY DEF Claims!TypeOK
    <3> QED
      BY <2>1, <3>1, <3>2, ClaimsMoved
  <2>2. CASE owns[login[l].owner] = login[l].user
    <3>1. /\ Claims!Step(l, "committed") /\ UNCHANGED <<owns, primary, tokens>>
          /\ login[l].pc = "locked" /\ Claims!Unlock(l)
      BY <1>3, <2>2 DEF Claims!CheckOwner, Claims!TypeOK
    <3>2. \A m \in Logins : m # l /\ locked[login[m].user] = m => locked'[login[m].user] = m
      BY <3>1 DEF Claims!Unlock, Claims!TypeOK
    <3> QED
      BY <2>2, <3>1, <3>2, ClaimsMoved
  <2>3. CASE owns[login[l].owner] \notin {"nobody", login[l].user}
    <3>1. Claims!Rollback(l, "refused") /\ login[l].pc = "locked"
      BY <1>3, <2>3 DEF Claims!CheckOwner
    <3> QED
      BY <2>3, <3>1, ClaimsRolledBack
  <2> QED
    BY <2>1, <2>2, <2>3
<1>4. ASSUME NEW l \in Logins, Claims!CheckPrimary(l) PROVE ClaimsInv'
  <2> DEFINE first == \A o \in primary : owns[o] # login[l].user
  <2>1. login' = [login EXCEPT ![l].pc = "decided", ![l].first = first] /\ login[l].pc = "unowned"
    BY <1>4 DEF Claims!CheckPrimary
  <2>2. UNCHANGED <<owns, primary, locked, tokens>>
    BY <1>4 DEF Claims!CheckPrimary
  <2>3. first \in BOOLEAN
    OBVIOUS
  <2> HIDE DEF first
  <2>4. \A m \in Logins :
          /\ login'[m].user = login[m].user /\ login'[m].owner = login[m].owner
          /\ login'[m].pc = IF m = l THEN "decided" ELSE login[m].pc
    BY <2>1 DEF Claims!TypeOK
  <2>5. FirstIsRight(l)'
    <3>1. login'[l].first = first
      BY <2>1 DEF Claims!TypeOK
    <3>2. first <=> \A o \in primary' : owns'[o] # login'[l].user
      BY <2>2, <2>4 DEF first
    <3> QED
      BY <3>1, <3>2, Zenon
  <2>6. login[l].pc = "unowned"
    BY <2>1
  <2>7. HoldsAccount' /\ OneInserts' /\ OnePrimary'
    BY <2>2, <2>4, <2>6
  <2>8. ASSUME NEW m \in Logins PROVE OwnerFree(m)' /\ Settled(m)'
    BY <2>2, <2>4, <2>6
  <2>9. ASSUME NEW m \in Logins, m # l PROVE FirstIsRight(m)'
    <3>1. login'[m].first = login[m].first
      BY <2>1, <2>9 DEF Claims!TypeOK
    <3> QED
      BY <2>2, <2>4, <2>9, <3>1
  <2> QED
    BY <2>5, <2>7, <2>8, <2>9
<1>5. ASSUME NEW l \in Logins, Claims!Insert(l) PROVE ClaimsInv'
  <2>1. login[l].pc = "decided" /\ \A m \in Logins : ~(login[m].pc = "inserted" /\ login[m].owner = login[l].owner)
    BY <1>5 DEF Claims!Insert, Claims!Inserting
  <2>2. login[l].first => \A o \in primary : owns[o] # login[l].user
    BY <2>1
  <2>3. CASE owns[login[l].owner] = "nobody"
    <3>1. Claims!Step(l, "inserted") /\ UNCHANGED <<owns, primary, locked, tokens>>
      BY <1>5, <2>2, <2>3 DEF Claims!Insert
    <3> QED
      BY <2>1, <2>3, <3>1, ClaimsMoved
  <2>4. CASE owns[login[l].owner] # "nobody"
    <3>1. Claims!Rollback(l, "refused")
      BY <1>5, <2>4 DEF Claims!Insert
    <3> QED
      BY <2>1, <2>4, <3>1, ClaimsRolledBack
  <2> QED
    BY <2>3, <2>4
<1>6. ASSUME NEW l \in Logins, Claims!Commit(l) PROVE ClaimsInv'
  <2> DEFINE u == login[l].user
             w == login[l].owner
  <2>1. /\ login[l].pc = "inserted" /\ Claims!Step(l, "committed") /\ UNCHANGED tokens
        /\ Claims!Unlock(l)
    BY <1>6 DEF Claims!Commit
  <2>2. u \in Users /\ w \in Owners /\ owns[w] = "nobody" /\ locked[u] = l /\ u # "nobody"
    BY <2>1 DEF Claims!TypeOK
  <2>3. \A o \in Owners : owns'[o] = IF o = w THEN u ELSE owns[o]
    BY <1>6 DEF Claims!Commit, Claims!TypeOK
  <2>4. primary' = IF login[l].first THEN primary \cup {w} ELSE primary
    BY <1>6 DEF Claims!Commit
  <2>5. primary \subseteq Owners /\ primary' \subseteq Owners /\ w \notin primary
    BY <2>2 DEF Claims!TypeOK
  <2>6. login[l].first <=> \A o \in primary : owns[o] # u
    BY <2>1
  <2>7. \A m \in Logins :
          /\ login'[m].user = login[m].user /\ login'[m].owner = login[m].owner
          /\ login'[m].first = login[m].first
          /\ login'[m].pc = IF m = l THEN "committed" ELSE login[m].pc
    BY <2>1, ClaimsMoved
  <2>8. \A m \in Logins : m # l /\ locked[login[m].user] = m => locked'[login[m].user] = m
    BY <2>1 DEF Claims!Unlock, Claims!TypeOK
  <2>9. \A m \in Logins : m # l /\ login[m].pc \in {"locked", "unowned", "decided", "inserted"} =>
          login[m].user # u
    BY <2>2
  <2> HIDE DEF u, w
  <2>10. HoldsAccount'
    BY <2>7, <2>8
  <2>11. OneInserts'
    BY <2>7
  <2>12. OnePrimary'
    <3>1. CASE login[l].first
      BY <3>1, <2>2, <2>3, <2>4, <2>5, <2>6
    <3>2. CASE ~login[l].first
      BY <3>2, <2>2, <2>3, <2>4, <2>5, <2>6
    <3> QED
      BY <3>1, <3>2
  <2>13. ASSUME NEW m \in Logins PROVE OwnerFree(m)'
    <3>1. login[m].owner \in Owners
      BY DEF Claims!TypeOK
    <3>2. m # l /\ login[m].pc = "inserted" => login[m].owner # w
      BY <2>1 DEF w
    <3> QED
      BY <2>1, <2>2, <2>3, <2>7, <2>9, <3>1, <3>2
  <2>14. ASSUME NEW m \in Logins PROVE FirstIsRight(m)'
    <3>1. CASE m # l /\ login[m].pc \in {"decided", "inserted"}
      <4>1. login[m].user # u
        BY <2>9, <3>1
      <4>2. (\A o \in primary' : owns'[o] # login[m].user) <=> (\A o \in primary : owns[o] # login[m].user)
        BY <4>1, <2>3, <2>4, <2>5
      <4> QED
        BY <4>2, <3>1, <2>7
    <3>2. CASE m = l \/ login[m].pc \notin {"decided", "inserted"}
      BY <3>2, <2>7
    <3> QED
      BY <3>1, <3>2
  <2>15. ASSUME NEW m \in Logins PROVE Settled(m)'
    <3>1. login[m].owner \in Owners /\ login[m].user \in Users
      BY DEF Claims!TypeOK
    <3>2. owns'[login[l].owner] = login[l].user
      BY <2>2, <2>3 DEF u, w
    <3> QED
      BY <2>1, <2>2, <2>3, <2>7, <3>1, <3>2
  <2> QED
    BY <2>10, <2>11, <2>12, <2>13, <2>14, <2>15
<1>7. ASSUME NEW l \in Logins, Claims!Abort(l) PROVE ClaimsInv'
  BY <1>7, ClaimsRolledBack DEF Claims!Abort
<1>8. ASSUME NEW l \in Logins, Claims!StoreToken(l) PROVE ClaimsInv'
  <2>1. /\ login[l].pc = "committed" /\ Claims!Step(l, "stored") /\ tokens' = tokens \cup {l}
        /\ UNCHANGED <<owns, primary, locked>>
    BY <1>8 DEF Claims!StoreToken
  <2> QED
    BY <2>1, ClaimsMoved
<1>9. ASSUME NEW l \in Logins, Claims!ReadOwners(l) PROVE ClaimsInv'
  <2>1. /\ login[l].pc = "stored" /\ UNCHANGED <<owns, primary, locked>>
        /\ \/ Claims!Step(l, "done") /\ UNCHANGED tokens
           \/ Claims!Step(l, "failed") /\ tokens' = tokens \ {l}
    BY <1>9 DEF Claims!ReadOwners
  <2> QED
    BY <2>1, ClaimsMoved
<1> QED
  BY <1>1, <1>2, <1>3, <1>4, <1>5, <1>6, <1>7, <1>8, <1>9 DEF Claims!Next

LEMMA ClaimsInvariant == Spec => []ClaimsInv
<1> QED
  BY ClaimsFollowed, ClaimsInitially, ClaimsInductive, PTL DEF Claims!Spec

\* A sign-in is refused only when another account has taken the owner: the
\* sign-ins of one account never trip over each other (accounts.go:37, :71).
THEOREM RefusalsAreDeserved == Spec => []RefusedOnlyIfTaken
<1>1. ClaimsInv => RefusedOnlyIfTaken
  BY DEF ClaimsInv, Settled, RefusedOnlyIfTaken, Claims!RefusedOnlyIfTaken, Claims!In, Claims!Owner,
         Claims!User
<1> QED
  BY <1>1, ClaimsInvariant, PTL

LEMMA ClaimsCardinality == \A S : Claims!Cardinality(S) = Cardinality(S)
  BY DEF Claims!Cardinality, Cardinality

\* Whoever holds a session token has exactly one primary owner, without which
\* Resolve would drop the session, and owns the browser's sessions
\* (service.go:112).
THEOREM SignedInOwnersAreWhole == Spec => []Claims!SignedInHasPrimary
<1>1. ASSUME ClaimsInv PROVE Claims!SignedInHasPrimary
  <2> SUFFICES ASSUME NEW l \in tokens
               PROVE  /\ Claims!Cardinality(Claims!PrimaryOwners(login[l].user)) = 1
                      /\ owns[login[l].owner] = login[l].user
    BY DEF Claims!SignedInHasPrimary, Claims!User, Claims!Owner
  <2>1. /\ l \in Logins /\ owns[login[l].owner] = login[l].user
        /\ login[l].user # Claims!Nobody /\ login[l].owner \in Owners
    BY <1>1, ClaimAssumption DEF ClaimAssumption, ClaimsInv, Claims!TypeOK, Settled, Claims!Nobody
  <2>2. PICK o \in primary : owns[o] = login[l].user
    BY <1>1, <2>1 DEF ClaimsInv, OnePrimary
  <2>3. Claims!PrimaryOwners(login[l].user) = {o}
    BY <1>1, <2>2 DEF ClaimsInv, OnePrimary, Claims!PrimaryOwners
  <2> QED
    BY <2>1, <2>3, FS_Singleton, ClaimsCardinality
<1> QED
  BY <1>1, ClaimsInvariant, PTL

-----------------------------------------------------------------------------
(* Shares (Sharing) *)

LEMMA ShareFollowed == Spec => Share!Spec
<1>1. Init => Share!Init
  BY DEF Init
<1>2. [Next]_vars => [Share!Next]_(Share!shareVars)
  BY DEF Next, vars, share, Share!shareVars
<1> QED
  BY <1>1, <1>2, PTL DEF Spec, Share!Spec

\* One create call at a time has the row of a build.
OneHasTheBuild ==
  \A c, d \in Creates :
    create[c].pc = "locked" /\ create[d].pc = "locked" /\ create[c].token[1] = create[d].token[1] =>
      c = d

\* The share a call created is there to be found by the calls that follow.
CreatedIsThere ==
  \A c \in Creates : create[c].pc = "created" => shares[create[c].token] # Share!None

ShareInv == Share!TypeOK /\ OneHasTheBuild /\ CreatedIsThere /\ CreatedOnceRevokedForGood

LEMMA ShareInitially == Share!Init => ShareInv
  BY DEF Share!Init, ShareInv, Share!TypeOK, Share!None, OneHasTheBuild, CreatedIsThere,
         CreatedOnceRevokedForGood, Share!CreatedOnceRevokedForGood

LEMMA ShareInductive == ASSUME ShareInv, [Share!Next]_(Share!shareVars) PROVE ShareInv'
<1> USE DEF ShareInv, Share!TypeOK, Share!None, OneHasTheBuild, CreatedIsThere,
            CreatedOnceRevokedForGood, Share!CreatedOnceRevokedForGood
<1>0. CASE UNCHANGED Share!shareVars
  BY <1>0 DEF Share!shareVars
<1>1. ASSUME NEW c \in Creates, Share!LockBuild(c) PROVE ShareInv'
  <2>1. /\ UNCHANGED <<shares, reader>>
        /\ \A d \in Creates : create[d].pc = "locked" => create[d].token[1] # create[c].token[1]
    BY <1>1 DEF Share!LockBuild
  <2>2. PICK pc \in {"locked", "rejected"} :
          create' = [create EXCEPT ![c].pc = pc, ![c].saw = shares[create[c].token]]
    BY <1>1 DEF Share!LockBuild
  <2>3. Share!TypeOK'
    <3>1. create[c] \in [pc : {"idle", "locked", "created", "existing", "rejected"},
                         token : Share!Token, owner : BOOLEAN, saw : {"none", "live", "revoked"}]
      OBVIOUS
    <3>2. shares[create[c].token] \in {"none", "live", "revoked"}
      BY <3>1
    <3>3. [create[c] EXCEPT !.pc = pc, !.saw = shares[create[c].token]] \in
            [pc : {"idle", "locked", "created", "existing", "rejected"},
             token : Share!Token, owner : BOOLEAN, saw : {"none", "live", "revoked"}]
      BY <3>1, <3>2
    <3> QED
      BY <2>1, <2>2, <3>3
  <2>4. \A d \in Creates :
          /\ create'[d].token = create[d].token
          /\ d # c => create'[d].pc = create[d].pc /\ create'[d].saw = create[d].saw
          /\ d = c => create'[d].pc \in {"locked", "rejected"} /\ create'[d].saw = shares[create[d].token]
    BY <2>2
  <2>5. OneHasTheBuild'
    BY <2>1, <2>4
  <2>6. CreatedIsThere'
    BY <2>1, <2>4
  <2>7. CreatedOnceRevokedForGood'
    BY <2>1, <2>4
  <2> QED
    BY <2>3, <2>5, <2>6, <2>7
<1>2. ASSUME NEW c \in Creates, Share!Finish(c) PROVE ShareInv'
  BY <1>2 DEF Share!Finish, Share!Returned
<1>3. ASSUME NEW t \in Share!Token, Share!Revoke(t) PROVE ShareInv'
  BY <1>3 DEF Share!Revoke
<1>4. ASSUME NEW r \in Readers, Share!Lookup(r) \/ Share!Present(r) PROVE ShareInv'
  BY <1>4 DEF Share!Lookup, Share!Present
<1> QED
  BY <1>0, <1>1, <1>2, <1>3, <1>4 DEF Share!Next

\* Of the create calls of one key one creates the share and the others are
\* given it; posting the key again does not undo a revocation
\* (store/shares.go:47, :67).
THEOREM SharesAreCreatedOnce == Spec => []CreatedOnceRevokedForGood
<1>1. ShareInv => CreatedOnceRevokedForGood
  BY DEF ShareInv
<1> QED
  BY <1>1, ShareFollowed, ShareInitially, ShareInductive, PTL DEF Share!Spec

-----------------------------------------------------------------------------
(* Remembered preferences (PreferenceMemory) *)

LEMMA MemoryFollowed == Spec => Memory!Spec
<1>1. Init => Memory!Init
  BY DEF Init
<1>2. [Next]_vars => [Memory!Next]_(Memory!prefVars)
  BY DEF Next, vars, memory, Memory!prefVars
<1> QED
  BY <1>1, <1>2, PTL DEF Spec, Memory!Spec

Vals == Values \cup {Memory!None}

Saving ==
  [pc : {"idle", "rejected", "deciding", "creating", "replacing", "created", "replaced",
         "unchanged", "conflict", "missing"},
   owner : Owners, value : Vals, found : Nat, again : BOOLEAN, seen : SUBSET Vals]

Preference == [owner : Owners, value : Vals, active : BOOLEAN, replaces : Nat]

Confirming ==
  [pc : {"idle", "chosen", "pending", "skipped", "applied", "conflict"}, id : Nat, value : Vals,
   expected : Nat]

MemoryTyped ==
  /\ save \in [Saves -> Saving]
  /\ draft \in [value : Vals, words : BOOLEAN, revision : Nat]
  /\ confirm \in [Confirms -> Confirming]
  /\ used \in Nat /\ DOMAIN rows \subseteq 1..used /\ \A i \in DOMAIN rows : rows[i] \in Preference

Underway(s) == save[s].pc \in {"deciding", "creating", "replacing"}

\* A save that is under way has seen the value of every preference in force.
HasSeen(s) ==
  Underway(s) => \A i \in DOMAIN rows :
    rows[i].owner = save[s].owner /\ rows[i].active => rows[i].value \in save[s].seen

\* A save that succeeded has seen its own.
SawOwn(s) ==
  save[s].pc \in {"created", "replaced", "unchanged"} => save[s].value \in save[s].seen

MemoryInv == MemoryTyped /\ \A s \in Saves : HasSeen(s) /\ SawOwn(s)

LEMMA MemoryInitially == Memory!Init => MemoryInv
<1> SUFFICES ASSUME Memory!Init PROVE MemoryInv
  OBVIOUS
<1>1. save \in [Saves -> Saving] /\ \A s \in Saves : save[s].pc = "idle"
  <2> DEFINE Fresh == [pc : {"idle"}, owner : Owners, value : {Memory!None}, found : {Memory!NoId},
                       again : {FALSE}, seen : {{}}]
  <2>1. save \in [Saves -> Fresh]
    BY DEF Memory!Init
  <2>2. ASSUME NEW r \in Fresh PROVE r \in Saving /\ r.pc = "idle"
    <3>1. {} \in SUBSET Vals /\ 0 \in Nat /\ Memory!None \in Vals /\ FALSE \in BOOLEAN
      BY DEF Vals
    <3>2. /\ DOMAIN r = {"pc", "owner", "value", "found", "again", "seen"}
          /\ r.pc = "idle" /\ r.owner \in Owners /\ r.value = Memory!None /\ r.found = 0
          /\ r.again = FALSE /\ r.seen = {}
      BY DEF Memory!NoId
    <3> QED
      BY <3>1 DEF Saving, Memory!NoId
  <2> HIDE DEF Fresh
  <2> QED
    BY <2>1, <2>2
<1>2. /\ draft \in [value : Vals, words : BOOLEAN, revision : Nat]
      /\ confirm \in [Confirms -> Confirming]
  BY DEF Memory!Init, Vals, Confirming, Memory!NoId
<1>3. used \in Nat /\ DOMAIN rows \subseteq 1..used /\ \A i \in DOMAIN rows : rows[i] \in Preference
  <2>1. CASE rows = <<>> /\ used = 0
    BY <2>1
  <2>2. ASSUME NEW o \in Owners, NEW v \in Values, used = 1,
               rows = <<[owner |-> o, value |-> v, active |-> TRUE, replaces |-> Memory!NoId]>>
        PROVE  used \in Nat /\ DOMAIN rows \subseteq 1..used /\ \A i \in DOMAIN rows : rows[i] \in Preference
    <3>1. DOMAIN rows = 1..1
      BY <2>2
    <3>2. rows[1] \in Preference
      BY <2>2 DEF Preference, Vals, Memory!NoId
    <3>3. DOMAIN rows \subseteq 1..used /\ \A i \in DOMAIN rows : i = 1
      BY <2>2, <3>1
    <3> QED
      BY <2>2, <3>2, <3>3, Zenon
  <2> QED
    BY <2>1, <2>2 DEF Memory!Init
<1> QED
  BY <1>1, <1>2, <1>3 DEF MemoryInv, MemoryTyped, HasSeen, SawOwn, Underway

\* What a save that is told of a write still is, and what it has seen.
Keeps(old, new) ==
  /\ new \in Saving
  /\ new.pc = old.pc /\ new.owner = old.owner /\ new.value = old.value
  /\ old.seen \subseteq new.seen

LEMMA SeesMore ==
  ASSUME NEW old \in Saving, NEW more \in SUBSET Vals, NEW new, new = [old EXCEPT !.seen = @ \cup more]
  PROVE  Keeps(old, new) /\ more \subseteq new.seen
<1>1. old.seen \cup more \in SUBSET Vals
  BY DEF Saving
<1> QED
  BY <1>1 DEF Saving, Keeps

LEMMA NoticingKeeps ==
  ASSUME MemoryTyped, NEW o, NEW self, NEW more \in SUBSET Vals, NEW t \in Saves
  PROVE  /\ Keeps(save[t], Memory!Noticing(o, self, more)[t])
         /\ t # self /\ save[t].owner = o /\ Underway(t) =>
              more \subseteq Memory!Noticing(o, self, more)[t].seen
<1>1. save[t] \in Saving
  BY DEF MemoryTyped
<1>2. Memory!Noticing(o, self, more)[t] =
        IF t # self /\ save[t].owner = o /\ Underway(t)
        THEN [save[t] EXCEPT !.seen = @ \cup more] ELSE save[t]
  BY DEF Memory!Noticing, Underway
<1>3. CASE t # self /\ save[t].owner = o /\ Underway(t)
  BY <1>1, <1>2, <1>3, SeesMore
<1>4. CASE ~(t # self /\ save[t].owner = o /\ Underway(t))
  BY <1>1, <1>2, <1>4 DEF Keeps
<1> QED
  BY <1>3, <1>4

\* A preference stays in force, or is one the save has seen.
StillSeen(s) ==
  Underway(s) => \A i \in DOMAIN rows' : rows'[i].active /\ rows'[i].owner = save[s].owner =>
    \/ i \in DOMAIN rows /\ rows[i].active /\ rows[i].owner = rows'[i].owner
       /\ rows[i].value = rows'[i].value
    \/ rows'[i].value \in save'[s].seen

LEMMA SaveStands ==
  ASSUME NEW s \in Saves, HasSeen(s), SawOwn(s), Keeps(save[s], save'[s]), StillSeen(s)
  PROVE  HasSeen(s)' /\ SawOwn(s)'
<1>1. SawOwn(s)'
  BY DEF SawOwn, Keeps
<1>2. HasSeen(s)'
  <2> SUFFICES ASSUME Underway(s), NEW i \in DOMAIN rows', rows'[i].owner = save[s].owner, rows'[i].active
               PROVE  rows'[i].value \in save'[s].seen
    BY DEF HasSeen, Keeps, Underway
  <2> QED
    BY DEF StillSeen, HasSeen, Keeps
<1> QED
  BY <1>1, <1>2

\* One save moves, the others learn nothing, and nothing is remembered.
LEMMA OneSaveMoves ==
  ASSUME MemoryInv, NEW s \in Saves, NEW r \in Saving, save' = [save EXCEPT ![s] = r],
         UNCHANGED <<rows, used, draft, confirm>>, HasSeen(s)', SawOwn(s)'
  PROVE  MemoryInv'
<1>1. save' \in [Saves -> Saving] /\ \A t \in Saves \ {s} : save'[t] = save[t]
  BY DEF MemoryInv, MemoryTyped
<1>2. \A t \in Saves \ {s} : HasSeen(t)' /\ SawOwn(t)'
  BY <1>1 DEF MemoryInv, HasSeen, SawOwn, Underway
<1> QED
  BY <1>1, <1>2 DEF MemoryInv, MemoryTyped

\* A row is added to what is left of the table, and every save of its owner
\* learns of it.
LEMMA WriteStands ==
  ASSUME MemoryInv, NEW s \in Saves, NEW pc \in {"created", "replaced"}, NEW table,
         Memory!Write(s, pc, table), UNCHANGED <<draft, confirm>>,
         DOMAIN table = DOMAIN rows,
         \A i \in DOMAIN table :
           /\ table[i] \in Preference /\ table[i].owner = rows[i].owner
           /\ table[i].value = rows[i].value /\ (table[i].active => rows[i].active)
  PROVE  MemoryInv'
<1>1. save[s] \in Saving /\ used \in Nat /\ DOMAIN rows \subseteq 1..used
  BY DEF MemoryInv, MemoryTyped
<1> DEFINE told == Memory!Noticing(save[s].owner, s, {save[s].value})
           new == [owner |-> save[s].owner, value |-> save[s].value, active |-> TRUE,
                   replaces |-> save[s].found]
<1>2. /\ used' = used + 1
      /\ rows' = [i \in DOMAIN table \cup {used + 1} |-> IF i = used + 1 THEN new ELSE table[i]]
      /\ save' = [told EXCEPT ![s].pc = pc, ![s].seen = @ \cup {save[s].value}]
  BY DEF Memory!Write
<1>3. new \in Preference /\ new.owner = save[s].owner /\ new.value = save[s].value
  BY <1>1 DEF Saving, Preference
<1>4. {save[s].value} \in SUBSET Vals
  BY <1>1 DEF Saving
<1>5. \A t \in Saves : /\ Keeps(save[t], told[t])
                       /\ t # s /\ save[t].owner = save[s].owner /\ Underway(t) => save[s].value \in told[t].seen
  BY <1>4, NoticingKeeps DEF MemoryInv
<1>6. DOMAIN told = Saves
  BY DEF Memory!Noticing
<1>7. /\ DOMAIN save' = Saves
      /\ \A t \in Saves \ {s} : save'[t] = told[t]
      /\ save'[s] = [[told[s] EXCEPT !.pc = pc] EXCEPT !.seen = @ \cup {save[s].value}]
  <2> HIDE DEF told
  <2> QED
    BY <1>2, <1>6
<1> HIDE DEF told, new
<1>8. save'[s] \in Saving /\ save'[s].pc = pc /\ save'[s].value = save[s].value /\ save[s].value \in save'[s].seen
  <2> DEFINE moved == [told[s] EXCEPT !.pc = pc]
  <2>0. told[s] \in Saving /\ told[s].value = save[s].value
    <3>1. Keeps(save[s], told[s])
      BY <1>5, Zenon
    <3> QED
      BY <3>1 DEF Keeps
  <2>1. moved \in Saving /\ moved.pc = pc /\ moved.value = save[s].value
    BY <2>0 DEF Saving
  <2>2. save'[s] = [moved EXCEPT !.seen = @ \cup {save[s].value}]
    BY <1>7
  <2> HIDE DEF moved
  <2>3. Keeps(moved, save'[s]) /\ {save[s].value} \subseteq save'[s].seen
    BY <1>4, <2>1, <2>2, SeesMore
  <2> QED
    BY <2>1, <2>3 DEF Keeps
<1>9. save' \in [Saves -> Saving]
  <2>1. ASSUME NEW t \in Saves \ {s} PROVE save'[t] \in Saving
    <3>1. Keeps(save[t], told[t]) /\ save'[t] = told[t]
      BY <1>5, <1>7, Zenon
    <3> QED
      BY <3>1 DEF Keeps
  <2>2. \A t \in Saves : save'[t] \in Saving
    BY <1>8, <2>1
  <2>3. save' = [t \in Saves |-> save'[t]]
    BY <1>2, <1>7
  <2> QED
    BY <2>2, <2>3
<1>10. /\ used' \in Nat /\ DOMAIN rows' \subseteq 1..used'
       /\ \A i \in DOMAIN rows' : rows'[i] \in Preference
  <2>1. DOMAIN rows' = DOMAIN rows \cup {used + 1}
    BY <1>2
  <2>2. \A i \in DOMAIN rows' : rows'[i] \in Preference
    BY <1>2, <1>3
  <2>3. used' \in Nat /\ DOMAIN rows' \subseteq 1..used'
    BY <1>1, <1>2, <2>1
  <2> QED
    BY <2>2, <2>3
<1>11. ASSUME NEW t \in Saves \ {s} PROVE HasSeen(t)' /\ SawOwn(t)'
  <2>1. /\ Keeps(save[t], save'[t])
        /\ save[t].owner = save[s].owner /\ Underway(t) => save[s].value \in save'[t].seen
    BY <1>5, <1>7, Zenon
  <2>2. \A i \in DOMAIN rows' : \/ rows'[i] = new
                                \/ i \in DOMAIN table /\ rows'[i] = table[i]
    <3>1. DOMAIN rows' = DOMAIN table \cup {used + 1}
      BY <1>2
    <3>2. \A i \in DOMAIN rows' : rows'[i] = IF i = used + 1 THEN new ELSE table[i]
      BY <1>2, <3>1
    <3> QED
      BY <3>1, <3>2
  <2>3. StillSeen(t)
    <3> SUFFICES ASSUME Underway(t), NEW i \in DOMAIN rows', rows'[i].active,
                        rows'[i].owner = save[t].owner
                 PROVE  \/ i \in DOMAIN rows /\ rows[i].active /\ rows[i].owner = rows'[i].owner
                           /\ rows[i].value = rows'[i].value
                        \/ rows'[i].value \in save'[t].seen
      BY DEF StillSeen
    <3>1. CASE rows'[i] = new
      BY <1>3, <2>1, <3>1
    <3>2. CASE i \in DOMAIN table /\ rows'[i] = table[i]
      BY <3>2
    <3> QED
      BY <2>2, <3>1, <3>2
  <2>4. HasSeen(t) /\ SawOwn(t)
    BY DEF MemoryInv
  <2> QED
    BY <2>1, <2>3, <2>4, SaveStands
<1>12. HasSeen(s)' /\ SawOwn(s)'
  BY <1>8 DEF HasSeen, SawOwn, Underway
<1> QED
  BY <1>9, <1>10, <1>11, <1>12 DEF MemoryInv, MemoryTyped

\* The requirement and the confirmations move, and no preference does.
LEMMA SessionMoves ==
  ASSUME MemoryInv, UNCHANGED <<rows, used, save>>,
         draft' \in [value : Vals, words : BOOLEAN, revision : Nat],
         confirm' \in [Confirms -> Confirming]
  PROVE  MemoryInv'
  BY DEF MemoryInv, MemoryTyped, HasSeen, SawOwn, Underway

LEMMA Forgotten ==
  ASSUME MemoryInv, NEW d \in Deletes, Memory!FinishDelete(d)
  PROVE  MemoryInv'
<1>1. PICK lostRows \in SUBSET DOMAIN rows :
        /\ rows' = [i \in DOMAIN rows \ lostRows |->
                     [rows[i] EXCEPT !.replaces = IF @ \in lostRows THEN Memory!NoId ELSE @]]
        /\ save' = save \/ save' = Memory!Noticing(rows[CHOOSE i \in lostRows : TRUE].owner, Memory!None, {})
  BY DEF Memory!FinishDelete
<1>2. UNCHANGED <<used, draft, confirm>>
  BY DEF Memory!FinishDelete
<1>3. \A i \in DOMAIN rows : rows[i] \in Preference
  BY DEF MemoryInv, MemoryTyped
<1>4. ASSUME NEW i \in DOMAIN rows'
      PROVE  /\ i \in DOMAIN rows /\ rows'[i] \in Preference
             /\ rows'[i].owner = rows[i].owner /\ rows'[i].value = rows[i].value
             /\ rows'[i].active = rows[i].active
  <2>1. i \in DOMAIN rows
    BY <1>1
  <2>2. rows[i] \in Preference /\ Memory!NoId \in Nat
    BY <1>3, <2>1 DEF Memory!NoId
  <2>3. PICK n \in Nat : n = IF rows[i].replaces \in lostRows THEN Memory!NoId ELSE rows[i].replaces
    BY <2>2 DEF Preference
  <2>4. rows'[i] = [rows[i] EXCEPT !.replaces = n]
    BY <1>1, <2>1, <2>3
  <2> QED
    BY <2>1, <2>2, <2>4 DEF Preference
<1>5. DOMAIN rows' \subseteq 1..used'
  BY <1>2, <1>4 DEF MemoryInv, MemoryTyped
<1>6. ASSUME NEW s \in Saves PROVE Keeps(save[s], save'[s]) /\ DOMAIN save' = Saves
  <2>1. save[s] \in Saving /\ DOMAIN save = Saves
    BY DEF MemoryInv, MemoryTyped
  <2>2. CASE save' = save
    BY <2>1, <2>2 DEF Keeps
  <2>3. CASE save' = Memory!Noticing(rows[CHOOSE i \in lostRows : TRUE].owner, Memory!None, {})
    <3>1. DOMAIN save' = Saves
      BY <2>3 DEF Memory!Noticing
    <3>2. Keeps(save[s], save'[s])
      BY <2>3, NoticingKeeps DEF MemoryInv
    <3> QED
      BY <3>1, <3>2
  <2> QED
    BY <1>1, <2>2, <2>3
<1>7. save' \in [Saves -> Saving]
  <2>1. save \in [Saves -> Saving]
    BY DEF MemoryInv, MemoryTyped
  <2>2. \A s \in Saves : save'[s] \in Saving
    BY <1>6 DEF Keeps
  <2>3. save' = [s \in Saves |-> save'[s]]
    BY <1>1, <2>1 DEF Memory!Noticing
  <2> QED
    BY <2>2, <2>3
<1>8. ASSUME NEW s \in Saves PROVE HasSeen(s)' /\ SawOwn(s)'
  <2>1. StillSeen(s)
    BY <1>4 DEF StillSeen
  <2>2. HasSeen(s) /\ SawOwn(s)
    BY DEF MemoryInv
  <2> QED
    BY <1>6, <2>1, <2>2, SaveStands
<1> QED
  BY <1>2, <1>4, <1>5, <1>7, <1>8 DEF MemoryInv, MemoryTyped

LEMMA MemoryInductive == MemoryInv /\ [Memory!Next]_(Memory!prefVars) => MemoryInv'
<1> SUFFICES ASSUME MemoryInv, [Memory!Next]_(Memory!prefVars) PROVE MemoryInv'
  OBVIOUS
<1>0. /\ MemoryTyped /\ \A s \in Saves : save[s] \in Saving /\ HasSeen(s) /\ SawOwn(s)
      /\ draft \in [value : Vals, words : BOOLEAN, revision : Nat]
      /\ confirm \in [Confirms -> Confirming]
  BY DEF MemoryInv, MemoryTyped
<1>1. CASE UNCHANGED Memory!prefVars
  BY <1>0, <1>1, SessionMoves DEF Memory!prefVars
<1>2. ASSUME Memory!Say PROVE MemoryInv'
  <2>1. draft' \in [value : Vals, words : BOOLEAN, revision : Nat]
    BY <1>0, <1>2 DEF Memory!Say, Vals
  <2> QED
    BY <1>0, <1>2, <2>1, SessionMoves DEF Memory!Say
<1>3. ASSUME NEW s \in Saves, Memory!Submit(s) PROVE MemoryInv'
  <2> DEFINE pc == IF draft.words THEN "deciding" ELSE "rejected"
             saw == {rows[i].value : i \in Memory!Active(save[s].owner)}
             r == [save[s] EXCEPT !.pc = pc, !.value = draft.value, !.seen = saw]
  <2>1. save' = [save EXCEPT ![s] = r] /\ UNCHANGED <<rows, used, draft, confirm>>
    BY <1>0, <1>3 DEF Memory!Submit, MemoryTyped
  <2>2. saw \in SUBSET Vals /\ draft.value \in Vals
    BY <1>0 DEF Memory!Active, MemoryTyped, Preference
  <2> HIDE DEF saw
  <2>3. r \in Saving /\ r.pc \in {"deciding", "rejected"} /\ r.seen = saw /\ r.owner = save[s].owner
    BY <1>0, <2>2 DEF Saving
  <2>4. save'[s] = r
    BY <1>0, <2>1 DEF MemoryTyped
  <2> HIDE DEF r
  <2>5. HasSeen(s)' /\ SawOwn(s)'
    BY <2>1, <2>3, <2>4 DEF HasSeen, SawOwn, saw, Memory!Active
  <2> QED
    BY <2>1, <2>3, <2>5, OneSaveMoves
<1>4. ASSUME NEW s \in Saves, Memory!Decide(s) PROVE MemoryInv'
  <2>1. \E r \in Saving :
          /\ save' = [save EXCEPT ![s] = r] /\ r.owner = save[s].owner
          /\ r.value = save[s].value /\ r.seen = save[s].seen
          /\ r.pc \in {"creating", "replacing"} \/ (r.pc = "unchanged" /\ r.value \in r.seen)
    <3>1. CASE save' = [save EXCEPT ![s].pc = "creating", ![s].found = Memory!NoId]
      <4> DEFINE r == [save[s] EXCEPT !.pc = "creating", !.found = Memory!NoId]
      <4>1. r \in Saving /\ r.owner = save[s].owner /\ r.value = save[s].value
            /\ r.seen = save[s].seen /\ r.pc = "creating"
        BY <1>0 DEF Saving, Memory!NoId
      <4>2. save' = [save EXCEPT ![s] = r]
        BY <1>0, <3>1 DEF MemoryTyped
      <4> HIDE DEF r
      <4> QED
        BY <4>1, <4>2
    <3>2. ASSUME NEW i \in Memory!Active(save[s].owner),
                 save' = [save EXCEPT ![s].pc = IF rows[i].value = save[s].value THEN "unchanged"
                                               ELSE "replacing",
                                      ![s].found = i]
          PROVE  \E r \in Saving :
                   /\ save' = [save EXCEPT ![s] = r] /\ r.owner = save[s].owner
                   /\ r.value = save[s].value /\ r.seen = save[s].seen
                   /\ r.pc \in {"creating", "replacing"} \/ (r.pc = "unchanged" /\ r.value \in r.seen)
      <4>1. i \in DOMAIN rows /\ rows[i].owner = save[s].owner /\ rows[i].active /\ i \in Nat
        BY <1>0 DEF Memory!Active, MemoryTyped
      <4>2. rows[i].value \in save[s].seen
        BY <1>0, <1>4, <4>1 DEF HasSeen, Underway, Memory!Decide
      <4>3. PICK pc \in {"unchanged", "replacing"} :
              /\ pc = IF rows[i].value = save[s].value THEN "unchanged" ELSE "replacing"
              /\ pc = "unchanged" => save[s].value \in save[s].seen
        BY <4>2
      <4> DEFINE r == [save[s] EXCEPT !.pc = pc, !.found = i]
      <4>4. r \in Saving /\ r.owner = save[s].owner /\ r.value = save[s].value
            /\ r.seen = save[s].seen /\ r.pc = pc
        BY <1>0, <4>1 DEF Saving
      <4>5. save' = [save EXCEPT ![s] = r]
        BY <1>0, <3>2, <4>3 DEF MemoryTyped
      <4> HIDE DEF r
      <4> QED
        BY <4>3, <4>4, <4>5
    <3> QED
      BY <1>4, <3>1, <3>2 DEF Memory!Decide
  <2>2. PICK r \in Saving :
          /\ save' = [save EXCEPT ![s] = r] /\ r.owner = save[s].owner
          /\ r.value = save[s].value /\ r.seen = save[s].seen
          /\ r.pc \in {"creating", "replacing"} \/ (r.pc = "unchanged" /\ r.value \in r.seen)
    BY <2>1
  <2>3. UNCHANGED <<rows, used, draft, confirm>> /\ Underway(s)
    BY <1>4 DEF Memory!Decide, Underway
  <2>4. save'[s] = r
    BY <1>0, <2>2 DEF MemoryTyped
  <2>5. HasSeen(s)' /\ SawOwn(s)'
    BY <1>0, <2>2, <2>3, <2>4 DEF HasSeen, SawOwn
  <2> QED
    BY <2>2, <2>3, <2>5, OneSaveMoves
<1>5. ASSUME NEW s \in Saves, NEW pc \in {"conflict", "missing"}, Underway(s),
             UNCHANGED <<rows, used, draft, confirm>>,
             Memory!Retry(s, pc) \/ save' = [save EXCEPT ![s].pc = pc]
      PROVE  MemoryInv'
  <2>1. \E to \in {"conflict", "missing", "deciding"}, again \in BOOLEAN :
          save' = [save EXCEPT ![s] = [save[s] EXCEPT !.pc = to, !.again = again]]
    <3>1. CASE Memory!Retry(s, pc)
      BY <3>1 DEF Memory!Retry
    <3>2. CASE save' = [save EXCEPT ![s].pc = pc]
      <4>1. save[s] \in Saving
        BY <1>0
      <4>2. [save[s] EXCEPT !.pc = pc] = [save[s] EXCEPT !.pc = pc, !.again = save[s].again]
            /\ save[s].again \in BOOLEAN
        BY <4>1 DEF Saving
      <4>3. save' = [save EXCEPT ![s] = [save[s] EXCEPT !.pc = pc]]
        BY <3>2
      <4> QED
        BY <4>2, <4>3
    <3> QED
      BY <1>5, <3>1, <3>2
  <2>2. PICK to \in {"conflict", "missing", "deciding"}, again \in BOOLEAN :
          save' = [save EXCEPT ![s] = [save[s] EXCEPT !.pc = to, !.again = again]]
    BY <2>1
  <2> DEFINE r == [save[s] EXCEPT !.pc = to, !.again = again]
  <2>3. r \in Saving /\ r.owner = save[s].owner /\ r.seen = save[s].seen /\ r.pc = to
    BY <1>0 DEF Saving
  <2>4. save' = [save EXCEPT ![s] = r]
    BY <2>2
  <2>5. save'[s] = r
    BY <1>0, <2>4 DEF MemoryTyped
  <2> HIDE DEF r
  <2>6. HasSeen(s)' /\ SawOwn(s)'
    BY <1>0, <1>5, <2>3, <2>5 DEF HasSeen, SawOwn
  <2> QED
    BY <1>5, <2>3, <2>4, <2>6, OneSaveMoves
<1>6. ASSUME NEW s \in Saves, Memory!Create(s) PROVE MemoryInv'
  <2>1. UNCHANGED <<draft, confirm>> /\ Underway(s)
    BY <1>6 DEF Memory!Create, Underway
  <2>2. CASE Memory!Write(s, "created", rows)
    <3>1. \A i \in DOMAIN rows : rows[i] \in Preference
      BY <1>0 DEF MemoryTyped
    <3> QED
      BY <2>1, <2>2, <3>1, WriteStands
  <2>3. CASE Memory!Retry(s, "conflict") /\ UNCHANGED <<rows, used>>
    BY <1>5, <2>1, <2>3
  <2> QED
    BY <1>6, <2>2, <2>3 DEF Memory!Create
<1>7. ASSUME NEW s \in Saves, Memory!Supersede(s) PROVE MemoryInv'
  <2> DEFINE i == save[s].found
             table == [rows EXCEPT ![i].active = FALSE]
  <2>1. UNCHANGED <<draft, confirm>> /\ Underway(s)
    BY <1>7 DEF Memory!Supersede, Underway
  <2>2. CASE Memory!Replaceable(i) /\ Memory!Write(s, "replaced", table)
    <3>1. DOMAIN table = DOMAIN rows
      OBVIOUS
    <3>2. ASSUME NEW j \in DOMAIN table
          PROVE  /\ table[j] \in Preference /\ table[j].owner = rows[j].owner
                 /\ table[j].value = rows[j].value /\ (table[j].active => rows[j].active)
      <4>1. rows[j] \in Preference
        BY <1>0, <3>1 DEF MemoryTyped
      <4>2. table[j] = IF j = i THEN [rows[j] EXCEPT !.active = FALSE] ELSE rows[j]
        OBVIOUS
      <4>3. /\ [rows[j] EXCEPT !.active = FALSE] \in Preference
            /\ [rows[j] EXCEPT !.active = FALSE].owner = rows[j].owner
            /\ [rows[j] EXCEPT !.active = FALSE].value = rows[j].value
            /\ [rows[j] EXCEPT !.active = FALSE].active = FALSE
        BY <4>1 DEF Preference
      <4> HIDE DEF table
      <4> QED
        BY <4>1, <4>2, <4>3
    <3> HIDE DEF table
    <3> QED
      BY <2>1, <2>2, <3>1, <3>2, WriteStands
  <2>3. CASE Memory!Retry(s, "conflict") /\ UNCHANGED <<rows, used>>
    BY <1>5, <2>1, <2>3
  <2>4. CASE save' = [save EXCEPT ![s].pc = "missing"] /\ UNCHANGED <<rows, used>>
    BY <1>5, <2>1, <2>4
  <2> QED
    BY <1>7, <2>2, <2>3, <2>4 DEF Memory!Supersede
<1>8. ASSUME NEW d \in Deletes, Memory!StartDelete(d) PROVE MemoryInv'
  BY <1>0, <1>8, SessionMoves DEF Memory!StartDelete
<1>9. ASSUME NEW c \in Confirms,
             Memory!Choose(c) \/ Memory!Verify(c) \/ Memory!Apply(c) \/ Memory!Resend(c)
      PROVE  MemoryInv'
  <2>1. confirm[c] \in Confirming /\ UNCHANGED <<rows, used, save>>
    BY <1>0, <1>9 DEF Memory!Choose, Memory!Verify, Memory!Apply, Memory!Resend
  <2>2. confirm' \in [Confirms -> Confirming]
    <3>1. ASSUME NEW r \in Confirming, confirm' = [confirm EXCEPT ![c] = r]
          PROVE  confirm' \in [Confirms -> Confirming]
      BY <1>0, <3>1
    <3>2. CASE Memory!Choose(c)
      <4>1. PICK i \in Memory!Suggestions :
              confirm' = [confirm EXCEPT ![c] = [pc |-> "chosen", id |-> i, value |-> Memory!None,
                                                 expected |-> draft.revision]]
        BY <3>2 DEF Memory!Choose
      <4>2. i \in Nat
        BY <1>0 DEF Memory!Suggestions, Memory!Active, MemoryTyped
      <4>3. [pc |-> "chosen", id |-> i, value |-> Memory!None, expected |-> draft.revision] \in Confirming
        BY <1>0, <4>2 DEF Confirming, Vals
      <4> QED
        BY <3>1, <4>1, <4>3
    <3>3. CASE Memory!Verify(c)
      <4>1. PICK to \in {"pending", "skipped"}, v \in Vals :
              confirm' = [confirm EXCEPT ![c].pc = to, ![c].value = v]
        <5>1. CASE confirm[c].id \in DOMAIN rows
          <6>1. rows[confirm[c].id].value \in Vals /\ Memory!None \in Vals
            BY <1>0, <5>1 DEF MemoryTyped, Preference, Vals
          <6> QED
            BY <3>3, <6>1 DEF Memory!Verify
        <5>2. CASE confirm[c].id \notin DOMAIN rows
          <6>1. Memory!None \in Vals
            BY DEF Vals
          <6> QED
            BY <3>3, <5>2, <6>1 DEF Memory!Verify
        <5> QED
          BY <5>1, <5>2
      <4>2. [confirm[c] EXCEPT !.pc = to, !.value = v] \in Confirming
        BY <2>1 DEF Confirming
      <4>3. confirm' = [confirm EXCEPT ![c] = [confirm[c] EXCEPT !.pc = to, !.value = v]]
        BY <1>0, <4>1
      <4> QED
        BY <3>1, <4>2, <4>3
    <3>4. CASE Memory!Apply(c)
      <4>1. PICK to \in {"applied", "conflict"} : confirm' = [confirm EXCEPT ![c].pc = to]
        BY <3>4 DEF Memory!Apply
      <4>2. [confirm[c] EXCEPT !.pc = to] \in Confirming
        BY <2>1 DEF Confirming
      <4> QED
        BY <3>1, <4>1, <4>2
    <3>5. CASE Memory!Resend(c)
      <4>1. Memory!None \in Vals
        BY DEF Vals
      <4>2. [confirm[c] EXCEPT !.pc = "chosen", !.value = Memory!None] \in Confirming
        BY <2>1, <4>1 DEF Confirming
      <4>3. confirm' = [confirm EXCEPT ![c] = [confirm[c] EXCEPT !.pc = "chosen", !.value = Memory!None]]
        BY <1>0, <3>5 DEF Memory!Resend
      <4> QED
        BY <3>1, <4>2, <4>3
    <3> QED
      BY <1>9, <3>2, <3>3, <3>4, <3>5
  <2>3. draft' \in [value : Vals, words : BOOLEAN, revision : Nat]
    <3>1. CASE Memory!Apply(c)
      <4>1. confirm[c].value \in Vals
        BY <2>1 DEF Confirming
      <4>2. draft.revision + 1 \in Nat
        BY <1>0
      <4>3. [value |-> confirm[c].value, words |-> FALSE, revision |-> draft.revision + 1]
              \in [value : Vals, words : BOOLEAN, revision : Nat]
        BY <4>1, <4>2
      <4>4. \/ draft' = [value |-> confirm[c].value, words |-> FALSE, revision |-> draft.revision + 1]
            \/ draft' = draft
        BY <3>1 DEF Memory!Apply
      <4> QED
        BY <1>0, <4>3, <4>4
    <3>2. CASE ~Memory!Apply(c)
      BY <1>0, <1>9, <3>2 DEF Memory!Choose, Memory!Verify, Memory!Resend
    <3> QED
      BY <3>1, <3>2
  <2> QED
    BY <2>1, <2>2, <2>3, SessionMoves
<1> QED
  BY <1>1, <1>2, <1>3, <1>4, <1>6, <1>7, <1>8, <1>9, Forgotten DEF Memory!Next

\* A save that reports success left, or found, its value in force at some moment
\* after it began, however saves and deletions race and are retried
\* (product/preference_memory.go:150, store/preference_memory.go).
THEOREM SavesReportTheTruth == Spec => []SaveReportsTruth
<1>1. MemoryInv => SaveReportsTruth
  BY DEF MemoryInv, SawOwn, SaveReportsTruth, Memory!SaveReportsTruth
<1> QED
  BY <1>1, MemoryFollowed, MemoryInitially, MemoryInductive, PTL DEF Memory!Spec

-----------------------------------------------------------------------------
(* The events of a run (EventStream) *)

LEMMA EventsFollowed == Spec => Events!Spec
<1>1. Init => Events!Init
  BY DEF Init
<1>2. [Next]_vars => [Events!Next]_(Events!vars)
  BY DEF Next, vars, events, Events!vars, Events!store
<1> QED
  BY <1>1, <1>2, PTL DEF Spec, Events!Spec

-----------------------------------------------------------------------------
(* The inductive invariant of the stream *)

Types == {"progress", "failed", "completed"}

StreamShape ==
  /\ log \in Seq(Types)
  /\ client \in [Clients -> [pc : {"idle", "admitted", "waiting", "over"}, saw : {"running", "ended"}]]
  /\ row \in {"running", "ended"}
  /\ heard \in [Clients -> Seq(Nat)]

\* The store holds the newest events, if any.
KeptIsRecent == \E first \in 1..(Len(log) + 1) : stored = first..Len(log)

\* A browser has heard events of the log, in their order.
HeardInOrder(c) ==
  /\ \A i \in 1..Len(heard[c]) : heard[c][i] \in 1..Len(log)
  /\ \A i \in 1..(Len(heard[c]) - 1) : heard[c][i] < heard[c][i + 1]

\* A browser that is not let go has not heard the run complete.
NotComplete(c) ==
  client[c].pc # "over" => \A i \in 1..Len(heard[c]) : log[heard[c][i]] # "completed"

\* What a browser was not given is lost.
OthersAreLost(c) ==
  \A p \in 1..Events!Cursor(c) :
    (\E i \in 1..Len(heard[c]) : heard[c][i] = p) \/ p \notin stored

Browsing(c) == HeardInOrder(c) /\ NotComplete(c) /\ OthersAreLost(c)

StreamInv == StreamShape /\ KeptIsRecent /\ \A c \in Clients : Browsing(c)

LEMMA StreamInitially == Events!Init => StreamInv
<1> SUFFICES ASSUME Events!Init PROVE StreamInv
  OBVIOUS
<1>1. StreamShape
  BY DEF Events!Init, Events!Idle, StreamShape
<1>2. KeptIsRecent
  BY DEF Events!Init, KeptIsRecent
<1>3. ASSUME NEW c \in Clients PROVE Browsing(c)
  BY DEF Events!Init, Browsing, HeardInOrder, NotComplete, OthersAreLost, Events!Cursor, Events!None
<1> QED
  BY <1>1, <1>2, <1>3 DEF StreamInv

-----------------------------------------------------------------------------
(* The stores *)

LEMMA EventsCardinality == \A S : Events!Cardinality(S) = Cardinality(S)
  BY DEF Events!Cardinality, Cardinality

\* The elements of an interval, in their order.
Run(first, n) == [i \in 1..n |-> first + i - 1]

LEMMA InOrderOfInterval ==
  ASSUME NEW a \in Nat, NEW b \in Nat, a <= b + 1
  PROVE  Events!InOrder(a..b) = Run(a, b - a + 1)
<1>1. Events!Cardinality(a..b) = b - a + 1
  BY FS_Interval, EventsCardinality
<1>2. ASSUME NEW p \in a..b PROVE Events!Cardinality({q \in a..b : q < p}) = p - a
  <2>1. {q \in a..b : q < p} = a..(p - 1)
    OBVIOUS
  <2>2. /\ a \in Int /\ p - 1 \in Int
        /\ Cardinality(a..(p - 1)) = IF a > p - 1 THEN 0 ELSE (p - 1) - a + 1
    BY FS_Interval
  <2>3. Cardinality(a..(p - 1)) = p - a
    BY <2>2
  <2> QED
    BY <2>1, <2>3, EventsCardinality
<1>3. ASSUME NEW i \in 1..(b - a + 1)
      PROVE  (CHOOSE p \in a..b : Events!Cardinality({q \in a..b : q < p}) = i - 1) = a + i - 1
  <2>1. a + i - 1 \in a..b
    OBVIOUS
  <2>2. \A p \in a..b : Events!Cardinality({q \in a..b : q < p}) = i - 1 <=> p = a + i - 1
    BY <1>2
  <2> QED
    BY <2>1, <2>2
<1> QED
  BY <1>1, <1>3 DEF Events!InOrder, Run

\* Appending events leaves the store with the newest of the longer log.
LEMMA PutKeepsRecent ==
  ASSUME StreamShape, KeptIsRecent, NEW types \in Seq(Types), Events!Put(types)
  PROVE  /\ log' \in Seq(Types) /\ Len(log') = Len(log) + Len(types) /\ log' = log \o types
         /\ \A i \in 1..Len(log) : log'[i] = log[i]
         /\ KeptIsRecent'
         /\ \A p \in 1..Len(log) : p \in stored' => p \in stored
<1>1. log' = log \o types /\ log \in Seq(Types)
  BY DEF Events!Put, StreamShape
<1>2. log' \in Seq(Types) /\ Len(log') = Len(log) + Len(types) /\ \A i \in 1..Len(log) : log'[i] = log[i]
  BY <1>1, ConcatProperties
<1>3. PICK first \in 1..(Len(log) + 1) : stored = first..Len(log)
  BY DEF KeptIsRecent
<1> DEFINE n == Len(log')
           all == stored \cup (Len(log) + 1)..(Len(log) + Len(types))
<1>4. n \in Nat /\ Len(log) \in Nat /\ Len(types) \in Nat /\ n = Len(log) + Len(types)
  BY <1>1, <1>2, LenProperties
<1>5. all = first..n
  BY <1>3, <1>4
<1>6. stored' = IF backend = "memory" THEN Events!KeepNewest(all) ELSE all
  BY DEF Events!Put
<1>7. \E low \in first..(n + 1) : Events!KeepNewest(first..n) = low..n
  <2>1. \A p \in first..n : Events!Cardinality({q \in first..n : q > p}) = n - p
    <3> TAKE p \in first..n
    <3>1. {q \in first..n : q > p} = (p + 1)..n
      BY <1>3, <1>4
    <3>2. Cardinality((p + 1)..n) = n - p
      BY <1>3, <1>4, FS_Interval
    <3> QED
      BY <3>1, <3>2, EventsCardinality
  <2>2. Events!KeepNewest(first..n) = {p \in first..n : n - p < Limit}
    BY <2>1 DEF Events!KeepNewest
  <2>3. CASE n - first < Limit
    <3>1. {p \in first..n : n - p < Limit} = first..n
      BY <2>3, <1>3, <1>4, EventAssumption DEF EventAssumption
    <3>2. first \in first..(n + 1)
      BY <1>3, <1>4
    <3> QED
      BY <2>2, <3>1, <3>2
  <2>4. CASE ~(n - first < Limit)
    <3>1. {p \in first..n : n - p < Limit} = (n - Limit + 1)..n
      BY <2>4, <1>3, <1>4, EventAssumption DEF EventAssumption
    <3>2. (n - Limit + 1) \in first..(n + 1)
      BY <2>4, <1>3, <1>4, EventAssumption DEF EventAssumption
    <3> QED
      BY <2>2, <3>1, <3>2
  <2> QED
    BY <2>3, <2>4
<1>8. PICK low \in first..(n + 1) : stored' = low..n
  <2>1. CASE backend = "memory"
    BY <2>1, <1>5, <1>6, <1>7
  <2>2. CASE backend # "memory"
    BY <2>2, <1>3, <1>4, <1>5, <1>6
  <2> QED
    BY <2>1, <2>2
<1>9. KeptIsRecent'
  BY <1>3, <1>4, <1>8 DEF KeptIsRecent
<1>10. \A p \in 1..Len(log) : p \in stored' => p \in stored
  BY <1>3, <1>4, <1>8
<1> QED
  BY <1>1, <1>2, <1>9, <1>10

\* What the store answers a browser: the events from some position on, past
\* the last one the browser heard, and before it none the store still holds.
Follows(c, first, n) ==
  /\ first \in 1..(Len(log) + 1) /\ n \in Nat /\ first + n <= Len(log) + 1
  /\ Events!Cursor(c) < first
  /\ \A p \in stored : p < first => p <= Events!Cursor(c)

LEMMA CursorIsPosition ==
  ASSUME StreamShape, NEW c \in Clients, HeardInOrder(c)
  PROVE  /\ Events!Cursor(c) \in 0..Len(log)
         /\ heard[c] \in Seq(Nat) /\ Len(heard[c]) \in Nat /\ Len(log) \in Nat
         /\ Len(heard[c]) > 0 => Events!Cursor(c) = heard[c][Len(heard[c])]
         /\ Len(heard[c]) = 0 => Events!Cursor(c) = 0
<1>1. heard[c] \in Seq(Nat) /\ Len(heard[c]) \in Nat /\ Len(log) \in Nat
  BY DEF StreamShape
<1>2. heard[c] = <<>> <=> Len(heard[c]) = 0
  BY <1>1, EmptySeq
<1>3. CASE Len(heard[c]) = 0
  BY <1>1, <1>2, <1>3 DEF Events!Cursor, Events!None
<1>4. CASE Len(heard[c]) # 0
  BY <1>1, <1>2, <1>4 DEF Events!Cursor, Events!Last, HeardInOrder
<1> QED
  BY <1>1, <1>3, <1>4

LEMMA HistoryFollows ==
  ASSUME StreamShape, KeptIsRecent, NEW c \in Clients, HeardInOrder(c)
  PROVE  \E first, n \in Nat : Follows(c, first, n) /\ Events!History(c) = Run(first, n)
<1>1. PICK low \in 1..(Len(log) + 1) : stored = low..Len(log)
  BY DEF KeptIsRecent
<1> DEFINE cursor == Events!Cursor(c)
<1>2. cursor \in 0..Len(log) /\ Len(log) \in Nat
  BY CursorIsPosition
<1>3. ASSUME NEW first \in 1..(Len(log) + 1), Events!EventsAfter(stored, cursor) = first..Len(log),
             cursor < first, \A p \in stored : p < first => p <= cursor
      PROVE  \E f, n \in Nat : Follows(c, f, n) /\ Events!History(c) = Run(f, n)
  <2>1. Events!History(c) = Run(first, Len(log) - first + 1)
    BY <1>2, <1>3, InOrderOfInterval DEF Events!History
  <2>2. Follows(c, first, Len(log) - first + 1)
    BY <1>2, <1>3 DEF Follows
  <2> QED
    BY <1>2, <2>1, <2>2
<1>4. CASE backend = "memory" /\ cursor \notin stored
  <2>1. Events!EventsAfter(stored, cursor) = stored
    BY <1>4 DEF Events!EventsAfter
  <2>2. cursor < low
    BY <1>1, <1>2, <1>4
  <2> QED
    BY <1>1, <1>3, <2>1, <2>2
<1>5. CASE ~(backend = "memory" /\ cursor \notin stored)
  <2>1. Events!EventsAfter(stored, cursor) = {p \in stored : p > cursor}
    BY <1>5 DEF Events!EventsAfter
  <2> DEFINE first == IF low > cursor THEN low ELSE cursor + 1
  <2>2. {p \in stored : p > cursor} = first..Len(log)
    BY <1>1, <1>2
  <2>3. /\ first \in 1..(Len(log) + 1) /\ cursor < first
        /\ \A p \in stored : p < first => p <= cursor
    BY <1>1, <1>2
  <2> HIDE DEF first, cursor
  <2> QED
    BY <1>3, <2>1, <2>2, <2>3
<1> QED
  BY <1>4, <1>5

\* One XREAD returns the first events of the history.
LEMMA WaitedFollows ==
  ASSUME StreamShape, KeptIsRecent, NEW c \in Clients, HeardInOrder(c)
  PROVE  \E first, n \in Nat : Follows(c, first, n) /\ Events!Waited(c) = Run(first, n)
<1>1. PICK first \in Nat, n \in Nat : Follows(c, first, n) /\ Events!History(c) = Run(first, n)
  BY HistoryFollows
<1>2. CASE backend = "redis" /\ Len(Events!History(c)) > Batch
  <2>1. Run(first, n) \in Seq(Nat) /\ Len(Run(first, n)) = n
    BY IsASeq DEF Run
  <2>2. Events!Waited(c) = SubSeq(Run(first, n), 1, Batch) /\ Batch < n /\ Batch \in Nat
    BY <1>1, <1>2, <2>1, EventAssumption DEF Events!Waited, Events!FirstOf, EventAssumption
  <2>3. SubSeq(Run(first, n), 1, Batch) = Run(first, Batch)
    BY <2>2 DEF Run
  <2>4. Follows(c, first, Batch)
    BY <1>1, <2>2 DEF Follows
  <2> QED
    BY <2>2, <2>3, <2>4
<1>3. CASE ~(backend = "redis" /\ Len(Events!History(c)) > Batch)
  BY <1>1, <1>3 DEF Events!Waited
<1> QED
  BY <1>2, <1>3

-----------------------------------------------------------------------------
(* The steps, and what each is for the feed *)

Over == {c \in Clients : client[c].pc = "over"}

\* What a browser knows stands while it hears nothing and is not let go, and the
\* store takes back nothing.
LEMMA BrowsingStands ==
  ASSUME StreamInv, NEW c \in Clients,
         heard'[c] = heard[c], client'[c].pc # "over" => client[c].pc # "over",
         Len(log') \in Nat, Len(log) <= Len(log'),
         \A i \in 1..Len(log) : log'[i] = log[i],
         \A p \in 1..Len(log) : p \in stored' => p \in stored
  PROVE  Browsing(c)'
<1>1. HeardInOrder(c) /\ NotComplete(c) /\ OthersAreLost(c) /\ StreamShape
  BY DEF StreamInv, Browsing
<1>2. Events!Cursor(c)' = Events!Cursor(c) /\ Events!Cursor(c) \in 0..Len(log) /\ Len(log) \in Nat
  BY <1>1, CursorIsPosition DEF Events!Cursor
<1>3. HeardInOrder(c)'
  BY <1>1, <1>2 DEF HeardInOrder
<1>4. NotComplete(c)'
  BY <1>1, <1>2 DEF NotComplete, HeardInOrder
<1>5. OthersAreLost(c)'
  BY <1>1, <1>2 DEF OthersAreLost
<1> QED
  BY <1>3, <1>4, <1>5 DEF Browsing

\* t is s with the k events from first on, in the order of a log of top events.
Hears(s, t, m, first, k, top) ==
  /\ first > 0 /\ first + k <= top + 1
  /\ \A i \in 1..m : s[i] \in 1..top
  /\ \A i \in 1..(m - 1) : s[i] < s[i + 1]
  /\ m > 0 => s[m] < first
  /\ \A i \in 1..(m + k) : t[i] = IF i <= m THEN s[i] ELSE first + (i - m) - 1

LEMMA HearsMore ==
  ASSUME NEW s, NEW t, NEW m \in Nat, NEW first \in Nat, NEW k \in Nat, NEW top \in Nat,
         Hears(s, t, m, first, k, top)
  PROVE  /\ \A i \in 1..m : t[i] = s[i]
         /\ \A j \in 1..k : t[m + j] = first + j - 1
         /\ \A i \in 1..(m + k) : t[i] \in 1..top
         /\ \A i \in 1..(m + k - 1) : t[i] < t[i + 1]
         /\ \A i \in 1..(m + k) : i > m => \E j \in 1..k : i = m + j
<1> USE DEF Hears
<1>5. \A i \in 1..m : t[i] = s[i]
  OBVIOUS
<1>6. \A j \in 1..k : t[m + j] = first + j - 1
  <2> TAKE j \in 1..k
  <2>1. m + j \in 1..(m + k) /\ ~(m + j <= m) /\ first + ((m + j) - m) - 1 = first + j - 1
    OBVIOUS
  <2> QED
    BY <2>1
<1>7. \A i \in 1..(m + k) : t[i] \in 1..top
  <2> TAKE i \in 1..(m + k)
  <2>1. CASE i <= m
    BY <2>1
  <2>2. CASE i > m
    BY <2>2
  <2> QED
    BY <2>1, <2>2
<1>8. \A i \in 1..(m + k - 1) : t[i] < t[i + 1]
  <2> TAKE i \in 1..(m + k - 1)
  <2>1. i \in 1..(m + k) /\ i + 1 \in 1..(m + k)
    OBVIOUS
  <2>2. CASE i < m
    <3>1. i \in 1..(m - 1) /\ i + 1 <= m /\ i <= m
      BY <2>2
    <3> QED
      BY <2>1, <3>1
  <2>3. CASE i = m
    <3>1. t[i] = s[m] /\ t[i + 1] = first /\ m > 0
      BY <2>1, <2>3
    <3> QED
      BY <3>1
  <2>4. CASE i > m
    <3>1. t[i] = first + (i - m) - 1 /\ t[i + 1] = first + (i + 1 - m) - 1
      BY <2>1, <2>4
    <3> QED
      BY <3>1
  <2> QED
    BY <2>2, <2>3, <2>4
<1>9. \A i \in 1..(m + k) : i > m => \E j \in 1..k : i = m + j
  <2> TAKE i \in 1..(m + k)
  <2> SUFFICES ASSUME i > m PROVE i - m \in 1..k /\ i = m + (i - m)
    OBVIOUS
  <2> QED
    OBVIOUS
<1> QED
  BY <1>5, <1>6, <1>7, <1>8, <1>9

\* Events in their order, after those heard so far.
LEMMA RunExtends ==
  ASSUME NEW s \in Seq(Nat), NEW first \in Nat, NEW k \in Nat
  PROVE  /\ s \o Run(first, k) \in Seq(Nat)
         /\ Len(s \o Run(first, k)) = Len(s) + k
         /\ \A i \in 1..(Len(s) + k) :
              (s \o Run(first, k))[i] = IF i <= Len(s) THEN s[i] ELSE first + (i - Len(s)) - 1
<1>1. \A j \in 1..k : first + j - 1 \in Nat
  OBVIOUS
<1>2. /\ Run(first, k) \in Seq(Nat) /\ Len(Run(first, k)) = k
      /\ \A j \in 1..k : Run(first, k)[j] = first + j - 1
  BY <1>1, IsASeq DEF Run
<1>3. ASSUME NEW r \in Seq(Nat), Len(r) = k, \A j \in 1..k : r[j] = first + j - 1
      PROVE  /\ s \o r \in Seq(Nat) /\ Len(s \o r) = Len(s) + k
             /\ \A i \in 1..(Len(s) + k) :
                  (s \o r)[i] = IF i <= Len(s) THEN s[i] ELSE first + (i - Len(s)) - 1
  <2>1. s \o r \in Seq(Nat) /\ Len(s \o r) = Len(s) + k /\ Len(s) \in Nat
    BY <1>3, ConcatProperties, LenProperties
  <2>2. \A i \in 1..(Len(s) + k) : (s \o r)[i] = IF i <= Len(s) THEN s[i] ELSE r[i - Len(s)]
    BY <1>3, ConcatProperties
  <2>3. \A i \in 1..(Len(s) + k) : ~(i <= Len(s)) => i - Len(s) \in 1..k
    BY <2>1
  <2> QED
    BY <1>3, <2>1, <2>2, <2>3
<1> QED
  BY <1>2, <1>3

\* A delivery, whole or cut off: the browser hears further events of the log.
LEMMA Delivered ==
  ASSUME StreamInv, NEW c \in Clients, client[c].pc \in {"admitted", "waiting"},
         NEW first \in Nat, NEW n \in Nat, Follows(c, first, n), Events!Deliver(c, Run(first, n)),
         UNCHANGED <<log, stored, present, row>>
  PROVE  StreamInv' /\ Events!Feed!Hear(c)
<1>1. /\ HeardInOrder(c) /\ NotComplete(c) /\ OthersAreLost(c)
      /\ Events!Cursor(c) \in 0..Len(log) /\ heard[c] \in Seq(Nat) /\ Len(heard[c]) \in Nat
      /\ Len(log) \in Nat
      /\ Len(heard[c]) > 0 => Events!Cursor(c) = heard[c][Len(heard[c])]
      /\ Len(heard[c]) = 0 => Events!Cursor(c) = 0
  BY CursorIsPosition DEF Browsing, StreamInv
<1>2. Run(first, n) \in Seq(Nat) /\ Len(Run(first, n)) = n
  BY IsASeq DEF Run
<1> DEFINE end(got) == \E i \in DOMAIN got : log[got[i]] = "completed"
           next(got, k) ==
             IF end(got) THEN [client[c] EXCEPT !.pc = "over"]
             ELSE IF k < n \/ (Run(first, n) = <<>> /\ client[c].saw # "running") THEN Events!Idle
             ELSE [client[c] EXCEPT !.pc = "waiting"]
<1>3. PICK k \in 0..n :
        /\ heard' = [heard EXCEPT ![c] = @ \o SubSeq(Run(first, n), 1, k)]
        /\ client' = [client EXCEPT ![c] = next(SubSeq(Run(first, n), 1, k), k)]
  <2>1. client \in [Clients -> [pc : {"idle", "admitted", "waiting", "over"}, saw : {"running", "ended"}]]
    BY DEF StreamInv, StreamShape
  <2>2. PICK k \in 0..Len(Run(first, n)) :
          /\ heard' = [heard EXCEPT ![c] = @ \o SubSeq(Run(first, n), 1, k)]
          /\ client' = [client EXCEPT ![c] =
               IF end(SubSeq(Run(first, n), 1, k)) THEN [@ EXCEPT !.pc = "over"]
               ELSE IF k < Len(Run(first, n)) \/ (Run(first, n) = <<>> /\ @.saw # "running") THEN Events!Idle
               ELSE [@ EXCEPT !.pc = "waiting"]]
    BY Zenon DEF Events!Deliver
  <2> QED
    BY <1>2, <2>1, <2>2
<1>4. SubSeq(Run(first, n), 1, k) = Run(first, k)
  BY <1>2 DEF Run
<1> DEFINE got == Run(first, k)
           h == heard[c]
           g == heard'[c]
<1>5. DOMAIN got = 1..k /\ \A i \in 1..k : got[i] = first + i - 1
  BY DEF Run
<1>6. heard' = [heard EXCEPT ![c] = heard[c] \o got] /\ client' = [client EXCEPT ![c] = next(got, k)]
  BY <1>3, <1>4
<1>7. g = h \o got /\ \A d \in Clients \ {c} : heard'[d] = heard[d]
  BY <1>6 DEF StreamInv, StreamShape
<1>m. PICK m \in Nat : m = Len(h)
  BY <1>1
<1>8. /\ g \in Seq(Nat) /\ Len(g) = m + k
      /\ \A i \in 1..m : g[i] = h[i]
      /\ \A j \in 1..k : g[m + j] = first + j - 1
      /\ \A i \in 1..(m + k) : g[i] \in 1..Len(log)
      /\ \A i \in 1..(m + k - 1) : g[i] < g[i + 1]
      /\ \A i \in 1..(m + k) : i > m => \E j \in 1..k : i = m + j
  <2> DEFINE top == Len(log)
  <2>1. k \in Nat /\ first > 0 /\ first + k <= top + 1 /\ top \in Nat /\ first \in Nat
    BY <1>1 DEF Follows
  <2>2. Len(h) > 0 => h[Len(h)] < first
    BY <1>1 DEF Follows
  <2>3. /\ \A i \in 1..Len(h) : h[i] \in 1..top
        /\ \A i \in 1..(Len(h) - 1) : h[i] < h[i + 1]
    BY <1>1 DEF HeardInOrder
  <2>4. h \in Seq(Nat) /\ g = h \o Run(first, k)
    BY <1>1, <1>7
  <2> HIDE DEF h, g, top
  <2>5. /\ g \in Seq(Nat) /\ Len(g) = Len(h) + k
        /\ \A i \in 1..(Len(h) + k) : g[i] = IF i <= Len(h) THEN h[i] ELSE first + (i - Len(h)) - 1
    BY <2>1, <2>4, RunExtends
  <2>6. /\ g \in Seq(Nat) /\ Len(g) = m + k
        /\ Hears(h, g, m, first, k, top)
    BY <1>m, <2>1, <2>2, <2>3, <2>5 DEF Hears
  <2>7. /\ \A i \in 1..m : g[i] = h[i]
        /\ \A j \in 1..k : g[m + j] = first + j - 1
        /\ \A i \in 1..(m + k) : g[i] \in 1..top
        /\ \A i \in 1..(m + k - 1) : g[i] < g[i + 1]
        /\ \A i \in 1..(m + k) : i > m => \E j \in 1..k : i = m + j
    <3>1. m \in Nat /\ first \in Nat /\ k \in Nat /\ top \in Nat /\ Hears(h, g, m, first, k, top)
      BY <2>1, <2>6
    <3>2. \A i \in 1..m : g[i] = h[i]
      BY <3>1, HearsMore
    <3>3. \A j \in 1..k : g[m + j] = first + j - 1
      <4> TAKE j \in 1..k
      <4>1. m + j \in 1..(m + k) /\ ~(m + j <= m) /\ first + ((m + j) - m) - 1 = first + j - 1
        BY <3>1
      <4> QED
        BY <3>1, <4>1 DEF Hears
    <3>4. \A i \in 1..(m + k) : g[i] \in 1..top
      BY <3>1, HearsMore
    <3>5. \A i \in 1..(m + k - 1) : g[i] < g[i + 1]
      BY <3>1, HearsMore, Zenon
    <3>6. \A i \in 1..(m + k) : i > m => \E j \in 1..k : i = m + j
      BY <3>1, HearsMore
    <3> QED
      BY <3>2, <3>3, <3>4, <3>5, <3>6
  <2> QED
    BY <2>6, <2>7 DEF top
<1>9. HeardInOrder(c)'
  <2> HIDE DEF g, h
  <2>1. /\ \A i \in 1..Len(g) : g[i] \in 1..Len(log)
        /\ \A i \in 1..(Len(g) - 1) : g[i] < g[i + 1]
    BY <1>8
  <2> QED
    BY <2>1 DEF HeardInOrder, g
<1>10. heard' \in [Clients -> Seq(Nat)]
  BY <1>6, <1>7, <1>8 DEF StreamInv, StreamShape
<1>11. end(got) <=> \E i \in 1..Len(g) : log[g[i]] = "completed"
  <2>1. end(got) <=> \E j \in 1..k : log[first + j - 1] = "completed"
    BY <1>5
  <2>2. \A i \in 1..m : log[h[i]] # "completed"
    BY <1>1, <1>m DEF NotComplete
  <2>3. \A j \in 1..k : m + j \in 1..Len(g)
    BY <1>8
  <2> HIDE DEF g, h, got, end
  <2>4. ASSUME NEW j \in 1..k, log[first + j - 1] = "completed"
        PROVE  \E i \in 1..Len(g) : log[g[i]] = "completed"
    BY <1>8, <2>3, <2>4
  <2>5. ASSUME NEW i \in 1..Len(g), log[g[i]] = "completed"
        PROVE  \E j \in 1..k : log[first + j - 1] = "completed"
    <3>1. i \in 1..(m + k)
      BY <1>8, <2>5
    <3>2. CASE i > m
      BY <1>8, <2>5, <3>1, <3>2
    <3>3. CASE i <= m
      <4>1. i \in 1..m
        BY <3>1, <3>3
      <4> QED
        BY <1>8, <2>2, <2>5, <4>1
    <3> QED
      BY <3>1, <3>2, <3>3
  <2> QED
    BY <2>1, <2>4, <2>5
<1> HIDE DEF end
<1>12. /\ client' \in [Clients -> [pc : {"idle", "admitted", "waiting", "over"},
                                   saw : {"running", "ended"}]]
       /\ \A d \in Clients \ {c} : client'[d] = client[d]
       /\ client'[c].pc = "over" <=> end(got)
  <2>1. next(got, k) \in [pc : {"idle", "admitted", "waiting", "over"}, saw : {"running", "ended"}]
    BY DEF StreamInv, StreamShape, Events!Idle
  <2>2. next(got, k).pc = "over" <=> end(got)
    BY DEF StreamInv, StreamShape, Events!Idle
  <2> HIDE DEF next, got
  <2> QED
    BY <1>6, <2>1, <2>2 DEF StreamInv, StreamShape
<1> HIDE DEF got, next
<1>13. NotComplete(c)'
  BY <1>11, <1>12 DEF NotComplete
<1>14. OthersAreLost(c)'
  <2>1. Events!Cursor(c)' = IF Len(g) = 0 THEN 0 ELSE g[Len(g)]
    BY <1>8 DEF Events!Cursor, Events!None, Events!Last
  <2>2. \A p \in 1..Events!Cursor(c) : (\E i \in 1..m : h[i] = p) \/ p \notin stored
    BY <1>1, <1>m DEF OthersAreLost
  <2>3. Events!Cursor(c) = IF m = 0 THEN 0 ELSE h[m]
    BY <1>1, <1>m
  <2> HIDE DEF g, h
  <2>4. ASSUME NEW p \in 1..(IF m + k = 0 THEN 0 ELSE g[m + k]), p \in stored
        PROVE  \E i \in 1..(m + k) : g[i] = p
    <3>1. CASE p <= Events!Cursor(c)
      <4>1. PICK i \in 1..m : h[i] = p
        BY <1>1, <2>2, <2>4, <3>1
      <4>2. i \in 1..(m + k) /\ g[i] = p
        BY <1>8, <4>1
      <4> QED
        BY <4>2
    <3>2. CASE p > Events!Cursor(c)
      <4>1. k > 0
        <5>1. CASE k = 0 /\ m > 0
          <6>1. m \in 1..m /\ m + k = m
            BY <5>1
          <6>2. p <= Events!Cursor(c)
            BY <1>8, <2>3, <2>4, <5>1, <6>1
          <6> QED
            BY <1>1, <3>2, <6>2
        <5>2. CASE k = 0 /\ m = 0
          BY <2>4, <5>2
        <5> QED
          BY <5>1, <5>2
      <4>2. k \in 1..k /\ g[m + k] = first + k - 1
        BY <1>8, <4>1
      <4>3. p >= first /\ p <= first + k - 1
        BY <1>1, <2>4, <3>2, <4>1, <4>2 DEF Follows
      <4>4. p - first + 1 \in 1..k /\ m + (p - first + 1) \in 1..(m + k)
            /\ first + (p - first + 1) - 1 = p
        BY <4>3
      <4>5. g[m + (p - first + 1)] = first + (p - first + 1) - 1
        BY <1>8, <4>4
      <4> QED
        BY <4>4, <4>5
    <3> QED
      BY <1>1, <3>1, <3>2
  <2>5. Len(g) = m + k
    BY <1>8
  <2> QED
    BY <2>1, <2>4, <2>5 DEF OthersAreLost, g
<1>15. ASSUME NEW d \in Clients \ {c} PROVE Browsing(d)'
  BY <1>1, <1>7, <1>12, BrowsingStands
<1>16. StreamInv'
  <2>1. StreamShape' /\ KeptIsRecent'
    BY <1>10, <1>12 DEF StreamInv, StreamShape, KeptIsRecent
  <2> QED
    BY <2>1, <1>9, <1>13, <1>14, <1>15 DEF StreamInv, Browsing
<1>17. Events!Feed!Hear(c)
  <2>1. c \notin Over /\ Over' = IF end(got) THEN Over \cup {c} ELSE Over
    BY <1>12 DEF Over
  <2>2. Len(heard'[c]) >= Len(heard[c])
    BY <1>m, <1>8
  <2>3. Events!Feed!IsPrefix(heard[c], heard'[c])
    BY <1>1, <1>8, <1>m DEF Events!Feed!IsPrefix
  <2>4. Events!Feed!Increasing(heard'[c])
    BY <1>8 DEF Events!Feed!Increasing
  <2>5. DOMAIN heard'[c] = 1..Len(heard'[c]) /\ DOMAIN log = 1..Len(log)
    BY <1>8 DEF StreamInv, StreamShape
  <2>6. heard' = [heard EXCEPT ![c] = heard'[c]]
    BY <1>6, <1>7
  <2> QED
    BY <1>8, <1>11, <2>1, <2>2, <2>3, <2>4, <2>5, <2>6 DEF Events!Feed!Hear, Over
<1> QED
  BY <1>16, <1>17

\* A step in which no browser hears anything and none comes back.
LEMMA StreamStands ==
  ASSUME StreamInv,
         log' \in Seq(Types), Len(log) <= Len(log'), \A i \in 1..Len(log) : log'[i] = log[i],
         \A p \in 1..Len(log) : p \in stored' => p \in stored,
         KeptIsRecent', row' \in {"running", "ended"}, heard' = heard,
         client' \in [Clients -> [pc : {"idle", "admitted", "waiting", "over"},
                                 saw : {"running", "ended"}]],
         \A c \in Clients : client'[c].pc # "over" => client[c].pc # "over"
  PROVE  StreamInv'
<1>1. StreamShape'
  BY DEF StreamInv, StreamShape
<1>2. ASSUME NEW c \in Clients PROVE Browsing(c)'
  <2>1. Len(log') \in Nat
    BY LenProperties
  <2> QED
    BY <2>1, BrowsingStands
<1> QED
  BY <1>1, <1>2 DEF StreamInv

\* The events of a store that was lost, or none of them.
LEMMA StoreLost ==
  ASSUME StreamInv, stored' = {} \/ stored' = stored, UNCHANGED <<log, row, heard>>,
         client' \in [Clients -> [pc : {"idle", "admitted", "waiting", "over"},
                                 saw : {"running", "ended"}]],
         \A c \in Clients : client'[c].pc # "over" => client[c].pc # "over"
  PROVE  StreamInv'
<1>1. log \in Seq(Types) /\ Len(log) \in Nat /\ row \in {"running", "ended"}
  BY DEF StreamInv, StreamShape
<1>2. KeptIsRecent'
  <2>1. CASE stored' = stored
    BY <2>1 DEF StreamInv, KeptIsRecent
  <2>2. CASE stored' = {}
    <3>1. {} = (Len(log) + 1)..Len(log) /\ Len(log) + 1 \in 1..(Len(log) + 1)
      BY <1>1
    <3> QED
      BY <2>2, <3>1 DEF KeptIsRecent
  <2> QED
    BY <2>1, <2>2
<1> QED
  BY <1>1, <1>2, StreamStands

\* Events are published.
LEMMA PutPublishes ==
  ASSUME StreamInv, NEW types \in {<<"progress">>, <<"failed", "completed">>, <<"completed">>},
         Events!Put(types), UNCHANGED <<client, heard>>, row' \in {"running", "ended"}
  PROVE  StreamInv' /\ Events!Feed!Publish
<1>1. types \in Seq(Types)
  <2>1. "progress" \in Types /\ "failed" \in Types /\ "completed" \in Types
    BY DEF Types
  <2>2. <<"progress">> \in Seq(Types) /\ <<"completed">> \in Seq(Types)
    BY <2>1
  <2>3. <<"failed", "completed">> \in Seq(Types)
    BY <2>1
  <2> QED
    BY <2>2, <2>3
<1>2. /\ log' \in Seq(Types) /\ Len(log') = Len(log) + Len(types) /\ log' = log \o types
      /\ \A i \in 1..Len(log) : log'[i] = log[i]
      /\ KeptIsRecent'
      /\ \A p \in 1..Len(log) : p \in stored' => p \in stored
  BY <1>1, PutKeepsRecent DEF StreamInv
<1>3. Len(types) \in Nat /\ Len(log) \in Nat
  BY <1>1, LenProperties DEF StreamInv, StreamShape
<1>4. Len(log) <= Len(log')
  BY <1>2, <1>3
<1>5. client' \in [Clients -> [pc : {"idle", "admitted", "waiting", "over"}, saw : {"running", "ended"}]]
  BY DEF StreamInv, StreamShape
<1>6. StreamInv'
  BY <1>2, <1>4, <1>5, StreamStands
<1>7. Events!Feed!Publish
  <2>1. Over' = Over
    BY DEF Over
  <2> QED
    BY <1>2, <2>1 DEF Events!Feed!Publish, Events!Put, Over
<1> QED
  BY <1>6, <1>7

LEMMA StreamSteps ==
  ASSUME StreamInv, [Events!Next]_(Events!vars)
  PROVE  StreamInv' /\ [Events!Feed!Next]_(Events!Feed!feed)
<1> DEFINE Same == UNCHANGED <<log, present, heard, Over>>
           Kinds == [pc : {"idle", "admitted", "waiting", "over"}, saw : {"running", "ended"}]
<1>0. /\ client \in [Clients -> Kinds] /\ row \in {"running", "ended"} /\ heard \in [Clients -> Seq(Nat)]
      /\ \A c \in Clients : Browsing(c)
      /\ StreamShape /\ KeptIsRecent
  BY DEF StreamInv, StreamShape
<1>s. ASSUME Same PROVE [Events!Feed!Next]_(Events!Feed!feed)
  BY <1>s DEF Events!Feed!feed, Over
<1>1. ASSUME Events!Progress \/ Events!Announce \/ Events!Late
      PROVE  StreamInv' /\ Events!Feed!Publish
  <2>1. PICK types \in {<<"progress">>, <<"completed">>} : Events!Put(types)
    BY <1>1 DEF Events!Progress, Events!Announce, Events!Late
  <2>2. UNCHANGED <<client, heard, row>>
    BY <1>1 DEF Events!Progress, Events!Announce, Events!Late
  <2> QED
    BY <1>0, <2>1, <2>2, PutPublishes
<1>2. ASSUME Events!EndRow \/ Events!AnnounceFails PROVE StreamInv' /\ Same
  <2>1. UNCHANGED <<log, stored, present, client, heard>> /\ row' \in {"running", "ended"}
    BY <1>0, <1>2 DEF Events!EndRow, Events!AnnounceFails, Events!store
  <2>2. log' \in Seq(Types) /\ Len(log') \in Nat /\ KeptIsRecent'
    BY <1>0, <2>1 DEF StreamShape, KeptIsRecent
  <2>3. StreamInv'
    BY <1>0, <2>1, <2>2, StreamStands
  <2> QED
    BY <2>1, <2>3 DEF Over
<1>3. ASSUME Events!Boot PROVE StreamInv' /\ (Same \/ Events!Feed!Publish)
  <2>1. UNCHANGED <<client, heard>> /\ row' \in {"running", "ended"}
    BY <1>3 DEF Events!Boot
  <2>2. CASE Events!Put(<<"failed", "completed">>)
    BY <2>1, <2>2, PutPublishes
  <2>3. CASE UNCHANGED <<log, stored, present>>
    <3>1. log' \in Seq(Types) /\ Len(log') \in Nat /\ KeptIsRecent'
      BY <1>0, <2>3 DEF StreamShape, KeptIsRecent
    <3>2. StreamInv'
      BY <1>0, <2>1, <2>3, <3>1, StreamStands
    <3> QED
      BY <2>1, <2>3, <3>2 DEF Over
  <2> QED
    BY <1>3, <2>2, <2>3 DEF Events!Boot, Events!store
<1>4. ASSUME Events!Restart PROVE StreamInv' /\ (Same \/ Events!Feed!Lose)
  <2>1. client' = [c \in Clients |-> Events!Cut(c)] /\ UNCHANGED <<log, row, heard>>
    BY <1>4 DEF Events!Restart
  <2>2. \A c \in Clients : Events!Cut(c) \in Kinds /\ (Events!Cut(c).pc = "over" <=> client[c].pc = "over")
    BY <1>0 DEF Events!Cut, Events!Idle
  <2>3. client' \in [Clients -> Kinds] /\ \A c \in Clients : client'[c].pc = "over" <=> client[c].pc = "over"
    BY <2>1, <2>2
  <2>4. (stored' = {} /\ present' = FALSE) \/ (stored' = stored /\ present' = present)
    BY <1>4 DEF Events!Restart
  <2>5. Over' = Over
    BY <2>3 DEF Over
  <2>6. StreamInv'
    BY <2>1, <2>3, <2>4, StoreLost
  <2> QED
    BY <2>1, <2>4, <2>5, <2>6 DEF Events!Feed!Lose, Over
<1>5. ASSUME Events!Expire PROVE StreamInv' /\ Events!Feed!Lose
  <2>1. stored' = {} /\ present' = FALSE /\ UNCHANGED <<log, row, client, heard>>
    BY <1>5 DEF Events!Expire
  <2>2. StreamInv'
    BY <1>0, <2>1, StoreLost
  <2> QED
    BY <2>1, <2>2 DEF Events!Feed!Lose
<1>6. ASSUME NEW c \in Clients, Events!Connect(c) \/ Events!Drop(c) PROVE StreamInv' /\ Same
  <2>1. client[c].pc # "over" /\ UNCHANGED <<log, stored, present, row, heard>>
    BY <1>6 DEF Events!Connect, Events!Drop, Events!store
  <2>2. PICK e \in Kinds : e.pc # "over" /\ client' = [client EXCEPT ![c] = e]
    BY <1>0, <1>6 DEF Events!Connect, Events!Drop, Events!Idle
  <2>3. client' \in [Clients -> Kinds] /\ \A d \in Clients : client'[d].pc = "over" <=> client[d].pc = "over"
    BY <1>0, <2>1, <2>2
  <2>4. Over' = Over
    BY <2>3 DEF Over
  <2>5. StreamInv'
    BY <2>1, <2>3, StoreLost
  <2> QED
    BY <2>1, <2>4, <2>5
<1>7. ASSUME NEW c \in Clients, Events!Replay(c) \/ Events!Stream(c)
      PROVE  StreamInv' /\ Events!Feed!Hear(c)
  <2>1. client[c].pc \in {"admitted", "waiting"} /\ UNCHANGED <<log, stored, present, row>>
    BY <1>7 DEF Events!Replay, Events!Stream, Events!store
  <2>2. HeardInOrder(c)
    BY <1>0 DEF Browsing
  <2>3. PICK first \in Nat, n \in Nat : Follows(c, first, n) /\ Events!Deliver(c, Run(first, n))
    <3>1. CASE Events!Replay(c)
      BY <1>0, <2>2, <3>1, HistoryFollows DEF Events!Replay
    <3>2. CASE Events!Stream(c)
      BY <1>0, <2>2, <3>2, WaitedFollows DEF Events!Stream
    <3> QED
      BY <1>7, <3>1, <3>2
  <2> QED
    BY <2>1, <2>3, Delivered
<1>8. ASSUME NEW c \in Clients, Events!Expired(c) PROVE StreamInv' /\ Events!Feed!Dismiss(c)
  <2>1. ~present /\ UNCHANGED <<log, stored, present, row, heard>>
    BY <1>8 DEF Events!Expired, Events!store
  <2>2. PICK e \in Kinds : e.pc = "over" /\ client' = [client EXCEPT ![c] = e]
    <3>1. [client[c] EXCEPT !.pc = "over"] \in Kinds /\ [client[c] EXCEPT !.pc = "over"].pc = "over"
      BY <1>0
    <3> QED
      BY <1>8, <3>1 DEF Events!Expired
  <2>3. /\ client' \in [Clients -> Kinds] /\ client'[c].pc = "over"
        /\ \A d \in Clients \ {c} : client'[d] = client[d]
    BY <1>0, <2>2
  <2>4. Over' = Over \cup {c}
    BY <2>3 DEF Over
  <2>5. StreamInv'
    BY <2>1, <2>3, StoreLost
  <2> QED
    BY <2>1, <2>4, <2>5 DEF Events!Feed!Dismiss, Over
<1>9. ASSUME NEW c \in Clients, Events!Reload(c) PROVE StreamInv' /\ Events!Feed!StartOver(c)
  <2>1. /\ client' = [client EXCEPT ![c] = Events!Idle] /\ heard' = [heard EXCEPT ![c] = <<>>]
        /\ UNCHANGED <<log, stored, present, row>>
    BY <1>9 DEF Events!Reload, Events!store
  <2>2. Events!Idle \in Kinds /\ Events!Idle.pc # "over"
    BY DEF Events!Idle
  <2>3. /\ client' \in [Clients -> Kinds] /\ client'[c].pc # "over"
        /\ \A d \in Clients \ {c} : client'[d] = client[d] /\ heard'[d] = heard[d]
        /\ heard' \in [Clients -> Seq(Nat)] /\ heard'[c] = <<>>
    BY <1>0, <2>1, <2>2
  <2>4. Over' = Over \ {c}
    BY <2>3 DEF Over
  <2>5. Browsing(c)'
    BY <2>3 DEF Browsing, HeardInOrder, NotComplete, OthersAreLost, Events!Cursor, Events!None
  <2>6. ASSUME NEW d \in Clients \ {c} PROVE Browsing(d)'
    <3>1. Len(log) \in Nat
      BY <1>0 DEF StreamShape
    <3> QED
      BY <2>1, <2>3, <3>1, BrowsingStands
  <2>7. StreamInv'
    BY <1>0, <2>1, <2>3, <2>5, <2>6 DEF StreamInv, StreamShape, KeptIsRecent
  <2> QED
    BY <2>1, <2>4, <2>7 DEF Events!Feed!StartOver, Over
<1>10. ASSUME UNCHANGED Events!vars PROVE StreamInv' /\ Same
  <2>1. UNCHANGED <<log, stored, present, row, client, heard>>
    BY <1>10 DEF Events!vars, Events!store
  <2>2. StreamInv'
    BY <1>0, <2>1, StoreLost
  <2> QED
    BY <2>1, <2>2 DEF Over
<1>11. CASE UNCHANGED Events!vars
  BY <1>10, <1>11, <1>s
<1>12. CASE Events!Publishing
  BY <1>1, <1>2, <1>3, <1>12, <1>s DEF Events!Publishing, Events!Feed!Next
<1>13. CASE Events!Faulting
  BY <1>4, <1>5, <1>13, <1>s DEF Events!Faulting, Events!Feed!Next
<1>14. ASSUME NEW c \in Clients, Events!Serve(c) \/ Events!Drop(c) \/ Events!Reload(c)
       PROVE  StreamInv' /\ [Events!Feed!Next]_(Events!Feed!feed)
  BY <1>6, <1>7, <1>8, <1>9, <1>14, <1>s DEF Events!Serve, Events!Feed!Next
<1> QED
  BY <1>11, <1>12, <1>13, <1>14 DEF Events!Next

LEMMA FeedInitially == Events!Init => Events!Feed!Init
  BY DEF Events!Init, Events!Idle, Events!Feed!Init

-----------------------------------------------------------------------------
(* The theorems *)

\* Whatever connections break, processes restart or events the stores drop, a
\* browser hears the events of a run in the order they were published, none of
\* them twice, and is let go only by the event that completes the run or when
\* there is nothing left to read (runevents/memory.go, redis.go; sse.go).
THEOREM StreamFollowsFeed == Spec => ImplementsFeed
<1>1. Events!Init => StreamInv
  BY StreamInitially
<1>2. StreamInv /\ [Events!Next]_(Events!vars) => StreamInv' /\ [Events!Feed!Next]_(Events!Feed!feed)
  BY StreamSteps
<1>3. Events!Init => Events!Feed!Init
  BY FeedInitially
<1> QED
  BY EventsFollowed, <1>1, <1>2, <1>3, PTL
     DEF ImplementsFeed, Events!ImplementsFeed, Events!Spec, Events!Feed!Spec

\* A browser that was given an event was given every earlier one, but for
\* those the store no longer holds (memory.go eventsAfter, redis.go Wait).
THEOREM OnlyTheLostAreSkipped == Spec => []Events!SkipsOnlyTheLost
<1>1. Events!Init => StreamInv
  BY StreamInitially
<1>2. StreamInv /\ [Events!Next]_(Events!vars) => StreamInv'
  BY StreamSteps
<1>3. StreamInv => Events!SkipsOnlyTheLost
  <2>1. ASSUME StreamInv, NEW c \in Clients PROVE DOMAIN heard[c] = 1..Len(heard[c])
    BY <2>1 DEF StreamInv, StreamShape
  <2> QED
    BY <2>1 DEF StreamInv, Browsing, OthersAreLost, Events!SkipsOnlyTheLost
<1> QED
  BY EventsFollowed, <1>1, <1>2, <1>3, PTL DEF Events!Spec
=============================================================================
