----------------------------- MODULE MCServices -----------------------------
(***************************************************************************)
(* The services around the runs of a session and the tools around the      *)
(* product share no state that matters to each other.  They are checked in *)
(* one run: each behaviour follows one of them, the "subject", and the     *)
(* others stand still in an initial state.                                 *)
(***************************************************************************)
EXTENDS Naturals, FiniteSets, Sequences

CONSTANTS Requests, MaxWrites, MaxAging, MaxExpiries,
          Calls, Bodies, MaxFaults,
          Users, Owners, Logins,
          Versions, Keys, Creates, Readers,
          Values, Saves, Deletes, Confirms, MaxRows, MaxRevision,
          Clients, Limit, Batch, MaxLog, MaxDrops, MaxOutages,
          Agents, Layers, MaxEvents, MaxBreaks, MaxCalls, MaxHarm,
          Searches, Collectors, BatchOf, Budget, Plan,
          Pages, MaxPageCalls, Configured, Queries,
          Order, Gold, Script, Gates, Floors, Selftest, Splits, Repeats, Recordings,
          Categories, PartDirs, PriceDirs, PriceFiles, Dates, Before,
          Runs, Recorded, Indexes

\* A chain that names a model twice.
ThreeNames == <<"m1", "m2", "m1">>

\* Every mixture of a few titles, texts, scripts and password fields, addresses
\* and answers that fail, and what a browser would see of an empty shell.
Seen(text, title) ==
  [success |-> TRUE, status |-> 200, final |-> 0, redirected |-> 0, endsAt |-> "public",
   text |-> text, title |-> title]

Page(title, text, scripts, password) ==
  [link |-> "public", answer |-> "html", host |-> "shop", title |-> title, text |-> text,
   scripts |-> scripts, password |-> password, browser |-> Seen("article", "named")]

Mixed == {Page(title, text, scripts, password) :
            title \in {"named", "login", "denied"}, text \in {"", "loading", "denied", "article"},
            scripts \in BOOLEAN, password \in BOOLEAN}
Shell == Page("named", "", TRUE, FALSE)

MCPages ==
  Mixed \cup
  {[Shell EXCEPT !.browser = b] : b \in
     {[Seen("article", "named") EXCEPT !.success = FALSE],
      [Seen("article", "named") EXCEPT !.redirected = 404],
      [Seen("article", "named") EXCEPT !.status = 301, !.final = 200],
      [Seen("article", "named") EXCEPT !.endsAt = "elsewhere"],
      Seen("", "named"), Seen("images", "named"), Seen("cookies", "named"), Seen("article", "denied")}}
  \cup {[Shell EXCEPT !.link = l] : l \in {"not https", "not public"}}
  \cup {[Shell EXCEPT !.answer = a] : a \in {"network", "http_status", "too_large", "unsupported",
                                            "encoding", "plain"}}
  \cup {[Shell EXCEPT !.host = "login"], [Shell EXCEPT !.text = "cookies"],
        [Shell EXCEPT !.text = "images"], [Page("login", "article", FALSE, FALSE) EXCEPT !.answer = "plain"]}

\* What is imported, and what the evaluation leaves behind and is said of it.
History       == INSTANCE MCDataReleases
MCPartDirs    == History!Directories
MCPriceDirs   == History!Releases
MCPriceFiles  == History!Files
MCBefore      == History!Old
Failures      == INSTANCE MCBadCases
MCRecorded    == Failures!Profiles
MCIndexes     == Failures!Written
Dataset       == INSTANCE MCEvaluation
MCOrder       == Dataset!Cases
MCGold        == Dataset!Expected
MCScript      == Dataset!Happens
MCGates       == Dataset!Thresholds
MCFloors      == Dataset!Least
MCSelftest    == Dataset!Known
MCSplits      == Dataset!Asks
MCRepeats     == Dataset!Counted
MCRecordings  == Dataset!Compared

\* What stands for "none" is none of the calls, and the bounds are numbers.
ASSUME KeyAssumption == "nobody" \notin Calls /\ MaxFaults \in Nat
ASSUME VaultAssumption ==
  /\ "free" \notin Requests
  /\ MaxWrites \in Nat \ {0} /\ MaxAging \in Nat /\ MaxExpiries \in Nat
ASSUME ClaimAssumption == "nobody" \notin Users \cup Logins
ASSUME EventAssumption == Limit \in Nat /\ Batch \in Nat
ASSUME QuotaAssumption ==
  /\ IsFiniteSet(Searches) /\ IsFiniteSet(Collectors)
  /\ BatchOf \in Nat /\ Budget \in Nat /\ Plan \in Nat
ASSUME PageAssumption ==
  \A p \in Pages :
    /\ p.link \in {"public", "not https", "not public"}
    /\ p.answer \in {"html", "plain", "network", "http_status", "too_large", "unsupported", "encoding"}
\* Evidence from before there were releases is of none.  A selection that is
\* carried forward names the day it is carried from (pcdata/prices.py:466).
ASSUME ImportAssumption ==
  /\ \A dir \in PartDirs : dir = [f \in {"parts", "evidence", "manifest"} |-> dir[f]]
  /\ \A e \in Before.evidence :
       e = [f \in {"id", "status", "release"} |-> e[f]] /\ e.release = ""
ASSUME PriceAssumption ==
  /\ \A dir \in PriceDirs :
       /\ dir.manifest.date \in Nat
       /\ \A i \in DOMAIN dir.selections :
            /\ dir.selections[i].carried \in BOOLEAN
            /\ dir.selections[i].carried => dir.selections[i].from # 0
  /\ \A file \in PriceFiles :
       /\ file.rows \in Seq({file.rows[i] : i \in DOMAIN file.rows})
       /\ file.date \in Nat /\ \A i \in DOMAIN file.rows : file.rows[i].observed \in Nat

\* The name of an assertion is not empty, and a veto is an assertion that
\* failed (requirement_v2_grade.go:282, requirement_v2_run.go:783).
ASSUME TryAssumption ==
  \A n \in Runs : \A r \in Recorded[n] :
    /\ r = [f \in DOMAIN r |-> r[f]] /\ {"rows", "harm", "report"} \subseteq DOMAIN r
    /\ \A try \in r.rows :
         /\ try.skipped \in BOOLEAN /\ try.veto \in BOOLEAN
         /\ try.failed \subseteq try.judged \ {""}
         /\ "veto" \in try.failed => try.veto

\* The cases are a list, each of one of the layers, and a turn shows finitely many
\* operations (requirement_v2.go:37).
ASSUME EvalAssumption ==
  /\ Len(Order) \in Nat /\ Order = [i \in 1..Len(Order) |-> Order[i]]
  /\ Repeats \subseteq Nat
  /\ \A i \in DOMAIN Order :
       LET c == Order[i]
           turns == Script[c].turns
       IN  /\ Gold[c].layer \in {"reducer", "readiness", "policy", "ui-contract", "extraction",
                                "conversations"}
           /\ Len(turns) \in Nat /\ turns = [j \in 1..Len(turns) |-> turns[j]]
           /\ \A j \in DOMAIN turns : \A p \in turns[j] : IsFiniteSet(p.ops)

VARIABLES
  subject,
  record, lock, lost, req, writes, aging, expiries,
  kept, holder, late, call, ran, mishaps,
  owns, primary, locked, login, tokens,
  shares, create, reader,
  rows, used, draft, save, delete, confirm, edits,
  backend, log, stored, present, row, writer, client, heard, drops, outages,
  store, agent, issued, acked, overlapped, breaks,
  stage, request, results, verdict, replayed, outcome,
  catalog, publications, evidence, jobs, observations, snapshots, prices, released, view,
  disk, index,
  counted, shown, reserved, search, batch, looked, missed,
  hasBrowser, calls, pages, last,
  retries, gone, built, exhausted, query, broken

vault  == <<record, lock, lost, req, writes, aging, expiries>>
key    == <<kept, holder, late, call, ran, mishaps>>
claims == <<owns, primary, locked, login, tokens>>
share  == <<shares, create, reader>>
memory == <<rows, used, draft, save, delete, confirm, edits>>
events == <<backend, log, stored, present, row, writer, client, heard, drops, outages>>
agents == <<store, agent, issued, acked, overlapped, breaks>>
report == <<stage, request, results, verdict, replayed, outcome>>
data   == <<catalog, publications, evidence, jobs, observations, snapshots, prices, released, view>>
failed == <<disk, index>>
quota  == <<counted, shown, reserved, search, batch, looked, missed>>
read   == <<hasBrowser, calls, pages, last>>
chain  == <<retries, gone, built, exhausted, query, broken>>
vars   == <<subject, vault, key, claims, share, memory, events, agents, report, data, failed,
            quota, read, chain>>

Vault  == INSTANCE SessionVault
Key    == INSTANCE IdempotentCall
Claims == INSTANCE AccountClaims
Share  == INSTANCE Sharing
Memory == INSTANCE PreferenceMemory
Events == INSTANCE EventStream
  WITH kept <- stored, faults <- outages, MaxFaults <- MaxOutages
Agent  == INSTANCE AgentSession
Eval   == INSTANCE EvalReport
Data   == INSTANCE DataReleases
Cases  == INSTANCE BadCases
Quota  == INSTANCE SearchQuota WITH used <- counted
Reading == INSTANCE PageReading WITH evidence <- pages
Models == INSTANCE ModelChain

\* What stands still is in the initial state named here.
Parked(name, v, value) == subject = name \/ (subject # name /\ v = value)

Init ==
  /\ subject \in {"vault", "key", "claims", "share", "memory", "events", "agents", "report", "data",
                 "failed", "quota", "read", "chain"}
  /\ Parked("key", call,
            LET b == CHOOSE b \in Bodies : TRUE
            IN  [c \in Calls |-> [pc |-> "idle", body |-> b, answer |-> Key!Nobody]])
  /\ Parked("claims", login,
            LET u == CHOOSE u \in Users : TRUE
                o == CHOOSE o \in Owners : TRUE
            IN  [l \in Logins |-> [pc |-> "asked", user |-> u, owner |-> o, first |-> FALSE]])
  /\ LET t == CHOOSE t \in Share!Token : TRUE
     IN  /\ Parked("share", create,
                   [c \in Creates |-> [pc |-> "idle", token |-> t, owner |-> TRUE, saw |-> Share!None]])
         /\ Parked("share", reader, [r \in Readers |-> [pc |-> "idle", token |-> t]])
  /\ Parked("memory", save,
            LET o == CHOOSE o \in Owners : TRUE
            IN  [s \in Saves |-> [pc |-> "idle", owner |-> o, value |-> Memory!None,
                                  found |-> Memory!NoId, again |-> FALSE, seen |-> {}]])
  /\ Parked("memory", rows, <<>>)
  /\ Parked("events", backend, "memory")
  /\ Parked("data", catalog, <<>>)
  /\ Parked("quota", counted, 0)
  /\ Parked("read", hasBrowser, TRUE)
  /\ Parked("chain", retries, 0) /\ Parked("chain", gone, {})
  /\ Vault!Init /\ Key!Init /\ Claims!Init /\ Share!Init /\ Memory!Init /\ Events!Init
  /\ Agent!Init /\ Eval!Init /\ Data!Init /\ Cases!Init /\ Quota!Init
  /\ Reading!Init /\ Models!Init

Next ==
  /\ UNCHANGED subject
  /\ \/ /\ subject = "vault" /\ Vault!Next
        /\ UNCHANGED <<key, claims, share, memory, events, agents, report, data, failed, quota, read, chain>>
     \/ /\ subject = "key" /\ Key!Next
        /\ UNCHANGED <<vault, claims, share, memory, events, agents, report, data, failed, quota, read, chain>>
     \/ /\ subject = "claims" /\ Claims!Next
        /\ UNCHANGED <<vault, key, share, memory, events, agents, report, data, failed, quota, read, chain>>
     \/ /\ subject = "share" /\ Share!Next
        /\ UNCHANGED <<vault, key, claims, memory, events, agents, report, data, failed, quota, read, chain>>
     \/ /\ subject = "memory" /\ Memory!Next
        /\ UNCHANGED <<vault, key, claims, share, events, agents, report, data, failed, quota, read, chain>>
     \/ /\ subject = "events" /\ Events!Next
        /\ UNCHANGED <<vault, key, claims, share, memory, agents, report, data, failed, quota, read, chain>>
     \/ /\ subject = "agents" /\ Agent!Next
        /\ UNCHANGED <<vault, key, claims, share, memory, events, report, data, failed, quota, read, chain>>
     \/ /\ subject = "report" /\ Eval!Next
        /\ UNCHANGED <<vault, key, claims, share, memory, events, agents, data, failed, quota, read, chain>>
     \/ /\ subject = "data" /\ Data!Next
        /\ UNCHANGED <<vault, key, claims, share, memory, events, agents, report, failed, quota, read, chain>>
     \/ /\ subject = "failed" /\ Cases!Next
        /\ UNCHANGED <<vault, key, claims, share, memory, events, agents, report, data, quota, read, chain>>
     \/ /\ subject = "quota" /\ Quota!Next
        /\ UNCHANGED <<vault, key, claims, share, memory, events, agents, report, data, failed, read, chain>>
     \/ /\ subject = "read" /\ Reading!Next
        /\ UNCHANGED <<vault, key, claims, share, memory, events, agents, report, data, failed, quota, chain>>
     \/ /\ subject = "chain" /\ Models!Next
        /\ UNCHANGED <<vault, key, claims, share, memory, events, agents, report, data, failed, quota,
                       read>>

Spec == Init /\ [][Next]_vars

\* The fairness of EventStream, in the behaviours that follow the events.
Followed(A) == subject = "events" /\ A
FairSpec ==
  /\ Spec
  /\ WF_events(Followed(Events!EndRow))
  /\ WF_events(Followed(Events!Announce \/ Events!AnnounceFails))
  /\ WF_events(Followed(Events!Boot))
  /\ \A c \in Clients : WF_events(Followed(Events!Serve(c)))

-----------------------------------------------------------------------------
\* No two requests refresh one session's token at a time while the lock of
\* the first has not expired (SessionVault, session.go:123).
OneRefreshAtATime == Vault!OneRefreshAtATime

\* No two calls of one key run their operation at a time while the lock of
\* the first has not expired (IdempotentCall, session.go:190).
RunsOneAtATime == Key!RunsOneAtATime

\* A sign-in is refused only if another account has its cookie's owner
\* (AccountClaims, store/accounts.go:30).
RefusedOnlyIfTaken == Claims!RefusedOnlyIfTaken

\* A share is created once for a key, and posting the key again does not undo
\* a revocation (Sharing, store/shares.go:47, :67).
CreatedOnceRevokedForGood == Share!CreatedOnceRevokedForGood

\* The answer to a save says what the save did to the rows
\* (PreferenceMemory, product/preference_memory.go:150).
SaveReportsTruth == Memory!SaveReportsTruth

\* The stream a browser follows implements EventFeed (sse.go, memory.go).
ImplementsFeed == Events!ImplementsFeed

\* Once a run is announced complete its followers are let go (sse.go:44).
FollowersAreLetGo == Events!FollowersAreLetGo

\* Events whose append was acknowledged are kept, in their order, while calls
\* do not overlap (AgentSession, redisstore/service.go:311).
AcknowledgedSurvive == Agent!AcknowledgedSurvive

\* Gates that pass mean what the repetitions showed (EvalReport,
\* requirement_v2_run.go:728).
PassIsEarned == Eval!PassIsEarned

\* A case that passed in every try and now fails in one is reported as a
\* regression (EvalReport, requirement_v2_run.go:1638).
RegressionsAreSeen == Eval!RegressionsAreSeen

\* The parts that are not retired are those of one recorded release
\* (DataReleases, importparts/main.go:585).
RowsStandForReleases == Data!RowsStandForReleases

\* Carrying a price forward changes neither it nor its day
\* (DataReleases, importpriceobservations/main.go:361).
CarriedWasRecorded == Data!CarriedWasRecorded

\* A reader holds the prices of one batch, and a day names one batch
\* (DataReleases, store.go:183, :313).
ViewStands == Data!ViewStands

\* Every failed assertion and every veto of a run is shown, whatever the
\* reviews say (BadCases, bad_cases.go:619).
NothingFailedIsHidden == Cases!NothingFailedIsHidden

\* A failure is filed as fixed only where a run with undamaged files passed the
\* case in every try (BadCases, bad_cases.go:862).
ClearedByWholeRuns == Cases!ClearedByWholeRuns

\* The ledger of searches stays within the budget and stands for what the
\* provider counted (SearchQuota, store/proposals.go:24).
LedgerCoversUse == Quota!LedgerCoversUse

\* Only an empty shell is opened in a browser unasked, and the model is shown
\* readable text only (PageReading, page_reader.go:36).
OnlyShellsAreRendered == Reading!OnlyShellsAreRendered

\* Calls leave a model of the chain behind only for good (ModelChain,
\* chain.go:2-3).
LeftForGood == Models!LeftForGood
=============================================================================
