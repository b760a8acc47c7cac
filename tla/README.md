# PC builder agent: a TLA+ verification of the product core

The repository is a Go service that turns a chat about a PC into a requirement
draft, lets the user confirm the draft, and has an agent build a configuration
for it. This directory holds TLA+ models of the parts in which several actors
work on the same rows for minutes at a time, of the algorithms that decide what
is asked, built and delivered, and of the services and tools around them; TLC
runs over small instances of all of these; and proofs, checked by TLAPS, that
most of what the runs show holds for instances of any size. Paths below are relative
to the repository's root; `service.go` without a directory is
`internal/product/service.go`.

## 1. Inventory

### Components

| Component | State | Operations | Talks to |
|---|---|---|---|
| **Run lifecycle** `internal/product/service.go`, `cmd/api/main.go` | per process: registered cancel functions, wait group, a context per run | StartMessage, StartConfirm, RequestCancel, execute, fail, reclaimStale, RecoverInterrupted, Shutdown | the store (transactions), the event store (append after commit), the agent |
| **Run and session rows** `internal/store/runs.go`, `sessions.go`, `planning_completion.go` | `agent_runs` (status, expires_at, cancel_requested_at), `web_sessions` (phase, recovery_phase), `build_versions` | StartMessageRun, CompleteRun, CompletePlanningRun, InterruptRunning, ReclaimStaleRuns, RequestRunCancel | PostgreSQL |
| **Requirement draft** `internal/schemas/requirement_state.go`, `internal/product/requirement_state.go`, `requirement_turn.go`, `internal/store/requirement_edits.go` | `web_sessions.requirement_state`: revision, fields, alternatives, observations; `requirement_edit_requests` | EditRequirement (sidebar), screening turns (chat), the reducer ApplyRequirementUpdate | run lifecycle, confirmation |
| **Readiness, reducer, projection** `internal/schemas` | none: functions of a draft | ApplyRequirementUpdate, readiness matrix, next question, projection to the builder's requirement | draft, confirmation |
| **Confirmation and axes** `internal/store/confirmations.go`, `internal/product/requirement_axes.go` | `requirement_confirmations`, `web_sessions.confirmation_id`, payload of build runs | StartConfirmRun fresh or as retry; derivation of readiness, confirmation and build relation | draft, run rows |
| **Screening agent** `internal/agents/pipeline` | none that lasts | one guarded model call per turn | model, draft |
| **Requirement proposals** `internal/store/requirement_proposals.go` | proposals of the last assistant message | save, consume, resolve | screening turns |
| **Change orders** `internal/agents/pipeline` (remote, changes, validator), `internal/store/versions.go` | `build_state` of the ADK session, `build_versions` | prepare, model rounds, save a version, append the new state | screening, harness, ADK sessions |
| **Planning completion** `internal/product/planning.go`, `internal/store/planning_completion.go` | versions, proposals | replay verification, stale check, save | run rows, draft |
| **Planning runner** `internal/planning` | transcript, evidence, candidates, budget of rounds, calls, pages, tokens | the tool loop, delivery gates, deterministic repairs, finalisation | model, catalogue, search quota |
| **Page reader, search and quota** `internal/planning/web.go`, `page_reader.go`, `crawl4ai.go`, `internal/store/proposals.go` | monthly ledger of searches, evidence of a run | search, reserve, read a page directly or in a browser | search provider, price collector |
| **Compatibility rules** `internal/rules` | none: a report of twelve rules over a build | evaluate, aggregate | runner, harness, product |
| **Build harness** `internal/buildharness` | candidates, attempts, repair plan of one request | refuse, bind owned parts, plan candidates, validate, repair, search the budget | model, catalogue, rules |
| **Preference memory** `internal/product/preference_memory.go` | preferences, suggestions, applied keys | save, forget, suggest, confirm into a draft | EditRequirement |
| **Accounts** `internal/account`, `internal/store/accounts.go` | token records in Redis with versions and locks; accounts and owners | register, login and claim of the owner, refresh under a lock, idempotent writes | identity provider |
| **Sharing** `internal/sharing`, `internal/store/shares.go` | shares of immutable versions | create, revoke, public page | versions |
| **Event store and SSE** `internal/runevents`, `internal/producthttp/sse.go` | a capped stream per run (memory or Redis), a cursor per follower | Append, History, Wait, the streaming loop | run lifecycle (writer), browser (reader) |
| **ADK sessions** `internal/redisstore` | a key per session, keys of application and user state, with expiry | Create, Get, AppendEvent, Delete | agents |
| **Data pipeline** `cmd/importparts`, `cmd/importprices`, `cmd/importpriceobservations`, `internal/store/store.go`, `scripts/data` | parts, publications, evidence, jobs, observations, snapshots, prices | three importers, the readers of the catalogue | planning |
| **Evaluation tools** `internal/planningeval`, `cmd/evalrequirement`, `internal/evaldesk` | reports and recordings of runs; an index of reviewed failures | run, grade, gate, replay, compare; catalogue failures | the product's own operators |
| **Model chain** `internal/modelprovider`, `internal/upstream` | members of a role's chain: client, mark | GenerateContent with retries, switching down the chain, classification of failures | providers; agents |
| **HTTP, presenter, web client** | see `PROJECT.json` | | |

### How they interact

A POST handler first reclaims the session's stale rows, then inserts a running
row and moves the session's phase in one transaction, appends `run.started` and
launches a goroutine. The goroutine talks to the agent for minutes without any
lock, then ends the run in one transaction that is fenced by
`status = 'running'`, and appends the final events after the commit. Meanwhile

- a cancellation sets a flag in the row and, in the process that owns the run,
  cancels the goroutine's context: two steps, with admission, launch and the
  goroutine's own end free to fall between them;
- the row may pass `expires_at`, and the next request of the session reclaims it
  although its goroutine is still at work;
- SIGTERM, a crash and the start of the next process each take over what is left;
- the user edits the draft in the sidebar, in several tabs, while a screening
  turn works on the draft it read at its start and a build works on the draft
  frozen in its payload;
- browsers follow the run's stream, lose their connection and come back.

Inside the agents: the screening answer passes a guard, the reducer and the
verification of acceptances before it becomes a draft. A confirmed draft goes to the
planning runner, whose loop calls tools, is judged by the rules, is repaired by
the server where a model's answer falls short, and whose result the product
judges once more before it saves it. Changes of a saved build go through change
orders and the older harness. Around this, accounts, sharing, remembered
preferences, ADK sessions, the search budget, the importers and the evaluation
have state and races of their own.

### What makes each component correct

- *Run lifecycle*: a session serves one run at a time; a run ends once, in one
  final status; the phase always tells what the runs do and never locks the
  session; a key starts one goroutine; a run's end is announced once, with the
  status the row has; a saved version belongs to a succeeded run; every run ends.
- *Draft*: a revision names one content; an edit is applied once, on the
  content its sender saw, and touches only the fields it names. Readiness and
  projection agree; an exception that is restored leaves no trace.
- *Screening*: one refused operation does not cost the others their place; only
  what was just proposed is accepted.
- *Confirmation*: what is built is what was reviewed; what is delivered is what
  the draft says; a retry that is offered is admitted; `current` means current.
- *Change orders*: a version changes what its order allows, and `build_state` is a
  saved version.
- *Planning runner*: the loop ends within its budgets and delivers only what
  passed the gates; what the server repairs it may repair, and is repaired.
- *Harness*: it refuses only what cannot be built, and delivers only what holds.
- *Event store*: a follower sees every event at most once, in order, up to
  `run.completed`, from whichever cursor it reconnects.
- *Accounts*: one refresh per token version; an idempotent operation runs once; a
  sign-in takes only what is free.
- *Model chain*: only a model that is not to be had any more is given up.
- *Search budget*: the ledger stands for what was spent, and stays within it.
- *Importers*: the catalogue is one release; a carried price stays what it was.
- *Evaluation*: a gate that passes was earned, and a failure is not hidden.

`PROJECT.json` lists the hazards with their lines, and the properties that would
catch each of them.

## 2. Modules

| Module | What it is |
|---|---|
| `RunLifecycle` | process, calls, goroutines, rows and streams of one session |
| `RunContract` | what the rows promise, without the machinery; refined by `RunLifecycle` |
| `RunLifecycleProofs` | invariants of the rows, the refinement, one goroutine per key, what the streams announce: proved |
| `RequirementDraft` | draft, edits, screening turns, confirmations, build results, axes |
| `RequirementDraftProofs` | the properties of the draft, proved |
| `RequirementState` | the reducer, readiness, next question and projection, as operators |
| `ScreeningGuard` | what a screening answer goes through before the reducer, as operators |
| `RequirementTurns` | messages, screening turns, edits and proposals over the two modules above |
| `ChangeOrders` | changes of a saved build, with overlapping turns and stops |
| `PlanningRunner` | the tool loop with its quotas, gates, repairs and the product's replay |
| `BudgetSolver` | the repairs the server makes or proposes itself |
| `CompatibilityRules` | the twelve rules over builds whose facts arrive one at a time |
| `BuildCandidates`, `BuildHarness` | selections and their verdicts, refusal, binding and candidates; attempts and repairs |
| `EventFeed` | what following a run promises; refined by `EventStream` |
| `EventStream` | writer, store, streaming handler and browsers of one run |
| `SessionVault` | the token record of a browser and its refresh lock |
| `IdempotentCall` | the writes of the account API under one key |
| `AccountClaims` | signing in and claiming the owner of the browser |
| `Sharing` | shares of versions and their public page |
| `PreferenceMemory` | saving, forgetting and confirming remembered preferences |
| `AgentSession` | the ADK session of an agent, Redis command by command |
| `ModelChain` | the models of a role, tried in their order by calls that overlap |
| `SearchQuota` | the monthly search budget shared by agent and collector |
| `PageReading` | the choice between the plain reader and the browser |
| `DataReleases` | the importers and the readers of what they wrote |
| `EvalGrading`, `EvalReport` | the graders; a run of the evaluation, its gates, replay and comparison |
| `BadCases` | run directories as evidence, and the catalogue of failed cases |
| `AccountProofs` | keyed calls, token refreshes, sign-ins, shares, remembered preferences, the refinement of `EventFeed` and what a browser may miss: proved |
| `ToolProofs` | the chain of models, page reading, the search ledger, the ADK session: proved |
| `PlanningProofs` | what a planning run saves and presses, how rules take new facts, what the harness keeps, delivers, refuses and advises: proved |
| `ConversationProofs` | versions and `build_state` under overlapping changes; what messages, edits and proposals do to the requirement: proved |
| `DataProofs` | imports and their readers, a run of the evaluation and its gates, and the catalogue of failed cases: proved |
| `FoldLaws` | how a fold over a list of any length, and a sum over a finite set, are reasoned about: proved for any operator |
| `MC...` | instances for TLC. `MCServices`, `MCConversation` and `MCPlanning` hold several components in one run: a behaviour follows one of them, its `subject`, and the others stand still, since they share no state that matters to each other |

### RunLifecycle

One step is one transaction, one event appended, or one decision between two of
them. A run is named by the request key that created it, which the unique
constraint on `(session_id, client_request_id)` justifies.

| Model | Code |
|---|---|
| `status`, `cancelRequested`, `expired` | `agent_runs` |
| `phase`, `recovery`, `builds` | `web_sessions`, `build_versions` |
| `stream` | `internal/runevents`, business events only |
| `call` | an HTTP call between reclaim, admission, announcement and launch |
| `worker`, `ctx` | the goroutine of a run and its context |
| `cancelling` | a cancel call between RequestRunCancel and the cancel function |
| `owed` | final events whoever ended the run still has to append |
| `Submit`, `Reclaim`, `Admit`, `Refuse`, `Announce`, `Launch` | StartMessage and StartConfirm, step by step |
| `FlagCancel`, `CancelLocal` | RequestCancel |
| `Expire`, `Deadline` | `expires_at`, and the run's context timeout |
| `Begin`, `AgentReturns`, `CommitScreening`, `CommitBuild`, `CommitProposal`, `RecordFailure`, `Fenced`, `CommitAborted`, `Return` | the goroutine |
| `Publish` | Service.publish, one event at a time |
| `Terminate`, `StopRuns`, `FinishStop`, `Exit`, `Crash`, `Boot`, `Listen` | main, Shutdown, RecoverInterrupted, ReclaimStaleRuns at start |

Left out of the streams: events that carry messages and requirements. Assumed: an
append to the event store succeeds, and one API process serves the database (as
deployed). The legacy completion path for build agents that return no planning
result is not followed. What the agent answers, which checks on the draft refuse
an admission, and whether a transaction fails (`DBFaults`) are free choices.

### RequirementDraft

The draft is a revision and the set of its active fields. `Projected` are the
fields the review hash covers, `Required` those without which the draft cannot be
confirmed; the rest stands for alternatives, observations and notes, which take a
revision and leave the hash alone. The handler of an edit reads the draft outside
the transaction (`ReadDraft`), a screening run at its start (`AskAgent`); both
write later what they made of it (`SaveEdit`, `CompleteScreening`). `Confirm` and
`Retry` are the two ways into `StartConfirmRun`; `SaveVersion` and `SaveProposal`
are the outcomes of CompletePlanningRun. `Current`, `Outdated` and `RetryOffered`
are `buildRelation`. The history variable `overwrote` remembers whether a
screening turn ever wrote over a draft other than the one it had read: the code
permits it (finding below), and the other properties of the draft are stated for
the executions in which it did not happen, so that they are not hidden behind it.

Left out here: temporary values, conflicts, ownership links and proposals, which
`RequirementState` and `RequirementTurns` model. An idempotency key is always used
with one body: the client generates a key per change, and a different body is
refused before anything is read. The legacy ReplaceRequirement without a state, and
what distinguishes base draft and previous proposal inside a payload, are left out.

### RequirementState, ScreeningGuard, RequirementTurns

`RequirementState` is `ApplyRequirementUpdate` operation by operation (set, add,
remove, exceptions that are `temporary` and their restore, conflicts,
clarifications, the link between parts to buy and parts owned), then
`RequirementReadiness`, the next question and the projection the builder decodes.
`ScreeningGuard` is `prepareRequirementUpdate` and `verifyAcceptedProposals`: a user
message is the set of things it says, as far as a guard asks; the model's output is
any batch of operations from a small set. `RequirementTurns` adds the conversation:

| Model | Code |
|---|---|
| `draft` | `web_sessions.requirement_state` |
| `messages`, `proposals` | `messages`, and the proposals saved with the assistant's |
| `StartMessage`, `AttachState`, `CompleteTurn`, `FailTurn` | StartMessageRun with the consumption of proposals, the turn's read of the draft, CompleteRun with their resolution, the failed run |
| `EditRequirement`, `ReportBuild` | the sidebar; a build result's message |

Left out: the word lists of the guard (predicates of the message), the reply text,
`sameSourceWorkloadResolution`, the limit of 32 items, order inside lists, quotes: the
guard binds those of the observations to the message. What is kept of an observation
is its field and its reason, as far as the reducer judges it: too long, or naming a
capability (`ObservationAllowed`).
Inferred operations always leave an observation.

### ChangeOrders

One action per step of a turn of the pipeline: `PrepareNothing`, `PrepareBuild`,
`PrepareChange` (payload, locks and budget against the `build_state` read), `Round`
(the legacy validator's loop) or `Harness` (version 2, by what `BuildHarness`
promises), `SaveBuildVersion` / `SaveFails`, `AppendState`, and `Die` anywhere.
Two turns of a session overlap in version 2. A requirement is its budget, one
constraint and its facts; what a model answers is any draft.

### PlanningRunner, BudgetSolver

The state of `PlanningRunner` is the loop of `runner.go`: turn, used quotas, latest
repeated call, gates used, whether the review was made, facts changed since, and
the latest decision. `Call` and `EndCalls` are a response with tool calls, `Final`
and `InvalidFinal` a decision (through evaluation, gates, review and repair in the
order of the code), `Exhaust` the end of the turns, `Abort` a failing model,
`Complete` the replay in `product/planning.go`. A draft is what evaluating it would
show, at each stage of the facts. `BudgetSolver` runs the two repairs on a
catalogue: `FixUnknowns`, then `PressPrice`, which verifies a combination or names
the least single sacrifice.

Left out: the token budget (it removes tools from a request once), the solver's
limits of time and of 200000 nodes, search ranking, texts. Reports that became stale
because a web part was registered again are caught by the replay only, and the
model says so.

### CompatibilityRules

All twelve rules as functions of a build and of the fields known, with the missing
fields they name and the aggregate. `Supply` makes one missing field known, as a
page does. Observed values, wording, and letter case in memory generations are left
out; the SSDs of a build have one form field.

### BuildCandidates, BuildHarness

`BuildCandidates` has the catalogue, the verdict over a selection and its quote, the
refusal with its lower bounds, the binding of owned parts, lanes, sampling,
grouping and trimming; `BuildHarness` the attempts: `Refuse`,
`Bind`, `PrepareFails`, `Prepare`, then `Answer` (judged; delivered or repaired),
`Garbles` and `Fails`. The model chooses any selection of catalogue parts. Bundle
size counts candidates, not characters; the embedding search is a list of hits;
four of the twelve rules are kept, several drives are equal, flexibility is an
amount; the limits of 500000 combinations and 512 evaluations are out of reach.

### EventStream and EventFeed

`EventFeed` is a numbered log that followers hear in order, each event at most
once, and that lets them go only at the event that completes the run or when the
events are no longer to be had. `EventStream` has both stores of
`internal/runevents`: the memory store drops the oldest beyond `Limit` and loses
everything at a restart, the Redis store expires; the `row` a handler reads before
it decides to end a stream; and browsers with their `Last-Event-ID`, lost
connections and reloads. `heard` is what a page was given. Left out: heartbeats and
the wire format.

### SessionVault, IdempotentCall, AccountClaims

`SessionVault`: a request reads the record (`Resolve`), obtains the lock, polls or
gives up, refreshes, stores with the version compared, rereads and releases; the
lock may run out while it is held (`ExpireLock`), the holder may die, and password
changes and sign-outs replace the record. `IdempotentCall`: `DoIdempotent` with its
kept result, lock, polling and expiries; `ran` counts executions.
`AccountClaims`: the claim transaction statement by statement under READ COMMITTED
with its row lock, between the grant by the identity provider and the storing of
the token. Left out: rate limits, reset mails, what the provider checks.

### Sharing, PreferenceMemory, AgentSession

`Sharing`: creation locks the build, then finds or inserts the share of the key;
revocation; the public page looks up the share and then reads the build
(`Lookup`, `Present`). `PreferenceMemory`: `Submit`, `Decide`, `Create` or
`Supersede` are one save, whose statements interleave with other saves and with
deletions; `Say` changes the session's own value, `Choose`, `Verify`, `Apply` and
`Resend` confirm a remembered one. One subject, one field. `AgentSession`: each call
is its Redis commands in order, each of which may fail or take effect and report a
failure, with three keys (session, app, user) that expire separately. List and the
replay cache (`cache.go`) are left out.

### ModelChain

A call (`query`) walks down the chain: `PassOver` a marked member, `Choose` and
`Resolve` (or `BuildFails`) one that is not, then `Deliver`, `Retry` on the same
model, `SwitchOver` with a mark, or `Raise`; `NoneLeft` at the end. The member's lock
is not held between reading the mark and using its client, so calls that overlap go
past each other's marks. An answer is its status, its machine code and what went
wrong on the way, which is what `Classify`, `transientUpstream` and `switchWorthy`
look at. `gone` is the provider's side: models it refuses from some time on. Left
out: the configuration (config.go) and the attempts of the provider's library.

### SearchQuota, PageReading

`SearchQuota`: `used` is what the provider counted, `shown` what its account says so
far (`CatchUp`), `reserved` the ledger's row; the agent asks, queries, settles; the
collector opens a batch and reserves before each fetch. `missed` remembers searches
never settled. The request for the account is billed as well (web.go:144) and has no
entry in the ledger: `Account` and `AccountFails` let the provider count it, and
`looked` remembers how many were. `PageReading`: one `ReadPage` is the whole of `doReadPage`, a plain
request and, where the page is judged an empty shell, the browser. Left out:
keys and paid plans, months; bytes, addresses and the
windows (`evidenceWindow`) a model is shown.

### DataReleases

An import is one atomic step behind an advisory lock, with its checks in front:
`ImportParts` (directories), `ImportRelease` (with a manifest),
`ImportPriceRelease`, `ImportPrices`; `OpenLatest`, `OpenByDate` and
`ReadCandidates` are the readers. A digest is the content it stands for. The Python
pipeline appears only in the releases it may produce; embeddings are left out.

### EvalGrading, EvalReport, BadCases

`EvalGrading` has what the driver observes of a turn and the assertions and vetoes
each layer's grader makes of it; `EvalReport` a run over the cases (`Start`,
`ObserveCase`, `Abort`, `Finish` with folding and gates), its replay and comparison.
`BadCases` says when the files of a run directory are evidence and which runs
compare, has `Record`, `Remove`, `Harm` (the disk) and `Edit` (the index), and the
entries the desk computes from both. Left out: percent arithmetic beyond
counts, McNemar's value, wildcards that match greedily, texts as more than flags,
usage figures (treated as the gates are), the turn a reference may name, grouping of
finished entries.

### Not modelled

- *HTTP layer* (besides the streaming handler) and *presenter*: decoding and
  formatting around the calls that are modelled.
- *Web client*: its requests are the inputs.
- *Row locks and deadlocks* below the atomic transactions, and the several statements
  of GetSession: see the plan.
- *The rest of the evaluation tools* (planning, preference memory, page reader), the
  pages of the desk, and the Python pipeline under `scripts/data`.

## 3. Runs

| Run | Instance | What it shows |
|---|---|---|
| `lifecycle` | one screening and one build key, two concurrent calls, the build may be cancelled, transactions may fail, any number of crashes and restarts | `PhaseAgreesWithRuns`, the refinement of `RunContract` |
| `lifecycle_live` | one build key posted by two calls, which may be cancelled and may outlive its limit, no failing transactions | `RunsEnd`, `EndsAreAnnounced` |
| `draft_edits` | two edit keys, two calls, two fields, no builds | `RevisionNamesDraft`, `AppliedOnce` |
| `draft_builds` | one call, a required, an optional and an unprojected field, revisions up to 2, three build runs | `RetryFollowsConfirmation`, `CurrentMatchesDraft`, `StartedAsReviewed`, `DeliveredIsCurrent` |
| `services` | thirteen subjects, table below | their invariants, the refinement of `EventFeed`, `FollowersAreLetGo` |
| `conversation` | `RequirementTurns` and `ChangeOrders` | what messages do to the requirement and to a saved build |
| `planning` | `PlanningRunner`, `BudgetSolver`, `CompatibilityRules`, `BuildHarness` | what is planned, repaired, judged and delivered |
| `edits_survive_chat`, `retry_can_deliver`, `refreshes_newest`, `fix_found`, `searches_within_budget` | the smallest instance that shows it | a statement of the repository the program does not keep, see section 6 |

| Property | Says | Module |
|---|---|---|
| `RunsOneAtATime` | the operation of a key runs for one call at a time unless a lock runs out | IdempotentCall |
| `CreatedOnceRevokedForGood` | of the creates of a key one creates; posting again does not undo a revocation | Sharing |
| `SaveReportsTruth` | a save that succeeded had its value in force at some moment after it began | PreferenceMemory |
| `ImplementsFeed`, `FollowersAreLetGo` | following is what `EventFeed` says; after completion every page is let go | EventStream |
| `AcknowledgedSurvive` | acknowledged events are kept in order while writing calls do not overlap | AgentSession |
| `PassIsEarned` | gates that pass mean what the repetitions showed | EvalReport |
| `RowsStandForReleases`, `CarriedWasRecorded`, `ViewStands` | parts are one release; a carried price is the recorded one; a reader holds one batch | DataReleases |
| `NothingFailedIsHidden`, `ClearedByWholeRuns` | failures are shown; only undamaged whole runs clear them | BadCases |
| `LeftForGood` | a call goes down the chain only past members that are out of reach for good | ModelChain |
| `LedgerCoversUse` | the ledger stays within the budget and covers the searches that were settled; account requests come on top | SearchQuota |
| `OnlyShellsAreRendered` | only empty shells go to the browser unasked, only readable text to the model | PageReading |
| `ReadyIsProjectable`, `ExceptionsAreUndone` | readiness and projection agree; restoring leaves no trace | RequirementTurns |
| `GuardedBatchApplies`, `AcceptedWasJustProposed` | what the guard kept the reducer takes as a batch, unless an observation of the answer's own has a reason it refuses; only the last message's proposals are accepted | RequirementTurns |
| `VersionsFollowChanges`, `StateNamesARow` | a version differs from its parent as its change allows; `build_state` is a saved version | ChangeOrders |
| `ReadyIsVerified`, `OverrunsArePressed` | a saved build was evaluated with the facts at the end; an overrun went through the price search | PlanningRunner |
| `FixIsSound` | the server changes only what it may, and what it calls repaired is | BudgetSolver |
| `VerdictsStand`, `MissingFieldsSuffice` | more facts never overturn a verdict; the fields named are those needed | CompatibilityRules |
| `BoundIsSound`, `BaseStaysBuildable`, `DeliveredHolds`, `VerifiedRepairDelivers` | refusals are right; a working build stays among the candidates; deliveries hold; a verified repair delivers | BuildHarness |

### Bounds

*Runs and drafts.* Two calls on two keys contain every pair of hazards the
code has to survive: two posts of one key, a message racing a confirmation, a
reclaim of one run by the admission of the next, a goroutine of a reclaimed run
still at work while its successor runs. A third run meets the same rows as the
second because only one row can be running; the proofs make this precise for the
properties they cover. `draft_edits` has two of everything that races on a draft:
two keys, two handlers that may carry the same key, and the screening turn between
its read and its write. In `draft_builds`, two revisions put an edit or a screening
turn before and after a confirmation, three build runs let a retry follow a
confirmation newer than the one it goes back to, and the unprojected field changes
the revision without the hash. One tab is enough in both because a tab may show an
old draft as long as it does not load. The draft properties are also proved without
these bounds.

*services.* Three requests (three calls) have a holder of the lock, one that takes
it after it ran out, and one that waits for either; three writes put a sign-out or a
password change before and after a refresh. Two sign-ins on two owners and two
accounts are the races of one claim. Two creates on two keys, one reader; two saves,
a deletion and a confirmation over two values and three rows. One browser with three
drops, a memory limit of three events of five, batches of two and two outages has
replays from before, inside and after what is kept; followers do not affect each
other. Two callers with two events and two breaks. Two calls on a chain of two
models, one of them named twice. Two searches of the agent and a batch of two
against a budget of four have the check of one between the check and the count of
another. The histories of the importers and of the evaluation are listed in
`MCDataReleases`, `MCEvaluation` and `MCBadCases`: releases that leave a part out,
reuse a name or revise a file; a case per layer with outcomes of every kind; runs
that fail, repair and are regraded, harmed once.

*conversation.* Three revisions and four messages hold an offer, an acceptance and
one message that comes in between or too late; two categories and one capability are
what links and exceptions need. Three turns, two of them overlapping, over three
kinds and two versions: a change of a change from a state one version behind.

*planning.* Five turns so that two loops through a gate leave one turn; two tools, a
search and a page so that a quota runs out within a response; one change of facts.
What was searched and read is only counted and bounded, and nothing the run decides or
a property says depends on it: the view `Watched` leaves the two counters out, so that
runs that differ in them alone are explored once. Five drafts
are the classes evaluation tells apart; the one that is too dear, not
judged yet, fails a rule besides and is beyond completion is there because the proof of
`OverrunsArePressed` needed it, see section 4. The solver's catalogue has seven parts,
every subset of three clashing pairs, locked and owned categories and ceilings on both
sides; the cheaper board may have a lower tier than the selected one, whose other
specifications are known or not, or come from the web, so that each thing an exchange
may not do is one it could do. The requests to the harness include one that is neither
for games nor for the office, to which the bound of an office machine does not
apply. Rules are checked on builds at the boundary of each rule with one or two
values changed, and with the fields of a rule missing. The harness has four
catalogues in which lanes, sampling, grouping and trimming all have something to
drop.

The deadlock check is on in `lifecycle`, `lifecycle_live`, `draft_edits` and
`draft_builds`: a session can always be used again. In `services`, `conversation` and
`planning` behaviours end, because requests, turns and runs do.

### Fairness

`FairSpec` of `RunLifecycle` assumes only what the runtime gives: the Go scheduler
runs every runnable goroutine (`CallStep`, `WorkerStep`, `Publish`), the context of a
run ends its agent call (service.go:44, RunTimeout), shutdown is bounded by its
timeout (`StopRuns`, `Exit`), and a process that is down is started again (`Boot`,
`Listen`). Users, cancellations, expiries, signals and crashes are not fair: none
of them has to happen. `RunsEnd` is stated without failing transactions: if the
transaction that records a failure is aborted, the row waits for `expires_at` and
for the next request of its session, which nobody has to send.

`FairSpec` of `MCServices` is about the stream: the goroutine of a run ends its row
and announces the end (as above), the process is started again, and `Serve` goes on
for each browser, because a handler is a goroutine and a page that is open
reconnects by itself (`useRunStream`). Drops, faults and reloads are not fair.

## 4. Proofs

A theorem holds for any sets of keys, calls, browsers, drafts, runs and so on, and for
any bounds, as far as the assumptions on the constants go; TLC evaluates these in
every run that uses them. The assumptions say

- that a bound is a number and a set that is counted is finite, and that what stands
  for "nobody" is not one of the callers (`RunAssumption`, the two
  `DraftAssumption`s, `BoundAssumption`, `KeyAssumption`, `VaultAssumption`,
  `ClaimAssumption`, `EventAssumption`, `QuotaAssumption`);
- what shape an input has, where the program's own types give it that shape
  (`InputAssumption`, `PageAssumption`, the drafts of `PlanningRunner`, the records of
  `ImportAssumption`, `PriceAssumption`, `TryAssumption`; the dataset, its layers and
  what its scripts show in `EvalAssumption`; in `UpdateAssumption`, that
  operations and observations come as lists, that an operation names a kind and a field
  the reducer knows, requirement_state.go:286 and 372, and that an edit brings no
  observations);
- what shape a request and a selection of the harness have: its categories include the
  processor, the card, the board and the memory and are of the eight there are
  (schemas/parts.go:31), its parts, what is owned and
  the hits come as lists, and a selection names one part of each of the three categories
  and finitely many of every category (schemas/selection.go:12);
  a price is a natural number or unknown, budget and flexibility are whole numbers
  (`HarnessAssumption`);
- and four facts about inputs that other code establishes: a cooler is cooled by air
  or water, because validation of parts lets no other type in (`BuildAssumption`,
  schemas/parts.go:109); evidence from before there were releases names none
  (`ImportAssumption`: the column came with the releases,
  db/migrations/00008_p11_closeout.sql:10); a selection carried forward
  names its day (`PriceAssumption`, scripts/data/src/pcdata/prices.py:466; the importer
  alone would take the batch before unchecked, section 6); an assertion has a name, and
  a veto is the name of an assertion that failed (`TryAssumption`,
  requirement_v2_grade.go:282, requirement_v2_run.go:783).

The modules that compose several components follow one of them in each behaviour. For
each of these the proofs start with a lemma that a behaviour of the composition is one
of the component (`KeyFollowed`, `SessionsFollowed`, ...), and then argue about the
component alone.

### Runs and drafts

`RunLifecycleProofs`:

- `TypeCorrect`, `PhaseCorrect`, `NeverLocked`, `VersionsCorrect`: the type
  invariant and the invariants on the rows;
- `FinalityCorrect`: no step changes the status of an ended run;
- `ContractImplemented`: `Spec => Contract!Spec`;
- `LaunchCorrect`: a key never gets a second goroutine;
- `CompletionIsUnique`, `CompletionIsTrue`, `SavesAreCommitted`: what is announced.

`PhaseAgreesWithRuns` is nearly inductive by itself, but not quite: that a
proposal or a reclaim leaves a phase the next message accepts also needs the
recovery phase to be one of the two RecoveryFor returns, and one version per run
needs that a version's run is no longer running. The inductive invariant `RowsInv`
is the conjunction of the type invariant, `PhaseAgreesWithRuns`,
`OneVersionPerRun` and `RecoveryKnown`. The proof goes through the contract: the
lemma `StepRefines` shows once, action by action, that a step is a step of
`RunContract` or leaves the rows alone; that the contract preserves the invariant
is then a matter of three actions instead of thirty, and finality and the
refinement follow from the same lemma. `LaunchedOnce` needs `LaunchInv`: a key has
at most one of no row, one call that is about to launch it, or a goroutine.

A goroutine, a reclaim, a shutdown and the recovery of the next process may all try
to end one run, and each announces the end in steps of its own after its commit.
The invariant `Announcements` says of each run that a row that has not ended owes
nothing and has announced nothing, that what is owed is an ending with the row's
status, and that while it is owed the stream has no ending. `StepMoves` reduces the
steps to four moves of one run's stream (`Quiet`, `Told`, `Finished`, `Published`),
and the invariant is shown for the moves.

`RequirementDraftProofs`: `TypeCorrect`, `RevisionsCorrect`, `UpdatesKept`,
`EditsOnce`, `StartsCorrect`, `DeliveriesCorrect`, `CurrentCorrect`, `ShownCorrect`,
`RetriesCorrect`. The code decides
by comparing revisions, in the save of an edit and of a version, what the properties
state of contents. The invariant `DraftInv` has what bridges the two: every copy of
the draft that anybody holds (a tab, a handler, the payload of a run) is the draft
or has a smaller revision, and an edit expects a revision the draft has had
(`Ordered`). This fails once a screening turn has overwritten an edit, because two
contents have then had one revision, so `Ordered` is conditional on `overwrote`, and
so are the theorems that rest on it; `EditsOnce`, `StartsCorrect`, `CurrentCorrect`
and `RetriesCorrect` compare keys and hashes and hold without the condition. `Frozen`
says that a run's payload is what its confirmation froze, across any chain of
retries, and `Newest` that the session points to the confirmation of its latest run,
which alone may be running: the two link what a save compares (the payload's
revision) to what the axes show (the hash of the session's confirmation).

### Accounts, shares, preferences (`AccountProofs`)

- `KeyedCallsTakeTurns`, `KeyedCallsAnswerTheirBody`. `KeyInv`: a call that runs holds
  the lock or has lost it to its expiry; a record stands for an operation that took
  effect for its body; an answer is such an operation's.
- `VaultTypeCorrect`, `RefreshesTakeTurns`, `StaleTokensAreReplaced`. That a request is
  served with newer tokens than it saw rests on versions, which restart when a record
  was deleted; `VaultInv` therefore compares writes: the record is the last one written,
  a record that was read and is the same write is the same version, and what a request
  is about to serve was written after what it read.
- `RefusalsAreDeserved`, `SignedInOwnersAreWhole`. `ClaimsInv`: who is between the
  statements of a transaction has locked its account's row; of the transactions that
  inserted an owner not yet committed there is one; and what a statement saw (that the
  account does not have the owner, that it has no primary owner) is still so when the
  next one runs, which READ COMMITTED does not give and the lock on the account does.
- `SharesAreCreatedOnce`: `ShareInv` adds that one call at a time has the build's row,
  and that the share a call created is there.
- `SavesReportTheTruth`: `MemoryInv` says that a save under way has seen every value in
  force. Deletions and other saves interleave with its statements, and a save that
  lost a race starts again.

### Following a run (`AccountProofs`)

`StreamFollowsFeed` is the refinement of `EventFeed` by `EventStream`, and
`OnlyTheLostAreSkipped` that what a browser was not given is lost. `StreamInv`: what
the store holds is an end of the log; what a browser heard is part of the log in its
order; a browser that is not let go has not heard the end; below its cursor it lacks
only what the store lost. The last two are why a reconnection in front of, inside or
behind what is kept is harmless.

### Under the agents (`ToolProofs`)

- `ModelsAreLeftForGood`: `ChainInv` says that what is marked is gone or cannot be
  built, that every member before a call's is so, and that a call asks no member it knew
  as marked; the marks only grow while calls overlap.
- `ShellsAloneAreRendered`: the invariant adds where the texts shown come from; the
  work is in the lemmas on the pure judgement of a page (`GoodTextsAreReadable`).
- `LedgerStandsForUse`: `QuotaInv` is an account. From the first entry on, what was
  counted and is ahead in batches is at most what is reserved, missed or unsettled and
  the requests for the account (`Aside`);
  before it, whatever usage anybody was told covers all that was counted. The second
  half is what makes the first entry of the month start high enough.
- `AppendsSurvive`: `SessionsInv` says that unless calls overlapped there is one at a
  time, the session holds all acknowledged events in order, and what the call loaded
  does too and lacks only its own event, through each of its Redis commands.

### Planning (`PlanningProofs`)

- `SavedBuildsAreVerified`: `PlanInv` says that a report is about its draft, and about
  the facts there are unless the draft has a part from the web; that what is called
  ready has passed and leaves nothing open; and that what was saved has no such part,
  since the replay refuses it. So a saved build passes with the facts at the end
  although facts change during the loop.
- `OverrunsWerePressed`. The attempt to prove it failed first, with a draft TLC's
  instance did not have: the model calls a build ready that is too dear, has an
  unknown check and cannot be completed, be it that another rule fails; with the gate of missing facts used up and
  that of the budget not, the code goes straight to the end (runner.go:373-382). The
  instance now has this draft and the property names the exception.
- `VerdictsAreFinal` (an action property) and `WhatIsAskedSuffices`: each rule but two
  is one judgement that needs certain fields (`JudgeStands`, `JudgeAsks`,
  `FixedRulesJudge`); the cooler's clearance and the boards of a case choose what they
  need by the fields known, and are treated on their own.

- `WorkingBasesStay` and `DeliveriesHold`, about the harness. `HarnessInv` says of a run
  that chooses: locked parts are among the candidates (`LocksOffered`: a lock whose part
  is gone was refused before), a base that fits is so whole (`BaseOffered`), and outside
  what a repair opens the draft it starts from has candidates or locked parts
  (`RepairOpens`). The last is what a delivery after any number of repairs rests on: the
  parts outside the opened categories are not looked up again, so that they are offered
  has to come from the attempts before, back to one that looked up all (`OthersOffered`).
  An answer that is not a draft, or goes off the plan, keeps it; and no refusal is called
  a delivery (`RequestRefuses`, `CandidatesRefuse`).
- That a base stays is followed through the lists: binding what is owned leaves one part
  a category (`BaseBound`); what the base has and may be offered is drawn, whatever is
  sampled, as processors before boards and boards before memory, because each is what the
  next has to fit (`FittingBaseStays`, from a verdict in `WorkingBaseFits`); what is drawn
  of the base is protected in the group, also when hits join it (`StaysEnriched`), and
  trimming spares what is protected (`StaysInBundle`). Lists are filtered by the
  positions of what is kept (`Subsequence`), which `RankedOnce` shows to lose nothing.
- `BoundsAreSound`. What the bound adds up is the cheapest of each category, and what a
  build costs is a sum over the same categories, part by part no less: sums are compared
  by `SumsOfParts` and `SumAtMost`. The code bounds twice, by categories
  (`CategoriesHopeless`) and by platforms (`PlatformsHopeless`); for the second a build
  has to name a processor, a board and a memory that go together, which
  `BuildsNamePlatforms` takes from the rules it passes. `Deserved` carries the fact to
  the state: a run that refuses does so with the bound of its own request.
- `AdviceIsDelivered`. `AdviceInv` says that a plan with a verified repair was derived
  from the selection judged last (`AdviceStands`), and that what it advises is another
  selection, changes no more than the plan names, is offered and was seen to pass
  (`Serves`). The repair searched for is chosen among those verified and among those
  with the least of changes, so these two choices are followed through the search
  (`Best` only where `Feasible`, `Least` only where `Sound`). A repair started from the
  plan looks the opened categories up again with the same facts, which is why the advice
  is still offered when the next attempt chooses.

### Changes and turns (`ConversationProofs`)

`VersionsAreWhatWasOrdered`, `StatesAreRows`. `OrdersInv`: what the session or a turn
remembers of a build is what its rows say; a turn works on a saved build with the
requirement its change derives from it, and is about to save only what keeps its
locks; every version follows its parent. Since rows are only added, what a turn
remembers stays true while others save.

`GuardedUpdatesApply`, `AcceptancesFollowProposals`, `EligibleIsDecoded` and
`RestoringUndoesExceptions` say what turns and edits do to a requirement. A turn may
bring any number of operations and the reducer goes through them, so what is proved of
a state has to survive each operation, the link between the two lists of parts that
follows it, and the result of the whole list:

- `TurnsInv` says that a proposal belongs to a message of the assistant and was taken up
  by the message right after it or by none; that the lists of the draft, and of the copy
  a turn has read, agree (`OwnershipConsistent`); and that a value which counts as
  accepted was that of a resolved proposal. The last must hold of more than what a field
  shows: a field under an exception covers an earlier state, which a restore brings back,
  and which may itself be an exception. `FieldStands` says it of a set of states of the
  field that is closed under what they cover.
- `GuardedUpdatesApply`. The guard tries each operation on a working copy and keeps what
  went through; the reducer applies what was kept in one batch. `Follows` says that the
  batch kept so far comes to one requirement that is `Alike` the guard's copy: it has
  the same fields and observations, and only revision and record of changes differ. An
  operation does the same to requirements that are alike (`OperationAlike`), so the next
  one is refused by the batch exactly if the guard refused it. The guard observes
  nothing the reducer would refuse, but hands the answer's own observations on as they
  are: `GuardStands` carries that all are allowed if those of the answer are, and
  otherwise the batch is shown to apply without its observations.
- `AcceptancesFollowProposals`. `Sieved` says along the list that an operation kept as an
  acceptance is among those verified, and each of these takes up a value that was
  offered; the messages, and when a proposal may be consumed, are `ProposalStands`.
- `RestoringUndoesExceptions`: `Excepted` is what a temporary change leaves behind, in its
  field and, if that followed, in the partner; `Undone` is that the restore of such a
  state puts both back, and that nothing else follows (`BackInStep`).
- `EligibleIsDecoded` follows the fields the readiness matrix requires into the decoding.

### Lists and sums (`FoldLaws`)

A theorem of the library that proves by induction takes the induction hypothesis as an
operator, which the provers cannot instantiate. `FoldLaws` goes around this. A set of
numbers takes the place of the hypothesis (`UpTo`), and induction over a number is the
well-founded order on finite sets. `FoldLeft` is a recursion over the sets of positions
of a list; `Solvable` shows that it has a solution, and `Unfolds` that the fold is the
last of a history of intermediate results, each made of the one before by the next
element. The operator that is folded is a constant of the module, so that a proof
takes the law for its own by `INSTANCE FoldLaws WITH Then <- ...`: the reducer, the
guard, the verification of acceptances, the evaluation and the candidates of the
harness do. `ListFrom`, `ListGrows` and `ListsJoin` say what is in a list that is
built. In the same way `SumUnfolds` opens the library's sum over a finite set, and `SumOfNaturals` says that a
sum of numbers is zero only if each of them is: what a total of zero means for each try.
`SumsOfParts` splits a sum by categories and `SumAtMost` compares two sums number by
number, which is what a bound on prices needs.

### Data, evaluation and failed cases (`DataProofs`)

- `PartsStandForReleases`: `ReleasesInv` is the property itself with the fields of the
  evidence rows; the lemmas show that one import makes the catalogue what its
  directory says, whatever was there.
- `CarriedStaysRecorded`: `PricesInv` adds that a price is of a batch that exists and
  that one not carried is its own source. A carried price takes the source of a price
  that may be carried itself, so the invariant is needed for the whole chain. The code
  chooses the latest of some batches: that there is one for any number of batches is
  `LatestExists`, and `LeastOf` and `GreatestNumber` for the ids, by the
  well-founded order on finite sets.
- `ReadersStayInOneBatch`: `ViewInv` adds that a reader's batch exists; `BatchesKeep`,
  that a new batch changes no price of an older one and is no day's first if the day
  had one.
- `PassesAreEarned`: `ReportInv` says of each try which of the selected cases it is of
  (`TryStands`: the tries of a case follow each other, so that the case is found by
  dividing) and that it is a grade of something the case may show. A case is skipped
  just if the run was without the part it needs (`Observed`), so that a verdict over
  gates that need a case of a layer says what the run was asked for; every selected
  case was tried (`EachTried`); and the wrong writes, which the gate knows as one total,
  are none in each try (`LayerWrites`). That the totals are of finite sets follows from
  the lists of turns being finite (`TurnsShown`).
- `RegressionsAreReported`: a comparison of two recordings reports every case that
  passed in all tries of the one and failed in any of the other.
- `FailuresAreShown`: a failure that no review names is in an automatic entry, and one
  that a review names is among what the review's reference resolves to
  (`NamedIsResolved`: the two readings of a run's files agree, veto by veto and
  assertion by assertion). `DiskInv` says that a run in any state of harm still says
  what was recorded, if it can be read at all.

### Only model-checked

- Liveness (`RunsEnd`, `EndsAreAnnounced`, `FollowersAreLetGo`): fairness and ENABLED
  are out of the prover's reach.
- `FixIsSound`: the solver is a recursive search over sorted lists of exchanges, with
  operators for the order of each list; what it finds for any catalogue would need an
  induction over the search that follows the lists through `SortSeq`, which the provers
  cannot open.
- `ClearedByWholeRuns`: it is not true of any index. A review may claim a validation
  for a case none of its references names (bad_cases.go:920 looks up the validation's
  case, and nothing compares the two), and its entry then shows no try of the case that
  was fulfilled. The indexes of the run are such as the desk's authors write.

Some properties (`NeverLocked`, `VersionsCorrect`, `FinalityCorrect`, `LaunchCorrect`,
`UpdatesKept`, `ShownCorrect`, the announcements, `VaultTypeCorrect`,
`RefreshesTakeTurns`, `StaleTokensAreReplaced`, `KeyedCallsAnswerTheirBody`,
`RefusalsAreDeserved`, `SignedInOwnersAreWhole`, `OnlyTheLostAreSkipped`) are proved and
no longer run, or ran in a smaller instance once: the proof covers every instance TLC
could.

## 5. Mutants

Beside the definition it changes, a module keeps the mutated form of it, marked as
such: a dropped fence, an ignored error, a forgotten condition. `PROJECT.json` pairs
each property with the mutant that violates it in the same run; this is the evidence
that the property depends on the code and not on the shape of the model. A few
mutants belong to properties that are proved, or kept for the proofs, and no longer
run.

## 6. Findings

1. `edits_survive_chat`: a screening turn overwrites an edit saved while it ran.
2. `retry_can_deliver`: a retry inherits the revision of its target, so that after
   any change that keeps the review hash its result is stale from the start.
3. `refreshes_newest`: a request that read the session before another refreshed it,
   and obtains the lock afterwards, sends the used refresh token again
   (session.go:160).
4. `fix_found`: the budget search can end without a fix although there is one: it
   compares a full price with a limit on purchases, and it does not go on after a
   selection that saves enough but fails a rule (budget_solver.go:551, :496).
5. `searches_within_budget`: searches of the agent that overlap, or that the account
   does not show yet, go past the budget, because they are reserved only after the
   request, where the documents say before (web.go:145). Requests for the account are
   not held against it.

Seen while reading or modelling, and not expressed by a run:

- *Runs.* A reclaimed run whose goroutine lives is announced as completed and then
  publishes progress. A cancelled run that a dead process left is announced by
  `run.failed`, because the general recovery runs before the reclaim. A crash between
  the commit of an end and its publication leaves the stream without `run.completed`
  for good. A run cancelled between the commit of its row and `run.started` can be
  reclaimed first, so that `run.started` is not the first event; a user's
  cancellation is recorded as a failure when SIGTERM arrives before the goroutine
  notices (service.go:617); a row that merely expired is announced as cancelled
  (service.go:313). CompletePlanningRun and ReclaimStaleRuns, or StartMessageRun and
  CompleteRun, can deadlock; PostgreSQL aborts one of them.
- *Draft and changes.* `outdated` counts a succeeded run that left only a proposal. A
  save whose commit answer is lost is reported as not saved; `build_state` stays
  behind the rows after a crash between save and append. The legacy pipeline saves a
  requirement that cannot be decoded when a price is missing. An observation whose
  reason is too long or names an unknown capability passes the guard and has the
  reducer refuse all of its batch (screening_requirement_state.go:491,
  requirement_state.go:394-399); the answer is asked for once more, then the turn fails.
- *Repairs and harness.* The repair of unknown facts panics on a part without a price
  (budget_solver.go:1010, comment at :1026). After a broken lock only unlocked
  categories are opened, so that restoring the locked part is refused as off plan; a
  repair of an adjusted budget that finds five changed categories opens two, which
  cannot succeed; a verified preference may contain parts without a price, hence the
  condition `CandidatesPriced`.
- *Model chain and pages.* `Classify` reports an exhausted free tier as a quota
  problem, but `switchWorthy` looks only at the code text and does not switch
  (chain.go:2). With `MODEL_MAX_RETRIES=1` the library may repeat a request too
  (factory.go:51), beside the one more attempt of factory.go:21. The comment at
  page_reader.go:34 speaks of empty pages being rendered; the code renders shells
  only.
- *ADK sessions.* AppendEvent reads, changes and writes without comparing;
  application and user keys are not refreshed by Get and may expire first.
- *Importers and readers.* An old release can be imported again and leaves no new
  record, although docs/data/数据获取与发布规则.md:255 asks for one; an older release is
  refused once a newer one added SKUs; a carried selection without a day takes the
  previous batch unchecked; the locks of the two importers differ; two price releases
  of one moment conflict in their job's schedule; Candidates runs three statements,
  so its "truncated" may be wrong (store.go:375).
- *Evaluation.* The budget of calls of one run is handed to each driver and counted
  per try (requirement_v2_run.go:1058, gateway.go:109). Gates never compare the
  repetitions with `release_repeats`; a truncated or aborted recording can pass when
  replayed; a set-up that errs is graded as an empty turn; `-repeats 0` dereferences
  a missing report; V6 cannot be observed.
- *Desk.* An entry that the reference passes is filed as passed although it may hold
  failures of runs the reference is not comparable with (bad_cases.go:798); a verified
  review ignores its regression; a reference to a turn that does not exist turns a
  failure into "missing"; reports and results are compared by their keys.

## 7. Plan

Done: the rows every other part depends on, the draft, and then every component that
decides or remembers something, as listed in section 2. What is left to model:

1. `RowLocks`: the order in which the transactions lock runs and sessions, and what
   an aborted one leaves behind; GetSession's several statements.
2. The evaluations of planning, preference memory and page reading, and the windows
   of evidence the model is shown.
3. The HTTP layer as far as it maps errors and enforces ownership.

Proofs still to be written:

1. `ClearedByWholeRuns`, for the indexes whose validations are of a case they name, and
   without this for the entries the reference clears.
2. `FixIsSound`, with the search written as one level over the next and the lists as
   ranks, so that `FoldLaws` applies to it.

`RegressionsAreSeen` of the evaluation held in a run of its module alone; it is proved
(`RegressionsAreReported`) and no longer run.
