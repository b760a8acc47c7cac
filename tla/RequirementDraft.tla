-------------------------- MODULE RequirementDraft --------------------------
(***************************************************************************)
(* The requirement draft of one session and the three parties that read    *)
(* it, work on what they read and write it back or act on it:              *)
(*                                                                         *)
(*   - sidebar edits (PATCH .../requirement-state), at any time;           *)
(*   - screening runs, which turn a chat message into an update;           *)
(*   - confirmations and the build runs they start, which freeze the draft *)
(*     and compare its revision when their result is saved.                *)
(*                                                                         *)
(* The draft is a revision and the set of its active fields.  The review   *)
(* hash the user confirms covers the projected fields only; alternatives,  *)
(* observations and notes change the draft and leave the hash as it is.    *)
(* How runs are admitted, cancelled and recovered is RunLifecycle; here a  *)
(* run ends in one step with any of its outcomes.                          *)
(***************************************************************************)
EXTENDS Naturals, Sequences, FiniteSets

CONSTANTS
  Fields,       \* what a draft can hold
  Projected,    \* the fields RequirementReviewSpec projects
  Required,     \* the fields without which a draft is not eligible
  Tabs,         \* browser tabs, each showing the draft it loaded last
  Edits,        \* idempotency keys of sidebar edits
  Posts,        \* PATCH calls in flight; a retry of a key is another call
  MaxRevision,  \* bound on revisions
  MaxRuns       \* bound on build runs

ASSUME DraftAssumption ==
  /\ Required \subseteq Projected /\ Projected \subseteq Fields
  /\ Required # {}
  /\ MaxRevision \in Nat /\ MaxRuns \in Nat

VARIABLES
  draft,          \* web_sessions.requirement_state
  recorded,       \* keys in requirement_edit_requests
  confirmations,  \* requirement_confirmations: the drafts that were frozen
  confirmed,      \* web_sessions.confirmation_id, 0 when NULL
  runs,           \* the build runs in the order of their start
  versions,       \* the run that saved each build version
  screening,      \* the screening run under way
  seen,           \* the draft each tab shows
  sent,           \* the body each edit key was first sent with
  post,           \* where each PATCH call stands
  overwrote       \* history: a screening run overwrote a draft other than the
                  \* one it had read

vars == <<draft, recorded, confirmations, confirmed, runs, versions, screening,
          seen, sent, post, overwrote>>

-----------------------------------------------------------------------------
(* The reducer and its projections *)

Drafts == [rev : Nat, content : SUBSET Fields]

\* A batch of operations: fields set and fields removed.
Batches == {b \in [set : SUBSET Fields, remove : SUBSET Fields] :
              b.set \cap b.remove = {}}
Nothing == [set |-> {}, remove |-> {}]

\* Bound: the batches enumerated name at most one field, and what is not
\* projected is added but never withdrawn.
Small == {b \in Batches : /\ Cardinality(b.set \cup b.remove) <= 1
                          /\ b.remove \subseteq Projected}

\* Mutant: only batches on required fields take a revision.
ApplyQuietly(d, b) ==
  [rev     |-> IF (b.set \cup b.remove) \cap Required = {} THEN d.rev ELSE d.rev + 1,
   content |-> (d.content \ b.remove) \cup b.set]

\* ApplyRequirementUpdate: an empty batch is a no-op, any other takes a revision.
Apply(d, b) ==
  IF b = Nothing THEN d
  ELSE [rev |-> d.rev + 1, content |-> (d.content \ b.remove) \cup b.set]

\* RequirementReviewSpec and its hash.
Review(d)   == d.content \cap Projected
Eligible(d) == Required \subseteq d.content

NoPost      == [pc |-> "idle"]
NoBody      == [batch |-> Nothing]
NoScreening == [pc |-> "none"]

BuildRunning == \E r \in DOMAIN runs : runs[r].status = "running"

\* The partial unique index of agent_runs: one running run per session.
Busy == screening # NoScreening \/ BuildRunning

TypeOK ==
  /\ draft \in Drafts
  /\ recorded \in SUBSET Edits
  /\ confirmations \in Seq(Drafts)
  /\ confirmed \in 0 .. Len(confirmations)
  /\ runs \in Seq([confirmation : Nat, payload : Drafts,
                   status : {"running", "succeeded", "failed", "interrupted"}])
  /\ \A r \in DOMAIN runs : runs[r].confirmation \in DOMAIN confirmations
  /\ versions \in Seq(DOMAIN runs)
  /\ screening \in {NoScreening, [pc |-> "started"]}
                   \cup [pc : {"asked"}, base : Drafts, batch : Batches]
  /\ seen \in [Tabs -> Drafts]
  /\ sent \in [Edits -> {NoBody} \cup [expected : Nat, batch : Batches]]
  /\ post \in [Posts -> {NoPost} \cup [pc : {"read"}, key : Edits]
                        \cup [pc : {"save"}, key : Edits, base : Drafts]]
  /\ overwrote \in BOOLEAN

Init ==
  /\ draft = [rev |-> 0, content |-> {}]
  /\ recorded = {}
  /\ confirmations = <<>> /\ confirmed = 0
  /\ runs = <<>> /\ versions = <<>>
  /\ screening = NoScreening
  /\ seen = [t \in Tabs |-> draft]
  /\ sent = [k \in Edits |-> NoBody]
  /\ post = [p \in Posts |-> NoPost]
  /\ overwrote = FALSE

\* GetSession: a tab shows the draft as it is.
Load(t) ==
  /\ seen' = [seen EXCEPT ![t] = draft]
  /\ UNCHANGED <<draft, recorded, confirmations, confirmed, runs, versions,
                 screening, sent, post, overwrote>>

-----------------------------------------------------------------------------
(* EditRequirement *)

\* A tab sends an edit of the draft it shows.
SendEdit(p, k, t) ==
  /\ post[p] = NoPost
  /\ sent[k] = NoBody
  /\ \E b \in Small \ {Nothing} :
       sent' = [sent EXCEPT ![k] = [expected |-> seen[t].rev, batch |-> b]]
  /\ post' = [post EXCEPT ![p] = [pc |-> "read", key |-> k]]
  /\ UNCHANGED <<draft, recorded, confirmations, confirmed, runs, versions,
                 screening, seen, overwrote>>

\* The same request again.  RequirementEditFingerprint finds a recorded key
\* and returns the session; the handler goes on otherwise.
ResendEdit(p, k) ==
  /\ post[p] = NoPost
  /\ sent[k] # NoBody /\ k \notin recorded
  /\ post' = [post EXCEPT ![p] = [pc |-> "read", key |-> k]]
  /\ UNCHANGED <<draft, recorded, confirmations, confirmed, runs, versions,
                 screening, seen, sent, overwrote>>

\* The handler reads the draft outside any transaction.
ReadDraft(p) ==
  /\ post[p].pc = "read"
  /\ post' = [post EXCEPT ![p] = [pc |-> "save", key |-> post[p].key, base |-> draft]]
  /\ UNCHANGED <<draft, recorded, confirmations, confirmed, runs, versions,
                 screening, seen, sent, overwrote>>

\* Mutants: the update without the revision check, or without the key.
RevisionIgnored(k)   == k \notin recorded
KeyIgnored(k)        == draft.rev = sent[k].expected

\* EditRequirementDraft inserts the key and compares the revision.
EditAccepted(k) ==
  /\ k \notin recorded
  /\ draft.rev = sent[k].expected

\* The transaction writes what the reducer made of the draft read before.
SaveEdit(p) ==
  /\ post[p].pc = "save"
  /\ LET k == post[p].key IN
       /\ EditAccepted(k)
       /\ draft' = Apply(post[p].base, sent[k].batch)
       /\ recorded' = recorded \cup {k}
  /\ draft'.rev <= MaxRevision
  /\ post' = [post EXCEPT ![p] = NoPost]
  /\ UNCHANGED <<confirmations, confirmed, runs, versions, screening, seen, sent,
                 overwrote>>

\* The key is recorded already, the revision is another one, the reducer
\* rejects the batch or the client is gone: nothing is written.
DropEdit(p) ==
  /\ post[p] # NoPost
  /\ post' = [post EXCEPT ![p] = NoPost]
  /\ UNCHANGED <<draft, recorded, confirmations, confirmed, runs, versions,
                 screening, seen, sent, overwrote>>

-----------------------------------------------------------------------------
(* Screening runs *)

StartScreening ==
  /\ ~Busy
  /\ screening' = [pc |-> "started"]
  /\ UNCHANGED <<draft, recorded, confirmations, confirmed, runs, versions,
                 seen, sent, post, overwrote>>

\* attachRequirementState reads the draft; the agent's answer, chosen here, is
\* the batch its turn will apply.
AskAgent ==
  /\ screening.pc = "started"
  /\ \E b \in Small : screening' = [pc |-> "asked", base |-> draft, batch |-> b]
  /\ UNCHANGED <<draft, recorded, confirmations, confirmed, runs, versions,
                 seen, sent, post, overwrote>>

\* completeRequirementTurn: CompleteRun overwrites the draft, whatever it is by
\* now, with what the reducer made of the draft read at the start.
CompleteScreening ==
  /\ screening.pc = "asked"
  /\ draft' = Apply(screening.base, screening.batch)
  /\ draft'.rev <= MaxRevision
  /\ screening' = NoScreening
  /\ overwrote' = (overwrote \/ draft # screening.base)
  /\ UNCHANGED <<recorded, confirmations, confirmed, runs, versions, seen, sent, post>>

\* The run fails, or it is cancelled, reclaimed or interrupted.
AbandonScreening ==
  /\ screening # NoScreening
  /\ screening' = NoScreening
  /\ UNCHANGED <<draft, recorded, confirmations, confirmed, runs, versions,
                 seen, sent, post, overwrote>>

-----------------------------------------------------------------------------
(* StartConfirmRun and the end of build runs *)

\* The draft still is what the tab shows, and it is complete.
Reviewed(t) ==
  /\ draft.rev = seen[t].rev
  /\ Eligible(draft)
  /\ Review(draft) = Review(seen[t])

\* Mutant: the session's confirmation stays the first one.
StartBuildKeeping(run) ==
  /\ ~Busy
  /\ Len(runs) < MaxRuns
  /\ runs' = Append(runs, run)
  /\ confirmed' = IF confirmed = 0 THEN run.confirmation ELSE confirmed

StartBuild(run) ==
  /\ ~Busy
  /\ Len(runs) < MaxRuns
  /\ runs' = Append(runs, run)
  /\ confirmed' = run.confirmation

\* confirmPayloadFresh: the draft is frozen, as the confirmation and in the
\* payload of the run.
Confirm(t) ==
  /\ Reviewed(t)
  /\ confirmations' = Append(confirmations, draft)
  /\ StartBuild([confirmation |-> Len(confirmations) + 1, payload |-> draft,
                 status |-> "running"])
  /\ UNCHANGED <<draft, recorded, versions, screening, seen, sent, post, overwrote>>

\* Mutant: any failed run can be retried.
AnyFailedRun(r) == runs[r].status = "failed"

\* confirmPayloadForRetry: the target failed, and its confirmation has the
\* review hash of the draft.
Retryable(r) ==
  /\ runs[r].status = "failed"
  /\ Review(confirmations[runs[r].confirmation]) = Review(draft)

\* The new run inherits the payload of its target, revision included.
Retry(t, r) ==
  /\ Reviewed(t)
  /\ Retryable(r)
  /\ StartBuild([runs[r] EXCEPT !.status = "running"])
  /\ UNCHANGED <<draft, recorded, confirmations, versions, screening, seen, sent,
                 post, overwrote>>

EndBuild(r, s) ==
  /\ runs[r].status = "running"
  /\ runs' = [runs EXCEPT ![r].status = s]
  /\ UNCHANGED <<draft, recorded, confirmations, confirmed, screening, seen, sent,
                 post, overwrote>>

\* Mutant: the revision is not compared when the result is saved.
DeliverAnyway(r) == TRUE

\* CompletePlanningRun compares the draft's revision with the payload's.
StillCurrent(r) == runs[r].payload.rev = draft.rev

\* A verified result becomes the next version if it is not stale.
SaveVersion(r) ==
  /\ StillCurrent(r)
  /\ EndBuild(r, "succeeded")
  /\ versions' = Append(versions, r)

\* A stale, unresolved or asking result is kept as a proposal: the run succeeds
\* without a version.
SaveProposal(r) == EndBuild(r, "succeeded") /\ UNCHANGED versions

FailBuild(r) ==
  /\ \E s \in {"failed", "interrupted"} : EndBuild(r, s)
  /\ UNCHANGED versions

-----------------------------------------------------------------------------
(* The axes a session shows: buildRelation *)

Last == Len(runs)

\* Mutant: the draft is not compared with the confirmation.
ConfirmedOnce == confirmed # 0

\* requirement_confirmation = "confirmed"
DraftConfirmed == confirmed # 0 /\ Review(draft) = Review(confirmations[confirmed])

LastSucceeded == runs # <<>> /\ runs[Last].status = "succeeded"

Current == LastSucceeded /\ runs[Last].confirmation = confirmed /\ DraftConfirmed

\* Mutant: the target is offered for whatever the draft says by now.
RetryForAnyDraft(r) ==
  /\ r = Last
  /\ runs[r].status = "failed"
  /\ Eligible(draft)

\* retry_run_id
RetryOffered(r) ==
  /\ r = Last
  /\ runs[r].status = "failed"
  /\ Eligible(draft)
  /\ Review(confirmations[runs[r].confirmation]) = Review(draft)

-----------------------------------------------------------------------------
EditStep ==
  \/ \E p \in Posts, k \in Edits : ResendEdit(p, k) \/ \E t \in Tabs : SendEdit(p, k, t)
  \/ \E p \in Posts : ReadDraft(p) \/ SaveEdit(p) \/ DropEdit(p)

ScreeningStep ==
  StartScreening \/ AskAgent \/ CompleteScreening \/ AbandonScreening

BuildStep ==
  \/ \E t \in Tabs : Confirm(t) \/ \E r \in DOMAIN runs : Retry(t, r)
  \/ \E r \in DOMAIN runs : SaveVersion(r) \/ SaveProposal(r) \/ FailBuild(r)

Next == \/ \E t \in Tabs : Load(t)
        \/ EditStep \/ ScreeningStep \/ BuildStep

Spec == Init /\ [][Next]_vars

-----------------------------------------------------------------------------
(* Properties *)

\* Every copy of the draft somebody will compare by its revision alone.
Held ==
  {seen[t] : t \in Tabs}
    \cup {post[p].base : p \in {q \in Posts : post[q].pc = "save"}}
    \cup {runs[r].payload : r \in DOMAIN runs}

\* A revision names one content: the checks of edits and of build results
\* compare revisions only.  It holds as long as no screening run overwrites an
\* edit saved during its turn, which may bring an earlier revision back.
RevisionNamesDraft == ~overwrote => \A d \in Held : d.rev = draft.rev => d = draft

\* The batch of whoever writes the draft in this step.
Writes(b) ==
  \/ screening.pc = "asked" /\ screening' = NoScreening /\ b = screening.batch
  \/ \E p \in Posts : post[p].pc = "save" /\ post'[p] = NoPost /\ b = sent[post[p].key].batch

Unlost ==
  \A f \in Fields : (f \in draft.content) # (f \in draft'.content) =>
    \E b \in Small : Writes(b) /\ f \in b.set \cup b.remove

\* A step changes only the fields its writer names: what another tab or the
\* chat saved in the meantime survives, the overwriting turn apart.
NoLostUpdate == [][Unlost \/ overwrote']_vars

Saves(k) ==
  \E p \in Posts : post[p].pc = "save" /\ post[p].key = k /\ post'[p] = NoPost
                   /\ draft' # draft

\* However often and concurrently an edit is sent, it is applied once, even
\* when the revision it expects comes back.
AppliedOnce == [][\A k \in Edits : Saves(k) => k \notin recorded]_vars

\* A build starts from a complete requirement that a tab was showing when its
\* user confirmed, whichever way the payload was made.
StartedAsReviewed ==
  [][Len(runs') > Len(runs) =>
       LET payload == runs'[Len(runs')].payload IN
       /\ Eligible(payload)
       /\ \E t \in Tabs : Review(payload) = Review(seen[t])]_vars

\* A version is added only for the requirement the draft states at that moment.
DeliveredIsCurrent ==
  [][versions' # versions =>
       (overwrote \/ Review(runs[versions'[Len(versions')]].payload) = Review(draft))]_vars

\* A version that was just saved is not shown as outdated: the save compares
\* revisions with the payload, the axes compare hashes with the confirmation
\* the session points to, and a retry may stand between the two.
DeliveredShowsCurrent == [][versions' # versions => overwrote \/ Current']_vars

\* The axes agree: after a failure, a retry is offered exactly as long as the
\* requirement is shown as confirmed.
RetryFollowsConfirmation ==
  runs # <<>> /\ runs[Last].status = "failed" => (RetryOffered(Last) <=> DraftConfirmed)

\* A configuration shown as current was made for the requirement as it is.
CurrentMatchesDraft == Current => Review(runs[Last].payload) = Review(draft)

(* What the documents say and the program does not keep. *)

\* "An edit with an outdated revision never overwrites newer state", for every
\* writer.
NeverLosesAnUpdate == [][Unlost]_vars

\* "If the draft is unchanged, the same snapshot can be retried": a run is not
\* admitted with a revision that makes its result stale from the start.
RetryCanDeliver ==
  [][Len(runs') > Len(runs) => runs'[Len(runs')].payload.rev = draft.rev]_vars
=============================================================================
