----------------------- MODULE RequirementDraftProofs -----------------------
(***************************************************************************)
(* Theorems about RequirementDraft for all sets of fields, tabs, edits and *)
(* calls and all bounds.                                                   *)
(***************************************************************************)
EXTENDS RequirementDraft, TLAPS

-----------------------------------------------------------------------------
(* Data *)

\* A sequence over a set is a sequence over a larger one.
LEMMA SeqWidens ==
  ASSUME NEW S, NEW T, S \subseteq T, NEW s \in Seq(S)
  PROVE  s \in Seq(T)
<1>1. s \in [1 .. Len(s) -> S] /\ Len(s) \in Nat
  OBVIOUS
<1>2. s \in [1 .. Len(s) -> T]
  BY <1>1
<1> QED BY <1>1, <1>2

\* What Append does to a sequence whose elements have a property.
LEMMA Appended ==
  ASSUME NEW S, NEW s \in Seq(S), NEW e \in S
  PROVE  /\ Append(s, e) \in Seq(S)
         /\ Len(Append(s, e)) = Len(s) + 1
         /\ DOMAIN s = 1 .. Len(s)
         /\ DOMAIN Append(s, e) = DOMAIN s \cup {Len(s) + 1}
         /\ \A i \in DOMAIN s : Append(s, e)[i] = s[i]
         /\ Append(s, e)[Len(s) + 1] = e
OBVIOUS

\* The reducer yields a draft, one revision later unless the batch is empty.
LEMMA ApplyTyped ==
  ASSUME NEW d \in Drafts, NEW b \in Batches
  PROVE  /\ Apply(d, b) \in Drafts
         /\ b # Nothing => Apply(d, b).rev = d.rev + 1
         /\ b = Nothing => Apply(d, b) = d
BY DEF Apply, Drafts, Batches

\* The reducer changes only the fields its batch names.
LEMMA ApplyNames ==
  ASSUME NEW d \in Drafts, NEW b \in Batches, NEW f,
         (f \in d.content) # (f \in Apply(d, b).content)
  PROVE  f \in b.set \cup b.remove
BY DEF Apply, Drafts, Batches

-----------------------------------------------------------------------------
(* Type correctness *)

\* The type of build runs.
RunRecords == [confirmation : Nat, payload : Drafts,
               status : {"running", "succeeded", "failed", "interrupted"}]

\* The runs are a sequence of such records.
LEMMA RunsTyped ==
  ASSUME TypeOK
  PROVE  /\ runs \in Seq(RunRecords)
         /\ \A r \in DOMAIN runs : runs[r] \in RunRecords
<1>1. runs \in Seq(RunRecords)
  BY DEF TypeOK, RunRecords
<1> QED BY <1>1

\* A call that has started is one of two kinds of record.
LEMMA PostTyped ==
  ASSUME TypeOK, NEW p \in Posts
  PROVE  /\ post[p] # NoPost => post[p].key \in Edits
         /\ post[p].pc = "read" => post[p] \in [pc : {"read"}, key : Edits]
         /\ post[p].pc = "save" => post[p] \in [pc : {"save"}, key : Edits, base : Drafts]
         /\ post[p] # NoPost <=> post[p].pc \in {"read", "save"}
BY DEF TypeOK, NoPost

\* The screening run that has asked the agent holds a draft and a batch.
LEMMA ScreeningTyped ==
  ASSUME TypeOK, screening.pc = "asked"
  PROVE  screening \in [pc : {"asked"}, base : Drafts, batch : Batches]
BY DEF TypeOK, NoScreening

\* The initial state is typed.
LEMMA TypeInit == Init => TypeOK
<1> SUFFICES ASSUME Init PROVE TypeOK
  OBVIOUS
<1>1. draft \in Drafts
  BY DEF Init, Drafts
<1>2. /\ recorded \in SUBSET Edits
      /\ seen \in [Tabs -> Drafts]
      /\ sent \in [Edits -> {NoBody} \cup [expected : Nat, batch : Batches]]
      /\ post \in [Posts -> {NoPost} \cup [pc : {"read"}, key : Edits]
                            \cup [pc : {"save"}, key : Edits, base : Drafts]]
      /\ overwrote \in BOOLEAN
  BY <1>1 DEF Init
<1>3. confirmed \in 0 .. Len(confirmations) /\ confirmations \in Seq(Drafts)
  BY DEF Init
<1>4. /\ runs \in Seq(RunRecords) /\ DOMAIN runs = {}
      /\ versions \in Seq(DOMAIN runs)
  BY DEF Init
<1> QED BY <1>1, <1>2, <1>3, <1>4 DEF Init, TypeOK, RunRecords

\* The steps of tabs and of edits keep the types.
LEMMA EditTypes ==
  ASSUME TypeOK, EditStep \/ \E t \in Tabs : Load(t)
  PROVE  TypeOK'
<1>1. ASSUME NEW t \in Tabs, Load(t) PROVE TypeOK'
  BY <1>1 DEF TypeOK, Load
<1>2. ASSUME NEW p \in Posts, NEW k \in Edits, ResendEdit(p, k) PROVE TypeOK'
  BY <1>2 DEF TypeOK, ResendEdit
<1>3. ASSUME NEW p \in Posts, NEW k \in Edits, NEW t \in Tabs, SendEdit(p, k, t)
      PROVE TypeOK'
  <2>1. PICK b \in Small : sent' = [sent EXCEPT ![k] = [expected |-> seen[t].rev, batch |-> b]]
    BY <1>3 DEF SendEdit
  <2>2. [expected |-> seen[t].rev, batch |-> b] \in [expected : Nat, batch : Batches]
    BY DEF TypeOK, Drafts, Small
  <2>3. sent' \in [Edits -> {NoBody} \cup [expected : Nat, batch : Batches]]
    BY <2>1, <2>2 DEF TypeOK
  <2> QED BY <1>3, <2>3 DEF TypeOK, SendEdit
<1>4. ASSUME NEW p \in Posts, ReadDraft(p) PROVE TypeOK'
  <2>1. [pc |-> "save", key |-> post[p].key, base |-> draft]
          \in [pc : {"save"}, key : Edits, base : Drafts]
    BY <1>4, PostTyped DEF TypeOK, ReadDraft
  <2> QED BY <1>4, <2>1 DEF TypeOK, ReadDraft
<1>5. ASSUME NEW p \in Posts, SaveEdit(p) PROVE TypeOK'
  <2>1. post[p].key \in Edits /\ post[p].base \in Drafts
    BY <1>5, PostTyped DEF SaveEdit
  <2>2. sent[post[p].key].batch \in Batches
    BY <2>1 DEF TypeOK, NoBody, Batches, Nothing
  <2>3. draft' \in Drafts
    BY <1>5, <2>1, <2>2, ApplyTyped DEF SaveEdit
  <2> QED BY <1>5, <2>1, <2>3 DEF TypeOK, SaveEdit
<1>6. ASSUME NEW p \in Posts, DropEdit(p) PROVE TypeOK'
  BY <1>6 DEF TypeOK, DropEdit
<1> QED BY <1>1, <1>2, <1>3, <1>4, <1>5, <1>6 DEF EditStep

\* The steps of a screening run keep the types.
LEMMA ScreeningTypes ==
  ASSUME TypeOK, ScreeningStep
  PROVE  TypeOK'
<1>1. CASE StartScreening
  BY <1>1 DEF TypeOK, StartScreening
<1>2. CASE AskAgent
  <2>1. PICK b \in Small : screening' = [pc |-> "asked", base |-> draft, batch |-> b]
    BY <1>2 DEF AskAgent
  <2>2. screening' \in [pc : {"asked"}, base : Drafts, batch : Batches]
    BY <2>1 DEF TypeOK, Small
  <2> QED BY <1>2, <2>2 DEF TypeOK, AskAgent
<1>3. CASE CompleteScreening
  <2>1. draft' \in Drafts
    BY <1>3, ScreeningTyped, ApplyTyped DEF CompleteScreening
  <2>2. overwrote' \in BOOLEAN
    BY <1>3 DEF TypeOK, CompleteScreening
  <2> QED BY <1>3, <2>1, <2>2 DEF TypeOK, CompleteScreening
<1>4. CASE AbandonScreening
  BY <1>4 DEF TypeOK, AbandonScreening
<1> QED BY <1>1, <1>2, <1>3, <1>4 DEF ScreeningStep

\* A new build run keeps the types.
LEMMA StartTypes ==
  ASSUME TypeOK, NEW run \in RunRecords, StartBuild(run),
         confirmations' \in Seq(Drafts),
         DOMAIN confirmations \subseteq DOMAIN confirmations',
         run.confirmation \in DOMAIN confirmations',
         UNCHANGED <<draft, recorded, versions, screening, seen, sent, post, overwrote>>
  PROVE  TypeOK'
<1>1. /\ runs' \in Seq(RunRecords)
      /\ DOMAIN runs \subseteq DOMAIN runs'
      /\ \A r \in DOMAIN runs' :
           runs'[r] = run \/ (r \in DOMAIN runs /\ runs'[r] = runs[r])
  <2>1. runs \in Seq(RunRecords) /\ runs' = Append(runs, run)
    BY RunsTyped DEF StartBuild
  <2>2. /\ Append(runs, run) \in Seq(RunRecords)
        /\ DOMAIN Append(runs, run) = DOMAIN runs \cup {Len(runs) + 1}
        /\ \A i \in DOMAIN runs : Append(runs, run)[i] = runs[i]
        /\ Append(runs, run)[Len(runs) + 1] = run
    BY <2>1, Appended
  <2>3. /\ runs' \in Seq(RunRecords)
        /\ DOMAIN runs' = DOMAIN runs \cup {Len(runs) + 1}
        /\ \A i \in DOMAIN runs : runs'[i] = runs[i]
        /\ runs'[Len(runs) + 1] = run
    BY <2>1, <2>2, Zenon
  <2> QED BY <2>3
<1>2. \A r \in DOMAIN runs' : runs'[r].confirmation \in DOMAIN confirmations'
  BY <1>1 DEF TypeOK
<1>3. confirmed' \in 0 .. Len(confirmations')
  BY DEF StartBuild
<1>4. versions' \in Seq(DOMAIN runs')
  BY <1>1, SeqWidens DEF TypeOK
<1> QED BY <1>1, <1>2, <1>3, <1>4 DEF TypeOK, RunRecords

\* The steps of confirmations and build runs keep the types.
LEMMA BuildTypes ==
  ASSUME TypeOK, BuildStep
  PROVE  TypeOK'
<1>1. ASSUME NEW t \in Tabs, Confirm(t) PROVE TypeOK'
  <2> DEFINE run == [confirmation |-> Len(confirmations) + 1, payload |-> draft,
                     status |-> "running"]
  <2>1. run \in RunRecords /\ StartBuild(run)
    BY <1>1 DEF TypeOK, Confirm, RunRecords
  <2>2. /\ confirmations' \in Seq(Drafts)
        /\ DOMAIN confirmations \subseteq DOMAIN confirmations'
        /\ run.confirmation \in DOMAIN confirmations'
    BY <1>1, Appended DEF TypeOK, Confirm
  <2> QED BY <1>1, <2>1, <2>2, StartTypes DEF Confirm
<1>2. ASSUME NEW t \in Tabs, NEW r \in DOMAIN runs, Retry(t, r) PROVE TypeOK'
  <2> DEFINE run == [runs[r] EXCEPT !.status = "running"]
  <2>1. runs[r] \in RunRecords /\ runs[r].confirmation \in DOMAIN confirmations
    BY RunsTyped DEF TypeOK
  <2>2. run \in RunRecords /\ run.confirmation = runs[r].confirmation
    BY <2>1 DEF RunRecords
  <2>3. StartBuild(run) /\ confirmations' = confirmations
    BY <1>2 DEF Retry
  <2> QED BY <1>2, <2>1, <2>2, <2>3, StartTypes DEF TypeOK, Retry
<1>3. ASSUME NEW r \in DOMAIN runs, NEW s \in {"succeeded", "failed", "interrupted"},
             EndBuild(r, s), versions' = versions \/ versions' = Append(versions, r)
      PROVE  TypeOK'
  <2>1. runs \in Seq(RunRecords) /\ runs[r] \in RunRecords
    BY RunsTyped
  <2>2. [runs[r] EXCEPT !.status = s] \in RunRecords
    BY <2>1 DEF RunRecords
  <2>3. /\ runs' \in Seq(RunRecords) /\ DOMAIN runs' = DOMAIN runs
        /\ \A q \in DOMAIN runs : runs'[q].confirmation = runs[q].confirmation
    <3>1. runs' = [runs EXCEPT ![r] = [runs[r] EXCEPT !.status = s]]
      BY <1>3 DEF EndBuild
    <3>2. [runs[r] EXCEPT !.status = s].confirmation = runs[r].confirmation
      BY <2>1 DEF RunRecords
    <3> QED BY <2>1, <2>2, <3>1, <3>2
  <2>4. versions' \in Seq(DOMAIN runs)
    <3>1. versions \in Seq(DOMAIN runs)
      BY DEF TypeOK
    <3>2. Append(versions, r) \in Seq(DOMAIN runs)
      BY <3>1, Appended
    <3> QED BY <1>3, <3>1, <3>2
  <2>5. UNCHANGED <<draft, recorded, confirmations, confirmed, screening, seen, sent,
                    post, overwrote>>
    BY <1>3 DEF EndBuild
  <2> QED BY <2>3, <2>4, <2>5 DEF TypeOK, RunRecords
<1>4. ASSUME NEW r \in DOMAIN runs, SaveVersion(r) \/ SaveProposal(r) \/ FailBuild(r)
      PROVE  TypeOK'
  BY <1>3, <1>4 DEF SaveVersion, SaveProposal, FailBuild
<1> QED BY <1>1, <1>2, <1>4 DEF BuildStep

\* Every step keeps the types.
LEMMA TypeStep == TypeOK /\ [Next]_vars => TypeOK'
<1> SUFFICES ASSUME TypeOK, [Next]_vars PROVE TypeOK'
  OBVIOUS
<1>1. CASE UNCHANGED vars
  BY <1>1 DEF TypeOK, vars
<1> QED BY <1>1, EditTypes, ScreeningTypes, BuildTypes DEF Next

\* Every variable keeps its type, whatever is edited, asked, confirmed or built.
THEOREM TypeCorrect == Spec => []TypeOK
BY TypeInit, TypeStep, PTL DEF Spec

-----------------------------------------------------------------------------
(* The inductive invariant *)

\* Every edit that was sent has a body, and its body is not empty.
SentBodies ==
  /\ \A k \in Edits : sent[k] # NoBody =>
       sent[k] \in [expected : Nat, batch : Small \ {Nothing}]
  /\ \A p \in Posts : post[p] # NoPost => sent[post[p].key] # NoBody
  /\ screening.pc = "asked" => screening.batch \in Small

\* A copy of a draft is the draft, or it has an earlier revision.
Below(d, e) == d.rev < e.rev \/ d = e

\* Copies are older than the draft, an edit expects a revision the draft has
\* had, and what its handler read is not older than that.
CopiesBelow ==
  /\ \A t \in Tabs : Below(seen[t], draft)
  /\ \A r \in DOMAIN runs : Below(runs[r].payload, draft)
  /\ \A p \in Posts : post[p].pc = "save" =>
       Below(post[p].base, draft) /\ sent[post[p].key].expected <= post[p].base.rev
  /\ \A k \in Edits : sent[k] # NoBody => sent[k].expected <= draft.rev

Ordered == ~overwrote => CopiesBelow

\* A run works on the draft its confirmation froze.
Frozen == \A r \in DOMAIN runs : runs[r].payload = confirmations[runs[r].confirmation]

DraftInv == TypeOK /\ SentBodies /\ Ordered /\ Frozen

\* The invariant holds at the start.
LEMMA InvInit == Init => DraftInv
<1> SUFFICES ASSUME Init PROVE DraftInv
  OBVIOUS
<1>1. SentBodies
  BY DEF Init, SentBodies, NoScreening, NoPost, NoBody
<1>2. Ordered
  BY DEF Init, Ordered, CopiesBelow, Below, NoPost, NoBody
<1>3. Frozen
  BY DEF Init, Frozen
<1> QED BY <1>1, <1>2, <1>3, TypeInit DEF DraftInv

\* Bodies are written once and never change.
LEMMA BodiesStep ==
  ASSUME TypeOK, SentBodies, Next
  PROVE  SentBodies'
<1> USE DEF SentBodies
<1>1. ASSUME NEW p \in Posts, NEW k \in Edits, NEW t \in Tabs, SendEdit(p, k, t)
      PROVE SentBodies'
  <2>1. PICK b \in Small \ {Nothing} :
          sent' = [sent EXCEPT ![k] = [expected |-> seen[t].rev, batch |-> b]]
    BY <1>1 DEF SendEdit
  <2>2. [expected |-> seen[t].rev, batch |-> b]
          \in [expected : Nat, batch : Small \ {Nothing}]
    BY DEF TypeOK, Drafts
  <2>3. [expected |-> seen[t].rev, batch |-> b] # NoBody
    BY DEF NoBody
  <2>4. \A j \in Edits : sent'[j] = IF j = k THEN [expected |-> seen[t].rev, batch |-> b]
                                             ELSE sent[j]
    BY <2>1 DEF TypeOK
  <2>5. \A q \in Posts : post'[q] # NoPost => sent'[post'[q].key] # NoBody
    <3> SUFFICES ASSUME NEW q \in Posts, post'[q] # NoPost
                 PROVE  sent'[post'[q].key] # NoBody
      OBVIOUS
    <3>1. CASE q = p
      BY <1>1, <2>3, <2>4, <3>1 DEF TypeOK, SendEdit
    <3>2. CASE q # p
      <4>1. post'[q] = post[q] /\ post[q].key \in Edits
        BY <1>1, <3>2, PostTyped DEF TypeOK, SendEdit
      <4> QED BY <2>3, <2>4, <4>1
    <3> QED BY <3>1, <3>2
  <2> QED BY <1>1, <2>2, <2>4, <2>5 DEF SendEdit
<1>2. ASSUME NEW p \in Posts, NEW k \in Edits, ResendEdit(p, k) PROVE SentBodies'
  BY <1>2 DEF TypeOK, ResendEdit
<1>3. ASSUME NEW p \in Posts, ReadDraft(p) \/ SaveEdit(p) \/ DropEdit(p)
      PROVE SentBodies'
  <2>1. UNCHANGED <<sent, screening>>
    BY <1>3 DEF ReadDraft, SaveEdit, DropEdit
  <2>2. ASSUME NEW q \in Posts, post'[q] # NoPost
        PROVE  post[q] # NoPost /\ post'[q].key = post[q].key
    <3>1. ReadDraft(p) => post[p] # NoPost
      BY DEF ReadDraft, NoPost
    <3>2. post'[p] = NoPost \/ (ReadDraft(p) /\ post'[p].key = post[p].key)
      BY <1>3 DEF TypeOK, ReadDraft, SaveEdit, DropEdit
    <3>3. q # p => post'[q] = post[q]
      BY <1>3 DEF TypeOK, ReadDraft, SaveEdit, DropEdit
    <3> QED BY <2>2, <3>1, <3>2, <3>3
  <2> QED BY <2>1, <2>2
<1>4. ASSUME ScreeningStep PROVE SentBodies'
  <2>1. UNCHANGED <<sent, post>>
    BY <1>4 DEF ScreeningStep, StartScreening, AskAgent, CompleteScreening, AbandonScreening
  <2>2. screening'.pc = "asked" => screening'.batch \in Small
    BY <1>4 DEF ScreeningStep, StartScreening, AskAgent, CompleteScreening,
       AbandonScreening, NoScreening
  <2> QED BY <2>1, <2>2
<1>5. ASSUME BuildStep \/ \E t \in Tabs : Load(t) PROVE SentBodies'
  BY <1>5 DEF BuildStep, Load, Confirm, Retry, SaveVersion, SaveProposal, FailBuild, EndBuild
<1> QED BY <1>1, <1>2, <1>3, <1>4, <1>5 DEF Next, EditStep

\* A run is started with the draft its confirmation freezes, or with what an
\* earlier run of the confirmation was started with.
LEMMA FrozenStep ==
  ASSUME TypeOK, Frozen, Next
  PROVE  Frozen'
<1>1. ASSUME NEW t \in Tabs, Confirm(t) PROVE Frozen'
  <2> DEFINE run == [confirmation |-> Len(confirmations) + 1, payload |-> draft,
                     status |-> "running"]
  <2>1. /\ runs' = Append(runs, run) /\ runs \in Seq(RunRecords) /\ run \in RunRecords
        /\ confirmations' = Append(confirmations, draft)
    BY <1>1, RunsTyped DEF Confirm, StartBuild, TypeOK, RunRecords
  <2>2. /\ DOMAIN Append(runs, run) = DOMAIN runs \cup {Len(runs) + 1}
        /\ \A i \in DOMAIN runs : Append(runs, run)[i] = runs[i]
        /\ Append(runs, run)[Len(runs) + 1] = run
    BY <2>1, Appended
  <2>3. /\ \A i \in DOMAIN confirmations : confirmations'[i] = confirmations[i]
        /\ confirmations'[Len(confirmations) + 1] = draft
    BY <2>1, Appended DEF TypeOK
  <2>4. \A r \in DOMAIN runs : runs[r].confirmation \in DOMAIN confirmations
    BY DEF TypeOK
  <2> QED BY <2>1, <2>2, <2>3, <2>4 DEF Frozen
<1>2. ASSUME NEW t \in Tabs, NEW r \in DOMAIN runs, Retry(t, r) PROVE Frozen'
  <2> DEFINE run == [runs[r] EXCEPT !.status = "running"]
  <2>1. /\ runs' = Append(runs, run) /\ runs \in Seq(RunRecords)
        /\ confirmations' = confirmations
    BY <1>2, RunsTyped DEF Retry, StartBuild
  <2>2. /\ run \in RunRecords
        /\ run.payload = runs[r].payload /\ run.confirmation = runs[r].confirmation
    BY RunsTyped DEF RunRecords
  <2>3. /\ DOMAIN Append(runs, run) = DOMAIN runs \cup {Len(runs) + 1}
        /\ \A i \in DOMAIN runs : Append(runs, run)[i] = runs[i]
        /\ Append(runs, run)[Len(runs) + 1] = run
    BY <2>1, <2>2, Appended
  <2> QED BY <2>1, <2>2, <2>3 DEF Frozen
<1>3. ASSUME NEW r \in DOMAIN runs, NEW s \in {"succeeded", "failed", "interrupted"},
             EndBuild(r, s)
      PROVE  Frozen'
  <2>1. runs' = [runs EXCEPT ![r] = [runs[r] EXCEPT !.status = s]]
    BY <1>3 DEF EndBuild
  <2>2. \A q \in DOMAIN runs : runs[q] \in RunRecords
    BY RunsTyped
  <2>3. /\ DOMAIN runs' = DOMAIN runs
        /\ \A q \in DOMAIN runs : /\ runs'[q].payload = runs[q].payload
                                  /\ runs'[q].confirmation = runs[q].confirmation
    BY <2>1, <2>2 DEF RunRecords
  <2> QED BY <1>3, <2>3 DEF EndBuild, Frozen
<1>4. ASSUME NEW r \in DOMAIN runs, SaveVersion(r) \/ SaveProposal(r) \/ FailBuild(r)
      PROVE  Frozen'
  BY <1>3, <1>4 DEF SaveVersion, SaveProposal, FailBuild
<1>5. ASSUME EditStep \/ ScreeningStep \/ \E t \in Tabs : Load(t) PROVE Frozen'
  BY <1>5 DEF Frozen, EditStep, SendEdit, ResendEdit, ReadDraft, SaveEdit, DropEdit,
     ScreeningStep, StartScreening, AskAgent, CompleteScreening, AbandonScreening, Load
<1> QED BY <1>1, <1>2, <1>4, <1>5 DEF Next, BuildStep

\* A copy that was below the draft stays below what replaces it.
LEMMA StillBelow ==
  ASSUME NEW d \in Drafts, draft \in Drafts, draft' \in Drafts, Below(d, draft),
         draft' = draft \/ draft'.rev = draft.rev + 1
  PROVE  /\ Below(d, draft')
         /\ d.rev <= draft'.rev
         /\ draft'.rev = draft.rev + 1 => d.rev < draft'.rev
BY DEF Below, Drafts

\* Saving an edit replaces the draft its handler read, one revision later.
LEMMA EditExtends ==
  ASSUME DraftInv, ~overwrote, NEW p \in Posts, SaveEdit(p)
  PROVE  LET b == sent[post[p].key].batch IN
         /\ b \in Small \ {Nothing}
         /\ draft' = Apply(draft, b)
         /\ draft'.rev = draft.rev + 1
<1> DEFINE k == post[p].key
           b == sent[k].batch
<1>1. post[p] \in [pc : {"save"}, key : Edits, base : Drafts] /\ post[p] # NoPost
  BY PostTyped DEF DraftInv, SaveEdit, NoPost
<1>2. k \in Edits /\ post[p].base \in Drafts /\ draft \in Drafts
  BY <1>1 DEF DraftInv, TypeOK
<1>3. sent[k] \in [expected : Nat, batch : Small \ {Nothing}]
  BY <1>1, <1>2 DEF DraftInv, SentBodies
<1>4. sent[k].expected = draft.rev /\ draft' = Apply(post[p].base, b)
  BY DEF SaveEdit, EditAccepted
<1>5. Below(post[p].base, draft) /\ sent[k].expected <= post[p].base.rev
  BY <1>1 DEF DraftInv, Ordered, CopiesBelow
<1>6. post[p].base = draft
  BY <1>2, <1>4, <1>5 DEF Below, Drafts
<1>7. b \in Small \ {Nothing} /\ b \in Batches
  BY <1>3 DEF Small
<1> QED BY <1>2, <1>4, <1>6, <1>7, ApplyTyped

\* A screening turn that overwrites nothing extends the draft, or keeps it.
LEMMA ScreeningExtends ==
  ASSUME DraftInv, CompleteScreening, ~overwrote'
  PROVE  /\ ~overwrote
         /\ screening.batch \in Small
         /\ draft' = Apply(draft, screening.batch)
         /\ draft' = draft \/ draft'.rev = draft.rev + 1
<1>1. ~overwrote /\ draft = screening.base
  BY DEF CompleteScreening, DraftInv, TypeOK
<1>2. screening.batch \in Small /\ screening.batch \in Batches
  BY DEF CompleteScreening, DraftInv, SentBodies, Small
<1>3. draft' = Apply(draft, screening.batch) /\ draft \in Drafts
  BY <1>1 DEF CompleteScreening, DraftInv, TypeOK
<1> QED BY <1>1, <1>2, <1>3, ApplyTyped

\* Nobody else writes the draft, or forgets an overwriting.
LEMMA Writers ==
  ASSUME Next
  PROVE  \/ UNCHANGED <<draft, overwrote>>
         \/ \E p \in Posts : SaveEdit(p)
         \/ CompleteScreening
BY DEF Next, EditStep, SendEdit, ResendEdit, ReadDraft, DropEdit, Load,
   ScreeningStep, StartScreening, AskAgent, AbandonScreening,
   BuildStep, Confirm, Retry, SaveVersion, SaveProposal, FailBuild, EndBuild

\* As long as nothing was overwritten, the draft stays or moves one revision on.
LEMMA DraftAdvances ==
  ASSUME DraftInv, Next, ~overwrote'
  PROVE  /\ ~overwrote
         /\ draft' = draft \/ draft'.rev = draft.rev + 1
<1>1. ASSUME NEW p \in Posts, SaveEdit(p)
      PROVE  ~overwrote /\ draft'.rev = draft.rev + 1
  <2>1. ~overwrote
    BY <1>1 DEF SaveEdit
  <2> QED BY <1>1, <2>1, EditExtends
<1> QED BY <1>1, Writers, ScreeningExtends

\* A tab shows what it showed, or the draft.
LEMMA SeenChanges ==
  ASSUME TypeOK, Next, NEW t \in Tabs
  PROVE  seen'[t] = seen[t] \/ (seen'[t] = draft /\ draft' = draft)
<1>1. (\E u \in Tabs : Load(u)) \/ UNCHANGED seen
  BY DEF Next, EditStep, SendEdit, ResendEdit, ReadDraft, SaveEdit, DropEdit,
     ScreeningStep, StartScreening, AskAgent, CompleteScreening, AbandonScreening,
     BuildStep, Confirm, Retry, SaveVersion, SaveProposal, FailBuild, EndBuild
<1> QED BY <1>1 DEF Load, TypeOK

\* A run has the payload it had, that of the run it retries, or the draft.
LEMMA PayloadChanges ==
  ASSUME TypeOK, Next, NEW r \in DOMAIN runs'
  PROVE  \/ \E q \in DOMAIN runs : runs'[r].payload = runs[q].payload
         \/ runs'[r].payload = draft /\ draft' = draft
<1>1. ASSUME NEW run \in RunRecords, runs' = Append(runs, run)
      PROVE  runs'[r] = run \/ (r \in DOMAIN runs /\ runs'[r] = runs[r])
  <2>1. /\ DOMAIN Append(runs, run) = DOMAIN runs \cup {Len(runs) + 1}
        /\ \A i \in DOMAIN runs : Append(runs, run)[i] = runs[i]
        /\ Append(runs, run)[Len(runs) + 1] = run
    BY RunsTyped, Appended
  <2>2. /\ DOMAIN runs' = DOMAIN runs \cup {Len(runs) + 1}
        /\ \A i \in DOMAIN runs : runs'[i] = runs[i]
        /\ runs'[Len(runs) + 1] = run
    BY <1>1, <2>1, Zenon
  <2> QED BY <2>2
<1>2. ASSUME NEW t \in Tabs, Confirm(t)
      PROVE  (\E q \in DOMAIN runs : runs'[r].payload = runs[q].payload)
               \/ (runs'[r].payload = draft /\ draft' = draft)
  <2> DEFINE run == [confirmation |-> Len(confirmations) + 1, payload |-> draft,
                     status |-> "running"]
  <2>1. run \in RunRecords /\ runs' = Append(runs, run) /\ draft' = draft
    BY <1>2 DEF Confirm, StartBuild, TypeOK, RunRecords
  <2> QED BY <1>1, <2>1
<1>3. ASSUME NEW t \in Tabs, NEW p \in DOMAIN runs, Retry(t, p)
      PROVE  \E q \in DOMAIN runs : runs'[r].payload = runs[q].payload
  <2> DEFINE run == [runs[p] EXCEPT !.status = "running"]
  <2>1. run \in RunRecords /\ run.payload = runs[p].payload
    BY RunsTyped DEF RunRecords
  <2>2. runs' = Append(runs, run)
    BY <1>3 DEF Retry, StartBuild
  <2> QED BY <1>1, <2>1, <2>2
<1>4. ASSUME NEW p \in DOMAIN runs, NEW s \in {"succeeded", "failed", "interrupted"},
             EndBuild(p, s)
      PROVE  \E q \in DOMAIN runs : runs'[r].payload = runs[q].payload
  <2>1. runs' = [runs EXCEPT ![p] = [runs[p] EXCEPT !.status = s]]
    BY <1>4 DEF EndBuild
  <2>2. r \in DOMAIN runs /\ runs[r] \in RunRecords
    BY <2>1, RunsTyped
  <2>3. runs'[r].payload = runs[r].payload
    BY <2>1, <2>2 DEF RunRecords
  <2> QED BY <2>2, <2>3
<1>5. CASE runs' = runs
  BY <1>5
<1>6. \/ \E t \in Tabs : Confirm(t) \/ \E p \in DOMAIN runs : Retry(t, p)
      \/ \E p \in DOMAIN runs : \E s \in {"succeeded", "failed", "interrupted"} : EndBuild(p, s)
      \/ runs' = runs
  BY DEF Next, EditStep, SendEdit, ResendEdit, ReadDraft, SaveEdit, DropEdit, Load,
     ScreeningStep, StartScreening, AskAgent, CompleteScreening, AbandonScreening,
     BuildStep, SaveVersion, SaveProposal, FailBuild
<1> QED BY <1>2, <1>3, <1>4, <1>5, <1>6

\* A call that is about to save was so before, or has just read the draft.
LEMMA PostChanges ==
  ASSUME TypeOK, Next, NEW p \in Posts, post'[p].pc = "save"
  PROVE  /\ post[p] # NoPost
         /\ post'[p].key = post[p].key
         /\ \/ post'[p] = post[p]
            \/ post'[p].base = draft /\ draft' = draft
<1>1. ASSUME NEW q \in Posts, NEW k \in Edits, NEW t \in Tabs,
             SendEdit(q, k, t) \/ ResendEdit(q, k)
      PROVE  post'[p] = post[p]
  BY <1>1 DEF SendEdit, ResendEdit, TypeOK
<1>2. ASSUME NEW q \in Posts, ReadDraft(q)
      PROVE  post'[p] = post[p] \/ (p = q /\ post'[p].key = post[p].key
                                      /\ post'[p].base = draft /\ draft' = draft)
  BY <1>2 DEF ReadDraft, TypeOK
<1>3. ASSUME NEW q \in Posts, SaveEdit(q) \/ DropEdit(q)
      PROVE  post'[p] = post[p]
  BY <1>3 DEF SaveEdit, DropEdit, TypeOK, NoPost
<1>4. ASSUME NEW q \in Posts, ReadDraft(q) PROVE post[q] # NoPost
  BY <1>4 DEF ReadDraft, NoPost
<1>5. post'[p] = post[p] => post[p] # NoPost
  BY DEF NoPost
<1>6. \/ \E q \in Posts, k \in Edits : ResendEdit(q, k) \/ \E t \in Tabs : SendEdit(q, k, t)
      \/ \E q \in Posts : ReadDraft(q) \/ SaveEdit(q) \/ DropEdit(q)
      \/ UNCHANGED post
  BY DEF Next, EditStep, Load,
     ScreeningStep, StartScreening, AskAgent, CompleteScreening, AbandonScreening,
     BuildStep, Confirm, Retry, SaveVersion, SaveProposal, FailBuild, EndBuild
<1>7. ASSUME NEW q \in Posts, NEW k \in Edits, ResendEdit(q, k)
      PROVE  post'[p] = post[p]
  BY <1>7 DEF ResendEdit, TypeOK
<1> QED BY <1>1, <1>2, <1>3, <1>4, <1>5, <1>6, <1>7

\* An edit that was sent keeps its body; a new one expects what a tab shows.
LEMMA SentChanges ==
  ASSUME TypeOK, Next, NEW k \in Edits
  PROVE  \/ sent'[k] = sent[k]
         \/ /\ sent[k] = NoBody /\ draft' = draft
            /\ \E t \in Tabs : sent'[k].expected = seen[t].rev
<1>1. ASSUME NEW p \in Posts, NEW j \in Edits, NEW t \in Tabs, SendEdit(p, j, t)
      PROVE  \/ sent'[k] = sent[k]
             \/ sent[k] = NoBody /\ draft' = draft /\ sent'[k].expected = seen[t].rev
  BY <1>1 DEF SendEdit, TypeOK
<1>2. (\E p \in Posts, j \in Edits, t \in Tabs : SendEdit(p, j, t)) \/ UNCHANGED sent
  BY DEF Next, EditStep, ResendEdit, ReadDraft, SaveEdit, DropEdit, Load,
     ScreeningStep, StartScreening, AskAgent, CompleteScreening, AbandonScreening,
     BuildStep, Confirm, Retry, SaveVersion, SaveProposal, FailBuild, EndBuild
<1> QED BY <1>1, <1>2

\* Copies stay below the draft.
LEMMA OrderedStep ==
  ASSUME DraftInv, Next
  PROVE  Ordered'
<1> SUFFICES ASSUME ~overwrote' PROVE CopiesBelow'
  BY DEF Ordered
<1>1. /\ CopiesBelow /\ TypeOK /\ draft \in Drafts /\ draft' \in Drafts
      /\ draft' = draft \/ draft'.rev = draft.rev + 1
  BY DraftAdvances, TypeStep DEF DraftInv, Ordered, TypeOK
<1>2. ASSUME NEW d \in Drafts, Below(d, draft) PROVE Below(d, draft') /\ d.rev <= draft'.rev
  BY <1>1, <1>2, StillBelow
<1>3. Below(draft, draft)
  BY DEF Below
<1>4. ASSUME NEW t \in Tabs PROVE Below(seen'[t], draft')
  <2>1. seen[t] \in Drafts /\ Below(seen[t], draft)
    BY <1>1 DEF TypeOK, CopiesBelow
  <2> QED BY <1>1, <1>2, <1>3, <2>1, SeenChanges DEF Below
<1>5. ASSUME NEW r \in DOMAIN runs' PROVE Below(runs'[r].payload, draft')
  <2>1. \A q \in DOMAIN runs : runs[q].payload \in Drafts /\ Below(runs[q].payload, draft)
    BY <1>1, RunsTyped DEF CopiesBelow, RunRecords
  <2> QED BY <1>1, <1>2, <1>3, <2>1, PayloadChanges DEF Below
<1>6. ASSUME NEW k \in Edits, sent'[k] # NoBody PROVE sent'[k].expected <= draft'.rev
  <2>1. CASE sent'[k] = sent[k]
    <3>1. sent[k].expected <= draft.rev /\ sent[k].expected \in Nat
      BY <1>1, <1>6, <2>1 DEF CopiesBelow, DraftInv, SentBodies
    <3> QED BY <1>1, <2>1, <3>1 DEF Drafts
  <2>2. ASSUME NEW t \in Tabs, sent'[k].expected = seen[t].rev
        PROVE  sent'[k].expected <= draft'.rev
    <3>1. seen[t] \in Drafts /\ Below(seen[t], draft)
      BY <1>1 DEF TypeOK, CopiesBelow
    <3> QED BY <1>2, <2>2, <3>1
  <2> QED BY <1>1, <2>1, <2>2, SentChanges
<1>7. ASSUME NEW p \in Posts, post'[p].pc = "save"
      PROVE  /\ Below(post'[p].base, draft')
             /\ sent'[post'[p].key].expected <= post'[p].base.rev
  <2>1. post[p] # NoPost /\ post[p].key \in Edits /\ post'[p].key = post[p].key
    BY <1>1, <1>7, PostChanges, PostTyped
  <2>2. sent[post[p].key] # NoBody
    BY <2>1 DEF DraftInv, SentBodies
  <2>3. sent'[post[p].key] = sent[post[p].key]
    BY <1>1, <2>1, <2>2, SentChanges
  <2>4. CASE post'[p] = post[p]
    <3>1. /\ post[p].base \in Drafts /\ Below(post[p].base, draft)
          /\ sent[post[p].key].expected <= post[p].base.rev
      BY <1>1, <1>7, <2>4, PostTyped DEF CopiesBelow
    <3> QED BY <1>2, <2>1, <2>3, <2>4, <3>1 DEF Below
  <2>5. CASE post'[p].base = draft /\ draft' = draft
    <3>1. sent[post[p].key].expected <= draft.rev
      BY <1>1, <2>1, <2>2 DEF CopiesBelow
    <3> QED BY <2>1, <2>3, <2>5, <3>1 DEF Below
  <2> QED BY <1>1, <1>7, <2>4, <2>5, PostChanges
<1> QED BY <1>4, <1>5, <1>6, <1>7 DEF CopiesBelow, Below

\* The invariant is inductive.
LEMMA InvStep == DraftInv /\ [Next]_vars => DraftInv'
<1> SUFFICES ASSUME DraftInv, [Next]_vars PROVE DraftInv'
  OBVIOUS
<1>1. CASE Next
  BY <1>1, TypeStep, BodiesStep, OrderedStep, FrozenStep DEF DraftInv
<1>2. CASE UNCHANGED vars
  <2>1. SentBodies' /\ Frozen'
    BY <1>2 DEF vars, DraftInv, SentBodies, Frozen
  <2>2. Ordered'
    BY <1>2 DEF vars, DraftInv, Ordered, CopiesBelow, Below
  <2> QED BY <1>2, <2>1, <2>2, TypeStep DEF DraftInv
<1> QED BY <1>1, <1>2

\* It holds in every reachable state.
LEMMA InvHolds == Spec => []DraftInv
BY InvInit, InvStep, PTL DEF Spec

-----------------------------------------------------------------------------
(* Results *)

\* A revision names one content: whoever compares revisions only, the save of
\* an edit or of a build result, compares drafts, until a screening turn
\* overwrites an edit.
THEOREM RevisionsCorrect == Spec => []RevisionNamesDraft
<1>1. DraftInv => RevisionNamesDraft
  <2> SUFFICES ASSUME DraftInv, ~overwrote, NEW d \in Held, d.rev = draft.rev
               PROVE  d = draft
    BY DEF RevisionNamesDraft
  <2>1. CopiesBelow
    BY DEF DraftInv, Ordered
  <2>2. Below(d, draft)
    BY <2>1 DEF Held, CopiesBelow
  <2> QED BY <2>2 DEF Below, DraftInv, TypeOK, Drafts
<1> QED BY <1>1, InvHolds, PTL

\* A write that extends the draft loses nothing.
LEMMA ExtendingKeeps ==
  ASSUME TypeOK, NEW b \in Small, draft' = Apply(draft, b), Writes(b)
  PROVE  Unlost
<1> SUFFICES ASSUME NEW f \in Fields, (f \in draft.content) # (f \in draft'.content)
             PROVE  f \in b.set \cup b.remove
  BY DEF Unlost
<1> QED BY ApplyNames DEF TypeOK, Small

\* No step, whoever takes it, changes a field its writer does not name, the
\* overwriting screening turn apart: edits and turns do not undo each other.
THEOREM UpdatesKept == Spec => NoLostUpdate
<1>1. ASSUME DraftInv, [Next]_vars PROVE [Unlost \/ overwrote']_vars
  <2> SUFFICES ASSUME Next, ~overwrote' PROVE Unlost
    BY <1>1
  <2>1. TypeOK /\ ~overwrote
    BY <1>1, DraftAdvances DEF DraftInv
  <2>2. ASSUME NEW p \in Posts, SaveEdit(p) PROVE Unlost
    <3> DEFINE b == sent[post[p].key].batch
    <3>1. b \in Small /\ draft' = Apply(draft, b)
      BY <1>1, <2>1, <2>2, EditExtends
    <3>2. Writes(b)
      BY <2>1, <2>2 DEF SaveEdit, Writes, TypeOK
    <3> QED BY <2>1, <3>1, <3>2, ExtendingKeeps
  <2>3. CASE CompleteScreening
    <3>1. screening.batch \in Small /\ draft' = Apply(draft, screening.batch)
      BY <1>1, <2>3, ScreeningExtends
    <3>2. Writes(screening.batch)
      BY <2>3 DEF CompleteScreening, Writes
    <3> QED BY <2>1, <3>1, <3>2, ExtendingKeeps
  <2>4. CASE draft' = draft
    BY <2>4 DEF Unlost
  <2> QED BY <2>2, <2>3, <2>4, Writers
<1> QED BY <1>1, InvHolds, PTL DEF Spec, NoLostUpdate

\* A build starts from a complete requirement that the user who confirmed was
\* looking at, also when the run is a retry and inherits an older payload.
THEOREM StartsCorrect == Spec => StartedAsReviewed
<1> DEFINE Good(d) == Eligible(d) /\ \E t \in Tabs : Review(d) = Review(seen[t])
<1>1. ASSUME DraftInv, Next, Len(runs') > Len(runs)
      PROVE  Good(runs'[Len(runs')].payload)
  <2>1. TypeOK /\ Frozen /\ runs \in Seq(RunRecords)
    BY <1>1, RunsTyped DEF DraftInv
  <2>2. ASSUME NEW run \in RunRecords, runs' = Append(runs, run), Good(run.payload)
        PROVE  Good(runs'[Len(runs')].payload)
    <3>1. Len(runs') = Len(runs) + 1 /\ runs'[Len(runs) + 1] = run
      BY <2>1, <2>2
    <3> QED BY <2>2, <3>1
  <2>3. ASSUME NEW t \in Tabs, Confirm(t)
        PROVE  Good(runs'[Len(runs')].payload)
    <3> DEFINE run == [confirmation |-> Len(confirmations) + 1, payload |-> draft,
                       status |-> "running"]
    <3>1. run \in RunRecords /\ runs' = Append(runs, run)
      BY <2>1, <2>3 DEF Confirm, StartBuild, TypeOK, RunRecords
    <3>2. Good(draft)
      BY <2>3 DEF Confirm, Reviewed
    <3> QED BY <2>2, <3>1, <3>2
  <2>4. ASSUME NEW t \in Tabs, NEW r \in DOMAIN runs, Retry(t, r)
        PROVE  Good(runs'[Len(runs')].payload)
    <3> DEFINE run == [runs[r] EXCEPT !.status = "running"]
    <3>1. run \in RunRecords /\ run.payload = runs[r].payload
      BY <2>1, RunsTyped DEF RunRecords
    <3>2. runs' = Append(runs, run)
      BY <2>4 DEF Retry, StartBuild
    <3>3. Review(runs[r].payload) = Review(draft)
      BY <2>1, <2>4 DEF Retry, Retryable, Frozen
    <3>4. Review(draft) = Review(seen[t]) /\ Eligible(draft)
      BY <2>4 DEF Retry, Reviewed
    <3>5. Good(runs[r].payload)
      BY <3>3, <3>4, DraftAssumption DEF Review, Eligible
    <3> QED BY <2>2, <3>1, <3>2, <3>5
  <2>5. CASE Len(runs') = Len(runs)
    BY <1>1, <2>1, <2>5
  <2>6. \/ \E t \in Tabs : Confirm(t) \/ \E r \in DOMAIN runs : Retry(t, r)
        \/ Len(runs') = Len(runs)
    BY <1>1, <2>1 DEF Next, EditStep, SendEdit, ResendEdit, ReadDraft, SaveEdit, DropEdit,
       Load, ScreeningStep, StartScreening, AskAgent, CompleteScreening,
       AbandonScreening, BuildStep, SaveVersion, SaveProposal, FailBuild, EndBuild
  <2> QED BY <2>3, <2>4, <2>5, <2>6
<1>2. ASSUME DraftInv, [Next]_vars
      PROVE  [Len(runs') > Len(runs) =>
                LET payload == runs'[Len(runs')].payload IN
                /\ Eligible(payload)
                /\ \E t \in Tabs : Review(payload) = Review(seen[t])]_vars
  BY <1>1, <1>2
<1> QED BY <1>2, InvHolds, PTL DEF Spec, StartedAsReviewed

\* A version is added only for the requirement as the draft states it then.
THEOREM DeliveriesCorrect == Spec => DeliveredIsCurrent
<1>1. ASSUME DraftInv, Next, versions' # versions, ~overwrote
      PROVE  Review(runs[versions'[Len(versions')]].payload) = Review(draft)
  <2>1. PICK r \in DOMAIN runs : SaveVersion(r)
    BY <1>1 DEF Next, EditStep, SendEdit, ResendEdit, ReadDraft, SaveEdit, DropEdit,
       Load, ScreeningStep, StartScreening, AskAgent, CompleteScreening,
       AbandonScreening, BuildStep, Confirm, Retry, SaveProposal, FailBuild, EndBuild
  <2>2. versions \in Seq(DOMAIN runs) /\ versions' = Append(versions, r)
    BY <1>1, <2>1 DEF SaveVersion, DraftInv, TypeOK
  <2>3. versions'[Len(versions')] = r
    BY <2>2
  <2>4. runs[r].payload = draft
    <3>1. runs[r].payload.rev = draft.rev
      BY <2>1 DEF SaveVersion, StillCurrent
    <3>2. Below(runs[r].payload, draft)
      BY <1>1 DEF DraftInv, Ordered, CopiesBelow
    <3> QED BY <1>1, <3>1, <3>2 DEF Below, DraftInv, TypeOK, Drafts
  <2> QED BY <2>3, <2>4
<1>2. ASSUME DraftInv, [Next]_vars
      PROVE  [versions' # versions =>
                (overwrote \/ Review(runs[versions'[Len(versions')]].payload)
                                = Review(draft))]_vars
  BY <1>1, <1>2
<1> QED BY <1>2, InvHolds, PTL DEF Spec, DeliveredIsCurrent

\* A configuration shown as current was made for the requirement the draft
\* states, overwriting turns included: here hashes are compared.
THEOREM CurrentCorrect == Spec => []CurrentMatchesDraft
<1>1. DraftInv => CurrentMatchesDraft
  <2> SUFFICES ASSUME DraftInv, Current
               PROVE  Review(runs[Last].payload) = Review(draft)
    BY DEF CurrentMatchesDraft
  <2>1. runs \in Seq(RunRecords) /\ runs # <<>>
    BY RunsTyped DEF DraftInv, Current, LastSucceeded
  <2>2. Last \in DOMAIN runs
    BY <2>1 DEF Last
  <2>3. runs[Last].payload = confirmations[confirmed]
    BY <2>2 DEF DraftInv, Frozen, Current
  <2> QED BY <2>3 DEF Current, DraftConfirmed
<1> QED BY <1>1, InvHolds, PTL

\* A key saves once, however many calls carry it and whatever becomes of the
\* revision it expects.
THEOREM EditsOnce == Spec => AppliedOnce
<1>1. ASSUME DraftInv, Next, NEW k \in Edits, Saves(k) PROVE k \notin recorded
  <2>1. PICK p \in Posts : /\ post[p].pc = "save" /\ post[p].key = k
                           /\ post'[p] = NoPost /\ draft' # draft
    BY <1>1 DEF Saves
  <2>2. ASSUME NEW q \in Posts, SaveEdit(q) PROVE q = p
    BY <2>1, <2>2 DEF SaveEdit, NoPost
  <2>3. ~CompleteScreening
    BY <2>1 DEF CompleteScreening, NoPost
  <2> QED BY <1>1, <2>1, <2>2, <2>3, Writers DEF SaveEdit, EditAccepted
<1>2. ASSUME DraftInv, [Next]_vars
      PROVE  [\A k \in Edits : Saves(k) => k \notin recorded]_vars
  BY <1>1, <1>2
<1> QED BY <1>2, InvHolds, PTL DEF Spec, AppliedOnce

-----------------------------------------------------------------------------
(* The axes *)

\* The session points to the confirmation of its latest run, only that run may
\* be running, and what was confirmed was complete.
Newest ==
  /\ runs # <<>> => confirmed = runs[Last].confirmation
  /\ \A r \in DOMAIN runs : runs[r].status = "running" => r = Last
  /\ \A c \in DOMAIN confirmations : Eligible(confirmations[c])

\* A new run becomes the latest one.
LEMMA NewestStart ==
  ASSUME TypeOK, Newest, NEW run \in RunRecords, StartBuild(run),
         \A c \in DOMAIN confirmations' : Eligible(confirmations'[c])
  PROVE  Newest'
<1>1. runs \in Seq(RunRecords) /\ runs' = Append(runs, run) /\ confirmed' = run.confirmation
  BY RunsTyped DEF StartBuild
<1>2. /\ Len(runs') = Len(runs) + 1 /\ Len(runs) \in Nat
      /\ DOMAIN runs' = DOMAIN runs \cup {Len(runs) + 1}
      /\ \A i \in DOMAIN runs : runs'[i] = runs[i]
      /\ runs'[Len(runs) + 1] = run
  <2>1. /\ Len(Append(runs, run)) = Len(runs) + 1 /\ Len(runs) \in Nat
        /\ DOMAIN Append(runs, run) = DOMAIN runs \cup {Len(runs) + 1}
        /\ \A i \in DOMAIN runs : Append(runs, run)[i] = runs[i]
        /\ Append(runs, run)[Len(runs) + 1] = run
    BY <1>1, Appended
  <2> QED BY <1>1, <2>1, Zenon
<1>3. \A r \in DOMAIN runs : runs[r].status # "running"
  BY DEF StartBuild, Busy, BuildRunning
<1>4. Last' = Len(runs) + 1
  BY <1>2 DEF Last
<1>5. confirmed' = runs'[Last'].confirmation
  BY <1>1, <1>2, <1>4
<1>6. \A r \in DOMAIN runs' : runs'[r].status = "running" => r = Last'
  BY <1>2, <1>3, <1>4
<1> QED BY <1>5, <1>6 DEF Newest

\* The end of a run changes its status only.
LEMMA NewestEnd ==
  ASSUME TypeOK, Newest, NEW r \in DOMAIN runs,
         NEW s \in {"succeeded", "failed", "interrupted"}, EndBuild(r, s)
  PROVE  Newest' /\ r = Last /\ Last' = Last /\ DOMAIN runs' = DOMAIN runs
         /\ runs'[r].status = s /\ runs'[r].confirmation = runs[r].confirmation
<1>1. runs \in Seq(RunRecords) /\ runs[r] \in RunRecords
  BY RunsTyped
<1>2. /\ runs' = [runs EXCEPT ![r] = [runs[r] EXCEPT !.status = s]]
      /\ confirmed' = confirmed /\ confirmations' = confirmations
  BY DEF EndBuild
<1>3. r = Last
  BY DEF EndBuild, Newest
<1>4. /\ [runs[r] EXCEPT !.status = s].status = s
      /\ [runs[r] EXCEPT !.status = s].confirmation = runs[r].confirmation
  BY <1>1 DEF RunRecords
<1>5. /\ DOMAIN runs' = DOMAIN runs /\ Len(runs') = Len(runs)
      /\ runs'[r].status = s /\ runs'[r].confirmation = runs[r].confirmation
      /\ \A q \in DOMAIN runs \ {r} : runs'[q] = runs[q]
  <2> DEFINE run == [runs[r] EXCEPT !.status = s]
  <2>1. run \in RunRecords /\ run.status = s /\ run.confirmation = runs[r].confirmation
    BY <1>1, <1>4 DEF RunRecords
  <2>2. runs' = [runs EXCEPT ![r] = run]
    BY <1>2
  <2> HIDE DEF run
  <2>3. runs'[r] = run /\ \A q \in DOMAIN runs \ {r} : runs'[q] = runs[q]
    BY <1>1, <2>2
  <2>4. DOMAIN runs' = DOMAIN runs /\ Len(runs') = Len(runs)
    BY <1>1, <2>1, <2>2
  <2> QED BY <2>1, <2>3, <2>4
<1>6. Last' = Last
  BY <1>5 DEF Last
<1>7. confirmed' = runs'[Last'].confirmation
  BY <1>1, <1>2, <1>3, <1>5, <1>6 DEF Newest
<1>8. \A q \in DOMAIN runs' : runs'[q].status = "running" => q = Last'
  BY <1>3, <1>5, <1>6 DEF Newest
<1> QED BY <1>2, <1>3, <1>5, <1>6, <1>7, <1>8 DEF Newest

\* Every step keeps the latest run and the session's confirmation together.
LEMMA NewestStep == TypeOK /\ Newest /\ [Next]_vars => Newest'
<1> SUFFICES ASSUME TypeOK, Newest, [Next]_vars PROVE Newest'
  OBVIOUS
<1>1. ASSUME NEW t \in Tabs, Confirm(t) PROVE Newest'
  <2> DEFINE run == [confirmation |-> Len(confirmations) + 1, payload |-> draft,
                     status |-> "running"]
  <2>1. run \in RunRecords /\ StartBuild(run)
    BY <1>1 DEF TypeOK, Confirm, RunRecords
  <2>2. \A c \in DOMAIN confirmations' : Eligible(confirmations'[c])
    <3>1. confirmations \in Seq(Drafts) /\ draft \in Drafts /\ Eligible(draft)
      BY <1>1 DEF TypeOK, Confirm, Reviewed
    <3>2. /\ DOMAIN Append(confirmations, draft) = DOMAIN confirmations \cup {Len(confirmations) + 1}
          /\ \A i \in DOMAIN confirmations : Append(confirmations, draft)[i] = confirmations[i]
          /\ Append(confirmations, draft)[Len(confirmations) + 1] = draft
      BY <3>1, Appended
    <3>3. \A c \in DOMAIN Append(confirmations, draft) : Eligible(Append(confirmations, draft)[c])
      BY <3>1, <3>2 DEF Newest
    <3> QED BY <1>1, <3>3 DEF Confirm
  <2> QED BY <2>1, <2>2, NewestStart
<1>2. ASSUME NEW t \in Tabs, NEW r \in DOMAIN runs, Retry(t, r) PROVE Newest'
  <2> DEFINE run == [runs[r] EXCEPT !.status = "running"]
  <2>1. run \in RunRecords
    BY RunsTyped DEF RunRecords
  <2>2. StartBuild(run) /\ confirmations' = confirmations
    BY <1>2 DEF Retry
  <2> QED BY <2>1, <2>2, NewestStart DEF Newest
<1>3. ASSUME NEW r \in DOMAIN runs, SaveVersion(r) \/ SaveProposal(r) \/ FailBuild(r)
      PROVE  Newest'
  BY <1>3, NewestEnd DEF SaveVersion, SaveProposal, FailBuild
<1>4. CASE UNCHANGED <<runs, confirmations, confirmed>>
  BY <1>4 DEF Newest, Last
<1>5. UNCHANGED <<runs, confirmations, confirmed>> \/ BuildStep
  BY DEF Next, EditStep, SendEdit, ResendEdit, ReadDraft, SaveEdit, DropEdit,
     Load, ScreeningStep, StartScreening, AskAgent, CompleteScreening,
     AbandonScreening, vars
<1> QED BY <1>1, <1>2, <1>3, <1>4, <1>5 DEF BuildStep

\* The latest run's confirmation is the session's in every reachable state.
LEMMA NewestHolds == Spec => []Newest
<1>1. Init => Newest
  BY DEF Init, Newest
<1> QED BY <1>1, NewestStep, TypeCorrect, PTL DEF Spec

\* A failed build can be retried exactly as long as its requirement is shown as
\* confirmed, whichever confirmations and retries came before.
THEOREM RetriesCorrect == Spec => []RetryFollowsConfirmation
<1>1. TypeOK /\ Newest => RetryFollowsConfirmation
  <2> SUFFICES ASSUME TypeOK, Newest, runs # <<>>, runs[Last].status = "failed"
               PROVE  RetryOffered(Last) <=> DraftConfirmed
    BY DEF RetryFollowsConfirmation
  <2>1. runs \in Seq(RunRecords) /\ runs # <<>>
    BY RunsTyped
  <2>2. Last \in DOMAIN runs
    BY <2>1 DEF Last
  <2>3. confirmed = runs[Last].confirmation /\ confirmed \in DOMAIN confirmations
    BY <2>2 DEF Newest, TypeOK
  <2>4. confirmed # 0 /\ Eligible(confirmations[confirmed])
    BY <2>3 DEF Newest, TypeOK
  <2>5. Review(draft) = Review(confirmations[confirmed]) => Eligible(draft)
    BY <2>4, DraftAssumption DEF Review, Eligible
  <2> QED BY <2>3, <2>4, <2>5 DEF RetryOffered, DraftConfirmed
<1> QED BY <1>1, NewestHolds, TypeCorrect, PTL

\* The version a user just received is shown as current: what the save compares
\* and what the session shows are the same requirement.
THEOREM ShownCorrect == Spec => DeliveredShowsCurrent
<1>1. ASSUME DraftInv, Newest, Next, versions' # versions, ~overwrote
      PROVE  Current'
  <2>1. PICK r \in DOMAIN runs : SaveVersion(r)
    BY <1>1 DEF Next, EditStep, SendEdit, ResendEdit, ReadDraft, SaveEdit, DropEdit,
       Load, ScreeningStep, StartScreening, AskAgent, CompleteScreening,
       AbandonScreening, BuildStep, Confirm, Retry, SaveProposal, FailBuild, EndBuild
  <2>2. /\ EndBuild(r, "succeeded") /\ runs[r].payload.rev = draft.rev
        /\ TypeOK /\ Ordered /\ Frozen
    BY <1>1, <2>1 DEF SaveVersion, StillCurrent, DraftInv
  <2>3. /\ r = Last /\ Last' = Last /\ DOMAIN runs' = DOMAIN runs
        /\ runs'[r].status = "succeeded" /\ runs'[r].confirmation = runs[r].confirmation
    BY <1>1, <2>2, NewestEnd
  <2>4. /\ confirmed' = confirmed /\ confirmations' = confirmations /\ draft' = draft
        /\ confirmed = runs[r].confirmation /\ confirmed \in DOMAIN confirmations
    BY <1>1, <2>2, <2>3 DEF EndBuild, Newest, TypeOK
  <2>5. runs[r].payload = draft
    <3>1. Below(runs[r].payload, draft)
      BY <1>1, <2>2 DEF Ordered, CopiesBelow
    <3> QED BY <2>2, <3>1 DEF Below, TypeOK, Drafts
  <2>6. confirmations[confirmed] = draft /\ confirmed # 0
    BY <2>2, <2>4, <2>5 DEF Frozen, TypeOK
  <2>7. DraftConfirmed'
    BY <2>4, <2>6 DEF DraftConfirmed
  <2>8. LastSucceeded' /\ runs'[Last'].confirmation = confirmed'
    BY <2>3, <2>4 DEF LastSucceeded
  <2> QED BY <2>7, <2>8 DEF Current
<1>2. ASSUME DraftInv, Newest, [Next]_vars
      PROVE  [versions' # versions => overwrote \/ Current']_vars
  BY <1>1, <1>2
<1> QED BY <1>2, InvHolds, NewestHolds, PTL DEF Spec, DeliveredShowsCurrent
=============================================================================
