-------------------------- MODULE RequirementTurns --------------------------
(* The conversation about a requirement: messages, screening turns, sidebar  *)
(* edits and the proposals of the assistant, which the next user message -   *)
(* and only that one - may accept (internal/store/requirement_proposals.go,  *)
(* internal/product/requirement_turn.go).                                    *)
EXTENDS ScreeningGuard

CONSTANTS Established,  \* an update a session has had, or none
          Updates,      \* the updates a model's answer may carry
          Edits,        \* the updates the sidebar may send
          Offers,       \* the sets of (field, value) an answer may propose
          Sayings,      \* what a user message may say
          MaxRevision, MaxMessages

\* An update is a list of operations and one of observations
\* (schemas/requirement_state.go:132); the sidebar only sends operations
\* (product/requirement_state.go:64).
IsList(s) == Len(s) \in Nat /\ s = [i \in 1..Len(s) |-> s[i]]

ASSUME UpdateAssumption ==
  /\ \A u \in Established \cup Updates \cup Edits :
       /\ IsList(u.operations) /\ IsList(u.observations)
       /\ \A i \in DOMAIN u.operations : IsOperation(u.operations[i])
  /\ \A u \in Edits : u = [operations |-> u.operations, observations |-> <<>>]

VARIABLES draft,      \* web_sessions.requirement_state
          messages,   \* web_messages: the role of each, in order of creation
          proposals,  \* requirement_proposals
          turn        \* the running screening turn, at most one

turnVars == <<draft, messages, proposals, turn>>

None == <<>>
Empty == [operations |-> <<>>, observations |-> <<>>]

Init ==
  /\ draft \in UNION {ApplyRequirementUpdate(NewRequirementState, u, "edit") : u \in Established \cup {Empty}}
  /\ messages = <<>> /\ proposals = {} /\ turn = None

LastAssistant(ms) == SelectLastInSeq(ms, LAMBDA role : role = "assistant")

\* mutant: a proposal stays open until some message takes it up
ConsumeAny(ps, ms, message) ==
  {IF p.consumedBy = 0 /\ ~p.resolved THEN [p EXCEPT !.consumedBy = message] ELSE p : p \in ps}

\* the last assistant message's open proposals are for this message alone
Consume(ps, ms, message) ==
  {IF p.message = LastAssistant(ms) /\ p.consumedBy = 0 /\ ~p.resolved
   THEN [p EXCEPT !.consumedBy = message] ELSE p : p \in ps}

ActiveProposals(ps, message) == {p \in ps : p.consumedBy = message /\ ~p.resolved}

\* StartMessageRun: the user's message, the run and the consumption commit together
StartMessage(saying) ==
  /\ turn = None /\ Len(messages) < MaxMessages
  /\ messages' = Append(messages, "user")
  /\ proposals' = Consume(proposals, messages', Len(messages'))
  /\ turn' = <<[message |-> Len(messages'), said |-> saying, read |-> None]>>
  /\ UNCHANGED draft

\* attachRequirementState: the draft the whole turn works on
AttachState ==
  /\ turn # None /\ turn[1].read = None
  /\ turn' = [turn EXCEPT ![1].read = <<draft>>]
  /\ UNCHANGED <<draft, messages, proposals>>

Resolve(ps, message, accepted) ==
  {IF p.consumedBy = message /\ \E op \in accepted : op.field = p.field /\ op.value = p.value
   THEN [p EXCEPT !.resolved = TRUE] ELSE p : p \in ps}

Saved(offers, message) ==
  {[field |-> o.field, value |-> o.value, message |-> message,
    consumedBy |-> 0, resolved |-> FALSE] : o \in offers}

\* executeScreening and completeRequirementTurn: guard and a trial of its batch,
\* verification, reducer, then state, answer, proposals and resolutions in one
\* transaction
CompleteTurn(update, offers) ==
  /\ turn # None /\ turn[1].read # None
  /\ LET run == turn[1]
         read == run.read[1]
         offered == ActiveProposals(proposals, run.message)
     IN \E guarded \in {PrepareRequirementUpdate(read, update, run.said)} :
          /\ ApplyRequirementUpdate(read, guarded, "chat") # {}
          /\ LET verified == VerifyAcceptedProposals(guarded, offered, run.said)
             IN \E next \in ApplyRequirementUpdate(read, verified, "chat") :
                  /\ next.revision <= MaxRevision
                  /\ draft' = next
                  /\ messages' = Append(messages, "assistant")
                  /\ proposals' = Resolve(proposals, run.message, verified.accepted)
                                    \cup Saved(offers, Len(messages'))
  /\ turn' = None

\* A batch refused in the trial is asked for once more, then the turn fails.
\* fail records an answer too; a reclaimed or interrupted run leaves none
FailTurn ==
  /\ turn # None
  /\ turn' = None
  /\ messages' \in {messages, Append(messages, "assistant")}
  /\ UNCHANGED <<draft, proposals>>

\* a build's report is an assistant message without proposals
ReportBuild ==
  /\ turn = None /\ Len(messages) < MaxMessages
  /\ messages' = Append(messages, "assistant")
  /\ UNCHANGED <<draft, proposals, turn>>

EditRequirement(update) ==
  /\ \E next \in ApplyRequirementUpdate(draft, update, "edit") :
       next.revision <= MaxRevision /\ draft' = next
  /\ UNCHANGED <<messages, proposals, turn>>

Next ==
  \/ \E s \in Sayings : StartMessage(s)
  \/ AttachState
  \/ \E u \in Updates, o \in Offers : CompleteTurn(u, o)
  \/ FailTurn
  \/ ReportBuild
  \/ \E u \in Edits : EditRequirement(u)

Spec == Init /\ [][Next]_turnVars

-----------------------------------------------------------------------------
(* Properties. *)

\* A requirement that may be confirmed can be projected: the readiness matrix
\* and the builder's own decoding, written separately, never disagree, in
\* whatever way fields were set, excepted, restored, disputed and linked.
ReadyIsProjectable ==
  ConfirmationEligible(draft) => DecodeRequirementSpec(Projected(draft))

\* Restoring takes an exception back completely: after a temporary change of
\* one of the two linked lists, which changed the other one with it, restoring
\* the first leaves both as they were.
ExceptionsAreUndone ==
  \A u \in Edits :
    LET op == u.operations[1]
        undo == [op EXCEPT !.op = "restore", !.value = <<>>, !.scope = "", !.kind = ""]
        plain(f) == draft.fields[f].scope # "temporary"
    IN (Len(u.operations) = 1 /\ op.op = "set" /\ op.scope = "temporary"
        /\ plain(op.field) /\ (op.field \in Parts => plain(Partner(op.field)))) =>
         \A excepted \in ApplyRequirementUpdate(draft, u, "edit") :
           \E restored \in ApplyRequirementUpdate(excepted, [u EXCEPT !.operations = <<undo>>], "edit") :
             restored.fields = draft.fields

\* One bad operation never costs the others their place: what the guard kept,
\* judged one at a time, is accepted by the reducer as one batch.  Only an
\* observation of the model's own, whose reason the guard hands on as it is,
\* can have the batch refused.
GuardedBatchApplies ==
  \A run \in ToSet(turn) : \A read \in ToSet(run.read) : \A u \in Updates :
    \E guarded \in {PrepareRequirementUpdate(read, u, run.said)} :
       \/ ApplyRequirementUpdate(read, guarded, "chat") # {}
       \/ /\ \E i \in DOMAIN u.observations : ~ObservationAllowed(u.observations[i])
          /\ ApplyRequirementUpdate(read, [guarded EXCEPT !.observations = <<>>], "chat") # {}

\* A value is in the requirement as an accepted proposal only if the assistant
\* proposed that very value in the message before the one that accepted it,
\* with no other message in between.
AcceptedWasJustProposed ==
  \A f \in Fields :
    LET field == draft.fields[f]
    IN (field.evidence = "accepted_proposal" /\ field.derived = "" /\ field.status = "active") =>
         \E p \in proposals : /\ p.field = f /\ p.value = field.value /\ p.resolved
                              /\ messages[p.message] = "assistant"
                              /\ p.consumedBy = p.message + 1
=============================================================================
