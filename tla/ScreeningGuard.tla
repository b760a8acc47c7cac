--------------------------- MODULE ScreeningGuard ---------------------------
(* What the screening agent's answer goes through before the reducer sees    *)
(* it: prepareRequirementUpdate (internal/agents/pipeline) corrects, refuses *)
(* or downgrades each operation of the model, and verifyAcceptedProposals    *)
(* (internal/product) keeps an acceptance only if the user was just offered  *)
(* that value and said yes.                                                  *)
(*                                                                           *)
(* A user message is the set of things it says, as far as the guard asks:    *)
(* cleared (all parts are bought new), removal, mentioned (owned parts are   *)
(* talked about), strict (the budget is a hard limit), percent, literal (the *)
(* default's number occurs), notes (notes are withdrawn), yes (a short       *)
(* assent), adopts (an adopting phrase), refuses; models and values are what *)
(* it names.                                                                 *)
EXTENDS RequirementState

CONSTANT DefaultFlex   \* the budget flexibility the program applies itself

Says(message, thing) == thing \in message.says

Confirming == {"budget_cny", "budget_flex", "budget_basis", "use_case.type",
               "existing_parts", "owned_parts"}

RequiresConfirmation(s, op) ==
  \/ op.strength = "must" \/ s.fields[op.field].strength = "must"
  \/ op.field \in Confirming
  \/ op.field = "use_case.resolution" /\ UseCaseType(s) = "gaming"

\* what the guard observes itself, with a reason of its own
Observation(f) == [field |-> f, capability |-> "", tooLong |-> FALSE]

\* Overlapping quotes of one field are one observation, here: what is the same
\* of a field.  Capabilities are kept one by one.
Noted(g, o) ==
  IF o.capability = "" /\ \E i \in DOMAIN g.observations : g.observations[i] = o THEN g
  ELSE [g EXCEPT !.observations = Append(@, o)]
Observe(g, f) == Noted(g, Observation(f))

Single(s, op) == ApplyRequirementUpdate(s, [operations |-> <<op>>, observations |-> <<>>], "chat")

\* mutant: each operation is judged on the requirement as it was before the message
KeepUntried(g, op) == [g EXCEPT !.operations = Append(@, op)]

Keep(g, op) ==
  [g EXCEPT !.operations = Append(@, op), !.working = CHOOSE t \in Single(g.working, op) : TRUE]

\* a value that cannot be adopted still puts a field the build depends on in doubt
MarkConflict(g, op) ==
  LET must == op.strength = "must" \/ g.working.fields[op.field].strength = "must"
      conflict == [op EXCEPT !.op = "conflict", !.value = <<>>, !.evidence = "uncertain", !.scope = "",
                             !.strength = IF must THEN "must" ELSE ""]
  IN IF op.op = "set" /\ op.grounded /\ RequiresConfirmation(g.working, op)
        /\ Single(g.working, conflict) # {}
     THEN Keep(g, conflict) ELSE g

-----------------------------------------------------------------------------
(* Corrections made before an operation is judged. *)

ModelsIn(value) == {p[2] : p \in value}

BindQuote(op, message) ==
  IF op.op = "set" /\ op.field = "owned_parts" /\ op.path = "" /\ op.value # <<>> /\ op.value[1] # {}
     /\ ModelsIn(op.value[1]) \subseteq message.models
  THEN [op EXCEPT !.grounded = TRUE] ELSE op

\* owned_parts.<category>.model replaces that category's model only
MergeOwnedModel(s, op) ==
  IF op.path = "" \/ op.op # "set" \/ ~op.grounded THEN op
  ELSE [op EXCEPT !.path = "", !.kind = IF @ = "" THEN "fact" ELSE @,
                  !.value = <<{p \in Held(s, "owned_parts") : p[1] # op.path} \cup op.value[1]>>]

PercentFlex(op, message) ==
  IF op.op = "set" /\ op.field = "budget_flex" /\ op.value # <<>> /\ op.value[1] > 30
     /\ op.value[1] <= 10000 /\ Says(message, "percent")
  THEN [op EXCEPT !.value = <<op.value[1] \div 100>>] ELSE op

ClearInstead(op, message) ==
  IF op.op = "remove" /\ op.field = "existing_parts" /\ Says(message, "cleared")
  THEN [op EXCEPT !.op = "set", !.value = <<{}>>, !.kind = "fact", !.strength = "must",
                  !.scope = "", !.evidence = "stated", !.grounded = TRUE]
  ELSE op

QuoteRemoval(s, op) ==
  IF op.op = "remove" /\ op.capability = "" /\ Active(s, op.field)
  THEN [op EXCEPT !.grounded = TRUE] ELSE op

\* an uncertain value of a field the build depends on becomes a conflict
DoubtInstead(s, op) ==
  IF op.op = "set" /\ op.evidence = "uncertain" /\ RequiresConfirmation(s, op)
  THEN [op EXCEPT !.op = "conflict", !.value = <<>>] ELSE op

-----------------------------------------------------------------------------
(* Operations that are dropped, silently or leaving an observation. *)

Resent(s, op) ==
  /\ op.op = "set" /\ op.path = "" /\ Active(s, op.field) /\ s.fields[op.field].value = op.value
  /\ op.strength \in {"", s.fields[op.field].strength}
  /\ op.kind \in {"", s.fields[op.field].kind}

EmptiesParts(op) == op.op = "set" /\ op.field = "existing_parts" /\ op.value = <<{}>>

DroppedSilently(s, op, message) ==
  \/ EmptiesParts(op) /\ ~Says(message, "cleared") /\ ~Says(message, "mentioned")
  \/ op.op = "set" /\ op.field = "budget_flex" /\ op.value = <<0>> /\ ~Says(message, "strict")
  \/ /\ op.op = "set" /\ op.field = "budget_flex" /\ op.value = <<DefaultFlex>>
     /\ op.evidence = "stated" /\ ~Active(s, op.field) /\ ~Says(message, "literal")
  \/ op.op = "remove" /\ op.field = "owned_parts" /\ Says(message, "cleared")
  \/ op.op = "remove" /\ op.field = "notes" /\ ~Says(message, "notes")

DroppedWithNote(s, op, message) ==
  \/ EmptiesParts(op) /\ ~Says(message, "cleared") /\ Says(message, "mentioned")
  \/ op.op = "remove" /\ op.field = "existing_parts"
       /\ ~Says(message, "cleared") /\ ~Says(message, "removal")
  \/ op.op = "remove" /\ op.field = "owned_parts" /\ ~Says(message, "cleared")
  \/ op.evidence = "inferred"
  \/ op.op = "set" /\ s.fields[op.field].status \notin {"active", "conflict"} /\ op.value = <<>>
  \/ op.op = "set" /\ op.evidence = "uncertain" /\ ~RequiresConfirmation(s, op)

\* a model must be named in the message, unless the part is already recorded
EvidenceGrounded(s, op, message) ==
  /\ op.field = "owned_parts" /\ op.op \in {"set", "alternative", "conflict"} /\ op.value # <<>> =>
       ModelsIn(op.value[1] \ Held(s, "owned_parts")) \subseteq message.models
  /\ op.field = "budget_flex" /\ op.op \in {"set", "alternative", "conflict"} => op.evidence # ""

Judge(g, op, message) ==
  CASE DroppedSilently(g.working, op, message) -> g
    [] DroppedWithNote(g.working, op, message) -> Observe(g, op.field)
    [] OTHER ->
         LET meant == DoubtInstead(g.working, QuoteRemoval(g.working, op))
             applied == meant.path = "" /\ Single(g.working, meant) # {}
         IN IF applied /\ EvidenceGrounded(g.working, meant, message) THEN Keep(g, meant)
            ELSE IF meant.path # "" \/ (op.kind = "context" /\ op.field \in Structured)
            THEN Observe(g, "notes")
            ELSE Observe(MarkConflict(g, meant), op.field)

GuardOperation(g, op, message) ==
  LET bound == MergeOwnedModel(g.working, BindQuote(op, message))
      asked == ClearInstead(PercentFlex(bound, message), message)
  IN IF op.capability = "" /\ Resent(g.working, op) THEN g
     ELSE IF op.capability # ""
     THEN IF Single(g.working, op) # {} THEN Keep(g, op) ELSE Observe(g, "notes")
     ELSE Judge(g, asked, message)

\* Observations that only repeat what an operation already records are dropped;
\* the others keep the reason the model gave.
MergeObservations(g, observations) ==
  LET repeats(o) == o.capability = "" /\ o.restates
                    /\ \E i \in DOMAIN g.operations : g.operations[i].op = "set"
      merge(h, o) == IF repeats(o) THEN h
                     ELSE Noted(h, [field |-> o.field, capability |-> o.capability,
                                    tooLong |-> o.tooLong])
  IN FoldLeft(merge, g, observations)

PrepareRequirementUpdate(s, update, message) ==
  LET start == [working |-> s, operations |-> <<>>, observations |-> <<>>]
      guarded == FoldLeft(LAMBDA g, op : GuardOperation(g, op, message), start, update.operations)
      merged == MergeObservations(guarded, update.observations)
  IN [operations |-> merged.operations, observations |-> merged.observations]

-----------------------------------------------------------------------------
(* Acceptance of proposals. *)

ShowsAcceptance(message, op) ==
  \/ Says(message, "yes")
  \/ Says(message, "adopts") /\ op.value[1] \in message.values

RejectProposal(op, offered, message) ==
  \/ Says(message, "refuses")
  \/ ~ShowsAcceptance(message, op)
  \/ Cardinality(offered) > 1 /\ op.value[1] \notin message.values

Verified(op, offered, message) ==
  /\ ~RejectProposal(op, offered, message)
  /\ \E p \in offered : p.field = op.field /\ p.value = op.value

\* An operation that claims an acceptance is kept if the claim is verified and
\* noted as an observation otherwise.
VerifyOperation(so, op, offered, message) ==
  IF op.evidence # "accepted_proposal" THEN [so EXCEPT !.operations = Append(@, op)]
  ELSE IF Verified(op, offered, message)
  THEN [so EXCEPT !.operations = Append(@, op), !.accepted = @ \cup {op}]
  ELSE [so EXCEPT !.observations = Append(@, Observation(op.field))]

VerifyAcceptedProposals(update, offered, message) ==
  FoldLeft(LAMBDA so, op : VerifyOperation(so, op, offered, message),
           [operations |-> <<>>, observations |-> update.observations, accepted |-> {}],
           update.operations)
=============================================================================
