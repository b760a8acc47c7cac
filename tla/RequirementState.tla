-------------------------- MODULE RequirementState --------------------------
(* The requirement of a session: the one reducer that chat and sidebar edits *)
(* go through, the readiness matrix, the question asked next and the         *)
(* projection handed to the builder (internal/schemas).                      *)
(*                                                                           *)
(* A value is a sequence of at most one element, so that "no value" differs  *)
(* from an empty list; lists of categories and owned models are sets (their  *)
(* order, made canonical by normalizeRequirementValue, is not told apart).   *)
(* Quotes are reduced to what the code asks of them: is the quote part of    *)
(* this message or not.  The quote of an observation always is: the guard    *)
(* puts the whole message in its place (screening_requirement_state.go:237). *)
(* No batch meets the limit of 32 operations and 32 observations: answers    *)
(* are not decoded beyond it and the guard and the verification stop at it.  *)
EXTENDS Naturals, Sequences, FiniteSets, SequencesExt

CONSTANTS Categories,   \* the categories of parts a user may already own
          Capabilities  \* monitor, keyboard, mouse

Parts == {"existing_parts", "owned_parts"}
Structured == {"use_case.type", "use_case.resolution", "use_case.titles",
               "budget_cny", "budget_flex", "budget_basis", "noise_pref"} \cup Parts
\* free.* entries behave as notes
Fields == Structured \cup {"notes"}

Unknown == [status |-> "unknown", value |-> <<>>, strength |-> "", scope |-> "",
            kind |-> "", evidence |-> "", derived |-> "", previous |-> <<>>]

NewRequirementState ==
  [revision |-> 0, fields |-> [f \in Fields |-> Unknown], alternatives |-> <<>>,
   changes |-> <<>>, history |-> <<>>, observations |-> <<>>]

\* the values an operation can carry for a field; what lies outside is refused
ValidValues(f) ==
  CASE f = "use_case.type"       -> {"gaming", "productivity", "general"}
    [] f = "use_case.resolution" -> {"4K", "any"}
    [] f = "use_case.titles"     -> SUBSET {"blender"}
    [] f = "budget_cny"          -> Nat \ {0}
    [] f = "budget_flex"         -> 0 .. 30            \* percent, at most 30
    [] f = "budget_basis"        -> {"new_purchase", "full_build"}
    [] f = "noise_pref"          -> {"silent", "any"}
    [] f = "existing_parts"      -> SUBSET Categories
    [] f = "owned_parts"         -> SUBSET (Categories \X {"m1", "m2"})
    [] OTHER                     -> {"text"}

\* one model per category
ValidRequirementValue(f, value) ==
  /\ value # <<>>
  /\ value[1] \in ValidValues(f)
  /\ f = "owned_parts" => \A p, q \in value[1] : p[1] = q[1] => p = q

DefaultStrength(f) ==
  IF f \in Structured \ {"use_case.titles", "noise_pref"} THEN "must" ELSE "prefer"

Inherit(given, before, default) ==
  IF given # "" THEN given ELSE IF before # "" THEN before ELSE default

-----------------------------------------------------------------------------
(* The fields. *)

Active(s, f) == s.fields[f].status = "active"
Held(s, f) == IF Active(s, f) THEN s.fields[f].value[1] ELSE {}
OwnedCategories(owned) == {p[1] : p \in owned}

\* A plain observation of a field is answered by the field's next change; a
\* capability the tower does not cover stays until it is withdrawn by name.
Answered(observations, f) ==
  [i \in DOMAIN observations |->
     LET o == observations[i] IN
     IF o.capability = "" /\ o.field = f THEN [o EXCEPT !.resolved = TRUE] ELSE o]

RecordChange(s, f, op, after) ==
  LET change == [revision |-> s.revision, op |-> op, field |-> f,
                 before |-> s.fields[f], after |-> after]
  IN [s EXCEPT !.fields[f] = after,
               !.observations = IF op \in {"alternative", "conflict"} THEN @
                                ELSE Answered(@, f),
               !.changes = Append(@, change),
               !.history = Append(@, change)]

Partner(f) == IF f = "owned_parts" THEN "existing_parts" ELSE "owned_parts"

\* what an exception puts back: the value before the first of its exceptions
Covered(before, scope) ==
  IF scope # "temporary" THEN <<>>
  ELSE IF before.scope = "temporary" /\ before.previous # <<>> THEN before.previous
  ELSE <<before>>

\* mutant: the linked list keeps nothing to come back to
LinkedForGood(before, value, after, f) ==
  [Unknown EXCEPT !.status = "active", !.value = <<value>>, !.strength = "must",
                  !.scope = after.scope, !.kind = "fact", !.evidence = after.evidence,
                  !.derived = f]

Linked(before, value, after, f) ==
  [Unknown EXCEPT !.status = "active", !.value = <<value>>, !.strength = "must",
                  !.scope = after.scope, !.kind = "fact", !.evidence = after.evidence,
                  !.derived = f, !.previous = Covered(before, after.scope)]

\* The list of owned categories and the list of owned models follow each other.
SyncOwnership(s, op, after) ==
  LET partner == Partner(op.field)
      before == s.fields[partner]
      linked == IF op.field = "existing_parts"
                THEN {p \in Held(s, partner) : p[1] \in after.value[1]}
                ELSE Held(s, partner) \cup OwnedCategories(after.value[1])
      follows == /\ after.status = "active"
                 /\ before.status # "conflict"
                 /\ op.field = "existing_parts" => before.status = "active"
                 /\ linked # Held(s, partner)
  IN IF op.op \in {"alternative", "conflict"} \/ op.field \notin Parts THEN s
     ELSE IF op.op = "restore" /\ before.derived = op.field /\ before.previous # <<>>
     THEN RecordChange(s, partner, "restore", before.previous[1])
     ELSE IF op.field = "existing_parts" /\ op.op = "remove"
     THEN RecordChange(s, partner, "remove",
                       [Unknown EXCEPT !.status = "removed", !.derived = op.field])
     ELSE IF follows
     THEN RecordChange(s, partner, "set", Linked(before, linked, after, op.field))
     ELSE s

-----------------------------------------------------------------------------
(* One operation; the set of results is empty when it is refused. *)

\* An operation on anything else, or of another kind, is refused before it is looked at.
OperationKeys == {"op", "field", "value", "strength", "scope", "kind", "evidence", "grounded",
                  "capability", "path"}
IsOperation(op) ==
  /\ op = [k \in OperationKeys |-> op[k]]
  /\ op.op \in {"set", "remove", "restore", "alternative", "conflict"} /\ op.field \in Fields

After(s, op, kind) ==
  LET before == s.fields[op.field]
      scope == Inherit(op.scope, before.scope, "session")
      stated == [status |-> "active", value |-> op.value,
                 strength |-> Inherit(op.strength, before.strength, DefaultStrength(op.field)),
                 scope |-> scope, kind |-> kind, evidence |-> op.evidence,
                 derived |-> "", previous |-> <<>>]
  IN CASE op.op = "set"         -> [stated EXCEPT !.previous = Covered(before, scope)]
       [] op.op = "remove"      -> [Unknown EXCEPT !.status = "removed"]
       [] op.op = "restore"     -> before.previous[1]
       [] op.op = "alternative" -> before
       [] op.op = "conflict"    -> [stated EXCEPT !.status = "conflict", !.previous = <<before>>]

OperationAllowed(s, op, kind, source) ==
  /\ op.evidence # "inferred"
  /\ op.evidence = "uncertain" => op.op = "conflict"
  /\ op.evidence = "accepted_proposal" => op.op = "set" /\ source = "chat"
  /\ source = "chat" => op.grounded
  /\ kind = "context" /\ op.op \in {"set", "alternative", "conflict"} => op.field \notin Structured
  /\ (op.op \in {"set", "alternative"} \/ (op.op = "conflict" /\ op.value # <<>>))
       => ValidRequirementValue(op.field, op.value)
  /\ op.op = "restore" => s.fields[op.field].previous # <<>>

ApplyOperation(s, op, source) ==
  LET before == s.fields[op.field]
      kind == IF op.kind = "" /\ (op.op # "set" \/ before.value = op.value)
              THEN before.kind ELSE op.kind
      changed == RecordChange(s, op.field, op.op, After(s, op, kind))
      listed == IF op.op # "alternative" THEN changed
                ELSE [changed EXCEPT !.alternatives = Append(@, [field |-> op.field, value |-> op.value])]
  IN IF OperationAllowed(s, op, kind, source)
     THEN {SyncOwnership(listed, op, listed.fields[op.field])} ELSE {}

\* "remove unsupported.<capability>": gives a capability up
WithdrawCapability(s, op, source) ==
  LET asked == {i \in DOMAIN s.observations :
                  s.observations[i].capability = op.capability /\ ~s.observations[i].resolved}
      change == [revision |-> s.revision, op |-> "remove", field |-> op.capability,
                 before |-> Unknown, after |-> Unknown]
  IN IF op.op = "remove" /\ (source = "chat" => op.grounded) /\ asked # {}
     THEN {[s EXCEPT !.observations = [i \in DOMAIN @ |->
                        IF i \in asked THEN [@[i] EXCEPT !.resolved = TRUE] ELSE @[i]],
                     !.changes = Append(@, change), !.history = Append(@, change)]}
     ELSE {}

\* Why something was only observed is the model's own text: too long, or naming
\* a capability there is not, it is refused.
ObservationAllowed(o) == ~o.tooLong /\ o.capability \in {""} \cup Capabilities

AppendObservation(s, o) ==
  LET removedNow == /\ o.capability = ""
                    /\ s.fields[o.field].status = "removed"
                    /\ \E i \in DOMAIN s.changes : s.changes[i].field = o.field /\ s.changes[i].op = "remove"
  IN [s EXCEPT !.observations = Append(@, [field |-> o.field, capability |-> o.capability,
                                           resolved |-> removedNow])]

OwnershipConsistent(s) ==
  OwnedCategories(Held(s, "owned_parts")) \subseteq Held(s, "existing_parts")

\* A batch is applied completely or not at all.
ApplyRequirementUpdate(s, update, source) ==
  LET begun == [s EXCEPT !.revision = @ + 1, !.changes = <<>>]
      step(states, op) == UNION {IF op.capability # "" THEN WithdrawCapability(t, op, source)
                                 ELSE ApplyOperation(t, op, source) : t \in states}
      applied == FoldLeft(step, {begun}, update.operations)
      observed == {FoldLeft(AppendObservation, t, update.observations) : t \in applied}
  IN IF update.operations = <<>> /\ update.observations = <<>> THEN {s}
     ELSE {t \in observed : /\ \A i \in DOMAIN update.observations :
                                   ObservationAllowed(update.observations[i])
                            /\ OwnershipConsistent(t)}

-----------------------------------------------------------------------------
(* Readiness: what is missing, what blocks, what is out of scope. *)

UnsupportedCapabilities(s) ==
  {c \in Capabilities : \E i \in DOMAIN s.observations :
     s.observations[i].capability = c /\ ~s.observations[i].resolved}

UseCaseType(s) == IF Active(s, "use_case.type") THEN s.fields["use_case.type"].value[1] ELSE ""

\* the fields the lowest matrix asks for, each with the condition that satisfies it
Satisfied(s, f) ==
  /\ Active(s, f)
  /\ f = "use_case.resolution" => s.fields[f].value[1] # "any"
  /\ f = "use_case.titles" => s.fields[f].value[1] # {}

OwnsParts(s) == Held(s, "existing_parts") # {} \/ Held(s, "owned_parts") # {}

\* mutant: what the budget pays for is asked only of owned models
AskedFields(s) ==
  {"use_case.type", "budget_cny", "existing_parts"}
    \cup (IF UseCaseType(s) = "gaming" THEN {"use_case.resolution"} ELSE {})
    \cup (IF UseCaseType(s) = "productivity" THEN {"use_case.titles"} ELSE {})

RequiredFields(s) ==
  {"use_case.type", "budget_cny", "existing_parts"}
    \cup (IF UseCaseType(s) = "gaming" THEN {"use_case.resolution"} ELSE {})
    \cup (IF UseCaseType(s) = "productivity" THEN {"use_case.titles"} ELSE {})
    \cup (IF OwnsParts(s) THEN {"budget_basis"} ELSE {})

InConflict(s, f) == s.fields[f].status = "conflict"

\* an owned category without a model is missing under the category's name
MissingOwnedModels(existing, owned) == existing \ OwnedCategories(owned)

MissingFields(s) ==
  {f \in RequiredFields(s) : ~Satisfied(s, f) /\ ~InConflict(s, f)}
    \cup (IF OwnsParts(s) /\ ~InConflict(s, "owned_parts")
          THEN MissingOwnedModels(Held(s, "existing_parts"), Held(s, "owned_parts")) ELSE {})

BlockingConflicts(s) ==
  {f \in Fields : /\ InConflict(s, f)
                  /\ \/ f \in RequiredFields(s)
                     \/ f = "owned_parts" /\ OwnsParts(s)
                     \/ s.fields[f].strength = "must"}

ConfirmationEligible(s) ==
  MissingFields(s) = {} /\ BlockingConflicts(s) = {} /\ UnsupportedCapabilities(s) = {}

(* The order of the questions. *)
QuestionOrder ==
  <<"use_case.type", "budget_cny", "existing_parts", "use_case.resolution", "use_case.titles">>
    \o SetToSeq(Categories)
    \o <<"owned_parts", "budget_basis", "budget_flex", "noise_pref", "notes">>

InOrder(fields) == SelectSeq(QuestionOrder, LAMBDA f : f \in fields)

NextRequirementQuestion(s) ==
  LET missing == InOrder(MissingFields(s))
      models == SelectSeq(missing, LAMBDA f : f \in Categories)
  IN CASE ConfirmationEligible(s) -> [reason |-> "", fields |-> {}]
       [] BlockingConflicts(s) # {} ->
            [reason |-> "requirement_conflict", fields |-> {InOrder(BlockingConflicts(s))[1]}]
       [] UnsupportedCapabilities(s) # {} /\ BlockingConflicts(s) = {} ->
            [reason |-> "unsupported_capability", fields |-> UnsupportedCapabilities(s)]
       [] OTHER ->
            [reason |-> "missing",
             fields |-> IF missing[1] \in Categories THEN ToSet(models) ELSE {missing[1]}]

-----------------------------------------------------------------------------
(* The projection: only active fields of a ready requirement, decoded again  *)
(* by the builder's own contract, which states its matrix separately.        *)

Projected(s) == [f \in {g \in Fields : Active(s, g)} |-> s.fields[f].value[1]]

DecodeRequirementSpec(spec) ==
  LET given(f) == f \in DOMAIN spec
      list(f) == IF given(f) THEN spec[f] ELSE {}
  IN /\ given("budget_cny")
     /\ given("use_case.type")
     /\ spec["use_case.type"] = "gaming" =>
          given("use_case.resolution") /\ spec["use_case.resolution"] # "any"
     /\ spec["use_case.type"] = "productivity" => list("use_case.titles") # {}
     /\ OwnedCategories(list("owned_parts")) \subseteq list("existing_parts")
     /\ MissingOwnedModels(list("existing_parts"), list("owned_parts")) = {}
     /\ list("existing_parts") # {} => given("budget_basis")
=============================================================================
