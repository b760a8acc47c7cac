---------------------------- MODULE MCConversation ----------------------------
(***************************************************************************)
(* What the messages of a session do: until a build exists they change the *)
(* requirement (RequirementTurns), afterwards they may order a change of   *)
(* the build (ChangeOrders).  The two meet in the payload a screening turn *)
(* hands over, which ChangeOrders takes as given, so a behaviour follows   *)
(* one of them, the "subject", and the other stands still.                 *)
(***************************************************************************)
EXTENDS RequirementTurns, TLC

\* A small conversation: one session, two categories, one proposal.
MCCategories == {"cpu", "gpu"}
MCCapabilities == {"monitor"}

Op(op, field, value) ==
  [op |-> op, field |-> field, value |-> value, strength |-> "", scope |-> "",
   kind |-> "fact", evidence |-> "stated", grounded |-> TRUE, capability |-> "", path |-> ""]
SetTo(field, value) == Op("set", field, <<value>>)
Update(operations) == [operations |-> operations, observations |-> <<>>]
One(op) == Update(<<op>>)

OwnedCpu == {<<"cpu", "m1">>}
MCEstablished ==
  {Update(<<SetTo("use_case.type", "gaming"), SetTo("use_case.resolution", "4K"),
            SetTo("budget_cny", 5000), SetTo("owned_parts", OwnedCpu),
            SetTo("budget_basis", "full_build")>>)}

Remark   == [field |-> "notes", capability |-> "", restates |-> FALSE, tooLong |-> FALSE]
Monitor  == [Remark EXCEPT !.capability = "monitor"]
Speakers == [Remark EXCEPT !.capability = "speakers"]
Essay    == [Remark EXCEPT !.tooLong = TRUE, !.restates = TRUE]

Accepts == [SetTo("budget_cny", 6000) EXCEPT !.evidence = "accepted_proposal"]

MCUpdates ==
  { Update(<<SetTo("existing_parts", {}), SetTo("owned_parts", {<<"gpu", "m2">>})>>),
    Update(<<[SetTo("owned_parts", {<<"gpu", "m2">>}) EXCEPT !.path = "gpu"],
             Op("restore", "owned_parts", <<>>)>>),
    Update(<<[SetTo("budget_flex", 500) EXCEPT !.scope = "temporary"],
             Op("restore", "budget_flex", <<>>)>>),
    One([SetTo("budget_cny", 7000) EXCEPT !.evidence = "uncertain"]),
    One(Accepts),
    [operations |-> <<Op("remove", "notes", <<>>)>>, observations |-> <<Monitor, Remark>>],
    [operations |-> <<SetTo("budget_flex", 5), Op("restore", "budget_flex", <<>>)>>,
     observations |-> <<Speakers, Essay>>],
    [operations |-> <<Op("remove", "notes", <<>>)>>, observations |-> <<Essay>>],
    Update(<<[Op("remove", "notes", <<>>) EXCEPT !.capability = "monitor"],
             SetTo("notes", "text")>>) }

MCEdits ==
  { One(Op("set", "existing_parts", <<{"gpu"}>>)),
    One([SetTo("existing_parts", {"gpu"}) EXCEPT !.scope = "temporary"]),
    One([SetTo("owned_parts", {<<"gpu", "m2">>}) EXCEPT !.scope = "temporary"]),
    One(Op("restore", "existing_parts", <<>>)),
    One(Op("remove", "budget_basis", <<>>)) }

MCOffers == { {}, {[field |-> "budget_cny", value |-> <<6000>>]} }

Message(says, models) == [says |-> says, models |-> models, values |-> {}]
MCSayings == { Message({"yes", "mentioned"}, {"m2"}), Message({"cleared", "notes", "percent"}, {}) }

CONSTANTS Turns, Kinds, Budgets, Deltas, Flex, MaxRounds, MaxVersions, MaxTurns, MaxLegacy

VARIABLES subject, path, builds, demands, state, order, begun

orders == <<path, builds, demands, state, order, begun>>

Orders == INSTANCE ChangeOrders WITH turn <- order

Start ==
  /\ subject \in {"requirement", "orders"}
  /\ subject = "requirement" \/ draft = NewRequirementState
  /\ subject = "orders" \/ path = "v2"
  /\ Init /\ Orders!Init

Step ==
  /\ UNCHANGED subject
  /\ \/ subject = "requirement" /\ Next        /\ UNCHANGED orders
     \/ subject = "orders"      /\ Orders!Next /\ UNCHANGED turnVars

ConversationSpec == Start /\ [][Step]_<<subject, turnVars, orders>>

\* The turns of a session are alike.
TurnSymmetry == Permutations(Turns)

-----------------------------------------------------------------------------
\* A version differs from its parent only as its change allows
\* (ChangeOrders, pipeline/changes.go:58).
VersionsFollowChanges == Orders!VersionsFollowChanges

\* The build_state of a session describes one saved version
\* (ChangeOrders, pipeline/validator.go:582).
StateNamesARow == Orders!StateNamesARow
=============================================================================
