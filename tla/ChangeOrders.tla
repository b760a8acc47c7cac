---------------------------- MODULE ChangeOrders ----------------------------
(***************************************************************************)
(* Changes of a saved build (internal/agents/pipeline: remote.go,          *)
(* changes.go, validator.go, harness_v2.go; schemas/changerequest.go;      *)
(* store/versions.go).  A turn takes in the payload the screening sent,    *)
(* prepares the change from the build_state of the session, lets a model   *)
(* choose, checks the choice, saves a version in a transaction of its own  *)
(* and only then appends the event that replaces build_state.              *)
(*                                                                         *)
(* Two turns of one session may overlap; each works on the build_state it  *)
(* read.  The legacy loop is modelled round by round, version 2 by what    *)
(* its harness promises (BuildHarness).  A requirement is its budget, one  *)
(* constraint and three facts about it; a price is the number of the part. *)
(* Bound: turns overlap only in version 2; what saves a version is shared.  *)
(***************************************************************************)
EXTENDS Integers, FiniteSets, Sequences, SequencesExt, FiniteSetsExt, TLC

CONSTANTS
  Turns,
  Kinds,       \* part categories
  Budgets, Deltas, Flex,  \* budgets, changes of them and the tolerance
  MaxRounds,
  MaxVersions, \* bound: versions saved
  MaxTurns,    \* bound: turns begun in version 2
  MaxLegacy    \* bound: turns begun in the legacy pipeline

VARIABLES
  path,        \* "legacy" or "v2": the pipeline the service was started with
  builds,      \* rows of builds, in the order of their versions
  demands,     \* rows of requirements
  state,       \* the build_state of the session
  turn,
  begun

changeVars == <<path, builds, demands, state, turn, begun>>

Skus       == 1..2
Selections == [Kinds -> Skus]
Total(sel) == FoldFunction(LAMBDA a, b : a + b, 0, sel)
Differing(a, b) == {k \in Kinds : a[k] # b[k]}

\* Of a purchase budget the owned part is not paid.
Paid(spec, sel) == Total(sel) - (IF spec.owned THEN sel[CHOOSE k \in Kinds : TRUE] ELSE 0)

\* A requirement: "ok" if it decodes, "strict" if it tells must from prefer.
Nothing   == [none |-> TRUE]
NoDraft   == <<>>

\* Change requests that decode; the other fields of each are fixed.
Swap(k, locked)       == [intent |-> "swap_part", part |-> k, locked |-> locked]
AdjustBudget(d, locked) == [intent |-> "adjust_budget", delta |-> d, locked |-> locked]
Constrain(patch, locked) == [intent |-> "change_constraint", patch |-> patch, locked |-> locked]

\* Patches of a requirement: another wish, and a value that the
\* requirement cannot hold.
Patches == {[wish |-> TRUE], [ok |-> FALSE]}
ChangeRequests ==
  {Swap(k, {}) : k \in Kinds}
  \cup {AdjustBudget(sign * d, {}) : sign \in {1, -1}, d \in Deltas}
  \cup {AdjustBudget(d, {CHOOSE k \in Kinds : TRUE}) : d \in Deltas}
  \cup {Constrain(p, {}) : p \in Patches}

NewSpec(b, facts) == facts @@ [ok |-> TRUE, strict |-> FALSE, owned |-> FALSE, wish |-> FALSE, budget |-> b]
NewSpecs == {NewSpec(b, <<>>) : b \in Budgets}
            \cup {NewSpec(Min(Budgets), [f \in {name} |-> name # "ok"]) : name \in {"ok", "strict", "owned"}}

-----------------------------------------------------------------------------
(* Preparation *)

\* Mutant: a swap locks only what it names.
OnlyNamed(change) == change.locked

\* A swap locks every category but its own.
HardLocked(change) ==
  IF change.intent = "swap_part" THEN Kinds \ {change.part} ELSE change.locked

\* The requirement a change derives from the one in force.
Derived(spec, change) ==
  CASE change.intent = "swap_part" -> spec
    [] change.intent = "adjust_budget" -> [spec EXCEPT !.budget = @ + change.delta]
    [] change.intent = "change_constraint" -> change.patch @@ spec
Derivable(spec, change) ==
  change.intent # "swap_part" => /\ spec.ok
                                 /\ Derived(spec, change).ok /\ Derived(spec, change).budget > 0

Idle == [pc |-> "idle", change |-> Nothing, spec |-> Nothing, base |-> Nothing,
         round |-> 0, last |-> NoDraft, draft |-> NoDraft, unpriced |-> FALSE, saved |-> 0]

MaxBegun == [v2 |-> MaxTurns, legacy |-> MaxLegacy]

Begin(t, change, spec, base) ==
  /\ turn[t].pc = "idle" /\ begun < MaxBegun[path] /\ begun' = begun + 1
  /\ path = "legacy" => \A u \in Turns : turn[u] = Idle
  /\ turn' = [turn EXCEPT ![t] = [Idle EXCEPT !.pc = "choosing", !.change = change,
                                              !.spec = spec, !.base = base]]
  /\ UNCHANGED <<path, builds, demands, state>>

\* No payload, a change of nothing, or a request that does not decode or
\* derive: the turn runs on without a requirement.
PrepareNothing(t) == Begin(t, Nothing, Nothing, Nothing)

PrepareBuild(t) == \E spec \in NewSpecs : Begin(t, Nothing, spec, state)

PrepareChange(t) ==
  /\ state # Nothing
  /\ \E change \in ChangeRequests :
       IF Derivable(state.spec, change)
       THEN Begin(t, change, Derived(state.spec, change), state)
       ELSE Begin(t, Nothing, Nothing, Nothing)

-----------------------------------------------------------------------------
(* Checks *)

Changing(w) == w.change # Nothing
KeepsLocks(w, sel) ==
  Changing(w) => Differing(w.base.sel, sel) \cap HardLocked(w.change) = {}
FewChanges(w, sel) ==
  Changing(w) /\ w.change.intent = "adjust_budget" => Cardinality(Differing(w.base.sel, sel)) <= 2

BudgetOf(w) == w.spec.budget
InWindow(b, total) == b - Flex <= total /\ total <= b + Flex

\* Answers of the evaluation: rules failed, passed with a datum missing,
\* passed with warnings or without; some part may have no price.
Evaluations == [status : {"unknown sku", "error", "fail", "missing data", "passed"}, unpriced : BOOLEAN]

Step(t, w) == /\ turn' = [turn EXCEPT ![t] = w]
              /\ UNCHANGED <<path, builds, demands, state, begun>>
Stop(t)    == Step(t, Idle)
Final(w)   == w.round >= MaxRounds
Deliver(t, w, sel, unpriced) ==
  Step(t, [w EXCEPT !.pc = "saving", !.draft = sel, !.unpriced = unpriced,
                   !.round = 0, !.last = NoDraft])

\* What is wrong goes back to the model, unless it repeats itself or the
\* rounds are used up.
SendBack(t, w, sel) ==
  IF w.last = sel \/ Final(w) THEN Stop(t) ELSE Step(t, [w EXCEPT !.last = sel])

DecideOnDraft(t, w, sel, e) ==
  LET priced == ~e.unpriced /\ w.spec # Nothing IN
  CASE ~KeepsLocks(w, sel) \/ ~FewChanges(w, sel) -> SendBack(t, w, sel)
    [] w.spec # Nothing /\ w.spec.ok /\ w.spec.owned -> Stop(t)
    [] e.status = "unknown sku" -> SendBack(t, w, sel)
    [] e.status = "error" -> Stop(t)
    [] e.status = "fail" -> SendBack(t, w, sel)
    [] priced /\ ~w.spec.ok -> Stop(t)
    [] priced /\ ~InWindow(BudgetOf(w), Total(sel)) -> SendBack(t, w, sel)
    [] e.status = "missing data" /\ ~Final(w) -> Step(t, [w EXCEPT !.last = sel])
    [] OTHER -> Deliver(t, w, sel, e.unpriced)

\* One round of the legacy loop: the model answers, the validator decides.
\* The loop cannot tell must from prefer and stops at once.
Round(t) ==
  /\ path = "legacy" /\ turn[t].pc = "choosing"
  /\ LET w == [turn[t] EXCEPT !.round = @ + 1] IN
       IF w.spec # Nothing /\ w.spec.ok /\ w.spec.strict THEN Stop(t)
       ELSE \/ Stop(t)                                    \* no draft in the answer
            \/ IF Final(w) THEN Stop(t) ELSE Step(t, w)   \* not a draft
            \/ \E sel \in Selections, e \in Evaluations : DecideOnDraft(t, w, sel, e)

\* The harness of version 2 delivers a priced selection within the window that
\* keeps the constraints of the change, or nothing.
Harness(t) ==
  /\ path = "v2" /\ turn[t].pc = "choosing"
  /\ LET w == turn[t] IN
       \/ Stop(t)
       \/ /\ w.spec # Nothing /\ w.spec.ok
          /\ \E sel \in Selections :
               /\ KeepsLocks(w, sel) /\ FewChanges(w, sel)
               /\ InWindow(BudgetOf(w), Paid(w.spec, sel))
               /\ Deliver(t, w, sel, FALSE)

-----------------------------------------------------------------------------
(* Saving *)

Reuses(w) == Changing(w) /\ w.change.intent = "swap_part"

\* A delivery without a requirement is not saved; a transaction may fail.
SaveFails(t) == turn[t].pc = "saving" /\ Stop(t)

\* SaveBuildVersion: the requirement of the base or a new row, and a build.
SaveBuildVersion(t) ==
  LET w == turn[t] IN
  /\ w.pc = "saving" /\ w.spec # Nothing /\ Len(builds) < MaxVersions
  /\ demands' = IF Reuses(w) THEN demands ELSE Append(demands, w.spec)
  /\ builds' = Append(builds,
       [parent |-> IF w.base = Nothing THEN 0 ELSE w.base.build, change |-> w.change,
        demand |-> IF Reuses(w) THEN w.base.demand ELSE Len(demands) + 1,
        sel |-> w.draft, unpriced |-> w.unpriced])
  /\ turn' = [turn EXCEPT ![t].pc = "saved", ![t].saved = Len(builds) + 1]
  /\ UNCHANGED <<path, state, begun>>

\* Mutant: the requirement stays the one the change started from.
StaleSpec(w) == IF w.base = Nothing THEN w.spec ELSE w.base.spec

StateSpec(w) == w.spec

\* The event of the turn is appended to the session and replaces build_state.
AppendState(t) ==
  LET w == turn[t] IN
  /\ w.pc = "saved"
  /\ state' = [build |-> w.saved, demand |-> builds[w.saved].demand,
               spec |-> StateSpec(w), sel |-> w.draft]
  /\ turn' = [turn EXCEPT ![t] = Idle]
  /\ UNCHANGED <<path, builds, demands, begun>>

\* The process stops, or the session store refuses the event.
Die(t) == turn[t].pc # "idle" /\ Stop(t)

Init ==
  /\ path \in {"legacy", "v2"}
  /\ builds = <<>> /\ demands = <<>> /\ state = Nothing
  /\ turn = [t \in Turns |-> Idle] /\ begun = 0

Next ==
  \E t \in Turns : \/ PrepareNothing(t) \/ PrepareBuild(t) \/ PrepareChange(t)
                   \/ Round(t) \/ Harness(t) \/ SaveFails(t)
                   \/ SaveBuildVersion(t) \/ AppendState(t) \/ Die(t)

Spec == Init /\ [][Next]_changeVars

-----------------------------------------------------------------------------
(* Properties *)

\* A version differs from the one it names as its parent only as its change
\* allows: locked parts stay, a new budget costs at most two parts, and the
\* requirement is the parent's with this one change (changes.go:58), although
\* turns overlap and a stop can leave build_state behind the rows.
VersionsFollowChanges ==
  \A v \in DOMAIN builds :
    LET row == builds[v] IN
    row.change # Nothing =>
      /\ row.parent \in 1..(v - 1)
      /\ LET base == builds[row.parent] IN
         /\ Differing(base.sel, row.sel) \cap HardLocked(row.change) = {}
         /\ row.change.intent = "swap_part" =>
              /\ Differing(base.sel, row.sel) \subseteq {row.change.part}
              /\ row.demand = base.demand
         /\ row.change.intent = "adjust_budget" => Cardinality(Differing(base.sel, row.sel)) <= 2
         /\ demands[row.demand] = Derived(demands[base.demand], row.change)

\* The build_state of a session describes one saved version, its requirement
\* included (validator.go:582), whatever step of a turn was its last.
StateNamesARow ==
  state # Nothing =>
    /\ state.build \in DOMAIN builds
    /\ LET row == builds[state.build] IN
         state.sel = row.sel /\ state.demand = row.demand /\ state.spec = demands[row.demand]
=============================================================================
