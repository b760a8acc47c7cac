----------------------------- MODULE BuildHarness -----------------------------
(***************************************************************************)
(* Version 2 of the build harness (internal/buildharness/harness.go,       *)
(* repair.go, budget_search.go): a model chooses one part per category     *)
(* from the bundle, the server checks the choice, and up to MaxAttempts - 1 *)
(* repairs name the categories the model may choose again.                 *)
(*                                                                         *)
(* The model is a free choice among selections of catalogue parts, and may *)
(* answer with something else or not at all.  Rationales, traces and the   *)
(* wording of messages are left out; the search's limit of 512 evaluations *)
(* is not reached by the instances.                                        *)
(***************************************************************************)
EXTENDS BuildCandidates

CONSTANTS
  Orders,       \* requests the harness is given
  MaxAttempts

VARIABLES
  progress,     \* "asked" -> "bound" -> "choosing" -> "done"
  bundle,
  attempt,
  previous,     \* the draft a repair starts from, or NoBase
  plan,         \* the current repair, or NoPlan
  last,         \* the last selection that was judged, or NoBase
  outcome       \* [kind, sel]

work == <<bundle, attempt, previous, plan, last>>
harnessVars == <<order, progress, work, outcome>>

NoPlan == [mutable |-> {}, reason |-> "none", preferred |-> [s \in {} |-> 0],
           disks |-> {}, dropGPU |-> FALSE]
Plan(mutable, reason) == [NoPlan EXCEPT !.mutable = mutable, !.reason = reason]
Open == [kind |-> "open", sel |-> NoBase]

\* The functions that take each of the slots to one of its choices.
Combined(slots, c, g, b, m, d, p, e, k) ==
  [s \in slots |-> CASE s = "cpu" -> c [] s = "gpu" -> g [] s = "motherboard" -> b [] s = "memory" -> m
                     [] s = "ssd" -> d [] s = "psu" -> p [] s = "case" -> e [] OTHER -> k]
Product(slots, choices) ==
  LET of(s) == IF s \in slots THEN choices[s] ELSE {{}}
  IN  {Combined(slots, c, g, b, m, d, p, e, k) :
         c \in of("cpu"), g \in of("gpu"), b \in of("motherboard"), m \in of("memory"),
         d \in of("ssd"), p \in of("psu"), e \in of("case"), k \in of("cooler")}

Quantities(s) == IF s = "ssd" THEN {1, 2} ELSE {1}
UnitChoices(s) == {Units(n, q) : n \in Offers(s), q \in Quantities(s)}
                  \cup {u \in {{}} : s = "gpu"}
\* What a model may answer: any part of the catalogue in its category.
Answers == Product(Slots, [s \in Slots |-> UnitChoices(s)])

Unlocked == Slots \ order.locked
Apply(sel, parts) == [s \in Slots |-> IF s \in DOMAIN parts THEN Units(parts[s], 1) ELSE sel[s]]

-----------------------------------------------------------------------------
(* Checks of a choice, in their order *)

\* Mutant of FollowsPlan: a repair may touch any category.
TakesPreferred(sel) == \A s \in DOMAIN plan.preferred : Chosen(sel, s) = {plan.preferred[s]}

\* A repair changes what it opens and takes what the search has verified.
FollowsPlan(sel) ==
  /\ Changed(previous, sel) \subseteq plan.mutable
  /\ TakesPreferred(sel)
  /\ plan.disks # {} => sel["ssd"] = plan.disks
  /\ plan.dropGPU => sel["gpu"] = {}
Repairing == plan # NoPlan /\ previous # NoBase

\* Mutant of Offered: the parts being repaired are withdrawn in any case.
AlwaysAnother(s) == Candidates(bundle, s) \ (IF Repairing THEN Chosen(previous, s) ELSE {})

\* The candidates of a category: in a repair the verified one, or the others.
Offered(s) ==
  IF ~Repairing THEN Candidates(bundle, s)
  ELSE IF s = "gpu" /\ plan.dropGPU THEN {}
  ELSE IF s = "ssd" /\ plan.disks # {}
  THEN Candidates(bundle, s) \cap {u.part : u \in plan.disks}
  ELSE IF s \in DOMAIN plan.preferred THEN Candidates(bundle, s) \cap {plan.preferred[s]}
  ELSE Candidates(bundle, s) \ Chosen(previous, s)

\* In a repair only the opened categories are looked up again.
Outsiders(sel) ==
  {s \in IF Repairing THEN plan.mutable ELSE Slots : ~(Chosen(sel, s) \subseteq Offered(s))}

GPUMissing(sel)  == MandatoryGPU /\ sel["gpu"] = {}
LocksBroken(sel) == order.base # NoBase /\ \E s \in order.locked : sel[s] # order.base[s]
TooManyChanges(sel) == /\ order.base # NoBase
                       /\ order.change.intent = "adjust_budget"
                       /\ Cardinality(Changed(order.base, sel)) > 2
KeepsConstraints(sel) == ~GPUMissing(sel) /\ ~LocksBroken(sel) /\ ~TooManyChanges(sel)

Final == attempt = MaxAttempts

Verdict(sel) ==
  IF Repairing /\ ~FollowsPlan(sel)                 THEN "off plan"
  ELSE IF sel = last                                THEN "repeated"
  ELSE IF Outsiders(sel) # {}                       THEN "outside"
  ELSE IF ~KeepsConstraints(sel)                    THEN "constraint"
  ELSE IF Unpriced(sel) # {}                        THEN "unpriced"
  ELSE IF /\ Status(sel) # "fail" /\ InWindow(sel)
          /\ "unknown" \notin Outcomes(sel) \/ Final THEN "deliver"
  ELSE "repair"

-----------------------------------------------------------------------------
(* Repairs *)

\* Each rule that fails or is unknown opens the first of its categories that
\* is not locked and has another candidate.
Alternatives(sel, s) == Candidates(bundle, s) \ Chosen(sel, s)
Replaceable(sel, rule) ==
  {i \in DOMAIN Involved(rule) : LET s == Involved(rule)[i] IN s \in Unlocked /\ Alternatives(sel, s) # {}}
Troubled(sel) == {r \in Rules : Outcome(r, sel) # "pass"}
Stuck(sel)    == \E r \in Troubled(sel) : Replaceable(sel, r) = {}
RuleRepair(sel) == {Involved(r)[Min(Replaceable(sel, r))] : r \in Troubled(sel)}

CandidatePrices(s) == {Part(n).price : n \in Candidates(bundle, s)} \ {NoPrice}

\* The two categories that can move the price most in the wanted direction.
Leverage(sel, s) ==
  IF Direction(sel) = "over" THEN Price(sel[s]) ELSE Max(CandidatePrices(s)) - Price(sel[s])
Levers(sel) ==
  {s \in Unlocked : /\ CandidatePrices(s) # {}
                    /\ IF Direction(sel) = "over" THEN Min(CandidatePrices(s)) < Price(sel[s])
                                                 ELSE Max(CandidatePrices(s)) > Price(sel[s])}
Ahead(sel, s, t) == \/ Leverage(sel, s) > Leverage(sel, t)
                    \/ Leverage(sel, s) = Leverage(sel, t) /\ Rank(s) < Rank(t)
BudgetRepairSlots(sel) ==
  {s \in Levers(sel) : Cardinality({t \in Levers(sel) : Ahead(sel, t, s)}) < 2}

\* The plan of the rules and the budget, or NoPlan if there is nothing to open.
RepairPlan(sel) ==
  IF Stuck(sel) THEN NoPlan
  ELSE IF Direction(sel) = "none" THEN Plan(RuleRepair(sel), "rules")
  ELSE IF BudgetRepairSlots(sel) = {} THEN NoPlan
  ELSE Plan(RuleRepair(sel) \cup BudgetRepairSlots(sel), "budget")

Distance(sel) == IF Amount(sel) >= order.req.budget THEN Amount(sel) - order.req.budget
                 ELSE order.req.budget - Amount(sel)

\* The best that any choice of candidates in the opened categories gives: a pass
\* before a review, then the nearest to the budget.
Feasible(sel, slots) ==
  {parts \in Product(slots, [s \in slots |-> Candidates(bundle, s)]) :
     LET after == Apply(sel, parts)
     IN  after # sel /\ Status(after) # "fail" /\ InWindow(after)}
Badness(sel) == <<IF Status(sel) = "pass" THEN 0 ELSE 1, Distance(sel)>>
Less(a, b)   == a[1] < b[1] \/ (a[1] = b[1] /\ a[2] < b[2])
Best(sel, slots) ==
  LET feasible == Feasible(sel, slots)
  IN  {p \in feasible : \A q \in feasible : ~Less(Badness(Apply(sel, q)), Badness(Apply(sel, p)))}
Verified(sel) == KeepsConstraints(sel) /\ Status(sel) = "pass" /\ InWindow(sel)

\* Otherwise up to three other categories are exchanged, as few as possible and
\* then as near to the budget as possible; drives may be doubled and, without a
\* game to run, a graphics card left out.
Exchanges(sel, s) ==
  ({Units(n, q) : n \in {m \in Candidates(bundle, s) : Part(m).price # NoPrice}, q \in Quantities(s)}
   \cup {u \in {{}} : s = "gpu" /\ order.req.use # "gaming" /\ ~MandatoryGPU}) \ {sel[s]}
Proposals(sel) ==
  {after \in Product(Slots, [s \in Slots |-> {sel[s]} \cup (IF Locked(s) THEN {} ELSE Exchanges(sel, s))]) :
     Cardinality(Changed(sel, after)) \in 1 .. 3}
Sound(sel) ==
  {after \in Proposals(sel) : /\ Amount(after) \in Lower .. Upper
                              /\ Verified(after)
                              /\ \A s \in Slots : \A n \in Chosen(after, s) : Part(n).price # NoPrice}
Effort(sel, after) == <<Cardinality(Changed(sel, after)), Distance(after)>>
Least(sel) ==
  LET sound == Sound(sel)
  IN  {p \in sound : \A q \in sound : ~Less(Effort(sel, q), Effort(sel, p))}

SearchPlan(sel, after) ==
  LET changed == Changed(sel, after)
      dropped == "gpu" \in changed /\ after["gpu"] = {}
      single  == changed \ ({"ssd"} \cup {s \in {"gpu"} : dropped})
  IN  [mutable   |-> changed, reason |-> "budget+search",
       preferred |-> [s \in single |-> CHOOSE n \in Chosen(after, s) : TRUE],
       disks     |-> IF "ssd" \in changed THEN after["ssd"] ELSE {},
       dropGPU   |-> dropped]

\* The possible answers of the search; equally good ones are told apart by the
\* spelling of their SKUs.
BudgetPlans(sel, initial) ==
  LET slots == initial.mutable
      best  == IF Cardinality(slots) \in 1 .. 3 /\ \A s \in slots : Candidates(bundle, s) # {}
               THEN Best(sel, slots) ELSE {}
      found == {[initial EXCEPT !.preferred = p] : p \in {q \in best : Verified(Apply(sel, q))}}
      least == IF Unpriced(sel) # {} THEN {} ELSE Least(sel)
      missed == best = {} \/ \E q \in best : ~Verified(Apply(sel, q))
  IN  found \cup (IF ~missed THEN {}
                  ELSE IF least = {} THEN {initial}
                  ELSE {SearchPlan(sel, after) : after \in least})

\* Plans of the next attempt; none if the harness gives up.
NextPlans(sel) ==
  LET initial == RepairPlan(sel)
  IN  IF initial.reason = "rules" THEN {initial}
      ELSE IF Direction(sel) = "none" THEN {}
      ELSE {p \in BudgetPlans(sel, [initial EXCEPT !.reason = "budget"]) : p.mutable # {}}

-----------------------------------------------------------------------------
(* A run of the harness *)

Init ==
  /\ order \in Orders
  /\ progress = "asked" /\ outcome = Open
  /\ bundle = [s \in Slots |-> <<>>] /\ attempt = 0
  /\ previous = NoBase /\ plan = NoPlan /\ last = NoBase

End(kind, sel) == progress' = "done" /\ outcome' = [kind |-> kind, sel |-> sel]

\* Run and Prepare: what cannot be answered is refused before a model is asked.
Refuse ==
  /\ progress = "asked"
  /\ \E r \in FirstRefusal(<<Clarification, UnverifiedMandatory, AssessCatalog>>) :
       End(r.reason, NoBase)
  /\ UNCHANGED <<order, work>>

\* Prepare binds the parts the user owns; the rest of the run works on the bound
\* order.
Bind ==
  /\ progress = "asked"
  /\ FirstRefusal(<<Clarification, UnverifiedMandatory, AssessCatalog>>) = {}
  /\ order' = [order EXCEPT !.base = BindOwned.base, !.locked = BindOwned.locked]
  /\ progress' = "bound"
  /\ UNCHANGED <<work, outcome>>

PrepareFails ==
  /\ progress = "bound"
  /\ \/ \E r \in CandidateRefusals : End(r.reason, NoBase)
     \/ CandidateRefusals = {} /\ TooLarge /\ End("too large", NoBase)
  /\ UNCHANGED <<order, work>>

Prepare ==
  /\ progress = "bound" /\ CandidateRefusals = {} /\ ~TooLarge
  /\ progress' = "choosing" /\ bundle' = Bundle /\ attempt' = 1
  /\ UNCHANGED <<order, previous, plan, last, outcome>>

\* The model or the evaluation fails.
Fails ==
  /\ progress = "choosing"
  /\ End("error", NoBase)
  /\ UNCHANGED <<order, work>>

\* The answer is not a draft: everything unlocked may be chosen afresh.
Garbles ==
  /\ progress = "choosing"
  /\ \/ Final /\ End("invalid_output", NoBase) /\ UNCHANGED work
     \/ /\ ~Final
        /\ attempt' = attempt + 1 /\ previous' = NoBase /\ plan' = Plan(Unlocked, "schema")
        /\ UNCHANGED <<progress, outcome, bundle, last>>
  /\ UNCHANGED order

\* The next attempt starts from this answer.
Retry(sel, next) ==
  /\ attempt' = attempt + 1 /\ plan' = next /\ previous' = sel /\ last' = sel
  /\ UNCHANGED <<order, progress, outcome, bundle>>
Stop(kind, sel) == End(kind, sel) /\ UNCHANGED <<order, work>>

FirstTwo(slots) == {s \in slots : Cardinality({t \in slots : Rank(t) < Rank(s)}) < 2}

\* A missing card opens its category, an exceeded limit of changes two of those
\* that were changed, a broken lock the categories that are not locked.
ConstraintPlan(sel) ==
  IF GPUMissing(sel)                            THEN Plan({"gpu"} \ order.locked, "gpu missing")
  ELSE IF order.change.intent = "adjust_budget" THEN Plan(FirstTwo(Changed(order.base, sel)), "change")
  ELSE Plan(Unlocked, "change")

OffPlan(sel) ==
  /\ Verdict(sel) = "off plan"
  /\ \/ Final /\ Stop("invalid_output", sel)
     \/ ~Final /\ attempt' = attempt + 1
        /\ UNCHANGED <<order, progress, outcome, bundle, previous, plan, last>>

Repeats(sel) == Verdict(sel) = "repeated" /\ Stop("search_exhausted", sel)

LeavesBundle(sel) ==
  /\ Verdict(sel) = "outside"
  /\ \/ (Final \/ Outsiders(sel) \subseteq order.locked) /\ Stop("invalid_output", sel)
     \/ /\ ~Final /\ ~(Outsiders(sel) \subseteq order.locked)
        /\ Retry(sel, Plan(Outsiders(sel) \ order.locked, "membership"))

BreaksConstraint(sel) ==
  /\ Verdict(sel) = "constraint"
  /\ \/ Final /\ Stop("invalid_output", sel)
     \/ ~Final /\ Retry(sel, ConstraintPlan(sel))

LacksPrice(sel) == Verdict(sel) = "unpriced" /\ Stop("data_unavailable", sel)

Delivers(sel) == Verdict(sel) = "deliver" /\ Stop("delivered", sel)

Repairs(sel) ==
  /\ Verdict(sel) = "repair"
  /\ \/ (Final \/ NextPlans(sel) = {}) /\ Stop("search_exhausted", sel)
     \/ ~Final /\ \E next \in NextPlans(sel) : Retry(sel, next)

Answer ==
  /\ progress = "choosing"
  /\ \E sel \in Answers : \/ OffPlan(sel) \/ Repeats(sel) \/ LeavesBundle(sel)
                          \/ BreaksConstraint(sel) \/ LacksPrice(sel)
                          \/ Delivers(sel) \/ Repairs(sel)

Next == Refuse \/ Bind \/ PrepareFails \/ Prepare \/ Fails \/ Garbles \/ Answer

HarnessSpec == Init /\ [][Next]_harnessVars

-----------------------------------------------------------------------------
(* Properties *)

\* A selection of the whole catalogue that breaks no rule and is paid for in full.
Affordable(sel) == /\ Status(sel) # "fail"
                   /\ Unpriced(sel) = {} /\ Amount(sel) <= Upper
                   /\ order.req.use = "gaming" => sel["gpu"] # {}

\* The lower bounds refuse only what cannot be built: no selection of catalogue
\* parts that breaks no rule and holds what the user owns costs less than the
\* upper limit (decision.go, platform_bound.go).
BoundIsSound ==
  outcome.kind \in {"budget_lower_bound", "platform_budget_lower_bound"} =>
    ~\E sel \in Answers :
       /\ Affordable(sel)
       /\ \A i \in DOMAIN order.req.owned :
            sel[order.req.owned[i].slot] = Bound(order.req.owned[i])

\* A build that works, is still sold and meets what is asked for can be the answer
\* to its own change: the candidates hold it whole, whatever was sampled, filtered
\* by the parts chosen before it and trimmed (planner.go).
BaseWorks ==
  /\ order.base # NoBase
  /\ \A s \in Slots \ {"gpu"} : order.base[s] # {}
  /\ Status(order.base) = "pass"
  /\ \A s \in Slots : \A n \in Chosen(order.base, s) : n \in Offers(s) /\ Admits(s, Brand(s, IF s \in {"cpu", "gpu"} THEN order.req[s] ELSE "any"), n)
BaseStaysBuildable ==
  progress = "choosing" /\ BaseWorks =>
    \A s \in Slots : Chosen(order.base, s) \subseteq Candidates(bundle, s)

\* What is delivered was offered, keeps the locks, the card the user insists on and
\* the limit of changes, breaks no rule and is paid for within the window, however
\* the attempts before it went (harness.go).
DeliveredHolds ==
  outcome.kind = "delivered" =>
    LET sel == outcome.sel
    IN  /\ \A s \in Slots : Chosen(sel, s) \subseteq Candidates(bundle, s)
        /\ KeepsConstraints(sel)
        /\ Status(sel) # "fail" /\ Unpriced(sel) = {}
        /\ Amount(sel) \in Lower .. Upper

\* A repair the search has verified is one the model only has to follow: doing
\* exactly that is delivered (budget_search.go, harness.go).
Advised == Apply([previous EXCEPT !["ssd"] = IF plan.disks # {} THEN plan.disks ELSE @,
                                  !["gpu"] = IF plan.dropGPU THEN {} ELSE @], plan.preferred)
CandidatesPriced == \A s \in Slots : \A n \in Candidates(bundle, s) : Part(n).price # NoPrice
VerifiedRepairDelivers ==
  progress = "choosing" /\ CandidatesPriced /\ (plan.dropGPU \/ plan.disks # {} \/ DOMAIN plan.preferred # {}) =>
    Verdict(Advised) = "deliver"
=============================================================================
