----------------------------- MODULE MCPlanning -----------------------------
(***************************************************************************)
(* The two ways a configuration is planned, the loop of the builder service *)
(* and the older build harness, with the repairs the loop ends with and the *)
(* compatibility rules drafts are judged by.  The loop takes over from a   *)
(* repair a draft that passes and from the rules one verdict, and a request *)
(* goes to one of the two, so each is checked by itself: a behaviour       *)
(* follows one of them, the "subject", and the others stand still.         *)
(***************************************************************************)
EXTENDS PlanningRunner, Integers, Sequences, FiniteSets

\* Drafts and requests for the loop.
Whole(checks, price, cheaper, completable, pending, external) ==
  [kind |-> "whole", checks |-> checks, price |-> price, cheaper |-> cheaper,
   completable |-> completable, pending |-> pending, external |-> external]
Always(c) == [f \in 0 .. MaxFacts |-> c]
Then(c, d) == [f \in 0 .. MaxFacts |-> IF f = 0 THEN c ELSE d]
Broken(kind) == [Whole(Always("fail"), "missing", FALSE, FALSE, FALSE, FALSE) EXCEPT !.kind = kind]

MCDrafts ==
  {Whole(Then("pass", "unknown"), "flex", FALSE, TRUE, FALSE, FALSE),
   Whole(Then("pass", "fail"), "within", FALSE, FALSE, FALSE, TRUE),
   Whole(Then("mixed", "pass"), "over", TRUE, FALSE, TRUE, FALSE),
   Whole(Always("unknown"), "within", FALSE, TRUE, FALSE, FALSE),
   Broken("malformed")}

MCInputs ==
  {[budgetGiven |-> TRUE, budgetMust |-> TRUE, hardReq |-> FALSE, free |-> FALSE],
   [budgetGiven |-> FALSE, budgetMust |-> FALSE, hardReq |-> TRUE, free |-> FALSE]}

CONSTANTS
  Problems, Builds, Absences,
  Slots, LaneLimit, SampleLimit, GroupLimit, MaxCandidates, MaxAttempts, Orders

\* Validation lets no other type of cooler in (schemas/parts.go:109, clearance.go:99).
ASSUME BuildAssumption == \A b \in Builds : b.spec["cooler.type"] \in {"air", "aio"}

VARIABLES
  subject, problem, draft, stage, notes, build, known,
  order, progress, bundle, attempt, previous, plan, last, outcome

\* No step looks at the searches made and the pages read but to count one more, and
\* no property looks at them.
Watched == <<subject, input, phase, turn, tools, repeats, priceAsc, facts, gates, reviewed,
          result, problem, draft, stage, notes, build, known, order, progress, bundle,
          attempt, previous, plan, last, outcome>>

loop     == <<input, phase, turn, quotas, gates, reviewed, result>>
repair   == <<problem, draft, stage, notes>>
judgment == <<build, known>>
choosing == <<order, progress, bundle, attempt, previous, plan, last, outcome>>

Solver == INSTANCE MCBudgetSolver
Compat == INSTANCE MCCompatibilityRules
Harness == INSTANCE MCBuildHarness

\* Processor, graphics card, board and memory are categories (schemas/parts.go:31).  A
\* price is a number or not known (planner.go:715).  A request comes with lists, and a
\* selection names one processor, board and memory, and of every category finitely
\* many parts (schemas/selection.go:12).
IsListed(s) == Len(s) \in Nat /\ s = [i \in 1 .. Len(s) |-> s[i]]
ASSUME HarnessAssumption ==
  /\ {"cpu", "gpu", "motherboard", "memory"} \subseteq Slots
  /\ Slots \subseteq {"cpu", "gpu", "motherboard", "memory", "ssd", "psu", "case", "cooler"}
  /\ \A o \in Orders :
       /\ DOMAIN o = {"catalogue", "req", "change", "base", "locked", "hits"}
       /\ \A i \in DOMAIN o.catalogue : o.catalogue[i].price \in Nat \cup {Harness!NoPrice}
       /\ o.req.budget \in Int /\ o.req.flex \in Int
       /\ IsListed(o.catalogue) /\ IsListed(o.req.owned) /\ IsListed(o.hits)
       /\ o.base # Harness!NoBase =>
            /\ DOMAIN o.base = Slots
            /\ \A s \in Slots : /\ Harness!Chosen(o.base, s) \subseteq Nat
                               /\ IsFiniteSet(Harness!Chosen(o.base, s))
            /\ \A s \in {"cpu", "motherboard", "memory"} :
                 \A m, n \in Harness!Chosen(o.base, s) : m = n

\* The instances the modules propose, which depend on no constant but Slots.
ProposedProblems == INSTANCE MCBudgetSolver WITH Problems <- {}
ProposedBuilds   == INSTANCE MCCompatibilityRules WITH Builds <- {}, Absences <- {}

ProposedOrders   == INSTANCE MCBuildHarness WITH Orders <- {}

MCProblems == ProposedProblems!MCProblems
MCBuilds   == ProposedBuilds!MCBuilds
MCAbsences == ProposedBuilds!MCAbsences
MCOrders   == ProposedOrders!MCOrders

LoopRests   == Init /\ input = (CHOOSE i \in Inputs : TRUE) /\ result = FirstResult(NoDraft)
RepairRests == problem = {} /\ draft = {} /\ stage = "done" /\ notes = {}
RulesRest   == build = {} /\ known = {}
HarnessRests ==
  /\ order = {} /\ progress = "done" /\ bundle = {} /\ attempt = 0
  /\ previous = {} /\ plan = {} /\ last = {} /\ outcome = {}

Start ==
  \/ subject = "loop"    /\ Init      /\ RepairRests /\ RulesRest   /\ HarnessRests
  \/ subject = "repair"  /\ LoopRests /\ Solver!Init /\ RulesRest   /\ HarnessRests
  \/ subject = "rules"   /\ LoopRests /\ RepairRests /\ Compat!Init /\ HarnessRests
  \/ subject = "harness" /\ LoopRests /\ RepairRests /\ RulesRest   /\ Harness!Init

Step ==
  /\ UNCHANGED subject
  /\ \/ subject = "loop"    /\ Next         /\ UNCHANGED <<repair, judgment, choosing>>
     \/ subject = "repair"  /\ Solver!Next  /\ UNCHANGED <<loop, judgment, choosing>>
     \/ subject = "rules"   /\ Compat!Next  /\ UNCHANGED <<loop, repair, choosing>>
     \/ subject = "harness" /\ Harness!Next /\ UNCHANGED <<loop, repair, judgment>>

PlanningSpec == Start /\ [][Step]_<<subject, loop, repair, judgment, choosing>>

\* What a repair changed it may change, and what it announces is so
\* (BudgetSolver, budget_solver.go).
FixIsSound == subject = "repair" => Solver!FixIsSound

\* A verdict given on partial facts stands when the rest arrives, and a report
\* names all it takes to be judged (CompatibilityRules, internal/rules).
VerdictsStand == [][subject = "rules" => Compat!VerdictStands]_<<subject, judgment>>
MissingFieldsSuffice == subject = "rules" => Compat!MissingFieldsSuffice

\* The bounds refuse only what cannot be built, a working build stays among the
\* candidates of its own change, what is delivered holds all that was asked, and
\* a verified repair is delivered to whoever follows it (BuildHarness,
\* internal/buildharness).
BoundIsSound           == subject = "harness" => Harness!BoundIsSound
BaseStaysBuildable     == subject = "harness" => Harness!BaseStaysBuildable
DeliveredHolds         == subject = "harness" => Harness!DeliveredHolds
VerifiedRepairDelivers == subject = "harness" => Harness!VerifiedRepairDelivers
=============================================================================
