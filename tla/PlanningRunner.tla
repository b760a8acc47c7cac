--------------------------- MODULE PlanningRunner ---------------------------
(***************************************************************************)
(* One planning run of the build service (internal/planning/runner.go,     *)
(* gates.go, assessment.go): a model is asked at most MaxTurns times; each *)
(* response either calls tools, within several quotas, or is a final       *)
(* decision, which the server evaluates, loops back through a gate, lets   *)
(* be reviewed once, repairs itself (module BudgetSolver) or delivers.     *)
(* The product evaluates a delivered build again before it saves it.       *)
(*                                                                         *)
(* The model is free: any response, any draft, any claim.  A draft is what *)
(* the server would find out about it.  Search results, evidence and       *)
(* prompts are left out, as is the token budget: it removes the tools from *)
(* the request once, and the code still executes a call made without them. *)
(***************************************************************************)
EXTENDS Naturals, FiniteSets

CONSTANTS
  Drafts,       \* [kind, checks, price, cheaper, completable, pending, external]
  Claims,       \* sets of open issues a decision names; "overclaim" is one about the budget
  Inputs,       \* [budgetGiven, budgetMust, hardReq, free]
  MaxTurns,     \* turns: maxModelTurns, or the smaller diagnostic bound
  MaxTools,     \* maxToolCalls
  MaxSearches,  \* maxSearchCalls
  MaxPages,     \* maxPageCalls
  MaxFacts,     \* bound: registrations that change a selected part
  MaxBatch      \* bound: queries of a batch

\* A draft is judged by the facts there are, "mixed" when a rule fails and another
\* lacks facts, and nothing is asked about one the server cannot read.
ASSUME DraftAssumption ==
  \A d \in Drafts :
    /\ d.kind \in {"malformed", "unresolvable", "whole"}
    /\ d.checks \in [0 .. MaxFacts -> {"pass", "fail", "unknown", "mixed"}]
    /\ d.price \in {"within", "flex", "over", "missing"}
    /\ d.cheaper \in BOOLEAN /\ d.completable \in BOOLEAN
    /\ d.pending \in BOOLEAN /\ d.external \in BOOLEAN
ASSUME BoundAssumption ==
  MaxTurns \in Nat /\ MaxTools \in Nat /\ MaxFacts \in Nat /\ MaxBatch \in Nat
ASSUME InputAssumption ==
  Inputs \subseteq [budgetGiven : BOOLEAN, budgetMust : BOOLEAN, hardReq : BOOLEAN, free : BOOLEAN]

VARIABLES
  input, phase, turn,
  tools, searches, pages,   \* used quotas
  repeats,                  \* how often the latest call was repeated
  priceAsc,                 \* a catalogue search by price was made
  facts,                    \* how often the selected parts' facts changed
  gates, reviewed,
  result       \* the model's latest decision, at the end what is delivered

vars == <<input, phase, turn, tools, searches, pages, repeats, priceAsc,
          facts, gates, reviewed, result>>
quotas == <<tools, searches, pages, repeats, priceAsc, facts>>

Outcomes == {"collect", "clarify", "proposal", "ready"}
NoDraft == [kind |-> "none"]
NoCheck == [draft |-> NoDraft, facts |-> 0]

Calls == [action : {"search", "price_asc", "search_web", "read_page", "supplement", "register"},
          draft : {NoDraft}]
         \cup {[action |-> "batch", draft |-> NoDraft]}
         \cup [action : {"evaluate"}, draft : Drafts]

-----------------------------------------------------------------------------
(* What the server knows of a result *)

Validated(r) == r.validation # NoCheck
Status(r) == r.validation.draft.checks[r.validation.facts]
Passed(r) == Validated(r) /\ Status(r) = "pass"
\* Some rule lacks facts, whatever the others say.
Incomplete(r) == Validated(r) /\ Status(r) \in {"unknown", "mixed"}
Over(r) == Validated(r) /\ input.budgetMust /\ r.draft.price = "over"
MustsMet(r) == input.hardReq => r.met

Evaluated(r, d) ==
  CASE d.kind = "malformed" -> [r EXCEPT !.draft = d, !.validation = NoCheck]
    [] d.kind = "unresolvable" -> [r EXCEPT !.draft = d, !.validation = NoCheck,
                                            !.issues = @ \cup {"unverifiable"}]
    [] d.kind = "whole" -> [r EXCEPT !.draft = d,
                                     !.validation = [draft |-> d, facts |-> facts]]

\* A claim that the budget is exceeded is dropped when the server has
\* computed a complete total within the ceiling.
Overclaims(r) == IF Validated(r) /\ input.budgetMust /\ r.draft.price \in {"within", "flex"}
                 THEN {"overclaim"} ELSE {}

DeliveryIssues(r) ==
  IF ~Validated(r) THEN {"unchecked"}
  ELSE {i \in {"check", "unpriced", "over budget"} :
          \/ i = "check" /\ Status(r) # "pass"
          \/ i = "unpriced" /\ r.draft.price = "missing"
          \/ i = "over budget" /\ Over(r)}

Finalized(r) ==
  LET pending == r.outcome \in {"proposal", "ready"} /\ r.draft # NoDraft /\ r.draft.pending
      wasReady == r.outcome \in {"proposal", "ready"} /\ ~pending
      claimed == r.issues \cup {i \in {"ownership"} : pending}
      checked == IF wasReady \/ r.draft # NoDraft
                 THEN (claimed \ Overclaims(r)) \cup DeliveryIssues(r) ELSE claimed
      open == checked \cup {i \in {"must"} : wasReady /\ ~MustsMet(r)}
      ready == wasReady /\ Passed(r) /\ open = {}
  IN  [outcome |-> IF ready THEN "ready" ELSE IF wasReady THEN "proposal"
                   ELSE IF pending THEN "clarify" ELSE r.outcome,
       model |-> r.model, draft |-> r.draft, validation |-> r.validation,
       met |-> r.met, issues |-> open]

-----------------------------------------------------------------------------
\* The draft of the previous proposal comes without its report.
FirstResult(d) == [outcome |-> "proposal", model |-> "none", draft |-> d,
                   validation |-> NoCheck, issues |-> {}, met |-> TRUE]

Init ==
  /\ input \in Inputs
  /\ phase = "ask" /\ turn = 0
  /\ tools = 0 /\ searches = 0 /\ pages = 0
  /\ repeats = 0
  /\ priceAsc = FALSE /\ facts = 0
  /\ gates = [budget |-> 0, unknown |-> 0, hardreq |-> 0, nobudget |-> 0,
              stalled |-> 0, total |-> 0]
  /\ reviewed = FALSE
  /\ \E d \in {NoDraft} \cup Drafts : result = FirstResult(d)

-----------------------------------------------------------------------------
(* Tool calls *)

\* A further query of a batch takes a further slot, while there is one.
BatchSize(n) == IF n > MaxTools - tools THEN MaxTools - tools ELSE n

\* Mutant of Supplemented: the report stays.
KeptReport(r) == r
\* New facts of a selected local part discard the report about it.
Supplemented(r) == IF r.draft # NoDraft /\ r.draft.kind # "malformed"
                   THEN [r EXCEPT !.validation = NoCheck] ELSE r

\* A part from the web that is registered again takes its new facts into the
\* draft that selects it, and the report about that draft stays.
FactsChange(c) ==
  /\ facts < MaxFacts
  /\ \/ c.action = "supplement"
     \/ c.action = "register" /\ result.draft # NoDraft /\ result.draft.external

Perform(c) ==
  /\ IF c.action = "batch" THEN \E n \in 1 .. MaxBatch : tools' = tools + BatchSize(n)
                           ELSE tools' = tools + 1
  /\ searches' = IF c.action = "search_web" /\ searches < MaxSearches
                 THEN searches + 1 ELSE searches
  /\ pages' = IF c.action = "read_page" /\ pages < MaxPages THEN pages + 1 ELSE pages
  /\ priceAsc' = (priceAsc \/ c.action = "price_asc")
  /\ facts' = IF FactsChange(c) THEN facts + 1 ELSE facts
  /\ result' = CASE c.action = "supplement" /\ FactsChange(c) -> Supplemented(result)
                 [] c.action = "evaluate" -> Evaluated(result, c.draft)
                 [] OTHER -> result

\* The second identical call in a row is executed with a warning, a third
\* one is refused.  A refused call takes nothing from the quotas.  Two calls
\* are the same when their arguments are, which are not modelled.
Call(c, same) ==
  /\ phase \in {"ask", "calls"}
  /\ turn < MaxTurns
  /\ phase' = "calls"
  /\ IF tools < MaxTools /\ turn < MaxTurns - 1
     THEN /\ repeats' = IF ~same THEN 0 ELSE IF repeats < 2 THEN repeats + 1 ELSE 2
          /\ IF repeats' < 2 THEN Perform(c)
             ELSE UNCHANGED <<tools, searches, pages, priceAsc, facts, result>>
     ELSE UNCHANGED <<quotas, result>>
  /\ UNCHANGED <<input, turn, gates, reviewed>>

EndCalls ==
  /\ phase = "calls"
  /\ phase' = "ask"
  /\ turn' = turn + 1
  /\ UNCHANGED <<input, quotas, gates, reviewed, result>>

-----------------------------------------------------------------------------
(* Gates *)

Clarifies(o, r) == o = "clarify" /\ Validated(r) /\ tools > 0

Open(gate, o, r) ==
  CASE gate = "nobudget" -> /\ gates.nobudget < 1
                            /\ o \in {"ready", "proposal"}
                            /\ Validated(r) /\ ~input.budgetGiven
    [] gate = "budget"   -> /\ gates.budget < 2
                            /\ o \in {"clarify", "proposal"}
                            /\ Over(r)
                            /\ r.draft.cheaper \/ ~priceAsc
    [] gate = "unknown"  -> /\ gates.unknown < 2
                            /\ o = "proposal" \/ Clarifies(o, r)
                            /\ Incomplete(r) /\ r.draft.completable
    [] gate = "hardreq"  -> /\ gates.hardreq < 1
                            /\ o = "clarify"
                            /\ Validated(r) /\ ~MustsMet(r)
    [] gate = "stalled"  -> /\ gates.stalled < 1
                            /\ o = "proposal"
                            /\ Passed(r) /\ r.issues # {}
                            /\ ~("overclaim" \in r.issues /\ r.draft.price = "flex")
                            /\ MustsMet(r) /\ ~Over(r)

GateOrder == <<"nobudget", "budget", "unknown", "hardreq", "stalled">>

\* The gate a final decision is looped back through: the first open one.
Gate(o, r) ==
  IF turn >= MaxTurns - 2 \/ gates.total >= 3 \/ \A i \in 1 .. 5 : ~Open(GateOrder[i], o, r)
  THEN "none"
  ELSE GateOrder[CHOOSE i \in 1 .. 5 : /\ Open(GateOrder[i], o, r)
                                       /\ \A j \in 1 .. i - 1 : ~Open(GateOrder[j], o, r)]

\* The last gate computes the delivery issues on the result itself, which
\* drops the overclaims from it.
AfterGates(o, r, gate) ==
  IF /\ turn < MaxTurns - 2 /\ gates.total < 3 /\ gates.stalled < 1
     /\ o = "proposal" /\ Passed(r)
     /\ gate \in {"none", "stalled"}
  THEN [r EXCEPT !.issues = @ \ Overclaims(r)] ELSE r

-----------------------------------------------------------------------------
(* The server's own repairs *)

Decided(o, r) == o \in {"ready", "proposal"} \/ Clarifies(o, r)
Repairable == {d \in Drafts : d.kind = "whole" /\ d.checks[facts] = "pass" /\ d.price # "missing"}

UnknownFixDue(o, r) ==
  /\ Decided(o, r) /\ ~input.free
  /\ Incomplete(r)
  /\ turn >= MaxTurns - 2 \/ gates.unknown >= 2 \/ gates.total >= 3

\* The price is of no concern here.
UnknownFixes(r) ==
  {r} \cup {[Evaluated(r, d) EXCEPT !.outcome = "proposal",
                                    !.issues = @ \cup {"completed"}] :
              d \in Repairable \ {r.draft}}

\* Mutant of BudgetFixDue: the price is pressed in the last turns only.
FixDueLate(o, r) == Decided(o, r) /\ ~input.free /\ Over(r) /\ turn >= MaxTurns - 2
BudgetFixDue(o, r) ==
  /\ Decided(o, r) /\ ~input.free
  /\ Over(r)
  /\ turn >= MaxTurns - 2 \/ gates.budget >= 2 \/ gates.total >= 3 \/ priceAsc

BudgetFixes(r) ==
  {[r EXCEPT !.outcome = "proposal", !.issues = @ \cup {"no replacement"}]}
  \cup {[Evaluated(r, d) EXCEPT !.outcome = "proposal",
                                !.issues = (@ \ {"overclaim"}) \cup {"replaced"}] :
          d \in {e \in Repairable : e.price # "over"}}

-----------------------------------------------------------------------------
(* Final decisions *)

Deliver(r) == /\ phase' = "done"
              /\ result' = Finalized(r)
              /\ UNCHANGED <<turn, gates, reviewed>>

AskAgain(r) == /\ result' = r
               /\ reviewed' = TRUE
               /\ turn' = turn + 1
               /\ UNCHANGED phase

LoopBack(gate, r) ==
  /\ gates' = [gates EXCEPT ![gate] = gates[gate] + 1, !.total = gates.total + 1]
  /\ AskAgain(r)

Repair(o, r) ==
  \E completed \in IF UnknownFixDue(o, r) THEN UnknownFixes(r) ELSE {r} :
       /\ UnknownFixDue(o, r) \/ BudgetFixDue(o, completed)
       /\ \E priced \in IF BudgetFixDue(o, completed) THEN BudgetFixes(completed)
                        ELSE {completed} : Deliver(priced)

Settled(o, r) == ~UnknownFixDue(o, r) /\ ~BudgetFixDue(o, r)

\* A decision that could still be repaired by the model is reviewed; a
\* question about an evaluated draft, or a proposal with issues, only once.
\* The issues that count are those of the model's answer.
Reviewable(o, claims, r) ==
  /\ Finalized(r).outcome # "ready"
  /\ turn < MaxTurns - 1
  /\ \/ o = "ready"
     \/ o = "proposal" /\ claims = {}
     \/ /\ o = "proposal" \/ Clarifies(o, r)
        /\ ~reviewed /\ turn < MaxTurns - 2 /\ tools < MaxTools

Review(o, claims, r) ==
  /\ Settled(o, r) /\ Reviewable(o, claims, r)
  /\ AskAgain(r)
  /\ UNCHANGED gates

Final(o, d, claims, met) ==
  LET told == [result EXCEPT !.outcome = o, !.model = o, !.issues = claims, !.met = met]
      shown == IF d = NoDraft THEN told ELSE Evaluated(told, d)
      gate == Gate(o, shown)
      r == AfterGates(o, shown, gate)
  IN  /\ phase = "ask" /\ turn < MaxTurns
      /\ \/ gate # "none" /\ LoopBack(gate, r)
         \/ gate = "none" /\ Repair(o, r)
         \/ gate = "none" /\ Review(o, claims, r)
         \/ gate = "none" /\ Settled(o, r) /\ ~Reviewable(o, claims, r) /\ Deliver(r)
      /\ UNCHANGED <<input, quotas>>

\* Text that is not a decision is answered with the reason.
InvalidFinal ==
  /\ phase = "ask" /\ turn < MaxTurns
  /\ turn' = turn + 1
  /\ UNCHANGED <<input, phase, quotas, gates, reviewed, result>>

\* All turns used: a draft that passed and has no open issue is delivered
\* as it stands.
Exhaust ==
  /\ phase = "ask" /\ turn = MaxTurns
  /\ Deliver(IF Passed(result) /\ result.issues = {} THEN result
             ELSE [result EXCEPT !.issues = @ \cup {"exhausted"}])
  /\ UNCHANGED <<input, quotas>>

\* The user cancelled, or the model could not be reached: what there is goes
\* back with an error, and the product ignores it.
Abort ==
  /\ phase = "ask" /\ turn < MaxTurns
  /\ phase' = "aborted"
  /\ UNCHANGED <<input, turn, quotas, gates, reviewed, result>>

-----------------------------------------------------------------------------
(* The product, which has the catalogue and nothing of the run's own facts *)

\* The catalogue knows every selected part, and finds what was found.
Reproducible(r) == ~r.draft.external /\ r.draft.checks[0] = Status(r)

\* A build is saved if the catalogue, unchanged, comes to the same result;
\* otherwise what was delivered is kept as a proposal.
Complete ==
  /\ phase = "done" /\ result.outcome = "ready"
  /\ phase' = "completed"
  /\ \/ Reproducible(result) /\ UNCHANGED result
     \/ result' = [result EXCEPT !.outcome = "proposal", !.issues = @ \cup {"not reproduced"}]
  /\ UNCHANGED <<input, turn, quotas, gates, reviewed>>

\* Whether a decision says that it meets the hard wishes.
Meets == IF input.hardReq THEN BOOLEAN ELSE {TRUE}

Next ==
  \/ phase \in {"ask", "calls"} /\ \E c \in Calls, same \in BOOLEAN : Call(c, same)
  \/ EndCalls
  \/ /\ phase = "ask"
     /\ \E o \in Outcomes, d \in {NoDraft} \cup Drafts, claims \in Claims, met \in Meets :
          Final(o, d, claims, met)
  \/ InvalidFinal
  \/ Exhaust
  \/ Abort
  \/ Complete

Spec == Init /\ [][Next]_vars

-----------------------------------------------------------------------------
TypeOK ==
  /\ input \in Inputs
  /\ phase \in {"ask", "calls", "done", "aborted", "completed"}
  /\ turn \in 0 .. MaxTurns
  /\ repeats \in 0 .. 2
  /\ facts \in 0 .. MaxFacts
  /\ priceAsc \in BOOLEAN /\ reviewed \in BOOLEAN
  /\ result.draft \in Drafts \cup {NoDraft}

\* A build that is saved is the draft that was evaluated last, passed every
\* rule with the facts as they are at the end, is within the budget and leaves
\* no question to the user.  The loop alone does not see to it: a part of the
\* web that is registered again leaves the report about the draft in place
\* (runner.go:982), which only the replay at the product makes up for
\* (runner.go:1155-1180, supplement.go:74, product/planning.go:59).
ReadyIsVerified ==
  phase = "completed" /\ result.outcome = "ready" =>
    /\ result.validation.draft = result.draft
    /\ result.draft.checks[facts] = "pass"
    /\ ~result.draft.pending
    /\ input.budgetMust => result.draft.price \in {"within", "flex"}
    /\ input.hardReq => result.met
    /\ result.issues = {}

\* A decision that still exceeds the hard budget has been through the price
\* search, whose answer is among its issues: the gates leave no way around it
\* (budget_solver.go:3-4, gates.go:418) but these.  A run that ends without a
\* decision does not search, nor one with a hard wish the server cannot map to
\* parts; nor, once the gate of missing facts is used up and the one of the
\* budget is not, is a draft pressed that the server completed itself, or that
\* the model calls ready and that cannot be completed, be it that another rule
\* fails (runner.go:373-382, budget_solver.go:816-828).
OverrunsArePressed ==
  /\ phase = "done" /\ "exhausted" \notin result.issues
  /\ turn < MaxTurns
  /\ result.model \in {"ready", "proposal"}
  /\ ~input.free
  /\ result.validation # NoCheck
  /\ input.budgetMust /\ result.draft.price = "over"
  => \/ "no replacement" \in result.issues
     \/ "completed" \in result.issues
     \/ gates.unknown >= 2 /\ result.model = "ready" /\ Incomplete(result)
=============================================================================
