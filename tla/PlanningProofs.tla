---------------------------- MODULE PlanningProofs ----------------------------
(***************************************************************************)
(* Proofs about a planning run (PlanningRunner): what is saved has passed  *)
(* with the facts there are at the end, and an overrun is pressed; about   *)
(* the rules it is judged by (CompatibilityRules); and about the build     *)
(* harness (BuildHarness): a working build stays among the candidates of   *)
(* its own change, and what is delivered holds all that was asked.         *)
(***************************************************************************)
EXTENDS MCPlanning, FiniteSetTheorems, TLAPS

IsWhole(d) == d.kind = "whole"

Issues == (UNION Claims) \cup
  {"unverifiable", "unchecked", "check", "unpriced", "over budget", "ownership", "must", "completed",
   "no replacement", "replaced", "exhausted", "not reproduced"}

Results ==
  [outcome : Outcomes, model : Outcomes \cup {"none"}, draft : Drafts \cup {NoDraft},
   validation : [draft : Drafts \cup {NoDraft}, facts : Nat], issues : SUBSET Issues, met : BOOLEAN]

\* A report is about the draft, and about the facts there are unless a part of
\* the draft was registered again.
ReportStands(r) ==
  Validated(r) =>
    /\ r.draft \in Drafts /\ IsWhole(r.draft) /\ r.validation.draft = r.draft
    /\ r.validation.facts \in 0 .. facts
    /\ r.draft.external \/ r.validation.facts = facts

\* What is called ready has passed and leaves nothing open.
ReadyStands(r) ==
  r.outcome = "ready" =>
    /\ Passed(r) /\ ~r.draft.pending /\ r.issues = {}
    /\ input.budgetMust => r.draft.price \in {"within", "flex"}
    /\ input.hardReq => r.met

PlanTyped ==
  /\ input \in Inputs /\ facts \in 0 .. MaxFacts /\ turn \in Nat
  /\ phase \in {"ask", "calls", "done", "aborted", "completed"}
  /\ gates \in [{"budget", "unknown", "hardreq", "nobudget", "stalled", "total"} -> Nat]
  /\ result \in Results

PlanInv ==
  /\ PlanTyped
  /\ ReportStands(result)
  /\ phase \in {"done", "completed"} => ReadyStands(result)
  /\ phase = "completed" /\ result.outcome = "ready" => ~result.draft.external
  /\ OverrunsArePressed

LEMMA DraftFacts ==
  ASSUME NEW d \in Drafts
  PROVE  /\ d.kind \in {"malformed", "unresolvable", "whole"}
         /\ \A f \in 0 .. MaxFacts : d.checks[f] \in {"pass", "fail", "unknown", "mixed"}
         /\ d.price \in {"within", "flex", "over", "missing"}
         /\ d.pending \in BOOLEAN /\ d.external \in BOOLEAN /\ d # NoDraft
<1>1. d.kind \in {"malformed", "unresolvable", "whole"}
  BY DraftAssumption DEF DraftAssumption
<1>2. d.kind # "none"
  BY <1>1
<1>3. d # NoDraft
  BY <1>2 DEF NoDraft
<1>4. d.checks \in [0 .. MaxFacts -> {"pass", "fail", "unknown", "mixed"}]
  BY DraftAssumption DEF DraftAssumption
<1> QED
  BY <1>1, <1>3, <1>4, DraftAssumption DEF DraftAssumption

LEMMA NoCheckTyped == NoCheck \in [draft : Drafts \cup {NoDraft}, facts : Nat]
  BY DEF NoCheck

-----------------------------------------------------------------------------
(* The server's view of a result *)

\* An evaluation reports on the draft it is about and the facts there are.
LEMMA EvaluatedStands ==
  ASSUME NEW r \in Results, NEW d \in Drafts, facts \in 0 .. MaxFacts
  PROVE  /\ Evaluated(r, d) \in Results /\ ReportStands(Evaluated(r, d))
         /\ Evaluated(r, d).outcome = r.outcome /\ Evaluated(r, d).model = r.model
         /\ Evaluated(r, d).draft = d /\ Evaluated(r, d).met = r.met
         /\ r.issues \subseteq Evaluated(r, d).issues
<1>0. facts \in Nat
  BY BoundAssumption DEF BoundAssumption
<1>1. CASE d.kind = "malformed"
  <2>1. Evaluated(r, d) = [r EXCEPT !.draft = d, !.validation = NoCheck]
    BY <1>1 DEF Evaluated
  <2> QED
    BY <2>1, NoCheckTyped DEF Results, ReportStands, Validated
<1>2. CASE d.kind = "unresolvable"
  <2>1. Evaluated(r, d) = [r EXCEPT !.draft = d, !.validation = NoCheck,
                                    !.issues = r.issues \cup {"unverifiable"}]
    BY <1>2 DEF Evaluated, Results
  <2>2. r.issues \cup {"unverifiable"} \in SUBSET Issues
    <3>1. r.issues \subseteq Issues
      BY DEF Results
    <3> QED
      BY <3>1 DEF Issues
  <2> QED
    BY <2>1, <2>2, NoCheckTyped DEF Results, ReportStands, Validated
<1>3. CASE d.kind = "whole"
  <2>1. Evaluated(r, d) = [r EXCEPT !.draft = d, !.validation = [draft |-> d, facts |-> facts]]
    BY <1>3 DEF Evaluated
  <2>2. [draft |-> d, facts |-> facts] \in [draft : Drafts \cup {NoDraft}, facts : Nat]
    BY <1>0
  <2>3. Evaluated(r, d) \in Results
    BY <2>1, <2>2 DEF Results
  <2> QED
    BY <1>0, <1>3, <2>1, <2>3 DEF Results, ReportStands, IsWhole
<1> QED
  BY <1>1, <1>2, <1>3, DraftFacts

\* A result is called ready only if it passed and nothing is open; what it says
\* otherwise is kept, but for the claim that the budget is exceeded.
LEMMA FinalizedStands ==
  ASSUME NEW r \in Results, ReportStands(r), input \in Inputs, facts \in 0 .. MaxFacts
  PROVE  /\ Finalized(r) \in Results /\ ReportStands(Finalized(r)) /\ ReadyStands(Finalized(r))
         /\ Finalized(r).model = r.model /\ Finalized(r).draft = r.draft
         /\ Finalized(r).validation = r.validation
         /\ r.issues \ {"overclaim"} \subseteq Finalized(r).issues
<1> DEFINE pending  == r.outcome \in {"proposal", "ready"} /\ r.draft # NoDraft /\ r.draft.pending
           wasReady == r.outcome \in {"proposal", "ready"} /\ ~pending
           claimed  == r.issues \cup {i \in {"ownership"} : pending}
           checked  == IF wasReady \/ r.draft # NoDraft
                       THEN (claimed \ Overclaims(r)) \cup DeliveryIssues(r) ELSE claimed
           open     == checked \cup {i \in {"must"} : wasReady /\ ~MustsMet(r)}
           ready    == wasReady /\ Passed(r) /\ open = {}
           called   == IF ready THEN "ready" ELSE IF wasReady THEN "proposal"
                       ELSE IF pending THEN "clarify" ELSE r.outcome
<1>1. Finalized(r) = [outcome |-> called, model |-> r.model, draft |-> r.draft,
                      validation |-> r.validation, met |-> r.met, issues |-> open]
  BY DEF Finalized
<1>2. called \in Outcomes /\ (called = "ready" => ready)
  BY DEF Results, Outcomes
<1>3. /\ r.model \in Outcomes \cup {"none"} /\ r.draft \in Drafts \cup {NoDraft} /\ r.met \in BOOLEAN
      /\ r.validation \in [draft : Drafts \cup {NoDraft}, facts : Nat] /\ r.issues \subseteq Issues
  BY DEF Results
<1>4. Overclaims(r) \subseteq {"overclaim"}
  BY DEF Overclaims
<1>5. DeliveryIssues(r) \subseteq {"unchecked", "check", "unpriced", "over budget"}
  BY DEF DeliveryIssues
<1>6. open \subseteq Issues
  <2>1. {"ownership", "must", "unchecked", "check", "unpriced", "over budget"} \subseteq Issues
    BY DEF Issues
  <2> QED
    BY <1>3, <1>5, <2>1
<1>7. r.issues \ {"overclaim"} \subseteq open
  BY <1>4
<1>8. ASSUME ready
      PROVE  /\ Passed(r) /\ ~r.draft.pending /\ open = {}
             /\ input.budgetMust => r.draft.price \in {"within", "flex"}
             /\ input.hardReq => r.met
  <2>1. Passed(r) /\ open = {} /\ wasReady
    BY <1>8
  <2>2. Validated(r) /\ r.draft \in Drafts /\ r.draft # NoDraft
    BY <2>1, DraftFacts DEF Passed, ReportStands
  <2>3. ~r.draft.pending
    BY <2>1, <2>2
  <2>4. DeliveryIssues(r) = {} /\ MustsMet(r)
    BY <2>1
  <2>5. r.draft.price # "missing" /\ ~Over(r)
    BY <2>2, <2>4 DEF DeliveryIssues
  <2>6. input.budgetMust => r.draft.price \in {"within", "flex"}
    BY <2>2, <2>5, DraftFacts DEF Over
  <2> QED
    BY <2>1, <2>3, <2>4, <2>6 DEF MustsMet
<1> HIDE DEF open, called, ready
<1>9. Finalized(r) \in Results
  BY <1>1, <1>2, <1>3, <1>6 DEF Results
<1>10. /\ Finalized(r).outcome = called /\ Finalized(r).draft = r.draft /\ Finalized(r).model = r.model
       /\ Finalized(r).validation = r.validation /\ Finalized(r).met = r.met
       /\ Finalized(r).issues = open
  BY <1>1
<1>11. ReportStands(Finalized(r))
  BY <1>10 DEF ReportStands, Validated
<1>12. Passed(r) => Passed(Finalized(r))
  BY <1>10 DEF Passed, Validated, Status
<1>13. ReadyStands(Finalized(r))
  BY <1>2, <1>8, <1>10, <1>12 DEF ReadyStands
<1> QED
  BY <1>7, <1>9, <1>10, <1>11, <1>13

\* A result under another name and with other issues, which do not touch the report.
Amended(r, o, is) == [r EXCEPT !.outcome = o, !.issues = is]

LEMMA AmendedStands ==
  ASSUME NEW r \in Results, NEW o \in Outcomes, NEW is \in SUBSET Issues, ReportStands(r)
  PROVE  /\ Amended(r, o, is) \in Results /\ ReportStands(Amended(r, o, is))
         /\ Amended(r, o, is).model = r.model /\ Amended(r, o, is).draft = r.draft
         /\ Amended(r, o, is).validation = r.validation /\ Amended(r, o, is).issues = is
<1>1. Amended(r, o, is) \in Results
  BY DEF Results, Amended
<1>2. /\ Amended(r, o, is).model = r.model /\ Amended(r, o, is).draft = r.draft
      /\ Amended(r, o, is).validation = r.validation /\ Amended(r, o, is).issues = is
  BY DEF Results, Amended
<1>3. ReportStands(Amended(r, o, is))
  BY <1>2 DEF ReportStands, Validated
<1> QED
  BY <1>1, <1>2, <1>3

\* While the price has not been searched for, a proposal above the budget is
\* looped back through the gate of the budget, unless the loops are used up.
LEMMA BudgetGateOpens ==
  ASSUME NEW r, PlanTyped, Over(r), gates.budget < 2, gates.total < 3, turn < MaxTurns - 2, ~priceAsc
  PROVE  Gate("proposal", r) # "none"
<1> DEFINE Opens(i) == Open(GateOrder[i], "proposal", r)
<1>1. Opens(2)
  BY DEF Open, GateOrder, Over
<1>2. turn \in Nat /\ MaxTurns \in Nat /\ gates.total \in Nat
  BY BoundAssumption DEF BoundAssumption, PlanTyped
<1> HIDE DEF Opens
<1>3. \E i \in 1 .. 5 : Opens(i) /\ \A j \in 1 .. i - 1 : ~Opens(j)
  <2>1. CASE Opens(1)
    <3>1. 1 \in 1 .. 5 /\ 1 .. 1 - 1 = {}
      OBVIOUS
    <3> QED
      BY <2>1, <3>1
  <2>2. CASE ~Opens(1)
    <3>1. 2 \in 1 .. 5 /\ 1 .. 2 - 1 = {1}
      OBVIOUS
    <3> QED
      BY <1>1, <2>2, <3>1
  <2> QED
    BY <2>1, <2>2
<1>4. PICK k \in 1 .. 5 : k = CHOOSE i \in 1 .. 5 : Opens(i) /\ \A j \in 1 .. i - 1 : ~Opens(j)
  BY <1>3
<1>5. Gate("proposal", r) = GateOrder[k]
  <2>1. ~(turn >= MaxTurns - 2 \/ gates.total >= 3 \/ \A i \in 1 .. 5 : ~Opens(i))
    BY <1>1, <1>2
  <2> QED
    BY <2>1, <1>4 DEF Gate, Opens
<1>6. GateOrder[k] \in {"nobudget", "budget", "unknown", "hardreq", "stalled"}
  <2>1. k = 1 \/ k = 2 \/ k = 3 \/ k = 4 \/ k = 5
    BY <1>4
  <2> QED
    BY <2>1 DEF GateOrder
<1> QED
  BY <1>5, <1>6

-----------------------------------------------------------------------------
(* The invariant *)

LEMMA PlanInitially == Init => PlanInv
<1> SUFFICES ASSUME Init PROVE PlanInv
  OBVIOUS
<1>1. PICK d \in {NoDraft} \cup Drafts : result = FirstResult(d)
  BY DEF Init
<1>2. result \in Results /\ ~Validated(result)
  <2>1. FirstResult(d) \in Results
    BY <1>1, NoCheckTyped DEF FirstResult, Results, Outcomes
  <2> QED
    BY <1>1, <2>1 DEF FirstResult, Validated
<1>3. gates \in [{"budget", "unknown", "hardreq", "nobudget", "stalled", "total"} -> Nat]
  BY DEF Init
<1>4. input \in Inputs /\ facts \in 0 .. MaxFacts /\ turn \in Nat /\ phase = "ask"
  BY BoundAssumption DEF BoundAssumption, Init
<1>5. OverrunsArePressed
  BY <1>4 DEF OverrunsArePressed
<1> QED
  BY <1>2, <1>3, <1>4, <1>5 DEF PlanInv, PlanTyped, ReportStands

\* A decision above the budget went through the search for a better price.
Pressed(r) ==
  /\ r.model \in {"ready", "proposal"} /\ ~input.free /\ Over(r) /\ turn < MaxTurns
  => \/ {"exhausted", "no replacement", "completed"} \cap r.issues # {}
     \/ gates.unknown >= 2 /\ r.model = "ready" /\ Incomplete(r)

LEMMA DeliveryKeeps ==
  ASSUME PlanTyped, NEW r \in Results, ReportStands(r), Pressed(r), Deliver(r),
         UNCHANGED <<input, quotas>>
  PROVE  PlanInv'
<1> DEFINE f == Finalized(r)
<1>1. /\ f \in Results /\ ReportStands(f) /\ ReadyStands(f)
      /\ f.model = r.model /\ f.draft = r.draft /\ f.validation = r.validation
      /\ r.issues \ {"overclaim"} \subseteq f.issues
  BY FinalizedStands DEF PlanTyped
<1>2. /\ result' = f /\ phase' = "done" /\ turn' = turn /\ gates' = gates /\ input' = input
      /\ facts' = facts
  BY DEF Deliver, quotas
<1> HIDE DEF f
<1>3. PlanTyped'
  BY <1>1, <1>2 DEF PlanTyped
<1>4. ReportStands(result)' /\ ReadyStands(result)'
  <2>1. ReportStands(result)'
    BY <1>1, <1>2 DEF ReportStands, Validated
  <2>2. ReadyStands(result)'
    BY <1>1, <1>2 DEF ReadyStands, Passed, Validated, Status
  <2> QED
    BY <2>1, <2>2
<1>5. OverrunsArePressed'
  <2> SUFFICES ASSUME "exhausted" \notin f.issues, turn < MaxTurns, f.model \in {"ready", "proposal"},
                      ~input.free, f.validation # NoCheck, input.budgetMust, f.draft.price = "over"
               PROVE  \/ "no replacement" \in f.issues \/ "completed" \in f.issues
                      \/ gates.unknown >= 2 /\ f.model = "ready" /\ Incomplete(f)
    BY <1>2 DEF OverrunsArePressed, Incomplete, Validated, Status
  <2>1. Over(r) /\ (Incomplete(r) <=> Incomplete(f))
    BY <1>1 DEF Over, Incomplete, Validated, Status
  <2>2. \/ {"exhausted", "no replacement", "completed"} \cap r.issues # {}
        \/ gates.unknown >= 2 /\ r.model = "ready" /\ Incomplete(r)
    BY <1>1, <2>1 DEF Pressed
  <2>3. \A i \in {"exhausted", "no replacement", "completed"} : i \in r.issues => i \in f.issues
    BY <1>1
  <2> QED
    BY <1>1, <2>1, <2>2, <2>3
<1> QED
  BY <1>2, <1>3, <1>4, <1>5 DEF PlanInv

\* The repairs work on the result they are given, and the price is found, or
\* said not to be found, or was not to be looked for.
LEMMA RepairKeeps ==
  ASSUME PlanTyped, NEW r \in Results, ReportStands(r), NEW o \in Outcomes, r.model = o,
         NEW g, Gate(o, g) = "none", Over(r) => Over(g), Repair(o, r), UNCHANGED <<input, quotas>>
  PROVE  PlanInv'
<1>0. facts \in 0 .. MaxFacts
  BY DEF PlanTyped
<1>1. PICK completed \in IF UnknownFixDue(o, r) THEN UnknownFixes(r) ELSE {r} :
        /\ UnknownFixDue(o, r) \/ BudgetFixDue(o, completed)
        /\ \E priced \in IF BudgetFixDue(o, completed) THEN BudgetFixes(completed) ELSE {completed} :
             Deliver(priced)
  BY DEF Repair
<1>2. PICK priced \in IF BudgetFixDue(o, completed) THEN BudgetFixes(completed) ELSE {completed} :
        Deliver(priced)
  BY <1>1
<1>3. ASSUME NEW q \in Results, NEW d \in Repairable, NEW is, is \subseteq Issues
      PROVE  /\ Amended(Evaluated(q, d), "proposal", is) \in Results
             /\ ReportStands(Amended(Evaluated(q, d), "proposal", is))
             /\ Amended(Evaluated(q, d), "proposal", is).model = q.model
             /\ Amended(Evaluated(q, d), "proposal", is).draft = d
             /\ Amended(Evaluated(q, d), "proposal", is).issues = is
  <2>1. d \in Drafts /\ "proposal" \in Outcomes
    BY DEF Repairable, Outcomes
  <2>2. /\ Evaluated(q, d) \in Results /\ ReportStands(Evaluated(q, d))
        /\ Evaluated(q, d).model = q.model /\ Evaluated(q, d).draft = d
    BY <1>0, <2>1, EvaluatedStands
  <2> QED
    BY <1>3, <2>1, <2>2, AmendedStands
<1>4. /\ completed \in Results /\ ReportStands(completed) /\ completed.model = o
      /\ completed = r \/ "completed" \in completed.issues
  <2>1. CASE completed = r
    BY <2>1
  <2>2. ASSUME NEW d \in Repairable,
               completed = Amended(Evaluated(r, d), "proposal",
                                   Evaluated(r, d).issues \cup {"completed"})
        PROVE  /\ completed \in Results /\ ReportStands(completed) /\ completed.model = o
               /\ "completed" \in completed.issues
    <3>1. Evaluated(r, d).issues \subseteq Issues
      BY <1>0, EvaluatedStands DEF Repairable, Results
    <3>2. "completed" \in Issues
      BY DEF Issues
    <3> QED
      BY <1>3, <2>2, <3>1, <3>2
  <2>3. \/ completed = r
        \/ \E d \in Repairable :
             completed = Amended(Evaluated(r, d), "proposal",
                                 Evaluated(r, d).issues \cup {"completed"})
    <3>1. CASE completed = r
      BY <3>1
    <3>2. CASE completed # r
      <4>1. completed \in UnknownFixes(r)
        BY <1>1, <3>2
      <4>2. PICK d \in Repairable \ {r.draft} :
              completed = [Evaluated(r, d) EXCEPT !.outcome = "proposal", !.issues = @ \cup {"completed"}]
        BY <3>2, <4>1 DEF UnknownFixes
      <4> QED
        BY <4>2 DEF Amended
    <3> QED
      BY <3>1, <3>2
  <2> QED
    BY <2>1, <2>2, <2>3
<1>5. CASE BudgetFixDue(o, completed)
  <2>1. /\ priced \in Results /\ ReportStands(priced)
        /\ "no replacement" \in priced.issues \/ priced.draft.price # "over"
    <3>1. CASE priced = Amended(completed, "proposal", completed.issues \cup {"no replacement"})
      <4>1. completed.issues \cup {"no replacement"} \subseteq Issues /\ "proposal" \in Outcomes
        <5>1. completed.issues \subseteq Issues
          BY <1>4 DEF Results
        <5> QED
          BY <5>1 DEF Issues, Outcomes
      <4>2. /\ priced \in Results /\ ReportStands(priced)
            /\ priced.issues = completed.issues \cup {"no replacement"}
        <5>1. PICK is \in SUBSET Issues : is = completed.issues \cup {"no replacement"}
          BY <4>1
        <5>3. completed \in Results /\ ReportStands(completed) /\ "proposal" \in Outcomes
          BY <1>4, <4>1
        <5>2. /\ Amended(completed, "proposal", is) \in Results
              /\ ReportStands(Amended(completed, "proposal", is))
              /\ Amended(completed, "proposal", is).issues = is
          BY <5>1, <5>3, AmendedStands, ZenonT(60)
        <5> QED
          BY <3>1, <5>1, <5>2
      <4> QED
        BY <4>2
    <3>2. ASSUME NEW d \in Repairable, d.price # "over",
                 priced = Amended(Evaluated(completed, d), "proposal",
                                  (Evaluated(completed, d).issues \ {"overclaim"}) \cup {"replaced"})
          PROVE  priced \in Results /\ ReportStands(priced) /\ priced.draft.price # "over"
      <4>1. Evaluated(completed, d).issues \subseteq Issues
        BY <1>0, <1>4, EvaluatedStands DEF Repairable, Results
      <4>2. (Evaluated(completed, d).issues \ {"overclaim"}) \cup {"replaced"} \subseteq Issues
        BY <4>1 DEF Issues
      <4> QED
        BY <1>3, <1>4, <3>2, <4>2
    <3>3. \/ priced = Amended(completed, "proposal", completed.issues \cup {"no replacement"})
          \/ \E d \in Repairable :
               /\ d.price # "over"
               /\ priced = Amended(Evaluated(completed, d), "proposal",
                                   (Evaluated(completed, d).issues \ {"overclaim"}) \cup {"replaced"})
      BY <1>2, <1>5 DEF BudgetFixes, Amended
    <3> QED
      BY <3>1, <3>2, <3>3
  <2>2. Pressed(priced)
    BY <2>1 DEF Pressed, Over
  <2> QED
    BY <1>2, <2>1, <2>2, DeliveryKeeps
<1>6. CASE ~BudgetFixDue(o, completed)
  <2>1. priced = completed /\ UnknownFixDue(o, r)
    BY <1>1, <1>2, <1>6
  <2>2. ASSUME completed = r, o \in {"ready", "proposal"}, ~input.free, Over(r)
        PROVE  gates.unknown >= 2 /\ o = "ready" /\ Incomplete(r)
    <3>1. gates.budget \in Nat /\ gates.total \in Nat /\ gates.unknown \in Nat /\ turn \in Nat
      BY DEF PlanTyped
    <3>2. ~(turn >= MaxTurns - 2 \/ gates.budget >= 2 \/ gates.total >= 3 \/ priceAsc)
      BY <1>6, <2>2 DEF BudgetFixDue, Decided
    <3>3. gates.unknown >= 2 /\ Incomplete(r)
      BY <2>1, <3>2 DEF UnknownFixDue
    <3>4. turn < MaxTurns - 2 /\ gates.budget < 2 /\ gates.total < 3 /\ ~priceAsc
      BY <3>1, <3>2, BoundAssumption DEF BoundAssumption
    <3>5. o # "proposal"
      BY <2>2, <3>4, BudgetGateOpens
    <3> QED
      BY <2>2, <3>3, <3>5
  <2>3. Pressed(priced)
    BY <1>4, <2>1, <2>2 DEF Pressed
  <2> QED
    BY <1>2, <1>4, <2>1, <2>3, DeliveryKeeps
<1> QED
  BY <1>5, <1>6

\* A decision as it is told, as it is evaluated, and as the gates leave it.
Told(o, claims, met) == [result EXCEPT !.outcome = o, !.model = o, !.issues = claims, !.met = met]
Shown(o, d, claims, met) ==
  IF d = NoDraft THEN Told(o, claims, met) ELSE Evaluated(Told(o, claims, met), d)
Taken(o, d, claims, met, gate) == AfterGates(o, Shown(o, d, claims, met), gate)

LEMMA ToldStands ==
  ASSUME PlanInv, NEW o \in Outcomes, NEW d \in {NoDraft} \cup Drafts, NEW claims \in Claims,
         NEW met \in BOOLEAN, NEW gate
  PROVE  /\ Taken(o, d, claims, met, gate) \in Results /\ ReportStands(Taken(o, d, claims, met, gate))
         /\ Taken(o, d, claims, met, gate).model = o
         /\ Over(Taken(o, d, claims, met, gate)) => Over(Shown(o, d, claims, met))
<1> DEFINE told  == Told(o, claims, met)
           shown == Shown(o, d, claims, met)
           r     == Taken(o, d, claims, met, gate)
<1>1. facts \in 0 .. MaxFacts /\ result \in Results /\ ReportStands(result)
  BY DEF PlanInv, PlanTyped
<1>2. told \in Results /\ told.model = o /\ ReportStands(told)
  <2>1. claims \in SUBSET Issues
    BY DEF Issues
  <2>2. told \in Results
    BY <1>1, <2>1 DEF Results, Told
  <2>3. told.model = o /\ told.draft = result.draft /\ told.validation = result.validation
    BY <1>1 DEF Results, Told
  <2> HIDE DEF told
  <2>4. ReportStands(told)
    BY <1>1, <2>3 DEF ReportStands, Validated
  <2> QED
    BY <2>2, <2>3, <2>4
<1> HIDE DEF told
<1>3. shown \in Results /\ shown.model = o /\ ReportStands(shown)
  <2>1. CASE d = NoDraft
    BY <1>2, <2>1 DEF Shown, told
  <2>2. CASE d # NoDraft
    <3>1. d \in Drafts /\ shown = Evaluated(told, d)
      BY <2>2 DEF Shown, told
    <3> HIDE DEF shown
    <3> QED
      BY <1>1, <1>2, <3>1, EvaluatedStands
  <2> QED
    BY <2>1, <2>2
<1> HIDE DEF shown
<1>4. CASE r = shown
  BY <1>3, <1>4 DEF shown
<1>5. CASE r = [shown EXCEPT !.issues = shown.issues \ Overclaims(shown)]
  <2>1. shown.issues \ Overclaims(shown) \in SUBSET Issues
    BY <1>3 DEF Results
  <2>2. r \in Results
    BY <1>3, <1>5, <2>1 DEF Results
  <2>3. r.model = o /\ r.draft = shown.draft /\ r.validation = shown.validation
    BY <1>3, <1>5 DEF Results
  <2> HIDE DEF r
  <2>4. ReportStands(r) /\ (Over(r) => Over(shown))
    BY <1>3, <2>3 DEF ReportStands, Validated, Over
  <2> QED
    BY <2>2, <2>3, <2>4 DEF shown, r
<1>6. r = shown \/ r = [shown EXCEPT !.issues = shown.issues \ Overclaims(shown)]
  BY DEF AfterGates, Taken, shown
<1> QED
  BY <1>4, <1>5, <1>6

LEMMA FinalKeeps ==
  ASSUME PlanInv, NEW o \in Outcomes, NEW d \in {NoDraft} \cup Drafts, NEW claims \in Claims,
         NEW met \in BOOLEAN, Final(o, d, claims, met)
  PROVE  PlanInv'
<1> DEFINE shown == Shown(o, d, claims, met)
           gate  == Gate(o, shown)
           r     == Taken(o, d, claims, met, gate)
<1>1. r \in Results /\ ReportStands(r) /\ r.model = o /\ (Over(r) => Over(shown))
  BY ToldStands
<1>2. /\ phase = "ask" /\ turn < MaxTurns /\ UNCHANGED <<input, quotas>>
      /\ \/ gate # "none" /\ LoopBack(gate, r)
         \/ gate = "none" /\ Repair(o, r)
         \/ gate = "none" /\ Review(o, claims, r)
         \/ gate = "none" /\ Settled(o, r) /\ ~Reviewable(o, claims, r) /\ Deliver(r)
  BY DEF Final, Told, Shown, Taken
<1> HIDE DEF shown, gate, r
<1>3. PlanTyped /\ facts' = facts /\ input' = input
  BY <1>2 DEF PlanInv, quotas
<1>4. CASE AskAgain(r) /\ gates' \in [{"budget", "unknown", "hardreq", "nobudget", "stalled", "total"} -> Nat]
  <2>1. result' = r /\ turn' = turn + 1 /\ phase' = "ask"
    BY <1>2, <1>4 DEF AskAgain
  <2>2. PlanTyped'
    BY <1>1, <1>3, <1>4, <2>1 DEF PlanTyped
  <2>3. ReportStands(result)'
    BY <1>1, <1>3, <2>1 DEF ReportStands, Validated
  <2> QED
    BY <2>1, <2>2, <2>3 DEF PlanInv, OverrunsArePressed
<1>5. CASE LoopBack(gate, r)
  <2>1. gates' = [gates EXCEPT ![gate] = gates[gate] + 1, !.total = gates.total + 1] /\ AskAgain(r)
    BY <1>5 DEF LoopBack
  <2>2. gates' \in [{"budget", "unknown", "hardreq", "nobudget", "stalled", "total"} -> Nat]
    <3> DEFINE Counters == {"budget", "unknown", "hardreq", "nobudget", "stalled", "total"}
    <3>1. gates \in [Counters -> Nat]
      BY <1>3 DEF PlanTyped
    <3>2. DOMAIN gates' = Counters /\ gates' = [x \in Counters |-> gates'[x]]
      BY <2>1, <3>1
    <3>3. ASSUME NEW x \in Counters PROVE gates'[x] \in Nat
      <4>1. gates[x] \in Nat /\ gates.total \in Nat
        BY <3>1
      <4>2. gates'[x] \in {gates[x], gates[x] + 1, gates.total + 1}
        BY <2>1, <3>1
      <4> QED
        BY <4>1, <4>2
    <3> HIDE DEF Counters
    <3>4. gates' \in [Counters -> Nat]
      BY <3>2, <3>3
    <3> QED
      BY <3>4 DEF Counters
  <2> QED
    BY <1>4, <2>1, <2>2
<1>6. CASE Review(o, claims, r)
  BY <1>3, <1>4, <1>6 DEF Review, PlanTyped
<1>7. CASE gate = "none" /\ Repair(o, r)
  <2>1. Gate(o, shown) = "none"
    BY <1>7 DEF gate
  <2> QED
    BY <1>1, <1>2, <1>3, <1>7, <2>1, RepairKeeps
<1>8. CASE gate = "none" /\ Settled(o, r) /\ ~Reviewable(o, claims, r) /\ Deliver(r)
  <2>1. ASSUME o \in {"ready", "proposal"}, ~input.free, Over(r), turn < MaxTurns PROVE FALSE
    <3>1. gates.budget \in Nat /\ gates.total \in Nat /\ turn \in Nat /\ MaxTurns \in Nat
      BY <1>3, BoundAssumption DEF BoundAssumption, PlanTyped
    <3>2. ~(turn >= MaxTurns - 2 \/ gates.budget >= 2 \/ gates.total >= 3 \/ priceAsc)
      BY <1>8, <2>1 DEF Settled, BudgetFixDue, Decided
    <3>3. turn < MaxTurns - 2 /\ gates.budget < 2 /\ gates.total < 3 /\ ~priceAsc
      BY <3>1, <3>2
    <3>4. o # "proposal"
      BY <1>1, <1>3, <1>8, <2>1, <3>3, BudgetGateOpens DEF gate
    <3>5. Finalized(r).outcome # "ready"
      <4>1. /\ Finalized(r).draft = r.draft /\ ReadyStands(Finalized(r))
        BY <1>1, <1>3, FinalizedStands DEF PlanTyped
      <4> QED
        BY <2>1, <4>1 DEF ReadyStands, Over
    <3>6. turn < MaxTurns - 1
      BY <3>1, <3>3
    <3> QED
      BY <1>8, <2>1, <3>4, <3>5, <3>6 DEF Reviewable
  <2>2. Pressed(r)
    BY <1>1, <2>1 DEF Pressed
  <2> QED
    BY <1>1, <1>2, <1>3, <1>8, <2>2, DeliveryKeeps
<1> QED
  BY <1>2, <1>5, <1>6, <1>7, <1>8

\* A call may change the facts or the report, never one under the other.
LEMMA CallKeeps ==
  ASSUME PlanInv, NEW c \in Calls, NEW same \in BOOLEAN, Call(c, same)
  PROVE  PlanInv'
<1>1. /\ PlanTyped /\ ReportStands(result) /\ phase' = "calls"
      /\ UNCHANGED <<input, turn, gates>>
  BY DEF PlanInv, Call
<1>2. UNCHANGED <<facts, result>> \/ Perform(c)
  BY DEF Call, quotas
<1>3. /\ facts \in 0 .. MaxFacts /\ MaxFacts \in Nat /\ result \in Results
  BY <1>1, BoundAssumption DEF BoundAssumption, PlanTyped
<1>4. facts' \in 0 .. MaxFacts /\ result' \in Results /\ ReportStands(result)'
  <2>1. CASE UNCHANGED <<facts, result>>
    BY <1>1, <1>3, <2>1 DEF ReportStands
  <2>2. CASE Perform(c) /\ c.action = "evaluate"
    <3>1. c.draft \in Drafts
      BY <2>2 DEF Calls
    <3>2. facts' = facts /\ result' = Evaluated(result, c.draft)
      BY <2>2 DEF Perform, FactsChange
    <3>3. Evaluated(result, c.draft) \in Results /\ ReportStands(Evaluated(result, c.draft))
      BY <1>3, <3>1, EvaluatedStands
    <3> QED
      BY <1>3, <3>2, <3>3 DEF ReportStands
  <2>3. CASE Perform(c) /\ c.action = "supplement" /\ FactsChange(c)
    <3>1. facts' = facts + 1 /\ facts < MaxFacts /\ result' = Supplemented(result)
      BY <2>3 DEF Perform, FactsChange
    <3>2. Supplemented(result) \in Results /\ ~Validated(Supplemented(result))
      <4>1. CASE result.draft # NoDraft /\ result.draft.kind # "malformed"
        <5>1. Supplemented(result) = [result EXCEPT !.validation = NoCheck]
          BY <4>1 DEF Supplemented
        <5> QED
          BY <1>3, <5>1, NoCheckTyped DEF Results, Validated
      <4>2. CASE ~(result.draft # NoDraft /\ result.draft.kind # "malformed")
        <5>1. ~Validated(result)
          <6>1. CASE result.draft = NoDraft
            BY <1>1, <6>1, DraftFacts DEF ReportStands
          <6>2. CASE result.draft.kind = "malformed"
            BY <1>1, <6>2 DEF ReportStands, IsWhole
          <6> QED
            BY <4>2, <6>1, <6>2
        <5> QED
          BY <1>3, <4>2, <5>1 DEF Supplemented
      <4> QED
        BY <4>1, <4>2
    <3>3. facts' \in 0 .. MaxFacts
      BY <1>3, <3>1
    <3> QED
      BY <3>1, <3>2, <3>3 DEF ReportStands, Validated
  <2>4. CASE Perform(c) /\ c.action = "register" /\ FactsChange(c)
    <3>1. /\ facts' = facts + 1 /\ facts < MaxFacts /\ result' = result /\ result.draft.external
      BY <2>4 DEF Perform, FactsChange
    <3>2. facts' \in 0 .. MaxFacts /\ 0 .. facts \subseteq 0 .. facts'
      BY <1>3, <3>1
    <3> QED
      BY <1>1, <1>3, <3>1, <3>2 DEF ReportStands
  <2>5. CASE Perform(c) /\ c.action # "evaluate" /\ ~FactsChange(c)
    <3>1. facts' = facts /\ result' = result
      BY <2>5 DEF Perform
    <3> QED
      BY <1>1, <1>3, <3>1 DEF ReportStands
  <2> QED
    BY <1>2, <2>1, <2>2, <2>3, <2>4, <2>5 DEF FactsChange
<1> QED
  BY <1>1, <1>4 DEF PlanInv, PlanTyped, OverrunsArePressed

LEMMA PlanInductive == PlanInv /\ [Next]_vars => PlanInv'
<1> SUFFICES ASSUME PlanInv, [Next]_vars PROVE PlanInv'
  OBVIOUS
<1>0. /\ PlanTyped /\ ReportStands(result)
      /\ facts \in 0 .. MaxFacts /\ result \in Results /\ input \in Inputs
  BY DEF PlanInv, PlanTyped
<1>1. ASSUME NEW c \in Calls, NEW same \in BOOLEAN, Call(c, same) PROVE PlanInv'
  BY <1>1, CallKeeps
<1>2. CASE EndCalls \/ InvalidFinal \/ Abort
  <2>1. /\ phase' \in {"ask", "aborted"} /\ turn' \in {turn, turn + 1}
        /\ UNCHANGED <<input, facts, gates, result>>
    BY <1>2 DEF EndCalls, InvalidFinal, Abort, quotas
  <2>2. PlanTyped'
    BY <1>0, <2>1 DEF PlanTyped
  <2> QED
    BY <1>0, <2>1, <2>2 DEF PlanInv, ReportStands, OverrunsArePressed
<1>3. ASSUME NEW o \in Outcomes, NEW d \in {NoDraft} \cup Drafts, NEW claims \in Claims,
             NEW met \in Meets, Final(o, d, claims, met)
      PROVE  PlanInv'
  <2>1. met \in BOOLEAN
    BY DEF Meets
  <2> QED
    BY <1>3, <2>1, FinalKeeps
<1>4. CASE Exhaust
  <2> DEFINE r == IF Passed(result) /\ result.issues = {} THEN result
                  ELSE [result EXCEPT !.issues = result.issues \cup {"exhausted"}]
  <2>1. Deliver(r) /\ turn = MaxTurns /\ UNCHANGED <<input, quotas>>
    BY <1>4 DEF Exhaust
  <2>2. r \in Results /\ ReportStands(r)
    <3>1. result.issues \cup {"exhausted"} \in SUBSET Issues
      <4>1. result.issues \subseteq Issues
        BY <1>0 DEF Results
      <4> QED
        BY <4>1 DEF Issues
    <3> DEFINE s == [result EXCEPT !.issues = result.issues \cup {"exhausted"}]
    <3>2. s \in Results
      BY <1>0, <3>1 DEF Results
    <3>3. s.draft = result.draft /\ s.validation = result.validation
      BY <1>0 DEF Results
    <3> HIDE DEF s
    <3>4. ReportStands(s)
      BY <1>0, <3>3 DEF ReportStands, Validated
    <3> QED
      BY <1>0, <3>2, <3>4 DEF s
  <2>3. ~(turn < MaxTurns)
    BY <2>1, BoundAssumption DEF BoundAssumption
  <2> HIDE DEF r
  <2>4. Pressed(r)
    BY <2>3 DEF Pressed
  <2> QED
    BY <1>0, <2>1, <2>2, <2>4, DeliveryKeeps
<1>5. CASE Complete
  <2>1. /\ phase = "done" /\ result.outcome = "ready" /\ phase' = "completed"
        /\ UNCHANGED <<input, turn, facts, gates>>
        /\ \/ Reproducible(result) /\ UNCHANGED result
           \/ result' = [result EXCEPT !.outcome = "proposal",
                                       !.issues = result.issues \cup {"not reproduced"}]
    BY <1>5 DEF Complete, quotas
  <2>2. ReadyStands(result)
    BY <2>1 DEF PlanInv
  <2>3. CASE Reproducible(result) /\ UNCHANGED result
    <3>1. PlanTyped'
      BY <1>0, <2>1, <2>3 DEF PlanTyped
    <3>2. ReportStands(result)' /\ ReadyStands(result)'
      BY <1>0, <2>1, <2>2, <2>3 DEF ReportStands, ReadyStands, Passed, Validated, Status
    <3>3. ~result'.draft.external
      BY <2>3 DEF Reproducible
    <3> QED
      BY <2>1, <3>1, <3>2, <3>3 DEF PlanInv, OverrunsArePressed
  <2>4. CASE result' = [result EXCEPT !.outcome = "proposal",
                                      !.issues = result.issues \cup {"not reproduced"}]
    <3>1. result.issues \cup {"not reproduced"} \in SUBSET Issues /\ "proposal" \in Outcomes
      <4>1. result.issues \subseteq Issues
        BY <1>0 DEF Results
      <4> QED
        BY <4>1 DEF Issues, Outcomes
    <3>2. result' = Amended(result, "proposal", result.issues \cup {"not reproduced"})
      BY <2>4 DEF Amended
    <3>3. result' \in Results
      BY <1>0, <2>4, <3>1 DEF Results
    <3>4. /\ result'.draft = result.draft /\ result'.validation = result.validation
          /\ result'.outcome # "ready"
      BY <1>0, <2>4 DEF Results
    <3>5. PlanTyped'
      BY <1>0, <2>1, <3>3 DEF PlanTyped
    <3>6. ReportStands(result)' /\ ReadyStands(result)'
      BY <1>0, <2>1, <3>4 DEF ReportStands, ReadyStands, Validated
    <3> QED
      BY <2>1, <3>4, <3>5, <3>6 DEF PlanInv, OverrunsArePressed
  <2> QED
    BY <2>1, <2>3, <2>4
<1>6. CASE UNCHANGED vars
  BY <1>6 DEF vars, quotas, PlanInv, PlanTyped, ReportStands, ReadyStands, Passed, Validated, Status,
              OverrunsArePressed
<1> QED
  BY <1>1, <1>2, <1>3, <1>4, <1>5, <1>6 DEF Next

\* A build that is saved is the draft that was evaluated last, and it passed
\* every rule with the facts there are at the end (executeOnce of
\* product/planning.go and finalizeResult of planning/assessment.go).
THEOREM SavedBuildsAreVerified == Spec => []ReadyIsVerified
<1>1. PlanInv => ReadyIsVerified
  <2> SUFFICES ASSUME PlanInv, phase = "completed", result.outcome = "ready"
               PROVE  /\ result.validation.draft = result.draft
                      /\ result.draft.checks[facts] = "pass"
                      /\ ~result.draft.pending
                      /\ input.budgetMust => result.draft.price \in {"within", "flex"}
                      /\ input.hardReq => result.met
                      /\ result.issues = {}
    BY DEF ReadyIsVerified
  <2>1. ReadyStands(result) /\ ReportStands(result) /\ ~result.draft.external
    BY DEF PlanInv
  <2>2. Validated(result) /\ Status(result) = "pass"
    BY <2>1 DEF ReadyStands, Passed
  <2>3. result.validation.draft = result.draft /\ result.validation.facts = facts
    BY <2>1, <2>2 DEF ReportStands
  <2>4. result.draft.checks[facts] = "pass"
    BY <2>2, <2>3 DEF Status
  <2> QED
    BY <2>1, <2>3, <2>4 DEF ReadyStands
<1> QED
  BY <1>1, PlanInitially, PlanInductive, PTL DEF Spec

\* A decision that still exceeds the hard budget has been through the search
\* for better prices, with the exceptions the property names (deliveryGate of
\* planning/gates.go, budgetFixDue of planning/budget_solver.go).
THEOREM OverrunsWerePressed == Spec => []OverrunsArePressed
<1>1. PlanInv => OverrunsArePressed
  BY DEF PlanInv
<1> QED
  BY <1>1, PlanInitially, PlanInductive, PTL DEF Spec

-----------------------------------------------------------------------------
(* The compatibility rules *)

Verdicts == {Compat!Pass, Compat!Fail, Compat!Warning}

\* A judged check stays when more fields are known.
Stands(c, d) == c.outcome # "unknown" => d = c

\* An unknown check names fields that are missing.
Asks(c, s) == c.outcome = "unknown" => c.missing # {} /\ c.missing \cap s = {}

\* ... and is judged when they are known.
Suffices(c, d) == c.outcome = "unknown" => d.outcome # "unknown"

LEMMA VerdictsJudge ==
  /\ \A v \in Verdicts : v.outcome # "unknown"
  /\ Compat!Pass \in Verdicts /\ Compat!Fail \in Verdicts /\ Compat!Warning \in Verdicts
  /\ Compat!Pass.outcome = "pass" /\ Compat!Fail.outcome = "fail"
BY DEF Verdicts, Compat!Pass, Compat!Fail, Compat!Warning

LEMMA JudgeStands ==
  ASSUME NEW needs, NEW s, NEW t, NEW v \in Verdicts, s \subseteq t
  PROVE  Stands(Compat!Judge(needs, s, v), Compat!Judge(needs, t, v))
BY VerdictsJudge DEF Stands, Compat!Judge

LEMMA JudgeAsks ==
  ASSUME NEW needs, NEW s, NEW v \in Verdicts
  PROVE  LET c == Compat!Judge(needs, s, v)
         IN  Asks(c, s) /\ Suffices(c, Compat!Judge(needs, s \cup c.missing, v))
BY VerdictsJudge DEF Asks, Suffices, Compat!Judge

\* What each rule says is what the report says of it.
LEMMA Reported ==
  ASSUME NEW b, NEW s
  PROVE  LET report == Compat!Validate(b, s) IN
         /\ report["SOCKET_MATCH"] = Compat!SocketMatch(b, s)
         /\ report["CHIPSET_SUPPORT"] = Compat!ChipsetSupport(b, s)
         /\ report["MEMORY_GENERATION"] = Compat!MemoryGeneration(b, s)
         /\ report["MEMORY_SPEED"] = Compat!MemorySpeed(b, s)
         /\ report["GPU_CLEARANCE"] = Compat!GPUClearance(b, s)
         /\ report["COOLER_CLEARANCE"] = Compat!CoolerClearance(b, s)
         /\ report["PSU_HEADROOM"] = Compat!PSUHeadroom(b, s)
         /\ report["FORM_FACTOR_SUPPORT"] = Compat!FormFactorSupport(b, s)
         /\ report["M2_SLOT_CAPACITY"] = Compat!M2SlotCapacity(b, s)
         /\ report["GPU_POWER_CONNECTORS"] = Compat!GPUPowerConnectors(b, s)
         /\ report["DISPLAY_OUTPUT"] = Compat!DisplayOutput(b, s)
         /\ report["COOLER_THERMAL_CAPACITY"] = Compat!CoolerThermalCapacity(b, s)
BY DEF Compat!Validate, Compat!Rules

\* The rules that compare a fixed set of fields, or none: such a rule is a
\* judgment whose verdict does not depend on what is known.
Fixed == Compat!Rules \ {"COOLER_CLEARANCE", "FORM_FACTOR_SUPPORT"}

LEMMA FixedRulesJudge ==
  ASSUME NEW b, NEW r \in Fixed
  PROVE  \E needs, v : /\ v \in Verdicts
                       /\ \A s : Compat!Validate(b, s)[r] = Compat!Judge(needs, s, v)
<1>0. \A s : Compat!Judge({}, s, Compat!Pass) = Compat!Pass
  BY DEF Compat!Judge
<1>1. CASE r = "SOCKET_MATCH"
  BY <1>1, Reported, VerdictsJudge DEF Compat!SocketMatch, Compat!Equal, Compat!Fits
<1>2. CASE r = "CHIPSET_SUPPORT"
  BY <1>2, Reported, VerdictsJudge DEF Compat!ChipsetSupport, Compat!Among, Compat!Fits
<1>3. CASE r = "MEMORY_GENERATION"
  BY <1>3, Reported, VerdictsJudge DEF Compat!MemoryGeneration, Compat!Equal, Compat!Fits
<1>4. CASE r = "MEMORY_SPEED"
  BY <1>4, Reported, VerdictsJudge DEF Compat!MemorySpeed
<1>5. CASE r = "GPU_CLEARANCE"
  <2>1. CASE ~b.gpu
    <3>1. \A s : Compat!Validate(b, s)[r] = Compat!Pass
      BY <1>5, <2>1, Reported DEF Compat!GPUClearance
    <3> QED
      BY <1>0, <3>1, VerdictsJudge
  <2>2. CASE b.gpu
    BY <1>5, <2>2, Reported, VerdictsJudge DEF Compat!GPUClearance, Compat!AtMost, Compat!Fits
  <2> QED
    BY <2>1, <2>2
<1>6. CASE r = "PSU_HEADROOM"
  BY <1>6, Reported, VerdictsJudge DEF Compat!PSUHeadroom
<1>7. CASE r = "M2_SLOT_CAPACITY"
  BY <1>7, Reported, VerdictsJudge DEF Compat!M2SlotCapacity, Compat!Fits
<1>8. CASE r = "GPU_POWER_CONNECTORS"
  <2>1. CASE ~b.gpu
    <3>1. \A s : Compat!Validate(b, s)[r] = Compat!Pass
      BY <1>8, <2>1, Reported DEF Compat!GPUPowerConnectors
    <3> QED
      BY <1>0, <3>1, VerdictsJudge
  <2>2. CASE b.gpu
    <3> DEFINE v == Compat!Fits(\A kind \in {"pcie_8pin", "pcie_16pin"} :
                      Compat!Spec(b, "gpu.power_connectors")[kind]
                        <= Compat!Spec(b, "psu.power_connectors")[kind])
    <3>1. v \in Verdicts
      BY VerdictsJudge DEF Compat!Fits
    <3>2. \A s : Compat!Validate(b, s)[r]
                   = Compat!Judge({"gpu.power_connectors", "psu.power_connectors"}, s, v)
      BY <1>8, <2>2, Reported, Zenon DEF Compat!GPUPowerConnectors
    <3> HIDE DEF v
    <3> QED
      BY <3>1, <3>2
  <2> QED
    BY <2>1, <2>2
<1>9. CASE r = "DISPLAY_OUTPUT"
  <2>1. CASE b.gpu
    <3>1. \A s : Compat!Validate(b, s)[r] = Compat!Pass
      BY <1>9, <2>1, Reported DEF Compat!DisplayOutput
    <3> QED
      BY <1>0, <3>1, VerdictsJudge
  <2>2. CASE ~b.gpu
    BY <1>9, <2>2, Reported, VerdictsJudge DEF Compat!DisplayOutput, Compat!Fits
  <2> QED
    BY <2>1, <2>2
<1>10. CASE r = "COOLER_THERMAL_CAPACITY"
  BY <1>10, Reported, VerdictsJudge DEF Compat!CoolerThermalCapacity
<1> QED
  BY <1>1, <1>2, <1>3, <1>4, <1>5, <1>6, <1>7, <1>8, <1>9, <1>10 DEF Fixed, Compat!Rules

LEMMA CoolerStands ==
  ASSUME NEW b, b.spec["cooler.type"] \in {"air", "aio"}, NEW s, NEW t, s \subseteq t
  PROVE  Stands(Compat!CoolerClearance(b, s), Compat!CoolerClearance(b, t))
<1> DEFINE c == Compat!CoolerClearance(b, s)
           d == Compat!CoolerClearance(b, t)
           tall == Compat!AtMost(b, "cooler.height_mm", "case.cooler_height_max_mm")
           wide == Compat!Among(b, "cooler.radiator_size_mm", "case.radiator_sizes_mm")
<1>1. tall \in Verdicts /\ wide \in Verdicts
  BY VerdictsJudge DEF Compat!AtMost, Compat!Among, Compat!Fits
<1>2. CASE "cooler.type" \notin s
  BY <1>2 DEF Stands, Compat!CoolerClearance, Compat!Judge
<1>3. CASE "cooler.type" \in s /\ b.spec["cooler.type"] = "air"
  <2>1. /\ c = Compat!Judge({"cooler.height_mm", "case.cooler_height_max_mm"}, s, tall)
        /\ d = Compat!Judge({"cooler.height_mm", "case.cooler_height_max_mm"}, t, tall)
    BY <1>3 DEF Compat!CoolerClearance, Compat!Spec
  <2> QED
    BY <1>1, <2>1, JudgeStands
<1>4. CASE "cooler.type" \in s /\ b.spec["cooler.type"] = "aio"
  <2>1. /\ c = Compat!Judge({"cooler.radiator_size_mm", "case.radiator_sizes_mm"}, s, wide)
        /\ d = Compat!Judge({"cooler.radiator_size_mm", "case.radiator_sizes_mm"}, t, wide)
    BY <1>4 DEF Compat!CoolerClearance, Compat!Spec
  <2> QED
    BY <1>1, <2>1, JudgeStands
<1> QED
  BY <1>2, <1>3, <1>4

LEMMA CoolerAsks ==
  ASSUME NEW b, b.spec["cooler.type"] \in {"air", "aio"}, NEW s
  PROVE  LET c == Compat!CoolerClearance(b, s) IN
         /\ Asks(c, s)
         /\ \/ Suffices(c, Compat!CoolerClearance(b, s \cup c.missing))
            \/ "cooler.type" \in c.missing
<1> DEFINE c == Compat!CoolerClearance(b, s)
           d == Compat!CoolerClearance(b, s \cup c.missing)
           tall == Compat!AtMost(b, "cooler.height_mm", "case.cooler_height_max_mm")
           wide == Compat!Among(b, "cooler.radiator_size_mm", "case.radiator_sizes_mm")
<1>1. tall \in Verdicts /\ wide \in Verdicts
  BY VerdictsJudge DEF Compat!AtMost, Compat!Among, Compat!Fits
<1>2. CASE "cooler.type" \notin s
  BY <1>2 DEF Asks, Compat!CoolerClearance, Compat!Judge
<1>3. CASE "cooler.type" \in s /\ b.spec["cooler.type"] = "air"
  <2>1. /\ c = Compat!Judge({"cooler.height_mm", "case.cooler_height_max_mm"}, s, tall)
        /\ d = Compat!Judge({"cooler.height_mm", "case.cooler_height_max_mm"}, s \cup c.missing, tall)
    BY <1>3 DEF Compat!CoolerClearance, Compat!Spec
  <2> QED
    BY <1>1, <2>1, JudgeAsks
<1>4. CASE "cooler.type" \in s /\ b.spec["cooler.type"] = "aio"
  <2>1. /\ c = Compat!Judge({"cooler.radiator_size_mm", "case.radiator_sizes_mm"}, s, wide)
        /\ d = Compat!Judge({"cooler.radiator_size_mm", "case.radiator_sizes_mm"}, s \cup c.missing, wide)
    BY <1>4 DEF Compat!CoolerClearance, Compat!Spec
  <2> QED
    BY <1>1, <2>1, JudgeAsks
<1> QED
  BY <1>2, <1>3, <1>4

BayFields == {"psu.form_factor", "case.supported_psu_form_factors",
              "psu.length_mm", "case.psu_length_max_mm"}
BoardFields == {"motherboard.form_factor", "case.supported_form_factors"}
Bay == "case.supported_psu_form_factors"

\* The supply misfits a bay the case declares, by form or by length.
Misfit(b, s) ==
  \/ /\ {"psu.form_factor", "case.supported_psu_form_factors"} \subseteq s
     /\ ~(b.spec["psu.form_factor"] \in b.spec["case.supported_psu_form_factors"])
  \/ /\ {"psu.length_mm", "case.psu_length_max_mm"} \subseteq s
     /\ ~(b.spec["psu.length_mm"] <= b.spec["case.psu_length_max_mm"])

LEMMA BayFits ==
  ASSUME NEW b, NEW s
  PROVE  Compat!PSUBayFit(b, s) =
           IF Misfit(b, s) THEN Compat!Fail ELSE Compat!Judge(BayFields, s, Compat!Pass)
BY DEF Compat!PSUBayFit, Misfit, BayFields, Compat!Spec

LEMMA MisfitStands ==
  ASSUME NEW b, NEW s, NEW t, s \subseteq t
  PROVE  /\ Misfit(b, s) => Misfit(b, t)
         /\ BayFields \subseteq s => (Misfit(b, t) <=> Misfit(b, s))
BY DEF Misfit, BayFields

Tight(b, s) == ~(b.spec["case.supported_form_factors"] # {"itx"} /\ ~(Bay \in s /\ b.spec[Bay] # {}))

LEMMA BoardFits ==
  ASSUME NEW b, NEW s
  PROVE  Compat!FormFactorSupport(b, s) =
           IF ~(BoardFields \subseteq s) THEN Compat!Judge(BoardFields, s, Compat!Pass)
           ELSE IF b.spec["motherboard.form_factor"] \notin b.spec["case.supported_form_factors"]
           THEN Compat!Fail
           ELSE IF ~Tight(b, s) THEN Compat!Pass ELSE Compat!PSUBayFit(b, s)
BY DEF Compat!FormFactorSupport, BoardFields, Tight, Bay, Compat!Spec

LEMMA BayStands ==
  ASSUME NEW b, NEW s, NEW t, s \subseteq t
  PROVE  Stands(Compat!PSUBayFit(b, s), Compat!PSUBayFit(b, t))
<1>1. CASE Misfit(b, s)
  BY <1>1, BayFits, MisfitStands DEF Stands
<1>2. CASE ~Misfit(b, s) /\ BayFields \subseteq s
  BY <1>2, BayFits, MisfitStands DEF Stands, Compat!Judge
<1>3. CASE ~Misfit(b, s) /\ ~(BayFields \subseteq s)
  BY <1>3, BayFits DEF Stands, Compat!Judge
<1> QED
  BY <1>1, <1>2, <1>3

LEMMA FormFactorStands ==
  ASSUME NEW b, NEW s, NEW t, s \subseteq t
  PROVE  LET c == Compat!FormFactorSupport(b, s) IN
         \/ Stands(c, Compat!FormFactorSupport(b, t))
         \/ c = Compat!Pass /\ Bay \in t \ s
<1>1. CASE ~(BoardFields \subseteq s)
  BY <1>1, BoardFits DEF Stands, Compat!Judge
<1>2. CASE /\ BoardFields \subseteq s
           /\ b.spec["motherboard.form_factor"] \notin b.spec["case.supported_form_factors"]
  BY <1>2, BoardFits DEF Stands
<1>3. CASE /\ BoardFields \subseteq s /\ Tight(b, s)
           /\ b.spec["motherboard.form_factor"] \in b.spec["case.supported_form_factors"]
  <2>1. Tight(b, t) /\ BoardFields \subseteq t
    BY <1>3 DEF Tight
  <2> QED
    BY <1>3, <2>1, BoardFits, BayStands
<1>4. CASE /\ BoardFields \subseteq s /\ ~Tight(b, s)
           /\ b.spec["motherboard.form_factor"] \in b.spec["case.supported_form_factors"]
  <2>1. Compat!FormFactorSupport(b, s) = Compat!Pass /\ BoardFields \subseteq t
    BY <1>4, BoardFits
  <2>2. ~Tight(b, t) \/ Bay \in t \ s
    BY <1>4 DEF Tight
  <2> QED
    BY <1>4, <2>1, <2>2, BoardFits DEF Stands
<1> QED
  BY <1>1, <1>2, <1>3, <1>4

LEMMA FormFactorAsks ==
  ASSUME NEW b, NEW s
  PROVE  LET c == Compat!FormFactorSupport(b, s) IN
         /\ Asks(c, s)
         /\ \/ Suffices(c, Compat!FormFactorSupport(b, s \cup c.missing))
            \/ c.missing \cap BoardFields # {}
<1> DEFINE c == Compat!FormFactorSupport(b, s)
           t == s \cup c.missing
<1>1. CASE ~(BoardFields \subseteq s)
  BY <1>1, BoardFits DEF Asks, Compat!Judge
<1>2. CASE /\ BoardFields \subseteq s
           /\ \/ b.spec["motherboard.form_factor"] \notin b.spec["case.supported_form_factors"]
              \/ ~Tight(b, s)
  BY <1>2, BoardFits, VerdictsJudge DEF Asks, Suffices
<1>3. CASE /\ BoardFields \subseteq s /\ Tight(b, s)
           /\ b.spec["motherboard.form_factor"] \in b.spec["case.supported_form_factors"]
  <2>1. c = Compat!PSUBayFit(b, s)
    BY <1>3, BoardFits
  <2>2. CASE c.outcome = "unknown"
    <3>1. c = Compat!Judge(BayFields, s, Compat!Pass) /\ ~(BayFields \subseteq s)
      BY <2>1, <2>2, BayFits, VerdictsJudge DEF Compat!Judge
    <3>2. c.missing = BayFields \ s /\ BayFields \subseteq t
      BY <3>1 DEF Compat!Judge
    <3>3. Asks(c, s)
      BY <3>1, <3>2 DEF Asks
    <3>4. Compat!FormFactorSupport(b, t) = Compat!PSUBayFit(b, t)
      <4>1. Tight(b, t) /\ BoardFields \subseteq t
        BY <1>3 DEF Tight
      <4> QED
        BY <1>3, <4>1, BoardFits
    <3>5. Compat!PSUBayFit(b, t) \in {Compat!Fail, Compat!Pass}
      BY <3>2, BayFits DEF Compat!Judge
    <3> HIDE DEF c
    <3> QED
      BY <3>3, <3>4, <3>5, VerdictsJudge DEF Suffices, c
  <2>3. CASE c.outcome # "unknown"
    BY <2>3 DEF Asks, Suffices
  <2> QED
    BY <2>2, <2>3
<1> QED
  BY <1>1, <1>2, <1>3

CoolerKnown(b) == b.spec["cooler.type"] \in {"air", "aio"}

LEMMA ReportStandsWhenFactsArrive ==
  ASSUME NEW b, CoolerKnown(b), NEW s, NEW t, s \subseteq t, NEW r \in Compat!Rules
  PROVE  LET c == Compat!Validate(b, s)[r] IN
         \/ Stands(c, Compat!Validate(b, t)[r])
         \/ r = "FORM_FACTOR_SUPPORT" /\ c = Compat!Pass /\ Bay \in t \ s
<1>1. CASE r = "COOLER_CLEARANCE"
  BY <1>1, Reported, CoolerStands DEF CoolerKnown
<1>2. CASE r = "FORM_FACTOR_SUPPORT"
  BY <1>2, Reported, FormFactorStands
<1>3. CASE r \in Fixed
  <2>1. PICK needs, v : /\ v \in Verdicts
                        /\ \A u : Compat!Validate(b, u)[r] = Compat!Judge(needs, u, v)
    BY <1>3, FixedRulesJudge
  <2> QED
    BY <2>1, JudgeStands
<1> QED
  BY <1>1, <1>2, <1>3 DEF Fixed

LEMMA ReportAsksForWhatItTakes ==
  ASSUME NEW b, CoolerKnown(b), NEW s, NEW r \in Compat!Rules
  PROVE  LET c == Compat!Validate(b, s)[r] IN
         /\ Asks(c, s)
         /\ \/ Suffices(c, Compat!Validate(b, s \cup c.missing)[r])
            \/ r = "COOLER_CLEARANCE" /\ "cooler.type" \in c.missing
            \/ r = "FORM_FACTOR_SUPPORT" /\ c.missing \cap BoardFields # {}
<1>1. CASE r = "COOLER_CLEARANCE"
  BY <1>1, Reported, CoolerAsks DEF CoolerKnown
<1>2. CASE r = "FORM_FACTOR_SUPPORT"
  BY <1>2, Reported, FormFactorAsks
<1>3. CASE r \in Fixed
  <2>1. PICK needs, v : /\ v \in Verdicts
                        /\ \A u : Compat!Validate(b, u)[r] = Compat!Judge(needs, u, v)
    BY <1>3, FixedRulesJudge
  <2> QED
    BY <2>1, JudgeAsks
<1> QED
  BY <1>1, <1>2, <1>3 DEF Fixed

RulesInv == subject = "rules" => build \in Builds

LEMMA RulesInvariant == PlanningSpec => []RulesInv
<1>1. Start => RulesInv
  BY DEF Start, RulesInv, Compat!Init
<1>2. RulesInv /\ [Step]_<<subject, loop, repair, judgment, choosing>> => RulesInv'
  BY DEF RulesInv, Step, judgment, Compat!Next, Compat!Supply
<1> QED
  BY <1>1, <1>2, PTL DEF PlanningSpec

\* A verdict given on partial facts stands when the rest arrives, but for a case
\* that says only later which power supplies it takes; so does the verdict on the
\* build as a whole (internal/rules: engine.go, clearance.go).
THEOREM VerdictsAreFinal == PlanningSpec => VerdictsStand
<1>1. ASSUME RulesInv, [Step]_<<subject, loop, repair, judgment, choosing>>
      PROVE  [subject = "rules" => Compat!VerdictStands]_<<subject, judgment>>
  <2> SUFFICES ASSUME subject = "rules", <<subject, judgment>>' # <<subject, judgment>>
               PROVE  Compat!VerdictStands
    OBVIOUS
  <2>1. PICK f \in Compat!Fields : Compat!Supply(f)
    BY <1>1 DEF Step, judgment, loop, Compat!Next
  <2>2. build' = build /\ known \subseteq known' /\ CoolerKnown(build)
    BY <1>1, <2>1, BuildAssumption DEF Compat!Supply, RulesInv, CoolerKnown
  <2>3. PICK t : t = known'
    OBVIOUS
  <2>4. Compat!Report' = Compat!Validate(build, t) /\ Compat!BayDeclared = (Bay \in t \ known)
    BY <2>2, <2>3 DEF Compat!Report, Compat!BayDeclared, Bay
  <2> DEFINE now == Compat!Validate(build, known)
             then == Compat!Validate(build, t)
  <2>5. \A r \in Compat!Rules : \/ Stands(now[r], then[r])
                                \/ /\ r = "FORM_FACTOR_SUPPORT" /\ now[r] = Compat!Pass
                                   /\ Bay \in t \ known
    BY <2>2, <2>3, ReportStandsWhenFactsArrive
  <2> HIDE DEF now, then
  <2>6. \A r \in Compat!Rules :
          now[r].outcome # "unknown" =>
            then[r] = now[r] \/ (r = "FORM_FACTOR_SUPPORT" /\ Compat!BayDeclared /\ now[r] = Compat!Pass)
    BY <2>4, <2>5 DEF Stands
  <2>7. Compat!OverallStatus(now) = "fail" => Compat!OverallStatus(then) = "fail"
    BY <2>6, VerdictsJudge DEF Compat!OverallStatus
  <2>8. Compat!OverallStatus(now) = "pass" /\ ~Compat!BayDeclared => Compat!OverallStatus(then) = "pass"
    <3> SUFFICES ASSUME Compat!OverallStatus(now) = "pass", ~Compat!BayDeclared
                 PROVE  Compat!OverallStatus(then) = "pass"
      OBVIOUS
    <3>1. {now[r].outcome : r \in Compat!Rules} = {"pass"}
      BY DEF Compat!OverallStatus
    <3>2. \A r \in Compat!Rules : now[r].outcome = "pass"
      BY <3>1
    <3>3. \A r \in Compat!Rules : then[r] = now[r]
      BY <2>6, <3>2
    <3>4. {then[r].outcome : r \in Compat!Rules} = {"pass"}
      BY <3>1, <3>3
    <3> QED
      BY <3>4 DEF Compat!OverallStatus
  <2>9. Compat!Report = now
    BY DEF Compat!Report, now
  <2>10. Compat!OverallStatus(Compat!Report)' = Compat!OverallStatus(then)
    BY <2>4 DEF Compat!OverallStatus, then
  <2> QED
    BY <2>4, <2>6, <2>7, <2>8, <2>9, <2>10 DEF Compat!VerdictStands, then
<1> QED
  BY <1>1, RulesInvariant, PTL DEF PlanningSpec, VerdictsStand

\* A check that is not judged names missing fields, and is judged when these are
\* known, but where the cooler's type or the boards the case takes decide what
\* to compare (internal/rules: clearance.go).
THEOREM WhatIsAskedSuffices == PlanningSpec => []MissingFieldsSuffice
<1>1. RulesInv => MissingFieldsSuffice
  <2> SUFFICES ASSUME RulesInv, subject = "rules" PROVE Compat!MissingFieldsSuffice
    BY DEF MissingFieldsSuffice
  <2>1. CoolerKnown(build)
    BY BuildAssumption DEF RulesInv, CoolerKnown
  <2>2. SUFFICES ASSUME NEW r \in Compat!Rules
                 PROVE  LET check == Compat!Report[r]
                            then == Compat!Validate(build, known \cup check.missing)[r]
                        IN check.outcome = "unknown" =>
                             /\ check.missing # {} /\ check.missing \cap known = {}
                             /\ then.outcome = "unknown" =>
                                  \/ r = "COOLER_CLEARANCE" /\ "cooler.type" \in check.missing
                                  \/ r = "FORM_FACTOR_SUPPORT" /\ check.missing \cap BoardFields # {}
    BY DEF Compat!MissingFieldsSuffice, BoardFields
  <2> QED
    BY <2>1, ReportAsksForWhatItTakes DEF Asks, Suffices, Compat!Report
<1> QED
  BY <1>1, RulesInvariant, PTL

-----------------------------------------------------------------------------
(* The lists of candidates *)

IsList(s) == Len(s) \in Nat /\ s = [i \in 1..Len(s) |-> s[i]]
Holds(s, n) == \E i \in 1..Len(s) : s[i] = n

OnceNext(context, parts, n)      == Harness!AppendOnce(parts, n)
LaneNext(context, sampled, lane) ==
  sampled \o Harness!Sample(Harness!Those(context.parts, LAMBDA n : Harness!Lane(n) = lane), context.limit)
TakeNext(context, so, n)         == Harness!Take(so, n)

Collecting == INSTANCE FoldLaws WITH Then <- OnceNext
Laning     == INSTANCE FoldLaws WITH Then <- LaneNext
Taking     == INSTANCE FoldLaws WITH Then <- TakeNext

LEMMA HarnessCardinality == \A S : Harness!Cardinality(S) = Cardinality(S)
BY DEF Harness!Cardinality, Cardinality

LEMMA PositionsFinite ==
  ASSUME NEW n \in Nat, NEW S \in SUBSET (1..n)
  PROVE  IsFiniteSet(S) /\ Cardinality(S) \in Nat /\ S \in SUBSET Nat
<1>1. \A m \in Nat : IsFiniteSet(1..m)
  BY FS_Interval
<1>2. IsFiniteSet(S)
  BY <1>1, FS_Subset
<1>3. Cardinality(S) \in Nat
  BY <1>2, FS_CardinalityType
<1> QED
  BY <1>2, <1>3

\* A list has every element of a finite set of numbers at its rank.
LEMMA RankedOnce ==
  ASSUME NEW S \in SUBSET Nat, IsFiniteSet(S), NEW n \in S
  PROVE  \E j \in 1..Cardinality(S) : Harness!Nth(S, j) = n
<1> DEFINE Upto(m) == {k \in S : k <= m}
           j == Cardinality(Upto(n))
<1>1. \A m \in S : IsFiniteSet(Upto(m)) /\ Cardinality(Upto(m)) \in Nat /\ Cardinality(Upto(m)) <= Cardinality(S)
  <2> TAKE m \in S
  <2>1. Upto(m) \in SUBSET S
    OBVIOUS
  <2> HIDE DEF Upto
  <2> QED
    BY <2>1, FS_Subset, FS_CardinalityType
<1>2. \A m \in S : Cardinality(Upto(m)) = j => m = n
  <2> TAKE m \in S
  <2> SUFFICES ASSUME Cardinality(Upto(m)) = j, m # n PROVE FALSE
    OBVIOUS
  <2>0. m \in Nat /\ n \in Nat /\ (m < n \/ n < m)
    OBVIOUS
  <2>1. CASE m < n
    <3>1. n \in Upto(n) /\ n \notin Upto(m)
      BY <2>0, <2>1
    <3>2. \A k \in S : k \in Nat /\ (k <= m => k <= n)
      BY <2>0, <2>1
    <3>3. Upto(m) \in SUBSET Upto(n)
      BY <3>2
    <3> HIDE DEF Upto
    <3> QED
      BY <1>1, <3>1, <3>3, FS_Subset
  <2>2. CASE n < m
    <3>1. m \in Upto(m) /\ m \notin Upto(n)
      BY <2>0, <2>2
    <3>2. \A k \in S : k \in Nat /\ (k <= n => k <= m)
      BY <2>0, <2>2
    <3>3. Upto(n) \in SUBSET Upto(m)
      BY <3>2
    <3> HIDE DEF Upto
    <3> QED
      BY <1>1, <3>1, <3>3, FS_Subset
  <2> QED
    BY <2>0, <2>1, <2>2
<1>3. j \in 1..Cardinality(S)
  <2>1. n \in Upto(n)
    OBVIOUS
  <2> HIDE DEF Upto
  <2>2. Cardinality(Upto(n)) # 0
    BY <1>1, <2>1, FS_EmptySet
  <2>3. Cardinality(S) \in Nat
    BY FS_CardinalityType
  <2> QED
    BY <1>1, <2>2, <2>3
<1>4. Harness!Nth(S, j) = CHOOSE m \in S : Cardinality(Upto(m)) = j
  BY HarnessCardinality DEF Harness!Nth
<1>5. n = CHOOSE m \in S : Cardinality(Upto(m)) = j
  <2> HIDE DEF Upto
  <2> QED
    BY <1>2
<1> QED
  BY <1>3, <1>4, <1>5

LEMMA Ordered ==
  ASSUME NEW S \in SUBSET Nat, IsFiniteSet(S)
  PROVE  IsList(Harness!InOrder(S)) /\ \A n \in S : Holds(Harness!InOrder(S), n)
<1> DEFINE s == Harness!InOrder(S)
<1>1. Cardinality(S) \in Nat
  BY FS_CardinalityType
<1>2. s = [j \in 1..Cardinality(S) |-> Harness!Nth(S, j)]
  BY HarnessCardinality DEF Harness!InOrder
<1> HIDE DEF s
<1>3. IsList(s) /\ Len(s) = Cardinality(S)
  BY <1>1, <1>2, Collecting!ListFrom DEF IsList, Collecting!IsList
<1>4. ASSUME NEW n \in S PROVE Holds(s, n)
  <2>1. PICK j \in 1..Cardinality(S) : Harness!Nth(S, j) = n
    BY RankedOnce
  <2> QED
    BY <1>2, <1>3, <2>1 DEF Holds
<1> QED
  BY <1>3, <1>4 DEF s

\* A part of a list is one, and has what stood at its positions.
LEMMA PartOfList ==
  ASSUME NEW s, IsList(s), NEW S \in SUBSET (DOMAIN s)
  PROVE  /\ IsList(Harness!Subsequence(s, S))
         /\ \A i \in S : Holds(Harness!Subsequence(s, S), s[i])
<1> DEFINE t == Harness!Subsequence(s, S)
<1>1. S \in SUBSET (1..Len(s)) /\ Len(s) \in Nat
  BY DEF IsList
<1>2. IsFiniteSet(S) /\ Cardinality(S) \in Nat /\ S \in SUBSET Nat
  BY <1>1, PositionsFinite
<1>3. t = [j \in 1..Cardinality(S) |-> s[Harness!Nth(S, j)]]
  BY HarnessCardinality DEF Harness!Subsequence
<1> HIDE DEF t
<1>4. IsList(t) /\ Len(t) = Cardinality(S)
  BY <1>2, <1>3, Collecting!ListFrom DEF IsList, Collecting!IsList
<1>5. ASSUME NEW i \in S PROVE Holds(t, s[i])
  <2>1. PICK j \in 1..Cardinality(S) : Harness!Nth(S, j) = i
    BY <1>2, RankedOnce
  <2> QED
    BY <1>3, <1>4, <2>1 DEF Holds
<1> QED
  BY <1>4, <1>5 DEF t

\* Adding parts once to a list of parts leaves those it has and adds the others.
LEMMA Collected ==
  ASSUME NEW s, NEW t, IsList(s), IsList(t)
  PROVE  LET r == Harness!FoldLeft(Harness!AppendOnce, s, t)
         IN  /\ IsList(r)
             /\ \A n : Holds(s, n) \/ Holds(t, n) => Holds(r, n)
<1>1. Harness!FoldLeft(Harness!AppendOnce, s, t) = Collecting!Folded({}, s, t)
  BY DEF Collecting!Folded, Collecting!FoldLeft, Collecting!MapThenFoldSet, Collecting!Max,
         Harness!FoldLeft, Harness!MapThenFoldSet, Harness!Max, OnceNext
<1>2. Len(t) \in Nat /\ DOMAIN t = 1..Len(t)
  BY DEF IsList
<1>3. PICK r : Collecting!History(r, {}, s, t) /\ Collecting!Folded({}, s, t) = r[Len(t)]
  BY <1>2, Collecting!Unfolds
<1>4. r[0] = s /\ \A i \in 1..Len(t) : r[i] = Harness!AppendOnce(r[i - 1], t[i])
  BY <1>3 DEF Collecting!History, OnceNext
<1> DEFINE K == {k \in 0..Len(t) : /\ IsList(r[k])
                                   /\ \A n : Holds(s, n) => Holds(r[k], n)
                                   /\ \A i \in 1..k : Holds(r[k], t[i])}
<1>5. 0 \in K
  BY <1>2, <1>4
<1>6. ASSUME NEW k \in 0 .. (Len(t) - 1), k \in K PROVE k + 1 \in K
  <2>1. k + 1 \in 1..Len(t) /\ r[k + 1] = Harness!AppendOnce(r[k], t[k + 1])
    BY <1>2, <1>4
  <2>2. CASE Holds(r[k], t[k + 1])
    <3>1. t[k + 1] \in Harness!ToSet(r[k])
      BY <1>6, <2>2 DEF Harness!ToSet, IsList, Holds
    <3>2. r[k + 1] = r[k]
      BY <2>1, <3>1 DEF Harness!AppendOnce
    <3>3. \A i \in 1..(k + 1) : i \in 1..k \/ i = k + 1
      OBVIOUS
    <3> QED
      BY <1>6, <2>1, <2>2, <3>2, <3>3
  <2>3. CASE ~Holds(r[k], t[k + 1])
    <3>1. t[k + 1] \notin Harness!ToSet(r[k])
      BY <1>6, <2>3 DEF Harness!ToSet, IsList, Holds
    <3>2. r[k + 1] = Append(r[k], t[k + 1])
      BY <2>1, <3>1 DEF Harness!AppendOnce
    <3>3. /\ IsList(r[k + 1]) /\ Len(r[k + 1]) = Len(r[k]) + 1
          /\ r[k + 1][Len(r[k]) + 1] = t[k + 1]
          /\ \A i \in 1..Len(r[k]) : r[k + 1][i] = r[k][i]
      BY <1>6, <3>2, Collecting!ListGrows DEF IsList, Collecting!IsList
    <3>4. Len(r[k]) \in Nat
      BY <1>6 DEF IsList
    <3>5. \A n : Holds(r[k], n) => Holds(r[k + 1], n)
      BY <3>3, <3>4 DEF Holds
    <3>6. Holds(r[k + 1], t[k + 1])
      BY <3>3, <3>4 DEF Holds
    <3>7. \A i \in 1..(k + 1) : i \in 1..k \/ i = k + 1
      OBVIOUS
    <3> QED
      BY <1>6, <2>1, <3>3, <3>5, <3>6, <3>7
  <2> QED
    BY <2>2, <2>3
<1>7. \A k \in 0..Len(t) : k \in K
  <2> HIDE DEF K
  <2> QED
    BY <1>2, <1>5, <1>6, Collecting!UpTo
<1>8. IsList(r[Len(t)]) /\ \A n : Holds(s, n) \/ Holds(t, n) => Holds(r[Len(t)], n)
  <2>1. Len(t) \in K
    BY <1>2, <1>7
  <2> QED
    BY <2>1 DEF Holds
<1> QED
  BY <1>1, <1>3, <1>8

\* What is in a list is one of its elements.
LEMMA ToSetHolds == ASSUME NEW s, IsList(s), NEW n PROVE Holds(s, n) <=> n \in Harness!ToSet(s)
BY DEF IsList, Holds, Harness!ToSet

LEMMA EmptyList == IsList(<<>>) /\ \A n : ~Holds(<<>>, n)
BY DEF IsList, Holds

LEMMA JoinedList ==
  ASSUME NEW s, NEW t, IsList(s), IsList(t)
  PROVE  IsList(s \o t) /\ \A n : Holds(s, n) \/ Holds(t, n) => Holds(s \o t, n)
<1>1. /\ IsList(s \o t) /\ Len(s \o t) = Len(s) + Len(t)
      /\ \A i \in 1..Len(s) : (s \o t)[i] = s[i]
      /\ \A i \in 1..Len(t) : (s \o t)[Len(s) + i] = t[i]
  BY Collecting!ListsJoin DEF IsList, Collecting!IsList
<1>2. Len(s) \in Nat /\ Len(t) \in Nat
  BY DEF IsList
<1>3. ASSUME NEW n, NEW i \in 1..Len(s), s[i] = n PROVE Holds(s \o t, n)
  <2>1. i \in 1..Len(s \o t) /\ (s \o t)[i] = n
    BY <1>1, <1>2, <1>3
  <2> QED
    BY <2>1 DEF Holds
<1>4. ASSUME NEW n, NEW i \in 1..Len(t), t[i] = n PROVE Holds(s \o t, n)
  <2>1. Len(s) + i \in 1..Len(s \o t) /\ (s \o t)[Len(s) + i] = n
    BY <1>1, <1>2, <1>4
  <2> QED
    BY <2>1 DEF Holds
<1> QED
  BY <1>1, <1>3, <1>4 DEF Holds

LEMMA GrownList ==
  ASSUME NEW s, NEW e, IsList(s)
  PROVE  IsList(Append(s, e)) /\ Holds(Append(s, e), e) /\ \A n : Holds(s, n) => Holds(Append(s, e), n)
<1>1. /\ IsList(Append(s, e)) /\ Len(Append(s, e)) = Len(s) + 1
      /\ Append(s, e)[Len(s) + 1] = e
      /\ \A i \in 1..Len(s) : Append(s, e)[i] = s[i]
  BY Collecting!ListGrows DEF IsList, Collecting!IsList
<1>2. Len(s) \in Nat
  BY DEF IsList
<1>3. Holds(Append(s, e), e)
  <2>1. Len(s) + 1 \in 1..Len(Append(s, e))
    BY <1>1, <1>2
  <2> QED
    BY <1>1, <2>1 DEF Holds
<1>4. ASSUME NEW n, Holds(s, n) PROVE Holds(Append(s, e), n)
  <2>1. PICK i \in 1..Len(s) : s[i] = n
    BY <1>4 DEF Holds
  <2>2. i \in 1..Len(Append(s, e)) /\ Append(s, e)[i] = n
    BY <1>1, <1>2, <2>1
  <2> QED
    BY <2>2 DEF Holds
<1> QED
  BY <1>1, <1>3, <1>4

LEMMA SampleListed ==
  ASSUME NEW parts, NEW limit, IsList(parts)
  PROVE  IsList(Harness!Sample(parts, limit))
<1> DEFINE S == {i \in DOMAIN parts :
                   \E k \in 0 .. limit - 1 : i = 1 + (k * (Len(parts) - 1)) \div (limit - 1)}
<1>1. S \in SUBSET (DOMAIN parts)
  OBVIOUS
<1>2. Harness!Sample(parts, limit)
        = IF Len(parts) <= limit THEN parts ELSE Harness!Subsequence(parts, S)
  BY DEF Harness!Sample
<1> HIDE DEF S
<1> QED
  BY <1>1, <1>2, PartOfList

LEMMA LanesListed ==
  ASSUME NEW parts, NEW limit, IsList(parts)
  PROVE  IsList(Harness!SampleLanes(parts, limit))
<1> DEFINE c == [parts |-> parts, limit |-> limit]
           names == Harness!LaneNames
<1>1. Harness!SampleLanes(parts, limit) = Laning!Folded(c, <<>>, names)
  BY DEF Harness!SampleLanes, Laning!Folded, Laning!FoldLeft, Laning!MapThenFoldSet, Laning!Max,
         Harness!FoldLeft, Harness!MapThenFoldSet, Harness!Max, LaneNext
<1>2. Len(names) \in Nat /\ DOMAIN names = 1..Len(names)
  BY DEF Harness!LaneNames
<1>3. ASSUME NEW sampled, NEW lane, IsList(sampled) PROVE IsList(LaneNext(c, sampled, lane))
  <2> DEFINE S == {i \in DOMAIN parts : Harness!Lane(parts[i]) = lane}
  <2>1. S \in SUBSET (DOMAIN parts)
    OBVIOUS
  <2>2. LaneNext(c, sampled, lane) = sampled \o Harness!Sample(Harness!Subsequence(parts, S), limit)
    BY DEF LaneNext, Harness!Those
  <2> HIDE DEF S
  <2>3. IsList(Harness!Sample(Harness!Subsequence(parts, S), limit))
    BY <2>1, PartOfList, SampleListed
  <2> QED
    BY <1>3, <2>2, <2>3, JoinedList
<1> HIDE DEF c, names
<1>4. PICK r : Laning!History(r, c, <<>>, names) /\ Laning!Folded(c, <<>>, names) = r[Len(names)]
  BY <1>2, Laning!Unfolds
<1>5. r[0] = <<>> /\ \A i \in 1..Len(names) : r[i] = LaneNext(c, r[i - 1], names[i])
  BY <1>4 DEF Laning!History
<1> DEFINE K == {k \in 0..Len(names) : IsList(r[k])}
<1>6. 0 \in K
  BY <1>2, <1>5, EmptyList
<1>7. ASSUME NEW k \in 0 .. (Len(names) - 1), k \in K PROVE k + 1 \in K
  <2>1. k + 1 \in 1..Len(names) /\ r[k + 1] = LaneNext(c, r[k], names[k + 1])
    BY <1>2, <1>5
  <2> QED
    BY <1>2, <1>3, <1>7, <2>1
<1>8. \A k \in 0..Len(names) : k \in K
  <2> HIDE DEF K
  <2> QED
    BY <1>2, <1>6, <1>7, Laning!UpTo
<1>9. IsList(r[Len(names)])
  BY <1>2, <1>8
<1> QED
  BY <1>1, <1>4, <1>9

\* An order has lists of parts, of what is owned and of hits; its base has finitely
\* many parts of a category, and one processor, board and memory.
IsBase(b) ==
  /\ DOMAIN b = Slots
  /\ \A s \in Slots : Harness!Chosen(b, s) \in SUBSET Nat /\ IsFiniteSet(Harness!Chosen(b, s))
  /\ \A s \in {"cpu", "motherboard", "memory"} : \A m, n \in Harness!Chosen(b, s) : m = n

PricesKnown == \A i \in DOMAIN order.catalogue : order.catalogue[i].price \in Nat \cup {Harness!NoPrice}

OrderTyped ==
  /\ DOMAIN order = {"catalogue", "req", "change", "base", "locked", "hits"}
  /\ IsList(order.catalogue) /\ IsList(order.hits) /\ IsList(order.req.owned)
  /\ PricesKnown /\ order.req.budget \in Int /\ order.req.flex \in Int
  /\ order.base # Harness!NoBase => IsBase(order.base)

LEMMA BaseListed ==
  ASSUME OrderTyped, NEW s \in Slots
  PROVE  /\ IsList(Harness!Base(s))
         /\ order.base # Harness!NoBase =>
              \A n \in Harness!Chosen(order.base, s) : Holds(Harness!Base(s), n)
<1>1. CASE order.base = Harness!NoBase
  BY <1>1, EmptyList DEF Harness!Base
<1>2. CASE order.base # Harness!NoBase
  <2> DEFINE S == Harness!Chosen(order.base, s)
  <2>1. S \in SUBSET Nat /\ IsFiniteSet(S)
    BY <1>2 DEF OrderTyped, IsBase
  <2>2. Harness!Base(s) = Harness!InOrder(S)
    BY <1>2 DEF Harness!Base
  <2> HIDE DEF S
  <2>4. IsList(Harness!InOrder(S)) /\ \A n \in S : Holds(Harness!InOrder(S), n)
    BY <2>1, Ordered
  <2> QED
    BY <2>2, <2>4 DEF S
<1> QED
  BY <1>1, <1>2

BrandOf(s) == CASE s = "cpu" -> Harness!Brand(s, order.req.cpu)
                [] s = "gpu" -> Harness!Brand(s, order.req.gpu)
                [] OTHER     -> "any"

LEMMA EligibleListed ==
  ASSUME OrderTyped, NEW s \in Slots, NEW mates
  PROVE  LET eligible == Harness!EligibleOf(s, mates)
         IN  /\ IsList(eligible)
             /\ Harness!Locked(s) => eligible = Harness!Base(s)
             /\ ~Harness!Locked(s) =>
                  \A n \in Harness!Offers(s) :
                    Harness!Admits(s, BrandOf(s), n) /\ Harness!Fits(s, mates, n) => Holds(eligible, n)
<1> DEFINE S == {n \in Harness!Offers(s) : Harness!Admits(s, BrandOf(s), n) /\ Harness!Fits(s, mates, n)}
<1>1. Harness!EligibleOf(s, mates)
        = IF Harness!Locked(s) THEN Harness!Base(s) ELSE Harness!InOrder(S)
  BY DEF Harness!EligibleOf, BrandOf
<1>2. S \in SUBSET (1..Len(order.catalogue)) /\ Len(order.catalogue) \in Nat
  BY DEF Harness!Offers, OrderTyped, IsList
<1>3. \A n \in Harness!Offers(s) :
        Harness!Admits(s, BrandOf(s), n) /\ Harness!Fits(s, mates, n) => n \in S
  OBVIOUS
<1> HIDE DEF S
<1>4. IsFiniteSet(S) /\ S \in SUBSET Nat
  BY <1>2, PositionsFinite
<1>5. IsList(Harness!InOrder(S)) /\ \A n \in S : Holds(Harness!InOrder(S), n)
  BY <1>4, Ordered
<1> QED
  BY <1>1, <1>3, <1>5, BaseListed

LEMMA SampledListed ==
  ASSUME OrderTyped, NEW s \in Slots, NEW eligible, IsList(eligible)
  PROVE  IsList(Harness!SampledOf(s, eligible))
<1>1. IsList(Harness!Base(s))
  BY BaseListed
<1>2. \A limit : IsList(Harness!SampleLanes(eligible, limit)) /\ IsList(Harness!Sample(eligible, limit))
  BY LanesListed, SampleListed
<1>3. IsList(Harness!IntegratedGraphics(eligible))
  <2> DEFINE with == {n \in Harness!ToSet(eligible) :
                        Harness!Part(n).igpu = "yes" /\ order.req.use # "gaming"}
             S == {i \in DOMAIN eligible :
                     eligible[i] \in with
                       /\ \A m \in with : Harness!Lane(m) = Harness!Lane(eligible[i]) => eligible[i] <= m}
  <2>1. Harness!IntegratedGraphics(eligible) = Harness!Subsequence(eligible, S)
    BY DEF Harness!IntegratedGraphics, Harness!Those
  <2>2. S \in SUBSET (DOMAIN eligible)
    OBVIOUS
  <2> HIDE DEF S
  <2> QED
    BY <2>1, <2>2, PartOfList
<1>4. IsList(Harness!FirstRated(s, eligible))
  <2>1. Harness!FirstRated(s, eligible) = <<>> \/ \E n : Harness!FirstRated(s, eligible) = <<n>>
    BY DEF Harness!FirstRated
  <2>2. \A n : IsList(<<n>>)
    BY DEF IsList
  <2> QED
    BY <2>1, <2>2, EmptyList
<1>5. /\ IsList(Harness!FoldLeft(Harness!AppendOnce, Harness!SampleLanes(eligible, LaneLimit),
                                 Harness!IntegratedGraphics(eligible)))
      /\ IsList(Harness!FoldLeft(Harness!AppendOnce, Harness!Sample(eligible, SampleLimit),
                                 Harness!FirstRated(s, eligible)))
  BY <1>2, <1>3, <1>4, Collected
<1> QED
  BY <1>1, <1>2, <1>5 DEF Harness!SampledOf

\* The parts of the base that are eligible are drawn.
LEMMA BaseDrawn ==
  ASSUME OrderTyped, NEW s \in Slots, NEW mates
  PROVE  LET list == Harness!Draw(s, mates)
         IN  /\ list.eligible = Harness!EligibleOf(s, mates)
             /\ IsList(list.eligible) /\ IsList(list.drawn)
             /\ \A n : Holds(Harness!Base(s), n) /\ Holds(list.eligible, n) => Holds(list.drawn, n)
<1> DEFINE eligible == Harness!EligibleOf(s, mates)
           sampled == Harness!SampledOf(s, eligible)
           S == {i \in DOMAIN Harness!Base(s) : Harness!Base(s)[i] \in Harness!ToSet(eligible)}
           kept == Harness!Subsequence(Harness!Base(s), S)
           drawn == Harness!FoldLeft(Harness!AppendOnce, sampled, kept)
<1>1. Harness!Draw(s, mates) = [eligible |-> eligible, drawn |-> drawn]
  BY DEF Harness!Draw, Harness!Retain, Harness!Those
<1>2. IsList(eligible) /\ IsList(Harness!Base(s))
  BY EligibleListed, BaseListed
<1>3. IsList(sampled)
  BY <1>2, SampledListed
<1>4. S \in SUBSET (DOMAIN Harness!Base(s))
  OBVIOUS
<1>5. \A n : Holds(Harness!Base(s), n) /\ Holds(eligible, n) => \E i \in S : Harness!Base(s)[i] = n
  BY <1>2, ToSetHolds DEF Holds, IsList
<1> HIDE DEF S, eligible, sampled
<1>6. IsList(kept) /\ \A i \in S : Holds(kept, Harness!Base(s)[i])
  BY <1>2, <1>4, PartOfList
<1> HIDE DEF kept
<1>7. IsList(drawn) /\ \A n : Holds(kept, n) => Holds(drawn, n)
  BY <1>3, <1>6, Collected
<1> QED
  BY <1>1, <1>2, <1>5, <1>6, <1>7 DEF eligible

Processors == Harness!ToSet(Harness!Draw("cpu", {}).drawn)
Boards     == Harness!ToSet(Harness!Draw("motherboard", Processors).drawn)
MatesOf(s) == CASE s = "motherboard" -> Processors [] s = "memory" -> Boards [] OTHER -> {}

LEMMA ListOfSlot == ASSUME NEW s \in Slots PROVE Harness!Lists[s] = Harness!Draw(s, MatesOf(s))
BY DEF Harness!Lists, MatesOf, Processors, Boards

\* The parts of the base that may be offered again.
Stays(s, n) == Holds(Harness!Base(s), n) /\ Holds(Harness!Lists[s].eligible, n)

LEMMA StaysDrawn ==
  ASSUME OrderTyped, NEW s \in Slots
  PROVE  /\ IsList(Harness!Lists[s].eligible) /\ IsList(Harness!Lists[s].drawn)
         /\ \A n : Stays(s, n) => Holds(Harness!Lists[s].drawn, n)
BY ListOfSlot, BaseDrawn DEF Stays

LEMMA StaysRanked ==
  ASSUME OrderTyped, NEW s \in Slots
  PROVE  LET parts == Harness!Ranked(Harness!Lists, s)
         IN  IsList(parts) /\ \A n : Stays(s, n) => Holds(parts, n)
<1> DEFINE list == Harness!Lists[s]
           wanted == Harness!Those(list.eligible, Harness!Preferred)
           all == IF wanted = <<>> THEN list.drawn ELSE Harness!AppendOnce(list.drawn, wanted[1])
           first == {i \in DOMAIN all : Harness!Preferred(all[i])}
           rest == {i \in DOMAIN all : ~Harness!Preferred(all[i])}
<1>1. Harness!Ranked(Harness!Lists, s) = Harness!Subsequence(all, first) \o Harness!Subsequence(all, rest)
  BY DEF Harness!Ranked, Harness!Those
<1>2. first \in SUBSET (DOMAIN all) /\ rest \in SUBSET (DOMAIN all) /\ first \cup rest = DOMAIN all
  OBVIOUS
<1>3. IsList(all) /\ \A n : Stays(s, n) => Holds(all, n)
  <2>1. IsList(list.drawn) /\ \A n : Stays(s, n) => Holds(list.drawn, n)
    BY StaysDrawn
  <2>2. all = list.drawn \/ all = Append(list.drawn, wanted[1])
    BY DEF Harness!AppendOnce
  <2> HIDE DEF all, list, wanted
  <2>3. LET grown == Append(list.drawn, wanted[1])
        IN  IsList(grown) /\ \A n : Holds(list.drawn, n) => Holds(grown, n)
    BY <2>1, GrownList
  <2>4. CASE all = list.drawn
    BY <2>1, <2>4
  <2>5. CASE all = Append(list.drawn, wanted[1])
    BY <2>1, <2>3, <2>5
  <2> QED
    BY <2>2, <2>4, <2>5
<1> HIDE DEF all, first, rest
<1>4. /\ IsList(Harness!Subsequence(all, first)) /\ IsList(Harness!Subsequence(all, rest))
      /\ \A i \in first : Holds(Harness!Subsequence(all, first), all[i])
      /\ \A i \in rest : Holds(Harness!Subsequence(all, rest), all[i])
  BY <1>2, <1>3, PartOfList
<1>5. ASSUME NEW n, Holds(all, n)
      PROVE  Holds(Harness!Subsequence(all, first), n) \/ Holds(Harness!Subsequence(all, rest), n)
  <2>1. PICK i \in DOMAIN all : all[i] = n
    BY <1>3, <1>5 DEF Holds, IsList
  <2> QED
    BY <1>2, <1>4, <2>1
<1> QED
  BY <1>1, <1>3, <1>4, <1>5, JoinedList

\* A group of candidates holds a part that trimming may not remove.
Secures(group, n) == \E i \in 1..Len(group) : group[i].part = n /\ group[i].protected

LEMMA StaysInCore ==
  ASSUME OrderTyped, NEW s \in Slots
  PROVE  LET core == Harness!Core(Harness!Lists, s)
         IN  IsList(core) /\ \A n : Stays(s, n) => Secures(core, n)
<1> DEFINE parts == Harness!Ranked(Harness!Lists, s)
           core == Harness!Core(Harness!Lists, s)
           eligible == Harness!Lists[s].eligible
<1>1. IsList(parts) /\ \A n : Stays(s, n) => Holds(parts, n)
  BY StaysRanked
<1>2. Len(parts) \in Nat /\ DOMAIN parts = 1..Len(parts)
  BY <1>1 DEF IsList
<1>3. core = [i \in 1..Len(parts) |->
                [part |-> parts[i], semantic |-> FALSE,
                 protected |-> Harness!Protected(eligible, s, parts, i)]]
  BY <1>2 DEF Harness!Core
<1>4. IsList(core) /\ Len(core) = Len(parts)
  <2> HIDE DEF core
  <2>1. core = [i \in 1..Len(parts) |-> core[i]]
    BY <1>3
  <2> QED
    BY <1>2, <2>1, Collecting!ListFrom DEF IsList, Collecting!IsList
<1>5. ASSUME NEW n, Stays(s, n) PROVE Secures(core, n)
  <2>1. PICK i \in 1..Len(parts) : parts[i] = n
    BY <1>1, <1>5 DEF Holds
  <2>2. Harness!Locked(s) \/ n \in Harness!Kept(eligible, s)
    <3>1. n \in Harness!ToSet(Harness!Base(s)) /\ n \in Harness!ToSet(eligible)
      BY <1>5, BaseListed, StaysDrawn, ToSetHolds DEF Stays
    <3> QED
      BY <3>1 DEF Harness!Kept
  <2>3. Harness!Protected(eligible, s, parts, i)
    BY <2>1, <2>2 DEF Harness!Protected
  <2> HIDE DEF core, parts, eligible
  <2>4. core[i].part = n /\ core[i].protected
    BY <1>3, <2>1, <2>3
  <2> QED
    BY <1>4, <2>1, <2>4 DEF Secures
<1> QED
  BY <1>4, <1>5

\* The search adds to a group and removes nothing.
LEMMA StaysEnriched ==
  ASSUME OrderTyped, NEW s \in Slots
  PROVE  LET group == Harness!Enriched(Harness!Lists, s)
         IN  IsList(group) /\ \A n : Stays(s, n) => Secures(group, n)
<1> DEFINE core == Harness!Core(Harness!Lists, s)
           eligible == Harness!Lists[s].eligible
           S == {i \in DOMAIN order.hits :
                   Harness!Searched /\ order.hits[i] \in Harness!ToSet(eligible)}
           hits == Harness!Subsequence(order.hits, S)
           base == [group |-> core, added |-> 0]
<1>1. Harness!Enriched(Harness!Lists, s) = Harness!FoldLeft(Harness!Take, base, hits).group
  BY DEF Harness!Enriched, Harness!Those
<1>2. Harness!FoldLeft(Harness!Take, base, hits) = Taking!Folded({}, base, hits)
  BY DEF Taking!Folded, Taking!FoldLeft, Taking!MapThenFoldSet, Taking!Max,
         Harness!FoldLeft, Harness!MapThenFoldSet, Harness!Max, TakeNext
<1>3. IsList(core) /\ \A n : Stays(s, n) => Secures(core, n)
  BY StaysInCore
<1>4. IsList(hits)
  <2>1. S \in SUBSET (DOMAIN order.hits) /\ IsList(order.hits)
    BY DEF OrderTyped
  <2> HIDE DEF S
  <2> QED
    BY <2>1, PartOfList
<1>5. base.group = core
  OBVIOUS
<1> HIDE DEF core, hits, base, S, eligible
<1>6. Len(hits) \in Nat /\ DOMAIN hits = 1..Len(hits)
  BY <1>4 DEF IsList
<1>7. PICK r : Taking!History(r, {}, base, hits) /\ Taking!Folded({}, base, hits) = r[Len(hits)]
  BY <1>6, Taking!Unfolds
<1>8. r[0] = base /\ \A i \in 1..Len(hits) : r[i] = Harness!Take(r[i - 1], hits[i])
  BY <1>7 DEF Taking!History, TakeNext
<1> DEFINE K == {k \in 0..Len(hits) :
                   IsList(r[k].group) /\ \A n : Stays(s, n) => Secures(r[k].group, n)}
<1>9. 0 \in K
  BY <1>3, <1>5, <1>6, <1>8
<1>10. ASSUME NEW k \in 0 .. (Len(hits) - 1), k \in K PROVE k + 1 \in K
  <2>1. k + 1 \in 1..Len(hits) /\ r[k + 1] = Harness!Take(r[k], hits[k + 1])
    BY <1>6, <1>8
  <2>2. PICK e : r[k + 1].group \in {r[k].group, Append(r[k].group, e)}
    BY <2>1 DEF Harness!Take
  <2>3. CASE r[k + 1].group = r[k].group
    BY <1>10, <2>1, <2>3
  <2>4. CASE r[k + 1].group = Append(r[k].group, e)
    <3> DEFINE old == r[k].group
               new == r[k + 1].group
    <3>1. /\ IsList(new) /\ Len(new) = Len(old) + 1 /\ Len(old) \in Nat
          /\ \A i \in 1..Len(old) : new[i] = old[i]
      BY <1>10, <2>4, Collecting!ListGrows DEF IsList, Collecting!IsList
    <3>2. \A n : Secures(old, n) => Secures(new, n)
      <4> HIDE DEF old, new
      <4> QED
        BY <3>1 DEF Secures
    <3> QED
      BY <1>10, <2>1, <3>1, <3>2
  <2> QED
    BY <2>2, <2>3, <2>4
<1>11. \A k \in 0..Len(hits) : k \in K
  <2> HIDE DEF K
  <2> QED
    BY <1>6, <1>9, <1>10, Taking!UpTo
<1>12. Len(hits) \in K
  BY <1>6, <1>11
<1> QED
  BY <1>1, <1>2, <1>7, <1>12

\* Trimming spares what is protected.
LEMMA StaysInBundle ==
  ASSUME OrderTyped, NEW s \in Slots, NEW n, Stays(s, n)
  PROVE  n \in Harness!Candidates(Harness!Bundle, s)
<1> DEFINE full == Harness!FullBundle
           group == full[s]
           spare == Harness!Spare(full)
           cut == {p \in spare : Harness!Cardinality({q \in spare : Harness!Sooner(full, q, p)})
                                   < Harness!Excess(full)}
           S == {i \in DOMAIN group : <<s, i>> \notin cut}
<1>1. group = Harness!Enriched(Harness!Lists, s)
  BY DEF Harness!FullBundle, Harness!Full
<1>2. IsList(group) /\ Secures(group, n)
  BY <1>1, StaysEnriched
<1>3. PICK i \in 1..Len(group) : group[i].part = n /\ group[i].protected
  BY <1>2 DEF Secures
<1>4. CASE Harness!Excess(full) > 0
  <2>1. Harness!Bundle[s] = Harness!Subsequence(group, S)
    BY <1>4 DEF Harness!Bundle, Harness!Fitted, Harness!Trimmed
  <2>2. i \in S
    <3>1. <<s, i>> \notin spare
      <4>1. ASSUME NEW t \in Slots, NEW j \in DOMAIN full[t], ~full[t][j].protected, <<s, i>> = <<t, j>>
            PROVE  FALSE
        BY <1>3, <4>1
      <4> HIDE DEF full, group
      <4> QED
        BY <4>1 DEF Harness!Spare
    <3> HIDE DEF spare
    <3> QED
      BY <1>2, <3>1 DEF IsList
  <2>3. S \in SUBSET (DOMAIN group)
    OBVIOUS
  <2> HIDE DEF S, group, full
  <2>4. IsList(Harness!Bundle[s]) /\ Holds(Harness!Bundle[s], group[i])
    BY <1>2, <2>1, <2>2, <2>3, PartOfList
  <2> QED
    BY <1>3, <2>4 DEF Holds, IsList, Harness!Candidates
<1>5. CASE ~(Harness!Excess(full) > 0)
  <2>1. Harness!Bundle[s] = group
    BY <1>5 DEF Harness!Bundle, Harness!Fitted
  <2> HIDE DEF group, full
  <2> QED
    BY <1>2, <1>3, <2>1 DEF IsList, Harness!Candidates
<1> QED
  BY <1>4, <1>5

-----------------------------------------------------------------------------
(* The order a run works on *)

CoreSlots == {"cpu", "motherboard", "memory"} \subseteq Slots

LEMMA CoreAssumption == CoreSlots
BY HarnessAssumption DEF CoreSlots

BindNext(context, so, part) == Harness!BindOne(so, part)
Binding == INSTANCE FoldLaws WITH Then <- BindNext

LEMMA PartBound ==
  ASSUME OrderTyped, NEW part, Cardinality(Harness!Matches(part)) = 1
  PROVE  \E n \in Nat : Harness!Bound(part) = {[part |-> n, quantity |-> part.quantity]}
<1> DEFINE n == CHOOSE m \in Harness!Matches(part) : TRUE
<1>1. Harness!Matches(part) # {}
  BY FS_EmptySet
<1>2. n \in Harness!Matches(part)
  BY <1>1
<1>3. Harness!Matches(part) \in SUBSET (1..Len(order.catalogue)) /\ Len(order.catalogue) \in Nat
  BY DEF Harness!Matches, Harness!Offers, OrderTyped, IsList
<1>4. Harness!Bound(part) = {[part |-> n, quantity |-> part.quantity]}
  BY DEF Harness!Bound, Harness!Units
<1> HIDE DEF n
<1>5. n \in Nat
  BY <1>2, <1>3
<1> QED
  BY <1>4, <1>5

\* Binding what is owned leaves a base of one part a category.
LEMMA BaseBound ==
  ASSUME OrderTyped
  PROVE  Harness!BindOwned.base # Harness!NoBase => IsBase(Harness!BindOwned.base)
<1> DEFINE owned == order.req.owned
           start == [base     |-> IF order.base = Harness!NoBase THEN Harness!EmptySelection ELSE order.base,
                     locked   |-> order.locked,
                     refusals |-> {}]
           bound == Harness!FoldLeft(Harness!BindOne, start, owned)
<1>1. Harness!BindOwned = [bound EXCEPT !.base = IF owned = <<>> THEN order.base ELSE @]
  BY DEF Harness!BindOwned
<1>2. bound = Binding!Folded({}, start, owned)
  BY DEF Binding!Folded, Binding!FoldLeft, Binding!MapThenFoldSet, Binding!Max,
         Harness!FoldLeft, Harness!MapThenFoldSet, Harness!Max, BindNext
<1>3. IsBase(start.base) /\ DOMAIN start = {"base", "locked", "refusals"}
  <2>1. \A s \in Slots : Harness!Chosen(Harness!EmptySelection, s) = {}
    BY DEF Harness!EmptySelection, Harness!Chosen
  <2>2. IsBase(Harness!EmptySelection)
    BY <2>1, CoreAssumption, FS_EmptySet DEF IsBase, CoreSlots, Harness!EmptySelection
  <2> QED
    BY <2>2 DEF OrderTyped
<1>4. Len(owned) \in Nat /\ DOMAIN owned = 1..Len(owned)
  BY DEF OrderTyped, IsList
<1> HIDE DEF start, bound
<1>5. PICK r : Binding!History(r, {}, start, owned) /\ bound = r[Len(owned)]
  BY <1>2, <1>4, Binding!Unfolds
<1>6. r[0] = start /\ \A i \in 1..Len(owned) : r[i] = Harness!BindOne(r[i - 1], owned[i])
  BY <1>5 DEF Binding!History, BindNext
<1> DEFINE K == {k \in 0..Len(owned) : IsBase(r[k].base) /\ DOMAIN r[k] = {"base", "locked", "refusals"}}
<1>7. 0 \in K
  BY <1>3, <1>4, <1>6
<1>8. ASSUME NEW k \in 0 .. (Len(owned) - 1), k \in K PROVE k + 1 \in K
  <2> DEFINE so == r[k]
             part == owned[k + 1]
  <2>1. k + 1 \in 1..Len(owned) /\ r[k + 1] = Harness!BindOne(so, part)
    BY <1>4, <1>6
  <2>2. IsBase(so.base) /\ DOMAIN so = {"base", "locked", "refusals"}
    BY <1>8
  <2>3. \/ r[k + 1] = so
        \/ \E x : r[k + 1] = [so EXCEPT !.refusals = x]
        \/ /\ Cardinality(Harness!Matches(part)) = 1
           /\ r[k + 1] = [so EXCEPT !.base[part.slot] = Harness!Bound(part),
                                    !.locked = @ \cup {part.slot}]
    <3> HIDE DEF so, part
    <3> QED
      BY <2>1, HarnessCardinality DEF Harness!BindOne
  <2>4. CASE Cardinality(Harness!Matches(part)) = 1
    <3>1. PICK n \in Nat : Harness!Bound(part) = {[part |-> n, quantity |-> part.quantity]}
      BY <2>4, PartBound
    <3> HIDE DEF so, part
    <3>2. \A x : /\ DOMAIN [so EXCEPT !.refusals = x] = DOMAIN so
                 /\ [so EXCEPT !.refusals = x].base = so.base
      BY <2>2
    <3> DEFINE t == [so EXCEPT !.base[part.slot] = Harness!Bound(part), !.locked = @ \cup {part.slot}]
    <3>3. DOMAIN t = DOMAIN so /\ t.base = [so.base EXCEPT ![part.slot] = Harness!Bound(part)]
      BY <2>2
    <3>4. IsBase(t.base)
      <4>1. DOMAIN t.base = Slots /\ \A s \in Slots : t.base[s] \in {so.base[s], Harness!Bound(part)}
        BY <2>2, <3>3 DEF IsBase
      <4> HIDE DEF t
      <4>2. \A s \in Slots : Harness!Chosen(t.base, s) \in {Harness!Chosen(so.base, s), {n}}
        <5> TAKE s \in Slots
        <5>1. {u.part : u \in {[part |-> n, quantity |-> part.quantity]}} = {n}
          OBVIOUS
        <5>2. CASE t.base[s] = so.base[s]
          BY <5>2 DEF Harness!Chosen
        <5>3. CASE t.base[s] = Harness!Bound(part)
          BY <3>1, <5>1, <5>3 DEF Harness!Chosen
        <5> QED
          BY <4>1, <5>2, <5>3
      <4>3. IsFiniteSet({n}) /\ {n} \in SUBSET Nat
        BY FS_Singleton
      <4> QED
        BY <2>2, <4>1, <4>2, <4>3, CoreAssumption DEF IsBase, CoreSlots
    <3>5. IsBase(r[k + 1].base) /\ DOMAIN r[k + 1] = {"base", "locked", "refusals"}
      <4>1. CASE r[k + 1] = t
        BY <2>2, <3>3, <3>4, <4>1
      <4>2. CASE r[k + 1] = so
        BY <2>2, <4>2
      <4>3. CASE \E x : r[k + 1] = [so EXCEPT !.refusals = x]
        BY <2>2, <3>2, <4>3
      <4> QED
        BY <2>3, <4>1, <4>2, <4>3
    <3> QED
      BY <2>1, <3>5
  <2>5. CASE Cardinality(Harness!Matches(part)) # 1
    <3> HIDE DEF so, part
    <3>1. \A x : /\ DOMAIN [so EXCEPT !.refusals = x] = DOMAIN so
                 /\ [so EXCEPT !.refusals = x].base = so.base
      BY <2>2
    <3> QED
      BY <2>1, <2>2, <2>3, <2>5, <3>1
  <2> QED
    BY <2>4, <2>5
<1>9. \A k \in 0..Len(owned) : k \in K
  <2> HIDE DEF K
  <2> QED
    BY <1>4, <1>7, <1>8, Binding!UpTo
<1>10. IsBase(bound.base) /\ DOMAIN bound = {"base", "locked", "refusals"}
  BY <1>4, <1>5, <1>9
<1> QED
  BY <1>1, <1>10 DEF OrderTyped

-----------------------------------------------------------------------------
(* A base that can be built again *)

Welcome(s, n) == n \in Harness!Offers(s) /\ Harness!Admits(s, BrandOf(s), n)

\* What makes a base stay among the candidates.
BaseFits ==
  /\ order.base # Harness!NoBase
  /\ \A s \in Slots : \A n \in Harness!Chosen(order.base, s) : Welcome(s, n)
  /\ \A b \in Harness!Chosen(order.base, "motherboard") :
       /\ Harness!Part(b).socket # ""
       /\ \E c \in Harness!Chosen(order.base, "cpu") : Harness!Part(c).socket = Harness!Part(b).socket
  /\ \A m \in Harness!Chosen(order.base, "memory") :
       /\ Harness!Part(m).generation # ""
       /\ \E b \in Harness!Chosen(order.base, "motherboard") :
            Harness!Part(b).generation = Harness!Part(m).generation

LEMMA WorkingBaseFits ==
  ASSUME OrderTyped, Harness!BaseWorks
  PROVE  BaseFits
<1>1. \A s \in Slots : \A n \in Harness!Chosen(order.base, s) : Welcome(s, n)
  BY DEF Welcome, Harness!BaseWorks, Harness!Admits, BrandOf
<1> DEFINE part(s) == CHOOSE n \in Harness!Chosen(order.base, s) : TRUE
<1>2. \A s \in {"cpu", "motherboard", "memory"} : Harness!Chosen(order.base, s) = {part(s)}
  <2> SUFFICES ASSUME NEW s \in {"cpu", "motherboard", "memory"}
               PROVE  Harness!Chosen(order.base, s) = {part(s)}
    OBVIOUS
  <2> DEFINE S == Harness!Chosen(order.base, s)
  <2>1. S # {} /\ \A m, n \in S : m = n
    <3>1. s \in Slots \ {"gpu"} /\ order.base # Harness!NoBase
      BY CoreAssumption DEF CoreSlots, Harness!BaseWorks
    <3>2. order.base[s] # {}
      BY <3>1 DEF Harness!BaseWorks
    <3> QED
      <4>1. S # {}
        BY <3>2 DEF Harness!Chosen
      <4>2. IsBase(order.base)
        BY <3>1 DEF OrderTyped
      <4> QED
        BY <4>1, <4>2 DEF IsBase
  <2> HIDE DEF S
  <2>2. S = {CHOOSE n \in S : TRUE}
    BY <2>1
  <2> QED
    BY <2>2 DEF S
<1>3. \A s : Harness!The(order.base, s) = Harness!Part(part(s))
  BY DEF Harness!The
<1>4. \A r \in {"SOCKET_MATCH", "MEMORY_GENERATION"} :
        Harness!Outcome(r, order.base) \notin {"fail", "unknown"}
  <2>1. \A r \in {"SOCKET_MATCH", "MEMORY_GENERATION"} : r \in Harness!Rules
    BY CoreAssumption DEF Harness!Rules, Harness!Involved, Harness!ToSet, CoreSlots
  <2> QED
    BY <2>1 DEF Harness!BaseWorks, Harness!Status, Harness!Outcomes
<1> HIDE DEF part
<1>5. Harness!Part(part("motherboard")).socket # ""
      /\ Harness!Part(part("cpu")).socket = Harness!Part(part("motherboard")).socket
  BY <1>3, <1>4 DEF Harness!Outcome, Harness!Match
<1>6. Harness!Part(part("memory")).generation # ""
      /\ Harness!Part(part("motherboard")).generation = Harness!Part(part("memory")).generation
  BY <1>3, <1>4 DEF Harness!Outcome, Harness!Match
<1>7. order.base # Harness!NoBase
  BY DEF Harness!BaseWorks
<1> QED
  BY <1>1, <1>2, <1>5, <1>6, <1>7 DEF BaseFits

LEMMA EligibleStays ==
  ASSUME OrderTyped, NEW s \in Slots, order.base # Harness!NoBase,
         NEW n \in Harness!Chosen(order.base, s),
         Harness!Locked(s) \/ (Welcome(s, n) /\ Harness!Fits(s, MatesOf(s), n))
  PROVE  Stays(s, n)
<1>1. Holds(Harness!Base(s), n)
  BY BaseListed
<1>2. Harness!Lists[s].eligible = Harness!EligibleOf(s, MatesOf(s))
  BY ListOfSlot, BaseDrawn
<1>3. Holds(Harness!EligibleOf(s, MatesOf(s)), n)
  BY <1>1, EligibleListed DEF Welcome
<1> QED
  BY <1>1, <1>2, <1>3 DEF Stays

\* Processor, board and memory stay one for the other.
LEMMA FittingBaseStays ==
  ASSUME OrderTyped, BaseFits, NEW s \in Slots, NEW n \in Harness!Chosen(order.base, s)
  PROVE  Stays(s, n)
<1>0. /\ order.base # Harness!NoBase
      /\ \A t \in Slots : \A m \in Harness!Chosen(order.base, t) : Welcome(t, m)
  BY DEF BaseFits
<1>1. \A m \in Harness!Chosen(order.base, "cpu") : m \in Processors
  <2> TAKE m \in Harness!Chosen(order.base, "cpu")
  <2>1. "cpu" \in Slots /\ MatesOf("cpu") = {} /\ Harness!Fits("cpu", MatesOf("cpu"), m)
    BY CoreAssumption DEF CoreSlots, MatesOf, Harness!Fits
  <2>2. Stays("cpu", m)
    BY <1>0, <2>1, EligibleStays
  <2>3. IsList(Harness!Lists["cpu"].drawn) /\ Holds(Harness!Lists["cpu"].drawn, m)
    BY <2>1, <2>2, StaysDrawn
  <2> QED
    BY <2>1, <2>3, ListOfSlot, ToSetHolds DEF Processors
<1>2. \A m \in Harness!Chosen(order.base, "motherboard") : Stays("motherboard", m) /\ m \in Boards
  <2> TAKE m \in Harness!Chosen(order.base, "motherboard")
  <2>1. "motherboard" \in Slots /\ MatesOf("motherboard") = Processors
    BY CoreAssumption DEF CoreSlots, MatesOf
  <2>2. Harness!Fits("motherboard", Processors, m)
    BY <1>1 DEF BaseFits, Harness!Fits
  <2>3. Stays("motherboard", m)
    BY <1>0, <2>1, <2>2, EligibleStays
  <2>4. IsList(Harness!Lists["motherboard"].drawn) /\ Holds(Harness!Lists["motherboard"].drawn, m)
    BY <2>1, <2>3, StaysDrawn
  <2> QED
    BY <2>1, <2>3, <2>4, ListOfSlot, ToSetHolds DEF Boards
<1>3. Harness!Fits(s, MatesOf(s), n)
  BY <1>1, <1>2 DEF BaseFits, Harness!Fits, MatesOf
<1> QED
  BY <1>0, <1>3, EligibleStays

LEMMA FittingBaseOffered ==
  ASSUME OrderTyped, BaseFits, NEW s \in Slots
  PROVE  Harness!Chosen(order.base, s) \subseteq Harness!Candidates(Harness!Bundle, s)
BY FittingBaseStays, StaysInBundle

\* If no lock is refused, what is locked is offered.
LEMMA LocksAreOffered ==
  ASSUME OrderTyped, Harness!CandidateRefusals = {}, NEW s \in Slots, s \in order.locked
  PROVE  /\ order.base # Harness!NoBase
         /\ Harness!Chosen(order.base, s) \subseteq Harness!Candidates(Harness!Bundle, s)
<1>1. Harness!LockRefusals = {}
  BY DEF Harness!CandidateRefusals
<1>2. order.base # Harness!NoBase
  BY <1>1 DEF Harness!LockRefusals
<1>3. Harness!Locked(s)
  BY DEF Harness!Locked
<1> QED
  BY <1>2, <1>3, EligibleStays, StaysInBundle

-----------------------------------------------------------------------------
(* A run of the harness *)

Offering(sel, s) == Harness!Chosen(sel, s) \subseteq Harness!Candidates(bundle, s)

\* Outside of what a repair opens a draft has candidates or locked parts.
KeptIn(sel, mutable) == \A s \in Slots \ mutable : s \in order.locked \/ Offering(sel, s)

\* What the checks on the way to a delivery have shown.
Fulfils(sel) ==
  /\ \A s \in Slots : Offering(sel, s)
  /\ Harness!KeepsConstraints(sel)
  /\ Harness!Status(sel) # "fail" /\ Harness!Unpriced(sel) = {}
  /\ Harness!Amount(sel) \in Harness!Lower .. Harness!Upper

LEMMA DeliveredFulfils == Harness!DeliveredHolds <=> (outcome.kind = "delivered" => Fulfils(outcome.sel))
BY DEF Harness!DeliveredHolds, Fulfils, Offering

Idle == plan = Harness!NoPlan /\ previous = Harness!NoBase

HarnessTyped ==
  /\ OrderTyped
  /\ progress \in {"asked", "bound", "choosing", "done"}
  /\ progress # "done" => outcome = Harness!Open
  /\ progress \in {"asked", "bound"} => Idle

LocksOffered ==
  progress = "choosing" =>
    \A s \in Slots : s \in order.locked => order.base # Harness!NoBase /\ Offering(order.base, s)

BaseOffered == progress = "choosing" /\ BaseFits => \A s \in Slots : Offering(order.base, s)

RepairOpens == progress = "choosing" /\ Harness!Repairing => KeptIn(previous, plan.mutable)

\* Nothing that can be answered is paid for.
Hopeless ==
  ~\E sel \in Harness!Answers :
     /\ Harness!Affordable(sel)
     /\ \A i \in DOMAIN order.req.owned : sel[order.req.owned[i].slot] = Harness!Bound(order.req.owned[i])

LEMMA BoundOnHopeless ==
  Harness!BoundIsSound <=>
    (outcome.kind \in {"budget_lower_bound", "platform_budget_lower_bound"} => Hopeless)
BY DEF Harness!BoundIsSound, Hopeless

Kept ==
  /\ HarnessTyped /\ LocksOffered /\ BaseOffered /\ RepairOpens
  /\ Harness!DeliveredHolds /\ Harness!BoundIsSound
HarnessInv == subject = "harness" => Kept

\* An amount depends on the order and on the selection alone.
PriceIn(o, units) ==
  Harness!SumFunction([u \in {v \in units : o.catalogue[v.part].price # Harness!NoPrice} |->
                         u.quantity * o.catalogue[u.part].price])
PaidIn(o) == IF o.req.basis = "new_purchase"
             THEN Slots \ {o.req.owned[i].slot : i \in DOMAIN o.req.owned} ELSE Slots
AmountIn(o, sel) == Harness!SumFunction([s \in PaidIn(o) |-> PriceIn(o, sel[s])])

LEMMA AmountOfOrder == \A sel : Harness!Amount(sel) = AmountIn(order, sel)
BY DEF Harness!Amount, AmountIn, Harness!Price, PriceIn, Harness!Paid, PaidIn, Harness!Part, Harness!Owned

LEMMA AmountStays == order' = order => \A sel : (Harness!Amount(sel))' = Harness!Amount(sel)
<1>1. (\A sel : Harness!Amount(sel) = AmountIn(order, sel))'
  BY AmountOfOrder, PTL
<1> QED
  BY <1>1, AmountOfOrder

LEMMA StatusStays ==
  ASSUME order' = order, NEW sel
  PROVE  Harness!Status(sel)' = Harness!Status(sel)
<1>1. \A s : Harness!The(sel, s)' = Harness!The(sel, s)
  BY DEF Harness!The, Harness!Part, Harness!Chosen
<1>2. \A r \in Harness!Rules : Harness!Outcome(r, sel)' = Harness!Outcome(r, sel)
  <2>1. Harness!Outcome("SOCKET_MATCH", sel)' = Harness!Outcome("SOCKET_MATCH", sel)
    BY <1>1 DEF Harness!Outcome
  <2>2. Harness!Outcome("MEMORY_GENERATION", sel)' = Harness!Outcome("MEMORY_GENERATION", sel)
    BY <1>1 DEF Harness!Outcome
  <2>3. Harness!Outcome("FORM_FACTOR_SUPPORT", sel)' = Harness!Outcome("FORM_FACTOR_SUPPORT", sel)
    BY <1>1 DEF Harness!Outcome
  <2>4. Harness!Outcome("DISPLAY_OUTPUT", sel)' = Harness!Outcome("DISPLAY_OUTPUT", sel)
    BY <1>1 DEF Harness!Outcome
  <2> QED
    BY <2>1, <2>2, <2>3, <2>4 DEF Harness!Rules
<1>3. Harness!Outcomes(sel)' = Harness!Outcomes(sel)
  BY <1>2 DEF Harness!Outcomes
<1> QED
  BY <1>3 DEF Harness!Status

\* What can be answered, and at which price, depends on the order alone.
LEMMA HopelessStays == order' = order => (Hopeless <=> Hopeless')
<1> SUFFICES ASSUME order' = order PROVE Hopeless <=> Hopeless'
  OBVIOUS
<1>1. (\A n : Harness!Part(n)' = Harness!Part(n)) /\ \A s : Harness!Offers(s)' = Harness!Offers(s)
  BY DEF Harness!Part, Harness!Offers
<1>2. \A s : Harness!UnitChoices(s)' = Harness!UnitChoices(s)
  BY <1>1 DEF Harness!UnitChoices
<1>3. Harness!Answers' = Harness!Answers
  BY <1>2 DEF Harness!Answers
<1>4. \A part : Harness!Bound(part)' = Harness!Bound(part)
  <2>1. \A part : Harness!Matches(part)' = Harness!Matches(part)
    BY <1>1 DEF Harness!Matches
  <2> QED
    BY <2>1 DEF Harness!Bound
<1>5. \A sel : Harness!Affordable(sel)' <=> Harness!Affordable(sel)
  <2> TAKE sel
  <2>1. Harness!Status(sel)' = Harness!Status(sel)
    BY StatusStays
  <2>2. Harness!Unpriced(sel)' = Harness!Unpriced(sel)
    BY DEF Harness!Unpriced, Harness!Paid, Harness!Owned, Harness!Part, Harness!Chosen
  <2>3. Harness!Amount(sel)' = Harness!Amount(sel) /\ Harness!Upper' = Harness!Upper
    BY AmountStays DEF Harness!Upper
  <2> QED
    BY <2>1, <2>2, <2>3 DEF Harness!Affordable
<1> QED
  BY <1>3, <1>4, <1>5 DEF Hopeless

LEMMA FulfilsStays ==
  ASSUME NEW sel, Fulfils(sel), order' = order, bundle' = bundle
  PROVE  Fulfils(sel)'
<1>1. (\A s \in Slots : Offering(sel, s))'
  BY DEF Fulfils, Offering, Harness!Chosen, Harness!Candidates
<1>2. Harness!KeepsConstraints(sel)'
  BY DEF Fulfils, Harness!KeepsConstraints, Harness!GPUMissing, Harness!MandatoryGPU, Harness!Must,
         Harness!LocksBroken, Harness!TooManyChanges, Harness!Changed
<1>3. (Harness!Status(sel) # "fail")'
  BY StatusStays DEF Fulfils
<1>4. (Harness!Unpriced(sel) = {})'
  BY DEF Fulfils, Harness!Unpriced, Harness!Paid, Harness!Owned, Harness!Part, Harness!Chosen
<1>5. (Harness!Amount(sel) \in Harness!Lower .. Harness!Upper)'
  BY AmountStays DEF Fulfils, Harness!Lower, Harness!Upper
<1> QED
  BY <1>1, <1>2, <1>3, <1>4, <1>5 DEF Fulfils

\* What a step leaves alone stays as it was.
LEMMA OrderStays ==
  ASSUME order' = order
  PROVE  /\ OrderTyped <=> OrderTyped'
         /\ BaseFits <=> BaseFits'
<1>1. OrderTyped <=> OrderTyped'
  BY DEF OrderTyped, PricesKnown
<1>2. \A n : Harness!Part(n)' = Harness!Part(n)
  BY DEF Harness!Part
<1>3. \A s \in Slots : \A n : Welcome(s, n)' <=> Welcome(s, n)
  <2>1. \A s : BrandOf(s)' = BrandOf(s)
    BY DEF BrandOf, Harness!Brand, Harness!Prefer
  <2>2. Harness!Sizes' = Harness!Sizes
    BY DEF Harness!Sizes, Harness!Prefer
  <2> QED
    BY <1>2, <2>1, <2>2 DEF Welcome, Harness!Offers, Harness!Admits
<1>4. BaseFits <=> BaseFits'
  <2>1. \A s : Harness!Chosen(order.base, s)' = Harness!Chosen(order.base, s)
    BY DEF Harness!Chosen
  <2> QED
    BY <1>2, <1>3, <2>1 DEF BaseFits
<1> QED
  BY <1>1, <1>4

\* What the order, the bundle and the outcome say stays with them.
LEMMA RestStays ==
  ASSUME Kept, order' = order, bundle' = bundle, progress' = progress, outcome' = outcome,
         previous' = previous, plan' = plan
  PROVE  Kept'
<1>1. HarnessTyped'
  BY OrderStays DEF Kept, HarnessTyped, Idle
<1>2. \A sel : \A s \in Slots : Offering(sel, s)' <=> Offering(sel, s)
  BY DEF Offering, Harness!Chosen, Harness!Candidates
<1>3. LocksOffered'
  BY DEF Kept, LocksOffered, Offering, Harness!Chosen, Harness!Candidates
<1>4. BaseOffered'
  BY OrderStays DEF Kept, BaseOffered, Offering, Harness!Chosen, Harness!Candidates
<1>5. RepairOpens'
  BY DEF Kept, RepairOpens, KeptIn, Harness!Repairing, Offering, Harness!Chosen, Harness!Candidates
<1>6. Harness!DeliveredHolds'
  <2>1. (Harness!DeliveredHolds <=> (outcome.kind = "delivered" => Fulfils(outcome.sel)))'
    BY DeliveredFulfils, PTL
  <2> SUFFICES ASSUME outcome.kind = "delivered" PROVE Fulfils(outcome.sel)'
    BY <2>1
  <2>2. PICK sel : sel = outcome.sel
    OBVIOUS
  <2>3. Fulfils(sel)
    BY <2>2, DeliveredFulfils DEF Kept
  <2>4. Fulfils(sel)'
    BY <2>3, FulfilsStays
  <2> QED
    BY <2>2, <2>4 DEF Fulfils, Offering, Harness!Chosen, Harness!Candidates
<1>7. Harness!BoundIsSound'
  <2>1. (Harness!BoundIsSound <=>
           (outcome.kind \in {"budget_lower_bound", "platform_budget_lower_bound"} => Hopeless))'
    BY BoundOnHopeless, PTL
  <2> QED
    BY <2>1, BoundOnHopeless, HopelessStays DEF Kept
<1> QED
  BY <1>1, <1>3, <1>4, <1>5, <1>6, <1>7 DEF Kept

-----------------------------------------------------------------------------
(* Answers *)

Names == {"cpu", "gpu", "motherboard", "memory", "ssd", "psu", "case", "cooler"}

\* A choice takes each category to one of its choices.
LEMMA ProductChooses ==
  ASSUME NEW slots \in SUBSET Slots, NEW choices, NEW f \in Harness!Product(slots, choices)
  PROVE  /\ DOMAIN f = slots /\ f = [s \in slots |-> f[s]]
         /\ \A s \in slots : f[s] \in choices[s]
<1> DEFINE of(s) == IF s \in slots THEN choices[s] ELSE {{}}
<1>0. Harness!Product(slots, choices)
        = {Harness!Combined(slots, c, g, b, m, d, p, e, k) :
             c \in of("cpu"), g \in of("gpu"), b \in of("motherboard"), m \in of("memory"),
             d \in of("ssd"), p \in of("psu"), e \in of("case"), k \in of("cooler")}
  BY DEF Harness!Product
<1> HIDE DEF of
<1>1. PICK c \in of("cpu"), g \in of("gpu"), b \in of("motherboard"), m \in of("memory"),
           d \in of("ssd"), p \in of("psu"), e \in of("case"), k \in of("cooler") :
             f = Harness!Combined(slots, c, g, b, m, d, p, e, k)
  BY <1>0
<1>2. \A s \in slots : s \in Names
  BY HarnessAssumption DEF Names
<1>3. \A s \in slots : of(s) = choices[s]
  BY DEF of
<1>4. DOMAIN f = slots /\ f = [s \in slots |-> f[s]]
  BY <1>1 DEF Harness!Combined
<1>5. ASSUME NEW s \in slots PROVE f[s] \in of(s)
  BY <1>1, <1>2 DEF Names, Harness!Combined
<1> QED
  BY <1>3, <1>4, <1>5

LEMMA FewFinite ==
  ASSUME NEW a, NEW b, NEW c, NEW d
  PROVE  IsFiniteSet({a, b, c, d})
<1>1. IsFiniteSet({a}) /\ IsFiniteSet({b}) /\ IsFiniteSet({c}) /\ IsFiniteSet({d})
  BY FS_Singleton
<1>2. IsFiniteSet({a} \cup {b}) /\ IsFiniteSet({c} \cup {d})
  BY <1>1, FS_Union
<1>3. IsFiniteSet(({a} \cup {b}) \cup ({c} \cup {d}))
  BY <1>2, FS_Union
<1>4. ({a} \cup {b}) \cup ({c} \cup {d}) = {a, b, c, d}
  OBVIOUS
<1> QED
  BY <1>3, <1>4

LEMMA SlotsFinite == IsFiniteSet(Slots)
<1>1. IsFiniteSet({"cpu", "gpu", "motherboard", "memory"}) /\ IsFiniteSet({"ssd", "psu", "case", "cooler"})
  BY FewFinite
<1>2. IsFiniteSet({"cpu", "gpu", "motherboard", "memory"} \cup {"ssd", "psu", "case", "cooler"})
  BY <1>1, FS_Union
<1>3. Slots \subseteq {"cpu", "gpu", "motherboard", "memory"} \cup {"ssd", "psu", "case", "cooler"}
  BY HarnessAssumption
<1> QED
  BY <1>2, <1>3, FS_Subset

LEMMA AnswersChoose ==
  ASSUME NEW sel \in Harness!Answers
  PROVE  /\ DOMAIN sel = Slots
         /\ \A s \in Slots :
              \/ s = "gpu" /\ sel[s] = {}
              \/ \E n \in Harness!Offers(s), q \in Harness!Quantities(s) : sel[s] = Harness!Units(n, q)
<1> DEFINE choices == [s \in Slots |-> Harness!UnitChoices(s)]
<1>1. sel \in Harness!Product(Slots, choices)
  BY DEF Harness!Answers
<1>2. \A s \in Slots : choices[s] = Harness!UnitChoices(s)
  OBVIOUS
<1> HIDE DEF choices
<1>3. DOMAIN sel = Slots /\ \A s \in Slots : sel[s] \in choices[s]
  BY <1>1, ProductChooses
<1>4. \A s \in Slots : sel[s] \in Harness!UnitChoices(s)
  BY <1>2, <1>3
<1> QED
  BY <1>3, <1>4 DEF Harness!UnitChoices

-----------------------------------------------------------------------------
(* Prices *)

LEMMA HarnessSum == \A f : Harness!SumFunction(f) = Collecting!SumFunction(f)
BY DEF Harness!SumFunction, Harness!SumFunctionOnSet, Harness!FoldFunctionOnSet, Harness!MapThenFoldSet,
       Collecting!SumFunction, Collecting!SumFunctionOnSet, Collecting!FoldFunctionOnSet,
       Collecting!MapThenFoldSet

LEMMA CollectingFinite == \A S : IsFiniteSet(S) => Collecting!IsFiniteSet(S)
BY DEF Collecting!IsFiniteSet, IsFiniteSet

\* The sums of the parts of a function, for those the harness adds up.
LEMMA PartsOfSum ==
  ASSUME NEW f, IsFiniteSet(DOMAIN f), \A x \in DOMAIN f : f[x] \in Nat
  PROVE  \E g : /\ Harness!SumFunction(f) = g[DOMAIN f] /\ g[{}] = 0
                /\ \A s \in SUBSET DOMAIN f :
                     /\ g[s] \in Nat
                     /\ Harness!SumFunction([x \in s |-> f[x]]) = g[s]
                     /\ \A x \in s : g[s] = f[x] + g[s \ {x}]
<1>1. Collecting!IsFiniteSet(DOMAIN f)
  BY CollectingFinite
<1>2. \E g : /\ Collecting!SumFunction(f) = g[DOMAIN f] /\ g[{}] = 0
             /\ \A s \in SUBSET DOMAIN f :
                  /\ g[s] \in Nat
                  /\ Collecting!SumFunction([x \in s |-> f[x]]) = g[s]
                  /\ \A x \in s : g[s] = f[x] + g[s \ {x}]
  BY <1>1, Collecting!SumsOfParts
<1> QED
  BY <1>2, HarnessSum

LEMMA SumOrdered ==
  ASSUME NEW f, IsFiniteSet(DOMAIN f), \A x \in DOMAIN f : f[x] \in Nat,
         NEW h, IsFiniteSet(DOMAIN h), \A x \in DOMAIN h : h[x] \in Nat,
         \A x \in DOMAIN f : f[x] = 0 \/ (x \in DOMAIN h /\ f[x] <= h[x])
  PROVE  /\ Harness!SumFunction(f) \in Nat /\ Harness!SumFunction(h) \in Nat
         /\ Harness!SumFunction(f) <= Harness!SumFunction(h)
<1>1. Collecting!IsFiniteSet(DOMAIN f) /\ Collecting!IsFiniteSet(DOMAIN h)
  BY CollectingFinite
<1>2. Collecting!SumFunction(f) <= Collecting!SumFunction(h)
  BY <1>1, Collecting!SumAtMost
<1>3. Collecting!SumFunction(f) \in Nat /\ Collecting!SumFunction(h) \in Nat
  BY <1>1, Collecting!SumOfNaturals
<1> QED
  BY <1>2, <1>3, HarnessSum

LEMMA PriceOfUnits ==
  ASSUME NEW n, NEW q \in Nat, Harness!Part(n).price \in Nat
  PROVE  Harness!Price(Harness!Units(n, q)) = q * Harness!Part(n).price
<1> DEFINE u == [part |-> n, quantity |-> q]
           f == [v \in {w \in Harness!Units(n, q) : Harness!Part(w.part).price # Harness!NoPrice} |->
                   v.quantity * Harness!Part(v.part).price]
<1>1. Harness!Price(Harness!Units(n, q)) = Harness!SumFunction(f)
  BY DEF Harness!Price
<1>2. DOMAIN f = {u} /\ f[u] = q * Harness!Part(n).price
  <2>1. Harness!Part(n).price # Harness!NoPrice
    BY DEF Harness!NoPrice
  <2>2. {w \in Harness!Units(n, q) : Harness!Part(w.part).price # Harness!NoPrice} = {u}
    BY <2>1 DEF Harness!Units
  <2> QED
    BY <2>2
<1>0. f[u] \in Nat
  BY <1>2
<1> HIDE DEF f, u
<1>3. IsFiniteSet({u})
  BY FS_Singleton
<1>4. PICK g : /\ Harness!SumFunction(f) = g[DOMAIN f] /\ g[{}] = 0
               /\ \A s \in SUBSET DOMAIN f : \A x \in s : g[s] = f[x] + g[s \ {x}]
  <2>1. IsFiniteSet(DOMAIN f) /\ \A x \in DOMAIN f : f[x] \in Nat
    BY <1>0, <1>2, <1>3
  <2>2. \E g : /\ Harness!SumFunction(f) = g[DOMAIN f] /\ g[{}] = 0
               /\ \A s \in SUBSET DOMAIN f :
                    /\ g[s] \in Nat
                    /\ Harness!SumFunction([x \in s |-> f[x]]) = g[s]
                    /\ \A x \in s : g[s] = f[x] + g[s \ {x}]
    BY <2>1, PartsOfSum
  <2> QED
    BY <2>2
<1>5. g[{u}] = f[u] + g[{}]
  <2>1. {u} \ {u} = {}
    OBVIOUS
  <2> QED
    BY <1>2, <1>4, <2>1
<1>6. g[{u}] = f[u]
  BY <1>0, <1>4, <1>5
<1> QED
  BY <1>1, <1>2, <1>4, <1>6

LEMMA PriceOfNothing == Harness!Price({}) = 0
<1> DEFINE f == [v \in {w \in {} : Harness!Part(w.part).price # Harness!NoPrice} |->
                   v.quantity * Harness!Part(v.part).price]
<1>1. Harness!Price({}) = Harness!SumFunction(f)
  BY DEF Harness!Price
<1>2. DOMAIN f = {}
  OBVIOUS
<1> HIDE DEF f
<1>3. IsFiniteSet(DOMAIN f) /\ \A x \in DOMAIN f : f[x] \in Nat
  BY <1>2, FS_EmptySet
<1>4. PICK g : Harness!SumFunction(f) = g[DOMAIN f] /\ g[{}] = 0
  BY <1>3, PartsOfSum
<1> QED
  BY <1>1, <1>2, <1>4

LEMMA CheapestOfKnown ==
  ASSUME PricesKnown, NEW s
  PROVE  /\ Harness!Cheapest(s) \in Nat
         /\ Harness!Cheapest(s) # 0 =>
              /\ ~Harness!Free(s)
              /\ \A n \in Harness!Offers(s) :
                   Harness!Part(n).price # Harness!NoPrice => Harness!Cheapest(s) <= Harness!Part(n).price
<1> DEFINE S == Harness!Prices(s)
<1>1. S \in SUBSET Nat
  BY DEF Harness!Prices, Harness!Offers, Harness!Part, PricesKnown
<1>2. \A n \in Harness!Offers(s) : Harness!Part(n).price # Harness!NoPrice => Harness!Part(n).price \in S
  BY DEF Harness!Prices
<1>3. Harness!Cheapest(s) = IF Harness!Free(s) \/ S = {} THEN 0 ELSE Harness!Min(S)
  BY DEF Harness!Cheapest
<1> HIDE DEF S
<1>4. S # {} => Harness!Min(S) \in S /\ \A x \in S : Harness!Min(S) <= x
  BY <1>1, Collecting!LeastOf DEF Harness!Min
<1>5. CASE Harness!Free(s) \/ S = {}
  BY <1>3, <1>5
<1>6. CASE ~(Harness!Free(s) \/ S = {})
  <2>1. Harness!Cheapest(s) = Harness!Min(S) /\ Harness!Min(S) \in Nat
    BY <1>1, <1>3, <1>4, <1>6
  <2>2. \A n \in Harness!Offers(s) :
          Harness!Part(n).price # Harness!NoPrice => Harness!Min(S) <= Harness!Part(n).price
    BY <1>2, <1>4, <1>6
  <2> QED
    BY <1>6, <2>1, <2>2
<1> QED
  BY <1>5, <1>6

\* What a category of an answer that is paid for costs at least.
LEMMA PaidPrices ==
  ASSUME PricesKnown, NEW sel \in Harness!Answers, Harness!Unpriced(sel) = {}, NEW s \in Harness!Paid
  PROVE  /\ Harness!Price(sel[s]) \in Nat
         /\ s # "gpu" \/ sel[s] # {} => Harness!Cheapest(s) <= Harness!Price(sel[s])
         /\ \A n \in Harness!Chosen(sel, s) :
              /\ n \in Harness!Offers(s) /\ Harness!Part(n).price \in Nat
              /\ Harness!Part(n).price <= Harness!Price(sel[s])
<1>1. s \in Slots
  BY DEF Harness!Paid
<1>2. Harness!Cheapest(s) \in Nat
  BY CheapestOfKnown
<1>3. CASE s = "gpu" /\ sel[s] = {}
  <2>1. Harness!Chosen(sel, s) = {}
    BY <1>3 DEF Harness!Chosen
  <2> QED
    BY <1>3, <2>1, PriceOfNothing
<1>4. ASSUME NEW n \in Harness!Offers(s), NEW q \in Harness!Quantities(s), sel[s] = Harness!Units(n, q)
      PROVE  /\ Harness!Chosen(sel, s) = {n} /\ Harness!Part(n).price \in Nat
             /\ Harness!Price(sel[s]) \in Nat /\ Harness!Part(n).price <= Harness!Price(sel[s])
             /\ Harness!Cheapest(s) <= Harness!Price(sel[s])
  <2>1. Harness!Chosen(sel, s) = {n}
    BY <1>4 DEF Harness!Chosen, Harness!Units
  <2>2. Harness!Part(n).price # Harness!NoPrice
    BY <2>1 DEF Harness!Unpriced
  <2>3. Harness!Part(n).price \in Nat
    BY <2>2 DEF Harness!Offers, Harness!Part, PricesKnown
  <2>4. q \in {1, 2}
    BY DEF Harness!Quantities
  <2> DEFINE price == Harness!Part(n).price
  <2>5. Harness!Price(sel[s]) = q * price
    BY <1>4, <2>3, <2>4, PriceOfUnits
  <2>6. Harness!Cheapest(s) <= price
    BY <1>2, <2>2, <2>3, CheapestOfKnown
  <2> HIDE DEF price
  <2>7. price \in Nat
    BY <2>3 DEF price
  <2>8. q * price \in Nat /\ price <= q * price
    BY <2>4, <2>7
  <2>9. Harness!Cheapest(s) <= q * price
    BY <1>2, <2>6, <2>7, <2>8
  <2> QED
    BY <2>1, <2>3, <2>5, <2>8, <2>9 DEF price
<1> QED
  BY <1>1, <1>3, <1>4, AnswersChoose

LEMMA CategoriesHopeless ==
  ASSUME PricesKnown, Harness!Upper \in Int, Harness!CategoryBound > Harness!Upper
  PROVE  Hopeless
<1> SUFFICES ASSUME NEW sel \in Harness!Answers, Harness!Affordable(sel),
                    \A i \in DOMAIN order.req.owned :
                      sel[order.req.owned[i].slot] = Harness!Bound(order.req.owned[i])
             PROVE  FALSE
  BY DEF Hopeless
<1> DEFINE needed == {t \in Slots : Harness!Needed(t)}
           f == [s \in needed |-> Harness!Cheapest(s)]
           h == [s \in Harness!Paid |-> Harness!Price(sel[s])]
<1>1. Harness!CategoryBound = Harness!SumFunction(f) /\ Harness!Amount(sel) = Harness!SumFunction(h)
  BY DEF Harness!CategoryBound, Harness!Amount
<1>2. Harness!Unpriced(sel) = {} /\ Harness!Amount(sel) <= Harness!Upper
      /\ (order.req.use = "gaming" => sel["gpu"] # {})
  BY DEF Harness!Affordable
<1>3. Harness!Paid \in SUBSET Slots
  BY DEF Harness!Paid
<1>4. IsFiniteSet(needed) /\ IsFiniteSet(Harness!Paid)
  BY <1>3, SlotsFinite, FS_Subset
<1>5. (\A s \in needed : Harness!Cheapest(s) \in Nat) /\ \A s \in Harness!Paid : Harness!Price(sel[s]) \in Nat
  BY <1>2, CheapestOfKnown, PaidPrices
<1>6. ASSUME NEW s \in needed, Harness!Cheapest(s) # 0
      PROVE  s \in Harness!Paid /\ Harness!Cheapest(s) <= Harness!Price(sel[s])
  <2>1. ~Harness!Free(s)
    BY <1>6, CheapestOfKnown
  <2>2. s \in Harness!Paid
    BY <2>1 DEF Harness!Free, Harness!Paid
  <2>3. s # "gpu" \/ sel[s] # {}
    <3>1. ASSUME s = "gpu", order.req.use # "gaming" PROVE sel[s] # {}
      <4>1. PICK i \in DOMAIN order.req.owned : order.req.owned[i].slot = s
        BY <3>1 DEF Harness!Needed, Harness!Owned
      <4>2. sel[s] = Harness!Bound(order.req.owned[i])
        BY <4>1
      <4> QED
        BY <4>2 DEF Harness!Bound, Harness!Units
    <3> QED
      BY <1>2, <3>1
  <2> QED
    BY <1>2, <2>2, <2>3, PaidPrices
<1>7. DOMAIN f = needed /\ DOMAIN h = Harness!Paid
      /\ (\A s \in needed : f[s] = Harness!Cheapest(s))
      /\ \A s \in Harness!Paid : h[s] = Harness!Price(sel[s])
  OBVIOUS
<1> HIDE DEF f, h, needed
<1>8. /\ Harness!SumFunction(f) \in Nat /\ Harness!SumFunction(h) \in Nat
      /\ Harness!SumFunction(f) <= Harness!SumFunction(h)
  <2>1. /\ IsFiniteSet(DOMAIN f) /\ \A s \in DOMAIN f : f[s] \in Nat
        /\ IsFiniteSet(DOMAIN h) /\ \A s \in DOMAIN h : h[s] \in Nat
    BY <1>4, <1>5, <1>7
  <2>2. \A s \in DOMAIN f : f[s] = 0 \/ (s \in DOMAIN h /\ f[s] <= h[s])
    BY <1>6, <1>7
  <2> QED
    BY <2>1, <2>2, SumOrdered
<1> QED
  BY <1>1, <1>2, <1>8

\* A build that breaks no rule names a platform whose parts are not known to clash,
\* with a card if the processor is known to have no graphics.
LEMMA BuildsNamePlatforms ==
  ASSUME NEW sel \in Harness!Answers, Harness!Status(sel) # "fail"
  PROVE  \E c \in Harness!Offers("cpu"), b \in Harness!Offers("motherboard"), m \in Harness!Offers("memory") :
           /\ Harness!Chosen(sel, "cpu") = {c} /\ Harness!Chosen(sel, "motherboard") = {b}
           /\ Harness!Chosen(sel, "memory") = {m}
           /\ <<c, b, m>> \in Harness!Platforms
           /\ Harness!Part(c).igpu = "no" => sel["gpu"] # {}
<1>1. {"cpu", "gpu", "motherboard", "memory"} \subseteq Slots
  BY HarnessAssumption
<1>2. ASSUME NEW s \in Slots, s # "gpu"
      PROVE  \E n \in Harness!Offers(s) : Harness!Chosen(sel, s) = {n}
  <2>1. PICK n \in Harness!Offers(s), q \in Harness!Quantities(s) : sel[s] = Harness!Units(n, q)
    BY <1>2, AnswersChoose
  <2> QED
    BY <2>1 DEF Harness!Chosen, Harness!Units
<1>3. PICK c \in Harness!Offers("cpu") : Harness!Chosen(sel, "cpu") = {c}
  BY <1>1, <1>2
<1>4. PICK b \in Harness!Offers("motherboard") : Harness!Chosen(sel, "motherboard") = {b}
  BY <1>1, <1>2
<1>5. PICK m \in Harness!Offers("memory") : Harness!Chosen(sel, "memory") = {m}
  BY <1>1, <1>2
<1>6. /\ Harness!The(sel, "cpu") = Harness!Part(c) /\ Harness!The(sel, "motherboard") = Harness!Part(b)
      /\ Harness!The(sel, "memory") = Harness!Part(m)
  BY <1>3, <1>4, <1>5 DEF Harness!The
<1>7. {"SOCKET_MATCH", "MEMORY_GENERATION", "DISPLAY_OUTPUT"} \subseteq Harness!Rules
  BY <1>1 DEF Harness!Rules, Harness!Involved, Harness!ToSet
<1>8. \A r \in Harness!Rules : Harness!Outcome(r, sel) # "fail"
  BY DEF Harness!Status, Harness!Outcomes
<1>9. ~Harness!KnownDifferent(Harness!Part(c).socket, Harness!Part(b).socket)
  <2>1. Harness!Match(Harness!Part(c).socket, Harness!Part(b).socket) # "fail"
    BY <1>6, <1>7, <1>8 DEF Harness!Outcome
  <2> QED
    BY <2>1 DEF Harness!Match, Harness!KnownDifferent
<1>10. ~Harness!KnownDifferent(Harness!Part(b).generation, Harness!Part(m).generation)
  <2>1. Harness!Match(Harness!Part(m).generation, Harness!Part(b).generation) # "fail"
    BY <1>6, <1>7, <1>8 DEF Harness!Outcome
  <2> QED
    BY <2>1 DEF Harness!Match, Harness!KnownDifferent
<1>11. Harness!Part(c).igpu = "no" => sel["gpu"] # {}
  <2>1. sel["gpu"] # {} \/ Harness!Match(Harness!Part(c).igpu, "yes") # "fail"
    BY <1>6, <1>7, <1>8 DEF Harness!Outcome
  <2> QED
    BY <2>1 DEF Harness!Match
<1>12. <<c, b, m>> \in Harness!Platforms
  <2> DEFINE p == <<c, b, m>>
  <2>1. p \in Harness!Offers("cpu") \X Harness!Offers("motherboard") \X Harness!Offers("memory")
        /\ p[1] = c /\ p[2] = b /\ p[3] = m
    OBVIOUS
  <2> HIDE DEF p
  <2>2. p \in Harness!Platforms
    BY <1>9, <1>10, <2>1 DEF Harness!Platforms
  <2> QED
    BY <2>2 DEF p
<1> QED
  BY <1>3, <1>4, <1>5, <1>11, <1>12

LEMMA PlatformsHopeless ==
  ASSUME PricesKnown, Harness!Upper \in Int, Harness!PlatformBoundKnown,
         \A p \in Harness!Platforms : Harness!PlatformPrice(p) > Harness!Upper
  PROVE  Hopeless
<1> SUFFICES ASSUME NEW sel \in Harness!Answers, Harness!Affordable(sel)
             PROVE  FALSE
  BY DEF Hopeless
<1>1. Harness!Unpriced(sel) = {} /\ Harness!Amount(sel) <= Harness!Upper /\ Harness!Status(sel) # "fail"
  BY DEF Harness!Affordable
<1>2. PICK c \in Harness!Offers("cpu"), b \in Harness!Offers("motherboard"), m \in Harness!Offers("memory") :
           /\ Harness!Chosen(sel, "cpu") = {c} /\ Harness!Chosen(sel, "motherboard") = {b}
           /\ Harness!Chosen(sel, "memory") = {m}
           /\ <<c, b, m>> \in Harness!Platforms
           /\ Harness!Part(c).igpu = "no" => sel["gpu"] # {}
  BY <1>1, BuildsNamePlatforms
<1>3. Harness!Paid = Slots
  BY DEF Harness!PlatformBoundKnown, Harness!Paid
<1>4. {"cpu", "gpu", "motherboard", "memory"} \subseteq Slots
  BY HarnessAssumption
<1> DEFINE h == [s \in Slots |-> Harness!Price(sel[s])]
           rest == Slots \ {"cpu", "gpu", "motherboard", "memory"}
           k == [s \in rest |-> Harness!Cheapest(s)]
           card == IF Harness!Part(c).igpu = "no" THEN Harness!Cheapest("gpu") ELSE 0
<1>5. DOMAIN h = Slots /\ DOMAIN k = rest /\ IsFiniteSet(Slots) /\ IsFiniteSet(rest)
  BY SlotsFinite, FS_Subset
<1>6. \A s \in Slots : h[s] \in Nat /\ (s # "gpu" \/ sel[s] # {} => Harness!Cheapest(s) <= h[s])
  BY <1>1, <1>3, PaidPrices
<1>7. /\ Harness!Part(c).price \in Nat /\ Harness!Part(c).price <= h["cpu"]
      /\ Harness!Part(b).price \in Nat /\ Harness!Part(b).price <= h["motherboard"]
      /\ Harness!Part(m).price \in Nat /\ Harness!Part(m).price <= h["memory"]
  BY <1>1, <1>2, <1>3, <1>4, PaidPrices
<1>8. card \in Nat /\ card <= h["gpu"]
  <2>1. Harness!Cheapest("gpu") \in Nat /\ h["gpu"] \in Nat
    BY <1>4, <1>6, CheapestOfKnown
  <2>2. Harness!Part(c).igpu = "no" => Harness!Cheapest("gpu") <= h["gpu"]
    BY <1>2, <1>4, <1>6
  <2> HIDE DEF h
  <2> QED
    BY <2>1, <2>2
<1>9. \A s \in rest : k[s] \in Nat /\ s \in Slots /\ k[s] <= h[s]
  BY <1>6, CheapestOfKnown
<1>10. Harness!Amount(sel) = Harness!SumFunction(h)
  BY <1>3 DEF Harness!Amount
<1>11. Harness!PlatformPrice(<<c, b, m>>)
         = Harness!Part(c).price + Harness!Part(b).price + Harness!Part(m).price + card
             + Harness!SumFunction(k)
  BY DEF Harness!PlatformPrice
<1>12. Harness!PlatformPrice(<<c, b, m>>) > Harness!Upper
  BY <1>2
<1> DEFINE others == [s \in rest |-> h[s]]
<1>13. DOMAIN others = rest /\ \A s \in rest : others[s] = h[s] /\ others[s] \in Nat
  BY <1>9, <1>6
<1> HIDE DEF h, k, card
<1>14. \E g : /\ Harness!SumFunction(h) = g[DOMAIN h] /\ g[{}] = 0
              /\ \A s \in SUBSET DOMAIN h :
                   /\ g[s] \in Nat
                   /\ Harness!SumFunction([x \in s |-> h[x]]) = g[s]
                   /\ \A x \in s : g[s] = h[x] + g[s \ {x}]
  <2>1. IsFiniteSet(DOMAIN h) /\ \A x \in DOMAIN h : h[x] \in Nat
    BY <1>5, <1>6
  <2> QED
    BY <2>1, PartsOfSum
<1>15. PICK g : /\ Harness!SumFunction(h) = g[Slots]
                /\ \A s \in SUBSET Slots :
                     /\ g[s] \in Nat
                     /\ Harness!SumFunction([x \in s |-> h[x]]) = g[s]
                     /\ \A x \in s : g[s] = h[x] + g[s \ {x}]
  BY <1>5, <1>14
<1>16. g[Slots] = h["cpu"] + (h["motherboard"] + (h["memory"] + (h["gpu"] + g[rest])))
  <2> DEFINE T1 == Slots \ {"cpu"}
             T2 == T1 \ {"motherboard"}
             T3 == T2 \ {"memory"}
             T4 == T3 \ {"gpu"}
  <2>1. /\ Slots \in SUBSET Slots /\ T1 \in SUBSET Slots /\ T2 \in SUBSET Slots /\ T3 \in SUBSET Slots
        /\ "cpu" \in Slots /\ "motherboard" \in T1 /\ "memory" \in T2 /\ "gpu" \in T3
    BY <1>4
  <2>2. T4 = rest
    OBVIOUS
  <2>3. g[Slots] = h["cpu"] + g[T1] /\ g[T1] = h["motherboard"] + g[T2]
        /\ g[T2] = h["memory"] + g[T3] /\ g[T3] = h["gpu"] + g[T4]
    BY <1>15, <2>1
  <2> HIDE DEF T1, T2, T3, T4, rest
  <2> QED
    BY <2>2, <2>3
<1>17. g[rest] \in Nat /\ Harness!SumFunction(others) = g[rest]
  BY <1>15
<1>18. Harness!SumFunction(k) \in Nat /\ Harness!SumFunction(k) <= Harness!SumFunction(others)
  <2> HIDE DEF others
  <2>1. /\ IsFiniteSet(DOMAIN k) /\ \A s \in DOMAIN k : k[s] \in Nat
        /\ IsFiniteSet(DOMAIN others) /\ \A s \in DOMAIN others : others[s] \in Nat
    BY <1>5, <1>9, <1>13
  <2>2. \A s \in DOMAIN k : k[s] = 0 \/ (s \in DOMAIN others /\ k[s] <= others[s])
    BY <1>5, <1>9, <1>13
  <2> QED
    BY <2>1, <2>2, SumOrdered
<1>19. h["cpu"] \in Nat /\ h["motherboard"] \in Nat /\ h["memory"] \in Nat /\ h["gpu"] \in Nat
  BY <1>4, <1>6
<1> DEFINE x == Harness!Part(c).price
           y == Harness!Part(b).price
           z == Harness!Part(m).price
           sumk == Harness!SumFunction(k)
           total == Harness!SumFunction(h)
           left == g[rest]
           hc == h["cpu"]
           hb == h["motherboard"]
           hm == h["memory"]
           hg == h["gpu"]
           limit == Harness!Upper
<1>20. /\ x \in Nat /\ y \in Nat /\ z \in Nat /\ card \in Nat /\ sumk \in Nat /\ left \in Nat
       /\ hc \in Nat /\ hb \in Nat /\ hm \in Nat /\ hg \in Nat /\ limit \in Int
       /\ x <= hc /\ y <= hb /\ z <= hm /\ card <= hg /\ sumk <= left
       /\ total = hc + (hb + (hm + (hg + left))) /\ total <= limit
       /\ x + y + z + card + sumk > limit
  BY <1>1, <1>7, <1>8, <1>10, <1>11, <1>12, <1>15, <1>16, <1>17, <1>18, <1>19
<1> HIDE DEF x, y, z, sumk, total, left, hc, hb, hm, hg, limit
<1> QED
  BY <1>20
-----------------------------------------------------------------------------
(* Refusals deliver nothing, and are deserved *)

Deserved(kind) ==
  /\ kind # "delivered"
  /\ kind \in {"budget_lower_bound", "platform_budget_lower_bound"} => Hopeless
Refuses(checks) == \A r \in checks : Deserved(r.reason)

LEMMA FirstRefuses ==
  ASSUME NEW checks, \A i \in DOMAIN checks : Refuses(checks[i])
  PROVE  Refuses(Harness!FirstRefusal(checks))
BY DEF Refuses, Harness!FirstRefusal

LEMMA OwnedRefuses == OrderTyped => Refuses(Harness!BindOwned.refusals)
<1> SUFFICES ASSUME OrderTyped PROVE Refuses(Harness!BindOwned.refusals)
  OBVIOUS
<1> DEFINE owned == order.req.owned
           start == [base     |-> IF order.base = Harness!NoBase THEN Harness!EmptySelection ELSE order.base,
                     locked   |-> order.locked,
                     refusals |-> {}]
           bound == Harness!FoldLeft(Harness!BindOne, start, owned)
           Tame(so) == DOMAIN so = {"base", "locked", "refusals"} /\ Refuses(so.refusals)
<1>1. Harness!BindOwned = [bound EXCEPT !.base = IF owned = <<>> THEN order.base ELSE @]
  BY DEF Harness!BindOwned
<1>2. bound = Binding!Folded({}, start, owned)
  BY DEF Binding!Folded, Binding!FoldLeft, Binding!MapThenFoldSet, Binding!Max,
         Harness!FoldLeft, Harness!MapThenFoldSet, Harness!Max, BindNext
<1>3. Tame(start)
  BY DEF Refuses
<1>4. Len(owned) \in Nat /\ DOMAIN owned = 1..Len(owned)
  BY DEF OrderTyped, IsList
<1>5. ASSUME NEW so, NEW part, Tame(so) PROVE Tame(Harness!BindOne(so, part))
  <2>1. \/ Harness!BindOne(so, part) = so
        \/ Harness!BindOne(so, part)
             = [so EXCEPT !.refusals = {Harness!Refusal("data_unavailable", "owned_model_unresolved", {part.slot})}]
        \/ Harness!BindOne(so, part)
             = [so EXCEPT !.refusals = {Harness!Refusal("clarify", "owned_lock_conflict", {part.slot})}]
        \/ Harness!BindOne(so, part)
             = [so EXCEPT !.base[part.slot] = Harness!Bound(part), !.locked = @ \cup {part.slot}]
    BY DEF Harness!BindOne
  <2>2. \A x : DOMAIN [so EXCEPT !.refusals = x] = DOMAIN so /\ [so EXCEPT !.refusals = x].refusals = x
    BY <1>5
  <2>3. /\ Refuses({Harness!Refusal("data_unavailable", "owned_model_unresolved", {part.slot})})
        /\ Refuses({Harness!Refusal("clarify", "owned_lock_conflict", {part.slot})})
    BY DEF Refuses, Deserved, Harness!Refusal
  <2> DEFINE t == [so EXCEPT !.base[part.slot] = Harness!Bound(part), !.locked = @ \cup {part.slot}]
  <2>4. DOMAIN t = DOMAIN so /\ t.refusals = so.refusals
    BY <1>5
  <2> QED
    BY <1>5, <2>1, <2>2, <2>3, <2>4
<1> HIDE DEF start, bound, Tame
<1>6. PICK r : Binding!History(r, {}, start, owned) /\ bound = r[Len(owned)]
  BY <1>2, <1>4, Binding!Unfolds
<1>7. r[0] = start /\ \A i \in 1..Len(owned) : r[i] = Harness!BindOne(r[i - 1], owned[i])
  BY <1>6 DEF Binding!History, BindNext
<1> DEFINE K == {k \in 0..Len(owned) : Tame(r[k])}
<1>8. 0 \in K
  BY <1>3, <1>4, <1>7
<1>9. ASSUME NEW k \in 0 .. (Len(owned) - 1), k \in K PROVE k + 1 \in K
  <2>1. k + 1 \in 1..Len(owned) /\ r[k + 1] = Harness!BindOne(r[k], owned[k + 1])
    BY <1>4, <1>7
  <2> QED
    BY <1>5, <1>9, <2>1
<1>10. \A k \in 0..Len(owned) : k \in K
  <2> HIDE DEF K
  <2> QED
    BY <1>4, <1>8, <1>9, Binding!UpTo
<1>11. Tame(bound)
  BY <1>4, <1>6, <1>10
<1> QED
  BY <1>1, <1>11 DEF Tame

LEMMA RequestRefuses ==
  ASSUME OrderTyped
  PROVE  Refuses(Harness!FirstRefusal(
           <<Harness!Clarification, Harness!UnverifiedMandatory, Harness!AssessCatalog>>))
<1>1. Refuses(Harness!Clarification)
  <2> DEFINE asked == Harness!Refusal("clarify", "missing_owned_information",
                                      order.req.existing \ Harness!Owned)
  <2>1. Harness!Clarification \in {{asked}, {}}
    BY DEF Harness!Clarification
  <2>2. asked.reason = "missing_owned_information"
    BY DEF Harness!Refusal
  <2> HIDE DEF asked
  <2> QED
    BY <2>1, <2>2 DEF Refuses, Deserved
<1>2. Refuses(Harness!UnverifiedMandatory)
  BY DEF Refuses, Deserved, Harness!UnverifiedMandatory, Harness!Refusal
<1>3. Refuses(Harness!AssessCatalog)
  <2> DEFINE absent == {Harness!Refusal("data_unavailable", "catalog_category_missing", {s}) : s \in Harness!Absent}
             costs  == IF Harness!CategoryBoundKnown /\ Harness!CategoryBound > Harness!Upper
                       THEN {Harness!Refusal("catalog_infeasible", "budget_lower_bound", {})} ELSE {}
             wanted == IF /\ Harness!PlatformBoundKnown
                          /\ Harness!Platforms # {}
                          /\ \A p \in Harness!Platforms : Harness!PlatformPrice(p) > Harness!Upper
                       THEN {Harness!Refusal("catalog_infeasible", "platform_budget_lower_bound", {})} ELSE {}
             checks == <<Harness!Clarification, Harness!BindOwned.refusals, absent, costs, wanted>>
  <2>0. PricesKnown /\ Harness!Upper \in Int
    BY DEF OrderTyped, Harness!Upper
  <2>1. Refuses(absent) /\ Refuses(costs) /\ Refuses(wanted)
    <3>1. Refuses(absent)
      BY DEF Refuses, Deserved, Harness!Refusal
    <3>2. Refuses(costs)
      BY <2>0, CategoriesHopeless DEF Refuses, Deserved, Harness!Refusal
    <3>3. Refuses(wanted)
      BY <2>0, PlatformsHopeless DEF Refuses, Deserved, Harness!Refusal
    <3> QED
      BY <3>1, <3>2, <3>3
  <2>2. Harness!AssessCatalog = Harness!FirstRefusal(checks)
    BY DEF Harness!AssessCatalog
  <2> HIDE DEF absent, costs, wanted
  <2>3. \A i \in DOMAIN checks : Refuses(checks[i])
    BY <1>1, <2>1, OwnedRefuses
  <2> HIDE DEF checks
  <2> QED
    BY <2>2, <2>3, FirstRefuses
<1> DEFINE checks == <<Harness!Clarification, Harness!UnverifiedMandatory, Harness!AssessCatalog>>
<1>4. \A i \in DOMAIN checks : Refuses(checks[i])
  BY <1>1, <1>2, <1>3
<1> HIDE DEF checks
<1>5. Refuses(Harness!FirstRefusal(checks))
  BY <1>4, FirstRefuses
<1> QED
  BY <1>5 DEF checks

LEMMA CandidatesRefuse == Refuses(Harness!CandidateRefusals)
<1>1. Refuses(Harness!LockRefusals)
  BY DEF Refuses, Deserved, Harness!LockRefusals, Harness!Refusal
<1> DEFINE checks == Harness!MissingFrom(Harness!Lists)
<1>2. \A i \in DOMAIN checks : Refuses(checks[i])
  BY DEF Refuses, Deserved, Harness!MissingFrom, Harness!Missing, Harness!NoCandidates, Harness!Refusal
<1>3. Harness!CandidateRefusals
        = IF Harness!LockRefusals # {} THEN Harness!LockRefusals ELSE Harness!FirstRefusal(checks)
  BY DEF Harness!CandidateRefusals
<1> HIDE DEF checks
<1> QED
  BY <1>1, <1>2, <1>3, FirstRefuses

-----------------------------------------------------------------------------
(* Steps of a run *)

\* A run that ends without a delivery promises nothing.
LEMMA EndKeeps ==
  ASSUME Kept, NEW kind, NEW sel, Deserved(kind), Harness!End(kind, sel), order' = order
  PROVE  Kept'
<1>1. progress' = "done" /\ outcome'.kind = kind /\ kind # "delivered"
  BY DEF Harness!End, Deserved
<1>2. HarnessTyped'
  BY <1>1, OrderStays DEF Kept, HarnessTyped
<1>3. Harness!BoundIsSound'
  <2>1. (Harness!BoundIsSound <=>
           (outcome.kind \in {"budget_lower_bound", "platform_budget_lower_bound"} => Hopeless))'
    BY BoundOnHopeless, PTL
  <2> QED
    BY <1>1, <2>1, HopelessStays DEF Deserved
<1> QED
  BY <1>1, <1>2, <1>3 DEF Kept, LocksOffered, BaseOffered, RepairOpens, Harness!DeliveredHolds

\* While it goes on only the repair changes.
LEMMA AttemptKeeps ==
  ASSUME Kept, progress = "choosing", order' = order, bundle' = bundle, progress' = progress,
         outcome' = outcome, RepairOpens'
  PROVE  Kept'
<1>1. HarnessTyped'
  BY OrderStays DEF Kept, HarnessTyped
<1>2. LocksOffered'
  BY DEF Kept, LocksOffered, Offering, Harness!Chosen, Harness!Candidates
<1>3. BaseOffered'
  BY OrderStays DEF Kept, BaseOffered, Offering, Harness!Chosen, Harness!Candidates
<1>4. outcome'.kind = "open"
  BY DEF Kept, HarnessTyped, Harness!Open
<1>5. Harness!DeliveredHolds' /\ Harness!BoundIsSound'
  BY <1>4 DEF Harness!DeliveredHolds, Harness!BoundIsSound
<1> QED
  BY <1>1, <1>2, <1>3, <1>5 DEF Kept

\* A draft that follows its repair has what is offered where it is not found out.
LEMMA OthersOffered ==
  ASSUME Kept, progress = "choosing", NEW sel, Harness!Repairing => Harness!FollowsPlan(sel),
         NEW s \in Slots, s \notin Harness!Outsiders(sel)
  PROVE  s \in order.locked \/ Offering(sel, s)
<1>1. CASE s \in (IF Harness!Repairing THEN plan.mutable ELSE Slots)
  <2>1. Harness!Chosen(sel, s) \subseteq Harness!Offered(s)
    BY <1>1 DEF Harness!Outsiders
  <2>2. Harness!Offered(s) \subseteq Harness!Candidates(bundle, s)
    BY DEF Harness!Offered
  <2> QED
    BY <2>1, <2>2 DEF Offering
<1>2. CASE Harness!Repairing /\ s \notin plan.mutable
  <2>1. s \in order.locked \/ Offering(previous, s)
    BY <1>2 DEF Kept, RepairOpens, KeptIn
  <2>2. previous[s] = sel[s]
    BY <1>2 DEF Harness!FollowsPlan, Harness!Changed
  <2> QED
    BY <2>1, <2>2 DEF Offering, Harness!Chosen
<1> QED
  BY <1>1, <1>2

\* The next repair opens all that is not offered and not locked.
LEMMA RetryKeeps ==
  ASSUME Kept, progress = "choosing", NEW sel, NEW next, Harness!Retry(sel, next),
         KeptIn(sel, next.mutable)
  PROVE  Kept'
<1>1. /\ order' = order /\ bundle' = bundle /\ progress' = progress /\ outcome' = outcome
      /\ previous' = sel /\ plan' = next
  BY DEF Harness!Retry
<1>2. RepairOpens'
  BY <1>1 DEF RepairOpens, KeptIn, Offering, Harness!Chosen, Harness!Candidates
<1> QED
  BY <1>1, <1>2, AttemptKeeps

LEMMA AnswerKeeps ==
  ASSUME Kept, Harness!Answer
  PROVE  Kept'
<1>1. progress = "choosing"
  BY DEF Harness!Answer
<1>2. PICK sel \in Harness!Answers :
        \/ Harness!OffPlan(sel) \/ Harness!Repeats(sel) \/ Harness!LeavesBundle(sel)
        \/ Harness!BreaksConstraint(sel) \/ Harness!LacksPrice(sel)
        \/ Harness!Delivers(sel) \/ Harness!Repairs(sel)
  BY DEF Harness!Answer
<1>3. ASSUME NEW kind, Deserved(kind), Harness!Stop(kind, sel) PROVE Kept'
  BY <1>3, EndKeeps DEF Harness!Stop
<1>4. CASE Harness!OffPlan(sel)
  <2>1. CASE Harness!Stop("invalid_output", sel)
    BY <1>3, <2>1 DEF Deserved
  <2>2. CASE UNCHANGED <<order, progress, outcome, bundle, previous, plan, last>>
    <3>1. RepairOpens'
      BY <2>2 DEF Kept, RepairOpens, KeptIn, Harness!Repairing, Offering, Harness!Chosen, Harness!Candidates
    <3> QED
      BY <1>1, <2>2, <3>1, AttemptKeeps
  <2> QED
    BY <1>4, <2>1, <2>2 DEF Harness!OffPlan
<1>5. CASE Harness!Repeats(sel)
  BY <1>3, <1>5 DEF Deserved, Harness!Repeats
<1>6. CASE Harness!LeavesBundle(sel)
  <2>1. CASE Harness!Stop("invalid_output", sel)
    BY <1>3, <2>1 DEF Deserved
  <2>2. CASE Harness!Retry(sel, Harness!Plan(Harness!Outsiders(sel) \ order.locked, "membership"))
    <3> DEFINE next == Harness!Plan(Harness!Outsiders(sel) \ order.locked, "membership")
    <3>1. Harness!Repairing => Harness!FollowsPlan(sel)
      BY <1>6 DEF Harness!LeavesBundle, Harness!Verdict
    <3>2. next.mutable = Harness!Outsiders(sel) \ order.locked
      BY DEF Harness!Plan, Harness!NoPlan
    <3>3. KeptIn(sel, next.mutable)
      BY <1>1, <3>1, <3>2, OthersOffered DEF KeptIn
    <3> HIDE DEF next
    <3> QED
      BY <1>1, <2>2, <3>3, RetryKeeps DEF next
  <2> QED
    BY <1>6, <2>1, <2>2 DEF Harness!LeavesBundle
<1>7. ASSUME NEW next, Harness!Verdict(sel) \in {"constraint", "repair"}, Harness!Retry(sel, next)
      PROVE  Kept'
  <2>1. (Harness!Repairing => Harness!FollowsPlan(sel)) /\ Harness!Outsiders(sel) = {}
    BY <1>7 DEF Harness!Verdict
  <2>2. KeptIn(sel, next.mutable)
    BY <1>1, <2>1, OthersOffered DEF KeptIn
  <2> QED
    BY <1>1, <1>7, <2>2, RetryKeeps
<1>8. CASE Harness!BreaksConstraint(sel)
  BY <1>3, <1>7, <1>8 DEF Deserved, Harness!BreaksConstraint
<1>9. CASE Harness!LacksPrice(sel)
  BY <1>3, <1>9 DEF Deserved, Harness!LacksPrice
<1>10. CASE Harness!Delivers(sel)
  <2>1. /\ Harness!Repairing => Harness!FollowsPlan(sel)
        /\ Harness!Outsiders(sel) = {} /\ Harness!KeepsConstraints(sel) /\ Harness!Unpriced(sel) = {}
        /\ Harness!Status(sel) # "fail" /\ Harness!InWindow(sel)
    BY <1>10 DEF Harness!Delivers, Harness!Verdict
  <2>2. \A s \in Slots : Offering(sel, s)
    <3> TAKE s \in Slots
    <3>1. CASE s \in order.locked
      <4>1. order.base # Harness!NoBase /\ Offering(order.base, s)
        BY <1>1, <3>1 DEF Kept, LocksOffered
      <4>2. sel[s] = order.base[s]
        BY <2>1, <3>1, <4>1 DEF Harness!KeepsConstraints, Harness!LocksBroken
      <4> QED
        BY <4>1, <4>2 DEF Offering, Harness!Chosen
    <3> QED
      BY <1>1, <2>1, <3>1, OthersOffered
  <2>3. Fulfils(sel)
    BY <2>1, <2>2 DEF Fulfils, Harness!InWindow
  <2>4. /\ order' = order /\ bundle' = bundle /\ progress' = "done"
        /\ outcome' = [kind |-> "delivered", sel |-> sel]
    BY <1>10 DEF Harness!Delivers, Harness!Stop, Harness!End, Harness!work
  <2>5. Fulfils(sel)'
    BY <2>3, <2>4, FulfilsStays
  <2>6. (Harness!DeliveredHolds <=> (outcome.kind = "delivered" => Fulfils(outcome.sel)))'
    BY DeliveredFulfils, PTL
  <2>7. Fulfils(outcome.sel)'
    <3>1. outcome'.sel = sel
      BY <2>4
    <3> QED
      BY <2>5, <3>1 DEF Fulfils, Offering, Harness!Chosen, Harness!Candidates
  <2>8. HarnessTyped'
    BY <2>4, OrderStays DEF Kept, HarnessTyped
  <2>9. Harness!BoundIsSound'
    BY <2>4 DEF Harness!BoundIsSound
  <2> QED
    BY <2>4, <2>6, <2>7, <2>8, <2>9 DEF Kept, LocksOffered, BaseOffered, RepairOpens
<1>11. CASE Harness!Repairs(sel)
  BY <1>3, <1>7, <1>11 DEF Deserved, Harness!Repairs
<1> QED
  BY <1>2, <1>4, <1>5, <1>6, <1>8, <1>9, <1>10, <1>11

LEMMA BindKeeps ==
  ASSUME Kept, Harness!Bind
  PROVE  Kept'
<1> DEFINE b == Harness!BindOwned.base
           l == Harness!BindOwned.locked
<1>1. /\ order' = [order EXCEPT !.base = b, !.locked = l]
      /\ progress = "asked" /\ progress' = "bound"
      /\ UNCHANGED <<bundle, attempt, previous, plan, last, outcome>>
  BY DEF Harness!Bind, Harness!work
<1>2. b # Harness!NoBase => IsBase(b)
  BY BaseBound DEF Kept, HarnessTyped
<1> HIDE DEF b, l
<1>3. OrderTyped'
  <2>1. DOMAIN order = {"catalogue", "req", "change", "base", "locked", "hits"}
    BY DEF Kept, HarnessTyped, OrderTyped
  <2>2. /\ DOMAIN order' = DOMAIN order
        /\ order'.catalogue = order.catalogue /\ order'.hits = order.hits
        /\ order'.req = order.req /\ order'.base = b
    BY <1>1, <2>1
  <2> QED
    BY <1>2, <2>2 DEF Kept, HarnessTyped, OrderTyped, PricesKnown
<1>4. outcome' = Harness!Open /\ Idle'
  BY <1>1 DEF Kept, HarnessTyped, Idle
<1> QED
  BY <1>1, <1>3, <1>4
  DEF Kept, HarnessTyped, LocksOffered, BaseOffered, RepairOpens, Harness!DeliveredHolds,
      Harness!BoundIsSound, Harness!Open

LEMMA PrepareKeeps ==
  ASSUME Kept, Harness!Prepare
  PROVE  Kept'
<1> DEFINE prepared == Harness!Bundle
<1>1. /\ progress = "bound" /\ progress' = "choosing" /\ bundle' = prepared
      /\ Harness!CandidateRefusals = {}
      /\ UNCHANGED <<order, previous, plan, last, outcome>>
  BY DEF Harness!Prepare
<1>2. OrderTyped /\ Idle
  BY <1>1 DEF Kept, HarnessTyped
<1>3. \A s \in Slots : s \in order.locked =>
         order.base # Harness!NoBase /\ Harness!Chosen(order.base, s) \subseteq Harness!Candidates(prepared, s)
  BY <1>1, <1>2, LocksAreOffered
<1>4. BaseFits => \A s \in Slots : Harness!Chosen(order.base, s) \subseteq Harness!Candidates(prepared, s)
  BY <1>2, FittingBaseOffered
<1> HIDE DEF prepared
<1>5. LocksOffered'
  BY <1>1, <1>3 DEF LocksOffered, Offering, Harness!Chosen, Harness!Candidates
<1>6. BaseOffered'
  BY <1>1, <1>4, OrderStays DEF BaseOffered, Offering, Harness!Chosen, Harness!Candidates
<1>7. HarnessTyped'
  BY <1>1, OrderStays DEF Kept, HarnessTyped
<1>8. RepairOpens'
  BY <1>1, <1>2 DEF RepairOpens, Idle, Harness!Repairing
<1>9. Harness!DeliveredHolds' /\ Harness!BoundIsSound'
  BY <1>1 DEF Kept, HarnessTyped, Harness!DeliveredHolds, Harness!BoundIsSound, Harness!Open
<1> QED
  BY <1>5, <1>6, <1>7, <1>8, <1>9 DEF Kept

LEMMA HarnessKeeps ==
  ASSUME Kept, Harness!Next
  PROVE  Kept'
<1>1. CASE Harness!Refuse
  <2>1. PICK r \in Harness!FirstRefusal(
                     <<Harness!Clarification, Harness!UnverifiedMandatory, Harness!AssessCatalog>>) :
          Harness!End(r.reason, Harness!NoBase)
    BY <1>1 DEF Harness!Refuse
  <2>2. Deserved(r.reason)
    BY RequestRefuses DEF Refuses, Kept, HarnessTyped
  <2> QED
    BY <1>1, <2>1, <2>2, EndKeeps DEF Harness!Refuse
<1>2. CASE Harness!Bind
  BY <1>2, BindKeeps
<1>3. CASE Harness!PrepareFails
  <2>1. \A r \in Harness!CandidateRefusals : Deserved(r.reason)
    BY CandidatesRefuse DEF Refuses
  <2>2. \E kind : Deserved(kind) /\ Harness!End(kind, Harness!NoBase)
    BY <1>3, <2>1 DEF Deserved, Harness!PrepareFails
  <2> QED
    BY <1>3, <2>2, EndKeeps DEF Harness!PrepareFails
<1>4. CASE Harness!Prepare
  BY <1>4, PrepareKeeps
<1>5. CASE Harness!Fails
  BY <1>5, EndKeeps DEF Deserved, Harness!Fails
<1>6. CASE Harness!Garbles
  <2>1. CASE Harness!End("invalid_output", Harness!NoBase)
    BY <1>6, <2>1, EndKeeps DEF Deserved, Harness!Garbles
  <2>2. CASE /\ previous' = Harness!NoBase
             /\ UNCHANGED <<progress, outcome, bundle, last>>
    <3>1. RepairOpens'
      BY <2>2 DEF RepairOpens, Harness!Repairing
    <3> QED
      BY <1>6, <2>2, <3>1, AttemptKeeps DEF Harness!Garbles
  <2> QED
    BY <1>6, <2>1, <2>2 DEF Harness!Garbles
<1>7. CASE Harness!Answer
  BY <1>7, AnswerKeeps
<1> QED
  BY <1>1, <1>2, <1>3, <1>4, <1>5, <1>6, <1>7 DEF Harness!Next

-----------------------------------------------------------------------------
(* Every run of the harness *)

LEMMA HarnessKept == PlanningSpec => []HarnessInv
<1>1. Start => HarnessInv
  <2> SUFFICES ASSUME subject = "harness", Harness!Init PROVE Kept
    BY DEF Start, HarnessInv, Kept
  <2>1. OrderTyped
    <3>1. order \in Orders
      BY DEF Harness!Init
    <3> QED
      BY <3>1, HarnessAssumption DEF OrderTyped, PricesKnown, IsBase, IsList, IsListed
  <2>2. progress = "asked" /\ outcome = Harness!Open /\ Idle
    BY DEF Harness!Init, Idle
  <2> QED
    BY <2>1, <2>2 DEF Kept, HarnessTyped, LocksOffered, BaseOffered, RepairOpens,
                      Harness!DeliveredHolds, Harness!BoundIsSound, Harness!Open
<1>2. HarnessInv /\ [Step]_<<subject, loop, repair, judgment, choosing>> => HarnessInv'
  <2> SUFFICES ASSUME HarnessInv, [Step]_<<subject, loop, repair, judgment, choosing>>,
                      subject = "harness"
               PROVE  Kept'
    BY DEF Step, HarnessInv, Kept
  <2>1. Kept
    BY DEF HarnessInv, Kept
  <2>2. CASE Harness!Next
    BY <2>1, <2>2, HarnessKeeps
  <2>3. CASE UNCHANGED choosing
    BY <2>1, <2>3, RestStays DEF Kept, choosing
  <2> QED
    BY <2>2, <2>3 DEF Step
<1> QED
  BY <1>1, <1>2, PTL DEF PlanningSpec

\* A build that works, is still sold and meets what is asked for stays whole among
\* the candidates of its own change, whatever was sampled, filtered and trimmed
\* (planner.go).
THEOREM WorkingBasesStay == PlanningSpec => []BaseStaysBuildable
<1>1. HarnessInv => BaseStaysBuildable
  BY WorkingBaseFits
  DEF HarnessInv, Kept, HarnessTyped, BaseOffered, Offering, BaseStaysBuildable, Harness!BaseStaysBuildable
<1> QED
  BY <1>1, HarnessKept, PTL

\* What is delivered was offered, keeps the locks, the card the user insists on and
\* the limit of changes, breaks no rule and is paid for within the window
\* (harness.go).
THEOREM DeliveriesHold == PlanningSpec => []DeliveredHolds
<1>1. HarnessInv => DeliveredHolds
  BY DEF HarnessInv, Kept, DeliveredHolds
<1> QED
  BY <1>1, HarnessKept, PTL

\* The lower bounds refuse only what cannot be built: no selection of catalogue parts
\* that breaks no rule and holds what the user owns costs less than the upper limit
\* (decision.go, platform_bound.go).
THEOREM BoundsAreSound == PlanningSpec => []BoundIsSound
<1>1. HarnessInv => BoundIsSound
  BY DEF HarnessInv, Kept, BoundIsSound
<1> QED
  BY <1>1, HarnessKept, PTL

-----------------------------------------------------------------------------
(* What a search has verified *)

Advises(p) == p.dropGPU \/ p.disks # {} \/ DOMAIN p.preferred # {}

\* What follows a plan to the letter.
Adapted(sel, p) ==
  Harness!Apply([sel EXCEPT !["ssd"] = IF p.disks # {} THEN p.disks ELSE @,
                            !["gpu"] = IF p.dropGPU THEN {} ELSE @], p.preferred)

\* The candidates a repair offers, which starts from a selection.
OfferedFor(sel, p, s) ==
  IF s = "gpu" /\ p.dropGPU THEN {}
  ELSE IF s = "ssd" /\ p.disks # {} THEN Harness!Candidates(bundle, s) \cap {u.part : u \in p.disks}
  ELSE IF s \in DOMAIN p.preferred THEN Harness!Candidates(bundle, s) \cap {p.preferred[s]}
  ELSE Harness!Candidates(bundle, s) \ Harness!Chosen(sel, s)

Obeys(sel, p, after) ==
  /\ Harness!Changed(sel, after) \subseteq p.mutable
  /\ \A s \in DOMAIN p.preferred : Harness!Chosen(after, s) = {p.preferred[s]}
  /\ p.disks # {} => after["ssd"] = p.disks
  /\ p.dropGPU => after["gpu"] = {}
  /\ \A s \in p.mutable : Harness!Chosen(after, s) \subseteq OfferedFor(sel, p, s)

Works(after) ==
  /\ Harness!KeepsConstraints(after) /\ Harness!Status(after) = "pass" /\ Harness!InWindow(after)
  /\ Harness!CandidatesPriced => Harness!Unpriced(after) = {}

\* A plan that says what to choose comes from the selection judged last, and what
\* it says is another selection, one that can be chosen and works.
Serves(from, p, judged) ==
  Advises(p) =>
    /\ from # Harness!NoBase /\ judged = from
    /\ Adapted(from, p) # from
    /\ Obeys(from, p, Adapted(from, p))
    /\ Works(Adapted(from, p))

AdviceStands ==
  /\ progress \in {"asked", "bound"} => plan = Harness!NoPlan
  /\ progress = "choosing" => Serves(previous, plan, last)

AdviceInv == subject = "harness" => AdviceStands

LEMMA PlanAdvisesNothing ==
  /\ LET p == Harness!NoPlan
     IN  /\ ~Advises(p) /\ p.mutable = {} /\ p.disks = {} /\ p.dropGPU = FALSE /\ DOMAIN p.preferred = {}
         /\ DOMAIN p = {"mutable", "reason", "preferred", "disks", "dropGPU"}
  /\ \A mutable, reason : LET p == Harness!Plan(mutable, reason)
                          IN  /\ ~Advises(p) /\ p.mutable = mutable /\ p.reason = reason
                              /\ p.disks = {} /\ p.dropGPU = FALSE /\ DOMAIN p.preferred = {}
                              /\ DOMAIN p = {"mutable", "reason", "preferred", "disks", "dropGPU"}
BY DEF Advises, Harness!NoPlan, Harness!Plan

LEMMA AdviceDelivers ==
  ASSUME AdviceStands
  PROVE  Harness!VerifiedRepairDelivers
<1> SUFFICES ASSUME progress = "choosing", Harness!CandidatesPriced, Advises(plan)
             PROVE  Harness!Verdict(Harness!Advised) = "deliver"
  BY DEF Harness!VerifiedRepairDelivers, Advises
<1> DEFINE after == Adapted(previous, plan)
<1>1. Harness!Advised = after
  BY DEF Harness!Advised, Adapted
<1>2. /\ previous # Harness!NoBase /\ last = previous /\ after # previous
      /\ Obeys(previous, plan, after) /\ Works(after)
  BY DEF AdviceStands, Serves
<1> HIDE DEF after
<1>3. Harness!Repairing
  BY <1>2, PlanAdvisesNothing DEF Harness!Repairing
<1>4. Harness!FollowsPlan(after)
  BY <1>2 DEF Obeys, Harness!FollowsPlan, Harness!TakesPreferred
<1>5. \A s : Harness!Offered(s) = OfferedFor(previous, plan, s)
  BY <1>3 DEF Harness!Offered, OfferedFor
<1>6. Harness!Outsiders(after) = {}
  BY <1>2, <1>3, <1>5 DEF Obeys, Harness!Outsiders
<1>7. Harness!KeepsConstraints(after) /\ Harness!Unpriced(after) = {}
  BY <1>2 DEF Works
<1>8. Harness!Status(after) # "fail" /\ Harness!InWindow(after) /\ "unknown" \notin Harness!Outcomes(after)
  BY <1>2 DEF Works, Harness!Status
<1> QED
  BY <1>1, <1>2, <1>4, <1>6, <1>7, <1>8 DEF Harness!Verdict

LEMMA ServesOn ==
  ASSUME order' = order, bundle' = bundle, NEW from, NEW p, NEW judged, Serves(from, p, judged)
  PROVE  Serves(from, p, judged)'
<1> SUFFICES ASSUME Advises(p) PROVE Serves(from, p, judged)'
  BY DEF Serves, Advises
<1> DEFINE after == Adapted(from, p)
<1>1. after' = after
  BY DEF Adapted, Harness!Apply, Harness!Units
<1>2. from # Harness!NoBase /\ judged = from /\ after # from /\ Obeys(from, p, after) /\ Works(after)
  BY DEF Serves
<1> HIDE DEF after
<1>3. \A s : Harness!Candidates(bundle, s)' = Harness!Candidates(bundle, s)
  BY DEF Harness!Candidates
<1>4. Obeys(from, p, after)'
  BY <1>1, <1>2, <1>3 DEF Obeys, Harness!Changed, Harness!Chosen, OfferedFor
<1>5. PICK x : x = after
  OBVIOUS
<1>6. Works(x)'
  <2>1. Harness!KeepsConstraints(x)'
    BY <1>2, <1>5
    DEF Works, Harness!KeepsConstraints, Harness!GPUMissing, Harness!MandatoryGPU, Harness!Must,
        Harness!LocksBroken, Harness!TooManyChanges, Harness!Changed
  <2>2. (Harness!Status(x) = "pass")'
    BY <1>2, <1>5, StatusStays DEF Works
  <2>3. Harness!Unpriced(x)' = Harness!Unpriced(x)
    BY DEF Harness!Unpriced, Harness!Paid, Harness!Owned, Harness!Part, Harness!Chosen
  <2>4. Harness!InWindow(x)'
    BY <1>2, <1>5, <2>3, AmountStays DEF Works, Harness!InWindow, Harness!Lower, Harness!Upper
  <2>5. Harness!CandidatesPriced' <=> Harness!CandidatesPriced
    BY <1>3 DEF Harness!CandidatesPriced, Harness!Part
  <2> QED
    BY <1>2, <1>5, <2>1, <2>2, <2>3, <2>4, <2>5 DEF Works
<1>7. Works(after)'
  BY <1>1, <1>5, <1>6
<1> QED
  BY <1>1, <1>2, <1>4, <1>7 DEF Serves, after

\* A repair opens only categories there are.
LEMMA OpenedThere ==
  ASSUME NEW sel
  PROVE  Harness!RepairPlan(sel).mutable \subseteq Slots
<1>1. CASE Harness!Stuck(sel)
  BY <1>1 DEF Harness!RepairPlan, Harness!NoPlan
<1>2. CASE ~Harness!Stuck(sel)
  <2>1. Harness!RuleRepair(sel) \subseteq Slots
    <3>1. SUFFICES ASSUME NEW r \in Harness!Troubled(sel)
                   PROVE  Harness!Involved(r)[Harness!Min(Harness!Replaceable(sel, r))] \in Slots
      BY DEF Harness!RuleRepair
    <3> DEFINE S == Harness!Replaceable(sel, r)
    <3>2. S # {}
      BY <1>2 DEF Harness!Stuck
    <3>3. S \subseteq {1, 2}
      <4>1. r \in {"SOCKET_MATCH", "MEMORY_GENERATION", "FORM_FACTOR_SUPPORT", "DISPLAY_OUTPUT"}
        BY DEF Harness!Troubled, Harness!Rules
      <4>2. DOMAIN Harness!Involved(r) = {1, 2}
        BY <4>1 DEF Harness!Involved
      <4> QED
        BY <4>2 DEF Harness!Replaceable
    <3>4. \A i \in S : Harness!Involved(r)[i] \in Slots
      BY DEF Harness!Replaceable, Harness!Unlocked
    <3> HIDE DEF S
    <3>5. Harness!Min(S) \in S
      <4>1. \E x \in S : \A y \in S : x <= y
        <5>1. CASE 1 \in S
          BY <3>3, <5>1
        <5>2. CASE 1 \notin S
          <6>1. S = {2}
            BY <3>2, <3>3, <5>2
          <6> QED
            BY <6>1
        <5> QED
          BY <5>1, <5>2
      <4> QED
        BY <4>1 DEF Harness!Min
    <3> QED
      BY <3>4, <3>5 DEF S
  <2>2. Harness!BudgetRepairSlots(sel) \subseteq Slots
    BY DEF Harness!BudgetRepairSlots, Harness!Levers, Harness!Unlocked
  <2>3. \/ Harness!RepairPlan(sel) = Harness!NoPlan
        \/ Harness!RepairPlan(sel) = Harness!Plan(Harness!RuleRepair(sel), "rules")
        \/ Harness!RepairPlan(sel)
             = Harness!Plan(Harness!RuleRepair(sel) \cup Harness!BudgetRepairSlots(sel), "budget")
    BY DEF Harness!RepairPlan
  <2> QED
    BY <2>1, <2>2, <2>3, PlanAdvisesNothing DEF Harness!NoPlan
<1> QED
  BY <1>1, <1>2

\* A selection that is answered is paid for before it is repaired.
LEMMA RepairedIsPriced ==
  ASSUME NEW sel, Harness!Verdict(sel) = "repair"
  PROVE  Harness!Unpriced(sel) = {}
BY DEF Harness!Verdict

LEMMA AnswerIsSelection ==
  ASSUME NEW sel \in Harness!Answers
  PROVE  /\ DOMAIN sel = Slots /\ sel = [s \in Slots |-> sel[s]]
         /\ sel # Harness!NoBase
<1> DEFINE choices == [s \in Slots |-> Harness!UnitChoices(s)]
<1>1. sel \in Harness!Product(Slots, choices)
  BY DEF Harness!Answers
<1> HIDE DEF choices
<1>2. DOMAIN sel = Slots /\ sel = [s \in Slots |-> sel[s]]
  BY <1>1, ProductChooses
<1> QED
  BY <1>2, CoreAssumption DEF CoreSlots, Harness!NoBase

\* The best exchange of the categories a repair opens, when it works.
LEMMA BestServes ==
  ASSUME NEW sel \in Harness!Answers, Harness!Unpriced(sel) = {},
         NEW opened \in SUBSET Slots, NEW q \in Harness!Best(sel, opened),
         Harness!Verified(Harness!Apply(sel, q)),
         NEW p, p.mutable = opened, p.preferred = q, p.disks = {}, p.dropGPU = FALSE
  PROVE  Serves(sel, p, sel)
<1> DEFINE after == Harness!Apply(sel, q)
           choices == [s \in opened |-> Harness!Candidates(bundle, s)]
<1>1. q \in Harness!Product(opened, choices) /\ after # sel
  BY DEF Harness!Best, Harness!Feasible
<1>2. \A s \in opened : choices[s] = Harness!Candidates(bundle, s)
  OBVIOUS
<1> HIDE DEF choices
<1>3. DOMAIN q = opened /\ \A s \in opened : q[s] \in Harness!Candidates(bundle, s)
  <2>1. DOMAIN q = opened /\ \A s \in opened : q[s] \in choices[s]
    BY <1>1, ProductChooses
  <2> QED
    BY <1>2, <2>1
<1>4. /\ DOMAIN sel = Slots /\ sel = [s \in Slots |-> sel[s]]
      /\ sel # Harness!NoBase
  BY AnswerIsSelection
<1>5. Adapted(sel, p) = after
  <2>1. Adapted(sel, p)
          = Harness!Apply([sel EXCEPT !["ssd"] = IF p.disks # {} THEN p.disks ELSE @,
                                      !["gpu"] = IF p.dropGPU THEN {} ELSE @], q)
    BY DEF Adapted
  <2>2. [sel EXCEPT !["ssd"] = IF p.disks # {} THEN p.disks ELSE @,
                    !["gpu"] = IF p.dropGPU THEN {} ELSE @] = sel
    BY <1>4
  <2> QED
    BY <2>1, <2>2
<1>6. /\ \A s \in opened : after[s] = Harness!Units(q[s], 1)
      /\ \A s \in Slots \ opened : after[s] = sel[s]
  BY <1>3 DEF Harness!Apply
<1> HIDE DEF after
<1>7. ASSUME NEW s \in opened PROVE Harness!Chosen(after, s) = {q[s]}
  <2>1. after[s] = {[part |-> q[s], quantity |-> 1]}
    BY <1>6 DEF Harness!Units
  <2> QED
    BY <2>1 DEF Harness!Chosen
<1>8. Obeys(sel, p, after)
  <2>1. Harness!Changed(sel, after) \subseteq opened
    BY <1>6 DEF Harness!Changed
  <2>2. \A s \in opened : Harness!Chosen(after, s) \subseteq OfferedFor(sel, p, s)
    BY <1>3, <1>7 DEF OfferedFor
  <2> QED
    BY <1>3, <1>7, <2>1, <2>2 DEF Obeys
<1>9. Works(after)
  <2>1. Harness!KeepsConstraints(after) /\ Harness!Status(after) = "pass" /\ Harness!InWindow(after)
    BY DEF Harness!Verified, after
  <2>2. ASSUME Harness!CandidatesPriced, NEW s \in Harness!Unpriced(after) PROVE FALSE
    <3>1. s \in Harness!Paid /\ \E n \in Harness!Chosen(after, s) : Harness!Part(n).price = Harness!NoPrice
      BY <2>2 DEF Harness!Unpriced
    <3>2. s \in Slots
      BY <3>1 DEF Harness!Paid
    <3>3. CASE s \in opened
      BY <1>3, <1>7, <2>2, <3>1, <3>2, <3>3 DEF Harness!CandidatesPriced
    <3>4. CASE s \notin opened
      <4>1. Harness!Chosen(after, s) = Harness!Chosen(sel, s)
        BY <1>6, <3>2, <3>4 DEF Harness!Chosen
      <4> QED
        BY <3>1, <4>1 DEF Harness!Unpriced
    <3> QED
      BY <3>3, <3>4
  <2> QED
    BY <2>1, <2>2 DEF Works
<1> QED
  BY <1>1, <1>4, <1>5, <1>8, <1>9 DEF Serves, after

\* The search over all categories.
LEMMA SearchServes ==
  ASSUME NEW sel \in Harness!Answers, NEW after \in Harness!Least(sel)
  PROVE  Serves(sel, Harness!SearchPlan(sel, after), sel)
<1> DEFINE p == Harness!SearchPlan(sel, after)
           changed == Harness!Changed(sel, after)
           choices == [s \in Slots |-> {sel[s]} \cup (IF Harness!Locked(s) THEN {} ELSE Harness!Exchanges(sel, s))]
<1>1. /\ after \in Harness!Product(Slots, choices) /\ Harness!Cardinality(changed) \in 1 .. 3
      /\ Harness!Verified(after)
      /\ \A s \in Slots : \A n \in Harness!Chosen(after, s) : Harness!Part(n).price # Harness!NoPrice
  BY DEF Harness!Least, Harness!Sound, Harness!Proposals
<1>2. \A s \in Slots : choices[s] \subseteq {sel[s]} \cup Harness!Exchanges(sel, s)
  OBVIOUS
<1> HIDE DEF choices
<1>3. DOMAIN after = Slots /\ after = [s \in Slots |-> after[s]]
      /\ \A s \in Slots : after[s] \in {sel[s]} \cup Harness!Exchanges(sel, s)
  <2>1. DOMAIN after = Slots /\ after = [s \in Slots |-> after[s]] /\ \A s \in Slots : after[s] \in choices[s]
    BY <1>1, ProductChooses
  <2> QED
    BY <1>2, <2>1
<1>4. /\ DOMAIN sel = Slots /\ sel = [s \in Slots |-> sel[s]]
      /\ sel # Harness!NoBase
  BY AnswerIsSelection
<1>5. changed \subseteq Slots /\ \A s \in Slots : s \in changed <=> sel[s] # after[s]
  BY DEF Harness!Changed
<1>6. \A s \in changed :
        \/ s = "gpu" /\ after[s] = {}
        \/ \E n \in Harness!Candidates(bundle, s), k \in Harness!Quantities(s) : after[s] = Harness!Units(n, k)
  <2> TAKE s \in changed
  <2>1. after[s] \in Harness!Exchanges(sel, s)
    BY <1>3, <1>5
  <2> QED
    BY <2>1 DEF Harness!Exchanges
<1> DEFINE dropped == "gpu" \in changed /\ after["gpu"] = {}
           single  == changed \ ({"ssd"} \cup {s \in {"gpu"} : dropped})
<1>7. /\ p.mutable = changed /\ p.dropGPU = dropped
      /\ p.preferred = [s \in single |-> CHOOSE n \in Harness!Chosen(after, s) : TRUE]
      /\ p.disks = IF "ssd" \in changed THEN after["ssd"] ELSE {}
  BY DEF Harness!SearchPlan
<1>8. ASSUME NEW s \in single
      PROVE  /\ s \in changed /\ s # "ssd" /\ ~(s = "gpu" /\ dropped)
             /\ p.preferred[s] \in Harness!Candidates(bundle, s)
             /\ after[s] = Harness!Units(p.preferred[s], 1)
             /\ Harness!Chosen(after, s) = {p.preferred[s]}
  <2>1. s \in changed /\ s # "ssd" /\ ~(s = "gpu" /\ dropped)
    OBVIOUS
  <2> HIDE DEF single, dropped
  <2>2. PICK n \in Harness!Candidates(bundle, s) : after[s] = Harness!Units(n, 1)
    <3>1. ~(s = "gpu" /\ after[s] = {})
      BY <2>1 DEF dropped
    <3> QED
      BY <1>6, <2>1, <3>1 DEF Harness!Quantities
  <2>3. Harness!Chosen(after, s) = {n}
    BY <2>2 DEF Harness!Chosen, Harness!Units
  <2>4. p.preferred[s] = n
    BY <1>7, <2>3
  <2> QED
    BY <2>1, <2>2, <2>3, <2>4
<1>9. "ssd" \in changed => /\ p.disks = after["ssd"] /\ p.disks # {}
                           /\ Harness!Chosen(after, "ssd") \subseteq Harness!Candidates(bundle, "ssd")
  <2> SUFFICES ASSUME "ssd" \in changed
               PROVE  /\ p.disks = after["ssd"] /\ p.disks # {}
                      /\ Harness!Chosen(after, "ssd") \subseteq Harness!Candidates(bundle, "ssd")
    OBVIOUS
  <2>1. PICK n \in Harness!Candidates(bundle, "ssd"), k \in Harness!Quantities("ssd") :
          after["ssd"] = Harness!Units(n, k)
    BY <1>6
  <2> QED
    BY <1>7, <2>1 DEF Harness!Units, Harness!Chosen
<1>10. /\ "ssd" \notin changed => p.disks = {}
       /\ DOMAIN p.preferred = single
       /\ \A s \in changed : s = "ssd" \/ (s = "gpu" /\ dropped) \/ s \in single
  BY <1>7
<1>11. p.dropGPU => "gpu" \in changed /\ after["gpu"] = {}
  BY <1>7
<1>12. p.dropGPU <=> dropped
  BY <1>7
<1> HIDE DEF p, single, dropped
<1>13. Adapted(sel, p) = after
  <2> DEFINE start == [sel EXCEPT !["ssd"] = IF p.disks # {} THEN p.disks ELSE @,
                                  !["gpu"] = IF p.dropGPU THEN {} ELSE @]
  <2>1. Adapted(sel, p) = [s \in Slots |-> IF s \in DOMAIN p.preferred THEN Harness!Units(p.preferred[s], 1) ELSE start[s]]
    BY DEF Adapted, Harness!Apply
  <2>2. ASSUME NEW s \in Slots
        PROVE  (IF s \in DOMAIN p.preferred THEN Harness!Units(p.preferred[s], 1) ELSE start[s]) = after[s]
    <3>1. CASE s \in single
      BY <1>8, <1>10, <3>1
    <3>2. CASE s \notin single /\ s = "ssd"
      BY <1>4, <1>5, <1>9, <1>10, <2>2, <3>2
    <3>3. CASE s \notin single /\ s = "gpu"
      BY <1>4, <1>5, <1>10, <1>11, <1>12, <2>2, <3>3
    <3>4. CASE s \notin single /\ s \notin {"ssd", "gpu"}
      BY <1>4, <1>5, <1>10, <2>2, <3>4
    <3> QED
      BY <3>1, <3>2, <3>3, <3>4
  <2> QED
    BY <1>3, <2>1, <2>2
<1>14. after # sel
  <2>1. changed # {}
    <3>1. Harness!Cardinality(changed) # 0
      BY <1>1
    <3>2. Harness!Cardinality({}) = 0
      BY HarnessCardinality, FS_EmptySet
    <3> QED
      BY <3>1, <3>2
  <2> QED
    BY <1>5, <2>1
<1>15. Obeys(sel, p, after)
  <2>1. \A s \in changed : Harness!Chosen(after, s) \subseteq OfferedFor(sel, p, s)
    <3> TAKE s \in changed
    <3>1. CASE s = "ssd"
      BY <1>9, <3>1 DEF OfferedFor, Harness!Chosen
    <3>2. CASE s = "gpu" /\ dropped
      BY <1>11, <1>12, <3>2 DEF OfferedFor, Harness!Chosen
    <3>3. CASE s \in single
      BY <1>8, <1>10, <1>12, <3>3 DEF OfferedFor
    <3> QED
      BY <1>10, <3>1, <3>2, <3>3
  <2>2. \A s \in DOMAIN p.preferred : Harness!Chosen(after, s) = {p.preferred[s]}
    BY <1>8, <1>10
  <2>3. (p.disks # {} => after["ssd"] = p.disks) /\ (p.dropGPU => after["gpu"] = {})
    BY <1>9, <1>10, <1>11
  <2>4. Harness!Changed(sel, after) \subseteq p.mutable /\ p.mutable = changed
    BY DEF p, Harness!SearchPlan
  <2> QED
    BY <2>1, <2>2, <2>3, <2>4 DEF Obeys
<1>16. Works(after)
  <2>1. Harness!KeepsConstraints(after) /\ Harness!Status(after) = "pass" /\ Harness!InWindow(after)
    BY <1>1 DEF Harness!Verified
  <2>2. Harness!Unpriced(after) = {}
    BY <1>1 DEF Harness!Unpriced, Harness!Paid
  <2> QED
    BY <2>1, <2>2 DEF Works
<1> QED
  BY <1>4, <1>13, <1>14, <1>15, <1>16 DEF Serves, p

LEMMA NextPlanServes ==
  ASSUME NEW sel \in Harness!Answers, Harness!Verdict(sel) = "repair", NEW next \in Harness!NextPlans(sel)
  PROVE  Serves(sel, next, sel)
<1> DEFINE initial == Harness!RepairPlan(sel)
           start   == [initial EXCEPT !.reason = "budget"]
<1>1. /\ DOMAIN initial = {"mutable", "reason", "preferred", "disks", "dropGPU"}
      /\ initial.disks = {} /\ initial.dropGPU = FALSE /\ DOMAIN initial.preferred = {}
  <2>1. initial = Harness!NoPlan \/ \E mutable, reason : initial = Harness!Plan(mutable, reason)
    BY DEF Harness!RepairPlan
  <2> QED
    BY <2>1, PlanAdvisesNothing
<1>2. initial.mutable \subseteq Slots
  BY OpenedThere
<1>3. next = initial \/ next \in Harness!BudgetPlans(sel, start)
  BY DEF Harness!NextPlans
<1> HIDE DEF initial
<1>4. /\ DOMAIN start = {"mutable", "reason", "preferred", "disks", "dropGPU"}
      /\ start.mutable = initial.mutable /\ start.disks = {} /\ start.dropGPU = FALSE
      /\ DOMAIN start.preferred = {}
  BY <1>1
<1> HIDE DEF start
<1>5. CASE next = initial
  BY <1>1, <1>5 DEF Serves, Advises
<1>6. CASE next = start
  BY <1>4, <1>6 DEF Serves, Advises
<1>7. CASE \E q \in Harness!Best(sel, start.mutable) :
              Harness!Verified(Harness!Apply(sel, q)) /\ next = [start EXCEPT !.preferred = q]
  <2>1. PICK q \in Harness!Best(sel, start.mutable) :
           Harness!Verified(Harness!Apply(sel, q)) /\ next = [start EXCEPT !.preferred = q]
    BY <1>7
  <2>2. next.mutable = start.mutable /\ next.preferred = q /\ next.disks = {} /\ next.dropGPU = FALSE
    BY <1>4, <2>1
  <2>3. start.mutable \in SUBSET Slots
    BY <1>2, <1>4
  <2> DEFINE opened == start.mutable
  <2>4. opened \in SUBSET Slots /\ q \in Harness!Best(sel, opened) /\ next.mutable = opened
    BY <2>1, <2>2, <2>3
  <2> HIDE DEF opened
  <2> QED
    BY <2>1, <2>2, <2>4, RepairedIsPriced, BestServes
<1>8. CASE \E after \in Harness!Least(sel) : next = Harness!SearchPlan(sel, after)
  BY <1>8, SearchServes
<1>9. next \in Harness!BudgetPlans(sel, start) =>
        \/ next = start
        \/ \E q \in Harness!Best(sel, start.mutable) :
              Harness!Verified(Harness!Apply(sel, q)) /\ next = [start EXCEPT !.preferred = q]
        \/ \E after \in Harness!Least(sel) : next = Harness!SearchPlan(sel, after)
  BY DEF Harness!BudgetPlans
<1> QED
  BY <1>3, <1>5, <1>6, <1>7, <1>8, <1>9

LEMMA AdviceKeeps ==
  ASSUME AdviceStands, Harness!Next
  PROVE  AdviceStands'
<1>1. ASSUME progress' = "done" PROVE AdviceStands'
  BY <1>1 DEF AdviceStands
<1>2. ASSUME UNCHANGED <<order, bundle, progress, plan, previous, last>> PROVE AdviceStands'
  <2>1. \A f, p, j : Serves(f, p, j) => Serves(f, p, j)'
    BY <1>2, ServesOn
  <2> QED
    BY <1>2, <2>1 DEF AdviceStands, Serves
<1>3. ASSUME NEW sel, NEW next, Harness!Retry(sel, next), progress = "choosing", Serves(sel, next, sel)
      PROVE  AdviceStands'
  <2>1. /\ order' = order /\ bundle' = bundle /\ progress' = "choosing"
        /\ previous' = sel /\ plan' = next /\ last' = sel
    BY <1>3 DEF Harness!Retry
  <2>2. Serves(sel, next, sel)'
    BY <1>3, <2>1, ServesOn
  <2> QED
    BY <2>1, <2>2 DEF AdviceStands, Serves
<1>4. \A sel, mutable, reason, judged : Serves(sel, Harness!Plan(mutable, reason), judged)
  BY PlanAdvisesNothing DEF Serves
<1>5. CASE Harness!Refuse
  BY <1>1, <1>5 DEF Harness!Refuse, Harness!End
<1>6. CASE Harness!Bind
  BY <1>6 DEF AdviceStands, Harness!Bind, Harness!work
<1>7. CASE Harness!PrepareFails
  BY <1>1, <1>7 DEF Harness!PrepareFails, Harness!End
<1>8. CASE Harness!Prepare
  <2>1. progress' = "choosing" /\ plan' = Harness!NoPlan
    BY <1>8 DEF AdviceStands, Harness!Prepare
  <2> QED
    BY <2>1, PlanAdvisesNothing DEF AdviceStands, Serves, Advises
<1>9. CASE Harness!Fails
  BY <1>1, <1>9 DEF Harness!Fails, Harness!End
<1>10. CASE Harness!Garbles
  <2>1. CASE Harness!End("invalid_output", Harness!NoBase)
    BY <1>1, <2>1 DEF Harness!End
  <2>2. CASE plan' = Harness!Plan(Harness!Unlocked, "schema") /\ progress' = progress
    <3>1. ~Advises(plan)'
      BY <2>2, PlanAdvisesNothing DEF Advises
    <3>2. progress' = "choosing"
      BY <1>10, <2>2 DEF Harness!Garbles
    <3> QED
      BY <3>1, <3>2 DEF AdviceStands, Serves, Advises
  <2> QED
    BY <1>10, <2>1, <2>2 DEF Harness!Garbles
<1>11. CASE Harness!Answer
  <2>0. progress = "choosing"
    BY <1>11 DEF Harness!Answer
  <2>1. PICK sel \in Harness!Answers :
          \/ Harness!OffPlan(sel) \/ Harness!Repeats(sel) \/ Harness!LeavesBundle(sel)
          \/ Harness!BreaksConstraint(sel) \/ Harness!LacksPrice(sel)
          \/ Harness!Delivers(sel) \/ Harness!Repairs(sel)
    BY <1>11 DEF Harness!Answer
  <2>2. ASSUME NEW kind, Harness!Stop(kind, sel) PROVE AdviceStands'
    BY <1>1, <2>2 DEF Harness!Stop, Harness!End
  <2>3. CASE Harness!OffPlan(sel)
    BY <1>2, <2>2, <2>3 DEF Harness!OffPlan
  <2>4. CASE Harness!Repeats(sel)
    BY <2>2, <2>4 DEF Harness!Repeats
  <2>5. CASE Harness!LeavesBundle(sel)
    BY <1>3, <1>4, <2>0, <2>2, <2>5 DEF Harness!LeavesBundle
  <2>6. CASE Harness!BreaksConstraint(sel)
    <3>1. \E mutable, reason : Harness!ConstraintPlan(sel) = Harness!Plan(mutable, reason)
      BY DEF Harness!ConstraintPlan
    <3>2. Serves(sel, Harness!ConstraintPlan(sel), sel)
      BY <1>4, <3>1
    <3> QED
      BY <1>3, <2>0, <2>2, <2>6, <3>2 DEF Harness!BreaksConstraint
  <2>7. CASE Harness!LacksPrice(sel)
    BY <2>2, <2>7 DEF Harness!LacksPrice
  <2>8. CASE Harness!Delivers(sel)
    BY <2>2, <2>8 DEF Harness!Delivers
  <2>9. CASE Harness!Repairs(sel)
    <3>1. CASE Harness!Stop("search_exhausted", sel)
      BY <2>2, <3>1
    <3>2. CASE \E next \in Harness!NextPlans(sel) : Harness!Retry(sel, next)
      <4>1. PICK next \in Harness!NextPlans(sel) : Harness!Retry(sel, next)
        BY <3>2
      <4>2. Harness!Verdict(sel) = "repair"
        BY <2>9 DEF Harness!Repairs
      <4>3. Serves(sel, next, sel)
        BY <4>2, NextPlanServes
      <4> QED
        BY <1>3, <2>0, <4>1, <4>3
    <3> QED
      BY <2>9, <3>1, <3>2 DEF Harness!Repairs
  <2> QED
    BY <2>1, <2>3, <2>4, <2>5, <2>6, <2>7, <2>8, <2>9
<1> QED
  BY <1>5, <1>6, <1>7, <1>8, <1>9, <1>10, <1>11 DEF Harness!Next

LEMMA AdviceKept == PlanningSpec => []AdviceInv
<1>1. Start => AdviceInv
  BY DEF Start, AdviceInv, AdviceStands, Harness!Init
<1>2. AdviceInv /\ [Step]_<<subject, loop, repair, judgment, choosing>> => AdviceInv'
  <2> SUFFICES ASSUME AdviceInv, [Step]_<<subject, loop, repair, judgment, choosing>>,
                      subject' = "harness"
               PROVE  AdviceStands'
    BY DEF AdviceInv
  <2>1. subject = "harness" /\ AdviceStands
    BY DEF AdviceInv, Step
  <2>2. CASE Harness!Next
    BY <2>1, <2>2, AdviceKeeps
  <2>3. CASE UNCHANGED choosing
    <3>1. UNCHANGED <<order, bundle, progress, plan, previous, last>>
      BY <2>3 DEF choosing
    <3>2. \A f, p, j : Serves(f, p, j) => Serves(f, p, j)'
      BY <3>1, ServesOn
    <3> QED
      BY <2>1, <3>1, <3>2 DEF AdviceStands, Serves
  <2> QED
    BY <2>1, <2>2, <2>3 DEF Step
<1> QED
  BY <1>1, <1>2, PTL DEF PlanningSpec

\* A repair the search has verified is one the model only has to follow: doing
\* exactly that is delivered (budget_search.go, harness.go).
THEOREM AdviceIsDelivered == PlanningSpec => []VerifiedRepairDelivers
<1>1. AdviceInv => VerifiedRepairDelivers
  BY AdviceDelivers DEF AdviceInv, VerifiedRepairDelivers
<1> QED
  BY <1>1, AdviceKept, PTL
=============================================================================
