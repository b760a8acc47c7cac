---------------------------- MODULE BudgetSolver ----------------------------
(***************************************************************************)
(* The repairs the server makes itself when a planning run would end with  *)
(* an incomplete or too expensive draft (internal/planning/                *)
(* budget_solver.go): first parts whose missing specifications leave a     *)
(* rule unknown are exchanged for complete ones, then cheaper parts are    *)
(* looked for until the total fits under the ceiling, and if there is no   *)
(* such combination the least single sacrifice is named to the user.       *)
(*                                                                         *)
(* A part is its category, price, provable tier, whether its               *)
(* specifications are complete and whether it was registered from the web  *)
(* ("external").  The twelve rules are abstracted to a set of clashing     *)
(* pairs of parts (a failed rule) and to the completeness of the selected  *)
(* parts (an unknown one).  The search's limit of 200000 nodes is not      *)
(* reached by the instances and left out.                                  *)
(***************************************************************************)
EXTENDS Integers, Sequences, FiniteSets, FiniteSetsExt, SequencesExt

CONSTANT
  Problems    \* [parts, draft, quantity, clash, locked, owned, newPurchase, ceiling]

VARIABLES
  problem,
  draft,      \* the selection: category -> part number
  stage,      \* "unknowns" -> "budget" -> "done", or "crashed"
  notes       \* what the repairs added to the issues of the result

vars == <<problem, draft, stage, notes>>

Categories == <<"cpu", "gpu", "motherboard", "memory", "ssd", "psu", "case", "cooler">>
NoPrice == -1
NoTier  == -1

\* The answer of a search: nothing, a selection, or a crash.
Nothing  == [kind |-> "nothing", sel |-> problem.draft]
Found(sel) == [kind |-> "found", sel |-> sel]
Crash    == [kind |-> "crash", sel |-> problem.draft]

Part(n) == problem.parts[n]
Used(sel) == DOMAIN sel
Selections == [Used(draft) -> DOMAIN problem.parts]

-----------------------------------------------------------------------------
(* Validation and quote of a selection *)

Fails(sel) == {pair \in problem.clash : pair \subseteq Range(sel)}
Unknown(sel) == {c \in Used(sel) : ~Part(sel[c]).complete}
Passes(sel) == Fails(sel) = {} /\ Unknown(sel) = {}
Missing(sel) == {c \in Used(sel) : Part(sel[c]).price = NoPrice}

\* The priced part of the total; the full quote counts every category.
Sum(sel, cats) ==
  MapThenSumSet(LAMBDA c : problem.quantity[c] * Part(sel[c]).price, cats \ Missing(sel))
Total(sel) == Sum(sel, Used(sel))

\* What the budget is compared with: the purchases, when that is its basis
\* and the selected part is one the user owns.
BudgetAmount(sel) ==
  IF problem.newPurchase THEN Sum(sel, Used(sel) \ problem.owned) ELSE Total(sel)
Overrun(sel) == BudgetAmount(sel) - problem.ceiling

-----------------------------------------------------------------------------
(* Slots and their options *)

Locked == problem.owned \cup problem.locked

TierNotLower(old, new) == /\ old.tier # NoTier
                          /\ new.tier # NoTier
                          /\ new.tier >= old.tier

\* A part without specifications may gain a tier, but not lose one; three
\* categories are not compared at all.
UnknownSwapTierOK(old, new) ==
  \/ old.category \in {"cpu", "gpu", "case"}
  \/ old.tier = NoTier
  \/ new.tier # NoTier /\ new.tier >= old.tier

Others(sel, c) == {n \in DOMAIN problem.parts :
                     /\ Part(n).category = c
                     /\ n # sel[c]
                     /\ ~Part(n).external
                     /\ Part(n).price # NoPrice}

Cheaper(sel, c, sacrifice) ==
  {n \in Others(sel, c) : /\ Part(sel[c]).price # NoPrice
                          /\ Part(n).price < Part(sel[c]).price
                          /\ sacrifice \/ TierNotLower(Part(sel[c]), Part(n))}

Saving(sel, c, n) == problem.quantity[c] * (Part(sel[c]).price - Part(n).price)
MaxSave(sel, c) == Max({Saving(sel, c, n) : n \in Cheaper(sel, c, FALSE)})

Rank(c) == CHOOSE i \in DOMAIN Categories : Categories[i] = c

\* The replaceable categories, the one that can save most first.
Places(sel) ==
  SetToSortSeq({c \in Used(sel) \ Locked : Cheaper(sel, c, FALSE) # {}},
               LAMBDA c, d : \/ MaxSave(sel, c) > MaxSave(sel, d)
                             \/ MaxSave(sel, c) = MaxSave(sel, d) /\ Rank(c) < Rank(d))

\* The dearest option first, so that little is changed.
Options(sel, c) ==
  SetToSortSeq(Cheaper(sel, c, FALSE),
               LAMBDA m, n : \/ Part(m).price > Part(n).price
                             \/ Part(m).price = Part(n).price /\ m < n)

-----------------------------------------------------------------------------
(* Pressing the price *)

\* Mutant of Verified: a total under the ceiling is enough.
PriceOnly(sel) == IF Total(sel) <= problem.ceiling THEN Found(sel) ELSE Nothing

\* The combination is evaluated anew.  The quote of that evaluation knows
\* nothing of owned parts: it is the full total that has to fit.
Verified(sel) == IF Passes(sel) /\ Missing(sel) = {} /\ Total(sel) <= problem.ceiling
                 THEN Found(sel) ELSE Nothing

First(Try(_), choices) ==
  FoldLeft(LAMBDA found, n : IF found # Nothing THEN found ELSE Try(n), Nothing, choices)

\* Depth first over the slots, keeping a part before replacing it.  As soon
\* as the savings cover the overrun the combination is verified, and no
\* further slot is added to it.
Search(slots) ==
  LET from[i \in 1 .. Len(slots) + 1, sel \in Selections, remaining \in Int] ==
        IF remaining <= 0 THEN Verified(sel)
        ELSE IF \/ i > Len(slots)
                \/ MapThenSumSet(LAMBDA j : MaxSave(draft, slots[j]), i .. Len(slots)) < remaining
             THEN Nothing
        ELSE LET c == slots[i]
                 Try(n) == from[i + 1, [sel EXCEPT ![c] = n], remaining - Saving(draft, c, n)]
             IN  First(Try, <<draft[c]>> \o Options(draft, c))
  IN  from[1, draft, Overrun(draft)]

BudgetFix == Search(Places(draft))

\* One downgrade that covers the overrun and breaks no rule that held.
Sacrifices ==
  {swap \in Used(draft) \X DOMAIN problem.parts :
     LET c     == swap[1]
         n     == swap[2]
         after == [draft EXCEPT ![c] = n]
     IN  /\ c \notin Locked
         /\ n \in Cheaper(draft, c, TRUE)
         /\ Saving(draft, c, n) >= Overrun(draft)
         /\ Missing(after) = {}
         /\ Cardinality(Fails(after)) <= Cardinality(Fails(draft))
         /\ Cardinality(Unknown(after)) <= Cardinality(Unknown(draft))}

-----------------------------------------------------------------------------
(* Completing the specifications *)

UnknownOptions(c) ==
  SetToSortSeq({n \in Others(draft, c) : /\ Part(n).complete
                                         /\ UnknownSwapTierOK(Part(draft[c]), Part(n))},
               LAMBDA m, n : \/ Part(m).price < Part(n).price
                             \/ Part(m).price = Part(n).price /\ m < n)

UnknownSlots == SelectSeq(Categories, LAMBDA c : /\ c \in Unknown(draft) \ Locked
                                                 /\ UnknownOptions(c) # <<>>)

\* The price difference is computed before the evaluation; a replaced part
\* without a price is a nil pointer there.
UnknownVerified(sel, changed) ==
  IF \E c \in changed : Part(draft[c]).price = NoPrice THEN Crash
  ELSE IF Passes(sel) /\ Missing(sel) = {} THEN Found(sel) ELSE Nothing

\* Another storage part is chosen, but not put into the selection.
Swapped(sel, c, n) == IF c = "ssd" THEN sel ELSE [sel EXCEPT ![c] = n]

Complete(slots) ==
  LET from[i \in 1 .. Len(slots) + 1, sel \in Selections, changed \in SUBSET Used(draft)] ==
        IF i > Len(slots) THEN UnknownVerified(sel, changed)
        ELSE LET c == slots[i]
                 Try(n) == IF n = draft[c] THEN from[i + 1, sel, changed]
                           ELSE from[i + 1, Swapped(sel, c, n), changed \cup {c}]
             IN  First(Try, <<draft[c]>> \o UnknownOptions(c))
  IN  from[1, draft, {}]

UnknownFix == IF UnknownSlots = <<>> THEN Nothing ELSE Complete(UnknownSlots)

-----------------------------------------------------------------------------
Init == /\ problem \in Problems
        /\ draft = problem.draft
        /\ stage = "unknowns"
        /\ notes = {}

FixUnknowns ==
  /\ stage = "unknowns"
  /\ LET answer == UnknownFix IN
     /\ stage' = IF answer.kind = "crash" THEN "crashed" ELSE "budget"
     /\ draft' = IF answer.kind = "found" THEN answer.sel ELSE draft
     /\ notes' = IF answer.kind = "found" THEN notes \cup {"completed"} ELSE notes
  /\ UNCHANGED problem

PressPrice ==
  /\ stage = "budget"
  /\ Overrun(draft) > 0
  /\ LET answer == BudgetFix IN
     IF answer.kind = "found"
     THEN /\ draft' = answer.sel
          /\ notes' = notes \cup {"replaced"}
     ELSE /\ notes' = notes \cup {IF Sacrifices # {} THEN "sacrifice" ELSE "no way"}
          /\ UNCHANGED draft
  /\ stage' = "done"
  /\ UNCHANGED problem

WithinBudget ==
  /\ stage = "budget"
  /\ Overrun(draft) <= 0
  /\ stage' = "done"
  /\ UNCHANGED <<problem, draft, notes>>

Next == FixUnknowns \/ PressPrice \/ WithinBudget

Spec == Init /\ [][Next]_vars

-----------------------------------------------------------------------------
\* What the server changed on its own authority may be changed: no locked
\* category, no part from the web, no lower tier, which a completion only
\* compares as far as it is known; and a draft it announces as repaired passes
\* every rule, is fully priced and, after pressing the price, within the
\* ceiling (budget_solver.go:3-6).
FixIsSound ==
  /\ \A c \in DOMAIN draft : draft[c] # problem.draft[c] =>
       /\ c \notin Locked
       /\ ~Part(draft[c]).external
       /\ IF "completed" \in notes
          THEN UnknownSwapTierOK(Part(problem.draft[c]), Part(draft[c]))
          ELSE TierNotLower(Part(problem.draft[c]), Part(draft[c]))
  /\ notes \cap {"completed", "replaced"} # {} => Passes(draft) /\ Missing(draft) = {}
  /\ "replaced" \in notes => Overrun(draft) <= 0

\* "No replacement without a lower tier is left in the catalogue" is told
\* the user only if it is so (budgetSacrifice.issue): then no choice among
\* the admissible cheaper parts passes the rules within the ceiling.
Combinations ==
  {sel \in [Used(draft) -> DOMAIN problem.parts] :
     \A c \in Used(draft) : \/ sel[c] = draft[c]
                            \/ c \notin Locked /\ sel[c] \in Cheaper(draft, c, FALSE)}
FixFoundIfAny ==
  notes \cap {"sacrifice", "no way"} # {} =>
    \A sel \in Combinations : ~(Passes(sel) /\ Missing(sel) = {} /\ Overrun(sel) <= 0)
=============================================================================
