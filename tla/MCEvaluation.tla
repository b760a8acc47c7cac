---------------------------- MODULE MCEvaluation -----------------------------
(***************************************************************************)
(* A small dataset for EvalReport: one case of every layer, and a second   *)
(* reducer and extraction case in the holdout.  A set-up that fails, a     *)
(* model that writes what it must not, a turn for which the calls do not   *)
(* suffice and a reducer that errs are among what its cases may show.      *)
(***************************************************************************)
EXTENDS Naturals, FiniteSets, Sequences

Grading == INSTANCE EvalGrading

Ready    == [error |-> FALSE, eligible |-> TRUE, missing |-> {}]
NotReady == [error |-> FALSE, eligible |-> FALSE, missing |-> {"use_case"}]

Empty == Grading!EmptyState
State(revision, fields) == [revision |-> revision, fields |-> fields, sourced |-> DOMAIN fields]
Start0 == State(1, [budget_cny |-> "8000"])
Use    == State(2, [budget_cny |-> "8000", use_case |-> "game"])
Wrong  == State(2, [budget_cny |-> "8000", use_case |-> "office"])

Put(field, value) == [field |-> field, value |-> value]

\* A turn of a user's message that the product answers without a model.
Plain ==
  [kind |-> "message", refused |-> "", input |-> Grading!None, frozen |-> Grading!None,
   active |-> FALSE, building |-> FALSE, behind |-> FALSE,
   was |-> [state |-> Empty, readiness |-> NotReady], state |-> Start0, readiness |-> NotReady,
   ops |-> {Put("budget_cny", "8000")}, signals |-> Grading!None, calls |-> 0, failed |-> FALSE,
   millis |-> 0, claims |-> FALSE, offers |-> FALSE, asks |-> {}, action |-> "screening"]

Asked == [Plain EXCEPT !.calls = 1, !.millis = 1, !.signals = [asks |-> TRUE]]
Given == [Asked EXCEPT !.was = [state |-> Start0, readiness |-> NotReady],
                       !.state = Use, !.readiness = Ready, !.ops = {Put("use_case", "game")},
                       !.signals = [asks |-> FALSE]]

TurnGold(ops, fields, signals) ==
  [ops |-> ops, fields |-> fields, forbidden |-> {}, signals |-> signals,
   readiness |-> Grading!None, mute |-> {"budget_cny"}]

Cases == <<"reduce", "merge", "ready", "admit", "show", "extract", "held", "talk">>

Expected ==
  [reduce  |-> [layer |-> "reducer", split |-> "calibration", session |-> "a",
                reject |-> "", initial |-> Start0, delta |-> 1, fields |-> [use_case |-> "game"]],
   merge   |-> [layer |-> "reducer", split |-> "holdout", session |-> "h",
                reject |-> "", initial |-> Start0, delta |-> 1, fields |-> [use_case |-> "game"]],
   ready   |-> [layer |-> "readiness", split |-> "calibration", session |-> "b",
                missing |-> {"use_case"}, eligible |-> FALSE],
   admit   |-> [layer |-> "policy", split |-> "calibration", session |-> "c",
                started |-> TRUE, action |-> "build", reason |-> "ok", accepted |-> "any",
                watch |-> TRUE],
   show    |-> [layer |-> "ui-contract", split |-> "calibration", session |-> "d",
                missing |-> {}, eligible |-> TRUE, confirmation |-> "pending",
                relation |-> "none"],
   extract |-> [layer |-> "extraction", split |-> "development", session |-> "e", watch |-> FALSE,
                turns |-> <<TurnGold({Put("budget_cny", "8000")}, [budget_cny |-> "8000"], [asks |-> TRUE])>>],
   held    |-> [layer |-> "extraction", split |-> "holdout", session |-> "f", watch |-> FALSE,
                turns |-> <<TurnGold({Put("budget_cny", "8000")}, [budget_cny |-> "8000"], [asks |-> TRUE])>>],
   talk    |-> [layer |-> "conversations", split |-> "development", session |-> "g", watch |-> TRUE,
                turns |-> <<TurnGold({Put("budget_cny", "8000")}, [budget_cny |-> "8000"], [asks |-> TRUE]),
                            TurnGold({Put("use_case", "game")}, [use_case |-> "game"], [asks |-> FALSE])>>,
                final |-> [fields |-> [budget_cny |-> "8000", use_case |-> "game"], started |-> FALSE,
                           missing |-> {}, eligible |-> TRUE]]]

Confirmed == [Plain EXCEPT !.kind = "confirm", !.input = [hash |-> "h"], !.frozen = [hash |-> "h"], !.active = TRUE,
                           !.building = TRUE, !.state = Use, !.readiness = Ready, !.ops = {},
                           !.action = "build"]

Script0 == [turns |-> <<>>, readiness |-> {}, ui |-> {}]

Happens ==
  [reduce  |-> [Script0 EXCEPT !.turns = <<{[Plain EXCEPT !.state = Use, !.readiness = Ready]}>>],
   merge   |-> [Script0 EXCEPT !.turns = <<{[Plain EXCEPT !.state = Use, !.readiness = Ready],
                                            [Plain EXCEPT !.state = Wrong, !.readiness = Ready]}>>],
   ready   |-> [Script0 EXCEPT !.readiness = {NotReady}],
   admit   |-> [Script0 EXCEPT !.turns = <<{Confirmed}>>],
   show    |-> [Script0 EXCEPT !.ui = {[block |-> TRUE, confirmation |-> "pending",
                                        relation |-> "none", readiness |-> Ready]}],
   extract |-> [Script0 EXCEPT !.turns = <<{Asked,
                                            [Asked EXCEPT !.ops = @ \cup {Put("use_case", "game")}]}>>],
   held    |-> [Script0 EXCEPT !.turns = <<{Asked, [Asked EXCEPT !.signals = [asks |-> FALSE]]}>>],
   talk    |-> [Script0 EXCEPT !.turns = <<{Asked, [Asked EXCEPT !.calls = 3]},
                                           {Given}>>]]

Thresholds ==
  [releaseRepeats |-> 2, pairs |-> 1, precision |-> 100, recall |-> 95, signals |-> 90,
   caseSuccess |-> 85, finalState |-> 85, provider |-> 100, taskSuccess |-> 85,
   cases |-> 1, conversations |-> 1, signalTurns |-> 1, millis |-> 2, callsPerTurn |-> 4,
   keyFields |-> {"budget_cny", "use_case"}]

Least == [repeats |-> 1, pairs |-> 1, cases |-> 1, conversations |-> 1, signalTurns |-> 1,
          discordant |-> 2]

Known ==
  LET gold == TurnGold({Put("budget_cny", "8000")}, [budget_cny |-> "8000"], [asks |-> TRUE])
      seen(p) == Grading!TurnOf(p, 1)
      entry(veto, t) == [veto |-> veto, gold |-> gold, turn |-> t, pending |-> {}, watch |-> TRUE]
  IN  {entry("", seen(Asked)),
       entry("V1", [seen(Asked) EXCEPT !.state.sourced = {}]),
       entry("V7", [seen(Asked) EXCEPT !.stale = TRUE]),
       entry("V9", seen([Asked EXCEPT !.offers = TRUE]))}

\* Two cases of the model, tried twice.
Compared ==
  {[i \in 1..4 |-> [case   |-> IF i < 3 THEN "extract" ELSE "talk",
                    repeat |-> IF i % 2 = 1 THEN 1 ELSE 2,
                    pass   |-> passes[i]]] : passes \in [1..4 -> BOOLEAN]}

Asks    == {{"development", "calibration"}, {"holdout"}}
Counted == {1, 2}
=============================================================================
