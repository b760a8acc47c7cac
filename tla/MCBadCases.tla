------------------------------ MODULE MCBadCases ------------------------------
(***************************************************************************)
(* Three runs of one or two cases for BadCases: one that failed, one that  *)
(* may speak for a fix of it, and one that is an older recording graded    *)
(* again, or a run under another grader.                                   *)
(***************************************************************************)
EXTENDS Naturals, FiniteSets

Row(case, repeat, judged, failed, veto) ==
  [case |-> case, repeat |-> repeat, pass |-> failed = {} /\ ~veto, failed |-> failed,
   veto |-> veto, skipped |-> FALSE, error |-> FALSE, judged |-> judged]
Passing(case, repeat) == Row(case, repeat, {"a", "b"}, {}, FALSE)
Skipped(case, repeat) == [Row(case, repeat, {}, {}, FALSE) EXCEPT !.pass = FALSE, !.skipped = TRUE]
Gap(case, repeat)     == [Passing(case, repeat) EXCEPT !.pass = FALSE]

RunOf(rows, gate, judge, model) ==
  [mode |-> "live", manifest |-> "m", judge |-> judge, repeats |-> 2, rows |-> rows,
   gates |-> [g \in {"pass"} |-> gate], code |-> "clean", model |-> model,
   source |-> 0, sourceReport |-> "", report |-> "written", harm |-> {}]

Failed == {Row("x", 1, {"a", "b"}, {"a"}, FALSE), Row("x", 2, {"a", "b"}, {"a", "b"}, FALSE),
           Passing("y", 1), Passing("y", 2)}
Vetoed == {Row("x", 1, {"a", "veto"}, {"veto"}, TRUE), Gap("x", 2), Skipped("y", 1), Skipped("y", 2)}
Passed == {Passing(c, k) : c \in {"x", "y"}, k \in 1..2}
Once   == {Passing("x", 1), Skipped("x", 2), Passing("y", 1), Skipped("y", 2)}

Profiles ==
  [n \in 1..3 |->
    CASE n = 1 -> {RunOf(Failed, "failed", "j1", "p"), RunOf(Vetoed, "unevaluable", "j1", "p")}
      [] n = 2 -> {RunOf(Passed, "passed", "j1", "p"), RunOf(Passed, "passed", "j1", "q"),
                   RunOf(Once, "passed", "j1", "p")}
      [] n = 3 -> {RunOf(Failed, "failed", "j2", "p"),
                   [RunOf(Failed, "failed", "j1", "p") EXCEPT !.mode = "regrade", !.source = 1,
                                                              !.sourceReport = "written"]}]

Ref(n, case, assertion, repeat) ==
  [run |-> n, case |-> case, assertion |-> assertion, metric |-> "", repeat |-> repeat]
Tried(baseline, candidate, case, historical) ==
  [historical |-> historical, baseline |-> baseline, candidate |-> candidate, case |-> case,
   metric |-> IF case = "" THEN "pass" ELSE "", accepted |-> TRUE]

Review(id, refs, status, validations) ==
  [id |-> id, kind |-> "question", status |-> status, refs |-> refs, confirmed |-> TRUE,
   fixed |-> status # "located", validations |-> validations, regression |-> 0]

Located   == Review("found", {Ref(1, "x", "a", 1)}, "located", {})
Verified  == Review("fixed", {Ref(1, "x", "a", 0), Ref(2, "x", "", 0)}, "verified", {Tried(1, 2, "x", FALSE)})
Earlier   == Review("early", {Ref(1, "x", "a", 0), Ref(3, "x", "b", 2)}, "verified", {Tried(3, 2, "x", TRUE)})
Recurred  == [Review("again", {Ref(1, "x", "a", 0), Ref(3, "x", "a", 2)}, "recurred", {})
              EXCEPT !.regression = 3]
Gate      == [Review("gate", {[run |-> n, case |-> "", assertion |-> "", metric |-> "pass", repeat |-> 0]
                              : n \in {1, 2}}, "verified", {Tried(1, 2, "", FALSE)})
              EXCEPT !.kind = "run"]

IndexOf(reviews, reference) == [reviews |-> reviews, reference |-> reference]

Written ==
  {IndexOf({}, 0), IndexOf({}, 2), IndexOf({Located}, 2), IndexOf({Verified, Gate}, 2),
   IndexOf({Earlier}, 0), IndexOf({Recurred}, 3),
   IndexOf({Verified, [Located EXCEPT !.confirmed = FALSE]}, 2)}
=============================================================================
