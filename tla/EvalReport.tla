----------------------------- MODULE EvalReport -----------------------------
(***************************************************************************)
(* The evaluation of the requirement conversation against its frozen       *)
(* contract (cmd/evalrequirement, internal/planningeval): a run observes   *)
(* the selected cases in their order, each as often as it was asked to,    *)
(* grades what it sees and folds the repetitions of a case: it passes if   *)
(* every one does.  The gates then decide whether a candidate may be       *)
(* released.  A recorded run can be graded again without a model, and two  *)
(* recordings can be compared.                                             *)
(*                                                                         *)
(* Rates are percentages of counts; the case files are given as constants. *)
(***************************************************************************)
EXTENDS Naturals, FiniteSets, Sequences, FiniteSetsExt, SequencesExt, EvalGrading

CONSTANTS
  Order,      \* the cases of the dataset, in the order of their layers
  Gold,       \* what each case expects, and its split
  Script,     \* what each case does: a set-up, and what each turn may show
  Gates,      \* the frozen thresholds
  Floors,     \* the least thresholds the check of the gates accepts
  Selftest,   \* the entries of the grader's own test
  Splits,     \* the selections of splits a run is asked for
  Repeats,    \* the numbers of repetitions a run is asked for
  MaxCalls,   \* the budget of calls it is given
  Recordings  \* what a comparison may be given: a case, repeat and pass each

DeterministicLayers == {"reducer", "readiness", "policy", "ui-contract"}
ModelLayers         == {"extraction", "conversations"}

VARIABLES
  stage,    \* "idle", "running", "aborted", "finished", "compared"
  request,  \* the options of the run
  results,  \* the results of the tries so far
  verdict,  \* what the gates say of the run
  replayed, \* what grading the recording again says
  outcome   \* what a comparison says

evalVars == <<stage, request, results, verdict, replayed, outcome>>

-----------------------------------------------------------------------------
(* The dataset and its gates *)

\* A session of the dataset belongs to one split, and so does a template.
SplitsHold ==
  \A c, d \in ToSet(Order) : Gold[c].session = Gold[d].session => Gold[c].split = Gold[d].split

GatesHold ==
  /\ Gates.releaseRepeats >= Floors.repeats
  /\ Gates.pairs >= Floors.pairs
  /\ Gates.precision >= Gates.recall
  /\ \A p \in {Gates.precision, Gates.recall, Gates.signals, Gates.caseSuccess,
               Gates.finalState, Gates.provider, Gates.taskSuccess} : p \in 1..100
  /\ Gates.cases >= Floors.cases /\ Gates.conversations >= Floors.conversations
  /\ Gates.signalTurns >= Floors.signalTurns
  /\ Gates.millis > 0 /\ Gates.callsPerTurn > 0 /\ Gates.keyFields # {}

\* A case joins the run if its split was asked for.
Join(splits, cases, c) == IF Gold[c].split \in splits THEN Append(cases, c) ELSE cases
Selected == FoldLeft(LAMBDA cases, c : Join(request.splits, cases, c), <<>>, Order)

-----------------------------------------------------------------------------
(* Observing a case *)

Requested(turns) == SumFunction([i \in DOMAIN turns |-> turns[i].requests])

\* The turns a case may show: each turn has the calls its gateway has left.
\* Every case is driven through a gateway of its own.
Turned(s, p) ==
  LET t == TurnOf(p, s.left) IN [turns |-> Append(s.turns, t), left |-> s.left - t.requests]
OneTurn(seen, choices)  == UNION {{Turned(s, p) : p \in choices} : s \in seen}
TurnsFrom(script, left) ==
  {s.turns : s \in FoldLeft(OneTurn, {[turns |-> <<>>, left |-> left]}, script)}

Skipped == [NothingSeen EXCEPT !.skipped = TRUE]

\* What the driver sees of a case of each layer.  A set-up or a turn of the
\* product that fails leaves the turns before it.
Seen(c)         == {[NothingSeen EXCEPT !.turns = s] : s \in TurnsFrom(Script[c].turns, MaxCalls)}
ReadinessOf(c)  == {[NothingSeen EXCEPT !.readiness = r] : r \in Script[c].readiness}
PolicyOf(c)     == {NothingSeen} \cup Seen(c)
UIOf(c)         == {NothingSeen} \cup {[NothingSeen EXCEPT !.ui = u] : u \in Script[c].ui}
ExtractionOf(c) == {NothingSeen} \cup Seen(c)
ConversationOf(c) ==
  {[o EXCEPT !.turns = Front(@)] : o \in Seen(c)}
  \cup {[o EXCEPT !.final = Last(o.turns).state,
                  !.everStarted = \E i \in DOMAIN o.turns : o.turns[i].started] : o \in Seen(c)}

\* Without the database only the pure layers are observed, and without a
\* model the layers of the model are skipped.
Observations(c) ==
  LET layer == Gold[c].layer
      skip  == \/ layer \notin {"reducer", "readiness"} /\ ~request.db
               \/ layer \in ModelLayers /\ ~request.live
  IN  CASE skip -> {[NothingSeen EXCEPT !.skipped = TRUE]}
        [] layer = "reducer"                   -> Seen(c)
        [] layer = "readiness"                 -> ReadinessOf(c)
        [] layer = "policy" /\ ~skip           -> PolicyOf(c)
        [] layer = "ui-contract" /\ ~skip      -> UIOf(c)
        [] layer = "extraction" /\ ~skip       -> ExtractionOf(c)
        [] layer = "conversations" /\ ~skip    -> ConversationOf(c)

-----------------------------------------------------------------------------
(* Folding the repetitions, and the quality of the model's layers *)

Of(res, layer) == {i \in DOMAIN res : Gold[res[i].case].layer = layer /\ ~res[i].obs.skipped}
CasesOf(res, layer) == {res[i].case : i \in Of(res, layer)}

\* Mutant of PassedOf: one good try is enough.
PassedOnce(res, layer) ==
  {c \in CasesOf(res, layer) : \E i \in Of(res, layer) : res[i].case = c /\ res[i].pass}

\* pass^k: every try of the case passed.
PassedOf(res, layer) ==
  {c \in CasesOf(res, layer) : \A i \in Of(res, layer) : res[i].case = c => res[i].pass}

Sum(S, Op(_))  == SumFunction([x \in S |-> Op(x)])
Failed(r, name) == {a \in r.checks : a.check.name = name /\ ~a.check.pass}

\* The turns observed for the golds of a case; a case with fewer turns counts
\* only those.
Graded(r) == DOMAIN r.obs.turns \cap DOMAIN Gold[r.case].turns

\* What the gold does not explain, on a field that matters most.
WrongWrites(r) ==
  Sum(Graded(r), LAMBDA i :
      Cardinality({o \in r.obs.turns[i].ops \ Gold[r.case].turns[i].ops : o.field \in Gates.keyFields}))

QualityOf(res, layer) ==
  LET tries    == Of(res, layer)
      over(Op(_, _)) == Sum(tries, LAMBDA i : Sum(Graded(res[i]), LAMBDA j :
                          Op(res[i].obs.turns[j], Gold[res[i].case].turns[j])))
  IN  [expected  |-> over(LAMBDA t, g : Cardinality(g.ops)),
       emitted   |-> over(LAMBDA t, g : Cardinality(t.ops)),
       matched   |-> over(LAMBDA t, g : Cardinality(t.ops \cap g.ops)),
       signals   |-> over(LAMBDA t, g : IF g.signals # None THEN 1 ELSE 0),
       signalled |-> over(LAMBDA t, g : IF g.signals # None /\ t.signals = g.signals THEN 1 ELSE 0),
       forbidden |-> Sum(tries, LAMBDA i : Cardinality(Failed(res[i], "forbidden_op"))),
       wrong     |-> Sum(tries, LAMBDA i : WrongWrites(res[i]))]

\* Cases whose final state is asserted, and those it held for in every try.
StateTries(res, c) == {i \in Of(res, "extraction") : res[i].case = c}
StateCases(res) ==
  {c \in CasesOf(res, "extraction") :
     \E i \in StateTries(res, c) : \E a \in res[i].checks : a.check.name = "state"}
StateExact(res) ==
  {c \in StateCases(res) : \A i \in StateTries(res, c) : Failed(res[i], "state") = {}}

\* The turns in which a provider was called.
TurnIn(res, ij) == res[ij[1]].obs.turns[ij[2]]
ProviderTurns(res) ==
  {ij \in UNION {{i} \X DOMAIN res[i].obs.turns : i \in DOMAIN res} :
     Gold[res[ij[1]].case].layer \in ModelLayers /\ TurnIn(res, ij).called}

\* The nearest rank: the least time that 95 of 100 turns do not exceed.
P95(res) ==
  LET turns == ProviderTurns(res)
      time(ij) == TurnIn(res, ij).millis
  IN  Min({time(ij) : ij \in {k \in turns :
             100 * Cardinality({l \in turns : time(l) <= time(k)}) >= 95 * Cardinality(turns)}})

-----------------------------------------------------------------------------
(* The gates *)

Holds(metric, ok)    == [metric |-> metric, passed |-> ok, evaluable |-> TRUE]
Insufficient(metric) == [metric |-> metric, passed |-> FALSE, evaluable |-> FALSE]
Enough(metric, n, least) == IF n < least THEN Insufficient(metric) ELSE Holds(metric, TRUE)
Rate(metric, m, n, percent) ==
  IF n = 0 THEN Insufficient(metric) ELSE Holds(metric, 100 * m >= percent * n)

ExtractionGates(res, q) ==
  {Enough("min_cases", Cardinality(CasesOf(res, "extraction")), Gates.cases),
   Rate("operation_precision", q.matched, q.emitted, Gates.precision),
   Rate("operation_recall", q.matched, q.expected, Gates.recall),
   Holds("forbidden_op_total", q.forbidden = 0),
   IF q.signals < Gates.signalTurns THEN Insufficient("min_signal_turns")
   ELSE Rate("turn_signal_exact_match", q.signalled, q.signals, Gates.signals),
   Rate("case_success", Cardinality(PassedOf(res, "extraction")),
        Cardinality(CasesOf(res, "extraction")), Gates.caseSuccess),
   Rate("final_state_exact_match", Cardinality(StateExact(res)),
        Cardinality(StateCases(res)), Gates.finalState)}

ProviderGates(res, budget) ==
  LET turns == ProviderTurns(res)
      fine  == {ij \in turns : ~TurnIn(res, ij).failed}
  IN  {Rate("provider_success", Cardinality(fine), Cardinality(turns), Gates.provider),
       IF turns = {} THEN Insufficient("latency_p95") ELSE Holds("latency_p95", P95(res) <= Gates.millis),
       IF turns = {} THEN Insufficient("max_model_calls_per_turn")
       ELSE Holds("max_model_calls_per_turn",
                  \A ij \in turns : TurnIn(res, ij).requests <= Gates.callsPerTurn),
       IF budget = 0 THEN Insufficient("total_calls_within_budget")
       ELSE Holds("total_calls_within_budget",
                  Sum(DOMAIN res, LAMBDA i : Requested(res[i].obs.turns)) <= budget)}

ConversationGates(res) ==
  {Enough("conversation_cases", Cardinality(CasesOf(res, "conversations")), Gates.conversations),
   Rate("task_success", Cardinality(PassedOf(res, "conversations")),
        Cardinality(CasesOf(res, "conversations")), Gates.taskSuccess),
   Holds("repeated_question", \A i \in DOMAIN res :
           Gold[res[i].case].layer = "conversations" => Failed(res[i], "repeated_question") = {})}

TotalGates(res, ex, cv) ==
  {Holds("veto_total", \A i \in DOMAIN res : res[i].vetoes = {}),
   IF ex.emitted + cv.emitted = 0 THEN Insufficient("key_field_wrong_write_total")
   ELSE Holds("key_field_wrong_write_total", ex.wrong + cv.wrong = 0)}

Verdicts(res, budget) ==
  LET ex == QualityOf(res, "extraction")
      cv == QualityOf(res, "conversations")
  IN  ExtractionGates(res, ex) \cup ProviderGates(res, budget)
      \cup ConversationGates(res) \cup TotalGates(res, ex, cv)

\* A gate that fails or cannot be evaluated blocks the candidate, and so does
\* a deterministic layer without a case or with one that did not pass.
Conclude(res, budget) ==
  /\ \A v \in Verdicts(res, budget) : v.passed /\ v.evaluable
  /\ \A layer \in DeterministicLayers :
       CasesOf(res, layer) # {} /\ PassedOf(res, layer) = CasesOf(res, layer)

-----------------------------------------------------------------------------
(* Running, grading again, comparing *)

Init ==
  /\ stage = "idle" /\ request = None /\ results = <<>>
  /\ verdict = None /\ replayed = None /\ outcome = None

\* The holdout is run alone; a live run needs a budget.
Start ==
  /\ stage = "idle" /\ SplitsHold /\ GatesHold /\ SelftestHolds(Selftest)
  /\ \E s \in Splits, k \in Repeats, live, db \in BOOLEAN :
       /\ "holdout" \in s => s = {"holdout"}
       /\ live => MaxCalls > 0
       /\ request' = [splits |-> s, repeats |-> k, live |-> live, db |-> db]
  /\ stage' = "running"
  /\ UNCHANGED <<results, verdict, replayed, outcome>>

Tries == Len(Selected) * request.repeats

\* The tries of a case follow each other.
ObserveCase ==
  /\ stage = "running" /\ Len(results) < Tries
  /\ LET n == Len(results)
         c == Selected[(n \div request.repeats) + 1]
     IN  \E obs \in Observations(c) :
           results' = Append(results, ResultOf(c, Gold[c], (n % request.repeats) + 1, obs))
  /\ UNCHANGED <<stage, request, verdict, replayed, outcome>>

\* The database or the journal fails: the results so far are written, and no
\* gate is evaluated.
Abort ==
  /\ stage = "running" /\ Len(results) < Tries
  /\ stage' = "aborted"
  /\ UNCHANGED <<request, results, verdict, replayed, outcome>>

Finish ==
  /\ stage = "running" /\ Len(results) = Tries
  /\ stage' = "finished"
  /\ verdict' = [passed |-> Conclude(results, MaxCalls)]
  /\ UNCHANGED <<request, results, replayed, outcome>>

\* Only what was observed is taken from the recording.  The budget is the one
\* of its plan.
Replay ==
  /\ stage \in {"finished", "aborted"} /\ replayed = None
  /\ LET again == [i \in DOMAIN results |->
                     LET r == results[i] IN ResultOf(r.case, Gold[r.case], r.repeat, r.obs)]
     IN  replayed' = [passed  |-> Conclude(again, MaxCalls),
                      changed |-> {i \in DOMAIN results : again[i].pass # results[i].pass}]
  /\ UNCHANGED <<stage, request, results, verdict, outcome>>

\* Mutant of FoldedPass: the last repetition stands for the case.
LastPass(rec) ==
  [c \in {rec[i].case : i \in DOMAIN rec} |->
     rec[Max({i \in DOMAIN rec : rec[i].case = c})].pass]

\* The repetitions of a case folded; a case is paired if both recorded it.
FoldedPass(rec) ==
  [c \in {rec[i].case : i \in DOMAIN rec} |->
     \A i \in DOMAIN rec : rec[i].case = c => rec[i].pass]

Paired(base, cand) ==
  LET b == FoldedPass(base)  n == FoldedPass(cand)
      both      == DOMAIN b \cap DOMAIN n
      pairs     == {c \in both : Gold[c].layer \in ModelLayers}
      regressed == {c \in pairs : b[c] /\ ~n[c]}
      newly     == {c \in pairs : ~b[c] /\ n[c]}
  IN  [pairs |-> pairs, regressed |-> regressed, newly |-> newly,
       \* the McNemar test needs the samples and six pairs that disagree
       tested |-> /\ Cardinality(pairs) >= Gates.pairs
                  /\ Cardinality(regressed) + Cardinality(newly) >= Floors.discordant]

\* Two recordings of one dataset, grader and number of repetitions.
Compare ==
  /\ stage = "idle"
  /\ \E base, cand \in Recordings :
       outcome' = [base |-> base, cand |-> cand, says |-> Paired(base, cand)]
  /\ stage' = "compared"
  /\ UNCHANGED <<request, results, verdict, replayed>>

Next == Start \/ ObserveCase \/ Abort \/ Finish \/ Replay \/ Compare

Spec == Init /\ [][Next]_evalVars

-----------------------------------------------------------------------------
(* Properties *)

\* Gates that pass mean what the repetitions showed: every try of every
\* selected deterministic case passed, the model was run, no try had a veto or
\* wrote a key field the user did not give, and enough cases of the model's
\* layers passed in every one of their tries.
PassIsEarned ==
  (stage = "finished" /\ verdict.passed) =>
    /\ request.live /\ request.db
    /\ \A i \in DOMAIN results :
         /\ results[i].vetoes = {}
         /\ Gold[results[i].case].layer \in DeterministicLayers => results[i].pass
         /\ Gold[results[i].case].layer \in ModelLayers => WrongWrites(results[i]) = 0
    /\ LET model  == {c \in ToSet(Selected) : Gold[c].layer = "extraction"}
           failed == {results[i].case : i \in {j \in DOMAIN results : ~results[j].pass}}
       IN  100 * Cardinality(model \ failed) >= Gates.caseSuccess * Cardinality(model)

\* A case of the model's layers that passed in every try of the base and
\* failed in a try of the candidate is reported, whatever its other tries did.
RegressionsAreSeen ==
  stage = "compared" =>
    LET base == outcome.base  cand == outcome.cand
        fails(rec, c) == \E i \in DOMAIN rec : rec[i].case = c /\ ~rec[i].pass
    IN  \A i \in DOMAIN base, j \in DOMAIN cand :
          ( /\ base[i].case = cand[j].case /\ Gold[base[i].case].layer \in ModelLayers
            /\ ~fails(base, base[i].case) /\ ~cand[j].pass )
          => base[i].case \in outcome.says.regressed
=============================================================================
