---------------------------- MODULE EvalGrading -----------------------------
(***************************************************************************)
(* How the requirement evaluation grades what the product did: the turns   *)
(* its driver observes, and the assertions and vetoes each layer's grader  *)
(* makes of them (internal/planningeval, requirement_v2_run.go and         *)
(* requirement_v2_grade.go).  Running and replaying share these operators. *)
(*                                                                         *)
(* A state is its active fields with their values, the fields among them   *)
(* with a source in the user's words, and its revision.  An operation is a *)
(* field and a value; the texts the grader searches are flags of the turn. *)
(***************************************************************************)
EXTENDS Naturals, FiniteSets, Sequences

None   == [none |-> TRUE]
Absent == "absent"

EmptyState == [revision |-> 0, fields |-> <<>>, sourced |-> {}]

EmptyTurn ==
  [error |-> "", state |-> EmptyState, ops |-> {}, signals |-> None, readiness |-> None,
   started |-> FALSE, chat |-> FALSE, builders |-> 0, reason |-> "", action |-> "",
   snapshot |-> None, input |-> None, stale |-> FALSE, claims |-> FALSE, offers |-> FALSE,
   asks |-> {}, called |-> FALSE, failed |-> FALSE, requests |-> 0, millis |-> 0]

NothingSeen ==
  [turns |-> <<>>, readiness |-> None, ui |-> None, final |-> None,
   everStarted |-> FALSE, skipped |-> FALSE]

-----------------------------------------------------------------------------
(* What the driver makes of a turn of the product *)

\* A refused confirmation has its own reason; a message or an edit cannot
\* start a builder, and its reason follows from the axes.
AdmissionReason(p, started) ==
  CASE started -> "ok"
    [] ~started /\ p.kind = "confirm" ->
         (CASE p.refused = "not ready" -> "readiness_incomplete"
            [] p.refused = "busy"      -> "builder_running"
            [] p.refused = ""          -> "no_confirmation"
            [] OTHER                   -> "stale_revision")
    [] ~started /\ p.kind # "confirm" ->
         (IF ~p.readiness.eligible THEN "readiness_incomplete"
          ELSE IF p.building THEN "builder_running" ELSE "no_confirmation")

\* The record of the calls is shared with a builder of the turn before, so an
\* edit never counts as starting one.  A builder that was started is observed
\* whatever becomes of its run.  left: the calls the gateway still allows; a
\* turn that needs more of them fails and leaves the state as it was.
TurnOf(p, left) ==
  LET started == p.input # None /\ p.kind # "edit"
      cut     == p.calls > left
      shown   == IF cut THEN p.was ELSE p
  IN  [error |-> IF started THEN "" ELSE IF cut THEN "run failed" ELSE p.refused,
       state |-> shown.state, readiness |-> shown.readiness,
       ops |-> IF cut /\ left = 0 THEN {} ELSE p.ops,
       signals |-> IF cut /\ left = 0 THEN None ELSE p.signals,
       started |-> started, chat |-> started /\ p.kind = "message",
       builders |-> IF p.active THEN 1 ELSE 0,
       reason |-> AdmissionReason(p, started), action |-> p.action,
       snapshot |-> p.frozen, input |-> p.input,
       stale |-> p.kind = "edit" /\ p.refused = "" /\ p.behind,
       claims |-> p.claims, offers |-> p.offers, asks |-> p.asks,
       called   |-> p.calls > 0 /\ left > 0,
       failed   |-> p.failed \/ cut,
       requests |-> IF cut THEN left ELSE p.calls,
       millis   |-> p.millis]

-----------------------------------------------------------------------------
(* The parts of a grade *)

Check(name, on, ok) == [name |-> name, on |-> on, pass |-> ok, veto |-> ""]
Veto(v, on)         == [name |-> "veto", on |-> on, pass |-> FALSE, veto |-> v]
When(condition, checks) == IF condition THEN checks ELSE {}

\* A field is right if it is active with the value, or not active if the gold
\* says so.
StateChecks(state, gold) ==
  {Check("state", f,
         IF gold[f] = Absent THEN f \notin DOMAIN state.fields
         ELSE f \in DOMAIN state.fields /\ state.fields[f] = gold[f]) : f \in DOMAIN gold}

\* The strict form: what the gold does not list is as it was.
UntouchedChecks(state, initial, gold) ==
  {Check("state_unchanged", f,
         /\ f \in DOMAIN state.fields /\ f \in DOMAIN initial.fields
         /\ state.fields[f] = initial.fields[f])
     : f \in (DOMAIN state.fields \cup DOMAIN initial.fields) \ DOMAIN gold}

\* Vetoes do not depend on what the gold asserts.
Vetoes(t, forbidden, pending, watch) ==
  {Veto(IF f \in pending THEN "V2" ELSE "V1", f)
     : f \in {g \in DOMAIN t.state.fields : g \in forbidden \/ g \notin t.state.sourced}}
  \cup When(t.readiness # None /\ t.readiness.eligible /\ t.readiness.missing # {}, {Veto("V3", "")})
  \cup When(t.chat \/ (t.started /\ ~t.chat /\ t.snapshot = None), {Veto("V4", "")})
  \cup When(t.started /\ t.snapshot # None /\ t.input # None /\ t.snapshot # t.input,
            {Veto("V5", "")})
  \cup When(t.builders > 1, {Veto("V6", "")})
  \cup When(t.stale, {Veto("V7", "")})
  \cup When(~t.started /\ t.claims, {Veto("V8", "")})
  \cup When(watch /\ t.offers, {Veto("V9", "")})

ReadinessChecks(r, gold) ==
  IF r.error
    THEN {Check("schema_error", "", FALSE), Check("missing_fields", "", FALSE),
          Check("confirmation_eligible", "", ~gold.eligible)}
    ELSE {Check("missing_fields", "", r.missing = gold.missing),
          Check("confirmation_eligible", "", r.eligible = gold.eligible)}
         \cup Vetoes([EmptyTurn EXCEPT !.readiness = r], {}, {}, FALSE)

-----------------------------------------------------------------------------
(* The graders of the layers *)

ReducerChecks(gold, t) ==
  IF gold.reject # ""
    THEN {Check("reject", "", t.error = gold.reject),
          Check("reject_keeps_state", "", /\ t.state.revision = gold.initial.revision
                                          /\ t.state.fields = gold.initial.fields)}
    ELSE IF t.error # "" THEN {Check("no_error", "", FALSE)}
    ELSE {Check("revision", "", t.state.revision = gold.initial.revision + gold.delta)}
         \cup StateChecks(t.state, gold.fields)
         \cup UntouchedChecks(t.state, gold.initial, gold.fields)
         \cup Vetoes(t, {}, {}, FALSE)

PolicyChecks(gold, t) ==
  {Check("builder_admission", "", t.started = gold.started),
   Check("presentation_action", "", t.action = gold.action)}
  \cup When(gold.reason # "", {Check("admission_reason", "", t.reason = gold.reason)})
  \cup When(gold.accepted # "any",
            {Check("edit_accepted", "",
                   (t.error = "" /\ ~t.stale) <=> (gold.accepted = "yes"))})
  \cup Vetoes(t, {}, {}, gold.watch)

UIChecks(gold, ui) ==
  {Check("readiness_block", "", ui.block),
   Check("confirmation_status", "", ui.confirmation = gold.confirmation),
   Check("build_relation", "", ui.relation = gold.relation)}
  \cup ReadinessChecks(ui.readiness, gold)

\* pending: fields the assistant has proposed; only the self-test knows them.
TurnChecks(gold, t, pending, watch) ==
  When(t.failed, {Check("provider", "", FALSE)})
  \cup {Check("run_completed", "", t.error = ""), Check("operations", "", t.ops = gold.ops)}
  \cup {Check("forbidden_op", f, \A o \in t.ops : o.field # f) : f \in gold.forbidden}
  \cup When(gold.signals # None, {Check("turn_signals", "", t.signals = gold.signals)})
  \cup StateChecks(t.state, gold.fields)
  \cup When(gold.readiness # None /\ t.readiness # None,
            {Check("missing_fields", "", t.readiness.missing = gold.readiness.missing),
             Check("confirmation_eligible", "", t.readiness.eligible = gold.readiness.eligible)})
  \cup {Check("repeated_question", f, ~(f \in t.asks /\ f \in DOMAIN t.state.fields))
          : f \in gold.mute}
  \cup Vetoes(t, gold.forbidden, pending, watch)

FinalChecks(gold, obs) ==
  LET state == IF obs.final = None THEN EmptyState ELSE obs.final
      last  == IF obs.turns = <<>> THEN None ELSE obs.turns[Len(obs.turns)].readiness
  IN  StateChecks(state, gold.fields)
      \cup {Check("builder_must_run", "", obs.everStarted = gold.started)}
      \cup When(last # None,
                {Check("final_missing", "", last.missing = gold.missing),
                 Check("final_eligible", "", last.eligible = gold.eligible)})

\* A turn that was not observed is graded as an empty one.
TurnAt(obs, i) == IF i <= Len(obs.turns) THEN obs.turns[i] ELSE EmptyTurn

\* The assertions on a case, each with the turn it is about (0: the whole).
GradeCase(gold, obs) ==
  LET at(i, checks) == {[turn |-> i, check |-> c] : c \in checks}
      missing       == {Check("gold_missing", "", FALSE)}
  IN  CASE gold.layer = "reducer"   -> at(1, ReducerChecks(gold, TurnAt(obs, 1)))
        [] gold.layer = "readiness" ->
             at(0, IF obs.readiness = None THEN missing ELSE ReadinessChecks(obs.readiness, gold))
        [] gold.layer = "policy"    -> at(1, PolicyChecks(gold, TurnAt(obs, 1)))
        [] gold.layer = "ui-contract" ->
             at(0, IF obs.ui = None THEN missing ELSE UIChecks(gold, obs.ui))
        [] gold.layer = "extraction" ->
             at(1, TurnChecks(gold.turns[1], TurnAt(obs, 1), {}, gold.watch))
        [] gold.layer = "conversations" ->
             at(0, FinalChecks(gold.final, obs))
             \cup UNION {at(i, TurnChecks(gold.turns[i], TurnAt(obs, i), {}, gold.watch))
                           : i \in DOMAIN gold.turns}

\* A case that was skipped fails, and is kept apart in every count.
ResultOf(c, gold, repeat, obs) ==
  LET checks == IF obs.skipped THEN {} ELSE GradeCase(gold, obs)
  IN  [case |-> c, repeat |-> repeat, obs |-> obs, checks |-> checks,
       pass   |-> ~obs.skipped /\ \A a \in checks : a.check.pass,
       vetoes |-> {a.check.veto : a \in checks} \ {""}]

\* The grader's own test: what must fail fails with its veto, what must pass
\* passes.
SelftestHolds(entries) ==
  \A e \in entries :
    LET checks == TurnChecks(e.gold, e.turn, e.pending, e.watch)
    IN  IF e.veto = "" THEN \A c \in checks : c.pass
        ELSE \E c \in checks : c.veto = e.veto
=============================================================================
