------------------------------ MODULE BadCases -------------------------------
(***************************************************************************)
(* The catalogue of failed cases of the evaluation desk                    *)
(* (internal/evaldesk/bad_cases.go, reqv2.go, reqv2_case.go).  It is       *)
(* computed on each request from two things that change independently: the *)
(* directories of evaluation runs on the disk, and an index of reviews     *)
(* kept by hand, which names tries of runs, says what became of them and   *)
(* which runs prove it.                                                    *)
(*                                                                         *)
(* A run is what evalrequirement wrote and the "harm" its files came to    *)
(* since.  A digest is the content it stands for.  "judge" stands for the  *)
(* grader's version, the thresholds and the splits, "rows" for the cases   *)
(* of report.json.                                                         *)
(*                                                                         *)
(* Left out: texts, the commits and tests of a fix, usage figures (which   *)
(* are treated as the gates are), the turn a reference may name, the       *)
(* grouping of the finished entries, and the cache of runs, which is keyed *)
(* by the sizes and times of all the files a run is judged by.  A request  *)
(* is one step.                                                            *)
(***************************************************************************)
EXTENDS Naturals, FiniteSets

CONSTANTS
  Runs,      \* the directories, numbers
  Recorded,  \* [Runs -> what an evaluation may write there]
  Indexes,   \* contents of bad-case-reviews.json
  MaxHarm    \* bound: how much harm comes to the files

VARIABLES disk, index

vars == <<disk, index>>

None == 0
NoIndex == [reviews |-> {}, reference |-> None]

-----------------------------------------------------------------------------
(* What the files of a run are evidence of *)

\* A directory without plan.json or report.json is not listed.
Absent == [mode |-> "absent"]
Listed(r) == r # Absent

\* What can have become of the files of a run, and what each does to the
\* evidence.  Without plan.json nothing else is checked.
Refuting  == {"plan unreadable", "report unreadable", "plan and report differ",
              "frozen file changed", "results broken", "prompts changed"}
Weakening == {"frozen file missing", "results missing", "rows differ"}
Harms == Refuting \cup Weakening \cup {"cases changed"}

Evidence(r) ==
  IF r.harm \cap Refuting # {} THEN "invalid"
  ELSE IF r.harm \cap Weakening # {} THEN "incomplete" ELSE "complete"

Readable(r) == "report unreadable" \notin r.harm

\* The tries of all cases, and those of one.
Rows(r) == IF Readable(r) THEN r.rows ELSE {}
Tries(r, case) == {row \in Rows(r) : row.case = case}

CaseSet(r) == {row.case : row \in Rows(r)}

\* Whether the text of a case is still the one its manifest names.
Frozen(r, case) ==
  /\ Readable(r) /\ case \in CaseSet(r)
  /\ r.harm \cap {"frozen file changed", "frozen file missing", "cases changed"} = {}

\* Runs a model was not asked in.
ZeroModel(r) == r.mode # "live"

\* Two runs of one frozen identity, both complete and over the same cases:
\* the only ones from which anything may be concluded.  The thresholds and
\* the results, which the pairing reads, are there in a complete run.
Strict(a, b) ==
  /\ Evidence(a) = "complete" /\ Evidence(b) = "complete"
  /\ a.judge = b.judge
  /\ a.manifest = b.manifest
  /\ a.repeats = b.repeats
  /\ a.mode = b.mode
  /\ CaseSet(a) = CaseSet(b)

\* A try that shows its case fulfilled.
Fulfils(row) ==
  /\ row.pass /\ ~row.skipped /\ ~row.error /\ ~row.veto
  /\ row.judged # {} /\ row.failed = {}

\* Every try the run was to make is recorded, once.
AllTried(r, case) ==
  /\ r.repeats > 0
  /\ {row.repeat : row \in Tries(r, case)} = 1 .. r.repeats
  /\ Cardinality(Tries(r, case)) = r.repeats

-----------------------------------------------------------------------------
(* What failed in a run *)

Occurrence(n, case, repeat, assertion, metric, state) ==
  [run |-> n, case |-> case, repeat |-> repeat, assertion |-> assertion,
   metric |-> metric, state |-> state]

\* A try that was skipped shows nothing else, and a failure no assertion
\* explains is a gap.
FailuresOf(n, row) ==
  LET seen(assertion, state) == Occurrence(n, row.case, row.repeat, assertion, "", state)
  IN  IF row.skipped THEN {seen("skipped", "skipped")}
      ELSE {seen(a, "failed") : a \in row.failed}
           \cup {seen("veto", "failed") : v \in {v \in {TRUE} : row.veto}}
           \cup {seen("unrecorded", "incomplete") :
                   p \in {p \in {FALSE} : row.pass = p /\ row.failed = {} /\ ~row.veto}}

RunFailures(n) ==
  LET r == disk[n]
      gates == IF Readable(r) THEN {g \in DOMAIN r.gates : r.gates[g] # "passed"} ELSE {}
  IN  {Occurrence(n, "", 0, "", g, r.gates[g]) : g \in gates}
      \cup {Occurrence(n, "", 0, "", "integrity", "incomplete") :
              e \in {"invalid", "incomplete"} \cap {Evidence(r)}}

Present == {n \in Runs : Listed(disk[n])}
Facts == UNION {RunFailures(n) \cup UNION {FailuresOf(n, row) : row \in Rows(disk[n])} : n \in Present}

\* Failures of one frozen case and assertion are one entry over all runs,
\* unless the identity of a run cannot be trusted.
KeyOf(o) ==
  LET r == disk[o.run]
      own == o.metric # "" \/ Evidence(r) = "invalid"
  IN  [of |-> IF own THEN o.run ELSE None, manifest |-> IF own THEN "" ELSE r.manifest,
       case |-> o.case, assertion |-> o.assertion, metric |-> o.metric,
       state |-> IF o.metric # "" THEN "" ELSE o.state]

-----------------------------------------------------------------------------
(* The index *)

ReviewValid(rv) ==
  /\ rv.refs # {}
  /\ rv.status # "unanalysed" => rv.confirmed
  /\ rv.status \in {"pending", "verified", "recurred"} => rv.fixed
  /\ rv.status = "recurred" => rv.regression # None
  /\ \A v \in rv.validations : /\ (v.case # "") = (rv.kind = "question")
                               /\ v.historical => rv.kind = "question"

\* One review that is not valid discards the whole index.
Adopted ==
  IF /\ \A rv \in index.reviews : ReviewValid(rv)
     /\ \A a, b \in index.reviews : a.id = b.id => a = b
  THEN index ELSE NoIndex

\* Mutant of Names: any try of the case.
NamesAnyTry(ref, o) ==
  /\ ref.run = o.run /\ ref.case = o.case
  /\ ref.assertion = o.assertion /\ ref.metric = o.metric
\* A review takes exactly the failures its references name.
Names(ref, o) ==
  /\ ref.run = o.run /\ ref.case = o.case
  /\ ref.assertion = o.assertion /\ ref.metric = o.metric
  /\ ref.repeat \in {0, o.repeat}

\* What a try shows of the thing a reference names.
StateOf(ref, row) ==
  CASE row.skipped -> "skipped"
    [] ~row.skipped /\ ref.assertion = "" -> IF row.pass /\ ~row.veto THEN "passed" ELSE "failed"
    [] ~row.skipped /\ ref.assertion = "veto" -> IF row.veto THEN "failed" ELSE "passed"
    [] ~row.skipped /\ ref.assertion \notin {"", "veto"} ->
         IF ref.assertion \notin row.judged THEN "missing"
         ELSE IF ref.assertion \in row.failed THEN "failed" ELSE "passed"

\* Nothing is filled in from another run: what is not there is "missing".
Resolve(ref) ==
  LET at(repeat, state) == Occurrence(ref.run, ref.case, repeat, ref.assertion, ref.metric, state)
      r == disk[ref.run]
      named == {row \in Tries(r, ref.case) : ref.repeat \in {0, row.repeat}}
      gate == IF ~Listed(r) THEN "missing"
              ELSE IF ref.metric = "integrity"
                   THEN IF Evidence(r) = "complete" THEN "passed" ELSE "incomplete"
              ELSE IF Readable(r) /\ ref.metric \in DOMAIN r.gates THEN r.gates[ref.metric]
              ELSE "missing"
  IN  IF ref.metric # "" THEN {at(0, gate)}
      ELSE IF ~Listed(r) \/ named = {} THEN {at(ref.repeat, "missing")}
      ELSE {at(row.repeat, StateOf(ref, row)) : row \in named}

GateRef(n, metric) ==
  [run |-> n, case |-> "", assertion |-> "", metric |-> metric, repeat |-> 0]
GateOf(n, metric) == (CHOOSE o \in Resolve(GateRef(n, metric)) : TRUE).state

-----------------------------------------------------------------------------
(* What proves a fix *)

SameModel(a, b) == \/ ZeroModel(a) /\ ZeroModel(b)
                   \/ a.model # "unknown" /\ a.model = b.model
CleanCode(r) == r.code = "clean"

\* Mutant of Fixed: a try that was skipped does not count against the fix.
FixedOrSkipped(v) ==
  \A row \in Tries(disk[v.candidate], v.case) : row.skipped \/ Fulfils(row)
\* The candidate shows the case fulfilled in every try it was to make.
Fixed(v) ==
  LET a == disk[v.baseline]
      b == disk[v.candidate]
  IN  /\ Frozen(a, v.case) /\ Frozen(b, v.case)
      /\ AllTried(b, v.case)
      /\ \A row \in Tries(b, v.case) : Fulfils(row)

\* A comparison of two runs of one identity.
PairHolds(v) ==
  LET a == disk[v.baseline]
      b == disk[v.candidate]
  IN  Strict(a, b) /\ SameModel(a, b) /\ CleanCode(a) /\ CleanCode(b)

\* An old recording, graded again, against a later run of the same cases.
HistoryHolds(v) ==
  LET a == disk[v.baseline]
      b == disk[v.candidate]
  IN  /\ \E row \in Tries(a, v.case) : ~row.pass /\ ~row.skipped
      /\ a.source # None /\ Listed(disk[a.source]) /\ a.sourceReport = disk[a.source].report
      /\ a.mode = "regrade" /\ b.mode = "live"
      /\ Evidence(a) = "complete" /\ Evidence(b) = "complete"
      /\ a.manifest = b.manifest /\ a.judge = b.judge
      /\ CleanCode(b)

Checked(v) ==
  /\ Listed(disk[v.baseline]) /\ Listed(disk[v.candidate])
  /\ v.accepted
  /\ IF v.case # "" THEN Fixed(v) /\ IF v.historical THEN HistoryHolds(v) ELSE PairHolds(v)
     ELSE /\ GateOf(v.baseline, v.metric) # "missing"
          /\ GateOf(v.candidate, v.metric) = "passed"
          /\ PairHolds(v)

-----------------------------------------------------------------------------
(* The entries *)

\* A review is shown with the status its writer gave it only as far as the
\* runs it names bear it out.
StatusOf(rv) ==
  CASE rv.status = "verified" ->
         IF \E v \in rv.validations : Checked(v) THEN "verified" ELSE "pending"
    [] rv.status = "recurred" ->
         IF \E ref \in {f \in rv.refs : f.run = rv.regression} : \E o \in Resolve(ref) :
              o.state = "failed" /\ Evidence(disk[o.run]) = "complete"
         THEN "recurred" ELSE "pending"
    [] OTHER -> rv.status

Reviewed ==
  {[id |-> rv.id, kind |-> rv.kind, status |-> StatusOf(rv),
    shown |-> UNION {Resolve(ref) : ref \in rv.refs}] : rv \in Adopted.reviews}

Unclaimed == {o \in Facts : \A rv \in Adopted.reviews : \A ref \in rv.refs : ~Names(ref, o)}

Automatic ==
  {[id |-> "fact", kind |-> IF k.metric = "" THEN "question" ELSE "run", status |-> "unanalysed",
    shown |-> {o \in Unclaimed : KeyOf(o) = k}] : k \in {KeyOf(o) : o \in Unclaimed}}

\* The occurrence an entry is known by: of its latest run that is listed.
First(e) ==
  LET rank(o) == IF Listed(disk[o.run]) THEN o.run ELSE 0
  IN  CHOOSE o \in e.shown : \A p \in e.shown : rank(p) <= rank(o)

\* The runs of an entry that the declared reference may speak about.
Comparable(e) ==
  {o.run : o \in {p \in e.shown : /\ p.case = First(e).case
                                  /\ Listed(disk[p.run])
                                  /\ Strict(disk[p.run], disk[Adopted.reference])}}

\* What the reference run shows of the case or the gate of an entry.
ReferenceState(e) ==
  LET ref == disk[Adopted.reference]
      tries == Tries(ref, First(e).case)
      told == GateOf(Adopted.reference, First(e).metric)
  IN  IF Adopted.reference = None THEN "none"
      ELSE IF ~Listed(ref) THEN "none"
      ELSE IF Comparable(e) = {} THEN "unmatched"
      ELSE IF e.kind = "run" THEN IF told \in {"passed", "failed"} THEN told ELSE "incomplete"
      ELSE IF \/ ~Frozen(ref, First(e).case) \/ ~AllTried(ref, First(e).case)
              \/ \E row \in tries : row.skipped \/ row.judged = {}
           THEN "incomplete"
      ELSE IF \A row \in tries : Fulfils(row) THEN "passed" ELSE "failed"

\* The one heading an entry is filed under.
Disposition(e) ==
  CASE e.status = "verified" -> "verified"
    [] e.status \in {"pending", "located", "recurred"} -> "open"
    [] e.status = "unanalysed" ->
         LET ref == ReferenceState(e)
             states == {o.state : o \in e.shown}
         IN  IF ref = "passed" THEN "reference passed"
             ELSE IF ref = "failed" THEN "open"
             ELSE IF states \subseteq {"skipped", "unevaluable"} THEN "history" ELSE "gaps"

Catalog == Reviewed \cup Automatic

-----------------------------------------------------------------------------
Init ==
  /\ disk = [n \in Runs |-> Absent]
  /\ index = NoIndex

\* evalrequirement writes a run into a directory of its own.
Record(n) ==
  /\ disk[n] = Absent
  /\ \E r \in Recorded[n] : disk' = [disk EXCEPT ![n] = r]
  /\ UNCHANGED index

Harmed == {h \in Present \X Harms : h[2] \in disk[h[1]].harm}

\* A file of a run is edited or lost.
Harm(n, kind) ==
  /\ n \in Present /\ kind \notin disk[n].harm
  /\ Cardinality(Harmed) < MaxHarm
  /\ disk' = [disk EXCEPT ![n].harm = @ \cup {kind},
                          ![n].report = IF kind = "report unreadable" THEN "changed" ELSE @]
  /\ UNCHANGED index

Remove(n) ==
  /\ n \in Present
  /\ disk' = [disk EXCEPT ![n] = Absent]
  /\ UNCHANGED index

Edit ==
  /\ index' \in Indexes \ {index}
  /\ UNCHANGED disk

Next ==
  \/ \E n \in Runs : Record(n) \/ Remove(n) \/ \E kind \in Harms : Harm(n, kind)
  \/ Edit

Spec == Init /\ [][Next]_vars

-----------------------------------------------------------------------------
\* Every assertion that failed and every veto in a run that can be read is
\* shown as a failure by some entry, whatever the index says about the case
\* (bad_cases.go:619; evaldesk-bad-case-analysis.md:93).
NothingFailedIsHidden ==
  \A n \in Present : \A row \in Rows(disk[n]) : \A o \in FailuresOf(n, row) :
    o.state = "failed" => \E e \in Catalog : o \in e.shown

\* A failed case that is filed as fixed, or as passed by the reference, has a
\* run with undamaged files in which it passed in every try
\* (bad_cases.go:862, :778).
ClearedByWholeRuns ==
  \A e \in Catalog :
    (e.kind = "question" /\ Disposition(e) \in {"verified", "reference passed"})
      => \E n \in Present : \E o \in e.shown :
           /\ Evidence(disk[n]) = "complete"
           /\ AllTried(disk[n], o.case)
           /\ \A row \in Tries(disk[n], o.case) : Fulfils(row)
=============================================================================
