-------------------------- MODULE ConversationProofs --------------------------
(***************************************************************************)
(* Proofs about the messages of a session: the changes of a saved build    *)
(* (ChangeOrders), and the turns that change the requirement               *)
(* (RequirementTurns) with the reducer they go through (RequirementState)  *)
(* and the guard before it (ScreeningGuard).                               *)
(***************************************************************************)
EXTENDS MCConversation, SequenceTheorems, TLAPS

LEMMA OrdersFollowed == ConversationSpec => Orders!Spec
<1>1. Start => Orders!Init
  BY DEF Start
<1>2. [Step]_<<subject, turnVars, orders>> => [Orders!Next]_(Orders!changeVars)
  BY DEF Step, orders, Orders!changeVars
<1> QED
  BY <1>1, <1>2, PTL DEF ConversationSpec, Orders!Spec

-----------------------------------------------------------------------------
(* Sequences of which only the length is known. *)

LEMMA ListGrows ==
  ASSUME NEW s, NEW e, IsList(s)
  PROVE  /\ IsList(Append(s, e)) /\ Len(Append(s, e)) = Len(s) + 1
         /\ Append(s, e)[Len(s) + 1] = e
         /\ \A i \in 1..Len(s) : Append(s, e)[i] = s[i]
<1> DEFINE S == {s[i] : i \in 1..Len(s)} \cup {e}
<1>1. s \in [1..Len(s) -> S] /\ Len(s) \in Nat
  BY DEF IsList
<1>2. s \in Seq(S) /\ e \in S
  BY <1>1, ElementOfSeq, IsASeq
<1> HIDE DEF S
<1>3. /\ Append(s, e) \in Seq(S) /\ Len(Append(s, e)) = Len(s) + 1
      /\ Append(s, e)[Len(s) + 1] = e
      /\ \A i \in 1..Len(s) : Append(s, e)[i] = s[i]
  BY <1>2, AppendProperties
<1>4. IsList(Append(s, e))
  BY <1>3, LenProperties DEF IsList
<1> QED
  BY <1>3, <1>4

-----------------------------------------------------------------------------
(* ChangeOrders *)

\* What a turn or the session remembers of a build is what its rows say.
Describes(b) ==
  /\ b.build \in 1..Len(builds)
  /\ b.sel = builds[b.build].sel /\ b.demand = builds[b.build].demand
  /\ b.spec = demands[b.demand]

TurnFields == {"pc", "change", "spec", "base", "round", "last", "draft", "unpriced", "saved"}

IsTurn(w) == w = [f \in TurnFields |-> w[f]]

\* A turn works on a saved build, with the requirement its change derives; a
\* delivery keeps what the change locks, and a saved one is a row.
TurnStands(w) ==
  /\ IsTurn(w)
  /\ w.base # Orders!Nothing => Describes(w.base)
  /\ Orders!Changing(w) => w.base # Orders!Nothing /\ w.spec = Orders!Derived(w.base.spec, w.change)
  /\ w.pc = "saving" => Orders!KeepsLocks(w, w.draft) /\ Orders!FewChanges(w, w.draft)
  /\ w.pc = "saved" => /\ w.saved \in 1..Len(builds) /\ builds[w.saved].sel = w.draft
                       /\ w.spec = demands[builds[w.saved].demand]

RowFollows(v) ==
  LET row == builds[v] IN
  row.change # Orders!Nothing =>
    /\ row.parent \in 1..(v - 1)
    /\ LET base == builds[row.parent] IN
       /\ Orders!Differing(base.sel, row.sel) \cap Orders!HardLocked(row.change) = {}
       /\ row.change.intent = "swap_part" =>
            /\ Orders!Differing(base.sel, row.sel) \subseteq {row.change.part}
            /\ row.demand = base.demand
       /\ row.change.intent = "adjust_budget" => Cardinality(Orders!Differing(base.sel, row.sel)) <= 2
       /\ demands[row.demand] = Orders!Derived(demands[base.demand], row.change)

OrdersInv ==
  /\ IsList(builds) /\ IsList(demands)
  /\ \A v \in 1..Len(builds) : builds[v].demand \in 1..Len(demands) /\ RowFollows(v)
  /\ state # Orders!Nothing => Describes(state)
  /\ order = [t \in Turns |-> order[t]]
  /\ \A t \in Turns : TurnStands(order[t])

LEMMA OrdersCardinality == \A S : Orders!Cardinality(S) = Cardinality(S)
BY DEF Orders!Cardinality, Cardinality

LEMMA OrdersInitially == Orders!Init => OrdersInv
<1> SUFFICES ASSUME Orders!Init PROVE OrdersInv
  OBVIOUS
<1>1. IsList(<<>>) /\ Len(<<>>) = 0
  BY DEF IsList
<1>2. IsTurn(Orders!Idle) /\ Orders!Idle.pc = "idle" /\ Orders!Idle.change = Orders!Nothing
      /\ Orders!Idle.base = Orders!Nothing
  BY DEF IsTurn, TurnFields, Orders!Idle
<1>3. TurnStands(Orders!Idle)
  BY <1>2 DEF TurnStands, Orders!Changing
<1> QED
  BY <1>1, <1>3 DEF Orders!Init, OrdersInv

\* A step of a turn that saves nothing.
LEMMA TurnMoves ==
  ASSUME OrdersInv, NEW t \in Turns, NEW w, TurnStands(w),
         order' = [order EXCEPT ![t] = w], UNCHANGED <<builds, demands, state>>
  PROVE  OrdersInv'
<1>1. \A u \in Turns : TurnStands(order'[u])
  BY DEF OrdersInv
<1> QED
  BY <1>1 DEF OrdersInv, TurnStands, Describes, RowFollows

LEMMA IdleStands == TurnStands(Orders!Idle) /\ Orders!Idle.pc = "idle"
<1>1. IsTurn(Orders!Idle) /\ Orders!Idle.pc = "idle" /\ Orders!Idle.change = Orders!Nothing
      /\ Orders!Idle.base = Orders!Nothing
  BY DEF IsTurn, TurnFields, Orders!Idle
<1> QED
  BY <1>1 DEF TurnStands, Orders!Changing

\* A turn that begins keeps what it was prepared with.
LEMMA BeginKeeps ==
  ASSUME OrdersInv, NEW t \in Turns, NEW change, NEW spec, NEW base,
         base # Orders!Nothing => Describes(base),
         change # Orders!Nothing => base # Orders!Nothing /\ spec = Orders!Derived(base.spec, change),
         Orders!Begin(t, change, spec, base)
  PROVE  OrdersInv'
<1> DEFINE w == [Orders!Idle EXCEPT !.pc = "choosing", !.change = change, !.spec = spec, !.base = base]
<1>2. order' = [order EXCEPT ![t] = w] /\ UNCHANGED <<builds, demands, state>>
  BY DEF Orders!Begin
<1>1. /\ IsTurn(w) /\ w.pc = "choosing" /\ w.change = change /\ w.spec = spec /\ w.base = base
  BY IdleStands DEF TurnStands, IsTurn, TurnFields
<1> HIDE DEF w
<1>3. TurnStands(w)
  BY <1>1 DEF TurnStands, Orders!Changing
<1> QED
  BY <1>2, <1>3, TurnMoves

LEMMA StopKeeps ==
  ASSUME OrdersInv, NEW t \in Turns, Orders!Stop(t)
  PROVE  OrdersInv'
BY IdleStands, TurnMoves DEF Orders!Stop, Orders!Step

\* A turn that goes on with the same change, to another round or to its delivery.
LEMMA GoesOn ==
  ASSUME NEW w, NEW v, TurnStands(w), IsTurn(v), v.change = w.change, v.spec = w.spec, v.base = w.base,
         \/ v.pc = "choosing"
         \/ v.pc = "saving" /\ Orders!KeepsLocks(w, v.draft) /\ Orders!FewChanges(w, v.draft)
  PROVE  TurnStands(v)
BY DEF TurnStands, Orders!Changing, Orders!KeepsLocks, Orders!FewChanges

LEMMA DeliverKeeps ==
  ASSUME OrdersInv, NEW t \in Turns, NEW w, NEW sel, NEW unpriced, TurnStands(w),
         Orders!KeepsLocks(w, sel), Orders!FewChanges(w, sel), Orders!Deliver(t, w, sel, unpriced)
  PROVE  OrdersInv'
<1> DEFINE v == [w EXCEPT !.pc = "saving", !.draft = sel, !.unpriced = unpriced,
                          !.round = 0, !.last = Orders!NoDraft]
<1>2. order' = [order EXCEPT ![t] = v] /\ UNCHANGED <<builds, demands, state>>
  BY DEF Orders!Deliver, Orders!Step
<1>1. /\ IsTurn(v) /\ v.pc = "saving" /\ v.change = w.change /\ v.spec = w.spec /\ v.base = w.base
      /\ v.draft = sel
  BY DEF TurnStands, IsTurn, TurnFields
<1> HIDE DEF v
<1>3. TurnStands(v)
  BY <1>1, GoesOn
<1> QED
  BY <1>2, <1>3, TurnMoves

LEMMA RepeatKeeps ==
  ASSUME OrdersInv, NEW t \in Turns, NEW w, NEW sel, TurnStands(w), w.pc = "choosing",
         Orders!Step(t, [w EXCEPT !.last = sel])
  PROVE  OrdersInv'
<1> DEFINE v == [w EXCEPT !.last = sel]
<1>1. IsTurn(v) /\ v.pc = "choosing" /\ v.change = w.change /\ v.spec = w.spec /\ v.base = w.base
  BY DEF TurnStands, IsTurn, TurnFields
<1>2. order' = [order EXCEPT ![t] = v] /\ UNCHANGED <<builds, demands, state>>
  BY DEF Orders!Step
<1> HIDE DEF v
<1>3. TurnStands(v)
  BY <1>1, GoesOn
<1> QED
  BY <1>2, <1>3, TurnMoves

LEMMA RoundKeeps ==
  ASSUME OrdersInv, NEW t \in Turns, Orders!Round(t)
  PROVE  OrdersInv'
<1> DEFINE w == [order[t] EXCEPT !.round = @ + 1]
<1>1. /\ IsTurn(w) /\ w.pc = "choosing" /\ w.change = order[t].change
      /\ w.spec = order[t].spec /\ w.base = order[t].base /\ TurnStands(order[t])
  BY DEF OrdersInv, TurnStands, IsTurn, TurnFields, Orders!Round
<1>2. \/ Orders!Stop(t)
      \/ Orders!Step(t, w)
      \/ \E sel \in Orders!Selections, e \in Orders!Evaluations : Orders!DecideOnDraft(t, w, sel, e)
  BY DEF Orders!Round
<1> HIDE DEF w
<1>3. TurnStands(w)
  BY <1>1, GoesOn
<1>4. CASE Orders!Stop(t)
  BY <1>4, StopKeeps
<1>5. CASE Orders!Step(t, w)
  BY <1>3, <1>5, TurnMoves DEF Orders!Step
<1>6. ASSUME NEW sel \in Orders!Selections, NEW e \in Orders!Evaluations,
             Orders!DecideOnDraft(t, w, sel, e)
      PROVE  OrdersInv'
  <2>1. \/ Orders!Stop(t)
        \/ Orders!Step(t, [w EXCEPT !.last = sel])
        \/ /\ Orders!KeepsLocks(w, sel) /\ Orders!FewChanges(w, sel)
           /\ Orders!Deliver(t, w, sel, e.unpriced)
    BY <1>6 DEF Orders!DecideOnDraft, Orders!SendBack
  <2> QED
    BY <1>1, <1>3, <2>1, StopKeeps, RepeatKeeps, DeliverKeeps
<1> QED
  BY <1>2, <1>4, <1>5, <1>6

LEMMA HarnessKeeps ==
  ASSUME OrdersInv, NEW t \in Turns, Orders!Harness(t)
  PROVE  OrdersInv'
<1>1. TurnStands(order[t])
  BY DEF OrdersInv
<1>2. \/ Orders!Stop(t)
      \/ \E sel \in Orders!Selections : /\ Orders!KeepsLocks(order[t], sel)
                                        /\ Orders!FewChanges(order[t], sel)
                                        /\ Orders!Deliver(t, order[t], sel, FALSE)
  BY DEF Orders!Harness
<1> QED
  BY <1>1, <1>2, StopKeeps, DeliverKeeps

\* What the rows said, they still say when rows are added.
LEMMA RowsStay ==
  ASSUME OrdersInv, NEW row, NEW spec,
         builds' = Append(builds, row), demands' = demands \/ demands' = Append(demands, spec)
  PROVE  /\ IsList(builds') /\ Len(builds') = Len(builds) + 1 /\ builds'[Len(builds) + 1] = row
         /\ \A v \in 1..Len(builds) : builds'[v] = builds[v]
         /\ IsList(demands') /\ Len(demands') \in {Len(demands), Len(demands) + 1}
         /\ \A d \in 1..Len(demands) : demands'[d] = demands[d]
         /\ \A v \in 1..Len(builds) : (builds[v].demand \in 1..Len(demands) /\ RowFollows(v))'
         /\ \A b : Describes(b) => Describes(b)'
<1>1. /\ IsList(builds') /\ Len(builds') = Len(builds) + 1 /\ builds'[Len(builds) + 1] = row
      /\ \A v \in 1..Len(builds) : builds'[v] = builds[v]
  BY ListGrows DEF OrdersInv
<1>2. /\ IsList(demands') /\ Len(demands') \in {Len(demands), Len(demands) + 1}
      /\ \A d \in 1..Len(demands) : demands'[d] = demands[d]
  <2>1. CASE demands' = demands
    BY <2>1 DEF OrdersInv
  <2>2. CASE demands' = Append(demands, spec)
    <3>1. IsList(demands)
      BY DEF OrdersInv
    <3> QED
      BY <2>2, <3>1, ListGrows
  <2> QED
    BY <2>1, <2>2
<1>3. Len(builds) \in Nat /\ Len(demands) \in Nat
  BY DEF OrdersInv, IsList
<1>4. \A v \in 1..Len(builds) : builds[v].demand \in 1..Len(demands) /\ RowFollows(v)
  BY DEF OrdersInv
<1>5. \A b : Describes(b) => Describes(b)'
  BY <1>1, <1>2, <1>3, <1>4 DEF Describes
<1>6. ASSUME NEW v \in 1..Len(builds)
      PROVE  (builds[v].demand \in 1..Len(demands) /\ RowFollows(v))'
  <2>1. builds'[v] = builds[v] /\ builds'[v].demand \in 1..Len(demands')
        /\ demands'[builds[v].demand] = demands[builds[v].demand]
    BY <1>1, <1>2, <1>3, <1>4
  <2>2. ASSUME builds[v].change # Orders!Nothing
        PROVE  /\ builds[v].parent \in 1..Len(builds)
               /\ builds'[builds[v].parent] = builds[builds[v].parent]
               /\ demands'[builds[builds[v].parent].demand] = demands[builds[builds[v].parent].demand]
    BY <1>1, <1>2, <1>3, <1>4, <2>2 DEF RowFollows
  <2> QED
    BY <1>4, <2>1, <2>2 DEF RowFollows
<1> QED
  BY <1>1, <1>2, <1>5, <1>6

LEMMA SaveKeeps ==
  ASSUME OrdersInv, NEW t \in Turns, Orders!SaveBuildVersion(t)
  PROVE  OrdersInv'
<1>0. PICK n \in Nat : n = Len(builds) + 1
  BY DEF OrdersInv, IsList
<1> DEFINE w == order[t]
           row == [parent |-> IF w.base = Orders!Nothing THEN 0 ELSE w.base.build, change |-> w.change,
                   demand |-> IF Orders!Reuses(w) THEN w.base.demand ELSE Len(demands) + 1,
                   sel |-> w.draft, unpriced |-> w.unpriced]
<1>1. /\ w.pc = "saving"
      /\ demands' = IF Orders!Reuses(w) THEN demands ELSE Append(demands, w.spec)
      /\ builds' = Append(builds, row) /\ state' = state
      /\ order' = [order EXCEPT ![t].pc = "saved", ![t].saved = n]
  BY <1>0 DEF Orders!SaveBuildVersion
<1>2. /\ row.parent = (IF w.base = Orders!Nothing THEN 0 ELSE w.base.build) /\ row.change = w.change
      /\ row.demand = (IF Orders!Reuses(w) THEN w.base.demand ELSE Len(demands) + 1)
      /\ row.sel = w.draft
  OBVIOUS
<1> HIDE DEF row
<1>3. TurnStands(w) /\ Len(builds) \in Nat /\ Len(demands) \in Nat
  BY DEF OrdersInv, IsList
<1>4. /\ Len(builds') = n /\ builds'[n] = row
      /\ \A v \in 1..Len(builds) : builds'[v] = builds[v]
      /\ \A d \in 1..Len(demands) : demands'[d] = demands[d]
      /\ \A b : Describes(b) => Describes(b)'
  BY <1>0, <1>1, RowsStay
<1>5. row.demand \in 1..Len(demands') /\ demands'[row.demand] = w.spec
  <2>1. CASE Orders!Reuses(w)
    <3>1. /\ w.base # Orders!Nothing /\ Describes(w.base) /\ w.spec = w.base.spec
      BY <1>3, <2>1 DEF TurnStands, Orders!Reuses, Orders!Derived
    <3>2. w.base.demand \in 1..Len(demands)
      BY <3>1 DEF Describes, OrdersInv
    <3> QED
      BY <1>1, <1>2, <2>1, <3>1, <3>2 DEF Describes
  <2>2. CASE ~Orders!Reuses(w)
    BY <1>1, <1>2, <1>3, <2>2, ListGrows DEF OrdersInv
  <2> QED
    BY <2>1, <2>2
<1>6. RowFollows(n)'
  <2> SUFFICES ASSUME w.change # Orders!Nothing
               PROVE  RowFollows(n)'
    BY <1>2, <1>4 DEF RowFollows
  <2> DEFINE base == builds[w.base.build]
  <2>1. /\ row.parent = w.base.build /\ w.base.build \in 1..(n - 1) /\ builds'[row.parent] = base
        /\ w.base.sel = base.sel /\ w.base.demand = base.demand
        /\ demands'[base.demand] = w.base.spec
        /\ w.spec = Orders!Derived(w.base.spec, w.change)
    <3>1. w.base # Orders!Nothing /\ Describes(w.base) /\ w.spec = Orders!Derived(w.base.spec, w.change)
      BY <1>3 DEF TurnStands, Orders!Changing
    <3>2. base.demand \in 1..Len(demands) /\ demands[base.demand] = w.base.spec
      BY <3>1 DEF OrdersInv, Describes
    <3> QED
      BY <1>0, <1>2, <1>3, <1>4, <3>1, <3>2 DEF Describes
  <2>2. /\ Orders!Differing(base.sel, row.sel) \cap Orders!HardLocked(w.change) = {}
        /\ w.change.intent = "adjust_budget" =>
             Cardinality(Orders!Differing(base.sel, row.sel)) <= 2
    BY <1>1, <1>2, <1>3, <2>1, OrdersCardinality
    DEF TurnStands, Orders!KeepsLocks, Orders!FewChanges, Orders!Changing
  <2>3. ASSUME w.change.intent = "swap_part"
        PROVE  /\ Orders!Differing(base.sel, row.sel) \subseteq {w.change.part}
               /\ row.demand = base.demand
    <3>1. Orders!Differing(base.sel, row.sel) \subseteq Kinds
      BY DEF Orders!Differing
    <3> QED
      BY <1>2, <2>1, <2>2, <2>3, <3>1 DEF Orders!HardLocked, Orders!Reuses, Orders!Changing
  <2> HIDE DEF base
  <2> QED
    BY <1>2, <1>4, <1>5, <2>1, <2>2, <2>3 DEF RowFollows
<1>7. ASSUME NEW u \in Turns
      PROVE  TurnStands(order[u])'
  <2>1. TurnStands(order[u])
    BY DEF OrdersInv
  <2>2. CASE u # t
    <3>1. order'[u] = order[u]
      BY <1>1, <2>2 DEF OrdersInv
    <3>2. \A v \in 1..Len(builds) : v \in 1..Len(builds') /\ builds[v].demand \in 1..Len(demands)
      BY <1>0, <1>3, <1>4 DEF OrdersInv
    <3> QED
      BY <1>4, <2>1, <3>1, <3>2 DEF TurnStands
  <2>3. CASE u = t
    <3>1. /\ IsTurn(order'[t]) /\ order'[t].pc = "saved" /\ order'[t].saved = n
          /\ order'[t].change = w.change /\ order'[t].spec = w.spec /\ order'[t].base = w.base
          /\ order'[t].draft = w.draft
      BY <1>1, <1>3 DEF OrdersInv, TurnStands, IsTurn, TurnFields
    <3>2. n \in 1..Len(builds')
      BY <1>0, <1>3, <1>4
    <3> QED
      BY <1>2, <1>3, <1>4, <1>5, <2>3, <3>1, <3>2 DEF TurnStands, Orders!Changing
  <2> QED
    BY <2>2, <2>3
<1>8. \A v \in 1..Len(builds') : (builds[v].demand \in 1..Len(demands) /\ RowFollows(v))'
  <2>1. \A v \in 1..Len(builds') : v \in 1..Len(builds) \/ v = n
    BY <1>0, <1>3, <1>4
  <2> QED
    BY <1>1, <1>4, <1>5, <1>6, <2>1, RowsStay
<1>9. IsList(builds') /\ IsList(demands') /\ order' = [u \in Turns |-> order'[u]]
  BY <1>1, RowsStay DEF OrdersInv
<1>10. state' # Orders!Nothing => Describes(state)'
  BY <1>1, <1>4 DEF OrdersInv, Describes
<1> QED
  BY <1>7, <1>8, <1>9, <1>10 DEF OrdersInv

LEMMA AppendKeeps ==
  ASSUME OrdersInv, NEW t \in Turns, Orders!AppendState(t)
  PROVE  OrdersInv'
<1> DEFINE w == order[t]
           next == [build |-> w.saved, demand |-> builds[w.saved].demand, spec |-> Orders!StateSpec(w),
                    sel |-> w.draft]
<1>1. /\ w.pc = "saved" /\ TurnStands(w) /\ state' = next /\ order' = [order EXCEPT ![t] = Orders!Idle]
      /\ UNCHANGED <<builds, demands>>
  BY DEF Orders!AppendState, OrdersInv
<1>2. Describes(next)
  BY <1>1 DEF TurnStands, Describes, Orders!StateSpec
<1>3. Describes(state)'
  BY <1>1, <1>2 DEF Describes
<1>4. \A u \in Turns : TurnStands(order'[u])
  BY <1>1, IdleStands DEF OrdersInv
<1> QED
  BY <1>1, <1>3, <1>4 DEF OrdersInv, TurnStands, Describes, RowFollows

LEMMA OrdersInductive == OrdersInv /\ [Orders!Next]_(Orders!changeVars) => OrdersInv'
<1> SUFFICES ASSUME OrdersInv, [Orders!Next]_(Orders!changeVars)
             PROVE  OrdersInv'
  OBVIOUS
<1>1. CASE UNCHANGED Orders!changeVars
  BY <1>1 DEF Orders!changeVars, OrdersInv, TurnStands, Describes, RowFollows
<1>2. ASSUME NEW t \in Turns, Orders!PrepareNothing(t) PROVE OrdersInv'
  BY <1>2, BeginKeeps DEF Orders!PrepareNothing
<1>3. ASSUME NEW t \in Turns, Orders!PrepareBuild(t) PROVE OrdersInv'
  BY <1>3, BeginKeeps DEF Orders!PrepareBuild, OrdersInv
<1>4. ASSUME NEW t \in Turns, Orders!PrepareChange(t) PROVE OrdersInv'
  <2>1. /\ state # Orders!Nothing /\ Describes(state)
        /\ \/ Orders!Begin(t, Orders!Nothing, Orders!Nothing, Orders!Nothing)
           \/ \E change \in Orders!ChangeRequests :
                Orders!Begin(t, change, Orders!Derived(state.spec, change), state)
    BY <1>4 DEF Orders!PrepareChange, OrdersInv
  <2> QED
    BY <2>1, BeginKeeps
<1>5. ASSUME NEW t \in Turns, Orders!Round(t) PROVE OrdersInv'
  BY <1>5, RoundKeeps
<1>6. ASSUME NEW t \in Turns, Orders!Harness(t) PROVE OrdersInv'
  BY <1>6, HarnessKeeps
<1>7. ASSUME NEW t \in Turns, Orders!SaveFails(t) \/ Orders!Die(t) PROVE OrdersInv'
  BY <1>7, StopKeeps DEF Orders!SaveFails, Orders!Die
<1>8. ASSUME NEW t \in Turns, Orders!SaveBuildVersion(t) PROVE OrdersInv'
  BY <1>8, SaveKeeps
<1>9. ASSUME NEW t \in Turns, Orders!AppendState(t) PROVE OrdersInv'
  BY <1>9, AppendKeeps
<1> QED
  BY <1>1, <1>2, <1>3, <1>4, <1>5, <1>6, <1>7, <1>8, <1>9 DEF Orders!Next

LEMMA OrdersInvariant == ConversationSpec => []OrdersInv
BY OrdersFollowed, OrdersInitially, OrdersInductive, PTL DEF Orders!Spec

\* A version differs from its parent only as its change allows, in its parts and
\* in its requirement, although turns overlap and a stop leaves build_state
\* behind the rows (pipeline/changes.go:58, harness_v2.go, store/versions.go).
THEOREM VersionsAreWhatWasOrdered == ConversationSpec => []VersionsFollowChanges
<1>1. OrdersInv => VersionsFollowChanges
  <2> SUFFICES ASSUME OrdersInv PROVE VersionsFollowChanges
    OBVIOUS
  <2>1. DOMAIN builds = 1..Len(builds)
    BY DEF OrdersInv, IsList
  <2> QED
    BY <2>1, OrdersCardinality
    DEF OrdersInv, RowFollows, VersionsFollowChanges, Orders!VersionsFollowChanges
<1> QED
  BY <1>1, OrdersInvariant, PTL

\* The build_state of a session is one saved version with its requirement,
\* whatever step of a turn was its last (pipeline/validator.go:582).
THEOREM StatesAreRows == ConversationSpec => []StateNamesARow
<1>1. OrdersInv => StateNamesARow
  <2> SUFFICES ASSUME OrdersInv PROVE StateNamesARow
    OBVIOUS
  <2>1. DOMAIN builds = 1..Len(builds)
    BY DEF OrdersInv, IsList
  <2> QED
    BY <2>1 DEF OrdersInv, Describes, StateNamesARow, Orders!StateNamesARow
<1> QED
  BY <1>1, OrdersInvariant, PTL

-----------------------------------------------------------------------------
(* Sequences *)

LEMMA ListRange == ASSUME NEW s, IsList(s) PROVE Len(s) \in Nat /\ DOMAIN s = 1..Len(s)
BY DEF IsList

LEMMA ListEmpty == IsList(<<>>) /\ Len(<<>>) = 0
BY DEF IsList

-----------------------------------------------------------------------------
(* The requirement (RequirementState): what its fields hold and come back to *)

\* The value of a field and what an exception puts back, and so on: a value the
\* user accepted was offered, and what followed a partner for good keeps nothing
\* to come back to.
FieldKeys == {"status", "value", "strength", "scope", "kind", "evidence", "derived", "previous"}
IsField(r) == r = [k \in FieldKeys |-> r[k]]

FieldSound(f, r, taken) ==
  /\ IsField(r)
  /\ r.evidence = "accepted_proposal" /\ r.derived = "" /\ r.status = "active" =>
       <<f, r.value>> \in taken
  /\ r.derived # "" /\ r.scope # "temporary" => r.previous = <<>>

FieldStands(f, r, taken) ==
  \E R : r \in R /\ \A x \in R : /\ FieldSound(f, x, taken)
                                 /\ x.previous = <<>> \/ \E y \in R : x.previous = <<y>>

RequirementKeys == {"revision", "fields", "alternatives", "changes", "history", "observations"}
IsRequirement(s) ==
  s = [k \in RequirementKeys |-> s[k]] /\ s.fields = [f \in Fields |-> s.fields[f]]

Stands(s, taken) == IsRequirement(s) /\ \A f \in Fields : FieldStands(f, s.fields[f], taken)

LEMMA FieldKeeps ==
  ASSUME NEW f, NEW r, NEW taken, FieldStands(f, r, taken)
  PROVE  /\ FieldSound(f, r, taken)
         /\ r.previous = <<>> \/ \E y : r.previous = <<y>> /\ FieldStands(f, y, taken)
<1>1. PICK R : r \in R /\ \A x \in R : /\ FieldSound(f, x, taken)
                                       /\ x.previous = <<>> \/ \E y \in R : x.previous = <<y>>
  BY DEF FieldStands
<1>2. \A y \in R : FieldStands(f, y, taken)
  BY <1>1 DEF FieldStands
<1> QED
  BY <1>1, <1>2

LEMMA FieldMade ==
  ASSUME NEW f, NEW r, NEW taken, FieldSound(f, r, taken),
         r.previous = <<>> \/ \E y : r.previous = <<y>> /\ FieldStands(f, y, taken)
  PROVE  FieldStands(f, r, taken)
<1>1. CASE r.previous = <<>>
  <2> DEFINE R == {r}
  <2>1. r \in R /\ \A x \in R : FieldSound(f, x, taken) /\ x.previous = <<>>
    BY <1>1
  <2> HIDE DEF R
  <2> QED
    BY <2>1 DEF FieldStands
<1>2. ASSUME NEW y, r.previous = <<y>>, FieldStands(f, y, taken) PROVE FieldStands(f, r, taken)
  <2>1. PICK Q : y \in Q /\ \A x \in Q : /\ FieldSound(f, x, taken)
                                         /\ x.previous = <<>> \/ \E z \in Q : x.previous = <<z>>
    BY <1>2 DEF FieldStands
  <2> DEFINE R == Q \cup {r}
  <2>2. r \in R /\ \A x \in R : /\ FieldSound(f, x, taken)
                                /\ x.previous = <<>> \/ \E z \in R : x.previous = <<z>>
    BY <1>2, <2>1
  <2> HIDE DEF R
  <2> QED
    BY <2>2 DEF FieldStands
<1> QED
  BY <1>1, <1>2

LEMMA FieldsMore ==
  ASSUME NEW f, NEW r, NEW taken, NEW more, taken \subseteq more, FieldStands(f, r, taken)
  PROVE  FieldStands(f, r, more)
<1>1. \A x : FieldSound(f, x, taken) => FieldSound(f, x, more)
  BY DEF FieldSound
<1> QED
  BY <1>1 DEF FieldStands

\* A field that says nothing keeps nothing.
LEMMA PlainStands ==
  ASSUME NEW f, NEW taken, NEW r, IsField(r), r.status # "active", r.previous = <<>>
  PROVE  FieldStands(f, r, taken)
<1>1. FieldSound(f, r, taken)
  BY DEF FieldSound
<1> QED
  BY <1>1, FieldMade

LEMMA UnknownPlain ==
  ASSUME NEW derived
  PROVE  /\ IsField(Unknown) /\ Unknown.status = "unknown" /\ Unknown.previous = <<>>
         /\ LET r == [Unknown EXCEPT !.status = "removed", !.derived = derived]
            IN  IsField(r) /\ r.status = "removed" /\ r.previous = <<>>
         /\ LET r == [Unknown EXCEPT !.status = "removed"]
            IN  IsField(r) /\ r.status = "removed" /\ r.previous = <<>>
BY DEF IsField, FieldKeys, Unknown

\* What an exception keeps to come back to.
LEMMA CoveredStands ==
  ASSUME NEW f, NEW before, NEW scope, NEW taken, FieldStands(f, before, taken)
  PROVE  /\ \/ Covered(before, scope) = <<>>
            \/ \E y : Covered(before, scope) = <<y>> /\ FieldStands(f, y, taken)
         /\ scope # "temporary" => Covered(before, scope) = <<>>
<1>1. before.previous = <<>> \/ \E y : before.previous = <<y>> /\ FieldStands(f, y, taken)
  BY FieldKeeps
<1> QED
  BY <1>1 DEF Covered

-----------------------------------------------------------------------------
(* One operation *)

\* The changes of the requirement's fields, without the lists that record them.
LEMMA RecordStands ==
  ASSUME NEW s, NEW f \in Fields, NEW op, NEW after, NEW taken,
         Stands(s, taken), FieldStands(f, after, taken)
  PROVE  Stands(RecordChange(s, f, op, after), taken)
<1> DEFINE t == RecordChange(s, f, op, after)
<1>1. t = [k \in RequirementKeys |-> t[k]] /\ t.fields = [s.fields EXCEPT ![f] = after]
  BY DEF RecordChange, Stands, IsRequirement, RequirementKeys
<1> HIDE DEF t
<1>2. t.fields = [g \in Fields |-> t.fields[g]] /\ t.fields[f] = after
      /\ \A g \in Fields : g # f => t.fields[g] = s.fields[g]
  BY <1>1 DEF Stands, IsRequirement
<1>3. Stands(t, taken)
  BY <1>1, <1>2 DEF Stands, IsRequirement
<1> QED
  BY <1>3 DEF t

LEMMA RecordFields ==
  ASSUME NEW s, NEW f, NEW op, NEW after, IsRequirement(s)
  PROVE  RecordChange(s, f, op, after).fields = [s.fields EXCEPT ![f] = after]
BY DEF RecordChange, IsRequirement, RequirementKeys

\* What an operation makes of its field.
LEMMA AfterStands ==
  ASSUME NEW s, NEW op, NEW kind, NEW source, NEW taken, Stands(s, taken), IsOperation(op),
         OperationAllowed(s, op, kind, source),
         op.op = "set" /\ op.evidence = "accepted_proposal" => <<op.field, op.value>> \in taken
  PROVE  FieldStands(op.field, After(s, op, kind), taken)
<1> DEFINE before == s.fields[op.field]
           scope  == Inherit(op.scope, before.scope, "session")
           strength == Inherit(op.strength, before.strength, DefaultStrength(op.field))
           stated == [status |-> "active", value |-> op.value, strength |-> strength, scope |-> scope,
                      kind |-> kind, evidence |-> op.evidence, derived |-> "", previous |-> <<>>]
           after  == After(s, op, kind)
<1>1. FieldStands(op.field, before, taken)
  BY DEF IsOperation, Stands
<1>2. CASE op.op = "set"
  <2>1. after = [stated EXCEPT !.previous = Covered(before, scope)]
    BY <1>2 DEF After
  <2>2. FieldSound(op.field, after, taken) /\ after.previous = Covered(before, scope)
    BY <1>2, <2>1 DEF FieldSound, IsField, FieldKeys
  <2> HIDE DEF after
  <2> QED
    BY <1>1, <2>2, CoveredStands, FieldMade DEF after
<1>3. CASE op.op = "remove"
  <2>1. after = [Unknown EXCEPT !.status = "removed"]
    BY <1>3 DEF After
  <2> HIDE DEF after
  <2>2. IsField(after) /\ after.status = "removed" /\ after.previous = <<>>
    BY <2>1, UnknownPlain
  <2> QED
    BY <2>2, PlainStands DEF after
<1>4. CASE op.op = "restore"
  <2>1. before.previous # <<>> /\ after = before.previous[1]
    BY <1>4 DEF After, OperationAllowed
  <2>2. PICK y : before.previous = <<y>> /\ FieldStands(op.field, y, taken)
    BY <1>1, <2>1, FieldKeeps
  <2> QED
    BY <2>1, <2>2
<1>5. CASE op.op = "alternative"
  BY <1>1, <1>5 DEF After
<1>6. CASE op.op = "conflict"
  <2>1. after = [stated EXCEPT !.status = "conflict", !.previous = <<before>>]
    BY <1>6 DEF After
  <2>2. FieldSound(op.field, after, taken) /\ after.previous = <<before>>
    BY <2>1 DEF FieldSound, IsField, FieldKeys
  <2> HIDE DEF after
  <2> QED
    BY <1>1, <2>2, FieldMade DEF after
<1> QED
  BY <1>2, <1>3, <1>4, <1>5, <1>6 DEF IsOperation

LEMMA LinkedStands ==
  ASSUME NEW before, NEW value, NEW after, NEW f, f # "", NEW g, NEW taken,
         FieldStands(g, before, taken)
  PROVE  FieldStands(g, Linked(before, value, after, f), taken)
<1> DEFINE r == Linked(before, value, after, f)
<1>1. /\ IsField(r) /\ r.derived = f /\ r.scope = after.scope
      /\ r.previous = Covered(before, after.scope)
  BY DEF Linked, Unknown, IsField, FieldKeys
<1>2. FieldSound(g, r, taken)
  <2> HIDE DEF r
  <2> QED
    BY <1>1, CoveredStands DEF FieldSound
<1>3. r.previous = <<>> \/ \E y : r.previous = <<y>> /\ FieldStands(g, y, taken)
  <2>1. \/ Covered(before, after.scope) = <<>>
        \/ \E y : Covered(before, after.scope) = <<y>> /\ FieldStands(g, y, taken)
    BY CoveredStands
  <2> HIDE DEF r
  <2> QED
    BY <1>1, <2>1
<1>4. FieldStands(g, r, taken)
  <2> HIDE DEF r
  <2> QED
    BY <1>2, <1>3, FieldMade
<1> QED
  BY <1>4

LEMMA SyncStands ==
  ASSUME NEW s, NEW op, NEW after, NEW taken, Stands(s, taken), IsOperation(op)
  PROVE  Stands(SyncOwnership(s, op, after), taken)
<1> DEFINE partner == Partner(op.field)
           before == s.fields[partner]
           linked == IF op.field = "existing_parts"
                     THEN {p \in Held(s, partner) : p[1] \in after.value[1]}
                     ELSE Held(s, partner) \cup OwnedCategories(after.value[1])
<1>1. partner \in Fields /\ op.field # ""
  BY DEF Partner, Fields, Structured, Parts, IsOperation
<1>2. FieldStands(partner, before, taken)
  BY <1>1 DEF Stands
<1>3. CASE before.previous # <<>> /\ SyncOwnership(s, op, after)
                                       = RecordChange(s, partner, "restore", before.previous[1])
  <2>1. PICK y : before.previous = <<y>> /\ FieldStands(partner, y, taken)
    BY <1>2, <1>3, FieldKeeps
  <2>2. before.previous[1] = y
    BY <2>1
  <2> QED
    BY <1>1, <1>3, <2>1, <2>2, RecordStands
<1>4. CASE SyncOwnership(s, op, after)
             = RecordChange(s, partner, "remove",
                            [Unknown EXCEPT !.status = "removed", !.derived = op.field])
  <2> DEFINE r == [Unknown EXCEPT !.status = "removed", !.derived = op.field]
  <2>0. IsField(r) /\ r.status = "removed" /\ r.previous = <<>>
    BY UnknownPlain
  <2> HIDE DEF r
  <2>1. FieldStands(partner, r, taken)
    BY <2>0, PlainStands
  <2> USE DEF r
  <2> QED
    BY <1>1, <1>4, <2>1, RecordStands
<1>5. CASE SyncOwnership(s, op, after)
             = RecordChange(s, partner, "set", Linked(before, linked, after, op.field))
  <2>1. FieldStands(partner, Linked(before, linked, after, op.field), taken)
    BY <1>1, <1>2, LinkedStands
  <2> QED
    BY <1>1, <1>5, <2>1, RecordStands
<1>6. \/ SyncOwnership(s, op, after) = s
      \/ before.previous # <<>> /\ SyncOwnership(s, op, after)
                                     = RecordChange(s, partner, "restore", before.previous[1])
      \/ SyncOwnership(s, op, after)
           = RecordChange(s, partner, "remove",
                          [Unknown EXCEPT !.status = "removed", !.derived = op.field])
      \/ SyncOwnership(s, op, after)
           = RecordChange(s, partner, "set", Linked(before, linked, after, op.field))
  BY DEF SyncOwnership
<1> QED
  BY <1>3, <1>4, <1>5, <1>6

\* An operation leaves the fields standing.
LEMMA OperationStands ==
  ASSUME NEW s, NEW op, NEW source, NEW taken, Stands(s, taken), IsOperation(op),
         op.op = "set" /\ op.evidence = "accepted_proposal" /\ source = "chat" =>
           <<op.field, op.value>> \in taken,
         NEW t \in ApplyOperation(s, op, source)
  PROVE  Stands(t, taken)
<1> DEFINE before == s.fields[op.field]
           kind == IF op.kind = "" /\ (op.op # "set" \/ before.value = op.value)
                   THEN before.kind ELSE op.kind
           changed == RecordChange(s, op.field, op.op, After(s, op, kind))
           listed == IF op.op # "alternative" THEN changed
                     ELSE [changed EXCEPT !.alternatives =
                             Append(@, [field |-> op.field, value |-> op.value])]
<1>1. OperationAllowed(s, op, kind, source) /\ t = SyncOwnership(listed, op, listed.fields[op.field])
  BY DEF ApplyOperation
<1>2. op.op = "set" /\ op.evidence = "accepted_proposal" => <<op.field, op.value>> \in taken
  BY <1>1 DEF OperationAllowed
<1>3. Stands(changed, taken)
  <2>1. FieldStands(op.field, After(s, op, kind), taken)
    BY <1>1, <1>2, AfterStands
  <2> QED
    BY <2>1, RecordStands DEF IsOperation
<1> HIDE DEF changed
<1>4. Stands(listed, taken)
  <2>1. Stands([changed EXCEPT !.alternatives =
                  Append(@, [field |-> op.field, value |-> op.value])], taken)
    BY <1>3 DEF Stands, IsRequirement, RequirementKeys
  <2> QED
    BY <1>3, <2>1
<1> HIDE DEF listed
<1> QED
  BY <1>1, <1>4, SyncStands

-----------------------------------------------------------------------------
(* A batch of operations *)

\* The states a batch comes to by its next operation, and what an observation
\* adds to one.
AppliedNext(source, states, op) ==
  UNION {IF op.capability # "" THEN WithdrawCapability(s, op, source)
         ELSE ApplyOperation(s, op, source) : s \in states}
ObservedNext(context, s, o) == AppendObservation(s, o)

Batch     == INSTANCE FoldLaws WITH Then <- AppliedNext
Observing == INSTANCE FoldLaws WITH Then <- ObservedNext

Begun(s) == [s EXCEPT !.revision = @ + 1, !.changes = <<>>]
Operated(s, operations, source) == Batch!Folded(source, {Begun(s)}, operations)
Observed(s, observations) == Observing!Folded(0, s, observations)

\* Whether the reducer takes what was only observed.
Allowed(q) == \A i \in DOMAIN q : ObservationAllowed(q[i])

LEMMA UpdateUnfolds ==
  ASSUME NEW s, NEW u, NEW source
  PROVE  ApplyRequirementUpdate(s, u, source) =
           IF u.operations = <<>> /\ u.observations = <<>> THEN {s}
           ELSE {t \in {Observed(b, u.observations) : b \in Operated(s, u.operations, source)} :
                   Allowed(u.observations) /\ OwnershipConsistent(t)}
BY DEF ApplyRequirementUpdate, Allowed, Operated, Observed, Begun, AppliedNext, ObservedNext,
       Batch!Folded, Batch!FoldLeft, Batch!MapThenFoldSet, Batch!Max, FoldLeft, MapThenFoldSet, Max,
       Observing!Folded, Observing!FoldLeft, Observing!MapThenFoldSet, Observing!Max

LEMMA WithdrawStands ==
  ASSUME NEW s, NEW op, NEW source, NEW taken, Stands(s, taken),
         NEW t \in WithdrawCapability(s, op, source)
  PROVE  Stands(t, taken)
<1>1. t = [k \in RequirementKeys |-> t[k]] /\ t.fields = s.fields
  BY DEF WithdrawCapability, Stands, IsRequirement, RequirementKeys
<1> QED
  BY <1>1 DEF Stands, IsRequirement

\* What an operation may claim of the user's acceptance.
Earned(op, source, taken) ==
  op.op = "set" /\ op.evidence = "accepted_proposal" /\ source = "chat" =>
    <<op.field, op.value>> \in taken

LEMMA AppliedStands ==
  ASSUME NEW source, NEW states, NEW op, NEW taken, \A s \in states : Stands(s, taken),
         IsOperation(op), Earned(op, source, taken),
         NEW t \in AppliedNext(source, states, op)
  PROVE  Stands(t, taken)
<1>1. PICK s \in states : t \in IF op.capability # "" THEN WithdrawCapability(s, op, source)
                                ELSE ApplyOperation(s, op, source)
  BY DEF AppliedNext
<1> QED
  BY <1>1, WithdrawStands, OperationStands DEF Earned

LEMMA ObservationFields ==
  ASSUME NEW s, NEW o, IsRequirement(s)
  PROVE  IsRequirement(AppendObservation(s, o)) /\ AppendObservation(s, o).fields = s.fields
<1> DEFINE t == AppendObservation(s, o)
<1>1. t = [k \in RequirementKeys |-> t[k]] /\ t.fields = s.fields
  BY DEF AppendObservation, IsRequirement, RequirementKeys
<1> HIDE DEF t
<1>2. IsRequirement(t) /\ t.fields = s.fields
  BY <1>1 DEF IsRequirement
<1> QED
  BY <1>2 DEF t

LEMMA OperatedStands ==
  ASSUME NEW s, NEW q, NEW source, NEW taken, Stands(s, taken), IsList(q),
         \A i \in 1..Len(q) : IsOperation(q[i]) /\ Earned(q[i], source, taken)
  PROVE  \A t \in Operated(s, q, source) : Stands(t, taken)
<1>1. PICK r : /\ Batch!History(r, source, {Begun(s)}, q)
               /\ Operated(s, q, source) = r[Len(q)]
  BY Batch!Unfolds, ListRange DEF Operated
<1> DEFINE K == {k \in 0..Len(q) : \A t \in r[k] : Stands(t, taken)}
<1>2. 0 \in K
  <2>1. Stands(Begun(s), taken)
    BY DEF Begun, Stands, IsRequirement, RequirementKeys
  <2> QED
    BY <1>1, <2>1 DEF Batch!History, IsList
<1>3. ASSUME NEW k \in 0 .. (Len(q) - 1), k \in K PROVE k + 1 \in K
  <2>1. k + 1 \in 1..Len(q) /\ (k + 1) - 1 = k /\ k + 1 \in 0..Len(q)
    BY DEF IsList
  <2>2. r[k + 1] = AppliedNext(source, r[k], q[k + 1])
    BY <1>1, <2>1 DEF Batch!History
  <2>3. \A t \in r[k + 1] : Stands(t, taken)
    BY <1>3, <2>1, <2>2, AppliedStands
  <2> QED
    BY <2>1, <2>3
<1>4. Len(q) \in K
  <2>1. Len(q) \in Nat
    BY DEF IsList
  <2> HIDE DEF K
  <2>2. \A k \in 0..Len(q) : k \in K
    BY <1>2, <1>3, <2>1, Batch!UpTo
  <2> QED
    BY <2>1, <2>2
<1> QED
  BY <1>1, <1>4

LEMMA ObservedFields ==
  ASSUME NEW s, NEW q, IsRequirement(s), IsList(q)
  PROVE  IsRequirement(Observed(s, q)) /\ Observed(s, q).fields = s.fields
<1>1. PICK r : Observing!History(r, 0, s, q) /\ Observed(s, q) = r[Len(q)]
  BY Observing!Unfolds, ListRange DEF Observed
<1> DEFINE K == {k \in 0..Len(q) : IsRequirement(r[k]) /\ r[k].fields = s.fields}
<1>2. 0 \in K
  BY <1>1 DEF Observing!History, IsList
<1>3. ASSUME NEW k \in 0 .. (Len(q) - 1), k \in K PROVE k + 1 \in K
  <2>1. k + 1 \in 1..Len(q) /\ (k + 1) - 1 = k /\ k + 1 \in 0..Len(q)
    BY DEF IsList
  <2>2. r[k + 1] = AppendObservation(r[k], q[k + 1])
    BY <1>1, <2>1 DEF Observing!History, ObservedNext
  <2> QED
    BY <1>3, <2>1, <2>2, ObservationFields
<1>4. Len(q) \in K
  <2>1. Len(q) \in Nat
    BY DEF IsList
  <2> HIDE DEF K
  <2>2. \A k \in 0..Len(q) : k \in K
    BY <1>2, <1>3, <2>1, Observing!UpTo
  <2> QED
    BY <2>1, <2>2
<1> QED
  BY <1>1, <1>4

LEMMA ObservedStands ==
  ASSUME NEW s, NEW q, NEW taken, Stands(s, taken), IsList(q)
  PROVE  Stands(Observed(s, q), taken)
BY ObservedFields DEF Stands

\* A batch leaves the requirement standing and its two lists of owned parts
\* consistent, whatever it holds.
LEMMA UpdateStands ==
  ASSUME NEW s, NEW u, NEW source, NEW taken, Stands(s, taken), OwnershipConsistent(s),
         IsList(u.operations), IsList(u.observations),
         \A i \in 1..Len(u.operations) :
           IsOperation(u.operations[i]) /\ Earned(u.operations[i], source, taken),
         NEW t \in ApplyRequirementUpdate(s, u, source)
  PROVE  Stands(t, taken) /\ OwnershipConsistent(t)
<1>1. CASE u.operations = <<>> /\ u.observations = <<>>
  BY <1>1, UpdateUnfolds
<1>2. CASE ~(u.operations = <<>> /\ u.observations = <<>>)
  <2>1. PICK b \in Operated(s, u.operations, source) :
          t = Observed(b, u.observations) /\ OwnershipConsistent(t)
    BY <1>2, UpdateUnfolds
  <2>2. Stands(b, taken)
    BY OperatedStands
  <2> QED
    BY <2>1, <2>2, ObservedStands
<1> QED
  BY <1>1, <1>2

-----------------------------------------------------------------------------
(* One at a time or all at once (ScreeningGuard) *)

\* An operation does the same to requirements that agree in their fields and
\* observations.
Alike(b, w) == b.fields = w.fields /\ b.observations = w.observations

LEMMA RecordAlike ==
  ASSUME NEW b, NEW w, IsRequirement(b), IsRequirement(w), Alike(b, w), NEW f, NEW op, NEW after
  PROVE  /\ Alike(RecordChange(b, f, op, after), RecordChange(w, f, op, after))
         /\ IsRequirement(RecordChange(b, f, op, after))
<1> DEFINE x == RecordChange(b, f, op, after)
           y == RecordChange(w, f, op, after)
<1>1. /\ x = [k \in RequirementKeys |-> x[k]] /\ x.fields = [b.fields EXCEPT ![f] = after]
      /\ x.observations = IF op \in {"alternative", "conflict"} THEN b.observations
                          ELSE Answered(b.observations, f)
  BY DEF RecordChange, IsRequirement, RequirementKeys
<1>2. /\ y.fields = [w.fields EXCEPT ![f] = after]
      /\ y.observations = IF op \in {"alternative", "conflict"} THEN w.observations
                          ELSE Answered(w.observations, f)
  BY DEF RecordChange, IsRequirement, RequirementKeys
<1> HIDE DEF x, y
<1>3. Alike(x, y)
  BY <1>1, <1>2 DEF Alike
<1>4. x.fields = [g \in Fields |-> x.fields[g]]
  BY <1>1 DEF IsRequirement
<1>5. IsRequirement(x)
  BY <1>1, <1>4 DEF IsRequirement
<1> QED
  BY <1>3, <1>5 DEF x, y

LEMMA SyncAlike ==
  ASSUME NEW b, NEW w, IsRequirement(b), IsRequirement(w), Alike(b, w), NEW op, NEW after
  PROVE  /\ Alike(SyncOwnership(b, op, after), SyncOwnership(w, op, after))
         /\ IsRequirement(SyncOwnership(b, op, after))
<1>1. \A f : Held(b, f) = Held(w, f) /\ b.fields[f] = w.fields[f]
  BY DEF Alike, Held, Active
<1> DEFINE partner == Partner(op.field)
           before == w.fields[partner]
           linked == IF op.field = "existing_parts"
                     THEN {p \in Held(w, partner) : p[1] \in after.value[1]}
                     ELSE Held(w, partner) \cup OwnedCategories(after.value[1])
           follows == /\ after.status = "active"
                      /\ before.status # "conflict"
                      /\ op.field = "existing_parts" => before.status = "active"
                      /\ linked # Held(w, partner)
           Of(s) == IF op.op \in {"alternative", "conflict"} \/ op.field \notin Parts THEN s
                    ELSE IF op.op = "restore" /\ before.derived = op.field /\ before.previous # <<>>
                    THEN RecordChange(s, partner, "restore", before.previous[1])
                    ELSE IF op.field = "existing_parts" /\ op.op = "remove"
                    THEN RecordChange(s, partner, "remove",
                                      [Unknown EXCEPT !.status = "removed", !.derived = op.field])
                    ELSE IF follows
                    THEN RecordChange(s, partner, "set", Linked(before, linked, after, op.field))
                    ELSE s
<1>2. SyncOwnership(w, op, after) = Of(w)
  BY DEF SyncOwnership
<1>3. SyncOwnership(b, op, after) = Of(b)
  BY <1>1 DEF SyncOwnership
<1> HIDE DEF partner, before, linked, follows
<1>4. Alike(Of(b), Of(w)) /\ IsRequirement(Of(b))
  BY RecordAlike
<1> QED
  BY <1>2, <1>3, <1>4

LEMMA OperationAlike ==
  ASSUME NEW b, NEW w, IsRequirement(b), IsRequirement(w), Alike(b, w), NEW op, NEW source
  PROVE  \/ ApplyOperation(b, op, source) = {} /\ ApplyOperation(w, op, source) = {}
         \/ \E x, y : /\ ApplyOperation(b, op, source) = {x} /\ ApplyOperation(w, op, source) = {y}
                      /\ Alike(x, y) /\ IsRequirement(x)
<1> DEFINE before == w.fields[op.field]
           kind == IF op.kind = "" /\ (op.op # "set" \/ before.value = op.value)
                   THEN before.kind ELSE op.kind
           after == After(w, op, kind)
           changed(s) == RecordChange(s, op.field, op.op, after)
           listed(s) == IF op.op # "alternative" THEN changed(s)
                        ELSE [changed(s) EXCEPT !.alternatives =
                                Append(@, [field |-> op.field, value |-> op.value])]
           synced(s) == SyncOwnership(listed(s), op, listed(s).fields[op.field])
<1>1. ApplyOperation(w, op, source) =
        IF OperationAllowed(w, op, kind, source) THEN {synced(w)} ELSE {}
  BY DEF ApplyOperation
<1>2. /\ OperationAllowed(b, op, kind, source) = OperationAllowed(w, op, kind, source)
      /\ After(b, op, kind) = after
  BY DEF OperationAllowed, After, Alike
<1>3. ApplyOperation(b, op, source) =
        IF OperationAllowed(w, op, kind, source) THEN {synced(b)} ELSE {}
  BY <1>2 DEF ApplyOperation, Alike
<1>4. Alike(changed(b), changed(w)) /\ IsRequirement(changed(b)) /\ IsRequirement(changed(w))
  <2>1. Alike(w, w)
    BY DEF Alike
  <2> QED
    BY <2>1, RecordAlike
<1>5. Alike(listed(b), listed(w)) /\ IsRequirement(listed(b)) /\ IsRequirement(listed(w))
  <2> HIDE DEF changed
  <2>1. ASSUME NEW s, IsRequirement(s)
        PROVE  LET t == [s EXCEPT !.alternatives =
                           Append(@, [field |-> op.field, value |-> op.value])]
               IN  Alike(t, s) /\ IsRequirement(t)
    BY <2>1 DEF Alike, IsRequirement, RequirementKeys
  <2> QED
    BY <1>4, <2>1 DEF Alike
<1>6. Alike(synced(b), synced(w)) /\ IsRequirement(synced(b))
  <2> HIDE DEF listed
  <2>1. listed(b).fields[op.field] = listed(w).fields[op.field]
    BY <1>5 DEF Alike
  <2> QED
    BY <1>5, <2>1, SyncAlike
<1> HIDE DEF synced
<1> QED
  BY <1>1, <1>3, <1>6

LEMMA WithdrawAlike ==
  ASSUME NEW b, NEW w, IsRequirement(b), IsRequirement(w), Alike(b, w), NEW op, NEW source
  PROVE  \/ WithdrawCapability(b, op, source) = {} /\ WithdrawCapability(w, op, source) = {}
         \/ \E x, y : /\ WithdrawCapability(b, op, source) = {x}
                      /\ WithdrawCapability(w, op, source) = {y}
                      /\ Alike(x, y) /\ IsRequirement(x)
<1> DEFINE asked == {i \in DOMAIN w.observations :
                       w.observations[i].capability = op.capability /\ ~w.observations[i].resolved}
           allowed == op.op = "remove" /\ (source = "chat" => op.grounded) /\ asked # {}
           change(s) == [revision |-> s.revision, op |-> "remove", field |-> op.capability,
                         before |-> Unknown, after |-> Unknown]
           after(s) == [s EXCEPT !.observations = [i \in DOMAIN @ |->
                                    IF i \in asked THEN [@[i] EXCEPT !.resolved = TRUE] ELSE @[i]],
                                 !.changes = Append(@, change(s)), !.history = Append(@, change(s))]
<1>1. WithdrawCapability(w, op, source) = IF allowed THEN {after(w)} ELSE {}
  BY DEF WithdrawCapability
<1>2. WithdrawCapability(b, op, source) = IF allowed THEN {after(b)} ELSE {}
  BY DEF WithdrawCapability, Alike
<1>3. Alike(after(b), after(w))
  BY DEF Alike, IsRequirement, RequirementKeys
<1>4. IsRequirement(after(b))
  BY DEF IsRequirement, RequirementKeys
<1> HIDE DEF allowed, after
<1> QED
  BY <1>1, <1>2, <1>3, <1>4

LEMMA AppliedAlike ==
  ASSUME NEW b, NEW w, IsRequirement(b), IsRequirement(w), Alike(b, w), NEW op, NEW source,
         NEW t \in AppliedNext(source, {w}, op)
  PROVE  \E x : AppliedNext(source, {b}, op) = {x} /\ Alike(x, t) /\ IsRequirement(x)
<1>1. CASE op.capability # ""
  <2>1. \A s : AppliedNext(source, {s}, op) = WithdrawCapability(s, op, source)
    BY <1>1 DEF AppliedNext
  <2>2. \/ WithdrawCapability(b, op, source) = {} /\ WithdrawCapability(w, op, source) = {}
        \/ \E x, y : /\ WithdrawCapability(b, op, source) = {x}
                     /\ WithdrawCapability(w, op, source) = {y}
                     /\ Alike(x, y) /\ IsRequirement(x)
    BY WithdrawAlike
  <2> QED
    BY <2>1, <2>2
<1>2. CASE op.capability = ""
  <2>1. \A s : AppliedNext(source, {s}, op) = ApplyOperation(s, op, source)
    BY <1>2 DEF AppliedNext
  <2>2. \/ ApplyOperation(b, op, source) = {} /\ ApplyOperation(w, op, source) = {}
        \/ \E x, y : /\ ApplyOperation(b, op, source) = {x} /\ ApplyOperation(w, op, source) = {y}
                     /\ Alike(x, y) /\ IsRequirement(x)
    BY OperationAlike
  <2> QED
    BY <2>1, <2>2
<1> QED
  BY <1>1, <1>2

\* What the guard works with: the operations it has kept, applied one by one,
\* come to its working copy; applied as one batch they would come to the same.
\* What it observes is taken by the reducer, if what the answer observes is
\* ("clean").
GuardKeys == {"working", "operations", "observations"}

Follows(g, read) ==
  \E b : /\ Operated(read, g.operations, "chat") = {b}
         /\ IsRequirement(b) /\ Alike(b, g.working)

GuardStands(g, read, clean) ==
  /\ g = [k \in GuardKeys |-> g[k]]
  /\ IsList(g.operations) /\ IsList(g.observations)
  /\ \A i \in 1..Len(g.operations) : IsOperation(g.operations[i])
  /\ IsRequirement(g.working) /\ OwnershipConsistent(g.working)
  /\ Follows(g, read)
  /\ clean => Allowed(g.observations)

LEMMA BegunAlike ==
  ASSUME NEW s, IsRequirement(s)
  PROVE  IsRequirement(Begun(s)) /\ Alike(Begun(s), s)
BY DEF Begun, Alike, IsRequirement, RequirementKeys

LEMMA OperatedEmpty == ASSUME NEW s, NEW source PROVE Operated(s, <<>>, source) = {Begun(s)}
BY Batch!Begins DEF Operated

LEMMA OperatedGrows ==
  ASSUME NEW s, NEW q, NEW op, NEW source, IsList(q)
  PROVE  Operated(s, Append(q, op), source) = AppliedNext(source, Operated(s, q, source), op)
<1> DEFINE p == Append(q, op)
           base == {Begun(s)}
<1>1. /\ Len(q) \in Nat /\ DOMAIN q = 1..Len(q)
      /\ Len(p) = Len(q) + 1 /\ DOMAIN p = 1..Len(p)
      /\ p[Len(p)] = op /\ \A i \in 1..Len(q) : p[i] = q[i]
  BY ListGrows, ListRange
<1> HIDE DEF p, base
<1>2. Batch!Folded(source, base, p) = AppliedNext(source, Batch!Folded(source, base, q), p[Len(p)])
  BY <1>1, Batch!Grows
<1> QED
  BY <1>1, <1>2 DEF Operated, p, base

LEMMA ListOne == ASSUME NEW e PROVE Append(<<>>, e) = <<e>> /\ IsList(<<e>>)
BY DEF IsList

LEMMA AllowedEmpty == Allowed(<<>>)
BY DEF Allowed

LEMMA AllowedGrows ==
  ASSUME NEW q, IsList(q), Allowed(q), NEW o, ObservationAllowed(o)
  PROVE  Allowed(Append(q, o))
<1>1. DOMAIN q = 1..Len(q) /\ Len(q) \in Nat
  BY ListRange
<1> DEFINE p == Append(q, o)
<1>2. /\ IsList(p) /\ Len(p) = Len(q) + 1 /\ p[Len(q) + 1] = o
      /\ \A i \in 1..Len(q) : p[i] = q[i]
  BY ListGrows
<1> HIDE DEF p
<1>3. ASSUME NEW i \in DOMAIN p PROVE ObservationAllowed(p[i])
  <2>1. i \in 1..Len(q) \/ i = Len(q) + 1
    BY <1>1, <1>2, ListRange
  <2> QED
    BY <1>1, <1>2, <2>1 DEF Allowed
<1>4. Allowed(p)
  BY <1>3 DEF Allowed
<1> QED
  BY <1>4 DEF p

\* What an update of one operation makes of a requirement.
LEMMA OneApplied ==
  ASSUME NEW s, NEW op, NEW source
  PROVE  ApplyRequirementUpdate(s, [operations |-> <<op>>, observations |-> <<>>], source)
           = {t \in AppliedNext(source, {Begun(s)}, op) : OwnershipConsistent(t)}
<1> DEFINE u == [operations |-> <<op>>, observations |-> <<>>]
<1>1. ApplyRequirementUpdate(s, u, source)
        = {t \in {Observed(b, <<>>) : b \in Operated(s, <<op>>, source)} : OwnershipConsistent(t)}
  BY UpdateUnfolds, AllowedEmpty
<1>2. \A b : Observed(b, <<>>) = b
  BY Observing!Begins DEF Observed
<1>3. Operated(s, <<op>>, source) = AppliedNext(source, {Begun(s)}, op)
  <2>1. Operated(s, Append(<<>>, op), source) = AppliedNext(source, Operated(s, <<>>, source), op)
    BY ListEmpty, OperatedGrows
  <2> QED
    BY <2>1, OperatedEmpty, ListOne
<1>4. {Observed(b, <<>>) : b \in Operated(s, <<op>>, source)} = Operated(s, <<op>>, source)
  BY <1>2
<1> QED
  BY <1>1, <1>3, <1>4

LEMMA SingleIs ==
  ASSUME NEW s, NEW op
  PROVE  Single(s, op) = {t \in AppliedNext("chat", {Begun(s)}, op) : OwnershipConsistent(t)}
BY OneApplied DEF Single

LEMMA KeepStands ==
  ASSUME NEW g, NEW read, NEW clean, GuardStands(g, read, clean),
         NEW op, IsOperation(op), Single(g.working, op) # {}
  PROVE  GuardStands(Keep(g, op), read, clean)
<1> DEFINE w == g.working
           t == CHOOSE t \in Single(w, op) : TRUE
           h == Keep(g, op)
<1>1. t \in AppliedNext("chat", {Begun(w)}, op) /\ OwnershipConsistent(t)
  <2>1. t \in Single(w, op)
    OBVIOUS
  <2> HIDE DEF t
  <2> QED
    BY <2>1, SingleIs
<1>2. PICK b : /\ Operated(read, g.operations, "chat") = {b} /\ IsRequirement(b) /\ Alike(b, w)
  BY DEF GuardStands, Follows
<1>3. IsRequirement(Begun(w)) /\ Alike(b, Begun(w)) /\ Alike(Begun(w), b)
  BY <1>2, BegunAlike DEF GuardStands, Alike
<1> DEFINE v == Begun(w)
<1>4. t \in AppliedNext("chat", {v}, op) /\ IsRequirement(v) /\ Alike(b, v) /\ Alike(v, b)
  BY <1>1, <1>3
<1> HIDE DEF t, v
<1>5. PICK x : AppliedNext("chat", {b}, op) = {x} /\ Alike(x, t) /\ IsRequirement(x)
  BY <1>2, <1>4, AppliedAlike
<1>6. IsRequirement(t)
  <2>1. Alike(t, x)
    BY <1>5 DEF Alike
  <2>2. PICK y : AppliedNext("chat", {v}, op) = {y} /\ Alike(y, x) /\ IsRequirement(y)
    BY <1>2, <1>4, <1>5, AppliedAlike
  <2> QED
    BY <1>4, <2>2
<1>7. /\ h = [k \in GuardKeys |-> h[k]] /\ h.working = t
      /\ h.operations = Append(g.operations, op) /\ h.observations = g.observations
  BY DEF Keep, GuardStands, GuardKeys, t
<1> HIDE DEF h
<1>8. IsList(h.operations) /\ \A i \in 1..Len(h.operations) : IsOperation(h.operations[i])
  <2>1. /\ IsList(h.operations) /\ Len(h.operations) = Len(g.operations) + 1
        /\ h.operations[Len(g.operations) + 1] = op
        /\ \A i \in 1..Len(g.operations) : h.operations[i] = g.operations[i]
    <3> DEFINE q == g.operations
    <3>1. IsList(q)
      BY DEF GuardStands
    <3> HIDE DEF q
    <3>2. /\ IsList(Append(q, op)) /\ Len(Append(q, op)) = Len(q) + 1
          /\ Append(q, op)[Len(q) + 1] = op /\ \A i \in 1..Len(q) : Append(q, op)[i] = q[i]
      BY <3>1, ListGrows
    <3> QED
      BY <1>7, <3>2 DEF q
  <2>2. Len(g.operations) \in Nat
    BY DEF GuardStands, IsList
  <2>3. ASSUME NEW i \in 1..Len(h.operations) PROVE IsOperation(h.operations[i])
    <3>1. i = Len(g.operations) + 1 \/ i \in 1..Len(g.operations)
      BY <2>1, <2>2
    <3> QED
      BY <2>1, <3>1 DEF GuardStands
  <2> QED
    BY <2>1, <2>3
<1>9. Operated(read, h.operations, "chat") = {x}
  <2>1. Operated(read, h.operations, "chat")
          = AppliedNext("chat", Operated(read, g.operations, "chat"), op)
    <3> DEFINE q == g.operations
    <3>1. IsList(q)
      BY DEF GuardStands
    <3> HIDE DEF q
    <3>2. Operated(read, Append(q, op), "chat") = AppliedNext("chat", Operated(read, q, "chat"), op)
      BY <3>1, OperatedGrows
    <3> QED
      BY <1>7, <3>2 DEF q
  <2> QED
    BY <1>2, <1>5, <2>1
<1>10. Follows(h, read)
  BY <1>5, <1>7, <1>9 DEF Follows
<1>11. GuardStands(h, read, clean)
  <2>1. IsList(h.observations)
    BY <1>7 DEF GuardStands
  <2> QED
    BY <1>1, <1>6, <1>7, <1>8, <1>10, <2>1 DEF GuardStands
<1> QED
  BY <1>11 DEF h

LEMMA NotedStands ==
  ASSUME NEW g, NEW read, NEW clean, GuardStands(g, read, clean), NEW o,
         clean => ObservationAllowed(o)
  PROVE  GuardStands(Noted(g, o), read, clean)
<1> DEFINE h == [g EXCEPT !.observations = Append(@, o)]
<1>1. /\ h = [k \in GuardKeys |-> h[k]] /\ h.working = g.working
      /\ h.operations = g.operations /\ h.observations = Append(g.observations, o)
  BY DEF GuardStands, GuardKeys
<1>2. Noted(g, o) = g \/ Noted(g, o) = h
  BY DEF Noted
<1> HIDE DEF h
<1>3. IsList(h.observations) /\ (clean => Allowed(h.observations))
  <2> DEFINE q == g.observations
  <2>1. IsList(q) /\ (clean => Allowed(q))
    BY DEF GuardStands
  <2> HIDE DEF q
  <2>2. IsList(Append(q, o)) /\ (clean => Allowed(Append(q, o)))
    BY <2>1, ListGrows, AllowedGrows
  <2> QED
    BY <1>1, <2>2 DEF q
<1>4. Follows(h, read)
  BY <1>1 DEF GuardStands, Follows
<1>5. GuardStands(h, read, clean)
  BY <1>1, <1>3, <1>4 DEF GuardStands
<1> QED
  BY <1>2, <1>5

LEMMA ObserveStands ==
  ASSUME NEW g, NEW read, NEW clean, GuardStands(g, read, clean), NEW f
  PROVE  GuardStands(Observe(g, f), read, clean)
<1>1. ObservationAllowed(Observation(f))
  BY DEF ObservationAllowed, Observation
<1> QED
  BY <1>1, NotedStands DEF Observe

\* The corrections leave an operation an operation.
LEMMA Corrected ==
  ASSUME NEW op, IsOperation(op), NEW s, NEW message
  PROVE  /\ IsOperation(BindQuote(op, message)) /\ IsOperation(MergeOwnedModel(s, op))
         /\ IsOperation(PercentFlex(op, message)) /\ IsOperation(ClearInstead(op, message))
         /\ IsOperation(QuoteRemoval(s, op)) /\ IsOperation(DoubtInstead(s, op))
<1>1. IsOperation(BindQuote(op, message))
  BY DEF BindQuote, IsOperation, OperationKeys
<1>2. IsOperation(MergeOwnedModel(s, op))
  BY DEF MergeOwnedModel, IsOperation, OperationKeys
<1>3. IsOperation(PercentFlex(op, message))
  BY DEF PercentFlex, IsOperation, OperationKeys
<1>4. IsOperation(ClearInstead(op, message))
  BY DEF ClearInstead, IsOperation, OperationKeys
<1>5. IsOperation(QuoteRemoval(s, op))
  BY DEF QuoteRemoval, IsOperation, OperationKeys
<1>6. IsOperation(DoubtInstead(s, op))
  BY DEF DoubtInstead, IsOperation, OperationKeys
<1> QED
  BY <1>1, <1>2, <1>3, <1>4, <1>5, <1>6

LEMMA ConflictStands ==
  ASSUME NEW g, NEW read, NEW clean, GuardStands(g, read, clean), NEW op, IsOperation(op)
  PROVE  GuardStands(MarkConflict(g, op), read, clean)
<1> DEFINE must == op.strength = "must" \/ g.working.fields[op.field].strength = "must"
           conflict == [op EXCEPT !.op = "conflict", !.value = <<>>, !.evidence = "uncertain",
                                  !.scope = "", !.strength = IF must THEN "must" ELSE ""]
<1>1. IsOperation(conflict)
  BY DEF IsOperation, OperationKeys
<1> HIDE DEF conflict
<1>2. \/ MarkConflict(g, op) = g
      \/ Single(g.working, conflict) # {} /\ MarkConflict(g, op) = Keep(g, conflict)
  <2>1. MarkConflict(g, op) = IF op.op = "set" /\ op.grounded /\ RequiresConfirmation(g.working, op)
                                          /\ Single(g.working, conflict) # {}
                                       THEN Keep(g, conflict) ELSE g
    BY DEF MarkConflict, conflict
  <2> QED
    BY <2>1
<1> QED
  BY <1>1, <1>2, KeepStands

LEMMA JudgeStands ==
  ASSUME NEW g, NEW read, NEW clean, GuardStands(g, read, clean),
         NEW op, IsOperation(op), NEW message
  PROVE  GuardStands(Judge(g, op, message), read, clean)
<1> DEFINE quoted == QuoteRemoval(g.working, op)
           meant == DoubtInstead(g.working, quoted)
<1>1. IsOperation(meant)
  <2>1. IsOperation(quoted)
    BY Corrected
  <2> HIDE DEF quoted
  <2> QED
    BY <2>1, Corrected
<1>2. \/ Judge(g, op, message) \in {g, Observe(g, op.field), Observe(g, "notes"),
                                   Observe(MarkConflict(g, meant), op.field)}
      \/ Single(g.working, meant) # {} /\ Judge(g, op, message) = Keep(g, meant)
  <2> HIDE DEF quoted
  <2> DEFINE applied == meant.path = "" /\ Single(g.working, meant) # {}
             Rest == IF applied /\ EvidenceGrounded(g.working, meant, message) THEN Keep(g, meant)
                     ELSE IF meant.path # "" \/ (op.kind = "context" /\ op.field \in Structured)
                     THEN Observe(g, "notes")
                     ELSE Observe(MarkConflict(g, meant), op.field)
  <2>1. Judge(g, op, message) \in {g, Observe(g, op.field), Rest}
    BY DEF Judge, quoted
  <2> HIDE DEF meant
  <2> QED
    BY <2>1
<1> HIDE DEF meant
<1>3. GuardStands(Observe(g, op.field), read, clean) /\ GuardStands(Observe(g, "notes"), read, clean)
  BY ObserveStands
<1>4. GuardStands(Observe(MarkConflict(g, meant), op.field), read, clean)
  <2>1. GuardStands(MarkConflict(g, meant), read, clean)
    BY <1>1, ConflictStands
  <2> QED
    BY <2>1, ObserveStands
<1> QED
  BY <1>1, <1>2, <1>3, <1>4, KeepStands

LEMMA GuardedStands ==
  ASSUME NEW g, NEW read, NEW clean, GuardStands(g, read, clean),
         NEW op, IsOperation(op), NEW message
  PROVE  GuardStands(GuardOperation(g, op, message), read, clean)
<1> DEFINE bound == MergeOwnedModel(g.working, BindQuote(op, message))
           asked == ClearInstead(PercentFlex(bound, message), message)
<1>1. IsOperation(asked)
  <2>1. IsOperation(BindQuote(op, message))
    BY Corrected
  <2>2. IsOperation(bound)
    BY <2>1, Corrected
  <2> HIDE DEF bound
  <2>3. IsOperation(PercentFlex(bound, message))
    BY <2>2, Corrected
  <2> QED
    BY <2>3, Corrected
<1>2. \/ GuardOperation(g, op, message) \in {g, Observe(g, "notes"), Judge(g, asked, message)}
      \/ Single(g.working, op) # {} /\ GuardOperation(g, op, message) = Keep(g, op)
  BY DEF GuardOperation
<1> HIDE DEF asked
<1> QED
  BY <1>1, <1>2, ObserveStands, JudgeStands, KeepStands

\* The guard goes through the operations, then through the observations.
GuardNext(message, g, op) == GuardOperation(g, op, message)
Guarding == INSTANCE FoldLaws WITH Then <- GuardNext

MergeNext(g, h, o) ==
  IF o.capability = "" /\ o.restates /\ \E i \in DOMAIN g.operations : g.operations[i].op = "set" THEN h
  ELSE Noted(h, [field |-> o.field, capability |-> o.capability, tooLong |-> o.tooLong])
Merging == INSTANCE FoldLaws WITH Then <- MergeNext

Unguarded(s) == [working |-> s, operations |-> <<>>, observations |-> <<>>]

LEMMA PrepareUnfolds ==
  ASSUME NEW s, NEW u, NEW message
  PROVE  LET guarded == Guarding!Folded(message, Unguarded(s), u.operations)
             merged == Merging!Folded(guarded, guarded, u.observations)
         IN PrepareRequirementUpdate(s, u, message)
              = [operations |-> merged.operations, observations |-> merged.observations]
BY DEF PrepareRequirementUpdate, MergeObservations, Unguarded, GuardNext, MergeNext,
       Guarding!Folded, Guarding!FoldLeft, Guarding!MapThenFoldSet, Guarding!Max,
       FoldLeft, MapThenFoldSet, Max,
       Merging!Folded, Merging!FoldLeft, Merging!MapThenFoldSet, Merging!Max

LEMMA MergedStands ==
  ASSUME NEW g, NEW h, NEW read, NEW clean, GuardStands(h, read, clean), NEW o,
         clean => ObservationAllowed(o)
  PROVE  GuardStands(MergeNext(g, h, o), read, clean)
<1> DEFINE noted == [field |-> o.field, capability |-> o.capability, tooLong |-> o.tooLong]
<1>1. MergeNext(g, h, o) \in {h, Noted(h, noted)}
  BY DEF MergeNext
<1>2. clean => ObservationAllowed(noted)
  BY DEF ObservationAllowed
<1> HIDE DEF noted
<1> QED
  BY <1>1, <1>2, NotedStands

LEMMA UnguardedStands ==
  ASSUME NEW s, IsRequirement(s), OwnershipConsistent(s), NEW clean
  PROVE  GuardStands(Unguarded(s), s, clean)
<1> DEFINE g == Unguarded(s)
<1>1. /\ g = [k \in GuardKeys |-> g[k]] /\ g.working = s
      /\ g.operations = <<>> /\ g.observations = <<>>
  BY DEF Unguarded, GuardKeys
<1> HIDE DEF g
<1>2. Follows(g, s)
  BY <1>1, OperatedEmpty, BegunAlike DEF Follows
<1>3. GuardStands(g, s, clean)
  BY <1>1, <1>2, ListEmpty, AllowedEmpty DEF GuardStands
<1> QED
  BY <1>3 DEF g

LEMMA GuardRuns ==
  ASSUME NEW s, IsRequirement(s), OwnershipConsistent(s), NEW q, IsList(q),
         \A i \in 1..Len(q) : IsOperation(q[i]), NEW message, NEW clean
  PROVE  GuardStands(Guarding!Folded(message, Unguarded(s), q), s, clean)
<1>1. PICK r : /\ Guarding!History(r, message, Unguarded(s), q)
               /\ Guarding!Folded(message, Unguarded(s), q) = r[Len(q)]
  BY Guarding!Unfolds, ListRange
<1> DEFINE K == {k \in 0..Len(q) : GuardStands(r[k], s, clean)}
<1>2. 0 \in K
  BY <1>1, UnguardedStands DEF Guarding!History, IsList
<1>3. ASSUME NEW k \in 0 .. (Len(q) - 1), k \in K PROVE k + 1 \in K
  <2>1. k + 1 \in 1..Len(q) /\ (k + 1) - 1 = k /\ k + 1 \in 0..Len(q)
    BY DEF IsList
  <2>2. r[k + 1] = GuardOperation(r[k], q[k + 1], message)
    BY <1>1, <2>1 DEF Guarding!History, GuardNext
  <2> QED
    BY <1>3, <2>1, <2>2, GuardedStands
<1>4. Len(q) \in K
  <2>1. Len(q) \in Nat
    BY DEF IsList
  <2> HIDE DEF K
  <2>2. \A k \in 0..Len(q) : k \in K
    BY <1>2, <1>3, <2>1, Guarding!UpTo
  <2> QED
    BY <2>1, <2>2
<1> QED
  BY <1>1, <1>4

LEMMA MergeRuns ==
  ASSUME NEW g, NEW s, NEW clean, GuardStands(g, s, clean), NEW q, IsList(q), clean => Allowed(q)
  PROVE  GuardStands(Merging!Folded(g, g, q), s, clean)
<1>1. PICK r : Merging!History(r, g, g, q) /\ Merging!Folded(g, g, q) = r[Len(q)]
  BY Merging!Unfolds, ListRange
<1> DEFINE K == {k \in 0..Len(q) : GuardStands(r[k], s, clean)}
<1>2. 0 \in K
  BY <1>1 DEF Merging!History, IsList
<1>3. ASSUME NEW k \in 0 .. (Len(q) - 1), k \in K PROVE k + 1 \in K
  <2>1. k + 1 \in 1..Len(q) /\ (k + 1) - 1 = k /\ k + 1 \in 0..Len(q)
    BY DEF IsList
  <2>2. r[k + 1] = MergeNext(g, r[k], q[k + 1])
    BY <1>1, <2>1 DEF Merging!History
  <2>3. clean => ObservationAllowed(q[k + 1])
    BY <2>1, ListRange DEF Allowed
  <2> QED
    BY <1>3, <2>1, <2>2, <2>3, MergedStands
<1>4. Len(q) \in K
  <2>1. Len(q) \in Nat
    BY DEF IsList
  <2> HIDE DEF K
  <2>2. \A k \in 0..Len(q) : k \in K
    BY <1>2, <1>3, <2>1, Merging!UpTo
  <2> QED
    BY <2>1, <2>2
<1> QED
  BY <1>1, <1>4

\* What is left of an update after the guard: a batch that comes to one
\* requirement with consistent lists.
Prepared(s, p) ==
  /\ p = [operations |-> p.operations, observations |-> p.observations]
  /\ IsList(p.operations) /\ IsList(p.observations)
  /\ \A i \in 1..Len(p.operations) : IsOperation(p.operations[i])
  /\ \E b : /\ Operated(s, p.operations, "chat") = {b}
            /\ IsRequirement(b) /\ OwnershipConsistent(b)

LEMMA PreparedStands ==
  ASSUME NEW s, IsRequirement(s), OwnershipConsistent(s), NEW u,
         IsList(u.operations), IsList(u.observations),
         \A i \in 1..Len(u.operations) : IsOperation(u.operations[i]), NEW message
  PROVE  LET p == PrepareRequirementUpdate(s, u, message)
         IN Prepared(s, p) /\ (Allowed(u.observations) => Allowed(p.observations))
<1> DEFINE guarded == Guarding!Folded(message, Unguarded(s), u.operations)
           merged == Merging!Folded(guarded, guarded, u.observations)
           p == PrepareRequirementUpdate(s, u, message)
           clean == Allowed(u.observations)
<1>1. p = [operations |-> merged.operations, observations |-> merged.observations]
  BY PrepareUnfolds
<1> HIDE DEF merged, p
<1>0. clean => Allowed(u.observations)
  OBVIOUS
<1> HIDE DEF clean
<1>2. GuardStands(merged, s, clean)
  <2>1. GuardStands(guarded, s, clean)
    BY GuardRuns
  <2> HIDE DEF guarded
  <2> QED
    BY <1>0, <2>1, MergeRuns DEF merged
<1>3. p.operations = merged.operations /\ p.observations = merged.observations
  BY <1>1
<1>4. PICK b : /\ Operated(s, merged.operations, "chat") = {b}
               /\ IsRequirement(b) /\ Alike(b, merged.working)
  BY <1>2 DEF GuardStands, Follows
<1>5. OwnershipConsistent(b)
  <2>1. OwnershipConsistent(merged.working) /\ b.fields = merged.working.fields
    BY <1>2, <1>4 DEF GuardStands, Alike
  <2> QED
    BY <2>1 DEF OwnershipConsistent, Held, Active
<1>6. Prepared(s, p)
  <2>1. /\ IsList(merged.operations) /\ IsList(merged.observations)
        /\ \A i \in 1..Len(merged.operations) : IsOperation(merged.operations[i])
    BY <1>2 DEF GuardStands
  <2> QED
    BY <1>1, <1>3, <1>4, <1>5, <2>1 DEF Prepared
<1>7. Allowed(u.observations) => Allowed(p.observations)
  BY <1>2, <1>3 DEF GuardStands, clean
<1> QED
  BY <1>6, <1>7 DEF p

LEMMA PreparedApplies ==
  ASSUME NEW s, IsRequirement(s), OwnershipConsistent(s), NEW p, Prepared(s, p), Allowed(p.observations)
  PROVE  ApplyRequirementUpdate(s, p, "chat") # {}
<1>1. PICK b : /\ Operated(s, p.operations, "chat") = {b}
               /\ IsRequirement(b) /\ OwnershipConsistent(b)
  BY DEF Prepared
<1>2. Observed(b, p.observations).fields = b.fields
  BY <1>1, ObservedFields DEF Prepared
<1>3. OwnershipConsistent(Observed(b, p.observations))
  BY <1>1, <1>2 DEF OwnershipConsistent, Held, Active
<1>4. ApplyRequirementUpdate(s, p, "chat")
        = IF p.operations = <<>> /\ p.observations = <<>> THEN {s}
          ELSE {t \in {Observed(x, p.observations) : x \in {b}} :
                  Allowed(p.observations) /\ OwnershipConsistent(t)}
  BY <1>1, UpdateUnfolds
<1> QED
  BY <1>3, <1>4

-----------------------------------------------------------------------------
(* The acceptances that are kept *)

VerifyNext(c, so, op) == VerifyOperation(so, op, c[1], c[2])
Verifying == INSTANCE FoldLaws WITH Then <- VerifyNext

Unverified(observations) ==
  [operations |-> <<>>, observations |-> observations, accepted |-> {}]

LEMMA VerifyUnfolds ==
  ASSUME NEW u, NEW offered, NEW message
  PROVE  VerifyAcceptedProposals(u, offered, message)
           = Verifying!Folded(<<offered, message>>, Unverified(u.observations), u.operations)
<1>1. \A c : VerifyAcceptedProposals(u, c[1], c[2])
               = Verifying!Folded(c, Unverified(u.observations), u.operations)
  BY DEF VerifyAcceptedProposals, Unverified, VerifyNext, FoldLeft, MapThenFoldSet, Max,
         Verifying!Folded, Verifying!FoldLeft, Verifying!MapThenFoldSet, Verifying!Max
<1> DEFINE c == <<offered, message>>
<1>2. c[1] = offered /\ c[2] = message
  OBVIOUS
<1> HIDE DEF c
<1>3. VerifyAcceptedProposals(u, offered, message)
        = Verifying!Folded(c, Unverified(u.observations), u.operations)
  BY <1>1, <1>2
<1> QED
  BY <1>3 DEF c

\* What is kept as an acceptance takes up a value that was offered.
SieveKeys == {"operations", "observations", "accepted"}
Sieved(so, offered) ==
  /\ so = [k \in SieveKeys |-> so[k]]
  /\ IsList(so.operations) /\ IsList(so.observations)
  /\ \A i \in 1..Len(so.operations) :
       /\ IsOperation(so.operations[i])
       /\ so.operations[i].evidence = "accepted_proposal" => so.operations[i] \in so.accepted
  /\ \A op \in so.accepted : \E p \in offered : p.field = op.field /\ p.value = op.value

LEMMA SievedGrows ==
  ASSUME NEW so, NEW offered, Sieved(so, offered), NEW op, IsOperation(op), NEW accepted,
         so.accepted \subseteq accepted, op.evidence = "accepted_proposal" => op \in accepted,
         \A o \in accepted : \E p \in offered : p.field = o.field /\ p.value = o.value,
         NEW t, t = [k \in SieveKeys |-> t[k]], t.operations = Append(so.operations, op),
         t.observations = so.observations, t.accepted = accepted
  PROVE  Sieved(t, offered)
<1> DEFINE q == so.operations
           n == Len(q)
<1>1. IsList(q)
  BY DEF Sieved
<1> HIDE DEF q
<1>2. /\ IsList(Append(q, op)) /\ Len(Append(q, op)) = n + 1 /\ n \in Nat
      /\ Append(q, op)[n + 1] = op /\ \A i \in 1..n : Append(q, op)[i] = q[i]
  BY <1>1, ListGrows, ListRange
<1> DEFINE Fit(o) == IsOperation(o) /\ (o.evidence = "accepted_proposal" => o \in accepted)
<1>3. ASSUME NEW i \in 1..Len(t.operations) PROVE Fit(t.operations[i])
  <2>1. i = n + 1 \/ i \in 1..n
    BY <1>2 DEF q
  <2>2. CASE i = n + 1
    BY <1>2, <2>2 DEF q
  <2>3. CASE i \in 1..n
    <3>1. t.operations[i] = so.operations[i]
      BY <1>2, <2>3 DEF q
    <3>2. IsOperation(so.operations[i])
          /\ (so.operations[i].evidence = "accepted_proposal" => so.operations[i] \in so.accepted)
      BY <2>3 DEF Sieved, q
    <3> QED
      BY <3>1, <3>2
  <2> QED
    BY <2>1, <2>2, <2>3
<1>4. IsList(t.operations) /\ IsList(t.observations)
  BY <1>2 DEF Sieved, q
<1> QED
  BY <1>3, <1>4 DEF Sieved

LEMMA VerifiedStands ==
  ASSUME NEW so, NEW offered, Sieved(so, offered), NEW op, IsOperation(op), NEW message
  PROVE  Sieved(VerifyOperation(so, op, offered, message), offered)
<1> DEFINE kept == [so EXCEPT !.operations = Append(@, op)]
           taken == [so EXCEPT !.operations = Append(@, op), !.accepted = @ \cup {op}]
           noted == [so EXCEPT !.observations = Append(@, Observation(op.field))]
<1>1. CASE op.evidence # "accepted_proposal"
  <2>1. /\ kept = [k \in SieveKeys |-> kept[k]] /\ kept.operations = Append(so.operations, op)
        /\ kept.observations = so.observations /\ kept.accepted = so.accepted
    BY DEF Sieved, SieveKeys
  <2>2. VerifyOperation(so, op, offered, message) = kept
    BY <1>1 DEF VerifyOperation
  <2> HIDE DEF kept
  <2>3. Sieved(kept, offered)
    <3>1. \A o \in so.accepted : \E p \in offered : p.field = o.field /\ p.value = o.value
      BY DEF Sieved
    <3> QED
      BY <1>1, <2>1, <3>1, SievedGrows
  <2> QED
    BY <2>2, <2>3
<1>2. CASE op.evidence = "accepted_proposal" /\ Verified(op, offered, message)
  <2>1. /\ taken = [k \in SieveKeys |-> taken[k]] /\ taken.operations = Append(so.operations, op)
        /\ taken.observations = so.observations /\ taken.accepted = so.accepted \cup {op}
    BY DEF Sieved, SieveKeys
  <2>2. VerifyOperation(so, op, offered, message) = taken
    BY <1>2 DEF VerifyOperation
  <2> HIDE DEF taken
  <2> DEFINE accepted == so.accepted \cup {op}
  <2>3. \A o \in accepted : \E p \in offered : p.field = o.field /\ p.value = o.value
    BY <1>2 DEF Sieved, Verified
  <2>4. so.accepted \subseteq accepted /\ op \in accepted /\ taken.accepted = accepted
    BY <2>1
  <2> HIDE DEF accepted
  <2>5. Sieved(taken, offered)
    BY <2>1, <2>3, <2>4, SievedGrows
  <2> QED
    BY <2>2, <2>5
<1>3. CASE op.evidence = "accepted_proposal" /\ ~Verified(op, offered, message)
  <2>1. /\ noted = [k \in SieveKeys |-> noted[k]] /\ noted.operations = so.operations
        /\ noted.observations = Append(so.observations, Observation(op.field))
        /\ noted.accepted = so.accepted
    BY DEF Sieved, SieveKeys
  <2>2. VerifyOperation(so, op, offered, message) = noted
    BY <1>3 DEF VerifyOperation
  <2> HIDE DEF noted
  <2>3. IsList(noted.observations)
    <3>1. IsList(so.observations)
      BY DEF Sieved
    <3>2. IsList(Append(so.observations, Observation(op.field)))
      BY <3>1, ListGrows
    <3> QED
      BY <2>1, <3>2
  <2>4. Sieved(noted, offered)
    BY <2>1, <2>3 DEF Sieved
  <2> QED
    BY <2>2, <2>4
<1> QED
  BY <1>1, <1>2, <1>3

LEMMA VerifyRuns ==
  ASSUME NEW u, NEW offered, NEW message, IsList(u.operations), IsList(u.observations),
         \A i \in 1..Len(u.operations) : IsOperation(u.operations[i])
  PROVE  Sieved(VerifyAcceptedProposals(u, offered, message), offered)
<1> DEFINE c == <<offered, message>>
           base == Unverified(u.observations)
           q == u.operations
<1>0. c[1] = offered /\ c[2] = message
  OBVIOUS
<1> HIDE DEF c
<1>1. PICK r : Verifying!History(r, c, base, q) /\ Verifying!Folded(c, base, q) = r[Len(q)]
  BY Verifying!Unfolds, ListRange
<1> DEFINE K == {k \in 0..Len(q) : Sieved(r[k], offered)}
<1>2. 0 \in K
  <2>1. /\ base = [k \in SieveKeys |-> base[k]] /\ base.operations = <<>>
        /\ base.observations = u.observations /\ base.accepted = {}
    BY DEF Unverified, SieveKeys
  <2> HIDE DEF base
  <2>2. Sieved(base, offered)
    BY <2>1, ListEmpty DEF Sieved
  <2> QED
    BY <1>1, <2>2 DEF Verifying!History, IsList
<1>3. ASSUME NEW k \in 0 .. (Len(q) - 1), k \in K PROVE k + 1 \in K
  <2>1. k + 1 \in 1..Len(q) /\ (k + 1) - 1 = k /\ k + 1 \in 0..Len(q)
    BY DEF IsList
  <2>2. r[k + 1] = VerifyOperation(r[k], q[k + 1], offered, message)
    BY <1>0, <1>1, <2>1 DEF Verifying!History, VerifyNext
  <2> QED
    BY <1>3, <2>1, <2>2, VerifiedStands
<1>4. Len(q) \in K
  <2>1. Len(q) \in Nat
    BY DEF IsList
  <2> HIDE DEF K
  <2>2. \A k \in 0..Len(q) : k \in K
    BY <1>2, <1>3, <2>1, Verifying!UpTo
  <2> QED
    BY <2>1, <2>2
<1>5. Sieved(Verifying!Folded(c, base, q), offered)
  BY <1>1, <1>4
<1> QED
  BY <1>5, VerifyUnfolds DEF c

-----------------------------------------------------------------------------
(* The turns (RequirementTurns) *)

LEMMA TurnsFollowed == ConversationSpec => Spec
<1>1. Start => Init
  BY DEF Start
<1>2. [Step]_<<subject, turnVars, orders>> => [Next]_turnVars
  BY DEF Step, turnVars
<1> QED
  BY <1>1, <1>2, PTL DEF ConversationSpec, Spec

\* The last message of the assistant, when a message is added.
LEMMA LastAssistantGrows ==
  ASSUME NEW ms, IsList(ms)
  PROVE  /\ LastAssistant(Append(ms, "assistant")) = Len(ms) + 1
         /\ LastAssistant(Append(ms, "user")) = LastAssistant(ms)
<1> DEFINE At(q) == {i \in 1..Len(q) : q[i] = "assistant"}
<1>0. \A q : LastAssistant(q) = IF At(q) # {} THEN Max(At(q)) ELSE 0
  BY DEF LastAssistant, SelectLastInSeq
<1>1. LastAssistant(Append(ms, "assistant")) = Len(ms) + 1
  <2> DEFINE q == Append(ms, "assistant")
  <2>1. Len(ms) \in Nat /\ Len(q) = Len(ms) + 1 /\ q[Len(ms) + 1] = "assistant"
    BY ListGrows, ListRange
  <2> HIDE DEF q
  <2>2. Len(ms) + 1 \in At(q) /\ \A i \in At(q) : Len(ms) + 1 >= i
    BY <2>1
  <2>3. \A x \in At(q) : (\A y \in At(q) : x >= y) => x = Len(ms) + 1
    BY <2>1, <2>2
  <2>4. Max(At(q)) = Len(ms) + 1
    BY <2>2, <2>3 DEF Max
  <2>5. LastAssistant(q) = Len(ms) + 1
    BY <1>0, <2>2, <2>4
  <2> QED
    BY <2>5 DEF q
<1>2. LastAssistant(Append(ms, "user")) = LastAssistant(ms)
  <2> DEFINE q == Append(ms, "user")
  <2>1. /\ Len(ms) \in Nat /\ Len(q) = Len(ms) + 1 /\ q[Len(ms) + 1] = "user"
        /\ \A i \in 1..Len(ms) : q[i] = ms[i]
    BY ListGrows, ListRange
  <2> HIDE DEF q
  <2>2. At(q) = At(ms)
    BY <2>1
  <2>3. LastAssistant(q) = LastAssistant(ms)
    BY <1>0, <2>2
  <2> QED
    BY <2>3 DEF q
<1> QED
  BY <1>1, <1>2

\* What the user has accepted so far.
Taken(ps) == {<<p.field, p.value>> : p \in {x \in ps : x.resolved}}

\* A proposal belongs to a message of the assistant; the message right after it
\* took it up, or none did and none will.
ProposalKeys == {"field", "value", "message", "consumedBy", "resolved"}
ProposalStands(p, ms) ==
  /\ p = [k \in ProposalKeys |-> p[k]] /\ p.resolved \in BOOLEAN
  /\ p.message \in 1..Len(ms) /\ ms[p.message] = "assistant"
  /\ p.consumedBy \in {0, p.message + 1}
  /\ p.resolved => p.consumedBy # 0
  /\ p.consumedBy = 0 /\ p.message = LastAssistant(ms) => p.message = Len(ms)

RunStands(w, ms, ps) ==
  \/ w = None
  \/ \E run : /\ w = <<run>>
              /\ run = [message |-> run.message, said |-> run.said, read |-> run.read]
              /\ run.message \in 1..Len(ms)
              /\ \/ run.read = None
                 \/ \E s : run.read = <<s>> /\ Stands(s, Taken(ps)) /\ OwnershipConsistent(s)

DraftStands(s, ps) == Stands(s, Taken(ps)) /\ OwnershipConsistent(s)

TurnsInv ==
  /\ IsList(messages)
  /\ \A p \in proposals : ProposalStands(p, messages)
  /\ DraftStands(draft, proposals)
  /\ RunStands(turn, messages, proposals)

LEMMA ProposalsGrow ==
  ASSUME NEW ms, IsList(ms), NEW p, ProposalStands(p, ms)
  PROVE  ProposalStands(p, Append(ms, "assistant"))
<1> DEFINE q == Append(ms, "assistant")
<1>1. /\ Len(ms) \in Nat /\ Len(q) = Len(ms) + 1 /\ \A i \in 1..Len(ms) : q[i] = ms[i]
      /\ LastAssistant(q) = Len(ms) + 1
  BY ListGrows, ListRange, LastAssistantGrows
<1> HIDE DEF q
<1>2. p.message \in 1..Len(q) /\ q[p.message] = "assistant" /\ p.message # LastAssistant(q)
  BY <1>1 DEF ProposalStands
<1>3. ProposalStands(p, q)
  BY <1>2 DEF ProposalStands
<1> QED
  BY <1>3 DEF q

\* The next message of the user consumes what was just proposed.
LEMMA ProposalsConsumed ==
  ASSUME NEW ms, IsList(ms), NEW ps, \A p \in ps : ProposalStands(p, ms)
  PROVE  LET q == Append(ms, "user")
         IN  /\ \A p \in Consume(ps, q, Len(q)) : ProposalStands(p, q)
             /\ Taken(Consume(ps, q, Len(q))) = Taken(ps)
<1> DEFINE q == Append(ms, "user")
           Next1(p) == IF p.message = LastAssistant(q) /\ p.consumedBy = 0 /\ ~p.resolved
                       THEN [p EXCEPT !.consumedBy = Len(q)] ELSE p
<1>1. /\ Len(ms) \in Nat /\ Len(q) = Len(ms) + 1 /\ \A i \in 1..Len(ms) : q[i] = ms[i]
      /\ LastAssistant(q) = LastAssistant(ms)
  BY ListGrows, ListRange, LastAssistantGrows
<1>2. Consume(ps, q, Len(q)) = {Next1(p) : p \in ps}
  BY DEF Consume
<1> HIDE DEF q
<1>3. ASSUME NEW p \in ps
      PROVE  /\ ProposalStands(Next1(p), q)
             /\ Next1(p).resolved = p.resolved /\ Next1(p).field = p.field /\ Next1(p).value = p.value
  <2>0. ProposalStands(p, ms)
    OBVIOUS
  <2>1. p.message \in 1..Len(q) /\ q[p.message] = "assistant" /\ p.message \in Nat
    BY <1>1, <2>0 DEF ProposalStands
  <2>2. CASE p.message = LastAssistant(q) /\ p.consumedBy = 0 /\ ~p.resolved
    <3> DEFINE t == [p EXCEPT !.consumedBy = Len(q)]
    <3>1. /\ t = [k \in ProposalKeys |-> t[k]] /\ t.consumedBy = Len(q)
          /\ t.field = p.field /\ t.value = p.value /\ t.message = p.message /\ t.resolved = p.resolved
      BY <2>0 DEF ProposalStands, ProposalKeys
    <3>2. p.message = Len(ms)
      BY <1>1, <2>0, <2>2 DEF ProposalStands
    <3> HIDE DEF t
    <3>3. ProposalStands(t, q)
      BY <1>1, <2>0, <2>1, <3>1, <3>2 DEF ProposalStands
    <3>4. Next1(p) = t
      BY <2>2 DEF t
    <3> HIDE DEF Next1
    <3> QED
      BY <3>1, <3>3, <3>4
  <2>3. CASE ~(p.message = LastAssistant(q) /\ p.consumedBy = 0 /\ ~p.resolved)
    <3>1. Next1(p) = p
      BY <2>3
    <3>2. ~(p.consumedBy = 0 /\ p.message = LastAssistant(q))
      BY <2>0, <2>3 DEF ProposalStands
    <3>3. ProposalStands(p, q)
      BY <2>0, <2>1, <3>2 DEF ProposalStands
    <3> HIDE DEF Next1
    <3> QED
      BY <3>1, <3>3
  <2> QED
    BY <2>2, <2>3
<1> HIDE DEF Next1
<1>4. \A p \in Consume(ps, q, Len(q)) : ProposalStands(p, q)
  BY <1>2, <1>3
<1>5. Taken(Consume(ps, q, Len(q))) = Taken(ps)
  <2>1. Taken(Consume(ps, q, Len(q))) \subseteq Taken(ps)
    BY <1>2, <1>3 DEF Taken
  <2>2. Taken(ps) \subseteq Taken(Consume(ps, q, Len(q)))
    <3> SUFFICES ASSUME NEW p \in ps, p.resolved
                 PROVE  <<p.field, p.value>> \in Taken(Consume(ps, q, Len(q)))
      BY DEF Taken
    <3>1. Next1(p) \in Consume(ps, q, Len(q)) /\ Next1(p).resolved
      BY <1>2, <1>3
    <3>2. <<Next1(p).field, Next1(p).value>> \in Taken(Consume(ps, q, Len(q)))
      BY <3>1 DEF Taken
    <3> QED
      BY <1>3, <3>2
  <2> QED
    BY <2>1, <2>2
<1> QED
  BY <1>4, <1>5 DEF q

LEMMA StandsMore ==
  ASSUME NEW s, NEW taken, NEW more, taken \subseteq more, Stands(s, taken)
  PROVE  Stands(s, more)
BY FieldsMore DEF Stands

LEMMA RunMore ==
  ASSUME NEW w, NEW ms, NEW ps, RunStands(w, ms, ps), NEW q, NEW qs, Len(ms) \in Nat,
         Len(q) \in Nat, Len(ms) <= Len(q), Taken(ps) \subseteq Taken(qs)
  PROVE  RunStands(w, q, qs)
<1>1. CASE w = None
  BY <1>1 DEF RunStands
<1>2. ASSUME NEW run, w = <<run>>,
             run = [message |-> run.message, said |-> run.said, read |-> run.read],
             run.message \in 1..Len(ms),
             \/ run.read = None
             \/ \E s : run.read = <<s>> /\ Stands(s, Taken(ps)) /\ OwnershipConsistent(s)
      PROVE  RunStands(w, q, qs)
  <2>1. run.message \in 1..Len(q)
    BY <1>2
  <2>2. \/ run.read = None
        \/ \E s : run.read = <<s>> /\ Stands(s, Taken(qs)) /\ OwnershipConsistent(s)
    BY <1>2, StandsMore
  <2> QED
    BY <1>2, <2>1, <2>2 DEF RunStands
<1> QED
  BY <1>1, <1>2 DEF RunStands

LEMMA NewStands == Stands(NewRequirementState, {}) /\ OwnershipConsistent(NewRequirementState)
<1> DEFINE s == NewRequirementState
<1>1. /\ s = [k \in RequirementKeys |-> s[k]] /\ s.fields = [f \in Fields |-> Unknown]
  BY DEF NewRequirementState, RequirementKeys
<1> HIDE DEF s
<1>2. \A f \in Fields : FieldStands(f, Unknown, {})
  BY UnknownPlain, PlainStands
<1>3. Stands(s, {})
  BY <1>1, <1>2 DEF Stands, IsRequirement
<1>4. "owned_parts" \in Fields /\ "existing_parts" \in Fields
  BY DEF Fields, Structured, Parts
<1>5. OwnershipConsistent(s)
  BY <1>1, <1>4, UnknownPlain DEF OwnershipConsistent, OwnedCategories, Held, Active
<1> QED
  BY <1>3, <1>5 DEF s

\* What the sidebar changes keeps the requirement standing: it cannot claim an
\* acceptance.
LEMMA EditStands ==
  ASSUME NEW s, NEW ps, DraftStands(s, ps), NEW u, IsList(u.operations), IsList(u.observations),
         \A i \in 1..Len(u.operations) : IsOperation(u.operations[i]),
         NEW t \in ApplyRequirementUpdate(s, u, "edit")
  PROVE  DraftStands(t, ps)
<1>1. \A op : Earned(op, "edit", Taken(ps))
  BY DEF Earned
<1> QED
  BY <1>1, UpdateStands DEF DraftStands

LEMMA UpdateShape ==
  ASSUME NEW u \in Established \cup Updates \cup Edits
  PROVE  /\ IsList(u.operations) /\ IsList(u.observations)
         /\ \A i \in 1..Len(u.operations) : IsOperation(u.operations[i])
BY UpdateAssumption, ListRange

LEMMA TurnsInitially == Init => TurnsInv
<1> SUFFICES ASSUME Init PROVE TurnsInv
  OBVIOUS
<1>1. Taken(proposals) = {} /\ IsList(messages) /\ RunStands(turn, messages, proposals)
  BY ListEmpty DEF Init, Taken, RunStands
<1>2. PICK u \in Established \cup {Empty} : draft \in ApplyRequirementUpdate(NewRequirementState, u, "edit")
  BY DEF Init
<1>3. /\ IsList(u.operations) /\ IsList(u.observations)
      /\ \A i \in 1..Len(u.operations) : IsOperation(u.operations[i])
  <2>1. CASE u = Empty
    BY <2>1, ListEmpty DEF Empty
  <2>2. CASE u \in Established
    BY <2>2, UpdateShape
  <2> QED
    BY <2>1, <2>2
<1>4. DraftStands(NewRequirementState, proposals)
  BY <1>1, NewStands DEF DraftStands
<1>5. DraftStands(draft, proposals)
  BY <1>2, <1>3, <1>4, EditStands
<1> QED
  BY <1>1, <1>5 DEF TurnsInv, Init

LEMMA StartKeeps == TurnsInv /\ (\E s \in Sayings : StartMessage(s)) => TurnsInv'
<1> SUFFICES ASSUME TurnsInv, NEW saying \in Sayings, StartMessage(saying) PROVE TurnsInv'
  OBVIOUS
<1> DEFINE q == Append(messages, "user")
           ps == Consume(proposals, q, Len(q))
           run == [message |-> Len(q), said |-> saying, read |-> None]
<1>1. messages' = q /\ proposals' = ps /\ turn' = <<run>> /\ draft' = draft
  BY DEF StartMessage
<1>2. IsList(q) /\ Len(q) = Len(messages) + 1 /\ Len(messages) \in Nat
  BY ListGrows, ListRange DEF TurnsInv
<1>3. (\A p \in ps : ProposalStands(p, q)) /\ Taken(ps) = Taken(proposals)
  BY ProposalsConsumed DEF TurnsInv
<1>4. run = [message |-> run.message, said |-> run.said, read |-> run.read]
      /\ run.message = Len(q) /\ run.read = None
  OBVIOUS
<1> HIDE DEF q, ps, run
<1>5. RunStands(<<run>>, q, ps)
  BY <1>2, <1>4 DEF RunStands
<1>6. DraftStands(draft, ps)
  BY <1>3 DEF TurnsInv, DraftStands
<1> QED
  BY <1>1, <1>2, <1>3, <1>5, <1>6 DEF TurnsInv

LEMMA AttachKeeps == TurnsInv /\ AttachState => TurnsInv'
<1> SUFFICES ASSUME TurnsInv, AttachState PROVE TurnsInv'
  OBVIOUS
<1>1. PICK run : /\ turn = <<run>>
                 /\ run = [message |-> run.message, said |-> run.said, read |-> run.read]
                 /\ run.message \in 1..Len(messages)
  BY DEF TurnsInv, RunStands, AttachState
<1> DEFINE attached == [run EXCEPT !.read = <<draft>>]
<1>2. turn' = <<attached>>
  <2>1. turn' = [turn EXCEPT ![1].read = <<draft>>]
    BY DEF AttachState
  <2> QED
    BY <1>1, <2>1
<1>3. /\ attached = [message |-> attached.message, said |-> attached.said, read |-> attached.read]
      /\ attached.message = run.message /\ attached.read = <<draft>>
  BY <1>1
<1> HIDE DEF attached
<1>4. RunStands(<<attached>>, messages, proposals)
  BY <1>1, <1>3 DEF RunStands, TurnsInv, DraftStands
<1> QED
  BY <1>2, <1>4 DEF TurnsInv, AttachState

LEMMA CompleteKeeps == TurnsInv /\ (\E u \in Updates, o \in Offers : CompleteTurn(u, o)) => TurnsInv'
<1> SUFFICES ASSUME TurnsInv, NEW u \in Updates, NEW o \in Offers, CompleteTurn(u, o) PROVE TurnsInv'
  OBVIOUS
<1>1. PICK run : /\ turn = <<run>> /\ run.message \in 1..Len(messages)
                 /\ \/ run.read = None
                    \/ \E s : run.read = <<s>> /\ DraftStands(s, proposals)
  BY DEF TurnsInv, RunStands, CompleteTurn, DraftStands
<1>2. PICK s : run.read = <<s>> /\ DraftStands(s, proposals)
  BY <1>1 DEF CompleteTurn
<1> DEFINE offered == ActiveProposals(proposals, run.message)
           guarded == PrepareRequirementUpdate(s, u, run.said)
           verified == VerifyAcceptedProposals(guarded, offered, run.said)
           q == Append(messages, "assistant")
           kept == Resolve(proposals, run.message, verified.accepted)
           saved == Saved(o, Len(q))
<1>3. /\ draft' \in ApplyRequirementUpdate(s, verified, "chat")
      /\ messages' = q /\ proposals' = kept \cup saved /\ turn' = None
  <2>1. turn[1] = run /\ run.read[1] = s
    BY <1>1, <1>2
  <2> QED
    BY <2>1 DEF CompleteTurn
<1>4. Sieved(verified, offered)
  <2>1. Prepared(s, guarded)
    BY <1>2, UpdateShape, PreparedStands DEF DraftStands, Stands
  <2> HIDE DEF guarded
  <2> QED
    BY <2>1, VerifyRuns DEF Prepared
<1> HIDE DEF guarded, verified
<1>5. /\ IsList(messages) /\ IsList(q) /\ Len(q) = Len(messages) + 1 /\ Len(messages) \in Nat
      /\ q[Len(q)] = "assistant" /\ LastAssistant(q) = Len(q)
  BY ListGrows, ListRange, LastAssistantGrows DEF TurnsInv
<1>6. ASSUME NEW p \in saved PROVE ProposalStands(p, q)
  <2>1. PICK v \in o : p = [field |-> v.field, value |-> v.value, message |-> Len(q),
                            consumedBy |-> 0, resolved |-> FALSE]
    BY DEF Saved
  <2>2. /\ p = [k \in ProposalKeys |-> p[k]] /\ p.message = Len(q)
        /\ p.consumedBy = 0 /\ p.resolved = FALSE
    BY <2>1 DEF ProposalKeys
  <2> HIDE DEF q
  <2>3. p.message \in 1..Len(q) /\ q[p.message] = "assistant"
    BY <1>5, <2>2
  <2>4. p.resolved \in BOOLEAN /\ ~p.resolved
    BY <2>2
  <2> QED
    BY <2>2, <2>3, <2>4 DEF ProposalStands
<1> DEFINE Taking(p) == p.consumedBy = run.message
                        /\ \E op \in verified.accepted : op.field = p.field /\ op.value = p.value
           After1(p) == IF Taking(p) THEN [p EXCEPT !.resolved = TRUE] ELSE p
<1>7. kept = {After1(p) : p \in proposals}
  BY DEF Resolve
<1>8. ASSUME NEW p \in proposals
      PROVE  /\ ProposalStands(After1(p), q)
             /\ After1(p).field = p.field /\ After1(p).value = p.value
             /\ p.resolved => After1(p).resolved
             /\ Taking(p) => After1(p).resolved
  <2>1. ProposalStands(p, q)
    BY ProposalsGrow DEF TurnsInv
  <2> HIDE DEF q
  <2>2. CASE Taking(p)
    <3> DEFINE t == [p EXCEPT !.resolved = TRUE]
    <3>1. /\ t = [k \in ProposalKeys |-> t[k]] /\ t.consumedBy = p.consumedBy
          /\ t.field = p.field /\ t.value = p.value /\ t.message = p.message /\ t.resolved = TRUE
      BY <2>1 DEF ProposalStands, ProposalKeys
    <3>2. p.consumedBy # 0
      BY <1>1, <2>2
    <3> HIDE DEF t
    <3>3. ProposalStands(t, q)
      BY <2>1, <3>1, <3>2 DEF ProposalStands
    <3>4. After1(p) = t
      BY <2>2 DEF t
    <3> HIDE DEF After1
    <3> QED
      BY <3>1, <3>3, <3>4
  <2>3. CASE ~Taking(p)
    <3>1. After1(p) = p
      BY <2>3
    <3> HIDE DEF After1
    <3> QED
      BY <2>1, <2>3, <3>1
  <2> QED
    BY <2>2, <2>3
<1>9. \A p \in proposals' : ProposalStands(p, q)
  <2> HIDE DEF kept, saved, After1
  <2> QED
    BY <1>3, <1>6, <1>7, <1>8
<1>10. Taken(proposals) \subseteq Taken(proposals')
  <2> HIDE DEF After1, kept
  <2> SUFFICES ASSUME NEW p \in proposals, p.resolved
               PROVE  <<p.field, p.value>> \in Taken(proposals')
    BY DEF Taken
  <2>1. After1(p) \in proposals' /\ After1(p).resolved
    BY <1>3, <1>7, <1>8
  <2>2. <<After1(p).field, After1(p).value>> \in Taken(proposals')
    BY <2>1 DEF Taken
  <2> QED
    BY <1>8, <2>2
<1>11. ASSUME NEW op \in verified.accepted PROVE <<op.field, op.value>> \in Taken(proposals')
  <2>1. PICK p \in proposals : /\ p.consumedBy = run.message
                               /\ p.field = op.field /\ p.value = op.value
    BY <1>4 DEF Sieved, ActiveProposals
  <2>2. Taking(p)
    BY <2>1
  <2> HIDE DEF After1, Taking, kept
  <2>3. After1(p) \in proposals' /\ After1(p).resolved
    BY <1>3, <1>7, <1>8, <2>2
  <2>4. <<After1(p).field, After1(p).value>> \in Taken(proposals')
    BY <2>3 DEF Taken
  <2> QED
    BY <1>8, <2>1, <2>4
<1> HIDE DEF kept, saved, After1, Taking, q
<1>12. DraftStands(draft', proposals')
  <2>1. DraftStands(s, proposals')
    BY <1>2, <1>10, StandsMore DEF DraftStands
  <2>2. /\ IsList(verified.operations) /\ IsList(verified.observations)
        /\ \A i \in 1..Len(verified.operations) :
             IsOperation(verified.operations[i])
             /\ Earned(verified.operations[i], "chat", Taken(proposals'))
    BY <1>4, <1>11 DEF Sieved, Earned
  <2> QED
    BY <1>3, <2>1, <2>2, UpdateStands DEF DraftStands
<1>13. RunStands(turn', q, proposals')
  BY <1>3 DEF RunStands
<1> QED
  BY <1>3, <1>5, <1>9, <1>12, <1>13 DEF TurnsInv

LEMMA OthersKeep ==
  TurnsInv /\ (FailTurn \/ ReportBuild \/ \E u \in Edits : EditRequirement(u)) => TurnsInv'
<1> SUFFICES ASSUME TurnsInv, FailTurn \/ ReportBuild \/ \E u \in Edits : EditRequirement(u)
             PROVE  TurnsInv'
  OBVIOUS
<1>1. /\ IsList(Append(messages, "assistant"))
      /\ \A p \in proposals : ProposalStands(p, Append(messages, "assistant"))
  BY ListGrows, ProposalsGrow DEF TurnsInv
<1>2. \A ms : RunStands(None, ms, proposals)
  BY DEF RunStands
<1>3. CASE FailTurn
  <2>1. /\ messages' = messages \/ messages' = Append(messages, "assistant")
        /\ turn' = None /\ proposals' = proposals /\ draft' = draft
    BY <1>3 DEF FailTurn
  <2> QED
    BY <1>1, <1>2, <2>1 DEF TurnsInv
<1>4. CASE ReportBuild
  <2>1. /\ messages' = Append(messages, "assistant")
        /\ turn' = None /\ proposals' = proposals /\ draft' = draft
    BY <1>4 DEF ReportBuild
  <2> QED
    BY <1>1, <1>2, <2>1 DEF TurnsInv
<1>5. ASSUME NEW u \in Edits, EditRequirement(u) PROVE TurnsInv'
  <2>1. /\ draft' \in ApplyRequirementUpdate(draft, u, "edit")
        /\ messages' = messages /\ proposals' = proposals /\ turn' = turn
    BY <1>5 DEF EditRequirement
  <2>2. DraftStands(draft', proposals)
    BY <2>1, UpdateShape, EditStands DEF TurnsInv
  <2> QED
    BY <2>1, <2>2 DEF TurnsInv
<1> QED
  BY <1>3, <1>4, <1>5

LEMMA TurnsInductive == TurnsInv /\ [Next]_turnVars => TurnsInv'
<1>1. TurnsInv /\ UNCHANGED turnVars => TurnsInv'
  BY DEF turnVars, TurnsInv
<1> QED
  BY <1>1, StartKeeps, AttachKeeps, CompleteKeeps, OthersKeep DEF Next

LEMMA TurnsStand == ConversationSpec => []TurnsInv
BY TurnsFollowed, TurnsInitially, TurnsInductive, PTL DEF Spec

\* Whatever the guard kept of an answer, judged one operation at a time, the
\* reducer takes as one batch, but for an observation of the answer's own that
\* the reducer refuses and the guard hands on (RequirementTurns,
\* prepareRequirementUpdate and ApplyRequirementUpdate).
THEOREM GuardedUpdatesApply == ConversationSpec => []GuardedBatchApplies
<1>1. TurnsInv => GuardedBatchApplies
  <2> SUFFICES ASSUME TurnsInv, NEW run \in ToSet(turn), NEW read \in ToSet(run.read), NEW u \in Updates
               PROVE  LET p == PrepareRequirementUpdate(read, u, run.said)
                      IN \/ ApplyRequirementUpdate(read, p, "chat") # {}
                         \/ /\ ~Allowed(u.observations)
                            /\ ApplyRequirementUpdate(read, [p EXCEPT !.observations = <<>>], "chat") # {}
    BY DEF GuardedBatchApplies, Allowed
  <2>1. IsRequirement(read) /\ OwnershipConsistent(read)
    <3>1. turn = <<run>> /\ (run.read = None \/ \E s : run.read = <<s>> /\ DraftStands(s, proposals))
      BY DEF ToSet, None, TurnsInv, RunStands, DraftStands
    <3>2. DraftStands(read, proposals)
      BY <3>1 DEF ToSet, None
    <3> QED
      BY <3>2 DEF DraftStands, Stands
  <2> DEFINE p == PrepareRequirementUpdate(read, u, run.said)
           bare == [p EXCEPT !.observations = <<>>]
  <2>2. Prepared(read, p) /\ (Allowed(u.observations) => Allowed(p.observations))
    BY <2>1, UpdateShape, PreparedStands
  <2> HIDE DEF p
  <2>3. Allowed(u.observations) => ApplyRequirementUpdate(read, p, "chat") # {}
    BY <2>1, <2>2, PreparedApplies
  <2>4. ApplyRequirementUpdate(read, bare, "chat") # {}
    <3>1. /\ bare = [operations |-> p.operations, observations |-> <<>>]
          /\ bare.operations = p.operations /\ bare.observations = <<>>
      BY <2>2 DEF Prepared
    <3> HIDE DEF bare
    <3>2. Prepared(read, bare)
      BY <2>2, <3>1, ListEmpty DEF Prepared
    <3> QED
      BY <2>1, <3>1, <3>2, AllowedEmpty, PreparedApplies
  <2> QED
    BY <2>3, <2>4 DEF p
<1> QED
  BY <1>1, TurnsStand, PTL

\* A value stands in the requirement as an accepted proposal only if the
\* assistant proposed it in the message right before the one that took it up
\* (RequirementTurns, consumeRequirementProposalsTx and verifyAcceptedProposals).
THEOREM AcceptancesFollowProposals == ConversationSpec => []AcceptedWasJustProposed
<1>1. TurnsInv => AcceptedWasJustProposed
  <2> SUFFICES ASSUME TurnsInv, NEW f \in Fields, draft.fields[f].evidence = "accepted_proposal",
                      draft.fields[f].derived = "", draft.fields[f].status = "active"
               PROVE  \E p \in proposals : /\ p.field = f /\ p.value = draft.fields[f].value /\ p.resolved
                                           /\ messages[p.message] = "assistant"
                                           /\ p.consumedBy = p.message + 1
    BY DEF AcceptedWasJustProposed
  <2>1. <<f, draft.fields[f].value>> \in Taken(proposals)
    BY FieldKeeps DEF TurnsInv, DraftStands, Stands, FieldSound
  <2>2. PICK p \in proposals : p.resolved /\ p.field = f /\ p.value = draft.fields[f].value
    BY <2>1 DEF Taken
  <2>3. messages[p.message] = "assistant" /\ p.consumedBy = p.message + 1
    BY <2>2 DEF TurnsInv, ProposalStands
  <2> QED
    BY <2>2, <2>3
<1> QED
  BY <1>1, TurnsStand, PTL

\* A requirement that may be confirmed can be handed to the builder: what the
\* readiness matrix lets through, the builder's own decoding accepts
\* (RequirementState, EvaluateRequirementReadiness and decodeRequirementSpec).
THEOREM EligibleIsDecoded == ConversationSpec => []ReadyIsProjectable
<1>1. TurnsInv => ReadyIsProjectable
  <2> SUFFICES ASSUME TurnsInv, ConfirmationEligible(draft) PROVE DecodeRequirementSpec(Projected(draft))
    BY DEF ReadyIsProjectable
  <2> DEFINE s == draft
             spec == Projected(s)
             given(f) == f \in DOMAIN spec
             list(f) == IF given(f) THEN spec[f] ELSE {}
  <2>1. /\ \A f : given(f) <=> f \in Fields /\ Active(s, f)
        /\ \A f \in Fields : Active(s, f) => spec[f] = s.fields[f].value[1]
    BY DEF Projected
  <2>2. {"use_case.type", "budget_cny", "existing_parts", "use_case.resolution", "use_case.titles",
         "budget_basis", "owned_parts"} \subseteq Fields
    BY DEF Fields, Structured, Parts
  <2>3. RequiredFields(s) \subseteq Fields
    BY <2>2 DEF RequiredFields
  <2>4. \A f \in RequiredFields(s) : Satisfied(s, f)
    BY <2>3 DEF ConfirmationEligible, MissingFields, BlockingConflicts
  <2> HIDE DEF spec, s
  <2>5. \A f \in RequiredFields(s) : given(f)
    BY <2>1, <2>3, <2>4 DEF Satisfied
  <2>6. given("budget_cny") /\ given("use_case.type")
    BY <2>5 DEF RequiredFields
  <2>7. spec["use_case.type"] = UseCaseType(s)
    BY <2>1, <2>2, <2>6 DEF UseCaseType
  <2>8. spec["use_case.type"] = "gaming" =>
          given("use_case.resolution") /\ spec["use_case.resolution"] # "any"
    <3> SUFFICES ASSUME spec["use_case.type"] = "gaming"
                 PROVE  given("use_case.resolution") /\ spec["use_case.resolution"] # "any"
      OBVIOUS
    <3>1. "use_case.resolution" \in RequiredFields(s)
      BY <2>7 DEF RequiredFields
    <3>2. Satisfied(s, "use_case.resolution")
      BY <2>4, <3>1
    <3> QED
      BY <2>1, <2>2, <3>2 DEF Satisfied
  <2>9. spec["use_case.type"] = "productivity" => list("use_case.titles") # {}
    <3> SUFFICES ASSUME spec["use_case.type"] = "productivity" PROVE list("use_case.titles") # {}
      OBVIOUS
    <3>1. "use_case.titles" \in RequiredFields(s)
      BY <2>7 DEF RequiredFields
    <3>2. Satisfied(s, "use_case.titles")
      BY <2>4, <3>1
    <3> QED
      BY <2>1, <2>2, <3>2 DEF Satisfied
  <2>10. list("owned_parts") = Held(s, "owned_parts") /\ list("existing_parts") = Held(s, "existing_parts")
    BY <2>1, <2>2 DEF Held
  <2>11. OwnedCategories(list("owned_parts")) \subseteq list("existing_parts")
    BY <2>10 DEF TurnsInv, DraftStands, OwnershipConsistent, s
  <2>12. MissingOwnedModels(list("existing_parts"), list("owned_parts")) = {}
    <3>1. CASE OwnsParts(s)
      <4>1. ~InConflict(s, "owned_parts")
        BY <2>2, <3>1 DEF ConfirmationEligible, BlockingConflicts, s
      <4> QED
        BY <2>10, <3>1, <4>1 DEF ConfirmationEligible, MissingFields, s
    <3>2. CASE ~OwnsParts(s)
      BY <2>10, <3>2 DEF OwnsParts, MissingOwnedModels
    <3> QED
      BY <3>1, <3>2
  <2>13. list("existing_parts") # {} => given("budget_basis")
    BY <2>5, <2>10 DEF OwnsParts, RequiredFields
  <2> HIDE DEF given, list
  <2>14. DecodeRequirementSpec(spec)
    BY <2>6, <2>8, <2>9, <2>11, <2>12, <2>13 DEF DecodeRequirementSpec, given, list
  <2> QED
    BY <2>14 DEF s, spec
<1> QED
  BY <1>1, TurnsStand, PTL

-----------------------------------------------------------------------------
(* Exceptions and their end *)

LEMMA RecordMade ==
  ASSUME NEW s, NEW f \in Fields, NEW op, NEW after, IsRequirement(s)
  PROVE  LET t == RecordChange(s, f, op, after)
         IN  /\ IsRequirement(t) /\ t.fields[f] = after
             /\ \A x \in Fields : x # f => t.fields[x] = s.fields[x]
<1> DEFINE t == RecordChange(s, f, op, after)
<1>1. t = [k \in RequirementKeys |-> t[k]] /\ t.fields = [s.fields EXCEPT ![f] = after]
  BY DEF RecordChange, IsRequirement, RequirementKeys
<1> HIDE DEF t
<1>2. t.fields = [g \in Fields |-> t.fields[g]] /\ t.fields[f] = after
      /\ \A g \in Fields : g # f => t.fields[g] = s.fields[g]
  BY <1>1 DEF IsRequirement
<1>3. /\ IsRequirement(t) /\ t.fields[f] = after
      /\ \A x \in Fields : x # f => t.fields[x] = s.fields[x]
  BY <1>1, <1>2 DEF IsRequirement
<1> QED
  BY <1>3 DEF t

\* What a temporary change of a field leaves: the field keeps what was there, and
\* so does the list that followed it, if it did.
Excepted(s, t, f) ==
  LET g == Partner(f) IN
  /\ t.fields[f].previous = <<s.fields[f]>>
  /\ \/ \A x \in Fields : x # f => t.fields[x] = s.fields[x]
     \/ /\ f \in Parts /\ t.fields[g].derived = f /\ t.fields[g].previous = <<s.fields[g]>>
        /\ \A x \in Fields : x \notin {f, g} => t.fields[x] = s.fields[x]

LEMMA ExceptionMade ==
  ASSUME NEW s, IsRequirement(s), NEW op, IsOperation(op), op.op = "set", op.scope = "temporary",
         NEW f, f = op.field, s.fields[f].scope # "temporary",
         f \in Parts => s.fields[Partner(f)].scope # "temporary",
         NEW t \in ApplyOperation(s, op, "edit")
  PROVE  /\ IsRequirement(t) /\ op.evidence \notin {"inferred", "uncertain", "accepted_proposal"}
         /\ Excepted(s, t, f)
<1> DEFINE g == Partner(f)
           before == s.fields[f]
           kind == IF op.kind = "" /\ (op.op # "set" \/ before.value = op.value)
                   THEN before.kind ELSE op.kind
           after == After(s, op, kind)
           changed == RecordChange(s, f, op.op, after)
<1>1. OperationAllowed(s, op, kind, "edit") /\ t = SyncOwnership(changed, op, changed.fields[f])
  BY DEF ApplyOperation
<1>2. op.evidence \notin {"inferred", "uncertain", "accepted_proposal"}
  BY <1>1 DEF OperationAllowed
<1>3. after.previous = <<before>> /\ after.scope = "temporary"
  <2>1. Inherit(op.scope, before.scope, "session") = "temporary"
    BY DEF Inherit
  <2> DEFINE strength == Inherit(op.strength, before.strength, DefaultStrength(f))
             stated == [status |-> "active", value |-> op.value, strength |-> strength,
                        scope |-> "temporary", kind |-> kind, evidence |-> op.evidence,
                        derived |-> "", previous |-> <<>>]
  <2>2. after = [stated EXCEPT !.previous = Covered(before, "temporary")]
    BY <2>1 DEF After
  <2>3. Covered(before, "temporary") = <<before>>
    BY DEF Covered
  <2> HIDE DEF kind, strength
  <2> HIDE DEF after
  <2> QED
    BY <2>2, <2>3
<1>4. f \in Fields
  BY DEF IsOperation
<1> HIDE DEF kind, after
<1>5. /\ IsRequirement(changed) /\ changed.fields[f] = after
      /\ \A x \in Fields : x # f => changed.fields[x] = s.fields[x]
  BY <1>4, RecordMade
<1> HIDE DEF changed
<1> DEFINE value == IF f = "existing_parts"
                    THEN {p \in Held(changed, g) : p[1] \in after.value[1]}
                    ELSE Held(changed, g) \cup OwnedCategories(after.value[1])
           linked == Linked(changed.fields[g], value, after, f)
<1>6. t = changed \/ (f \in Parts /\ t = RecordChange(changed, g, "set", linked))
  BY <1>1, <1>5 DEF SyncOwnership
<1> HIDE DEF value
<1>7. CASE t = changed
  BY <1>2, <1>3, <1>5, <1>7 DEF Excepted
<1>8. CASE f \in Parts /\ t = RecordChange(changed, g, "set", linked)
  <2>1. g # f /\ g \in Fields
    BY <1>8 DEF Partner, Parts, Fields, Structured
  <2>2. changed.fields[g] = s.fields[g]
    BY <1>5, <2>1
  <2>3. linked.derived = f /\ linked.previous = <<s.fields[g]>>
    BY <1>3, <1>8, <2>2 DEF Linked, Unknown, Covered
  <2> HIDE DEF linked
  <2>4. /\ IsRequirement(t) /\ t.fields[g] = linked
        /\ \A x \in Fields : x # g => t.fields[x] = changed.fields[x]
    BY <1>5, <1>8, <2>1, RecordMade
  <2> HIDE DEF g
  <2>5. Excepted(s, t, f)
    BY <1>3, <1>4, <1>5, <1>8, <2>1, <2>3, <2>4 DEF Excepted, g
  <2> QED
    BY <1>2, <2>4, <2>5
<1> QED
  BY <1>6, <1>7, <1>8

LEMMA Restoring ==
  ASSUME NEW t, NEW op, op.op = "restore", NEW before,
         op.evidence \notin {"inferred", "uncertain", "accepted_proposal"},
         t.fields[op.field].previous = <<before>>
  PROVE  LET changed == RecordChange(t, op.field, "restore", before)
         IN  ApplyOperation(t, op, "edit") = {SyncOwnership(changed, op, changed.fields[op.field])}
<1>1. \A kind : OperationAllowed(t, op, kind, "edit")
  BY DEF OperationAllowed
<1>2. \A kind : After(t, op, kind) = before
  BY DEF After
<1> DEFINE kind == IF op.kind = "" /\ (op.op # "set" \/ t.fields[op.field].value = op.value)
                   THEN t.fields[op.field].kind ELSE op.kind
           changed == RecordChange(t, op.field, op.op, After(t, op, kind))
<1>3. changed = RecordChange(t, op.field, "restore", before)
  <2> HIDE DEF kind
  <2>1. After(t, op, kind) = before
    BY <1>2
  <2> QED
    BY <2>1
<1>4. ApplyOperation(t, op, "edit") = {SyncOwnership(changed, op, changed.fields[op.field])}
  <2>1. OperationAllowed(t, op, kind, "edit")
    BY <1>1
  <2> QED
    BY <2>1 DEF ApplyOperation
<1> HIDE DEF changed
<1> QED
  BY <1>3, <1>4

LEMMA SameFields ==
  ASSUME NEW s, NEW t, IsRequirement(s), IsRequirement(t), \A x \in Fields : t.fields[x] = s.fields[x]
  PROVE  t.fields = s.fields
BY DEF IsRequirement

\* Nothing follows a list that has come back to what it was.
LEMMA BackInStep ==
  ASSUME NEW s, OwnershipConsistent(s), NEW f \in Parts, s.fields[f].status = "active"
  PROVE  LET g == Partner(f)
             value == s.fields[f].value[1]
         IN  (IF f = "existing_parts" THEN {p \in Held(s, g) : p[1] \in value}
              ELSE Held(s, g) \cup OwnedCategories(value)) = Held(s, g)
<1>1. s.fields[f].value[1] = Held(s, f)
  BY DEF Held, Active
<1>2. CASE f = "existing_parts"
  <2>1. \A p \in Held(s, "owned_parts") : p[1] \in Held(s, "existing_parts")
    BY DEF OwnershipConsistent, OwnedCategories
  <2> QED
    BY <1>1, <1>2, <2>1 DEF Partner
<1>3. CASE f = "owned_parts"
  <2>1. OwnedCategories(Held(s, "owned_parts")) \subseteq Held(s, "existing_parts")
    BY DEF OwnershipConsistent
  <2> QED
    BY <1>1, <1>3, <2>1 DEF Partner
<1> QED
  BY <1>2, <1>3 DEF Parts

LEMMA Undone ==
  ASSUME NEW s, IsRequirement(s), OwnershipConsistent(s), NEW w, IsRequirement(w),
         NEW op, IsOperation(op), op.op = "restore",
         op.evidence \notin {"inferred", "uncertain", "accepted_proposal"},
         NEW f, f = op.field, Excepted(s, w, f),
         f \in Parts /\ s.fields[Partner(f)].derived = f => s.fields[Partner(f)].previous = <<>>
  PROVE  \E r : /\ ApplyOperation(w, op, "edit") = {r}
               /\ r.fields = s.fields /\ OwnershipConsistent(r)
<1> DEFINE g == Partner(f)
           before == s.fields[f]
           changed == RecordChange(w, f, "restore", before)
           r == SyncOwnership(changed, op, changed.fields[f])
<1>1. f \in Fields /\ g \in Fields /\ (f \in Parts => g # f)
  BY DEF IsOperation, Partner, Parts, Fields, Structured
<1>2. w.fields[f].previous = <<before>>
  BY DEF Excepted
<1>3. ApplyOperation(w, op, "edit") = {r}
  BY <1>2, Restoring
<1>4. /\ IsRequirement(changed) /\ changed.fields[f] = before
      /\ \A x \in Fields : x # f => changed.fields[x] = w.fields[x]
  BY <1>1, RecordMade
<1> HIDE DEF changed
<1>5. ASSUME NEW x, x.fields = s.fields PROVE OwnershipConsistent(x)
  BY <1>5 DEF OwnershipConsistent, Held, Active
<1>6. CASE \A x \in Fields : x # f => w.fields[x] = s.fields[x]
  <2>1. changed.fields = s.fields
    BY <1>4, <1>6, SameFields
  <2>2. \A x : Held(changed, x) = Held(s, x)
    BY <2>1 DEF Held, Active
  <2> DEFINE value == IF f = "existing_parts"
                      THEN {p \in Held(s, g) : p[1] \in before.value[1]}
                      ELSE Held(s, g) \cup OwnedCategories(before.value[1])
  <2>3. f \in Parts /\ before.status = "active" => value = Held(s, g)
    BY BackInStep
  <2>4. r = IF op.op \in {"alternative", "conflict"} \/ f \notin Parts THEN changed
            ELSE IF op.op = "restore" /\ s.fields[g].derived = f /\ s.fields[g].previous # <<>>
            THEN RecordChange(changed, g, "restore", s.fields[g].previous[1])
            ELSE IF f = "existing_parts" /\ op.op = "remove"
            THEN RecordChange(changed, g, "remove", [Unknown EXCEPT !.status = "removed", !.derived = f])
            ELSE IF /\ before.status = "active" /\ s.fields[g].status # "conflict"
                    /\ f = "existing_parts" => s.fields[g].status = "active"
                    /\ value # Held(s, g)
            THEN RecordChange(changed, g, "set", Linked(s.fields[g], value, before, f))
            ELSE changed
    BY <2>1, <2>2 DEF SyncOwnership
  <2> HIDE DEF value
  <2>5. r = changed
    BY <2>3, <2>4
  <2> HIDE DEF r
  <2> QED
    BY <1>3, <1>5, <2>1, <2>5
<1>7. CASE /\ f \in Parts /\ w.fields[g].derived = f /\ w.fields[g].previous = <<s.fields[g]>>
           /\ \A x \in Fields : x \notin {f, g} => w.fields[x] = s.fields[x]
  <2>1. changed.fields[g] = w.fields[g]
    BY <1>1, <1>4, <1>7
  <2>2. r = RecordChange(changed, g, "restore", s.fields[g])
    BY <1>7, <2>1 DEF SyncOwnership
  <2>3. /\ IsRequirement(r) /\ r.fields[g] = s.fields[g]
        /\ \A x \in Fields : x # g => r.fields[x] = changed.fields[x]
    <3> HIDE DEF r, g
    <3> QED
      BY <1>1, <1>4, <2>2, RecordMade
  <2> HIDE DEF r, g
  <2>4. \A x \in Fields : r.fields[x] = s.fields[x]
    BY <1>1, <1>4, <1>7, <2>3
  <2>5. r.fields = s.fields
    BY <2>3, <2>4, SameFields
  <2> QED
    BY <1>3, <1>5, <2>5
<1> QED
  BY <1>6, <1>7 DEF Excepted

\* Taking a temporary change back leaves the requirement's fields as they were,
\* the list that followed it included (RequirementState, applyRequirementOperation
\* and syncOwnershipFields).
THEOREM RestoringUndoesExceptions == ConversationSpec => []ExceptionsAreUndone
<1>1. TurnsInv => ExceptionsAreUndone
  <2> SUFFICES ASSUME TurnsInv, NEW u \in Edits, Len(u.operations) = 1,
                      u.operations[1].op = "set", u.operations[1].scope = "temporary",
                      draft.fields[u.operations[1].field].scope # "temporary",
                      u.operations[1].field \in Parts =>
                        draft.fields[Partner(u.operations[1].field)].scope # "temporary",
                      NEW excepted \in ApplyRequirementUpdate(draft, u, "edit")
               PROVE  LET undo == [u.operations[1] EXCEPT !.op = "restore", !.value = <<>>,
                                                          !.scope = "", !.kind = ""]
                      IN \E restored \in ApplyRequirementUpdate(excepted,
                                           [u EXCEPT !.operations = <<undo>>], "edit") :
                           restored.fields = draft.fields
    BY DEF ExceptionsAreUndone
  <2> DEFINE op == u.operations[1]
             f == op.field
             g == Partner(f)
             undo == [op EXCEPT !.op = "restore", !.value = <<>>, !.scope = "", !.kind = ""]
             s == Begun(draft)
             w == Begun(excepted)
  <2>1. u = [operations |-> <<op>>, observations |-> <<>>] /\ IsOperation(op)
    <3>1. /\ u = [operations |-> u.operations, observations |-> <<>>]
          /\ IsList(u.operations) /\ IsOperation(op)
      BY UpdateAssumption, UpdateShape
    <3>2. u.operations = <<op>>
      BY <3>1 DEF IsList
    <3> QED
      BY <3>1, <3>2
  <2>2. [u EXCEPT !.operations = <<undo>>] = [operations |-> <<undo>>, observations |-> <<>>]
    BY <2>1
  <2>3. /\ IsOperation(undo) /\ undo.op = "restore" /\ undo.field = f
        /\ undo.evidence = op.evidence /\ undo.capability = op.capability
    BY <2>1 DEF IsOperation, OperationKeys
  <2>4. IsRequirement(draft) /\ OwnershipConsistent(draft) /\ \A x \in Fields : FieldStands(x, draft.fields[x], Taken(proposals))
    BY DEF TurnsInv, DraftStands, Stands
  <2>5. IsRequirement(s) /\ s.fields = draft.fields /\ OwnershipConsistent(s)
    <3>1. IsRequirement(s) /\ s.fields = draft.fields
      BY <2>4, BegunAlike DEF Alike
    <3> QED
      BY <2>4, <3>1 DEF OwnershipConsistent, Held, Active
  <2> HIDE DEF undo, s, w, op
  <2>6. excepted \in AppliedNext("edit", {s}, op)
    BY <2>1, OneApplied DEF s
  <2>7. op.capability = "" /\ excepted \in ApplyOperation(s, op, "edit")
    <3>1. op.op = "set"
      BY DEF op
    <3> QED
      BY <2>6, <3>1 DEF AppliedNext, WithdrawCapability
  <2>8. op.op = "set" /\ op.scope = "temporary" /\ s.fields[f].scope # "temporary"
        /\ (f \in Parts => s.fields[g].scope # "temporary")
    BY <2>5 DEF op
  <2>9. /\ IsRequirement(excepted) /\ op.evidence \notin {"inferred", "uncertain", "accepted_proposal"}
        /\ Excepted(s, excepted, f)
    BY <2>1, <2>5, <2>7, <2>8, ExceptionMade
  <2>10. IsRequirement(w) /\ Excepted(s, w, f)
    <3>1. IsRequirement(w) /\ w.fields = excepted.fields
      BY <2>9, BegunAlike DEF Alike, w
    <3> QED
      BY <2>9, <3>1 DEF Excepted
  <2>11. f \in Parts => (s.fields[g].derived = f => s.fields[g].previous = <<>>)
    <3> SUFFICES ASSUME f \in Parts, s.fields[g].derived = f PROVE s.fields[g].previous = <<>>
      OBVIOUS
    <3>1. g \in Fields /\ f # ""
      BY DEF Partner, Parts, Fields, Structured
    <3>2. FieldSound(g, s.fields[g], Taken(proposals))
      BY <2>4, <2>5, <3>1, FieldKeeps
    <3> QED
      BY <2>8, <3>1, <3>2 DEF FieldSound
  <2>12. PICK r : ApplyOperation(w, undo, "edit") = {r} /\ r.fields = s.fields /\ OwnershipConsistent(r)
    BY <2>3, <2>5, <2>8, <2>9, <2>10, <2>11, Undone
  <2>13. r \in ApplyRequirementUpdate(excepted, [u EXCEPT !.operations = <<undo>>], "edit")
    <3>1. AppliedNext("edit", {w}, undo) = {r}
      BY <2>3, <2>7, <2>12 DEF AppliedNext
    <3> QED
      BY <2>2, <2>12, <3>1, OneApplied DEF w
  <2> QED
    BY <2>5, <2>12, <2>13 DEF undo, op
<1> QED
  BY <1>1, TurnsStand, PTL
=============================================================================
