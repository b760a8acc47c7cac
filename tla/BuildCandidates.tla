---------------------------- MODULE BuildCandidates ----------------------------
(***************************************************************************)
(* Before a model chooses parts the server tells whether the request can   *)
(* be answered from the catalogue at all, binds the parts the user owns    *)
(* and prepares a small bundle of candidates per category                  *)
(* (internal/buildharness: decision.go, platform_bound.go, planner.go,     *)
(* requirement_constraints.go; the verdict and the quote of a selection    *)
(* are internal/agents/validate and purchase.go).                          *)
(*                                                                         *)
(* A part is its category ("slot"), price, vendor and the specifications   *)
(* the candidates are filtered by; "" and {} stand for a missing value,    *)
(* and socket and chipset are one value.  Of the twelve rules those that   *)
(* tie two of these categories are kept.  Amounts are whole units, the     *)
(* flexibility of the budget is the amount it comes to.                    *)
(*                                                                         *)
(* The size of the bundle is counted in candidates, not in characters.     *)
(* The embedding search is a given list of hits; its failures and those of *)
(* the catalogue query are left out, and so is the limit of 500000         *)
(* combinations of the platform bound.                                     *)
(***************************************************************************)
EXTENDS Integers, Sequences, FiniteSets, FiniteSetsExt, SequencesExt

CONSTANTS
  Slots,          \* the categories of the instance
  LaneLimit,      \* candidates sampled per vendor, family, socket or generation, > 1
  SampleLimit,    \* candidates sampled of the other categories, > 1
  GroupLimit,     \* candidates of a category a semantic hit may join
  MaxCandidates   \* size of a bundle

VARIABLE
  order       \* [catalogue, req, change, base, locked, hits]

Category == SelectSeq(<<"cpu", "gpu", "motherboard", "memory", "ssd", "psu", "case", "cooler">>,
                      LAMBDA s : s \in Slots)
Rank(s)  == CHOOSE i \in DOMAIN Category : Category[i] = s

NoPrice == -1
NoBase  == [s \in {} |-> {}]

Part(n)   == order.catalogue[n]
Offers(s) == {n \in DOMAIN order.catalogue : Part(n).slot = s}
Owned     == {order.req.owned[i].slot : i \in DOMAIN order.req.owned}
Lower     == order.req.budget - order.req.flex
Upper     == order.req.budget + order.req.flex

\* An unmarked field counts as a hard one, but not as one the user insists on.
Must(field)   == order.req.strength[field] = "must"
Prefer(field) == order.req.strength[field] = "prefer"
MandatoryGPU  == Must("gpu") /\ order.req.gpu # "any"

\* A selection gives each category its parts with their quantities: one, none
\* for a graphics card left out, or a number of equal drives.
Units(n, quantity) == {[part |-> n, quantity |-> quantity]}
Chosen(sel, s)     == {u.part : u \in sel[s]}
Changed(old, new)  == {s \in Slots : old[s] # new[s]}

-----------------------------------------------------------------------------
(* Verdict *)

Involved(rule) == CASE rule = "SOCKET_MATCH"        -> <<"motherboard", "cpu">>
                    [] rule = "MEMORY_GENERATION"   -> <<"memory", "motherboard">>
                    [] rule = "FORM_FACTOR_SUPPORT" -> <<"case", "motherboard">>
                    [] rule = "DISPLAY_OUTPUT"      -> <<"gpu", "cpu">>
Rules == {r \in {"SOCKET_MATCH", "MEMORY_GENERATION", "FORM_FACTOR_SUPPORT", "DISPLAY_OUTPUT"} :
            ToSet(Involved(r)) \subseteq Slots}

The(sel, s) == Part(CHOOSE n \in Chosen(sel, s) : TRUE)

Match(a, b) == IF "" \in {a, b} THEN "unknown" ELSE IF a = b THEN "pass" ELSE "fail"

Outcome(rule, sel) ==
  CASE rule = "SOCKET_MATCH" -> Match(The(sel, "cpu").socket, The(sel, "motherboard").socket)
    [] rule = "MEMORY_GENERATION" ->
         Match(The(sel, "memory").generation, The(sel, "motherboard").generation)
    [] rule = "FORM_FACTOR_SUPPORT" ->
         IF {} \in {The(sel, "motherboard").forms, The(sel, "case").forms} THEN "unknown"
         ELSE IF The(sel, "motherboard").forms \subseteq The(sel, "case").forms THEN "pass" ELSE "fail"
    [] rule = "DISPLAY_OUTPUT" ->
         IF sel["gpu"] # {} THEN "pass" ELSE Match(The(sel, "cpu").igpu, "yes")

Outcomes(sel) == {Outcome(r, sel) : r \in Rules}
Status(sel) == IF "fail" \in Outcomes(sel) THEN "fail"
               ELSE IF "unknown" \in Outcomes(sel) THEN "review" ELSE "pass"

-----------------------------------------------------------------------------
(* Quote *)

Price(units) ==
  SumFunction([u \in {v \in units : Part(v.part).price # NoPrice} |-> u.quantity * Part(u.part).price])

\* The categories the budget has to pay for (purchase.go): all of them, or
\* what is bought in addition to the parts the user has.
Paid == IF order.req.basis = "new_purchase" THEN Slots \ Owned ELSE Slots

Amount(sel)     == SumFunction([s \in Paid |-> Price(sel[s])])
Unpriced(sel)   == {s \in Paid : \E n \in Chosen(sel, s) : Part(n).price = NoPrice}
Direction(sel)  == IF Unpriced(sel) # {} THEN "none"
                   ELSE IF Amount(sel) > Upper THEN "over"
                   ELSE IF Amount(sel) < Lower THEN "under" ELSE "none"
\* An incomplete quote is taken for one within the window.
InWindow(sel)   == Unpriced(sel) # {} \/ Amount(sel) \in Lower .. Upper

-----------------------------------------------------------------------------
(* Refusals *)

Refusal(kind, reason, slots) == [kind |-> kind, reason |-> reason, slots |-> slots]

\* Of a list of checks the first that refuses decides.
FirstRefusal(checks) ==
  UNION {checks[i] : i \in {k \in DOMAIN checks : \A j \in 1 .. k - 1 : checks[j] = {}}}

-----------------------------------------------------------------------------
(* Requirements that are incomplete or that no catalogue can answer *)

Clarification ==
  LET unnamed == order.req.existing \ Owned
      basis   == order.req.existing \cup Owned # {} /\ order.req.basis = ""
  IN  IF unnamed # {} \/ basis
      THEN {Refusal("clarify", "missing_owned_information", unnamed)} ELSE {}

\* "noteKind" is what the free text is known to be: a fact or a context binds
\* nothing, a condition has to be proved, and an old note has to be asked for.
UnverifiedMandatory ==
  LET unproved == \/ Must("noise") /\ order.req.silent
                  \/ Must("look") /\ order.req.look
                  \/ Must("notes") /\ order.req.noteKind = "constraint"
  IN  IF Must("notes") /\ order.req.noteKind = "unsaid"
      THEN {Refusal("clarify", "requirement_semantics_missing", {})}
      ELSE IF unproved THEN {Refusal("data_unavailable", "requirement_evidence_missing", {})}
      ELSE {}

-----------------------------------------------------------------------------
(* Parts the user owns *)

\* A model that names one part of the catalogue is bound to it.
Matches(part) == {n \in Offers(part.slot) : Part(n).model = part.model}
Bound(part)   == Units(CHOOSE n \in Matches(part) : TRUE, part.quantity)

\* Bound one after the other; the binding joins the base and the locks.  (An
\* order without a base gets one that is empty elsewhere.)
EmptySelection == [s \in Slots |-> {}]
BindOne(so, part) ==
  IF so.refusals # {} THEN so
  ELSE IF Cardinality(Matches(part)) # 1
  THEN [so EXCEPT !.refusals = {Refusal("data_unavailable", "owned_model_unresolved", {part.slot})}]
  ELSE IF part.slot \in so.locked /\ so.base[part.slot] # Bound(part)
  THEN [so EXCEPT !.refusals = {Refusal("clarify", "owned_lock_conflict", {part.slot})}]
  ELSE [so EXCEPT !.base[part.slot] = Bound(part), !.locked = @ \cup {part.slot}]

BindOwned ==
  LET start == [base     |-> IF order.base = NoBase THEN EmptySelection ELSE order.base,
                locked   |-> order.locked,
                refusals |-> {}]
      bound == FoldLeft(BindOne, start, order.req.owned)
  IN  [bound EXCEPT !.base = IF order.req.owned = <<>> THEN order.base ELSE @]

-----------------------------------------------------------------------------
(* Lower bounds of the price *)

Needed(s) == s # "gpu" \/ order.req.use = "gaming" \/ s \in Owned
Free(s)   == order.req.basis = "new_purchase" /\ s \in Owned
Prices(s) == {Part(n).price : n \in Offers(s)} \ {NoPrice}
Cheapest(s) == IF Free(s) \/ Prices(s) = {} THEN 0 ELSE Min(Prices(s))

\* Each category at its cheapest; no bound while a price is unknown.
PriceKnown(s)  == Free(s) \/ \A n \in Offers(s) : Part(n).price # NoPrice
CategoryBound  == SumFunction([s \in {t \in Slots : Needed(t)} |-> Cheapest(s)])
CategoryBoundKnown == \A s \in Slots : Needed(s) => PriceKnown(s)

\* Mutant of KnownDifferent: what is not known to agree differs.
NotKnownEqual(a, b) == a = "" \/ b = "" \/ a # b

KnownDifferent(a, b) == a # "" /\ b # "" /\ a # b

\* The cheapest platform of a new office machine: processor, board and memory
\* that are not known to clash, a graphics card if the processor has no graphics.
PlatformBoundKnown ==
  /\ order.req.use = "general"
  /\ Owned \cup order.req.existing = {}
  /\ order.change.intent = "none" /\ order.base = NoBase /\ order.locked = {}
  /\ \A n \in DOMAIN order.catalogue : Part(n).price # NoPrice
  /\ \A s \in Slots : s # "gpu" => Offers(s) # {}
Platforms ==
  {p \in Offers("cpu") \X Offers("motherboard") \X Offers("memory") :
     /\ ~KnownDifferent(Part(p[1]).socket, Part(p[2]).socket)
     /\ ~KnownDifferent(Part(p[2]).generation, Part(p[3]).generation)}
PlatformPrice(p) ==
  LET graphics == IF Part(p[1]).igpu = "no" THEN Cheapest("gpu") ELSE 0
      rest     == Slots \ {"cpu", "gpu", "motherboard", "memory"}
  IN  Part(p[1]).price + Part(p[2]).price + Part(p[3]).price + graphics
        + SumFunction([s \in rest |-> Cheapest(s)])

Absent == {s \in Slots : Needed(s) /\ Offers(s) = {}}

AssessCatalog ==
  FirstRefusal(<<
    Clarification,
    BindOwned.refusals,
    {Refusal("data_unavailable", "catalog_category_missing", {s}) : s \in Absent},
    IF CategoryBoundKnown /\ CategoryBound > Upper
    THEN {Refusal("catalog_infeasible", "budget_lower_bound", {})} ELSE {},
    IF /\ PlatformBoundKnown
       /\ Platforms # {}
       /\ \A p \in Platforms : PlatformPrice(p) > Upper
    THEN {Refusal("catalog_infeasible", "platform_budget_lower_bound", {})} ELSE {}>>)

-----------------------------------------------------------------------------
(* Candidates: filtered by what the requirement insists on, then sampled *)

\* A set of numbers in their order, and the elements of a list at the positions
\* of a set, or those of a kind.
Nth(S, j)  == CHOOSE n \in S : Cardinality({m \in S : m <= n}) = j
InOrder(S) == [j \in 1 .. Cardinality(S) |-> Nth(S, j)]
Subsequence(parts, S) == [j \in 1 .. Cardinality(S) |-> parts[Nth(S, j)]]
Those(parts, are(_)) == Subsequence(parts, {i \in DOMAIN parts : are(parts[i])})

AppendOnce(parts, n) == IF n \in ToSet(parts) THEN parts ELSE Append(parts, n)

\* The least, the greatest and some in between, by price.
Sample(parts, limit) ==
  IF Len(parts) <= limit THEN parts
  ELSE Subsequence(parts, {i \in DOMAIN parts :
         \E k \in 0 .. limit - 1 : i = 1 + (k * (Len(parts) - 1)) \div (limit - 1)})

\* The names of the lanes in their alphabetical order.
LaneNames == <<"am5", "amd", "ddr4", "ddr5", "intel", "lga", "nvidia">>
Lane(n) == CASE Part(n).slot \in {"cpu", "gpu"} -> Part(n).vendor
             [] Part(n).slot = "motherboard"    -> Part(n).socket
             [] Part(n).slot = "memory"         -> Part(n).generation
             [] OTHER                           -> ""
SampleLanes(parts, limit) ==
  FoldLeft(LAMBDA sampled, lane : sampled \o Sample(Those(parts, LAMBDA n : Lane(n) = lane), limit),
           <<>>, LaneNames)

\* A change that asks for a vendor overrides the brand, a preference does not
\* exclude the others.
Brand(s, wanted) ==
  IF order.change.intent = "swap_part" /\ order.change.slot = s /\ order.change.hint # "any"
  THEN order.change.hint
  ELSE IF Prefer(s) THEN "any" ELSE wanted
Sizes == IF Prefer("size") \/ order.req.size = "any" THEN {} ELSE {order.req.size}

\* Locked categories offer what the base holds.
Base(s) == IF order.base = NoBase THEN <<>> ELSE InOrder(Chosen(order.base, s))
Locked(s) == s \in order.locked

\* Mutant of Retain: the parts of the base are candidates like any others.
SampledOnly(s, eligible, sampled) == sampled

\* The parts of the base that are still eligible stay, so that a change need not
\* exchange more than it has to.
Retain(s, eligible, sampled) ==
  FoldLeft(AppendOnce, sampled, Those(Base(s), LAMBDA n : n \in ToSet(eligible)))

\* What a category may offer.  Boards fit their mates, the processors that were
\* drawn before, memory the boards; an unnamed family of graphics cards fits nothing.
Admits(s, brand, n) ==
  CASE s = "cpu"  -> brand \in {"any", Part(n).vendor}
    [] s = "gpu"  -> Part(n).vendor # "" /\ brand \in {"any", Part(n).vendor}
    [] s \in {"motherboard", "case"} -> Sizes \subseteq Part(n).forms
    [] OTHER      -> TRUE
Fits(s, mates, n) ==
  CASE s = "motherboard" -> /\ Part(n).socket # ""
                            /\ \E c \in mates : Part(c).socket = Part(n).socket
    [] s = "memory"      -> /\ Part(n).generation # ""
                            /\ \E b \in mates : Part(b).generation = Part(n).generation
    [] OTHER             -> TRUE
EligibleOf(s, mates) ==
  LET brand == CASE s = "cpu" -> Brand(s, order.req.cpu)
                 [] s = "gpu" -> Brand(s, order.req.gpu)
                 [] OTHER     -> "any"
  IN  IF Locked(s) THEN Base(s)
      ELSE InOrder({n \in Offers(s) : Admits(s, brand, n) /\ Fits(s, mates, n)})

\* Without a game to run, each vendor's cheapest processor with graphics is added.
IntegratedGraphics(eligible) ==
  LET with == {n \in ToSet(eligible) : Part(n).igpu = "yes" /\ order.req.use # "gaming"}
  IN  Those(eligible, LAMBDA n : n \in with /\ \A m \in with : Lane(m) = Lane(n) => n <= m)

\* The first cooler whose capacity is known is always a candidate.
FirstRated(s, eligible) ==
  LET rated == Those(eligible, LAMBDA n : s = "cooler" /\ ~Locked(s) /\ Part(n).rated)
  IN  IF rated = <<>> THEN <<>> ELSE <<rated[1]>>

SampledOf(s, eligible) ==
  IF Locked(s) THEN Base(s)
  ELSE CASE s = "cpu" ->
              FoldLeft(AppendOnce, SampleLanes(eligible, LaneLimit), IntegratedGraphics(eligible))
         [] s \in {"gpu", "motherboard", "memory"} -> SampleLanes(eligible, LaneLimit)
         [] OTHER ->
              FoldLeft(AppendOnce, Sample(eligible, SampleLimit), FirstRated(s, eligible))

\* What a category may offer and what is drawn of it, the mates' categories first.
Draw(s, mates) ==
  LET eligible == EligibleOf(s, mates)
  IN  [eligible |-> eligible, drawn |-> Retain(s, eligible, SampledOf(s, eligible))]
Lists ==
  LET cpus     == ToSet(Draw("cpu", {}).drawn)
      boards   == ToSet(Draw("motherboard", cpus).drawn)
      mates(s) == CASE s = "motherboard" -> cpus [] s = "memory" -> boards [] OTHER -> {}
  IN  [s \in Slots |-> Draw(s, mates(s))]

\* What a preference asks for and the sampling left out.
Preferred(n) ==
  CASE Part(n).slot = "cpu"  -> Prefer("cpu") /\ Part(n).vendor = order.req.cpu
    [] Part(n).slot = "gpu"  -> Prefer("gpu") /\ Part(n).vendor = order.req.gpu
    [] Part(n).slot \in {"motherboard", "case"} ->
         Prefer("size") /\ order.req.size # "any" /\ order.req.size \in Part(n).forms
    [] OTHER -> FALSE

\* One preferred part is a candidate, and preferred parts come first.
Ranked(lists, s) ==
  LET wanted == Those(lists[s].eligible, Preferred)
      all    == IF wanted = <<>> THEN lists[s].drawn ELSE AppendOnce(lists[s].drawn, wanted[1])
  IN  Those(all, Preferred) \o Those(all, LAMBDA n : ~Preferred(n))

-----------------------------------------------------------------------------
(* The bundle *)

Kept(eligible, s) == {n \in ToSet(Base(s)) : ~Locked(s) /\ n \in ToSet(eligible)}

\* What trimming may not remove: the first of a category and of a lane, what is
\* locked or kept from the base, processors with graphics, the rated cooler.
Protected(eligible, s, parts, i) ==
  \/ i = 1 \/ Locked(s) \/ parts[i] \in Kept(eligible, s)
  \/ Lane(parts[i]) # "" /\ \A j \in 1 .. i - 1 : Lane(parts[j]) # Lane(parts[i])
  \/ s = "cpu" /\ Part(parts[i]).igpu = "yes"
  \/ parts[i] \in ToSet(FirstRated(s, eligible))

Core(lists, s) ==
  LET parts == Ranked(lists, s)
  IN  [i \in DOMAIN parts |-> [part |-> parts[i], semantic |-> FALSE,
                               protected |-> Protected(lists[s].eligible, s, parts, i)]]

\* Two hits per category are marked or join, if they are eligible and there is room.
Searched == order.req.silent \/ (order.req.look /\ ~Must("look"))
Take(so, n) ==
  LET found == \E i \in DOMAIN so.group : so.group[i].part = n
  IN  IF so.added = 2 \/ (~found /\ Len(so.group) >= GroupLimit) THEN so
      ELSE [added |-> so.added + 1,
            group |-> IF found THEN so.group
                      ELSE Append(so.group, [part |-> n, semantic |-> TRUE, protected |-> FALSE])]
Enriched(lists, s) ==
  LET hits == Those(order.hits, LAMBDA n : Searched /\ n \in ToSet(lists[s].eligible))
  IN  FoldLeft(Take, [group |-> Core(lists, s), added |-> 0], hits).group

\* Trimming removes semantic hits first, then other candidates, each from the
\* last category and the end of its list.
Spare(bundle) ==
  UNION {{<<s, i>> : i \in {j \in DOMAIN bundle[s] : ~bundle[s][j].protected}} : s \in Slots}
Sooner(bundle, p, q) ==
  LET a == bundle[p[1]][p[2]].semantic
      b == bundle[q[1]][q[2]].semantic
  IN  \/ a /\ ~b
      \/ a = b /\ Rank(p[1]) > Rank(q[1])
      \/ a = b /\ p[1] = q[1] /\ p[2] > q[2]
Excess(bundle) == MapThenSumSet(LAMBDA s : Len(bundle[s]), Slots) - MaxCandidates
Trimmed(bundle) ==
  LET spare == Spare(bundle)
      cut   == {p \in spare : Cardinality({q \in spare : Sooner(bundle, q, p)}) < Excess(bundle)}
  IN  [s \in Slots |-> Subsequence(bundle[s], {i \in DOMAIN bundle[s] : <<s, i>> \notin cut})]

\* A locked part that is not sold any more is an error, one that contradicts
\* what the user insists on a question; which one is found first depends on
\* the order of a map.
LockConflict(s, n) ==
  CASE s = "cpu" -> Must("cpu") /\ order.req.cpu # "any" /\ Part(n).vendor # order.req.cpu
    [] s = "gpu" -> MandatoryGPU /\ Part(n).vendor # order.req.gpu
    [] s = "motherboard" ->
         Must("size") /\ order.req.size # "any" /\ order.req.size \notin Part(n).forms
    [] OTHER -> FALSE
LockRefusals ==
  UNION {
    IF order.base = NoBase \/ ~(Chosen(order.base, s) \subseteq Offers(s))
    THEN {Refusal("error", "locked_part", {s})}
    ELSE IF \/ s = "gpu" /\ Base(s) = <<>> /\ MandatoryGPU
            \/ \E n \in ToSet(Base(s)) : LockConflict(s, n)
    THEN {Refusal("clarify", "mandatory_locked_conflict", {s})}
    ELSE {} : s \in order.locked}

NoCandidates(s) == {Refusal("data_unavailable", "required_candidates_missing", {s})}
Demanded(s)     == s # "gpu" \/ order.req.use = "gaming" \/ MandatoryGPU
Missing(lists, s) == IF Demanded(s) /\ lists[s].drawn = <<>> THEN NoCandidates(s) ELSE {}
MissingFrom(lists) == [i \in DOMAIN Category |-> Missing(lists, Category[i])]
CandidateRefusals ==
  IF LockRefusals # {} THEN LockRefusals ELSE FirstRefusal(MissingFrom(Lists))

Full(lists)  == [s \in Slots |-> Enriched(lists, s)]
Fitted(full) == IF Excess(full) > 0 THEN Trimmed(full) ELSE full
FullBundle   == Full(Lists)
Bundle       == Fitted(FullBundle)
\* Only what is protected is left, and it is still too much.
TooLarge   == Excess(Bundle) > 0

Candidates(bundle, s) == {bundle[s][i].part : i \in DOMAIN bundle[s]}
================================================================================
