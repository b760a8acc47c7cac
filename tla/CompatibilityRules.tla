------------------------- MODULE CompatibilityRules -------------------------
(***************************************************************************)
(* The twelve compatibility rules (internal/rules) and the report made of  *)
(* them.  Specifications of parts may be missing; a rule that cannot be    *)
(* judged is "unknown" and names the fields it misses.  While a planning   *)
(* run goes on, pages are read and missing fields are supplied: the state  *)
(* is a build as it is and the set of its fields known so far.             *)
(*                                                                         *)
(* Observed values and wording of a check are left out, and so is the case *)
(* of letters in a memory generation.  An SSD's form is one field for all  *)
(* SSDs: one unknown form makes the count unknown.                         *)
(***************************************************************************)
EXTENDS Integers, FiniteSetsExt

CONSTANTS
  Builds,   \* complete builds: [gpu : BOOLEAN, spec : [Fields -> value], ssds]
  Absences  \* bound: sets of fields, one of which is missing at first

VARIABLES build, known

ruleVars == <<build, known>>

Fields ==
  {"cpu.socket", "cpu.supported_chipsets", "cpu.tdp_w", "cpu.has_igpu",
   "motherboard.socket", "motherboard.chipset", "motherboard.memory_generation",
   "motherboard.memory_speed_max_mts", "motherboard.form_factor", "motherboard.m2_slots",
   "memory.generation", "memory.speed_mts",
   "gpu.length_mm", "gpu.tdp_w", "gpu.power_connectors",
   "psu.wattage_w", "psu.power_connectors", "psu.form_factor", "psu.length_mm",
   "case.gpu_length_max_mm", "case.cooler_height_max_mm", "case.radiator_sizes_mm",
   "case.supported_form_factors", "case.supported_psu_form_factors", "case.psu_length_max_mm",
   "cooler.type", "cooler.height_mm", "cooler.radiator_size_mm", "cooler.cooling_capacity_w",
   "ssd.form_factor"}

Rules ==
  {"SOCKET_MATCH", "CHIPSET_SUPPORT", "MEMORY_GENERATION", "MEMORY_SPEED", "GPU_CLEARANCE",
   "COOLER_CLEARANCE", "PSU_HEADROOM", "FORM_FACTOR_SUPPORT", "M2_SLOT_CAPACITY",
   "GPU_POWER_CONNECTORS", "DISPLAY_OUTPUT", "COOLER_THERMAL_CAPACITY"}

Spec(b, f) == b.spec[f]

\* A check: pass, fail (error), warning (a failure of the lesser severity) or
\* unknown, with the missing fields.
Pass    == [outcome |-> "pass", missing |-> {}]
Fail    == [outcome |-> "fail", missing |-> {}]
Warning == [outcome |-> "warning", missing |-> {}]

\* Mutant of Judge: a rule gives up at the first field it misses.
NameOne(needs, seen, verdict) ==
  IF needs \subseteq seen THEN verdict
  ELSE [outcome |-> "unknown", missing |-> {CHOOSE f \in needs \ seen : TRUE}]

\* A rule that is judged only when all its fields are known.
Judge(needs, seen, verdict) ==
  IF needs \subseteq seen THEN verdict ELSE [outcome |-> "unknown", missing |-> needs \ seen]

Fits(holds) == IF holds THEN Pass ELSE Fail
Equal(b, f, g)  == Fits(Spec(b, f) = Spec(b, g))
AtMost(b, f, g) == Fits(Spec(b, f) <= Spec(b, g))
Among(b, f, g)  == Fits(Spec(b, f) \in Spec(b, g))

-----------------------------------------------------------------------------
(* The rules *)

SocketMatch(b, seen) ==
  Judge({"cpu.socket", "motherboard.socket"}, seen, Equal(b, "cpu.socket", "motherboard.socket"))

ChipsetSupport(b, seen) ==
  Judge({"cpu.supported_chipsets", "motherboard.chipset"}, seen,
        Among(b, "motherboard.chipset", "cpu.supported_chipsets"))

MemoryGeneration(b, seen) ==
  Judge({"memory.generation", "motherboard.memory_generation"}, seen,
        Equal(b, "memory.generation", "motherboard.memory_generation"))

MemorySpeed(b, seen) ==
  Judge({"memory.speed_mts", "motherboard.memory_speed_max_mts"}, seen,
        IF Spec(b, "memory.speed_mts") <= Spec(b, "motherboard.memory_speed_max_mts")
        THEN Pass ELSE Warning)

GPUClearance(b, seen) ==
  IF ~b.gpu THEN Pass
  ELSE Judge({"gpu.length_mm", "case.gpu_length_max_mm"}, seen,
             AtMost(b, "gpu.length_mm", "case.gpu_length_max_mm"))

\* Mutant of CoolerClearance: a cooler of unknown type is taken for an air one.
AirUnlessAIO(b, seen) ==
  IF "cooler.type" \in seen /\ Spec(b, "cooler.type") = "aio"
  THEN Judge({"cooler.radiator_size_mm", "case.radiator_sizes_mm"}, seen,
             Among(b, "cooler.radiator_size_mm", "case.radiator_sizes_mm"))
  ELSE Judge({"cooler.height_mm", "case.cooler_height_max_mm"}, seen,
             AtMost(b, "cooler.height_mm", "case.cooler_height_max_mm"))

\* The type decides what is compared.
CoolerClearance(b, seen) ==
  CASE "cooler.type" \notin seen -> Judge({"cooler.type"}, seen, Pass)
    [] "cooler.type" \in seen /\ Spec(b, "cooler.type") = "air" ->
         Judge({"cooler.height_mm", "case.cooler_height_max_mm"}, seen,
               AtMost(b, "cooler.height_mm", "case.cooler_height_max_mm"))
    [] "cooler.type" \in seen /\ Spec(b, "cooler.type") = "aio" ->
         Judge({"cooler.radiator_size_mm", "case.radiator_sizes_mm"}, seen,
               Among(b, "cooler.radiator_size_mm", "case.radiator_sizes_mm"))

SystemOverheadW == 100
PSUHeadroom(b, seen) ==
  LET load == Spec(b, "cpu.tdp_w") + (IF b.gpu THEN Spec(b, "gpu.tdp_w") ELSE 0) + SystemOverheadW
      psu  == Spec(b, "psu.wattage_w") * 100
  IN  Judge({"cpu.tdp_w", "psu.wattage_w"} \cup {f \in {"gpu.tdp_w"} : b.gpu}, seen,
            IF psu >= load * 130 THEN Pass ELSE IF psu >= load * 115 THEN Warning ELSE Fail)

\* A small case, or one that says which supplies it takes, is compared with the
\* supply; what is known already may settle that, and the rest is missing.
PSUBayFit(b, seen) ==
  LET needs == {"psu.form_factor", "case.supported_psu_form_factors",
                "psu.length_mm", "case.psu_length_max_mm"}
      misfit(f, g, holds) == {f, g} \subseteq seen /\ ~holds
  IN  IF \/ misfit("psu.form_factor", "case.supported_psu_form_factors",
                   Spec(b, "psu.form_factor") \in Spec(b, "case.supported_psu_form_factors"))
         \/ misfit("psu.length_mm", "case.psu_length_max_mm",
                   Spec(b, "psu.length_mm") <= Spec(b, "case.psu_length_max_mm"))
      THEN Fail ELSE Judge(needs, seen, Pass)

FormFactorSupport(b, seen) ==
  LET boards == Spec(b, "case.supported_form_factors")
      needs  == {"motherboard.form_factor", "case.supported_form_factors"}
      declared == /\ "case.supported_psu_form_factors" \in seen
                  /\ Spec(b, "case.supported_psu_form_factors") # {}
  IN  IF ~(needs \subseteq seen) THEN Judge(needs, seen, Pass)
      ELSE IF Spec(b, "motherboard.form_factor") \notin boards THEN Fail
      ELSE IF boards # {"itx"} /\ ~declared THEN Pass
      ELSE PSUBayFit(b, seen)

\* The M.2 drives, with their quantities; the others take no slot.
M2SlotCapacity(b, seen) ==
  LET m2 == MapThenSumSet(LAMBDA i : IF b.ssds[i].form = "m2" THEN b.ssds[i].quantity ELSE 0,
                          DOMAIN b.ssds)
  IN  Judge({"ssd.form_factor", "motherboard.m2_slots"}, seen,
            Fits(m2 <= Spec(b, "motherboard.m2_slots")))

\* Connectors are counted by kind; an adapter is no connector.
GPUPowerConnectors(b, seen) ==
  IF ~b.gpu THEN Pass
  ELSE Judge({"gpu.power_connectors", "psu.power_connectors"}, seen,
             Fits(\A kind \in {"pcie_8pin", "pcie_16pin"} :
                    Spec(b, "gpu.power_connectors")[kind] <= Spec(b, "psu.power_connectors")[kind]))

DisplayOutput(b, seen) ==
  IF b.gpu THEN Pass ELSE Judge({"cpu.has_igpu"}, seen, Fits(Spec(b, "cpu.has_igpu")))

CoolerThermalCapacity(b, seen) ==
  Judge({"cooler.cooling_capacity_w", "cpu.tdp_w"}, seen,
        IF Spec(b, "cooler.cooling_capacity_w") >= Spec(b, "cpu.tdp_w") THEN Pass ELSE Warning)

-----------------------------------------------------------------------------
(* The report *)

\* Every rule is judged, whatever the others found.
Validate(b, seen) ==
  [r \in Rules |->
    CASE r = "SOCKET_MATCH"            -> SocketMatch(b, seen)
      [] r = "CHIPSET_SUPPORT"         -> ChipsetSupport(b, seen)
      [] r = "MEMORY_GENERATION"       -> MemoryGeneration(b, seen)
      [] r = "MEMORY_SPEED"            -> MemorySpeed(b, seen)
      [] r = "GPU_CLEARANCE"           -> GPUClearance(b, seen)
      [] r = "COOLER_CLEARANCE"        -> CoolerClearance(b, seen)
      [] r = "PSU_HEADROOM"            -> PSUHeadroom(b, seen)
      [] r = "FORM_FACTOR_SUPPORT"     -> FormFactorSupport(b, seen)
      [] r = "M2_SLOT_CAPACITY"        -> M2SlotCapacity(b, seen)
      [] r = "GPU_POWER_CONNECTORS"    -> GPUPowerConnectors(b, seen)
      [] r = "DISPLAY_OUTPUT"          -> DisplayOutput(b, seen)
      [] r = "COOLER_THERMAL_CAPACITY" -> CoolerThermalCapacity(b, seen)]

OverallStatus(report) ==
  LET outcomes == {report[r].outcome : r \in Rules}
  IN  IF "fail" \in outcomes THEN "fail"
      ELSE IF outcomes = {"pass"} THEN "pass" ELSE "review"

Report == Validate(build, known)

Init ==
  /\ build \in Builds
  /\ \E absent \in Absences : known = Fields \ absent

\* A page or a registration supplies a missing specification.
Supply(f) ==
  /\ f \notin known
  /\ known' = known \cup {f}
  /\ UNCHANGED build

Next == \E f \in Fields : Supply(f)

RuleSpec == Init /\ [][Next]_ruleVars

-----------------------------------------------------------------------------
\* A verdict given on partial facts is final: no rule that passed or failed is
\* judged otherwise when the missing fields arrive, so a report that passed or
\* failed stays so.  The exception is documented (clearance.go, formFactor-
\* SupportRule): a case that does not say which supplies it takes passes, and
\* may fail once it does (engine.go:54).
BayDeclared == "case.supported_psu_form_factors" \in known' \ known
VerdictStands ==
  /\ \A r \in Rules :
       Report[r].outcome # "unknown" =>
         \/ Report'[r] = Report[r]
         \/ r = "FORM_FACTOR_SUPPORT" /\ BayDeclared /\ Report[r] = Pass
  /\ OverallStatus(Report) = "fail" => OverallStatus(Report') = "fail"
  /\ OverallStatus(Report) = "pass" /\ ~BayDeclared => OverallStatus(Report') = "pass"
VerdictsStand == [][VerdictStands]_ruleVars

\* What a report asks for is what it takes: an unknown rule misses some field,
\* and as soon as those it names are known it is judged, or asks further only
\* because the cooler's type or the case's bay decides what to compare.
MissingFieldsSuffice ==
  \A r \in Rules :
    LET check == Report[r]
        then  == Validate(build, known \cup check.missing)[r]
    IN  check.outcome = "unknown" =>
          /\ check.missing # {} /\ check.missing \cap known = {}
          /\ then.outcome = "unknown" =>
               \/ r = "COOLER_CLEARANCE" /\ "cooler.type" \in check.missing
               \/ r = "FORM_FACTOR_SUPPORT"
                  /\ check.missing \cap {"case.supported_form_factors", "motherboard.form_factor"} # {}
=============================================================================
