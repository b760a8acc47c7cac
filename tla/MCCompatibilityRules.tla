------------------------ MODULE MCCompatibilityRules ------------------------
(* Builds at the boundaries of the rules: a base build on which every rule *)
(* holds with nothing to spare, and builds that differ from it in one or   *)
(* two values.                                                             *)
EXTENDS CompatibilityRules

Plugs(eight, sixteen) == [kind \in {"pcie_8pin", "pcie_16pin"} |->
                            IF kind = "pcie_8pin" THEN eight ELSE sixteen]

BaseSpec(f) ==
  CASE f \in {"cpu.socket", "motherboard.socket"} -> "am5"
    [] f = "cpu.supported_chipsets" -> {"b650"}
    [] f = "motherboard.chipset" -> "b650"
    [] f \in {"memory.generation", "motherboard.memory_generation"} -> "ddr5"
    [] f \in {"memory.speed_mts", "motherboard.memory_speed_max_mts"} -> 6000
    [] f \in {"motherboard.form_factor", "psu.form_factor"} ->
         IF f = "psu.form_factor" THEN "sfx" ELSE "itx"
    [] f = "motherboard.m2_slots" -> 2
    [] f \in {"gpu.power_connectors", "psu.power_connectors"} -> Plugs(1, 1)
    [] f \in {"cpu.tdp_w", "gpu.tdp_w", "cooler.cooling_capacity_w"} -> 100
    [] f = "psu.wattage_w" -> 390
    [] f = "cpu.has_igpu" -> TRUE
    [] f = "case.radiator_sizes_mm" -> {240}
    [] f = "cooler.radiator_size_mm" -> 240
    [] f = "case.supported_form_factors" -> {"itx", "matx"}
    [] f = "case.supported_psu_form_factors" -> {"sfx"}
    [] f = "cooler.type" -> "air"
    [] f = "ssd.form_factor" -> "per drive"
    [] OTHER -> 150

Base == [gpu |-> TRUE, spec |-> [f \in Fields |-> BaseSpec(f)],
         ssds |-> <<[form |-> "m2", quantity |-> 2], [form |-> "sata_2_5", quantity |-> 1]>>]

\* One value that differs.
Other ==
  {<<"cpu.socket", "am4">>, <<"cpu.supported_chipsets", {}>>, <<"memory.generation", "ddr4">>,
   <<"memory.speed_mts", 6001>>, <<"gpu.length_mm", 151>>, <<"cooler.height_mm", 151>>,
   <<"cooler.type", "aio">>, <<"cooler.radiator_size_mm", 360>>,
   <<"psu.wattage_w", 389>>, <<"psu.wattage_w", 345>>, <<"psu.wattage_w", 344>>,
   <<"case.supported_form_factors", {"itx"}>>, <<"case.supported_form_factors", {"atx"}>>,
   <<"case.supported_psu_form_factors", {}>>, <<"case.supported_psu_form_factors", {"atx"}>>,
   <<"psu.length_mm", 151>>, <<"motherboard.m2_slots", 1>>,
   <<"psu.power_connectors", Plugs(2, 0)>>, <<"gpu.power_connectors", Plugs(0, 0)>>,
   <<"cpu.has_igpu", FALSE>>, <<"cooler.cooling_capacity_w", 99>>}

Changed(b, o) == [b EXCEPT !.spec[o[1]] = o[2]]

MCBuilds ==
  {Base} \cup {Changed(Base, o) : o \in Other}
         \cup {Changed([Base EXCEPT !.gpu = FALSE], o) : o \in Other}
         \cup {Changed(Changed(Base, <<"cooler.type", "aio">>), o) : o \in Other}
         \cup {Changed(Changed(Base, <<"case.supported_form_factors", {"itx"}>>), o) : o \in Other}

\* The fields that one rule, or a few that share a field, compare; those that
\* are known grow from none of them to all.
MCAbsences ==
    {{"cpu.socket", "motherboard.socket", "cpu.supported_chipsets", "motherboard.chipset"},
     {"memory.generation", "motherboard.memory_generation",
      "memory.speed_mts", "motherboard.memory_speed_max_mts"},
     {"gpu.length_mm", "case.gpu_length_max_mm", "gpu.power_connectors", "psu.power_connectors"},
     {"cooler.type", "cooler.height_mm", "case.cooler_height_max_mm",
      "cooler.radiator_size_mm", "case.radiator_sizes_mm"},
     {"cpu.tdp_w", "gpu.tdp_w", "psu.wattage_w", "cooler.cooling_capacity_w", "cpu.has_igpu"},
     {"motherboard.form_factor", "case.supported_form_factors", "psu.form_factor",
      "case.supported_psu_form_factors", "psu.length_mm", "case.psu_length_max_mm"},
     {"ssd.form_factor", "motherboard.m2_slots"}}
=============================================================================
