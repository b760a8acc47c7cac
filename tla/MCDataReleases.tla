---------------------------- MODULE MCDataReleases ----------------------------
(***************************************************************************)
(* A small history for DataReleases: a directory without a manifest, four  *)
(* releases of parts of which one leaves a part out, one whose files were  *)
(* changed and one that reuses a name; three files of prices, one a        *)
(* revision; two releases of prices that carry prices forward.             *)
(***************************************************************************)
EXTENDS Naturals, FiniteSets, Sequences

None == [none |-> TRUE]

Part(sku, category, specs, state) ==
  [sku |-> sku, category |-> category, specs |-> specs, state |-> state]

A(specs)        == Part("a", "cpu", specs, "")
B(specs, state) == Part("b", "gpu", specs, state)
C(specs)        == Part("c", "gpu", specs, "active_core")

Said(sku, value, raw) ==
  [sku |-> sku, field |-> "specs.tdp", value |-> value, raw |-> raw, status |-> "verified"]

\* A release as the pipeline writes it.
Released(release, previous, schema, parts, evs) ==
  [parts    |-> parts, evidence |-> evs,
   manifest |-> [release |-> release, previous |-> previous, run |-> release, schema |-> schema,
                 decision |-> "auto", sealed |-> TRUE,
                 parts |-> parts, evidence |-> IF schema = 1 THEN {} ELSE {evs},
                 input |-> [parts |-> parts, evidence |-> IF schema = 1 THEN <<>> ELSE evs]]]

First  == Released("r1", "", 1, <<A(1), B(1, "")>>, <<>>)
Second == Released("r2", "r1", 2, <<A(2), B(1, "catalog_only"), C(1)>>, <<Said("a", 65, "x")>>)
Gap    == Released("r3", "r2", 2, <<A(2), C(3)>>, <<Said("a", 65, "x")>>)
Third  == Released("r4", "r2", 2, <<A(2), B(1, "retired"), C(2)>>,
                   <<Said("a", 65, "x"), Said("c", 120, "y")>>)
Again  == Released("r2", "r1", 2, <<A(3), B(1, ""), C(1)>>, <<>>)

Directories ==
  {[First EXCEPT !.manifest = None], First, Second, Gap, Third, Again,
   [First EXCEPT !.parts = <<A(9), B(1, "")>>]}

Old ==
  [catalog  |-> [s \in {"a", "b"} |-> [category |-> IF s = "a" THEN "cpu" ELSE "gpu", specs |-> 1,
                                       state |-> "active_core", active |-> TRUE]],
   evidence |-> {[id |-> [sku |-> "a", field |-> "specs.tdp", value |-> 65, raw |-> "x"],
                  status |-> "verified", release |-> ""]}]

Row(sku, price, observed) == [sku |-> sku, price |-> price, source |-> "shop", observed |-> observed]

Files ==
  {[date |-> 0, rows |-> <<Row("a", 5, 1), Row("b", 7, 1)>>],
   [date |-> 0, rows |-> <<Row("a", 6, 1), Row("b", 7, 1)>>],
   [date |-> 2, rows |-> <<Row("a", 5, 1), Row("b", 8, 2)>>]}

Observed(id, sku, price) ==
  [id |-> id, sku |-> sku, price |-> price, collector |-> "maishou_reviewed", type |-> "listing",
   variant |-> "exact", stock |-> "unknown", basis |-> "unknown"]

New(sku, price, observed, id) ==
  [sku |-> sku, price |-> price, source |-> "shop", observed |-> observed, observation |-> id,
   carried |-> FALSE, from |-> 0]
Carried(sku, price, observed, id, from) ==
  [New(sku, price, observed, id) EXCEPT !.carried = TRUE, !.from = from]

Priced(release, previous, date, policy, obs, sels) ==
  [observations |-> obs, selections |-> sels,
   manifest |-> [release |-> release, previous |-> previous, run |-> release, at |-> date,
                 date |-> date, policy |-> policy, sealed |-> TRUE,
                 input |-> [observations |-> obs, selections |-> sels]]]

Releases ==
  LET one == Priced("p1", "", 2, "manual", <<Observed("o1", "b", 9)>>,
                    <<Carried("a", 5, 1, "", 1), New("b", 9, 2, "o1")>>)
      two == Priced("p2", "p1", 3, "automatic", <<>>,
                    <<Carried("a", 5, 1, "", 1), Carried("b", 9, 2, "o1", 2)>>)
  IN  {one, two, [one EXCEPT !.manifest.policy = "automatic", !.manifest.release = "p3"]}
=============================================================================
