---------------------------- MODULE MCBuildHarness ----------------------------
(* Instances of the harness: small catalogues, cheapest first, with clashing *)
(* and unknown specifications, and requests that order, change, lock or own. *)
EXTENDS BuildHarness

CPU(price, vendor, socket, igpu, model) ==
  [slot |-> "cpu", price |-> price, vendor |-> vendor, socket |-> socket, generation |-> "",
   forms |-> {}, igpu |-> igpu, rated |-> FALSE, model |-> model]
Other(slot, price, model) == [CPU(price, "", "", "", model) EXCEPT !.slot = slot]
GPU(price, vendor)   == [Other("gpu", price, "g") EXCEPT !.vendor = vendor]
Board(price, socket) == [Other("motherboard", price, "b") EXCEPT
                           !.socket = socket, !.generation = "ddr5", !.forms = {"atx"}]
Memory(price)        == [Other("memory", price, "m") EXCEPT !.generation = "ddr5"]
SSD(price, model)    == Other("ssd", price, model)

\* The cheapest board's socket is unknown, and a board for the other processor
\* has no price.
Mixed == <<SSD(1, "s1"), Board(1, ""), Memory(1), CPU(2, "amd", "am5", "yes", "c1"), Board(2, "am5"),
           GPU(2, "nvidia"), CPU(3, "intel", "lga", "no", "c2"), Board(NoPrice, "lga")>>
\* One lane of three boards and of three processors, more than are sampled.
Lanes == <<SSD(1, "s1"), Memory(1), CPU(1, "amd", "am5", "no", "c1"), Board(1, "am5"), Board(2, "am5"),
           CPU(2, "amd", "am5", "no", "c2"), GPU(2, "nvidia"), Board(4, "am5"),
           CPU(4, "amd", "am5", "yes", "c3")>>
\* With a second vendor more candidates are protected than a bundle holds.
Crowded == Lanes \o <<CPU(4, "intel", "lga", "no", "c4"), Board(4, "lga")>>
Priced(catalogue, price) ==
  [i \in DOMAIN catalogue |-> [catalogue[i] EXCEPT !.price = IF @ = NoPrice THEN price ELSE @]]

Fields == {"cpu", "gpu", "size", "noise", "look", "notes"}
Basic(budget, flex) ==
  [budget |-> budget, flex |-> flex, use |-> "general", basis |-> "", owned |-> <<>>,
   existing |-> {}, cpu |-> "any", gpu |-> "any", size |-> "any",
   strength |-> [f \in Fields |-> ""], silent |-> FALSE, look |-> FALSE, noteKind |-> "fact"]
NoChange == [intent |-> "none", slot |-> "", hint |-> "any"]
Ask(catalogue, req) ==
  [catalogue |-> catalogue, req |-> req, change |-> NoChange, base |-> NoBase,
   locked |-> {}, hits |-> <<>>]
Pick(c, g, b, m, s) ==
  [x \in Slots |-> CASE x = "cpu" -> Units(c, 1) [] x = "gpu" -> (IF g = 0 THEN {} ELSE Units(g, 1))
                     [] x = "motherboard" -> Units(b, 1) [] x = "memory" -> Units(m, 1)
                     [] x = "ssd" -> Units(s, 1)]
Mandatory(req, brand) == [req EXCEPT !.gpu = brand, !.strength["gpu"] = "must"]

At(price) == Priced(Mixed, price)

\* Three drives and a wish for silence: one semantic hit is marked, one joins.
Quiet == [Ask(At(3) \o <<SSD(4, "s2"), SSD(5, "s3")>>, [Basic(9, 1) EXCEPT !.silent = TRUE])
            EXCEPT !.hits = <<10, 9, 4>>]

NewOrders ==
  {Ask(At(3), Basic(budget, 1)) : budget \in {3, 4, 5, 9}}
  \cup {Ask(At(3), [Basic(4, 1) EXCEPT !.use = "productivity"])}
  \cup {Ask(At(3), [Basic(9, 1) EXCEPT !.use = "gaming"]), Ask(At(3), Mandatory(Basic(9, 1), "nvidia")),
        Ask(At(3), [Basic(9, 1) EXCEPT !.cpu = "amd", !.strength["cpu"] = "prefer"])}
  \cup {Ask(Mixed, Basic(7, 1)), Quiet}
  \cup {Ask(At(3), [Basic(6, 1) EXCEPT !.owned = <<[slot |-> "ssd", model |-> model, quantity |-> 2]>>,
                                       !.basis = basis]) :
          model \in {"s1", "s9"}, basis \in {"", "new_purchase", "whole"}}

\* Requests that no candidate can answer.
Unanswered ==
  {Ask(At(3), [Basic(9, 1) EXCEPT !.strength[field] = "must", !.silent = TRUE, !.noteKind = "unsaid"]) :
     field \in {"noise", "notes"}}
  \cup {Ask(At(3), Mandatory(Basic(9, 1), "amd")), Ask(SubSeq(Mixed, 1, 6), Basic(9, 1)),
        Ask(Tail(Mixed), Basic(9, 1))}

Changing(base, change, locked) ==
  [Ask(Lanes, Basic(8, 1)) EXCEPT !.base = base, !.change = change, !.locked = locked]
ChangeOrders ==
  {Changing(Pick(6, 7, 5, 2, 1), change, locked) :
     locked \in {{}, {"cpu"}, {"gpu", "ssd"}},
     change \in {[intent |-> "adjust_budget", slot |-> "", hint |-> "any"],
                 [intent |-> "swap_part", slot |-> "cpu", hint |-> "amd"]}}
  \cup {[Changing(Pick(6, 7, 5, 2, 1), NoChange, {"gpu"}) EXCEPT !.req = Mandatory(@, "amd")],
        Changing(Pick(6, 7, 5, 2, 4), NoChange, {"ssd"}),
        [Changing(Pick(6, 7, 5, 2, 1), NoChange, {}) EXCEPT !.catalogue = Crowded]}
MCOrders == NewOrders \cup Unanswered \cup ChangeOrders
=============================================================================
