--------------------------- MODULE MCBudgetSolver ---------------------------
(* Instances of the repairs: a catalogue of seven parts, two or three per  *)
(* category, in which pairs clash, prices and specifications are missing,  *)
(* a board has a lower tier or comes from the web, and categories are      *)
(* locked or owned.                                                        *)
EXTENDS BudgetSolver

P(category, price, tier, complete, external) ==
  [category |-> category, price |-> price, tier |-> tier,
   complete |-> complete, external |-> external]

\* The selected parts are 1, 4 and 6.  What is known of the selected board varies,
\* its tier with and without the rest, and whether the other one is a part of the web.
MCBoards ==
  {P("motherboard", price, 1, TRUE, FALSE) : price \in {3, NoPrice}}
  \cup {P("motherboard", price, NoTier, FALSE, FALSE) : price \in {3, NoPrice}}
  \cup {P("motherboard", 3, 2, complete, FALSE) : complete \in BOOLEAN}

MCParts ==
  {<<P("cpu", 6, 2, TRUE, FALSE), P("cpu", 4, 2, TRUE, FALSE), P("cpu", 3, 1, TRUE, FALSE),
     board, P("motherboard", 2, 1, TRUE, external),
     P("ssd", 2, 1, TRUE, FALSE), P("ssd", 1, 1, TRUE, FALSE)>> :
   board \in MCBoards, external \in BOOLEAN}

MCProblems ==
  {[parts |-> parts,
    draft |-> [cpu |-> 1, motherboard |-> 4, ssd |-> 6],
    quantity |-> [cpu |-> 1, motherboard |-> 1, ssd |-> 2],
    clash |-> clash, locked |-> locked, owned |-> owned,
    newPurchase |-> newPurchase, ceiling |-> ceiling] :
     parts \in MCParts,
     clash \in SUBSET {{2, 4}, {1, 5}, {4, 7}},
     locked \in {{}, {"ssd"}},
     owned \in {{}, {"motherboard"}},
     newPurchase \in BOOLEAN,
     ceiling \in {8, 10}}
=============================================================================
