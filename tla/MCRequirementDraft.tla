------------------------- MODULE MCRequirementDraft -------------------------
(* Instances of RequirementDraft for TLC; PATCH calls are alike, and so are *)
(* the keys of edits.                                                       *)
EXTENDS RequirementDraft, TLC

Symmetry == Permutations(Posts) \cup Permutations(Edits)
=============================================================================
