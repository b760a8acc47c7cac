--------------------------- MODULE MCRunLifecycle ---------------------------
(* Instances of RunLifecycle for TLC; the calls of a client are alike. *)
EXTENDS RunLifecycle, TLC

Symmetry == Permutations(Calls)
=============================================================================
