---------------------------- MODULE MCLifecycle ----------------------------
(***************************************************************************)
(* Three lives: one to go, one to come while it goes, and one to find what *)
(* they left. Peers only look: one sees whatever any number of them would. *)
(***************************************************************************)
EXTENDS Lifecycle, TLC

Symmetry == Permutations(Lives)
=============================================================================
