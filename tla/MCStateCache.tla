----------------------------- MODULE MCStateCache -----------------------------
(* Small instances of StateCache for TLC. *)
EXTENDS StateCache, TLC

Symmetry == Permutations(Workspaces)

=============================================================================
