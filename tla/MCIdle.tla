-------------------------------- MODULE MCIdle --------------------------------
(* Small instances of Idle for TLC. *)
EXTENDS Idle, TLC

Symmetry == Permutations(Clients)

=============================================================================
