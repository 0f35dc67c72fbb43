----------------------------- MODULE MCBroadcast -----------------------------
(* Small instances of Broadcast for TLC. *)
EXTENDS Broadcast, TLC

Symmetry == Permutations(Sessions) \cup Permutations(Fds)

=============================================================================
