---------------------------- MODULE MCRaftRestart ----------------------------
(* Instances of RaftRestart for TLC. *)
EXTENDS RaftRestart, TLC

Symmetry == Permutations(Server)

=============================================================================
