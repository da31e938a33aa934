--------------------------- MODULE MCRaftElection ---------------------------
(* Instances of RaftElection for TLC. *)
EXTENDS RaftElection, TLC

Symmetry == Permutations(Server)

=============================================================================
