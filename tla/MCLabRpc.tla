------------------------------ MODULE MCLabRpc ------------------------------
(* Instances of LabRpc for TLC. *)
EXTENDS LabRpc, TLC

Symmetry == Permutations(Call) \cup Permutations(End)

=============================================================================
