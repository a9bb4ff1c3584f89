---------------------------- MODULE MCPurgeQueue ----------------------------
(* Instances of PurgeQueue for TLC. *)
EXTENDS PurgeQueue, TLC

Symmetry == Permutations(Rows) \cup Permutations(Workers)
=============================================================================
