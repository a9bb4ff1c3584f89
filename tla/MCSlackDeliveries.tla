-------------------------- MODULE MCSlackDeliveries --------------------------
(* Instances of SlackDeliveries for TLC. *)
EXTENDS SlackDeliveries, TLC

Symmetry == Permutations(Rows) \cup Permutations(Workers)
=============================================================================
