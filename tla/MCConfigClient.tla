-------------------------- MODULE MCConfigClient --------------------------
EXTENDS ConfigClient, TLC

CONSTANTS ann, nobody

(* Each user has values of its own. *)
Each(u) == u

Symm == Permutations(Tab)
=============================================================================
