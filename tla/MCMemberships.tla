--------------------------- MODULE MCMemberships ---------------------------
(* Memberships for TLC: people, invitations and requests are interchangeable. *)
EXTENDS Memberships, TLC

Symmetry == Permutations(People) \cup Permutations(Invitations) \cup Permutations(Calls)
=============================================================================
