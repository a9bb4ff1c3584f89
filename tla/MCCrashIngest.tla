--------------------------- MODULE MCCrashIngest ---------------------------
(* An instance of CrashIngest for TLC: three crashes of one fingerprint and *)
(* one of another, by the user who is erased, somebody else and nobody.     *)
EXTENDS CrashIngest, TLC

CONSTANTS e1, e2, e3, e4, g1, g2, u1, u2, v1, v2

MCGroupOf   == [e \in Event |-> IF e = e4 THEN g2 ELSE g1]
MCUserOf    == [e \in Event |-> CASE e = e1 -> u1 [] e = e2 -> u1 [] e = e3 -> u2 [] OTHER -> NoUser]
MCReleaseOf == [e \in Event |-> IF e \in {e2, e4} THEN v2 ELSE v1]
Symm        == Permutations(Request)
=============================================================================
