------------------------- MODULE MCAnalyticsErasure -------------------------
EXTENDS AnalyticsErasure, TLC

CONSTANTS e1, e2, e3, i1, i2, u1, u2

(* One user alone on an installation, and sharing another. *)
MCInstallationOf == [e \in Event |-> IF e = e1 THEN i1 ELSE i2]
MCUserOf == [e \in Event |-> IF e = e3 THEN u2 ELSE u1]

Symm == Permutations(Batch)
=============================================================================
