------------------------- MODULE MCAnalyticsIngest -------------------------
EXTENDS AnalyticsIngest, TLC

CONSTANTS e1, e2, e3, i1, i2, b1, b2, b3

(* Two events of one installation and one of another. *)
MCInstallationOf == [e \in Event |-> IF e = e3 THEN i2 ELSE i1]
MCEff == [e \in Event |-> CASE e = e1 -> 1 [] e = e2 -> 2 [] e = e3 -> 3]
MCLockOrder == <<i1, i2>>
MCOffers == {{e1, e3}, {e2, e3}}
=============================================================================
