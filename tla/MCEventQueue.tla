--------------------------- MODULE MCEventQueue ---------------------------
EXTENDS EventQueue, TLC

CONSTANTS t1, t2

(* Event 1 is tracked in t1, event 2 in t2. *)
OneEach == [e \in Event |-> IF e = 1 THEN {t1} ELSE {t2}]
=============================================================================
