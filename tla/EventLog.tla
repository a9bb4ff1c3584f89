------------------------------ MODULE EventLog ------------------------------
(***************************************************************************)
(* What ingest promises about the event store: an event is stored once,    *)
(* under one received time, and no client is told "accepted" or            *)
(* "duplicate" for an event that is not stored with all it derives.        *)
(***************************************************************************)
EXTENDS Naturals

CONSTANT Event

VARIABLES
    log,      \* event -> the received time it is stored under, 0 while it is not
    answered  \* the events a client was told are stored

vars == <<log, answered>>

Init == log = [e \in Event |-> 0] /\ answered = {}

(* One insert stores any number of events, none of them stored before. *)
Store == /\ log' # log
         /\ \A e \in Event : log[e] # 0 => log'[e] = log[e]
         /\ UNCHANGED answered

(* A client is answered for a batch of events that are all stored. *)
Answer == /\ \E es \in SUBSET {e \in Event : log[e] # 0} : answered' = answered \cup es
          /\ UNCHANGED log

Next == Store \/ Answer

Spec == Init /\ [][Next]_vars
=============================================================================
