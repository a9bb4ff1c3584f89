----------------------------- MODULE WorkQueue -----------------------------
(***************************************************************************)
(* What both background queues of the API promise of a row: once queued it *)
(* is tried until it is settled, and it is settled once. A settled row is  *)
(* never tried again, never reopened, and never settled otherwise.         *)
(***************************************************************************)
CONSTANT Rows

VARIABLES
    state,  \* "absent", "queued", or how the row was settled
    trying  \* rows whose work is being attempted

Settled == {"done", "failed", "dropped"}

Init == state = [r \in Rows |-> "absent"] /\ trying = {}

Enqueue(r) ==
    /\ state[r] = "absent"
    /\ state' = [state EXCEPT ![r] = "queued"]
    /\ UNCHANGED trying

\* A worker takes rows nobody is working on, and works on queued rows only.
Take(S) ==
    /\ S \subseteq {r \in Rows : state[r] = "queued"} \ trying
    /\ trying' = trying \cup S
    /\ UNCHANGED state

\* It leaves them, each settled or still queued.
Leave(S) ==
    /\ S \subseteq trying
    /\ trying' = trying \ S
    /\ \E how \in [S -> Settled \cup {"queued"}] :
          state' = [r \in Rows |-> IF r \in S THEN how[r] ELSE state[r]]

\* The queue's owner goes and takes the row along, tried or not.
Withdraw(r) ==
    /\ state[r] = "queued"
    /\ state' = [state EXCEPT ![r] = "dropped"]
    /\ UNCHANGED trying

Next ==
    \/ \E r \in Rows : Enqueue(r) \/ Withdraw(r)
    \/ \E S \in SUBSET Rows : Take(S) \/ Leave(S)

Spec == Init /\ [][Next]_<<state, trying>>
=============================================================================
