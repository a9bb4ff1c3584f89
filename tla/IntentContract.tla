--------------------------- MODULE IntentContract ---------------------------
(***************************************************************************)
(* What a submission intent promises a client that may retry, duplicate    *)
(* and reorder its finalizations: the retry contract the submit route      *)
(* publishes. An intent is decided once. The payload that decided it is    *)
(* answered with the same submission for as long as that submission lives  *)
(* and with "deleted" ever after, any other payload with "conflict", and   *)
(* no answer names a submission other than the one that was accepted.      *)
(***************************************************************************)
CONSTANTS Intents, Payloads, Submissions, None

VARIABLES
    outcome,  \* what became of each intent
    answer    \* what this step answered, if it answered

Open(o)    == o.state = "open"
Decided(o) == o.state \in {"stored", "deleted"}

Answer(verdict, i, p, s) ==
    answer' = [verdict |-> verdict, intent |-> i, payload |-> p, submission |-> s]
Silent ==
    answer' = [verdict |-> None, intent |-> None, payload |-> None, submission |-> None]

Init ==
    /\ outcome = [i \in Intents |->
                     [state |-> "unissued", payload |-> None, submission |-> None]]
    /\ answer = [verdict |-> None, intent |-> None, payload |-> None, submission |-> None]

Issue(i) ==
    /\ outcome[i].state = "unissued"
    /\ outcome' = [outcome EXCEPT ![i].state = "open"]
    /\ Silent

\* The one submission of the intent, under an identifier no intent has had.
Accept(i, p, s) ==
    /\ Open(outcome[i])
    /\ \A j \in Intents : outcome[j].submission # s
    /\ outcome' = [outcome EXCEPT ![i] =
                      [state |-> "stored", payload |-> p, submission |-> s]]
    /\ Answer("accepted", i, p, s)

Repeat(i, p) ==
    /\ Decided(outcome[i])
    /\ UNCHANGED outcome
    /\ CASE outcome[i].payload # p          -> Answer("conflict", i, p, None)
         [] outcome[i].payload = p /\ outcome[i].state = "deleted"
                                            -> Answer("deleted", i, p, None)
         [] OTHER                           -> Answer("duplicate", i, p, outcome[i].submission)

\* Expired, invalid or unable to be stored: nothing is decided.
Refuse(i, p) ==
    /\ outcome[i].state \in {"open", "dropped"}
    /\ UNCHANGED outcome
    /\ Answer("refused", i, p, None)

Delete(i) ==
    /\ outcome[i].state = "stored"
    /\ outcome' = [outcome EXCEPT ![i].state = "deleted"]
    /\ Silent

\* The database goes, and its intents with it.
Drop ==
    /\ outcome' = [i \in Intents |-> [outcome[i] EXCEPT !.state = "dropped"]]
    /\ Silent

BeSilent == Silent /\ UNCHANGED outcome

Next ==
    \/ \E i \in Intents : Issue(i) \/ Delete(i)
    \/ \E i \in Intents, p \in Payloads :
          Repeat(i, p) \/ Refuse(i, p) \/ \E s \in Submissions : Accept(i, p, s)
    \/ Drop
    \/ BeSilent

Spec == Init /\ [][Next]_<<outcome, answer>>
=============================================================================
