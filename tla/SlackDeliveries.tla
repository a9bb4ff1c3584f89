-------------------------- MODULE SlackDeliveries --------------------------
(***************************************************************************)
(* The Slack worker of services/notifications.ts: notification_deliveries, *)
(* claimed in leased batches by one worker per API process and posted one  *)
(* message after the other. A message cannot be unsent, so here the lease  *)
(* must outlast the batch, and time is part of the model: Tick lets every  *)
(* running timer lose one unit. With the constants of the source a batch   *)
(* of ten that times out throughout takes 10 * 5 s + 9 * 1.1 s = 59.9 s of *)
(* the 60 s lease, before any database statement. QueryTime is the time    *)
(* one such statement may take.                                            *)
(***************************************************************************)
EXTENDS Naturals, FiniteSets

CONSTANTS
    Rows,         \* deliveries, each of its own submission
    Workers,      \* API processes that run the worker
    BatchSize, MaxAttempts,
    Lease, SendTimeout, Pace, QueryTime,  \* durations, in ticks
    Backoff,      \* longest wait after a failure, in ticks
    MaxDeaths,    \* bound: batches abandoned while holding one row
    None

ASSUME TimesAssumption ==
    /\ {Lease, SendTimeout, Pace, QueryTime, Backoff, MaxDeaths} \subseteq Nat
    /\ {BatchSize, MaxAttempts, Backoff} \subseteq Nat \ {0}
ASSUME RowsAssumption == IsFiniteSet(Rows) /\ None \notin Rows

Verdicts == {"ok", "cut", "retry", "throttled", "permanent", "nothing"}
ASSUME NoneAssumption == None \notin Verdicts

VARIABLES
    enabled,       \* slack_notifications: switched on, with a webhook
    status,        \* "absent" before, "removed" after the row's life
    attempts,
    due,           \* ticks until next_attempt_at
    worker,        \* where each worker's batch is
    posted,        \* history: how often Slack put the message in its channel
    unsure,        \* history: of those, how often the worker could not know
    tried,         \* history: sends that failed and may be tried again
    abandoned      \* history: batches lost while they held the row

vars == <<enabled, status, attempts, due, worker, posted, unsure, tried,
          abandoned>>
history == <<posted, unsure, tried, abandoned>>

Idle == [step |-> "idle", row |-> None, rest |-> {}, timer |-> 0,
         verdict |-> None, claimed |-> [r \in Rows |-> 0]]
MostAttempts == MaxAttempts + MaxDeaths

Batches ==
    [step : {"idle", "pause", "render", "send", "mark"}, row : Rows \cup {None},
     rest : SUBSET Rows, timer : Nat, verdict : Verdicts \cup {None},
     claimed : [Rows -> 0 .. MostAttempts]]

\* Rows, leases, and what each worker is doing with its batch.
TypeOK ==
    /\ enabled \in BOOLEAN
    /\ status \in [Rows -> {"absent", "pending", "sent", "failed", "removed"}]
    /\ attempts \in [Rows -> 0 .. MostAttempts]
    /\ due \in [Rows -> Nat] /\ \A r \in Rows : due[r] <= Lease \/ due[r] <= Backoff
    /\ worker \in [Workers -> Batches]
    /\ {posted, unsure, tried} \subseteq [Rows -> Nat]
    /\ abandoned \in [Rows -> 0 .. MaxDeaths]

Init ==
    /\ enabled = TRUE
    /\ status = [r \in Rows |-> "absent"]
    /\ attempts = [r \in Rows |-> 0]
    /\ due = [r \in Rows |-> 0]
    /\ worker = [w \in Workers |-> Idle]
    /\ posted = [r \in Rows |-> 0]
    /\ unsure = [r \in Rows |-> 0]
    /\ tried = [r \in Rows |-> 0]
    /\ abandoned = [r \in Rows |-> 0]

Step(w, step)  == worker[w].step = step
HeldBy(w)      == worker[w].rest \cup ({worker[w].row} \ {None})
Due            == {r \in Rows : status[r] = "pending" /\ due[r] = 0}
OneMore(f, S)  == [r \in Rows |-> IF r \in S THEN f[r] + 1 ELSE f[r]]

-----------------------------------------------------------------------------
\* The row a committed finalization leaves, when notifications are on.
EnqueueNotification(r) ==
    /\ enabled
    /\ status[r] = "absent"
    /\ status' = [status EXCEPT ![r] = "pending"]
    /\ UNCHANGED <<enabled, attempts, due, worker, history>>

SwitchNotifications ==
    /\ enabled' = ~enabled
    /\ UNCHANGED <<status, attempts, due, worker, history>>

\* A deleted submission takes its delivery along. That of a settled delivery
\* goes too; nothing reads it again, so it is not followed any further.
DeleteSubmission(r) ==
    /\ status[r] = "pending"
    /\ status' = [status EXCEPT ![r] = "removed"]
    /\ UNCHANGED <<enabled, attempts, due, worker, history>>

NoLease == 0  \* mutant: next_attempt_at is left alone
Leased  == Lease

\* One statement takes as many due rows as a batch holds, counts the attempt
\* and leases them.
Claim(w, S) ==
    /\ Step(w, "idle")
    /\ S \subseteq Due /\ S # {}
    /\ Cardinality(S) = BatchSize \/ (S = Due /\ Cardinality(S) < BatchSize)
    /\ attempts' = OneMore(attempts, S)
    /\ due' = [r \in Rows |-> IF r \in S THEN Leased ELSE due[r]]
    /\ \E r \in S : worker' = [worker EXCEPT ![w] =
          [Idle EXCEPT !.step = "render", !.row = r, !.rest = S \ {r},
                       !.timer = QueryTime, !.claimed = attempts']]
    /\ UNCHANGED <<enabled, status, history>>

\* The message is built from the submission and the settings as they are now.
Render(w) ==
    /\ Step(w, "render")
    /\ worker' = [worker EXCEPT ![w] =
          IF enabled /\ status[worker[w].row] # "removed"
          THEN [@ EXCEPT !.step = "send", !.timer = SendTimeout]
          ELSE [@ EXCEPT !.step = "mark", !.timer = QueryTime, !.verdict = "nothing"]]
    /\ UNCHANGED <<enabled, status, attempts, due, history>>

Verdict(w, verdict) ==
    /\ Step(w, "send")
    /\ worker' = [worker EXCEPT ![w].step = "mark", ![w].timer = QueryTime,
                                ![w].verdict = verdict]
    /\ UNCHANGED <<enabled, status, attempts, due, abandoned>>

\* 200 and "ok".
SlackAccepts(w) ==
    /\ Verdict(w, "ok")
    /\ posted' = OneMore(posted, {worker[w].row})
    /\ UNCHANGED <<unsure, tried>>

\* 200, and the timeout of the request cuts the body off: empty_response.
SlackAcceptsUnread(w) ==
    /\ Verdict(w, "cut")
    /\ posted' = OneMore(posted, {worker[w].row})
    /\ UNCHANGED <<unsure, tried>>

\* An error of Slack's: one that lasts, a 5xx, or 429.
SlackRefuses(w, verdict) ==
    /\ verdict \in {"permanent", "retry", "throttled"}
    /\ Verdict(w, verdict)
    /\ tried' = IF verdict = "retry" THEN OneMore(tried, {worker[w].row}) ELSE tried
    /\ UNCHANGED <<posted, unsure>>

\* No answer: the connection fails or the request times out, and Slack has
\* taken the message or not.
SlackSilent(w, taken) ==
    /\ Verdict(w, "retry")
    /\ LET r == worker[w].row IN
       /\ tried' = OneMore(tried, {r})
       /\ posted' = IF taken THEN OneMore(posted, {r}) ELSE posted
       /\ unsure' = IF taken THEN OneMore(unsure, {r}) ELSE unsure

GivesUpLate(n) == n > MaxAttempts  \* mutant: > for >=
GivesUp(n) == n >= MaxAttempts
GivesBackNone(n) == n  \* mutant: a throttled send spends its attempt
GivesBack(n)    == IF n = 0 THEN 0 ELSE n - 1

\* The settings page is told how the row went, unless there was nothing to announce;
\* then comes the next row of the batch, after the pause.
NextRow(w) ==
    \E told \in 0 .. QueryTime : worker' = [worker EXCEPT ![w] =
        IF @.rest = {} THEN Idle
        ELSE [@ EXCEPT !.step = "pause", !.row = None, !.timer = told + Pace, !.verdict = None]]

\* What becomes of the delivery: an update by id, which finds nothing when the row
\* has gone meanwhile.
Mark(w) ==
    /\ Step(w, "mark")
    /\ LET r       == worker[w].row
           n       == worker[w].claimed[r]
           verdict == worker[w].verdict
           gone    == status[r] = "removed"
           becomes(s) == status' = [status EXCEPT ![r] = IF gone THEN @ ELSE s]
           waits(S)   == \E d \in S : due' = [due EXCEPT ![r] = IF gone THEN @ ELSE d]
       IN  \/ /\ verdict = "nothing"
              /\ becomes("removed")
              /\ UNCHANGED <<attempts, due>>
           \/ /\ verdict = "ok"
              /\ becomes("sent")
              /\ UNCHANGED <<attempts, due>>
           \/ /\ verdict \in {"permanent", "cut"} \/ (verdict \in {"retry", "throttled"} /\ GivesUp(n))
              /\ becomes("failed")
              /\ UNCHANGED <<attempts, due>>
           \/ /\ verdict = "throttled" /\ ~GivesUp(n)
              /\ attempts' = [attempts EXCEPT ![r] = IF gone THEN @ ELSE GivesBack(@)]
              /\ waits(1 .. Backoff)
              /\ UNCHANGED status
           \/ /\ verdict = "retry" /\ ~GivesUp(n)
              /\ waits(1 .. Backoff)
              /\ UNCHANGED <<status, attempts>>
    /\ NextRow(w)
    /\ UNCHANGED <<enabled, history>>

EndPause(w) ==
    /\ Step(w, "pause")
    /\ worker[w].timer = 0
    /\ \E r \in worker[w].rest : worker' = [worker EXCEPT
          ![w].step = "render", ![w].row = r, ![w].rest = @ \ {r}, ![w].timer = QueryTime]
    /\ UNCHANGED <<enabled, status, attempts, due, history>>

\* The process dies, or a statement throws: the rows left in the batch stay
\* leased, with the attempt spent. A message under way may still arrive, and
\* one Slack has accepted is not recorded.
Abandon(w) ==
    /\ ~Step(w, "idle")
    /\ \A r \in HeldBy(w) : abandoned[r] < MaxDeaths
    /\ LET r == worker[w].row IN
       \/ /\ Step(w, "send")
          /\ posted' = OneMore(posted, {r})
          /\ unsure' = OneMore(unsure, {r})
       \/ /\ unsure' = IF Step(w, "mark") /\ worker[w].verdict \in {"ok", "cut"}
                       THEN OneMore(unsure, {r}) ELSE unsure
          /\ UNCHANGED posted
    /\ abandoned' = OneMore(abandoned, HeldBy(w))
    /\ worker' = [worker EXCEPT ![w] = Idle]
    /\ UNCHANGED <<enabled, status, attempts, due, tried>>

StandsStill(d) == d  \* mutant: next_attempt_at is never reached
Lapses(d)      == IF d = 0 THEN 0 ELSE d - 1

\* A unit of time passes. Nothing overstays its timer.
Tick ==
    /\ \A w \in Workers : ~Step(w, "idle") => worker[w].timer > 0
    /\ due' = [r \in Rows |-> Lapses(due[r])]
    /\ worker' = [w \in Workers |->
          IF Step(w, "idle") THEN worker[w] ELSE [worker[w] EXCEPT !.timer = @ - 1]]
    /\ UNCHANGED <<enabled, status, attempts, history>>

Deliver(w) ==
    \/ \E S \in SUBSET Rows : Claim(w, S)
    \/ Render(w)
    \/ SlackAccepts(w)
    \/ SlackAcceptsUnread(w)
    \/ \E verdict \in Verdicts : SlackRefuses(w, verdict)
    \/ \E taken \in BOOLEAN : SlackSilent(w, taken)
    \/ Mark(w)
    \/ EndPause(w)

Next ==
    \/ \E w \in Workers : Deliver(w) \/ Abandon(w)
    \/ \E r \in Rows : EnqueueNotification(r) \/ DeleteSubmission(r)
    \/ SwitchNotifications
    \/ Tick

Spec == Init /\ [][Next]_vars

\* Timers fire, the interval polls, and Slack does not throttle a message for
\* ever: a send often begun often ends otherwise than with a 429.
Unthrottled(w) ==
    \/ SlackAccepts(w) \/ SlackAcceptsUnread(w)
    \/ \E verdict \in {"permanent", "retry"} : SlackRefuses(w, verdict)
    \/ \E taken \in BOOLEAN : SlackSilent(w, taken)
FairSpec ==
    /\ Spec
    /\ WF_vars(Tick)
    /\ \A w \in Workers : WF_vars(Deliver(w)) /\ SF_vars(Unthrottled(w))

-----------------------------------------------------------------------------
\* A message reaches the channel twice only when the worker could not know it
\* had arrived: a lost answer, or a death before the mark. Two workers, leases,
\* backoffs and throttling add no duplicate (DECISIONS 21.1).
DuplicatesExplained == \A r \in Rows : posted[r] <= 1 + unsure[r]

\* Two workers cannot take the same delivery (DECISIONS 21.1): a claim leases
\* the row for as long as its batch can last.
OneHolder == \A r \in Rows, v, w \in Workers : r \in HeldBy(v) \cap HeldBy(w) => v = w

\* A delivery that failed for a reason retrying might cure was tried
\* MAX_ATTEMPTS times, short only of the batches lost with it: throttled sends
\* and claims by others cost it nothing.
GivenUpWithCause ==
    \A w \in Workers :
        /\ Step(w, "mark")
        /\ worker[w].verdict = "retry"
        /\ GivesUp(worker[w].claimed[worker[w].row])
        => tried[worker[w].row] + abandoned[worker[w].row] >= MaxAttempts

-----------------------------------------------------------------------------
\* What makes them so. The longest a batch lasts, until its last row is marked, is
\* less than a lease.
RowTime  == SendTimeout + 2 * QueryTime
Later(n) == n * (QueryTime + Pace + RowTime)
LeaseOutlasts == Later(BatchSize - 1) + RowTime < Lease

\* What a batch may still take, with n rows to come.
Rest(w, n) == CASE Step(w, "render") -> worker[w].timer + SendTimeout + QueryTime + Later(n)
                [] Step(w, "send")   -> worker[w].timer + QueryTime + Later(n)
                [] Step(w, "mark")   -> worker[w].timer + Later(n)
                [] Step(w, "pause")  -> worker[w].timer + RowTime + Later(n - 1)
                [] OTHER             -> 0
TimeLeft(w) == Rest(w, Cardinality(worker[w].rest))

\* A worker at a row has it apart from those to come; a verdict is there to be marked.
BatchesFit == \A w \in Workers :
    /\ worker[w].row = None <=> worker[w].step \in {"idle", "pause"}
    /\ worker[w].row \notin worker[w].rest
    /\ Step(w, "idle") => worker[w].rest = {}
    /\ Step(w, "pause") => worker[w].rest # {}
    /\ worker[w].verdict = None <=> ~Step(w, "mark")

\* A row in a batch is in no other, not settled by anybody, its count the one
\* claimed, and its lease outlasts the batch.
HeldAreLeased ==
    /\ OneHolder
    /\ \A w \in Workers : \A r \in HeldBy(w) :
          /\ status[r] \in {"pending", "removed"}
          /\ worker[w].claimed[r] = attempts[r]
          /\ due[r] > TimeLeft(w)

Held(r) == \E w \in Workers : r \in HeldBy(w)
At(w, step, r) == Step(w, step) /\ worker[w].row = r
Accepted(w, r) == At(w, "mark", r) /\ worker[w].verdict \in {"ok", "cut"}

\* A row that is or may be sent was posted no more often than a worker could not tell.
SendsExplained ==
    /\ DuplicatesExplained
    /\ \A r \in Rows :
          /\ status[r] \in {"absent", "pending"} \/ \E w \in Workers : At(w, "send", r)
          /\ ~ \E w \in Workers : Accepted(w, r)
          => posted[r] <= unsure[r]

\* An attempt counted is a failure that may be tried again, a batch lost, or the
\* claim the row is in; and a row that can be claimed has an attempt left.
AttemptsExplained == \A r \in Rows :
    /\ status[r] = "absent" => attempts[r] = 0
    /\ status[r] = "pending" /\ ~Held(r) =>
          attempts[r] <= tried[r] + abandoned[r] /\ attempts[r] < MaxAttempts + abandoned[r]
    /\ \A w \in Workers : r \in HeldBy(w) =>
          /\ 0 < attempts[r] /\ attempts[r] <= MaxAttempts + abandoned[r]
          /\ attempts[r] <= tried[r] + abandoned[r] +
                (IF At(w, "mark", r) /\ worker[w].verdict = "retry" THEN 0 ELSE 1)

IndInv == TypeOK /\ BatchesFit /\ HeldAreLeased /\ SendsExplained /\ AttemptsExplained

\* Every queued delivery is settled, whatever dies.
Settles == \A r \in Rows : status[r] = "pending" ~> status[r] # "pending"

StateOf(r) ==
    CASE status[r] = "pending" -> "queued"
      [] status[r] = "sent"    -> "done"
      [] status[r] = "removed" -> "dropped"
      [] OTHER                 -> status[r]
\* The leased, paced and throttled queue implements the abstract one.
Queue == INSTANCE WorkQueue WITH
            state <- [r \in Rows |-> StateOf(r)],
            trying <- UNION {HeldBy(w) : w \in Workers}
\* See WorkQueue: settled once, never reopened, one worker at a time.
ImplementsQueue == Queue!Spec
=============================================================================
