----------------------------- MODULE PurgeQueue -----------------------------
(***************************************************************************)
(* The purge worker of services/purge.ts: storage_purge_queue, drained in  *)
(* leased batches by one worker per API process. A batch is claimed in one *)
(* statement, its objects are deleted in one request, and the rows are     *)
(* then removed, or put back one by one with a backoff.                    *)
(*                                                                         *)
(* next_attempt_at is kept as what it means to a claim: a row is due, or   *)
(* waits out a lease or a backoff that ends some time later. LeaseCovers   *)
(* says that a batch ends within its lease of LEASE_SECONDS; the deletion  *)
(* request has no timeout of its own, so this is an assumption. KeyErrors  *)
(* says that the store may answer the request with success and an Errors   *)
(* list for some of its keys, which S3 does and Storage.deleteMany does    *)
(* not read.                                                               *)
(***************************************************************************)
EXTENDS Naturals, FiniteSets

CONSTANTS
    Rows,         \* ids of storage_purge_queue, one object key each
    Workers,      \* API processes that run the worker
    BatchSize, MaxAttempts,
    MaxDeaths,    \* bound: deaths counted per row, none happens beyond it
    LeaseCovers, KeyErrors

ASSUME BoundsAssumption ==
    BatchSize \in Nat \ {0} /\ MaxAttempts \in Nat \ {0} /\ MaxDeaths \in Nat
ASSUME ModesAssumption == LeaseCovers \in BOOLEAN /\ KeyErrors \in BOOLEAN

VARIABLES
    status,    \* "absent" before, "removed" after the row's life
    attempts,
    wait,      \* "due", "leased" or "backoff"
    bytes,     \* the object exists
    worker,    \* each worker's step, the rows it has not settled, their claims
    deaths     \* history: workers that died holding the row

vars == <<status, attempts, wait, bytes, worker, deaths>>

Idle == [step |-> "idle", batch |-> {}, claimed |-> [r \in Rows |-> 0]]
Counts == 0 .. MaxAttempts + MaxDeaths

\* Rows, leases and the batches of the workers; attempts never beyond the bound.
TypeOK ==
    /\ status \in [Rows -> {"absent", "pending", "failed", "removed"}]
    /\ attempts \in [Rows -> Counts]
    /\ wait \in [Rows -> {"due", "leased", "backoff"}]
    /\ bytes \in [Rows -> BOOLEAN]
    /\ worker \in [Workers -> [step : {"idle", "delete", "forget", "record"},
                               batch : SUBSET Rows, claimed : [Rows -> Counts]]]
    /\ deaths \in [Rows -> 0 .. MaxDeaths]

Init ==
    /\ status = [r \in Rows |-> "absent"]
    /\ attempts = [r \in Rows |-> 0]
    /\ wait = [r \in Rows |-> "due"]
    /\ bytes = [r \in Rows |-> TRUE]
    /\ worker = [w \in Workers |-> Idle]
    /\ deaths = [r \in Rows |-> 0]

Due == {r \in Rows : status[r] = "pending" /\ wait[r] = "due"}
Held(r) == \E w \in Workers : r \in worker[w].batch
At(w, step) == worker[w].step = step
OneMore(f, S) == [r \in Rows |-> IF r \in S THEN f[r] + 1 ELSE f[r]]
Put(f, S, v) == [r \in Rows |-> IF r \in S THEN v ELSE f[r]]

\* Called in the transaction that deletes the records the object belongs to.
EnqueuePurge(r) ==
    /\ status[r] = "absent"
    /\ status' = [status EXCEPT ![r] = "pending"]
    /\ UNCHANGED <<attempts, wait, bytes, worker, deaths>>

NoLease == "due"  \* mutant: next_attempt_at is left alone
Leased  == "leased"

\* One statement takes as many due rows as a batch holds, counts the attempt
\* and leases them.
ClaimBatch(w, S) ==
    /\ At(w, "idle")
    /\ S \subseteq Due /\ S # {}
    /\ Cardinality(S) = BatchSize \/ (S = Due /\ Cardinality(S) < BatchSize)
    /\ attempts' = OneMore(attempts, S)
    /\ wait' = Put(wait, S, Leased)
    /\ worker' = [worker EXCEPT ![w] =
          [step |-> "delete", batch |-> S,
           claimed |-> [r \in Rows |-> IF r \in S THEN attempts'[r] ELSE 0]]]
    /\ UNCHANGED <<status, bytes, deaths>>

\* deleteMany: the request succeeds, or throws having removed any of the objects.
DeleteMany(w, removed, next) ==
    /\ At(w, "delete")
    /\ removed \subseteq worker[w].batch
    /\ next = "forget" => removed = worker[w].batch \/ KeyErrors
    /\ bytes' = Put(bytes, removed, FALSE)
    /\ worker' = [worker EXCEPT ![w].step = next]
    /\ UNCHANGED <<status, attempts, wait, deaths>>

AllDue(w) == worker[w].batch \cup Due  \* mutant: every due row goes with the batch
Done(w)   == worker[w].batch

\* The rows of the batch are deleted; or that statement throws, which the same
\* try covers.
ForgetRows(w) ==
    /\ At(w, "forget")
    /\ \/ /\ status' = Put(status, Done(w), "removed")
          /\ worker' = [worker EXCEPT ![w] = Idle]
       \/ /\ worker' = [worker EXCEPT ![w].step = "record"]
          /\ UNCHANGED status
    /\ UNCHANGED <<attempts, wait, bytes, deaths>>

GivesUp(n) == n >= MaxAttempts

\* The catch block puts one row back, or gives it up: an update by id, which
\* finds nothing if the row has been removed meanwhile.
RecordFailure(w, r) ==
    /\ At(w, "record")
    /\ r \in worker[w].batch
    /\ IF status[r] = "removed"
       THEN UNCHANGED <<status, wait>>
       ELSE /\ status' = [status EXCEPT ![r] =
                 IF GivesUp(worker[w].claimed[r]) THEN "failed" ELSE "pending"]
            /\ wait' = [wait EXCEPT ![r] = "backoff"]
    /\ worker' = [worker EXCEPT ![w] =
          IF worker[w].batch = {r} THEN Idle
          ELSE [step |-> "record", batch |-> worker[w].batch \ {r},
                claimed |-> [worker[w].claimed EXCEPT ![r] = 0]]]
    /\ UNCHANGED <<attempts, bytes, deaths>>

\* The process dies, or an update of the catch block throws: the rows left in
\* the batch stay leased.
Die(w) ==
    /\ ~At(w, "idle")
    /\ \A r \in worker[w].batch : deaths[r] < MaxDeaths
    /\ deaths' = OneMore(deaths, worker[w].batch)
    /\ worker' = [worker EXCEPT ![w] = Idle]
    /\ UNCHANGED <<status, attempts, wait, bytes>>

NeverElapses(r) == FALSE /\ UNCHANGED vars  \* mutant: next_attempt_at is never reached

\* The database's clock reaches next_attempt_at.
Elapse(r) ==
    /\ wait[r] # "due"
    /\ LeaseCovers /\ wait[r] = "leased" => ~Held(r)
    /\ wait' = [wait EXCEPT ![r] = "due"]
    /\ UNCHANGED <<status, attempts, bytes, worker, deaths>>

Work(w) ==
    \/ \E S \in SUBSET Rows : ClaimBatch(w, S)
    \/ \E removed \in SUBSET Rows, next \in {"forget", "record"} : DeleteMany(w, removed, next)
    \/ ForgetRows(w)
    \/ \E r \in Rows : RecordFailure(w, r)

Next ==
    \/ \E w \in Workers : Work(w) \/ Die(w)
    \/ \E r \in Rows : EnqueuePurge(r) \/ Elapse(r)

Spec == Init /\ [][Next]_vars

\* The interval timer runs batch after batch, and clocks advance.
FairSpec ==
    /\ Spec
    /\ \A w \in Workers : WF_vars(Work(w))
    /\ \A r \in Rows : WF_vars(Elapse(r))

-----------------------------------------------------------------------------
\* An object outlives its records only while a row says so: pending, or failed
\* and visible to an operator, never forgotten (DECISIONS section 8).
BytesHaveARow ==
    \A r \in Rows : bytes[r] => status[r] # "removed"

\* The lease keeps a row with one worker, so one failure spends one attempt and
\* sets one backoff.
OneHolder ==
    \A r \in Rows, v, w \in Workers : r \in worker[v].batch \cap worker[w].batch => v = w

\* Ten attempts, and one more for each worker that died on the row: giving up
\* is decided where a failure is recorded, so a death postpones it.
AttemptsBounded == \A r \in Rows : attempts[r] <= MaxAttempts + deaths[r]

\* Every queued object is removed, or its row is given up.
Drained ==
    \A r \in Rows : status[r] = "pending" ~> status[r] \in {"removed", "failed"}

\* The leased queue implements the abstract one.
StateOf(r) ==
    CASE status[r] = "pending" -> "queued"
      [] status[r] = "removed" -> "done"
      [] OTHER                 -> status[r]
Queue == INSTANCE WorkQueue WITH
            state <- [r \in Rows |-> StateOf(r)],
            trying <- {r \in Rows : Held(r)}
\* See WorkQueue: settled once, never reopened, one worker at a time.
ImplementsQueue == Queue!Spec
-----------------------------------------------------------------------------
\* A batch in work is leased, counted and nobody else's; an idle worker has none.
BatchesLeased ==
    /\ \A w \in Workers :
          /\ At(w, "idle") => worker[w].batch = {}
          /\ \A r \in worker[w].batch :
                status[r] = "pending" /\ wait[r] = "leased" /\ worker[w].claimed[r] = attempts[r]
    /\ OneHolder

\* A row that can be claimed has an attempt left, or a death to make up for.
AttemptsRemain ==
    /\ \A r \in Rows : status[r] = "absent" => attempts[r] = 0
    /\ \A r \in Rows :
          status[r] = "pending" /\ ~Held(r) => attempts[r] < MaxAttempts + deaths[r]
    /\ AttemptsBounded

\* With these, every step keeps them while the lease covers the batch.
IndInv == TypeOK /\ BatchesLeased /\ AttemptsRemain

\* What is about to be forgotten, or has been, has no bytes.
ForgottenHaveNoBytes ==
    /\ \A w \in Workers : At(w, "forget") => \A r \in worker[w].batch : ~bytes[r]
    /\ BytesHaveARow

\* What that rests on, however long a batch takes and however often a row is claimed.
BytesInv ==
    /\ status \in [Rows -> {"absent", "pending", "failed", "removed"}]
    /\ attempts \in [Rows -> Nat]
    /\ bytes \in [Rows -> BOOLEAN]
    /\ worker \in [Workers -> [step : {"idle", "delete", "forget", "record"},
                               batch : SUBSET Rows, claimed : [Rows -> Nat]]]
    /\ ForgottenHaveNoBytes
=============================================================================
