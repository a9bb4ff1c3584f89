---------------------- MODULE DeferredDeletion_proofs ----------------------
(***************************************************************************)
(* Theorems about what is deleted later.  PurgeQueue, for every set of     *)
(* rows and workers, every batch size and number of attempts and deaths;   *)
(* that each row has one worker, and what follows from it, under           *)
(* LeaseCovers.  AnalyticsErasure, for every set of inserts, events,       *)
(* installations, users and erasures, and any number of failed passes.     *)
(***************************************************************************)
EXTENDS PurgeQueue, AnalyticsErasure, TLAPS

\* Nothing is queued and nobody works at the start.
LEMMA InitHolds ==
    Init => IndInv
<1> SUFFICES ASSUME Init PROVE IndInv
  OBVIOUS
<1> USE DEF Init, Idle
<1>1. TypeOK
  BY BoundsAssumption DEF TypeOK, Counts
<1>2. BatchesLeased
  BY DEF BatchesLeased, OneHolder, At
<1>3. AttemptsRemain
  BY BoundsAssumption DEF AttemptsRemain, AttemptsBounded
<1> QED
  BY <1>1, <1>2, <1>3 DEF IndInv

\* The transaction that deletes records queues their objects: the row is new.
LEMMA EnqueueKeepsInvariant ==
    ASSUME IndInv, NEW r \in Rows, EnqueuePurge(r)
    PROVE  IndInv'
<1> USE DEF IndInv, EnqueuePurge
<1>1. TypeOK'
  BY DEF TypeOK
<1>2. BatchesLeased'
  BY DEF BatchesLeased, OneHolder, At, TypeOK
<1>3. AttemptsRemain'
  BY BoundsAssumption DEF AttemptsRemain, AttemptsBounded, Held, TypeOK
<1> QED
  BY <1>1, <1>2, <1>3

(* A claim takes rows that are due, and those nobody holds, since held rows  *)
(* are leased: each has an attempt left.                                   *)
LEMMA ClaimKeepsInvariant ==
    ASSUME IndInv, NEW w \in Workers, NEW S \in SUBSET Rows, ClaimBatch(w, S)
    PROVE  IndInv'
<1> USE DEF IndInv, ClaimBatch, OneMore, Put, Leased
<1>1. \A r \in S : status[r] = "pending" /\ wait[r] = "due" /\ ~Held(r)
  BY DEF Due, BatchesLeased, Held
<1>2. \A r \in S : attempts[r] < MaxAttempts + deaths[r]
  BY <1>1 DEF AttemptsRemain
<1>3. \A r \in Rows :
        /\ attempts[r] \in Nat /\ deaths[r] \in 0 .. MaxDeaths
        /\ attempts'[r] = IF r \in S THEN attempts[r] + 1 ELSE attempts[r]
  BY BoundsAssumption DEF TypeOK, Counts
<1>4. \A r \in Rows : attempts'[r] \in Counts /\ attempts'[r] <= MaxAttempts + deaths[r]
  BY <1>2, <1>3, BoundsAssumption DEF TypeOK, Counts, AttemptsRemain, AttemptsBounded
<1>5. attempts' \in [Rows -> Counts]
  BY <1>4 DEF TypeOK
<1>6. worker' = [worker EXCEPT ![w] = worker'[w]]
      /\ worker'[w].step = "delete" /\ worker'[w].batch = S
      /\ worker'[w].claimed = [r \in Rows |-> IF r \in S THEN attempts'[r] ELSE 0]
  BY DEF TypeOK
<1>7. 0 \in Counts
  BY BoundsAssumption DEF Counts
<1>8. TypeOK'
  <2>1. worker' \in [Workers -> [step : {"idle", "delete", "forget", "record"},
                                 batch : SUBSET Rows, claimed : [Rows -> Counts]]]
    BY <1>4, <1>7 DEF TypeOK
  <2>2. wait' \in [Rows -> {"due", "leased", "backoff"}]
    BY DEF TypeOK
  <2> QED
    BY <1>5, <2>1, <2>2 DEF TypeOK
<1>9. BatchesLeased'
  <2>1. \A v \in Workers : v # w => worker'[v] = worker[v] /\ worker[v].batch \cap S = {}
    BY <1>1 DEF Held, TypeOK
  <2> QED
    BY <1>1, <1>3, <1>6, <2>1 DEF BatchesLeased, OneHolder, At, TypeOK
<1>10. AttemptsRemain'
  <2>1. \A r \in Rows : Held(r)' \/ (~Held(r) /\ r \notin S)
    BY <1>6 DEF Held, TypeOK, BatchesLeased, At
  <2> QED
    BY <1>1, <1>3, <1>4, <2>1 DEF AttemptsRemain, AttemptsBounded, TypeOK
<1> QED
  BY <1>8, <1>9, <1>10

\* The request touches the objects alone.
LEMMA DeleteKeepsInvariant ==
    ASSUME IndInv, NEW w \in Workers, NEW removed \in SUBSET Rows,
           NEW next \in {"forget", "record"}, DeleteMany(w, removed, next)
    PROVE  IndInv'
<1> USE DEF IndInv, DeleteMany, Put
<1>1. worker' = [worker EXCEPT ![w].step = next]
  OBVIOUS
<1>2. \A v \in Workers : /\ worker'[v].batch = worker[v].batch
                         /\ worker'[v].claimed = worker[v].claimed
                         /\ worker'[v].step = IF v = w THEN next ELSE worker[v].step
  BY DEF TypeOK
<1>3. TypeOK'
  BY DEF TypeOK
<1>4. BatchesLeased'
  BY <1>2 DEF BatchesLeased, OneHolder, At
<1>5. AttemptsRemain'
  BY <1>2 DEF AttemptsRemain, AttemptsBounded, Held
<1> QED
  BY <1>3, <1>4, <1>5

\* The rows of a batch go once their objects are gone.
LEMMA ForgetKeepsInvariant ==
    ASSUME IndInv, NEW w \in Workers, ForgetRows(w)
    PROVE  IndInv'
<1> USE DEF IndInv, ForgetRows, Put, Done
<1>1. CASE /\ status' = Put(status, Done(w), "removed")
           /\ worker' = [worker EXCEPT ![w] = Idle]
  <2>1. \A v \in Workers : worker'[v] = IF v = w THEN Idle ELSE worker[v]
    BY <1>1 DEF TypeOK
  <2>2. \A r \in Rows : status'[r] = IF r \in worker[w].batch THEN "removed" ELSE status[r]
    BY <1>1
  <2>3. TypeOK'
    <3>1. status' \in [Rows -> {"absent", "pending", "failed", "removed"}]
      BY <1>1 DEF TypeOK
    <3>2. Idle \in [step : {"idle", "delete", "forget", "record"},
                    batch : SUBSET Rows, claimed : [Rows -> Counts]]
      BY BoundsAssumption DEF Idle, Counts
    <3>3. worker' \in [Workers -> [step : {"idle", "delete", "forget", "record"},
                                   batch : SUBSET Rows, claimed : [Rows -> Counts]]]
      BY <1>1, <3>2 DEF TypeOK
    <3>4. TypeOK /\ UNCHANGED <<attempts, wait, bytes, deaths>>
      OBVIOUS
    <3> HIDE DEF IndInv, ForgetRows, Put, Done
    <3> QED
      BY <3>1, <3>3, <3>4 DEF TypeOK
  <2>4. BatchesLeased'
    <3>1. worker'[w] = Idle /\ Idle.batch = {} /\ \A v \in Workers \ {w} : worker'[v] = worker[v]
      BY <2>1 DEF Idle
    <3>2. \A v \in Workers \ {w} : \A r \in worker[v].batch : r \in Rows /\ status'[r] = status[r]
      BY <2>2 DEF BatchesLeased, OneHolder, TypeOK
    <3>3. BatchesLeased /\ UNCHANGED <<wait, attempts>>
      OBVIOUS
    <3> HIDE DEF IndInv, ForgetRows, Put, Done, Idle
    <3> QED
      BY <3>1, <3>2, <3>3 DEF BatchesLeased, OneHolder, At
  <2>5. AttemptsRemain'
    <3>1. \A r \in Rows : r \notin worker[w].batch => (Held(r)' <=> Held(r))
      BY <2>1 DEF Held, Idle
    <3> QED
      BY <2>2, <3>1 DEF AttemptsRemain, AttemptsBounded, BatchesLeased, TypeOK
  <2> QED
    BY <2>3, <2>4, <2>5
<1>2. CASE worker' = [worker EXCEPT ![w].step = "record"] /\ UNCHANGED status
  <2>1. \A v \in Workers : /\ worker'[v].batch = worker[v].batch
                           /\ worker'[v].claimed = worker[v].claimed
                           /\ worker'[v].step = IF v = w THEN "record" ELSE worker[v].step
    BY <1>2 DEF TypeOK
  <2>2. TypeOK'
    BY <1>2 DEF TypeOK
  <2>3. BatchesLeased'
    BY <1>2, <2>1 DEF BatchesLeased, OneHolder, At
  <2>4. AttemptsRemain'
    BY <1>2, <2>1 DEF AttemptsRemain, AttemptsBounded, Held
  <2> QED
    BY <2>2, <2>3, <2>4
<1> QED
  BY <1>1, <1>2

\* What the catch block leaves a worker to do after one row.
LEMMA RecordMovesOn ==
    ASSUME IndInv, NEW w \in Workers, NEW r \in Rows, RecordFailure(w, r)
    PROVE  /\ \A v \in Workers :
                 /\ worker'[v].batch = worker[v].batch \ (IF v = w THEN {r} ELSE {})
                 /\ \A q \in worker'[v].batch : worker'[v].claimed[q] = worker[v].claimed[q]
                 /\ At(v, "idle")' => worker'[v].batch = {}
                 /\ At(v, "forget")' => At(v, "forget")
           /\ worker' \in [Workers -> [step : {"idle", "delete", "forget", "record"},
                                       batch : SUBSET Rows, claimed : [Rows -> Counts]]]
<1> DEFINE left == [step |-> "record", batch |-> worker[w].batch \ {r},
                    claimed |-> [worker[w].claimed EXCEPT ![r] = 0]]
           Records == [step : {"idle", "delete", "forget", "record"},
                       batch : SUBSET Rows, claimed : [Rows -> Counts]]
<1>1. worker \in [Workers -> Records]
  BY DEF IndInv, TypeOK
<1>2. 0 \in Counts
  BY BoundsAssumption DEF Counts
<1>3. CASE worker[w].batch = {r}
  <2>1. worker' = [worker EXCEPT ![w] = Idle]
    BY <1>3 DEF RecordFailure
  <2>2. Idle \in Records /\ Idle.batch = {} /\ Idle.step = "idle"
    BY <1>2 DEF Idle
  <2>3. \A v \in Workers : worker'[v] = IF v = w THEN Idle ELSE worker[v]
    BY <1>1, <2>1
  <2> QED
    BY <1>1, <1>3, <2>2, <2>3, <2>1 DEF At, IndInv, BatchesLeased
<1>4. CASE worker[w].batch # {r}
  <2>1. worker' = [worker EXCEPT ![w] = left]
    BY <1>4 DEF RecordFailure
  <2>2. left \in Records
    BY <1>1, <1>2
  <2>3. \A v \in Workers : worker'[v] = IF v = w THEN left ELSE worker[v]
    BY <1>1, <2>1
  <2>4. /\ left.step = "record" /\ left.batch = worker[w].batch \ {r}
        /\ \A q \in left.batch : left.claimed[q] = worker[w].claimed[q]
    BY <1>1
  <2> HIDE DEF left
  <2> QED
    BY <1>1, <2>1, <2>2, <2>3, <2>4 DEF At, IndInv, BatchesLeased
<1> QED
  BY <1>3, <1>4

\* The catch block decides on the count it claimed, which is the row's own.
LEMMA RecordKeepsInvariant ==
    ASSUME IndInv, NEW w \in Workers, NEW r \in Rows, RecordFailure(w, r)
    PROVE  IndInv'
<1> USE DEF IndInv
<1>1. /\ worker[w].step = "record" /\ r \in worker[w].batch
      /\ status[r] = "pending" /\ worker[w].claimed[r] = attempts[r]
  BY DEF RecordFailure, BatchesLeased, At
<1>2. /\ status' = [status EXCEPT ![r] = IF GivesUp(attempts[r]) THEN "failed" ELSE "pending"]
      /\ wait' = [wait EXCEPT ![r] = "backoff"]
      /\ UNCHANGED <<attempts, bytes, deaths>>
  BY <1>1 DEF RecordFailure
<1>3. \A v \in Workers :
        /\ worker'[v].batch = worker[v].batch \ (IF v = w THEN {r} ELSE {})
        /\ \A q \in worker'[v].batch : worker'[v].claimed[q] = worker[v].claimed[q]
        /\ At(v, "idle")' => worker'[v].batch = {}
        /\ At(v, "forget")' => At(v, "forget")
  BY RecordMovesOn
<1>4. TypeOK'
  <2>1. worker' \in [Workers -> [step : {"idle", "delete", "forget", "record"},
                                 batch : SUBSET Rows, claimed : [Rows -> Counts]]]
    BY RecordMovesOn
  <2> QED
    BY <1>2, <2>1 DEF TypeOK
<1>5. BatchesLeased'
  <2>1. \A v \in Workers : r \notin worker'[v].batch
    BY <1>1, <1>3 DEF BatchesLeased, OneHolder
  <2>2. \A v \in Workers : \A q \in worker'[v].batch :
          q \in worker[v].batch /\ q # r /\ q \in Rows
    BY <1>3, <2>1 DEF TypeOK
  <2>3. \A v \in Workers : \A q \in worker'[v].batch :
          /\ status'[q] = "pending" /\ wait'[q] = "leased"
          /\ worker'[v].claimed[q] = attempts'[q]
    BY <1>2, <1>3, <2>2 DEF BatchesLeased, TypeOK
  <2>4. OneHolder'
    BY <2>2 DEF BatchesLeased, OneHolder
  <2> QED
    BY <1>3, <2>3, <2>4 DEF BatchesLeased
<1>6. AttemptsRemain'
  <2>1. \A q \in Rows \ {r} : Held(q)' <=> Held(q)
    BY <1>3 DEF Held
  <2>2. attempts[r] \in Nat /\ deaths[r] \in Nat
    BY BoundsAssumption DEF TypeOK, Counts
  <2>3. status'[r] = "pending" => attempts[r] < MaxAttempts + deaths[r]
    BY <1>2, <2>2, BoundsAssumption DEF GivesUp, TypeOK
  <2>4. \A q \in Rows \ {r} : status'[q] = status[q]
    BY <1>2 DEF TypeOK
  <2>5. status'[r] # "absent"
    BY <1>2 DEF TypeOK
  <2> QED
    BY <1>2, <2>1, <2>3, <2>4, <2>5 DEF AttemptsRemain, AttemptsBounded
<1> QED
  BY <1>4, <1>5, <1>6

\* Each row of a dead worker's batch counts the death and stays leased.
LEMMA DieKeepsInvariant ==
    ASSUME IndInv, NEW w \in Workers, Die(w)
    PROVE  IndInv'
<1> USE DEF IndInv, Die, OneMore
<1>1. \A v \in Workers : worker'[v] = IF v = w THEN Idle ELSE worker[v]
  BY DEF TypeOK
<1>2. \A q \in Rows : /\ deaths[q] \in 0 .. MaxDeaths /\ attempts[q] \in Nat
                      /\ deaths'[q] = IF q \in worker[w].batch THEN deaths[q] + 1 ELSE deaths[q]
  BY BoundsAssumption DEF TypeOK, Counts
<1>3. TypeOK'
  <2>1. \A q \in Rows : deaths'[q] \in 0 .. MaxDeaths
    BY <1>2, BoundsAssumption
  <2>2. Idle \in [step : {"idle", "delete", "forget", "record"},
                  batch : SUBSET Rows, claimed : [Rows -> Counts]]
    BY BoundsAssumption DEF Idle, Counts
  <2> QED
    BY <2>1, <2>2 DEF TypeOK
<1>4. BatchesLeased'
  BY <1>1 DEF BatchesLeased, OneHolder, At, Idle
<1>5. AttemptsRemain'
  <2>1. \A q \in Rows : q \notin worker[w].batch => (Held(q)' <=> Held(q))
    BY <1>1 DEF Held, Idle
  <2> QED
    BY <1>2, <2>1, BoundsAssumption DEF AttemptsRemain, AttemptsBounded
<1> QED
  BY <1>3, <1>4, <1>5

\* A lease that covers the batch lapses only when nobody holds the row.
LEMMA ElapseKeepsInvariant ==
    ASSUME LeaseCovers, IndInv, NEW r \in Rows, Elapse(r)
    PROVE  IndInv'
<1> USE DEF IndInv, Elapse
<1>1. ~Held(r)
  BY DEF BatchesLeased, Held, TypeOK
<1>2. TypeOK'
  BY DEF TypeOK
<1>3. BatchesLeased'
  BY <1>1 DEF BatchesLeased, OneHolder, At, Held, TypeOK
<1>4. AttemptsRemain'
  BY DEF AttemptsRemain, AttemptsBounded, Held
<1> QED
  BY <1>2, <1>3, <1>4

\* One step of the queue, whoever takes it.
LEMMA NextKeepsInvariant ==
    ASSUME LeaseCovers, IndInv, [Next]_vars
    PROVE  IndInv'
<1>1. CASE UNCHANGED vars
  BY <1>1 DEF vars, IndInv, TypeOK, BatchesLeased, OneHolder, At, AttemptsRemain,
              AttemptsBounded, Held
<1>2. ASSUME NEW w \in Workers, Work(w)
      PROVE  IndInv'
  BY <1>2, ClaimKeepsInvariant, DeleteKeepsInvariant, ForgetKeepsInvariant,
     RecordKeepsInvariant DEF Work
<1> QED
  BY <1>1, <1>2, DieKeepsInvariant, EnqueueKeepsInvariant, ElapseKeepsInvariant DEF Next

(* purge.ts, whatever runs and dies: a claimed row is leased to one worker *)
(* whose count is the row's own, and has an attempt left, as long as no    *)
(* batch outlives its lease.                                               *)
THEOREM Invariance ==
    ASSUME LeaseCovers
    PROVE  Spec => []IndInv
<1> QED
  BY InitHolds, NextKeepsInvariant, PTL DEF Spec

\* Ten attempts per row, and one for each worker that died on it, as long as no
\* batch outlives its lease.
THEOREM AttemptsCounted ==
    ASSUME LeaseCovers
    PROVE  Spec => []AttemptsBounded
<1>1. IndInv => AttemptsBounded
  BY DEF IndInv, AttemptsRemain
<1> QED
  BY <1>1, Invariance, PTL

-----------------------------------------------------------------------------
(* The bytes, whatever batches outlive their leases.                       *)

\* Nothing is about to be forgotten at the start.
LEMMA InitBytes ==
    Init => BytesInv
BY DEF Init, Idle, BytesInv, ForgottenHaveNoBytes, BytesHaveARow, At

\* A worker that goes on to anything but forgetting, with rows it may share with
\* others, and a table in which no row is newly forgotten.
LEMMA SparingStep ==
    ASSUME BytesInv, NEW w \in Workers, worker' = [worker EXCEPT ![w] = worker'[w]],
           worker'[w] \in [step : {"idle", "delete", "record"}, batch : SUBSET Rows,
                           claimed : [Rows -> Nat]],
           status' \in [Rows -> {"absent", "pending", "failed", "removed"}],
           \A r \in Rows : status'[r] = "removed" => status[r] = "removed",
           attempts' \in [Rows -> Nat],
           bytes' \in [Rows -> BOOLEAN], \A r \in Rows : bytes'[r] => bytes[r]
    PROVE  BytesInv'
<1> USE DEF BytesInv
<1>1. worker' \in [Workers -> [step : {"idle", "delete", "forget", "record"},
                               batch : SUBSET Rows, claimed : [Rows -> Nat]]]
  OBVIOUS
<1>2. \A v \in Workers \ {w} : worker'[v] = worker[v]
  OBVIOUS
<1>3. worker'[w].step # "forget"
  OBVIOUS
<1>4. ForgottenHaveNoBytes'
  BY <1>2, <1>3 DEF ForgottenHaveNoBytes, BytesHaveARow, At
<1> QED
  BY <1>1, <1>4

\* A request that succeeds has removed every object of the batch, unless the store
\* refuses single keys.
LEMMA DeleteKeepsBytes ==
    ASSUME ~KeyErrors, BytesInv, NEW w \in Workers, NEW removed \in SUBSET Rows,
           NEW next \in {"forget", "record"}, DeleteMany(w, removed, next)
    PROVE  BytesInv'
<1> USE DEF BytesInv, DeleteMany, Put
<1>1. \A v \in Workers : /\ worker'[v].batch = worker[v].batch
                         /\ worker'[v].step = IF v = w THEN next ELSE worker[v].step
  OBVIOUS
<1>2. worker' \in [Workers -> [step : {"idle", "delete", "forget", "record"},
                               batch : SUBSET Rows, claimed : [Rows -> Nat]]]
  OBVIOUS
<1>3. ForgottenHaveNoBytes'
  BY <1>1 DEF ForgottenHaveNoBytes, BytesHaveARow, At
<1> QED
  BY <1>2, <1>3

\* The rows of a batch go once their objects are gone, and nothing brings an object back.
LEMMA ForgetKeepsBytes ==
    ASSUME BytesInv, NEW w \in Workers, ForgetRows(w)
    PROVE  BytesInv'
<1> USE DEF BytesInv, ForgetRows
<1>1. CASE /\ status' = Put(status, Done(w), "removed")
           /\ worker' = [worker EXCEPT ![w] = Idle]
  <2>1. \A r \in Rows : status'[r] = IF r \in worker[w].batch THEN "removed" ELSE status[r]
    BY <1>1 DEF Put, Done
  <2>2. status' \in [Rows -> {"absent", "pending", "failed", "removed"}]
    BY <1>1 DEF Put
  <2>3. Idle \in [step : {"idle", "delete", "forget", "record"},
                  batch : SUBSET Rows, claimed : [Rows -> Nat]]
    BY DEF Idle
  <2>4. worker' \in [Workers -> [step : {"idle", "delete", "forget", "record"},
                                 batch : SUBSET Rows, claimed : [Rows -> Nat]]]
    BY <1>1, <2>3
  <2>5. \A v \in Workers : v # w => worker'[v] = worker[v]
    BY <1>1
  <2>6. worker'[w].step # "forget"
    BY <1>1 DEF Idle
  <2>7. ForgottenHaveNoBytes'
    BY <2>1, <2>5, <2>6 DEF ForgottenHaveNoBytes, BytesHaveARow, At
  <2> QED
    BY <2>2, <2>4, <2>7
<1>2. CASE worker' = [worker EXCEPT ![w].step = "record"] /\ UNCHANGED status
  <2>1. worker'[w] \in [step : {"idle", "delete", "record"}, batch : SUBSET Rows,
                        claimed : [Rows -> Nat]]
    BY <1>2
  <2> QED
    BY <1>2, <2>1, SparingStep
<1> QED
  BY <1>1, <1>2

\* Putting a row back, or giving it up, forgets none.
LEMMA RecordKeepsBytes ==
    ASSUME BytesInv, NEW w \in Workers, NEW r \in Rows, RecordFailure(w, r)
    PROVE  BytesInv'
<1> USE DEF BytesInv, RecordFailure
<1> DEFINE left == [step |-> "record", batch |-> worker[w].batch \ {r},
                    claimed |-> [worker[w].claimed EXCEPT ![r] = 0]]
           next == IF worker[w].batch = {r} THEN Idle ELSE left
<1>1. next \in [step : {"idle", "delete", "record"}, batch : SUBSET Rows, claimed : [Rows -> Nat]]
  BY DEF Idle
<1>2. worker' = [worker EXCEPT ![w] = next]
  OBVIOUS
<1> HIDE DEF next
<1>3. worker'[w] = next
  BY <1>2
<1>4. /\ status' \in [Rows -> {"absent", "pending", "failed", "removed"}]
      /\ \A q \in Rows : status'[q] = "removed" => status[q] = "removed"
  OBVIOUS
<1> QED
  BY <1>1, <1>2, <1>3, <1>4, SparingStep

\* A claim begins to delete, whoever else holds the rows.
LEMMA ClaimKeepsBytes ==
    ASSUME BytesInv, NEW w \in Workers, NEW S \in SUBSET Rows, ClaimBatch(w, S)
    PROVE  BytesInv'
<1> USE DEF BytesInv, ClaimBatch
<1>1. attempts' \in [Rows -> Nat]
  BY DEF OneMore
<1> DEFINE taken == [step |-> "delete", batch |-> S,
                     claimed |-> [r \in Rows |-> IF r \in S THEN attempts'[r] ELSE 0]]
<1>2. taken \in [step : {"idle", "delete", "record"}, batch : SUBSET Rows, claimed : [Rows -> Nat]]
  BY <1>1
<1>3. worker' = [worker EXCEPT ![w] = taken]
  OBVIOUS
<1> HIDE DEF taken
<1>4. worker'[w] = taken
  BY <1>3
<1> QED
  BY <1>1, <1>2, <1>3, <1>4, SparingStep

\* Every step, leases that lapse under a batch included.
LEMMA NextKeepsBytes ==
    ASSUME ~KeyErrors, BytesInv, [Next]_vars
    PROVE  BytesInv'
<1>1. CASE UNCHANGED vars
  BY <1>1 DEF vars, BytesInv, ForgottenHaveNoBytes, BytesHaveARow, At
<1>2. ASSUME NEW w \in Workers, Work(w)
      PROVE  BytesInv'
  BY <1>2, ClaimKeepsBytes, DeleteKeepsBytes, ForgetKeepsBytes, RecordKeepsBytes DEF Work
<1>3. ASSUME NEW w \in Workers, Die(w)
      PROVE  BytesInv'
  <2>1. worker' = [worker EXCEPT ![w] = Idle] /\ worker'[w] = Idle
    BY <1>3 DEF Die, BytesInv
  <2>2. Idle \in [step : {"idle", "delete", "record"}, batch : SUBSET Rows, claimed : [Rows -> Nat]]
    BY DEF Idle
  <2> QED
    BY <1>3, <2>1, <2>2, SparingStep DEF Die, BytesInv
<1>4. ASSUME NEW r \in Rows, EnqueuePurge(r) \/ Elapse(r)
      PROVE  BytesInv'
  BY <1>4 DEF EnqueuePurge, Elapse, BytesInv, ForgottenHaveNoBytes, BytesHaveARow, At
<1> QED
  BY <1>1, <1>2, <1>3, <1>4 DEF Next

\* With a store that refuses no single key, no object is forgotten, whichever
\* batches outlive their leases and are worked on twice.
THEOREM NothingForgotten ==
    ASSUME ~KeyErrors
    PROVE  Spec => []BytesHaveARow
<1>1. BytesInv => BytesHaveARow
  BY DEF BytesInv, ForgottenHaveNoBytes
<1>2. BytesInv /\ [Next]_vars => BytesInv'
  BY NextKeepsBytes
<1> QED
  BY <1>1, <1>2, InitBytes, PTL DEF Spec

-----------------------------------------------------------------------------
(* The queue at rest or at work implements WorkQueue.                      *)

\* The row's state changes with its status alone.
LEMMA StatesFollow ==
    \A r \in Rows : status'[r] = status[r] => StateOf(r)' = StateOf(r)
BY DEF StateOf

\* Rows nobody works on at the start.
LEMMA InitImplements ==
    Init => Queue!Init
BY DEF Init, Queue!Init, StateOf, Held, Idle

\* A step that moves neither statuses nor batches is none of the abstract queue.
LEMMA StutterImplements ==
    ASSUME UNCHANGED status, \A w \in Workers : worker'[w].batch = worker[w].batch
    PROVE  UNCHANGED <<[r \in Rows |-> StateOf(r)], {r \in Rows : Held(r)}>>
BY DEF StateOf, Held

\* A worker that stops working on some rows, settled or queued, leaves them.
LEMMA LeavingImplements ==
    ASSUME IndInv, NEW w \in Workers, NEW S \in SUBSET worker[w].batch,
           \A v \in Workers : worker'[v].batch =
               worker[v].batch \ (IF v = w THEN S ELSE {}),
           \A r \in Rows \ S : status'[r] = status[r],
           \A r \in S : status'[r] \in {"pending", "removed", "failed"}
    PROVE  Queue!Next
<1>1. S \in SUBSET Rows
  BY DEF IndInv, TypeOK
<1>2. S \subseteq {r \in Rows : Held(r)}
  BY <1>1 DEF Held
<1>3. {r \in Rows : Held(r)}' = {r \in Rows : Held(r)} \ S
  BY <1>1 DEF Held, IndInv, BatchesLeased, OneHolder
<1> DEFINE how == [r \in S |-> StateOf(r)']
<1>4. how \in [S -> Queue!Settled \cup {"queued"}]
  BY DEF StateOf, Queue!Settled
<1>5. [r \in Rows |-> StateOf(r)]' =
        [r \in Rows |-> IF r \in S THEN how[r] ELSE [q \in Rows |-> StateOf(q)][r]]
  BY <1>1 DEF StateOf
<1>6. Queue!Leave(S)
  BY <1>2, <1>3, <1>4, <1>5 DEF Queue!Leave
<1> QED
  BY <1>1, <1>6 DEF Queue!Next

\* Every step is a step of the abstract queue, or none.
LEMMA NextImplements ==
    ASSUME LeaseCovers, IndInv, [Next]_vars
    PROVE  [Queue!Next]_<<[r \in Rows |-> StateOf(r)], {r \in Rows : Held(r)}>>
<1>1. CASE UNCHANGED vars
  BY <1>1, StutterImplements DEF vars
<1>2. ASSUME NEW r \in Rows, EnqueuePurge(r)
      PROVE  Queue!Next
  <2>1. [q \in Rows |-> StateOf(q)]' = [[q \in Rows |-> StateOf(q)] EXCEPT ![r] = "queued"]
    BY <1>2 DEF EnqueuePurge, StateOf, IndInv, TypeOK
  <2>2. UNCHANGED {q \in Rows : Held(q)}
    BY <1>2 DEF EnqueuePurge, Held
  <2>3. StateOf(r) = "absent"
    BY <1>2 DEF EnqueuePurge, StateOf
  <2> QED
    BY <2>1, <2>2, <2>3 DEF Queue!Next, Queue!Enqueue
<1>3. ASSUME NEW w \in Workers, NEW S \in SUBSET Rows, ClaimBatch(w, S)
      PROVE  Queue!Next
  <2>1. S \subseteq {r \in Rows : StateOf(r) = "queued"} \ {r \in Rows : Held(r)}
    BY <1>3 DEF ClaimBatch, Due, StateOf, Held, IndInv, BatchesLeased
  <2>2. \A v \in Workers : worker'[v].batch = worker[v].batch \cup (IF v = w THEN S ELSE {})
    BY <1>3 DEF ClaimBatch, At, IndInv, BatchesLeased, TypeOK
  <2>3. {r \in Rows : Held(r)}' = {r \in Rows : Held(r)} \cup S
    BY <2>2 DEF Held
  <2>4. UNCHANGED [r \in Rows |-> StateOf(r)]
    BY <1>3 DEF ClaimBatch, StateOf
  <2> QED
    BY <2>1, <2>3, <2>4 DEF Queue!Next, Queue!Take
<1>4. ASSUME NEW w \in Workers, NEW removed \in SUBSET Rows, NEW next \in {"forget", "record"},
             DeleteMany(w, removed, next)
      PROVE  UNCHANGED <<[r \in Rows |-> StateOf(r)], {r \in Rows : Held(r)}>>
  BY <1>4, StutterImplements DEF DeleteMany, IndInv, TypeOK
<1>5. ASSUME NEW w \in Workers, ForgetRows(w)
      PROVE  [Queue!Next]_<<[r \in Rows |-> StateOf(r)], {r \in Rows : Held(r)}>>
  <2>1. CASE /\ status' = Put(status, Done(w), "removed")
             /\ worker' = [worker EXCEPT ![w] = Idle]
    <3>1. \A v \in Workers :
            worker'[v].batch = worker[v].batch \ (IF v = w THEN worker[w].batch ELSE {})
      BY <2>1 DEF Idle, IndInv, TypeOK
    <3>2. \A r \in Rows :
            status'[r] = IF r \in worker[w].batch THEN "removed" ELSE status[r]
      BY <2>1 DEF Put, Done
    <3>3. worker[w].batch \subseteq Rows
      BY DEF IndInv, TypeOK
    <3> QED
      BY <3>1, <3>2, <3>3, LeavingImplements
  <2>2. CASE worker' = [worker EXCEPT ![w].step = "record"] /\ UNCHANGED status
    BY <2>2, StutterImplements DEF IndInv, TypeOK
  <2> QED
    BY <1>5, <2>1, <2>2 DEF ForgetRows
<1>6. ASSUME NEW w \in Workers, NEW r \in Rows, RecordFailure(w, r)
      PROVE  Queue!Next
  <2>1. {r} \in SUBSET worker[w].batch
    BY <1>6 DEF RecordFailure
  <2>2. \A v \in Workers : worker'[v].batch = worker[v].batch \ (IF v = w THEN {r} ELSE {})
    BY <1>6, RecordMovesOn
  <2>3. /\ \A q \in Rows \ {r} : status'[q] = status[q]
        /\ status'[r] \in {"pending", "removed", "failed"}
    BY <1>6 DEF RecordFailure, IndInv, TypeOK
  <2> QED
    BY <2>1, <2>2, <2>3, LeavingImplements
<1>7. ASSUME NEW w \in Workers, Die(w)
      PROVE  Queue!Next
  <2>1. \A r \in worker[w].batch : status'[r] = "pending"
    BY <1>7 DEF Die, IndInv, BatchesLeased
  <2>2. \A v \in Workers :
          worker'[v].batch = worker[v].batch \ (IF v = w THEN worker[w].batch ELSE {})
    BY <1>7 DEF Die, Idle, IndInv, TypeOK
  <2> QED
    BY <1>7, <2>1, <2>2, LeavingImplements DEF Die
<1>8. ASSUME NEW r \in Rows, Elapse(r)
      PROVE  UNCHANGED <<[q \in Rows |-> StateOf(q)], {q \in Rows : Held(q)}>>
  BY <1>8, StutterImplements DEF Elapse
<1> QED
  BY <1>1, <1>2, <1>3, <1>4, <1>5, <1>6, <1>7, <1>8 DEF Next, Work

\* What the queue promises: each row settled once, by one worker, for good.
THEOREM Implementation ==
    ASSUME LeaseCovers
    PROVE  Spec => ImplementsQueue
<1> QED
  BY InitImplements, NextImplements, Invariance, PTL DEF Spec, ImplementsQueue, Queue!Spec

-----------------------------------------------------------------------------
(* Types                                                                      *)

Insert == [pc : {"idle", "lookup", "insert"}, ev : Event, received : Time,
           replay : BOOLEAN, left : SUBSET {"events", "states"}, overlaps : BOOLEAN]
ErasureRow == [status : {"none", "asked", "reached", "pending", "deleted", "gone"},
               subject : Subjects, at : Time, insts : SUBSET Installation, resolved : BOOLEAN,
               submitted : BOOLEAN, answered : BOOLEAN]
Targets == [held : BOOLEAN, insts : SUBSET Installation, shared : SUBSET Installation]
Worker == [pc : {"idle", "count", "replay", "write", "commit", "drop"}, claimed : SUBSET Erasure,
           rows : SUBSET Row, insts : [Erasure -> SUBSET Installation],
           decided : {"wait", "deletes", "states", "done"}]

\* What is stored, and the rows of its tables.
LEMMA Typed ==
    ASSUME ErasureTypeOK
    PROVE  /\ events \subseteq Row /\ records \subseteq Row /\ links \subseteq Row /\ stored \subseteq Row
           /\ \A r \in Row : r.ev \in Event /\ r.received \in Nat
           /\ mutations \subseteq [table : Table, rows : SUBSET Row]
           /\ targets \in [Erasure -> Targets] /\ erasure \in [Erasure -> ErasureRow]
           /\ batch \in [Batch -> Insert] /\ pass \in Worker
           /\ \A x \in Erasure : erasure[x].at \in Nat
           /\ \A b \in Batch : batch[b].received \in Nat /\ RowOf(b) \in Row
  BY DEF ErasureTypeOK, Row, Time, Targets, ErasureRow, Insert, Worker, RowOf

LEMMA RestTyped ==
    ASSUME Shape
    PROVE  /\ Rest \in Insert
           /\ Rest.pc = "idle" /\ Rest.left = {} /\ ~Rest.overlaps /\ Rest.received = 0
<1>1. (CHOOSE e \in Event : TRUE) \in Event
  BY DEF Shape
<1> QED
  BY <1>1 DEF Rest, Insert, Time, Shape

LEMMA AsleepTyped ==
    /\ Asleep \in Worker
    /\ Asleep.pc = "idle" /\ Asleep.claimed = {} /\ Asleep.rows = {} /\ Asleep.decided = "wait"
    /\ [Asleep EXCEPT !.pc = "drop"] \in Worker
    /\ [Asleep EXCEPT !.pc = "drop"].pc = "drop" /\ [Asleep EXCEPT !.pc = "drop"].claimed = {}
    /\ [Asleep EXCEPT !.pc = "drop"].rows = {} /\ [Asleep EXCEPT !.pc = "drop"].decided = "wait"
  BY DEF Asleep, Worker

LEMMA NoTargetsTyped == NoTargets \in Targets /\ ~NoTargets.held /\ NoTargets.insts = {}
  BY DEF NoTargets, Targets

LEMMA ResolvedTyped ==
    ASSUME NEW s \in Subjects
    PROVE  Resolved(s) \subseteq Installation
  BY DEF Resolved

(* A state is well typed when its parts are: what the lemmas below show of each *)
(* part an action changes.                                                     *)
LEMMA TypeParts ==
    ErasureTypeOK <=> /\ events \subseteq Row /\ records \subseteq Row /\ links \subseteq Row /\ stored \subseteq Row
               /\ files \subseteq Table \X Row
               /\ mutations \subseteq [table : Table, rows : SUBSET Row]
               /\ targets \in [Erasure -> Targets]
               /\ erasure \in [Erasure -> ErasureRow]
               /\ (skip = Unknown \/ skip \subseteq Erasure)
               /\ batch \in [Batch -> Insert]
               /\ pass \in Worker
               /\ clock \in Time /\ faults \in 0 .. MaxFaults /\ mistargeted \subseteq Erasure
  BY DEF ErasureTypeOK, Targets, ErasureRow, Insert, Worker

\* What an insert does to its batch.
LEMMA StampEffect ==
    ASSUME Shape, ErasureTypeOK, NEW b \in Batch, Stamp(b)
    PROVE  /\ clock' = clock + 1 /\ clock \in Nat /\ clock + 1 \in Time
           /\ batch' \in [Batch -> Insert]
           /\ batch[b].pc = "idle" /\ batch'[b].pc = "lookup" /\ batch'[b].received = clock + 1
           /\ batch'[b].left = {} /\ ~batch'[b].overlaps
           /\ \A c \in Batch \ {b} : batch'[c] = batch[c]
           /\ UNCHANGED <<tables, files, mutations, targets, erasure, skip, pass, faults, ghosts>>
<1>1. clock \in Nat /\ clock + 1 \in Time
  BY DEF ErasureTypeOK, Time, Stamp, Shape
<1>2. PICK e \in Event : batch' = [batch EXCEPT ![b] = [Rest EXCEPT !.pc = "lookup", !.ev = e, !.received = clock + 1]]
  BY DEF Stamp
<1> QED
  BY <1>1, <1>2, Typed, RestTyped DEF Stamp, Insert, Rest

LEMMA LookupEffect ==
    ASSUME ErasureTypeOK, NEW b \in Batch, Lookup(b)
    PROVE  /\ batch' \in [Batch -> Insert]
           /\ batch[b].pc = "lookup" /\ batch'[b].pc = "insert" /\ batch'[b].ev = batch[b].ev
           /\ batch'[b].overlaps = batch[b].overlaps
           /\ \/ batch'[b].left = {"events", "states"} /\ batch'[b].received = batch[b].received
              \/ /\ batch'[b].left = {"states"} /\ RowOf(b)' \in events
                 /\ batch'[b].received = RowOf(b)'.received
           /\ \A c \in Batch \ {b} : batch'[c] = batch[c]
           /\ UNCHANGED <<tables, files, mutations, targets, erasure, skip, pass, clock, faults, ghosts>>
<1>1. batch[b] \in Insert /\ batch \in [Batch -> Insert]
  BY Typed
<1>2. CASE batch' = [batch EXCEPT ![b].pc = "insert", ![b].left = {"events", "states"}]
  BY <1>1, <1>2 DEF Lookup, Insert
<1>3. CASE \E r \in {q \in events : q.ev = batch[b].ev} :
              batch' = [batch EXCEPT ![b].pc = "insert", ![b].left = {"states"},
                                     ![b].received = r.received, ![b].replay = TRUE]
  <2>1. PICK r \in {q \in events : q.ev = batch[b].ev} :
              batch' = [batch EXCEPT ![b].pc = "insert", ![b].left = {"states"},
                                     ![b].received = r.received, ![b].replay = TRUE]
    BY <1>3
  <2>2. r \in Row /\ r.received \in Time /\ r.ev = batch[b].ev /\ r = [ev |-> r.ev, received |-> r.received]
    BY Typed DEF Row
  <2>3. batch'[b] = [batch[b] EXCEPT !.pc = "insert", !.left = {"states"}, !.received = r.received, !.replay = TRUE]
    BY <1>1, <2>1
  <2>4. batch'[b].ev = batch[b].ev /\ batch'[b].received = r.received /\ batch'[b].pc = "insert" /\ batch'[b].left = {"states"}
        /\ batch'[b].overlaps = batch[b].overlaps
    BY <1>1, <2>3 DEF Insert
  <2>5. RowOf(b)' = r
    BY <2>2, <2>4 DEF RowOf
  <2> QED
    BY <1>1, <2>1, <2>2, <2>4, <2>5 DEF Lookup, Insert
<1> QED
  BY <1>2, <1>3 DEF Lookup

LEMMA LandEffect ==
    ASSUME Shape, ErasureTypeOK, NEW b \in Batch, Land(b)
    PROVE  \E t \in batch[b].left :
              /\ t \in {"events", "states"} /\ batch[b].pc = "insert"
              /\ events'  = (IF t = "events" THEN events \cup {RowOf(b)}  ELSE events)
              /\ records' = (IF t = "states" THEN records \cup {RowOf(b)} ELSE records)
              /\ links'   = (IF t = "states" THEN links \cup {RowOf(b)}   ELSE links)
              /\ batch' \in [Batch -> Insert]
              /\ \/ /\ batch[b].left = {t} /\ stored' = stored \cup {RowOf(b)}
                    /\ batch'[b] = Rest
                 \/ /\ batch[b].left # {t} /\ stored' = stored
                    /\ batch'[b].pc = "insert" /\ batch'[b].left = batch[b].left \ {t}
                    /\ batch'[b].overlaps = batch[b].overlaps /\ batch'[b].received = batch[b].received
                    /\ RowOf(b)' = RowOf(b)
              /\ \A c \in Batch \ {b} : batch'[c] = batch[c]
              /\ UNCHANGED <<files, mutations, targets, erasure, skip, pass, clock, faults, mistargeted>>
<1>1. batch[b] \in Insert /\ batch \in [Batch -> Insert]
  BY Typed
<1>2. PICK t \in batch[b].left :
          /\ events'  = (IF t = "events" THEN events \cup {RowOf(b)}  ELSE events)
          /\ records' = (IF t = "states" THEN records \cup {RowOf(b)} ELSE records)
          /\ links'   = (IF t = "states" THEN links \cup {RowOf(b)}   ELSE links)
          /\ IF batch[b].left = {t}
             THEN batch' = [batch EXCEPT ![b] = Rest] /\ stored' = stored \cup {RowOf(b)}
             ELSE batch' = [batch EXCEPT ![b].left = @ \ {t}] /\ UNCHANGED stored
  BY DEF Land
<1>3. t \in {"events", "states"}
  BY <1>1 DEF Insert
<1>4. CASE batch[b].left = {t}
  BY <1>1, <1>2, <1>3, <1>4, RestTyped DEF Land
<1>5. CASE batch[b].left # {t}
  <2>1. batch'[b] = [batch[b] EXCEPT !.left = batch[b].left \ {t}]
    BY <1>1, <1>2, <1>5
  <2>2. /\ batch'[b] \in Insert /\ batch'[b].pc = batch[b].pc /\ batch'[b].ev = batch[b].ev
        /\ batch'[b].received = batch[b].received /\ batch'[b].overlaps = batch[b].overlaps
        /\ batch'[b].left = batch[b].left \ {t}
    BY <1>1, <2>1 DEF Insert
  <2>3. RowOf(b)' = RowOf(b)
    BY <2>2 DEF RowOf
  <2> QED
    BY <1>1, <1>2, <1>3, <1>5, <2>2, <2>3 DEF Land
<1> QED
  BY <1>4, <1>5

LEMMA PassEndsEffect ==
    ASSUME ErasureTypeOK, PassEnds
    PROVE  /\ batch' \in [Batch -> Insert]
           /\ \A b \in Batch : /\ batch'[b].pc = batch[b].pc /\ batch'[b].received = batch[b].received
                               /\ batch'[b].left = batch[b].left /\ RowOf(b)' = RowOf(b)
                               /\ batch'[b].overlaps = (batch[b].pc # "idle")
  BY Typed DEF PassEnds, Insert, RowOf

\* What a request does to its erasure, up to its record.
LEMMA RequestEffect ==
    ASSUME Shape, ErasureTypeOK, Requested, Numbered, NEW x \in Erasure, Ask(x) \/ Reach(x) \/ Record(x)
    PROVE  /\ erasure' \in [Erasure -> ErasureRow]
           /\ erasure[x].status \in {"none", "asked", "reached"}
           /\ erasure'[x].status \in {"asked", "reached", "pending"}
           /\ ~erasure'[x].submitted /\ ~erasure'[x].answered /\ ~targets[x].held
           /\ erasure'[x].status = "asked" => ~erasure'[x].resolved
           /\ ~erasure'[x].resolved => erasure'[x].insts = {}
           /\ \/ erasure[x].at = 0
              \/ /\ erasure'[x].at = erasure[x].at /\ erasure'[x].subject = erasure[x].subject
                 /\ erasure[x].insts \subseteq erasure'[x].insts
           /\ clock' \in Time /\ clock' \in Nat /\ clock <= clock' /\ erasure'[x].at <= clock'
           /\ faults' \in 0 .. MaxFaults
           /\ \A y \in Erasure \ {x} : erasure'[y] = erasure[y]
           /\ UNCHANGED <<tables, files, mutations, targets, skip, batch, pass, ghosts>>
<1>0. erasure[x] \in ErasureRow /\ erasure \in [Erasure -> ErasureRow] /\ clock \in Time /\ clock \in Nat
  BY Typed DEF ErasureTypeOK, Time
<1>1. CASE Ask(x)
  <2>1. PICK s \in Subjects :
          erasure' = [erasure EXCEPT ![x].status = "asked", ![x].subject = s, ![x].at = clock + 1]
    BY <1>1 DEF Ask
  <2>2. erasure'[x] = [erasure[x] EXCEPT !.status = "asked", !.subject = s, !.at = clock + 1]
    BY <1>0, <2>1
  <2>3. clock + 1 \in Time /\ clock' = clock + 1 /\ erasure[x].status = "none"
    <3>1. clock < MaxClock /\ clock' = clock + 1 /\ erasure[x].status = "none"
      BY <1>1 DEF Ask
    <3> QED
      BY <1>0, <3>1 DEF Time, Shape
  <2>4. /\ erasure'[x] \in ErasureRow /\ erasure'[x].status = "asked" /\ erasure'[x].at = clock + 1
        /\ erasure'[x].insts = erasure[x].insts /\ erasure'[x].resolved = erasure[x].resolved
        /\ erasure'[x].submitted = erasure[x].submitted /\ erasure'[x].answered = erasure[x].answered
    BY <1>0, <2>2, <2>3 DEF ErasureRow
  <2>5. /\ UNCHANGED <<tables, files, mutations, targets, skip, batch, pass, faults, ghosts>>
        /\ \A y \in Erasure \ {x} : erasure'[y] = erasure[y]
        /\ erasure' \in [Erasure -> ErasureRow]
    BY <1>0, <1>1, <2>1, <2>4 DEF Ask
  <2>6. /\ erasure[x].at = 0 /\ ~erasure[x].resolved /\ erasure[x].insts = {}
        /\ ~erasure[x].submitted /\ ~erasure[x].answered /\ ~targets[x].held
    BY <2>3 DEF Requested
  <2>7. clock + 1 \in Nat /\ clock <= clock + 1 /\ faults \in 0 .. MaxFaults
    BY <1>0 DEF ErasureTypeOK
  <2> QED
    BY <2>3, <2>4, <2>5, <2>6, <2>7
<1>2. CASE Reach(x)
  <2>1. PICK insts \in SUBSET Installation, resolved \in BOOLEAN :
          /\ erasure' = [erasure EXCEPT ![x].status = "reached", ![x].resolved = resolved, ![x].insts = insts]
          /\ ~resolved => insts = {}
    <3>1. erasure[x].subject \in Subjects
      BY <1>0 DEF ErasureRow
    <3>2. Resolved(erasure[x].subject) \in SUBSET Installation
      BY <3>1, ResolvedTyped
    <3>3. {erasure[x].subject} \cap Installation \in SUBSET Installation
      OBVIOUS
    <3>4. erasure[x].subject \notin Installation => {erasure[x].subject} \cap Installation = {}
      OBVIOUS
    <3>5. CASE erasure' = [erasure EXCEPT ![x].status = "reached", ![x].resolved = TRUE,
                                          ![x].insts = Resolved(erasure[x].subject)]
      BY <3>2, <3>5
    <3>6. CASE erasure' = [erasure EXCEPT ![x].status = "reached",
                                          ![x].resolved = erasure[x].subject \in Installation,
                                          ![x].insts = {erasure[x].subject} \cap Installation]
      <4>1. CASE erasure[x].subject \in Installation
        <5>1. (erasure[x].subject \in Installation) = TRUE
          BY <4>1
        <5> QED
          BY <3>3, <3>6, <5>1
      <4>2. CASE erasure[x].subject \notin Installation
        <5>1. (erasure[x].subject \in Installation) = FALSE
          BY <4>2
        <5> QED
          BY <3>3, <3>4, <3>6, <4>2, <5>1
      <4> QED
        BY <4>1, <4>2
    <3> QED
      BY <1>2, <3>5, <3>6 DEF Reach
  <2>2. erasure'[x] = [erasure[x] EXCEPT !.status = "reached", !.resolved = resolved, !.insts = insts]
    BY <1>0, <2>1
  <2>3. /\ erasure'[x] \in ErasureRow /\ erasure'[x].status = "reached" /\ erasure'[x].at = erasure[x].at
        /\ erasure'[x].subject = erasure[x].subject /\ erasure'[x].insts = insts /\ erasure'[x].resolved = resolved
        /\ erasure'[x].submitted = erasure[x].submitted /\ erasure'[x].answered = erasure[x].answered
    BY <1>0, <2>2 DEF ErasureRow
  <2>4. erasure[x].status = "asked" /\ erasure[x].insts = {} /\ erasure[x].at <= clock
    BY <1>2 DEF Reach, Requested, Numbered
  <2>5. faults' \in 0 .. MaxFaults
    BY <1>2 DEF Reach, ErasureTypeOK, Shape
  <2> QED
    BY <1>0, <1>2, <2>1, <2>3, <2>4, <2>5 DEF Reach, ghosts, Requested
<1>3. CASE Record(x)
  <2>1. erasure'[x] = [erasure[x] EXCEPT !.status = "pending"]
    BY <1>0, <1>3 DEF Record
  <2>2. /\ erasure'[x] \in ErasureRow /\ erasure'[x].status = "pending" /\ erasure'[x].at = erasure[x].at
        /\ erasure'[x].subject = erasure[x].subject /\ erasure'[x].insts = erasure[x].insts
        /\ erasure'[x].resolved = erasure[x].resolved
        /\ erasure'[x].submitted = erasure[x].submitted /\ erasure'[x].answered = erasure[x].answered
    BY <1>0, <2>1 DEF ErasureRow
  <2>3. erasure[x].status = "reached" /\ erasure[x].at <= clock
    BY <1>3 DEF Record, Numbered
  <2> QED
    BY <1>0, <1>3, <2>2, <2>3 DEF Record, ghosts, Requested, ErasureTypeOK
<1> QED
  BY <1>1, <1>2, <1>3

LEMMA AnswerEffect ==
    ASSUME ErasureTypeOK, NEW x \in Erasure, Answer(x)
    PROVE  /\ erasure' \in [Erasure -> ErasureRow] /\ skip' = Unknown
           /\ erasure[x].status \in {"pending", "deleted", "gone"}
           /\ \A y \in Erasure :
                 /\ erasure'[y].status = erasure[y].status /\ erasure'[y].subject = erasure[y].subject
                 /\ erasure'[y].at = erasure[y].at /\ erasure'[y].insts = erasure[y].insts
                 /\ erasure'[y].resolved = erasure[y].resolved /\ erasure'[y].submitted = erasure[y].submitted
                 /\ y # x => erasure'[y].answered = erasure[y].answered
           /\ UNCHANGED <<tables, files, mutations, targets, batch, pass, clock, faults, ghosts>>
  BY Typed DEF Answer, ErasureRow

\* What the pass writes when it commits.
LEMMA CommitEffect ==
    ASSUME ErasureTypeOK, Commit
    PROVE  \E gone \in SUBSET pass.claimed :
              /\ pass.pc = "commit"
              /\ erasure' \in [Erasure -> ErasureRow]
              /\ \A x \in gone : /\ erasure[x].status = "deleted" /\ ~Carried(x)
                                 /\ erasure'[x].status = "gone" /\ erasure'[x].insts = erasure[x].insts
                                 /\ erasure'[x].resolved = erasure[x].resolved
                                 /\ erasure'[x].submitted = erasure[x].submitted
              /\ \A x \in Working : /\ erasure'[x].status = IF pass.decided = "done" THEN "deleted" ELSE "pending"
                                    /\ erasure'[x].insts = pass.insts[x] /\ erasure'[x].resolved
                                    /\ erasure'[x].submitted =
                                          IF pass.decided = "deletes" THEN FALSE
                                          ELSE IF pass.decided = "states" THEN TRUE ELSE erasure[x].submitted
              /\ \A x \in Erasure : /\ erasure'[x].at = erasure[x].at /\ erasure'[x].subject = erasure[x].subject
                                    /\ erasure'[x].answered = erasure[x].answered
              /\ \A x \in Erasure \ (gone \cup Working) : erasure'[x] = erasure[x]
              /\ skip' = Unknown \/ skip' = skip
              /\ \/ pass' = Asleep /\ PassEnds
                 \/ pass' = [Asleep EXCEPT !.pc = "drop"] /\ UNCHANGED batch
              /\ UNCHANGED <<tables, files, mutations, targets, clock, faults, ghosts>>
<1> DEFINE done == {x \in pass.claimed : erasure[x].status = "deleted"}
           gone == IF \E x \in done : Carried(x) THEN {} ELSE done
<1>1. /\ \A x \in gone : x \in pass.claimed /\ erasure[x].status = "deleted" /\ ~Carried(x)
      /\ pass.claimed \subseteq Erasure /\ pass.insts \in [Erasure -> SUBSET Installation]
      /\ pass.decided \in {"wait", "deletes", "states", "done"}
      /\ gone \subseteq pass.claimed
  BY Typed DEF Worker
<1>2. /\ erasure' = [x \in Erasure |-> IF x \in gone THEN [erasure[x] EXCEPT !.status = "gone"]
                                       ELSE IF x \in Working THEN Decided(x) ELSE erasure[x]]
      /\ pass.pc = "commit"
      /\ skip' = Unknown \/ skip' = skip
      /\ \/ pass' = Asleep /\ PassEnds
         \/ pass' = [Asleep EXCEPT !.pc = "drop"] /\ UNCHANGED batch
      /\ UNCHANGED <<tables, files, mutations, targets, clock, faults, ghosts>>
  BY DEF Commit
<1> HIDE DEF gone
<1>3. \A x \in gone : x \notin Working
  BY <1>1 DEF Working, Active
<1>4. ASSUME NEW x \in Erasure PROVE erasure[x] \in ErasureRow
  BY Typed
<1>5. ASSUME NEW x \in gone
      PROVE  /\ erasure'[x] \in ErasureRow /\ erasure'[x].status = "gone" /\ erasure'[x].insts = erasure[x].insts
             /\ erasure'[x].resolved = erasure[x].resolved /\ erasure'[x].submitted = erasure[x].submitted
             /\ erasure'[x].at = erasure[x].at /\ erasure'[x].subject = erasure[x].subject
             /\ erasure'[x].answered = erasure[x].answered
  BY <1>1, <1>2, <1>4 DEF ErasureRow
<1>6. ASSUME NEW x \in Working
      PROVE  /\ erasure'[x] \in ErasureRow
             /\ erasure'[x].status = IF pass.decided = "done" THEN "deleted" ELSE "pending"
             /\ erasure'[x].insts = pass.insts[x] /\ erasure'[x].resolved
             /\ erasure'[x].submitted = IF pass.decided = "deletes" THEN FALSE
                                        ELSE IF pass.decided = "states" THEN TRUE ELSE erasure[x].submitted
             /\ erasure'[x].at = erasure[x].at /\ erasure'[x].subject = erasure[x].subject
             /\ erasure'[x].answered = erasure[x].answered
  <2>1. x \in Erasure /\ erasure[x].status = "pending" /\ pass.insts[x] \in SUBSET Installation
    BY <1>1 DEF Working, Active
  <2>2. erasure'[x] = Decided(x)
    BY <1>2, <1>3, <2>1
  <2> DEFINE row == [erasure[x] EXCEPT !.insts = pass.insts[x], !.resolved = TRUE]
  <2>3. /\ row \in ErasureRow /\ row.status = "pending" /\ row.insts = pass.insts[x] /\ row.resolved
        /\ row.submitted = erasure[x].submitted /\ row.at = erasure[x].at /\ row.subject = erasure[x].subject
        /\ row.answered = erasure[x].answered
    BY <1>4, <2>1 DEF ErasureRow
  <2>4. Decided(x) = CASE pass.decided = "wait"    -> row
                       [] pass.decided = "deletes" -> [row EXCEPT !.submitted = FALSE]
                       [] pass.decided = "states"  -> [row EXCEPT !.submitted = TRUE]
                       [] pass.decided = "done"    -> [row EXCEPT !.status = "deleted"]
    BY DEF Decided
  <2> HIDE DEF row
  <2>5. CASE pass.decided = "wait"
    BY <2>2, <2>3, <2>4, <2>5
  <2>6. CASE pass.decided = "deletes"
    <3>1. erasure'[x] = [row EXCEPT !.submitted = FALSE]
      BY <2>2, <2>4, <2>6
    <3> QED
      BY <2>3, <2>6, <3>1 DEF ErasureRow
  <2>7. CASE pass.decided = "states"
    <3>1. erasure'[x] = [row EXCEPT !.submitted = TRUE]
      BY <2>2, <2>4, <2>7
    <3> QED
      BY <2>3, <2>7, <3>1 DEF ErasureRow
  <2>8. CASE pass.decided = "done"
    <3>1. erasure'[x] = [row EXCEPT !.status = "deleted"]
      BY <2>2, <2>4, <2>8
    <3> QED
      BY <2>3, <2>8, <3>1 DEF ErasureRow
  <2> QED
    BY <1>1, <2>5, <2>6, <2>7, <2>8
<1>7. \A x \in Erasure \ (gone \cup Working) : erasure'[x] = erasure[x]
  BY <1>2
<1>8. \A x \in Erasure : erasure'[x] \in ErasureRow
  BY <1>1, <1>4, <1>5, <1>6, <1>7
<1>9. erasure' \in [Erasure -> ErasureRow]
  BY <1>2, <1>8
<1>10. \A x \in Erasure : /\ erasure'[x].at = erasure[x].at /\ erasure'[x].subject = erasure[x].subject
                          /\ erasure'[x].answered = erasure[x].answered
  BY <1>5, <1>6, <1>7
<1> QED
  BY <1>1, <1>2, <1>5, <1>6, <1>7, <1>9, <1>10

LEMMA TickEffect ==
    ASSUME ErasureTypeOK, Requested, Tick
    PROVE  \E late \in [Erasure -> SUBSET Installation] :
              /\ pass.pc = "idle" /\ \A b \in Batch : ~batch[b].overlaps
              /\ \A x \in Erasure : erasure[x].resolved => late[x] = erasure[x].insts
              /\ targets' \in [Erasure -> Targets]
              /\ \A x \in Erasure : /\ x \notin Unfinished => targets'[x] = NoTargets
                                    /\ x \in Unfinished /\ targets[x].held => targets'[x] = targets[x]
                                    /\ x \in Unfinished /\ ~targets[x].held =>
                                          targets'[x].held /\ targets'[x].insts = late[x]
              /\ \/ Unfinished = {} /\ pass' = pass
                 \/ /\ Unfinished # {}
                    /\ pass' \in Worker /\ pass'.pc = "count" /\ pass'.claimed = Unfinished
                    /\ pass'.insts = late /\ pass'.rows = {} /\ pass'.decided = "wait"
              /\ mistargeted' = mistargeted \cup {x \in Unfinished : targets[x].held /\ targets[x].insts # late[x]}
              /\ UNCHANGED <<tables, files, mutations, erasure, skip, batch, clock, faults, stored>>
<1> DEFINE late == [x \in Erasure |-> IF x \in Unfinished /\ ~erasure[x].resolved
                                      THEN Resolved(erasure[x].subject) ELSE erasure[x].insts]
           shared(x) == {i \in Installation : erasure[x].subject \in LinkedUsers(i)} \ late[x]
<1>1. late \in [Erasure -> SUBSET Installation]
  <2> SUFFICES ASSUME NEW x \in Erasure PROVE (IF x \in Unfinished /\ ~erasure[x].resolved
                                      THEN Resolved(erasure[x].subject) ELSE erasure[x].insts) \in SUBSET Installation
    OBVIOUS
  <2>1. erasure[x].insts \in SUBSET Installation /\ erasure[x].subject \in Subjects
    BY Typed DEF ErasureRow
  <2> QED
    BY <2>1, ResolvedTyped
<1>2. \A x \in Erasure : erasure[x].resolved => late[x] = erasure[x].insts
  OBVIOUS
<1>3. /\ targets' = [x \in Erasure |-> IF x \notin Unfinished THEN NoTargets
                                       ELSE IF targets[x].held THEN targets[x]
                                       ELSE [held |-> TRUE, insts |-> late[x], shared |-> shared(x)]]
      /\ pass' = IF Unfinished = {} THEN pass
                   ELSE [Asleep EXCEPT !.pc = "count", !.claimed = Unfinished, !.insts = late]
      /\ mistargeted' = mistargeted \cup {x \in Unfinished : targets[x].held /\ targets[x].insts # late[x]}
      /\ pass.pc = "idle" /\ \A b \in Batch : ~batch[b].overlaps
      /\ UNCHANGED <<tables, files, mutations, erasure, skip, batch, clock, faults, stored>>
  BY DEF Tick
<1>4. \A x \in Erasure : shared(x) \in SUBSET Installation
  OBVIOUS
<1> HIDE DEF late, shared
<1>5. targets' \in [Erasure -> Targets]
  BY <1>1, <1>3, <1>4, Typed, NoTargetsTyped DEF Targets
<1>6. \A x \in Erasure : /\ x \notin Unfinished => targets'[x] = NoTargets
                         /\ x \in Unfinished /\ targets[x].held => targets'[x] = targets[x]
                         /\ x \in Unfinished /\ ~targets[x].held => targets'[x].held /\ targets'[x].insts = late[x]
  BY <1>3
<1>7. Unfinished # {} => /\ pass' \in Worker /\ pass'.pc = "count" /\ pass'.claimed = Unfinished
                   /\ pass'.insts = late /\ pass'.rows = {} /\ pass'.decided = "wait"
  <2>1. Unfinished \in SUBSET Erasure
    BY DEF Unfinished
  <2> QED
    BY <1>1, <1>3, <2>1, AsleepTyped DEF Asleep, Worker
<1> QED
  BY <1>1, <1>2, <1>3, <1>5, <1>6, <1>7

-----------------------------------------------------------------------------
(* The deletes: Erasing is inductive                                          *)

LEMMA InitErases ==
    ASSUME Shape, ErasureInit
    PROVE  Erasing
<1>1. ErasureTypeOK
  <2>1. 0 \in Time /\ 0 \in 0 .. MaxFaults /\ (CHOOSE s \in Subjects : TRUE) \in Subjects
    BY DEF Shape, Time
  <2>2. [status |-> "none", subject |-> CHOOSE s \in Subjects : TRUE, at |-> 0, insts |-> {},
         resolved |-> FALSE, submitted |-> FALSE, answered |-> FALSE] \in ErasureRow
    BY <2>1 DEF ErasureRow
  <2> QED
    BY <2>1, <2>2, RestTyped, AsleepTyped, NoTargetsTyped, TypeParts DEF ErasureInit
<1>2. \A x \in Erasure : /\ erasure[x].status = "none" /\ erasure[x].at = 0 /\ erasure[x].insts = {}
                         /\ ~erasure[x].resolved /\ ~erasure[x].submitted /\ ~erasure[x].answered
                         /\ targets[x] = NoTargets
  BY DEF ErasureInit
<1>3. /\ \A b \in Batch : batch[b].pc = "idle" /\ batch[b].left = {} /\ batch[b].received = 0
      /\ pass = Asleep /\ clock = 0 /\ events = {} /\ records = {} /\ links = {} /\ mutations = {}
  BY RestTyped DEF ErasureInit
<1>4. Active = {} /\ Owing = {} /\ Working = {}
  BY <1>2 DEF Active, Owing, Working
<1> QED
  BY <1>1, <1>2, <1>3, <1>4, AsleepTyped, NoTargetsTyped
     DEF Erasing, Numbered, FreshRows, Fresh, Requested, OnTarget, Claims, InPass, AnswerHides,
         Settled, LastPass, DeletedEverywhere

\* What leaves the tables, the deletes, the erasures and the pass alone.
LEMMA QuietErases ==
    ASSUME Shape, Erasing, skip' = skip \/ skip' = Active, files' \subseteq files,
           UNCHANGED <<tables, mutations, targets, erasure, batch, pass, clock, faults, ghosts>>
    PROVE  Erasing'
<1>1. ErasureTypeOK'
  BY DEF Erasing, tables, ghosts, Active, ErasureTypeOK
<1>2. Numbered' /\ FreshRows' /\ Requested' /\ OnTarget'
  BY DEF Erasing, tables, ghosts, Numbered, FreshRows, Fresh, Requested, OnTarget
<1>3. Claims' /\ Settled' /\ AnswerHides'
  BY DEF Erasing, tables, ghosts, Claims, InPass, Owing, Unfinished, Active, Settled, Before, ToWrite, AnswerHides
<1>4. LastPass' /\ DeletedEverywhere'
  BY DEF Erasing, tables, ghosts, LastPass, Working, Active, Named, Carries, DeletedEverywhere, Covers,
         Before, ToWrite, EventDeletes
<1> QED
  BY <1>1, <1>2, <1>3, <1>4 DEF Erasing

LEMMA StampErases ==
    ASSUME Shape, Erasing, NEW b \in Batch, Stamp(b)
    PROVE  Erasing'
<1>0. ErasureTypeOK
  BY DEF Erasing
<1>1. /\ clock' = clock + 1 /\ clock \in Nat /\ clock + 1 \in Time
      /\ batch' \in [Batch -> Insert]
      /\ batch[b].pc = "idle" /\ batch'[b].pc = "lookup" /\ batch'[b].received = clock + 1
      /\ batch'[b].left = {} /\ ~batch'[b].overlaps
      /\ \A c \in Batch \ {b} : batch'[c] = batch[c]
      /\ UNCHANGED <<tables, files, mutations, targets, erasure, skip, pass, faults, ghosts>>
  BY <1>0, StampEffect
<1>2. ErasureTypeOK'
  BY <1>0, <1>1 DEF ErasureTypeOK, Insert, tables, ghosts
<1>3. Numbered'
  <2>1. /\ \A x \in Erasure : erasure[x].at <= clock + 1 /\ erasure[x].at \in Nat
        /\ \A c \in Batch : batch[c].received <= clock + 1
        /\ \A r \in events \cup records \cup links \cup pass.rows : r.received <= clock + 1
        /\ \A m \in mutations : \A r \in m.rows : r.received <= clock + 1
    BY <1>0, <1>1, Typed DEF Erasing, Numbered, Worker
  <2> QED
    BY <1>1, <2>1 DEF Erasing, Numbered, tables
<1>4. FreshRows'
  <2>1. /\ \A r \in events \cup records \cup links \cup pass.rows : r.received # clock + 1
        /\ \A m \in mutations : \A r \in m.rows : r.received # clock + 1
        /\ \A c \in Batch : batch[c].received # clock + 1
    BY <1>0, <1>1, Typed DEF Erasing, Numbered, Worker
  <2> QED
    BY <1>1, <2>1 DEF Erasing, FreshRows, Fresh, tables
<1>5. \A x \in Erasure : ~(clock + 1 < erasure[x].at)
  BY <1>0, <1>1, Typed DEF Erasing, Numbered
<1>6. Requested' /\ OnTarget'
  BY <1>1 DEF Erasing, tables, ghosts, Requested, OnTarget
<1>7. Claims' /\ AnswerHides'
  BY <1>1 DEF Erasing, ghosts, Claims, InPass, Owing, Unfinished, Active, AnswerHides
<1>8. \A c \in Batch : \A x \in Erasure : Before(c, x)' => Before(c, x) /\ batch'[c] = batch[c]
  BY <1>1, <1>5 DEF Before, ToWrite
<1>9. Settled'
  BY <1>1, <1>8 DEF Erasing, Settled, InPass, Active
<1>10. LastPass'
  BY <1>1 DEF Erasing, tables, LastPass, Working, Active, Named, Carries
<1>11. DeletedEverywhere'
  BY <1>1, <1>8 DEF Erasing, tables, ghosts, DeletedEverywhere, Covers, Carries, EventDeletes
<1> QED
  BY <1>2, <1>3, <1>4, <1>6, <1>7, <1>9, <1>10, <1>11 DEF Erasing

LEMMA LookupErases ==
    ASSUME Shape, Erasing, NEW b \in Batch, Lookup(b)
    PROVE  Erasing'
<1>0. ErasureTypeOK
  BY DEF Erasing
<1>1. /\ batch' \in [Batch -> Insert]
      /\ batch[b].pc = "lookup" /\ batch'[b].pc = "insert" /\ batch'[b].overlaps = batch[b].overlaps
      /\ \/ batch'[b].left = {"events", "states"} /\ batch'[b].received = batch[b].received
         \/ /\ batch'[b].left = {"states"} /\ RowOf(b)' \in events
            /\ batch'[b].received = RowOf(b)'.received
      /\ \A c \in Batch \ {b} : batch'[c] = batch[c]
      /\ UNCHANGED <<tables, files, mutations, targets, erasure, skip, pass, clock, faults, ghosts>>
  BY <1>0, LookupEffect
<1>2. ErasureTypeOK'
  BY <1>0, <1>1 DEF ErasureTypeOK, Insert, tables, ghosts
<1>3. Numbered'
  BY <1>1 DEF Erasing, Numbered, tables
<1>4. FreshRows'
  <2>1. ASSUME NEW c \in Batch, Fresh(c)' PROVE Fresh(c) /\ batch'[c].received = batch[c].received
    BY <1>1, <2>1 DEF Fresh
  <2>2. ASSUME NEW c \in Batch, Fresh(c)', NEW d \in Batch \ {c}, batch'[d].pc # "idle"
        PROVE  batch'[d].received # batch'[c].received
    <3>1. CASE d # b
      BY <1>1, <2>1, <2>2, <3>1 DEF Erasing, FreshRows
    <3>2. CASE d = b
      BY <1>1, <2>1, <2>2, <3>2 DEF Erasing, FreshRows
    <3> QED
      BY <3>1, <3>2
  <2> QED
    BY <1>1, <2>1, <2>2 DEF Erasing, FreshRows, tables
<1>6. Requested' /\ OnTarget'
  BY <1>1 DEF Erasing, tables, ghosts, Requested, OnTarget
<1>7. Claims' /\ AnswerHides'
  BY <1>1 DEF Erasing, ghosts, Claims, InPass, Owing, Unfinished, Active, AnswerHides
<1>8. \A c \in Batch : \A x \in Erasure : Before(c, x)' => Before(c, x) /\ batch'[c].overlaps = batch[c].overlaps
  BY <1>1 DEF Before, ToWrite
<1>9. Settled'
  BY <1>1, <1>8 DEF Erasing, Settled, InPass, Active
<1>10. LastPass'
  BY <1>1 DEF Erasing, tables, LastPass, Working, Active, Named, Carries
<1>11. DeletedEverywhere'
  BY <1>1, <1>8 DEF Erasing, tables, ghosts, DeletedEverywhere, Covers, Carries, EventDeletes
<1> QED
  BY <1>2, <1>3, <1>4, <1>6, <1>7, <1>9, <1>10, <1>11 DEF Erasing

(* A row that lands now was received before no erasure that has been settled, *)
(* and a row not written yet is none of those that land.                      *)
LEMMA LandErases ==
    ASSUME Shape, Erasing, NEW b \in Batch, Land(b)
    PROVE  Erasing'
<1>0. ErasureTypeOK
  BY DEF Erasing
<1>1. PICK t \in batch[b].left :
          /\ t \in {"events", "states"} /\ batch[b].pc = "insert"
          /\ events'  = (IF t = "events" THEN events \cup {RowOf(b)}  ELSE events)
          /\ records' = (IF t = "states" THEN records \cup {RowOf(b)} ELSE records)
          /\ links'   = (IF t = "states" THEN links \cup {RowOf(b)}   ELSE links)
          /\ batch' \in [Batch -> Insert]
          /\ \/ /\ batch[b].left = {t} /\ stored' = stored \cup {RowOf(b)}
                /\ batch'[b] = Rest
             \/ /\ batch[b].left # {t} /\ stored' = stored
                /\ batch'[b].pc = "insert" /\ batch'[b].left = batch[b].left \ {t}
                /\ batch'[b].overlaps = batch[b].overlaps /\ batch'[b].received = batch[b].received
                /\ RowOf(b)' = RowOf(b)
          /\ \A c \in Batch \ {b} : batch'[c] = batch[c]
          /\ UNCHANGED <<files, mutations, targets, erasure, skip, pass, clock, faults, mistargeted>>
  BY <1>0, LandEffect
<1>2. RowOf(b) \in Row /\ RowOf(b).received = batch[b].received
  BY <1>0, Typed DEF RowOf
<1>3. ErasureTypeOK'
  BY <1>0, <1>1, <1>2 DEF ErasureTypeOK, Insert
<1>4. Numbered'
  BY <1>0, <1>1, <1>2, RestTyped DEF Erasing, Numbered, ErasureTypeOK, Time
<1>5. FreshRows'
  <2>1. ASSUME NEW c \in Batch, Fresh(c)' PROVE c # b /\ batch'[c] = batch[c] /\ Fresh(c)
    BY <1>1, <2>1, RestTyped DEF Fresh
  <2>2. ASSUME NEW c \in Batch, Fresh(c)' PROVE batch[b].received # batch'[c].received
    BY <1>1, <2>1, <2>2 DEF Erasing, FreshRows
  <2>3. ASSUME NEW c \in Batch, Fresh(c)', NEW d \in Batch \ {c}, batch'[d].pc # "idle"
        PROVE  batch'[d].received # batch'[c].received
    BY <1>1, <2>1, <2>2, <2>3, RestTyped DEF Erasing, FreshRows
  <2> QED
    BY <1>1, <1>2, <2>1, <2>2, <2>3 DEF Erasing, FreshRows
<1>6. Requested' /\ OnTarget'
  BY <1>1 DEF Erasing, Requested, OnTarget
<1>7. Claims' /\ AnswerHides'
  BY <1>1 DEF Erasing, Claims, InPass, Owing, Unfinished, Active, AnswerHides
<1>8. \A c \in Batch : \A x \in Erasure : Before(c, x)' => Before(c, x) /\ batch'[c].overlaps = batch[c].overlaps
  BY <1>1, RestTyped DEF Before, ToWrite
<1>9. Settled'
  BY <1>1, <1>8 DEF Erasing, Settled, InPass, Active
<1>10. ASSUME NEW r \in events', r \notin events, NEW x \in Erasure, r.received < erasure[x].at
       PROVE  Before(b, x)
  BY <1>1, <1>2, <1>10 DEF Before, ToWrite
<1>11. LastPass'
  <2>1. \A r \in events' : \A x \in Erasure : Named(x, r)' => Named(x, r) /\ (r \in events \/ Before(b, x))
    BY <1>1, <1>10 DEF Named, Carries
  <2>2. ASSUME pass.decided = "done", NEW x \in Working, Before(b, x) PROVE FALSE
    <3>1. InPass
      BY <2>2 DEF Erasing, Claims, Working
    <3> QED
      BY <2>2, <3>1 DEF Erasing, LastPass, Settled, Working
  <2> QED
    BY <1>1, <2>1, <2>2 DEF Erasing, LastPass, Working, Active
<1>12. DeletedEverywhere'
  <2>1. \A r \in events' : \A x \in Erasure : Covers(x, r)' => Covers(x, r) /\ (r \in events \/ Before(b, x))
    BY <1>1, <1>10 DEF Covers, Carries
  <2>2. \A x \in Erasure : \A r : Covers(x, r)' <=> Covers(x, r)
    BY <1>1 DEF Covers, Carries
  <2>3. EventDeletes' = EventDeletes
    BY <1>1 DEF EventDeletes
  <2> QED
    BY <1>1, <1>8, <2>1, <2>2, <2>3 DEF Erasing, DeletedEverywhere
<1> QED
  BY <1>3, <1>4, <1>5, <1>6, <1>7, <1>9, <1>11, <1>12 DEF Erasing

\* A request changes an erasure nothing is deleted for yet.
LEMMA RequestErases ==
    ASSUME Shape, Erasing, NEW x \in Erasure, Ask(x) \/ Reach(x) \/ Record(x)
    PROVE  Erasing'
<1>0. ErasureTypeOK /\ Requested /\ Numbered
  BY DEF Erasing
<1>1. /\ erasure' \in [Erasure -> ErasureRow]
      /\ erasure[x].status \in {"none", "asked", "reached"}
      /\ erasure'[x].status \in {"asked", "reached", "pending"}
      /\ ~erasure'[x].submitted /\ ~erasure'[x].answered /\ ~targets[x].held
      /\ erasure'[x].status = "asked" => ~erasure'[x].resolved
      /\ ~erasure'[x].resolved => erasure'[x].insts = {}
      /\ clock' \in Time /\ clock' \in Nat /\ clock <= clock' /\ erasure'[x].at <= clock'
      /\ faults' \in 0 .. MaxFaults
      /\ \A y \in Erasure \ {x} : erasure'[y] = erasure[y]
      /\ UNCHANGED <<tables, files, mutations, targets, skip, batch, pass, ghosts>>
  BY <1>0, RequestEffect
<1>2. ErasureTypeOK'
  BY <1>0, <1>1 DEF ErasureTypeOK, ErasureRow, tables, ghosts
<1>3. Numbered'
  <2>1. ASSUME NEW n \in Nat, n <= clock PROVE n <= clock'
    BY <1>0, <1>1, <2>1 DEF ErasureTypeOK, Time
  <2>2. /\ \A y \in Erasure : erasure[y].at \in Nat
        /\ \A b \in Batch : batch[b].received \in Nat
        /\ \A r \in events \cup records \cup links \cup pass.rows : r.received \in Nat
        /\ \A m \in mutations : \A r \in m.rows : r.received \in Nat
    BY <1>0, Typed DEF Worker
  <2> QED
    BY <1>0, <1>1, <2>1, <2>2 DEF Numbered, tables
<1>4. FreshRows'
  BY <1>1 DEF Erasing, FreshRows, Fresh, tables
<1>5. Requested' /\ OnTarget'
  BY <1>0, <1>1 DEF Erasing, Requested, OnTarget, ghosts
<1>6. x \notin pass.claimed /\ x \notin Unfinished /\ x \notin Active
  <2>1. x \notin Unfinished /\ x \notin Active
    BY <1>1 DEF Unfinished, Active
  <2> QED
    BY <2>1 DEF Erasing, Claims
<1>7. Claims'
  BY <1>1, <1>6 DEF Erasing, Claims, InPass, Owing, Unfinished, Active, ghosts
<1>8. AnswerHides' /\ Settled'
  BY <1>1, <1>6 DEF Erasing, AnswerHides, Settled, Active, Before, ToWrite, InPass
<1>9. LastPass'
  <2>1. Working' = Working
    BY <1>1, <1>6 DEF Working, Active
  <2>2. \A y \in Working : \A r : Named(y, r)' <=> Named(y, r)
    BY <1>1, <1>6 DEF Working, Active, Named, Carries
  <2>3. \A y \in Working : erasure'[y].submitted = erasure[y].submitted
    BY <1>1, <1>6 DEF Working, Active
  <2> QED
    BY <1>1, <2>1, <2>2, <2>3 DEF Erasing, LastPass, tables
<1>10. DeletedEverywhere'
  BY <1>1 DEF Erasing, tables, ghosts, DeletedEverywhere, Covers, Carries, EventDeletes, Before, ToWrite
<1> QED
  BY <1>2, <1>3, <1>4, <1>5, <1>7, <1>8, <1>9, <1>10 DEF Erasing

LEMMA AnswerErases ==
    ASSUME Shape, Erasing, NEW x \in Erasure, Answer(x)
    PROVE  Erasing'
<1>0. ErasureTypeOK
  BY DEF Erasing
<1>1. /\ erasure' \in [Erasure -> ErasureRow] /\ skip' = Unknown
      /\ erasure[x].status \in {"pending", "deleted", "gone"}
      /\ \A y \in Erasure :
            /\ erasure'[y].status = erasure[y].status /\ erasure'[y].subject = erasure[y].subject
            /\ erasure'[y].at = erasure[y].at /\ erasure'[y].insts = erasure[y].insts
            /\ erasure'[y].resolved = erasure[y].resolved /\ erasure'[y].submitted = erasure[y].submitted
            /\ y # x => erasure'[y].answered = erasure[y].answered
      /\ UNCHANGED <<tables, files, mutations, targets, batch, pass, clock, faults, ghosts>>
  BY <1>0, AnswerEffect
<1>2. ErasureTypeOK'
  BY <1>0, <1>1 DEF ErasureTypeOK, ErasureRow, tables, ghosts
<1>3. Numbered' /\ FreshRows'
  BY <1>1 DEF Erasing, Numbered, FreshRows, Fresh, tables
<1>4. Requested' /\ OnTarget'
  BY <1>1 DEF Erasing, Requested, OnTarget, ghosts
<1>5. Active' = Active /\ Unfinished' = Unfinished /\ Unfinished \subseteq Erasure
  BY <1>1 DEF Active, Unfinished
<1>6. Claims' /\ AnswerHides' /\ Settled'
  <2>1. Claims'
    BY <1>1, <1>5 DEF Erasing, Claims, InPass, Owing, ghosts
  <2>2. AnswerHides'
    BY <1>1 DEF AnswerHides
  <2>3. Settled'
    BY <1>1 DEF Erasing, Settled, Before, ToWrite, Active, InPass
  <2> QED
    BY <2>1, <2>2, <2>3
<1>7. LastPass'
  BY <1>1, <1>5 DEF Erasing, LastPass, Working, Named, Carries, tables, Active
<1>8. DeletedEverywhere'
  BY <1>1 DEF Erasing, tables, ghosts, DeletedEverywhere, Covers, Carries, EventDeletes, Before, ToWrite
<1> QED
  BY <1>2, <1>3, <1>4, <1>6, <1>7, <1>8 DEF Erasing

(* The pass begins: what was in flight when the last one ended has landed, and *)
(* every pending erasure that has targets is claimed.                          *)
LEMMA TickErases ==
    ASSUME Shape, Erasing, Tick
    PROVE  Erasing'
<1>0. ErasureTypeOK /\ Requested
  BY DEF Erasing
<1>1. PICK late \in [Erasure -> SUBSET Installation] :
          /\ pass.pc = "idle" /\ \A b \in Batch : ~batch[b].overlaps
          /\ \A x \in Erasure : erasure[x].resolved => late[x] = erasure[x].insts
          /\ targets' \in [Erasure -> Targets]
          /\ \A x \in Erasure : /\ x \notin Unfinished => targets'[x] = NoTargets
                                /\ x \in Unfinished /\ targets[x].held => targets'[x] = targets[x]
                                /\ x \in Unfinished /\ ~targets[x].held =>
                                      targets'[x].held /\ targets'[x].insts = late[x]
          /\ \/ Unfinished = {} /\ pass' = pass
             \/ /\ Unfinished # {}
                /\ pass' \in Worker /\ pass'.pc = "count" /\ pass'.claimed = Unfinished
                /\ pass'.insts = late /\ pass'.rows = {} /\ pass'.decided = "wait"
          /\ mistargeted' = mistargeted \cup {x \in Unfinished : targets[x].held /\ targets[x].insts # late[x]}
          /\ UNCHANGED <<tables, files, mutations, erasure, skip, batch, clock, faults, stored>>
  BY <1>0, TickEffect
<1>2. Unfinished \subseteq Erasure /\ Unfinished' = Unfinished /\ Active' = Active /\ Active \subseteq Unfinished
  BY <1>1 DEF Unfinished, Active
<1>3. ErasureTypeOK'
  BY <1>0, <1>1, <1>2 DEF ErasureTypeOK, Targets, Worker, tables
<1>4. Numbered' /\ FreshRows'
  <2>1. pass'.rows \subseteq pass.rows
    BY <1>1
  <2> QED
    BY <1>1, <2>1 DEF Erasing, Numbered, FreshRows, Fresh, tables
<1>5. Requested'
  BY <1>0, <1>1, NoTargetsTyped DEF Requested, Unfinished
<1>6. \A x \in Unfinished \ mistargeted' : targets'[x].held /\ targets'[x].insts = late[x]
  BY <1>1, <1>2
<1>7. OnTarget'
  <2> SUFFICES ASSUME NEW x \in Erasure \ mistargeted', targets'[x].held, erasure[x].resolved
               PROVE  targets'[x].insts = erasure[x].insts
    BY <1>1 DEF OnTarget
  <2>1. x \in Unfinished
    BY <1>1, NoTargetsTyped
  <2> QED
    BY <1>1, <1>6, <2>1
<1>8. Claims'
  <2>1. CASE Unfinished = {} /\ pass' = pass
    <3>1. pass.claimed = {} /\ Owing' = {} /\ pass.decided = "wait" /\ ~InPass'
      BY <1>1, <1>2, <2>1 DEF Erasing, Claims, InPass, Owing
    <3> QED
      BY <1>1, <2>1, <3>1 DEF Claims
  <2>2. CASE Unfinished # {} /\ pass'.pc = "count" /\ pass'.claimed = Unfinished
             /\ pass'.insts = late /\ pass'.decided = "wait"
    <3>1. Owing' \subseteq Unfinished
      BY <1>2 DEF Owing
    <3>2. \A x \in Unfinished : targets'[x].held
      BY <1>1, <1>2
    <3> QED
      BY <1>1, <1>2, <1>6, <2>2, <3>1, <3>2 DEF Claims, InPass
  <2> QED
    BY <1>1, <2>1, <2>2
<1>9. AnswerHides'
  BY <1>1, <1>2 DEF Erasing, AnswerHides
<1>10. Settled'
  BY <1>1, <1>2 DEF Erasing, Settled, Before, ToWrite, Active
<1>11. LastPass'
  BY <1>1 DEF Erasing, LastPass, Claims
<1>12. DeletedEverywhere'
  BY <1>1 DEF Erasing, tables, DeletedEverywhere, Covers, Carries, EventDeletes, Before, ToWrite
<1> QED
  BY <1>3, <1>4, <1>5, <1>7, <1>8, <1>9, <1>10, <1>11, <1>12 DEF Erasing

\* The deletes the pass submits name rows there are, and the last pass submits none.
LEMMA CountEffect ==
    ASSUME ErasureTypeOK, Count
    PROVE  /\ pass.pc = "count" /\ pass' \in Worker
           /\ pass'.claimed = pass.claimed /\ pass'.rows = pass.rows /\ pass'.insts = pass.insts
           /\ \/ /\ pass'.pc = "commit" /\ pass'.decided = pass.decided /\ mutations' = mutations
              \/ /\ pass'.pc = "commit" /\ pass'.decided = "deletes" /\ mutations = {}
                 /\ mutations' = {[table |-> "events", rows |-> {r \in events : \E x \in Working : Named(x, r)}]}
              \/ /\ pass'.pc = "replay" /\ pass'.decided = "done" /\ mutations = {} /\ mutations' = {}
                 /\ \A x \in Working : erasure[x].submitted /\ \A r \in events : ~Named(x, r)
              \/ /\ pass'.pc = "replay" /\ pass'.decided = "states" /\ mutations = {}
                 /\ \E x \in Working : ~erasure[x].submitted
                 /\ mutations' =
                       {[table |-> "records", rows |-> {r \in records : Rederived(Working, r)}],
                        [table |-> "links", rows |-> {r \in links : OfUser(Working, r)
                                   \/ \E x \in Working : InstallationOf[r.ev] \in targets[x].insts}]}
           /\ UNCHANGED <<tables, files, targets, erasure, skip, batch, clock, faults, ghosts>>
<1>1. pass \in Worker
  BY Typed
<1>2. {r \in events : \E x \in Working : Carries(x, targets[x].insts, r) /\ r.received < erasure[x].at}
         = {r \in events : \E x \in Working : Named(x, r)}
  BY DEF Named
<1> QED
  BY <1>1, <1>2 DEF Count, Worker, Named

LEMMA CountErases ==
    ASSUME Shape, Erasing, Count
    PROVE  Erasing'
<1>0. ErasureTypeOK
  BY DEF Erasing
<1> DEFINE named == {r \in events : \E x \in Working : Named(x, r)}
           rederived == {r \in records : Rederived(Working, r)}
           linked == {r \in links : OfUser(Working, r)
                         \/ \E x \in Working : InstallationOf[r.ev] \in targets[x].insts}
<1>1. /\ pass.pc = "count" /\ pass' \in Worker
      /\ pass'.claimed = pass.claimed /\ pass'.rows = pass.rows /\ pass'.insts = pass.insts
      /\ \/ /\ pass'.pc = "commit" /\ pass'.decided = pass.decided /\ mutations' = mutations
         \/ /\ pass'.pc = "commit" /\ pass'.decided = "deletes" /\ mutations = {}
            /\ mutations' = {[table |-> "events", rows |-> named]}
         \/ /\ pass'.pc = "replay" /\ pass'.decided = "done" /\ mutations = {} /\ mutations' = {}
            /\ \A x \in Working : erasure[x].submitted /\ \A r \in events : ~Named(x, r)
         \/ /\ pass'.pc = "replay" /\ pass'.decided = "states" /\ mutations = {}
            /\ mutations' = {[table |-> "records", rows |-> rederived], [table |-> "links", rows |-> linked]}
      /\ UNCHANGED <<tables, files, targets, erasure, skip, batch, clock, faults, ghosts>>
  BY <1>0, CountEffect
<1>2. named \subseteq events /\ rederived \subseteq records /\ linked \subseteq links
  OBVIOUS
<1> HIDE DEF named, rederived, linked
<1>3. \A m \in mutations' : m \in mutations \/ m.rows \subseteq events \cup records \cup links
  BY <1>1, <1>2
<1>4. \A m \in EventDeletes' : m \in EventDeletes \/ m.rows \subseteq events
  BY <1>1, <1>2 DEF EventDeletes
<1>5. ErasureTypeOK'
  BY <1>0, <1>1, <1>2, Typed DEF ErasureTypeOK, Worker, Table, tables, ghosts
<1>6. Numbered' /\ FreshRows'
  BY <1>1, <1>3 DEF Erasing, Numbered, FreshRows, Fresh, tables
<1>7. Requested' /\ OnTarget'
  BY <1>1 DEF Erasing, Requested, OnTarget, ghosts
<1>8. Claims'
  BY <1>1 DEF Erasing, Claims, InPass, Owing, Unfinished, Active, ghosts
<1>9. AnswerHides' /\ Settled'
  BY <1>1 DEF Erasing, AnswerHides, Settled, Active, Before, ToWrite, InPass
<1>10. LastPass'
  <2>1. Working' = Working /\ \A x \in Working, r \in events : Named(x, r)' <=> Named(x, r)
    BY <1>1 DEF Working, Active, Named, Carries
  <2>2. pass.decided = "wait"
    BY <1>1 DEF Erasing, Claims
  <2> QED
    BY <1>1, <2>1, <2>2 DEF LastPass, tables, Working, Active
<1>11. DeletedEverywhere'
  BY <1>1, <1>4 DEF Erasing, tables, ghosts, DeletedEverywhere, Covers, Carries, Before, ToWrite
<1> QED
  BY <1>5, <1>6, <1>7, <1>8, <1>9, <1>10, <1>11 DEF Erasing

LEMMA ReplayReadErases ==
    ASSUME Shape, Erasing, ReplayRead
    PROVE  Erasing'
<1>0. ErasureTypeOK
  BY DEF Erasing
<1>1. /\ pass.pc = "replay" /\ skip' = Active
      /\ pass' \in Worker /\ pass'.pc = "write" /\ pass'.rows \subseteq events
      /\ pass'.claimed = pass.claimed /\ pass'.insts = pass.insts /\ pass'.decided = pass.decided
      /\ UNCHANGED <<tables, files, mutations, targets, erasure, batch, clock, faults, ghosts>>
  BY <1>0, Typed DEF ReplayRead, Worker
<1>2. ErasureTypeOK'
  BY <1>0, <1>1 DEF ErasureTypeOK, Worker, Active, tables, ghosts
<1>3. Numbered' /\ FreshRows'
  BY <1>1 DEF Erasing, Numbered, FreshRows, Fresh, tables
<1>4. Requested' /\ OnTarget'
  BY <1>1 DEF Erasing, Requested, OnTarget, ghosts
<1>5. Claims' /\ AnswerHides' /\ Settled'
  BY <1>1 DEF Erasing, Claims, InPass, Owing, Unfinished, Active, ghosts, AnswerHides, Settled, Before, ToWrite
<1>6. LastPass'
  BY <1>1 DEF Erasing, LastPass, Working, Active, Named, Carries, tables
<1>7. DeletedEverywhere'
  BY <1>1 DEF Erasing, tables, ghosts, DeletedEverywhere, Covers, Carries, EventDeletes, Before, ToWrite
<1> QED
  BY <1>2, <1>3, <1>4, <1>5, <1>6, <1>7 DEF Erasing

LEMMA ReplayWriteErases ==
    ASSUME Shape, Erasing, ReplayWrite
    PROVE  Erasing'
<1>0. ErasureTypeOK
  BY DEF Erasing
<1>1. /\ pass.pc = "write" /\ records' = records \cup pass.rows /\ links' = links \cup pass.rows
      /\ pass' \in Worker /\ pass'.pc = "commit" /\ pass'.rows = pass.rows /\ pass.rows \subseteq Row
      /\ pass'.claimed = pass.claimed /\ pass'.insts = pass.insts /\ pass'.decided = pass.decided
      /\ UNCHANGED <<events, files, mutations, targets, erasure, skip, batch, clock, faults, ghosts>>
  BY <1>0, Typed DEF ReplayWrite, Worker
<1>2. ErasureTypeOK'
  BY <1>0, <1>1 DEF ErasureTypeOK, Worker, ghosts
<1>3. Numbered' /\ FreshRows'
  BY <1>1 DEF Erasing, Numbered, FreshRows, Fresh
<1>4. Requested' /\ OnTarget'
  BY <1>1 DEF Erasing, Requested, OnTarget, ghosts
<1>5. Claims' /\ AnswerHides' /\ Settled'
  BY <1>1 DEF Erasing, Claims, InPass, Owing, Unfinished, Active, ghosts, AnswerHides, Settled, Before, ToWrite
<1>6. LastPass'
  BY <1>1 DEF Erasing, LastPass, Working, Active, Named, Carries
<1>7. DeletedEverywhere'
  BY <1>1 DEF Erasing, ghosts, DeletedEverywhere, Covers, Carries, EventDeletes, Before, ToWrite
<1> QED
  BY <1>2, <1>3, <1>4, <1>5, <1>6, <1>7 DEF Erasing

(* The worker is idle again, or has targets to drop, and every insert in       *)
(* flight is marked.                                                           *)
LEMMA RestsSettled ==
    ASSUME ErasureTypeOK, \/ pass' = Asleep /\ PassEnds
                          \/ pass' = [Asleep EXCEPT !.pc = "drop"] /\ UNCHANGED batch
    PROVE  /\ batch' \in [Batch -> Insert] /\ pass' \in Worker
           /\ pass'.pc \in {"idle", "drop"} /\ pass'.claimed = {} /\ pass'.rows = {}
           /\ pass'.decided = "wait"
           /\ \A b \in Batch : /\ batch'[b].pc = batch[b].pc /\ batch'[b].received = batch[b].received
                               /\ batch'[b].left = batch[b].left /\ RowOf(b)' = RowOf(b)
                               /\ pass'.pc = "idle" /\ batch[b].pc # "idle" => batch'[b].overlaps
<1>1. CASE pass' = Asleep /\ PassEnds
  BY <1>1, PassEndsEffect, AsleepTyped
<1>2. CASE pass' = [Asleep EXCEPT !.pc = "drop"] /\ UNCHANGED batch
  BY <1>2, Typed, AsleepTyped DEF RowOf
<1> QED
  BY <1>1, <1>2

\* An erasure is deleted when nothing it names is left and no insert can bring it back.
LEMMA CommitErases ==
    ASSUME Shape, Erasing, Commit
    PROVE  Erasing'
<1>0. ErasureTypeOK
  BY DEF Erasing
<1>1. PICK gone \in SUBSET pass.claimed :
          /\ pass.pc = "commit"
          /\ erasure' \in [Erasure -> ErasureRow]
          /\ \A x \in gone : /\ erasure[x].status = "deleted" /\ ~Carried(x)
                             /\ erasure'[x].status = "gone" /\ erasure'[x].insts = erasure[x].insts
                             /\ erasure'[x].resolved = erasure[x].resolved
                             /\ erasure'[x].submitted = erasure[x].submitted
          /\ \A x \in Working : /\ erasure'[x].status = IF pass.decided = "done" THEN "deleted" ELSE "pending"
                                /\ erasure'[x].insts = pass.insts[x] /\ erasure'[x].resolved
                                /\ erasure'[x].submitted =
                                      IF pass.decided = "deletes" THEN FALSE
                                      ELSE IF pass.decided = "states" THEN TRUE ELSE erasure[x].submitted
          /\ \A x \in Erasure : /\ erasure'[x].at = erasure[x].at /\ erasure'[x].subject = erasure[x].subject
                                /\ erasure'[x].answered = erasure[x].answered
          /\ \A x \in Erasure \ (gone \cup Working) : erasure'[x] = erasure[x]
          /\ skip' = Unknown \/ skip' = skip
          /\ \/ pass' = Asleep /\ PassEnds
             \/ pass' = [Asleep EXCEPT !.pc = "drop"] /\ UNCHANGED batch
          /\ UNCHANGED <<tables, files, mutations, targets, clock, faults, ghosts>>
  BY <1>0, CommitEffect
<1>2. /\ batch' \in [Batch -> Insert] /\ pass' \in Worker
      /\ pass'.pc \in {"idle", "drop"} /\ pass'.claimed = {} /\ pass'.rows = {}
      /\ pass'.decided = "wait"
      /\ \A b \in Batch : /\ batch'[b].pc = batch[b].pc /\ batch'[b].received = batch[b].received
                          /\ batch'[b].left = batch[b].left
                          /\ pass'.pc = "idle" /\ batch[b].pc # "idle" => batch'[b].overlaps
  BY <1>0, <1>1, RestsSettled
<1>3. InPass /\ ~InPass'
  BY <1>1, <1>2 DEF InPass
<1>4. /\ \A x \in Working : x \in Erasure /\ erasure[x].status = "pending" /\ targets[x].held
                            /\ (x \notin mistargeted => targets[x].insts = pass.insts[x])
                            /\ (erasure[x].resolved => pass.insts[x] = erasure[x].insts)
      /\ \A x \in gone : x \in Erasure /\ targets[x].held
  BY <1>1, <1>3 DEF Erasing, Claims, Working, Active, Unfinished
<1> DEFINE Decides(x) == /\ x \in Working /\ erasure'[x].resolved /\ erasure'[x].insts = pass.insts[x]
                         /\ \/ erasure'[x].status = "pending" /\ pass.decided # "done"
                            \/ erasure'[x].status = "deleted" /\ pass.decided = "done"
           Ends(x) == /\ erasure[x].status = "deleted" /\ erasure'[x].status = "gone" /\ ~Carried(x)
                      /\ targets[x].held
           Stays(x) == erasure'[x].status = erasure[x].status
           Same(x) == /\ x \notin Working /\ erasure'[x].insts = erasure[x].insts
                      /\ erasure'[x].resolved = erasure[x].resolved /\ erasure'[x].submitted = erasure[x].submitted
                      /\ Ends(x) \/ Stays(x)
<1>5. ASSUME NEW x \in Erasure PROVE Decides(x) \/ Same(x)
  <2>1. CASE x \in Working
    BY <1>1, <2>1
  <2>2. CASE x \in gone
    <3>1. x \notin Working
      BY <1>1, <2>2 DEF Working, Active
    <3> QED
      BY <1>1, <1>4, <2>2, <3>1
  <2>3. CASE x \notin gone \cup Working
    BY <1>1, <2>3
  <2> QED
    BY <2>1, <2>2, <2>3
<1>6. \A x \in Erasure : /\ erasure'[x].at = erasure[x].at /\ erasure'[x].subject = erasure[x].subject
                          /\ erasure'[x].answered = erasure[x].answered
  BY <1>1
<1>7. UNCHANGED <<tables, files, mutations, targets, clock, faults, ghosts>>
  BY <1>1
<1>8. ErasureTypeOK'
  BY <1>0, <1>1, <1>2 DEF ErasureTypeOK, ErasureRow, Insert, Worker, tables, ghosts
<1>9. Numbered' /\ FreshRows'
  BY <1>1, <1>2 DEF Erasing, Numbered, FreshRows, Fresh, tables
<1>10. Requested'
  <2> SUFFICES ASSUME NEW x \in Erasure
               PROVE  /\ erasure'[x].status = "none" => erasure'[x].at = 0
                      /\ erasure'[x].status \in {"none", "asked"} => ~erasure'[x].resolved
                      /\ erasure'[x].status \in {"none", "asked", "reached"} =>
                            ~erasure'[x].submitted /\ ~erasure'[x].answered /\ ~targets'[x].held
                      /\ ~erasure'[x].resolved => erasure'[x].insts = {}
                      /\ erasure'[x].status \in {"deleted", "gone"} => erasure'[x].resolved
                      /\ erasure'[x].status = "deleted" => targets'[x].held
                      /\ ~targets'[x].held => targets'[x] = NoTargets
    BY DEF Requested
  <2>1. CASE Decides(x)
    BY <1>4, <1>7, <2>1
  <2>2. CASE Same(x)
    BY <1>6, <1>7, <2>2 DEF Erasing, Requested
  <2> QED
    BY <1>5, <2>1, <2>2
<1>11. OnTarget'
  <2> SUFFICES ASSUME NEW x \in Erasure \ mistargeted, targets[x].held, erasure'[x].resolved
               PROVE  targets[x].insts = erasure'[x].insts
    BY <1>7 DEF OnTarget, ghosts
  <2>1. CASE Decides(x)
    BY <1>4, <2>1
  <2>2. CASE Same(x)
    BY <2>2 DEF Erasing, OnTarget
  <2> QED
    BY <1>5, <2>1, <2>2
<1>12. Claims'
  BY <1>2, <1>3 DEF Claims
<1>13. AnswerHides'
  <2>1. \A x \in Active' : x \in Active
    BY <1>4, <1>5 DEF Active
  <2> QED
    BY <1>1, <2>1 DEF Erasing, AnswerHides, Active
<1>14. Settled'
  <2>1. \A b \in Batch, x \in Erasure : Before(b, x)' => batch[b].pc # "idle"
    BY <1>2 DEF Before, ToWrite, Erasing, Numbered
  <2> QED
    BY <1>2, <1>3, <2>1 DEF Settled, Active
<1>15. LastPass'
  BY <1>2 DEF LastPass
<1>16. ASSUME NEW x \in Erasure \ mistargeted, erasure'[x].status \in {"deleted", "gone"}
       PROVE  /\ \A r \in events : ~Covers(x, r)'
              /\ \A b \in Batch : ~Before(b, x)'
              /\ \A m \in EventDeletes : \A r \in m.rows : ~Covers(x, r)'
              /\ erasure'[x].status = "gone" => \A f \in files : f[1] = "events" => ~Covers(x, f[2])'
  <2>0. \A b \in Batch : Before(b, x)' => Before(b, x)
    BY <1>2, <1>6 DEF Before, ToWrite
  <2>1. CASE Decides(x)
    <3>1. pass.decided = "done" /\ targets[x].insts = pass.insts[x] /\ erasure'[x].status = "deleted"
      BY <1>4, <1>16, <2>1
    <3>2. \A r : Covers(x, r)' <=> Named(x, r)
      BY <1>6, <2>1, <3>1 DEF Covers, Named, Carries
    <3>3. mutations = {} /\ erasure[x].submitted /\ \A r \in events : ~Named(x, r)
      BY <2>1, <3>1 DEF Erasing, LastPass
    <3>4. \A b \in Batch : ~Before(b, x)
      BY <1>3, <1>4, <2>1, <3>3 DEF Erasing, Settled, Active
    <3> QED
      BY <2>0, <3>1, <3>2, <3>3, <3>4 DEF EventDeletes
  <2>2. CASE Same(x)
    <3>1. \A r : Covers(x, r)' <=> Covers(x, r)
      BY <1>6, <2>2 DEF Covers, Carries
    <3>2. CASE Stays(x)
      BY <1>16, <2>0, <3>1, <3>2 DEF Erasing, DeletedEverywhere
    <3>3. CASE Ends(x)
      <4>1. targets[x].insts = erasure[x].insts
        BY <3>3 DEF Erasing, Requested, OnTarget
      <4>2. \A f \in files : f[1] = "events" => ~Covers(x, f[2])
        BY <3>3, <4>1 DEF Carried, Covers, Carries
      <4>3. /\ \A r \in events : ~Covers(x, r)
            /\ \A b \in Batch : ~Before(b, x)
            /\ \A m \in EventDeletes : \A r \in m.rows : ~Covers(x, r)
        BY <3>3 DEF Erasing, DeletedEverywhere
      <4> QED
        BY <2>0, <3>1, <4>2, <4>3
    <3> QED
      BY <2>2, <3>2, <3>3
  <2> QED
    BY <1>5, <2>1, <2>2
<1>17. DeletedEverywhere'
  BY <1>16, <1>7 DEF DeletedEverywhere, EventDeletes, tables, ghosts
<1> QED
  BY <1>8, <1>9, <1>10, <1>11, <1>12, <1>13, <1>14, <1>15, <1>17 DEF Erasing

LEMMA DropTargetsErases ==
    ASSUME Shape, Erasing, DropTargets
    PROVE  Erasing'
<1>0. ErasureTypeOK
  BY DEF Erasing
<1>1. /\ pass.pc = "drop" /\ pass' = Asleep /\ PassEnds
      /\ targets' = [x \in Erasure |-> IF erasure[x].status = "gone" THEN NoTargets ELSE targets[x]]
      /\ UNCHANGED <<tables, files, mutations, erasure, skip, clock, faults, ghosts>>
  BY DEF DropTargets
<1>2. /\ batch' \in [Batch -> Insert] /\ pass' \in Worker
      /\ pass'.pc = "idle" /\ pass'.claimed = {} /\ pass'.rows = {}
      /\ pass'.decided = "wait"
      /\ \A b \in Batch : /\ batch'[b].pc = batch[b].pc /\ batch'[b].received = batch[b].received
                          /\ batch'[b].left = batch[b].left
                          /\ batch[b].pc # "idle" => batch'[b].overlaps
  BY <1>0, <1>1, RestsSettled, AsleepTyped
<1>3. targets' \in [Erasure -> Targets]
  BY <1>0, <1>1, Typed, NoTargetsTyped
<1>4. \A x \in Erasure : \/ targets'[x] = targets[x]
                         \/ erasure[x].status = "gone" /\ targets'[x] = NoTargets
  BY <1>1
<1>5. ErasureTypeOK'
  BY <1>0, <1>1, <1>2, <1>3 DEF ErasureTypeOK, Insert, Targets, Worker, tables, ghosts
<1>6. Numbered' /\ FreshRows'
  BY <1>1, <1>2 DEF Erasing, Numbered, FreshRows, Fresh, tables
<1>7. Requested' /\ OnTarget'
  BY <1>1, <1>4, NoTargetsTyped DEF Erasing, Requested, OnTarget, ghosts
<1>8. Claims' /\ LastPass'
  BY <1>2 DEF Claims, InPass, LastPass
<1>9. AnswerHides'
  BY <1>1 DEF Erasing, AnswerHides, Active
<1>10. \A b \in Batch, x \in Erasure : Before(b, x)' => Before(b, x) /\ batch'[b].overlaps
  BY <1>0, <1>1, <1>2 DEF Before, ToWrite, Erasing, Numbered
<1>11. Settled'
  BY <1>1, <1>2, <1>10 DEF Settled, Active, InPass
<1>12. DeletedEverywhere'
  BY <1>1, <1>10 DEF Erasing, tables, ghosts, DeletedEverywhere, Covers, Carries, EventDeletes
<1> QED
  BY <1>5, <1>6, <1>7, <1>8, <1>9, <1>11, <1>12 DEF Erasing

LEMMA PassFailsErases ==
    ASSUME Shape, Erasing, PassFails
    PROVE  Erasing'
<1>0. ErasureTypeOK
  BY DEF Erasing
<1>1. /\ pass' = Asleep /\ PassEnds /\ faults' \in 0 .. MaxFaults
      /\ UNCHANGED <<tables, files, mutations, targets, erasure, skip, clock, ghosts>>
  BY <1>0 DEF PassFails, ErasureTypeOK, Shape
<1>2. /\ batch' \in [Batch -> Insert] /\ pass' \in Worker
      /\ pass'.pc = "idle" /\ pass'.claimed = {} /\ pass'.rows = {}
      /\ pass'.decided = "wait"
      /\ \A b \in Batch : /\ batch'[b].pc = batch[b].pc /\ batch'[b].received = batch[b].received
                          /\ batch'[b].left = batch[b].left
                          /\ batch[b].pc # "idle" => batch'[b].overlaps
  BY <1>0, <1>1, RestsSettled, AsleepTyped
<1>5. ErasureTypeOK'
  BY <1>0, <1>1, <1>2 DEF ErasureTypeOK, Insert, Worker, tables, ghosts
<1>6. Numbered' /\ FreshRows'
  BY <1>1, <1>2 DEF Erasing, Numbered, FreshRows, Fresh, tables
<1>7. Requested' /\ OnTarget'
  BY <1>1 DEF Erasing, Requested, OnTarget, ghosts
<1>8. Claims' /\ LastPass'
  BY <1>2 DEF Claims, InPass, LastPass
<1>9. AnswerHides'
  BY <1>1 DEF Erasing, AnswerHides, Active
<1>10. \A b \in Batch, x \in Erasure : Before(b, x)' => Before(b, x) /\ batch'[b].overlaps
  BY <1>0, <1>1, <1>2 DEF Before, ToWrite, Erasing, Numbered
<1>11. Settled'
  BY <1>1, <1>2, <1>10 DEF Settled, Active, InPass
<1>12. DeletedEverywhere'
  BY <1>1, <1>10 DEF Erasing, tables, ghosts, DeletedEverywhere, Covers, Carries, EventDeletes
<1> QED
  BY <1>5, <1>6, <1>7, <1>8, <1>9, <1>11, <1>12 DEF Erasing

\* A delete applied masks rows, which none of the erasures gone covers.
LEMMA ApplyErases ==
    ASSUME Shape, Erasing, NEW m \in mutations, Apply(m)
    PROVE  Erasing'
<1>0. ErasureTypeOK
  BY DEF Erasing
<1>1. /\ mutations' = mutations \ {m}
      /\ events' \subseteq events /\ records' \subseteq records /\ links' \subseteq links
      /\ files' = files \cup {<<m.table, r>> : r \in m.rows}
      /\ UNCHANGED <<targets, erasure, skip, batch, pass, clock, faults, ghosts>>
  BY DEF Apply
<1>2. m.table \in Table /\ m.rows \subseteq Row
  BY <1>0, Typed
<1>3. ErasureTypeOK'
  BY <1>0, <1>1, <1>2 DEF ErasureTypeOK, ghosts
<1>4. Numbered' /\ FreshRows'
  BY <1>1 DEF Erasing, Numbered, FreshRows, Fresh
<1>5. Requested' /\ OnTarget'
  BY <1>1 DEF Erasing, Requested, OnTarget, ghosts
<1>6. Claims' /\ AnswerHides' /\ Settled'
  BY <1>1 DEF Erasing, Claims, InPass, Owing, Unfinished, Active, ghosts, AnswerHides, Settled, Before, ToWrite
<1>7. LastPass'
  BY <1>1 DEF Erasing, LastPass, Working, Active, Named, Carries
<1>8. DeletedEverywhere'
  <2>1. \A x \in Erasure : \A r : Covers(x, r)' <=> Covers(x, r)
    BY <1>1 DEF Covers, Carries
  <2>2. \A x \in Erasure, b \in Batch : Before(b, x)' <=> Before(b, x)
    BY <1>1 DEF Before, ToWrite
  <2>3. EventDeletes' \subseteq EventDeletes
    BY <1>1 DEF EventDeletes
  <2>4. ASSUME NEW x \in Erasure \ mistargeted, erasure[x].status = "gone", NEW f \in files', f[1] = "events"
        PROVE  ~Covers(x, f[2])
    <3>1. CASE f \in files
      BY <2>4, <3>1 DEF Erasing, DeletedEverywhere
    <3>2. CASE f \notin files
      <4>1. PICK r \in m.rows : f = <<m.table, r>>
        BY <1>1, <3>2
      <4>2. m \in EventDeletes
        BY <2>4, <4>1 DEF EventDeletes
      <4> QED
        BY <2>4, <4>1, <4>2 DEF Erasing, DeletedEverywhere
    <3> QED
      BY <3>1, <3>2
  <2> QED
    BY <1>1, <2>1, <2>2, <2>3, <2>4 DEF Erasing, DeletedEverywhere, ghosts
<1> QED
  BY <1>3, <1>4, <1>5, <1>6, <1>7, <1>8 DEF Erasing

LEMMA NextErases ==
    ASSUME Shape, Erasing, [ErasureNext]_erasureVars
    PROVE  Erasing'
<1>1. CASE \E b \in Batch : Ingest(b)
  BY <1>1, StampErases, LookupErases, LandErases DEF Ingest
<1>2. CASE \E x \in Erasure : Request(x)
  BY <1>2, RequestErases, AnswerErases DEF Request
<1>3. CASE LoadSkip \/ Merge \/ UNCHANGED erasureVars
  <2>1. /\ skip' = skip \/ skip' = Active
        /\ files' \subseteq files
        /\ UNCHANGED <<tables, mutations, targets, erasure, batch, pass, clock, faults, ghosts>>
    BY <1>3 DEF LoadSkip, Merge, erasureVars, tables, ghosts
  <2> QED
    BY <2>1, QuietErases
<1>4. CASE Pass
  BY <1>4, TickErases, CountErases, ReplayReadErases, ReplayWriteErases, CommitErases, DropTargetsErases DEF Pass
<1>5. CASE PassFails
  BY <1>5, PassFailsErases
<1>6. CASE \E m \in mutations : Apply(m)
  BY <1>6, ApplyErases
<1> QED
  BY <1>1, <1>2, <1>3, <1>4, <1>5, <1>6 DEF ErasureNext

(* What the event store holds, the deletes, the pass and the inserts know of    *)
(* each other, whatever interleaving, failure or delay.                        *)
THEOREM ErasureInvariance ==
    ErasureSpec => []Erasing
<1>1. ErasureInit => Erasing
  BY ShapeAssumption, InitErases
<1>2. Erasing /\ [ErasureNext]_erasureVars => Erasing'
  BY ShapeAssumption, NextErases
<1> QED
  BY <1>1, <1>2, PTL DEF ErasureSpec

\* Types of the rows, the deletes, the erasures, the inserts and the pass.
THEOREM ErasureTypeCorrect ==
    ErasureSpec => []ErasureTypeOK
<1>1. Erasing => ErasureTypeOK
  BY DEF Erasing
<1> QED
  BY <1>1, ErasureInvariance, PTL

(* An answered erasure hides what it covers as long as it is there, whatever  *)
(* insert was in flight and whatever pass failed.                             *)
THEOREM ErasedStaysHidden ==
    ErasureSpec => []ErasedHidden
<1>1. Erasing => ErasedHidden
  <2> SUFFICES ASSUME Erasing, NEW x \in Erasure \ mistargeted, erasure[x].answered,
                      NEW r \in events, Covers(x, r)
               PROVE  Hidden(r, SkipNow)
    BY DEF ErasedHidden, AnsweredHidden
  <2>1. erasure[x].status \in {"pending", "deleted", "gone"}
    BY Typed DEF Erasing, Requested, ErasureRow
  <2>2. x \in Active
    BY <2>1 DEF Erasing, DeletedEverywhere, Active
  <2>3. x \in SkipNow
    BY <2>2 DEF Erasing, AnswerHides, SkipNow
  <2> QED
    BY <2>3 DEF Hidden
<1> QED
  BY <1>1, ErasureInvariance, PTL

(* The pending erasure, the last to hold the erased ID, goes only when no file *)
(* carries an event it covers, and none comes after.                           *)
THEOREM GoneLeavesNoFile ==
    ErasureSpec => []GoneFromFiles
<1>1. Erasing => GoneFromFiles
  BY DEF Erasing, DeletedEverywhere, GoneFromFiles
<1> QED
  BY <1>1, ErasureInvariance, PTL

-----------------------------------------------------------------------------
(* What is kept: Keeping is inductive while no targets miss their erasure     *)

\* What an erasure names only grows: its targets with the pass, its row with the commit.
LEMMA ErasedWidens ==
    ASSUME ErasureTypeOK,
           \A x \in Erasure :
              \/ erasure[x].at = 0
              \/ /\ erasure'[x].at = erasure[x].at /\ erasure'[x].subject = erasure[x].subject
                 /\ erasure[x].insts \subseteq erasure'[x].insts \cup targets'[x].insts
                 /\ targets[x].insts \subseteq erasure'[x].insts \cup targets'[x].insts
    PROVE  \A r \in Row : Erased(r) => Erased(r)'
<1> SUFFICES ASSUME NEW r \in Row, NEW x \in Erasure, Covers(x, r) \/ Named(x, r)
             PROVE  Covers(x, r)' \/ Named(x, r)'
  BY DEF Erased
<1>1. r.received < erasure[x].at /\ r.received \in Nat /\ erasure[x].at # 0
  BY Typed DEF Covers, Named
<1> QED
  BY <1>1 DEF Covers, Named, Carries

LEMMA ErasedSame ==
    ASSUME UNCHANGED <<erasure, targets>>
    PROVE  \A r : Erased(r)' <=> Erased(r)
  BY DEF Erased, Covers, Named, Carries

(* A step that changes neither the rows, the deletes nor the inserts, that     *)
(* ends no erasure that owes a replay, and that erases no less.                *)
LEMMA NothingMovedKeeps ==
    ASSUME ErasureTypeOK, Keeping,
           \A r \in Row : Erased(r) => Erased(r)',
           Owing \subseteq Owing',
           \A x \in Owing : /\ \A r \in Row : Touches(x, r) => Touches(x, r)'
                            /\ \A b \in Batch : Ingested(b, "states") /\ ReplaysAfter(x, b) => ReplaysAfter(x, b)',
           UNCHANGED <<tables, mutations, stored>>,
           \A b \in Batch : Ingested(b, "states")' => Ingested(b, "states") /\ RowOf(b)' = RowOf(b),
           \A b \in Batch : Ingested(b, "events")' /\ RowOf(b)' \notin events =>
                             Ingested(b, "events") /\ RowOf(b)' = RowOf(b),
           Replayed'
    PROVE  Keeping'
<1>1. /\ \A b \in Batch : RowOf(b) \in Row
      /\ \A r \in stored : r \in Row
      /\ \A m \in mutations : \A r \in m.rows : r \in Row
  BY Typed
<1>2. /\ EventDeletes' = EventDeletes /\ StateDeletes' = StateDeletes
      /\ EventDeletes \subseteq mutations /\ StateDeletes \subseteq mutations
      /\ events' = events /\ records' = records /\ links' = links /\ stored' = stored
  BY DEF EventDeletes, StateDeletes, tables
<1>4. OnlyErasedDeleted'
  BY <1>1, <1>2 DEF Keeping, OnlyErasedDeleted
<1>5. EventsKept'
  <2>1. \A r \in stored' : (r \in events \/ Erased(r))'
    BY <1>1, <1>2 DEF Keeping, EventsKept
  <2>2. ASSUME NEW b \in Batch, Ingested(b, "events")', Ingested(b, "events"), RowOf(b)' = RowOf(b)
        PROVE  (RowOf(b) \in events \/ Erased(RowOf(b)))'
    <3>1. RowOf(b) \in events \/ Erased(RowOf(b))
      BY <2>2 DEF Keeping, EventsKept
    <3>2. Erased(RowOf(b)) => Erased(RowOf(b))'
      BY <1>1, <2>2 DEF Erased, Covers, Named, Carries
    <3> QED
      BY <1>2, <2>2, <3>1, <3>2
  <2> QED
    BY <1>2, <2>1, <2>2 DEF EventsKept
<1>6. StateDeletesOwed'
  BY <1>1, <1>2 DEF Keeping, StateDeletesOwed
<1>7. StatesKept'
  BY <1>1, <1>2 DEF Keeping, StatesKept
<1>8. HalvesKept'
  <2> SUFFICES ASSUME NEW b \in Batch, Ingested(b, "states")', ~Erased(RowOf(b))'
               PROVE  Safe(RowOf(b))' \/ \E x \in Owing' : Touches(x, RowOf(b))' /\ ReplaysAfter(x, b)'
    BY DEF HalvesKept
  <2>1. Ingested(b, "states") /\ ~Erased(RowOf(b)) /\ RowOf(b)' = RowOf(b) /\ RowOf(b) \in Row
    <3>1. RowOf(b)' = RowOf(b) /\ RowOf(b) \in Row /\ Ingested(b, "states")
      BY <1>1
    <3>2. Erased(RowOf(b)) => Erased(RowOf(b))'
      BY <3>1 DEF Erased, Covers, Named, Carries
    <3> QED
      BY <3>1, <3>2
  <2>2. Safe(RowOf(b)) => Safe(RowOf(b))'
    BY <1>2, <2>1 DEF Safe
  <2> QED
    BY <2>1, <2>2 DEF Keeping, HalvesKept
<1> QED
  BY <1>4, <1>5, <1>6, <1>7, <1>8 DEF Keeping

LEMMA InitKeeps ==
    ASSUME Shape, ErasureInit
    PROVE  Keeping
<1>1. /\ stored = {} /\ mutations = {} /\ pass = Asleep
      /\ \A b \in Batch : batch[b].pc = "idle"
  BY RestTyped DEF ErasureInit
<1>2. \A b \in Batch : ~Ingested(b, "events") /\ ~Ingested(b, "states")
  BY <1>1 DEF Ingested
<1> QED
  BY <1>1, <1>2, AsleepTyped DEF Keeping, OnlyErasedDeleted, EventsKept, StateDeletesOwed, StatesKept,
     HalvesKept, Replayed, EventDeletes, StateDeletes

LEMMA QuietKeeps ==
    ASSUME Shape, Erasing, Keeping, LoadSkip \/ Merge \/ UNCHANGED erasureVars
    PROVE  Keeping'
<1>0. ErasureTypeOK
  BY DEF Erasing
<1>1. UNCHANGED <<tables, mutations, targets, erasure, batch, pass, stored>>
  BY DEF LoadSkip, Merge, erasureVars, tables, ghosts
<1>2. \A r \in Row : Erased(r) => Erased(r)'
  BY <1>1, ErasedSame
<1>3. Owing' = Owing /\ \A x \in Owing : /\ \A r \in Row : Touches(x, r) => Touches(x, r)'
                                         /\ \A b \in Batch : ReplaysAfter(x, b) => ReplaysAfter(x, b)'
  BY <1>1 DEF Owing, Active, Touches, ReplaysAfter, InPass
<1>4. Replayed'
  BY <1>1 DEF Keeping, Replayed, Landed, Ingested, RowOf, tables, Erased, Covers, Named, Carries
<1> QED
  BY <1>0, <1>1, <1>2, <1>3, <1>4, NothingMovedKeeps DEF RowOf, Ingested

LEMMA AnswerKeeps ==
    ASSUME Shape, Erasing, Keeping, NEW x \in Erasure, Answer(x)
    PROVE  Keeping'
<1>0. ErasureTypeOK
  BY DEF Erasing
<1>1. /\ \A y \in Erasure :
            /\ erasure'[y].status = erasure[y].status /\ erasure'[y].subject = erasure[y].subject
            /\ erasure'[y].at = erasure[y].at /\ erasure'[y].insts = erasure[y].insts
            /\ erasure'[y].resolved = erasure[y].resolved /\ erasure'[y].submitted = erasure[y].submitted
      /\ UNCHANGED <<tables, files, mutations, targets, batch, pass, clock, faults, ghosts>>
  BY <1>0, AnswerEffect
<1>2. \A r : Erased(r)' <=> Erased(r)
  BY <1>1 DEF Erased, Covers, Named, Carries
<1>3. Owing' = Owing /\ \A y \in Owing : /\ \A r \in Row : Touches(y, r) => Touches(y, r)'
                                         /\ \A b \in Batch : ReplaysAfter(y, b) => ReplaysAfter(y, b)'
  BY <1>1 DEF Owing, Active, Touches, ReplaysAfter, InPass
<1>4. Replayed'
  <2>1. Landed' = Landed
    BY <1>1 DEF Landed, Ingested, RowOf, ghosts
  <2> QED
    BY <1>1, <1>2, <2>1 DEF Keeping, Replayed, tables
<1>5. UNCHANGED <<tables, mutations, stored>>
  BY <1>1 DEF ghosts
<1>6. \A b \in Batch : batch'[b] = batch[b] /\ RowOf(b)' = RowOf(b)
  BY <1>1 DEF RowOf
<1> QED
  BY <1>0, <1>2, <1>3, <1>4, <1>5, <1>6, NothingMovedKeeps DEF Ingested

LEMMA RequestKeeps ==
    ASSUME Shape, Erasing, Keeping, NEW x \in Erasure, Ask(x) \/ Reach(x) \/ Record(x)
    PROVE  Keeping'
<1>0. ErasureTypeOK /\ Requested /\ Numbered
  BY DEF Erasing
<1>1. /\ erasure[x].status \in {"none", "asked", "reached"} /\ ~targets[x].held
      /\ \/ erasure[x].at = 0
         \/ /\ erasure'[x].at = erasure[x].at /\ erasure'[x].subject = erasure[x].subject
            /\ erasure[x].insts \subseteq erasure'[x].insts
      /\ \A y \in Erasure \ {x} : erasure'[y] = erasure[y]
      /\ UNCHANGED <<tables, files, mutations, targets, skip, batch, pass, ghosts>>
  BY <1>0, RequestEffect
<1>2. targets[x].insts = {}
  BY <1>1, NoTargetsTyped DEF Erasing, Requested
<1>3. \A r \in Row : Erased(r) => Erased(r)'
  <2>1. \A y \in Erasure :
          \/ erasure[y].at = 0
          \/ /\ erasure'[y].at = erasure[y].at /\ erasure'[y].subject = erasure[y].subject
             /\ erasure[y].insts \subseteq erasure'[y].insts \cup targets'[y].insts
             /\ targets[y].insts \subseteq erasure'[y].insts \cup targets'[y].insts
    BY <1>1, <1>2
  <2> QED
    BY <1>0, <2>1, ErasedWidens
<1>4. x \notin Owing
  BY <1>1 DEF Owing
<1>5. /\ Owing \subseteq Owing'
      /\ \A y \in Owing : /\ \A r \in Row : Touches(y, r) => Touches(y, r)'
                          /\ \A b \in Batch : ReplaysAfter(y, b) => ReplaysAfter(y, b)'
  BY <1>1, <1>4 DEF Owing, Active, Touches, ReplaysAfter, InPass
<1>6. \A b \in Batch : batch'[b] = batch[b] /\ RowOf(b)' = RowOf(b)
  BY <1>1 DEF RowOf
<1>7. Landed' = Landed /\ Landed \subseteq Row
  <2>1. \A b \in Batch : RowOf(b) \in Row
    BY <1>0, Typed
  <2>2. stored \subseteq Row
    BY <1>0, Typed
  <2>3. Landed' = Landed
    BY <1>1 DEF Landed, Ingested, RowOf, ghosts
  <2> QED
    BY <2>1, <2>2, <2>3 DEF Landed
<1>8. Replayed'
  BY <1>1, <1>3, <1>7 DEF Keeping, Replayed, tables
<1>9. UNCHANGED <<tables, mutations, stored>>
  BY <1>1 DEF ghosts
<1> QED
  BY <1>0, <1>3, <1>5, <1>6, <1>8, <1>9, NothingMovedKeeps DEF Ingested

\* While no erasure is mistargeted, what the targets of one resolved name its row names.
LEMMA TickKeeps ==
    ASSUME Shape, Erasing, Keeping, Tick, mistargeted' = {}
    PROVE  Keeping'
<1>0. ErasureTypeOK /\ Requested
  BY DEF Erasing
<1>1. PICK late \in [Erasure -> SUBSET Installation] :
          /\ pass.pc = "idle" /\ \A b \in Batch : ~batch[b].overlaps
          /\ \A x \in Erasure : /\ x \notin Unfinished => targets'[x] = NoTargets
                                /\ x \in Unfinished /\ targets[x].held => targets'[x] = targets[x]
                                /\ x \in Unfinished /\ ~targets[x].held =>
                                      targets'[x].held /\ targets'[x].insts = late[x]
          /\ \/ Unfinished = {} /\ pass' = pass
             \/ Unfinished # {} /\ pass'.pc = "count" /\ pass'.decided = "wait"
          /\ mistargeted' = mistargeted \cup {x \in Unfinished : targets[x].held /\ targets[x].insts # late[x]}
          /\ UNCHANGED <<tables, files, mutations, erasure, skip, batch, clock, faults, stored>>
  BY <1>0, TickEffect
<1>2. mistargeted = {}
  BY <1>1
<1>3. \A r \in Row : Erased(r) => Erased(r)'
  <2> SUFFICES ASSUME NEW x \in Erasure
               PROVE  \/ erasure[x].at = 0
                      \/ /\ erasure'[x].at = erasure[x].at /\ erasure'[x].subject = erasure[x].subject
                         /\ erasure[x].insts \subseteq erasure'[x].insts \cup targets'[x].insts
                         /\ targets[x].insts \subseteq erasure'[x].insts \cup targets'[x].insts
    BY <1>0, ErasedWidens
  <2>1. CASE ~targets[x].held
    BY <1>1, <2>1, NoTargetsTyped DEF Erasing, Requested
  <2>2. CASE targets[x].held /\ x \in Unfinished
    BY <1>1, <2>2
  <2>3. CASE targets[x].held /\ x \notin Unfinished
    <3>1. erasure[x].status \in {"deleted", "gone"}
      BY <1>0, <2>3, Typed DEF Requested, Unfinished, ErasureRow
    <3>2. targets[x].insts = erasure[x].insts
      BY <1>2, <2>3, <3>1 DEF Erasing, Requested, OnTarget
    <3> QED
      BY <1>1, <3>2
  <2> QED
    BY <2>1, <2>2, <2>3
<1>4. /\ Owing \subseteq Owing'
      /\ \A x \in Owing : \A r \in Row : Touches(x, r) => Touches(x, r)'
  <2>1. \A x \in Owing : x \in Erasure /\ targets'[x] = targets[x]
    BY <1>1 DEF Owing, Active, Unfinished
  <2> QED
    BY <1>1, <2>1 DEF Owing, Active, Touches
<1>5. \A x \in Owing, b \in Batch : ReplaysAfter(x, b) => ReplaysAfter(x, b)'
  <2>1. pass.decided = "wait"
    BY <1>1 DEF Erasing, Claims
  <2> QED
    BY <1>1, <2>1 DEF ReplaysAfter, InPass
<1>6. \A b \in Batch : batch'[b] = batch[b] /\ RowOf(b)' = RowOf(b)
  BY <1>1 DEF RowOf
<1>7. Replayed'
  <2>1. pass.decided = "wait"
    BY <1>1 DEF Erasing, Claims
  <2> QED
    BY <1>1, <2>1 DEF Replayed
<1>8. UNCHANGED <<tables, mutations, stored>>
  BY <1>1
<1> QED
  BY <1>0, <1>3, <1>4, <1>5, <1>6, <1>7, <1>8, NothingMovedKeeps DEF Ingested

LEMMA DropTargetsKeeps ==
    ASSUME Shape, Erasing, Keeping, DropTargets, mistargeted = {}
    PROVE  Keeping'
<1>0. ErasureTypeOK
  BY DEF Erasing
<1>1. /\ pass.pc = "drop" /\ pass' = Asleep /\ PassEnds
      /\ targets' = [x \in Erasure |-> IF erasure[x].status = "gone" THEN NoTargets ELSE targets[x]]
      /\ UNCHANGED <<tables, files, mutations, erasure, skip, clock, faults, ghosts>>
  BY DEF DropTargets
<1>2. /\ pass'.pc = "idle" /\ pass'.decided = "wait"
      /\ \A b \in Batch : /\ batch'[b].pc = batch[b].pc /\ batch'[b].left = batch[b].left
                          /\ RowOf(b)' = RowOf(b)
                          /\ batch[b].pc # "idle" => batch'[b].overlaps
  BY <1>0, <1>1, RestsSettled, AsleepTyped
<1>3. \A r \in Row : Erased(r) => Erased(r)'
  <2> SUFFICES ASSUME NEW x \in Erasure
               PROVE  \/ erasure[x].at = 0
                      \/ /\ erasure'[x].at = erasure[x].at /\ erasure'[x].subject = erasure[x].subject
                         /\ erasure[x].insts \subseteq erasure'[x].insts \cup targets'[x].insts
                         /\ targets[x].insts \subseteq erasure'[x].insts \cup targets'[x].insts
    BY <1>0, ErasedWidens
  <2>1. CASE ~targets[x].held \/ erasure[x].status # "gone"
    BY <1>1, <2>1, NoTargetsTyped DEF Erasing, Requested
  <2>2. CASE targets[x].held /\ erasure[x].status = "gone"
    BY <1>1, <2>2 DEF Erasing, Requested, OnTarget
  <2> QED
    BY <2>1, <2>2
<1>4. /\ Owing \subseteq Owing'
      /\ \A x \in Owing : \A r \in Row : Touches(x, r) => Touches(x, r)'
  <2>1. \A x \in Owing : x \in Erasure /\ targets'[x] = targets[x]
    BY <1>1 DEF Owing, Active
  <2> QED
    BY <1>1, <2>1 DEF Owing, Active, Touches
<1>5. \A x \in Owing, b \in Batch : Ingested(b, "states") => ReplaysAfter(x, b)'
  BY <1>2 DEF ReplaysAfter, Ingested
<1>6. Replayed'
  BY <1>2 DEF Replayed
<1>7. UNCHANGED <<tables, mutations, stored>>
  BY <1>1 DEF ghosts
<1> QED
  BY <1>0, <1>2, <1>3, <1>4, <1>5, <1>6, <1>7, NothingMovedKeeps DEF Ingested

LEMMA PassFailsKeeps ==
    ASSUME Shape, Erasing, Keeping, PassFails
    PROVE  Keeping'
<1>0. ErasureTypeOK
  BY DEF Erasing
<1>1. /\ pass' = Asleep /\ PassEnds
      /\ UNCHANGED <<tables, files, mutations, targets, erasure, skip, clock, ghosts>>
  BY DEF PassFails
<1>2. /\ pass'.pc = "idle" /\ pass'.decided = "wait"
      /\ \A b \in Batch : /\ batch'[b].pc = batch[b].pc /\ batch'[b].left = batch[b].left
                          /\ RowOf(b)' = RowOf(b)
                          /\ batch[b].pc # "idle" => batch'[b].overlaps
  BY <1>0, <1>1, RestsSettled, AsleepTyped
<1>3. \A r \in Row : Erased(r) => Erased(r)'
  BY <1>1, ErasedSame
<1>4. Owing' = Owing /\ \A x \in Owing : \A r \in Row : Touches(x, r) => Touches(x, r)'
  BY <1>1 DEF Owing, Active, Touches
<1>5. \A x \in Owing, b \in Batch : Ingested(b, "states") => ReplaysAfter(x, b)'
  BY <1>2 DEF ReplaysAfter, Ingested
<1>6. Replayed'
  BY <1>2 DEF Replayed
<1>7. UNCHANGED <<tables, mutations, stored>>
  BY <1>1 DEF ghosts
<1> QED
  BY <1>0, <1>2, <1>3, <1>4, <1>5, <1>6, <1>7, NothingMovedKeeps DEF Ingested

\* A batch is stamped, or looked up: none of its rows is written.
LEMMA StampKeeps ==
    ASSUME Shape, Erasing, Keeping, NEW b \in Batch, Stamp(b)
    PROVE  Keeping'
<1>0. ErasureTypeOK
  BY DEF Erasing
<1>1. /\ batch[b].pc = "idle" /\ batch'[b].pc = "lookup"
      /\ \A c \in Batch \ {b} : batch'[c] = batch[c]
      /\ UNCHANGED <<tables, mutations, targets, erasure, pass, stored>>
  BY <1>0, StampEffect DEF ghosts
<1>2. \A r : Erased(r)' <=> Erased(r)
  BY <1>1, ErasedSame
<1>3. \A c \in Batch, t \in {"events", "states"} :
         /\ Ingested(c, t)' <=> Ingested(c, t)
         /\ Ingested(c, t)' => RowOf(c)' = RowOf(c) /\ batch'[c] = batch[c]
  BY <1>1 DEF Ingested, RowOf
<1>4. Owing' = Owing /\ \A x \in Owing : /\ \A r \in Row : Touches(x, r) => Touches(x, r)'
                                         /\ \A c \in Batch : Ingested(c, "states") /\ ReplaysAfter(x, c) => ReplaysAfter(x, c)'
  BY <1>1, <1>3 DEF Owing, Active, Touches, ReplaysAfter, InPass
<1>5. Replayed'
  <2>1. Landed' = Landed
    BY <1>1, <1>3 DEF Landed
  <2> QED
    BY <1>1, <1>2, <2>1 DEF Keeping, Replayed, tables
<1>6. UNCHANGED <<tables, mutations, stored>>
  BY <1>1
<1> QED
  BY <1>0, <1>2, <1>3, <1>4, <1>5, <1>6, NothingMovedKeeps

LEMMA LookupKeeps ==
    ASSUME Shape, Erasing, Keeping, NEW b \in Batch, Lookup(b)
    PROVE  Keeping'
<1>0. ErasureTypeOK
  BY DEF Erasing
<1>1. /\ batch[b].pc = "lookup" /\ "states" \in batch'[b].left
      /\ "events" \in batch'[b].left \/ RowOf(b)' \in events
      /\ \A c \in Batch \ {b} : batch'[c] = batch[c]
      /\ UNCHANGED <<tables, mutations, targets, erasure, pass, stored>>
  BY <1>0, LookupEffect DEF ghosts
<1>2. \A r : Erased(r)' <=> Erased(r)
  BY <1>1, ErasedSame
<1>3. \A c \in Batch : /\ Ingested(c, "states")' <=> Ingested(c, "states")
                       /\ Ingested(c, "states")' => RowOf(c)' = RowOf(c) /\ batch'[c] = batch[c]
                       /\ Ingested(c, "events")' => \/ RowOf(c)' \in events
                                                    \/ Ingested(c, "events") /\ RowOf(c)' = RowOf(c)
  BY <1>1 DEF Ingested, RowOf
<1>4. Owing' = Owing /\ \A x \in Owing : /\ \A r \in Row : Touches(x, r) => Touches(x, r)'
                                         /\ \A c \in Batch : Ingested(c, "states") /\ ReplaysAfter(x, c) => ReplaysAfter(x, c)'
  BY <1>1, <1>3 DEF Owing, Active, Touches, ReplaysAfter, InPass
<1>5. Replayed'
  <2>1. Landed' = Landed
    BY <1>1, <1>3 DEF Landed
  <2> QED
    BY <1>1, <1>2, <2>1 DEF Keeping, Replayed, tables
<1>6. UNCHANGED <<tables, mutations, stored>>
  BY <1>1
<1>7. \A r \in Row : Erased(r) => Erased(r)'
  BY <1>2
<1>8. /\ Owing \subseteq Owing'
      /\ \A x \in Owing : /\ \A r \in Row : Touches(x, r) => Touches(x, r)'
                          /\ \A c \in Batch : Ingested(c, "states") /\ ReplaysAfter(x, c) => ReplaysAfter(x, c)'
  BY <1>4
<1>9. \A c \in Batch : Ingested(c, "states")' => Ingested(c, "states") /\ RowOf(c)' = RowOf(c)
  BY <1>3
<1>10. \A c \in Batch : Ingested(c, "events")' /\ RowOf(c)' \notin events =>
                             Ingested(c, "events") /\ RowOf(c)' = RowOf(c)
  BY <1>3
<1> QED
  BY <1>0, <1>5, <1>6, <1>7, <1>8, <1>9, <1>10, NothingMovedKeeps

(* The states of a row land before its event: no delete submitted yet names    *)
(* it.  Its event lands last: its states are kept, or are owed.                *)
LEMMA LandKeeps ==
    ASSUME Shape, Erasing, Keeping, NEW b \in Batch, Land(b)
    PROVE  Keeping'
<1>0. ErasureTypeOK
  BY DEF Erasing
<1>1. PICK t \in batch[b].left :
          /\ t \in {"events", "states"} /\ batch[b].pc = "insert"
          /\ events'  = (IF t = "events" THEN events \cup {RowOf(b)}  ELSE events)
          /\ records' = (IF t = "states" THEN records \cup {RowOf(b)} ELSE records)
          /\ links'   = (IF t = "states" THEN links \cup {RowOf(b)}   ELSE links)
          /\ batch' \in [Batch -> Insert]
          /\ \/ /\ batch[b].left = {t} /\ stored' = stored \cup {RowOf(b)}
                /\ batch'[b] = Rest
             \/ /\ batch[b].left # {t} /\ stored' = stored
                /\ batch'[b].pc = "insert" /\ batch'[b].left = batch[b].left \ {t}
                /\ batch'[b].overlaps = batch[b].overlaps /\ batch'[b].received = batch[b].received
                /\ RowOf(b)' = RowOf(b)
          /\ \A c \in Batch \ {b} : batch'[c] = batch[c]
          /\ UNCHANGED <<files, mutations, targets, erasure, skip, pass, clock, faults, mistargeted>>
  BY <1>0, LandEffect
<1>2. /\ batch[b].left \in SUBSET {"events", "states"}
      /\ events \subseteq events' /\ records \subseteq records' /\ links \subseteq links'
      /\ EventDeletes' = EventDeletes /\ StateDeletes' = StateDeletes /\ StateDeletes \subseteq mutations
  BY <1>0, <1>1, Typed DEF Insert, EventDeletes, StateDeletes
<1>3. \A r : Erased(r)' <=> Erased(r)
  BY <1>1, ErasedSame
<1>4. /\ Owing' = Owing /\ \A x \in Owing, r \in Row : Touches(x, r)' <=> Touches(x, r)
      /\ \A x \in Owing, c \in Batch \ {b} : ReplaysAfter(x, c)' <=> ReplaysAfter(x, c)
  BY <1>1 DEF Owing, Active, Touches, ReplaysAfter, InPass
<1>5. \A c \in Batch \ {b} : /\ RowOf(c)' = RowOf(c)
                             /\ Ingested(c, "events")' <=> Ingested(c, "events")
                             /\ Ingested(c, "states")' <=> Ingested(c, "states")
  BY <1>1 DEF RowOf, Ingested
<1>6. RowOf(b) \in Row /\ \A c \in Batch : RowOf(c) \in Row
  BY <1>0, Typed
<1>7. RowOf(b) \in events' \/ Erased(RowOf(b)) \/ (t = "states" /\ "events" \in batch[b].left)
  <2>1. CASE t = "events"
    BY <1>1, <2>1
  <2>2. CASE t = "states" /\ "events" \notin batch[b].left
    BY <1>1, <1>2, <2>2 DEF Keeping, EventsKept, Ingested
  <2> QED
    BY <1>1, <2>1, <2>2
<1>8. t = "states" => RowOf(b) \in records' \cap links'
  BY <1>1
<1>9. \A r \in Row : Safe(r) => Safe(r)'
  BY <1>2 DEF Safe
<1>10. OnlyErasedDeleted' /\ StateDeletesOwed'
  <2>1. \A m \in StateDeletes : \A r \in m.rows : r \in Row
    BY <1>0, <1>2, Typed
  <2> QED
    BY <1>2, <1>3, <1>4, <2>1 DEF Keeping, OnlyErasedDeleted, StateDeletesOwed
<1>11. EventsKept'
  <2>1. \A r \in stored' : r \in events' \/ Erased(r)'
    BY <1>1, <1>2, <1>3, <1>7 DEF Keeping, EventsKept
  <2>2. ASSUME NEW c \in Batch, Ingested(c, "events")'
        PROVE  (RowOf(c) \in events \/ Erased(RowOf(c)))'
    <3>1. CASE c # b
      BY <1>2, <1>3, <1>5, <2>2, <3>1 DEF Keeping, EventsKept, Erased, Covers, Named, Carries
    <3>2. CASE c = b
      <4>1. RowOf(b)' = RowOf(b) /\ ~(t = "states" /\ "events" \in batch[b].left)
        BY <1>1, <2>2, <3>2, RestTyped DEF Ingested
      <4>2. Erased(RowOf(b))' <=> Erased(RowOf(b))
        BY <1>1, <4>1 DEF Erased, Covers, Named, Carries
      <4> QED
        BY <1>7, <3>2, <4>1, <4>2
    <3> QED
      BY <3>1, <3>2
  <2> QED
    BY <2>1, <2>2 DEF EventsKept
<1>12. StatesKept'
  <2> SUFFICES ASSUME NEW r \in stored', ~Erased(r)
               PROVE  r \in records' \cap links' \/ \E x \in Owing : Touches(x, r)'
    BY <1>3, <1>4 DEF StatesKept
  <2>1. CASE r \in stored
    <3>1. r \in Row
      BY <1>0, <2>1, Typed
    <3> QED
      BY <1>2, <1>4, <2>1, <3>1 DEF Keeping, StatesKept
  <2>2. CASE r = RowOf(b) /\ t = "states"
    BY <1>8, <2>2
  <2>3. CASE r = RowOf(b) /\ t = "events" /\ r \notin stored
    <3>1. Ingested(b, "states")
      BY <1>1, <2>3 DEF Ingested
    <3> QED
      BY <1>2, <1>4, <1>6, <2>3, <3>1 DEF Keeping, HalvesKept, Safe
  <2> QED
    BY <1>1, <2>1, <2>2, <2>3
<1>13. HalvesKept'
  <2> SUFFICES ASSUME NEW c \in Batch, Ingested(c, "states")', ~Erased(RowOf(c))'
               PROVE  Safe(RowOf(c))' \/ \E x \in Owing' : Touches(x, RowOf(c))' /\ ReplaysAfter(x, c)'
    BY DEF HalvesKept
  <2>1. CASE c # b
    <3>1. RowOf(c)' = RowOf(c) /\ Ingested(c, "states") /\ RowOf(c) \in Row
      BY <1>5, <1>6, <2>1
    <3>2. /\ Erased(RowOf(c))' <=> Erased(RowOf(c))
          /\ Safe(RowOf(c)) => Safe(RowOf(c))'
      BY <1>1, <1>2, <3>1 DEF Erased, Covers, Named, Carries, Safe
    <3>3. \A x \in Owing : Touches(x, RowOf(c)) => Touches(x, RowOf(c))'
      BY <1>1, <3>1 DEF Touches
    <3> QED
      BY <1>4, <2>1, <3>1, <3>2, <3>3 DEF Keeping, HalvesKept
  <2>2. CASE c = b
    <3>1. /\ RowOf(b)' = RowOf(b) /\ t = "states" /\ batch[b].left = {"events", "states"}
      <4>1. batch'[b].pc = "insert" /\ "states" \notin batch'[b].left
        BY <2>2 DEF Ingested
      <4>2. batch'[b] # Rest
        BY <4>1, RestTyped
      <4>3. batch[b].left # {t} /\ batch'[b].left = batch[b].left \ {t} /\ RowOf(b)' = RowOf(b)
        BY <1>1, <4>2
      <4>4. t = "states"
        BY <1>1, <1>2, <4>1, <4>3
      <4> QED
        BY <1>1, <1>2, <4>3, <4>4
    <3>2. \A m \in StateDeletes : RowOf(b) \notin m.rows
      <4>1. Fresh(b)
        BY <1>1, <3>1 DEF Fresh
      <4>2. RowOf(b).received = batch[b].received
        BY DEF RowOf
      <4> QED
        BY <1>2, <4>1, <4>2 DEF Erasing, FreshRows
    <3>3. Safe(RowOf(b))'
      BY <1>2, <1>8, <3>1, <3>2 DEF Safe
    <3> QED
      BY <2>2, <3>3
  <2> QED
    BY <2>1, <2>2
<1>14. Replayed'
  <2> SUFFICES ASSUME pass.decided = "done", NEW r \in Landed', ~Erased(r)
               PROVE  /\ pass.pc = "write"  => r \in records' \cap links' \/ r \in pass.rows
                      /\ pass.pc = "commit" => r \in records' \cap links'
    BY <1>1, <1>3 DEF Replayed
  <2>1. r \in Landed \/ (t = "states" /\ r = RowOf(b))
    <3>1. CASE r \in stored'
      BY <1>1, <3>1 DEF Landed, Ingested
    <3>2. CASE r \notin stored'
      <4>1. PICK c \in Batch : Ingested(c, "states")' /\ r = RowOf(c)'
        BY <3>2 DEF Landed
      <4>2. CASE c # b
        BY <1>5, <4>1, <4>2 DEF Landed
      <4>3. CASE c = b
        BY <1>1, <4>1, <4>3, RestTyped DEF Landed, Ingested
      <4> QED
        BY <4>2, <4>3
    <3> QED
      BY <3>1, <3>2
  <2> QED
    BY <1>2, <1>8, <2>1 DEF Keeping, Replayed
<1> QED
  BY <1>10, <1>11, <1>12, <1>13, <1>14 DEF Keeping

\* The deletes submitted name what is erased, or what the pass replays.
LEMMA CountKeeps ==
    ASSUME Shape, Erasing, Keeping, Count
    PROVE  Keeping'
<1>0. ErasureTypeOK
  BY DEF Erasing
<1> DEFINE named == {r \in events : \E x \in Working : Named(x, r)}
           rederived == {r \in records : Rederived(Working, r)}
           linked == {r \in links : OfUser(Working, r)
                         \/ \E x \in Working : InstallationOf[r.ev] \in targets[x].insts}
<1>1. /\ pass.pc = "count"
      /\ \/ /\ pass'.pc = "commit" /\ pass'.decided = pass.decided /\ mutations' = mutations
         \/ /\ pass'.pc = "commit" /\ pass'.decided = "deletes" /\ mutations = {}
            /\ mutations' = {[table |-> "events", rows |-> named]}
         \/ /\ pass'.pc = "replay" /\ pass'.decided = "done" /\ mutations = {} /\ mutations' = {}
         \/ /\ pass'.pc = "replay" /\ pass'.decided = "states" /\ mutations = {}
            /\ mutations' = {[table |-> "records", rows |-> rederived], [table |-> "links", rows |-> linked]}
      /\ UNCHANGED <<tables, files, targets, erasure, skip, batch, clock, faults, ghosts>>
  BY <1>0, CountEffect
<1>2. pass.decided = "wait"
  BY <1>1 DEF Erasing, Claims
<1>3. /\ \A r \in named : Erased(r)
      /\ \A r \in rederived \cup linked : \E x \in Working : Touches(x, r)
  <2>1. Working \subseteq Erasure
    BY DEF Working, Active
  <2> QED
    BY <2>1 DEF Erased, Touches, Rederived, OfUser
<1> HIDE DEF named, rederived, linked
<1>4. Working \subseteq Owing
  BY <1>1 DEF Erasing, Claims, InPass, Working, Owing
<1>5. /\ \A r : Erased(r)' <=> Erased(r)
      /\ Owing' = Owing /\ \A x, r : Touches(x, r)' <=> Touches(x, r)
      /\ \A b \in Batch : RowOf(b)' = RowOf(b) /\ (Ingested(b, "states")' <=> Ingested(b, "states"))
                          /\ (Ingested(b, "events")' <=> Ingested(b, "events"))
      /\ events' = events /\ records' = records /\ links' = links /\ stored' = stored
  BY <1>1 DEF Erased, Covers, Named, Carries, Owing, Active, Touches, RowOf, Ingested, tables, ghosts
<1>6. OnlyErasedDeleted'
  BY <1>1, <1>3, <1>5 DEF Keeping, OnlyErasedDeleted, EventDeletes
<1>7. EventsKept'
  BY <1>5 DEF Keeping, EventsKept
<1>8. \A m \in StateDeletes' : \/ m \in StateDeletes
                               \/ m.rows \subseteq rederived \cup linked /\ pass'.decided = "states" /\ pass'.pc = "replay"
  BY <1>1 DEF StateDeletes
<1>9. StateDeletesOwed'
  BY <1>3, <1>4, <1>5, <1>8 DEF Keeping, StateDeletesOwed
<1>10. StatesKept'
  BY <1>5 DEF Keeping, StatesKept
<1>11. HalvesKept'
  <2> SUFFICES ASSUME NEW b \in Batch, Ingested(b, "states"), ~Erased(RowOf(b)), ~Safe(RowOf(b))'
               PROVE  \E x \in Owing : Touches(x, RowOf(b)) /\ ReplaysAfter(x, b)'
    <3>1. \A b \in Batch : Erased(RowOf(b))' <=> Erased(RowOf(b))
      BY <1>1, <1>5 DEF Erased, Covers, Named, Carries
    <3>2. \A b \in Batch, x \in Owing : Touches(x, RowOf(b))' <=> Touches(x, RowOf(b))
      BY <1>1, <1>5 DEF Touches
    <3> QED
      BY <1>5, <3>1, <3>2 DEF HalvesKept
  <2>1. CASE Safe(RowOf(b))
    <3>1. PICK m \in StateDeletes' : RowOf(b) \in m.rows
      BY <1>5, <2>1 DEF Safe
    <3>2. RowOf(b) \in rederived \cup linked /\ pass'.decided = "states" /\ pass'.pc = "replay"
      BY <1>8, <2>1, <3>1 DEF Safe
    <3> QED
      BY <1>3, <1>4, <3>2 DEF ReplaysAfter, InPass
  <2>2. CASE ~Safe(RowOf(b))
    <3>1. PICK x \in Owing : Touches(x, RowOf(b)) /\ ReplaysAfter(x, b)
      BY <2>2 DEF Keeping, HalvesKept
    <3>2. ~erasure[x].submitted
      BY <1>1, <1>2, <3>1 DEF ReplaysAfter
    <3> QED
      BY <1>1, <3>1, <3>2 DEF ReplaysAfter
  <2> QED
    BY <2>1, <2>2
<1>12. Replayed'
  BY <1>1, <1>2 DEF Replayed
<1> QED
  BY <1>6, <1>7, <1>9, <1>10, <1>11, <1>12 DEF Keeping

(* The replay of the last pass reads every row that is kept and whose states   *)
(* are not there.                                                              *)
LEMMA ReplayReadKeeps ==
    ASSUME Shape, Erasing, Keeping, ReplayRead
    PROVE  Keeping'
<1>0. ErasureTypeOK
  BY DEF Erasing
<1>1. /\ pass.pc = "replay" /\ pass'.pc = "write" /\ pass'.decided = pass.decided
      /\ pass'.rows = {r \in events : (Rederived(Working, r) \/ OfUser(Working, r)) /\ ~Hidden(r, Active)}
      /\ UNCHANGED <<tables, mutations, targets, erasure, batch, stored>>
  BY <1>0, Typed DEF ReplayRead, Worker, ghosts
<1>2. \A r : Erased(r)' <=> Erased(r)
  BY <1>1, ErasedSame
<1>3. \A b \in Batch : /\ Ingested(b, "states")' <=> Ingested(b, "states")
                       /\ Ingested(b, "events")' <=> Ingested(b, "events")
                       /\ RowOf(b)' = RowOf(b)
  BY <1>1 DEF Ingested, RowOf
<1>4. Owing' = Owing /\ \A x \in Owing : /\ \A r \in Row : Touches(x, r) => Touches(x, r)'
                                         /\ \A b \in Batch : ReplaysAfter(x, b) => ReplaysAfter(x, b)'
  BY <1>1 DEF Owing, Active, Touches, ReplaysAfter, InPass
<1>5. Replayed'
  <2> SUFFICES ASSUME pass.decided = "done", NEW r \in Landed, ~Erased(r), r \notin records \cap links
               PROVE  r \in pass'.rows
    <3>1. Landed' = Landed
      BY <1>1, <1>3 DEF Landed
    <3> QED
      BY <1>1, <1>2, <3>1 DEF Replayed, tables
  <2>1. Owing \subseteq Working
    BY <1>1 DEF Erasing, Claims, InPass, Owing, Working
  <2>2. \A x \in Owing, b \in Batch : ~ReplaysAfter(x, b)
    BY <1>1, <2>1 DEF Erasing, LastPass, ReplaysAfter
  <2>3. r \in stored
    <3>1. CASE r \notin stored
      <4>1. PICK b \in Batch : Ingested(b, "states") /\ r = RowOf(b)
        BY <3>1 DEF Landed
      <4> QED
        BY <2>2, <4>1 DEF Keeping, HalvesKept, Safe
    <3> QED
      BY <3>1
  <2>4. r \in events
    BY <2>3 DEF Keeping, EventsKept
  <2>5. PICK x \in Owing : Touches(x, r)
    BY <2>3 DEF Keeping, StatesKept
  <2>6. Rederived(Working, r) \/ OfUser(Working, r)
    BY <2>1, <2>5 DEF Touches, Rederived, OfUser
  <2>7. ~Hidden(r, Active)
    BY DEF Hidden, Active, Erased
  <2> QED
    BY <1>1, <2>4, <2>6, <2>7
<1>6. UNCHANGED <<tables, mutations, stored>>
  BY <1>1
<1> QED
  BY <1>0, <1>2, <1>3, <1>4, <1>5, <1>6, NothingMovedKeeps

LEMMA ReplayWriteKeeps ==
    ASSUME Shape, Erasing, Keeping, ReplayWrite
    PROVE  Keeping'
<1>0. ErasureTypeOK
  BY DEF Erasing
<1>1. /\ pass.pc = "write" /\ pass'.pc = "commit" /\ pass'.decided = pass.decided
      /\ records' = records \cup pass.rows /\ links' = links \cup pass.rows
      /\ UNCHANGED <<events, mutations, targets, erasure, batch, stored>>
  BY <1>0, Typed DEF ReplayWrite, Worker, ghosts
<1>2. /\ \A r : Erased(r)' <=> Erased(r)
      /\ Owing' = Owing /\ \A x, r : Touches(x, r)' <=> Touches(x, r)
      /\ \A x, b : ReplaysAfter(x, b)' <=> ReplaysAfter(x, b)
      /\ EventDeletes' = EventDeletes /\ StateDeletes' = StateDeletes
  BY <1>1 DEF Erased, Covers, Named, Carries, Owing, Active, Touches, ReplaysAfter, InPass, EventDeletes, StateDeletes
<1>3. \A b \in Batch : /\ Ingested(b, "states")' <=> Ingested(b, "states")
                       /\ Ingested(b, "events")' <=> Ingested(b, "events")
                       /\ RowOf(b)' = RowOf(b)
  BY <1>1 DEF Ingested, RowOf
<1>4. /\ \A b \in Batch : Erased(RowOf(b))' <=> Erased(RowOf(b))
      /\ \A b \in Batch, x \in Owing : Touches(x, RowOf(b))' <=> Touches(x, RowOf(b))
      /\ \A b \in Batch : Safe(RowOf(b)) => Safe(RowOf(b))'
  BY <1>1, <1>2, <1>3 DEF Erased, Covers, Named, Carries, Touches, Safe
<1>5. OnlyErasedDeleted' /\ StateDeletesOwed'
  BY <1>2 DEF Keeping, OnlyErasedDeleted, StateDeletesOwed
<1>6. EventsKept'
  BY <1>1, <1>2, <1>3, <1>4 DEF Keeping, EventsKept
<1>7. StatesKept'
  BY <1>1, <1>2 DEF Keeping, StatesKept
<1>8. HalvesKept'
  BY <1>2, <1>3, <1>4 DEF Keeping, HalvesKept
<1>9. Replayed'
  <2>1. Landed' = Landed
    BY <1>1, <1>3 DEF Landed
  <2> QED
    BY <1>1, <1>2, <2>1 DEF Keeping, Replayed
<1> QED
  BY <1>5, <1>6, <1>7, <1>8, <1>9 DEF Keeping

(* A pass that does not end its erasures changes what they name by no row; one *)
(* that does finds the states of every kept row written.                       *)
LEMMA CommitKeeps ==
    ASSUME Shape, Erasing, Keeping, Commit
    PROVE  Keeping'
<1>0. ErasureTypeOK
  BY DEF Erasing
<1>1. PICK gone \in SUBSET pass.claimed :
          /\ pass.pc = "commit"
          /\ erasure' \in [Erasure -> ErasureRow]
          /\ \A x \in gone : /\ erasure[x].status = "deleted" /\ ~Carried(x)
                             /\ erasure'[x].status = "gone" /\ erasure'[x].insts = erasure[x].insts
                             /\ erasure'[x].resolved = erasure[x].resolved
                             /\ erasure'[x].submitted = erasure[x].submitted
          /\ \A x \in Working : /\ erasure'[x].status = IF pass.decided = "done" THEN "deleted" ELSE "pending"
                                /\ erasure'[x].insts = pass.insts[x] /\ erasure'[x].resolved
                                /\ erasure'[x].submitted =
                                      IF pass.decided = "deletes" THEN FALSE
                                      ELSE IF pass.decided = "states" THEN TRUE ELSE erasure[x].submitted
          /\ \A x \in Erasure : /\ erasure'[x].at = erasure[x].at /\ erasure'[x].subject = erasure[x].subject
                                /\ erasure'[x].answered = erasure[x].answered
          /\ \A x \in Erasure \ (gone \cup Working) : erasure'[x] = erasure[x]
          /\ skip' = Unknown \/ skip' = skip
          /\ \/ pass' = Asleep /\ PassEnds
             \/ pass' = [Asleep EXCEPT !.pc = "drop"] /\ UNCHANGED batch
          /\ UNCHANGED <<tables, files, mutations, targets, clock, faults, ghosts>>
  BY <1>0, CommitEffect
<1>2. /\ pass'.pc \in {"idle", "drop"} /\ pass'.decided = "wait"
      /\ \A b \in Batch : /\ batch'[b].pc = batch[b].pc /\ batch'[b].left = batch[b].left
                          /\ RowOf(b)' = RowOf(b)
                          /\ pass'.pc = "idle" /\ batch[b].pc # "idle" => batch'[b].overlaps
  BY <1>0, <1>1, RestsSettled
<1>3. \A x \in Erasure : /\ erasure'[x].at = erasure[x].at /\ erasure'[x].subject = erasure[x].subject
                         /\ erasure[x].insts \subseteq erasure'[x].insts
  <2> SUFFICES ASSUME NEW x \in Erasure PROVE erasure[x].insts \subseteq erasure'[x].insts
    BY <1>1
  <2>1. CASE x \in Working
    <3>1. erasure'[x].insts = pass.insts[x]
      BY <1>1, <2>1
    <3>2. erasure[x].resolved => pass.insts[x] = erasure[x].insts
      BY <2>1 DEF Erasing, Claims, Working
    <3>3. ~erasure[x].resolved => erasure[x].insts = {}
      BY DEF Erasing, Requested
    <3> QED
      BY <3>1, <3>2, <3>3
  <2>2. CASE x \notin Working
    BY <1>1, <2>2
  <2> QED
    BY <2>1, <2>2
<1>4. UNCHANGED <<tables, mutations, targets, stored>>
  BY <1>1 DEF ghosts
<1>5. \A r \in Row : Erased(r) => Erased(r)'
  <2>1. \A x \in Erasure :
          \/ erasure[x].at = 0
          \/ /\ erasure'[x].at = erasure[x].at /\ erasure'[x].subject = erasure[x].subject
             /\ erasure[x].insts \subseteq erasure'[x].insts \cup targets'[x].insts
             /\ targets[x].insts \subseteq erasure'[x].insts \cup targets'[x].insts
    BY <1>3, <1>4
  <2> QED
    BY <1>0, <2>1, ErasedWidens
<1>6. \A x \in Owing, b \in Batch : Ingested(b, "states") => ReplaysAfter(x, b)'
  BY <1>2 DEF ReplaysAfter, Ingested
<1>7. Replayed'
  BY <1>2 DEF Replayed
<1>8. CASE pass.decided # "done"
  <2>1. ASSUME NEW x \in Owing
        PROVE  x \in Owing' /\ \A r \in Row : Touches(x, r) => Touches(x, r)'
    <3>1. x \in Erasure /\ erasure[x].status = "pending" /\ targets[x].held /\ x \notin gone
      BY <1>1 DEF Owing, Active
    <3>2. erasure'[x].status = "pending"
      BY <1>1, <1>8, <3>1
    <3> QED
      BY <1>3, <1>4, <3>1, <3>2 DEF Owing, Active, Touches
  <2>2. /\ \A b \in Batch : Ingested(b, "states")' => Ingested(b, "states") /\ RowOf(b)' = RowOf(b)
        /\ \A b \in Batch : Ingested(b, "events")' /\ RowOf(b)' \notin events =>
                               Ingested(b, "events") /\ RowOf(b)' = RowOf(b)
    BY <1>2 DEF Ingested
  <2>3. Owing \subseteq Owing'
    BY <2>1
  <2>4. UNCHANGED <<tables, mutations, stored>>
    BY <1>4
  <2>5. \A x \in Owing : /\ \A r \in Row : Touches(x, r) => Touches(x, r)'
                         /\ \A b \in Batch : Ingested(b, "states") /\ ReplaysAfter(x, b) => ReplaysAfter(x, b)'
    BY <1>6, <2>1
  <2> QED
    BY <1>0, <1>5, <1>7, <2>2, <2>3, <2>4, <2>5, NothingMovedKeeps
<1>9. CASE pass.decided = "done"
  <2>1. /\ mutations = {} /\ EventDeletes' = {} /\ StateDeletes' = {}
        /\ \A r \in Landed : Erased(r) \/ r \in records \cap links
        /\ events' = events /\ records' = records /\ links' = links /\ stored' = stored
    BY <1>1, <1>4, <1>9 DEF Erasing, LastPass, Keeping, Replayed, EventDeletes, StateDeletes, tables
  <2>2. \A r \in stored : r \in Row
    BY <1>0, Typed
  <2>3. ASSUME NEW b \in Batch, ~Erased(RowOf(b))'
        PROVE  RowOf(b)' = RowOf(b) /\ ~Erased(RowOf(b))
    <3>1. RowOf(b)' = RowOf(b) /\ RowOf(b) \in Row
      BY <1>0, <1>2, Typed
    <3>2. Erased(RowOf(b)) => Erased(RowOf(b))'
      BY <1>5, <3>1 DEF Erased, Covers, Named, Carries
    <3> QED
      BY <2>3, <3>1, <3>2
  <2>4. OnlyErasedDeleted' /\ StateDeletesOwed'
    BY <2>1 DEF OnlyErasedDeleted, StateDeletesOwed
  <2>5. EventsKept'
    <3>1. \A r \in stored' : (r \in events \/ Erased(r))'
      BY <1>5, <2>1, <2>2 DEF Keeping, EventsKept
    <3>2. \A b \in Batch : Ingested(b, "events")' => (RowOf(b) \in events \/ Erased(RowOf(b)))'
      BY <1>2, <2>1, <2>3 DEF Keeping, EventsKept, Ingested
    <3> QED
      BY <3>1, <3>2 DEF EventsKept
  <2>6. StatesKept'
    BY <1>5, <2>1, <2>2 DEF StatesKept, Landed
  <2>7. HalvesKept'
    <3> SUFFICES ASSUME NEW b \in Batch, Ingested(b, "states")', ~Erased(RowOf(b))'
                 PROVE  Safe(RowOf(b))'
      BY DEF HalvesKept
    <3>1. RowOf(b) \in Landed /\ ~Erased(RowOf(b)) /\ RowOf(b)' = RowOf(b)
      BY <1>2, <2>3 DEF Landed, Ingested
    <3> QED
      BY <2>1, <3>1 DEF Safe
  <2> QED
    BY <1>7, <2>4, <2>5, <2>6, <2>7 DEF Keeping
<1> QED
  BY <1>8, <1>9

\* A delete applied takes events that are erased, or states that are owed.
LEMMA ApplyKeeps ==
    ASSUME Shape, Erasing, Keeping, NEW m \in mutations, Apply(m)
    PROVE  Keeping'
<1>0. ErasureTypeOK
  BY DEF Erasing
<1>1. /\ mutations' = mutations \ {m} /\ m.table \in Table
      /\ \/ m \in EventDeletes /\ events' = events \ m.rows /\ records' = records /\ links' = links
         \/ /\ m \in StateDeletes /\ events' = events
            /\ records \ m.rows \subseteq records' /\ links \ m.rows \subseteq links'
      /\ UNCHANGED <<targets, erasure, batch, pass, stored>>
  <2>1. m.table \in Table
    BY <1>0, Typed
  <2>2. CASE m.table = "events"
    BY <2>1, <2>2 DEF Apply, EventDeletes, ghosts
  <2>3. CASE m.table # "events"
    BY <2>1, <2>3 DEF Apply, StateDeletes, ghosts
  <2> QED
    BY <2>2, <2>3
<1>2. /\ \A r : Erased(r)' <=> Erased(r)
      /\ Owing' = Owing /\ \A x, r : Touches(x, r)' <=> Touches(x, r)
      /\ \A x, b : ReplaysAfter(x, b)' <=> ReplaysAfter(x, b)
      /\ EventDeletes' \subseteq EventDeletes /\ StateDeletes' \subseteq StateDeletes
  BY <1>1 DEF Erased, Covers, Named, Carries, Owing, Active, Touches, ReplaysAfter, InPass, EventDeletes, StateDeletes
<1>3. \A b \in Batch : /\ Ingested(b, "states")' <=> Ingested(b, "states")
                       /\ Ingested(b, "events")' <=> Ingested(b, "events")
                       /\ RowOf(b)' = RowOf(b)
  BY <1>1 DEF Ingested, RowOf
<1>4. \A r : r \in events => r \in events' \/ Erased(r)
  BY <1>1 DEF Keeping, OnlyErasedDeleted
<1>5. \A r : r \in records \cap links => r \in records' \cap links' \/ (m \in StateDeletes /\ r \in m.rows)
  BY <1>1
<1>6. /\ \A b \in Batch : Erased(RowOf(b))' <=> Erased(RowOf(b))
      /\ \A b \in Batch, x \in Owing : Touches(x, RowOf(b))' <=> Touches(x, RowOf(b))
      /\ \A b \in Batch : Safe(RowOf(b)) => Safe(RowOf(b))'
  BY <1>1, <1>2, <1>3, <1>5 DEF Erased, Covers, Named, Carries, Touches, Safe
<1>7. OnlyErasedDeleted' /\ StateDeletesOwed'
  BY <1>2 DEF Keeping, OnlyErasedDeleted, StateDeletesOwed
<1>8. EventsKept'
  BY <1>1, <1>2, <1>3, <1>4, <1>6 DEF Keeping, EventsKept
<1>9. StatesKept'
  BY <1>1, <1>2, <1>5 DEF Keeping, StatesKept, StateDeletesOwed
<1>10. HalvesKept'
  BY <1>2, <1>3, <1>6 DEF Keeping, HalvesKept
<1>11. Replayed'
  BY <1>1 DEF Erasing, LastPass, Replayed
<1> QED
  BY <1>7, <1>8, <1>9, <1>10, <1>11 DEF Keeping

LEMMA NextKeeps ==
    ASSUME Shape, Erasing, mistargeted = {} => Keeping, [ErasureNext]_erasureVars, mistargeted' = {}
    PROVE  Keeping'
<1>0. mistargeted = {}
  <2>1. mistargeted \subseteq mistargeted'
    BY DEF ErasureNext, Ingest, Stamp, Lookup, Land, Request, Ask, Reach, Record, Answer, LoadSkip, Pass, Tick, Count,
       ReplayRead, ReplayWrite, Commit, DropTargets, PassFails, Apply, Merge, erasureVars, ghosts
  <2> QED
    BY <2>1
<1>1. CASE \E b \in Batch : Ingest(b)
  BY <1>0, <1>1, StampKeeps, LookupKeeps, LandKeeps DEF Ingest
<1>2. CASE \E x \in Erasure : Request(x)
  BY <1>0, <1>2, RequestKeeps, AnswerKeeps DEF Request
<1>3. CASE LoadSkip \/ Merge \/ UNCHANGED erasureVars
  BY <1>0, <1>3, QuietKeeps
<1>4. CASE Pass
  BY <1>0, <1>4, TickKeeps, CountKeeps, ReplayReadKeeps, ReplayWriteKeeps, CommitKeeps, DropTargetsKeeps DEF Pass
<1>5. CASE PassFails
  BY <1>0, <1>5, PassFailsKeeps
<1>6. CASE \E m \in mutations : Apply(m)
  BY <1>0, <1>6, ApplyKeeps
<1> QED
  BY <1>1, <1>2, <1>3, <1>4, <1>5, <1>6 DEF ErasureNext

(* A row a client was told is stored, and no erasure names, stays in `events`, *)
(* and once no erasure is half way the states derived from it are there too:   *)
(* the replay has put back every one the state deletes took.                   *)
THEOREM WhatIsNotErasedSurvives ==
    ErasureSpec => []KeptSurvive
<1>1. ErasureInit => ErasureIndInv
  BY ShapeAssumption, InitErases, InitKeeps DEF ErasureIndInv
<1>2. ErasureIndInv /\ [ErasureNext]_erasureVars => ErasureIndInv'
  BY ShapeAssumption, NextErases, NextKeeps DEF ErasureIndInv
<1>3. ErasureIndInv => KeptSurvive
  <2> SUFFICES ASSUME Keeping, NEW r \in stored, ~Erased(r)
               PROVE  r \in events /\ (Quiet => r \in records \cap links)
    BY DEF ErasureIndInv, KeptSurvive, Kept
  <2>1. r \in events
    BY DEF Keeping, EventsKept
  <2>2. Quiet => r \in records \cap links
    BY DEF Keeping, StatesKept, Quiet, Owing
  <2> QED
    BY <2>1, <2>2
<1> QED
  BY <1>1, <1>2, <1>3, PTL DEF ErasureSpec
=============================================================================
