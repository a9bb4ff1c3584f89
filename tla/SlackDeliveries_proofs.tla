---------------------- MODULE SlackDeliveries_proofs ----------------------
(***************************************************************************)
(* Theorems about SlackDeliveries, for every finite set of rows, any       *)
(* workers, every batch size, attempts and durations. They assume          *)
(* LeaseOutlasts: the longest a batch can last is less than a lease.       *)
(***************************************************************************)
EXTENDS SlackDeliveries, FiniteSetTheorems, TLAPS

\* The time of the rows to come, one by one.
LEMMA LaterFacts ==
    /\ RowTime \in Nat
    /\ \A n \in Nat : Later(n) \in Nat
    /\ \A n \in Nat \ {0} : Later(n) = Later(n - 1) + QueryTime + Pace + RowTime
    /\ \A m, n \in Nat : m <= n => Later(m) <= Later(n)
<1> DEFINE each == QueryTime + Pace + RowTime
<1>1. each \in Nat /\ RowTime \in Nat
  BY TimesAssumption DEF RowTime
<1>2. \A n : Later(n) = n * each
  BY DEF Later
<1> HIDE DEF each
<1>3. \A n \in Nat : n * each \in Nat
  BY <1>1
<1>4. \A n \in Nat \ {0} : n * each = (n - 1) * each + each
  BY <1>1
<1>5. \A m, n \in Nat : m <= n => m * each <= n * each
  BY <1>1
<1>6. \A n \in Nat \ {0} : Later(n) = Later(n - 1) + QueryTime + Pace + RowTime
  <2>1. each = QueryTime + Pace + RowTime
    BY DEF each
  <2>2. QueryTime \in Nat /\ Pace \in Nat /\ \A n \in Nat \ {0} : n - 1 \in Nat
    BY TimesAssumption
  <2>3. \A n \in Nat \ {0} : Later(n) = Later(n - 1) + each
    BY <1>2, <1>4
  <2>4. \A n \in Nat \ {0} : Later(n - 1) \in Nat
    BY <1>2, <1>3, <2>2
  <2> QED
    BY <1>1, <2>1, <2>2, <2>3, <2>4
<1> QED
  BY <1>1, <1>2, <1>3, <1>5, <1>6

\* A batch is finite, and each row taken from it leaves one less.
LEMMA BatchFacts ==
    ASSUME NEW S \in SUBSET Rows
    PROVE  /\ Cardinality(S) \in Nat
           /\ S # {} => Cardinality(S) \in Nat \ {0}
           /\ \A r \in S : Cardinality(S \ {r}) = Cardinality(S) - 1
<1>1. IsFiniteSet(S)
  BY RowsAssumption, FS_Subset
<1> QED
  BY <1>1, FS_CardinalityType, FS_EmptySet, FS_RemoveElement

\* The fields of a batch.
LEMMA BatchFields ==
    ASSUME TypeOK, NEW w \in Workers
    PROVE  /\ worker[w] \in Batches
           /\ worker[w].rest \in SUBSET Rows /\ worker[w].timer \in Nat
           /\ worker[w].row \in Rows \cup {None}
           /\ worker[w].claimed \in [Rows -> 0 .. MostAttempts]
BY DEF TypeOK, Batches

\* What a batch may still take is a time.
LEMMA TimeFacts ==
    ASSUME TypeOK, BatchesFit, NEW w \in Workers
    PROVE  LET n == Cardinality(worker[w].rest) IN
           /\ n \in Nat
           /\ TimeLeft(w) \in Nat
           /\ Step(w, "render") => TimeLeft(w) = worker[w].timer + SendTimeout + QueryTime + Later(n)
           /\ Step(w, "send") => TimeLeft(w) = worker[w].timer + QueryTime + Later(n)
           /\ Step(w, "mark") => TimeLeft(w) = worker[w].timer + Later(n)
           /\ Step(w, "pause") => /\ n \in Nat \ {0}
                                  /\ TimeLeft(w) = worker[w].timer + RowTime + Later(n - 1)
<1> DEFINE n == Cardinality(worker[w].rest)
<1>1. worker[w].rest \in SUBSET Rows /\ worker[w].timer \in Nat
  BY BatchFields
<1>2. n \in Nat /\ (Step(w, "pause") => n \in Nat \ {0})
  BY <1>1, BatchFacts DEF BatchesFit
<1>3. Step(w, "pause") => n - 1 \in Nat
  BY <1>2
<1> QED
  BY <1>1, <1>2, <1>3, LaterFacts, TimesAssumption DEF TimeLeft, Rest, Step

\* A worker between batches has none; one at a row holds it.
LEMMA HeldFacts ==
    ASSUME TypeOK, BatchesFit, NEW w \in Workers
    PROVE  /\ HeldBy(w) \subseteq Rows
           /\ Step(w, "idle") => HeldBy(w) = {}
           /\ Step(w, "pause") => HeldBy(w) = worker[w].rest
           /\ ~Step(w, "idle") /\ ~Step(w, "pause") =>
                 /\ worker[w].row \in Rows \ worker[w].rest
                 /\ HeldBy(w) = worker[w].rest \cup {worker[w].row}
BY RowsAssumption, BatchFields DEF BatchesFit, HeldBy, Step

\* Nothing is queued and nobody works at the start.
LEMMA InitHolds ==
    Init => IndInv
<1> SUFFICES ASSUME Init PROVE IndInv
  OBVIOUS
<1> USE DEF Init
<1>1. 0 \in 0 .. MostAttempts /\ 0 \in 0 .. MaxDeaths
  BY TimesAssumption DEF MostAttempts
<1>2. TypeOK
  BY <1>1, TimesAssumption DEF TypeOK, Idle, Batches
<1>3. BatchesFit
  BY DEF BatchesFit, Idle, Step
<1>4. \A w \in Workers : HeldBy(w) = {}
  BY DEF HeldBy, Idle
<1>5. HeldAreLeased
  BY <1>4 DEF HeldAreLeased, OneHolder
<1>6. SendsExplained
  BY DEF SendsExplained, DuplicatesExplained
<1>7. AttemptsExplained
  BY <1>4 DEF AttemptsExplained
<1> QED
  BY <1>2, <1>3, <1>5, <1>6, <1>7 DEF IndInv

(* A worker that goes on with its batch, keeping some of its rows and no    *)
(* more time than it had, leaves the leases good for every batch.          *)
LEMMA LeasesStayGood ==
    ASSUME IndInv, NEW w \in Workers,
           worker' = [worker EXCEPT ![w] = worker'[w]],
           HeldBy(w)' \subseteq HeldBy(w),
           HeldBy(w)' # {} => TimeLeft(w)' <= TimeLeft(w) /\ TimeLeft(w)' \in Nat,
           \A r \in HeldBy(w)' : worker'[w].claimed[r] = worker[w].claimed[r],
           TypeOK',
           \A v \in Workers : \A r \in HeldBy(v)' :
              /\ status'[r] = status[r] \/ status'[r] = "removed"
              /\ attempts'[r] = attempts[r] /\ due'[r] = due[r]
    PROVE  HeldAreLeased'
<1> USE DEF IndInv
<1>1. \A v \in Workers \ {w} : worker'[v] = worker[v]
  BY DEF TypeOK
<1>2. \A v \in Workers \ {w} : HeldBy(v)' = HeldBy(v) /\ TimeLeft(v)' = TimeLeft(v)
  BY <1>1 DEF HeldBy, TimeLeft, Rest, Step
<1>3. \A v \in Workers : HeldBy(v)' \subseteq HeldBy(v)
  BY <1>2
<1>4. OneHolder'
  BY <1>3 DEF OneHolder, HeldAreLeased
<1>5. \A v \in Workers : \A r \in HeldBy(v)' :
        /\ r \in Rows /\ due[r] \in Nat /\ TimeLeft(v) \in Nat /\ TimeLeft(v)' \in Nat
        /\ due[r] > TimeLeft(v)
        /\ TimeLeft(v)' <= TimeLeft(v)
  <2> SUFFICES ASSUME NEW v \in Workers, NEW r \in HeldBy(v)'
               PROVE /\ r \in Rows /\ due[r] \in Nat /\ TimeLeft(v) \in Nat /\ TimeLeft(v)' \in Nat
                     /\ due[r] > TimeLeft(v)
                     /\ TimeLeft(v)' <= TimeLeft(v)
    OBVIOUS
  <2>1. r \in HeldBy(v) /\ r \in Rows
    BY <1>3, HeldFacts
  <2>2. due[r] \in Nat /\ TimeLeft(v) \in Nat
    BY <2>1, TimeFacts DEF TypeOK
  <2> QED
    BY <1>2, <2>1, <2>2 DEF HeldAreLeased
<1>6. \A v \in Workers : \A r \in HeldBy(v)' :
        worker'[v].claimed[r] = worker[v].claimed[r]
  BY <1>1
<1>7. \A v \in Workers : \A r \in HeldBy(v)' :
        /\ status'[r] \in {"pending", "removed"}
        /\ worker'[v].claimed[r] = attempts'[r]
        /\ due'[r] > TimeLeft(v)'
  BY <1>3, <1>5, <1>6 DEF HeldAreLeased
<1> QED
  BY <1>4, <1>7 DEF HeldAreLeased

\* A submission that is queued was never sent.
LEMMA EnqueueKeepsInvariant ==
    ASSUME IndInv, NEW r \in Rows, EnqueueNotification(r)
    PROVE  IndInv'
<1> USE DEF IndInv, EnqueueNotification, history
<1>1. \A q \in Rows : status'[q] = IF q = r THEN "pending" ELSE status[q]
  BY DEF TypeOK
<1>2. TypeOK'
  BY DEF TypeOK
<1>3. BatchesFit'
  BY DEF BatchesFit, Step
<1>4. \A w \in Workers : HeldBy(w)' = HeldBy(w) /\ TimeLeft(w)' = TimeLeft(w)
  BY DEF HeldBy, TimeLeft, Rest, Step
<1>5. ~Held(r)
  BY DEF Held, HeldAreLeased
<1>6. HeldAreLeased'
  BY <1>1, <1>4, HeldFacts DEF HeldAreLeased, OneHolder
<1>7. SendsExplained'
  BY <1>1 DEF SendsExplained, DuplicatesExplained, Accepted, At, Step
<1>8. AttemptsExplained'
  <2>1. attempts[r] = 0 /\ tried[r] \in Nat /\ abandoned[r] \in Nat /\ MaxAttempts \in Nat \ {0}
    BY TimesAssumption DEF AttemptsExplained, TypeOK
  <2>2. \A q \in Rows : Held(q)' <=> Held(q)
    BY <1>4 DEF Held
  <2> QED
    BY <1>1, <1>4, <1>5, <2>1, <2>2 DEF AttemptsExplained, Held, At, Step
<1> QED
  BY <1>2, <1>3, <1>6, <1>7, <1>8

\* A deleted row's batch goes on.
LEMMA DeleteKeepsInvariant ==
    ASSUME IndInv, NEW r \in Rows, DeleteSubmission(r)
    PROVE  IndInv'
<1> USE DEF IndInv, DeleteSubmission, history
<1>1. \A q \in Rows : status'[q] = IF q = r THEN "removed" ELSE status[q]
  BY DEF TypeOK
<1>2. TypeOK'
  BY DEF TypeOK
<1>3. BatchesFit'
  BY DEF BatchesFit, Step
<1>4. \A w \in Workers : HeldBy(w)' = HeldBy(w) /\ TimeLeft(w)' = TimeLeft(w)
  BY DEF HeldBy, TimeLeft, Rest, Step
<1>5. HeldAreLeased'
  BY <1>1, <1>4, HeldFacts DEF HeldAreLeased, OneHolder
<1>6. SendsExplained'
  BY <1>1 DEF SendsExplained, DuplicatesExplained, Accepted, At, Step
<1>7. AttemptsExplained'
  BY <1>1, <1>4 DEF AttemptsExplained, Held, At, Step
<1> QED
  BY <1>2, <1>3, <1>5, <1>6, <1>7

\* The switch moves nothing the invariant speaks of.
LEMMA SwitchKeepsInvariant ==
    ASSUME IndInv, SwitchNotifications
    PROVE  IndInv'
<1> USE DEF IndInv, SwitchNotifications, history
<1>1. TypeOK'
  BY DEF TypeOK
<1>2. BatchesFit'
  BY DEF BatchesFit, Step
<1>3. \A w \in Workers : HeldBy(w)' = HeldBy(w) /\ TimeLeft(w)' = TimeLeft(w)
  BY DEF HeldBy, TimeLeft, Rest, Step
<1>4. HeldAreLeased'
  BY <1>3 DEF HeldAreLeased, OneHolder
<1>5. SendsExplained'
  BY DEF SendsExplained, DuplicatesExplained, Accepted, At, Step
<1>6. AttemptsExplained'
  BY <1>3 DEF AttemptsExplained, Held, At, Step
<1> QED
  BY <1>1, <1>2, <1>4, <1>5, <1>6

\* What one worker does leaves the batches of the others as they are.
LEMMA OthersKept ==
    ASSUME TypeOK, NEW w \in Workers, worker' = [worker EXCEPT ![w] = worker'[w]]
    PROVE  \A v \in Workers \ {w} :
             /\ worker'[v] = worker[v]
             /\ HeldBy(v)' = HeldBy(v)
             /\ TimeLeft(v)' = TimeLeft(v)
<1>1. \A v \in Workers \ {w} : worker'[v] = worker[v]
  BY DEF TypeOK
<1> QED
  BY <1>1 DEF HeldBy, TimeLeft, Rest, Step

\* A due row is in no batch.
LEMMA DueAreFree ==
    ASSUME IndInv, NEW r \in Due
    PROVE  r \in Rows /\ status[r] = "pending" /\ ~Held(r)
<1>1. r \in Rows /\ status[r] = "pending" /\ due[r] = 0
  BY DEF Due
<1>2. \A w \in Workers : TimeLeft(w) \in Nat
  BY TimeFacts DEF IndInv
<1> QED
  BY <1>1, <1>2 DEF Held, IndInv, HeldAreLeased

(* A claim takes rows nobody holds, each with an attempt left, and leases    *)
(* them for longer than the batch can last.                                *)
LEMMA ClaimKeepsInvariant ==
    ASSUME LeaseOutlasts, IndInv, NEW w \in Workers, NEW S \in SUBSET Rows, Claim(w, S)
    PROVE  IndInv'
<1> USE DEF IndInv
<1>1. PICK r \in S : worker' = [worker EXCEPT ![w] =
          [Idle EXCEPT !.step = "render", !.row = r, !.rest = S \ {r},
                       !.timer = QueryTime, !.claimed = attempts']]
  BY DEF Claim
<1>2. /\ UNCHANGED <<enabled, status, posted, unsure, tried, abandoned>>
      /\ Step(w, "idle")
      /\ due' = [q \in Rows |-> IF q \in S THEN Lease ELSE due[q]]
      /\ attempts' = [q \in Rows |-> IF q \in S THEN attempts[q] + 1 ELSE attempts[q]]
      /\ Cardinality(S) <= BatchSize
  <2>1. Cardinality(S) \in Nat /\ BatchSize \in Nat
    BY BatchFacts, TimesAssumption
  <2> QED
    BY <2>1 DEF Claim, history, Leased, OneMore
<1>3. \A q \in S : status[q] = "pending" /\ ~Held(q)
  BY DueAreFree DEF Claim
<1>4. \A q \in Rows : /\ attempts[q] \in Nat /\ abandoned[q] \in 0 .. MaxDeaths
                      /\ tried[q] \in Nat /\ posted[q] \in Nat /\ unsure[q] \in Nat
                      /\ MaxAttempts \in Nat /\ MaxDeaths \in Nat
  BY TimesAssumption DEF TypeOK, MostAttempts
<1>5. \A q \in S : /\ attempts[q] < MaxAttempts + abandoned[q]
                   /\ attempts[q] <= tried[q] + abandoned[q]
  BY <1>3 DEF AttemptsExplained
<1>6. attempts' \in [Rows -> 0 .. MostAttempts]
  <2>1. \A q \in Rows : attempts'[q] \in 0 .. MostAttempts
    BY <1>2, <1>4, <1>5 DEF MostAttempts, TypeOK
  <2> QED
    BY <1>2, <2>1
<1>7. /\ worker'[w].step = "render" /\ worker'[w].row = r /\ worker'[w].rest = S \ {r}
      /\ worker'[w].timer = QueryTime /\ worker'[w].verdict = None
      /\ worker'[w].claimed = attempts'
      /\ worker' = [worker EXCEPT ![w] = worker'[w]]
  BY <1>1 DEF Idle, TypeOK, Batches
<1>8. TypeOK'
  <2>1. QueryTime \in Nat /\ Lease \in Nat
    BY TimesAssumption
  <2>2. [Idle EXCEPT !.step = "render", !.row = r, !.rest = S \ {r},
                     !.timer = QueryTime, !.claimed = attempts'] \in Batches
    BY <1>6, <2>1 DEF Idle, Batches
  <2>3. worker' \in [Workers -> Batches]
    BY <1>1, <2>2 DEF TypeOK
  <2>4. due' \in [Rows -> Nat] /\ \A q \in Rows : due'[q] <= Lease \/ due'[q] <= Backoff
    BY <1>2, <2>1 DEF TypeOK
  <2> QED
    BY <1>2, <1>6, <2>3, <2>4 DEF TypeOK
<1>9. BatchesFit'
  BY <1>7, OthersKept, RowsAssumption DEF BatchesFit, Step
<1>10. HeldBy(w)' = S /\ HeldBy(w) = {}
  BY <1>2, <1>7, HeldFacts, RowsAssumption DEF HeldBy
<1>11. \A v \in Workers \ {w} : HeldBy(v)' = HeldBy(v) /\ HeldBy(v) \cap S = {} /\ HeldBy(v) \subseteq Rows
  BY <1>3, <1>7, OthersKept, HeldFacts DEF Held
<1>12. TimeLeft(w)' < Lease
  <2> DEFINE n == Cardinality(S \ {r})
  <2>1. n \in Nat /\ n <= BatchSize - 1 /\ BatchSize - 1 \in Nat
    BY <1>2, BatchFacts, TimesAssumption
  <2>2. TimeLeft(w)' = QueryTime + SendTimeout + QueryTime + Later(n)
    BY <1>7, <1>8, <1>9, TimeFacts DEF TimeLeft, Rest, Step
  <2>3. Later(n) \in Nat /\ Later(BatchSize - 1) \in Nat /\ Later(n) <= Later(BatchSize - 1)
    BY <2>1, LaterFacts
  <2>4. QueryTime + SendTimeout + QueryTime = RowTime /\ RowTime \in Nat
    BY TimesAssumption DEF RowTime
  <2>5. Lease \in Nat /\ Later(BatchSize - 1) + RowTime < Lease
    BY TimesAssumption DEF LeaseOutlasts
  <2>6. TimeLeft(w)' = RowTime + Later(n)
    BY <2>2, <2>3, <2>4, TimesAssumption
  <2> QED
    BY <2>3, <2>4, <2>5, <2>6
<1>13. HeldAreLeased'
  <2>1. \A q \in S : /\ status'[q] \in {"pending", "removed"}
                     /\ worker'[w].claimed[q] = attempts'[q]
                     /\ due'[q] > TimeLeft(w)'
    BY <1>2, <1>3, <1>7, <1>12, TimesAssumption, <1>8, <1>9, TimeFacts DEF TypeOK
  <2>2. \A v \in Workers \ {w} : \A q \in HeldBy(v)' :
          /\ status'[q] \in {"pending", "removed"}
          /\ worker'[v].claimed[q] = attempts'[q]
          /\ due'[q] > TimeLeft(v)'
    BY <1>2, <1>7, <1>11, OthersKept DEF HeldAreLeased
  <2>3. OneHolder'
    BY <1>10, <1>11 DEF OneHolder, HeldAreLeased
  <2> QED
    BY <1>10, <2>1, <2>2, <2>3 DEF HeldAreLeased
<1>14. SendsExplained'
  <2>1. \A v \in Workers, q \in Rows :
          (At(v, "send", q)' <=> At(v, "send", q)) /\ (Accepted(v, q)' <=> Accepted(v, q))
    BY <1>2, <1>7, OthersKept DEF At, Accepted, Step
  <2> QED
    BY <1>2, <2>1 DEF SendsExplained, DuplicatesExplained
<1>15. AttemptsExplained'
  <2>1. \A q \in Rows \ S : attempts'[q] = attempts[q] /\ (Held(q)' <=> Held(q))
    BY <1>2, <1>10, <1>11 DEF Held
  <2>2. \A q \in S : Held(q)' /\ \A v \in Workers \ {w} : q \notin HeldBy(v)'
    BY <1>10, <1>11 DEF Held
  <2>3. \A q \in S : /\ 0 < attempts'[q] /\ attempts'[q] <= MaxAttempts + abandoned'[q]
                     /\ attempts'[q] <= tried'[q] + abandoned'[q] + 1
                     /\ ~At(w, "mark", q)'
                     /\ status'[q] = "pending"
    BY <1>2, <1>3, <1>4, <1>5, <1>7 DEF At, Step
  <2>4. \A q \in Rows \ S : \A v \in Workers :
          /\ q \in HeldBy(v)' => v # w /\ q \in HeldBy(v)
          /\ v # w => worker'[v] = worker[v]
    BY <1>7, <1>10, OthersKept
  <2>5. \A q \in Rows \ S :
    /\ status'[q] = "absent" => attempts'[q] = 0
    /\ status'[q] = "pending" /\ ~Held(q)' =>
          attempts'[q] <= tried'[q] + abandoned'[q] /\ attempts'[q] < MaxAttempts + abandoned'[q]
    BY <1>2, <2>1 DEF AttemptsExplained
  <2>6. \A q \in Rows \ S : \A v \in Workers : q \in HeldBy(v)' =>
          /\ 0 < attempts'[q] /\ attempts'[q] <= MaxAttempts + abandoned'[q]
          /\ attempts'[q] <= tried'[q] + abandoned'[q] +
                (IF At(v, "mark", q)' /\ worker'[v].verdict = "retry" THEN 0 ELSE 1)
    BY <1>2, <2>1, <2>4 DEF AttemptsExplained, At, Step
  <2> QED
    BY <1>10, <2>2, <2>3, <2>5, <2>6 DEF AttemptsExplained
<1> QED
  BY <1>8, <1>9, <1>13, <1>14, <1>15

\* A row that was not removed meanwhile goes out; nobody had it accepted.
LEMMA RenderKeepsInvariant ==
    ASSUME IndInv, NEW w \in Workers, Render(w)
    PROVE  IndInv'
<1> DEFINE r == worker[w].row
           sending == [worker[w] EXCEPT !.step = "send", !.timer = SendTimeout]
           dropping == [worker[w] EXCEPT !.step = "mark", !.timer = QueryTime,
                                         !.verdict = "nothing"]
<1> USE DEF IndInv
<1>1. /\ UNCHANGED <<enabled, status, attempts, due, posted, unsure, tried, abandoned>>
      /\ Step(w, "render")
      /\ r \in Rows \ worker[w].rest
      /\ worker[w].verdict = None
  BY HeldFacts DEF Render, history, Step, BatchesFit
<1>2. \/ status[r] # "removed" /\ worker' = [worker EXCEPT ![w] = sending]
      \/ worker' = [worker EXCEPT ![w] = dropping]
  BY DEF Render
<1>3. /\ {sending, dropping} \subseteq Batches
      /\ sending.step = "send" /\ sending.timer = SendTimeout /\ sending.verdict = None
      /\ dropping.step = "mark" /\ dropping.timer = QueryTime /\ dropping.verdict = "nothing"
      /\ \A x \in {sending, dropping} :
            x.row = r /\ x.rest = worker[w].rest /\ x.claimed = worker[w].claimed
  <2>1. worker[w] \in Batches /\ SendTimeout \in Nat /\ QueryTime \in Nat /\ "nothing" \in Verdicts
    BY BatchFields, TimesAssumption DEF Verdicts
  <2> QED
    BY <1>1, <2>1 DEF Batches
<1> HIDE DEF sending, dropping
<1>4. TypeOK'
  BY <1>1, <1>2, <1>3 DEF TypeOK
<1>5. /\ worker'[w].row = r /\ worker'[w].rest = worker[w].rest
      /\ worker'[w].claimed = worker[w].claimed
      /\ worker' = [worker EXCEPT ![w] = worker'[w]]
      /\ \/ /\ status[r] # "removed"
            /\ worker'[w].step = "send" /\ worker'[w].timer = SendTimeout
            /\ worker'[w].verdict = None
         \/ /\ worker'[w].step = "mark" /\ worker'[w].timer = QueryTime
            /\ worker'[w].verdict = "nothing"
  <2>1. \/ status[r] # "removed" /\ worker'[w] = sending
        \/ worker'[w] = dropping
    BY <1>2 DEF TypeOK
  <2>2. worker' = [worker EXCEPT ![w] = worker'[w]]
    BY <1>2 DEF TypeOK
  <2> QED
    BY <1>3, <2>1, <2>2
<1>6. BatchesFit'
  BY <1>1, <1>5, OthersKept, RowsAssumption, NoneAssumption DEF BatchesFit, Step, Verdicts
<1>7. HeldBy(w)' = HeldBy(w)
  BY <1>5 DEF HeldBy
<1>8. TimeLeft(w)' <= TimeLeft(w) /\ TimeLeft(w)' \in Nat
  <2> DEFINE n == Cardinality(worker[w].rest)
  <2>1. n \in Nat /\ Later(n) \in Nat /\ worker[w].timer \in Nat
    BY TimeFacts, LaterFacts, BatchFields
  <2>2. TimeLeft(w) = worker[w].timer + SendTimeout + QueryTime + Later(n)
    BY <1>1, TimeFacts
  <2>3. TimeLeft(w)' \in {SendTimeout + QueryTime + Later(n), QueryTime + Later(n)}
    BY <1>5 DEF TimeLeft, Rest, Step
  <2> QED
    BY <2>1, <2>2, <2>3, TimesAssumption
<1>9. HeldAreLeased'
  BY <1>1, <1>4, <1>5, <1>7, <1>8, LeasesStayGood
<1>10. SendsExplained'
  <2>1. r \in HeldBy(w)
    BY <1>1, HeldFacts DEF Step
  <2>2. \A v \in Workers \ {w} : ~Accepted(v, r)
    BY <2>1, RowsAssumption, <1>1 DEF Accepted, At, HeldBy, HeldAreLeased, OneHolder
  <2>3. status[r] \in {"pending", "removed"} /\ ~Accepted(w, r)
    BY <1>1, <2>1 DEF HeldAreLeased, Accepted, At, Step
  <2>4. status[r] # "removed" => posted[r] <= unsure[r]
    BY <1>1, <2>2, <2>3 DEF SendsExplained
  <2>5. \A v \in Workers, q \in Rows :
          /\ At(v, "send", q)' => At(v, "send", q) \/ (q = r /\ status[r] # "removed")
          /\ Accepted(v, q)' <=> Accepted(v, q)
    BY <1>1, <1>5, OthersKept DEF At, Accepted, Step
  <2> QED
    BY <1>1, <2>4, <2>5 DEF SendsExplained, DuplicatesExplained
<1>11. AttemptsExplained'
  <2>1. \A v \in Workers : HeldBy(v)' = HeldBy(v)
    BY <1>5, <1>7, OthersKept
  <2>2. \A q \in Rows : Held(q)' <=> Held(q)
    BY <2>1 DEF Held
  <2>3. \A v \in Workers, q \in Rows :
          /\ At(v, "mark", q)' /\ worker'[v].verdict = "retry" => At(v, "mark", q) /\ worker[v].verdict = "retry"
          /\ At(v, "mark", q) /\ worker[v].verdict = "retry" => At(v, "mark", q)' /\ worker'[v].verdict = "retry"
    BY <1>1, <1>5, OthersKept DEF At, Step
  <2> QED
    BY <1>1, <2>1, <2>2, <2>3 DEF AttemptsExplained
<1> QED
  BY <1>4, <1>6, <1>9, <1>10, <1>11

(* An answer, or none, ends a send: a message it leaves in the channel is     *)
(* marked as accepted or counted as unsure, and a retry counts as a failure. *)
LEMMA VerdictKeepsInvariant ==
    ASSUME IndInv, NEW w \in Workers, NEW verdict \in Verdicts, Verdict(w, verdict),
           NEW p \in {0, 1}, NEW u \in {0, 1}, NEW t \in {0, 1},
           {posted', unsure', tried'} \subseteq [Rows -> Nat],
           \A q \in Rows :
              /\ posted'[q] = posted[q] + (IF q = worker[w].row THEN p ELSE 0)
              /\ unsure'[q] = unsure[q] + (IF q = worker[w].row THEN u ELSE 0)
              /\ tried'[q] = tried[q] + (IF q = worker[w].row THEN t ELSE 0),
           p = 1 => u = 1 \/ verdict \in {"ok", "cut"},
           verdict = "retry" => t = 1
    PROVE  IndInv'
<1> DEFINE r == worker[w].row
           marking == [worker[w] EXCEPT !.step = "mark", !.timer = QueryTime,
                                        !.verdict = verdict]
<1> USE DEF IndInv
<1>1. /\ UNCHANGED <<enabled, status, attempts, due, abandoned>>
      /\ Step(w, "send")
      /\ r \in Rows \ worker[w].rest
      /\ r \in HeldBy(w)
  BY HeldFacts DEF Verdict, Step
<1>2. worker' = [worker EXCEPT ![w] = marking]
  BY DEF Verdict
<1>3. /\ marking \in Batches
      /\ marking.step = "mark" /\ marking.timer = QueryTime /\ marking.verdict = verdict
      /\ marking.row = r /\ marking.rest = worker[w].rest
      /\ marking.claimed = worker[w].claimed
  <2>1. worker[w] \in Batches /\ QueryTime \in Nat
    BY BatchFields, TimesAssumption
  <2> QED
    BY <2>1 DEF Batches
<1> HIDE DEF marking
<1>4. TypeOK'
  BY <1>1, <1>2, <1>3 DEF TypeOK
<1>5. /\ worker'[w].row = r /\ worker'[w].rest = worker[w].rest
      /\ worker'[w].claimed = worker[w].claimed
      /\ worker' = [worker EXCEPT ![w] = worker'[w]]
      /\ worker'[w].step = "mark" /\ worker'[w].timer = QueryTime
      /\ worker'[w].verdict = verdict
  <2>1. worker'[w] = marking /\ worker' = [worker EXCEPT ![w] = worker'[w]]
    BY <1>2 DEF TypeOK
  <2> QED
    BY <1>3, <2>1
<1>6. BatchesFit'
  BY <1>1, <1>5, OthersKept, RowsAssumption, NoneAssumption DEF BatchesFit, Step
<1>7. HeldBy(w)' = HeldBy(w)
  BY <1>5 DEF HeldBy
<1>8. TimeLeft(w)' <= TimeLeft(w) /\ TimeLeft(w)' \in Nat
  <2> DEFINE n == Cardinality(worker[w].rest)
  <2>1. n \in Nat /\ Later(n) \in Nat /\ worker[w].timer \in Nat
    BY TimeFacts, LaterFacts, BatchFields
  <2>2. TimeLeft(w) = worker[w].timer + QueryTime + Later(n)
    BY <1>1, TimeFacts
  <2>3. TimeLeft(w)' = QueryTime + Later(n)
    BY <1>5 DEF TimeLeft, Rest, Step
  <2> QED
    BY <2>1, <2>2, <2>3, TimesAssumption
<1>9. HeldAreLeased'
  BY <1>1, <1>4, <1>5, <1>7, <1>8, LeasesStayGood
<1>10. \A v \in Workers \ {w} : ~Accepted(v, r) /\ ~At(v, "send", r) /\ r \notin HeldBy(v)
  BY <1>1, RowsAssumption DEF Accepted, At, HeldBy, HeldAreLeased, OneHolder
<1>11. \A q \in Rows : posted[q] \in Nat /\ unsure[q] \in Nat /\ tried[q] \in Nat /\ abandoned[q] \in Nat
                       /\ attempts[q] \in Nat
  BY DEF TypeOK
<1>12. SendsExplained'
  <2>1. posted[r] <= unsure[r]
    BY <1>1, <1>10 DEF SendsExplained, Accepted, At, Step
  <2>2. Accepted(w, r)' <=> verdict \in {"ok", "cut"}
    BY <1>5 DEF Accepted, At, Step
  <2>3. \A v \in Workers, q \in Rows \ {r} :
          (At(v, "send", q)' <=> At(v, "send", q)) /\ (Accepted(v, q)' <=> Accepted(v, q))
    BY <1>1, <1>5, OthersKept DEF At, Accepted, Step
  <2>4. posted'[r] <= 1 + unsure'[r] /\ (~Accepted(w, r)' => posted'[r] <= unsure'[r])
    BY <1>1, <1>11, <2>1, <2>2
  <2>5. \A q \in Rows \ {r} : posted'[q] = posted[q] /\ unsure'[q] = unsure[q]
    BY <1>11
  <2>6. \A q \in Rows \ {r} :
          /\ posted'[q] <= 1 + unsure'[q]
          /\ /\ status'[q] \in {"absent", "pending"} \/ \E v \in Workers : At(v, "send", q)'
             /\ ~ \E v \in Workers : Accepted(v, q)'
             => posted'[q] <= unsure'[q]
    BY <1>1, <2>3, <2>5 DEF SendsExplained, DuplicatesExplained
  <2>7. DuplicatesExplained'
    BY <2>4, <2>6 DEF DuplicatesExplained
  <2>8. \A q \in Rows :
          /\ status'[q] \in {"absent", "pending"} \/ \E v \in Workers : At(v, "send", q)'
          /\ ~ \E v \in Workers : Accepted(v, q)'
          => posted'[q] <= unsure'[q]
    BY <1>5, <2>4, <2>6
  <2> QED
    BY <2>7, <2>8 DEF SendsExplained
<1>13. AttemptsExplained'
  <2>1. \A v \in Workers : HeldBy(v)' = HeldBy(v)
    BY <1>5, <1>7, OthersKept
  <2>2. \A q \in Rows : Held(q)' <=> Held(q)
    BY <2>1 DEF Held
  <2>3. \A q \in Rows : tried'[q] >= tried[q] /\ (q = r /\ verdict = "retry" => tried'[q] = tried[q] + 1)
    BY <1>11
  <2>4. \A v \in Workers, q \in Rows : q # r \/ v # w =>
          (At(v, "mark", q)' /\ worker'[v].verdict = "retry" <=> At(v, "mark", q) /\ worker[v].verdict = "retry")
    BY <1>1, <1>5, OthersKept DEF At, Step
  <2>5. ~At(w, "mark", r) /\ (worker'[w].verdict = "retry" => tried'[r] = tried[r] + 1)
    BY <1>1, <1>5, <2>3 DEF At, Step
  <2>6. \A q \in Rows :
    /\ status'[q] = "absent" => attempts'[q] = 0
    /\ status'[q] = "pending" /\ ~Held(q)' =>
          attempts'[q] <= tried'[q] + abandoned'[q] /\ attempts'[q] < MaxAttempts + abandoned'[q]
    BY <1>1, <1>4, <1>11, <2>2, <2>3 DEF AttemptsExplained, TypeOK
  <2>7. \A q \in Rows, v \in Workers : q \in HeldBy(v)' =>
          /\ 0 < attempts'[q] /\ attempts'[q] <= MaxAttempts + abandoned'[q]
          /\ attempts'[q] <= tried'[q] + abandoned'[q] +
                (IF At(v, "mark", q)' /\ worker'[v].verdict = "retry" THEN 0 ELSE 1)
    <3> SUFFICES ASSUME NEW q \in Rows, NEW v \in Workers, q \in HeldBy(v)'
                 PROVE  /\ 0 < attempts'[q] /\ attempts'[q] <= MaxAttempts + abandoned'[q]
                        /\ attempts'[q] <= tried'[q] + abandoned'[q] +
                             (IF At(v, "mark", q)' /\ worker'[v].verdict = "retry" THEN 0 ELSE 1)
      OBVIOUS
    <3>1. tried'[q] \in Nat /\ tried[q] \in Nat /\ abandoned[q] \in Nat /\ attempts[q] \in Nat
      BY <1>4, <1>11 DEF TypeOK
    <3>2. /\ 0 < attempts[q] /\ attempts[q] <= MaxAttempts + abandoned[q]
          /\ attempts[q] <= tried[q] + abandoned[q] +
                (IF At(v, "mark", q) /\ worker[v].verdict = "retry" THEN 0 ELSE 1)
      BY <2>1 DEF AttemptsExplained
    <3>3. CASE q = r /\ v = w
      BY <1>1, <2>5, <3>1, <3>2, <3>3
    <3>4. CASE q # r \/ v # w
      BY <1>1, <2>3, <2>4, <3>1, <3>2, <3>4
    <3> QED
      BY <3>3, <3>4
  <2> QED
    BY <2>6, <2>7 DEF AttemptsExplained
<1> QED
  BY <1>4, <1>6, <1>9, <1>12, <1>13

\* One more for a row.
LEMMA OneMoreFacts ==
    ASSUME NEW f \in [Rows -> Nat], NEW r \in Rows
    PROVE  /\ OneMore(f, {r}) \in [Rows -> Nat]
           /\ \A q \in Rows : OneMore(f, {r})[q] = f[q] + (IF q = r THEN 1 ELSE 0)
           /\ \A q \in Rows : f[q] = f[q] + (IF q = r THEN 0 ELSE 0)
BY DEF OneMore

\* Each of Slack's answers is a verdict the lemma above covers.
LEMMA AnswerKeepsInvariant ==
    ASSUME IndInv, NEW w \in Workers,
           \/ SlackAccepts(w)
           \/ SlackAcceptsUnread(w)
           \/ \E verdict \in Verdicts : SlackRefuses(w, verdict)
           \/ \E taken \in BOOLEAN : SlackSilent(w, taken)
    PROVE  IndInv'
<1> DEFINE r == worker[w].row
<1> DEFINE Counts(p, u, t) ==
             /\ {posted', unsure', tried'} \subseteq [Rows -> Nat]
             /\ \A q \in Rows :
                   /\ posted'[q] = posted[q] + (IF q = worker[w].row THEN p ELSE 0)
                   /\ unsure'[q] = unsure[q] + (IF q = worker[w].row THEN u ELSE 0)
                   /\ tried'[q] = tried[q] + (IF q = worker[w].row THEN t ELSE 0)
<1>1. {posted, unsure, tried} \subseteq [Rows -> Nat]
  BY DEF IndInv, TypeOK
<1>2. Step(w, "send") => r \in Rows
  BY HeldFacts DEF IndInv, Step
<1>3. ASSUME Step(w, "send")
      PROVE  /\ posted' = OneMore(posted, {r}) /\ UNCHANGED <<unsure, tried>> => Counts(1, 0, 0)
             /\ UNCHANGED <<posted, unsure, tried>> => Counts(0, 0, 0)
             /\ tried' = OneMore(tried, {r}) /\ UNCHANGED <<posted, unsure>> => Counts(0, 0, 1)
             /\ /\ tried' = OneMore(tried, {r}) /\ posted' = OneMore(posted, {r})
                /\ unsure' = OneMore(unsure, {r})
                => Counts(1, 1, 1)
  BY <1>1, <1>2, <1>3, OneMoreFacts
<1>4. ASSUME NEW verdict \in Verdicts, Verdict(w, verdict)
      PROVE  /\ Counts(1, 0, 0) /\ verdict \in {"ok", "cut"} => IndInv'
             /\ Counts(0, 0, 0) /\ verdict # "retry" => IndInv'
             /\ Counts(0, 0, 1) => IndInv'
             /\ Counts(1, 1, 1) => IndInv'
  <2>1. ASSUME NEW p \in {0, 1}, NEW u \in {0, 1}, NEW t \in {0, 1}, Counts(p, u, t),
               p = 1 => u = 1 \/ verdict \in {"ok", "cut"}, verdict = "retry" => t = 1
        PROVE  IndInv'
    BY <1>4, <2>1, VerdictKeepsInvariant
  <2> HIDE DEF Counts
  <2> QED
    BY <2>1
<1>5. \A verdict : Verdict(w, verdict) => Step(w, "send")
  BY DEF Verdict
<1> HIDE DEF Counts, r
<1>6. CASE SlackAccepts(w)
  BY <1>3, <1>4, <1>5, <1>6 DEF SlackAccepts, Verdicts, r
<1>7. CASE SlackAcceptsUnread(w)
  BY <1>3, <1>4, <1>5, <1>7 DEF SlackAcceptsUnread, Verdicts, r
<1>8. ASSUME NEW verdict \in Verdicts, SlackRefuses(w, verdict)
      PROVE  IndInv'
  BY <1>3, <1>4, <1>5, <1>8 DEF SlackRefuses, r
<1>9. ASSUME NEW taken \in BOOLEAN, SlackSilent(w, taken)
      PROVE  IndInv'
  <2>1. "retry" \in Verdicts /\ Verdict(w, "retry") /\ Step(w, "send")
    BY <1>5, <1>9 DEF SlackSilent, Verdicts
  <2>2. CASE taken = TRUE
    BY <1>3, <1>4, <1>9, <2>1, <2>2 DEF SlackSilent, r
  <2>3. CASE taken = FALSE
    BY <1>3, <1>4, <1>9, <2>1, <2>3 DEF SlackSilent, r
  <2> QED
    BY <2>2, <2>3
<1> QED
  BY <1>6, <1>7, <1>8, <1>9

\* After a row the worker has the rest of its batch, and the time for it.
LEMMA NextRowFacts ==
    ASSUME IndInv, NEW w \in Workers, Step(w, "mark"), NextRow(w)
    PROVE  /\ worker' \in [Workers -> Batches]
           /\ worker' = [worker EXCEPT ![w] = worker'[w]]
           /\ HeldBy(w)' = worker[w].rest
           /\ worker'[w].row = None /\ worker'[w].verdict = None
           /\ worker'[w].rest = worker[w].rest
           /\ \/ worker'[w].step = "idle" /\ worker[w].rest = {}
              \/ /\ worker'[w].step = "pause" /\ worker[w].rest # {}
                 /\ worker'[w].timer \in Pace .. QueryTime + Pace
                 /\ worker'[w].claimed = worker[w].claimed
<1>0. PICK told \in 0 .. QueryTime : worker' = [worker EXCEPT ![w] =
        IF @.rest = {} THEN Idle
        ELSE [@ EXCEPT !.step = "pause", !.row = None, !.timer = told + Pace, !.verdict = None]]
  BY DEF NextRow
<1> DEFINE pausing == [worker[w] EXCEPT !.step = "pause", !.row = None, !.timer = told + Pace,
                                        !.verdict = None]
<1>1. worker \in [Workers -> Batches] /\ worker[w] \in Batches
  BY DEF IndInv, TypeOK
<1>2. /\ pausing \in Batches
      /\ pausing.step = "pause" /\ pausing.timer = told + Pace /\ pausing.verdict = None
      /\ pausing.row = None /\ pausing.rest = worker[w].rest
      /\ pausing.claimed = worker[w].claimed
  <2>1. told + Pace \in Nat
    BY TimesAssumption
  <2> QED
    BY <1>1, <2>1 DEF Batches
<1>3. Idle \in Batches /\ Idle.step = "idle" /\ Idle.row = None /\ Idle.rest = {} /\ Idle.verdict = None
  <2>1. 0 \in 0 .. MostAttempts
    BY TimesAssumption DEF MostAttempts
  <2> QED
    BY <2>1 DEF Idle, Batches
<1>4. \/ worker[w].rest = {} /\ worker' = [worker EXCEPT ![w] = Idle]
      \/ worker[w].rest # {} /\ worker' = [worker EXCEPT ![w] = pausing]
  BY <1>0
<1>9. told + Pace \in Pace .. QueryTime + Pace
  BY TimesAssumption
<1> HIDE DEF pausing
<1>5. \/ worker[w].rest = {} /\ worker'[w] = Idle
      \/ worker[w].rest # {} /\ worker'[w] = pausing
  BY <1>1, <1>4
<1>6. worker' = [worker EXCEPT ![w] = worker'[w]] /\ worker' \in [Workers -> Batches]
  BY <1>1, <1>2, <1>3, <1>4
<1>7. worker'[w].row = None /\ worker'[w].rest = worker[w].rest
  BY <1>2, <1>3, <1>5
<1>8. HeldBy(w)' = worker[w].rest
  BY <1>7 DEF HeldBy
<1> QED
  BY <1>2, <1>3, <1>5, <1>6, <1>7, <1>8, <1>9

\* What deliverOne's last statement writes, by the verdict.
LEMMA MarkFacts ==
    ASSUME IndInv, NEW w \in Workers, Mark(w)
    PROVE  LET r == worker[w].row IN
           /\ TypeOK'
           /\ \A q \in Rows \ {r} : status'[q] = status[q] /\ attempts'[q] = attempts[q] /\ due'[q] = due[q]
           /\ status'[r] \in {"pending", "sent", "failed", "removed"}
           /\ status'[r] = "pending" =>
                 \/ /\ worker[w].verdict = "throttled" /\ attempts[r] < MaxAttempts
                    /\ attempts'[r] = attempts[r] - 1
                 \/ /\ worker[w].verdict = "retry" /\ attempts[r] < MaxAttempts
                    /\ attempts'[r] = attempts[r]
           /\ status'[r] = "pending" => status[r] = "pending"
<1> DEFINE r == worker[w].row
           n == worker[w].claimed[r]
           verdict == worker[w].verdict
           gone == status[r] = "removed"
           becomes(s) == status' = [status EXCEPT ![r] = IF gone THEN status[r] ELSE s]
           waits == \E d \in 1 .. Backoff : due' = [due EXCEPT ![r] = IF gone THEN due[r] ELSE d]
<1> USE DEF IndInv
<1>1. /\ Step(w, "mark") /\ NextRow(w)
      /\ UNCHANGED <<enabled, posted, unsure, tried, abandoned>>
  BY DEF Mark, history
<1>2. \/ verdict = "nothing" /\ becomes("removed") /\ UNCHANGED <<attempts, due>>
      \/ verdict = "ok" /\ becomes("sent") /\ UNCHANGED <<attempts, due>>
      \/ becomes("failed") /\ UNCHANGED <<attempts, due>>
      \/ /\ verdict = "throttled" /\ ~GivesUp(n)
         /\ attempts' = [attempts EXCEPT ![r] = IF gone THEN attempts[r] ELSE GivesBack(attempts[r])]
         /\ waits /\ UNCHANGED status
      \/ verdict = "retry" /\ ~GivesUp(n) /\ waits /\ UNCHANGED <<status, attempts>>
  BY DEF Mark
<1>3. r \in Rows /\ r \in HeldBy(w)
  BY <1>1, HeldFacts DEF Step
<1>4. /\ n = attempts[r] /\ attempts[r] \in Nat /\ attempts[r] > 0
      /\ status[r] \in {"pending", "removed"} /\ MaxAttempts \in Nat /\ Backoff \in Nat
      /\ attempts[r] \in 0 .. MostAttempts /\ MostAttempts \in Nat
  BY <1>3, TimesAssumption DEF HeldAreLeased, AttemptsExplained, TypeOK, MostAttempts
<1>5. GivesBack(attempts[r]) = attempts[r] - 1 /\ attempts[r] - 1 \in 0 .. MostAttempts
  BY <1>4 DEF GivesBack
<1>6. ~GivesUp(n) => attempts[r] < MaxAttempts
  BY <1>4 DEF GivesUp
<1>7. status' \in [Rows -> {"absent", "pending", "sent", "failed", "removed"}]
  BY <1>2, <1>3 DEF TypeOK
<1>8. attempts' \in [Rows -> 0 .. MostAttempts]
  BY <1>2, <1>3, <1>5 DEF TypeOK
<1>9. due' \in [Rows -> Nat] /\ \A q \in Rows : due'[q] <= Lease \/ due'[q] <= Backoff
  <2>1. CASE due' = due
    BY <2>1 DEF TypeOK
  <2>2. ASSUME NEW d \in 1 .. Backoff, due' = [due EXCEPT ![r] = IF gone THEN due[r] ELSE d]
        PROVE  due' \in [Rows -> Nat] /\ \A q \in Rows : due'[q] <= Lease \/ due'[q] <= Backoff
    <3>1. d \in Nat /\ d <= Backoff
      BY <1>4
    <3> QED
      BY <1>3, <2>2, <3>1 DEF TypeOK
  <2> QED
    BY <1>2, <2>1, <2>2
<1>10. TypeOK'
  BY <1>1, <1>7, <1>8, <1>9, NextRowFacts DEF TypeOK
<1>11. \A q \in Rows \ {r} : status'[q] = status[q] /\ attempts'[q] = attempts[q] /\ due'[q] = due[q]
  BY <1>2 DEF TypeOK
<1>12. /\ status'[r] \in {"pending", "sent", "failed", "removed"}
       /\ status'[r] = "pending" =>
             \/ verdict = "throttled" /\ attempts[r] < MaxAttempts /\ attempts'[r] = attempts[r] - 1
             \/ verdict = "retry" /\ attempts[r] < MaxAttempts /\ attempts'[r] = attempts[r]
       /\ status'[r] = "pending" => status[r] = "pending"
  BY <1>2, <1>3, <1>4, <1>5, <1>6 DEF TypeOK
<1> QED
  BY <1>10, <1>11, <1>12

(* A row marked as queued again was not accepted, and its attempt was a      *)
(* failure or is given back.                                               *)
LEMMA MarkKeepsInvariant ==
    ASSUME IndInv, NEW w \in Workers, Mark(w)
    PROVE  IndInv'
<1> PICK r : r = worker[w].row
  OBVIOUS
<1> USE DEF IndInv
<1>1. /\ Step(w, "mark") /\ NextRow(w)
      /\ UNCHANGED <<enabled, posted, unsure, tried, abandoned>>
  BY DEF Mark, history
<1>2. r \in Rows /\ r \in HeldBy(w) /\ r \notin worker[w].rest /\ HeldBy(w) = worker[w].rest \cup {r}
  BY <1>1, HeldFacts DEF Step
<1>3. TypeOK'
  BY MarkFacts
<1>4. /\ worker' = [worker EXCEPT ![w] = worker'[w]]
      /\ HeldBy(w)' = worker[w].rest
      /\ worker'[w].row = None /\ worker'[w].verdict = None
      /\ worker'[w].rest = worker[w].rest
      /\ \/ worker'[w].step = "idle" /\ worker[w].rest = {}
         \/ /\ worker'[w].step = "pause" /\ worker[w].rest # {}
            /\ worker'[w].timer \in Pace .. QueryTime + Pace
            /\ worker'[w].claimed = worker[w].claimed
  BY <1>1, NextRowFacts
<1>5. BatchesFit'
  BY <1>1, <1>4, OthersKept, BatchFields, RowsAssumption DEF BatchesFit, Step
<1>6. \A v \in Workers : r \notin HeldBy(v)' /\ HeldBy(v)' \subseteq HeldBy(v)
  BY <1>2, <1>4, OthersKept DEF HeldAreLeased, OneHolder
<1>7. HeldBy(w)' # {} => TimeLeft(w)' <= TimeLeft(w) /\ TimeLeft(w)' \in Nat
  <2> DEFINE n == Cardinality(worker[w].rest)
  <2> SUFFICES ASSUME worker[w].rest # {}
               PROVE  TimeLeft(w)' <= TimeLeft(w) /\ TimeLeft(w)' \in Nat
    BY <1>4
  <2>1. n \in Nat \ {0} /\ worker[w].timer \in Nat
    BY BatchFacts, BatchFields
  <2>2. n - 1 \in Nat /\ Later(n) \in Nat /\ Later(n - 1) \in Nat /\ RowTime \in Nat
    BY <2>1, LaterFacts
  <2>3. Later(n) = Later(n - 1) + QueryTime + Pace + RowTime
    BY <2>1, LaterFacts
  <2>4. TimeLeft(w) = worker[w].timer + Later(n)
    BY <1>1, TimeFacts
  <2>5. TimeLeft(w)' = worker'[w].timer + RowTime + Later(n - 1)
    BY <1>4 DEF TimeLeft, Rest, Step
  <2>6. worker'[w].timer \in Nat /\ worker'[w].timer <= QueryTime + Pace
    BY <1>4, TimesAssumption
  <2> QED
    BY <2>1, <2>2, <2>3, <2>4, <2>5, <2>6, TimesAssumption
<1>8. \A v \in Workers : \A q \in HeldBy(v)' :
        /\ q \in Rows \ {r}
        /\ status'[q] = status[q] /\ attempts'[q] = attempts[q] /\ due'[q] = due[q]
  BY <1>6, HeldFacts, MarkFacts
<1>9. HeldAreLeased'
  <2>1. HeldBy(w)' \subseteq HeldBy(w)
    BY <1>6
  <2>2. \A q \in HeldBy(w)' : worker'[w].claimed[q] = worker[w].claimed[q]
    BY <1>4
  <2> QED
    BY <1>3, <1>4, <1>7, <1>8, <2>1, <2>2, LeasesStayGood
<1>10. /\ \A q \in Rows \ {r} : status'[q] = status[q] /\ attempts'[q] = attempts[q]
       /\ status'[r] # "absent"
       /\ status'[r] = "pending" =>
             /\ status[r] = "pending" /\ attempts[r] < MaxAttempts
             /\ \/ worker[w].verdict = "throttled" /\ attempts'[r] = attempts[r] - 1
                \/ worker[w].verdict = "retry" /\ attempts'[r] = attempts[r]
  BY MarkFacts
<1>11. \A v \in Workers, q \in Rows \ {r} :
         /\ At(v, "send", q)' <=> At(v, "send", q)
         /\ Accepted(v, q)' <=> Accepted(v, q)
         /\ At(v, "mark", q)' <=> At(v, "mark", q)
         /\ At(v, "mark", q) => worker'[v].verdict = worker[v].verdict
  BY <1>1, <1>4, OthersKept, RowsAssumption DEF At, Accepted, Step
<1>12. \A v \in Workers : ~At(v, "send", r)'
  BY <1>2, <1>4, <1>6, RowsAssumption DEF At, HeldBy, Step
<1>13. SendsExplained'
  <2>1. status'[r] = "pending" => posted[r] <= unsure[r]
    <3> SUFFICES ASSUME status'[r] = "pending" PROVE posted[r] <= unsure[r]
      OBVIOUS
    <3>1. \A v \in Workers : Accepted(v, r) => v = w
      BY <1>2, RowsAssumption DEF Accepted, At, HeldBy, HeldAreLeased, OneHolder
    <3>2. ~Accepted(w, r)
      BY <1>10 DEF Accepted
    <3> QED
      BY <1>2, <1>10, <3>1, <3>2 DEF SendsExplained
  <2> QED
    BY <1>1, <1>2, <1>10, <1>11, <1>12, <2>1 DEF SendsExplained, DuplicatesExplained
<1>14. AttemptsExplained'
  <2>1. \A q \in Rows \ {r} : \A v \in Workers : q \in HeldBy(v)' <=> q \in HeldBy(v)
    BY <1>2, <1>4, OthersKept
  <2>2. \A q \in Rows \ {r} : Held(q)' <=> Held(q)
    BY <2>1 DEF Held
  <2>3. status'[r] = "pending" =>
          attempts'[r] <= tried[r] + abandoned[r] /\ attempts'[r] < MaxAttempts + abandoned[r]
    <3>1. /\ attempts[r] \in Nat /\ tried[r] \in Nat /\ abandoned[r] \in Nat /\ MaxAttempts \in Nat
          /\ attempts[r] <= tried[r] + abandoned[r] +
                (IF worker[w].verdict = "retry" THEN 0 ELSE 1)
      BY <1>1, <1>2, TimesAssumption DEF TypeOK, AttemptsExplained, At
    <3> QED
      BY <1>10, <3>1
  <2>4. \A q \in Rows \ {r} :
    /\ status'[q] = "absent" => attempts'[q] = 0
    /\ status'[q] = "pending" /\ ~Held(q)' =>
          attempts'[q] <= tried'[q] + abandoned'[q] /\ attempts'[q] < MaxAttempts + abandoned'[q]
    /\ \A v \in Workers : q \in HeldBy(v)' =>
          /\ 0 < attempts'[q] /\ attempts'[q] <= MaxAttempts + abandoned'[q]
          /\ attempts'[q] <= tried'[q] + abandoned'[q] +
                (IF At(v, "mark", q)' /\ worker'[v].verdict = "retry" THEN 0 ELSE 1)
    BY <1>1, <1>10, <1>11, <2>1, <2>2 DEF AttemptsExplained
  <2>5. r \in Rows
    BY <1>2
  <2> QED
    BY <1>1, <1>6, <1>10, <2>3, <2>4, <2>5 DEF AttemptsExplained
<1> QED
  BY <1>3, <1>5, <1>9, <1>13, <1>14

\* The pause over, the worker takes a row of the rest.
LEMMA EndPauseKeepsInvariant ==
    ASSUME IndInv, NEW w \in Workers, EndPause(w)
    PROVE  IndInv'
<1> DEFINE going(r) == [worker[w] EXCEPT !.step = "render", !.row = r,
                                         !.rest = worker[w].rest \ {r}, !.timer = QueryTime]
<1> USE DEF IndInv
<1>1. /\ UNCHANGED <<enabled, status, attempts, due, posted, unsure, tried, abandoned>>
      /\ Step(w, "pause") /\ worker[w].timer = 0
  BY DEF EndPause, history
<1>2. PICK r \in worker[w].rest : worker' = [worker EXCEPT ![w] = going(r)]
  BY DEF EndPause
<1>3. r \in Rows /\ HeldBy(w) = worker[w].rest
  BY <1>1, <1>2, BatchFields, HeldFacts
<1>4. /\ going(r) \in Batches
      /\ going(r).step = "render" /\ going(r).timer = QueryTime
      /\ going(r).row = r /\ going(r).rest = worker[w].rest \ {r}
      /\ going(r).claimed = worker[w].claimed /\ going(r).verdict = worker[w].verdict
  <2>1. worker[w] \in Batches /\ QueryTime \in Nat
    BY BatchFields, TimesAssumption
  <2> QED
    BY <1>3, <2>1 DEF Batches
<1> HIDE DEF going
<1>5. worker'[w] = going(r) /\ worker' = [worker EXCEPT ![w] = worker'[w]]
  BY <1>2 DEF TypeOK
<1>6. /\ worker'[w].step = "render" /\ worker'[w].timer = QueryTime
      /\ worker'[w].row = r /\ worker'[w].rest = worker[w].rest \ {r}
      /\ worker'[w].claimed = worker[w].claimed /\ worker'[w].verdict = worker[w].verdict
  BY <1>4, <1>5
<1>7. TypeOK'
  BY <1>1, <1>2, <1>4 DEF TypeOK
<1>8. BatchesFit'
  BY <1>1, <1>3, <1>5, <1>6, OthersKept, RowsAssumption DEF BatchesFit, Step
<1>9. HeldBy(w)' = HeldBy(w)
  BY <1>2, <1>3, <1>6, RowsAssumption DEF HeldBy
<1>10. TimeLeft(w)' <= TimeLeft(w) /\ TimeLeft(w)' \in Nat
  <2> DEFINE n == Cardinality(worker[w].rest)
  <2>1. n \in Nat \ {0} /\ Cardinality(worker[w].rest \ {r}) = n - 1
    BY <1>2, BatchFacts, BatchFields
  <2>2. n - 1 \in Nat /\ Later(n - 1) \in Nat
    BY <2>1, LaterFacts
  <2>3. TimeLeft(w) = RowTime + Later(n - 1)
    BY <1>1, <2>2, TimeFacts, LaterFacts
  <2>4. TimeLeft(w)' = QueryTime + SendTimeout + QueryTime + Later(n - 1)
    BY <1>6, <2>1 DEF TimeLeft, Rest, Step
  <2> QED
    BY <2>2, <2>3, <2>4, TimesAssumption DEF RowTime
<1>11. HeldAreLeased'
  BY <1>1, <1>5, <1>6, <1>7, <1>9, <1>10, LeasesStayGood
<1>12. \A v \in Workers, q \in Rows :
         /\ At(v, "send", q)' <=> At(v, "send", q)
         /\ Accepted(v, q)' <=> Accepted(v, q)
         /\ At(v, "mark", q)' <=> At(v, "mark", q)
         /\ worker'[v].verdict = worker[v].verdict
  BY <1>1, <1>5, <1>6, OthersKept DEF At, Accepted, Step
<1>13. SendsExplained'
  BY <1>1, <1>12 DEF SendsExplained, DuplicatesExplained
<1>14. AttemptsExplained'
  <2>1. \A v \in Workers : HeldBy(v)' = HeldBy(v)
    BY <1>5, <1>9, OthersKept
  <2>2. \A q \in Rows : Held(q)' <=> Held(q)
    BY <2>1 DEF Held
  <2> QED
    BY <1>1, <1>12, <2>1, <2>2 DEF AttemptsExplained
<1> QED
  BY <1>7, <1>8, <1>11, <1>13, <1>14

(* A batch lost with its worker counts for each of its rows, and a message   *)
(* under way or accepted counts as one nobody could know of.               *)
LEMMA AbandonKeepsInvariant ==
    ASSUME IndInv, NEW w \in Workers, Abandon(w)
    PROVE  IndInv'
<1> USE DEF IndInv
<1>1. /\ UNCHANGED <<enabled, status, attempts, due, tried>>
      /\ ~Step(w, "idle")
      /\ worker' = [worker EXCEPT ![w] = Idle]
      /\ abandoned' = OneMore(abandoned, HeldBy(w))
  BY DEF Abandon
<1>2. HeldBy(w) \subseteq Rows
  BY HeldFacts
<1>3. worker'[w] = Idle /\ worker' = [worker EXCEPT ![w] = worker'[w]]
  BY <1>1 DEF TypeOK
<1>4. \A q \in Rows : /\ abandoned[q] \in Nat /\ posted[q] \in Nat /\ unsure[q] \in Nat
                      /\ attempts[q] \in Nat /\ tried[q] \in Nat
                      /\ abandoned'[q] = IF q \in HeldBy(w) THEN abandoned[q] + 1 ELSE abandoned[q]
  BY <1>1 DEF TypeOK, OneMore
<1>5. abandoned' \in [Rows -> 0 .. MaxDeaths]
  <2>1. \A q \in Rows : abandoned'[q] \in 0 .. MaxDeaths
    BY <1>4, TimesAssumption DEF TypeOK, Abandon
  <2> QED
    BY <1>1, <2>1 DEF OneMore
<1>6. /\ {posted', unsure'} \subseteq [Rows -> Nat]
      /\ \A q \in Rows : posted'[q] - unsure'[q] <= posted[q] - unsure[q]
      /\ \A q \in Rows : Accepted(w, q) => unsure'[q] = unsure[q] + 1 /\ posted'[q] = posted[q]
  <2>1. CASE /\ Step(w, "send")
             /\ posted' = OneMore(posted, {worker[w].row})
             /\ unsure' = OneMore(unsure, {worker[w].row})
    <3>1. {posted', unsure'} \subseteq [Rows -> Nat]
      BY <2>1 DEF TypeOK, OneMore
    <3> QED
      BY <1>4, <2>1, <3>1 DEF OneMore, Accepted, At, Step
  <2>2. CASE /\ unsure' = IF Step(w, "mark") /\ worker[w].verdict \in {"ok", "cut"}
                          THEN OneMore(unsure, {worker[w].row}) ELSE unsure
             /\ UNCHANGED posted
    <3>1. {posted', unsure'} \subseteq [Rows -> Nat]
      BY <2>2 DEF TypeOK, OneMore
    <3> QED
      BY <1>4, <2>2, <3>1 DEF OneMore, Accepted, At, Step
  <2> QED
    BY <2>1, <2>2 DEF Abandon
<1>7. Idle \in Batches /\ Idle.step = "idle" /\ Idle.row = None /\ Idle.rest = {} /\ Idle.verdict = None
  <2>1. 0 \in 0 .. MostAttempts
    BY TimesAssumption DEF MostAttempts
  <2> QED
    BY <2>1 DEF Idle, Batches
<1>8. TypeOK'
  BY <1>1, <1>5, <1>6, <1>7 DEF TypeOK
<1>9. BatchesFit'
  BY <1>3, <1>7, OthersKept DEF BatchesFit, Step
<1>10. HeldBy(w)' = {}
  BY <1>3, <1>7 DEF HeldBy
<1>11. HeldAreLeased'
  BY <1>1, <1>3, <1>8, <1>10, LeasesStayGood
<1>12. \A v \in Workers, q \in Rows :
         /\ At(v, "send", q)' => At(v, "send", q)
         /\ Accepted(v, q)' => Accepted(v, q)
         /\ Accepted(v, q) => Accepted(v, q)' \/ v = w
         /\ v # w => (At(v, "mark", q)' <=> At(v, "mark", q)) /\ worker'[v].verdict = worker[v].verdict
  BY <1>3, <1>7, OthersKept DEF At, Accepted, Step
<1>13. SendsExplained'
  <2>1. \A q \in Rows : /\ posted'[q] \in Nat /\ unsure'[q] \in Nat
                        /\ posted[q] <= unsure[q] => posted'[q] <= unsure'[q]
                        /\ posted[q] <= 1 + unsure[q] => posted'[q] <= 1 + unsure'[q]
    BY <1>4, <1>6
  <2>2. DuplicatesExplained'
    BY <2>1 DEF SendsExplained, DuplicatesExplained
  <2>3. ASSUME NEW q \in Rows,
               status'[q] \in {"absent", "pending"} \/ \E v \in Workers : At(v, "send", q)',
               ~ \E v \in Workers : Accepted(v, q)'
        PROVE  posted'[q] <= unsure'[q]
    <3>1. CASE Accepted(w, q)
      BY <1>4, <1>6, <2>1, <3>1 DEF SendsExplained, DuplicatesExplained
    <3>2. CASE ~Accepted(w, q)
      BY <1>1, <1>12, <2>1, <2>3, <3>2 DEF SendsExplained
    <3> QED
      BY <3>1, <3>2
  <2> QED
    BY <2>2, <2>3 DEF SendsExplained
<1>14. AttemptsExplained'
  <2>1. \A v \in Workers \ {w} : HeldBy(v)' = HeldBy(v) /\ HeldBy(v) \cap HeldBy(w) = {}
    BY <1>2, <1>3, OthersKept DEF HeldAreLeased, OneHolder
  <2>2. \A q \in Rows \ HeldBy(w) : Held(q)' <=> Held(q)
    BY <1>10, <2>1 DEF Held
  <2>3. \A q \in HeldBy(w) : \A v \in Workers : q \notin HeldBy(v)'
    BY <1>10, <2>1
  <2>4. ASSUME NEW q \in HeldBy(w)
        PROVE  /\ attempts[q] # 0
               /\ attempts[q] <= tried[q] + abandoned'[q] /\ attempts[q] < MaxAttempts + abandoned'[q]
    BY <1>2, <1>4, TimesAssumption DEF AttemptsExplained
  <2>5. ASSUME NEW q \in Rows \ HeldBy(w)
        PROVE  /\ status'[q] = "absent" => attempts'[q] = 0
               /\ status'[q] = "pending" /\ ~Held(q)' =>
                     attempts'[q] <= tried'[q] + abandoned'[q] /\ attempts'[q] < MaxAttempts + abandoned'[q]
               /\ \A v \in Workers : q \in HeldBy(v)' =>
                     /\ 0 < attempts'[q] /\ attempts'[q] <= MaxAttempts + abandoned'[q]
                     /\ attempts'[q] <= tried'[q] + abandoned'[q] +
                           (IF At(v, "mark", q)' /\ worker'[v].verdict = "retry" THEN 0 ELSE 1)
    BY <1>1, <1>4, <1>10, <1>12, <2>1, <2>2 DEF AttemptsExplained
  <2>6. ASSUME NEW q \in HeldBy(w)
        PROVE  status'[q] # "absent"
    BY <1>1 DEF HeldAreLeased
  <2> QED
    BY <1>1, <1>2, <2>3, <2>4, <2>5, <2>6 DEF AttemptsExplained
<1> QED
  BY <1>8, <1>9, <1>11, <1>13, <1>14

(* Time takes from a lease what it takes from the batch it was given for:    *)
(* nothing overstays its timer.                                            *)
LEMMA TickKeepsInvariant ==
    ASSUME IndInv, Tick
    PROVE  IndInv'
<1> USE DEF IndInv
<1>1. /\ UNCHANGED <<enabled, status, attempts, posted, unsure, tried, abandoned>>
      /\ due' = [r \in Rows |-> IF due[r] = 0 THEN 0 ELSE due[r] - 1]
  BY DEF Tick, history, Lapses
<1>2. ASSUME NEW w \in Workers
      PROVE  /\ worker'[w] \in Batches
             /\ worker'[w].step = worker[w].step /\ worker'[w].row = worker[w].row
             /\ worker'[w].rest = worker[w].rest /\ worker'[w].claimed = worker[w].claimed
             /\ worker'[w].verdict = worker[w].verdict
             /\ ~Step(w, "idle") => worker'[w].timer = worker[w].timer - 1
  <2>1. worker[w] \in Batches
    BY BatchFields
  <2>2. ~Step(w, "idle") => worker[w].timer - 1 \in Nat
    BY BatchFields DEF Tick
  <2>3. worker'[w] = IF Step(w, "idle") THEN worker[w]
                     ELSE [worker[w] EXCEPT !.timer = worker[w].timer - 1]
    BY DEF Tick
  <2> QED
    BY <2>1, <2>2, <2>3 DEF Batches
<1>3. TypeOK'
  <2>1. \A r \in Rows : due'[r] \in Nat /\ (due'[r] <= Lease \/ due'[r] <= Backoff)
    BY <1>1, TimesAssumption DEF TypeOK
  <2>2. worker' \in [Workers -> Batches]
    BY <1>2 DEF Tick
  <2> QED
    BY <1>1, <2>1, <2>2 DEF TypeOK
<1>4. BatchesFit'
  BY <1>2 DEF BatchesFit, Step
<1>5. \A w \in Workers : HeldBy(w)' = HeldBy(w)
  BY <1>2 DEF HeldBy
<1>6. ASSUME NEW w \in Workers, ~Step(w, "idle")
      PROVE  TimeLeft(w) \in Nat \ {0} /\ TimeLeft(w)' = TimeLeft(w) - 1
  <2> DEFINE n == Cardinality(worker[w].rest)
  <2>1. n \in Nat /\ Later(n) \in Nat /\ (Step(w, "pause") => Later(n - 1) \in Nat)
    BY TimeFacts, LaterFacts
  <2>2. worker[w].timer \in Nat \ {0} /\ worker[w].step \in {"render", "send", "mark", "pause"}
    BY <1>6, BatchFields DEF Tick, Step, Batches
  <2>3. TimeLeft(w) \in Nat /\ RowTime \in Nat
    BY TimeFacts, LaterFacts
  <2>4. worker'[w].timer = worker[w].timer - 1 /\ worker'[w].step = worker[w].step
        /\ worker'[w].rest = worker[w].rest
    BY <1>2, <1>6
  <2>5. CASE Step(w, "render")
    <3>1. TimeLeft(w) = worker[w].timer + SendTimeout + QueryTime + Later(n)
      BY <2>5, TimeFacts
    <3>2. TimeLeft(w)' = (worker[w].timer - 1) + SendTimeout + QueryTime + Later(n)
      BY <2>4, <2>5 DEF TimeLeft, Rest, Step
    <3>3. \A a \in Nat \ {0}, b, c, d \in Nat :
            a + b + c + d \in Nat \ {0} /\ (a - 1) + b + c + d = (a + b + c + d) - 1
      OBVIOUS
    <3>4. SendTimeout \in Nat /\ QueryTime \in Nat
      BY TimesAssumption
    <3> QED
      BY <2>1, <2>2, <3>1, <3>2, <3>3, <3>4
  <2>6. CASE Step(w, "send")
    BY <2>1, <2>2, <2>3, <2>4, <2>6, TimeFacts, TimesAssumption DEF TimeLeft, Rest, Step
  <2>7. CASE Step(w, "mark")
    BY <2>1, <2>2, <2>3, <2>4, <2>7, TimeFacts, TimesAssumption DEF TimeLeft, Rest, Step
  <2>8. CASE Step(w, "pause")
    BY <2>1, <2>2, <2>3, <2>4, <2>8, TimeFacts, TimesAssumption DEF TimeLeft, Rest, Step
  <2> QED
    BY <2>2, <2>5, <2>6, <2>7, <2>8 DEF Step
<1>7. HeldAreLeased'
  <2>1. OneHolder'
    BY <1>5 DEF HeldAreLeased, OneHolder
  <2>2. ASSUME NEW w \in Workers, NEW r \in HeldBy(w)'
        PROVE  /\ status'[r] \in {"pending", "removed"}
               /\ worker'[w].claimed[r] = attempts'[r]
               /\ due'[r] > TimeLeft(w)'
    <3>1. r \in HeldBy(w) /\ r \in Rows /\ ~Step(w, "idle")
      BY <1>5, <2>2, HeldFacts
    <3>2. due[r] > TimeLeft(w) /\ due[r] \in Nat
      BY <3>1 DEF HeldAreLeased, TypeOK
    <3>3. due'[r] > TimeLeft(w)'
      BY <1>1, <1>6, <3>1, <3>2
    <3> QED
      BY <1>1, <1>2, <3>1, <3>3 DEF HeldAreLeased
  <2> QED
    BY <2>1, <2>2 DEF HeldAreLeased
<1>8. SendsExplained'
  BY <1>1, <1>2 DEF SendsExplained, DuplicatesExplained, Accepted, At, Step
<1>9. AttemptsExplained'
  <2>1. \A q \in Rows : Held(q)' <=> Held(q)
    BY <1>5 DEF Held
  <2> QED
    BY <1>1, <1>2, <1>5, <2>1 DEF AttemptsExplained, At, Step
<1> QED
  BY <1>3, <1>4, <1>7, <1>8, <1>9

\* One step of the worker, of Slack or of the clock.
LEMMA NextKeepsInvariant ==
    ASSUME LeaseOutlasts, IndInv, [Next]_vars
    PROVE  IndInv'
<1>1. CASE UNCHANGED vars
  <2>1. \A w \in Workers : HeldBy(w)' = HeldBy(w) /\ TimeLeft(w)' = TimeLeft(w)
    BY <1>1 DEF vars, HeldBy, TimeLeft, Rest, Step
  <2> QED
    BY <1>1, <2>1 DEF vars, IndInv, TypeOK, BatchesFit, HeldAreLeased, OneHolder, SendsExplained,
              DuplicatesExplained, AttemptsExplained, Accepted, At, Step, Held
<1>2. ASSUME NEW w \in Workers, Deliver(w)
      PROVE  IndInv'
  BY <1>2, ClaimKeepsInvariant, RenderKeepsInvariant, AnswerKeepsInvariant,
     MarkKeepsInvariant, EndPauseKeepsInvariant DEF Deliver
<1> QED
  BY <1>1, <1>2, AbandonKeepsInvariant, EnqueueKeepsInvariant, DeleteKeepsInvariant,
     SwitchKeepsInvariant, TickKeepsInvariant DEF Next

(* The Slack worker, whatever it is answered and whenever it dies: a row in  *)
(* a batch is leased for longer than the batch can last, so it is one       *)
(* worker's, and every send and attempt of it is accounted for.            *)
THEOREM Invariance ==
    ASSUME LeaseOutlasts
    PROVE  Spec => []IndInv
<1> QED
  BY InitHolds, NextKeepsInvariant, PTL DEF Spec

\* Statuses, counts and batches stay what they are declared to be: no attempt
\* is counted beyond those the deaths explain.
THEOREM TypeCorrect ==
    ASSUME LeaseOutlasts
    PROVE  Spec => []TypeOK
<1>1. IndInv => TypeOK
  BY DEF IndInv
<1> QED
  BY <1>1, Invariance, PTL

\* Two workers cannot take the same delivery (DECISIONS 21.1).
THEOREM NoTwoHolders ==
    ASSUME LeaseOutlasts
    PROVE  Spec => []OneHolder
<1>1. IndInv => OneHolder
  BY DEF IndInv, HeldAreLeased
<1> QED
  BY <1>1, Invariance, PTL

\* A message is in the channel twice only where a worker could not know of it.
THEOREM DuplicatesAccounted ==
    ASSUME LeaseOutlasts
    PROVE  Spec => []DuplicatesExplained
<1>1. IndInv => DuplicatesExplained
  BY DEF IndInv, SendsExplained
<1> QED
  BY <1>1, Invariance, PTL

(* A delivery about to be given up failed MAX_ATTEMPTS times, short only of  *)
(* the batches lost with it: its count is the one claimed, and each attempt *)
(* is a failure or a loss.                                                 *)
THEOREM GivenUpForCause ==
    ASSUME LeaseOutlasts
    PROVE  Spec => []GivenUpWithCause
<1>1. IndInv => GivenUpWithCause
  <2> SUFFICES ASSUME IndInv, NEW w \in Workers, Step(w, "mark"), worker[w].verdict = "retry",
                      GivesUp(worker[w].claimed[worker[w].row])
               PROVE  tried[worker[w].row] + abandoned[worker[w].row] >= MaxAttempts
    BY DEF GivenUpWithCause
  <2> DEFINE r == worker[w].row
  <2>1. r \in Rows /\ r \in HeldBy(w)
    BY HeldFacts DEF IndInv, Step
  <2>2. attempts[r] = worker[w].claimed[r] /\ attempts[r] <= tried[r] + abandoned[r] + 0
    BY <2>1 DEF IndInv, HeldAreLeased, AttemptsExplained, At
  <2>3. attempts[r] \in Nat /\ tried[r] \in Nat /\ abandoned[r] \in Nat /\ MaxAttempts \in Nat
    BY <2>1, TimesAssumption DEF IndInv, TypeOK
  <2> QED
    BY <2>2, <2>3 DEF GivesUp
<1> QED
  BY <1>1, Invariance, PTL

-----------------------------------------------------------------------------
(* The leased, paced and throttled queue implements WorkQueue.             *)

\* Rows nobody works on at the start.
LEMMA InitImplements ==
    Init => Queue!Init
BY DEF Init, Queue!Init, StateOf, HeldBy, Idle

\* A step that moves neither statuses nor batches is none of the abstract queue.
LEMMA StutterImplements ==
    ASSUME UNCHANGED status, \A w \in Workers : HeldBy(w)' = HeldBy(w)
    PROVE  UNCHANGED <<[r \in Rows |-> StateOf(r)], UNION {HeldBy(w) : w \in Workers}>>
BY DEF StateOf

\* A worker that stops working on some rows, settled or queued, leaves them.
LEMMA LeavingImplements ==
    ASSUME IndInv, NEW w \in Workers, NEW S \in SUBSET HeldBy(w),
           \A v \in Workers : HeldBy(v)' = HeldBy(v) \ (IF v = w THEN S ELSE {}),
           \A r \in Rows \ S : status'[r] = status[r],
           \A r \in S : status'[r] \in {"pending", "sent", "failed", "removed"}
    PROVE  Queue!Next
<1>1. S \in SUBSET Rows
  BY HeldFacts DEF IndInv
<1>2. S \subseteq UNION {HeldBy(v) : v \in Workers}
  OBVIOUS
<1>3. \A v \in Workers \ {w} : HeldBy(v) \cap S = {}
  BY HeldFacts DEF IndInv, HeldAreLeased, OneHolder
<1>4. (UNION {HeldBy(v) : v \in Workers})' = (UNION {HeldBy(v) : v \in Workers}) \ S
  BY <1>3
<1> DEFINE how == [r \in S |-> StateOf(r)']
<1>5. how \in [S -> Queue!Settled \cup {"queued"}]
  BY DEF StateOf, Queue!Settled
<1>6. [r \in Rows |-> StateOf(r)]' =
        [r \in Rows |-> IF r \in S THEN how[r] ELSE [q \in Rows |-> StateOf(q)][r]]
  BY <1>1 DEF StateOf
<1>7. Queue!Leave(S)
  BY <1>2, <1>4, <1>5, <1>6 DEF Queue!Leave
<1> QED
  BY <1>1, <1>7 DEF Queue!Next

\* Every step is a step of the abstract queue, or none.
LEMMA NextImplements ==
    ASSUME IndInv, [Next]_vars
    PROVE  [Queue!Next]_<<[r \in Rows |-> StateOf(r)], UNION {HeldBy(w) : w \in Workers}>>
<1>1. CASE UNCHANGED vars
  BY <1>1, StutterImplements DEF vars, HeldBy
<1>2. ASSUME NEW r \in Rows, EnqueueNotification(r)
      PROVE  Queue!Next
  <2>1. [q \in Rows |-> StateOf(q)]' = [[q \in Rows |-> StateOf(q)] EXCEPT ![r] = "queued"]
    BY <1>2 DEF EnqueueNotification, StateOf, IndInv, TypeOK
  <2>2. UNCHANGED UNION {HeldBy(w) : w \in Workers}
    BY <1>2 DEF EnqueueNotification, HeldBy
  <2>3. StateOf(r) = "absent"
    BY <1>2 DEF EnqueueNotification, StateOf
  <2> QED
    BY <2>1, <2>2, <2>3 DEF Queue!Next, Queue!Enqueue
<1>3. ASSUME NEW r \in Rows, DeleteSubmission(r)
      PROVE  Queue!Next
  <2>1. [q \in Rows |-> StateOf(q)]' = [[q \in Rows |-> StateOf(q)] EXCEPT ![r] = "dropped"]
    BY <1>3 DEF DeleteSubmission, StateOf, IndInv, TypeOK
  <2>2. UNCHANGED UNION {HeldBy(w) : w \in Workers}
    BY <1>3 DEF DeleteSubmission, HeldBy
  <2>3. StateOf(r) = "queued"
    BY <1>3 DEF DeleteSubmission, StateOf
  <2> QED
    BY <2>1, <2>2, <2>3 DEF Queue!Next, Queue!Withdraw
<1>4. ASSUME NEW w \in Workers, NEW S \in SUBSET Rows, Claim(w, S)
      PROVE  Queue!Next
  <2>1. \A r \in S : r \in Rows /\ status[r] = "pending" /\ ~Held(r)
    BY <1>4, DueAreFree DEF Claim
  <2>2. S \subseteq {r \in Rows : StateOf(r) = "queued"} \ UNION {HeldBy(v) : v \in Workers}
    BY <2>1 DEF StateOf, Held
  <2>3. PICK r \in S : worker' = [worker EXCEPT ![w] =
          [Idle EXCEPT !.step = "render", !.row = r, !.rest = S \ {r},
                       !.timer = QueryTime, !.claimed = attempts']]
    BY <1>4 DEF Claim
  <2>4. /\ worker'[w].row = r /\ worker'[w].rest = S \ {r}
        /\ worker' = [worker EXCEPT ![w] = worker'[w]]
    BY <2>3 DEF Idle, IndInv, TypeOK
  <2>5. HeldBy(w)' = S /\ HeldBy(w) = {}
    BY <1>4, <2>4, HeldFacts, RowsAssumption DEF HeldBy, Claim, IndInv
  <2>6. \A v \in Workers : HeldBy(v)' = HeldBy(v) \cup (IF v = w THEN S ELSE {})
    BY <2>4, <2>5, OthersKept DEF IndInv
  <2>7. (UNION {HeldBy(v) : v \in Workers})' = (UNION {HeldBy(v) : v \in Workers}) \cup S
    BY <2>6
  <2>8. UNCHANGED [r2 \in Rows |-> StateOf(r2)]
    BY <1>4 DEF Claim, StateOf
  <2> QED
    BY <2>2, <2>7, <2>8 DEF Queue!Next, Queue!Take
<1>5. ASSUME NEW w \in Workers, Render(w)
      PROVE  UNCHANGED status /\ \A v \in Workers : HeldBy(v)' = HeldBy(v)
  <2>1. \A v \in Workers : worker'[v].row = worker[v].row /\ worker'[v].rest = worker[v].rest
    BY <1>5 DEF Render, IndInv, TypeOK, Batches
  <2> QED
    BY <1>5, <2>1 DEF Render, HeldBy
<1>6. ASSUME NEW w \in Workers, NEW verdict, Verdict(w, verdict)
      PROVE  UNCHANGED status /\ \A v \in Workers : HeldBy(v)' = HeldBy(v)
  <2>1. \A v \in Workers : worker'[v].row = worker[v].row /\ worker'[v].rest = worker[v].rest
    BY <1>6 DEF Verdict, IndInv, TypeOK, Batches
  <2> QED
    BY <1>6, <2>1 DEF Verdict, HeldBy
<1>7. ASSUME NEW w \in Workers, EndPause(w)
      PROVE  UNCHANGED status /\ \A v \in Workers : HeldBy(v)' = HeldBy(v)
  <2>1. Step(w, "pause") /\ worker[w] \in Batches /\ HeldBy(w) = worker[w].rest
    BY <1>7, HeldFacts, BatchFields DEF EndPause, IndInv
  <2>2. PICK r \in worker[w].rest : worker' = [worker EXCEPT ![w] =
          [worker[w] EXCEPT !.step = "render", !.row = r, !.rest = worker[w].rest \ {r},
                            !.timer = QueryTime]]
    BY <1>7 DEF EndPause
  <2>3. worker' = [worker EXCEPT ![w] = worker'[w]]
    BY <2>2 DEF IndInv, TypeOK
  <2>4. worker'[w].row = r /\ worker'[w].rest = worker[w].rest \ {r} /\ r \in Rows
    BY <2>1, <2>2, BatchFields DEF IndInv, TypeOK, Batches
  <2>5. HeldBy(w)' = HeldBy(w)
    BY <2>1, <2>4, RowsAssumption DEF HeldBy
  <2> QED
    BY <1>7, <2>3, <2>5, OthersKept DEF EndPause, IndInv
<1>8. ASSUME NEW w \in Workers, Mark(w)
      PROVE  Queue!Next
  <2> DEFINE r == worker[w].row
  <2>1. Step(w, "mark") /\ NextRow(w)
    BY <1>8 DEF Mark
  <2>2. r \in Rows \ worker[w].rest /\ HeldBy(w) = worker[w].rest \cup {r}
    BY <2>1, HeldFacts DEF IndInv, Step
  <2>3. HeldBy(w)' = worker[w].rest /\ worker' = [worker EXCEPT ![w] = worker'[w]]
    BY <2>1, NextRowFacts
  <2>4. \A v \in Workers : HeldBy(v)' = HeldBy(v) \ (IF v = w THEN {r} ELSE {})
    BY <2>2, <2>3, OthersKept DEF IndInv
  <2>5. /\ \A q \in Rows \ {r} : status'[q] = status[q]
        /\ status'[r] \in {"pending", "sent", "failed", "removed"}
    BY <1>8, MarkFacts
  <2>6. {r} \in SUBSET HeldBy(w)
    BY <2>2
  <2> HIDE DEF r
  <2> QED
    BY <2>4, <2>5, <2>6, LeavingImplements
<1>9. ASSUME NEW w \in Workers, Abandon(w)
      PROVE  Queue!Next
  <2>1. UNCHANGED status /\ worker' = [worker EXCEPT ![w] = Idle]
    BY <1>9 DEF Abandon
  <2>2. worker'[w] = Idle /\ worker' = [worker EXCEPT ![w] = worker'[w]]
    BY <2>1 DEF IndInv, TypeOK
  <2>3. HeldBy(w)' = {}
    BY <2>2 DEF HeldBy, Idle
  <2>4. \A v \in Workers : HeldBy(v)' = HeldBy(v) \ (IF v = w THEN HeldBy(w) ELSE {})
    BY <2>2, <2>3, OthersKept DEF IndInv
  <2>5. \A q \in HeldBy(w) : status'[q] \in {"pending", "sent", "failed", "removed"}
    BY <2>1 DEF IndInv, HeldAreLeased
  <2> QED
    BY <2>1, <2>4, <2>5, LeavingImplements
<1>10. ASSUME Tick
       PROVE  UNCHANGED status /\ \A v \in Workers : HeldBy(v)' = HeldBy(v)
  <2>1. \A v \in Workers : worker'[v].row = worker[v].row /\ worker'[v].rest = worker[v].rest
    BY <1>10 DEF Tick, IndInv, TypeOK, Batches
  <2> QED
    BY <1>10, <2>1 DEF Tick, HeldBy
<1>11. ASSUME SwitchNotifications
       PROVE  UNCHANGED status /\ \A v \in Workers : HeldBy(v)' = HeldBy(v)
  BY <1>11 DEF SwitchNotifications, HeldBy
<1>12. ASSUME NEW w \in Workers, Deliver(w)
       PROVE  Queue!Next \/ (UNCHANGED status /\ \A v \in Workers : HeldBy(v)' = HeldBy(v))
  BY <1>4, <1>5, <1>6, <1>7, <1>8, <1>12
     DEF Deliver, SlackAccepts, SlackAcceptsUnread, SlackRefuses, SlackSilent
<1>13. Queue!Next \/ UNCHANGED vars \/ (UNCHANGED status /\ \A v \in Workers : HeldBy(v)' = HeldBy(v))
  BY <1>2, <1>3, <1>9, <1>10, <1>11, <1>12 DEF Next
<1> QED
  BY <1>1, <1>13, StutterImplements

\* What the queue promises: each delivery settled once, by one worker, for good.
THEOREM Implementation ==
    ASSUME LeaseOutlasts
    PROVE  Spec => ImplementsQueue
<1> QED
  BY InitImplements, NextImplements, Invariance, PTL DEF Spec, ImplementsQueue, Queue!Spec
=============================================================================
