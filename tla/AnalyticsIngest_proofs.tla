---------------------- MODULE AnalyticsIngest_proofs ----------------------
(***************************************************************************)
(* Theorems about AnalyticsIngest, for every finite set of batches and all *)
(* events, installations and offers: an event is stored once and answered  *)
(* only when it is, and install ages agree with the install time wherever  *)
(* no insert has failed.                                                   *)
(***************************************************************************)
EXTENDS AnalyticsIngest, FiniteSetTheorems, WellFoundedInduction, TLAPS

-----------------------------------------------------------------------------
(* The first of some stamps.                                               *)

\* Some number is the least.
LEMMA LeastExists ==
    ASSUME NEW T \in SUBSET Nat, T # {}
    PROVE  \E m \in T : \A n \in T : m <= n
<1>1. PICK m \in T : \A n \in T : ~(<<n, m>> \in OpToRel(<, Nat))
  BY NatLessThanWellFounded, WFMin
<1>2. \A n \in T : ~(n < m)
  BY <1>1 DEF OpToRel
<1> QED
  BY <1>2

\* The first stamp is one of them, and before the others.
LEMMA FirstOfIsFirst ==
    ASSUME NEW S \in SUBSET (Nat \X Nat), S # {}
    PROVE  /\ FirstOf(S) \in S
           /\ \A y \in S : FirstOf(S) = y \/ Before(FirstOf(S), y)
<1> DEFINE times == {x[1] : x \in S}
<1>1. times \in SUBSET Nat /\ times # {}
  OBVIOUS
<1>2. PICK t \in times : \A n \in times : t <= n
  BY <1>1, LeastExists
<1> DEFINE effs == {x[2] : x \in {y \in S : y[1] = t}}
<1>3. effs \in SUBSET Nat /\ effs # {}
  BY <1>2
<1>4. PICK f \in effs : \A n \in effs : f <= n
  BY <1>3, LeastExists
<1>5. <<t, f>> \in S
  BY <1>4
<1>6. ASSUME NEW y \in S
      PROVE  <<t, f>> = y \/ Before(<<t, f>>, y)
  <2>1. y[1] \in Nat /\ y[2] \in Nat /\ t \in Nat /\ f \in Nat /\ y = <<y[1], y[2]>>
    BY <1>1, <1>3
  <2>2. t <= y[1]
    BY <1>2
  <2>3. y[1] = t => f <= y[2]
    BY <1>4
  <2>4. CASE y[1] = t /\ y[2] = f
    BY <2>1, <2>4
  <2>5. CASE ~(y[1] = t /\ y[2] = f)
    BY <2>1, <2>2, <2>3, <2>5 DEF Before
  <2> QED
    BY <2>4, <2>5
<1> QED
  BY <1>5, <1>6 DEF FirstOf

\* A stamp before all others is the first.
LEMMA FirstOfIsTheOne ==
    ASSUME NEW S \in SUBSET (Nat \X Nat), NEW m \in S,
           \A y \in S : m = y \/ Before(m, y)
    PROVE  FirstOf(S) = m
<1>1. FirstOf(S) \in S /\ (FirstOf(S) = m \/ Before(FirstOf(S), m))
  BY FirstOfIsFirst
<1>2. FirstOf(S) = m \/ Before(m, FirstOf(S))
  BY <1>1
<1>3. FirstOf(S)[1] \in Nat /\ FirstOf(S)[2] \in Nat /\ m[1] \in Nat /\ m[2] \in Nat
  BY <1>1
<1> QED
  BY <1>1, <1>2, <1>3 DEF Before

\* Effective times, and the stamps made of them.
EffTimes == {Eff[e] : e \in Event}

LEMMA InstallAmongFacts ==
    ASSUME NEW S \in SUBSET (Nat \X EffTimes)
    PROVE  /\ S = {} => InstallAmong(S) = None
           /\ S # {} => InstallAmong(S) \in Event
           /\ S \in SUBSET (Nat \X Nat)
<1>1. S \in SUBSET (Nat \X Nat)
  BY ShapeAssumption DEF EffTimes
<1>2. ASSUME S # {}
      PROVE  InstallAmong(S) \in Event
  <2>1. FirstOf(S) \in S
    BY <1>1, <1>2, FirstOfIsFirst
  <2>2. PICK e \in Event : Eff[e] = FirstOf(S)[2]
    BY <2>1 DEF EffTimes
  <2> QED
    BY <1>2, <2>2 DEF InstallAmong, EventAt
<1> QED
  BY <1>1, <1>2 DEF InstallAmong

\* What the store knows of an installation is a stamp of one of its qualifying events.
LEMMA StampsFacts ==
    ASSUME NEW s \in [Event -> SUBSET Time], NEW i
    PROVE  /\ StampsOf(i, s) \in SUBSET (Nat \X EffTimes)
           /\ \A e \in Qualifying, t \in Time :
                 InstallationOf[e] = i /\ t \in s[e] => <<t, Eff[e]>> \in StampsOf(i, s)
           /\ \A x \in StampsOf(i, s) : \E e \in Qualifying :
                 InstallationOf[e] = i /\ x[1] \in s[e] /\ x = <<x[1], Eff[e]>>
BY ShapeAssumption DEF StampsOf, EffTimes, Time

\* The install time of an installation the store has no record of is none.
LEMMA InstallFacts ==
    ASSUME TypeOK, NEW i
    PROVE  /\ Install(i) \in Event \cup {None}
           /\ Install(i) = None <=> Stamps(i) = {}
           /\ Stamps(i) \in SUBSET (Nat \X Nat)
<1>1. Stamps(i) \in SUBSET (Nat \X EffTimes)
  BY StampsFacts DEF TypeOK, Stamps
<1> QED
  BY <1>1, InstallAmongFacts, ShapeAssumption DEF Install, Stamps

-----------------------------------------------------------------------------
(* Requests, their rows, and the steps several actions share.              *)

LEMMA IdleFacts ==
    /\ Idle \in Requests
    /\ Idle.pc = "idle" /\ Idle.evs = {} /\ Idle.received = 0
    /\ \A e \in Event : Idle.dup[e] = 0 /\ Idle.wait[e].status = "none"
BY ShapeAssumption DEF Idle, Requests, Waits, NoWait, Time

\* A request's fields are of their types.
LEMMA RequestFacts ==
    ASSUME NEW r \in Requests
    PROVE  /\ r.evs \in SUBSET Event /\ r.received \in Time
           /\ r.dup \in [Event -> Time] /\ r.recs \in [Installation -> Event \cup {None, Unknown}]
           /\ r.create \in SUBSET Installation /\ r.wait \in [Event -> Waits]
           /\ r.pc \in {"idle", "read", "cache", "lock", "recache", "await", "lookup", "insert", "landed"}
           /\ \A e \in Event : StampOf(r, e) \in Time
BY DEF Requests, StampOf

LEMMA TimeIsNat ==
    Time \in SUBSET Nat /\ 0 \in Time
BY ShapeAssumption DEF Time

\* The record a batch creates, where it creates one.
LEMMA CreatedFacts ==
    ASSUME NEW r \in Requests, NEW i
    PROVE  /\ Created(r, i) \in Event \cup {None}
           /\ Created(r, i) # None => i \in r.create /\ r.recs[i] = None /\ QualifyingOf(r, i) # {}
<1> DEFINE S == {<<StampOf(r, e), Eff[e]>> : e \in QualifyingOf(r, i)}
<1>1. S \in SUBSET (Nat \X EffTimes)
  <2>1. \A e \in QualifyingOf(r, i) : StampOf(r, e) \in Nat /\ Eff[e] \in EffTimes
    BY RequestFacts, TimeIsNat DEF QualifyingOf, EffTimes
  <2> QED
    BY <2>1
<1>2. InstallAmong(S) \in Event \cup {None} /\ (QualifyingOf(r, i) = {} => InstallAmong(S) = None)
  BY <1>1, InstallAmongFacts
<1> HIDE DEF S
<1> QED
  BY <1>2 DEF Created, S

\* One row for each event of the batch.
LEMMA RowsFacts ==
    ASSUME NEW r \in Requests,
           \A e \in r.evs : r.recs[InstallationOf[e]] # Unknown
    PROVE  /\ Rows(r) \subseteq SentRows
           /\ \A x \in Rows(r) :
                 /\ x.ev \in r.evs /\ x.received = StampOf(r, x.ev)
                 /\ x.replay <=> r.dup[x.ev] # 0
                 /\ x.base = InstallTime(r, InstallationOf[x.ev])
           /\ \A x, y \in Rows(r) : x.ev = y.ev => x = y
           /\ \A e \in r.evs : \E x \in Rows(r) : x.ev = e
<1>1. \A e \in r.evs : InstallTime(r, InstallationOf[e]) \in Event \cup {None}
  BY RequestFacts, CreatedFacts, ShapeAssumption DEF InstallTime
<1> DEFINE row(e) == [ev |-> e, received |-> StampOf(r, e), replay |-> r.dup[e] # 0,
                      base |-> InstallTime(r, InstallationOf[e])]
<1>2. \A e \in r.evs : /\ row(e) \in SentRows /\ row(e).ev = e
                       /\ row(e).received = StampOf(r, e)
                       /\ row(e).replay <=> r.dup[e] # 0
                       /\ row(e).base = InstallTime(r, InstallationOf[e])
  BY <1>1, RequestFacts DEF SentRows
<1> HIDE DEF row
<1>3. Rows(r) = {row(e) : e \in r.evs}
  BY DEF Rows, row
<1> QED
  BY <1>2, <1>3

\* What a block of rows leaves in the event store.
LEMMA StoreFacts ==
    ASSUME TypeOK, NEW rows \in SUBSET SentRows
    PROVE  /\ EventsWith(rows) \in [Event -> SUBSET StoredRows]
           /\ StatesWith(rows) \in [Event -> SUBSET Time]
           /\ \A e \in Event :
                 /\ events[e] \subseteq EventsWith(rows)[e] /\ states[e] \subseteq StatesWith(rows)[e]
                 /\ \A x \in rows : x.ev = e =>
                       /\ x.received \in StatesWith(rows)[e]
                       /\ ~x.replay => [received |-> x.received, base |-> x.base] \in EventsWith(rows)[e]
                 /\ \A y \in EventsWith(rows)[e] : y \in events[e] \/
                       \E x \in rows : x.ev = e /\ ~x.replay /\ y = [received |-> x.received, base |-> x.base]
                 /\ \A t \in StatesWith(rows)[e] : t \in states[e] \/
                       \E x \in rows : x.ev = e /\ t = x.received
<1>1. ASSUME NEW x \in rows
      PROVE  [received |-> x.received, base |-> x.base] \in StoredRows /\ x.received \in Time
  BY DEF SentRows, StoredRows
<1>2. EventsWith(rows) \in [Event -> SUBSET StoredRows]
  BY <1>1 DEF EventsWith, TypeOK
<1>3. StatesWith(rows) \in [Event -> SUBSET Time]
  BY <1>1 DEF StatesWith, TypeOK
<1> QED
  BY <1>2, <1>3 DEF EventsWith, StatesWith

\* A batch that ends tells those waiting for its keys, and moves nothing else of theirs.
LEMMA FinishFacts ==
    ASSUME TypeOK, NEW b \in Batch, NEW stored \in BOOLEAN, NEW keys \in {Nobody, Blocked},
           Finish(b, stored, keys)
    PROVE  /\ inFlight' \in [Event -> Flights]
           /\ creating' \in [Installation -> Seq(Batch)]
           /\ req' \in [Batch -> Requests]
           /\ req'[b] = Idle
           /\ \A c \in Batch \ {b} :
                 /\ req'[c].pc = req[c].pc /\ req'[c].evs = req[c].evs /\ req'[c].recs = req[c].recs
                 /\ req'[c].create = req[c].create /\ req'[c].received = req[c].received
                 /\ req'[c].dup = req[c].dup
                 /\ \A e \in Event :
                       IF req[c].wait[e].status = "waiting" /\ req[c].wait[e].by = b
                       THEN /\ req'[c].wait[e].status = IF stored THEN "stored" ELSE "failed"
                            /\ req'[c].wait[e].received = inFlight[e].received
                       ELSE req'[c].wait[e] = req[c].wait[e]
           /\ \A e \in Event : IF inFlight[e].by = b THEN inFlight'[e].by = keys
                               ELSE inFlight'[e] = inFlight[e]
           /\ \A i \in Installation : creating[i] # <<>> /\ Head(creating[i]) # b =>
                 creating'[i] = creating[i]
<1>1. ASSUME NEW e \in Event
      PROVE  /\ inFlight[e] \in Flights /\ inFlight[e].received \in Time
             /\ [by |-> keys, received |-> 0] \in Flights
  BY TimeIsNat DEF TypeOK, Flights
<1>2. inFlight' \in [Event -> Flights]
      /\ \A e \in Event : IF inFlight[e].by = b THEN inFlight'[e].by = keys
                          ELSE inFlight'[e] = inFlight[e]
  BY <1>1 DEF Finish
<1>3. ASSUME NEW i \in Installation
      PROVE  /\ creating'[i] \in Seq(Batch)
             /\ creating[i] # <<>> /\ Head(creating[i]) # b => creating'[i] = creating[i]
  BY DEF TypeOK, Finish
<1>4. creating' \in [Installation -> Seq(Batch)]
  BY <1>3 DEF Finish
<1> DEFINE told(c, e) == IF req[c].wait[e].status = "waiting" /\ req[c].wait[e].by = b
                         THEN [status |-> IF stored THEN "stored" ELSE "failed", by |-> b,
                               received |-> inFlight[e].received]
                         ELSE req[c].wait[e]
           other(c) == [req[c] EXCEPT !.wait = [e \in Event |-> told(c, e)]]
<1>5. ASSUME NEW c \in Batch, NEW e \in Event
      PROVE  /\ told(c, e) \in Waits
             /\ IF req[c].wait[e].status = "waiting" /\ req[c].wait[e].by = b
                THEN /\ told(c, e).status = IF stored THEN "stored" ELSE "failed"
                     /\ told(c, e).received = inFlight[e].received
                ELSE told(c, e) = req[c].wait[e]
  <2>1. req[c].wait[e] \in Waits
    BY RequestFacts DEF TypeOK
  <2> QED
    BY <1>1, <2>1 DEF Waits
<1>6. req' = [c \in Batch |-> IF c = b THEN Idle ELSE other(c)]
  BY DEF Finish
<1> HIDE DEF told
<1>7. ASSUME NEW c \in Batch
      PROVE  /\ other(c) \in Requests
             /\ other(c).pc = req[c].pc /\ other(c).evs = req[c].evs /\ other(c).recs = req[c].recs
             /\ other(c).create = req[c].create /\ other(c).received = req[c].received
             /\ other(c).dup = req[c].dup
             /\ \A e \in Event : other(c).wait[e] = told(c, e)
  <2>1. req[c] \in Requests
    BY DEF TypeOK
  <2>2. [e \in Event |-> told(c, e)] \in [Event -> Waits]
    BY <1>5
  <2> QED
    BY <2>1, <2>2 DEF Requests
<1> HIDE DEF other
<1>8. req' \in [Batch -> Requests] /\ req'[b] = Idle /\ \A c \in Batch \ {b} : req'[c] = other(c)
  BY <1>6, <1>7, IdleFacts
<1> QED
  BY <1>2, <1>3, <1>4, <1>5, <1>7, <1>8

\* What the invariants of the event log need of it.
LEMMA EndFacts ==
    ASSUME TypeOK, NEW b \in Batch, NEW stored \in BOOLEAN, NEW keys \in {Nobody, Blocked},
           Finish(b, stored, keys)
    PROVE  /\ inFlight' \in [Event -> Flights] /\ creating' \in [Installation -> Seq(Batch)]
           /\ req' \in [Batch -> Requests] /\ req'[b] = Idle
           /\ \A c \in Batch \ {b} :
                 req'[c].pc = req[c].pc /\ req'[c].evs = req[c].evs /\ req'[c].dup = req[c].dup
           /\ \A e \in Event : IF inFlight[e].by = b THEN inFlight'[e].by = keys
                               ELSE inFlight'[e] = inFlight[e]
BY FinishFacts

\* Two requests at the same batch, wherever each of them is.
Alike(r, q) == /\ r.evs = q.evs /\ r.recs = q.recs /\ r.create = q.create
               /\ r.received = q.received /\ r.dup = q.dup

\* Waiting for the copies in flight.
Awaits(b, r) ==
    /\ UNCHANGED <<inFlight, creating>>
    /\ Alike(req'[b], r) /\ req'[b].pc = "await"
    /\ \A c \in Batch \ {b} : req'[c] = req[c]
    /\ \A e \in Event : LET w == req'[b].wait[e] IN
          \/ w.status = "waiting" /\ w.by \in Batch /\ inFlight[e].by = w.by
          \/ w.status = "none"

\* Holding the keys of what is not known to be stored.
Holds(b, r) ==
    /\ UNCHANGED creating
    /\ Alike(req'[b], r) /\ \A e \in Event : req'[b].wait[e].status = "none"
    /\ \/ req'[b].pc = "lookup"
       \/ req'[b].pc = "insert" /\ \A e \in r.evs : r.dup[e] # 0
    /\ \A c \in Batch \ {b} : req'[c] = req[c]
    /\ \A e \in r.evs : inFlight[e].by # Blocked /\ (r.dup[e] = 0 => inFlight[e].by \notin Batch)
    /\ \A e \in Event : IF e \in r.evs /\ r.dup[e] = 0
                        THEN inFlight'[e].by = b /\ inFlight'[e].received = r.received
                        ELSE inFlight'[e] = inFlight[e]

\* The loop over concurrent copies ends in one of three ways.
LEMMA CheckFacts ==
    ASSUME TypeOK, NEW b \in Batch, NEW r \in Requests, CheckCopies(b, r)
    PROVE  /\ inFlight' \in [Event -> Flights]
           /\ creating' \in [Installation -> Seq(Batch)]
           /\ req' \in [Batch -> Requests]
           /\ Refuse(b) \/ Awaits(b, r) \/ Holds(b, r)
<1> DEFINE blocked == \E e \in r.evs : inFlight[e].by = Blocked
           waiting == {e \in r.evs : inFlight[e].by \in Batch /\ r.dup[e] = 0}
           mine    == {e \in r.evs : r.dup[e] = 0}
           waits   == [e \in Event |-> IF e \in waiting
                          THEN [status |-> "waiting", by |-> inFlight[e].by, received |-> 0]
                          ELSE NoWait]
           going   == [r EXCEPT !.pc = "await", !.wait = waits]
           holding == [r EXCEPT !.pc = IF mine = {} THEN "insert" ELSE "lookup",
                                !.wait = [e \in Event |-> NoWait]]
<1>1. \/ Refuse(b)
      \/ /\ req' = [req EXCEPT ![b] = going]
         /\ UNCHANGED <<inFlight, creating>>
      \/ /\ ~blocked /\ waiting = {}
         /\ inFlight' = [e \in Event |-> IF e \in mine THEN [by |-> b, received |-> r.received]
                                         ELSE inFlight[e]]
         /\ req' = [req EXCEPT ![b] = holding]
         /\ UNCHANGED creating
  BY DEF CheckCopies
<1>2. NoWait \in Waits /\ NoWait.status = "none"
  BY TimeIsNat DEF NoWait, Waits
<1>3. ASSUME NEW e \in Event
      PROVE  /\ waits[e] \in Waits
             /\ \/ waits[e].status = "waiting" /\ waits[e].by \in Batch /\ inFlight[e].by = waits[e].by
                \/ waits[e].status = "none"
  <2>1. CASE e \in waiting
    BY <2>1, TimeIsNat DEF Waits
  <2>2. CASE e \notin waiting
    BY <1>2, <2>2
  <2> QED
    BY <2>1, <2>2
<1>4. waits \in [Event -> Waits]
  BY <1>3
<1>5. [e \in Event |-> NoWait] \in [Event -> Waits]
  BY <1>2
<1> HIDE DEF waits
<1>6. going \in Requests /\ Alike(going, r) /\ going.pc = "await" /\ going.wait = waits
  BY <1>4 DEF Requests, Alike
<1>7. /\ holding \in Requests /\ Alike(holding, r)
      /\ holding.pc = IF mine = {} THEN "insert" ELSE "lookup"
      /\ holding.wait = [e \in Event |-> NoWait]
  BY <1>5 DEF Requests, Alike
<1> HIDE DEF going, holding
<1>8. CASE Refuse(b)
  BY <1>8, FinishFacts DEF Refuse
<1>9. CASE req' = [req EXCEPT ![b] = going] /\ UNCHANGED <<inFlight, creating>>
  <2>1. req'[b] = going /\ \A c \in Batch \ {b} : req'[c] = req[c]
    BY <1>9 DEF TypeOK
  <2>2. req' \in [Batch -> Requests]
    BY <1>6, <1>9 DEF TypeOK
  <2>3. Awaits(b, r)
    BY <1>3, <1>6, <1>9, <2>1 DEF Awaits, Alike
  <2> QED
    BY <1>9, <2>2, <2>3 DEF TypeOK
<1>10. CASE /\ ~blocked /\ waiting = {}
            /\ inFlight' = [e \in Event |-> IF e \in mine THEN [by |-> b, received |-> r.received]
                                            ELSE inFlight[e]]
            /\ req' = [req EXCEPT ![b] = holding]
            /\ UNCHANGED creating
  <2>1. req'[b] = holding /\ \A c \in Batch \ {b} : req'[c] = req[c]
    BY <1>10 DEF TypeOK
  <2>2. req' \in [Batch -> Requests]
    BY <1>7, <1>10 DEF TypeOK
  <2>3. [by |-> b, received |-> r.received] \in Flights
    BY RequestFacts DEF Flights
  <2>4. inFlight' \in [Event -> Flights]
    BY <1>10, <2>3 DEF TypeOK
  <2>5. \A e \in Event : req'[b].wait[e].status = "none"
    BY <1>2, <1>7, <2>1
  <2>6. \/ req'[b].pc = "lookup"
        \/ req'[b].pc = "insert" /\ \A e \in r.evs : r.dup[e] # 0
    BY <1>7, <2>1
  <2>7. \A e \in r.evs : inFlight[e].by # Blocked /\ (r.dup[e] = 0 => inFlight[e].by \notin Batch)
    BY <1>10
  <2>8. \A e \in Event : IF e \in r.evs /\ r.dup[e] = 0
                         THEN inFlight'[e].by = b /\ inFlight'[e].received = r.received
                         ELSE inFlight'[e] = inFlight[e]
    BY <1>10
  <2>9. Holds(b, r)
    BY <1>7, <1>10, <2>1, <2>5, <2>6, <2>7, <2>8 DEF Holds, Alike
  <2> QED
    BY <1>10, <2>2, <2>4, <2>9 DEF TypeOK
<1> QED
  BY <1>1, <1>8, <1>9, <1>10

-----------------------------------------------------------------------------
(* An event is stored once.                                                *)

\* A batch that ends frees or blocks its keys, and tells what became of its events.
LEMMA EndKeepsMemory ==
    ASSUME LogInv, NEW b \in Batch, NEW stored \in BOOLEAN, NEW keys \in {Nobody, Blocked},
           Finish(b, stored, keys), warm' = warm, stored => req[b].pc = "landed",
           \A e \in Event : events[e] # {} => events'[e] # {}
    PROVE  /\ KeysHeld' /\ CopiesKnown' /\ \A c \in Batch : RequestFits(c)'
           /\ Unstamped' \subseteq Unstamped \ {b}
<1> USE DEF LogInv
<1>1. /\ req'[b] = Idle
      /\ \A c \in Batch \ {b} :
            /\ req'[c].pc = req[c].pc /\ req'[c].evs = req[c].evs /\ req'[c].recs = req[c].recs
            /\ req'[c].received = req[c].received /\ req'[c].dup = req[c].dup
            /\ \A e \in Event :
                  IF req[c].wait[e].status = "waiting" /\ req[c].wait[e].by = b
                  THEN req'[c].wait[e].status = IF stored THEN "stored" ELSE "failed"
                  ELSE req'[c].wait[e] = req[c].wait[e]
      /\ \A e \in Event : IF inFlight[e].by = b THEN inFlight'[e].by = keys
                          ELSE inFlight'[e] = inFlight[e]
  BY FinishFacts
<1>2. keys \notin Batch
  BY ShapeAssumption
<1>3. KeysHeld'
  BY <1>1, <1>2, IdleFacts DEF KeysHeld, Sending
<1>4. CopiesKnown'
  <2> SUFFICES ASSUME NEW e \in Event, NEW c \in Batch
               PROVE  /\ req'[c].dup[e] # 0 => events'[e] # {}
                      /\ req'[c].wait[e].status = "stored" => events'[e] # {}
                      /\ req'[c].wait[e].status = "waiting" =>
                            req'[c].wait[e].by \in Batch /\ inFlight'[e].by = req'[c].wait[e].by
    BY DEF CopiesKnown
  <2>1. CASE c = b
    BY <1>1, <2>1, IdleFacts
  <2>2. CASE c # b /\ ~(req[c].wait[e].status = "waiting" /\ req[c].wait[e].by = b)
    BY <1>1, <2>2 DEF CopiesKnown
  <2>3. CASE c # b /\ req[c].wait[e].status = "waiting" /\ req[c].wait[e].by = b
    <3>1. inFlight[e].by = b /\ e \in req[b].evs
      BY <2>3 DEF CopiesKnown, KeysHeld
    <3>2. stored => events'[e] # {}
      BY <3>1 DEF StoredOnce
    <3> QED
      BY <1>1, <2>3, <3>2 DEF CopiesKnown
  <2> QED
    BY <2>1, <2>2, <2>3
<1>5. \A c \in Batch : RequestFits(c)'
  BY <1>1, IdleFacts DEF RequestsFit, RequestFits, Stamped, Sending
<1>6. Unstamped' \subseteq Unstamped \ {b}
  BY <1>1, IdleFacts DEF Unstamped
<1> QED
  BY <1>3, <1>4, <1>5, <1>6

\* While the store stays, what is said of its rows stays too.
LEMMA StoreStays ==
    ASSUME LogInv, UNCHANGED <<events, states, late, answered, warm>>,
           \A e \in Event, b \in Batch : e \in req'[b].evs =>
              /\ req'[b].pc = "insert" /\ req'[b].dup[e] = 0 => events[e] = {}
              /\ req'[b].pc = "landed" => e \in req[b].evs /\ req[b].pc = "landed",
           warm => \A e \in Event : inFlight[e].by = Blocked => inFlight'[e].by = Blocked
    PROVE  StoredOnce' /\ LateBlocked'
<1>1. StoredOnce'
  BY DEF LogInv, StoredOnce
<1>2. LateBlocked'
  <2>1. \A rows \in late : \A x \in rows : x.ev \in Event
    BY DEF LogInv, TypeOK, SentRows
  <2> QED
    BY <2>1 DEF LogInv, LateBlocked
<1> QED
  BY <1>1, <1>2

\* A batch that ends without a trace in the store.
LEMMA EndKeepsLog ==
    ASSUME LogInv, NEW b \in Batch, NEW stored \in BOOLEAN, Finish(b, stored, Nobody),
           UNCHANGED <<events, states, late, answered, warm>>, stored => req[b].pc = "landed"
    PROVE  /\ KeysHeld' /\ CopiesKnown' /\ StoredOnce' /\ LateBlocked'
           /\ \A c \in Batch : RequestFits(c)'
           /\ Unstamped' \subseteq Unstamped \ {b}
<1>1. /\ KeysHeld' /\ CopiesKnown' /\ \A c \in Batch : RequestFits(c)'
      /\ Unstamped' \subseteq Unstamped \ {b}
  BY EndKeepsMemory
<1>2. /\ req'[b] = Idle
      /\ \A c \in Batch \ {b} :
            req'[c].pc = req[c].pc /\ req'[c].evs = req[c].evs /\ req'[c].dup = req[c].dup
      /\ \A e \in Event : IF inFlight[e].by = b THEN inFlight'[e].by = Nobody
                          ELSE inFlight'[e] = inFlight[e]
  BY FinishFacts DEF LogInv
<1>3. \A e \in Event, c \in Batch : e \in req'[c].evs =>
        /\ req'[c].pc = "insert" /\ req'[c].dup[e] = 0 => events[e] = {}
        /\ req'[c].pc = "landed" => e \in req[c].evs /\ req[c].pc = "landed"
  BY <1>2, IdleFacts DEF LogInv, StoredOnce
<1>4. \A e \in Event : inFlight[e].by = Blocked => inFlight'[e].by = Blocked
  BY <1>2, ShapeAssumption
<1> QED
  BY <1>1, <1>3, <1>4, StoreStays

\* So does one that is refused.
LEMMA RefuseKeepsLog ==
    ASSUME LogInv, NEW b \in Batch, Refuse(b), UNCHANGED <<events, states, late, answered, warm>>
    PROVE  /\ KeysHeld' /\ CopiesKnown' /\ StoredOnce' /\ LateBlocked'
           /\ \A c \in Batch : RequestFits(c)'
           /\ Unstamped' \subseteq Unstamped \ {b}
           /\ inFlight' \in [Event -> Flights] /\ creating' \in [Installation -> Seq(Batch)]
           /\ req' \in [Batch -> Requests]
<1>1. Finish(b, FALSE, Nobody)
  BY DEF Refuse
<1>2. /\ inFlight' \in [Event -> Flights] /\ creating' \in [Installation -> Seq(Batch)]
      /\ req' \in [Batch -> Requests]
  BY <1>1, FinishFacts DEF LogInv
<1> QED
  BY <1>1, <1>2, EndKeepsLog

\* The loop over concurrent copies: a batch takes keys nobody holds, waits for
\* those that are held, or gives up.
LEMMA CheckKeepsLog ==
    ASSUME LogInv, NEW b \in Batch, NEW r \in Requests, CheckCopies(b, r),
           UNCHANGED <<events, states, late, answered, warm>>,
           req[b].pc \notin Sending \cup {"idle"}, r.evs = req[b].evs, r.received # 0,
           \A e \in r.evs : r.recs[InstallationOf[e]] # Unknown,
           \A e \in Event : r.dup[e] # 0 => events[e] # {}
    PROVE  /\ KeysHeld' /\ CopiesKnown' /\ StoredOnce' /\ LateBlocked'
           /\ \A c \in Batch : RequestFits(c)'
           /\ Unstamped' \subseteq Unstamped \ {b}
<1>1. CASE Refuse(b)
  BY <1>1, EndKeepsLog DEF Refuse
<1>2. warm
  BY DEF LogInv, RequestsFit, RequestFits
<1>3. r.evs \subseteq Event /\ \A e \in Event : inFlight[e].by # b
  BY RequestFacts DEF LogInv, KeysHeld
<1>4. CASE Awaits(b, r)
  <2>1. /\ UNCHANGED <<inFlight, creating>> /\ \A c \in Batch \ {b} : req'[c] = req[c]
        /\ req'[b].evs = r.evs /\ req'[b].recs = r.recs /\ req'[b].received = r.received
        /\ req'[b].dup = r.dup /\ req'[b].pc = "await"
        /\ \A e \in Event : \/ /\ req'[b].wait[e].status = "waiting"
                             /\ req'[b].wait[e].by \in Batch /\ inFlight[e].by = req'[b].wait[e].by
                          \/ req'[b].wait[e].status = "none"
    BY <1>4 DEF Awaits, Alike
  <2>2. KeysHeld'
    BY <1>3, <2>1 DEF LogInv, KeysHeld, Sending
  <2>3. CopiesKnown'
    BY <2>1 DEF LogInv, CopiesKnown
  <2>4. \A c \in Batch : RequestFits(c)'
    BY <1>2, <2>1 DEF LogInv, RequestsFit, RequestFits, Stamped, Sending
  <2>5. Unstamped' \subseteq Unstamped \ {b}
    BY <2>1 DEF Unstamped
  <2>6. \A e \in Event, c \in Batch : e \in req'[c].evs =>
          /\ req'[c].pc = "insert" /\ req'[c].dup[e] = 0 => events[e] = {}
          /\ req'[c].pc = "landed" => e \in req[c].evs /\ req[c].pc = "landed"
    BY <2>1 DEF LogInv, StoredOnce
  <2>7. StoredOnce' /\ LateBlocked'
    BY <2>1, <2>6, StoreStays
  <2> QED
    BY <2>2, <2>3, <2>4, <2>5, <2>7
<1>5. CASE Holds(b, r)
  <2>1. /\ \A c \in Batch \ {b} : req'[c] = req[c]
        /\ req'[b].evs = r.evs /\ req'[b].recs = r.recs /\ req'[b].received = r.received
        /\ req'[b].dup = r.dup
        /\ \/ req'[b].pc = "lookup"
           \/ req'[b].pc = "insert" /\ \A e \in r.evs : r.dup[e] # 0
        /\ \A e \in Event : req'[b].wait[e].status = "none"
        /\ \A e \in r.evs : inFlight[e].by # Blocked /\ (r.dup[e] = 0 => inFlight[e].by \notin Batch)
        /\ \A e \in Event : IF e \in r.evs /\ r.dup[e] = 0 THEN inFlight'[e].by = b
                            ELSE inFlight'[e] = inFlight[e]
    BY <1>5 DEF Holds, Alike
  <2>2. KeysHeld'
    <3> SUFFICES ASSUME NEW e \in Event, NEW c \in Batch
                 PROVE  /\ inFlight'[e].by = c => req'[c].pc \in Sending /\ e \in req'[c].evs
                        /\ req'[c].pc \in Sending /\ e \in req'[c].evs /\ req'[c].dup[e] = 0
                              => inFlight'[e].by = c
      BY DEF KeysHeld
    <3>1. CASE c = b
      BY <1>3, <2>1, <3>1 DEF Sending
    <3>2. CASE c # b
      BY <2>1, <3>2 DEF LogInv, KeysHeld
    <3> QED
      BY <3>1, <3>2
  <2>3. CopiesKnown'
    BY <2>1 DEF LogInv, CopiesKnown
  <2>4. \A c \in Batch : RequestFits(c)'
    BY <1>2, <2>1 DEF LogInv, RequestsFit, RequestFits, Stamped, Sending
  <2>5. Unstamped' \subseteq Unstamped \ {b}
    BY <2>1 DEF Unstamped
  <2>6. \A e \in Event, c \in Batch : e \in req'[c].evs =>
          /\ req'[c].pc = "insert" /\ req'[c].dup[e] = 0 => events[e] = {}
          /\ req'[c].pc = "landed" => e \in req[c].evs /\ req[c].pc = "landed"
    BY <2>1 DEF LogInv, StoredOnce
  <2>7. \A e \in Event : inFlight[e].by = Blocked => inFlight'[e].by = Blocked
    BY <2>1
  <2>8. StoredOnce' /\ LateBlocked'
    BY <2>6, <2>7, StoreStays
  <2> QED
    BY <2>2, <2>3, <2>4, <2>5, <2>8
<1> QED
  BY <1>1, <1>4, <1>5, CheckFacts DEF LogInv

\* A step of one batch before it holds any key leaves the store and the keys alone.
LEMMA MoveKeepsLog ==
    ASSUME LogInv, NEW b \in Batch, UNCHANGED <<events, states, late, inFlight, answered, warm>>,
           req[b].pc \notin Sending, req'[b].pc \notin Sending,
           \A c \in Batch \ {b} : req'[c] = req[c],
           \A e \in Event : /\ req'[b].dup[e] = req[b].dup[e] \/ req'[b].dup[e] = 0
                            /\ req'[b].wait[e] = req[b].wait[e] \/ req'[b].wait[e].status = "none",
           RequestFits(b)'
    PROVE  /\ KeysHeld' /\ CopiesKnown' /\ StoredOnce' /\ LateBlocked'
           /\ \A c \in Batch : RequestFits(c)'
<1>1. KeysHeld'
  BY DEF LogInv, KeysHeld
<1>2. CopiesKnown'
  BY DEF LogInv, CopiesKnown
<1>3. \A e \in Event, c \in Batch : e \in req'[c].evs =>
        /\ req'[c].pc = "insert" /\ req'[c].dup[e] = 0 => events[e] = {}
        /\ req'[c].pc = "landed" => e \in req[c].evs /\ req[c].pc = "landed"
  BY DEF LogInv, StoredOnce, Sending
<1>4. StoredOnce' /\ LateBlocked'
  BY <1>3, StoreStays
<1>5. \A c \in Batch : RequestFits(c)'
  BY DEF LogInv, RequestsFit, RequestFits
<1> QED
  BY <1>1, <1>2, <1>4, <1>5

\* Each batch on its way to a received time is counted once.
LEMMA UnstampedCount ==
    ASSUME TypeOK, NEW U \in SUBSET Batch, NEW b \in Batch
    PROVE  /\ IsFiniteSet(U) /\ Cardinality(U) \in Nat
           /\ \A V \in SUBSET U : Cardinality(V) <= Cardinality(U) /\ Cardinality(V) \in Nat
           /\ b \in U => \A V \in SUBSET (U \ {b}) : Cardinality(V) + 1 <= Cardinality(U)
           /\ \A V \in SUBSET (U \cup {b}) : Cardinality(V) <= Cardinality(U) + 1
<1>1. IsFiniteSet(U)
  BY ShapeAssumption, FS_Subset
<1>2. \A V \in SUBSET U : Cardinality(V) <= Cardinality(U) /\ Cardinality(V) \in Nat
  BY <1>1, FS_Subset, FS_CardinalityType
<1>3. IsFiniteSet(U \ {b}) /\ Cardinality(U \ {b}) = IF b \in U THEN Cardinality(U) - 1 ELSE Cardinality(U)
  BY <1>1, FS_RemoveElement
<1>4. IsFiniteSet(U \cup {b}) /\ Cardinality(U \cup {b}) = IF b \in U THEN Cardinality(U) ELSE Cardinality(U) + 1
  BY <1>1, FS_AddElement
<1>5. \A V \in SUBSET (U \ {b}) : Cardinality(V) <= Cardinality(U \ {b}) /\ Cardinality(V) \in Nat
  BY <1>3, FS_Subset, FS_CardinalityType
<1>6. \A V \in SUBSET (U \cup {b}) : Cardinality(V) <= Cardinality(U \cup {b}) /\ Cardinality(V) \in Nat
  BY <1>4, FS_Subset, FS_CardinalityType
<1>7. Cardinality(U) \in Nat
  BY <1>1, FS_CardinalityType
<1>8. ASSUME b \in U, NEW V \in SUBSET (U \ {b})
      PROVE  Cardinality(V) + 1 <= Cardinality(U)
  <2>1. Cardinality(V) <= Cardinality(U) - 1 /\ Cardinality(V) \in Nat
    BY <1>3, <1>5, <1>8
  <2> QED
    BY <1>7, <2>1
<1>9. ASSUME NEW V \in SUBSET (U \cup {b})
      PROVE  Cardinality(V) <= Cardinality(U) + 1
  <2>1. /\ Cardinality(V) \in Nat
        /\ Cardinality(V) <= Cardinality(U) \/ Cardinality(V) <= Cardinality(U) + 1
    BY <1>4, <1>6
  <2> QED
    BY <1>7, <2>1
<1> QED
  BY <1>1, <1>2, <1>7, <1>8, <1>9

\* A batch joins the chain of a lock, behind those that are in it.
LEMMA JoinFacts ==
    ASSUME TypeOK, NEW b \in Batch, NEW j, creating' = [creating EXCEPT ![j] = Append(@, b)]
    PROVE  /\ creating' \in [Installation -> Seq(Batch)]
           /\ \A i \in Installation : creating[i] # <<>> =>
                 creating'[i] # <<>> /\ Head(creating'[i]) = Head(creating[i])
<1>1. \A i \in Installation : creating[i] \in Seq(Batch)
  BY DEF TypeOK
<1>2. \A i \in Installation : creating'[i] = IF i = j THEN Append(creating[i], b) ELSE creating[i]
  BY DEF TypeOK
<1>3. \A s \in Seq(Batch) : /\ Append(s, b) \in Seq(Batch)
                           /\ s # <<>> => Append(s, b) # <<>> /\ Head(Append(s, b)) = Head(s)
  OBVIOUS
<1>4. creating' = [i \in Installation |-> creating'[i]]
  BY DEF TypeOK
<1>5. \A i \in Installation : creating'[i] \in Seq(Batch)
  BY <1>1, <1>2, <1>3
<1>6. \A i \in Installation : creating[i] # <<>> =>
         creating'[i] # <<>> /\ Head(creating'[i]) = Head(creating[i])
  BY <1>1, <1>2, <1>3
<1>7. creating' \in [Installation -> Seq(Batch)]
  BY <1>4, <1>5
<1> QED
  BY <1>6, <1>7

\* No more times are taken than requests have arrived.
LEMMA CountKept ==
    ASSUME LogInv, NEW b \in Batch,
           \/ clock' = clock /\ arrivals' = arrivals /\ Unstamped' \subseteq Unstamped
           \/ /\ clock' = clock /\ arrivals' = arrivals + 1 /\ arrivals < MaxArrivals
              /\ Unstamped' \subseteq Unstamped \cup {b}
           \/ /\ clock' = clock + 1 /\ arrivals' = arrivals /\ b \in Unstamped
              /\ Unstamped' \subseteq Unstamped \ {b}
    PROVE  /\ clock' + Cardinality(Unstamped') <= arrivals'
           /\ clock' \in Time /\ arrivals' \in 0 .. MaxArrivals
<1> DEFINE U == Unstamped
           V == Unstamped'
<1>1. U \in SUBSET Batch
  BY DEF Unstamped
<1>2. /\ clock + Cardinality(U) <= arrivals /\ clock \in Nat /\ arrivals \in 0 .. MaxArrivals
      /\ MaxArrivals \in Nat
  BY ShapeAssumption DEF LogInv, TypeOK, RequestsFit, Time
<1>3. Cardinality(U) \in Nat
  BY <1>1, UnstampedCount DEF LogInv
<1>4. Cardinality(V) \in Nat /\ V \subseteq Batch
  <2>1. V \subseteq Batch
    BY DEF Unstamped
  <2> QED
    BY <2>1, ShapeAssumption, FS_Subset, FS_CardinalityType
<1>5. CASE clock' = clock /\ arrivals' = arrivals /\ V \subseteq U
  <2>1. Cardinality(V) <= Cardinality(U)
    BY <1>1, <1>5, UnstampedCount DEF LogInv
  <2> HIDE DEF U, V
  <2>2. clock' + Cardinality(V) <= arrivals' /\ clock' \in Time /\ arrivals' \in 0 .. MaxArrivals
    BY <1>2, <1>3, <1>4, <1>5, <2>1 DEF Time
  <2> QED
    BY <2>2 DEF V
<1>6. CASE /\ clock' = clock /\ arrivals' = arrivals + 1 /\ arrivals < MaxArrivals
           /\ V \subseteq U \cup {b}
  <2>1. Cardinality(V) <= Cardinality(U) + 1
    BY <1>1, <1>6, UnstampedCount DEF LogInv
  <2> HIDE DEF U, V
  <2>2. clock' + Cardinality(V) <= arrivals' /\ clock' \in Time /\ arrivals' \in 0 .. MaxArrivals
    BY <1>2, <1>3, <1>4, <1>6, <2>1 DEF Time
  <2> QED
    BY <2>2 DEF V
<1>7. CASE /\ clock' = clock + 1 /\ arrivals' = arrivals /\ b \in U
           /\ V \subseteq U \ {b}
  <2>1. Cardinality(V) + 1 <= Cardinality(U)
    BY <1>1, <1>7, UnstampedCount DEF LogInv
  <2> HIDE DEF U, V
  <2>2. clock' + Cardinality(V) <= arrivals' /\ clock' \in Time /\ arrivals' \in 0 .. MaxArrivals
    BY <1>2, <1>3, <1>4, <1>7, <2>1 DEF Time
  <2> QED
    BY <2>2 DEF V
<1> QED
  BY <1>5, <1>6, <1>7

\* There is a time left for every batch on its way to one.
LEMMA StampInTime ==
    ASSUME LogInv, NEW b \in Unstamped
    PROVE  clock \in Nat /\ clock + 1 \in Time
<1>1. {b} \subseteq Unstamped /\ IsFiniteSet(Unstamped) /\ Cardinality(Unstamped) \in Nat
  BY UnstampedCount DEF Unstamped, LogInv
<1>2. Cardinality({b}) = 1 /\ Cardinality({b}) <= Cardinality(Unstamped)
  BY <1>1, FS_Singleton, FS_Subset
<1>3. clock \in Nat /\ arrivals \in 0 .. MaxArrivals /\ clock + Cardinality(Unstamped) <= arrivals
  BY ShapeAssumption DEF LogInv, TypeOK, Time, RequestsFit
<1> QED
  BY <1>1, <1>2, <1>3, ShapeAssumption DEF Time

LEMMA ArriveKeepsLog ==
    ASSUME LogInv, NEW b \in Batch, Arrive(b)
    PROVE  LogInv'
<1>1. PICK evs \in Offers : req' = [req EXCEPT ![b] = [Idle EXCEPT !.pc = "read", !.evs = evs]]
  BY DEF Arrive
<1> DEFINE new == [Idle EXCEPT !.pc = "read", !.evs = evs]
<1>2. /\ new \in Requests /\ new.pc = "read"
      /\ \A e \in Event : new.dup[e] = 0 /\ new.wait[e].status = "none"
  <2>1. evs \in SUBSET Event
    BY ShapeAssumption
  <2> PICK idle \in Requests : idle = Idle
    BY IdleFacts
  <2>2. \A e \in Event : idle.dup[e] = 0 /\ idle.wait[e].status = "none"
    BY IdleFacts
  <2>3. new = [idle EXCEPT !.pc = "read", !.evs = evs]
    OBVIOUS
  <2> QED
    BY <2>1, <2>2, <2>3 DEF Requests
<1> HIDE DEF new
<1>3. req' \in [Batch -> Requests] /\ req'[b] = new /\ \A c \in Batch \ {b} : req'[c] = req[c]
  BY <1>1, <1>2 DEF LogInv, TypeOK, new
<1>4. Unstamped' \subseteq Unstamped \cup {b}
  BY <1>3 DEF Unstamped
<1>5. /\ clock' + Cardinality(Unstamped') <= arrivals'
      /\ clock' \in Time /\ arrivals' \in 0 .. MaxArrivals
  BY <1>4, CountKept DEF Arrive
<1>6. RequestFits(b)'
  BY <1>2, <1>3 DEF RequestFits, Arrive, Stamped, Sending
<1>7. /\ KeysHeld' /\ CopiesKnown' /\ StoredOnce' /\ LateBlocked'
      /\ \A c \in Batch : RequestFits(c)'
  BY <1>2, <1>3, <1>6, MoveKeepsLog DEF Arrive, store, ghosts, Sending
<1>8. TypeOK'
  BY <1>3, <1>5 DEF LogInv, TypeOK, Arrive, store, ghosts
<1> QED
  BY <1>5, <1>7, <1>8 DEF LogInv, RequestsFit

LEMMA ReadInstallsKeepsLog ==
    ASSUME LogInv, NEW b \in Batch, ReadInstalls(b)
    PROVE  LogInv'
<1> PICK r \in Requests : r = req[b]
  BY DEF LogInv, TypeOK
<1> PICK recs : recs = InstallRecords(InstallationsOf(r))
  OBVIOUS
<1> PICK missing : missing = {i \in InstallationsOf(r) : ~Cached(i)}
  OBVIOUS
<1> DEFINE new == [r EXCEPT !.pc = "cache", !.recs = recs, !.missing = missing]
<1>1. InstallationsOf(r) \subseteq Installation
  BY RequestFacts, ShapeAssumption DEF InstallationsOf
<1>2. \A i \in Installation : Install(i) \in Event \cup {None}
  BY InstallFacts DEF LogInv
<1>3. /\ recs \in [Installation -> Event \cup {None, Unknown}]
      /\ \A e \in r.evs : recs[InstallationOf[e]] # Unknown
  BY <1>1, <1>2, ShapeAssumption DEF InstallRecords, Cached, LogInv, TypeOK, InstallationsOf
<1>4. /\ new \in Requests /\ new.pc = "cache" /\ new.dup = r.dup /\ new.wait = r.wait
      /\ new.evs = r.evs /\ new.recs = recs
  BY <1>1, <1>3 DEF Requests
<1> HIDE DEF new
<1>5. r.pc = "read" /\ req' = [req EXCEPT ![b] = new]
  BY DEF ReadInstalls, new
<1>6. req' \in [Batch -> Requests] /\ req'[b] = new /\ \A c \in Batch \ {b} : req'[c] = req[c]
  BY <1>4, <1>5 DEF LogInv, TypeOK
<1>7. Unstamped' \subseteq Unstamped
  BY <1>5, <1>6 DEF Unstamped
<1>8. /\ clock' + Cardinality(Unstamped') <= arrivals'
      /\ clock' \in Time /\ arrivals' \in 0 .. MaxArrivals
  BY <1>7, CountKept DEF ReadInstalls
<1>9. RequestFits(b)'
  BY <1>3, <1>4, <1>5, <1>6 DEF LogInv, RequestsFit, RequestFits, ReadInstalls, Stamped, Sending
<1>10. /\ KeysHeld' /\ CopiesKnown' /\ StoredOnce' /\ LateBlocked'
       /\ \A c \in Batch : RequestFits(c)'
  BY <1>4, <1>5, <1>6, <1>9, MoveKeepsLog DEF ReadInstalls, store, ghosts, Sending
<1>11. TypeOK'
  BY <1>6, <1>8 DEF LogInv, TypeOK, ReadInstalls, store, ghosts
<1> QED
  BY <1>8, <1>10, <1>11 DEF LogInv, RequestsFit

LEMMA CacheInstallsKeepsLog ==
    ASSUME LogInv, NEW b \in Batch, CacheInstalls(b)
    PROVE  LogInv'
<1> PICK q \in Requests : q = req[b]
  BY DEF LogInv, TypeOK
<1> PICK create : create = ToCreate(q)
  OBVIOUS
<1> DEFINE r == [q EXCEPT !.create = create]
<1>1. create \subseteq Installation
  BY RequestFacts, ShapeAssumption DEF ToCreate, InstallationsOf
<1>2. /\ r \in Requests /\ r.evs = q.evs /\ r.dup = q.dup /\ r.recs = q.recs /\ r.wait = q.wait
      /\ r.create = create /\ r.pc = q.pc /\ r.missing = q.missing
  BY <1>1 DEF Requests
<1> HIDE DEF r
<1>3. q.pc = "cache" /\ warm /\ b \in Unstamped /\ \A e \in q.evs : q.recs[InstallationOf[e]] # Unknown
  BY <1>2 DEF CacheInstalls, r, Unstamped, LogInv, RequestsFit, RequestFits
<1>4. /\ installs' = [i \in Installation |-> IF i \in r.missing THEN r.recs[i] ELSE installs[i]]
      /\ UNCHANGED <<store, warm, arrivals, faults, ghosts>>
      /\ \/ clock' = clock + 1 /\ CheckCopies(b, Stamp(r))
         \/ /\ creating' = [creating EXCEPT ![FirstLock(r.create)] = Append(@, b)]
            /\ req' = [req EXCEPT ![b] = [r EXCEPT !.pc = "lock"]]
            /\ UNCHANGED <<inFlight, clock>>
  BY DEF CacheInstalls, r
<1>5. installs' \in [Installation -> Event \cup {None, Unknown}]
  BY <1>2, <1>4, RequestFacts DEF LogInv, TypeOK
<1>6. CASE clock' = clock + 1 /\ CheckCopies(b, Stamp(r))
  <2>1. clock \in Nat /\ clock + 1 \in Time
    BY <1>3, StampInTime
  <2>2. PICK s : s = Stamp(r)
    OBVIOUS
  <2>3. /\ s \in Requests /\ s.evs = q.evs /\ s.dup = q.dup /\ s.recs = q.recs
        /\ s.received = clock + 1 /\ s.received # 0
    BY <1>2, <2>1, <2>2 DEF Stamp, Requests
  <2>4. /\ KeysHeld' /\ CopiesKnown' /\ StoredOnce' /\ LateBlocked'
        /\ \A c \in Batch : RequestFits(c)'
        /\ Unstamped' \subseteq Unstamped \ {b}
    <3>1. \A e \in Event : s.dup[e] # 0 => events[e] # {}
      BY <2>3 DEF LogInv, CopiesKnown
    <3> QED
      BY <1>3, <1>4, <1>6, <2>2, <2>3, <3>1, CheckKeepsLog DEF store, ghosts, Sending
  <2>5. /\ clock' + Cardinality(Unstamped') <= arrivals'
        /\ clock' \in Time /\ arrivals' \in 0 .. MaxArrivals
    BY <1>3, <1>4, <1>6, <2>4, CountKept
  <2>6. /\ inFlight' \in [Event -> Flights] /\ creating' \in [Installation -> Seq(Batch)]
        /\ req' \in [Batch -> Requests]
    BY <1>6, <2>2, <2>3, CheckFacts DEF LogInv
  <2>7. TypeOK'
    BY <1>4, <1>5, <2>5, <2>6 DEF LogInv, TypeOK, store, ghosts
  <2> QED
    BY <2>4, <2>5, <2>7 DEF LogInv, RequestsFit
<1>7. CASE /\ creating' = [creating EXCEPT ![FirstLock(r.create)] = Append(@, b)]
           /\ req' = [req EXCEPT ![b] = [r EXCEPT !.pc = "lock"]]
           /\ UNCHANGED <<inFlight, clock>>
  <2> DEFINE new == [r EXCEPT !.pc = "lock"]
  <2>1. /\ new \in Requests /\ new.pc = "lock" /\ new.dup = q.dup /\ new.wait = q.wait
        /\ new.evs = q.evs /\ new.recs = q.recs
    BY <1>2 DEF Requests
  <2> HIDE DEF new
  <2>2. req' \in [Batch -> Requests] /\ req'[b] = new /\ \A c \in Batch \ {b} : req'[c] = req[c]
    BY <1>7, <2>1 DEF LogInv, TypeOK, new
  <2>3. creating' \in [Installation -> Seq(Batch)]
    BY <1>7, JoinFacts DEF LogInv
  <2>4. Unstamped' \subseteq Unstamped
    BY <1>3, <2>2 DEF Unstamped
  <2>5. /\ clock' + Cardinality(Unstamped') <= arrivals'
        /\ clock' \in Time /\ arrivals' \in 0 .. MaxArrivals
    BY <1>4, <1>7, <2>4, CountKept
  <2>6. RequestFits(b)'
    BY <1>3, <1>4, <2>1, <2>2 DEF RequestFits, Stamped, Sending
  <2>7. /\ KeysHeld' /\ CopiesKnown' /\ StoredOnce' /\ LateBlocked'
        /\ \A c \in Batch : RequestFits(c)'
    BY <1>3, <1>4, <1>7, <2>1, <2>2, <2>6, MoveKeepsLog DEF store, ghosts, Sending
  <2>8. TypeOK'
    BY <1>4, <1>5, <1>7, <2>2, <2>3, <2>5 DEF LogInv, TypeOK, store, ghosts
  <2> QED
    BY <2>5, <2>7, <2>8 DEF LogInv, RequestsFit
<1> QED
  BY <1>4, <1>6, <1>7

LEMMA TakeLockKeepsLog ==
    ASSUME LogInv, NEW b \in Batch, TakeLock(b)
    PROVE  LogInv'
<1> PICK r \in Requests : r = req[b]
  BY DEF LogInv, TypeOK
<1> PICK rest : rest = r.create \ ChainedOn(b)
  OBVIOUS
<1>1. r.pc = "lock" /\ warm /\ b \in Unstamped /\ \A e \in r.evs : r.recs[InstallationOf[e]] # Unknown
  BY DEF TakeLock, Unstamped, LogInv, RequestsFit, RequestFits
<1> DEFINE again == [i \in Installation |-> IF i \in r.create THEN Install(i) ELSE r.recs[i]]
           new == [Stamp(r) EXCEPT !.pc = "recache", !.recs = again]
<1>2. /\ UNCHANGED <<store, inFlight, warm, arrivals, faults, ghosts>>
      /\ \/ /\ creating' = [creating EXCEPT ![FirstLock(rest)] = Append(@, b)]
            /\ UNCHANGED <<req, installs, clock>>
         \/ /\ clock' = clock + 1
            /\ installs' = [i \in Installation |-> IF i \in r.create THEN Unknown ELSE installs[i]]
            /\ req' = [req EXCEPT ![b] = new]
            /\ UNCHANGED creating
  BY DEF TakeLock
<1>3. CASE /\ creating' = [creating EXCEPT ![FirstLock(rest)] = Append(@, b)]
           /\ UNCHANGED <<req, installs, clock>>
  <2>1. creating' \in [Installation -> Seq(Batch)]
    BY <1>3, JoinFacts DEF LogInv
  <2>2. Unstamped' \subseteq Unstamped
    BY <1>3 DEF Unstamped
  <2>3. /\ clock' + Cardinality(Unstamped') <= arrivals'
        /\ clock' \in Time /\ arrivals' \in 0 .. MaxArrivals
    BY <1>2, <1>3, <2>2, CountKept
  <2>4. RequestFits(b)'
    BY <1>2, <1>3 DEF LogInv, RequestsFit, RequestFits
  <2>5. /\ KeysHeld' /\ CopiesKnown' /\ StoredOnce' /\ LateBlocked'
        /\ \A c \in Batch : RequestFits(c)'
    BY <1>1, <1>2, <1>3, <2>4, MoveKeepsLog DEF store, ghosts, Sending
  <2>6. TypeOK'
    BY <1>2, <1>3, <2>1, <2>3 DEF LogInv, TypeOK, store, ghosts
  <2> QED
    BY <2>3, <2>5, <2>6 DEF LogInv, RequestsFit
<1>4. CASE /\ clock' = clock + 1
           /\ installs' = [i \in Installation |-> IF i \in r.create THEN Unknown ELSE installs[i]]
           /\ req' = [req EXCEPT ![b] = new]
           /\ UNCHANGED creating
  <2>1. \A i \in Installation : Install(i) \in Event \cup {None}
    BY InstallFacts DEF LogInv
  <2>2. /\ again \in [Installation -> Event \cup {None, Unknown}]
        /\ \A e \in r.evs : again[InstallationOf[e]] # Unknown
    <3>1. \A e \in r.evs : e \in Event /\ InstallationOf[e] \in Installation
      BY RequestFacts, ShapeAssumption
    <3> QED
      BY <1>1, <2>1, <3>1, RequestFacts, ShapeAssumption
  <2> HIDE DEF again
  <2>3. clock \in Nat /\ clock + 1 \in Time
    BY <1>1, StampInTime
  <2>4. /\ new \in Requests /\ new.pc = "recache" /\ new.evs = r.evs /\ new.dup = r.dup
        /\ new.wait = r.wait /\ new.recs = again /\ new.received = clock + 1
    BY <2>2, <2>3 DEF Stamp, Requests
  <2> HIDE DEF new
  <2>5. req' \in [Batch -> Requests] /\ req'[b] = new /\ \A c \in Batch \ {b} : req'[c] = req[c]
    BY <1>4, <2>4 DEF LogInv, TypeOK
  <2>6. Unstamped' \subseteq Unstamped \ {b}
    BY <2>4, <2>5 DEF Unstamped
  <2>7. /\ clock' + Cardinality(Unstamped') <= arrivals'
        /\ clock' \in Time /\ arrivals' \in 0 .. MaxArrivals
    BY <1>1, <1>2, <1>4, <2>6, CountKept
  <2>8. RequestFits(b)'
    BY <1>1, <1>2, <2>2, <2>3, <2>4, <2>5 DEF RequestFits
  <2>9. /\ KeysHeld' /\ CopiesKnown' /\ StoredOnce' /\ LateBlocked'
        /\ \A c \in Batch : RequestFits(c)'
    BY <1>1, <1>2, <2>4, <2>5, <2>8, MoveKeepsLog DEF store, ghosts, Sending
  <2>10. installs' \in [Installation -> Event \cup {None, Unknown}]
    BY <1>4 DEF LogInv, TypeOK
  <2>11. TypeOK'
    BY <1>2, <1>4, <2>5, <2>7, <2>10 DEF LogInv, TypeOK, store, ghosts
  <2> QED
    BY <2>7, <2>9, <2>11 DEF LogInv, RequestsFit
<1> QED
  BY <1>2, <1>3, <1>4

LEMMA RecacheKeepsLog ==
    ASSUME LogInv, NEW b \in Batch, Recache(b)
    PROVE  LogInv'
<1> PICK r \in Requests : r = req[b]
  BY DEF LogInv, TypeOK
<1>1. /\ r.pc = "recache" /\ CheckCopies(b, r)
      /\ installs' = [i \in Installation |-> IF i \in r.create THEN r.recs[i] ELSE installs[i]]
      /\ UNCHANGED <<store, clock, warm, arrivals, faults, ghosts>>
  BY DEF Recache
<1>2. r.received # 0 /\ \A e \in r.evs : r.recs[InstallationOf[e]] # Unknown
  BY <1>1 DEF LogInv, RequestsFit, RequestFits, Stamped, Sending
<1>3. \A e \in Event : r.dup[e] # 0 => events[e] # {}
  BY DEF LogInv, CopiesKnown
<1>4. /\ KeysHeld' /\ CopiesKnown' /\ StoredOnce' /\ LateBlocked'
      /\ \A c \in Batch : RequestFits(c)'
      /\ Unstamped' \subseteq Unstamped \ {b}
  BY <1>1, <1>2, <1>3, CheckKeepsLog DEF store, ghosts, Sending
<1>5. /\ clock' + Cardinality(Unstamped') <= arrivals'
      /\ clock' \in Time /\ arrivals' \in 0 .. MaxArrivals
  BY <1>1, <1>4, CountKept
<1>6. installs' \in [Installation -> Event \cup {None, Unknown}]
  BY <1>1, RequestFacts DEF LogInv, TypeOK
<1>7. /\ inFlight' \in [Event -> Flights] /\ creating' \in [Installation -> Seq(Batch)]
      /\ req' \in [Batch -> Requests]
  BY <1>1, CheckFacts DEF LogInv
<1>8. TypeOK'
  BY <1>1, <1>5, <1>6, <1>7 DEF LogInv, TypeOK, store, ghosts
<1> QED
  BY <1>4, <1>5, <1>8 DEF LogInv, RequestsFit

LEMMA ResumeKeepsLog ==
    ASSUME LogInv, NEW b \in Batch, Resume(b)
    PROVE  LogInv'
<1> PICK q \in Requests : q = req[b]
  BY DEF LogInv, TypeOK
<1> DEFINE dup == [e \in Event |-> IF q.wait[e].status = "stored" THEN q.wait[e].received ELSE q.dup[e]]
           r == [q EXCEPT !.dup = dup]
<1>1. /\ q.pc = "await"
      /\ Refuse(b) \/ CheckCopies(b, r)
      /\ UNCHANGED <<store, installs, clock, warm, arrivals, faults, ghosts>>
  <2>1. r = [q EXCEPT !.dup = [e \in Event |->
                IF q.wait[e].status = "stored" THEN q.wait[e].received ELSE @[e]]]
    BY DEF Requests
  <2> HIDE DEF r
  <2> QED
    BY <2>1 DEF Resume
<1>2. q.received # 0 /\ \A e \in q.evs : q.recs[InstallationOf[e]] # Unknown
  BY <1>1 DEF LogInv, RequestsFit, RequestFits, Stamped, Sending
<1>3. \A e \in Event : dup[e] # 0 => events[e] # {}
  BY DEF LogInv, CopiesKnown
<1>4. dup \in [Event -> Time]
  <2>1. \A e \in Event : q.wait[e] \in Waits
    BY RequestFacts
  <2> QED
    BY <2>1, RequestFacts DEF Waits
<1> HIDE DEF dup
<1>5. r \in Requests /\ r.evs = q.evs /\ r.recs = q.recs /\ r.received = q.received /\ r.dup = dup
  BY <1>4 DEF Requests
<1> HIDE DEF r
<1>6. /\ KeysHeld' /\ CopiesKnown' /\ StoredOnce' /\ LateBlocked'
      /\ \A c \in Batch : RequestFits(c)'
      /\ Unstamped' \subseteq Unstamped \ {b}
      /\ inFlight' \in [Event -> Flights] /\ creating' \in [Installation -> Seq(Batch)]
      /\ req' \in [Batch -> Requests]
  <2>1. CASE Refuse(b)
    BY <1>1, <2>1, RefuseKeepsLog DEF store, ghosts
  <2>2. CASE CheckCopies(b, r)
    BY <1>1, <1>2, <1>3, <1>5, <2>2, CheckKeepsLog, CheckFacts DEF LogInv, store, ghosts, Sending
  <2> QED
    BY <1>1, <2>1, <2>2
<1>7. /\ clock' + Cardinality(Unstamped') <= arrivals'
      /\ clock' \in Time /\ arrivals' \in 0 .. MaxArrivals
  BY <1>1, <1>6, CountKept
<1>8. TypeOK'
  BY <1>1, <1>6, <1>7 DEF LogInv, TypeOK, store, ghosts
<1> QED
  BY <1>6, <1>7, <1>8 DEF LogInv, RequestsFit

\* The lookup finds which of the keys it holds are stored, and when.
LEMMA LookupFacts ==
    ASSUME LogInv, NEW b \in Batch, Lookup(b)
    PROVE  /\ req[b].pc = "lookup" /\ req' \in [Batch -> Requests] /\ inFlight' \in [Event -> Flights]
           /\ req'[b].pc = "insert" /\ req'[b].evs = req[b].evs /\ req'[b].recs = req[b].recs
           /\ req'[b].create = req[b].create /\ req'[b].received = req[b].received
           /\ req'[b].wait = req[b].wait
           /\ \A c \in Batch \ {b} : req'[c] = req[c]
           /\ \A e \in Event :
                 /\ inFlight'[e].by = inFlight[e].by
                 /\ IF e \in req[b].evs /\ req[b].dup[e] = 0 /\ events[e] # {}
                    THEN /\ \E x \in events[e] : x.received = req'[b].dup[e]
                         /\ inFlight'[e].received =
                               IF inFlight[e].by = b THEN req'[b].dup[e] ELSE inFlight[e].received
                    ELSE req'[b].dup[e] = req[b].dup[e] /\ inFlight'[e] = inFlight[e]
<1> PICK r \in Requests : r = req[b]
  BY DEF LogInv, TypeOK
<1> PICK found : found = {e \in r.evs : r.dup[e] = 0 /\ events[e] # {}}
  OBVIOUS
<1> DEFINE storedAt(e) == (CHOOSE x \in events[e] : TRUE).received
           dup == [e \in Event |-> IF e \in found THEN storedAt(e) ELSE r.dup[e]]
           new == [r EXCEPT !.pc = "insert", !.dup = dup]
<1>1. \A e \in found : storedAt(e) \in Time /\ \E x \in events[e] : x.received = storedAt(e)
  <2> SUFFICES ASSUME NEW e \in found PROVE storedAt(e) \in Time /\ \E x \in events[e] : x.received = storedAt(e)
    OBVIOUS
  <2>1. e \in Event /\ events[e] # {} /\ events[e] \subseteq StoredRows
    BY RequestFacts DEF LogInv, TypeOK
  <2>2. PICK y : y = CHOOSE x \in events[e] : TRUE
    OBVIOUS
  <2>3. y \in events[e]
    BY <2>1, <2>2
  <2> QED
    BY <2>1, <2>2, <2>3 DEF StoredRows
<1>2. /\ r.pc = "lookup"
      /\ req' = [req EXCEPT ![b] = new]
      /\ inFlight' = [e \in Event |-> IF e \in found /\ inFlight[e].by = b
                                      THEN [by |-> b, received |-> storedAt(e)] ELSE inFlight[e]]
  <2>1. new = [r EXCEPT !.pc = "insert", !.dup = [e \in Event |-> IF e \in found THEN storedAt(e) ELSE @[e]]]
    BY DEF Requests
  <2> HIDE DEF new
  <2> QED
    BY <2>1 DEF Lookup
<1> HIDE DEF storedAt
<1>3. dup \in [Event -> Time] /\ \A e \in Event : dup[e] = IF e \in found THEN storedAt(e) ELSE r.dup[e]
  BY <1>1, RequestFacts
<1> HIDE DEF dup
<1>4. /\ new \in Requests /\ new.pc = "insert" /\ new.evs = r.evs /\ new.recs = r.recs
      /\ new.create = r.create /\ new.received = r.received /\ new.wait = r.wait /\ new.dup = dup
  BY <1>3 DEF Requests
<1> HIDE DEF new
<1>5. req' \in [Batch -> Requests] /\ req'[b] = new /\ \A c \in Batch \ {b} : req'[c] = req[c]
  BY <1>2, <1>4 DEF LogInv, TypeOK
<1>6. ASSUME NEW e \in Event
      PROVE  /\ inFlight'[e] \in Flights /\ inFlight'[e].by = inFlight[e].by
             /\ inFlight'[e].received =
                   IF e \in found /\ inFlight[e].by = b THEN storedAt(e) ELSE inFlight[e].received
             /\ e \notin found => inFlight'[e] = inFlight[e]
  BY <1>1, <1>2 DEF LogInv, TypeOK, Flights
<1>7. inFlight' \in [Event -> Flights]
  BY <1>2, <1>6
<1>8. r.evs \subseteq Event /\ \A e \in Event : e \in found <=> e \in r.evs /\ r.dup[e] = 0 /\ events[e] # {}
  BY RequestFacts
<1>9. ASSUME NEW e \in Event
      PROVE  IF e \in req[b].evs /\ req[b].dup[e] = 0 /\ events[e] # {}
             THEN /\ \E x \in events[e] : x.received = req'[b].dup[e]
                  /\ inFlight'[e].received =
                        IF inFlight[e].by = b THEN req'[b].dup[e] ELSE inFlight[e].received
             ELSE req'[b].dup[e] = req[b].dup[e] /\ inFlight'[e] = inFlight[e]
  BY <1>1, <1>3, <1>4, <1>5, <1>6, <1>8
<1> QED
  BY <1>2, <1>4, <1>5, <1>6, <1>7, <1>9

LEMMA LookupKeepsLog ==
    ASSUME LogInv, NEW b \in Batch, Lookup(b)
    PROVE  LogInv'
<1>1. /\ req[b].pc = "lookup" /\ req' \in [Batch -> Requests] /\ inFlight' \in [Event -> Flights]
      /\ req'[b].pc = "insert" /\ req'[b].evs = req[b].evs /\ req'[b].recs = req[b].recs
      /\ req'[b].received = req[b].received /\ req'[b].wait = req[b].wait
      /\ \A c \in Batch \ {b} : req'[c] = req[c]
      /\ \A e \in Event :
            /\ inFlight'[e].by = inFlight[e].by
            /\ IF e \in req[b].evs /\ req[b].dup[e] = 0 /\ events[e] # {}
               THEN \E x \in events[e] : x.received = req'[b].dup[e]
               ELSE req'[b].dup[e] = req[b].dup[e]
  BY LookupFacts
<1>2. UNCHANGED <<store, installs, creating, clock, warm, arrivals, faults, ghosts>>
  BY DEF Lookup
<1>3. \A e \in Event : \A x \in events[e] : x.received # 0
  BY DEF LogInv, StoredOnce
<1>4. \A e \in Event : req'[b].dup[e] = 0 => req[b].dup[e] = 0 /\ (e \in req[b].evs => events[e] = {})
  BY <1>1, <1>3
<1>5. KeysHeld'
  BY <1>1, <1>4 DEF LogInv, KeysHeld, Sending
<1>6. CopiesKnown'
  BY <1>1, <1>2 DEF LogInv, CopiesKnown, store
<1>7. \A c \in Batch : RequestFits(c)'
  BY <1>1, <1>2 DEF LogInv, RequestsFit, RequestFits, Stamped, Sending
<1>8. Unstamped' \subseteq Unstamped
  BY <1>1 DEF Unstamped
<1>9. /\ clock' + Cardinality(Unstamped') <= arrivals'
      /\ clock' \in Time /\ arrivals' \in 0 .. MaxArrivals
  BY <1>2, <1>8, CountKept
<1>10. StoredOnce' /\ LateBlocked'
  <2>1. \A e \in Event, c \in Batch : e \in req'[c].evs =>
          /\ req'[c].pc = "insert" /\ req'[c].dup[e] = 0 => events[e] = {}
          /\ req'[c].pc = "landed" => e \in req[c].evs /\ req[c].pc = "landed"
    BY <1>1, <1>4 DEF LogInv, StoredOnce
  <2> QED
    BY <1>1, <1>2, <2>1, StoreStays DEF store, ghosts
<1>11. TypeOK'
  BY <1>1, <1>2, <1>9 DEF LogInv, TypeOK, store, ghosts
<1> QED
  BY <1>5, <1>6, <1>7, <1>9, <1>10, <1>11 DEF LogInv, RequestsFit

\* New events among some rows that the store does not have are stored once.
LEMMA WrittenOnce ==
    ASSUME LogInv, NEW rows \in SUBSET SentRows,
           \A x \in rows : ~x.replay => events[x.ev] = {} /\ x.received # 0,
           \A x, y \in rows : ~x.replay /\ ~y.replay /\ x.ev = y.ev => x = y
    PROVE  \A e \in Event :
              /\ \A x, y \in EventsWith(rows)[e] : x = y
              /\ \A x \in EventsWith(rows)[e] : x.received # 0
              /\ events[e] # {} => EventsWith(rows)[e] = events[e]
              /\ states[e] # {} => StatesWith(rows)[e] # {}
              /\ EventsWith(rows)[e] # events[e] => \E x \in rows : x.ev = e /\ ~x.replay
              /\ \A x \in rows : x.ev = e => StatesWith(rows)[e] # {}
              /\ \A x \in rows : x.ev = e /\ ~x.replay => EventsWith(rows)[e] # {}
<1> SUFFICES ASSUME NEW e \in Event
             PROVE  /\ \A x, y \in EventsWith(rows)[e] : x = y
                    /\ \A x \in EventsWith(rows)[e] : x.received # 0
                    /\ events[e] # {} => EventsWith(rows)[e] = events[e]
                    /\ states[e] # {} => StatesWith(rows)[e] # {}
                    /\ EventsWith(rows)[e] # events[e] => \E x \in rows : x.ev = e /\ ~x.replay
                    /\ \A x \in rows : x.ev = e => StatesWith(rows)[e] # {}
                    /\ \A x \in rows : x.ev = e /\ ~x.replay => EventsWith(rows)[e] # {}
  OBVIOUS
<1>1. /\ events[e] \subseteq EventsWith(rows)[e] /\ states[e] \subseteq StatesWith(rows)[e]
      /\ \A x \in rows : x.ev = e =>
            /\ x.received \in StatesWith(rows)[e]
            /\ ~x.replay => [received |-> x.received, base |-> x.base] \in EventsWith(rows)[e]
      /\ \A y \in EventsWith(rows)[e] : y \in events[e] \/
            \E x \in rows : x.ev = e /\ ~x.replay /\ y = [received |-> x.received, base |-> x.base]
  BY StoreFacts DEF LogInv
<1>2. (\A x, y \in events[e] : x = y) /\ \A x \in events[e] : x.received # 0
  BY DEF LogInv, StoredOnce
<1>3. \A x, y \in EventsWith(rows)[e] : x = y
  BY <1>1, <1>2
<1>4. \A x \in EventsWith(rows)[e] : x.received # 0
  BY <1>1, <1>2
<1> QED
  BY <1>1, <1>3, <1>4

\* The rows a batch sends: its new events are nowhere in the store yet.
LEMMA InsertFacts ==
    ASSUME LogInv, NEW b \in Batch, req[b].pc = "insert"
    PROVE  /\ warm /\ Rows(req[b]) \in SUBSET SentRows
           /\ \A x \in Rows(req[b]) : x.ev \in req[b].evs /\ (~x.replay =>
                 /\ events[x.ev] = {} /\ x.received # 0 /\ inFlight[x.ev].by = b)
           /\ \A x, y \in Rows(req[b]) : x.ev = y.ev => x = y
           /\ \A e \in req[b].evs : e \in Event /\ \E x \in Rows(req[b]) :
                 x.ev = e /\ (x.replay => events[e] # {})
<1> PICK r \in Requests : r = req[b]
  BY DEF LogInv, TypeOK
<1>1. warm /\ r.received # 0 /\ \A e \in r.evs : e \in Event /\ r.recs[InstallationOf[e]] # Unknown
  BY RequestFacts DEF LogInv, RequestsFit, RequestFits, Stamped, Sending
<1>2. \A e \in r.evs : /\ r.dup[e] = 0 => events[e] = {} /\ inFlight[e].by = b
                       /\ r.dup[e] # 0 => events[e] # {}
  BY <1>1 DEF LogInv, StoredOnce, KeysHeld, Sending, CopiesKnown
<1>3. /\ Rows(r) \subseteq SentRows
      /\ \A x \in Rows(r) : /\ x.ev \in r.evs /\ x.received = StampOf(r, x.ev)
                            /\ x.replay <=> r.dup[x.ev] # 0
      /\ \A x, y \in Rows(r) : x.ev = y.ev => x = y
      /\ \A e \in r.evs : \E x \in Rows(r) : x.ev = e
  BY <1>1, RowsFacts
<1>4. \A x \in Rows(r) : ~x.replay => x.received = r.received
  BY <1>3 DEF StampOf
<1>5. ASSUME NEW e \in r.evs
      PROVE  e \in Event /\ \E x \in Rows(r) : x.ev = e /\ (x.replay => events[e] # {})
  BY <1>1, <1>2, <1>3
<1>6. ASSUME NEW x \in Rows(r)
      PROVE  x.ev \in r.evs /\ (~x.replay =>
                /\ events[x.ev] = {} /\ x.received # 0 /\ inFlight[x.ev].by = b)
  BY <1>1, <1>2, <1>3, <1>4
<1> QED
  BY <1>1, <1>3, <1>5, <1>6

\* What a batch sends, applied to `events`, leaves every other batch's new events new.
LEMMA InsertOnce ==
    ASSUME LogInv, NEW b \in Batch, req[b].pc = "insert",
           NEW rows, rows = Rows(req[b])
    PROVE  /\ \A e \in Event :
                 /\ \A x, y \in EventsWith(rows)[e] : x = y
                 /\ \A x \in EventsWith(rows)[e] : x.received # 0
                 /\ events[e] # {} => EventsWith(rows)[e] = events[e]
                 /\ states[e] # {} => StatesWith(rows)[e] # {}
                 /\ EventsWith(rows)[e] # events[e] => inFlight[e].by = b
           /\ \A e \in req[b].evs : EventsWith(rows)[e] # {} /\ StatesWith(rows)[e] # {}
           /\ \A e \in Event, c \in Batch \ {b} : e \in req[c].evs =>
                 /\ req[c].pc = "insert" /\ req[c].dup[e] = 0 => EventsWith(rows)[e] = {}
                 /\ req[c].pc = "landed" => EventsWith(rows)[e] # {} /\ StatesWith(rows)[e] # {}
           /\ \A others \in late : \A x \in others : ~x.replay => EventsWith(rows)[x.ev] = {}
<1>1. /\ rows \in SUBSET SentRows
      /\ \A x \in rows : ~x.replay => /\ events[x.ev] = {} /\ x.received # 0 /\ inFlight[x.ev].by = b
      /\ \A x, y \in rows : x.ev = y.ev => x = y
      /\ \A e \in req[b].evs : e \in Event /\ \E x \in rows : x.ev = e /\ (x.replay => events[e] # {})
      /\ warm
  BY InsertFacts
<1>2. \A e \in Event :
         /\ \A x, y \in EventsWith(rows)[e] : x = y
         /\ \A x \in EventsWith(rows)[e] : x.received # 0
         /\ events[e] # {} => EventsWith(rows)[e] = events[e]
         /\ states[e] # {} => StatesWith(rows)[e] # {}
         /\ EventsWith(rows)[e] # events[e] => \E x \in rows : x.ev = e /\ ~x.replay
         /\ \A x \in rows : x.ev = e => StatesWith(rows)[e] # {}
         /\ \A x \in rows : x.ev = e /\ ~x.replay => EventsWith(rows)[e] # {}
  BY <1>1, WrittenOnce
<1>3. \A e \in Event : EventsWith(rows)[e] # events[e] => inFlight[e].by = b
  BY <1>1, <1>2
<1>4. ASSUME NEW e \in req[b].evs
      PROVE  EventsWith(rows)[e] # {} /\ StatesWith(rows)[e] # {}
  <2>1. PICK x \in rows : e \in Event /\ x.ev = e /\ (x.replay => events[e] # {})
    BY <1>1
  <2>2. x.replay \in BOOLEAN
    BY <1>1 DEF SentRows
  <2> QED
    BY <1>2, <2>1, <2>2
<1>5. ASSUME NEW e \in Event, NEW c \in Batch \ {b}, e \in req[c].evs
      PROVE  /\ req[c].pc = "insert" /\ req[c].dup[e] = 0 => EventsWith(rows)[e] = {}
             /\ req[c].pc = "landed" => EventsWith(rows)[e] # {} /\ StatesWith(rows)[e] # {}
  <2>1. req[c].pc = "insert" /\ req[c].dup[e] = 0 => events[e] = {} /\ inFlight[e].by = c
    BY <1>5 DEF LogInv, StoredOnce, KeysHeld, Sending
  <2>2. req[c].pc = "landed" => events[e] # {} /\ states[e] # {}
    BY <1>5 DEF LogInv, StoredOnce
  <2> QED
    BY <1>2, <1>3, <2>1, <2>2
<1>6. ASSUME NEW others \in late, NEW x \in others, ~x.replay
      PROVE  EventsWith(rows)[x.ev] = {}
  <2>1. x.ev \in Event /\ events[x.ev] = {} /\ inFlight[x.ev].by = Blocked
    BY <1>1, <1>6 DEF LogInv, LateBlocked, TypeOK, SentRows
  <2>2. Blocked # b
    BY ShapeAssumption
  <2> QED
    BY <1>3, <2>1, <2>2
<1> QED
  BY <1>2, <1>3, <1>4, <1>5, <1>6

LEMMA LandKeepsLog ==
    ASSUME LogInv, NEW b \in Batch, Land(b)
    PROVE  LogInv'
<1> PICK rows : rows = Rows(req[b])
  OBVIOUS
<1>1. /\ req[b].pc = "insert" /\ events' = EventsWith(rows) /\ states' = StatesWith(rows)
      /\ req' = [req EXCEPT ![b].pc = "landed"]
      /\ UNCHANGED <<late, installs, inFlight, creating, clock, warm, arrivals, faults, ghosts>>
  BY DEF Land
<1>2. /\ req' \in [Batch -> Requests] /\ \A c \in Batch \ {b} : req'[c] = req[c]
      /\ req'[b].pc = "landed" /\ req'[b].evs = req[b].evs /\ req'[b].recs = req[b].recs
      /\ req'[b].received = req[b].received /\ req'[b].dup = req[b].dup /\ req'[b].wait = req[b].wait
  <2> PICK r \in Requests : r = req[b]
    BY DEF LogInv, TypeOK
  <2> DEFINE new == [r EXCEPT !.pc = "landed"]
  <2>1. /\ new \in Requests /\ new.pc = "landed" /\ new.evs = r.evs /\ new.recs = r.recs
        /\ new.received = r.received /\ new.dup = r.dup /\ new.wait = r.wait
    BY DEF Requests
  <2>2. req' = [req EXCEPT ![b] = new]
    BY <1>1
  <2> HIDE DEF new
  <2> QED
    BY <2>1, <2>2 DEF LogInv, TypeOK
<1>3. /\ \A e \in Event :
            /\ \A x, y \in events'[e] : x = y
            /\ \A x \in events'[e] : x.received # 0
            /\ events[e] # {} => events'[e] = events[e]
            /\ states[e] # {} => states'[e] # {}
      /\ \A e \in req[b].evs : events'[e] # {} /\ states'[e] # {}
      /\ \A e \in Event, c \in Batch \ {b} : e \in req[c].evs =>
            /\ req[c].pc = "insert" /\ req[c].dup[e] = 0 => events'[e] = {}
            /\ req[c].pc = "landed" => events'[e] # {} /\ states'[e] # {}
      /\ \A others \in late : \A x \in others : ~x.replay => events'[x.ev] = {}
  <2> DEFINE E == EventsWith(rows)
             S == StatesWith(rows)
  <2>1. /\ \A e \in Event :
              /\ \A x, y \in E[e] : x = y
              /\ \A x \in E[e] : x.received # 0
              /\ events[e] # {} => E[e] = events[e]
              /\ states[e] # {} => S[e] # {}
        /\ \A e \in req[b].evs : E[e] # {} /\ S[e] # {}
        /\ \A e \in Event, c \in Batch \ {b} : e \in req[c].evs =>
              /\ req[c].pc = "insert" /\ req[c].dup[e] = 0 => E[e] = {}
              /\ req[c].pc = "landed" => E[e] # {} /\ S[e] # {}
        /\ \A others \in late : \A x \in others : ~x.replay => E[x.ev] = {}
    <3>1. req[b].pc = "insert" /\ rows = Rows(req[b])
      BY <1>1
    <3>2. \A e \in Event :
              /\ \A x, y \in E[e] : x = y
              /\ \A x \in E[e] : x.received # 0
              /\ events[e] # {} => E[e] = events[e]
              /\ states[e] # {} => S[e] # {}
      BY <3>1, InsertOnce
    <3>3. \A e \in req[b].evs : E[e] # {} /\ S[e] # {}
      BY <3>1, InsertOnce
    <3>4. \A e \in Event, c \in Batch \ {b} : e \in req[c].evs =>
              /\ req[c].pc = "insert" /\ req[c].dup[e] = 0 => E[e] = {}
              /\ req[c].pc = "landed" => E[e] # {} /\ S[e] # {}
      BY <3>1, InsertOnce
    <3>5. \A others \in late : \A x \in others : ~x.replay => E[x.ev] = {}
      BY <3>1, InsertOnce
    <3> QED
      BY <3>2, <3>3, <3>4, <3>5
  <2>2. events' = E /\ states' = S
    BY <1>1
  <2> HIDE DEF E, S
  <2> QED
    BY <2>1, <2>2
<1>4. events' \in [Event -> SUBSET StoredRows] /\ states' \in [Event -> SUBSET Time]
  BY <1>1, InsertFacts, StoreFacts DEF LogInv
<1>5. KeysHeld'
  BY <1>1, <1>2 DEF LogInv, KeysHeld, Sending
<1>6. CopiesKnown'
  BY <1>1, <1>2, <1>3 DEF LogInv, CopiesKnown
<1>7. \A c \in Batch : RequestFits(c)'
  BY <1>1, <1>2 DEF LogInv, RequestsFit, RequestFits, Stamped, Sending
<1>8. Unstamped' \subseteq Unstamped
  BY <1>2 DEF Unstamped
<1>9. /\ clock' + Cardinality(Unstamped') <= arrivals'
      /\ clock' \in Time /\ arrivals' \in 0 .. MaxArrivals
  BY <1>1, <1>8, CountKept
<1>10. StoredOnce'
  BY <1>1, <1>2, <1>3 DEF LogInv, StoredOnce, ghosts
<1>11. LateBlocked'
  BY <1>1, <1>3 DEF LogInv, LateBlocked
<1>12. TypeOK'
  BY <1>1, <1>2, <1>4, <1>9 DEF LogInv, TypeOK, ghosts
<1> QED
  BY <1>5, <1>6, <1>7, <1>9, <1>10, <1>11, <1>12 DEF LogInv, RequestsFit

LEMMA AcknowledgeKeepsLog ==
    ASSUME LogInv, NEW b \in Batch, Acknowledge(b)
    PROVE  LogInv'
<1> PICK r \in Requests : r = req[b]
  BY DEF LogInv, TypeOK
<1>1. /\ r.pc = "landed" /\ Finish(b, TRUE, Nobody) /\ answered' = answered \cup r.evs
      /\ installs' = [i \in Installation |-> IF Created(r, i) # None THEN Created(r, i) ELSE installs[i]]
      /\ UNCHANGED <<store, clock, warm, arrivals, faults, failed>>
  BY DEF Acknowledge
<1>2. /\ inFlight' \in [Event -> Flights] /\ creating' \in [Installation -> Seq(Batch)]
      /\ req' \in [Batch -> Requests] /\ req'[b] = Idle
      /\ \A c \in Batch \ {b} :
            req'[c].pc = req[c].pc /\ req'[c].evs = req[c].evs /\ req'[c].dup = req[c].dup
      /\ \A e \in Event : IF inFlight[e].by = b THEN inFlight'[e].by = Nobody
                          ELSE inFlight'[e] = inFlight[e]
  <2> HIDE <1>1
  <2>1. Finish(b, TRUE, Nobody) /\ TypeOK
    BY <1>1 DEF LogInv
  <2> QED
    BY <2>1, EndFacts
<1>3. /\ KeysHeld' /\ CopiesKnown' /\ \A c \in Batch : RequestFits(c)'
      /\ Unstamped' \subseteq Unstamped \ {b}
  BY <1>1, EndKeepsMemory DEF store
<1>4. /\ clock' + Cardinality(Unstamped') <= arrivals'
      /\ clock' \in Time /\ arrivals' \in 0 .. MaxArrivals
  BY <1>1, <1>3, CountKept
<1>5. r.evs \subseteq Event /\ \A e \in r.evs : events[e] # {} /\ states[e] # {}
  BY <1>1, RequestFacts DEF LogInv, StoredOnce
<1>6. StoredOnce'
  BY <1>1, <1>2, <1>5, IdleFacts DEF LogInv, StoredOnce, store
<1>7. LateBlocked'
  <2>1. \A rows \in late : \A x \in rows : x.ev \in Event
    BY DEF LogInv, TypeOK, SentRows
  <2>2. \A e \in Event : inFlight[e].by = Blocked => inFlight'[e].by = Blocked
    BY <1>2, ShapeAssumption
  <2> QED
    BY <1>1, <2>1, <2>2 DEF LogInv, LateBlocked, store
<1>8. installs' \in [Installation -> Event \cup {None, Unknown}]
  BY <1>1, CreatedFacts DEF LogInv, TypeOK
<1>9. TypeOK'
  BY <1>1, <1>2, <1>4, <1>5, <1>8 DEF LogInv, TypeOK, store
<1> QED
  BY <1>3, <1>4, <1>6, <1>7, <1>9 DEF LogInv, RequestsFit

LEMMA ReadFailsKeepsLog ==
    ASSUME LogInv, NEW b \in Batch, ReadFails(b)
    PROVE  LogInv'
<1>1. /\ faults < MaxFaults /\ faults' = faults + 1 /\ Refuse(b)
      /\ UNCHANGED <<store, installs, clock, warm, arrivals, ghosts>>
  BY DEF ReadFails
<1>2. /\ KeysHeld' /\ CopiesKnown' /\ StoredOnce' /\ LateBlocked'
      /\ \A c \in Batch : RequestFits(c)'
      /\ Unstamped' \subseteq Unstamped \ {b}
      /\ inFlight' \in [Event -> Flights] /\ creating' \in [Installation -> Seq(Batch)]
      /\ req' \in [Batch -> Requests]
  BY <1>1, RefuseKeepsLog DEF store, ghosts
<1>3. /\ clock' + Cardinality(Unstamped') <= arrivals'
      /\ clock' \in Time /\ arrivals' \in 0 .. MaxArrivals
  BY <1>1, <1>2, CountKept
<1>4. TypeOK'
  BY <1>1, <1>2, <1>3, ShapeAssumption DEF LogInv, TypeOK, store, ghosts
<1> QED
  BY <1>2, <1>3, <1>4 DEF LogInv, RequestsFit

LEMMA UnblockKeepsLog ==
    ASSUME LogInv, NEW e \in Event, Unblock(e)
    PROVE  LogInv'
<1>1. /\ inFlight[e].by = Blocked /\ ~Pending(e)
      /\ inFlight' = [inFlight EXCEPT ![e] = Free]
      /\ UNCHANGED <<store, installs, creating, req, clock, warm, arrivals, faults, ghosts>>
  BY DEF Unblock
<1>2. Free \in Flights /\ Free.by = Nobody
  BY TimeIsNat DEF Free, Flights
<1>3. inFlight' \in [Event -> Flights] /\ inFlight'[e] = Free
      /\ \A f \in Event \ {e} : inFlight'[f] = inFlight[f]
  BY <1>1, <1>2 DEF LogInv, TypeOK
<1>4. KeysHeld'
  BY <1>1, <1>2, <1>3, ShapeAssumption DEF LogInv, KeysHeld
<1>5. CopiesKnown'
  BY <1>1, <1>3, ShapeAssumption DEF LogInv, CopiesKnown, store
<1>6. RequestsFit'
  BY <1>1 DEF LogInv, RequestsFit, RequestFits, Unstamped
<1>7. StoredOnce'
  BY <1>1 DEF LogInv, StoredOnce, store, ghosts
<1>8. LateBlocked'
  <2>1. \A rows \in late : \A x \in rows : x.ev \in Event /\ x.ev # e
    BY <1>1 DEF LogInv, TypeOK, SentRows, Pending
  <2> QED
    BY <1>1, <1>3, <2>1 DEF LogInv, LateBlocked, store
<1>9. TypeOK'
  BY <1>1, <1>3 DEF LogInv, TypeOK, store, ghosts
<1> QED
  BY <1>4, <1>5, <1>6, <1>7, <1>8, <1>9 DEF LogInv

LEMMA EvictKeepsLog ==
    ASSUME LogInv, NEW i \in Installation, Evict(i)
    PROVE  LogInv'
<1>1. /\ faults' \in 0 .. MaxFaults /\ installs' \in [Installation -> Event \cup {None, Unknown}]
      /\ UNCHANGED <<store, inFlight, creating, req, clock, warm, arrivals, ghosts>>
  BY ShapeAssumption DEF Evict, LogInv, TypeOK
<1>2. TypeOK'
  BY <1>1 DEF LogInv, TypeOK, store, ghosts
<1> QED
  BY <1>1, <1>2 DEF LogInv, RequestsFit, RequestFits, Unstamped, KeysHeld, CopiesKnown, StoredOnce,
                    LateBlocked, store, ghosts

LEMMA WarmUpKeepsLog ==
    ASSUME LogInv, WarmUp
    PROVE  LogInv'
<1>1. /\ late = {} /\ warm' = TRUE
      /\ UNCHANGED <<store, memory, clock, arrivals, faults, ghosts>>
  BY DEF WarmUp
<1>2. TypeOK'
  BY <1>1 DEF LogInv, TypeOK, store, memory, ghosts
<1> QED
  BY <1>1, <1>2 DEF LogInv, RequestsFit, RequestFits, Unstamped, KeysHeld, CopiesKnown, StoredOnce,
                    LateBlocked, store, memory, ghosts

\* An insert that fails may leave its rows for later, or in one of the views.
LEMMA InsertFailsKeepsLog ==
    ASSUME LogInv, NEW b \in Batch, InsertFails(b)
    PROVE  LogInv'
<1> PICK rows : rows = Rows(req[b])
  OBVIOUS
<1>1. /\ req[b].pc \in {"insert", "landed"} /\ faults < MaxFaults /\ faults' = faults + 1
      /\ IF req[b].pc = "insert" THEN Unacknowledged(rows) ELSE UNCHANGED store
      /\ failed' = failed \cup req[b].evs
      /\ Finish(b, FALSE, Blocked)
      /\ UNCHANGED <<installs, clock, warm, arrivals, answered>>
  BY DEF InsertFails
<1>2. /\ inFlight' \in [Event -> Flights] /\ creating' \in [Installation -> Seq(Batch)]
      /\ req' \in [Batch -> Requests] /\ req'[b] = Idle
      /\ \A c \in Batch \ {b} :
            req'[c].pc = req[c].pc /\ req'[c].evs = req[c].evs /\ req'[c].dup = req[c].dup
      /\ \A e \in Event : IF inFlight[e].by = b THEN inFlight'[e].by = Blocked
                          ELSE inFlight'[e] = inFlight[e]
  BY <1>1, EndFacts DEF LogInv
<1>3. /\ events' \in [Event -> SUBSET StoredRows] /\ states' \in [Event -> SUBSET Time]
      /\ \A others \in late' : others \subseteq SentRows
      /\ \A e \in Event :
            /\ \A x, y \in events'[e] : x = y
            /\ \A x \in events'[e] : x.received # 0
            /\ events[e] # {} => events'[e] # {}
            /\ states[e] # {} => states'[e] # {}
      /\ \A e \in Event, c \in Batch \ {b} : e \in req[c].evs =>
            /\ req[c].pc = "insert" /\ req[c].dup[e] = 0 => events'[e] = {}
            /\ req[c].pc = "landed" => events'[e] # {} /\ states'[e] # {}
      /\ \A others \in late : \A x \in others : ~x.replay => events'[x.ev] = {}
      /\ \/ late' = late
         \/ late' = late \cup {rows} /\ events' = events /\ req[b].pc = "insert"
  <2>1. CASE UNCHANGED store
    BY <2>1 DEF store, LogInv, TypeOK, StoredOnce, LateBlocked
  <2>2. CASE req[b].pc = "insert" /\ Unacknowledged(rows)
    <3> DEFINE E == EventsWith(rows)
               S == StatesWith(rows)
    <3>1. rows \in SUBSET SentRows
      BY <2>2, InsertFacts
    <3>2. E \in [Event -> SUBSET StoredRows] /\ S \in [Event -> SUBSET Time]
      BY <3>1, StoreFacts DEF LogInv
    <3>3. \A e \in Event :
              /\ \A x, y \in E[e] : x = y
              /\ \A x \in E[e] : x.received # 0
              /\ events[e] # {} => E[e] = events[e]
              /\ states[e] # {} => S[e] # {}
      BY <2>2, InsertOnce
    <3>4. \A e \in Event, c \in Batch \ {b} : e \in req[c].evs =>
              /\ req[c].pc = "insert" /\ req[c].dup[e] = 0 => E[e] = {}
              /\ req[c].pc = "landed" => E[e] # {} /\ S[e] # {}
      BY <2>2, InsertOnce
    <3>5. \A others \in late : \A x \in others : ~x.replay => E[x.ev] = {}
      BY <2>2, InsertOnce
    <3>6. \/ UNCHANGED store
          \/ late' = late \cup {rows} /\ UNCHANGED <<events, states>>
          \/ events' = E /\ UNCHANGED <<states, late>>
          \/ states' = S /\ UNCHANGED <<events, late>>
      BY <2>2 DEF Unacknowledged
    <3> HIDE DEF E, S
    <3>7. CASE late' = late \cup {rows} /\ UNCHANGED <<events, states>>
      BY <2>2, <3>1, <3>7 DEF LogInv, TypeOK, StoredOnce, LateBlocked
    <3>8. CASE events' = E /\ UNCHANGED <<states, late>>
      <4>1. \A others \in late' : others \subseteq SentRows
        BY <3>8 DEF LogInv, TypeOK
      <4>2. \A e \in Event, c \in Batch \ {b} : e \in req[c].evs /\ req[c].pc = "landed" => states[e] # {}
        BY DEF LogInv, StoredOnce
      <4>3. states \in [Event -> SUBSET Time]
        BY DEF LogInv, TypeOK
      <4> QED
        BY <3>2, <3>3, <3>4, <3>5, <3>8, <4>1, <4>2, <4>3
    <3>9. CASE states' = S /\ UNCHANGED <<events, late>>
      <4>1. /\ \A others \in late : others \subseteq SentRows
            /\ events \in [Event -> SUBSET StoredRows]
        BY DEF LogInv, TypeOK
      <4>2. \A e \in Event, c \in Batch \ {b} : e \in req[c].evs =>
               /\ req[c].pc = "insert" /\ req[c].dup[e] = 0 => events[e] = {}
               /\ req[c].pc = "landed" => events[e] # {}
        BY DEF LogInv, StoredOnce
      <4>3. \A e \in Event : (\A x, y \in events[e] : x = y) /\ \A x \in events[e] : x.received # 0
        BY DEF LogInv, StoredOnce
      <4>4. \A others \in late : \A x \in others : ~x.replay => events[x.ev] = {}
        BY DEF LogInv, LateBlocked
      <4> QED
        BY <3>2, <3>3, <3>4, <3>9, <4>1, <4>2, <4>3, <4>4
    <3> QED
      BY <2>1, <3>6, <3>7, <3>8, <3>9
  <2> QED
    BY <1>1, <2>1, <2>2
<1>4. /\ KeysHeld' /\ CopiesKnown' /\ \A c \in Batch : RequestFits(c)'
      /\ Unstamped' \subseteq Unstamped \ {b}
  <2>1. \A e \in Event : events[e] # {} => events'[e] # {}
    BY <1>3
  <2> QED
    BY <1>1, <2>1, EndKeepsMemory
<1>5. /\ clock' + Cardinality(Unstamped') <= arrivals'
      /\ clock' \in Time /\ arrivals' \in 0 .. MaxArrivals
  BY <1>1, <1>4, CountKept
<1>6. StoredOnce'
  <2>1. \A e \in Event : e \in answered => events'[e] # {} /\ states'[e] # {}
    BY <1>3 DEF LogInv, StoredOnce
  <2> QED
    BY <1>1, <1>2, <1>3, <2>1, IdleFacts DEF StoredOnce
<1>7. LateBlocked'
  <2>1. \A others \in late : \A x \in others : x.ev \in Event
    BY DEF LogInv, TypeOK, SentRows
  <2>2. \A e \in Event : inFlight[e].by = Blocked => inFlight'[e].by = Blocked
    BY <1>2, ShapeAssumption
  <2>3. CASE late' = late
    BY <1>1, <1>3, <2>1, <2>2, <2>3 DEF LogInv, LateBlocked
  <2>4. CASE late' = late \cup {rows} /\ events' = events /\ req[b].pc = "insert"
    <3>1. /\ warm
          /\ \A x \in rows : ~x.replay =>
                /\ x.ev \in Event /\ events[x.ev] = {} /\ x.received # 0 /\ inFlight[x.ev].by = b
          /\ \A x, y \in rows : x.ev = y.ev => x = y
      BY <2>4, InsertFacts
    <3>2. \A x \in rows : ~x.replay => inFlight'[x.ev].by = Blocked
      BY <1>2, <3>1
    <3>3. \A others \in late : \A y \in others : ~y.replay =>
             /\ inFlight[y.ev].by = Blocked /\ inFlight'[y.ev].by = Blocked
             /\ events[y.ev] = {} /\ y.received # 0
      BY <2>1, <2>2, <3>1 DEF LogInv, LateBlocked
    <3>4. \A others \in late : \A x \in rows, y \in others : ~x.replay /\ ~y.replay => x.ev # y.ev
      BY <3>1, <3>3, ShapeAssumption
    <3>5. \A some, others \in late : \A x \in some, y \in others :
             ~x.replay /\ ~y.replay /\ y.ev = x.ev => others = some /\ x = y
      BY DEF LogInv, LateBlocked
    <3>6. \A some, others \in late' : \A x \in some, y \in others :
             ~x.replay /\ ~y.replay /\ y.ev = x.ev => others = some /\ x = y
      BY <2>4, <3>1, <3>4, <3>5
    <3>7. \A some \in late' : \A x \in some : ~x.replay =>
             events'[x.ev] = {} /\ x.received # 0 /\ inFlight'[x.ev].by = Blocked
      BY <2>4, <3>1, <3>2, <3>3
    <3> QED
      BY <3>6, <3>7 DEF LateBlocked
  <2> QED
    BY <1>3, <2>3, <2>4
<1>8. TypeOK'
  BY <1>1, <1>2, <1>3, <1>5, RequestFacts, ShapeAssumption DEF LogInv, TypeOK
<1> QED
  BY <1>4, <1>5, <1>6, <1>7, <1>8 DEF LogInv, RequestsFit

\* A failed insert applied after all stores only events nobody is sending.
LEMMA SettleOnce ==
    ASSUME LogInv, NEW rows \in late
    PROVE  /\ rows \in SUBSET SentRows
           /\ \A e \in Event :
                 /\ \A x, y \in EventsWith(rows)[e] : x = y
                 /\ \A x \in EventsWith(rows)[e] : x.received # 0
                 /\ events[e] # {} => EventsWith(rows)[e] = events[e]
                 /\ states[e] # {} => StatesWith(rows)[e] # {}
                 /\ EventsWith(rows)[e] # events[e] =>
                       /\ \E x \in rows : x.ev = e /\ ~x.replay
                       /\ (warm => inFlight[e].by = Blocked)
           /\ \A e \in Event, c \in Batch : e \in req[c].evs =>
                 /\ req[c].pc = "insert" /\ req[c].dup[e] = 0 => EventsWith(rows)[e] = {}
                 /\ req[c].pc = "landed" => EventsWith(rows)[e] # {} /\ StatesWith(rows)[e] # {}
           /\ \A others \in late : \A x \in others :
                 others # rows /\ ~x.replay => EventsWith(rows)[x.ev] = {}
<1>1. /\ rows \in SUBSET SentRows
      /\ \A x \in rows : ~x.replay => events[x.ev] = {} /\ x.received # 0
      /\ \A x, y \in rows : ~x.replay /\ ~y.replay /\ x.ev = y.ev => x = y
  BY DEF LogInv, TypeOK, LateBlocked
<1>2. \A e \in Event :
         /\ \A x, y \in EventsWith(rows)[e] : x = y
         /\ \A x \in EventsWith(rows)[e] : x.received # 0
         /\ events[e] # {} => EventsWith(rows)[e] = events[e]
         /\ states[e] # {} => StatesWith(rows)[e] # {}
         /\ EventsWith(rows)[e] # events[e] => \E x \in rows : x.ev = e /\ ~x.replay
  BY <1>1, WrittenOnce
<1>3. \A e \in Event : EventsWith(rows)[e] # events[e] =>
         (\E x \in rows : x.ev = e /\ ~x.replay) /\ (warm => inFlight[e].by = Blocked)
  BY <1>2 DEF LogInv, LateBlocked
<1>4. ASSUME NEW e \in Event, NEW c \in Batch, e \in req[c].evs
      PROVE  /\ req[c].pc = "insert" /\ req[c].dup[e] = 0 => EventsWith(rows)[e] = {}
             /\ req[c].pc = "landed" => EventsWith(rows)[e] # {} /\ StatesWith(rows)[e] # {}
  <2>1. req[c].pc = "insert" /\ req[c].dup[e] = 0 =>
           events[e] = {} /\ inFlight[e].by = c /\ warm
    BY <1>4 DEF LogInv, StoredOnce, KeysHeld, Sending, RequestsFit, RequestFits
  <2>2. req[c].pc = "landed" => events[e] # {} /\ states[e] # {}
    BY <1>4 DEF LogInv, StoredOnce
  <2>3. Blocked # c
    BY ShapeAssumption
  <2> QED
    BY <1>2, <1>3, <2>1, <2>2, <2>3
<1>5. ASSUME NEW others \in late, NEW x \in others, others # rows, ~x.replay
      PROVE  EventsWith(rows)[x.ev] = {}
  <2>1. x.ev \in Event /\ events[x.ev] = {}
    BY <1>5 DEF LogInv, LateBlocked, TypeOK, SentRows
  <2>2. ~\E y \in rows : y.ev = x.ev /\ ~y.replay
    BY <1>5 DEF LogInv, LateBlocked
  <2> QED
    BY <1>2, <2>1, <2>2
<1> QED
  BY <1>1, <1>2, <1>3, <1>4, <1>5

LEMMA SettleKeepsLog ==
    ASSUME LogInv, NEW rows \in late, Settle(rows)
    PROVE  LogInv'
<1> DEFINE E == EventsWith(rows)
           S == StatesWith(rows)
<1>1. /\ late' = late \ {rows}
      /\ UNCHANGED <<memory, clock, warm, arrivals, faults, ghosts>>
      /\ \/ events' = E /\ states' = S
         \/ UNCHANGED <<events, states>>
  BY DEF Settle
<1>2. E \in [Event -> SUBSET StoredRows] /\ S \in [Event -> SUBSET Time]
  BY SettleOnce, StoreFacts DEF LogInv
<1>3. \A e \in Event :
         /\ \A x, y \in E[e] : x = y
         /\ \A x \in E[e] : x.received # 0
         /\ events[e] # {} => E[e] = events[e]
         /\ states[e] # {} => S[e] # {}
  BY SettleOnce
<1>4. \A e \in Event, c \in Batch : e \in req[c].evs =>
         /\ req[c].pc = "insert" /\ req[c].dup[e] = 0 => E[e] = {}
         /\ req[c].pc = "landed" => E[e] # {} /\ S[e] # {}
  BY SettleOnce
<1>5. \A others \in late : \A x \in others : others # rows /\ ~x.replay => E[x.ev] = {}
  BY SettleOnce
<1> HIDE DEF E, S
<1>6. KeysHeld'
  BY <1>1 DEF LogInv, KeysHeld, memory
<1>7. CopiesKnown'
  BY <1>1, <1>3 DEF LogInv, CopiesKnown, memory
<1>8. RequestsFit'
  BY <1>1 DEF LogInv, RequestsFit, RequestFits, Unstamped, memory
<1>9. StoredOnce'
  <2>1. CASE events' = E /\ states' = S
    BY <1>1, <1>3, <1>4, <2>1 DEF LogInv, StoredOnce, memory, ghosts
  <2>2. CASE UNCHANGED <<events, states>>
    BY <1>1, <2>2 DEF LogInv, StoredOnce, memory, ghosts
  <2> QED
    BY <1>1, <2>1, <2>2
<1>10. LateBlocked'
  BY <1>1, <1>5 DEF LogInv, LateBlocked, memory
<1>11. TypeOK'
  BY <1>1, <1>2 DEF LogInv, TypeOK, memory, ghosts
<1> QED
  BY <1>6, <1>7, <1>8, <1>9, <1>10, <1>11 DEF LogInv

LEMMA RestartKeepsLog ==
    ASSUME LogInv, Restart
    PROVE  LogInv'
<1>1. PICK sent \in SUBSET {b \in Batch : req[b].pc = "insert"} :
         late' = late \cup {Rows(req[b]) : b \in sent}
  BY DEF Restart
<1>2. /\ faults < MaxFaults /\ warm /\ faults' = faults + 1
      /\ failed' = failed \cup UNION {req[b].evs : b \in {c \in Batch : req[c].pc \in {"insert", "landed"}}}
      /\ installs' = [i \in Installation |-> Unknown]
      /\ inFlight' = [e \in Event |-> Free]
      /\ creating' = [i \in Installation |-> <<>>]
      /\ req' = [b \in Batch |-> Idle]
      /\ warm' = FALSE
      /\ UNCHANGED <<events, states, clock, arrivals, answered>>
  BY DEF Restart
<1>3. ASSUME NEW b \in sent
      PROVE  /\ Rows(req[b]) \subseteq SentRows
             /\ \A x \in Rows(req[b]) : ~x.replay =>
                   events[x.ev] = {} /\ x.received # 0 /\ inFlight[x.ev].by = b
             /\ \A x, y \in Rows(req[b]) : x.ev = y.ev => x = y
  BY InsertFacts
<1>4. \A b \in Batch : req'[b] = Idle
  BY <1>2
<1>5. Free.by = Nobody /\ Free \in Flights /\ \A e \in Event : inFlight'[e] = Free
  BY <1>2, TimeIsNat DEF Free, Flights
<1>6. KeysHeld'
  BY <1>4, <1>5, IdleFacts, ShapeAssumption DEF KeysHeld, Sending
<1>7. CopiesKnown'
  BY <1>4, IdleFacts DEF CopiesKnown
<1>8. /\ \A b \in Batch : RequestFits(b)'
      /\ Unstamped' = {}
  BY <1>4, IdleFacts DEF RequestFits, Stamped, Sending, Unstamped
<1>9. RequestsFit'
  <2>1. clock + Cardinality(Unstamped) <= arrivals /\ clock \in Nat /\ Cardinality(Unstamped) \in Nat
        /\ arrivals \in Nat
    <3>1. Cardinality(Unstamped) \in Nat
      BY ShapeAssumption, FS_Subset, FS_CardinalityType DEF Unstamped
    <3> QED
      BY <3>1, TimeIsNat, ShapeAssumption DEF LogInv, TypeOK, RequestsFit
  <2>2. Cardinality(Unstamped') = 0
    BY <1>8, FS_EmptySet
  <2> QED
    BY <1>2, <1>8, <2>1, <2>2 DEF RequestsFit
<1>10. StoredOnce'
  BY <1>2, <1>4, IdleFacts DEF LogInv, StoredOnce
<1>11. LateBlocked'
  <2>1. \A others \in late : \A y \in others : ~y.replay =>
           inFlight[y.ev].by = Blocked /\ events[y.ev] = {} /\ y.received # 0
    BY <1>2 DEF LogInv, LateBlocked
  <2>2. \A some, others \in late : \A x \in some, y \in others :
           ~x.replay /\ ~y.replay /\ y.ev = x.ev => others = some /\ x = y
    BY DEF LogInv, LateBlocked
  <2>3. \A b \in sent : b # Blocked
    BY ShapeAssumption
  <2>4. \A some \in late' : some \in late \/ \E b \in sent : some = Rows(req[b])
    BY <1>1
  <2>5. \A some \in late' : \A x \in some : ~x.replay => events[x.ev] = {} /\ x.received # 0
    BY <1>3, <2>1, <2>4
  <2>6. ASSUME NEW some \in late', NEW others \in late', NEW x \in some, NEW y \in others,
               ~x.replay, ~y.replay, y.ev = x.ev
        PROVE  others = some /\ x = y
    <3>1. CASE some \in late /\ others \in late
      BY <2>2, <2>6, <3>1
    <3>2. ASSUME NEW b \in sent, some = Rows(req[b]) PROVE others = some /\ x = y
      <4>1. inFlight[x.ev].by = b
        BY <1>3, <2>6, <3>2
      <4>2. others \notin late
        BY <2>1, <2>3, <2>6, <4>1
      <4>3. PICK c \in sent : others = Rows(req[c])
        BY <2>4, <4>2
      <4>4. inFlight[y.ev].by = c
        BY <1>3, <2>6, <4>3
      <4> QED
        BY <1>3, <2>6, <3>2, <4>1, <4>3, <4>4
    <3>3. ASSUME NEW b \in sent, others = Rows(req[b]) PROVE others = some /\ x = y
      <4>1. inFlight[y.ev].by = b
        BY <1>3, <2>6, <3>3
      <4>2. some \notin late
        BY <2>1, <2>3, <2>6, <4>1
      <4>3. PICK c \in sent : some = Rows(req[c])
        BY <2>4, <4>2
      <4> QED
        BY <3>2, <4>3
    <3> QED
      BY <2>4, <3>1, <3>2, <3>3
  <2> QED
    BY <1>2, <2>5, <2>6 DEF LateBlocked
<1>12. TypeOK'
  <2>1. \A rows \in late' : rows \subseteq SentRows
    BY <1>1, <1>3 DEF LogInv, TypeOK
  <2>2. inFlight' \in [Event -> Flights]
    BY <1>2, <1>5
  <2>3. creating' \in [Installation -> Seq(Batch)]
    BY <1>2
  <2>4. req' \in [Batch -> Requests]
    BY <1>2, IdleFacts
  <2>5. installs' \in [Installation -> Event \cup {None, Unknown}]
    BY <1>2
  <2>6. failed' \subseteq Event
    <3>1. \A b \in Batch : req[b].evs \subseteq Event
      BY RequestFacts DEF LogInv, TypeOK
    <3> QED
      BY <1>2, <3>1 DEF LogInv, TypeOK
  <2>7. faults' \in 0 .. MaxFaults
    BY <1>2, ShapeAssumption DEF LogInv, TypeOK
  <2> QED
    BY <1>2, <2>1, <2>2, <2>3, <2>4, <2>5, <2>6, <2>7 DEF LogInv, TypeOK
<1> QED
  BY <1>6, <1>7, <1>9, <1>10, <1>11, <1>12 DEF LogInv

LEMMA InitLog == Init => LogInv
<1> SUFFICES ASSUME Init PROVE LogInv
  OBVIOUS
<1>1. \A b \in Batch : req[b] = Idle
  BY DEF Init
<1>2. Free.by = Nobody /\ Free \in Flights /\ \A e \in Event : inFlight[e] = Free
  BY TimeIsNat DEF Init, Free, Flights
<1>3. TypeOK
  <2>1. /\ events \in [Event -> SUBSET StoredRows] /\ states \in [Event -> SUBSET Time]
        /\ late = {} /\ installs \in [Installation -> Event \cup {None, Unknown}]
    BY DEF Init
  <2>2. inFlight \in [Event -> Flights] /\ creating \in [Installation -> Seq(Batch)]
    BY <1>2 DEF Init
  <2>3. req \in [Batch -> Requests]
    BY IdleFacts DEF Init
  <2>4. /\ clock \in Time /\ warm \in BOOLEAN /\ arrivals \in 0 .. MaxArrivals
        /\ faults \in 0 .. MaxFaults /\ answered = {} /\ failed = {}
    <3>1. MaxArrivals \in Nat /\ MaxFaults \in Nat
      BY ShapeAssumption
    <3>2. /\ clock = 0 /\ warm = FALSE /\ arrivals = 0 /\ faults = 0
          /\ answered = {} /\ failed = {}
      BY DEF Init
    <3>3. 0 \in 0 .. MaxArrivals /\ 0 \in 0 .. MaxFaults
      BY <3>1
    <3>4. FALSE \in BOOLEAN /\ 0 \in Time
      BY <3>3 DEF Time
    <3> QED
      BY <3>2, <3>3, <3>4
  <2> QED
    BY <2>1, <2>2, <2>3, <2>4 DEF TypeOK
<1>4. RequestsFit
  <2>1. \A b \in Batch : RequestFits(b)
    BY <1>1, IdleFacts DEF RequestFits, Stamped, Sending
  <2>2. Unstamped = {}
    BY <1>1, IdleFacts DEF Unstamped
  <2>3. Cardinality(Unstamped) = 0
    BY <2>2, FS_EmptySet
  <2> QED
    BY <2>1, <2>3 DEF Init, RequestsFit
<1>5. KeysHeld
  BY <1>1, <1>2, IdleFacts, ShapeAssumption DEF KeysHeld, Sending
<1>6. CopiesKnown
  BY <1>1, IdleFacts DEF CopiesKnown
<1>7. StoredOnce /\ LateBlocked
  BY <1>1, IdleFacts DEF Init, StoredOnce, LateBlocked
<1> QED
  BY <1>3, <1>4, <1>5, <1>6, <1>7 DEF LogInv

LEMMA LogInductive == LogInv /\ [Next]_vars => LogInv'
<1> SUFFICES ASSUME LogInv, [Next]_vars PROVE LogInv'
  OBVIOUS
<1>1. CASE UNCHANGED vars
  <2>1. TypeOK'
    BY <1>1 DEF LogInv, TypeOK, vars
  <2> QED
    BY <1>1, <2>1 DEF LogInv, RequestsFit, RequestFits, Unstamped, KeysHeld, CopiesKnown,
                      StoredOnce, LateBlocked, vars
<1>2. ASSUME NEW b \in Batch, Arrive(b) \/ Work(b) \/ ReadFails(b) \/ InsertFails(b)
      PROVE  LogInv'
  BY <1>2, ArriveKeepsLog, ReadInstallsKeepsLog, CacheInstallsKeepsLog, TakeLockKeepsLog,
     RecacheKeepsLog, ResumeKeepsLog, LookupKeepsLog, LandKeepsLog, AcknowledgeKeepsLog,
     ReadFailsKeepsLog, InsertFailsKeepsLog DEF Work
<1>3. ASSUME NEW rows \in late, Settle(rows) PROVE LogInv'
  BY <1>3, SettleKeepsLog
<1>4. ASSUME NEW e \in Event, Unblock(e) PROVE LogInv'
  BY <1>4, UnblockKeepsLog
<1>5. ASSUME NEW i \in Installation, Evict(i) PROVE LogInv'
  BY <1>5, EvictKeepsLog
<1>6. CASE Restart
  BY <1>6, RestartKeepsLog
<1>7. CASE WarmUp
  BY <1>7, WarmUpKeepsLog
<1> QED
  BY <1>1, <1>2, <1>3, <1>4, <1>5, <1>6, <1>7 DEF Next

\* Keys are held from the lookup to the acknowledgement and blocked after a failure,
\* so that the copies of an event never reach the store as two new rows.
THEOREM LogInvariance == Spec => []LogInv
<1>1. Init => LogInv
  BY InitLog
<1>2. LogInv /\ [Next]_vars => LogInv'
  BY LogInductive
<1> QED
  BY <1>1, <1>2, PTL DEF Spec

\* The store, the in-memory tables and the requests keep their types.
THEOREM TypeCorrect == Spec => []TypeOK
<1>1. LogInv => TypeOK
  BY DEF LogInv
<1> QED
  BY <1>1, LogInvariance, PTL

\* An event a client was told is stored also has its installation state.
THEOREM AnsweredStored == Spec => []AnsweredHaveState
<1>1. LogInv => AnsweredHaveState
  BY DEF LogInv, TypeOK, StoredOnce, AnsweredHaveState
<1> QED
  BY <1>1, LogInvariance, PTL

-----------------------------------------------------------------------------
(* Ingest keeps what the event log promises.                               *)

\* The time an event is stored under is that of its one row.
LEMMA LogTimeFacts ==
    ASSUME LogInv, NEW e \in Event
    PROVE  LogTime(e) = 0 <=> events[e] = {}
<1>1. CASE events[e] # {}
  <2>1. PICK x \in events[e] : x.received # 0
    BY <1>1 DEF LogInv, StoredOnce
  <2>2. events[e] = {x}
    BY <2>1 DEF LogInv, StoredOnce
  <2>3. Cardinality(events[e]) = 1
    BY <2>2, FS_Singleton
  <2>4. (CHOOSE y \in events[e] : TRUE) = x
    BY <2>2
  <2> QED
    BY <1>1, <2>1, <2>3, <2>4 DEF LogTime
<1>2. CASE events[e] = {}
  BY <1>2 DEF LogTime
<1> QED
  BY <1>1, <1>2

\* Every step keeps the stored rows, and an answer is about stored events.
LEMMA StepsAppend ==
    ASSUME LogInv, [Next]_vars
    PROVE  /\ \A e \in Event : events[e] # {} => events'[e] = events[e]
           /\ \/ answered' = answered
              \/ /\ events' = events
                 /\ \E es \in SUBSET {e \in Event : events[e] # {}} : answered' = answered \cup es
<1>1. CASE UNCHANGED vars
  BY <1>1 DEF vars
<1>2. ASSUME NEW b \in Batch, Arrive(b) \/ Work(b) \/ ReadFails(b)
      PROVE  /\ \A e \in Event : events[e] # {} => events'[e] = events[e]
             /\ \/ answered' = answered
                \/ /\ events' = events
                   /\ \E es \in SUBSET {e \in Event : events[e] # {}} : answered' = answered \cup es
  <2>1. CASE Land(b)
    <3>1. req[b].pc = "insert" /\ events' = EventsWith(Rows(req[b])) /\ answered' = answered
      BY <2>1 DEF Land, ghosts
    <3>2. \A e \in Event : events[e] # {} => EventsWith(Rows(req[b]))[e] = events[e]
      BY <3>1, InsertOnce
    <3> QED
      BY <3>1, <3>2
  <2>2. CASE Acknowledge(b)
    <3>1. req[b].pc = "landed" /\ events' = events /\ answered' = answered \cup req[b].evs
      BY <2>2 DEF Acknowledge, store
    <3>2. req[b].evs \in SUBSET {e \in Event : events[e] # {}}
      <4>1. req[b].evs \subseteq Event
        BY RequestFacts DEF LogInv, TypeOK
      <4> QED
        BY <3>1, <4>1 DEF LogInv, StoredOnce
    <3> QED
      BY <3>1, <3>2
  <2>3. CASE \/ Arrive(b) \/ ReadFails(b) \/ ReadInstalls(b) \/ CacheInstalls(b) \/ TakeLock(b)
             \/ Recache(b) \/ Resume(b) \/ Lookup(b)
    <3>1. UNCHANGED <<store, ghosts>>
      BY <2>3 DEF Arrive, ReadFails, ReadInstalls, CacheInstalls, TakeLock, Recache, Resume, Lookup
    <3> QED
      BY <3>1 DEF store, ghosts
  <2> QED
    BY <1>2, <2>1, <2>2, <2>3 DEF Work
<1>3. ASSUME NEW b \in Batch, InsertFails(b)
      PROVE  /\ \A e \in Event : events[e] # {} => events'[e] = events[e]
             /\ answered' = answered
  <2>1. answered' = answered
    BY <1>3 DEF InsertFails
  <2>2. CASE events' = events
    BY <2>1, <2>2
  <2>3. CASE req[b].pc = "insert" /\ events' = EventsWith(Rows(req[b]))
    <3>1. \A e \in Event : events[e] # {} => EventsWith(Rows(req[b]))[e] = events[e]
      BY <2>3, InsertOnce
    <3> QED
      BY <2>1, <2>3, <3>1
  <2> QED
    BY <1>3, <2>2, <2>3 DEF InsertFails, Unacknowledged, store
<1>4. ASSUME NEW rows \in late, Settle(rows)
      PROVE  /\ \A e \in Event : events[e] # {} => events'[e] = events[e]
             /\ answered' = answered
  <2>1. \A e \in Event : events[e] # {} => EventsWith(rows)[e] = events[e]
    BY SettleOnce
  <2> QED
    BY <1>4, <2>1 DEF Settle, ghosts
<1>5. CASE (\E e \in Event : Unblock(e)) \/ (\E i \in Installation : Evict(i)) \/ Restart \/ WarmUp
  BY <1>5 DEF Unblock, Evict, Restart, WarmUp, store, ghosts
<1> QED
  BY <1>1, <1>2, <1>3, <1>4, <1>5 DEF Next

\* An event is stored once whatever copies of it are sent, and "accepted" or
\* "duplicate" is only ever said of a stored event (store_ in routes/analytics-ingest).
THEOREM LogImplementation == Spec => ImplementsLog
<1> DEFINE log == [e \in Event |-> LogTime(e)]
<1>1. Init => Log!Init
  <2> SUFFICES ASSUME Init PROVE Log!Init
    OBVIOUS
  <2>1. \A e \in Event : LogTime(e) = 0
    BY DEF Init, LogTime
  <2> QED
    BY <2>1 DEF Init, Log!Init
<1>2. LogInv /\ LogInv' /\ [Next]_vars => [Log!Next]_(Log!vars)
  <2> SUFFICES ASSUME LogInv, LogInv', [Next]_vars PROVE [Log!Next]_(Log!vars)
    OBVIOUS
  <2>1. \A e \in Event : events[e] # {} => events'[e] = events[e]
    BY StepsAppend
  <2>2. \A e \in Event : events'[e] = events[e] => LogTime(e)' = LogTime(e)
    BY DEF LogTime
  <2>3. \A e \in Event : LogTime(e) # 0 <=> events[e] # {}
    BY LogTimeFacts
  <2>4. \A e \in Event : log[e] # 0 => log'[e] = log[e]
    BY <2>1, <2>2, <2>3
  <2>5. CASE answered' = answered
    <3>1. CASE log' = log
      BY <2>5, <3>1 DEF Log!vars
    <3>2. CASE log' # log
      <4>1. Log!Store
        BY <2>4, <2>5, <3>2 DEF Log!Store
      <4> QED
        BY <4>1 DEF Log!Next
    <3> QED
      BY <3>1, <3>2
  <2>6. CASE /\ events' = events
             /\ \E es \in SUBSET {e \in Event : events[e] # {}} : answered' = answered \cup es
    <3>1. log' = log
      BY <2>2, <2>6
    <3>2. {e \in Event : events[e] # {}} = {e \in Event : log[e] # 0}
      BY <2>3
    <3>3. \E es \in SUBSET {e \in Event : log[e] # 0} : answered' = answered \cup es
      BY <2>6, <3>2
    <3>4. Log!Answer
      BY <3>1, <3>3 DEF Log!Answer
    <3> QED
      BY <3>4 DEF Log!Next
  <2> QED
    BY <2>5, <2>6, StepsAppend
<1> QED
  BY <1>1, <1>2, LogInvariance, PTL DEF Spec, ImplementsLog, Log!Spec

-----------------------------------------------------------------------------
(* Install ages agree where no insert has failed.                          *)

\* The store's answer about an installation depends on its own events only.
LEMMA StampsKept ==
    ASSUME NEW i, \A e \in Event : InstallationOf[e] = i => states'[e] = states[e]
    PROVE  Stamps(i)' = Stamps(i) /\ Install(i)' = Install(i)
<1>1. \A e \in {x \in Qualifying : InstallationOf[x] = i} : states'[e] = states[e]
  BY ShapeAssumption
<1>2. StampsOf(i, states') = StampsOf(i, states)
  BY <1>1 DEF StampsOf
<1> QED
  BY <1>2 DEF Stamps, Install

\* The first stamp of an installation is a time some event of it is stored under.
LEMMA FirstStamp ==
    ASSUME TypeOK, NEW i, Stamps(i) # {}
    PROVE  \E e \in Event : InstallationOf[e] = i /\ FirstOf(Stamps(i))[1] \in states[e]
<1>1. FirstOf(Stamps(i)) \in Stamps(i)
  BY InstallFacts, FirstOfIsFirst
<1>2. Stamps(i) = StampsOf(i, states) /\ states \in [Event -> SUBSET Time]
  BY DEF Stamps, TypeOK
<1>3. \A x \in StampsOf(i, states) : \E e \in Qualifying : InstallationOf[e] = i /\ x[1] \in states[e]
  BY <1>2, StampsFacts
<1> QED
  BY <1>1, <1>2, <1>3, ShapeAssumption

\* An installation none of whose events failed before or in the step.
LEMMA CleanBefore ==
    ASSUME failed \subseteq failed', NEW i, Clean(i)'
    PROVE  Clean(i)
BY DEF Clean

\* A step of other batches, or of the store for other installations, keeps what a
\* batch knows of a record and the locks it holds.
LEMMA OtherRecord ==
    ASSUME AgesInv, NEW i \in Installation, Clean(i), NEW c \in Batch,
           \A e \in Event : InstallationOf[e] = i => states'[e] = states[e],
           req'[c].pc = req[c].pc, req'[c].evs = req[c].evs, req'[c].recs = req[c].recs,
           req'[c].create = req[c].create, req'[c].received = req[c].received,
           req'[c].dup = req[c].dup,
           creating[i] # <<>> /\ Head(creating[i]) = c =>
              creating'[i] # <<>> /\ Head(creating'[i]) = c
    PROVE  RecordFits(i, c)'
<1>1. Stamps(i)' = Stamps(i) /\ Install(i)' = Install(i)
  BY StampsKept
<1>2. QualifyingOf(req[c], i)' = QualifyingOf(req[c], i)
  BY DEF QualifyingOf
<1>3. Created(req[c], i)' = Created(req[c], i)
  BY DEF Created, QualifyingOf, StampOf
<1>4. RecordFits(i, c)
  BY DEF AgesInv, RecordsAgree
<1>5. req'[c].pc \notin {"idle", "read"} => req'[c].recs[i] \in {Unknown, None, Install(i)'}
  BY <1>1, <1>4 DEF RecordFits
<1>6. QualifyingOf(req[c], i)' # {} =>
          /\ req'[c].pc = "lock" /\ req'[c].recs[i] = None => i \in req'[c].create
          /\ req'[c].pc \in Stamped =>
                IF req'[c].recs[i] = None
                THEN /\ i \in req'[c].create /\ creating'[i] # <<>> /\ Head(creating'[i]) = c
                     /\ IF req'[c].pc = "landed" THEN Install(i)' = Created(req[c], i)' ELSE Stamps(i)' = {}
                ELSE /\ Stamps(i)' # {} /\ FirstOf(Stamps(i)')[1] < req'[c].received
  BY <1>1, <1>2, <1>3, <1>4 DEF RecordFits
<1> QED
  BY <1>5, <1>6 DEF RecordFits, Stamped

\* Likewise what it knows of copies.
LEMMA OtherCopy ==
    ASSUME AgesInv, NEW e \in Event, Clean(InstallationOf[e]), NEW c \in Batch,
           states[e] \subseteq states'[e],
           req'[c].pc = req[c].pc, req'[c].evs = req[c].evs,
           req'[c].received = req[c].received, req'[c].dup = req[c].dup,
           req'[c].wait[e] = req[c].wait[e] \/
              (req'[c].wait[e].status = "stored" => req'[c].wait[e].received \in states'[e]),
           inFlight'[e].by = c => inFlight'[e] = inFlight[e]
    PROVE  CopyFits(e, c)'
<1>1. CopyFits(e, c)
  BY DEF AgesInv, CopiesAgree
<1>2. StampOf(req[c], e)' = StampOf(req[c], e)
  BY DEF StampOf
<1>3. inFlight'[e].by = c => inFlight'[e].received = StampOf(req[c], e)'
  BY <1>1, <1>2 DEF CopyFits
<1>4. req'[c].pc = "landed" /\ e \in req'[c].evs => StampOf(req[c], e)' \in states'[e]
  BY <1>1, <1>2 DEF CopyFits
<1>5. /\ req'[c].dup[e] # 0 => req'[c].dup[e] \in states'[e]
      /\ req'[c].wait[e].status = "stored" => req'[c].wait[e].received \in states'[e]
  BY <1>1 DEF CopyFits
<1> QED
  BY <1>3, <1>4, <1>5 DEF CopyFits

\* An idle batch knows nothing.
LEMMA IdleFits ==
    ASSUME NEW b \in Batch, req'[b] = Idle, NEW i \in Installation, NEW e \in Event,
           inFlight'[e].by # b
    PROVE  RecordFits(i, b)' /\ CopyFits(e, b)'
<1>1. QualifyingOf(req[b], i)' = {}
  BY IdleFacts DEF QualifyingOf
<1> QED
  BY <1>1, IdleFacts DEF RecordFits, CopyFits

\* A step that leaves the store alone, but for installations with a failed insert.
LEMMA MemoryStep ==
    ASSUME AgesInv, LogInv', failed \subseteq failed', clock \in Nat, clock' \in Nat, clock <= clock',
           \A i \in Installation : Clean(i)' => \A e \in Event : InstallationOf[e] = i =>
              states'[e] = states[e] /\ events'[e] = events[e],
           \A rows \in late' : \A x \in rows : x.ev \in failed',
           \A b \in Batch : req'[b].received <= clock',
           \A i \in Installation : Clean(i)' /\ Install(i)' = Install(i) =>
              installs'[i] \in {Unknown, None, Install(i)},
           \A i \in Installation, b \in Batch : Clean(i)' => RecordFits(i, b)',
           \A e \in Event, b \in Batch : Clean(InstallationOf[e])' => CopyFits(e, b)'
    PROVE  AgesInv'
<1>1. \A e \in Event : InstallationOf[e] \in Installation
  BY ShapeAssumption
<1>2. \A i \in Installation : Clean(i)' => Clean(i)
  BY CleanBefore
<1>3. \A i \in Installation : Clean(i)' => Install(i)' = Install(i)
  BY StampsKept
<1>4. \A e \in Event : Clean(InstallationOf[e])' =>
         states'[e] = states[e] /\ events'[e] = events[e]
  BY <1>1
<1>5. TimesPast'
  <2>1. ASSUME NEW e \in Event, Clean(InstallationOf[e])', NEW t \in states'[e]
        PROVE  t <= clock'
    <3>1. t \in states[e] /\ t <= clock
      BY <1>1, <1>2, <1>4, <2>1 DEF AgesInv, TimesPast
    <3>2. t \in Nat
      BY <3>1, TimeIsNat DEF AgesInv, LogInv, TypeOK
    <3> QED
      BY <3>1, <3>2
  <2> QED
    BY <2>1 DEF TimesPast
<1>6. CopiesAgree'
  BY <1>1, <1>2, <1>4 DEF AgesInv, CopiesAgree
<1>7. RecordsAgree'
  BY <1>3 DEF RecordsAgree
<1>8. AgesFromInstall'
  <2> SUFFICES ASSUME NEW e \in Qualifying, (\A f \in failed' : InstallationOf[f] # InstallationOf[e]),
                      NEW x \in events'[e]
               PROVE  x.base = Install(InstallationOf[e])'
    BY DEF AgesFromInstall
  <2>1. e \in Event
    BY ShapeAssumption
  <2>2. Clean(InstallationOf[e])'
    BY DEF Clean
  <2>3. Install(InstallationOf[e])' = Install(InstallationOf[e]) /\ x \in events[e]
    BY <1>1, <1>3, <1>4, <2>1, <2>2
  <2>4. \A f \in failed : InstallationOf[f] # InstallationOf[e]
    OBVIOUS
  <2> QED
    BY <2>3, <2>4 DEF AgesInv, AgesFromInstall
<1> QED
  BY <1>5, <1>6, <1>7, <1>8 DEF AgesInv

\* A batch that ends passes on the times its events are stored under, and a lock
\* to the next in its chain.
LEMMA EndKeepsAges ==
    ASSUME AgesInv, LogInv', NEW b \in Batch, NEW stored \in BOOLEAN, NEW keys \in {Nobody, Blocked},
           Finish(b, stored, keys), stored => req[b].pc = "landed",
           clock' \in Nat, clock <= clock', failed \subseteq failed',
           \A i \in Installation : Clean(i)' => \A e \in Event : InstallationOf[e] = i =>
              states'[e] = states[e] /\ events'[e] = events[e],
           \A rows \in late' : \A x \in rows : x.ev \in failed',
           \A i \in Installation : Clean(i)' /\ Install(i)' = Install(i) =>
              installs'[i] \in {Unknown, None, Install(i)}
    PROVE  AgesInv'
<1>1. /\ req'[b] = Idle
      /\ \A c \in Batch \ {b} :
            /\ req'[c].pc = req[c].pc /\ req'[c].evs = req[c].evs /\ req'[c].recs = req[c].recs
            /\ req'[c].create = req[c].create /\ req'[c].received = req[c].received
            /\ req'[c].dup = req[c].dup
      /\ \A e \in Event : IF inFlight[e].by = b THEN inFlight'[e].by = keys
                          ELSE inFlight'[e] = inFlight[e]
      /\ \A i \in Installation : creating[i] # <<>> /\ Head(creating[i]) # b =>
            creating'[i] = creating[i]
  BY FinishFacts DEF AgesInv, LogInv
<1>2. ASSUME NEW c \in Batch \ {b}, NEW e \in Event
      PROVE  IF req[c].wait[e].status = "waiting" /\ req[c].wait[e].by = b
             THEN /\ req'[c].wait[e].status = IF stored THEN "stored" ELSE "failed"
                  /\ req'[c].wait[e].received = inFlight[e].received
             ELSE req'[c].wait[e] = req[c].wait[e]
  BY FinishFacts DEF AgesInv, LogInv
<1>3. keys \notin Batch
  BY ShapeAssumption
<1>4. \A i \in Installation : Clean(i)' => Clean(i)
  BY CleanBefore
<1>5. ASSUME NEW i \in Installation, NEW c \in Batch, Clean(i)'
      PROVE  RecordFits(i, c)'
  <2>1. CASE c = b
    <3>1. QualifyingOf(req[c], i)' = {}
      BY <1>1, <2>1, IdleFacts DEF QualifyingOf
    <3> QED
      BY <1>1, <2>1, <3>1, IdleFacts DEF RecordFits
  <2>2. CASE c # b
    <3>1. \A e \in Event : InstallationOf[e] = i => states'[e] = states[e]
      BY <1>5
    <3>2. creating[i] # <<>> /\ Head(creating[i]) = c =>
             creating'[i] # <<>> /\ Head(creating'[i]) = c
      BY <1>1, <2>2
    <3> QED
      BY <1>1, <1>4, <1>5, <2>2, <3>1, <3>2, OtherRecord
  <2> QED
    BY <2>1, <2>2
<1>6. ASSUME NEW e \in Event, NEW c \in Batch, Clean(InstallationOf[e])'
      PROVE  CopyFits(e, c)'
  <2>1. InstallationOf[e] \in Installation /\ Clean(InstallationOf[e]) /\ states'[e] = states[e]
    BY <1>4, <1>6, ShapeAssumption
  <2>2. CASE c = b
    BY <1>1, <1>3, <2>2, IdleFits, <2>1
  <2>3. CASE c # b
    <3>1. req[c].wait[e].status = "waiting" /\ req[c].wait[e].by = b /\ stored =>
             inFlight[e].received \in states'[e]
      <4> SUFFICES ASSUME req[c].wait[e].status = "waiting", req[c].wait[e].by = b, stored
                   PROVE  inFlight[e].received \in states'[e]
        OBVIOUS
      <4>1. inFlight[e].by = b /\ e \in req[b].evs
        BY DEF AgesInv, LogInv, CopiesKnown, KeysHeld
      <4>2. CopyFits(e, b)
        BY <2>1 DEF AgesInv, CopiesAgree
      <4> QED
        BY <2>1, <4>1, <4>2 DEF CopyFits
    <3>2. \/ req'[c].wait[e] = req[c].wait[e]
          \/ req'[c].wait[e].status = "stored" => req'[c].wait[e].received \in states'[e]
      BY <1>2, <2>3, <3>1
    <3>3. inFlight'[e].by = c => inFlight'[e] = inFlight[e]
      BY <1>1, <1>3
    <3> QED
      BY <1>1, <2>1, <2>3, <3>2, <3>3, OtherCopy
  <2> QED
    BY <2>2, <2>3
<1>7. clock \in Nat /\ clock' \in Nat /\ clock <= clock'
  BY TimeIsNat DEF AgesInv, LogInv, TypeOK
<1>8. \A c \in Batch : req'[c].received <= clock'
  <2>1. \A c \in Batch : req[c].received <= clock /\ req[c].received \in Nat
    BY RequestFacts, TimeIsNat DEF AgesInv, TimesPast, LogInv, TypeOK
  <2> QED
    BY <1>1, <1>7, <2>1, IdleFacts
<1> QED
  BY <1>5, <1>6, <1>7, <1>8, MemoryStep

LEMMA RefuseKeepsAges ==
    ASSUME AgesInv, LogInv', NEW b \in Batch, Refuse(b),
           UNCHANGED <<events, states, late, failed, installs, clock>>
    PROVE  AgesInv'
<1>1. Finish(b, FALSE, Nobody)
  BY DEF Refuse
<1>2. /\ \A rows \in late' : \A x \in rows : x.ev \in failed'
      /\ \A i \in Installation : Clean(i)' => Clean(i)
  BY DEF AgesInv, TimesPast, Clean
<1>3. clock' \in Nat /\ clock <= clock'
  BY TimeIsNat DEF AgesInv, LogInv, TypeOK
<1>4. \A i \in Installation : Clean(i)' /\ Install(i)' = Install(i) =>
         installs'[i] \in {Unknown, None, Install(i)}
  BY <1>2 DEF AgesInv, RecordsAgree
<1>5. \A i \in Installation : Clean(i)' => \A e \in Event : InstallationOf[e] = i =>
         states'[e] = states[e] /\ events'[e] = events[e]
  OBVIOUS
<1>6. failed \subseteq failed'
  OBVIOUS
<1> QED
  BY <1>1, <1>2, <1>3, <1>4, <1>5, <1>6, EndKeepsAges

\* A batch about to send its qualifying events of an installation: its record is
\* older, or the batch creates it and holds the lock.
Ready(i, b, r) ==
    /\ r.recs[i] \in {Unknown, None, Install(i)}
    /\ QualifyingOf(r, i) # {} =>
          IF r.recs[i] = None
          THEN i \in r.create /\ creating[i] # <<>> /\ Head(creating[i]) = b /\ Stamps(i) = {}
          ELSE Stamps(i) # {} /\ FirstOf(Stamps(i))[1] < r.received

\* The loop over concurrent copies keeps install ages.
LEMMA CheckKeepsAges ==
    ASSUME AgesInv, LogInv', NEW b \in Batch, NEW r \in Requests, CheckCopies(b, r),
           UNCHANGED <<events, states, late, failed>>, clock' \in Nat, clock <= clock',
           req[b].pc \notin Sending \cup {"idle"}, r.evs = req[b].evs, r.received <= clock',
           \A e \in Event : Clean(InstallationOf[e]) /\ r.dup[e] # 0 => r.dup[e] \in states[e],
           \A i \in Installation : Clean(i) => Ready(i, b, r),
           \A i \in Installation : Clean(i) => installs'[i] \in {Unknown, None, Install(i)}
    PROVE  AgesInv'
<1>1. \A i \in Installation : Clean(i)' <=> Clean(i)
  BY DEF Clean
<1>2. CASE Refuse(b)
  <2>1. Finish(b, FALSE, Nobody)
    BY <1>2 DEF Refuse
  <2>2. \A rows \in late' : \A x \in rows : x.ev \in failed'
    BY DEF AgesInv, TimesPast
  <2> QED
    BY <1>1, <2>1, <2>2, EndKeepsAges
<1>3. CASE Awaits(b, r) \/ Holds(b, r)
  <2>1. /\ \A c \in Batch \ {b} : req'[c] = req[c]
        /\ creating' = creating
        /\ req'[b].evs = r.evs /\ req'[b].recs = r.recs /\ req'[b].received = r.received
        /\ req'[b].create = r.create /\ req'[b].dup = r.dup
        /\ req'[b].pc \in {"await", "lookup", "insert"}
        /\ \A e \in Event : req'[b].wait[e].status # "stored"
    BY <1>3 DEF Awaits, Holds, Alike
  <2>2. \A e \in Event : \/ inFlight'[e] = inFlight[e]
                         \/ /\ inFlight'[e].by = b /\ r.dup[e] = 0
                            /\ inFlight'[e].received = r.received
    BY <1>3 DEF Awaits, Holds
  <2>3. \A e \in Event : inFlight[e].by # b
    BY DEF AgesInv, LogInv, KeysHeld
  <2>4. ASSUME NEW i \in Installation, NEW c \in Batch, Clean(i)
        PROVE  RecordFits(i, c)'
    <3>1. CASE c = b
      <4>1. Ready(i, b, r) /\ Stamps(i)' = Stamps(i) /\ Install(i)' = Install(i)
        BY <2>4, StampsKept
      <4>2. QualifyingOf(req[b], i)' = QualifyingOf(r, i)
        BY <2>1 DEF QualifyingOf
      <4> QED
        BY <2>1, <3>1, <4>1, <4>2 DEF Ready, RecordFits
    <3>2. CASE c # b
      BY <2>1, <2>4, <3>2, OtherRecord
    <3> QED
      BY <3>1, <3>2
  <2>5. ASSUME NEW e \in Event, NEW c \in Batch, Clean(InstallationOf[e])
        PROVE  CopyFits(e, c)'
    <3>1. CASE c = b
      <4>1. inFlight'[e].by = b => inFlight'[e].received = StampOf(req[b], e)'
        BY <2>1, <2>2, <2>3 DEF StampOf
      <4> QED
        BY <2>1, <2>5, <3>1, <4>1 DEF CopyFits
    <3>2. CASE c # b
      BY <2>1, <2>2, <2>5, <3>2, OtherCopy
    <3> QED
      BY <3>1, <3>2
  <2>6. /\ \A c \in Batch : req'[c].received <= clock'
        /\ clock \in Nat
        /\ \A rows \in late' : \A x \in rows : x.ev \in failed'
    <3>1. clock \in Nat
      BY TimeIsNat DEF AgesInv, LogInv, TypeOK
    <3>2. ASSUME NEW c \in Batch PROVE req'[c].received <= clock'
      <4>1. req[c].received <= clock /\ req[c].received \in Nat
        BY RequestFacts, TimeIsNat DEF AgesInv, TimesPast, LogInv, TypeOK
      <4> QED
        BY <2>1, <3>1, <4>1
    <3> QED
      BY <3>1, <3>2 DEF AgesInv, TimesPast
  <2>7. /\ failed \subseteq failed'
        /\ \A i \in Installation : Clean(i)' => \A e \in Event : InstallationOf[e] = i =>
              states'[e] = states[e] /\ events'[e] = events[e]
        /\ \A i \in Installation : Clean(i)' /\ Install(i)' = Install(i) =>
              installs'[i] \in {Unknown, None, Install(i)}
    BY <1>1
  <2>8. /\ \A i \in Installation, c \in Batch : Clean(i)' => RecordFits(i, c)'
        /\ \A e \in Event, c \in Batch : Clean(InstallationOf[e])' => CopyFits(e, c)'
    BY <2>4, <2>5 DEF Clean
  <2> QED
    BY <2>6, <2>7, <2>8, MemoryStep
<1> QED
  BY <1>2, <1>3, CheckFacts DEF AgesInv, LogInv

\* A step of one batch before it holds any key.
LEMMA MoveKeepsAges ==
    ASSUME AgesInv, LogInv', NEW b \in Batch, UNCHANGED <<events, states, late, inFlight, failed>>,
           clock' \in Nat, clock <= clock',
           req[b].pc \notin Sending, req'[b].pc \notin Sending, req'[b].received <= clock',
           \A c \in Batch \ {b} : req'[c] = req[c],
           \A e \in Event : /\ req'[b].dup[e] = req[b].dup[e] \/ req'[b].dup[e] = 0
                            /\ req'[b].wait[e] = req[b].wait[e] \/ req'[b].wait[e].status = "none",
           \A i \in Installation : creating[i] # <<>> =>
              creating'[i] # <<>> /\ Head(creating'[i]) = Head(creating[i]),
           \A i \in Installation : Clean(i) =>
              RecordFits(i, b)' /\ installs'[i] \in {Unknown, None, Install(i)}
    PROVE  AgesInv'
<1>1. \A e \in Event : inFlight[e].by # b
  BY DEF AgesInv, LogInv, KeysHeld
<1>2. \A i \in Installation : Clean(i)' => Clean(i)
  BY DEF Clean
<1>3. ASSUME NEW i \in Installation, NEW c \in Batch, Clean(i)'
      PROVE  RecordFits(i, c)'
  BY <1>2, <1>3, OtherRecord
<1>4. ASSUME NEW e \in Event, NEW c \in Batch, Clean(InstallationOf[e])'
      PROVE  CopyFits(e, c)'
  <2>1. Clean(InstallationOf[e])
    BY <1>2, <1>4, ShapeAssumption
  <2>2. CASE c = b
    <3>1. CopyFits(e, b)
      BY <2>1 DEF AgesInv, CopiesAgree
    <3> QED
      BY <1>1, <2>2, <3>1 DEF CopyFits, Sending
  <2>3. CASE c # b
    BY <2>1, <2>3, OtherCopy
  <2> QED
    BY <2>2, <2>3
<1>5. \A c \in Batch : req'[c].received <= clock'
  <2>1. \A c \in Batch : req[c].received <= clock /\ req[c].received \in Nat
    BY RequestFacts, TimeIsNat DEF AgesInv, TimesPast, LogInv, TypeOK
  <2>2. clock \in Nat
    BY TimeIsNat DEF AgesInv, LogInv, TypeOK
  <2> QED
    BY <2>1, <2>2
<1>6. /\ failed \subseteq failed' /\ clock \in Nat
      /\ \A i \in Installation : Clean(i)' => \A e \in Event : InstallationOf[e] = i =>
            states'[e] = states[e] /\ events'[e] = events[e]
      /\ \A i \in Installation : Clean(i)' /\ Install(i)' = Install(i) =>
            installs'[i] \in {Unknown, None, Install(i)}
      /\ \A rows \in late' : \A x \in rows : x.ev \in failed'
  BY <1>2, TimeIsNat DEF AgesInv, TimesPast, LogInv, TypeOK
<1> QED
  BY <1>3, <1>4, <1>5, <1>6, MemoryStep

LEMMA ArriveKeepsAges ==
    ASSUME AgesInv, LogInv', NEW b \in Batch, Arrive(b)
    PROVE  AgesInv'
<1>1. PICK evs \in Offers : req' = [req EXCEPT ![b] = [Idle EXCEPT !.pc = "read", !.evs = evs]]
  BY DEF Arrive
<1>2. /\ req[b].pc = "idle"
      /\ UNCHANGED <<store, installs, inFlight, creating, clock, warm, faults, ghosts>>
  BY DEF Arrive
<1>3. /\ req'[b].pc = "read" /\ req'[b].received = 0 /\ \A c \in Batch \ {b} : req'[c] = req[c]
      /\ \A e \in Event : req'[b].dup[e] = 0 /\ req'[b].wait[e].status = "none"
  <2> PICK idle \in Requests : idle = Idle
    BY IdleFacts
  <2>1. idle.received = 0 /\ \A e \in Event : idle.dup[e] = 0 /\ idle.wait[e].status = "none"
    BY IdleFacts
  <2> DEFINE new == [idle EXCEPT !.pc = "read", !.evs = evs]
  <2>2. req'[b] = new /\ \A c \in Batch \ {b} : req'[c] = req[c]
    BY <1>1 DEF AgesInv, LogInv, TypeOK
  <2>3. new.pc = "read" /\ new.received = idle.received /\ new.dup = idle.dup /\ new.wait = idle.wait
    BY DEF Requests
  <2> HIDE DEF new
  <2> QED
    BY <2>1, <2>2, <2>3
<1>4. clock \in Nat /\ clock' = clock /\ 0 <= clock
  BY <1>2, TimeIsNat DEF AgesInv, LogInv, TypeOK
<1>5. ASSUME NEW i \in Installation, Clean(i)
      PROVE  RecordFits(i, b)' /\ installs'[i] \in {Unknown, None, Install(i)}
  <2>1. RecordFits(i, b)'
    BY <1>3 DEF RecordFits, Stamped, Sending
  <2> QED
    BY <1>2, <1>5, <2>1 DEF AgesInv, RecordsAgree
<1> QED
  BY <1>2, <1>3, <1>4, <1>5, MoveKeepsAges DEF store, ghosts, Sending

LEMMA ReadInstallsKeepsAges ==
    ASSUME AgesInv, LogInv', NEW b \in Batch, ReadInstalls(b)
    PROVE  AgesInv'
<1> PICK r \in Requests : r = req[b]
  BY DEF AgesInv, LogInv, TypeOK
<1> PICK recs : recs = InstallRecords(InstallationsOf(r))
  OBVIOUS
<1> PICK missing : missing = {i \in InstallationsOf(r) : ~Cached(i)}
  OBVIOUS
<1> DEFINE new == [r EXCEPT !.pc = "cache", !.recs = recs, !.missing = missing]
<1>1. /\ r.pc = "read" /\ req' = [req EXCEPT ![b] = new]
      /\ UNCHANGED <<store, installs, inFlight, creating, clock, warm, arrivals, faults, ghosts>>
  BY DEF ReadInstalls
<1>2. /\ new.pc = "cache" /\ new.received = r.received /\ new.dup = r.dup /\ new.wait = r.wait
      /\ new.recs = recs
  BY DEF Requests
<1> HIDE DEF new
<1>3. req'[b] = new /\ \A c \in Batch \ {b} : req'[c] = req[c]
  BY <1>1 DEF AgesInv, LogInv, TypeOK
<1>4. clock \in Nat /\ clock' = clock /\ r.received <= clock
  BY <1>1, TimeIsNat DEF AgesInv, LogInv, TypeOK, TimesPast
<1>5. ASSUME NEW i \in Installation, Clean(i)
      PROVE  RecordFits(i, b)' /\ installs'[i] \in {Unknown, None, Install(i)}
  <2>1. installs[i] \in {Unknown, None, Install(i)}
    BY <1>5 DEF AgesInv, RecordsAgree
  <2>2. recs[i] \in {Unknown, None, Install(i)}
    BY <2>1 DEF InstallRecords
  <2>3. Install(i)' = Install(i)
    BY <1>1, StampsKept DEF store
  <2>4. RecordFits(i, b)'
    BY <1>2, <1>3, <2>2, <2>3 DEF RecordFits, Stamped, Sending
  <2> QED
    BY <1>1, <2>1, <2>4
<1> QED
  BY <1>1, <1>2, <1>3, <1>4, <1>5, MoveKeepsAges DEF store, ghosts, Sending

\* The record a batch knows before its received time is taken is older than it.
LEMMA KnownBefore ==
    ASSUME AgesInv, NEW i \in Installation, Clean(i), Install(i) # None
    PROVE  /\ Stamps(i) # {} /\ FirstOf(Stamps(i))[1] < clock + 1
<1>1. Stamps(i) # {}
  BY InstallFacts DEF AgesInv, LogInv
<1>2. PICK e \in Event : InstallationOf[e] = i /\ FirstOf(Stamps(i))[1] \in states[e]
  BY <1>1, FirstStamp DEF AgesInv, LogInv
<1>3. FirstOf(Stamps(i))[1] <= clock /\ FirstOf(Stamps(i))[1] \in Time /\ clock \in Time
  BY <1>2 DEF AgesInv, TimesPast, LogInv, TypeOK
<1>4. \A t, n \in Nat : t <= n => t < n + 1
  OBVIOUS
<1>5. FirstOf(Stamps(i))[1] \in Nat /\ clock \in Nat
  BY <1>3, TimeIsNat
<1> QED
  BY <1>1, <1>3, <1>4, <1>5

LEMMA CacheInstallsKeepsAges ==
    ASSUME AgesInv, LogInv', NEW b \in Batch, CacheInstalls(b)
    PROVE  AgesInv'
<1> PICK q \in Requests : q = req[b]
  BY DEF AgesInv, LogInv, TypeOK
<1> PICK create : create = ToCreate(q)
  OBVIOUS
<1> DEFINE r == [q EXCEPT !.create = create]
<1>1. create \subseteq Installation
  BY RequestFacts, ShapeAssumption DEF ToCreate, InstallationsOf
<1>2. /\ r \in Requests /\ r.evs = q.evs /\ r.dup = q.dup /\ r.recs = q.recs /\ r.wait = q.wait
      /\ r.create = create /\ r.pc = q.pc /\ r.missing = q.missing /\ r.received = q.received
  BY <1>1 DEF Requests
<1> HIDE DEF r
<1>3. /\ installs' = [i \in Installation |-> IF i \in r.missing THEN r.recs[i] ELSE installs[i]]
      /\ q.pc = "cache"
      /\ UNCHANGED <<store, warm, arrivals, faults, ghosts>>
      /\ \/ create = {} /\ clock' = clock + 1 /\ CheckCopies(b, Stamp(r))
         \/ /\ creating' = [creating EXCEPT ![FirstLock(r.create)] = Append(@, b)]
            /\ req' = [req EXCEPT ![b] = [r EXCEPT !.pc = "lock"]]
            /\ UNCHANGED <<inFlight, clock>>
  BY <1>2 DEF CacheInstalls, r
<1>4. ASSUME NEW i \in Installation, Clean(i)
      PROVE  /\ q.recs[i] \in {Unknown, None, Install(i)}
             /\ installs'[i] \in {Unknown, None, Install(i)}
  BY <1>2, <1>3, <1>4 DEF AgesInv, RecordsAgree, RecordFits
<1>5. ASSUME NEW i, QualifyingOf(q, i) # {}
      PROVE  q.recs[i] # Unknown /\ (q.recs[i] = None => i \in create)
  <2>1. i \in InstallationsOf(q)
    BY <1>5 DEF QualifyingOf, InstallationsOf
  <2>2. \A e \in q.evs : q.recs[InstallationOf[e]] # Unknown
    BY <1>3 DEF AgesInv, LogInv, RequestsFit, RequestFits
  <2> QED
    BY <1>5, <2>1, <2>2 DEF InstallationsOf, ToCreate
<1>6. clock \in Nat /\ clock' \in Nat /\ q.received <= clock
  BY TimeIsNat DEF AgesInv, LogInv, TypeOK, TimesPast
<1>7. CASE create = {} /\ clock' = clock + 1 /\ CheckCopies(b, Stamp(r))
  <2>1. clock + 1 \in Time
    BY <1>7 DEF LogInv, TypeOK
  <2>2. PICK s : s = Stamp(r)
    OBVIOUS
  <2>3. /\ s \in Requests /\ s.evs = q.evs /\ s.dup = q.dup /\ s.recs = q.recs
        /\ s.received = clock + 1
    BY <1>2, <2>1, <2>2 DEF Stamp, Requests
  <2>4. ASSUME NEW i \in Installation, Clean(i)
        PROVE  Ready(i, b, s)
    <3>1. QualifyingOf(s, i) = QualifyingOf(q, i)
      BY <2>3 DEF QualifyingOf
    <3>2. QualifyingOf(q, i) # {} => q.recs[i] = Install(i) /\ q.recs[i] # None
      BY <1>4, <1>5, <1>7, <2>4
    <3> QED
      BY <1>4, <2>3, <2>4, <3>1, <3>2, KnownBefore DEF Ready
  <2>5. \A e \in Event : Clean(InstallationOf[e]) /\ s.dup[e] # 0 => s.dup[e] \in states[e]
    BY <2>3 DEF AgesInv, CopiesAgree, CopyFits
  <2> QED
    BY <1>3, <1>4, <1>6, <1>7, <2>2, <2>3, <2>4, <2>5, CheckKeepsAges DEF store, ghosts, Sending
<1>8. CASE /\ creating' = [creating EXCEPT ![FirstLock(r.create)] = Append(@, b)]
           /\ req' = [req EXCEPT ![b] = [r EXCEPT !.pc = "lock"]]
           /\ UNCHANGED <<inFlight, clock>>
  <2> DEFINE new == [r EXCEPT !.pc = "lock"]
  <2>1. /\ new.pc = "lock" /\ new.dup = q.dup /\ new.wait = q.wait /\ new.received = q.received
        /\ new.evs = q.evs /\ new.recs = q.recs /\ new.create = create
    BY <1>2 DEF Requests
  <2> HIDE DEF new
  <2>2. req'[b] = new /\ \A c \in Batch \ {b} : req'[c] = req[c]
    BY <1>8 DEF AgesInv, LogInv, TypeOK, new
  <2>3. \A i \in Installation : creating[i] # <<>> =>
            creating'[i] # <<>> /\ Head(creating'[i]) = Head(creating[i])
    BY <1>8, JoinFacts DEF AgesInv, LogInv
  <2>4. ASSUME NEW i \in Installation, Clean(i)
        PROVE  RecordFits(i, b)'
    <3>1. Install(i)' = Install(i)
      BY <1>3, StampsKept DEF store
    <3>2. QualifyingOf(req[b], i)' = QualifyingOf(q, i)
      BY <2>1, <2>2 DEF QualifyingOf
    <3> QED
      BY <1>4, <1>5, <2>1, <2>2, <2>4, <3>1, <3>2 DEF RecordFits, Stamped, Sending
  <2>5. /\ UNCHANGED <<events, states, late, inFlight, failed>>
        /\ clock' \in Nat /\ clock <= clock' /\ req'[b].received <= clock'
        /\ req[b].pc \notin Sending /\ req'[b].pc \notin Sending
        /\ \A e \in Event : req'[b].dup[e] = req[b].dup[e] /\ req'[b].wait[e] = req[b].wait[e]
    <3>1. UNCHANGED <<events, states, late, inFlight, failed>>
      BY <1>3, <1>8 DEF store, ghosts
    <3>2. clock' = clock /\ clock' \in Nat /\ req'[b].received <= clock'
      BY <1>6, <1>8, <2>1, <2>2
    <3>3. req[b].pc \notin Sending /\ req'[b].pc \notin Sending
      BY <1>3, <2>1, <2>2 DEF Sending
    <3>4. req'[b].dup = req[b].dup /\ req'[b].wait = req[b].wait
      BY <2>1, <2>2
    <3> QED
      BY <3>1, <3>2, <3>3, <3>4
  <2>6. \A i \in Installation : Clean(i) =>
            RecordFits(i, b)' /\ installs'[i] \in {Unknown, None, Install(i)}
    BY <1>4, <2>4
  <2>7. \A e \in Event :
           /\ req'[b].dup[e] = req[b].dup[e] \/ req'[b].dup[e] = 0
           /\ req'[b].wait[e] = req[b].wait[e] \/ req'[b].wait[e].status = "none"
    BY <2>5
  <2>8. \A c \in Batch \ {b} : req'[c] = req[c]
    BY <2>2
  <2> QED
    BY <2>3, <2>5, <2>6, <2>7, <2>8, MoveKeepsAges
<1> QED
  BY <1>3, <1>7, <1>8

LEMMA TakeLockKeepsAges ==
    ASSUME AgesInv, LogInv', NEW b \in Batch, TakeLock(b)
    PROVE  AgesInv'
<1> PICK r \in Requests : r = req[b]
  BY DEF AgesInv, LogInv, TypeOK
<1> PICK rest : rest = r.create \ ChainedOn(b)
  OBVIOUS
<1> DEFINE again == [i \in Installation |-> IF i \in r.create THEN Install(i) ELSE r.recs[i]]
           new == [Stamp(r) EXCEPT !.pc = "recache", !.recs = again]
<1>1. /\ r.pc = "lock" /\ HoldsAll(b)
      /\ UNCHANGED <<store, inFlight, warm, arrivals, faults, ghosts>>
      /\ \/ /\ creating' = [creating EXCEPT ![FirstLock(rest)] = Append(@, b)]
            /\ UNCHANGED <<req, installs, clock>>
         \/ /\ rest = {} /\ clock' = clock + 1
            /\ installs' = [i \in Installation |-> IF i \in r.create THEN Unknown ELSE installs[i]]
            /\ req' = [req EXCEPT ![b] = new]
            /\ UNCHANGED creating
  BY DEF TakeLock
<1>2. ASSUME NEW i \in Installation, Clean(i)
      PROVE  /\ r.recs[i] \in {Unknown, None, Install(i)}
             /\ QualifyingOf(r, i) # {} /\ r.recs[i] = None => i \in r.create
             /\ installs[i] \in {Unknown, None, Install(i)}
  BY <1>1, <1>2 DEF AgesInv, RecordsAgree, RecordFits
<1>3. clock \in Nat /\ clock' \in Nat /\ r.received <= clock
  BY TimeIsNat DEF AgesInv, LogInv, TypeOK, TimesPast
<1>4. UNCHANGED <<events, states, late, inFlight, failed>>
  BY <1>1 DEF store, ghosts
<1>5. \A i \in Installation : Install(i)' = Install(i) /\ Stamps(i)' = Stamps(i)
  BY <1>4, StampsKept
<1>6. CASE /\ creating' = [creating EXCEPT ![FirstLock(rest)] = Append(@, b)]
           /\ UNCHANGED <<req, installs, clock>>
  <2>1. \A i \in Installation : creating[i] # <<>> =>
            creating'[i] # <<>> /\ Head(creating'[i]) = Head(creating[i])
    BY <1>6, JoinFacts DEF AgesInv, LogInv
  <2>2. ASSUME NEW i \in Installation, Clean(i)
        PROVE  RecordFits(i, b)' /\ installs'[i] \in {Unknown, None, Install(i)}
    <3>1. RecordFits(i, b)'
      BY <1>4, <1>6, <2>1, <2>2, OtherRecord
    <3> QED
      BY <1>2, <1>6, <2>2, <3>1
  <2>3. /\ clock <= clock' /\ req'[b].received <= clock'
        /\ req[b].pc \notin Sending /\ req'[b].pc \notin Sending
        /\ \A c \in Batch \ {b} : req'[c] = req[c]
        /\ \A e \in Event : req'[b].dup[e] = req[b].dup[e] /\ req'[b].wait[e] = req[b].wait[e]
    BY <1>1, <1>3, <1>6 DEF Sending
  <2> QED
    BY <1>3, <1>4, <2>1, <2>2, <2>3, MoveKeepsAges
<1>7. CASE /\ rest = {} /\ clock' = clock + 1
           /\ installs' = [i \in Installation |-> IF i \in r.create THEN Unknown ELSE installs[i]]
           /\ req' = [req EXCEPT ![b] = new]
           /\ UNCHANGED creating
  <2>1. /\ new.pc = "recache" /\ new.dup = r.dup /\ new.wait = r.wait /\ new.evs = r.evs
        /\ new.create = r.create /\ new.received = clock + 1 /\ new.recs = again
    BY DEF Stamp, Requests
  <2> HIDE DEF new
  <2>2. req'[b] = new /\ \A c \in Batch \ {b} : req'[c] = req[c]
    BY <1>7 DEF AgesInv, LogInv, TypeOK
  <2>3. ASSUME NEW i \in Installation, i \in r.create
        PROVE  creating[i] # <<>> /\ Head(creating[i]) = b
    <3>1. i \in ChainedOn(b)
      BY <1>7, <2>3
    <3>2. Head(creating[i]) = b /\ b \in Range(creating[i])
      BY <1>1, <3>1 DEF HoldsAll, ChainedOn
    <3>3. creating[i] # <<>>
      BY <3>2 DEF Range
    <3> QED
      BY <3>2, <3>3
  <2>4. ASSUME NEW i \in Installation, Clean(i)
        PROVE  RecordFits(i, b)' /\ installs'[i] \in {Unknown, None, Install(i)}
    <3>1. again[i] = IF i \in r.create THEN Install(i) ELSE r.recs[i]
      OBVIOUS
    <3> HIDE DEF again
    <3>2. again[i] \in {Unknown, None, Install(i)}
      BY <1>2, <2>4, <3>1
    <3>3. QualifyingOf(req[b], i)' = QualifyingOf(r, i)
      BY <2>1, <2>2 DEF QualifyingOf
    <3>4. QualifyingOf(r, i) # {} => again[i] # Unknown
      <4>1. QualifyingOf(r, i) # {} => \E e \in r.evs : InstallationOf[e] = i
        BY DEF QualifyingOf
      <4>2. req'[b].pc \notin {"idle", "read"} => \A e \in r.evs : again[InstallationOf[e]] # Unknown
        BY <2>1, <2>2 DEF LogInv, RequestsFit, RequestFits
      <4> QED
        BY <2>1, <2>2, <4>1, <4>2
    <3>5. Install(i) = None => Stamps(i) = {}
      BY InstallFacts DEF AgesInv, LogInv
    <3>6. QualifyingOf(r, i) # {} /\ again[i] = None => i \in r.create /\ Stamps(i) = {}
      BY <1>2, <2>4, <3>1, <3>5
    <3>7. QualifyingOf(r, i) # {} /\ again[i] # None =>
             Stamps(i) # {} /\ FirstOf(Stamps(i))[1] < clock + 1
      BY <2>4, <3>2, <3>4, KnownBefore
    <3>8. QualifyingOf(req[b], i)' # {} =>
             IF req'[b].recs[i] = None
             THEN i \in req'[b].create /\ creating'[i] # <<>> /\ Head(creating'[i]) = b /\ Stamps(i)' = {}
             ELSE Stamps(i)' # {} /\ FirstOf(Stamps(i)')[1] < req'[b].received
      BY <1>5, <1>7, <2>1, <2>2, <2>3, <3>3, <3>6, <3>7
    <3>9. req'[b].recs[i] \in {Unknown, None, Install(i)'} /\ req'[b].pc = "recache"
      BY <1>5, <2>1, <2>2, <3>2
    <3>10. RecordFits(i, b)'
      BY <3>8, <3>9 DEF RecordFits
    <3>11. installs'[i] \in {Unknown, None, Install(i)}
      BY <1>2, <1>7, <2>4
    <3> QED
      BY <3>10, <3>11
  <2>5. /\ clock <= clock' /\ req'[b].received <= clock'
        /\ req[b].pc \notin Sending /\ req'[b].pc \notin Sending
        /\ \A e \in Event : req'[b].dup[e] = req[b].dup[e] /\ req'[b].wait[e] = req[b].wait[e]
    <3>1. clock <= clock' /\ req'[b].received <= clock'
      BY <1>3, <1>7, <2>1, <2>2
    <3>2. req[b].pc \notin Sending /\ req'[b].pc \notin Sending
      BY <1>1, <2>1, <2>2 DEF Sending
    <3> QED
      BY <2>1, <2>2, <3>1, <3>2
  <2> QED
    BY <1>3, <1>4, <1>7, <2>2, <2>4, <2>5, MoveKeepsAges
<1> QED
  BY <1>1, <1>6, <1>7

LEMMA RecacheKeepsAges ==
    ASSUME AgesInv, LogInv', NEW b \in Batch, Recache(b)
    PROVE  AgesInv'
<1> PICK r \in Requests : r = req[b]
  BY DEF AgesInv, LogInv, TypeOK
<1>1. /\ r.pc = "recache" /\ CheckCopies(b, r)
      /\ installs' = [i \in Installation |-> IF i \in r.create THEN r.recs[i] ELSE installs[i]]
      /\ UNCHANGED <<store, clock, warm, arrivals, faults, ghosts>>
  BY DEF Recache
<1>2. clock \in Nat /\ clock' = clock /\ r.received <= clock
  BY <1>1, TimeIsNat DEF AgesInv, LogInv, TypeOK, TimesPast
<1>3. UNCHANGED <<events, states, late, failed>>
  BY <1>1 DEF store, ghosts
<1>4. ASSUME NEW i \in Installation, Clean(i)
      PROVE  Ready(i, b, r) /\ installs'[i] \in {Unknown, None, Install(i)}
  <2>1. RecordFits(i, b) /\ installs[i] \in {Unknown, None, Install(i)}
    BY <1>4 DEF AgesInv, RecordsAgree
  <2>2. Ready(i, b, r)
    BY <1>1, <2>1 DEF RecordFits, Ready, Stamped
  <2> QED
    BY <1>1, <2>1, <2>2 DEF Ready
<1>5. \A e \in Event : Clean(InstallationOf[e]) /\ r.dup[e] # 0 => r.dup[e] \in states[e]
  BY DEF AgesInv, CopiesAgree, CopyFits
<1> QED
  BY <1>1, <1>2, <1>3, <1>4, <1>5, CheckKeepsAges DEF Sending

LEMMA ResumeKeepsAges ==
    ASSUME AgesInv, LogInv', NEW b \in Batch, Resume(b)
    PROVE  AgesInv'
<1> PICK q \in Requests : q = req[b]
  BY DEF AgesInv, LogInv, TypeOK
<1> DEFINE dup == [e \in Event |-> IF q.wait[e].status = "stored" THEN q.wait[e].received ELSE q.dup[e]]
           r == [q EXCEPT !.dup = dup]
<1>1. /\ q.pc = "await"
      /\ Refuse(b) \/ CheckCopies(b, r)
      /\ UNCHANGED <<store, installs, clock, warm, arrivals, faults, ghosts>>
  <2>1. r = [q EXCEPT !.dup = [e \in Event |->
                IF q.wait[e].status = "stored" THEN q.wait[e].received ELSE @[e]]]
    BY DEF Requests
  <2> HIDE DEF r
  <2> QED
    BY <2>1 DEF Resume
<1>2. clock \in Nat /\ clock' = clock /\ q.received <= clock
  BY <1>1, TimeIsNat DEF AgesInv, LogInv, TypeOK, TimesPast
<1>3. UNCHANGED <<events, states, late, failed>>
  BY <1>1 DEF store, ghosts
<1>4. \A e \in Event : Clean(InstallationOf[e]) /\ dup[e] # 0 => dup[e] \in states[e]
  BY DEF AgesInv, CopiesAgree, CopyFits
<1>5. dup \in [Event -> Time]
  <2>1. \A e \in Event : q.wait[e] \in Waits
    BY RequestFacts
  <2> QED
    BY <2>1, RequestFacts DEF Waits
<1> HIDE DEF dup
<1>6. /\ r \in Requests /\ r.evs = q.evs /\ r.recs = q.recs /\ r.received = q.received
      /\ r.create = q.create /\ r.dup = dup
  BY <1>5 DEF Requests
<1> HIDE DEF r
<1>7. ASSUME NEW i \in Installation, Clean(i)
      PROVE  Ready(i, b, r) /\ installs'[i] \in {Unknown, None, Install(i)}
  <2>1. RecordFits(i, b) /\ installs[i] \in {Unknown, None, Install(i)}
    BY <1>7 DEF AgesInv, RecordsAgree
  <2>2. QualifyingOf(r, i) = QualifyingOf(q, i)
    BY <1>6 DEF QualifyingOf
  <2>3. Ready(i, b, r)
    BY <1>1, <1>6, <2>1, <2>2 DEF RecordFits, Ready, Stamped
  <2> QED
    BY <1>1, <2>1, <2>3
<1>8. CASE Refuse(b)
  BY <1>1, <1>3, <1>8, RefuseKeepsAges
<1>9. CASE CheckCopies(b, r)
  <2>1. /\ r.evs = req[b].evs /\ r.received <= clock' /\ clock' \in Nat /\ clock <= clock'
        /\ req[b].pc \notin Sending \cup {"idle"}
    BY <1>1, <1>2, <1>6 DEF Sending
  <2>2. \A e \in Event : Clean(InstallationOf[e]) /\ r.dup[e] # 0 => r.dup[e] \in states[e]
    BY <1>4, <1>6
  <2> QED
    BY <1>3, <1>6, <1>7, <1>9, <2>1, <2>2, CheckKeepsAges
<1> QED
  BY <1>1, <1>8, <1>9

LEMMA LookupKeepsAges ==
    ASSUME AgesInv, LogInv', NEW b \in Batch, Lookup(b)
    PROVE  AgesInv'
<1>1. /\ req[b].pc = "lookup" /\ req'[b].pc = "insert" /\ req'[b].evs = req[b].evs
      /\ req'[b].recs = req[b].recs /\ req'[b].create = req[b].create
      /\ req'[b].received = req[b].received /\ req'[b].wait = req[b].wait
      /\ \A c \in Batch \ {b} : req'[c] = req[c]
  BY LookupFacts DEF AgesInv
<1>2. ASSUME NEW e \in Event
      PROVE  /\ inFlight'[e].by = inFlight[e].by
             /\ \/ /\ \E x \in events[e] : x.received = req'[b].dup[e]
                   /\ inFlight'[e].received =
                         IF inFlight[e].by = b THEN req'[b].dup[e] ELSE inFlight[e].received
                \/ req'[b].dup[e] = req[b].dup[e] /\ inFlight'[e] = inFlight[e]
  BY LookupFacts DEF AgesInv
<1>3. UNCHANGED <<events, states, late, failed, installs, creating, clock>>
  BY DEF Lookup, store, ghosts
<1>4. clock \in Nat /\ clock' \in Nat /\ clock <= clock'
  BY <1>3, TimeIsNat DEF AgesInv, LogInv, TypeOK
<1>5. ASSUME NEW i \in Installation, NEW c \in Batch, Clean(i)
      PROVE  RecordFits(i, c)'
  <2>1. CASE c = b
    <3>1. Stamps(i)' = Stamps(i) /\ Install(i)' = Install(i)
      BY <1>3, StampsKept
    <3>2. QualifyingOf(req[b], i)' = QualifyingOf(req[b], i)
      BY <1>1 DEF QualifyingOf
    <3>3. RecordFits(i, b)
      BY <1>5 DEF AgesInv, RecordsAgree
    <3> QED
      BY <1>1, <1>3, <2>1, <3>1, <3>2, <3>3 DEF RecordFits, Stamped, Sending
  <2>2. CASE c # b
    BY <1>1, <1>3, <1>5, <2>2, OtherRecord
  <2> QED
    BY <2>1, <2>2
<1>6. ASSUME NEW e \in Event, NEW c \in Batch, Clean(InstallationOf[e])
      PROVE  CopyFits(e, c)'
  <2>1. CopyFits(e, c) /\ \A x \in events[e] : x.received \in states[e] /\ x.received # 0
    BY <1>6 DEF AgesInv, CopiesAgree, LogInv, StoredOnce
  <2>2. CASE c = b
    <3>1. CASE /\ \E x \in events[e] : x.received = req'[b].dup[e]
               /\ inFlight'[e].received =
                     IF inFlight[e].by = b THEN req'[b].dup[e] ELSE inFlight[e].received
      <4>1. req'[b].dup[e] \in states[e] /\ req'[b].dup[e] # 0
        BY <2>1, <3>1
      <4>2. inFlight'[e].by = b => inFlight'[e].received = StampOf(req[b], e)'
        BY <1>2, <3>1, <4>1 DEF StampOf
      <4> QED
        BY <1>1, <1>3, <2>1, <2>2, <4>1, <4>2 DEF CopyFits
    <3>2. CASE req'[b].dup[e] = req[b].dup[e] /\ inFlight'[e] = inFlight[e]
      <4>1. StampOf(req[b], e)' = StampOf(req[b], e)
        BY <1>1, <3>2 DEF StampOf
      <4> QED
        BY <1>1, <1>3, <2>1, <2>2, <3>2, <4>1 DEF CopyFits
    <3> QED
      BY <1>2, <3>1, <3>2
  <2>3. CASE c # b
    <3>1. inFlight'[e].by = c => inFlight'[e].received = inFlight[e].received /\ inFlight[e].by = c
      BY <1>2, <2>3
    <3>2. StampOf(req[c], e)' = StampOf(req[c], e)
      BY <1>1, <2>3 DEF StampOf
    <3> QED
      BY <1>1, <1>3, <2>1, <2>3, <3>1, <3>2 DEF CopyFits
  <2> QED
    BY <2>2, <2>3
<1>7. /\ \A c \in Batch : req'[c].received <= clock'
      /\ \A i \in Installation : Clean(i)' <=> Clean(i)
      /\ \A e \in Event : Clean(InstallationOf[e])' <=> Clean(InstallationOf[e])
      /\ failed \subseteq failed'
      /\ \A rows \in late' : \A x \in rows : x.ev \in failed'
  BY <1>1, <1>3 DEF AgesInv, TimesPast, Clean
<1>8. \A i \in Installation : Clean(i)' /\ Install(i)' = Install(i) =>
         installs'[i] \in {Unknown, None, Install(i)}
  BY <1>3, <1>7 DEF AgesInv, RecordsAgree
<1>9. \A i \in Installation : Clean(i)' => \A e \in Event : InstallationOf[e] = i =>
         states'[e] = states[e] /\ events'[e] = events[e]
  BY <1>3
<1> QED
  BY <1>4, <1>5, <1>6, <1>7, <1>8, <1>9, MemoryStep

LEMMA AcknowledgeKeepsAges ==
    ASSUME AgesInv, LogInv', NEW b \in Batch, Acknowledge(b)
    PROVE  AgesInv'
<1> PICK r \in Requests : r = req[b]
  BY DEF AgesInv, LogInv, TypeOK
<1>1. /\ r.pc = "landed" /\ Finish(b, TRUE, Nobody)
      /\ installs' = [i \in Installation |-> IF Created(r, i) # None THEN Created(r, i) ELSE installs[i]]
      /\ UNCHANGED <<events, states, late, clock, failed>>
  BY DEF Acknowledge, store
<1>2. clock' \in Nat /\ clock <= clock'
  BY <1>1, TimeIsNat DEF AgesInv, LogInv, TypeOK
<1>3. ASSUME NEW i \in Installation, Clean(i)
      PROVE  installs'[i] \in {Unknown, None, Install(i)}
  <2>1. installs[i] \in {Unknown, None, Install(i)} /\ RecordFits(i, b)
    BY <1>3 DEF AgesInv, RecordsAgree
  <2>2. Created(r, i) # None => r.recs[i] = None /\ QualifyingOf(r, i) # {}
    BY CreatedFacts
  <2>3. Created(r, i) # None => Created(r, i) = Install(i)
    BY <1>1, <2>1, <2>2 DEF RecordFits, Stamped, Sending
  <2> QED
    BY <1>1, <2>1, <2>3
<1>4. /\ \A rows \in late' : \A x \in rows : x.ev \in failed'
      /\ \A i \in Installation : Clean(i)' <=> Clean(i)
      /\ failed \subseteq failed'
      /\ \A i \in Installation : Clean(i)' => \A e \in Event : InstallationOf[e] = i =>
            states'[e] = states[e] /\ events'[e] = events[e]
  BY <1>1 DEF AgesInv, TimesPast, Clean
<1>5. PICK stored \in BOOLEAN : stored = TRUE
  OBVIOUS
<1>6. Finish(b, stored, Nobody) /\ req[b].pc = "landed"
  BY <1>1, <1>5
<1>7. \A i \in Installation : Clean(i)' /\ Install(i)' = Install(i) =>
         installs'[i] \in {Unknown, None, Install(i)}
  BY <1>3, <1>4
<1> QED
  BY <1>2, <1>4, <1>6, <1>7, EndKeepsAges

LEMMA ReadFailsKeepsAges ==
    ASSUME AgesInv, LogInv', NEW b \in Batch, ReadFails(b)
    PROVE  AgesInv'
BY RefuseKeepsAges DEF ReadFails, store, ghosts

\* A block of rows leaves alone what it has no row of.
LEMMA UntouchedFacts ==
    ASSUME TypeOK, NEW rows \in SUBSET SentRows, NEW e \in Event, \A x \in rows : x.ev # e
    PROVE  EventsWith(rows)[e] = events[e] /\ StatesWith(rows)[e] = states[e]
<1>1. /\ events[e] \subseteq EventsWith(rows)[e] /\ states[e] \subseteq StatesWith(rows)[e]
      /\ \A y \in EventsWith(rows)[e] : y \in events[e] \/
            \E x \in rows : x.ev = e /\ ~x.replay /\ y = [received |-> x.received, base |-> x.base]
      /\ \A t \in StatesWith(rows)[e] : t \in states[e] \/
            \E x \in rows : x.ev = e /\ t = x.received
  BY StoreFacts
<1>2. \A y \in EventsWith(rows)[e] : y \in events[e]
  BY <1>1
<1>3. \A t \in StatesWith(rows)[e] : t \in states[e]
  BY <1>1
<1> QED
  BY <1>1, <1>2, <1>3

\* Where an insert fails, nothing more is said of its installations.
LEMMA InsertFailsKeepsAges ==
    ASSUME AgesInv, LogInv', NEW b \in Batch, InsertFails(b)
    PROVE  AgesInv'
<1> PICK rows : rows = Rows(req[b])
  OBVIOUS
<1>1. /\ req[b].pc \in {"insert", "landed"}
      /\ IF req[b].pc = "insert" THEN Unacknowledged(rows) ELSE UNCHANGED store
      /\ failed' = failed \cup req[b].evs
      /\ Finish(b, FALSE, Blocked)
      /\ UNCHANGED <<installs, clock>>
  BY DEF InsertFails
<1>2. failed \subseteq failed' /\ \A i \in Installation : Clean(i)' => Clean(i)
  BY <1>1 DEF Clean
<1>3. /\ \A i \in Installation : Clean(i)' => \A e \in Event : InstallationOf[e] = i =>
            states'[e] = states[e] /\ events'[e] = events[e]
      /\ \A others \in late' : \A x \in others : x.ev \in failed'
  <2>1. CASE UNCHANGED store
    BY <1>1, <2>1 DEF store, AgesInv, TimesPast
  <2>2. CASE req[b].pc = "insert" /\ Unacknowledged(rows)
    <3>1. rows \in SUBSET SentRows /\ \A x \in rows : x.ev \in failed'
      BY <1>1, <2>2, InsertFacts DEF AgesInv
    <3>2. \A e \in Event : e \notin failed' =>
             EventsWith(rows)[e] = events[e] /\ StatesWith(rows)[e] = states[e]
      BY <3>1, UntouchedFacts DEF AgesInv, LogInv
    <3>3. \A i \in Installation : Clean(i)' => \A e \in Event : InstallationOf[e] = i => e \notin failed'
      BY DEF Clean
    <3>4. \/ UNCHANGED store
          \/ late' = late \cup {rows} /\ UNCHANGED <<events, states>>
          \/ events' = EventsWith(rows) /\ UNCHANGED <<states, late>>
          \/ states' = StatesWith(rows) /\ UNCHANGED <<events, late>>
      BY <2>2 DEF Unacknowledged
    <3>5. \A others \in late : \A x \in others : x.ev \in failed'
      BY <1>2 DEF AgesInv, TimesPast
    <3> QED
      BY <2>1, <3>1, <3>2, <3>3, <3>4, <3>5
  <2> QED
    BY <1>1, <2>1, <2>2
<1>4. clock' \in Nat /\ clock <= clock'
  BY <1>1, TimeIsNat DEF AgesInv, LogInv, TypeOK
<1>5. \A i \in Installation : Clean(i)' /\ Install(i)' = Install(i) =>
         installs'[i] \in {Unknown, None, Install(i)}
  BY <1>1, <1>2 DEF AgesInv, RecordsAgree
<1>6. Finish(b, FALSE, Blocked)
  BY <1>1
<1> QED
  BY <1>2, <1>3, <1>4, <1>5, <1>6, EndKeepsAges

\* A step no batch takes part in.
LEMMA QuietKeepsAges ==
    ASSUME AgesInv, LogInv', UNCHANGED <<req, creating, clock, failed>>, late' \subseteq late,
           \A e \in Event : inFlight'[e] = inFlight[e] \/ inFlight'[e].by \notin Batch,
           \A i \in Installation : Clean(i) => installs'[i] \in {Unknown, installs[i]},
           \A e \in Event : e \notin failed => states'[e] = states[e] /\ events'[e] = events[e]
    PROVE  AgesInv'
<1>1. \A i \in Installation : Clean(i)' <=> Clean(i)
  BY DEF Clean
<1>2. \A i \in Installation : Clean(i) => \A e \in Event : InstallationOf[e] = i =>
         states'[e] = states[e] /\ events'[e] = events[e]
  BY DEF Clean
<1>3. ASSUME NEW i \in Installation, NEW c \in Batch, Clean(i)
      PROVE  RecordFits(i, c)'
  BY <1>2, <1>3, OtherRecord
<1>4. ASSUME NEW e \in Event, NEW c \in Batch, Clean(InstallationOf[e])
      PROVE  CopyFits(e, c)'
  <2>1. states'[e] = states[e]
    BY <1>2, <1>4, ShapeAssumption
  <2> QED
    BY <1>4, <2>1, OtherCopy
<1>5. /\ \A c \in Batch : req'[c].received <= clock'
      /\ clock \in Nat /\ clock' \in Nat /\ clock <= clock' /\ failed \subseteq failed'
      /\ \A rows \in late' : \A x \in rows : x.ev \in failed'
  BY TimeIsNat DEF AgesInv, TimesPast, LogInv, TypeOK
<1>6. \A i \in Installation : Clean(i)' /\ Install(i)' = Install(i) =>
         installs'[i] \in {Unknown, None, Install(i)}
  BY <1>1 DEF AgesInv, RecordsAgree
<1>7. /\ \A i \in Installation, c \in Batch : Clean(i)' => RecordFits(i, c)'
      /\ \A e \in Event, c \in Batch : Clean(InstallationOf[e])' => CopyFits(e, c)'
      /\ \A i \in Installation : Clean(i)' => \A e \in Event : InstallationOf[e] = i =>
            states'[e] = states[e] /\ events'[e] = events[e]
  BY <1>1, <1>2, <1>3, <1>4, ShapeAssumption
<1> QED
  BY <1>5, <1>6, <1>7, MemoryStep

LEMMA QuietStepsKeepAges ==
    ASSUME AgesInv, LogInv',
           \/ \E rows \in late : Settle(rows)
           \/ \E e \in Event : Unblock(e)
           \/ \E i \in Installation : Evict(i)
           \/ WarmUp
    PROVE  AgesInv'
<1>1. ASSUME NEW rows \in late, Settle(rows)
      PROVE  AgesInv'
  <2>1. rows \in SUBSET SentRows /\ \A x \in rows : x.ev \in failed
    BY DEF AgesInv, TimesPast, LogInv, TypeOK
  <2>2. \A e \in Event : e \notin failed =>
           EventsWith(rows)[e] = events[e] /\ StatesWith(rows)[e] = states[e]
    BY <2>1, UntouchedFacts DEF AgesInv, LogInv
  <2>3. /\ UNCHANGED <<req, creating, clock, failed, inFlight, installs>> /\ late' \subseteq late
        /\ \/ events' = EventsWith(rows) /\ states' = StatesWith(rows)
           \/ UNCHANGED <<events, states>>
    BY <1>1 DEF Settle, memory, ghosts
  <2>4. \A e \in Event : e \notin failed => states'[e] = states[e] /\ events'[e] = events[e]
    BY <2>2, <2>3
  <2> QED
    BY <2>3, <2>4, QuietKeepsAges
<1>2. ASSUME NEW e \in Event, Unblock(e)
      PROVE  AgesInv'
  <2>1. \A f \in Event : inFlight'[f] = inFlight[f] \/ inFlight'[f].by \notin Batch
    BY <1>2, ShapeAssumption DEF Unblock, Free, AgesInv, LogInv, TypeOK
  <2>2. UNCHANGED <<events, states, req, creating, clock, failed, late, installs>>
    BY <1>2 DEF Unblock, store, ghosts
  <2> QED
    BY <2>1, <2>2, QuietKeepsAges
<1>3. ASSUME NEW i \in Installation, Evict(i)
      PROVE  AgesInv'
  <2>1. \A j \in Installation : installs'[j] \in {Unknown, installs[j]}
    BY <1>3 DEF Evict, AgesInv, LogInv, TypeOK
  <2>2. UNCHANGED <<events, states, req, creating, clock, failed, late, inFlight>>
    BY <1>3 DEF Evict, store, ghosts
  <2> QED
    BY <2>1, <2>2, QuietKeepsAges
<1>4. CASE WarmUp
  <2>1. UNCHANGED <<events, states, req, creating, clock, failed, late, inFlight, installs>>
    BY <1>4 DEF WarmUp, store, memory, ghosts
  <2> QED
    BY <2>1, QuietKeepsAges
<1> QED
  BY <1>1, <1>2, <1>3, <1>4

LEMMA RestartKeepsAges ==
    ASSUME AgesInv, LogInv', Restart
    PROVE  AgesInv'
<1>1. PICK sent \in SUBSET {b \in Batch : req[b].pc = "insert"} :
         late' = late \cup {Rows(req[b]) : b \in sent}
  BY DEF Restart
<1>2. /\ failed' = failed \cup UNION {req[b].evs : b \in {c \in Batch : req[c].pc \in {"insert", "landed"}}}
      /\ installs' = [i \in Installation |-> Unknown]
      /\ inFlight' = [e \in Event |-> Free]
      /\ req' = [b \in Batch |-> Idle]
      /\ UNCHANGED <<events, states, clock>>
  BY DEF Restart
<1>3. \A rows \in late' : \A x \in rows : x.ev \in failed'
  <2>1. \A b \in sent : \A x \in Rows(req[b]) : x.ev \in req[b].evs
    BY InsertFacts DEF AgesInv
  <2>2. \A b \in sent : req[b].evs \subseteq failed'
    BY <1>2
  <2>3. \A rows \in late : \A x \in rows : x.ev \in failed'
    BY <1>2 DEF AgesInv, TimesPast
  <2> QED
    BY <1>1, <2>1, <2>2, <2>3
<1>4. /\ failed \subseteq failed' /\ clock \in Nat /\ clock' \in Nat /\ clock <= clock'
      /\ \A c \in Batch : req'[c].received <= clock'
  BY <1>2, TimeIsNat, IdleFacts DEF AgesInv, LogInv, TypeOK
<1>5. \A e \in Event : inFlight'[e].by \notin Batch
  BY <1>2, ShapeAssumption DEF Free
<1>6. \A i \in Installation, c \in Batch : RecordFits(i, c)'
  <2>1. \A i \in Installation, c \in Batch : QualifyingOf(req[c], i)' = {}
    BY <1>2, IdleFacts DEF QualifyingOf
  <2> QED
    BY <1>2, <2>1, IdleFacts DEF RecordFits
<1>7. \A e \in Event, c \in Batch : CopyFits(e, c)'
  BY <1>2, <1>5, IdleFacts DEF CopyFits
<1>8. /\ \A i \in Installation : installs'[i] = Unknown
      /\ \A i \in Installation : Clean(i)' => \A e \in Event : InstallationOf[e] = i =>
            states'[e] = states[e] /\ events'[e] = events[e]
  BY <1>2
<1> QED
  BY <1>3, <1>4, <1>6, <1>7, <1>8, MemoryStep

\* What an insert adds to the store.
LEMMA LandFacts ==
    ASSUME AgesInv, NEW b \in Batch, Land(b), NEW e \in Event
    PROVE  /\ states[e] \subseteq states'[e] /\ events[e] \subseteq events'[e]
           /\ e \in req[b].evs => StampOf(req[b], e) \in states'[e]
           /\ \A t \in states'[e] : t \in states[e] \/ (e \in req[b].evs /\ t = StampOf(req[b], e))
           /\ \A x \in events'[e] : x \in events[e] \/
                 (e \in req[b].evs /\ x.received = StampOf(req[b], e)
                                   /\ x.base = InstallTime(req[b], InstallationOf[e]))
<1> PICK r \in Requests : r = req[b]
  BY DEF AgesInv, LogInv, TypeOK
<1> PICK rows : rows = Rows(r)
  OBVIOUS
<1>1. /\ r.pc = "insert" /\ events' = EventsWith(rows) /\ states' = StatesWith(rows)
  BY DEF Land
<1>2. \A f \in r.evs : r.recs[InstallationOf[f]] # Unknown
  BY <1>1 DEF AgesInv, LogInv, RequestsFit, RequestFits
<1>3. /\ rows \in SUBSET SentRows
      /\ \A x \in rows : /\ x.ev \in r.evs /\ x.received = StampOf(r, x.ev)
                         /\ x.base = InstallTime(r, InstallationOf[x.ev])
      /\ \A f \in r.evs : \E x \in rows : x.ev = f
  BY <1>2, RowsFacts
<1>4. /\ events[e] \subseteq EventsWith(rows)[e] /\ states[e] \subseteq StatesWith(rows)[e]
      /\ \A x \in rows : x.ev = e => x.received \in StatesWith(rows)[e]
      /\ \A y \in EventsWith(rows)[e] : y \in events[e] \/
            \E x \in rows : x.ev = e /\ ~x.replay /\ y = [received |-> x.received, base |-> x.base]
      /\ \A t \in StatesWith(rows)[e] : t \in states[e] \/
            \E x \in rows : x.ev = e /\ t = x.received
  BY <1>3, StoreFacts DEF AgesInv, LogInv
<1>5. e \in r.evs => StampOf(r, e) \in states'[e]
  BY <1>1, <1>3, <1>4
<1>6. \A t \in states'[e] : t \in states[e] \/ (e \in r.evs /\ t = StampOf(r, e))
  BY <1>1, <1>3, <1>4
<1>7. ASSUME NEW y \in events'[e], y \notin events[e]
      PROVE  /\ e \in r.evs /\ y.received = StampOf(r, e)
             /\ y.base = InstallTime(r, InstallationOf[e])
  <2>1. PICK x \in rows : x.ev = e /\ y = [received |-> x.received, base |-> x.base]
    BY <1>1, <1>4, <1>7
  <2> QED
    BY <1>3, <2>1
<1> QED
  BY <1>1, <1>4, <1>5, <1>6, <1>7

\* The install time in the store after an insert: that of the record the batch
\* knew, or of the record it creates.
LEMMA LandRecord ==
    ASSUME AgesInv, NEW b \in Batch, Land(b), NEW i \in Installation, Clean(i)
    PROVE  /\ QualifyingOf(req[b], i) = {} => Stamps(i)' = Stamps(i)
           /\ QualifyingOf(req[b], i) # {} /\ req[b].recs[i] # None =>
                 /\ Stamps(i) # {} /\ Stamps(i)' # {} /\ FirstOf(Stamps(i)') = FirstOf(Stamps(i))
                 /\ req[b].recs[i] = Install(i)
           /\ QualifyingOf(req[b], i) # {} /\ req[b].recs[i] = None =>
                 /\ Stamps(i) = {} /\ Install(i)' = Created(req[b], i)
                 /\ i \in req[b].create /\ creating[i] # <<>> /\ Head(creating[i]) = b
<1> PICK r \in Requests : r = req[b]
  BY DEF AgesInv, LogInv, TypeOK
<1> PICK s \in [Event -> SUBSET Time] : s = states
  BY DEF AgesInv, LogInv, TypeOK
<1> PICK S : S = Stamps(i)
  OBVIOUS
<1> PICK s1 : s1 = states'
  OBVIOUS
<1>1. s1 \in [Event -> SUBSET Time]
  BY InsertFacts, StoreFacts DEF Land, AgesInv, LogInv
<1> PICK S1 : S1 = StampsOf(i, s1)
  OBVIOUS
<1>2. S1 = Stamps(i)' /\ S = StampsOf(i, s) /\ r.pc = "insert"
  BY DEF Stamps, Land
<1>3. /\ S \in SUBSET (Nat \X Nat) /\ S1 \in SUBSET (Nat \X Nat)
      /\ \A e \in Qualifying, t \in Time : InstallationOf[e] = i =>
            /\ t \in s[e] => <<t, Eff[e]>> \in S
            /\ t \in s1[e] => <<t, Eff[e]>> \in S1
      /\ \A x \in S : \E e \in Qualifying : InstallationOf[e] = i /\ x[1] \in s[e] /\ x = <<x[1], Eff[e]>>
      /\ \A x \in S1 : \E e \in Qualifying : InstallationOf[e] = i /\ x[1] \in s1[e] /\ x = <<x[1], Eff[e]>>
  <2> DEFINE Among(s2, S2) ==
                /\ S2 \in SUBSET (Nat \X EffTimes)
                /\ \A e \in Qualifying, t \in Time :
                      InstallationOf[e] = i /\ t \in s2[e] => <<t, Eff[e]>> \in S2
                /\ \A x \in S2 : \E e \in Qualifying :
                      InstallationOf[e] = i /\ x[1] \in s2[e] /\ x = <<x[1], Eff[e]>>
  <2>1. ASSUME NEW s2 \in [Event -> SUBSET Time]
        PROVE  Among(s2, StampsOf(i, s2))
    BY StampsFacts
  <2>2. Among(s, S) /\ Among(s1, S1)
    BY <1>1, <1>2, <2>1
  <2>3. S \in SUBSET (Nat \X Nat) /\ S1 \in SUBSET (Nat \X Nat)
    BY <2>2, InstallAmongFacts
  <2> QED
    BY <2>2, <2>3
<1>4. ASSUME NEW e \in Event
      PROVE  /\ s[e] \subseteq s1[e] /\ s1[e] \subseteq Time
             /\ e \in r.evs => StampOf(r, e) \in s1[e]
             /\ \A t \in s1[e] : t \in s[e] \/ (e \in r.evs /\ t = StampOf(r, e))
  BY <1>1, LandFacts
<1>5. Qualifying \subseteq Event /\ \A e : e \in QualifyingOf(r, i) <=>
         e \in Qualifying /\ e \in r.evs /\ InstallationOf[e] = i
  BY ShapeAssumption DEF QualifyingOf
<1>6. S \subseteq S1
  BY <1>3, <1>4, <1>5
<1>7. \A x \in S1 : x \in S \/ \E e \in QualifyingOf(r, i) : x = <<StampOf(r, e), Eff[e]>> /\ StampOf(r, e) \notin s[e]
  <2> SUFFICES ASSUME NEW x \in S1, x \notin S
               PROVE  \E e \in QualifyingOf(r, i) : x = <<StampOf(r, e), Eff[e]>> /\ StampOf(r, e) \notin s[e]
    OBVIOUS
  <2>1. PICK e \in Qualifying : InstallationOf[e] = i /\ x[1] \in s1[e] /\ x = <<x[1], Eff[e]>>
    BY <1>3
  <2>2. x[1] \notin s[e] /\ e \in Event /\ x[1] \in Time
    BY <1>3, <1>4, <1>5, <2>1
  <2>3. e \in r.evs /\ x[1] = StampOf(r, e)
    BY <1>4, <2>1, <2>2
  <2> QED
    BY <1>5, <2>1, <2>2, <2>3
<1>8. RecordFits(i, b)
  BY DEF AgesInv, RecordsAgree
<1>9. CASE QualifyingOf(r, i) = {}
  <2>1. S1 = S
    BY <1>6, <1>7, <1>9
  <2> QED
    BY <1>2, <1>9, <2>1
<1>10. CASE QualifyingOf(r, i) # {} /\ r.recs[i] # None
  <2>1. S # {} /\ FirstOf(S)[1] < r.received
    BY <1>2, <1>8, <1>10 DEF RecordFits, Stamped, Sending
  <2>2. r.recs[i] = Install(i)
    <3>1. r.recs[i] # Unknown
      <4>1. \E e \in r.evs : InstallationOf[e] = i
        BY <1>5, <1>10
      <4>2. \A e \in r.evs : r.recs[InstallationOf[e]] # Unknown
        BY <1>2 DEF AgesInv, LogInv, RequestsFit, RequestFits
      <4> QED
        BY <4>1, <4>2
    <3> QED
      BY <1>2, <1>8, <1>10, <3>1 DEF RecordFits
  <2> PICK m : m = FirstOf(S)
    OBVIOUS
  <2>3. m \in S /\ \A y \in S : m = y \/ Before(m, y)
    BY <1>3, <2>1, FirstOfIsFirst
  <2>4. ASSUME NEW y \in S1, y \notin S
        PROVE  Before(m, y)
    <3>1. PICK e \in QualifyingOf(r, i) : y = <<StampOf(r, e), Eff[e]>> /\ StampOf(r, e) \notin s[e]
      BY <1>7, <2>4
    <3>2. r.dup[e] = 0
      <4>1. e \in Event /\ Clean(InstallationOf[e])
        BY <1>5, <3>1
      <4>2. r.dup[e] # 0 => r.dup[e] \in s[e]
        BY <4>1 DEF AgesInv, CopiesAgree, CopyFits
      <4> QED
        BY <3>1, <4>2 DEF StampOf
    <3>3. y[1] = r.received
      BY <3>1, <3>2 DEF StampOf
    <3> QED
      BY <2>1, <3>3 DEF Before
  <2>5. FirstOf(S1) = m
    BY <1>3, <1>6, <2>3, <2>4, FirstOfIsTheOne
  <2>6. S1 # {}
    BY <1>6, <2>3
  <2> QED
    BY <1>2, <1>10, <2>1, <2>2, <2>5, <2>6
<1>11. CASE QualifyingOf(r, i) # {} /\ r.recs[i] = None
  <2>1. i \in r.create /\ creating[i] # <<>> /\ Head(creating[i]) = b /\ S = {}
    BY <1>2, <1>8, <1>11 DEF RecordFits, Stamped, Sending
  <2>2. S1 = {<<StampOf(r, e), Eff[e]>> : e \in QualifyingOf(r, i)}
    <3>1. \A x \in S1 : \E e \in QualifyingOf(r, i) : x = <<StampOf(r, e), Eff[e]>>
      BY <1>7, <2>1
    <3>2. \A e \in QualifyingOf(r, i) : <<StampOf(r, e), Eff[e]>> \in S1
      BY <1>3, <1>4, <1>5
    <3> QED
      BY <3>1, <3>2
  <2>3. Install(i)' = InstallAmong(S1)
    BY DEF Install
  <2>4. InstallAmong(S1) = Created(r, i)
    BY <1>11, <2>1, <2>2 DEF Created
  <2> QED
    BY <1>11, <2>1, <2>3, <2>4
<1> QED
  BY <1>9, <1>10, <1>11

LEMMA LandKeepsAges ==
    ASSUME AgesInv, LogInv', NEW b \in Batch, Land(b)
    PROVE  AgesInv'
<1> PICK r \in Requests : r = req[b]
  BY DEF AgesInv, LogInv, TypeOK
<1>1. /\ r.pc = "insert" /\ UNCHANGED <<late, installs, inFlight, creating, clock, failed>>
      /\ req' = [req EXCEPT ![b].pc = "landed"]
  BY DEF Land, ghosts
<1>2. /\ req'[b].pc = "landed" /\ \A c \in Batch \ {b} : req'[c] = req[c]
      /\ req'[b].evs = r.evs /\ req'[b].recs = r.recs /\ req'[b].create = r.create
      /\ req'[b].received = r.received /\ req'[b].dup = r.dup /\ req'[b].wait = r.wait
  <2> DEFINE new == [r EXCEPT !.pc = "landed"]
  <2>1. /\ new.pc = "landed" /\ new.evs = r.evs /\ new.recs = r.recs /\ new.create = r.create
        /\ new.received = r.received /\ new.dup = r.dup /\ new.wait = r.wait
    BY DEF Requests
  <2>2. req' = [req EXCEPT ![b] = new]
    BY <1>1
  <2> HIDE DEF new
  <2> QED
    BY <2>1, <2>2 DEF AgesInv, LogInv, TypeOK
<1>3. \A i : Clean(i)' <=> Clean(i)
  BY <1>1 DEF Clean
<1>4. ASSUME NEW i \in Installation, Clean(i)
      PROVE  /\ QualifyingOf(r, i) = {} => Stamps(i)' = Stamps(i)
             /\ QualifyingOf(r, i) # {} /\ r.recs[i] # None =>
                   /\ Stamps(i) # {} /\ Stamps(i)' # {} /\ FirstOf(Stamps(i)') = FirstOf(Stamps(i))
                   /\ r.recs[i] = Install(i)
             /\ QualifyingOf(r, i) # {} /\ r.recs[i] = None =>
                   /\ Stamps(i) = {} /\ Install(i)' = Created(r, i)
                   /\ i \in r.create /\ creating[i] # <<>> /\ Head(creating[i]) = b
  BY <1>4, LandRecord
<1>5. ASSUME NEW i \in Installation
      PROVE  /\ Install(i) = InstallAmong(Stamps(i)) /\ Install(i)' = InstallAmong(Stamps(i)')
             /\ Install(i) = None <=> Stamps(i) = {}
             /\ \A S, T : S # {} /\ T # {} /\ FirstOf(S) = FirstOf(T) => InstallAmong(S) = InstallAmong(T)
  <2>1. TypeOK
    BY DEF AgesInv, LogInv
  <2>2. Install(i) = None <=> Stamps(i) = {}
    BY <2>1, InstallFacts
  <2>3. Install(i) = InstallAmong(Stamps(i)) /\ Install(i)' = InstallAmong(Stamps(i)')
    BY DEF Install, Stamps
  <2>4. \A S, T : S # {} /\ T # {} /\ FirstOf(S) = FirstOf(T) => InstallAmong(S) = InstallAmong(T)
    BY DEF InstallAmong
  <2> QED
    BY <2>2, <2>3, <2>4
<1>6. ASSUME NEW i \in Installation, Clean(i), ~(QualifyingOf(r, i) # {} /\ r.recs[i] = None)
      PROVE  /\ Install(i)' = Install(i) /\ (Stamps(i)' = {} <=> Stamps(i) = {})
             /\ Stamps(i) # {} => FirstOf(Stamps(i)') = FirstOf(Stamps(i))
  <2>1. Stamps(i)' = Stamps(i) \/
           (Stamps(i) # {} /\ Stamps(i)' # {} /\ FirstOf(Stamps(i)') = FirstOf(Stamps(i)))
    BY <1>4, <1>6
  <2> QED
    BY <1>5, <2>1
<1>7. ASSUME NEW i \in Installation, Clean(i)
      PROVE  installs'[i] \in {Unknown, None, Install(i)'}
  <2>1. installs[i] \in {Unknown, None, Install(i)}
    BY <1>7 DEF AgesInv, RecordsAgree
  <2>2. Install(i)' = Install(i) \/ Install(i) = None
    BY <1>4, <1>5, <1>6, <1>7
  <2> QED
    BY <1>1, <2>1, <2>2
<1>8. ASSUME NEW i \in Installation, NEW c \in Batch, Clean(i)
      PROVE  RecordFits(i, c)'
  <2>1. RecordFits(i, c)
    BY <1>8 DEF AgesInv, RecordsAgree
  <2>2. QualifyingOf(req[c], i)' = QualifyingOf(req[c], i) /\ req'[c].recs = req[c].recs
        /\ req'[c].create = req[c].create /\ req'[c].received = req[c].received
        /\ Created(req[c], i)' = Created(req[c], i)
    <3>1. /\ req'[c].evs = req[c].evs /\ req'[c].recs = req[c].recs /\ req'[c].create = req[c].create
          /\ req'[c].received = req[c].received /\ req'[c].dup = req[c].dup
      BY <1>2
    <3>2. QualifyingOf(req[c], i)' = QualifyingOf(req[c], i)
      BY <3>1 DEF QualifyingOf
    <3>3. \A e : StampOf(req[c], e)' = StampOf(req[c], e)
      BY <3>1 DEF StampOf
    <3>4. Created(req[c], i)' = Created(req[c], i)
      BY <3>1, <3>2, <3>3 DEF Created, QualifyingOf, StampOf
    <3> QED
      BY <3>1, <3>2, <3>4
  <2>3. CASE QualifyingOf(r, i) # {} /\ r.recs[i] = None
    <3>1. Install(i) = None /\ Stamps(i) = {} /\ Install(i)' = Created(r, i)
          /\ i \in r.create /\ creating[i] # <<>> /\ Head(creating[i]) = b
      BY <1>4, <1>5, <1>8, <2>3
    <3>2. CASE c = b
      BY <1>1, <1>2, <2>1, <2>2, <2>3, <3>1, <3>2 DEF RecordFits
    <3>3. CASE c # b
      BY <1>1, <1>2, <2>1, <2>2, <3>1, <3>3 DEF RecordFits
    <3> QED
      BY <3>2, <3>3
  <2>4. CASE ~(QualifyingOf(r, i) # {} /\ r.recs[i] = None)
    <3>1. /\ Install(i)' = Install(i) /\ (Stamps(i)' = {} <=> Stamps(i) = {})
          /\ Stamps(i) # {} => FirstOf(Stamps(i)') = FirstOf(Stamps(i))
      BY <1>6, <1>8, <2>4
    <3>2. CASE c = b
      BY <1>1, <1>2, <2>1, <2>2, <2>4, <3>1, <3>2 DEF RecordFits, Stamped, Sending
    <3>3. CASE c # b
      BY <1>1, <1>2, <2>1, <2>2, <3>1, <3>3 DEF RecordFits
    <3> QED
      BY <3>2, <3>3
  <2> QED
    BY <2>3, <2>4
<1>9. ASSUME NEW e \in Event
      PROVE  /\ states[e] \subseteq states'[e] /\ events[e] \subseteq events'[e]
             /\ e \in r.evs => StampOf(r, e) \in states'[e]
             /\ \A t \in states'[e] : t \in states[e] \/ (e \in r.evs /\ t = StampOf(r, e))
             /\ \A x \in events'[e] : x \in events[e] \/
                   (e \in r.evs /\ x.received = StampOf(r, e) /\ x.base = InstallTime(r, InstallationOf[e]))
  BY <1>9, LandFacts
<1>10. ASSUME NEW e \in Event, Clean(InstallationOf[e])
       PROVE  StampOf(r, e) <= clock
  <2>1. CopyFits(e, b) /\ r.received <= clock /\ \A t \in states[e] : t <= clock
    BY <1>10 DEF AgesInv, CopiesAgree, TimesPast
  <2> QED
    BY <2>1 DEF CopyFits, StampOf
<1>11. TimesPast'
  BY <1>1, <1>2, <1>3, <1>9, <1>10 DEF AgesInv, TimesPast
<1>12. CopiesAgree'
  <2> SUFFICES ASSUME NEW e \in Event, Clean(InstallationOf[e])
               PROVE  /\ \A x \in events'[e] : x.received \in states'[e]
                      /\ \A c \in Batch : CopyFits(e, c)'
    BY <1>3 DEF CopiesAgree
  <2>1. \A x \in events[e] : x.received \in states[e]
    BY DEF AgesInv, CopiesAgree
  <2>2. \A x \in events'[e] : x.received \in states'[e]
    BY <1>9, <2>1
  <2>3. ASSUME NEW c \in Batch PROVE CopyFits(e, c)'
    <3>1. CopyFits(e, c)
      BY DEF AgesInv, CopiesAgree
    <3>2. StampOf(req[c], e)' = StampOf(req[c], e)
      BY <1>2 DEF StampOf
    <3>3. CASE c = b
      BY <1>1, <1>2, <1>9, <3>1, <3>2, <3>3 DEF CopyFits
    <3>4. CASE c # b
      BY <1>1, <1>2, <1>9, <3>1, <3>2, <3>4 DEF CopyFits
    <3> QED
      BY <3>3, <3>4
  <2> QED
    BY <2>2, <2>3
<1>13. RecordsAgree'
  BY <1>3, <1>7, <1>8 DEF RecordsAgree
<1>14. AgesFromInstall'
  <2> SUFFICES ASSUME NEW e \in Qualifying, (\A f \in failed' : InstallationOf[f] # InstallationOf[e]),
                      NEW x \in events'[e]
               PROVE  x.base = Install(InstallationOf[e])'
    BY DEF AgesFromInstall
  <2> PICK i \in Installation : i = InstallationOf[e]
    BY ShapeAssumption
  <2>1. e \in Event /\ Clean(i) /\ \A f \in failed : InstallationOf[f] # InstallationOf[e]
    BY <1>1, ShapeAssumption DEF Clean
  <2>2. CASE x \in events[e]
    <3>1. x.base = Install(i)
      BY <2>1, <2>2 DEF AgesInv, AgesFromInstall
    <3>2. x.received \in states[e] /\ x.received \in Time
      BY <2>1, <2>2 DEF AgesInv, CopiesAgree, LogInv, TypeOK
    <3>3. Stamps(i) # {}
      BY <2>1, <3>2, StampsFacts DEF Stamps, AgesInv, LogInv, TypeOK
    <3>4. Install(i)' = Install(i)
      BY <1>4, <1>6, <2>1, <3>3
    <3> QED
      BY <3>1, <3>4
  <2>3. CASE x \notin events[e]
    <3>1. e \in r.evs /\ x.base = InstallTime(r, i)
      BY <1>9, <2>1, <2>3
    <3>2. e \in QualifyingOf(r, i)
      BY <3>1 DEF QualifyingOf
    <3>3. CASE r.recs[i] = None
      BY <1>4, <2>1, <3>1, <3>2, <3>3 DEF InstallTime
    <3>4. CASE r.recs[i] # None
      <4>1. r.recs[i] = Install(i) /\ Install(i)' = Install(i)
        BY <1>4, <1>6, <2>1, <3>2, <3>4
      <4> QED
        BY <3>1, <3>4, <4>1 DEF InstallTime
    <3> QED
      BY <3>3, <3>4
  <2> QED
    BY <2>2, <2>3
<1> QED
  BY <1>11, <1>12, <1>13, <1>14 DEF AgesInv

LEMMA InitAges == Init => AgesInv
<1> SUFFICES ASSUME Init PROVE AgesInv
  OBVIOUS
<1>1. LogInv
  BY InitLog
<1>2. /\ \A b \in Batch : req[b] = Idle
      /\ \A e \in Event : inFlight[e].by \notin Batch /\ events[e] = {} /\ states[e] = {}
      /\ \A i \in Installation : installs[i] = Unknown
      /\ late = {} /\ clock = 0
  BY ShapeAssumption DEF Init, Free
<1>3. TimesPast
  BY <1>2, IdleFacts DEF TimesPast
<1>4. CopiesAgree
  BY <1>2, IdleFacts DEF CopiesAgree, CopyFits
<1>5. RecordsAgree
  <2>1. \A i \in Installation, c \in Batch : QualifyingOf(req[c], i) = {}
    BY <1>2, IdleFacts DEF QualifyingOf
  <2> QED
    BY <1>2, <2>1, IdleFacts DEF RecordsAgree, RecordFits
<1>6. AgesFromInstall
  BY <1>2, ShapeAssumption DEF AgesFromInstall
<1> QED
  BY <1>1, <1>3, <1>4, <1>5, <1>6 DEF AgesInv

LEMMA AgesInductive == AgesInv /\ [Next]_vars => AgesInv'
<1> SUFFICES ASSUME AgesInv, [Next]_vars PROVE AgesInv'
  OBVIOUS
<1>1. LogInv'
  BY LogInductive DEF AgesInv
<1>2. CASE UNCHANGED vars
  <2>1. UNCHANGED <<events, states, req, creating, clock, failed, late, inFlight, installs>>
    BY <1>2 DEF vars
  <2> QED
    BY <1>1, <2>1, QuietKeepsAges
<1>3. ASSUME NEW b \in Batch, Arrive(b) \/ Work(b) \/ ReadFails(b) \/ InsertFails(b)
      PROVE  AgesInv'
  BY <1>1, <1>3, ArriveKeepsAges, ReadInstallsKeepsAges, CacheInstallsKeepsAges, TakeLockKeepsAges,
     RecacheKeepsAges, ResumeKeepsAges, LookupKeepsAges, LandKeepsAges, AcknowledgeKeepsAges,
     ReadFailsKeepsAges, InsertFailsKeepsAges DEF Work
<1>4. CASE \/ \E rows \in late : Settle(rows)
           \/ \E e \in Event : Unblock(e)
           \/ \E i \in Installation : Evict(i)
           \/ WarmUp
  BY <1>1, <1>4, QuietStepsKeepAges
<1>5. CASE Restart
  BY <1>1, <1>5, RestartKeepsAges
<1> QED
  BY <1>2, <1>3, <1>4, <1>5 DEF Next

\* Whatever batches create an installation together, every stored age of its
\* qualifying events is counted from its one install time: the lock admits one
\* creator at a time, and the received time taken under it is later than every
\* other's.
THEOREM AgesAgree == Spec => []AgesFromInstall
<1>1. Init => AgesInv
  BY InitAges
<1>2. AgesInv /\ [Next]_vars => AgesInv'
  BY AgesInductive
<1>3. AgesInv => AgesFromInstall
  BY DEF AgesInv
<1> QED
  BY <1>1, <1>2, <1>3, PTL DEF Spec
=============================================================================
